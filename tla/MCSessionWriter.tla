-------------------------- MODULE MCSessionWriter --------------------------
(* Small instances of SessionWriter for TLC. *)
EXTENDS SessionWriter

MCNames == {"a", "b", "long"}
MCLongNames == {"long"}

MCKinds == {"domain", "string"}

\* Two names of one kind, and one over the limit.
MCInternInputs == {<<"domain", "a">>, <<"domain", "b">>, <<"domain", "long">>}

MCEvent(refs, size) == [event_sequence |-> 0, refs |-> refs, size |-> size]

\* A plain event, one so large that two of them exceed a chunk, one that
\* needs a second name, one over the event limit, one with an unknown id.
Plain     == MCEvent({<<"domain", 1>>}, 1)
Large     == MCEvent({<<"domain", 1>>}, 3)
Tagged    == MCEvent({<<"domain", 1>>, <<"domain", 2>>}, 1)
Oversized == MCEvent({<<"domain", 1>>}, 4)
Unknown   == MCEvent({<<"string", 1>>}, 1)

MCEventInputs == {Plain, Large, Tagged, Oversized, Unknown}

\* Fewer inputs for the run with short writes.
MCFewInterns == {<<"domain", "a">>, <<"string", "a">>}
MCFewEvents == {Plain, Oversized}
=============================================================================
