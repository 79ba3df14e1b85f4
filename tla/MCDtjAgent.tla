----------------------------- MODULE MCDtjAgent -----------------------------
(* Small instances of DtjAgent for TLC. *)
EXTENDS DtjAgent

MCKinds == {"domain"}
MCNames == {"a"}
MCInternInputs == {<<"domain", "a">>}

MCEvent(id, size) == [event_sequence |-> 0, refs |-> {<<"domain", id>>}, size |-> size]

\* An ordinary event, and one over the event limit.
MCEventInputs == {MCEvent(1, 1), MCEvent(1, 2)}

\* The frames of this agent's client and the steps of the other agents are
\* explored one at a time: neither reads what the other changes.
OneAtATime ==
    (inbox = None /\ ~hello_done) \/ \A a \in Agents \ {Me} : proc[a] = "starting"
=============================================================================
