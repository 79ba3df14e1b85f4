------------------------- MODULE MCJournalRecovery -------------------------
(* A small instance of JournalRecovery for TLC. *)
EXTENDS JournalRecovery

MCKinds == {"domain"}
MCNames == {"a", "b"}
MCInternInputs == {<<"domain", "a">>, <<"domain", "b">>}

MCEvent(id) == [event_sequence |-> 0, refs |-> {<<"domain", id>>}, size |-> 1]
MCEventInputs == {MCEvent(1), MCEvent(2)}
=============================================================================
