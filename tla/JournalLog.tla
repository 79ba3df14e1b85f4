----------------------------- MODULE JournalLog -----------------------------
(***************************************************************************)
(* What a DTJ session promises, without chunks, buffers or a dictionary: a *)
(* log that only grows while the session is open, of which a reader of the *)
(* file sees a prefix.  The prefix a reader sees never shrinks, not even   *)
(* when the writer crashes, and an acknowledged flush covers every event   *)
(* recorded before it.                                                     *)
(***************************************************************************)
EXTENDS Naturals, Sequences

CONSTANT Record     \* the events that can be recorded

VARIABLES
    log,        \* every event recorded, in order
    visible,    \* how many of them a reader of the file recovers
    stable,     \* how many an acknowledged flush has promised
    open        \* whether the session still has a writer

logVars == <<log, visible, stable, open>>

LogInit == log = <<>> /\ visible = 0 /\ stable = 0 /\ open = TRUE

\* Events reach the file in order; only what is in it can be promised.
Advance == /\ visible' \in visible..Len(log')
           /\ stable' \in stable..visible'

\* An event is recorded, and part of the log may reach the file.
LogAppend == /\ open /\ UNCHANGED open
             /\ \E ev \in Record : log' = Append(log, ev)
             /\ Advance

\* Part of the log reaches the file.
LogSync == open /\ UNCHANGED <<log, open>> /\ Advance

\* The session ends: finished, dropped or crashed.
LogClose == open /\ open' = FALSE /\ UNCHANGED log /\ Advance

LogNext == LogAppend \/ LogSync \/ LogClose

LogSpec == LogInit /\ [][LogNext]_logVars
=============================================================================
