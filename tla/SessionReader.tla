--------------------------- MODULE SessionReader ---------------------------
(***************************************************************************)
(* SessionReader::open on arbitrary files, sound or damaged.  Two readers  *)
(* open the same file: one when it has `cut' cells, the other when it has  *)
(* them all, as when a session is opened while its writer is still adding  *)
(* chunks, or after a crash or a copy that lost the end.                   *)
(***************************************************************************)
EXTENDS ReaderCore

CONSTANT Files      \* the cell sequences that are read

ASSUME FilesAssumption == Files \subseteq Seq(FileCells)

VARIABLES
    file,       \* the file
    cut,        \* the length the early reader saw
    early,      \* the reader of the first `cut' cells
    late        \* the reader of the whole file

vars == <<file, cut, early, late>>

Init ==
    /\ file \in Files
    /\ cut \in 0..Len(file)
    /\ early = OpenReader(TRUE, cut)
    /\ late = OpenReader(TRUE, Len(file))

StepEarly == /\ early.pc = "scan"
             /\ early' = ReadStep(early, file)
             /\ UNCHANGED <<file, cut, late>>

\* The early reader is scheduled first; the two share nothing but the file.
StepLate == /\ early.pc # "scan"
            /\ late.pc = "scan"
            /\ late' = ReadStep(late, file)
            /\ UNCHANGED <<file, cut, early>>

Next == StepEarly \/ StepLate

\* Each iteration of the loop runs to its end.
Spec == Init /\ [][Next]_vars /\ WF_vars(Next)

-----------------------------------------------------------------------------
(* Properties *)

\* Torn-tail recovery is safe under truncation: cut a file that reader.rs can
\* read at any point, and it still reads it, to a prefix of the same events
\* and a subset of the same dictionary.
TruncationSafe ==
    early.pc # "scan" /\ late.pc = "done" =>
        /\ early.pc = "done"
        /\ early.events = SubSeq(late.events, 1, Len(early.events))
        /\ early.dictionary.entries \subseteq late.dictionary.entries

\* Fail-closed: a reader that returns a session has resolved every id of
\* every event, with one name for each id, and has events numbered 1, 2, ...
SoundSession(r) ==
    r.pc = "done" =>
        /\ \A i \in DOMAIN r.events :
              r.events[i].event_sequence = i /\ RefsResolve(r.dictionary, r.events[i])
        /\ \A e, f \in r.dictionary.entries : Key(e) = Key(f) => e = f

\* What open returns is sound, whatever the file holds.
FailClosed == SoundSession(early) /\ SoundSession(late)

\* had_torn_tail is reported exactly when cells of the file were not used.
TornTailReported ==
    /\ early.pc = "done" => (early.torn_tail <=> early.offset < cut)
    /\ late.pc = "done" => (late.torn_tail <=> late.offset < Len(file))

\* Opening a file always ends: the loop never rereads a position.
Terminates == <>(early.pc # "scan" /\ late.pc # "scan")
=============================================================================
