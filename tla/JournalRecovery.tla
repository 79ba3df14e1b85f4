--------------------------- MODULE JournalRecovery ---------------------------
(***************************************************************************)
(* A writer and a reader of the same file (writer.rs with reader.rs): the  *)
(* reader may open the journal at any moment, while calls are in progress, *)
(* after an I/O error, after finish, or after a crash.  Between two steps  *)
(* of its scan the writer may run; the reader sees the file only up to the *)
(* length it took when it opened it.                                       *)
(***************************************************************************)
EXTENDS SessionWriter, ReaderCore

VARIABLES
    reader,         \* the reader, once it has opened the file
    opened,         \* whether it has
    stableAtOpen    \* history: events promised when it did

readerVars == <<reader, opened, stableAtOpen>>

RInit ==
    /\ Init
    /\ reader = OpenReader(FALSE, 0)
    /\ opened = FALSE
    /\ stableAtOpen = 0

WriterStep == Next /\ UNCHANGED readerVars

\* SessionReader::open reads the file header and the length of the file.
Open ==
    /\ ~opened
    /\ status # "new"
    /\ opened' = TRUE
    /\ reader' = OpenReader(header, Len(writer.disk))
    /\ stableAtOpen' = stable
    /\ UNCHANGED vars

\* One iteration of its loop, on the file as it is by now.
Scan ==
    /\ opened
    /\ reader.pc = "scan"
    /\ reader' = ReadStep(reader, writer.disk)
    /\ UNCHANGED <<opened, stableAtOpen>>
    /\ UNCHANGED vars

RNext == WriterStep \/ Open \/ Scan

RSpec == RInit /\ [][RNext]_<<vars, readerVars>>

-----------------------------------------------------------------------------
(* Properties *)

\* The first len cells of c hold a fragment of a chunk header, with something
\* written behind it.
CutHeader(c, len) == \E k \in 1..(len - 1) : c[k].part = 0 \/ c[k].chunk.payload_len # 1

\* SessionReader::open never rejects a journal SessionWriter wrote, whenever
\* it is opened and however the writer ended, as soon as the file header is
\* there: a short write is at worst a torn tail, unless it cut the header of
\* a chunk and a retry has written behind it (reader.rs:52-55 and :74).
NeverRejects ==
    opened /\ header /\ ~CutHeader(writer.disk, reader.file_len) => reader.pc # "error"

\* What it returns is a prefix of the events append_event recorded, in order,
\* even when a short write left part of a chunk inside the file.
ReadsPrefix ==
    opened /\ reader.pc = "done" =>
        /\ Len(reader.events) <= Len(accepted)
        /\ reader.events = SubSeq(accepted, 1, Len(reader.events))

\* It returns at least what acknowledged flushes had promised when the file
\* was opened, unless a retried write follows a fragment of a chunk.
ReadsStable ==
    opened /\ reader.pc = "done" /\ ChunksInOrder(writer.disk)
        => Len(reader.events) >= stableAtOpen
=============================================================================
