--------------------------- MODULE SessionWriter ---------------------------
(***************************************************************************)
(* One DTJ session writer (crates/dtj/src/writer.rs) from create to its    *)
(* end: finish, drop or a crash of the process.  The caller interns names, *)
(* appends events and flushes in any order; I/O errors may hit any call.   *)
(***************************************************************************)
EXTENDS WriterCore

CONSTANTS
    InternInputs,   \* the <<kind, name>> pairs a caller may intern
    EventInputs,    \* the events a caller may append
    MaxEvents,      \* bound on the recorded events
    MaxFaults       \* bound on the calls that meet an I/O error

ASSUME WriterAssumption ==
    /\ InternInputs \subseteq Kinds \X Names
    /\ EventInputs \subseteq Events
    /\ MaxEvents \in Nat
    /\ MaxFaults \in Nat

VARIABLES
    header,     \* the 128-byte file header is in the file
    status,     \* new, open, finished, dropped or crashed
    writer,     \* the SessionWriter and its file
    accepted,   \* history: events recorded by append_event, in order
    stable,     \* history: how many of them an Ok flush covered
    faults,     \* calls that met an I/O error
    last        \* what the last call returned

vars == <<header, status, writer, accepted, stable, faults, last>>

Statuses == {"new", "open", "finished", "dropped", "crashed"}

Ops == {"none", "create", "intern", "append", "flush", "finish", "drop", "crash"}

Result(op, ok) == [op |-> op, ok |-> ok]

Init ==
    /\ header = FALSE
    /\ status = "new"
    /\ writer = NewWriter
    /\ accepted = <<>>
    /\ stable = 0
    /\ faults = 0
    /\ last = Result("none", TRUE)

\* A call that may fail for an I/O reason uses up one fault when it does.
Faulty(canFail) == /\ canFail => faults < MaxFaults
                   /\ faults' = IF canFail THEN faults + 1 ELSE faults

\* Once the writer is gone only its file remains.
Gone(disk) == [NewWriter EXCEPT !.disk = disk]

\* SessionWriter::create: the file is truncated and gets its header.
Create ==
    /\ status = "new"
    /\ header' = TRUE
    /\ status' = "open"
    /\ last' = Result("create", TRUE)
    /\ UNCHANGED <<writer, accepted, stable, faults>>

\* create fails, or the process dies in it: no whole header, no writer.
CreateFails ==
    /\ status = "new"
    /\ status' = "dropped"
    /\ last' = Result("create", FALSE)
    /\ UNCHANGED <<header, writer, accepted, stable, faults>>

InternName(kind, name) ==
    LET o == Intern(writer, kind, name)
    IN  /\ status = "open"
        /\ writer' = o.w
        /\ last' = Result("intern", o.ok)
        /\ UNCHANGED <<header, status, accepted, stable, faults>>

\* An event was recorded exactly when a sequence number was taken.
AppendCall(ev, canFail) ==
    /\ status = "open"
    /\ Len(accepted) < MaxEvents
    /\ Faulty(canFail)
    /\ \E o \in AppendEvent(writer, ev, canFail) :
        /\ writer' = o.w
        /\ accepted' = IF o.w.next_event_seq = writer.next_event_seq THEN accepted
                       ELSE Append(accepted, [ev EXCEPT !.event_sequence = writer.next_event_seq])
        /\ stable' = IF o.ok /\ o.w.pending_events = <<>> THEN Len(accepted') ELSE stable
        /\ last' = Result("append", o.ok)
    /\ UNCHANGED <<header, status>>

FlushCall(canFail) ==
    /\ status = "open"
    /\ Faulty(canFail)
    /\ \E o \in FlushChunk(writer, canFail) :
        /\ writer' = o.w
        /\ stable' = IF o.ok THEN Len(accepted) ELSE stable
        /\ last' = Result("flush", o.ok)
    /\ UNCHANGED <<header, status, accepted>>

FinishCall(canFail) ==
    /\ status = "open"
    /\ Faulty(canFail)
    /\ \E o \in Finish(writer, canFail) :
        /\ writer' = Gone(o.w.disk)
        /\ stable' = IF o.ok THEN Len(accepted) ELSE stable
        /\ last' = Result("finish", o.ok)
    /\ status' = "finished"
    /\ UNCHANGED <<header, accepted>>

\* The writer goes out of scope without finish: nothing pending is written.
DropCall(canFail) ==
    /\ status = "open"
    /\ Faulty(canFail)
    /\ \E d \in DropWriter(writer, canFail) : writer' = Gone(d.disk)
    /\ status' = "dropped"
    /\ last' = Result("drop", TRUE)
    /\ UNCHANGED <<header, accepted, stable>>

\* The process dies, between two calls or inside a flush.
Crash ==
    /\ status = "open"
    /\ \E image \in CrashImages(writer) : writer' = Gone(image)
    /\ status' = "crashed"
    /\ last' = Result("crash", FALSE)
    /\ UNCHANGED <<header, accepted, stable, faults>>

Next ==
    \/ Create
    \/ CreateFails
    \/ \E in \in InternInputs : InternName(in[1], in[2])
    \/ \E ev \in EventInputs, canFail \in BOOLEAN : AppendCall(ev, canFail)
    \/ \E canFail \in BOOLEAN : FlushCall(canFail)
    \/ \E canFail \in BOOLEAN : FinishCall(canFail)
    \/ \E canFail \in BOOLEAN : DropCall(canFail)
    \/ Crash

Spec == Init /\ [][Next]_vars

-----------------------------------------------------------------------------
(* Properties *)

\* Every variable stays in its type: in particular writer.rs keeps no cell in
\* the file or in the BufWriter that is not part of an encoded chunk.
TypeOK ==
    /\ header \in BOOLEAN
    /\ status \in Statuses
    /\ writer \in WriterStates
    /\ accepted \in Seq(Events)
    /\ stable \in Nat
    /\ faults \in Nat
    /\ last \in [op : Ops, ok : BOOLEAN]

\* Crash recovery (specs/dtj-format-v1.md, "A crash leaves all prior committed
\* chunks recoverable"): cut the file anywhere, and what its whole chunks hold
\* is a prefix of the events append_event recorded: no gap, and nothing that
\* was never recorded.
RecoverablePrefix ==
    \A k \in 0..Len(writer.disk) :
        LET found == EventsIn(SubSeq(writer.disk, 1, k))
        IN  /\ found \subseteq RangeOf(accepted)
            /\ \A i, j \in 1..Len(accepted) :
                  i < j /\ accepted[j] \in found => accepted[i] \in found

\* flush_chunk writes the dictionary before the events that use it: cut the
\* file anywhere, and every dictionary id an event mentions is defined by a
\* chunk that survived the cut.
RefsRecoverable ==
    \A k \in 0..Len(writer.disk) :
        LET cut == SubSeq(writer.disk, 1, k)
        IN  \A ev \in EventsIn(cut) : ev.refs \subseteq {Key(e) : e \in EntriesIn(cut)}

\* An Ok from flush_chunk, finish or an append_event that flushed covers every
\* event recorded before it, and no later call, error or crash takes it back.
StableRecoverable ==
    \A i \in 1..stable : accepted[i] \in EventsIn(writer.disk)

\* A failed flush_chunk loses nothing by itself: while the writer lives, each
\* recorded event is in a sealed chunk or still pending, never both.
NothingLostWhileOpen ==
    status = "open" =>
        LET pending == RangeOf(writer.pending_events)
            sealed  == EventsIn(Stream(writer))
        IN  pending \cap sealed = {} /\ pending \cup sealed = RangeOf(accepted)

\* The dictionary a reader rebuilds from the file agrees with the ids intern
\* handed out, an id has one name, and a name one id per kind.
DictionaryConsistent ==
    LET written == EntriesIn(Stream(writer))
        all == IF status = "open" THEN writer.dictionary.entries ELSE written
    IN  /\ written \subseteq all
        /\ status = "open" => written \cup RangeOf(writer.pending_dict) = all
        /\ \A e, f \in all : e.kind = f.kind /\ (e.id = f.id \/ e.name = f.name) => e = f

-----------------------------------------------------------------------------
(* The invariant behind these properties, for a writer none of whose writes *)
(* was cut short (PartialWrites = FALSE).                                   *)

\* The inductive invariant of the writer (writer.rs, append_event and
\* flush_chunk): sequence numbers, chunk order, dictionary-before-events and
\* the split of recorded events between the file, the buffer and pending.
IndInv ==
    /\ \A n \in 1..Len(accepted) : accepted[n].event_sequence = n
    /\ GoodCells(writer.disk, accepted)
    /\ stable <= Len(accepted)
    /\ \A n \in 1..stable : \E k \in 1..Len(writer.disk) : HasEvent(writer.disk, k, accepted[n])
    /\ status = "new" => writer = NewWriter /\ accepted = <<>>
    /\ status = "open" => WriterInv(writer, accepted)
    /\ status # "open" => writer.buf = <<>>

\* The inductive invariant of the writer whatever its writes leave behind
\* (writer.rs, flush_chunk on a BufWriter whose write_all may be cut short):
\* the file is sound up to the first fragment, and as long as no chunk is
\* missing in it, it holds what was promised.
ShortInv ==
    /\ \A n \in 1..Len(accepted) : accepted[n].event_sequence = n
    /\ SoundCells(writer.disk, accepted)
    /\ stable <= Len(accepted)
    /\ ChunksInOrder(writer.disk) =>
          \A n \in 1..stable : \E k \in 1..Len(writer.disk) : HasEvent(writer.disk, k, accepted[n])
    /\ status = "new" => writer = NewWriter /\ accepted = <<>>
    /\ status = "open" => WriterInv(writer, accepted) \/ TornWriter(writer, accepted)
    /\ status # "open" => writer.buf = <<>>

-----------------------------------------------------------------------------
\* The event records a session can come to hold.
Recordable == {[ev EXCEPT !.event_sequence = n] : ev \in EventInputs, n \in 1..MaxEvents}

\* The session as JournalLog describes it.
Log == INSTANCE JournalLog WITH
    Record <- Recordable,
    log <- accepted,
    visible <- Cardinality(EventsIn(writer.disk)),
    stable <- stable,
    open <- status \in {"new", "open"}

\* The writer implements the log: no call, I/O error or crash shrinks what a
\* reader recovers, and an acknowledged flush is kept.
ImplementsLog == Log!LogSpec
=============================================================================
