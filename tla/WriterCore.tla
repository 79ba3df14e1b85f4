----------------------------- MODULE WriterCore -----------------------------
(***************************************************************************)
(* The operations of SessionWriter (crates/dtj/src/writer.rs) on one       *)
(* writer and the file it owns, as functions from a writer state to the    *)
(* set of outcomes the call can have.  SessionWriter.tla makes a state     *)
(* machine of them; the agent calls the same operators.                    *)
(*                                                                         *)
(* File I/O: `disk' is what write(2) has handed to the file, `buf' what    *)
(* still sits in the BufWriter.  A call with canFail = TRUE may meet an    *)
(* I/O error (a full disk, for instance); PartialWrites says whether such  *)
(* an error can leave part of a chunk in the file, which BufWriter does    *)
(* when it writes a chunk larger than its buffer straight to the file.     *)
(***************************************************************************)
EXTENDS DtjFormat

CONSTANT PartialWrites

ASSUME PartialWritesAssumption == PartialWrites \in BOOLEAN

\* The fields of SessionWriter, with the BufWriter split into buf and disk.
WriterStates ==
    [dictionary : Dictionary, pending_dict : Seq(DictEntry),
     pending_events : Seq(Events), next_chunk_seq : Nat, next_event_seq : Nat,
     buf : Seq(Cells), disk : Seq(Cells)]

\* SessionWriter::create, after the file header has reached the file.
NewWriter ==
    [dictionary |-> EmptyDictionary, pending_dict |-> <<>>, pending_events |-> <<>>,
     next_chunk_seq |-> 1, next_event_seq |-> 1, buf |-> <<>>, disk |-> <<>>]

\* What a call returns: the writer afterwards, Ok or Err, and the Ok value.
Outcome(w, ok, val) == [w |-> w, ok |-> ok, val |-> val]

\* Everything written so far, in file order.
Stream(w) == w.disk \o w.buf

\* The stream s, of which the first k cells have reached the file.
Placed(w, s, k) == [w EXCEPT !.disk = SubSeq(s, 1, k), !.buf = SubSeq(s, k + 1, Len(s))]

-----------------------------------------------------------------------------
(* BufWriter *)

\* write_all: the cells stay in the buffer, or the buffer is emptied first,
\* or (a large chunk) everything goes straight to the file.
WriteAllOk(w, cells) ==
    LET s == Stream(w) \o cells
    IN  {Outcome(Placed(w, s, k), TRUE, 0) :
            k \in {Len(w.disk), Len(w.disk) + Len(w.buf), Len(s)}}

\* write_all fails while it empties the buffer: some of it reached the file,
\* the new cells were not taken.
WriteAllRefused(w) ==
    {Outcome(Placed(w, Stream(w), k), FALSE, 0) : k \in Len(w.disk)..Len(Stream(w))}

\* What a direct write that is cut short leaves of a chunk, as a reader will
\* see it once something follows: its first cells; less than its magic; a
\* header cut before the end of its length field.
Fragments(cells) ==
    {SubSeq(cells, 1, j) : j \in 1..(Len(cells) - 1)} \cup {<<Scrap>>, <<Mixed(cells[1])>>}

\* write_all fails in the middle of a direct write.
WriteAllShort(w, cells) ==
    {Outcome(Placed(w, Stream(w) \o f, Len(Stream(w)) + Len(f)), FALSE, 0) : f \in Fragments(cells)}

WriteAll(w, cells, canFail) ==
    WriteAllOk(w, cells)
    \cup (IF canFail THEN WriteAllRefused(w) ELSE {})
    \cup (IF canFail /\ PartialWrites THEN WriteAllShort(w, cells) ELSE {})

\* BufWriter::flush.
Flush(w, canFail) ==
    {Outcome(Placed(w, Stream(w), Len(Stream(w))), TRUE, 0)}
    \cup (IF canFail THEN WriteAllRefused(w) ELSE {})

\* Dropping a BufWriter writes its buffer out and ignores an error.
DropWriter(w, canFail) == {o.w : o \in Flush(w, canFail)}

-----------------------------------------------------------------------------
(* SessionWriter *)

\* Mutant of Intern: next_id is not advanced.
InternReusesId(w, kind, name) ==
    LET dict  == w.dictionary
        entry == [kind |-> kind, id |-> dict.next_id[kind], name |-> name]
    IN  IF name \in LongNames \/ Named(dict, kind, name) # {} THEN Outcome(w, FALSE, 0)
        ELSE Outcome([w EXCEPT !.dictionary.entries = @ \cup {entry},
                               !.pending_dict = Append(@, entry)], TRUE, entry.id)

\* intern: only a new name takes an id and joins pending_dict.
Intern(w, kind, name) ==
    LET dict  == w.dictionary
        found == Named(dict, kind, name)
        entry == [kind |-> kind, id |-> dict.next_id[kind], name |-> name]
        grown == [entries |-> dict.entries \cup {entry},
                  next_id |-> [dict.next_id EXCEPT ![kind] = @ + 1]]
    IN  IF name \in LongNames THEN Outcome(w, FALSE, 0)
        ELSE IF found # {} THEN Outcome(w, TRUE, (CHOOSE e \in found : TRUE).id)
        ELSE Outcome([w EXCEPT !.dictionary = grown,
                               !.pending_dict = Append(@, entry)], TRUE, entry.id)

\* First half of flush_chunk: seal pending_dict into a Dictionary chunk.
SealDict(w, canFail) ==
    LET chunk == Chunk(DictType, w.next_chunk_seq, w.pending_dict)
    IN  IF w.pending_dict = <<>> THEN {Outcome(w, TRUE, 0)}
        ELSE IF ~EncodableEntries(w.pending_dict) THEN {Outcome(w, FALSE, 0)}
        ELSE {IF o.ok THEN [o EXCEPT !.w.next_chunk_seq = @ + 1, !.w.pending_dict = <<>>]
                      ELSE o :
              o \in WriteAll(w, EncodeCommittedChunk(chunk), canFail)}

\* SealEvents with the sealed chunk given, what becomes of the writer after
\* the write, and what becomes of it when nothing can be written.
SealEventsAs(w, canFail, type, after(_), failed(_)) ==
    LET chunk == Chunk(type, w.next_chunk_seq, w.pending_events)
    IN  IF w.pending_events = <<>> THEN {Outcome(w, TRUE, 0)}
        ELSE IF ~EncodableEvents(w.pending_events) THEN {Outcome(failed(w), FALSE, 0)}
        ELSE {[o EXCEPT !.w = IF o.ok THEN after(o.w) ELSE failed(o.w)] :
              o \in WriteAll(w, EncodeCommittedChunk(chunk), canFail)}

SealedAfter(w) == [w EXCEPT !.next_chunk_seq = @ + 1, !.pending_events = <<>>]
Unchanged(w) == w
NotCleared(w) == [w EXCEPT !.next_chunk_seq = @ + 1]
Cleared(w) == [w EXCEPT !.pending_events = <<>>]

\* Mutants of SealEvents: the chunk type of the Dictionary chunk above it; the
\* pending events are not cleared; they are cleared on an error too; the
\* chunk number is taken before the write.
SealEventsWrongType(w, canFail) == SealEventsAs(w, canFail, DictType, SealedAfter, Unchanged)
SealEventsKept(w, canFail) == SealEventsAs(w, canFail, EventType, NotCleared, Unchanged)
SealEventsDropped(w, canFail) == SealEventsAs(w, canFail, EventType, SealedAfter, Cleared)
SealEventsNumberFirst(w, canFail) == SealEventsAs(w, canFail, EventType, SealedAfter, NotCleared)

\* Second half: seal pending_events into an Event chunk.
SealEvents(w, canFail) ==
    LET chunk == Chunk(EventType, w.next_chunk_seq, w.pending_events)
    IN  IF w.pending_events = <<>> THEN {Outcome(w, TRUE, 0)}
        ELSE IF ~EncodableEvents(w.pending_events) THEN {Outcome(w, FALSE, 0)}
        ELSE {IF o.ok THEN [o EXCEPT !.w.next_chunk_seq = @ + 1, !.w.pending_events = <<>>]
                      ELSE o :
              o \in WriteAll(w, EncodeCommittedChunk(chunk), canFail)}

\* Mutants of FlushChunk: the event chunk is written first; the BufWriter is
\* not flushed.
FlushChunkEventsFirst(w, canFail) ==
    LET eventDone == SealEvents(w, canFail)
        dictDone  == UNION {IF o.ok THEN SealDict(o.w, canFail) ELSE {o} : o \in eventDone}
    IN  UNION {IF o.ok THEN Flush(o.w, canFail) ELSE {o} : o \in dictDone}

FlushChunkUnflushed(w, canFail) ==
    UNION {IF o.ok THEN SealEvents(o.w, canFail) ELSE {o} : o \in SealDict(w, canFail)}

\* flush_chunk: dictionary chunk, event chunk, BufWriter::flush.  An error
\* ends it (the `?' of each call) and keeps what was done before.
FlushChunk(w, canFail) ==
    LET dictDone  == SealDict(w, canFail)
        eventDone == UNION {IF o.ok THEN SealEvents(o.w, canFail) ELSE {o} : o \in dictDone}
    IN  UNION {IF o.ok THEN Flush(o.w, canFail) ELSE {o} : o \in eventDone}

\* Mutant of AppendEvent: the sequence number is not advanced.
AppendEventSameNumber(w, ev, canFail) ==
    LET rec == [ev EXCEPT !.event_sequence = w.next_event_seq]
        pushed == [w EXCEPT !.pending_events = Append(@, rec)]
    IN  IF ~RefsResolve(w.dictionary, ev) THEN {Outcome(w, FALSE, 0)}
        ELSE IF Len(pushed.pending_events) >= MaxEventsPerChunk THEN FlushChunk(pushed, canFail)
        ELSE {Outcome(pushed, TRUE, w.next_event_seq)}

\* append_event: every reference is checked before anything changes; the
\* event is recorded before the flush a full chunk triggers, so an error of
\* that flush is returned for an event that stays recorded.
AppendEvent(w, ev, canFail) ==
    LET seq == w.next_event_seq
        rec == [ev EXCEPT !.event_sequence = seq]
        pushed == [w EXCEPT !.next_event_seq = @ + 1,
                            !.pending_events = Append(@, rec)]
    IN  IF ~RefsResolve(w.dictionary, ev) THEN {Outcome(w, FALSE, 0)}
        ELSE IF Len(pushed.pending_events) >= MaxEventsPerChunk
             THEN {[o EXCEPT !.val = seq] : o \in FlushChunk(pushed, canFail)}
             ELSE {Outcome(pushed, TRUE, seq)}

\* Mutant of Finish: the writer is dropped without flush_chunk.
FinishDropsPending(w, canFail) == {Outcome(d, TRUE, 0) : d \in DropWriter(w, canFail)}

\* finish consumes the writer: after flush_chunk, Ok or Err, it is dropped.
Finish(w, canFail) ==
    UNION {{[o EXCEPT !.w = d] : d \in DropWriter(o.w, canFail)} : o \in FlushChunk(w, canFail)}

\* A crash in the middle of a flush: whatever a flush would have written,
\* the file keeps what it had and some of the rest.
CrashImages(w) ==
    UNION {{SubSeq(o.w.disk, 1, k) : k \in Len(w.disk)..Len(o.w.disk)} : o \in FlushChunk(w, FALSE)}

-----------------------------------------------------------------------------
(* What holds of the cells and the fields of a writer none of whose writes  *)
(* was cut short (PartialWrites = FALSE), with acc the events it recorded.  *)

\* Chunk k of the cells c is whole, and holds the event ev, or the entry e.
HasEvent(c, k, ev) ==
    /\ 3 * k <= Len(c)
    /\ ChunkAt(c, k).chunk_type = EventType
    /\ ev \in RangeOf(ChunkAt(c, k).payload)

HasEntry(c, k, e) ==
    /\ 3 * k <= Len(c)
    /\ ChunkAt(c, k).chunk_type = DictType
    /\ e \in RangeOf(ChunkAt(c, k).payload)

\* Every three cells are a whole chunk with the next sequence number.
ChunksInOrder(c) == \A k \in 1..Len(c) : 3 * k <= Len(c) => WholeChunk(c, k)

\* A chunk begins with its header, whole or not.
HeadersInPlace(c) == \A k \in 1..Len(c) : 3 * k - 2 <= Len(c) => c[3 * k - 2].part = 1

\* Chunks hold recorded events, each after all the events before it.
EventsInOrder(c, acc) ==
    /\ \A k \in 1..Len(c) :
          3 * k <= Len(c) /\ ChunkAt(c, k).chunk_type = EventType
             => RangeOf(ChunkAt(c, k).payload) \subseteq RangeOf(acc)
    /\ \A k \in 1..Len(c), n \in 1..Len(acc) :
          HasEvent(c, k, acc[n])
             => \A m \in 1..(n - 1) : \E j \in 1..k : HasEvent(c, j, acc[m])

\* Chunk j of c is whole and defines the dictionary key r.
Defines(c, j, r) ==
    /\ 3 * j <= Len(c)
    /\ ChunkAt(c, j).chunk_type = DictType
    /\ \E e \in RangeOf(ChunkAt(c, j).payload) : Key(e) = r

\* An id is defined in an earlier chunk than the events that mention it.
RefsInOrder(c, acc) ==
    \A k \in 1..Len(c), n \in 1..Len(acc) :
        HasEvent(c, k, acc[n])
           => \A r \in acc[n].refs : \E j \in 1..(k - 1) : Defines(c, j, r)

\* Event chunk k of c holds the stretch of the history that begins after the
\* b events of the chunks before it.
Stretch(c, k, acc, b) ==
    LET p == ChunkAt(c, k).payload
    IN  /\ b + Len(p) <= Len(acc)
        /\ \A i \in 1..Len(p) : p[i] = acc[b + i]
        /\ \A n \in 1..Len(acc) : n <= b <=> \E j \in 1..(k - 1) : HasEvent(c, j, acc[n])

EventsExact(c, acc) ==
    \A k \in 1..Len(c) :
        3 * k <= Len(c) /\ ChunkAt(c, k).chunk_type = EventType
           => /\ EncodableEvents(ChunkAt(c, k).payload)
              /\ \E b \in 0..Len(acc) : Stretch(c, k, acc, b)

\* Two entries of a kind that share an id or a name.
Alike(e, f) == e.kind = f.kind /\ (e.id = f.id \/ e.name = f.name)

\* A payload Dictionary::insert takes, from an empty dictionary.
LegalEntries(p) ==
    /\ EncodableEntries(p)
    /\ \A i \in 1..Len(p) : p[i].id # 0 /\ p[i].name \notin LongNames
    /\ \A i, j \in 1..Len(p) : Alike(p[i], p[j]) => i = j

\* No id and no name is defined twice.
EntriesExact(c) ==
    /\ \A k \in 1..Len(c) :
          3 * k <= Len(c) /\ ChunkAt(c, k).chunk_type = DictType
             => LegalEntries(ChunkAt(c, k).payload)
    /\ \A j, k \in 1..Len(c) :
          3 * j <= Len(c) /\ 3 * k <= Len(c) =>
             \A e \in RangeOf(ChunkAt(c, j).payload), f \in RangeOf(ChunkAt(c, k).payload) :
                HasEntry(c, j, e) /\ HasEntry(c, k, f) /\ Alike(e, f) => j = k

\* These survive any cut, so they hold of the file in every state.
GoodCells(c, acc) ==
    /\ ChunksInOrder(c)
    /\ HeadersInPlace(c)
    /\ EventsInOrder(c, acc)
    /\ RefsInOrder(c, acc)
    /\ EventsExact(c, acc)
    /\ EntriesExact(c)

\* Behind m sound chunks there is a fragment: a header whose trailer is not
\* where it belongs, or less than a header, whatever was written after it.
TornAfter(c, m, acc) ==
    /\ 3 * m < Len(c)
    /\ GoodCells(SubSeq(c, 1, 3 * m), acc)
    /\ c[3 * m + 1].part \in {0, 1}
    /\ 3 * m + 3 <= Len(c) => c[3 * m + 3].part # 3

\* Cells a reader can trust up to the first fragment of a short write.
SoundCells(c, acc) == GoodCells(c, acc) \/ \E m \in 0..Len(c) : TornAfter(c, m, acc)

\* What the fields of an open writer say about its stream and the history.
Sealed(w, acc) == Len(acc) - Len(w.pending_events)

\* Each entry intern made is in pending_dict or in one chunk, never in both.
DictInv(w) ==
    /\ \A e, f \in w.dictionary.entries : Alike(e, f) => e = f
    /\ \A e \in w.dictionary.entries :
          e.id # 0 /\ e.id < w.dictionary.next_id[e.kind] /\ e.name \notin LongNames
    /\ \A kind \in Kinds : w.dictionary.next_id[kind] >= 1
    /\ RangeOf(w.pending_dict) \subseteq w.dictionary.entries
    /\ \A i, j \in 1..Len(w.pending_dict) : w.pending_dict[i] = w.pending_dict[j] => i = j
    /\ \A k \in 1..(w.next_chunk_seq - 1) : \A e \in RangeOf(ChunkAt(Stream(w), k).payload) :
          HasEntry(Stream(w), k, e)
             => e \in w.dictionary.entries /\ e \notin RangeOf(w.pending_dict)

WriterInv(w, acc) ==
    /\ GoodCells(Stream(w), acc)
    /\ w.next_chunk_seq >= 1
    /\ Len(Stream(w)) = 3 * (w.next_chunk_seq - 1)
    /\ w.next_event_seq = Len(acc) + 1
    /\ Len(w.pending_events) <= Len(acc)
    /\ \A i \in 1..Len(w.pending_events) : w.pending_events[i] = acc[Sealed(w, acc) + i]
    /\ \A n \in 1..Sealed(w, acc) :
          \E k \in 1..(w.next_chunk_seq - 1) : HasEvent(Stream(w), k, acc[n])
    /\ \A k \in 1..(w.next_chunk_seq - 1), n \in 1..Len(acc) :
          HasEvent(Stream(w), k, acc[n]) => n <= Sealed(w, acc)
    /\ DictInv(w)
    /\ \A e \in w.dictionary.entries :
          \/ e \in RangeOf(w.pending_dict)
          \/ \E k \in 1..(w.next_chunk_seq - 1) : HasEntry(Stream(w), k, e)
    /\ \A i \in 1..Len(w.pending_events) : w.pending_events[i].refs \subseteq Keys(w.dictionary)

\* A writer that goes on after a short write: the chunk that was cut is still
\* pending, or something was written behind the fragment.
TornWriter(w, acc) ==
    /\ w.next_event_seq = Len(acc) + 1
    /\ \E m \in 0..Len(Stream(w)) :
          /\ TornAfter(Stream(w), m, acc)
          /\ \/ 3 * m + 3 <= Len(Stream(w))
             \/ w.pending_dict # <<>>
             \/ w.pending_events # <<>>
=============================================================================
