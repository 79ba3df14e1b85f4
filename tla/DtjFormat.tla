----------------------------- MODULE DtjFormat -----------------------------
(***************************************************************************)
(* The DTJ v1 journal format (crates/dtj/src: format.rs, chunk.rs, dict.rs,*)
(* event.rs, payload.rs): dictionaries, events, and the way a chunk is     *)
(* laid out in a file.                                                     *)
(*                                                                         *)
(* Bytes are abstracted to CELLS.  A chunk is three cells: its 24-byte     *)
(* header, its payload and its 8-byte trailer (CRC and commit marker).  A  *)
(* file, after its 128-byte file header, is a sequence of cells, and a     *)
(* crash cuts it between two cells: a cut inside a cell is read like a cut *)
(* before it (fewer bytes than declared).  A short write that the writer   *)
(* goes on behind is another matter, and leaves the fragments below.       *)
(***************************************************************************)
EXTENDS Naturals, Sequences, FiniteSets

CONSTANTS
    Kinds,              \* DictKind: domain, category, event name, string
    Names,              \* names that can be interned
    LongNames,          \* the ones longer than MAX_DICT_NAME_LEN bytes
    MaxDictEntries,     \* MAX_DICT_ENTRIES, per Dictionary chunk
    MaxEventsPerChunk,  \* MAX_EVENTS_PER_CHUNK
    MaxEventPayload,    \* MAX_EVENT_PAYLOAD and MAX_BYTES_VALUE, in size units
    MaxChunkPayload     \* MAX_CHUNK_PAYLOAD, in size units

ASSUME FormatAssumption ==
    /\ LongNames \subseteq Names
    /\ MaxDictEntries \in Nat \ {0}
    /\ MaxEventsPerChunk \in Nat \ {0}
    /\ MaxEventPayload \in Nat \ {0}
    /\ MaxChunkPayload \in Nat \ {0}

RangeOf(s) == {s[i] : i \in DOMAIN s}

-----------------------------------------------------------------------------
(* Dictionary: ids are assigned from 1, separately for each kind. *)

DictEntry == [kind : Kinds, id : Nat, name : Names]

Key(entry) == <<entry.kind, entry.id>>

\* by_key and by_name are two indexes over one set of entries.
Dictionary == [entries : SUBSET DictEntry, next_id : [Kinds -> Nat]]

EmptyDictionary == [entries |-> {}, next_id |-> [k \in Kinds |-> 1]]

Keys(dict) == {Key(e) : e \in dict.entries}

\* Dictionary::require succeeds exactly on the keys of by_key.
Require(dict, kind, id) == <<kind, id>> \in Keys(dict)

\* The entry by_name holds for (kind, name), when there is one.
Named(dict, kind, name) == {e \in dict.entries : e.kind = kind /\ e.name = name}

\* What Dictionary::insert asks of an entry.
CanInsert(dict, entry) ==
    /\ entry.id # 0
    /\ entry.name \notin LongNames
    /\ ~Require(dict, entry.kind, entry.id)

-----------------------------------------------------------------------------
(* Events.  An event is what the journal tells apart: its sequence number, *)
(* the dictionary keys it mentions (domain, category, event name, the      *)
(* correlation unless it is 0, field names, interned values) and the size  *)
(* of its encoded payload.                                                 *)

Events == [event_sequence : Nat, refs : SUBSET (Kinds \X Nat), size : Nat]

\* append_event and validate_event_refs require every key of the event.
RefsResolve(dict, ev) == ev.refs \subseteq Keys(dict)

\* Size of an Event chunk's payload: the sum of the event sizes.
SizeUpTo(events) ==
    LET f[n \in 0..Len(events)] == IF n = 0 THEN 0 ELSE f[n - 1] + events[n].size
    IN  f

PayloadSize(events) == SizeUpTo(events)[Len(events)]

\* EventRecord::encode followed by encode_committed_chunk.
EncodableEvents(events) ==
    /\ Len(events) <= MaxEventsPerChunk
    /\ \A i \in DOMAIN events : events[i].size <= MaxEventPayload
    /\ PayloadSize(events) <= MaxChunkPayload

\* Dictionary::encode_entries followed by encode_committed_chunk; an entry
\* is one size unit.
EncodableEntries(entries) ==
    /\ Len(entries) <= MaxDictEntries
    /\ Len(entries) <= MaxChunkPayload

-----------------------------------------------------------------------------
(* Chunks and cells. *)

DictType  == 1
EventType == 2

\* payload_len, in cells: a writer declares one; a damaged header may not.
Chunk(type, seq, payload) ==
    [chunk_type |-> type, sequence |-> seq, payload_len |-> 1, payload |-> payload]

Chunks ==
    [chunk_type : {DictType}, sequence : Nat, payload_len : {1}, payload : Seq(DictEntry)]
    \cup [chunk_type : {EventType}, sequence : Nat, payload_len : {1}, payload : Seq(Events)]

\* A header cut short, its length field completed by the bytes written
\* behind it: a length over MAX_CHUNK_PAYLOAD, read once so much follows.
MixedLength == 3

MixedChunks ==
    [chunk_type : {DictType}, sequence : Nat, payload_len : {MixedLength}, payload : Seq(DictEntry)]
    \cup [chunk_type : {EventType}, sequence : Nat, payload_len : {MixedLength}, payload : Seq(Events)]

Mixed(header) == [header EXCEPT !.chunk.payload_len = MixedLength]

\* Part 1 is the header, part 2 the payload, part 3 the trailer; part 0 is
\* bytes that belong to no chunk.
Cells == [part : 0..3, chunk : Chunks] \cup [part : {1}, chunk : MixedChunks]

\* Bytes without a chunk magic: the zeros of a hole, or fewer than the magic.
Scrap == [part |-> 0, chunk |-> Chunk(DictType, 0, <<>>)]

\* encode_committed_chunk: the bytes of a committed chunk, in file order.
EncodeCommittedChunk(chunk) == [p \in 1..3 |-> [part |-> p, chunk |-> chunk]]

-----------------------------------------------------------------------------
(* What a file holds, stated declaratively.  Reading stops at the first    *)
(* chunk that is not whole.                                                *)

\* Cells 3k-2 .. 3k are one whole committed chunk with sequence number k.
WholeChunk(cells, k) ==
    /\ 3 * k <= Len(cells)
    /\ cells[3 * k].chunk.sequence = k
    /\ \A p \in 1..3 : cells[3 * k - 3 + p] = [part |-> p, chunk |-> cells[3 * k].chunk]

\* Sequence numbers of the chunks that precede the first damaged one.
CommittedSeqs(cells) ==
    {k \in 1..Len(cells) : \A j \in 1..k : WholeChunk(cells, j)}

ChunkAt(cells, k) == cells[3 * k].chunk

\* The events of those chunks, and the dictionary keys they define.
EventsIn(cells) ==
    UNION {RangeOf(ChunkAt(cells, k).payload) :
             k \in {j \in CommittedSeqs(cells) : ChunkAt(cells, j).chunk_type = EventType}}

EntriesIn(cells) ==
    UNION {RangeOf(ChunkAt(cells, k).payload) :
             k \in {j \in CommittedSeqs(cells) : ChunkAt(cells, j).chunk_type = DictType}}
=============================================================================
