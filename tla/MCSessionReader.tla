-------------------------- MODULE MCSessionReader --------------------------
(* Files for SessionReader: up to three chunk images, each sound or with   *)
(* one of the defects reader.rs looks for.                                 *)
EXTENDS SessionReader

MCKinds == {"domain"}
MCNames == {"a", "b", "long"}
MCLongNames == {"long"}

DictChunk(seq, id, name) == Chunk(DictType, seq, <<[kind |-> "domain", id |-> id, name |-> name]>>)
EventChunk(seq, first, n, id) ==
    Chunk(EventType, seq, [i \in 1..n |-> [event_sequence |-> first + i - 1,
                                            refs |-> {<<"domain", id>>}, size |-> 1]])

\* Cell p of a sound image replaced by another cell.
Spoil(chunk, p, cell) == [EncodeCommittedChunk(chunk) EXCEPT ![p] = cell]
Garbage == [part |-> 0, chunk |-> DictChunk(0, 1, "a")]

\* Sound images at position q, and images with one defect.
Sound(q) ==
    {EncodeCommittedChunk(c) :
        c \in {DictChunk(q, 1, "a"), DictChunk(q, 2, "b"), EventChunk(q, 1, 1, 1),
               EventChunk(q, 2, 2, 1), [DictChunk(q, 1, "a") EXCEPT !.chunk_type = 3]}}

Defective(q) ==
    LET c == DictChunk(q, 2, "b")
        big == [c EXCEPT !.payload_len = 3]
    IN  {EncodeCommittedChunk(DictChunk(q + 1, 2, "b")),       \* sequence gap
         EncodeCommittedChunk(DictChunk(q, 0, "a")),           \* illegal id
         EncodeCommittedChunk(EventChunk(q, 1, 1, 2)),         \* maybe unresolved
         Spoil(c, 1, Garbage),                                 \* bad magic
         Spoil(c, 2, Garbage),                                 \* CRC mismatch
         Spoil(c, 3, Garbage),                                 \* not committed
         Spoil(c, 1, [part |-> 1, chunk |-> big])}             \* oversized length

Images(q) == Sound(q) \cup Defective(q)

MCFiles == {a \o b \o c : a \in Images(1), b \in Images(2), c \in Images(3)}
=============================================================================
