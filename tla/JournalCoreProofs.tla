-------------------------- MODULE JournalCoreProofs -------------------------
(***************************************************************************)
(* What the operations under the writer and the reader of a journal do.    *)
(* First, what each operation of WriterCore returns: the type of its       *)
(* outcomes, the fields it leaves alone, and how it changes the stream of  *)
(* cells and the part of it that has reached the file.  Then, what one     *)
(* iteration of the loop of SessionReader::open does to a reader, on any   *)
(* file: it ends the scan, rejects the file, or takes one more chunk, and  *)
(* what it has gathered is then what the chunks it has passed hold.        *)
(***************************************************************************)
EXTENDS WriterCore, ReaderCore, SequenceTheorems, TLAPS

Outcomes == [w : WriterStates, ok : BOOLEAN, val : Nat]

\* o is the outcome of a call on w that left the stream s of cells, and took
\* no cell back from the file.
Effect(o, w, s) ==
    /\ o \in Outcomes
    /\ Stream(o.w) = s
    /\ Len(w.disk) <= Len(o.w.disk)

\* v differs from w at most in where cells are.
SameFields(v, w) ==
    /\ v.dictionary = w.dictionary
    /\ v.pending_dict = w.pending_dict
    /\ v.pending_events = w.pending_events
    /\ v.next_chunk_seq = w.next_chunk_seq
    /\ v.next_event_seq = w.next_event_seq

\* o places the first k cells of s in the file and changes no field of w.
PlacedAs(o, w, s, k, ok) ==
    Effect(o, w, s) /\ SameFields(o.w, w) /\ o.ok = ok /\ Len(o.w.disk) = k

-----------------------------------------------------------------------------
(* Sequences *)

\* A cut of a sequence splits it in two.
LEMMA CutProps ==
    ASSUME NEW S, NEW s \in Seq(S), NEW k \in 0..Len(s)
    PROVE  /\ SubSeq(s, 1, k) \in Seq(S)
           /\ SubSeq(s, k + 1, Len(s)) \in Seq(S)
           /\ Len(SubSeq(s, 1, k)) = k
           /\ \A i \in 1..k : SubSeq(s, 1, k)[i] = s[i]
           /\ SubSeq(s, 1, k) \o SubSeq(s, k + 1, Len(s)) = s
<1> DEFINE a == SubSeq(s, 1, k)
           b == SubSeq(s, k + 1, Len(s))
<1>1. Len(s) \in Nat /\ \A i \in 1..Len(s) : s[i] \in S
  BY LenProperties, ElementOfSeq
<1>2. a \in Seq(S) /\ Len(a) = k /\ \A i \in 1..k : a[i] = s[i]
  BY <1>1, SubSeqProperties, SMT
<1>3. b \in Seq(S) /\ Len(b) = Len(s) - k /\ \A i \in 1..(Len(s) - k) : b[i] = s[k + i]
  BY <1>1, SubSeqProperties, SMT
<1> HIDE DEF a, b
<1>4. /\ a \o b \in Seq(S)
      /\ Len(a \o b) = Len(a) + Len(b)
      /\ \A i \in 1..(Len(a) + Len(b)) :
            (a \o b)[i] = IF i <= Len(a) THEN a[i] ELSE b[i - Len(a)]
  BY <1>2, <1>3, ConcatProperties
<1>5. Len(a \o b) = Len(s)
  BY <1>1, <1>2, <1>3, <1>4
<1>6. ASSUME NEW i \in 1..Len(s) PROVE (a \o b)[i] = s[i]
  <2>1. (a \o b)[i] = IF i <= k THEN a[i] ELSE b[i - k]
    BY <1>1, <1>2, <1>3, <1>4
  <2>2. CASE i <= k
    BY <2>1, <2>2, <1>2
  <2>3. CASE ~(i <= k)
    <3>1. i - k \in 1..(Len(s) - k) /\ k + (i - k) = i
      BY <2>3, <1>1
    <3>. QED BY <2>1, <2>3, <3>1, <1>3
  <2>. QED BY <2>2, <2>3
<1>7. a \o b = s
  BY <1>1, <1>4, <1>5, <1>6, SeqEqual
<1>. QED BY <1>2, <1>3, <1>7 DEF a, b

\* A concatenation starts with its first part.
LEMMA JoinProps ==
    ASSUME NEW S, NEW a \in Seq(S), NEW b \in Seq(S)
    PROVE  /\ a \o b \in Seq(S)
           /\ Len(a) \in Nat /\ Len(b) \in Nat /\ Len(a \o b) \in Nat
           /\ Len(a \o b) = Len(a) + Len(b)
           /\ Len(a) <= Len(a \o b)
           /\ \A i \in 1..Len(a) : (a \o b)[i] = a[i]
           /\ \A i \in 1..Len(b) : (a \o b)[Len(a) + i] = b[i]
<1>1. Len(a) \in Nat /\ Len(b) \in Nat
  BY LenProperties
<1>2. /\ a \o b \in Seq(S)
      /\ Len(a \o b) = Len(a) + Len(b)
      /\ \A i \in 1..(Len(a) + Len(b)) :
            (a \o b)[i] = IF i <= Len(a) THEN a[i] ELSE b[i - Len(a)]
  BY ConcatProperties
<1>. QED BY <1>1, <1>2

-----------------------------------------------------------------------------
(* Types *)

LEMMA NewWriterType == NewWriter \in WriterStates
<1>1. EmptyDictionary \in Dictionary
  BY DEF EmptyDictionary, Dictionary
<1>. QED BY <1>1, EmptySeq DEF NewWriter, WriterStates

\* A chunk of typed records is three typed cells.
LEMMA EncodeType ==
    ASSUME NEW n \in Nat
    PROVE  /\ \A es \in Seq(DictEntry) :
                 EncodeCommittedChunk(Chunk(DictType, n, es)) \in Seq(Cells)
           /\ \A es \in Seq(Events) :
                 EncodeCommittedChunk(Chunk(EventType, n, es)) \in Seq(Cells)
           /\ \A es \in Seq(DictEntry) : Chunk(DictType, n, es) \in Chunks
           /\ \A es \in Seq(Events) : Chunk(EventType, n, es) \in Chunks
           /\ \A c : Len(EncodeCommittedChunk(c)) = 3
           /\ \A c : \A p \in 1..3 : EncodeCommittedChunk(c)[p] = [part |-> p, chunk |-> c]
<1>1. \A c : EncodeCommittedChunk(c) = [p \in 1..3 |-> [part |-> p, chunk |-> c]]
  BY DEF EncodeCommittedChunk
<1>2. ASSUME NEW c \in Chunks PROVE EncodeCommittedChunk(c) \in Seq(Cells)
  <2>1. [p \in 1..3 |-> [part |-> p, chunk |-> c]] \in [1..3 -> Cells]
    BY DEF Cells
  <2>2. [1..3 -> Cells] \subseteq Seq(Cells)
    BY SeqDef
  <2>. QED BY <2>1, <2>2, <1>1
<1>3. \A es \in Seq(DictEntry) : Chunk(DictType, n, es) \in Chunks
  BY DEF Chunk, Chunks, DictType
<1>4. \A es \in Seq(Events) : Chunk(EventType, n, es) \in Chunks
  BY DEF Chunk, Chunks, EventType
<1>5. ASSUME NEW c PROVE Len(EncodeCommittedChunk(c)) = 3
  BY <1>1, LenProperties, IsASeq
<1>. QED BY <1>1, <1>2, <1>3, <1>4, <1>5

\* Placing a stream changes only where its cells are.
LEMMA PlacedProps ==
    ASSUME NEW w \in WriterStates, NEW s \in Seq(Cells), NEW k \in 0..Len(s)
    PROVE  /\ Placed(w, s, k) \in WriterStates
           /\ Stream(Placed(w, s, k)) = s
           /\ Placed(w, s, k).disk = SubSeq(s, 1, k)
           /\ Placed(w, s, k).dictionary = w.dictionary
           /\ Placed(w, s, k).pending_dict = w.pending_dict
           /\ Placed(w, s, k).pending_events = w.pending_events
           /\ Placed(w, s, k).next_chunk_seq = w.next_chunk_seq
           /\ Placed(w, s, k).next_event_seq = w.next_event_seq
<1>1. /\ SubSeq(s, 1, k) \in Seq(Cells)
      /\ SubSeq(s, k + 1, Len(s)) \in Seq(Cells)
      /\ SubSeq(s, 1, k) \o SubSeq(s, k + 1, Len(s)) = s
  BY CutProps
<1>2. /\ Placed(w, s, k).disk = SubSeq(s, 1, k)
      /\ Placed(w, s, k).buf = SubSeq(s, k + 1, Len(s))
  BY DEF Placed, WriterStates
<1>3. Placed(w, s, k) \in WriterStates
  BY <1>1 DEF Placed, WriterStates
<1>. QED BY <1>1, <1>2, <1>3 DEF Placed, WriterStates, Stream

-----------------------------------------------------------------------------
(* BufWriter *)

\* The parts of a writer state.
LEMMA FieldTypes ==
    ASSUME NEW w \in WriterStates
    PROVE  /\ w.dictionary \in Dictionary
           /\ w.pending_dict \in Seq(DictEntry)
           /\ w.pending_events \in Seq(Events)
           /\ w.next_chunk_seq \in Nat
           /\ w.next_event_seq \in Nat
           /\ w.buf \in Seq(Cells)
           /\ w.disk \in Seq(Cells)
BY DEF WriterStates

\* The stream is the file followed by the buffer.
LEMMA StreamProps ==
    ASSUME NEW w \in WriterStates
    PROVE  /\ Stream(w) \in Seq(Cells)
           /\ Len(w.disk) \in Nat /\ Len(w.buf) \in Nat
           /\ Len(Stream(w)) \in Nat
           /\ Len(Stream(w)) = Len(w.disk) + Len(w.buf)
           /\ Len(w.disk) <= Len(Stream(w))
           /\ \A i \in 1..Len(w.disk) : Stream(w)[i] = w.disk[i]
<1>1. w.disk \in Seq(Cells) /\ w.buf \in Seq(Cells)
  BY FieldTypes
<1>2. /\ w.disk \o w.buf \in Seq(Cells)
      /\ Len(w.disk) \in Nat /\ Len(w.buf) \in Nat /\ Len(w.disk \o w.buf) \in Nat
  BY <1>1, JoinProps
<1>3. Len(w.disk \o w.buf) = Len(w.disk) + Len(w.buf)
  BY <1>1, JoinProps
<1>5. Len(w.disk) <= Len(w.disk \o w.buf)
  BY <1>1, JoinProps
<1>4. \A i \in 1..Len(w.disk) : (w.disk \o w.buf)[i] = w.disk[i]
  BY <1>1, JoinProps, ZenonT(60)
<1>. QED BY <1>2, <1>3, <1>4, <1>5 DEF Stream

\* An outcome that only places a stream.
LEMMA PlacedOutcome ==
    ASSUME NEW w \in WriterStates, NEW s \in Seq(Cells), NEW k \in 0..Len(s),
           Len(w.disk) <= k, NEW ok \in BOOLEAN,
           NEW o, o = Outcome(Placed(w, s, k), ok, 0)
    PROVE  PlacedAs(o, w, s, k, ok)
<1>1. o.w = Placed(w, s, k) /\ o.ok = ok /\ o.val = 0
  BY DEF Outcome
<1>2. o \in Outcomes
  BY <1>1, PlacedProps DEF Outcome, Outcomes
<1>3. SameFields(o.w, w) /\ Stream(o.w) = s /\ o.w.disk = SubSeq(s, 1, k)
  BY <1>1, PlacedProps DEF SameFields
<1>4. Len(SubSeq(s, 1, k)) = k
  BY CutProps
<1>. QED BY <1>1, <1>2, <1>3, <1>4 DEF Effect, PlacedAs

\* A failed write leaves the stream as it was.
LEMMA RefusedProps ==
    ASSUME NEW w \in WriterStates, NEW o \in WriteAllRefused(w)
    PROVE  Effect(o, w, Stream(w)) /\ SameFields(o.w, w) /\ ~o.ok
<1>1. Len(w.disk) \in Nat /\ Len(Stream(w)) \in Nat
  BY StreamProps
<1>2. PICK k \in Len(w.disk)..Len(Stream(w)) : o = Outcome(Placed(w, Stream(w), k), FALSE, 0)
  BY DEF WriteAllRefused
<1>3. k \in 0..Len(Stream(w)) /\ Len(w.disk) <= k
  BY <1>1
<1>4. Stream(w) \in Seq(Cells)
  BY StreamProps
<1>5. PlacedAs(o, w, Stream(w), k, FALSE)
  BY <1>2, <1>3, <1>4, PlacedOutcome, Zenon
<1>. QED BY <1>5 DEF PlacedAs

\* flush empties the buffer, or fails and leaves the stream as it was.
LEMMA FlushProps ==
    ASSUME NEW w \in WriterStates, NEW canFail \in BOOLEAN, NEW o \in Flush(w, canFail)
    PROVE  /\ Effect(o, w, Stream(w)) /\ SameFields(o.w, w)
           /\ o.ok => Len(o.w.disk) = Len(Stream(w))
<1>1. CASE o = Outcome(Placed(w, Stream(w), Len(Stream(w))), TRUE, 0)
  <2>1. Stream(w) \in Seq(Cells) /\ Len(w.disk) <= Len(Stream(w))
    BY StreamProps
  <2>2. Len(Stream(w)) \in Nat
    BY StreamProps
  <2>3. Len(Stream(w)) \in 0..Len(Stream(w))
    BY <2>2
  <2>4. PlacedAs(o, w, Stream(w), Len(Stream(w)), TRUE)
    BY <1>1, <2>1, <2>3, PlacedOutcome, Zenon
  <2>. QED BY <2>4 DEF PlacedAs
<1>2. CASE o \in WriteAllRefused(w)
  BY <1>2, RefusedProps
<1>. QED BY <1>1, <1>2 DEF Flush

\* write_all takes all the cells or reports an error; then it took none of
\* them or, if a write can be cut short, a fragment of them.
LEMMA WriteAllProps ==
    ASSUME NEW w \in WriterStates, NEW cells \in Seq(Cells), NEW canFail \in BOOLEAN,
           Fragments(cells) \subseteq Seq(Cells),
           NEW o \in WriteAll(w, cells, canFail)
    PROVE  /\ Effect(o, w, Stream(o.w)) /\ SameFields(o.w, w)
           /\ o.ok => Stream(o.w) = Stream(w) \o cells
           /\ ~o.ok => \/ Stream(o.w) = Stream(w)
                       \/ /\ PartialWrites
                          /\ \E f \in Fragments(cells) : Stream(o.w) = Stream(w) \o f
<1> DEFINE s == Stream(w) \o cells
<1>0. Stream(w) \in Seq(Cells)
  BY StreamProps
<1>1. /\ Len(w.disk) \in Nat /\ Len(w.buf) \in Nat /\ Len(Stream(w)) \in Nat
      /\ Len(Stream(w)) = Len(w.disk) + Len(w.buf)
      /\ Len(w.disk) <= Len(Stream(w))
  BY StreamProps
<1>2. s \in Seq(Cells)
  BY <1>0, JoinProps
<1>3. Len(cells) \in Nat /\ Len(s) = Len(Stream(w)) + Len(cells)
  BY <1>0, JoinProps
<1> HIDE DEF s
<1>4. CASE o \in WriteAllOk(w, cells)
  <2>1. PICK k \in {Len(w.disk), Len(w.disk) + Len(w.buf), Len(s)} :
            o = Outcome(Placed(w, s, k), TRUE, 0)
    BY <1>4 DEF WriteAllOk, s
  <2>2. \/ k = Len(w.disk) \/ k = Len(w.disk) + Len(w.buf) \/ k = Len(s)
    OBVIOUS
  <2>3. k \in 0..Len(s) /\ Len(w.disk) <= k
    <3> DEFINE d == Len(w.disk)
               b == Len(w.buf)
               n == Len(cells)
               m == Len(s)
    <3>1. d \in Nat /\ b \in Nat /\ n \in Nat /\ m = d + b + n
      BY <1>1, <1>3
    <3>2. k = d \/ k = d + b \/ k = m
      BY <2>2
    <3> HIDE DEF d, b, n, m
    <3>3. k \in 0..m /\ d <= k
      BY <3>1, <3>2
    <3>. QED BY <3>3 DEF d, m
  <2>4. PlacedAs(o, w, s, k, TRUE)
    BY <1>2, <2>1, <2>3, PlacedOutcome, Zenon
  <2>. QED BY <2>4 DEF PlacedAs, Effect, s
<1>5. CASE o \in WriteAllRefused(w)
  <2>1. Effect(o, w, Stream(w)) /\ SameFields(o.w, w) /\ ~o.ok
    BY <1>5, RefusedProps
  <2>. QED BY <2>1 DEF Effect
<1>6. CASE PartialWrites /\ o \in WriteAllShort(w, cells)
  <2>1. PICK f \in Fragments(cells) :
            o = Outcome(Placed(w, Stream(w) \o f, Len(Stream(w)) + Len(f)), FALSE, 0)
    BY <1>6 DEF WriteAllShort
  <2> DEFINE t == Stream(w) \o f
  <2>2. f \in Seq(Cells)
    OBVIOUS
  <2>3. t \in Seq(Cells) /\ Len(t) = Len(Stream(w)) + Len(f) /\ Len(f) \in Nat
    BY <1>0, <2>2, JoinProps
  <2>4. o = Outcome(Placed(w, t, Len(t)), FALSE, 0)
    BY <2>1, <2>3
  <2> HIDE DEF t
  <2>5. Len(t) \in 0..Len(t) /\ Len(w.disk) <= Len(t)
    <3> DEFINE d == Len(w.disk)
               n == Len(Stream(w))
               m == Len(t)
               j == Len(f)
    <3>1. d \in Nat /\ n \in Nat /\ d <= n /\ m = n + j /\ j \in Nat
      BY <1>1, <2>3
    <3> HIDE DEF d, n, m, j
    <3>2. m \in 0..m /\ d <= m
      BY <3>1
    <3>. QED BY <3>2 DEF d, m
  <2>6. PlacedAs(o, w, t, Len(t), FALSE)
    BY <2>3, <2>4, <2>5, PlacedOutcome, Zenon
  <2>7. Stream(o.w) = Stream(w) \o f
    BY <2>6 DEF PlacedAs, Effect, t
  <2>. QED BY <1>6, <2>6, <2>7 DEF PlacedAs, Effect
<1>. QED BY <1>4, <1>5, <1>6 DEF WriteAll

-----------------------------------------------------------------------------
(* flush_chunk *)

\* A seal that wrote no chunk: there was nothing to seal, or it failed.
Unsealed(o, w) == SameFields(o.w, w) /\ Stream(o.w) = Stream(w)

\* Cells that a write_all of a chunk may add to the stream: its header, its
\* payload, its trailer, or the first ones of them, or less than a header.
Fragment(q) ==
    /\ q \in Seq(Cells) /\ Len(q) \in 1..3
    /\ \A i \in 1..Len(q) : q[i].part = i \/ (i = 1 /\ q[i].part = 0)

\* A seal whose write was cut inside the chunk.
CutShort(o, w) ==
    /\ PartialWrites
    /\ ~o.ok
    /\ SameFields(o.w, w)
    /\ \E q : Fragment(q) /\ Len(q) < 3 /\ Stream(o.w) = Stream(w) \o q

\* A seal that wrote pending_dict, or pending_events, as the next chunk.
SealedDict(o, w) ==
    /\ o.ok
    /\ EncodableEntries(w.pending_dict)
    /\ o.w.dictionary = w.dictionary
    /\ o.w.next_event_seq = w.next_event_seq
    /\ o.w.pending_events = w.pending_events
    /\ o.w.pending_dict = <<>>
    /\ o.w.next_chunk_seq = w.next_chunk_seq + 1
    /\ Stream(o.w) = Stream(w) \o
          EncodeCommittedChunk(Chunk(DictType, w.next_chunk_seq, w.pending_dict))

SealedEvents(o, w) ==
    /\ o.ok
    /\ EncodableEvents(w.pending_events)
    /\ o.w.dictionary = w.dictionary
    /\ o.w.next_event_seq = w.next_event_seq
    /\ o.w.pending_dict = w.pending_dict
    /\ o.w.pending_events = <<>>
    /\ o.w.next_chunk_seq = w.next_chunk_seq + 1
    /\ Stream(o.w) = Stream(w) \o
          EncodeCommittedChunk(Chunk(EventType, w.next_chunk_seq, w.pending_events))

\* The one cell left of a chunk cut inside its header.
LEMMA HeadFragment ==
    ASSUME NEW cell \in Cells, cell.part \in {0, 1}
    PROVE  Fragment(<<cell>>) /\ Len(<<cell>>) = 1
<1>1. <<cell>> \in Seq(Cells) /\ Len(<<cell>>) = 1 /\ <<cell>>[1] = cell
  OBVIOUS
<1>2. \A i \in 1..1 : i = 1
  OBVIOUS
<1>. QED BY <1>1, <1>2 DEF Fragment

\* A chunk and what is left of it when it is cut.
LEMMA ChunkFragment ==
    ASSUME NEW c \in Chunks, EncodeCommittedChunk(c) \in Seq(Cells)
    PROVE  /\ Fragment(EncodeCommittedChunk(c))
           /\ Len(EncodeCommittedChunk(c)) = 3
           /\ Fragments(EncodeCommittedChunk(c)) \subseteq Seq(Cells)
           /\ \A q \in Fragments(EncodeCommittedChunk(c)) : Fragment(q) /\ Len(q) < 3
<1> DEFINE e == EncodeCommittedChunk(c)
<1>1. Len(e) = 3 /\ \A i \in 1..3 : e[i] = [part |-> i, chunk |-> c]
  <2>1. 0 \in Nat
    OBVIOUS
  <2>. QED BY <2>1, EncodeType
<1> HIDE DEF e
<1>2. ASSUME NEW j \in 1..2
      PROVE  Fragment(SubSeq(e, 1, j)) /\ Len(SubSeq(e, 1, j)) < 3
  <2>1. j \in 0..Len(e)
    BY <1>1
  <2>2. /\ SubSeq(e, 1, j) \in Seq(Cells) /\ Len(SubSeq(e, 1, j)) = j
        /\ \A i \in 1..j : SubSeq(e, 1, j)[i] = e[i]
    BY <2>1, CutProps DEF e
  <2>3. j \in 1..3 /\ j < 3 /\ \A i \in 1..j : i \in 1..3
    OBVIOUS
  <2>. QED BY <1>1, <2>2, <2>3 DEF Fragment
<1>3. Fragment(e)
  BY <1>1 DEF Fragment, e
<1>4. Fragment(<<Scrap>>) /\ Len(<<Scrap>>) < 3
  <2>1. <<>> \in Seq(DictEntry) /\ 0 \in Nat
    BY EmptySeq
  <2>2. Chunk(DictType, 0, <<>>) \in Chunks
    BY <2>1, EncodeType
  <2>3. Scrap \in Cells /\ Scrap.part = 0
    BY <2>2 DEF Scrap, Cells
  <2>4. Fragment(<<Scrap>>) /\ Len(<<Scrap>>) = 1
    BY <2>3, HeadFragment
  <2>. QED BY <2>4
<1>5. Fragment(<<Mixed(e[1])>>) /\ Len(<<Mixed(e[1])>>) < 3
  <2>1. e[1] = [part |-> 1, chunk |-> c]
    BY <1>1
  <2>2. [c EXCEPT !.payload_len = MixedLength] \in MixedChunks
    BY DEF Chunks, MixedChunks
  <2>3. Mixed(e[1]) = [part |-> 1, chunk |-> [c EXCEPT !.payload_len = MixedLength]]
    BY <2>1 DEF Mixed
  <2>4. Mixed(e[1]) \in Cells /\ Mixed(e[1]).part = 1
    BY <2>2, <2>3 DEF Cells
  <2>5. Fragment(<<Mixed(e[1])>>) /\ Len(<<Mixed(e[1])>>) = 1
    BY <2>4, HeadFragment
  <2>. QED BY <2>5
<1>6. ASSUME NEW q \in Fragments(e) PROVE Fragment(q) /\ Len(q) < 3
  <2>1. Len(e) - 1 = 2
    BY <1>1
  <2>. QED BY <1>2, <1>4, <1>5, <2>1 DEF Fragments
<1>7. Fragments(e) \subseteq Seq(Cells)
  BY <1>6 DEF Fragment
<1>. QED BY <1>1, <1>3, <1>6, <1>7 DEF e

\* The first half of flush_chunk seals all of pending_dict or none of it,
\* unless the write is cut short.
LEMMA SealDictProps ==
    ASSUME NEW w \in WriterStates, NEW canFail \in BOOLEAN, NEW o \in SealDict(w, canFail)
    PROVE  /\ Effect(o, w, Stream(o.w))
           /\ \/ Unsealed(o, w) /\ (o.ok => w.pending_dict = <<>>)
              \/ SealedDict(o, w)
              \/ CutShort(o, w) /\ w.pending_dict # <<>>
<1> DEFINE cells == EncodeCommittedChunk(Chunk(DictType, w.next_chunk_seq, w.pending_dict))
<1>1. CASE o = Outcome(w, w.pending_dict = <<>>, 0)
  <2>1. o.w = w /\ o.ok = (w.pending_dict = <<>>) /\ o \in Outcomes
    BY <1>1 DEF Outcome, Outcomes
  <2>2. Len(w.disk) <= Len(w.disk)
    <3>1. Len(w.disk) \in Nat
      BY StreamProps
    <3>. QED BY <3>1
  <2>. QED BY <2>1, <2>2 DEF Effect, Unsealed, SameFields
<1>2. CASE w.pending_dict # <<>> /\ EncodableEntries(w.pending_dict) /\ \E p \in WriteAll(w, cells, canFail) :
              o = IF p.ok THEN [p EXCEPT !.w.next_chunk_seq = @ + 1, !.w.pending_dict = <<>>] ELSE p
  <2>1. PICK p \in WriteAll(w, cells, canFail) :
              o = IF p.ok THEN [p EXCEPT !.w.next_chunk_seq = @ + 1, !.w.pending_dict = <<>>] ELSE p
    BY <1>2
  <2>2. cells \in Seq(Cells) /\ Chunk(DictType, w.next_chunk_seq, w.pending_dict) \in Chunks
    BY FieldTypes, EncodeType
  <2>6. /\ Fragments(cells) \subseteq Seq(Cells)
        /\ \A f \in Fragments(cells) : Fragment(f) /\ Len(f) < 3
    BY <2>2, ChunkFragment
  <2> HIDE DEF cells
  <2>3. /\ Effect(p, w, Stream(p.w)) /\ SameFields(p.w, w)
        /\ p.ok => Stream(p.w) = Stream(w) \o cells
        /\ ~p.ok => \/ Stream(p.w) = Stream(w)
                    \/ /\ PartialWrites
                       /\ \E f \in Fragments(cells) : Stream(p.w) = Stream(w) \o f
    BY <2>2, <2>6, WriteAllProps
  <2>4. CASE ~p.ok
    <3>1. o = p
      BY <2>1, <2>4
    <3>2. CASE Stream(p.w) = Stream(w)
      BY <2>3, <2>4, <3>1, <3>2 DEF Unsealed
    <3>3. ASSUME PartialWrites, NEW f \in Fragments(cells), Stream(p.w) = Stream(w) \o f
          PROVE  CutShort(o, w)
      BY <2>3, <2>4, <2>6, <3>1, <3>3 DEF CutShort
    <3>. QED BY <1>2, <2>3, <2>4, <3>1, <3>2, <3>3
  <2>5. CASE p.ok
    <3>1. o = [p EXCEPT !.w.next_chunk_seq = @ + 1, !.w.pending_dict = <<>>]
      BY <2>1, <2>5
    <3>2. p \in Outcomes /\ p.w \in WriterStates /\ p.w.next_chunk_seq \in Nat
      BY <2>3 DEF Effect, Outcomes, WriterStates
    <3>3. o.w = [p.w EXCEPT !.next_chunk_seq = @ + 1, !.pending_dict = <<>>]
      BY <3>1, <3>2 DEF Outcomes
    <3>4. o.ok = p.ok /\ o.val = p.val /\ o.w \in WriterStates
      <4>1. o.ok = p.ok /\ o.val = p.val
        BY <3>1, <3>2 DEF Outcomes
      <4>2. <<>> \in Seq(DictEntry) /\ p.w.next_chunk_seq + 1 \in Nat
        BY <3>2, EmptySeq
      <4>3. o.w \in WriterStates
        BY <3>2, <3>3, <4>2 DEF WriterStates
      <4>. QED BY <4>1, <4>3
    <3>5. o \in Outcomes
      BY <3>1, <3>2, <3>4 DEF Outcomes
    <3>6. /\ o.w.disk = p.w.disk /\ o.w.buf = p.w.buf
          /\ o.w.dictionary = p.w.dictionary
          /\ o.w.pending_events = p.w.pending_events
          /\ o.w.next_event_seq = p.w.next_event_seq
          /\ o.w.pending_dict = <<>>
          /\ o.w.next_chunk_seq = p.w.next_chunk_seq + 1
      BY <3>2, <3>3 DEF WriterStates
    <3>7. Stream(o.w) = Stream(p.w)
      BY <3>6 DEF Stream
    <3>8. Effect(o, w, Stream(o.w))
      BY <2>3, <3>5, <3>6, <3>7 DEF Effect
    <3>. QED BY <1>2, <2>3, <2>5, <3>4, <3>6, <3>7, <3>8 DEF SealedDict, SameFields, cells
  <2>. QED BY <2>4, <2>5
<1>3. CASE w.pending_dict = <<>>
  <2>1. SealDict(w, canFail) = {Outcome(w, TRUE, 0)} /\ (w.pending_dict = <<>>) = TRUE
    BY <1>3 DEF SealDict
  <2>. QED BY <1>1, <2>1
<1>4. CASE w.pending_dict # <<>> /\ ~EncodableEntries(w.pending_dict)
  <2>1. SealDict(w, canFail) = {Outcome(w, FALSE, 0)} /\ (w.pending_dict = <<>>) = FALSE
    BY <1>4 DEF SealDict
  <2>. QED BY <1>1, <2>1
<1>5. CASE w.pending_dict # <<>> /\ EncodableEntries(w.pending_dict)
  <2> DEFINE after(p) == IF p.ok THEN [p EXCEPT !.w.next_chunk_seq = @ + 1, !.w.pending_dict = <<>>] ELSE p
  <2>1. SealDict(w, canFail) = {after(p) : p \in WriteAll(w, cells, canFail)}
    BY <1>5, ZenonT(40) DEF SealDict
  <2> HIDE DEF after, cells
  <2>2. \E p \in WriteAll(w, cells, canFail) : o = after(p)
    BY <2>1
  <2>. QED BY <1>2, <1>5, <2>2 DEF after
<1>. QED BY <1>3, <1>4, <1>5

\* The second half of flush_chunk seals all of pending_events or none of it.
LEMMA SealEventsProps ==
    ASSUME NEW w \in WriterStates, NEW canFail \in BOOLEAN, NEW o \in SealEvents(w, canFail)
    PROVE  /\ Effect(o, w, Stream(o.w))
           /\ \/ Unsealed(o, w) /\ (o.ok => w.pending_events = <<>>)
              \/ SealedEvents(o, w)
              \/ CutShort(o, w) /\ w.pending_events # <<>>
<1> DEFINE cells == EncodeCommittedChunk(Chunk(EventType, w.next_chunk_seq, w.pending_events))
<1>1. CASE o = Outcome(w, w.pending_events = <<>>, 0)
  <2>1. o.w = w /\ o.ok = (w.pending_events = <<>>) /\ o \in Outcomes
    BY <1>1 DEF Outcome, Outcomes
  <2>2. Len(w.disk) <= Len(w.disk)
    <3>1. Len(w.disk) \in Nat
      BY StreamProps
    <3>. QED BY <3>1
  <2>. QED BY <2>1, <2>2 DEF Effect, Unsealed, SameFields
<1>2. CASE w.pending_events # <<>> /\ EncodableEvents(w.pending_events) /\ \E p \in WriteAll(w, cells, canFail) :
              o = IF p.ok THEN [p EXCEPT !.w.next_chunk_seq = @ + 1, !.w.pending_events = <<>>] ELSE p
  <2>1. PICK p \in WriteAll(w, cells, canFail) :
              o = IF p.ok THEN [p EXCEPT !.w.next_chunk_seq = @ + 1, !.w.pending_events = <<>>] ELSE p
    BY <1>2
  <2>2. cells \in Seq(Cells) /\ Chunk(EventType, w.next_chunk_seq, w.pending_events) \in Chunks
    BY FieldTypes, EncodeType
  <2>6. /\ Fragments(cells) \subseteq Seq(Cells)
        /\ \A f \in Fragments(cells) : Fragment(f) /\ Len(f) < 3
    BY <2>2, ChunkFragment
  <2> HIDE DEF cells
  <2>3. /\ Effect(p, w, Stream(p.w)) /\ SameFields(p.w, w)
        /\ p.ok => Stream(p.w) = Stream(w) \o cells
        /\ ~p.ok => \/ Stream(p.w) = Stream(w)
                    \/ /\ PartialWrites
                       /\ \E f \in Fragments(cells) : Stream(p.w) = Stream(w) \o f
    BY <2>2, <2>6, WriteAllProps
  <2>4. CASE ~p.ok
    <3>1. o = p
      BY <2>1, <2>4
    <3>2. CASE Stream(p.w) = Stream(w)
      BY <2>3, <2>4, <3>1, <3>2 DEF Unsealed
    <3>3. ASSUME PartialWrites, NEW f \in Fragments(cells), Stream(p.w) = Stream(w) \o f
          PROVE  CutShort(o, w)
      BY <2>3, <2>4, <2>6, <3>1, <3>3 DEF CutShort
    <3>. QED BY <1>2, <2>3, <2>4, <3>1, <3>2, <3>3
  <2>5. CASE p.ok
    <3>1. o = [p EXCEPT !.w.next_chunk_seq = @ + 1, !.w.pending_events = <<>>]
      BY <2>1, <2>5
    <3>2. p \in Outcomes /\ p.w \in WriterStates /\ p.w.next_chunk_seq \in Nat
      BY <2>3 DEF Effect, Outcomes, WriterStates
    <3>3. o.w = [p.w EXCEPT !.next_chunk_seq = @ + 1, !.pending_events = <<>>]
      BY <3>1, <3>2 DEF Outcomes
    <3>4. o.ok = p.ok /\ o.val = p.val /\ o.w \in WriterStates
      <4>1. o.ok = p.ok /\ o.val = p.val
        BY <3>1, <3>2 DEF Outcomes
      <4>2. <<>> \in Seq(Events) /\ p.w.next_chunk_seq + 1 \in Nat
        BY <3>2, EmptySeq
      <4>3. o.w \in WriterStates
        BY <3>2, <3>3, <4>2 DEF WriterStates
      <4>. QED BY <4>1, <4>3
    <3>5. o \in Outcomes
      BY <3>1, <3>2, <3>4 DEF Outcomes
    <3>6. /\ o.w.disk = p.w.disk /\ o.w.buf = p.w.buf
          /\ o.w.dictionary = p.w.dictionary
          /\ o.w.pending_dict = p.w.pending_dict
          /\ o.w.next_event_seq = p.w.next_event_seq
          /\ o.w.pending_events = <<>>
          /\ o.w.next_chunk_seq = p.w.next_chunk_seq + 1
      BY <3>2, <3>3 DEF WriterStates
    <3>7. Stream(o.w) = Stream(p.w)
      BY <3>6 DEF Stream
    <3>8. Effect(o, w, Stream(o.w))
      BY <2>3, <3>5, <3>6, <3>7 DEF Effect
    <3>. QED BY <1>2, <2>3, <2>5, <3>4, <3>6, <3>7, <3>8 DEF SealedEvents, SameFields, cells
  <2>. QED BY <2>4, <2>5
<1>3. CASE w.pending_events = <<>>
  <2>1. SealEvents(w, canFail) = {Outcome(w, TRUE, 0)} /\ (w.pending_events = <<>>) = TRUE
    BY <1>3 DEF SealEvents
  <2>. QED BY <1>1, <2>1
<1>4. CASE w.pending_events # <<>> /\ ~EncodableEvents(w.pending_events)
  <2>1. SealEvents(w, canFail) = {Outcome(w, FALSE, 0)} /\ (w.pending_events = <<>>) = FALSE
    BY <1>4 DEF SealEvents
  <2>. QED BY <1>1, <2>1
<1>5. CASE w.pending_events # <<>> /\ EncodableEvents(w.pending_events)
  <2> DEFINE after(p) == IF p.ok THEN [p EXCEPT !.w.next_chunk_seq = @ + 1, !.w.pending_events = <<>>] ELSE p
  <2>1. SealEvents(w, canFail) = {after(p) : p \in WriteAll(w, cells, canFail)}
    BY <1>5, ZenonT(40) DEF SealEvents
  <2> HIDE DEF after, cells
  <2>2. \E p \in WriteAll(w, cells, canFail) : o = after(p)
    BY <2>1
  <2>. QED BY <1>2, <1>5, <2>2 DEF after
<1>. QED BY <1>3, <1>4, <1>5

\* flush_chunk is its two halves and the flush, each run when the one before
\* it succeeded.
LEMMA FlushChunkSteps ==
    ASSUME NEW w, NEW canFail, NEW o \in FlushChunk(w, canFail)
    PROVE  \E d \in SealDict(w, canFail) :
              \/ ~d.ok /\ o = d
              \/ /\ d.ok
                 /\ \E e \in SealEvents(d.w, canFail) :
                       \/ ~e.ok /\ o = e
                       \/ e.ok /\ o \in Flush(e.w, canFail)
<1> DEFINE dictDone  == SealDict(w, canFail)
           eventDone == UNION {IF d.ok THEN SealEvents(d.w, canFail) ELSE {d} : d \in dictDone}
<1>1. PICK e \in eventDone : o \in IF e.ok THEN Flush(e.w, canFail) ELSE {e}
  BY DEF FlushChunk
<1>2. PICK d \in dictDone : e \in IF d.ok THEN SealEvents(d.w, canFail) ELSE {d}
  BY <1>1
<1>. QED BY <1>1, <1>2

LEMMA FlushChunkType ==
    ASSUME NEW w \in WriterStates, NEW canFail \in BOOLEAN, NEW o \in FlushChunk(w, canFail)
    PROVE  o \in Outcomes
<1>1. PICK d \in SealDict(w, canFail) :
              \/ ~d.ok /\ o = d
              \/ /\ d.ok
                 /\ \E e \in SealEvents(d.w, canFail) :
                       \/ ~e.ok /\ o = e
                       \/ e.ok /\ o \in Flush(e.w, canFail)
  BY FlushChunkSteps
<1>2. d \in Outcomes /\ d.w \in WriterStates
  BY SealDictProps DEF Effect, Outcomes
<1>3. CASE ~d.ok /\ o = d
  BY <1>2, <1>3
<1>4. ASSUME NEW e \in SealEvents(d.w, canFail),
             \/ ~e.ok /\ o = e
             \/ e.ok /\ o \in Flush(e.w, canFail)
      PROVE  o \in Outcomes
  <2>1. e \in Outcomes /\ e.w \in WriterStates
    BY <1>2, SealEventsProps DEF Effect, Outcomes
  <2>. QED BY <1>4, <2>1, FlushProps DEF Effect
<1>. QED BY <1>1, <1>3, <1>4

LEMMA DropType ==
    ASSUME NEW w \in WriterStates, NEW canFail \in BOOLEAN, NEW d \in DropWriter(w, canFail)
    PROVE  d \in WriterStates
BY FlushProps DEF DropWriter, Effect, Outcomes

LEMMA FinishType ==
    ASSUME NEW w \in WriterStates, NEW canFail \in BOOLEAN, NEW o \in Finish(w, canFail)
    PROVE  o \in Outcomes
<1>1. PICK p \in FlushChunk(w, canFail) : o \in {[p EXCEPT !.w = d] : d \in DropWriter(p.w, canFail)}
  BY DEF Finish
<1>2. PICK d \in DropWriter(p.w, canFail) : o = [p EXCEPT !.w = d]
  BY <1>1
<1>3. p \in Outcomes /\ p.w \in WriterStates
  BY FlushChunkType DEF Outcomes
<1>4. d \in WriterStates
  BY <1>3, DropType
<1>. QED BY <1>2, <1>3, <1>4 DEF Outcomes

-----------------------------------------------------------------------------
(* intern and append_event *)

LEMMA InternType ==
    ASSUME NEW w \in WriterStates, NEW kind \in Kinds, NEW name \in Names
    PROVE  Intern(w, kind, name) \in Outcomes
<1> DEFINE dict  == w.dictionary
           found == Named(dict, kind, name)
           entry == [kind |-> kind, id |-> dict.next_id[kind], name |-> name]
           grown == [entries |-> dict.entries \cup {entry},
                     next_id |-> [dict.next_id EXCEPT ![kind] = @ + 1]]
           added == [w EXCEPT !.dictionary = grown, !.pending_dict = Append(@, entry)]
<1>1. dict \in Dictionary /\ w.pending_dict \in Seq(DictEntry)
  BY FieldTypes
<1>2. /\ dict.entries \in SUBSET DictEntry
      /\ dict.next_id \in [Kinds -> Nat]
  BY <1>1 DEF Dictionary
<1>3. entry \in DictEntry
  BY <1>2 DEF DictEntry
<1>4. grown \in Dictionary
  BY <1>2, <1>3 DEF Dictionary
<1>5. Append(w.pending_dict, entry) \in Seq(DictEntry)
  BY <1>1, <1>3, AppendProperties
<1> HIDE DEF grown, entry
<1>6. added \in WriterStates
  BY <1>4, <1>5 DEF WriterStates
<1>7. CASE name \in LongNames
  BY <1>7 DEF Intern, Outcome, Outcomes
<1>8. CASE name \notin LongNames /\ found # {}
  <2>1. (CHOOSE e \in found : TRUE) \in found
    BY <1>8
  <2>2. found \subseteq DictEntry
    BY <1>2 DEF Named
  <2>3. (CHOOSE e \in found : TRUE).id \in Nat
    BY <2>1, <2>2 DEF DictEntry
  <2>4. Intern(w, kind, name) = Outcome(w, TRUE, (CHOOSE e \in found : TRUE).id)
    BY <1>8 DEF Intern
  <2>. QED BY <2>3, <2>4 DEF Outcome, Outcomes
<1>9. CASE name \notin LongNames /\ found = {}
  <2>1. Intern(w, kind, name) = Outcome(added, TRUE, entry.id)
    BY <1>9 DEF Intern, grown, entry
  <2>2. entry.id \in Nat
    BY <1>3 DEF DictEntry
  <2>. QED BY <1>6, <2>1, <2>2 DEF Outcome, Outcomes
<1>. QED BY <1>7, <1>8, <1>9

\* The writer after append_event has recorded the event ev.
Pushed(w, ev) ==
    [w EXCEPT !.next_event_seq = @ + 1,
              !.pending_events = Append(@, [ev EXCEPT !.event_sequence = w.next_event_seq])]

LEMMA PushedType ==
    ASSUME NEW w \in WriterStates, NEW ev \in Events
    PROVE  /\ [ev EXCEPT !.event_sequence = w.next_event_seq] \in Events
           /\ Pushed(w, ev) \in WriterStates
<1>1. w.next_event_seq \in Nat /\ w.pending_events \in Seq(Events)
  BY FieldTypes
<1>2. [ev EXCEPT !.event_sequence = w.next_event_seq] \in Events
  BY <1>1 DEF Events
<1>3. Append(w.pending_events, [ev EXCEPT !.event_sequence = w.next_event_seq]) \in Seq(Events)
  BY <1>1, <1>2, AppendProperties
<1>4. w.next_event_seq + 1 \in Nat
  BY <1>1
<1>5. Pushed(w, ev) \in WriterStates
  BY <1>3, <1>4 DEF Pushed, WriterStates
<1>. QED BY <1>2, <1>5

\* append_event refuses the event, records it, or records it and flushes.
LEMMA AppendSteps ==
    ASSUME NEW w, NEW ev, NEW canFail, NEW o \in AppendEvent(w, ev, canFail)
    PROVE  \/ ~RefsResolve(w.dictionary, ev) /\ o = Outcome(w, FALSE, 0)
           \/ /\ RefsResolve(w.dictionary, ev)
              /\ \/ o = Outcome(Pushed(w, ev), TRUE, w.next_event_seq)
                 \/ \E p \in FlushChunk(Pushed(w, ev), canFail) :
                       o = [p EXCEPT !.val = w.next_event_seq]
BY DEF AppendEvent, Pushed

LEMMA AppendType ==
    ASSUME NEW w \in WriterStates, NEW ev \in Events, NEW canFail \in BOOLEAN,
           NEW o \in AppendEvent(w, ev, canFail)
    PROVE  o \in Outcomes
<1>1. Pushed(w, ev) \in WriterStates /\ w.next_event_seq \in Nat
  BY PushedType, FieldTypes
<1>2. CASE o = Outcome(w, FALSE, 0)
  BY <1>2 DEF Outcome, Outcomes
<1>3. CASE o = Outcome(Pushed(w, ev), TRUE, w.next_event_seq)
  BY <1>1, <1>3 DEF Outcome, Outcomes
<1>4. ASSUME NEW p \in FlushChunk(Pushed(w, ev), canFail), o = [p EXCEPT !.val = w.next_event_seq]
      PROVE  o \in Outcomes
  <2>1. p \in Outcomes
    BY <1>1, FlushChunkType
  <2>. QED BY <1>1, <1>4, <2>1 DEF Outcomes
<1>. QED BY <1>2, <1>3, <1>4, AppendSteps

\* What a crash leaves in the file is cells.
LEMMA CrashType ==
    ASSUME NEW w \in WriterStates, NEW image \in CrashImages(w)
    PROVE  image \in Seq(Cells)
<1>1. PICK o \in FlushChunk(w, FALSE) :
         image \in {SubSeq(o.w.disk, 1, k) : k \in Len(w.disk)..Len(o.w.disk)}
  BY DEF CrashImages
<1>2. PICK k \in Len(w.disk)..Len(o.w.disk) : image = SubSeq(o.w.disk, 1, k)
  BY <1>1
<1>3. o.w \in WriterStates
  BY FlushChunkType DEF Outcomes
<1>4. o.w.disk \in Seq(Cells) /\ Len(o.w.disk) \in Nat /\ Len(w.disk) \in Nat
  BY <1>3, FieldTypes, StreamProps
<1>5. k \in 0..Len(o.w.disk)
  BY <1>4
<1>. QED BY <1>2, <1>4, <1>5, CutProps

-----------------------------------------------------------------------------
(* Prefixes of cells *)

\* The cells c are the first cells of s.
Pre(c, s) ==
    /\ c \in Seq(Cells) /\ s \in Seq(Cells)
    /\ Len(c) \in Nat /\ Len(s) \in Nat
    /\ Len(c) <= Len(s)
    /\ \A i \in 1..Len(c) : c[i] = s[i]

LEMMA PreCut ==
    ASSUME NEW s \in Seq(Cells), NEW k \in 0..Len(s)
    PROVE  Pre(SubSeq(s, 1, k), s)
<1>1. Len(s) \in Nat
  BY LenProperties
<1>2. SubSeq(s, 1, k) \in Seq(Cells) /\ Len(SubSeq(s, 1, k)) = k
  BY CutProps
<1>3. \A i \in 1..k : SubSeq(s, 1, k)[i] = s[i]
  BY CutProps
<1>. QED BY <1>1, <1>2, <1>3 DEF Pre

LEMMA PreJoin ==
    ASSUME NEW a \in Seq(Cells), NEW b \in Seq(Cells)
    PROVE  Pre(a, a \o b)
BY JoinProps DEF Pre

LEMMA PreRefl ==
    ASSUME NEW s \in Seq(Cells)
    PROVE  Pre(s, s)
<1>1. Len(s) \in Nat
  BY LenProperties
<1>. QED BY <1>1 DEF Pre

LEMMA PreTrans ==
    ASSUME NEW a, NEW b, NEW c, Pre(a, b), Pre(b, c)
    PROVE  Pre(a, c)
BY DEF Pre

\* Of two prefixes of one sequence the shorter is a prefix of the other.
LEMMA PreNested ==
    ASSUME NEW a, NEW b, NEW s, Pre(a, s), Pre(b, s), Len(a) <= Len(b)
    PROVE  Pre(a, b)
BY DEF Pre

\* The file is a prefix of the stream.
LEMMA PreDisk ==
    ASSUME NEW w \in WriterStates
    PROVE  Pre(w.disk, Stream(w))
<1>1. w.disk \in Seq(Cells) /\ w.buf \in Seq(Cells)
  BY FieldTypes
<1>. QED BY <1>1, PreJoin DEF Stream

\* A whole chunk of a prefix is the same chunk of the sequence.
LEMMA PreChunk ==
    ASSUME NEW c, NEW s, Pre(c, s), NEW k \in Nat \ {0}, 3 * k <= Len(c)
    PROVE  /\ 3 * k <= Len(s)
           /\ ChunkAt(c, k) = ChunkAt(s, k)
           /\ WholeChunk(c, k) <=> WholeChunk(s, k)
<1>1. Len(c) \in Nat /\ Len(s) \in Nat /\ Len(c) <= Len(s)
  BY DEF Pre
<1>2. \A p \in 1..3 : 3 * k - 3 + p \in 1..Len(c)
  BY <1>1
<1>3. 3 * k \in 1..Len(c) /\ 3 * k <= Len(s)
  BY <1>1
<1>4. c[3 * k] = s[3 * k] /\ \A p \in 1..3 : c[3 * k - 3 + p] = s[3 * k - 3 + p]
  BY <1>2, <1>3 DEF Pre
<1>5. ChunkAt(c, k) = ChunkAt(s, k)
  BY <1>4 DEF ChunkAt
<1>6. WholeChunk(c, k) <=> WholeChunk(s, k)
  BY <1>3, <1>4 DEF WholeChunk
<1>. QED BY <1>3, <1>5, <1>6

LEMMA PreHas ==
    ASSUME NEW c, NEW s, Pre(c, s), NEW k \in Nat \ {0}, 3 * k <= Len(c), NEW x
    PROVE  /\ HasEvent(c, k, x) <=> HasEvent(s, k, x)
           /\ HasEntry(c, k, x) <=> HasEntry(s, k, x)
<1>1. 3 * k <= Len(s) /\ ChunkAt(c, k) = ChunkAt(s, k)
  BY PreChunk
<1>. QED BY <1>1 DEF HasEvent, HasEntry

\* A chunk of a prefix is a chunk of the sequence.
LEMMA PreKeeps ==
    ASSUME NEW c, NEW s, Pre(c, s), NEW k \in Nat \ {0}, NEW x
    PROVE  /\ HasEvent(c, k, x) => HasEvent(s, k, x)
           /\ HasEntry(c, k, x) => HasEntry(s, k, x)
<1>1. 3 * k <= Len(c) => (HasEvent(c, k, x) <=> HasEvent(s, k, x))
  BY PreHas
<1>2. 3 * k <= Len(c) => (HasEntry(c, k, x) <=> HasEntry(s, k, x))
  BY PreHas
<1>. QED BY <1>1, <1>2 DEF HasEvent, HasEntry

LEMMA PreDefines ==
    ASSUME NEW c, NEW s, Pre(c, s), NEW k \in Nat \ {0}, 3 * k <= Len(c), NEW r
    PROVE  Defines(c, k, r) <=> Defines(s, k, r)
<1>1. 3 * k <= Len(s) /\ ChunkAt(c, k) = ChunkAt(s, k)
  BY PreChunk
<1>. QED BY <1>1 DEF Defines

-----------------------------------------------------------------------------
(* Good cells *)

LEMMA ExactPrefix ==
    ASSUME NEW c, NEW s, Pre(c, s), NEW acc, EventsExact(s, acc), EntriesExact(s)
    PROVE  EventsExact(c, acc) /\ EntriesExact(c)
<1>1. Len(c) \in Nat /\ Len(s) \in Nat /\ Len(c) <= Len(s)
  BY DEF Pre
<1>2. \A k \in 1..Len(c) : k \in 1..Len(s) /\ k \in Nat \ {0}
  BY <1>1
<1>3. \A k \in 1..Len(c) : 3 * k <= Len(c) => 3 * k <= Len(s) /\ ChunkAt(c, k) = ChunkAt(s, k)
  BY <1>2, PreChunk
<1>4. ASSUME NEW k \in 1..Len(c), 3 * k <= Len(c), ChunkAt(c, k).chunk_type = EventType
      PROVE  /\ EncodableEvents(ChunkAt(c, k).payload)
             /\ \E b \in 0..Len(acc) : Stretch(c, k, acc, b)
  <2>1. 3 * k <= Len(s) /\ ChunkAt(c, k) = ChunkAt(s, k) /\ k \in 1..Len(s)
    BY <1>2, <1>3, <1>4
  <2>2. EncodableEvents(ChunkAt(s, k).payload)
    BY <1>4, <2>1 DEF EventsExact
  <2>3. PICK b \in 0..Len(acc) : Stretch(s, k, acc, b)
    BY <1>4, <2>1 DEF EventsExact
  <2>4. \A j \in 1..(k - 1) : j \in Nat \ {0} /\ 3 * j <= Len(c)
    BY <1>1, <1>4
  <2>5. \A j \in 1..(k - 1) : \A x : HasEvent(c, j, x) <=> HasEvent(s, j, x)
    BY <2>4, PreHas
  <2>6. Stretch(c, k, acc, b)
    BY <2>1, <2>3, <2>5 DEF Stretch
  <2>. QED BY <2>1, <2>2, <2>6
<1>5. EventsExact(c, acc)
  BY <1>4 DEF EventsExact
<1>6. ASSUME NEW k \in 1..Len(c), 3 * k <= Len(c), ChunkAt(c, k).chunk_type = DictType
      PROVE  LegalEntries(ChunkAt(c, k).payload)
  <2>1. 3 * k <= Len(s) /\ ChunkAt(c, k) = ChunkAt(s, k) /\ k \in 1..Len(s)
    BY <1>2, <1>3, <1>6
  <2>. QED BY <1>6, <2>1 DEF EntriesExact
<1>7. ASSUME NEW j \in 1..Len(c), NEW k \in 1..Len(c), 3 * j <= Len(c), 3 * k <= Len(c),
             NEW e \in RangeOf(ChunkAt(c, j).payload), NEW f \in RangeOf(ChunkAt(c, k).payload),
             HasEntry(c, j, e), HasEntry(c, k, f), Alike(e, f)
      PROVE  j = k
  <2>1. /\ 3 * k <= Len(s) /\ ChunkAt(c, k) = ChunkAt(s, k) /\ k \in 1..Len(s) /\ k \in Nat \ {0}
        /\ 3 * j <= Len(s) /\ ChunkAt(c, j) = ChunkAt(s, j) /\ j \in 1..Len(s) /\ j \in Nat \ {0}
    BY <1>2, <1>3, <1>7
  <2>2. HasEntry(s, j, e) /\ HasEntry(s, k, f)
    BY <1>7, <2>1, PreHas
  <2>. QED BY <1>7, <2>1, <2>2 DEF EntriesExact
<1>. QED BY <1>5, <1>6, <1>7 DEF EntriesExact

LEMMA HeadersPrefix ==
    ASSUME NEW c, NEW s, Pre(c, s), HeadersInPlace(s)
    PROVE  HeadersInPlace(c)
<1>1. Len(c) \in Nat /\ Len(s) \in Nat /\ Len(c) <= Len(s) /\ \A i \in 1..Len(c) : c[i] = s[i]
  BY DEF Pre
<1>2. ASSUME NEW k \in 1..Len(c), 3 * k - 2 <= Len(c) PROVE c[3 * k - 2].part = 1
  <2>1. k \in 1..Len(s) /\ 3 * k - 2 <= Len(s) /\ 3 * k - 2 \in 1..Len(c)
    BY <1>1, <1>2
  <2>2. s[3 * k - 2].part = 1
    BY <2>1 DEF HeadersInPlace
  <2>. QED BY <1>1, <2>1, <2>2
<1>. QED BY <1>2 DEF HeadersInPlace

\* What makes a file sound survives any cut of it.
LEMMA GoodPrefix ==
    ASSUME NEW c, NEW s, Pre(c, s), NEW acc, GoodCells(s, acc)
    PROVE  GoodCells(c, acc)
<1>1. Len(c) \in Nat /\ Len(s) \in Nat /\ Len(c) <= Len(s)
  BY DEF Pre
<1>2. \A k \in 1..Len(c) : k \in 1..Len(s) /\ k \in Nat \ {0}
  BY <1>1
<1>3. ChunksInOrder(s) /\ EventsInOrder(s, acc) /\ RefsInOrder(s, acc)
  BY DEF GoodCells
<1>4. ChunksInOrder(c)
  BY <1>2, <1>3, PreChunk DEF ChunksInOrder
<1>5. ASSUME NEW k \in 1..Len(c), 3 * k <= Len(c), ChunkAt(c, k).chunk_type = EventType
      PROVE  RangeOf(ChunkAt(c, k).payload) \subseteq RangeOf(acc)
  <2>1. 3 * k <= Len(s) /\ ChunkAt(c, k) = ChunkAt(s, k) /\ k \in 1..Len(s)
    BY <1>2, <1>5, PreChunk
  <2>. QED BY <1>3, <1>5, <2>1 DEF EventsInOrder
<1>6. ASSUME NEW k \in 1..Len(c), NEW j \in 1..k, 3 * k <= Len(c)
      PROVE  j \in Nat \ {0} /\ 3 * j <= Len(c)
  BY <1>1, <1>6
<1>7. ASSUME NEW k \in 1..Len(c), NEW n \in 1..Len(acc), HasEvent(c, k, acc[n])
      PROVE  HasEvent(s, k, acc[n]) /\ 3 * k <= Len(c) /\ k \in 1..Len(s)
  <2>1. 3 * k <= Len(c)
    BY <1>7 DEF HasEvent
  <2>2. k \in Nat \ {0} /\ k \in 1..Len(s)
    BY <1>2
  <2>3. HasEvent(c, k, acc[n]) <=> HasEvent(s, k, acc[n])
    BY <2>1, <2>2, PreHas
  <2>. QED BY <1>7, <2>1, <2>2, <2>3
<1>8. ASSUME NEW k \in 1..Len(c), NEW n \in 1..Len(acc), HasEvent(c, k, acc[n]), NEW m \in 1..(n - 1)
      PROVE  \E j \in 1..k : HasEvent(c, j, acc[m])
  <2>1. HasEvent(s, k, acc[n]) /\ 3 * k <= Len(c) /\ k \in 1..Len(s)
    BY <1>7, <1>8
  <2>2. PICK j \in 1..k : HasEvent(s, j, acc[m])
    BY <1>3, <2>1 DEF EventsInOrder
  <2>3. j \in Nat \ {0} /\ 3 * j <= Len(c)
    BY <1>6, <2>1
  <2>4. HasEvent(c, j, acc[m]) <=> HasEvent(s, j, acc[m])
    BY <2>3, PreHas
  <2>. QED BY <2>2, <2>4
<1>9. ASSUME NEW k \in 1..Len(c), NEW n \in 1..Len(acc), HasEvent(c, k, acc[n]), NEW r \in acc[n].refs
      PROVE  \E j \in 1..(k - 1) : Defines(c, j, r)
  <2>1. HasEvent(s, k, acc[n]) /\ 3 * k <= Len(c) /\ k \in 1..Len(s)
    BY <1>7, <1>9
  <2>2. PICK j \in 1..(k - 1) : Defines(s, j, r)
    BY <1>3, <2>1 DEF RefsInOrder
  <2>3. j \in 1..k
    BY <1>1
  <2>4. j \in Nat \ {0} /\ 3 * j <= Len(c)
    BY <1>6, <2>1, <2>3
  <2>5. Defines(c, j, r) <=> Defines(s, j, r)
    BY <2>4, PreDefines
  <2>. QED BY <2>2, <2>5
<1>10. EventsInOrder(c, acc)
  BY <1>5, <1>8 DEF EventsInOrder
<1>11. RefsInOrder(c, acc)
  BY <1>9 DEF RefsInOrder
<1>12. EventsExact(c, acc) /\ EntriesExact(c) /\ HeadersInPlace(c)
  BY ExactPrefix, HeadersPrefix DEF GoodCells
<1>. QED BY <1>4, <1>10, <1>11, <1>12 DEF GoodCells

\* The events of a history carry its positions.
Numbered(acc) ==
    /\ acc \in Seq(Events)
    /\ \A n \in 1..Len(acc) : acc[n].event_sequence = n

LEMMA RangeProps ==
    ASSUME NEW S, NEW s \in Seq(S)
    PROVE  /\ Len(s) \in Nat
           /\ \A i \in 1..Len(s) : s[i] \in RangeOf(s) /\ s[i] \in S
           /\ \A x \in RangeOf(s) : \E i \in 1..Len(s) : x = s[i]
<1>1. Len(s) \in Nat /\ DOMAIN s = 1..Len(s)
  BY LenProperties
<1>2. \A i \in 1..Len(s) : s[i] \in S
  BY ElementOfSeq
<1>. QED BY <1>1, <1>2 DEF RangeOf

\* One more event, and its position in the history.
LEMMA GrownProps ==
    ASSUME NEW acc, Numbered(acc), NEW rec \in Events, rec.event_sequence = Len(acc) + 1
    PROVE  /\ Numbered(Append(acc, rec))
           /\ Len(acc) \in Nat
           /\ Len(Append(acc, rec)) = Len(acc) + 1
           /\ \A n \in 1..Len(acc) : Append(acc, rec)[n] = acc[n]
           /\ Append(acc, rec)[Len(acc) + 1] = rec
           /\ RangeOf(acc) \subseteq RangeOf(Append(acc, rec))
           /\ rec \notin RangeOf(acc)
<1> DEFINE grown == Append(acc, rec)
<1>1. acc \in Seq(Events)
  BY DEF Numbered
<1>2. Len(acc) \in Nat
  BY <1>1, LenProperties
<1>3. grown \in Seq(Events) /\ Len(grown) = Len(acc) + 1
  BY <1>1, AppendProperties
<1>4. /\ \A n \in 1..Len(acc) : grown[n] = acc[n]
      /\ grown[Len(acc) + 1] = rec
  BY <1>1, <1>2, AppendProperties
<1> HIDE DEF grown
<1>5. ASSUME NEW n \in 1..Len(grown) PROVE grown[n].event_sequence = n
  <2>1. n \in 1..Len(acc) \/ n = Len(acc) + 1
    BY <1>2, <1>3
  <2>. QED BY <1>4, <2>1 DEF Numbered
<1>6. \A n \in 1..Len(acc) : n \in 1..Len(grown)
  BY <1>2, <1>3
<1>7. RangeOf(acc) \subseteq RangeOf(grown)
  BY <1>1, <1>3, <1>4, <1>6, RangeProps
<1>8. ASSUME rec \in RangeOf(acc) PROVE FALSE
  <2>1. PICK i \in 1..Len(acc) : rec = acc[i]
    BY <1>1, <1>8, RangeProps
  <2>2. rec.event_sequence = i
    BY <2>1 DEF Numbered
  <2>. QED BY <1>2, <2>2
<1>. QED BY <1>2, <1>3, <1>4, <1>5, <1>7, <1>8 DEF Numbered, grown

\* The payload of a chunk is a sequence.
LEMMA PayloadLen ==
    ASSUME NEW c \in Seq(Cells), NEW k \in Nat \ {0}, 3 * k <= Len(c)
    PROVE  /\ Len(ChunkAt(c, k).payload) \in Nat
           /\ DOMAIN ChunkAt(c, k).payload = 1..Len(ChunkAt(c, k).payload)
           /\ ChunkAt(c, k) \in Chunks \cup MixedChunks
           /\ ChunkAt(c, k).chunk_type = DictType => ChunkAt(c, k).payload \in Seq(DictEntry)
           /\ ChunkAt(c, k).chunk_type = EventType => ChunkAt(c, k).payload \in Seq(Events)
<1>1. Len(c) \in Nat /\ 3 * k \in 1..Len(c)
  BY LenProperties
<1>2. c[3 * k] \in Cells
  BY <1>1, ElementOfSeq
<1>3. ChunkAt(c, k) \in Chunks \cup MixedChunks
  BY <1>2 DEF Cells, ChunkAt
<1>4. /\ ChunkAt(c, k).chunk_type = DictType => ChunkAt(c, k).payload \in Seq(DictEntry)
      /\ ChunkAt(c, k).chunk_type = EventType => ChunkAt(c, k).payload \in Seq(Events)
      /\ ChunkAt(c, k).chunk_type \in {DictType, EventType}
  BY <1>3 DEF Chunks, MixedChunks, DictType, EventType
<1>5. CASE ChunkAt(c, k).payload \in Seq(DictEntry)
  BY <1>3, <1>4, <1>5, LenProperties
<1>6. CASE ChunkAt(c, k).payload \in Seq(Events)
  BY <1>3, <1>4, <1>6, LenProperties
<1>. QED BY <1>4, <1>5, <1>6

\* Recording an event changes nothing about the cells written before.
LEMMA GoodGrown ==
    ASSUME NEW acc, Numbered(acc), NEW rec \in Events, rec.event_sequence = Len(acc) + 1,
           NEW c \in Seq(Cells), GoodCells(c, acc)
    PROVE  GoodCells(c, Append(acc, rec))
<1> DEFINE grown == Append(acc, rec)
<1>1. /\ Len(acc) \in Nat /\ Len(grown) = Len(acc) + 1
      /\ \A n \in 1..Len(acc) : grown[n] = acc[n]
      /\ grown[Len(acc) + 1] = rec
      /\ RangeOf(acc) \subseteq RangeOf(grown)
      /\ rec \notin RangeOf(acc)
  BY GrownProps
<1> HIDE DEF grown
<1>2. ChunksInOrder(c) /\ EventsInOrder(c, acc) /\ RefsInOrder(c, acc)
  BY DEF GoodCells
<1>3. ASSUME NEW k \in 1..Len(c), NEW n \in 1..Len(grown), HasEvent(c, k, grown[n])
      PROVE  n \in 1..Len(acc) /\ grown[n] = acc[n] /\ HasEvent(c, k, acc[n])
  <2>1. grown[n] \in RangeOf(acc)
    BY <1>2, <1>3 DEF EventsInOrder, HasEvent
  <2>2. n \in 1..Len(acc) \/ n = Len(acc) + 1
    BY <1>1
  <2>3. n \in 1..Len(acc)
    BY <1>1, <2>1, <2>2
  <2>. QED BY <1>1, <1>3, <2>3
<1>4. ASSUME NEW k \in 1..Len(c), NEW n \in 1..Len(grown), HasEvent(c, k, grown[n]), NEW m \in 1..(n - 1)
      PROVE  \E j \in 1..k : HasEvent(c, j, grown[m])
  <2>1. n \in 1..Len(acc) /\ HasEvent(c, k, acc[n])
    BY <1>3, <1>4
  <2>2. \E j \in 1..k : HasEvent(c, j, acc[m])
    BY <1>2, <2>1 DEF EventsInOrder
  <2>3. m \in 1..Len(acc)
    BY <1>1, <2>1
  <2>. QED BY <1>1, <2>2, <2>3
<1>5. EventsInOrder(c, grown)
  BY <1>1, <1>2, <1>4 DEF EventsInOrder
<1>6. RefsInOrder(c, grown)
  BY <1>2, <1>3 DEF RefsInOrder
<1>7. ASSUME NEW k \in 1..Len(c), 3 * k <= Len(c), NEW b \in 0..Len(acc), Stretch(c, k, acc, b)
      PROVE  b \in 0..Len(grown) /\ Stretch(c, k, grown, b)
  <2> DEFINE p == ChunkAt(c, k).payload
             has(n) == \E j \in 1..(k - 1) : HasEvent(c, j, grown[n])
  <2>1. /\ b + Len(p) <= Len(acc)
        /\ \A i \in 1..Len(p) : p[i] = acc[b + i]
        /\ \A n \in 1..Len(acc) : n <= b <=> \E j \in 1..(k - 1) : HasEvent(c, j, acc[n])
    BY <1>7 DEF Stretch
  <2>2. Len(p) \in Nat /\ b \in 0..Len(grown) /\ b + Len(p) <= Len(grown)
    BY <1>1, <1>7, <2>1, PayloadLen
  <2>3. ASSUME NEW i \in 1..Len(p) PROVE p[i] = grown[b + i]
    <3>1. b + i \in 1..Len(acc)
      BY <1>1, <2>1, <2>2
    <3>. QED BY <1>1, <2>1, <3>1
  <2>4. \A n \in 1..Len(acc) : n <= b <=> has(n)
    BY <1>1, <2>1
  <2>5. \A j \in 1..(k - 1) : j \in 1..Len(c)
    BY <1>7
  <2>6. ~has(Len(acc) + 1) /\ ~(Len(acc) + 1 <= b)
    <3>1. Len(acc) + 1 \in 1..Len(grown) /\ Len(acc) + 1 \notin 1..Len(acc)
      BY <1>1
    <3>2. ~has(Len(acc) + 1)
      BY <1>3, <2>5, <3>1
    <3>. QED BY <1>1, <3>2
  <2>7. \A n \in 1..Len(grown) : n \in 1..Len(acc) \/ n = Len(acc) + 1
    BY <1>1
  <2> HIDE DEF has
  <2>8. \A n \in 1..Len(grown) : n <= b <=> has(n)
    BY <2>4, <2>6, <2>7
  <2>. QED BY <2>2, <2>3, <2>8 DEF Stretch, has
<1>8. EventsExact(c, acc) /\ EntriesExact(c) /\ HeadersInPlace(c)
  BY DEF GoodCells
<1>9. EventsExact(c, grown)
  BY <1>7, <1>8 DEF EventsExact
<1>. QED BY <1>2, <1>5, <1>6, <1>8, <1>9 DEF GoodCells, grown

-----------------------------------------------------------------------------
(* Sealing a chunk *)

\* t is s with one more whole chunk, number q.
Adds(s, t, q, chunk) ==
    /\ Pre(s, t)
    /\ q \in Nat \ {0}
    /\ Len(s) = 3 * (q - 1)
    /\ Len(t) = 3 * q
    /\ ChunkAt(t, q) = chunk
    /\ WholeChunk(t, q)

\* encode_committed_chunk adds a whole chunk.
LEMMA EncodeAdds ==
    ASSUME NEW s \in Seq(Cells), NEW q \in Nat \ {0}, Len(s) = 3 * (q - 1),
           NEW chunk, chunk.sequence = q, EncodeCommittedChunk(chunk) \in Seq(Cells)
    PROVE  Adds(s, s \o EncodeCommittedChunk(chunk), q, chunk)
<1> DEFINE cells == EncodeCommittedChunk(chunk)
           t == s \o cells
<1>1. Len(cells) = 3 /\ \A p \in 1..3 : cells[p] = [part |-> p, chunk |-> chunk]
  BY EncodeType
<1>2. Pre(s, t)
  BY PreJoin
<1>3. Len(t) = Len(s) + Len(cells)
  BY JoinProps
<1>4. \A p \in 1..Len(cells) : t[Len(s) + p] = cells[p]
  BY JoinProps
<1> HIDE DEF t, cells
<1>5. Len(t) = 3 * q
  BY <1>1, <1>3
<1>6. \A p \in 1..3 : t[3 * (q - 1) + p] = [part |-> p, chunk |-> chunk]
  BY <1>1, <1>4
<1>7. \A p \in 1..3 : 3 * (q - 1) + p = 3 * q - 3 + p
  OBVIOUS
<1>8. \A p \in 1..3 : t[3 * q - 3 + p] = [part |-> p, chunk |-> chunk]
  BY <1>6, <1>7
<1>9. 3 * q - 3 + 3 = 3 * q
  OBVIOUS
<1>10. t[3 * q].chunk = chunk
  BY <1>8, <1>9
<1>11. WholeChunk(t, q) /\ ChunkAt(t, q) = chunk
  BY <1>5, <1>8, <1>10 DEF WholeChunk, ChunkAt
<1>. QED BY <1>2, <1>5, <1>11 DEF Adds, t, cells

\* A chunk of t is the new one or one of s.
LEMMA AddedChunks ==
    ASSUME NEW s, NEW t, NEW q, NEW chunk, Adds(s, t, q, chunk),
           NEW k \in 1..Len(t), 3 * k <= Len(t)
    PROVE  \/ k = q
           \/ /\ k \in Nat \ {0} /\ k \in 1..(q - 1) /\ k \in 1..Len(s)
              /\ 3 * k <= Len(s)
              /\ ChunkAt(t, k) = ChunkAt(s, k)
              /\ WholeChunk(s, k) => WholeChunk(t, k)
<1>1. Pre(s, t) /\ q \in Nat \ {0} /\ Len(s) = 3 * (q - 1) /\ Len(t) = 3 * q
  BY DEF Adds
<1>2. k \in Nat \ {0} /\ k <= q
  BY <1>1
<1>3. CASE k # q
  <2>1. k \in 1..(q - 1) /\ k \in 1..Len(s) /\ 3 * k <= Len(s)
    BY <1>1, <1>2, <1>3
  <2>2. ChunkAt(s, k) = ChunkAt(t, k) /\ (WholeChunk(s, k) <=> WholeChunk(t, k))
    BY <1>1, <1>2, <2>1, PreChunk
  <2>. QED BY <1>2, <2>1, <2>2
<1>. QED BY <1>3

\* An event of t is in the new chunk or in a chunk of s.
LEMMA AddedEvent ==
    ASSUME NEW s, NEW t, NEW q, NEW chunk, Adds(s, t, q, chunk),
           NEW k \in 1..Len(t), NEW x, HasEvent(t, k, x)
    PROVE  \/ k = q /\ chunk.chunk_type = EventType /\ x \in RangeOf(chunk.payload)
           \/ k \in Nat \ {0} /\ k \in 1..(q - 1) /\ k \in 1..Len(s) /\ HasEvent(s, k, x)
<1>1. 3 * k <= Len(t) /\ ChunkAt(t, k).chunk_type = EventType /\ x \in RangeOf(ChunkAt(t, k).payload)
  BY DEF HasEvent
<1>2. ChunkAt(t, q) = chunk
  BY DEF Adds
<1>3. \/ k = q
      \/ /\ k \in Nat \ {0} /\ k \in 1..(q - 1) /\ k \in 1..Len(s)
         /\ 3 * k <= Len(s)
         /\ ChunkAt(t, k) = ChunkAt(s, k)
  BY <1>1, AddedChunks
<1>. QED BY <1>1, <1>2, <1>3 DEF HasEvent

\* What s has, t has.
LEMMA AddedKeeps ==
    ASSUME NEW s, NEW t, NEW q, NEW chunk, Adds(s, t, q, chunk), NEW k \in Nat \ {0}, NEW x
    PROVE  /\ HasEvent(s, k, x) => HasEvent(t, k, x)
           /\ HasEntry(s, k, x) => HasEntry(t, k, x)
           /\ Defines(s, k, x) => Defines(t, k, x)
<1>1. Pre(s, t)
  BY DEF Adds
<1>2. 3 * k <= Len(s) => (Defines(s, k, x) <=> Defines(t, k, x))
  BY <1>1, PreDefines
<1>3. (HasEvent(s, k, x) => HasEvent(t, k, x)) /\ (HasEntry(s, k, x) => HasEntry(t, k, x))
  BY <1>1, PreKeeps
<1>. QED BY <1>2, <1>3 DEF Defines

LEMMA AddedInOrder ==
    ASSUME NEW s, NEW t, NEW q, NEW chunk, Adds(s, t, q, chunk), ChunksInOrder(s)
    PROVE  ChunksInOrder(t)
<1>1. ASSUME NEW k \in 1..Len(t), 3 * k <= Len(t) PROVE WholeChunk(t, k)
  <2>1. \/ k = q
        \/ k \in 1..Len(s) /\ 3 * k <= Len(s) /\ (WholeChunk(s, k) => WholeChunk(t, k))
    BY <1>1, AddedChunks
  <2>2. WholeChunk(t, q)
    BY DEF Adds
  <2>. QED BY <2>1, <2>2 DEF ChunksInOrder
<1>. QED BY <1>1 DEF ChunksInOrder

LEMMA AddedHeaders ==
    ASSUME NEW s, NEW t, NEW q, NEW chunk, Adds(s, t, q, chunk), HeadersInPlace(s)
    PROVE  HeadersInPlace(t)
<1>1. /\ q \in Nat \ {0} /\ Len(s) = 3 * (q - 1) /\ Len(t) = 3 * q
      /\ \A i \in 1..Len(s) : s[i] = t[i]
  BY DEF Adds, Pre
<1>2. ASSUME NEW k \in 1..Len(t), 3 * k - 2 <= Len(t) PROVE t[3 * k - 2].part = 1
  <2>1. CASE k = q
    <3>1. t[3 * q - 3 + 1] = [part |-> 1, chunk |-> t[3 * q].chunk]
      BY DEF Adds, WholeChunk
    <3>2. 3 * q - 3 + 1 = 3 * q - 2
      BY <1>1
    <3>. QED BY <2>1, <3>1, <3>2
  <2>2. CASE k # q
    <3>1. k \in 1..Len(s) /\ 3 * k - 2 <= Len(s) /\ 3 * k - 2 \in 1..Len(s)
      BY <1>1, <1>2, <2>2
    <3>2. s[3 * k - 2].part = 1
      BY <3>1 DEF HeadersInPlace
    <3>. QED BY <1>1, <3>1, <3>2
  <2>. QED BY <2>1, <2>2
<1>. QED BY <1>2 DEF HeadersInPlace

\* A chunk before the new one is as it was.
LEMMA AddedHas ==
    ASSUME NEW s, NEW t, NEW q, NEW chunk, Adds(s, t, q, chunk), NEW k \in 1..(q - 1)
    PROVE  /\ k \in Nat \ {0} /\ k \in 1..Len(s) /\ 3 * k <= Len(s)
           /\ ChunkAt(t, k) = ChunkAt(s, k)
           /\ \A x : HasEvent(s, k, x) <=> HasEvent(t, k, x)
           /\ \A x : HasEntry(s, k, x) <=> HasEntry(t, k, x)
<1>1. Pre(s, t) /\ q \in Nat \ {0} /\ Len(s) = 3 * (q - 1)
  BY DEF Adds
<1>2. k \in Nat \ {0} /\ k \in 1..Len(s) /\ 3 * k <= Len(s)
  BY <1>1
<1>3. ChunkAt(t, k) = ChunkAt(s, k)
  BY <1>1, <1>2, PreChunk
<1>4. ASSUME NEW x
      PROVE  /\ HasEvent(s, k, x) <=> HasEvent(t, k, x)
             /\ HasEntry(s, k, x) <=> HasEntry(t, k, x)
  BY <1>1, <1>2, PreHas
<1>. QED BY <1>2, <1>3, <1>4

\* Every Event chunk is a stretch of the history when the new one is.
LEMMA AddedStretch ==
    ASSUME NEW s, NEW t, NEW q, NEW chunk, Adds(s, t, q, chunk), NEW acc, EventsExact(s, acc),
           chunk.chunk_type = EventType
              => EncodableEvents(chunk.payload) /\ \E b \in 0..Len(acc) : Stretch(t, q, acc, b)
    PROVE  EventsExact(t, acc)
<1>1. ASSUME NEW k \in 1..Len(t), 3 * k <= Len(t), ChunkAt(t, k).chunk_type = EventType
      PROVE  /\ EncodableEvents(ChunkAt(t, k).payload)
             /\ \E b \in 0..Len(acc) : Stretch(t, k, acc, b)
  <2>1. CASE k = q
    <3>1. ChunkAt(t, q) = chunk
      BY DEF Adds
    <3>. QED BY <1>1, <2>1, <3>1
  <2>2. CASE k \in 1..(q - 1)
    <3>1. k \in Nat \ {0} /\ k \in 1..Len(s) /\ 3 * k <= Len(s) /\ ChunkAt(t, k) = ChunkAt(s, k)
      BY <2>2, AddedHas
    <3>2. EncodableEvents(ChunkAt(s, k).payload)
      BY <1>1, <3>1 DEF EventsExact
    <3>3. PICK b \in 0..Len(acc) : Stretch(s, k, acc, b)
      BY <1>1, <3>1 DEF EventsExact
    <3>4. \A j \in 1..(k - 1) : j \in 1..(q - 1)
      <4>1. q \in Nat
        BY DEF Adds
      <4>. QED BY <2>2, <4>1
    <3>5. \A j \in 1..(k - 1) : \A x : HasEvent(t, j, x) <=> HasEvent(s, j, x)
      BY <3>4, AddedHas
    <3>6. Stretch(t, k, acc, b)
      BY <3>1, <3>3, <3>5 DEF Stretch
    <3>. QED BY <3>1, <3>2, <3>6
  <2>. QED BY <1>1, <2>1, <2>2, AddedChunks
<1>. QED BY <1>1 DEF EventsExact

\* No entry of the chunk is like one of s.
NewEntries(s, q, chunk) ==
    /\ LegalEntries(chunk.payload)
    /\ \A e \in RangeOf(chunk.payload), k \in 1..(q - 1) :
          \A f \in RangeOf(ChunkAt(s, k).payload) : HasEntry(s, k, f) => ~Alike(e, f) /\ ~Alike(f, e)

LEMMA AddedEntries ==
    ASSUME NEW s, NEW t, NEW q, NEW chunk, Adds(s, t, q, chunk), EntriesExact(s),
           chunk.chunk_type = DictType => NewEntries(s, q, chunk)
    PROVE  EntriesExact(t)
<1>1. ChunkAt(t, q) = chunk
  BY DEF Adds
<1>2. ASSUME NEW k \in 1..Len(t), 3 * k <= Len(t)
      PROVE  k = q \/ k \in 1..(q - 1)
  BY <1>2, AddedChunks
<1>3. ASSUME NEW k \in 1..Len(t), 3 * k <= Len(t), ChunkAt(t, k).chunk_type = DictType
      PROVE  LegalEntries(ChunkAt(t, k).payload)
  <2>1. CASE k = q
    BY <1>1, <1>3, <2>1 DEF NewEntries
  <2>2. CASE k \in 1..(q - 1)
    <3>1. k \in 1..Len(s) /\ 3 * k <= Len(s) /\ ChunkAt(t, k) = ChunkAt(s, k)
      BY <2>2, AddedHas
    <3>. QED BY <1>3, <3>1 DEF EntriesExact
  <2>. QED BY <1>2, <1>3, <2>1, <2>2
<1>4. ASSUME NEW j \in 1..Len(t), NEW k \in 1..Len(t), 3 * j <= Len(t), 3 * k <= Len(t),
             NEW e \in RangeOf(ChunkAt(t, j).payload), NEW f \in RangeOf(ChunkAt(t, k).payload),
             HasEntry(t, j, e), HasEntry(t, k, f), Alike(e, f)
      PROVE  j = k
  <2>1. CASE j = q /\ k \in 1..(q - 1)
    <3>1. chunk.chunk_type = DictType /\ e \in RangeOf(chunk.payload)
      BY <1>1, <1>4, <2>1 DEF HasEntry
    <3>2. ChunkAt(t, k) = ChunkAt(s, k) /\ HasEntry(s, k, f)
      BY <1>4, <2>1, AddedHas
    <3>3. f \in RangeOf(ChunkAt(s, k).payload)
      BY <1>4, <3>2
    <3>. QED BY <1>4, <2>1, <3>1, <3>2, <3>3 DEF NewEntries
  <2>2. CASE k = q /\ j \in 1..(q - 1)
    <3>1. chunk.chunk_type = DictType /\ f \in RangeOf(chunk.payload)
      BY <1>1, <1>4, <2>2 DEF HasEntry
    <3>2. ChunkAt(t, j) = ChunkAt(s, j) /\ HasEntry(s, j, e)
      BY <1>4, <2>2, AddedHas
    <3>3. e \in RangeOf(ChunkAt(s, j).payload)
      BY <1>4, <3>2
    <3>. QED BY <1>4, <2>2, <3>1, <3>2, <3>3 DEF NewEntries
  <2>3. CASE j \in 1..(q - 1) /\ k \in 1..(q - 1)
    <3>1. /\ j \in 1..Len(s) /\ 3 * j <= Len(s) /\ ChunkAt(t, j) = ChunkAt(s, j) /\ HasEntry(s, j, e)
          /\ k \in 1..Len(s) /\ 3 * k <= Len(s) /\ ChunkAt(t, k) = ChunkAt(s, k) /\ HasEntry(s, k, f)
      BY <1>4, <2>3, AddedHas
    <3>2. e \in RangeOf(ChunkAt(s, j).payload) /\ f \in RangeOf(ChunkAt(s, k).payload)
      BY <1>4, <3>1
    <3>. QED BY <1>4, <3>1, <3>2 DEF EntriesExact
  <2>. QED BY <1>2, <1>4, <2>1, <2>2, <2>3
<1>. QED BY <1>3, <1>4 DEF EntriesExact

\* A Dictionary chunk of new entries may be added at any time.
LEMMA AddDict ==
    ASSUME NEW s, NEW t, NEW q, NEW chunk, Adds(s, t, q, chunk), chunk.chunk_type = DictType,
           NewEntries(s, q, chunk), NEW acc, GoodCells(s, acc)
    PROVE  GoodCells(t, acc)
<1>1. ChunksInOrder(s) /\ EventsInOrder(s, acc) /\ RefsInOrder(s, acc)
  BY DEF GoodCells
<1>2. ChunksInOrder(t)
  BY <1>1, AddedInOrder
<1>3. ASSUME NEW k \in 1..Len(t), NEW x, HasEvent(t, k, x)
      PROVE  k \in Nat \ {0} /\ k \in 1..Len(s) /\ HasEvent(s, k, x)
  <2>1. DictType # EventType
    BY DEF DictType, EventType
  <2>. QED BY <1>3, <2>1, AddedEvent
<1>4. ASSUME NEW k \in 1..Len(t), 3 * k <= Len(t), ChunkAt(t, k).chunk_type = EventType,
             NEW x \in RangeOf(ChunkAt(t, k).payload)
      PROVE  x \in RangeOf(acc)
  <2>1. HasEvent(t, k, x)
    BY <1>4 DEF HasEvent
  <2>2. k \in 1..Len(s) /\ HasEvent(s, k, x)
    BY <1>3, <2>1
  <2>. QED BY <1>1, <2>2 DEF EventsInOrder, HasEvent
<1>5. \A k \in Nat : \A j \in 1..k : j \in Nat \ {0}
  OBVIOUS
<1>6. ASSUME NEW k \in 1..Len(t), NEW n \in 1..Len(acc), HasEvent(t, k, acc[n]), NEW m \in 1..(n - 1)
      PROVE  \E j \in 1..k : HasEvent(t, j, acc[m])
  <2>1. k \in Nat \ {0} /\ k \in 1..Len(s) /\ HasEvent(s, k, acc[n])
    BY <1>3, <1>6
  <2>2. PICK j \in 1..k : HasEvent(s, j, acc[m])
    BY <1>1, <2>1 DEF EventsInOrder
  <2>3. j \in Nat \ {0}
    BY <2>1
  <2>4. HasEvent(t, j, acc[m])
    BY <2>2, <2>3, AddedKeeps
  <2>. QED BY <2>4
<1>7. ASSUME NEW k \in 1..Len(t), NEW n \in 1..Len(acc), HasEvent(t, k, acc[n]), NEW r \in acc[n].refs
      PROVE  \E j \in 1..(k - 1) : Defines(t, j, r)
  <2>1. k \in Nat \ {0} /\ k \in 1..Len(s) /\ HasEvent(s, k, acc[n])
    BY <1>3, <1>7
  <2>2. PICK j \in 1..(k - 1) : Defines(s, j, r)
    BY <1>1, <2>1 DEF RefsInOrder
  <2>3. j \in Nat \ {0}
    BY <2>1
  <2>4. Defines(t, j, r)
    BY <2>2, <2>3, AddedKeeps
  <2>. QED BY <2>4
<1>8. EventsInOrder(t, acc)
  BY <1>4, <1>6 DEF EventsInOrder
<1>9. RefsInOrder(t, acc)
  BY <1>7 DEF RefsInOrder
<1>10. EventsExact(t, acc) /\ EntriesExact(t) /\ HeadersInPlace(t)
  <2>1. DictType # EventType
    BY DEF DictType, EventType
  <2>2. EventsExact(s, acc) /\ EntriesExact(s) /\ HeadersInPlace(s)
    BY DEF GoodCells
  <2>. QED BY <2>1, <2>2, AddedStretch, AddedEntries, AddedHeaders
<1>. QED BY <1>2, <1>8, <1>9, <1>10 DEF GoodCells

\* An Event chunk continues s when it holds all events after the first
\* `base', those are in earlier chunks, and so are the ids the new ones need.
Continues(s, q, chunk, acc, base) ==
    /\ \A x \in RangeOf(chunk.payload) : \E n \in 1..Len(acc) : base < n /\ x = acc[n]
    /\ \A n \in 1..Len(acc) : base < n => acc[n] \in RangeOf(chunk.payload)
    /\ \A n \in 1..Len(acc) : n <= base => \E k \in 1..(q - 1) : HasEvent(s, k, acc[n])
    /\ \A n \in 1..Len(acc) : base < n =>
          \A r \in acc[n].refs : \E j \in 1..(q - 1) : Defines(s, j, r)
    /\ EncodableEvents(chunk.payload)
    /\ base <= Len(acc) /\ base + Len(chunk.payload) = Len(acc)
    /\ \A i \in 1..Len(chunk.payload) : chunk.payload[i] = acc[base + i]
    /\ \A k \in 1..(q - 1), n \in 1..Len(acc) : HasEvent(s, k, acc[n]) => n <= base

\* Such a chunk may be added.
LEMMA AddEvents ==
    ASSUME NEW s, NEW t, NEW q, NEW chunk, Adds(s, t, q, chunk), chunk.chunk_type = EventType,
           NEW acc, Numbered(acc), GoodCells(s, acc),
           NEW base \in Nat, Continues(s, q, chunk, acc, base)
    PROVE  GoodCells(t, acc)
<1>0. /\ \A x \in RangeOf(chunk.payload) : \E n \in 1..Len(acc) : base < n /\ x = acc[n]
      /\ \A n \in 1..Len(acc) : base < n => acc[n] \in RangeOf(chunk.payload)
      /\ \A n \in 1..Len(acc) : n <= base => \E k \in 1..(q - 1) : HasEvent(s, k, acc[n])
      /\ \A n \in 1..Len(acc) : base < n =>
            \A r \in acc[n].refs : \E j \in 1..(q - 1) : Defines(s, j, r)
  BY DEF Continues
<1>1. ChunksInOrder(s) /\ EventsInOrder(s, acc) /\ RefsInOrder(s, acc)
  BY DEF GoodCells
<1>2. ChunksInOrder(t)
  BY <1>1, AddedInOrder
<1>3. acc \in Seq(Events) /\ Len(acc) \in Nat
  BY LenProperties DEF Numbered
<1>4. q \in Nat \ {0} /\ ChunkAt(t, q) = chunk /\ 3 * q <= Len(t)
  BY DEF Adds
<1>5. ASSUME NEW k \in 1..Len(t), 3 * k <= Len(t), ChunkAt(t, k).chunk_type = EventType,
             NEW x \in RangeOf(ChunkAt(t, k).payload)
      PROVE  x \in RangeOf(acc)
  <2>1. HasEvent(t, k, x)
    BY <1>5 DEF HasEvent
  <2>2. CASE x \in RangeOf(chunk.payload)
    BY <1>0, <2>2, <1>3, RangeProps, ZenonT(60)
  <2>3. CASE k \in 1..Len(s) /\ HasEvent(s, k, x)
    BY <1>1, <2>3 DEF EventsInOrder, HasEvent
  <2>. QED BY <2>1, <2>2, <2>3, AddedEvent
<1>6. ASSUME NEW n \in 1..Len(acc), acc[n] \in RangeOf(chunk.payload)
      PROVE  base < n
  <2>1. PICK i \in 1..Len(acc) : base < i /\ acc[n] = acc[i]
    BY <1>0, <1>6
  <2>2. n = i
    BY <2>1 DEF Numbered
  <2>. QED BY <2>1, <2>2
<1>7. ASSUME NEW n \in 1..Len(acc), base < n
      PROVE  HasEvent(t, q, acc[n])
  BY <1>0, <1>4, <1>7 DEF HasEvent
<1>8. ASSUME NEW k \in 1..Len(t), NEW n \in 1..Len(acc), HasEvent(t, k, acc[n]), NEW m \in 1..(n - 1)
      PROVE  \E j \in 1..k : HasEvent(t, j, acc[m])
  <2>0. m \in 1..Len(acc) /\ m < n
    BY <1>3
  <2>1. CASE k = q
    <3>1. CASE base < m
      <4>1. HasEvent(t, q, acc[m])
        BY <1>7, <2>0, <3>1
      <4>. QED BY <2>1, <4>1, <1>4
    <3>2. CASE m <= base
      <4>1. PICK j \in 1..(q - 1) : HasEvent(s, j, acc[m])
        BY <1>0, <2>0, <3>2
      <4>2. j \in Nat \ {0} /\ j \in 1..k
        BY <1>4, <2>1
      <4>3. HasEvent(t, j, acc[m])
        BY <4>1, <4>2, AddedKeeps
      <4>. QED BY <4>2, <4>3
    <3>. QED BY <3>1, <3>2
  <2>2. CASE k \in Nat \ {0} /\ k \in 1..Len(s) /\ HasEvent(s, k, acc[n])
    <3>1. PICK j \in 1..k : HasEvent(s, j, acc[m])
      BY <1>1, <2>2 DEF EventsInOrder
    <3>2. j \in Nat \ {0}
      BY <2>2
    <3>3. HasEvent(t, j, acc[m])
      BY <3>1, <3>2, AddedKeeps
    <3>. QED BY <3>3
  <2>. QED BY <1>8, <2>1, <2>2, AddedEvent
<1>9. ASSUME NEW k \in 1..Len(t), NEW n \in 1..Len(acc), HasEvent(t, k, acc[n]), NEW r \in acc[n].refs
      PROVE  \E j \in 1..(k - 1) : Defines(t, j, r)
  <2>1. CASE k = q /\ acc[n] \in RangeOf(chunk.payload)
    <3>1. PICK j \in 1..(q - 1) : Defines(s, j, r)
      BY <1>0, <1>6, <2>1
    <3>2. j \in Nat \ {0}
      BY <1>4
    <3>3. Defines(t, j, r)
      BY <3>1, <3>2, AddedKeeps
    <3>. QED BY <2>1, <3>3
  <2>2. CASE k \in Nat \ {0} /\ k \in 1..Len(s) /\ HasEvent(s, k, acc[n])
    <3>1. PICK j \in 1..(k - 1) : Defines(s, j, r)
      BY <1>1, <2>2 DEF RefsInOrder
    <3>2. j \in Nat \ {0}
      BY <2>2
    <3>3. Defines(t, j, r)
      BY <3>1, <3>2, AddedKeeps
    <3>. QED BY <3>3
  <2>. QED BY <1>9, <2>1, <2>2, AddedEvent
<1>10. EventsInOrder(t, acc)
  BY <1>5, <1>8 DEF EventsInOrder
<1>11. RefsInOrder(t, acc)
  BY <1>9 DEF RefsInOrder
<1>12. /\ EncodableEvents(chunk.payload)
       /\ base <= Len(acc) /\ base + Len(chunk.payload) = Len(acc)
       /\ \A i \in 1..Len(chunk.payload) : chunk.payload[i] = acc[base + i]
       /\ \A k \in 1..(q - 1), n \in 1..Len(acc) : HasEvent(s, k, acc[n]) => n <= base
  BY DEF Continues
<1>13. \A j \in 1..(q - 1) : \A x : HasEvent(t, j, x) <=> HasEvent(s, j, x)
  BY AddedHas
<1>14. \A n \in 1..Len(acc) : n <= base <=> \E j \in 1..(q - 1) : HasEvent(t, j, acc[n])
  BY <1>0, <1>12, <1>13
<1>15. base + Len(chunk.payload) <= Len(acc)
  BY <1>3, <1>12
<1>16. Stretch(t, q, acc, base)
  BY <1>4, <1>12, <1>14, <1>15 DEF Stretch
<1>17. base \in 0..Len(acc)
  BY <1>3, <1>12
<1>18. EventsExact(t, acc) /\ EntriesExact(t) /\ HeadersInPlace(t)
  <2>1. DictType # EventType
    BY DEF DictType, EventType
  <2>2. EventsExact(s, acc) /\ EntriesExact(s) /\ HeadersInPlace(s)
    BY DEF GoodCells
  <2>. QED BY <1>12, <1>16, <1>17, <2>1, <2>2, AddedStretch, AddedEntries, AddedHeaders
<1>. QED BY <1>2, <1>10, <1>11, <1>18 DEF GoodCells

-----------------------------------------------------------------------------
(* The writer's invariant, step by step *)

\* Where the cells of the stream are does not matter to it.
LEMMA InvSame ==
    ASSUME NEW w, NEW v, SameFields(v, w), Stream(v) = Stream(w), NEW acc, WriterInv(w, acc)
    PROVE  WriterInv(v, acc)
BY DEF WriterInv, DictInv, Sealed, SameFields

\* The dictionary part of the invariant depends on these fields only.
LEMMA DictSame ==
    ASSUME NEW w, NEW v, v.dictionary = w.dictionary, v.pending_dict = w.pending_dict,
           v.next_chunk_seq = w.next_chunk_seq, Stream(v) = Stream(w), DictInv(w)
    PROVE  DictInv(v)
BY DEF DictInv

\* What is pending is new to the stream.
LEMMA PendingNew ==
    ASSUME NEW w \in WriterStates, DictInv(w), EncodableEntries(w.pending_dict),
           NEW chunk, chunk.payload = w.pending_dict
    PROVE  NewEntries(Stream(w), w.next_chunk_seq, chunk)
<1> DEFINE p == w.pending_dict
           D == w.dictionary.entries
           s == Stream(w)
           q == w.next_chunk_seq
<1>1. p \in Seq(DictEntry)
  BY FieldTypes
<1>2. \A i \in 1..Len(p) : p[i] \in RangeOf(p)
  BY <1>1, RangeProps
<1>3. RangeOf(p) \subseteq D
  BY DEF DictInv
<1>4. /\ \A e, f \in D : Alike(e, f) => e = f
      /\ \A e \in D : e.id # 0 /\ e.name \notin LongNames
      /\ \A i, j \in 1..Len(p) : p[i] = p[j] => i = j
  BY DEF DictInv
<1>5. \A k \in 1..(q - 1) : \A f \in RangeOf(ChunkAt(s, k).payload) :
         HasEntry(s, k, f) => f \in D /\ f \notin RangeOf(p)
  BY DEF DictInv
<1>6. EncodableEntries(p) /\ chunk.payload = p
  OBVIOUS
<1> HIDE DEF p, D, s, q
<1>7. LegalEntries(p)
  BY <1>2, <1>3, <1>4, <1>6 DEF LegalEntries
<1>8. ASSUME NEW e \in RangeOf(p), NEW k \in 1..(q - 1), NEW f \in RangeOf(ChunkAt(s, k).payload),
             HasEntry(s, k, f)
      PROVE  ~Alike(e, f) /\ ~Alike(f, e)
  BY <1>3, <1>4, <1>5, <1>8
<1>9. NewEntries(s, q, chunk)
  BY <1>6, <1>7, <1>8 DEF NewEntries
<1>. QED BY <1>9 DEF s, q

\* The facts about a writer that sealing a chunk starts from.
LEMMA InvFacts ==
    ASSUME NEW w \in WriterStates, NEW acc, Numbered(acc), WriterInv(w, acc)
    PROVE  /\ w.next_chunk_seq \in Nat \ {0}
           /\ Stream(w) \in Seq(Cells)
           /\ Len(Stream(w)) = 3 * (w.next_chunk_seq - 1)
           /\ w.pending_events \in Seq(Events) /\ w.pending_dict \in Seq(DictEntry)
           /\ Len(w.pending_events) \in Nat /\ Len(acc) \in Nat
           /\ Sealed(w, acc) \in Nat
           /\ Sealed(w, acc) + Len(w.pending_events) = Len(acc)
           /\ GoodCells(Stream(w), acc)
<1>1. w.next_chunk_seq \in Nat /\ w.pending_events \in Seq(Events) /\ w.pending_dict \in Seq(DictEntry)
  BY FieldTypes
<1>2. acc \in Seq(Events)
  BY DEF Numbered
<1>3. Len(w.pending_events) \in Nat /\ Len(acc) \in Nat
  BY <1>1, <1>2, LenProperties
<1>4. /\ w.next_chunk_seq >= 1
      /\ Len(Stream(w)) = 3 * (w.next_chunk_seq - 1)
      /\ Len(w.pending_events) <= Len(acc)
      /\ GoodCells(Stream(w), acc)
  BY DEF WriterInv
<1>5. w.next_chunk_seq \in Nat \ {0}
  BY <1>1, <1>4
<1>6. Sealed(w, acc) \in Nat /\ Sealed(w, acc) + Len(w.pending_events) = Len(acc)
  BY <1>3, <1>4 DEF Sealed
<1>7. Stream(w) \in Seq(Cells)
  BY StreamProps
<1>. QED BY <1>1, <1>3, <1>4, <1>5, <1>6, <1>7

LEMMA InvSealDict ==
    ASSUME NEW w \in WriterStates, NEW o, SealedDict(o, w),
           NEW acc, Numbered(acc), WriterInv(w, acc)
    PROVE  WriterInv(o.w, acc) /\ Pre(Stream(w), Stream(o.w))
<1> DEFINE q == w.next_chunk_seq
           chunk == Chunk(DictType, q, w.pending_dict)
           s == Stream(w)
           t == Stream(o.w)
<1>1. /\ q \in Nat \ {0} /\ s \in Seq(Cells) /\ Len(s) = 3 * (q - 1)
      /\ w.pending_dict \in Seq(DictEntry) /\ GoodCells(s, acc)
  BY InvFacts
<1>2. chunk.sequence = q /\ chunk.chunk_type = DictType /\ chunk.payload = w.pending_dict
  BY DEF Chunk
<1>3. EncodeCommittedChunk(chunk) \in Seq(Cells)
  BY <1>1, EncodeType
<1>4. t = s \o EncodeCommittedChunk(chunk)
  BY DEF SealedDict
<1> HIDE DEF chunk, s, t, q
<1>5. Adds(s, t, q, chunk)
  BY <1>1, <1>2, <1>3, <1>4, EncodeAdds
<1>6. GoodCells(t, acc)
  <2>1. NewEntries(s, q, chunk)
    BY <1>2, PendingNew DEF WriterInv, SealedDict, s, q
  <2>. QED BY <1>1, <1>2, <1>5, <2>1, AddDict
<1>7. Len(t) = 3 * q /\ ChunkAt(t, q) = chunk /\ Pre(s, t)
  BY <1>5 DEF Adds
<1>8. /\ o.w.dictionary = w.dictionary /\ o.w.next_event_seq = w.next_event_seq
      /\ o.w.pending_events = w.pending_events
      /\ o.w.next_chunk_seq = q + 1 /\ o.w.pending_dict = <<>>
  BY DEF SealedDict, q
<1>9. q + 1 >= 1 /\ Len(t) = 3 * ((q + 1) - 1) /\ (q + 1) - 1 = q
  BY <1>1, <1>7
<1>10. \A k \in 1..(q - 1) : k \in Nat \ {0} /\ k \in 1..q
  BY <1>1
<1>11. \A n \in 1..Sealed(w, acc) : \E k \in 1..q : HasEvent(t, k, acc[n])
  <2>1. \A n \in 1..Sealed(w, acc) : \E k \in 1..(q - 1) : HasEvent(s, k, acc[n])
    BY DEF WriterInv, q, s
  <2>. QED BY <1>5, <1>10, <2>1, AddedKeeps
<1>12. \A e \in w.dictionary.entries : \E k \in 1..q : HasEntry(t, k, e)
  <2>1. ASSUME NEW e \in RangeOf(w.pending_dict) PROVE HasEntry(t, q, e)
    <3>1. 3 * q <= Len(t)
      BY <1>1, <1>7
    <3>. QED BY <1>2, <1>7, <3>1 DEF HasEntry
  <2>2. \A e \in w.dictionary.entries :
           e \in RangeOf(w.pending_dict) \/ \E k \in 1..(q - 1) : HasEntry(s, k, e)
    BY DEF WriterInv, q, s
  <2>3. q \in 1..q
    BY <1>1
  <2>. QED BY <1>5, <1>10, <2>1, <2>2, <2>3, AddedKeeps
<1>13. Sealed(o.w, acc) = Sealed(w, acc)
  BY <1>8 DEF Sealed
<1>14. /\ w.next_event_seq = Len(acc) + 1
       /\ Len(w.pending_events) <= Len(acc)
       /\ \A i \in 1..Len(w.pending_events) : w.pending_events[i] = acc[Sealed(w, acc) + i]
       /\ \A i \in 1..Len(w.pending_events) : w.pending_events[i].refs \subseteq Keys(w.dictionary)
  BY DEF WriterInv
<1>15. \A k \in 1..q, n \in 1..Len(acc) : HasEvent(t, k, acc[n]) => n <= Sealed(w, acc)
  <2>1. \A k \in 1..(q - 1), n \in 1..Len(acc) : HasEvent(s, k, acc[n]) => n <= Sealed(w, acc)
    BY DEF WriterInv, q, s
  <2>2. \A k \in 1..(q - 1) : \A x : HasEvent(s, k, x) <=> HasEvent(t, k, x)
    BY <1>5, AddedHas
  <2>3. \A x : ~HasEvent(t, q, x)
    BY <1>2, <1>7 DEF HasEvent, DictType, EventType
  <2>4. \A k \in 1..q : k = q \/ k \in 1..(q - 1)
    BY <1>1
  <2>. QED BY <2>1, <2>2, <2>3, <2>4
<1>16. DictInv(o.w)
  <2>1. /\ \A e, f \in w.dictionary.entries : Alike(e, f) => e = f
        /\ \A e \in w.dictionary.entries :
              e.id # 0 /\ e.id < w.dictionary.next_id[e.kind] /\ e.name \notin LongNames
        /\ \A kind \in Kinds : w.dictionary.next_id[kind] >= 1
    BY DEF WriterInv, DictInv
  <2>2. \A k \in 1..(q - 1) : \A e \in RangeOf(ChunkAt(s, k).payload) :
           HasEntry(s, k, e) => e \in w.dictionary.entries
    BY DEF WriterInv, DictInv, q, s
  <2>3. RangeOf(w.pending_dict) \subseteq w.dictionary.entries
    BY DEF WriterInv, DictInv
  <2>4. ASSUME NEW k \in 1..q, NEW e \in RangeOf(ChunkAt(t, k).payload), HasEntry(t, k, e)
        PROVE  e \in w.dictionary.entries
    <3>1. CASE k = q
      BY <1>2, <1>7, <2>3, <2>4, <3>1
    <3>2. CASE k \in 1..(q - 1)
      <4>1. ChunkAt(t, k) = ChunkAt(s, k) /\ HasEntry(s, k, e)
        BY <1>5, <2>4, <3>2, AddedHas
      <4>. QED BY <2>2, <2>4, <3>2, <4>1
    <3>3. k = q \/ k \in 1..(q - 1)
      BY <1>1
    <3>. QED BY <3>1, <3>2, <3>3
  <2>5. RangeOf(o.w.pending_dict) = {} /\ 1..Len(o.w.pending_dict) = {}
    <3>1. Len(o.w.pending_dict) = 0
      BY <1>8, EmptySeq
    <3>. QED BY <1>8, <3>1 DEF RangeOf
  <2>. QED BY <1>8, <1>9, <2>1, <2>4, <2>5 DEF DictInv, t
<1>17. WriterInv(o.w, acc)
  BY <1>6, <1>8, <1>9, <1>11, <1>12, <1>13, <1>14, <1>15, <1>16 DEF WriterInv, t
<1>. QED BY <1>7, <1>17 DEF s, t

\* Once no name is pending, every id an event needs is in an earlier chunk.
LEMMA InvSealEvents ==
    ASSUME NEW w \in WriterStates, w.pending_dict = <<>>, NEW o, SealedEvents(o, w),
           NEW acc, Numbered(acc), WriterInv(w, acc)
    PROVE  WriterInv(o.w, acc) /\ Pre(Stream(w), Stream(o.w))
<1> DEFINE q == w.next_chunk_seq
           pending == w.pending_events
           chunk == Chunk(EventType, q, pending)
           base == Sealed(w, acc)
           s == Stream(w)
           t == Stream(o.w)
<1>1. /\ q \in Nat \ {0} /\ s \in Seq(Cells) /\ Len(s) = 3 * (q - 1)
      /\ pending \in Seq(Events) /\ GoodCells(s, acc)
      /\ Len(pending) \in Nat /\ Len(acc) \in Nat /\ base \in Nat /\ base + Len(pending) = Len(acc)
  BY InvFacts
<1>2. chunk.sequence = q /\ chunk.chunk_type = EventType /\ chunk.payload = pending
  BY DEF Chunk
<1>3. EncodeCommittedChunk(chunk) \in Seq(Cells)
  BY <1>1, EncodeType
<1>4. t = s \o EncodeCommittedChunk(chunk)
  BY DEF SealedEvents
<1>5. /\ \A i \in 1..Len(pending) : pending[i] = acc[base + i]
      /\ \A n \in 1..base : \E k \in 1..(q - 1) : HasEvent(s, k, acc[n])
      /\ \A i \in 1..Len(pending) : pending[i].refs \subseteq Keys(w.dictionary)
      /\ w.next_event_seq = Len(acc) + 1
  BY DEF WriterInv
<1>6. \A e \in w.dictionary.entries : \E k \in 1..(q - 1) : HasEntry(s, k, e)
  <2>1. RangeOf(w.pending_dict) = {}
    BY DEF RangeOf
  <2>. QED BY <2>1 DEF WriterInv
<1>7. /\ o.w.dictionary = w.dictionary /\ o.w.next_event_seq = w.next_event_seq
      /\ o.w.pending_events = <<>> /\ o.w.next_chunk_seq = q + 1 /\ o.w.pending_dict = w.pending_dict
  BY DEF SealedEvents
<1> HIDE DEF chunk, s, t, q, base, pending
<1>8. Adds(s, t, q, chunk)
  BY <1>1, <1>2, <1>3, <1>4, EncodeAdds
<1>9. \A n \in 1..Len(acc) : base < n => n - base \in 1..Len(pending) /\ base + (n - base) = n
  BY <1>1
<1>10. ASSUME NEW n \in 1..Len(acc), base < n
       PROVE  acc[n] = pending[n - base] /\ acc[n] \in RangeOf(pending)
  <2>1. n - base \in 1..Len(pending) /\ base + (n - base) = n
    BY <1>9, <1>10
  <2>2. acc[n] = pending[n - base]
    BY <1>5, <2>1
  <2>3. pending[n - base] \in RangeOf(pending)
    BY <1>1, <2>1, RangeProps
  <2>. QED BY <2>2, <2>3
<1>11. \A x \in RangeOf(pending) : \E n \in 1..Len(acc) : base < n /\ x = acc[n]
  <2>1. ASSUME NEW i \in 1..Len(pending) PROVE base + i \in 1..Len(acc) /\ base < base + i
    BY <1>1
  <2>2. ASSUME NEW x \in RangeOf(pending) PROVE \E n \in 1..Len(acc) : base < n /\ x = acc[n]
    <3>1. PICK i \in 1..Len(pending) : x = pending[i]
      BY <1>1, RangeProps
    <3>2. x = acc[base + i]
      BY <1>5, <3>1
    <3>. QED BY <2>1, <3>2
  <2>. QED BY <2>2
<1>12. \A n \in 1..Len(acc) : n <= base => \E k \in 1..(q - 1) : HasEvent(s, k, acc[n])
  <2>1. \A n \in 1..Len(acc) : n <= base => n \in 1..base
    BY <1>1
  <2>. QED BY <1>5, <2>1
<1>13. ASSUME NEW n \in 1..Len(acc), base < n, NEW r \in acc[n].refs
       PROVE  \E j \in 1..(q - 1) : Defines(s, j, r)
  <2>1. r \in Keys(w.dictionary)
    BY <1>5, <1>9, <1>10, <1>13
  <2>2. PICK e \in w.dictionary.entries : Key(e) = r
    BY <2>1 DEF Keys
  <2>3. PICK j \in 1..(q - 1) : HasEntry(s, j, e)
    BY <1>6
  <2>4. Defines(s, j, r)
    BY <2>2, <2>3 DEF HasEntry, Defines
  <2>. QED BY <2>4
<1>14. GoodCells(t, acc)
  <2>1. \A x \in RangeOf(chunk.payload) : \E n \in 1..Len(acc) : base < n /\ x = acc[n]
    BY <1>2, <1>11
  <2>2. \A n \in 1..Len(acc) : base < n => acc[n] \in RangeOf(chunk.payload)
    BY <1>2, <1>10
  <2>3. \A n \in 1..Len(acc) : base < n =>
               \A r \in acc[n].refs : \E j \in 1..(q - 1) : Defines(s, j, r)
    BY <1>13
  <2>5. \A k \in 1..(q - 1), n \in 1..Len(acc) : HasEvent(s, k, acc[n]) => n <= base
    BY DEF WriterInv, q, s, base
  <2>6. EncodableEvents(pending)
    BY DEF SealedEvents, pending
  <2>7. base <= Len(acc)
    BY <1>1
  <2>8. \A i \in 1..Len(pending) : pending[i] = acc[base + i]
    BY <1>5
  <2>4. Continues(s, q, chunk, acc, base)
    BY <1>1, <1>2, <1>12, <2>1, <2>2, <2>3, <2>5, <2>6, <2>7, <2>8 DEF Continues
  <2>. QED BY <1>1, <1>2, <1>8, <2>4, AddEvents
<1>15. Len(t) = 3 * q /\ ChunkAt(t, q) = chunk /\ Pre(s, t)
  BY <1>8 DEF Adds
<1>16. q + 1 >= 1 /\ Len(t) = 3 * ((q + 1) - 1) /\ (q + 1) - 1 = q /\ q \in 1..q /\ 3 * q <= Len(t)
  BY <1>1, <1>15
<1>17. \A k \in 1..(q - 1) : k \in Nat \ {0} /\ k \in 1..q
  BY <1>1
<1>18. ASSUME NEW n \in 1..Len(acc) PROVE \E k \in 1..q : HasEvent(t, k, acc[n])
  <2>1. CASE base < n
    <3>1. HasEvent(t, q, acc[n])
      BY <1>2, <1>10, <1>15, <1>16, <2>1 DEF HasEvent
    <3>. QED BY <1>16, <3>1
  <2>2. CASE n <= base
    <3>1. PICK k \in 1..(q - 1) : HasEvent(s, k, acc[n])
      BY <1>12, <2>2
    <3>2. k \in Nat \ {0} /\ k \in 1..q
      BY <1>17
    <3>3. HasEvent(t, k, acc[n])
      BY <1>8, <3>1, <3>2, AddedKeeps
    <3>. QED BY <3>2, <3>3
  <2>. QED BY <1>1, <2>1, <2>2
<1>19. ASSUME NEW e \in w.dictionary.entries PROVE \E k \in 1..q : HasEntry(t, k, e)
  <2>1. PICK k \in 1..(q - 1) : HasEntry(s, k, e)
    BY <1>6
  <2>2. k \in Nat \ {0} /\ k \in 1..q
    BY <1>17
  <2>3. HasEntry(t, k, e)
    BY <1>8, <2>1, <2>2, AddedKeeps
  <2>. QED BY <2>2, <2>3
<1>20. Len(o.w.pending_events) = 0 /\ Sealed(o.w, acc) = Len(acc)
  <2>1. Len(o.w.pending_events) = 0
    BY <1>7, EmptySeq
  <2>. QED BY <1>1, <2>1 DEF Sealed
<1>22. DictInv(o.w)
  <2>1. /\ \A e, f \in w.dictionary.entries : Alike(e, f) => e = f
        /\ \A e \in w.dictionary.entries :
              e.id # 0 /\ e.id < w.dictionary.next_id[e.kind] /\ e.name \notin LongNames
        /\ \A kind \in Kinds : w.dictionary.next_id[kind] >= 1
    BY DEF WriterInv, DictInv
  <2>2. \A k \in 1..(q - 1) : \A e \in RangeOf(ChunkAt(s, k).payload) :
           HasEntry(s, k, e) => e \in w.dictionary.entries
    BY DEF WriterInv, DictInv, q, s
  <2>3. ASSUME NEW k \in 1..q, NEW e \in RangeOf(ChunkAt(t, k).payload), HasEntry(t, k, e)
        PROVE  e \in w.dictionary.entries
    <3>1. k # q
      BY <1>2, <1>15, <2>3 DEF HasEntry, DictType, EventType
    <3>2. k \in 1..(q - 1)
      BY <1>1, <3>1
    <3>3. ChunkAt(t, k) = ChunkAt(s, k) /\ HasEntry(s, k, e)
      BY <1>8, <2>3, <3>2, AddedHas
    <3>. QED BY <2>2, <2>3, <3>2, <3>3
  <2>4. RangeOf(o.w.pending_dict) = {} /\ 1..Len(o.w.pending_dict) = {}
    <3>1. o.w.pending_dict = <<>> /\ Len(o.w.pending_dict) = 0
      BY <1>7, EmptySeq
    <3>. QED BY <3>1 DEF RangeOf
  <2>5. o.w.next_chunk_seq - 1 = q
    BY <1>7, <1>16
  <2>. QED BY <1>7, <2>1, <2>3, <2>4, <2>5 DEF DictInv, t
<1>21. WriterInv(o.w, acc)
  <2>4. \A n \in 1..Len(acc) : n <= Len(acc)
    BY <1>1
  <2>1. 1..Len(o.w.pending_events) = {} /\ Len(o.w.pending_events) <= Len(acc)
    BY <1>1, <1>20
  <2>2. o.w.next_chunk_seq >= 1 /\ Len(t) = 3 * (o.w.next_chunk_seq - 1) /\ o.w.next_chunk_seq - 1 = q
    BY <1>7, <1>16
  <2>3. o.w.next_event_seq = Len(acc) + 1
    BY <1>5, <1>7
  <2>. QED BY <1>7, <1>14, <1>18, <1>19, <1>20, <1>22, <2>1, <2>2, <2>3, <2>4 DEF WriterInv, t
<1>. QED BY <1>15, <1>21 DEF s, t

\* append_event numbers the event with its position in the history.
LEMMA InvPushed ==
    ASSUME NEW w \in WriterStates, NEW acc, Numbered(acc), WriterInv(w, acc),
           NEW ev \in Events, RefsResolve(w.dictionary, ev),
           NEW rec, rec = [ev EXCEPT !.event_sequence = w.next_event_seq]
    PROVE  /\ rec \in Events /\ rec.event_sequence = Len(acc) + 1
           /\ WriterInv(Pushed(w, ev), Append(acc, rec))
<1> DEFINE v == Pushed(w, ev)
           grown == Append(acc, rec)
           q == w.next_chunk_seq
           base == Sealed(w, acc)
           pending == w.pending_events
<1>0. q \in Nat \ {0} /\ Stream(w) \in Seq(Cells)
  BY InvFacts
<1>1. /\ pending \in Seq(Events) /\ Len(pending) \in Nat /\ Len(acc) \in Nat
      /\ base \in Nat /\ base + Len(pending) = Len(acc) /\ GoodCells(Stream(w), acc)
  BY InvFacts
<1>2. /\ q >= 1 /\ Len(Stream(w)) = 3 * (q - 1)
      /\ w.next_event_seq = Len(acc) + 1
      /\ \A i \in 1..Len(pending) : pending[i] = acc[base + i]
      /\ \A n \in 1..base : \E k \in 1..(q - 1) : HasEvent(Stream(w), k, acc[n])
      /\ \A e \in w.dictionary.entries :
            e \in RangeOf(w.pending_dict) \/ \E k \in 1..(q - 1) : HasEntry(Stream(w), k, e)
      /\ \A i \in 1..Len(pending) : pending[i].refs \subseteq Keys(w.dictionary)
  BY DEF WriterInv
<1>3. rec \in Events /\ rec.event_sequence = Len(acc) + 1 /\ rec.refs = ev.refs
  <2>1. rec \in Events
    BY PushedType
  <2>2. rec.event_sequence = w.next_event_seq /\ rec.refs = ev.refs
    BY DEF Events
  <2>. QED BY <1>2, <2>1, <2>2
<1>4. /\ Len(grown) = Len(acc) + 1
      /\ \A n \in 1..Len(acc) : grown[n] = acc[n]
      /\ grown[Len(acc) + 1] = rec
  BY <1>3, GrownProps
<1>5. GoodCells(Stream(w), grown)
  BY <1>0, <1>1, <1>3, GoodGrown
<1>6. /\ v.dictionary = w.dictionary /\ v.pending_dict = w.pending_dict
      /\ v.next_chunk_seq = q /\ v.buf = w.buf /\ v.disk = w.disk
      /\ v.next_event_seq = w.next_event_seq + 1
      /\ v.pending_events = Append(pending, rec)
  BY DEF Pushed, WriterStates
<1>7. Stream(v) = Stream(w)
  BY <1>6 DEF Stream
<1>8. Len(v.pending_events) = Len(pending) + 1
  BY <1>1, <1>3, <1>6, AppendProperties
<1>9. /\ \A i \in 1..Len(pending) : v.pending_events[i] = pending[i]
      /\ v.pending_events[Len(pending) + 1] = rec
  BY <1>1, <1>3, <1>6, AppendProperties
<1> HIDE DEF v, grown, q, base, pending
<1>10. Sealed(v, grown) = base
  <2>1. Sealed(v, grown) = (Len(acc) + 1) - (Len(pending) + 1)
    BY <1>4, <1>8 DEF Sealed
  <2>2. \A a, b, c \in Nat : c + b = a => (a + 1) - (b + 1) = c
    OBVIOUS
  <2>. QED BY <1>1, <2>1, <2>2
<1>11. ASSUME NEW i \in 1..Len(v.pending_events)
       PROVE  v.pending_events[i] = grown[base + i] /\ v.pending_events[i].refs \subseteq Keys(w.dictionary)
  <2>1. i \in 1..Len(pending) \/ i = Len(pending) + 1
    BY <1>1, <1>8
  <2>2. CASE i \in 1..Len(pending)
    <3>1. base + i \in 1..Len(acc)
      BY <1>1, <2>2
    <3>. QED BY <1>2, <1>4, <1>9, <2>2, <3>1
  <2>3. CASE i = Len(pending) + 1
    <3>1. base + i = Len(acc) + 1
      BY <1>1, <2>3, SMTT(60)
    <3>2. rec.refs \subseteq Keys(w.dictionary)
      BY <1>3 DEF RefsResolve
    <3>. QED BY <1>4, <1>9, <2>3, <3>1, <3>2
  <2>. QED BY <2>1, <2>2, <2>3
<1>12. \A n \in 1..base : \E k \in 1..(q - 1) : HasEvent(Stream(w), k, grown[n])
  <2>1. \A n \in 1..base : n \in 1..Len(acc)
    BY <1>1
  <2>. QED BY <1>2, <1>4, <2>1
<1>13. Len(v.pending_events) <= Len(grown) /\ v.next_event_seq = Len(grown) + 1
  BY <1>1, <1>2, <1>4, <1>6, <1>8
<1>14. DictInv(v)
  <2>1. DictInv(w) /\ v.next_chunk_seq = w.next_chunk_seq
    BY <1>6 DEF WriterInv, q
  <2>. QED BY <1>6, <1>7, <2>1, DictSame
<1>15. ASSUME NEW k \in 1..(q - 1), NEW n \in 1..Len(grown), HasEvent(Stream(w), k, grown[n])
       PROVE  n <= base
  <2>1. n \in 1..Len(acc) \/ n = Len(acc) + 1
    BY <1>1, <1>4
  <2>2. n # Len(acc) + 1
    <3>1. rec \notin RangeOf(acc)
      BY <1>3, GrownProps
    <3>2. k \in 1..Len(Stream(w))
      BY <1>0, <1>2
    <3>3. grown[n] \in RangeOf(acc)
      BY <1>1, <1>15, <3>2 DEF GoodCells, EventsInOrder, HasEvent
    <3>. QED BY <1>4, <3>1, <3>3
  <2>3. HasEvent(Stream(w), k, acc[n])
    BY <1>4, <1>15, <2>1, <2>2
  <2>. QED BY <2>1, <2>2, <2>3 DEF WriterInv, q, base
<1>17. WriterInv(v, grown)
  BY <1>2, <1>5, <1>6, <1>7, <1>10, <1>11, <1>12, <1>13, <1>14, <1>15 DEF WriterInv
<1>. QED BY <1>3, <1>17 DEF v, grown

\* The entry intern makes of a new name, and the dictionary with it.
NextEntry(dict, kind, name) == [kind |-> kind, id |-> dict.next_id[kind], name |-> name]

Larger(dict, kind, name) ==
    [entries |-> dict.entries \cup {NextEntry(dict, kind, name)},
     next_id |-> [dict.next_id EXCEPT ![kind] = @ + 1]]

\* The new entry is like no entry of the dictionary.
LEMMA LargerProps ==
    ASSUME NEW dict \in Dictionary, NEW kind \in Kinds, NEW name \in Names,
           Named(dict, kind, name) = {},
           \A e \in dict.entries : e.id < dict.next_id[e.kind],
           \A k \in Kinds : dict.next_id[k] >= 1
    PROVE  LET entry == NextEntry(dict, kind, name)
               grown == Larger(dict, kind, name)
           IN  /\ entry.id # 0 /\ entry.name = name /\ entry.kind = kind
               /\ \A e \in dict.entries : ~Alike(e, entry) /\ ~Alike(entry, e) /\ e # entry
               /\ grown.entries = dict.entries \cup {entry}
               /\ \A e \in grown.entries : e.id < grown.next_id[e.kind]
               /\ \A k \in Kinds : grown.next_id[k] >= 1
<1> DEFINE entry == NextEntry(dict, kind, name)
           grown == Larger(dict, kind, name)
<1>1. dict.entries \subseteq DictEntry /\ dict.next_id \in [Kinds -> Nat]
  BY DEF Dictionary
<1>2. /\ entry.id = dict.next_id[kind] /\ entry.kind = kind /\ entry.name = name
      /\ dict.next_id[kind] \in Nat /\ dict.next_id[kind] >= 1
  BY <1>1 DEF NextEntry
<1>3. /\ grown.entries = dict.entries \cup {entry}
      /\ \A k \in Kinds : grown.next_id[k] = IF k = kind THEN dict.next_id[kind] + 1 ELSE dict.next_id[k]
  BY <1>1 DEF Larger
<1> HIDE DEF entry, grown
<1>4. \A e \in dict.entries : e.kind \in Kinds /\ e.id \in Nat
  BY <1>1 DEF DictEntry
<1>5. ASSUME NEW e \in dict.entries PROVE ~Alike(e, entry) /\ ~Alike(entry, e) /\ e # entry
  <2>1. ~(e.kind = kind /\ e.name = name)
    BY DEF Named
  <2>2. e.kind = kind => e.id # dict.next_id[kind]
    BY <1>2, <1>4
  <2>. QED BY <1>2, <2>1, <2>2 DEF Alike
<1>6. ASSUME NEW e \in dict.entries PROVE e.id < grown.next_id[e.kind]
  BY <1>1, <1>2, <1>3, <1>4
<1>7. entry.id < grown.next_id[entry.kind]
  BY <1>2, <1>3
<1>8. \A k \in Kinds : grown.next_id[k] >= 1
  BY <1>1, <1>2, <1>3
<1>9. entry.id # 0
  BY <1>2
<1>. QED BY <1>2, <1>3, <1>5, <1>6, <1>7, <1>8, <1>9 DEF entry, grown

LEMMA InternDict ==
    ASSUME NEW w \in WriterStates, DictInv(w), NEW kind \in Kinds, NEW name \in Names,
           w.dictionary \in Dictionary, w.pending_dict \in Seq(DictEntry),
           name \notin LongNames, Named(w.dictionary, kind, name) = {},
           NEW entry \in DictEntry, entry = NextEntry(w.dictionary, kind, name),
           NEW v, v.dictionary = Larger(w.dictionary, kind, name),
           v.pending_dict = Append(w.pending_dict, entry),
           v.next_chunk_seq = w.next_chunk_seq, Stream(v) = Stream(w)
    PROVE  DictInv(v)
<1> DEFINE D == w.dictionary.entries
           p == w.pending_dict
<1>1. /\ \A e, f \in D : Alike(e, f) => e = f
      /\ \A e \in D : e.id # 0 /\ e.id < w.dictionary.next_id[e.kind] /\ e.name \notin LongNames
      /\ \A k \in Kinds : w.dictionary.next_id[k] >= 1
      /\ RangeOf(p) \subseteq D
      /\ \A i, j \in 1..Len(p) : p[i] = p[j] => i = j
  BY DEF DictInv
<1>2. /\ entry.id # 0 /\ entry.name = name
      /\ \A e \in D : ~Alike(e, entry) /\ ~Alike(entry, e) /\ e # entry
      /\ v.dictionary.entries = D \cup {entry}
      /\ \A e \in v.dictionary.entries : e.id < v.dictionary.next_id[e.kind]
      /\ \A k \in Kinds : v.dictionary.next_id[k] >= 1
  BY <1>1, LargerProps
<1>3. /\ Len(p) \in Nat /\ v.pending_dict \in Seq(DictEntry) /\ Len(v.pending_dict) = Len(p) + 1
      /\ \A i \in 1..Len(p) : v.pending_dict[i] = p[i]
      /\ v.pending_dict[Len(p) + 1] = entry
  BY AppendProperties, LenProperties
<1>4. /\ \A x \in RangeOf(v.pending_dict) : \E i \in 1..Len(v.pending_dict) : x = v.pending_dict[i]
      /\ \A i \in 1..Len(p) : p[i] \in RangeOf(p)
  BY <1>3, RangeProps
<1>5. \A i \in 1..Len(v.pending_dict) : i \in 1..Len(p) \/ i = Len(p) + 1
  BY <1>3
<1>6. RangeOf(v.pending_dict) \subseteq RangeOf(p) \cup {entry}
  BY <1>3, <1>4, <1>5
<1>7. entry \notin RangeOf(p)
  BY <1>1, <1>2
<1> HIDE DEF D, p
<1>8. ASSUME NEW i \in 1..Len(v.pending_dict), NEW j \in 1..Len(v.pending_dict),
             v.pending_dict[i] = v.pending_dict[j]
      PROVE  i = j
  <2>1. CASE i \in 1..Len(p) /\ j \in 1..Len(p)
    BY <1>1, <1>3, <1>8, <2>1
  <2>2. CASE i \in 1..Len(p) /\ j = Len(p) + 1
    BY <1>3, <1>4, <1>7, <1>8, <2>2
  <2>3. CASE j \in 1..Len(p) /\ i = Len(p) + 1
    BY <1>3, <1>4, <1>7, <1>8, <2>3
  <2>. QED BY <1>5, <2>1, <2>2, <2>3
<1>9. \A e, f \in v.dictionary.entries : Alike(e, f) => e = f
  BY <1>1, <1>2
<1>10. \A e \in v.dictionary.entries : e.id # 0 /\ e.name \notin LongNames
  BY <1>1, <1>2
<1>11. RangeOf(v.pending_dict) \subseteq v.dictionary.entries
  BY <1>1, <1>2, <1>6
<1>12. ASSUME NEW k \in 1..(v.next_chunk_seq - 1), NEW e \in RangeOf(ChunkAt(Stream(v), k).payload),
              HasEntry(Stream(v), k, e)
       PROVE  e \in v.dictionary.entries /\ e \notin RangeOf(v.pending_dict)
  <2>1. e \in D /\ e \notin RangeOf(p)
    BY <1>12 DEF DictInv, D, p
  <2>. QED BY <1>2, <1>6, <2>1
<1>. QED BY <1>2, <1>8, <1>9, <1>10, <1>11, <1>12 DEF DictInv

\* intern adds a name to the dictionary and to pending_dict.
LEMMA InvIntern ==
    ASSUME NEW w \in WriterStates, NEW acc, WriterInv(w, acc), NEW kind \in Kinds, NEW name \in Names
    PROVE  /\ WriterInv(Intern(w, kind, name).w, acc)
           /\ Intern(w, kind, name).w.disk = w.disk
<1> DEFINE dict  == w.dictionary
           found == Named(dict, kind, name)
           entry == [kind |-> kind, id |-> dict.next_id[kind], name |-> name]
           grown == [entries |-> dict.entries \cup {entry},
                     next_id |-> [dict.next_id EXCEPT ![kind] = @ + 1]]
           v == [w EXCEPT !.dictionary = grown, !.pending_dict = Append(@, entry)]
<1>1. CASE name \in LongNames \/ found # {}
  <2>1. Intern(w, kind, name).w = w
    BY <1>1 DEF Intern, Outcome
  <2>. QED BY <2>1
<1>2. CASE ~(name \in LongNames \/ found # {})
  <2>1. Intern(w, kind, name).w = v
    BY <1>2 DEF Intern, Outcome
  <2>2. /\ v.disk = w.disk /\ v.buf = w.buf
        /\ v.pending_events = w.pending_events
        /\ v.next_chunk_seq = w.next_chunk_seq /\ v.next_event_seq = w.next_event_seq
        /\ v.dictionary = grown
        /\ v.pending_dict = Append(w.pending_dict, entry)
    BY DEF WriterStates
  <2>3. entry \in DictEntry /\ w.pending_dict \in Seq(DictEntry)
    <3>1. dict \in Dictionary /\ w.pending_dict \in Seq(DictEntry)
      BY FieldTypes
    <3>2. dict.next_id[kind] \in Nat
      BY <3>1 DEF Dictionary
    <3>. QED BY <3>1, <3>2 DEF DictEntry
  <2>4. grown.entries = dict.entries \cup {entry}
    OBVIOUS
  <2> HIDE DEF v, grown, entry
  <2>5. Append(w.pending_dict, entry) \in Seq(DictEntry)
    BY <2>3, AppendProperties
  <2>6. /\ Len(w.pending_dict) \in Nat
        /\ Len(Append(w.pending_dict, entry)) = Len(w.pending_dict) + 1
        /\ \A i \in 1..Len(w.pending_dict) : Append(w.pending_dict, entry)[i] = w.pending_dict[i]
        /\ Append(w.pending_dict, entry)[Len(w.pending_dict) + 1] = entry
    BY <2>3, AppendProperties, LenProperties
  <2>7. RangeOf(w.pending_dict) \cup {entry} \subseteq RangeOf(v.pending_dict)
    <3>1. \A i \in 1..Len(w.pending_dict) : i \in 1..(Len(w.pending_dict) + 1)
      BY <2>6
    <3>2. Len(w.pending_dict) + 1 \in 1..(Len(w.pending_dict) + 1)
      BY <2>6
    <3>3. \A i \in 1..(Len(w.pending_dict) + 1) :
             Append(w.pending_dict, entry)[i] \in RangeOf(Append(w.pending_dict, entry))
      BY <2>5, <2>6, RangeProps
    <3>4. \A x \in RangeOf(w.pending_dict) : \E i \in 1..Len(w.pending_dict) : x = w.pending_dict[i]
      BY <2>3, RangeProps
    <3>. QED BY <2>2, <2>6, <3>1, <3>2, <3>3, <3>4
  <2>8. Keys(w.dictionary) \subseteq Keys(v.dictionary)
    BY <2>2, <2>4 DEF Keys
  <2>9. Stream(v) = Stream(w) /\ Sealed(v, acc) = Sealed(w, acc)
    BY <2>2 DEF Stream, Sealed
  <2>10. ASSUME NEW e \in v.dictionary.entries
         PROVE  \/ e \in RangeOf(v.pending_dict)
                \/ \E k \in 1..(v.next_chunk_seq - 1) : HasEntry(Stream(v), k, e)
    BY <2>2, <2>4, <2>7, <2>9 DEF WriterInv
  <2>11. DictInv(v)
    <3>1. name \notin LongNames /\ Named(w.dictionary, kind, name) = {} /\ DictInv(w)
      BY <1>2 DEF WriterInv
    <3>2. v.dictionary = Larger(w.dictionary, kind, name) /\ entry = NextEntry(w.dictionary, kind, name)
      BY <2>2 DEF Larger, NextEntry, grown, entry
    <3>3. w.dictionary \in Dictionary
      BY FieldTypes
    <3>. QED BY <2>2, <2>3, <2>9, <3>1, <3>2, <3>3, InternDict
  <2>12. WriterInv(v, acc)
    BY <2>2, <2>8, <2>9, <2>10, <2>11 DEF WriterInv
  <2>. QED BY <2>1, <2>2, <2>12
<1>. QED BY <1>1, <1>2

-----------------------------------------------------------------------------
(* flush_chunk, drop, finish and a crash *)

\* A call took the writer w to v, recorded no event, kept the invariant and
\* took nothing back from the stream or from the file.
Kept(v, w, acc) ==
    /\ v \in WriterStates
    /\ WriterInv(v, acc)
    /\ Pre(Stream(w), Stream(v))
    /\ Len(w.disk) <= Len(v.disk)
    /\ v.next_event_seq = w.next_event_seq

LEMMA KeptTrans ==
    ASSUME NEW u, NEW v, NEW w \in WriterStates, NEW acc, Kept(v, w, acc), Kept(u, v, acc)
    PROVE  Kept(u, w, acc)
<1>1. u \in WriterStates /\ v \in WriterStates
  BY DEF Kept
<1>2. Len(u.disk) \in Nat /\ Len(v.disk) \in Nat /\ Len(w.disk) \in Nat
  BY <1>1, StreamProps
<1>3. Len(w.disk) <= Len(u.disk)
  BY <1>2 DEF Kept
<1>4. Pre(Stream(w), Stream(u))
  BY PreTrans DEF Kept
<1>. QED BY <1>3, <1>4 DEF Kept

\* What was in the file stays at the start of it.
LEMMA KeptDisk ==
    ASSUME NEW w \in WriterStates, NEW v, NEW acc, Kept(v, w, acc)
    PROVE  /\ Pre(w.disk, v.disk)
           /\ GoodCells(v.disk, acc)
<1>1. v \in WriterStates /\ Pre(Stream(w), Stream(v)) /\ Len(w.disk) <= Len(v.disk)
  BY DEF Kept
<1>2. Pre(w.disk, Stream(w)) /\ Pre(v.disk, Stream(v))
  BY <1>1, PreDisk
<1>3. Pre(w.disk, Stream(v))
  BY <1>1, <1>2, PreTrans
<1>4. GoodCells(Stream(v), acc)
  BY DEF Kept, WriterInv
<1>. QED BY <1>1, <1>2, <1>3, <1>4, PreNested, GoodPrefix

LEMMA KeptUnsealed ==
    ASSUME NEW w \in WriterStates, NEW o, Effect(o, w, Stream(o.w)), SameFields(o.w, w),
           Stream(o.w) = Stream(w), NEW acc, WriterInv(w, acc)
    PROVE  Kept(o.w, w, acc)
<1>1. o.w \in WriterStates /\ Len(w.disk) <= Len(o.w.disk)
  BY DEF Effect, Outcomes
<1>2. WriterInv(o.w, acc)
  BY InvSame
<1>3. Pre(Stream(w), Stream(o.w))
  BY StreamProps, PreRefl
<1>. QED BY <1>1, <1>2, <1>3 DEF Kept, SameFields

LEMMA KeptSealDict ==
    ASSUME ~PartialWrites, NEW w \in WriterStates, NEW canFail \in BOOLEAN,
           NEW o \in SealDict(w, canFail), NEW acc, Numbered(acc), WriterInv(w, acc)
    PROVE  Kept(o.w, w, acc) /\ (o.ok => o.w.pending_dict = <<>>)
<1>1. Effect(o, w, Stream(o.w))
  BY SealDictProps
<1>2. CASE Unsealed(o, w) /\ (o.ok => w.pending_dict = <<>>)
  <2>1. SameFields(o.w, w) /\ Stream(o.w) = Stream(w)
    BY <1>2 DEF Unsealed
  <2>2. Kept(o.w, w, acc)
    BY <1>1, <2>1, KeptUnsealed
  <2>. QED BY <1>2, <2>1, <2>2 DEF SameFields
<1>3. CASE SealedDict(o, w)
  <2>1. WriterInv(o.w, acc) /\ Pre(Stream(w), Stream(o.w))
    BY <1>3, InvSealDict
  <2>. QED BY <1>1, <1>3, <2>1 DEF Kept, SealedDict, Effect, Outcomes
<1>. QED BY <1>2, <1>3, SealDictProps DEF CutShort

LEMMA KeptSealEvents ==
    ASSUME ~PartialWrites, NEW w \in WriterStates, w.pending_dict = <<>>, NEW canFail \in BOOLEAN,
           NEW o \in SealEvents(w, canFail), NEW acc, Numbered(acc), WriterInv(w, acc)
    PROVE  Kept(o.w, w, acc) /\ (o.ok => o.w.pending_events = <<>>)
<1>1. Effect(o, w, Stream(o.w))
  BY SealEventsProps
<1>2. CASE Unsealed(o, w) /\ (o.ok => w.pending_events = <<>>)
  <2>1. SameFields(o.w, w) /\ Stream(o.w) = Stream(w)
    BY <1>2 DEF Unsealed
  <2>2. Kept(o.w, w, acc)
    BY <1>1, <2>1, KeptUnsealed
  <2>. QED BY <1>2, <2>1, <2>2 DEF SameFields
<1>3. CASE SealedEvents(o, w)
  <2>1. WriterInv(o.w, acc) /\ Pre(Stream(w), Stream(o.w))
    BY <1>3, InvSealEvents
  <2>. QED BY <1>1, <1>3, <2>1 DEF Kept, SealedEvents, Effect, Outcomes
<1>. QED BY <1>2, <1>3, SealEventsProps DEF CutShort

LEMMA KeptFlush ==
    ASSUME NEW w \in WriterStates, NEW canFail \in BOOLEAN, NEW o \in Flush(w, canFail),
           NEW acc, WriterInv(w, acc)
    PROVE  /\ Kept(o.w, w, acc)
           /\ o.w.pending_events = w.pending_events
           /\ o.ok => Len(o.w.disk) = Len(Stream(o.w))
<1>1. /\ Effect(o, w, Stream(w)) /\ SameFields(o.w, w)
      /\ o.ok => Len(o.w.disk) = Len(Stream(w))
  BY FlushProps
<1>2. Stream(o.w) = Stream(w) /\ Effect(o, w, Stream(o.w))
  BY <1>1 DEF Effect
<1>3. Kept(o.w, w, acc)
  BY <1>1, <1>2, KeptUnsealed
<1>. QED BY <1>1, <1>2, <1>3 DEF SameFields

\* All recorded events are in the file.
AllWritten(v) == v.pending_events = <<>> /\ Len(v.disk) = Len(Stream(v))

LEMMA KeptFlushChunk ==
    ASSUME ~PartialWrites, NEW w \in WriterStates, NEW canFail \in BOOLEAN,
           NEW o \in FlushChunk(w, canFail), NEW acc, Numbered(acc), WriterInv(w, acc)
    PROVE  Kept(o.w, w, acc) /\ (o.ok => AllWritten(o.w))
<1>1. PICK d \in SealDict(w, canFail) :
              \/ ~d.ok /\ o = d
              \/ /\ d.ok
                 /\ \E e \in SealEvents(d.w, canFail) :
                       \/ ~e.ok /\ o = e
                       \/ e.ok /\ o \in Flush(e.w, canFail)
  BY FlushChunkSteps
<1>2. Kept(d.w, w, acc) /\ (d.ok => d.w.pending_dict = <<>>)
  BY KeptSealDict
<1>3. CASE ~d.ok /\ o = d
  BY <1>2, <1>3
<1>4. ASSUME d.ok, NEW e \in SealEvents(d.w, canFail),
             \/ ~e.ok /\ o = e
             \/ e.ok /\ o \in Flush(e.w, canFail)
      PROVE  Kept(o.w, w, acc) /\ (o.ok => AllWritten(o.w))
  <2>1. d.w \in WriterStates /\ WriterInv(d.w, acc) /\ d.w.pending_dict = <<>>
    BY <1>2, <1>4 DEF Kept
  <2>2. Kept(e.w, d.w, acc) /\ (e.ok => e.w.pending_events = <<>>)
    BY <2>1, KeptSealEvents
  <2>3. Kept(e.w, w, acc)
    BY <1>2, <2>2, KeptTrans
  <2>4. CASE ~e.ok /\ o = e
    BY <2>3, <2>4
  <2>5. CASE e.ok /\ o \in Flush(e.w, canFail)
    <3>1. e.w \in WriterStates /\ WriterInv(e.w, acc)
      BY <2>2 DEF Kept
    <3>2. /\ Kept(o.w, e.w, acc)
          /\ o.w.pending_events = e.w.pending_events
          /\ o.ok => Len(o.w.disk) = Len(Stream(o.w))
      BY <2>5, <3>1, KeptFlush
    <3>3. Kept(o.w, w, acc)
      BY <2>3, <3>2, KeptTrans
    <3>. QED BY <2>2, <2>5, <3>2, <3>3 DEF AllWritten
  <2>. QED BY <1>4, <2>4, <2>5
<1>. QED BY <1>1, <1>3, <1>4

LEMMA KeptDrop ==
    ASSUME NEW w \in WriterStates, NEW canFail \in BOOLEAN, NEW d \in DropWriter(w, canFail),
           NEW acc, WriterInv(w, acc)
    PROVE  Kept(d, w, acc)
BY KeptFlush DEF DropWriter

LEMMA KeptFinish ==
    ASSUME ~PartialWrites, NEW w \in WriterStates, NEW canFail \in BOOLEAN,
           NEW o \in Finish(w, canFail), NEW acc, Numbered(acc), WriterInv(w, acc)
    PROVE  Kept(o.w, w, acc) /\ (o.ok => \E p : Kept(p, w, acc) /\ AllWritten(p) /\ Kept(o.w, p, acc))
<1>1. PICK p \in FlushChunk(w, canFail) : o \in {[p EXCEPT !.w = d] : d \in DropWriter(p.w, canFail)}
  BY DEF Finish
<1>2. PICK d \in DropWriter(p.w, canFail) : o = [p EXCEPT !.w = d]
  BY <1>1
<1>3. Kept(p.w, w, acc) /\ (p.ok => AllWritten(p.w))
  BY KeptFlushChunk
<1>4. p \in Outcomes
  BY FlushChunkType
<1>5. o.w = d /\ o.ok = p.ok
  BY <1>2, <1>4 DEF Outcomes
<1>6. Kept(d, p.w, acc)
  BY <1>3, KeptDrop DEF Kept
<1>7. Kept(d, w, acc)
  BY <1>3, <1>6, KeptTrans
<1>. QED BY <1>3, <1>5, <1>6, <1>7

\* What a crash leaves is sound, and starts with what was there.
LEMMA CrashKeeps ==
    ASSUME ~PartialWrites, NEW w \in WriterStates, NEW image \in CrashImages(w),
           NEW acc, Numbered(acc), WriterInv(w, acc)
    PROVE  Pre(w.disk, image) /\ GoodCells(image, acc)
<1>1. PICK o \in FlushChunk(w, FALSE) :
         image \in {SubSeq(o.w.disk, 1, k) : k \in Len(w.disk)..Len(o.w.disk)}
  BY DEF CrashImages
<1>2. PICK k \in Len(w.disk)..Len(o.w.disk) : image = SubSeq(o.w.disk, 1, k)
  BY <1>1
<1>3. Kept(o.w, w, acc)
  BY KeptFlushChunk
<1>4. o.w \in WriterStates
  BY <1>3 DEF Kept
<1>5. o.w.disk \in Seq(Cells) /\ Len(o.w.disk) \in Nat /\ Len(w.disk) \in Nat
  BY <1>4, FieldTypes, StreamProps
<1>6. k \in 0..Len(o.w.disk) /\ Len(w.disk) <= k
  BY <1>5
<1>7. Pre(image, o.w.disk)
  BY <1>2, <1>5, <1>6, PreCut
<1>8. Len(image) = k
  BY <1>2, <1>5, <1>6, CutProps
<1>9. Pre(w.disk, o.w.disk) /\ GoodCells(o.w.disk, acc)
  BY <1>3, KeptDisk
<1>. QED BY <1>6, <1>7, <1>8, <1>9, PreNested, GoodPrefix

-----------------------------------------------------------------------------
(* The file and the history *)

\* A whole chunk of c holds the event ev.
Written(c, ev) == \E k \in 1..Len(c) : HasEvent(c, k, ev)

\* What IndInv says of the file.
FileInv(c, acc, st) ==
    /\ GoodCells(c, acc)
    /\ st <= Len(acc)
    /\ \A n \in 1..st : Written(c, acc[n])

LEMMA WrittenPre ==
    ASSUME NEW c, NEW d, Pre(c, d), NEW ev, Written(c, ev)
    PROVE  Written(d, ev)
<1>1. PICK k \in 1..Len(c) : HasEvent(c, k, ev)
  BY DEF Written
<1>2. k \in Nat \ {0} /\ k \in 1..Len(d)
  BY DEF Pre
<1>3. HasEvent(d, k, ev)
  BY <1>1, <1>2, PreKeeps
<1>. QED BY <1>2, <1>3 DEF Written

LEMMA FileKept ==
    ASSUME NEW c, NEW d, Pre(c, d), NEW acc, GoodCells(d, acc), NEW st, FileInv(c, acc, st)
    PROVE  FileInv(d, acc, st)
BY WrittenPre DEF FileInv

\* Recording an event leaves the file as it was.
LEMMA FileGrown ==
    ASSUME NEW acc, Numbered(acc), NEW rec \in Events, rec.event_sequence = Len(acc) + 1,
           NEW c \in Seq(Cells), NEW st \in Nat, FileInv(c, acc, st)
    PROVE  FileInv(c, Append(acc, rec), st)
<1>1. /\ Len(acc) \in Nat /\ Len(Append(acc, rec)) = Len(acc) + 1
      /\ \A n \in 1..Len(acc) : Append(acc, rec)[n] = acc[n]
  BY GrownProps
<1>2. GoodCells(c, Append(acc, rec))
  BY GoodGrown DEF FileInv
<1>3. st <= Len(acc) /\ \A n \in 1..st : Written(c, acc[n])
  BY DEF FileInv
<1>4. st <= Len(Append(acc, rec)) /\ \A n \in 1..st : n \in 1..Len(acc)
  BY <1>1, <1>3
<1>. QED BY <1>1, <1>2, <1>3, <1>4 DEF FileInv

\* After a flush that succeeded the file holds every recorded event.
LEMMA FileComplete ==
    ASSUME NEW w \in WriterStates, NEW acc, Numbered(acc), WriterInv(w, acc), AllWritten(w)
    PROVE  FileInv(w.disk, acc, Len(acc))
<1> DEFINE q == w.next_chunk_seq
           s == Stream(w)
<1>1. /\ q \in Nat \ {0} /\ Len(s) = 3 * (q - 1) /\ Len(acc) \in Nat
      /\ Sealed(w, acc) + Len(w.pending_events) = Len(acc) /\ Sealed(w, acc) \in Nat
      /\ GoodCells(s, acc)
  BY InvFacts
<1>2. Len(w.pending_events) = 0 /\ Len(w.disk) = Len(s)
  BY EmptySeq DEF AllWritten
<1>3. Sealed(w, acc) = Len(acc)
  BY <1>1, <1>2
<1>4. \A n \in 1..Len(acc) : \E k \in 1..(q - 1) : HasEvent(s, k, acc[n])
  BY <1>3 DEF WriterInv
<1>5. Pre(w.disk, s)
  BY PreDisk
<1> HIDE DEF q, s
<1>6. GoodCells(w.disk, acc)
  BY <1>1, <1>5, GoodPrefix
<1>7. ASSUME NEW n \in 1..Len(acc) PROVE Written(w.disk, acc[n])
  <2>1. PICK k \in 1..(q - 1) : HasEvent(s, k, acc[n])
    BY <1>4
  <2>2. k \in Nat \ {0} /\ 3 * k <= Len(w.disk) /\ k \in 1..Len(w.disk)
    BY <1>1, <1>2
  <2>3. HasEvent(w.disk, k, acc[n]) <=> HasEvent(s, k, acc[n])
    BY <1>5, <2>2, PreHas
  <2>. QED BY <2>1, <2>2, <2>3 DEF Written
<1>8. Len(acc) <= Len(acc)
  BY <1>1
<1>. QED BY <1>6, <1>7, <1>8 DEF FileInv

\* The next state's file after a call that recorded no event.
LEMMA FileAfter ==
    ASSUME NEW w \in WriterStates, NEW v, NEW acc, Kept(v, w, acc), NEW st, FileInv(w.disk, acc, st)
    PROVE  FileInv(v.disk, acc, st)
BY KeptDisk, FileKept

\* An empty file and a new writer.
LEMMA NewInv == /\ Numbered(<<>>) /\ FileInv(NewWriter.disk, <<>>, 0)
                /\ WriterInv(NewWriter, <<>>)
<1>1. Len(<<>>) = 0 /\ <<>> \in Seq(Events) /\ <<>> \in Seq(Cells)
  BY EmptySeq
<1>2. 1..0 = {} /\ 0 <= 0
  OBVIOUS
<1>3. Numbered(<<>>)
  BY <1>1, <1>2 DEF Numbered
<1>4. GoodCells(<<>>, <<>>)
  BY <1>1, <1>2 DEF GoodCells, ChunksInOrder, EventsInOrder, RefsInOrder, EventsExact, EntriesExact, HeadersInPlace
<1>5. NewWriter.disk = <<>> /\ NewWriter.buf = <<>>
  BY DEF NewWriter
<1>6. FileInv(NewWriter.disk, <<>>, 0)
  BY <1>1, <1>2, <1>4, <1>5 DEF FileInv
<1>7. Stream(NewWriter) = <<>>
  <2>1. <<>> \o <<>> = <<>>
    BY <1>1, ConcatEmptySeq
  <2>. QED BY <1>5, <2>1 DEF Stream
<1>8. /\ NewWriter.next_chunk_seq = 1 /\ NewWriter.next_event_seq = 1
      /\ NewWriter.pending_events = <<>> /\ NewWriter.dictionary.entries = {}
  BY DEF NewWriter, EmptyDictionary
<1>9. Sealed(NewWriter, <<>>) = 0
  BY <1>1, <1>8 DEF Sealed
<1>10. WriterInv(NewWriter, <<>>)
  <2>1. 1 >= 1 /\ 0 = 3 * (1 - 1) /\ 1 = 0 + 1 /\ 1 - 1 = 0
    OBVIOUS
  <2>2. /\ NewWriter.pending_dict = <<>> /\ RangeOf(<<>>) = {}
        /\ \A kind \in Kinds : NewWriter.dictionary.next_id[kind] = 1
    BY DEF NewWriter, EmptyDictionary, RangeOf
  <2>3. DictInv(NewWriter)
    BY <1>1, <1>2, <1>8, <2>1, <2>2 DEF DictInv
  <2>. QED BY <2>3, <1>1, <1>2, <1>4, <1>7, <1>8, <1>9, <2>1 DEF WriterInv
<1>. QED BY <1>3, <1>6, <1>10

-----------------------------------------------------------------------------
(* What a reader recovers *)

\* In cells without a gap every whole chunk is read.
LEMMA AllCommitted ==
    ASSUME NEW c, Len(c) \in Nat, ChunksInOrder(c), NEW k \in 1..Len(c)
    PROVE  k \in CommittedSeqs(c) <=> 3 * k <= Len(c)
<1>1. ASSUME k \in CommittedSeqs(c) PROVE 3 * k <= Len(c)
  <2>1. k \in 1..k
    OBVIOUS
  <2>2. WholeChunk(c, k)
    BY <1>1, <2>1 DEF CommittedSeqs
  <2>. QED BY <2>2 DEF WholeChunk
<1>2. ASSUME 3 * k <= Len(c) PROVE k \in CommittedSeqs(c)
  <2>1. \A j \in 1..k : j \in 1..Len(c) /\ 3 * j <= Len(c)
    BY <1>2
  <2>. QED BY <2>1 DEF CommittedSeqs, ChunksInOrder
<1>. QED BY <1>1, <1>2

LEMMA EventsRead ==
    ASSUME NEW c, Len(c) \in Nat, ChunksInOrder(c), NEW ev
    PROVE  ev \in EventsIn(c) <=> Written(c, ev)
<1>1. ASSUME ev \in EventsIn(c) PROVE Written(c, ev)
  <2>1. PICK k \in CommittedSeqs(c) :
           ChunkAt(c, k).chunk_type = EventType /\ ev \in RangeOf(ChunkAt(c, k).payload)
    BY <1>1 DEF EventsIn
  <2>2. k \in 1..Len(c)
    BY DEF CommittedSeqs
  <2>3. 3 * k <= Len(c)
    BY <2>2, AllCommitted
  <2>. QED BY <2>1, <2>2, <2>3 DEF Written, HasEvent
<1>2. ASSUME Written(c, ev) PROVE ev \in EventsIn(c)
  <2>1. PICK k \in 1..Len(c) : HasEvent(c, k, ev)
    BY <1>2 DEF Written
  <2>2. k \in CommittedSeqs(c)
    BY <2>1, AllCommitted DEF HasEvent
  <2>. QED BY <2>1, <2>2 DEF EventsIn, HasEvent
<1>. QED BY <1>1, <1>2

LEMMA EntriesRead ==
    ASSUME NEW c, Len(c) \in Nat, ChunksInOrder(c), NEW k \in 1..Len(c), NEW r, Defines(c, k, r)
    PROVE  r \in {Key(e) : e \in EntriesIn(c)}
<1>1. PICK e \in RangeOf(ChunkAt(c, k).payload) : Key(e) = r
  BY DEF Defines
<1>2. k \in CommittedSeqs(c) /\ ChunkAt(c, k).chunk_type = DictType
  BY AllCommitted DEF Defines
<1>3. e \in EntriesIn(c)
  BY <1>2 DEF EntriesIn
<1>. QED BY <1>1, <1>3

LEMMA EntriesFound ==
    ASSUME NEW c, Len(c) \in Nat, ChunksInOrder(c), NEW e
    PROVE  e \in EntriesIn(c) <=> \E k \in 1..Len(c) : HasEntry(c, k, e)
<1>1. ASSUME e \in EntriesIn(c) PROVE \E k \in 1..Len(c) : HasEntry(c, k, e)
  <2>1. PICK k \in CommittedSeqs(c) :
           ChunkAt(c, k).chunk_type = DictType /\ e \in RangeOf(ChunkAt(c, k).payload)
    BY <1>1 DEF EntriesIn
  <2>2. k \in 1..Len(c)
    BY DEF CommittedSeqs
  <2>3. 3 * k <= Len(c)
    BY <2>2, AllCommitted
  <2>. QED BY <2>1, <2>2, <2>3 DEF HasEntry
<1>2. ASSUME NEW k \in 1..Len(c), HasEntry(c, k, e) PROVE e \in EntriesIn(c)
  <2>1. k \in CommittedSeqs(c)
    BY <1>2, AllCommitted DEF HasEntry
  <2>. QED BY <1>2, <2>1 DEF EntriesIn, HasEntry
<1>. QED BY <1>1, <1>2

\* No two entries of sound cells share an id or a name.
LEMMA EntriesUnique ==
    ASSUME NEW c \in Seq(Cells), ChunksInOrder(c), EntriesExact(c),
           NEW e \in EntriesIn(c), NEW f \in EntriesIn(c), Alike(e, f)
    PROVE  e = f
<1>1. Len(c) \in Nat
  BY LenProperties
<1>2. PICK j \in 1..Len(c) : HasEntry(c, j, e)
  BY <1>1, EntriesFound
<1>3. PICK k \in 1..Len(c) : HasEntry(c, k, f)
  BY <1>1, EntriesFound
<1>4. /\ 3 * j <= Len(c) /\ e \in RangeOf(ChunkAt(c, j).payload)
      /\ 3 * k <= Len(c) /\ f \in RangeOf(ChunkAt(c, k).payload) /\ ChunkAt(c, k).chunk_type = DictType
  BY <1>2, <1>3 DEF HasEntry
<1>5. j = k
  BY <1>2, <1>3, <1>4 DEF EntriesExact
<1> DEFINE p == ChunkAt(c, k).payload
<1>6. LegalEntries(p)
  BY <1>4 DEF EntriesExact
<1>7. p \in Seq(DictEntry)
  <2>1. k \in Nat \ {0}
    BY <1>1
  <2>. QED BY <1>4, <2>1, PayloadLen
<1>8. e \in RangeOf(p) /\ f \in RangeOf(p)
  BY <1>4, <1>5
<1> HIDE DEF p
<1>9. PICK x \in 1..Len(p) : e = p[x]
  BY <1>7, <1>8, RangeProps
<1>10. PICK y \in 1..Len(p) : f = p[y]
  BY <1>7, <1>8, RangeProps
<1>. QED BY <1>6, <1>9, <1>10 DEF LegalEntries

\* Which recorded events are in the stream, and which are pending.
LEMMA WhereEventsAre ==
    ASSUME NEW w \in WriterStates, NEW acc, Numbered(acc), WriterInv(w, acc)
    PROVE  /\ EventsIn(Stream(w)) \subseteq RangeOf(acc)
           /\ RangeOf(w.pending_events) \subseteq RangeOf(acc)
           /\ \A n \in 1..Len(acc) : acc[n] \in EventsIn(Stream(w)) <=> n <= Sealed(w, acc)
           /\ \A n \in 1..Len(acc) : acc[n] \in RangeOf(w.pending_events) <=> Sealed(w, acc) < n
<1> DEFINE q == w.next_chunk_seq
           s == Stream(w)
           base == Sealed(w, acc)
           p == w.pending_events
<1>1. /\ q \in Nat \ {0} /\ s \in Seq(Cells) /\ Len(s) = 3 * (q - 1) /\ p \in Seq(Events)
      /\ Len(p) \in Nat /\ Len(acc) \in Nat /\ base \in Nat /\ base + Len(p) = Len(acc)
      /\ GoodCells(s, acc)
  BY InvFacts
<1>2. /\ \A i \in 1..Len(p) : p[i] = acc[base + i]
      /\ \A n \in 1..base : \E k \in 1..(q - 1) : HasEvent(s, k, acc[n])
      /\ \A k \in 1..(q - 1), n \in 1..Len(acc) : HasEvent(s, k, acc[n]) => n <= base
  BY DEF WriterInv
<1>3. acc \in Seq(Events) /\ \A n \in 1..Len(acc) : acc[n].event_sequence = n
  BY DEF Numbered
<1>4. \A n \in 1..Len(acc) : acc[n] \in RangeOf(acc)
  BY <1>3, RangeProps
<1> HIDE DEF q, s, base, p
<1>5. Len(s) \in Nat /\ ChunksInOrder(s) /\ EventsInOrder(s, acc)
  BY <1>1 DEF GoodCells
<1>6. \A ev : ev \in EventsIn(s) <=> Written(s, ev)
  BY <1>5, EventsRead
<1>7. \A k \in 1..Len(s) : 3 * k <= Len(s) => k \in 1..(q - 1)
  BY <1>1
<1>8. \A k \in 1..(q - 1) : k \in 1..Len(s)
  BY <1>1
<1>9. ASSUME NEW ev \in EventsIn(s) PROVE ev \in RangeOf(acc)
  <2>1. PICK k \in 1..Len(s) : HasEvent(s, k, ev)
    BY <1>6 DEF Written
  <2>. QED BY <1>5, <2>1 DEF EventsInOrder, HasEvent
<1>10. ASSUME NEW n \in 1..Len(acc) PROVE acc[n] \in EventsIn(s) <=> n <= base
  <2>1. ASSUME acc[n] \in EventsIn(s) PROVE n <= base
    <3>1. PICK k \in 1..Len(s) : HasEvent(s, k, acc[n])
      BY <1>6, <2>1 DEF Written
    <3>2. k \in 1..(q - 1)
      BY <1>7, <3>1 DEF HasEvent
    <3>. QED BY <1>2, <3>1, <3>2
  <2>2. ASSUME n <= base PROVE acc[n] \in EventsIn(s)
    <3>1. n \in 1..base
      BY <1>1, <2>2
    <3>2. Written(s, acc[n])
      BY <1>2, <1>8, <3>1 DEF Written
    <3>. QED BY <1>6, <3>2
  <2>. QED BY <2>1, <2>2
<1>11. ASSUME NEW i \in 1..Len(p) PROVE base + i \in 1..Len(acc) /\ base < base + i
  BY <1>1
<1>12. RangeOf(p) \subseteq RangeOf(acc)
  BY <1>1, <1>2, <1>4, <1>11, RangeProps, SMTT(60)
<1>13. ASSUME NEW n \in 1..Len(acc) PROVE acc[n] \in RangeOf(p) <=> base < n
  <2>1. ASSUME acc[n] \in RangeOf(p) PROVE base < n
    <3>1. PICK i \in 1..Len(p) : acc[n] = p[i]
      BY <1>1, <2>1, RangeProps
    <3>2. acc[n] = acc[base + i] /\ base + i \in 1..Len(acc) /\ base < base + i
      BY <1>2, <1>11, <3>1
    <3>3. n = base + i
      BY <1>3, <3>2
    <3>. QED BY <3>2, <3>3
  <2>2. ASSUME base < n PROVE acc[n] \in RangeOf(p)
    <3>1. n - base \in 1..Len(p) /\ base + (n - base) = n
      BY <1>1, <2>2
    <3>2. p[n - base] = acc[n]
      BY <1>2, <3>1
    <3>3. p[n - base] \in RangeOf(p)
      BY <1>1, <3>1, RangeProps
    <3>. QED BY <3>2, <3>3
  <2>. QED BY <2>1, <2>2
<1>. QED BY <1>9, <1>10, <1>12, <1>13 DEF s, base, p

\* Which entries are in the stream, and which are pending.
LEMMA WhereEntriesAre ==
    ASSUME NEW w \in WriterStates, NEW acc, Numbered(acc), WriterInv(w, acc)
    PROVE  EntriesIn(Stream(w)) \cup RangeOf(w.pending_dict) = w.dictionary.entries
<1> DEFINE q == w.next_chunk_seq
           s == Stream(w)
           D == w.dictionary.entries
<1>1. q \in Nat \ {0} /\ Len(s) = 3 * (q - 1) /\ Len(s) \in Nat /\ ChunksInOrder(s)
  BY InvFacts, StreamProps DEF GoodCells
<1>2. /\ RangeOf(w.pending_dict) \subseteq D
      /\ \A k \in 1..(q - 1) : \A e \in RangeOf(ChunkAt(s, k).payload) : HasEntry(s, k, e) => e \in D
  BY DEF WriterInv, DictInv
<1>3. \A e \in D : e \in RangeOf(w.pending_dict) \/ \E k \in 1..(q - 1) : HasEntry(s, k, e)
  BY DEF WriterInv
<1> HIDE DEF q, s, D
<1>4. \A e : e \in EntriesIn(s) <=> \E k \in 1..Len(s) : HasEntry(s, k, e)
  BY <1>1, EntriesFound
<1>5. \A k \in 1..Len(s) : 3 * k <= Len(s) => k \in 1..(q - 1)
  BY <1>1
<1>6. \A k \in 1..(q - 1) : k \in 1..Len(s)
  BY <1>1
<1>7. ASSUME NEW e \in EntriesIn(s) PROVE e \in D
  <2>1. PICK k \in 1..Len(s) : HasEntry(s, k, e)
    BY <1>4
  <2>2. k \in 1..(q - 1) /\ e \in RangeOf(ChunkAt(s, k).payload)
    BY <1>5, <2>1 DEF HasEntry
  <2>. QED BY <1>2, <2>1, <2>2
<1>8. ASSUME NEW e \in D PROVE e \in EntriesIn(s) \/ e \in RangeOf(w.pending_dict)
  BY <1>3, <1>4, <1>6
<1>. QED BY <1>2, <1>7, <1>8 DEF s, D

-----------------------------------------------------------------------------
(* After a short write *)

\* Cells that end in good chunks, cut at a chunk, are those chunks.
LEMMA SameCut ==
    ASSUME NEW s, NEW t, Pre(s, t), NEW k \in 0..Len(s), NEW acc,
           GoodCells(SubSeq(s, 1, k), acc)
    PROVE  k \in 0..Len(t) /\ GoodCells(SubSeq(t, 1, k), acc)
<1>1. /\ s \in Seq(Cells) /\ t \in Seq(Cells) /\ Len(s) \in Nat /\ Len(t) \in Nat /\ Len(s) <= Len(t)
  BY DEF Pre
<1>2. k \in 0..Len(t) /\ k \in Nat /\ k <= k
  BY <1>1
<1>3. Pre(SubSeq(s, 1, k), s) /\ Pre(SubSeq(t, 1, k), t)
  BY <1>1, <1>2, PreCut
<1>4. Len(SubSeq(s, 1, k)) = k /\ Len(SubSeq(t, 1, k)) = k
  BY <1>1, <1>2, CutProps
<1>5. Pre(SubSeq(s, 1, k), t)
  BY <1>3, PreTrans
<1>6. Pre(SubSeq(t, 1, k), SubSeq(s, 1, k))
  BY <1>2, <1>3, <1>4, <1>5, PreNested
<1>. QED BY <1>2, <1>6, GoodPrefix

\* The places of a fragment behind m chunks.
LEMMA TornPlaces ==
    ASSUME NEW m \in Nat, NEW len \in Nat, 3 * m < len
    PROVE  /\ 3 * m \in 0..len /\ 3 * m \in Nat /\ 3 * m + 1 \in 1..len /\ m \in 0..len
           /\ 3 * m + 3 <= len => 3 * m + 3 \in 1..len
OBVIOUS

\* Where the third cell behind m chunks lies, in a stream that grows.
LEMMA TornGap ==
    ASSUME NEW m \in Nat, NEW a \in Nat, 3 * m < a, NEW b \in 1..3,
           3 * m + 3 <= a + b, ~(3 * m + 3 <= a)
    PROVE  /\ 3 * m + 3 - a \in 1..b /\ 3 * m + 3 - a # 3
           /\ a + (3 * m + 3 - a) = 3 * m + 3 /\ 3 * m + 3 \in 1..(a + b) /\ ~(3 * m + 3 <= a)
OBVIOUS

\* What is written behind a fragment does not mend it.
LEMMA TornStays ==
    ASSUME NEW s \in Seq(Cells), NEW m \in Nat, NEW acc, TornAfter(s, m, acc),
           NEW q, Fragment(q)
    PROVE  TornAfter(s \o q, m, acc) /\ Len(s \o q) = Len(s) + Len(q)
<1>1. /\ q \in Seq(Cells) /\ Len(q) \in 1..3 /\ \A i \in 1..Len(q) : q[i].part = i \/ (i = 1 /\ q[i].part = 0)
  BY DEF Fragment
<1>2. /\ Len(s) \in Nat /\ Len(s \o q) = Len(s) + Len(q) /\ Len(s \o q) \in Nat
      /\ Len(q) \in Nat /\ Len(s) <= Len(s \o q)
  BY <1>1, JoinProps
<1>3. /\ 3 * m < Len(s) /\ GoodCells(SubSeq(s, 1, 3 * m), acc)
      /\ s[3 * m + 1].part \in {0, 1} /\ (3 * m + 3 <= Len(s) => s[3 * m + 3].part # 3)
  BY DEF TornAfter
<1>4. /\ 3 * m \in 0..Len(s) /\ 3 * m + 1 \in 1..Len(s)
      /\ 3 * m + 3 <= Len(s) => 3 * m + 3 \in 1..Len(s)
  BY <1>2, <1>3, TornPlaces
<1>5. Pre(s, s \o q)
  BY <1>1, PreJoin
<1>6. GoodCells(SubSeq(s \o q, 1, 3 * m), acc)
  BY <1>3, <1>4, <1>5, SameCut
<1>7. 3 * m < Len(s \o q)
  BY <1>2, <1>3
<1>8. (s \o q)[3 * m + 1].part \in {0, 1}
  BY <1>3, <1>4, <1>5 DEF Pre
<1>9. ASSUME 3 * m + 3 <= Len(s \o q) PROVE (s \o q)[3 * m + 3].part # 3
  <2>1. CASE 3 * m + 3 <= Len(s)
    BY <1>3, <1>4, <1>5, <2>1 DEF Pre
  <2>2. CASE ~(3 * m + 3 <= Len(s))
    <3> DEFINE x == 3 * m + 3 - Len(s)
    <3>1. /\ x \in 1..Len(q) /\ x # 3 /\ Len(s) + x = 3 * m + 3
          /\ 3 * m + 3 \in 1..(Len(s) + Len(q)) /\ ~(3 * m + 3 <= Len(s))
      BY <1>1, <1>2, <1>3, <1>9, <2>2, TornGap
    <3>2. (s \o q)[3 * m + 3] = IF 3 * m + 3 <= Len(s) THEN s[3 * m + 3] ELSE q[3 * m + 3 - Len(s)]
      BY <1>1, <3>1, ConcatProperties
    <3>3. (s \o q)[3 * m + 3] = q[x]
      BY <3>1, <3>2
    <3>. QED BY <1>1, <3>1, <3>3
  <2>. QED BY <2>1, <2>2
<1>. QED BY <1>2, <1>6, <1>7, <1>8, <1>9 DEF TornAfter

LEMMA FragmentPlaces ==
    ASSUME NEW m \in Nat, NEW a, a = 3 * m, NEW b \in 1..3, b < 3, NEW len, len = a + b
    PROVE  /\ 3 * m < len /\ ~(3 * m + 3 <= len) /\ 3 * m <= a /\ 3 * m \in 0..len
           /\ 3 * m + 1 \in 1..(a + b) /\ ~(3 * m + 1 <= a) /\ 3 * m + 1 - a = 1
           /\ 1 \in 1..b
OBVIOUS

\* A chunk cut short behind m whole ones.
LEMMA TornBegins ==
    ASSUME NEW s \in Seq(Cells), NEW m \in Nat, Len(s) = 3 * m, NEW acc, GoodCells(s, acc),
           NEW q, Fragment(q), Len(q) < 3
    PROVE  TornAfter(s \o q, m, acc)
<1>1. /\ q \in Seq(Cells) /\ Len(q) \in 1..3 /\ \A i \in 1..Len(q) : q[i].part = i \/ (i = 1 /\ q[i].part = 0)
  BY DEF Fragment
<1>2. /\ Len(s) \in Nat /\ Len(s \o q) = Len(s) + Len(q) /\ Len(s \o q) \in Nat
  BY <1>1, JoinProps
<1>3. Pre(s, s \o q)
  BY <1>1, PreJoin
<1>4. /\ 3 * m < Len(s \o q) /\ ~(3 * m + 3 <= Len(s \o q)) /\ 3 * m <= Len(s)
      /\ 3 * m \in 0..Len(s \o q)
      /\ 3 * m + 1 \in 1..(Len(s) + Len(q)) /\ ~(3 * m + 1 <= Len(s)) /\ 3 * m + 1 - Len(s) = 1
      /\ 1 \in 1..Len(q)
  BY <1>1, <1>2, FragmentPlaces
<1>5. GoodCells(SubSeq(s \o q, 1, 3 * m), acc)
  <2>1. Pre(SubSeq(s \o q, 1, 3 * m), s \o q) /\ Len(SubSeq(s \o q, 1, 3 * m)) = 3 * m
    BY <1>3, <1>4, PreCut, CutProps DEF Pre
  <2>2. Pre(SubSeq(s \o q, 1, 3 * m), s)
    BY <1>3, <1>4, <2>1, PreNested
  <2>. QED BY <2>2, GoodPrefix
<1>6. (s \o q)[3 * m + 1] = q[1]
  <2>1. (s \o q)[3 * m + 1] = IF 3 * m + 1 <= Len(s) THEN s[3 * m + 1] ELSE q[3 * m + 1 - Len(s)]
    BY <1>1, <1>4, ConcatProperties
  <2>. QED BY <1>4, <2>1
<1>. QED BY <1>1, <1>4, <1>5, <1>6 DEF TornAfter

\* A cut of cells with a fragment is sound.
LEMMA TornCut ==
    ASSUME NEW c, NEW s, Pre(c, s), NEW m \in Nat, NEW acc, TornAfter(s, m, acc)
    PROVE  SoundCells(c, acc)
<1>1. /\ c \in Seq(Cells) /\ s \in Seq(Cells) /\ Len(c) \in Nat /\ Len(s) \in Nat /\ Len(c) <= Len(s)
      /\ \A i \in 1..Len(c) : c[i] = s[i]
  BY DEF Pre
<1>2. /\ 3 * m < Len(s) /\ GoodCells(SubSeq(s, 1, 3 * m), acc)
      /\ s[3 * m + 1].part \in {0, 1} /\ (3 * m + 3 <= Len(s) => s[3 * m + 3].part # 3)
  BY DEF TornAfter
<1>3. 3 * m \in 0..Len(s)
  BY <1>1, <1>2, TornPlaces
<1>4. Pre(SubSeq(s, 1, 3 * m), s) /\ Len(SubSeq(s, 1, 3 * m)) = 3 * m
  BY <1>1, <1>3, PreCut, CutProps
<1>5. CASE Len(c) <= 3 * m
  <2>1. Pre(c, SubSeq(s, 1, 3 * m))
    BY <1>4, <1>5, PreNested
  <2>. QED BY <1>2, <2>1, GoodPrefix DEF SoundCells
<1>6. CASE 3 * m < Len(c)
  <2>1. /\ 3 * m \in 0..Len(c) /\ 3 * m + 1 \in 1..Len(c) /\ m \in 0..Len(c)
        /\ 3 * m + 3 <= Len(c) => 3 * m + 3 \in 1..Len(c)
    BY <1>1, <1>6, TornPlaces
  <2>2. 3 * m + 3 <= Len(c) => 3 * m + 3 <= Len(s)
    BY <1>1
  <2>3. Pre(SubSeq(c, 1, 3 * m), c) /\ Len(SubSeq(c, 1, 3 * m)) = 3 * m
    BY <1>1, <2>1, PreCut, CutProps
  <2>4. Pre(SubSeq(c, 1, 3 * m), s)
    BY <2>3, PreTrans
  <2>5. 3 * m <= 3 * m
    OBVIOUS
  <2>6. Pre(SubSeq(c, 1, 3 * m), SubSeq(s, 1, 3 * m))
    BY <1>4, <2>3, <2>4, <2>5, PreNested
  <2>7. GoodCells(SubSeq(c, 1, 3 * m), acc)
    BY <1>2, <2>6, GoodPrefix
  <2>8. c[3 * m + 1].part \in {0, 1}
    BY <1>1, <1>2, <2>1
  <2>9. 3 * m + 3 <= Len(c) => c[3 * m + 3].part # 3
    BY <1>1, <1>2, <2>1, <2>2
  <2>10. TornAfter(c, m, acc)
    BY <1>6, <2>7, <2>8, <2>9 DEF TornAfter
  <2>. QED BY <2>1, <2>10 DEF SoundCells
<1>. QED BY <1>1, <1>5, <1>6

\* Soundness survives any cut.
LEMMA SoundPrefix ==
    ASSUME NEW c, NEW s, Pre(c, s), NEW acc, SoundCells(s, acc)
    PROVE  SoundCells(c, acc)
<1>1. CASE GoodCells(s, acc)
  BY <1>1, GoodPrefix DEF SoundCells
<1>2. ASSUME NEW m \in 0..Len(s), TornAfter(s, m, acc) PROVE SoundCells(c, acc)
  <2>1. m \in Nat
    BY DEF Pre
  <2>. QED BY <1>2, <2>1, TornCut
<1>. QED BY <1>1, <1>2 DEF SoundCells

\* Recording an event leaves the cells as sound as they were.
LEMMA TornGrown ==
    ASSUME NEW acc, Numbered(acc), NEW rec \in Events, rec.event_sequence = Len(acc) + 1,
           NEW c \in Seq(Cells), NEW m \in Nat, TornAfter(c, m, acc)
    PROVE  TornAfter(c, m, Append(acc, rec))
<1>1. Len(c) \in Nat /\ 3 * m < Len(c) /\ GoodCells(SubSeq(c, 1, 3 * m), acc)
  BY LenProperties DEF TornAfter
<1>2. 3 * m \in 0..Len(c)
  BY <1>1, TornPlaces
<1>3. SubSeq(c, 1, 3 * m) \in Seq(Cells)
  BY <1>2, CutProps
<1>4. GoodCells(SubSeq(c, 1, 3 * m), Append(acc, rec))
  BY <1>1, <1>3, GoodGrown
<1>. QED BY <1>4 DEF TornAfter

LEMMA SoundGrown ==
    ASSUME NEW acc, Numbered(acc), NEW rec \in Events, rec.event_sequence = Len(acc) + 1,
           NEW c \in Seq(Cells), SoundCells(c, acc)
    PROVE  SoundCells(c, Append(acc, rec))
<1>1. CASE GoodCells(c, acc)
  BY <1>1, GoodGrown DEF SoundCells
<1>2. ASSUME NEW m \in 0..Len(c), TornAfter(c, m, acc) PROVE SoundCells(c, Append(acc, rec))
  <2>1. m \in Nat
    BY LenProperties
  <2>2. TornAfter(c, m, Append(acc, rec))
    BY <1>2, <2>1, TornGrown
  <2>. QED BY <2>2 DEF SoundCells
<1>. QED BY <1>1, <1>2 DEF SoundCells

LEMMA TornMoves ==
    ASSUME NEW m \in Nat, NEW a \in Nat, 3 * m < a, NEW b \in 1..3, NEW len, len = a + b
    PROVE  /\ m \in 0..len
           /\ 3 * m + 3 <= a => 3 * m + 3 <= len
           /\ b = 3 => 3 * m + 3 <= len
OBVIOUS

\* A torn writer that writes a chunk, or part of one, behind the fragment.
LEMMA TornAdds ==
    ASSUME NEW w \in WriterStates, NEW v, NEW acc, TornWriter(w, acc),
           v.next_event_seq = w.next_event_seq, NEW q, Fragment(q), Stream(v) = Stream(w) \o q,
           Len(q) = 3 \/ (v.pending_dict = w.pending_dict /\ v.pending_events = w.pending_events)
    PROVE  TornWriter(v, acc) /\ Pre(Stream(w), Stream(v))
<1> DEFINE s == Stream(w)
<1>1. s \in Seq(Cells) /\ Len(s) \in Nat
  BY StreamProps
<1>2. PICK m \in 0..Len(s) :
         /\ TornAfter(s, m, acc)
         /\ \/ 3 * m + 3 <= Len(s)
            \/ w.pending_dict # <<>>
            \/ w.pending_events # <<>>
  BY DEF TornWriter
<1> HIDE DEF s
<1>3. m \in Nat /\ 3 * m < Len(s)
  BY <1>1, <1>2 DEF TornAfter
<1>4. TornAfter(s \o q, m, acc) /\ Len(s \o q) = Len(s) + Len(q)
  BY <1>1, <1>2, <1>3, TornStays
<1>5. Len(q) \in 1..3 /\ q \in Seq(Cells)
  BY DEF Fragment
<1>6. /\ m \in 0..Len(s \o q)
      /\ 3 * m + 3 <= Len(s) => 3 * m + 3 <= Len(s \o q)
      /\ Len(q) = 3 => 3 * m + 3 <= Len(s \o q)
  BY <1>1, <1>3, <1>4, <1>5, TornMoves
<1>7. \/ 3 * m + 3 <= Len(s \o q)
      \/ v.pending_dict # <<>>
      \/ v.pending_events # <<>>
  BY <1>2, <1>6
<1>8. Stream(v) = s \o q
  BY DEF s
<1>9. TornWriter(v, acc)
  BY <1>4, <1>6, <1>7, <1>8 DEF TornWriter
<1>10. Pre(s, s \o q)
  BY <1>1, <1>5, PreJoin
<1>. QED BY <1>8, <1>9, <1>10 DEF s

\* A writer whose stream is whole, and one whose write was cut.
OpenInv(w, acc) == WriterInv(w, acc) \/ TornWriter(w, acc)

LEMMA OpenCut ==
    ASSUME NEW w \in WriterStates, NEW o, CutShort(o, w), NEW acc, Numbered(acc), OpenInv(w, acc),
           w.pending_dict # <<>> \/ w.pending_events # <<>>
    PROVE  TornWriter(o.w, acc) /\ Pre(Stream(w), Stream(o.w))
<1>1. PICK q : Fragment(q) /\ Len(q) < 3 /\ Stream(o.w) = Stream(w) \o q
  BY DEF CutShort
<1>2. /\ o.w.next_event_seq = w.next_event_seq
      /\ o.w.pending_dict = w.pending_dict /\ o.w.pending_events = w.pending_events
  BY DEF CutShort, SameFields
<1>3. CASE TornWriter(w, acc)
  BY <1>1, <1>2, <1>3, TornAdds
<1>4. CASE WriterInv(w, acc)
  <2> DEFINE s == Stream(w)
             m == w.next_chunk_seq - 1
  <2>1. /\ w.next_chunk_seq \in Nat \ {0} /\ s \in Seq(Cells) /\ Len(s) = 3 * m /\ GoodCells(s, acc)
    BY <1>4, InvFacts
  <2>2. m \in Nat /\ w.next_event_seq = Len(acc) + 1 /\ q \in Seq(Cells)
    BY <1>1, <1>4, <2>1 DEF WriterInv, Fragment
  <2> HIDE DEF s, m
  <2>3. TornAfter(s \o q, m, acc)
    BY <1>1, <2>1, <2>2, TornBegins
  <2>4. Len(s \o q) \in Nat
    BY <2>1, <2>2, JoinProps
  <2>5. m \in 0..Len(s \o q)
    BY <2>2, <2>3, <2>4 DEF TornAfter
  <2>6. Stream(o.w) = s \o q
    BY <1>1 DEF s
  <2>7. Pre(s, s \o q)
    BY <2>1, <2>2, PreJoin
  <2>. QED BY <1>2, <2>2, <2>3, <2>5, <2>6, <2>7 DEF TornWriter, s
<1>. QED BY <1>3, <1>4 DEF OpenInv

\* A call took the writer w to v and recorded no event, short writes or not.
Goes(v, w, acc) ==
    /\ v \in WriterStates
    /\ OpenInv(v, acc)
    /\ Pre(Stream(w), Stream(v))
    /\ Len(w.disk) <= Len(v.disk)
    /\ v.next_event_seq = w.next_event_seq

LEMMA KeptGoes ==
    ASSUME NEW v, NEW w, NEW acc, Kept(v, w, acc)
    PROVE  Goes(v, w, acc)
BY DEF Kept, Goes, OpenInv

LEMMA GoesTrans ==
    ASSUME NEW u, NEW v, NEW w \in WriterStates, NEW acc, Goes(v, w, acc), Goes(u, v, acc)
    PROVE  Goes(u, w, acc)
<1>1. u \in WriterStates /\ v \in WriterStates
  BY DEF Goes
<1>2. Len(u.disk) \in Nat /\ Len(v.disk) \in Nat /\ Len(w.disk) \in Nat
  BY <1>1, StreamProps
<1>3. Len(w.disk) <= Len(u.disk)
  BY <1>2 DEF Goes
<1>4. Pre(Stream(w), Stream(u))
  BY PreTrans DEF Goes
<1>. QED BY <1>3, <1>4 DEF Goes

LEMMA GoesUnsealed ==
    ASSUME NEW w \in WriterStates, NEW o, Effect(o, w, Stream(o.w)), SameFields(o.w, w),
           Stream(o.w) = Stream(w), NEW acc, OpenInv(w, acc)
    PROVE  Goes(o.w, w, acc)
<1>1. CASE WriterInv(w, acc)
  BY <1>1, KeptUnsealed, KeptGoes
<1>2. CASE TornWriter(w, acc)
  <2>1. o.w \in WriterStates /\ Len(w.disk) <= Len(o.w.disk)
    BY DEF Effect, Outcomes
  <2>2. TornWriter(o.w, acc)
    BY <1>2 DEF TornWriter, SameFields
  <2>3. Pre(Stream(w), Stream(o.w))
    BY StreamProps, PreRefl
  <2>. QED BY <2>1, <2>2, <2>3 DEF Goes, OpenInv, SameFields
<1>. QED BY <1>1, <1>2 DEF OpenInv

LEMMA GoesSealDict ==
    ASSUME NEW w \in WriterStates, NEW canFail \in BOOLEAN,
           NEW o \in SealDict(w, canFail), NEW acc, Numbered(acc), OpenInv(w, acc)
    PROVE  Goes(o.w, w, acc) /\ (o.ok => o.w.pending_dict = <<>>)
<1>1. Effect(o, w, Stream(o.w)) /\ o.w \in WriterStates /\ Len(w.disk) <= Len(o.w.disk)
  BY SealDictProps DEF Effect, Outcomes
<1>2. CASE Unsealed(o, w) /\ (o.ok => w.pending_dict = <<>>)
  BY <1>1, <1>2, GoesUnsealed DEF Unsealed, SameFields
<1>3. CASE SealedDict(o, w)
  <2>1. /\ o.w.pending_dict = <<>> /\ o.w.next_event_seq = w.next_event_seq
        /\ Stream(o.w) = Stream(w) \o EncodeCommittedChunk(Chunk(DictType, w.next_chunk_seq, w.pending_dict))
    BY <1>3 DEF SealedDict
  <2>2. CASE WriterInv(w, acc)
    <3>1. WriterInv(o.w, acc) /\ Pre(Stream(w), Stream(o.w))
      BY <1>3, <2>2, InvSealDict
    <3>. QED BY <1>1, <2>1, <3>1 DEF Goes, OpenInv
  <2>3. CASE TornWriter(w, acc)
    <3> DEFINE q == EncodeCommittedChunk(Chunk(DictType, w.next_chunk_seq, w.pending_dict))
    <3>1. q \in Seq(Cells) /\ Chunk(DictType, w.next_chunk_seq, w.pending_dict) \in Chunks
      BY FieldTypes, EncodeType
    <3>2. Fragment(q) /\ Len(q) = 3
      BY <3>1, ChunkFragment
    <3>3. TornWriter(o.w, acc) /\ Pre(Stream(w), Stream(o.w))
      BY <2>1, <2>3, <3>2, TornAdds
    <3>. QED BY <1>1, <2>1, <3>3 DEF Goes, OpenInv
  <2>. QED BY <2>2, <2>3 DEF OpenInv
<1>4. CASE CutShort(o, w) /\ w.pending_dict # <<>>
  <2>1. TornWriter(o.w, acc) /\ Pre(Stream(w), Stream(o.w))
    BY <1>4, OpenCut
  <2>2. ~o.ok /\ o.w.next_event_seq = w.next_event_seq
    BY <1>4 DEF CutShort, SameFields
  <2>. QED BY <1>1, <2>1, <2>2 DEF Goes, OpenInv
<1>. QED BY <1>2, <1>3, <1>4, SealDictProps

LEMMA GoesSealEvents ==
    ASSUME NEW w \in WriterStates, w.pending_dict = <<>>, NEW canFail \in BOOLEAN,
           NEW o \in SealEvents(w, canFail), NEW acc, Numbered(acc), OpenInv(w, acc)
    PROVE  /\ Goes(o.w, w, acc)
           /\ o.ok => o.w.pending_events = <<>> /\ o.w.pending_dict = <<>>
<1>1. Effect(o, w, Stream(o.w)) /\ o.w \in WriterStates /\ Len(w.disk) <= Len(o.w.disk)
  BY SealEventsProps DEF Effect, Outcomes
<1>2. CASE Unsealed(o, w) /\ (o.ok => w.pending_events = <<>>)
  BY <1>1, <1>2, GoesUnsealed DEF Unsealed, SameFields
<1>3. CASE SealedEvents(o, w)
  <2>1. /\ o.w.pending_events = <<>> /\ o.w.pending_dict = <<>> /\ o.w.next_event_seq = w.next_event_seq
        /\ Stream(o.w) = Stream(w) \o EncodeCommittedChunk(Chunk(EventType, w.next_chunk_seq, w.pending_events))
    BY <1>3 DEF SealedEvents
  <2>2. CASE WriterInv(w, acc)
    <3>1. WriterInv(o.w, acc) /\ Pre(Stream(w), Stream(o.w))
      BY <1>3, <2>2, InvSealEvents
    <3>. QED BY <1>1, <2>1, <3>1 DEF Goes, OpenInv
  <2>3. CASE TornWriter(w, acc)
    <3> DEFINE q == EncodeCommittedChunk(Chunk(EventType, w.next_chunk_seq, w.pending_events))
    <3>1. q \in Seq(Cells) /\ Chunk(EventType, w.next_chunk_seq, w.pending_events) \in Chunks
      BY FieldTypes, EncodeType
    <3>2. Fragment(q) /\ Len(q) = 3
      BY <3>1, ChunkFragment
    <3>3. TornWriter(o.w, acc) /\ Pre(Stream(w), Stream(o.w))
      BY <2>1, <2>3, <3>2, TornAdds
    <3>. QED BY <1>1, <2>1, <3>3 DEF Goes, OpenInv
  <2>. QED BY <2>2, <2>3 DEF OpenInv
<1>4. CASE CutShort(o, w) /\ w.pending_events # <<>>
  <2>1. TornWriter(o.w, acc) /\ Pre(Stream(w), Stream(o.w))
    BY <1>4, OpenCut
  <2>2. ~o.ok /\ o.w.next_event_seq = w.next_event_seq
    BY <1>4 DEF CutShort, SameFields
  <2>. QED BY <1>1, <2>1, <2>2 DEF Goes, OpenInv
<1>. QED BY <1>2, <1>3, <1>4, SealEventsProps

LEMMA GoesFlush ==
    ASSUME NEW w \in WriterStates, NEW canFail \in BOOLEAN, NEW o \in Flush(w, canFail),
           NEW acc, OpenInv(w, acc)
    PROVE  /\ Goes(o.w, w, acc)
           /\ o.w.pending_events = w.pending_events /\ o.w.pending_dict = w.pending_dict
           /\ o.ok => Len(o.w.disk) = Len(Stream(o.w))
<1>1. /\ Effect(o, w, Stream(w)) /\ SameFields(o.w, w)
      /\ o.ok => Len(o.w.disk) = Len(Stream(w))
  BY FlushProps
<1>2. Stream(o.w) = Stream(w) /\ Effect(o, w, Stream(o.w))
  BY <1>1 DEF Effect
<1>3. Goes(o.w, w, acc)
  BY <1>1, <1>2, GoesUnsealed
<1>. QED BY <1>1, <1>2, <1>3 DEF SameFields

LEMMA GoesFlushChunk ==
    ASSUME NEW w \in WriterStates, NEW canFail \in BOOLEAN,
           NEW o \in FlushChunk(w, canFail), NEW acc, Numbered(acc), OpenInv(w, acc)
    PROVE  /\ Goes(o.w, w, acc)
           /\ o.ok => AllWritten(o.w) /\ o.w.pending_dict = <<>>
<1>1. PICK d \in SealDict(w, canFail) :
              \/ ~d.ok /\ o = d
              \/ /\ d.ok
                 /\ \E e \in SealEvents(d.w, canFail) :
                       \/ ~e.ok /\ o = e
                       \/ e.ok /\ o \in Flush(e.w, canFail)
  BY FlushChunkSteps
<1>2. Goes(d.w, w, acc) /\ (d.ok => d.w.pending_dict = <<>>)
  BY GoesSealDict
<1>3. CASE ~d.ok /\ o = d
  BY <1>2, <1>3
<1>4. ASSUME d.ok, NEW e \in SealEvents(d.w, canFail),
             \/ ~e.ok /\ o = e
             \/ e.ok /\ o \in Flush(e.w, canFail)
      PROVE  Goes(o.w, w, acc) /\ (o.ok => AllWritten(o.w) /\ o.w.pending_dict = <<>>)
  <2>1. d.w \in WriterStates /\ OpenInv(d.w, acc) /\ d.w.pending_dict = <<>>
    BY <1>2, <1>4 DEF Goes
  <2>2. Goes(e.w, d.w, acc) /\ (e.ok => e.w.pending_events = <<>> /\ e.w.pending_dict = <<>>)
    BY <2>1, GoesSealEvents
  <2>3. Goes(e.w, w, acc)
    BY <1>2, <2>2, GoesTrans
  <2>4. CASE ~e.ok /\ o = e
    BY <2>3, <2>4
  <2>5. CASE e.ok /\ o \in Flush(e.w, canFail)
    <3>1. e.w \in WriterStates /\ OpenInv(e.w, acc)
      BY <2>2 DEF Goes
    <3>2. /\ Goes(o.w, e.w, acc)
          /\ o.w.pending_events = e.w.pending_events /\ o.w.pending_dict = e.w.pending_dict
          /\ o.ok => Len(o.w.disk) = Len(Stream(o.w))
      BY <2>5, <3>1, GoesFlush
    <3>3. Goes(o.w, w, acc)
      BY <2>3, <3>2, GoesTrans
    <3>. QED BY <2>2, <2>5, <3>2, <3>3 DEF AllWritten
  <2>. QED BY <1>4, <2>4, <2>5
<1>. QED BY <1>1, <1>3, <1>4

LEMMA GoesDrop ==
    ASSUME NEW w \in WriterStates, NEW canFail \in BOOLEAN, NEW d \in DropWriter(w, canFail),
           NEW acc, OpenInv(w, acc)
    PROVE  Goes(d, w, acc)
BY GoesFlush DEF DropWriter

LEMMA GoesFinish ==
    ASSUME NEW w \in WriterStates, NEW canFail \in BOOLEAN,
           NEW o \in Finish(w, canFail), NEW acc, Numbered(acc), OpenInv(w, acc)
    PROVE  /\ Goes(o.w, w, acc)
           /\ o.ok => \E p : /\ Goes(p, w, acc) /\ AllWritten(p) /\ p.pending_dict = <<>>
                             /\ Goes(o.w, p, acc)
<1>1. PICK p \in FlushChunk(w, canFail) : o \in {[p EXCEPT !.w = d] : d \in DropWriter(p.w, canFail)}
  BY DEF Finish
<1>2. PICK d \in DropWriter(p.w, canFail) : o = [p EXCEPT !.w = d]
  BY <1>1
<1>3. Goes(p.w, w, acc) /\ (p.ok => AllWritten(p.w) /\ p.w.pending_dict = <<>>)
  BY GoesFlushChunk
<1>4. p \in Outcomes
  BY FlushChunkType
<1>5. o.w = d /\ o.ok = p.ok
  BY <1>2, <1>4 DEF Outcomes
<1>6. Goes(d, p.w, acc)
  BY <1>3, GoesDrop DEF Goes
<1>7. Goes(d, w, acc)
  BY <1>3, <1>6, GoesTrans
<1>. QED BY <1>3, <1>5, <1>6, <1>7

\* The file of an open writer, torn or not, is sound, and keeps its start.
LEMMA GoesDisk ==
    ASSUME NEW w \in WriterStates, NEW v, NEW acc, Goes(v, w, acc)
    PROVE  Pre(w.disk, v.disk) /\ SoundCells(v.disk, acc)
<1>1. v \in WriterStates /\ Pre(Stream(w), Stream(v)) /\ Len(w.disk) <= Len(v.disk)
  BY DEF Goes
<1>2. Pre(w.disk, Stream(w)) /\ Pre(v.disk, Stream(v))
  BY <1>1, PreDisk
<1>3. Pre(w.disk, Stream(v))
  BY <1>1, <1>2, PreTrans
<1>4. SoundCells(Stream(v), acc)
  BY DEF Goes, OpenInv, WriterInv, TornWriter, SoundCells
<1>. QED BY <1>1, <1>2, <1>3, <1>4, PreNested, SoundPrefix

\* What a crash leaves is sound, and starts with what was there.
LEMMA CrashGoes ==
    ASSUME NEW w \in WriterStates, NEW image \in CrashImages(w),
           NEW acc, Numbered(acc), OpenInv(w, acc)
    PROVE  Pre(w.disk, image) /\ SoundCells(image, acc)
<1>1. PICK o \in FlushChunk(w, FALSE) :
         image \in {SubSeq(o.w.disk, 1, k) : k \in Len(w.disk)..Len(o.w.disk)}
  BY DEF CrashImages
<1>2. PICK k \in Len(w.disk)..Len(o.w.disk) : image = SubSeq(o.w.disk, 1, k)
  BY <1>1
<1>3. Goes(o.w, w, acc)
  BY GoesFlushChunk
<1>4. o.w \in WriterStates
  BY <1>3 DEF Goes
<1>5. o.w.disk \in Seq(Cells) /\ Len(o.w.disk) \in Nat /\ Len(w.disk) \in Nat
  BY <1>4, FieldTypes, StreamProps
<1>6. k \in 0..Len(o.w.disk) /\ Len(w.disk) <= k
  BY <1>5
<1>7. Pre(image, o.w.disk)
  BY <1>2, <1>5, <1>6, PreCut
<1>8. Len(image) = k
  BY <1>2, <1>5, <1>6, CutProps
<1>9. Pre(w.disk, o.w.disk) /\ SoundCells(o.w.disk, acc)
  BY <1>3, GoesDisk
<1>. QED BY <1>6, <1>7, <1>8, <1>9, PreNested, SoundPrefix

\* intern and append_event of a torn writer.
LEMMA OpenIntern ==
    ASSUME NEW w \in WriterStates, NEW acc, OpenInv(w, acc), NEW kind \in Kinds, NEW name \in Names
    PROVE  /\ OpenInv(Intern(w, kind, name).w, acc)
           /\ Intern(w, kind, name).w.disk = w.disk
<1> DEFINE v == Intern(w, kind, name).w
<1>1. CASE WriterInv(w, acc)
  BY <1>1, InvIntern DEF OpenInv
<1>2. CASE TornWriter(w, acc)
  <2>1. CASE v = w
    BY <1>2, <2>1 DEF OpenInv
  <2>2. CASE v # w
    <3> DEFINE dict  == w.dictionary
               entry == [kind |-> kind, id |-> dict.next_id[kind], name |-> name]
               grown == [entries |-> dict.entries \cup {entry},
                         next_id |-> [dict.next_id EXCEPT ![kind] = @ + 1]]
    <3>1. v = [w EXCEPT !.dictionary = grown, !.pending_dict = Append(@, entry)]
      BY <2>2 DEF Intern, Outcome
    <3>2. w.pending_dict \in Seq(DictEntry) /\ w.dictionary \in Dictionary
      BY FieldTypes
    <3>3. entry \in DictEntry
      BY <3>2 DEF Dictionary, DictEntry
    <3> HIDE DEF entry, grown, v
    <3>4. /\ v.disk = w.disk /\ v.buf = w.buf /\ v.next_event_seq = w.next_event_seq
          /\ v.pending_events = w.pending_events /\ v.pending_dict = Append(w.pending_dict, entry)
      BY <3>1 DEF WriterStates
    <3>5. Stream(v) = Stream(w)
      BY <3>4 DEF Stream
    <3>6. v.pending_dict # <<>>
      BY <3>2, <3>3, <3>4, AppendProperties
    <3>7. TornWriter(v, acc)
      BY <1>2, <3>4, <3>5, <3>6 DEF TornWriter
    <3>. QED BY <3>4, <3>7 DEF OpenInv, v
  <2>. QED BY <2>1, <2>2
<1>. QED BY <1>1, <1>2 DEF OpenInv

LEMMA OpenPushed ==
    ASSUME NEW w \in WriterStates, NEW acc, Numbered(acc), OpenInv(w, acc),
           NEW ev \in Events, RefsResolve(w.dictionary, ev),
           NEW rec, rec = [ev EXCEPT !.event_sequence = w.next_event_seq]
    PROVE  /\ rec \in Events /\ rec.event_sequence = Len(acc) + 1
           /\ OpenInv(Pushed(w, ev), Append(acc, rec))
<1>1. CASE WriterInv(w, acc)
  BY <1>1, InvPushed DEF OpenInv
<1>2. CASE TornWriter(w, acc)
  <2> DEFINE v == Pushed(w, ev)
             grown == Append(acc, rec)
  <2>1. rec \in Events
    BY PushedType
  <2>2. w.next_event_seq = Len(acc) + 1 /\ w.pending_events \in Seq(Events)
    BY <1>2, FieldTypes DEF TornWriter
  <2>3. rec.event_sequence = Len(acc) + 1
    BY <2>2 DEF Events
  <2>4. /\ v.disk = w.disk /\ v.buf = w.buf /\ v.next_event_seq = w.next_event_seq + 1
        /\ v.pending_events = Append(w.pending_events, rec)
    BY DEF Pushed, WriterStates
  <2>5. Len(grown) = Len(acc) + 1
    BY <2>1, <2>3, GrownProps
  <2> HIDE DEF v, grown
  <2>6. Stream(v) = Stream(w)
    BY <2>4 DEF Stream
  <2>7. v.pending_events # <<>>
    BY <2>1, <2>2, <2>4, AppendProperties
  <2>8. PICK m \in 0..Len(Stream(w)) : TornAfter(Stream(w), m, acc)
    BY <1>2 DEF TornWriter
  <2>9. Stream(w) \in Seq(Cells) /\ m \in Nat
    <3>1. Stream(w) \in Seq(Cells) /\ Len(Stream(w)) \in Nat
      BY StreamProps
    <3>. QED BY <3>1
  <2>10. TornAfter(Stream(w), m, grown)
    BY <2>1, <2>3, <2>8, <2>9, TornGrown DEF grown
  <2>11. v.next_event_seq = Len(grown) + 1
    BY <2>2, <2>4, <2>5
  <2>12. TornWriter(v, grown)
    BY <2>6, <2>7, <2>10, <2>11 DEF TornWriter
  <2>. QED BY <2>1, <2>3, <2>12 DEF OpenInv, v, grown
<1>. QED BY <1>1, <1>2 DEF OpenInv

\* What ShortInv says of the file.
ShortFile(c, acc, st) ==
    /\ SoundCells(c, acc)
    /\ st <= Len(acc)
    /\ ChunksInOrder(c) => \A n \in 1..st : Written(c, acc[n])

\* A file with no chunk missing had none missing before.
LEMMA InOrderPrefix ==
    ASSUME NEW c, NEW d, Pre(c, d), ChunksInOrder(d)
    PROVE  ChunksInOrder(c)
<1>1. Len(c) \in Nat /\ Len(d) \in Nat /\ Len(c) <= Len(d)
  BY DEF Pre
<1>2. ASSUME NEW k \in 1..Len(c), 3 * k <= Len(c) PROVE WholeChunk(c, k)
  <2>1. k \in Nat \ {0} /\ k \in 1..Len(d)
    BY <1>1
  <2>2. 3 * k <= Len(d) /\ (WholeChunk(c, k) <=> WholeChunk(d, k))
    BY <1>2, <2>1, PreChunk
  <2>. QED BY <2>1, <2>2 DEF ChunksInOrder
<1>. QED BY <1>2 DEF ChunksInOrder

LEMMA ShortKept ==
    ASSUME NEW c, NEW d, Pre(c, d), NEW acc, SoundCells(d, acc), NEW st, ShortFile(c, acc, st)
    PROVE  ShortFile(d, acc, st)
<1>1. st <= Len(acc) /\ (ChunksInOrder(c) => \A n \in 1..st : Written(c, acc[n]))
  BY DEF ShortFile
<1>2. ASSUME ChunksInOrder(d), NEW n \in 1..st PROVE Written(d, acc[n])
  BY <1>1, <1>2, InOrderPrefix, WrittenPre
<1>. QED BY <1>1, <1>2 DEF ShortFile

LEMMA ShortGrown ==
    ASSUME NEW acc, Numbered(acc), NEW rec \in Events, rec.event_sequence = Len(acc) + 1,
           NEW c \in Seq(Cells), NEW st \in Nat, ShortFile(c, acc, st)
    PROVE  ShortFile(c, Append(acc, rec), st)
<1>1. /\ Len(acc) \in Nat /\ Len(Append(acc, rec)) = Len(acc) + 1
      /\ \A n \in 1..Len(acc) : Append(acc, rec)[n] = acc[n]
  BY GrownProps
<1>2. SoundCells(c, Append(acc, rec))
  BY SoundGrown DEF ShortFile
<1>3. st <= Len(acc) /\ (ChunksInOrder(c) => \A n \in 1..st : Written(c, acc[n]))
  BY DEF ShortFile
<1>4. st <= Len(Append(acc, rec)) /\ \A n \in 1..st : n \in 1..Len(acc)
  BY <1>1, <1>3
<1>. QED BY <1>1, <1>2, <1>3, <1>4 DEF ShortFile

LEMMA ShortAfter ==
    ASSUME NEW w \in WriterStates, NEW v, NEW acc, Goes(v, w, acc), NEW st, ShortFile(w.disk, acc, st)
    PROVE  ShortFile(v.disk, acc, st)
BY GoesDisk, ShortKept

\* A fragment that is not at the end leaves a chunk missing.
LEMMA TornOutOfOrder ==
    ASSUME NEW c \in Seq(Cells), NEW m \in Nat, NEW acc, TornAfter(c, m, acc), 3 * m + 3 <= Len(c)
    PROVE  ~ChunksInOrder(c)
<1>1. Len(c) \in Nat /\ c[3 * m + 3].part # 3
  BY LenProperties DEF TornAfter
<1>2. m + 1 \in 1..Len(c) /\ 3 * (m + 1) <= Len(c) /\ 3 * (m + 1) = 3 * m + 3
      /\ 3 * (m + 1) - 3 + 3 = 3 * m + 3
  BY <1>1
<1>3. SUFFICES ASSUME ChunksInOrder(c) PROVE FALSE
  OBVIOUS
<1>4. WholeChunk(c, m + 1)
  BY <1>2, <1>3 DEF ChunksInOrder
<1>5. 3 \in 1..3
  OBVIOUS
<1>6. c[3 * (m + 1) - 3 + 3] = [part |-> 3, chunk |-> c[3 * (m + 1)].chunk]
  BY <1>4, <1>5 DEF WholeChunk
<1>. QED BY <1>1, <1>2, <1>6

\* After a flush that succeeded the file holds every recorded event, or a
\* chunk is missing in it.
LEMMA ShortComplete ==
    ASSUME NEW w \in WriterStates, NEW acc, Numbered(acc), OpenInv(w, acc),
           AllWritten(w), w.pending_dict = <<>>
    PROVE  ShortFile(w.disk, acc, Len(acc))
<1>1. CASE WriterInv(w, acc)
  <2>1. FileInv(w.disk, acc, Len(acc))
    BY <1>1, FileComplete
  <2>. QED BY <2>1 DEF FileInv, ShortFile, SoundCells
<1>2. CASE TornWriter(w, acc)
  <2> DEFINE s == Stream(w)
  <2>1. s \in Seq(Cells) /\ Len(s) \in Nat /\ Pre(w.disk, s) /\ Len(w.disk) = Len(s)
    BY StreamProps, PreDisk DEF AllWritten
  <2>2. PICK m \in 0..Len(s) : TornAfter(s, m, acc) /\ 3 * m + 3 <= Len(s)
    BY <1>2 DEF TornWriter, AllWritten
  <2> HIDE DEF s
  <2>3. m \in Nat
    BY <2>1
  <2>4. ~ChunksInOrder(s)
    BY <2>1, <2>2, <2>3, TornOutOfOrder
  <2>5. Pre(s, w.disk)
    BY <2>1 DEF Pre
  <2>6. ~ChunksInOrder(w.disk)
    BY <2>4, <2>5, InOrderPrefix
  <2>7. SoundCells(w.disk, acc)
    BY <2>1, <2>2, <2>3, TornCut
  <2>8. Len(acc) <= Len(acc)
    <3>1. Len(acc) \in Nat
      BY LenProperties DEF Numbered
    <3>. QED BY <3>1
  <2>. QED BY <2>6, <2>7, <2>8 DEF ShortFile
<1>. QED BY <1>1, <1>2 DEF OpenInv

\* Reading stops at a fragment: the chunks read are the m before it.
LEMMA TornCommitted ==
    ASSUME NEW c \in Seq(Cells), NEW m \in Nat, NEW acc, TornAfter(c, m, acc), NEW k \in 1..Len(c)
    PROVE  k \in CommittedSeqs(c) <=> k <= m
<1> DEFINE g == SubSeq(c, 1, 3 * m)
<1>1. /\ Len(c) \in Nat /\ 3 * m < Len(c) /\ GoodCells(g, acc)
      /\ 3 * m + 3 <= Len(c) => c[3 * m + 3].part # 3
  BY LenProperties DEF TornAfter
<1>2. 3 * m \in 0..Len(c)
  BY <1>1, TornPlaces
<1>3. Pre(g, c) /\ Len(g) = 3 * m
  BY <1>2, PreCut, CutProps
<1>4. ChunksInOrder(g)
  BY <1>1 DEF GoodCells
<1> HIDE DEF g
<1>5. ASSUME NEW j \in 1..Len(c), j <= m PROVE WholeChunk(c, j)
  <2>1. j \in Nat \ {0} /\ 3 * j <= Len(g) /\ j \in 1..Len(g)
    BY <1>1, <1>3, <1>5
  <2>2. WholeChunk(g, j)
    BY <1>4, <2>1 DEF ChunksInOrder
  <2>. QED BY <1>3, <2>1, <2>2, PreChunk
<1>6. ASSUME k <= m PROVE k \in CommittedSeqs(c)
  <2>1. \A j \in 1..k : j \in 1..Len(c) /\ j <= m
    BY <1>1, <1>6
  <2>. QED BY <1>5, <2>1 DEF CommittedSeqs
<1>7. ASSUME k \in CommittedSeqs(c), ~(k <= m) PROVE FALSE
  <2>1. m + 1 \in 1..k
    BY <1>7
  <2>2. WholeChunk(c, m + 1)
    BY <1>7, <2>1 DEF CommittedSeqs
  <2>3. 3 \in 1..3 /\ 3 * (m + 1) = 3 * m + 3 /\ 3 * (m + 1) - 3 + 3 = 3 * m + 3
    OBVIOUS
  <2>4. 3 * (m + 1) <= Len(c) /\ c[3 * (m + 1) - 3 + 3] = [part |-> 3, chunk |-> c[3 * (m + 1)].chunk]
    BY <2>2, <2>3 DEF WholeChunk
  <2>. QED BY <1>1, <2>3, <2>4
<1>. QED BY <1>6, <1>7

\* What is read of sound cells is what is read of good ones.
LEMMA SoundRead ==
    ASSUME NEW c \in Seq(Cells), NEW acc, SoundCells(c, acc)
    PROVE  \E g \in Seq(Cells) :
              /\ GoodCells(g, acc)
              /\ EventsIn(c) = EventsIn(g)
              /\ EntriesIn(c) = EntriesIn(g)
<1>1. CASE GoodCells(c, acc)
  BY <1>1
<1>2. ASSUME NEW m \in 0..Len(c), TornAfter(c, m, acc)
      PROVE  \E g \in Seq(Cells) :
                GoodCells(g, acc) /\ EventsIn(c) = EventsIn(g) /\ EntriesIn(c) = EntriesIn(g)
  <2> DEFINE g == SubSeq(c, 1, 3 * m)
  <2>1. Len(c) \in Nat /\ m \in Nat /\ 3 * m < Len(c) /\ GoodCells(g, acc)
    BY <1>2, LenProperties DEF TornAfter
  <2>2. 3 * m \in 0..Len(c)
    BY <2>1, TornPlaces
  <2>3. Pre(g, c) /\ Len(g) = 3 * m /\ g \in Seq(Cells)
    BY <2>2, PreCut, CutProps
  <2>4. ChunksInOrder(g) /\ Len(g) \in Nat
    BY <2>1, <2>3 DEF GoodCells, Pre
  <2> HIDE DEF g
  <2>5. \A k : k \in CommittedSeqs(c) <=> k \in 1..m
    <3>1. \A k \in 1..Len(c) : k \in CommittedSeqs(c) <=> k <= m
      BY <1>2, <2>1, TornCommitted
    <3>2. CommittedSeqs(c) \subseteq 1..Len(c)
      BY DEF CommittedSeqs
    <3>3. \A k \in 1..m : k \in 1..Len(c) /\ k <= m
      BY <2>1
    <3>4. \A k \in 1..Len(c) : k <= m => k \in 1..m
      BY <2>1
    <3>. QED BY <3>1, <3>2, <3>3, <3>4
  <2>6. \A k : k \in CommittedSeqs(g) <=> k \in 1..m
    <3>1. \A k \in 1..Len(g) : k \in CommittedSeqs(g) <=> 3 * k <= Len(g)
      BY <2>4, AllCommitted
    <3>2. CommittedSeqs(g) \subseteq 1..Len(g)
      BY DEF CommittedSeqs
    <3>3. \A k \in 1..m : k \in 1..Len(g) /\ 3 * k <= Len(g)
      BY <2>1, <2>3
    <3>4. \A k \in 1..Len(g) : 3 * k <= Len(g) => k \in 1..m
      BY <2>1, <2>3
    <3>. QED BY <3>1, <3>2, <3>3, <3>4
  <2>7. CommittedSeqs(c) = CommittedSeqs(g)
    BY <2>5, <2>6
  <2>8. \A k \in CommittedSeqs(g) : ChunkAt(c, k) = ChunkAt(g, k)
    <3>1. ASSUME NEW k \in CommittedSeqs(g) PROVE ChunkAt(c, k) = ChunkAt(g, k)
      <4>1. k \in 1..m
        BY <2>6
      <4>2. k \in Nat \ {0} /\ 3 * k <= Len(g)
        BY <2>1, <2>3, <4>1
      <4>. QED BY <2>3, <4>2, PreChunk
    <3>. QED BY <3>1
  <2>9. EventsIn(c) = EventsIn(g)
    BY <2>7, <2>8 DEF EventsIn
  <2>10. EntriesIn(c) = EntriesIn(g)
    BY <2>7, <2>8 DEF EntriesIn
  <2>. QED BY <2>1, <2>3, <2>9, <2>10 DEF g
<1>. QED BY <1>1, <1>2 DEF SoundCells

-----------------------------------------------------------------------------
(* The reader *)

Readers ==
    [pc : {"scan", "done", "error"}, file_len : Nat, offset : Nat,
     expected_chunk_seq : Nat, expected_event_seq : Nat,
     dictionary : Dictionary, events : Seq(Events), torn_tail : BOOLEAN]

\* The type the header of chunk k declares, and the payload that follows it.
TypeAt(file, k) == file[3 * k - 2].chunk.chunk_type
BodyAt(file, k) == file[3 * k - 1].chunk

\* Chunk k is committed: its CRC matches and its number is right.
Committed(file, k) ==
    /\ file[3 * k - 2].part = 1
    /\ file[3 * k - 2].chunk.payload_len = 1
    /\ file[3 * k - 2].chunk.sequence = k
    /\ file[3 * k - 1].part = 2
    /\ file[3 * k].part = 3
    /\ file[3 * k].chunk.payload = file[3 * k - 1].chunk.payload

\* Chunk k carries the event x, or the dictionary entry x.
Carries(file, k, type, x) ==
    /\ TypeAt(file, k) = type
    /\ BodyAt(file, k).chunk_type = type
    /\ x \in RangeOf(BodyAt(file, k).payload)

\* The reader stands at a chunk boundary inside the length it took.
AtBoundary(r, file) ==
    /\ r.file_len <= Len(file)
    /\ r.expected_chunk_seq >= 1
    /\ r.offset = 3 * (r.expected_chunk_seq - 1)
    /\ r.offset <= r.file_len
    /\ \A k \in 1..(r.expected_chunk_seq - 1) : Committed(file, k)

\* It has gathered the events and entries of the chunks it has passed, and
\* nothing else.
HasGathered(r, file) ==
    /\ \A k \in 1..(r.expected_chunk_seq - 1) :
          /\ \A x \in Events : Carries(file, k, EventType, x) => x \in RangeOf(r.events)
          /\ \A x \in DictEntry : Carries(file, k, DictType, x) => x \in r.dictionary.entries
    /\ \A x \in RangeOf(r.events) :
          \E k \in 1..(r.expected_chunk_seq - 1) : Carries(file, k, EventType, x)
    /\ \A x \in r.dictionary.entries :
          \E k \in 1..(r.expected_chunk_seq - 1) : Carries(file, k, DictType, x)

\* What it has gathered is sound.
SoundSoFar(r) ==
    /\ r.expected_event_seq = Len(r.events) + 1
    /\ \A i \in 1..Len(r.events) : r.events[i].event_sequence = i
    /\ \A i \in 1..Len(r.events) : RefsResolve(r.dictionary, r.events[i])
    /\ \A e, f \in r.dictionary.entries : Key(e) = Key(f) => e = f

Covered(r, file) ==
    /\ r \in Readers
    /\ AtBoundary(r, file)
    /\ HasGathered(r, file)
    /\ SoundSoFar(r)

Scanning(r, file) == r.pc = "scan" /\ r.torn_tail = FALSE /\ Covered(r, file)

Finished(r, file) ==
    /\ r.pc = "done"
    /\ Covered(r, file)
    /\ r.torn_tail <=> r.offset < r.file_len

-----------------------------------------------------------------------------
(* Types *)

LEMMA ReaderTypes ==
    ASSUME NEW r \in Readers
    PROVE  /\ r.file_len \in Nat /\ r.offset \in Nat
           /\ r.expected_chunk_seq \in Nat /\ r.expected_event_seq \in Nat
           /\ r.dictionary \in Dictionary /\ r.dictionary.entries \subseteq DictEntry
           /\ r.events \in Seq(Events) /\ Len(r.events) \in Nat
           /\ r.torn_tail \in BOOLEAN
           /\ r.pc \in {"scan", "done", "error"}
<1>1. r.events \in Seq(Events) /\ r.dictionary \in Dictionary
  BY DEF Readers
<1>2. Len(r.events) \in Nat
  BY <1>1, LenProperties
<1>3. r.dictionary.entries \subseteq DictEntry
  BY <1>1 DEF Dictionary
<1>. QED BY <1>1, <1>2, <1>3 DEF Readers

LEMMA CellTypes ==
    ASSUME NEW file \in Seq(FileCells), NEW i \in 1..Len(file)
    PROVE  /\ file[i].part \in 0..3
           /\ file[i].chunk.chunk_type \in Nat
           /\ file[i].chunk.sequence \in Nat
           /\ file[i].chunk.payload_len \in Nat
           /\ file[i].chunk.chunk_type = DictType => file[i].chunk.payload \in Seq(DictEntry)
           /\ file[i].chunk.chunk_type = EventType => file[i].chunk.payload \in Seq(Events)
<1>1. file[i] \in FileCells
  BY ElementOfSeq
<1>2. file[i].chunk \in FileChunks /\ file[i].part \in 0..3
  BY <1>1 DEF FileCells
<1>. QED BY <1>2 DEF FileChunks

LEMMA JoinRange ==
    ASSUME NEW S, NEW s \in Seq(S), NEW t \in Seq(S)
    PROVE  /\ s \o t \in Seq(S)
           /\ Len(s \o t) = Len(s) + Len(t) /\ Len(s) \in Nat /\ Len(t) \in Nat
           /\ \A i \in 1..Len(s) : (s \o t)[i] = s[i]
           /\ \A i \in 1..Len(t) : (s \o t)[Len(s) + i] = t[i]
           /\ \A i \in 1..(Len(s) + Len(t)) :
                 i \in 1..Len(s) \/ (i - Len(s) \in 1..Len(t) /\ (s \o t)[i] = t[i - Len(s)])
           /\ RangeOf(s \o t) = RangeOf(s) \cup RangeOf(t)
<1>1. Len(s) \in Nat /\ Len(t) \in Nat /\ DOMAIN s = 1..Len(s) /\ DOMAIN t = 1..Len(t)
  BY LenProperties
<1>2. /\ s \o t \in Seq(S)
      /\ Len(s \o t) = Len(s) + Len(t)
      /\ \A i \in 1..(Len(s) + Len(t)) :
            (s \o t)[i] = IF i <= Len(s) THEN s[i] ELSE t[i - Len(s)]
  BY ConcatProperties
<1>3. DOMAIN (s \o t) = 1..(Len(s) + Len(t))
  BY <1>2, LenProperties
<1>4. \A i \in 1..Len(s) : i \in 1..(Len(s) + Len(t)) /\ (s \o t)[i] = s[i]
  BY <1>1, <1>2
<1>5. ASSUME NEW i \in 1..Len(t)
      PROVE  Len(s) + i \in 1..(Len(s) + Len(t)) /\ (s \o t)[Len(s) + i] = t[i]
  <2>1. Len(s) + i \in 1..(Len(s) + Len(t)) /\ ~(Len(s) + i <= Len(s)) /\ (Len(s) + i) - Len(s) = i
    BY <1>1
  <2>. QED BY <1>2, <2>1
<1>6. ASSUME NEW i \in 1..(Len(s) + Len(t)), i \notin 1..Len(s)
      PROVE  i - Len(s) \in 1..Len(t) /\ (s \o t)[i] = t[i - Len(s)]
  <2>1. i - Len(s) \in 1..Len(t) /\ ~(i <= Len(s))
    BY <1>1, <1>6
  <2>. QED BY <1>2, <2>1
<1>7. RangeOf(s \o t) \subseteq RangeOf(s) \cup RangeOf(t)
  BY <1>1, <1>3, <1>4, <1>6 DEF RangeOf
<1>8. RangeOf(s) \cup RangeOf(t) \subseteq RangeOf(s \o t)
  BY <1>1, <1>3, <1>4, <1>5 DEF RangeOf
<1>. QED BY <1>1, <1>2, <1>4, <1>5, <1>6, <1>7, <1>8

LEMMA PrefixProps ==
    ASSUME NEW S, NEW s \in Seq(S), NEW k \in Nat, k <= Len(s)
    PROVE  /\ SubSeq(s, 1, k) \in Seq(S)
           /\ Len(SubSeq(s, 1, k)) = k
           /\ \A i \in 1..k : SubSeq(s, 1, k)[i] = s[i]
<1>1. Len(s) \in Nat /\ \A i \in 1..Len(s) : s[i] \in S
  BY LenProperties, ElementOfSeq
<1>. QED BY <1>1, SubSeqProperties, SMT

-----------------------------------------------------------------------------
(* A reader that has opened a file of which it sees len cells *)

LEMMA OpenScans ==
    ASSUME NEW f \in Seq(FileCells), NEW len \in 0..Len(f)
    PROVE  Scanning(OpenReader(TRUE, len), f) /\ OpenReader(TRUE, len).file_len = len
<1> DEFINE r == OpenReader(TRUE, len)
<1>1. /\ Len(f) \in Nat /\ len \in Nat /\ len <= Len(f)
  BY LenProperties
<1>2. EmptyDictionary \in Dictionary /\ EmptyDictionary.entries = {}
  BY DEF EmptyDictionary, Dictionary
<1>3. <<>> \in Seq(Events) /\ Len(<<>>) = 0 /\ RangeOf(<<>>) = {}
  BY DEF RangeOf
<1>4. /\ r.pc = "scan" /\ r.torn_tail = FALSE /\ r.file_len = len /\ r.offset = 0
      /\ r.expected_chunk_seq = 1 /\ r.expected_event_seq = 1
      /\ r.dictionary = EmptyDictionary /\ r.events = <<>>
  BY DEF OpenReader
<1>5. r \in Readers
  BY <1>1, <1>2, <1>3 DEF OpenReader, Readers
<1> HIDE DEF r
<1>6. 1..(r.expected_chunk_seq - 1) = {}
  BY <1>4
<1>7. AtBoundary(r, f)
  BY <1>1, <1>4, <1>6 DEF AtBoundary
<1>8. HasGathered(r, f)
  BY <1>2, <1>3, <1>4, <1>6 DEF HasGathered
<1>9. SoundSoFar(r)
  BY <1>2, <1>3, <1>4 DEF SoundSoFar
<1>10. Scanning(r, f) /\ r.file_len = len
  BY <1>4, <1>5, <1>7, <1>8, <1>9 DEF Scanning, Covered
<1>. QED BY <1>10 DEF r

-----------------------------------------------------------------------------
(* Taking one more chunk *)

\* v is r after the chunk it stood at: the next boundary, and what the chunk
\* carries added to what r had gathered.
Passes(r, v, file) ==
    LET n == r.expected_chunk_seq
    IN  /\ v \in Readers
        /\ v.pc = r.pc /\ v.torn_tail = r.torn_tail /\ v.file_len = r.file_len
        /\ v.offset = r.offset + 3
        /\ v.expected_chunk_seq = n + 1
        /\ \A x \in Events :
              x \in RangeOf(v.events) <=> x \in RangeOf(r.events) \/ Carries(file, n, EventType, x)
        /\ \A x \in DictEntry :
              x \in v.dictionary.entries
                <=> x \in r.dictionary.entries \/ Carries(file, n, DictType, x)

LEMMA RangeTyped ==
    ASSUME NEW S, NEW s \in Seq(S)
    PROVE  RangeOf(s) \subseteq S /\ DOMAIN s = 1..Len(s) /\ Len(s) \in Nat
<1>1. DOMAIN s = 1..Len(s) /\ Len(s) \in Nat
  BY LenProperties
<1>2. \A i \in 1..Len(s) : s[i] \in S
  BY ElementOfSeq
<1>. QED BY <1>1, <1>2 DEF RangeOf

\* A whole committed chunk is next.
Ready(r, file) ==
    3 * r.expected_chunk_seq <= r.file_len /\ Committed(file, r.expected_chunk_seq)

LEMMA PassesCovers ==
    ASSUME NEW file \in Seq(FileCells), NEW r, NEW v,
           Covered(r, file), Passes(r, v, file), SoundSoFar(v),
           Ready(r, file)
    PROVE  Covered(v, file)
<1> DEFINE n == r.expected_chunk_seq
<1>1. /\ r \in Readers /\ v \in Readers
      /\ n \in Nat /\ n >= 1 /\ r.offset = 3 * (n - 1) /\ r.file_len \in Nat
      /\ r.file_len <= Len(file) /\ Len(file) \in Nat
      /\ \A k \in 1..(n - 1) : Committed(file, k)
      /\ 3 * n <= r.file_len
  BY ReaderTypes, LenProperties DEF Covered, AtBoundary, Passes, Ready
<1>2. /\ v.expected_chunk_seq = n + 1 /\ v.offset = r.offset + 3 /\ v.file_len = r.file_len
  BY DEF Passes
<1>3. Committed(file, n)
  BY DEF Ready
<1> HIDE DEF n
<1>4. 1..((n + 1) - 1) = 1..(n - 1) \cup {n} /\ n \in 1..n /\ (n + 1) - 1 = n
  BY <1>1
<1>5. AtBoundary(v, file)
  <2>1. v.offset = 3 * ((n + 1) - 1) /\ n + 1 >= 1 /\ v.offset <= r.file_len
    BY <1>1, <1>2
  <2>. QED BY <1>1, <1>2, <1>3, <1>4, <2>1 DEF AtBoundary
<1>6. /\ \A x \in Events :
            x \in RangeOf(v.events) <=> x \in RangeOf(r.events) \/ Carries(file, n, EventType, x)
      /\ \A x \in DictEntry :
            x \in v.dictionary.entries
              <=> x \in r.dictionary.entries \/ Carries(file, n, DictType, x)
  BY DEF Passes, n
<1>7. HasGathered(r, file)
  BY DEF Covered
<1>8. /\ RangeOf(v.events) \subseteq Events /\ v.dictionary.entries \subseteq DictEntry
  BY <1>1, ReaderTypes, RangeTyped
<1>9. HasGathered(v, file)
  <2>1. ASSUME NEW k \in 1..((n + 1) - 1)
        PROVE  /\ \A x \in Events : Carries(file, k, EventType, x) => x \in RangeOf(v.events)
               /\ \A x \in DictEntry : Carries(file, k, DictType, x) => x \in v.dictionary.entries
    BY <1>4, <1>6, <1>7, <2>1 DEF HasGathered, n
  <2>2. ASSUME NEW x \in RangeOf(v.events)
        PROVE  \E k \in 1..((n + 1) - 1) : Carries(file, k, EventType, x)
    BY <1>4, <1>6, <1>7, <1>8, <2>2 DEF HasGathered, n
  <2>3. ASSUME NEW x \in v.dictionary.entries
        PROVE  \E k \in 1..((n + 1) - 1) : Carries(file, k, DictType, x)
    BY <1>4, <1>6, <1>7, <1>8, <2>3 DEF HasGathered, n
  <2>. QED BY <1>2, <2>1, <2>2, <2>3 DEF HasGathered
<1>. QED BY <1>1, <1>5, <1>9 DEF Covered

\* What a Dictionary chunk makes of the dictionary, an Event chunk of the
\* events and of the number expected next.
WithEntries(r, new) == [r.dictionary EXCEPT !.entries = @ \cup RangeOf(new)]
WithEvents(r, new) == r.events \o new
NumberAfter(r, new) == r.expected_event_seq + Len(new)

\* The reader after a chunk, and its fields.
Beyond(r, d, evs, m) ==
    [r EXCEPT !.dictionary = d, !.events = evs, !.expected_event_seq = m,
              !.offset = r.offset + 3, !.expected_chunk_seq = r.expected_chunk_seq + 1]

LEMMA NextFields ==
    ASSUME NEW r \in Readers, NEW d \in Dictionary, NEW evs \in Seq(Events), NEW m \in Nat,
           NEW v, v = Beyond(r, d, evs, m)
    PROVE  /\ v \in Readers
           /\ v.pc = r.pc /\ v.torn_tail = r.torn_tail /\ v.file_len = r.file_len
           /\ v.offset = r.offset + 3 /\ v.expected_chunk_seq = r.expected_chunk_seq + 1
           /\ v.expected_event_seq = m
           /\ v.events = evs
           /\ v.dictionary = d
<1>1. r.offset + 3 \in Nat /\ r.expected_chunk_seq + 1 \in Nat
  BY ReaderTypes
<1>2. v \in Readers
  BY <1>1 DEF Beyond, Readers
<1>3. v.pc = r.pc /\ v.torn_tail = r.torn_tail /\ v.file_len = r.file_len
  BY DEF Beyond, Readers
<1>4. v.offset = r.offset + 3 /\ v.expected_chunk_seq = r.expected_chunk_seq + 1
  BY DEF Beyond, Readers
<1>5. v.expected_event_seq = m /\ v.events = evs /\ v.dictionary = d
  BY DEF Beyond, Readers
<1>. QED BY <1>2, <1>3, <1>4, <1>5

\* A Dictionary chunk whose entries are legal.
LEMMA PassesDict ==
    ASSUME NEW file \in Seq(FileCells), NEW r, Covered(r, file),
           Ready(r, file),
           NEW body, body = BodyAt(file, r.expected_chunk_seq),
           TypeAt(file, r.expected_chunk_seq) = DictType,
           body.chunk_type = DictType, EntriesLegal(r.dictionary, body.payload),
           NEW v,
           v = Beyond(r, WithEntries(r, body.payload), r.events, r.expected_event_seq)
    PROVE  Passes(r, v, file) /\ SoundSoFar(v)
<1> DEFINE n == r.expected_chunk_seq
           new == RangeOf(body.payload)
           grown == r.dictionary.entries \cup new
<1>1. /\ r \in Readers /\ n \in Nat /\ n >= 1 /\ r.offset \in Nat
      /\ r.file_len \in Nat /\ r.file_len <= Len(file) /\ Len(file) \in Nat
      /\ r.dictionary \in Dictionary /\ r.dictionary.entries \subseteq DictEntry
      /\ r.events \in Seq(Events)
  BY ReaderTypes, LenProperties DEF Covered, AtBoundary
<1>2. body.payload \in Seq(DictEntry)
  <2>1. 3 * n - 1 \in 1..Len(file)
    BY <1>1 DEF Ready
  <2>2. body = file[3 * n - 1].chunk
    BY DEF BodyAt
  <2>. QED BY <2>1, <2>2, CellTypes
<1>3. new \subseteq DictEntry /\ DOMAIN body.payload = 1..Len(body.payload)
  BY <1>2, RangeTyped
<1>4. WithEntries(r, body.payload) \in Dictionary
  BY <1>1, <1>3 DEF Dictionary, WithEntries
<1>5. /\ v \in Readers
      /\ v.pc = r.pc /\ v.torn_tail = r.torn_tail /\ v.file_len = r.file_len
      /\ v.offset = r.offset + 3 /\ v.expected_chunk_seq = n + 1
      /\ v.expected_event_seq = r.expected_event_seq
      /\ v.events = r.events
      /\ v.dictionary = WithEntries(r, body.payload)
  <2>1. r \in Readers /\ r.events \in Seq(Events) /\ r.expected_event_seq \in Nat
    BY <1>1, ReaderTypes
  <2>. QED BY <1>4, <2>1, NextFields
<1>6. v.dictionary.entries = grown
  BY <1>1, <1>5 DEF Dictionary, WithEntries
<1>7. Passes(r, v, file)
  <2>1. \A x : ~Carries(file, n, EventType, x)
    BY DEF Carries, DictType, EventType
  <2>2. \A x : Carries(file, n, DictType, x) <=> x \in new
    BY DEF Carries
  <2>. QED BY <1>5, <1>6, <2>1, <2>2 DEF Passes
<1>8. SoundSoFar(v)
  <2>1. /\ r.expected_event_seq = Len(r.events) + 1
        /\ \A i \in 1..Len(r.events) : r.events[i].event_sequence = i
        /\ \A i \in 1..Len(r.events) : RefsResolve(r.dictionary, r.events[i])
        /\ \A e, f \in r.dictionary.entries : Key(e) = Key(f) => e = f
    BY DEF Covered, SoundSoFar
  <2>2. Keys(r.dictionary) \subseteq Keys(v.dictionary)
    BY <1>6 DEF Keys
  <2>3. \A i \in 1..Len(r.events) : RefsResolve(v.dictionary, r.events[i])
    BY <2>1, <2>2 DEF RefsResolve
  <2>4. ASSUME NEW e \in new, NEW f \in new, Key(e) = Key(f) PROVE e = f
    <3>1. PICK i \in DOMAIN body.payload : e = body.payload[i]
      BY <2>4 DEF RangeOf
    <3>2. PICK j \in DOMAIN body.payload : f = body.payload[j]
      BY <2>4 DEF RangeOf
    <3>3. i = j
      BY <2>4, <3>1, <3>2 DEF EntriesLegal
    <3>. QED BY <3>1, <3>2, <3>3
  <2>5. ASSUME NEW e \in new PROVE Key(e) \notin Keys(r.dictionary)
    <3>1. PICK i \in DOMAIN body.payload : e = body.payload[i]
      BY <2>5 DEF RangeOf
    <3>2. CanInsert(r.dictionary, e)
      BY <3>1 DEF EntriesLegal
    <3>. QED BY <3>2 DEF CanInsert, Require, Key
  <2>6. \A e \in r.dictionary.entries : Key(e) \in Keys(r.dictionary)
    BY DEF Keys
  <2>7. ASSUME NEW e \in grown, NEW f \in grown, Key(e) = Key(f) PROVE e = f
    BY <2>1, <2>4, <2>5, <2>6, <2>7
  <2>. QED BY <1>5, <1>6, <2>1, <2>3, <2>7 DEF SoundSoFar
<1>. QED BY <1>7, <1>8

LEMMA Shifted ==
    ASSUME NEW a \in Nat, NEW i \in Nat
    PROVE  a + 1 + (i - a) - 1 = i
OBVIOUS

\* An Event chunk whose events are legal.
LEMMA PassesEvents ==
    ASSUME NEW file \in Seq(FileCells), NEW r, Covered(r, file),
           Ready(r, file),
           NEW body, body = BodyAt(file, r.expected_chunk_seq),
           TypeAt(file, r.expected_chunk_seq) = EventType,
           body.chunk_type = EventType, EventsLegal(r, body.payload),
           NEW v,
           v = Beyond(r, r.dictionary, WithEvents(r, body.payload), NumberAfter(r, body.payload))
    PROVE  Passes(r, v, file) /\ SoundSoFar(v)
<1> DEFINE n == r.expected_chunk_seq
           new == body.payload
           grown == WithEvents(r, new)
<1>1. /\ r \in Readers /\ n \in Nat /\ n >= 1 /\ r.offset \in Nat
      /\ r.file_len \in Nat /\ r.file_len <= Len(file) /\ Len(file) \in Nat
      /\ r.dictionary \in Dictionary
      /\ r.events \in Seq(Events) /\ Len(r.events) \in Nat /\ r.expected_event_seq \in Nat
  BY ReaderTypes, LenProperties DEF Covered, AtBoundary
<1>2. new \in Seq(Events)
  <2>1. 3 * n - 1 \in 1..Len(file)
    BY <1>1 DEF Ready
  <2>2. body = file[3 * n - 1].chunk
    BY DEF BodyAt
  <2>. QED BY <2>1, <2>2, CellTypes
<1>3. DOMAIN new = 1..Len(new) /\ Len(new) \in Nat
  BY <1>2, RangeTyped
<1>4. /\ grown \in Seq(Events)
      /\ Len(grown) = Len(r.events) + Len(new)
      /\ \A i \in 1..Len(r.events) : grown[i] = r.events[i]
      /\ \A i \in 1..(Len(r.events) + Len(new)) :
            \/ i \in 1..Len(r.events)
            \/ i - Len(r.events) \in 1..Len(new) /\ grown[i] = new[i - Len(r.events)]
      /\ RangeOf(grown) = RangeOf(r.events) \cup RangeOf(new)
  <2>1. r.events \in Seq(Events)
    BY <1>1
  <2> HIDE DEF new
  <2>. QED BY <1>2, <2>1, JoinRange DEF WithEvents
<1>5. /\ v \in Readers
      /\ v.pc = r.pc /\ v.torn_tail = r.torn_tail /\ v.file_len = r.file_len
      /\ v.offset = r.offset + 3 /\ v.expected_chunk_seq = n + 1
      /\ v.expected_event_seq = NumberAfter(r, new)
      /\ v.events = grown
      /\ v.dictionary = r.dictionary
  <2>1. NumberAfter(r, new) \in Nat
    BY <1>1, <1>3 DEF NumberAfter
  <2>2. r \in Readers /\ r.dictionary \in Dictionary /\ grown \in Seq(Events)
    BY <1>1, <1>4
  <2>. QED BY <2>1, <2>2, NextFields
<1>6. Passes(r, v, file)
  <2>1. \A x : ~Carries(file, n, DictType, x)
    BY DEF Carries, DictType, EventType
  <2>2. \A x : Carries(file, n, EventType, x) <=> x \in RangeOf(new)
    BY DEF Carries
  <2> HIDE DEF new, grown
  <2>. QED BY <1>4, <1>5, <2>1, <2>2 DEF Passes
<1>7. SoundSoFar(v)
  <2>1. /\ r.expected_event_seq = Len(r.events) + 1
        /\ \A i \in 1..Len(r.events) : r.events[i].event_sequence = i
        /\ \A i \in 1..Len(r.events) : RefsResolve(r.dictionary, r.events[i])
        /\ \A e, f \in r.dictionary.entries : Key(e) = Key(f) => e = f
    BY DEF Covered, SoundSoFar
  <2>2. ASSUME NEW i \in 1..Len(new)
        PROVE  /\ new[i].event_sequence = Len(r.events) + 1 + i - 1
               /\ RefsResolve(r.dictionary, new[i])
    BY <1>3, <2>1 DEF EventsLegal
  <2> HIDE DEF new, grown
  <2>3. ASSUME NEW i \in 1..Len(grown)
        PROVE  grown[i].event_sequence = i /\ RefsResolve(r.dictionary, grown[i])
    <3>1. CASE i \in 1..Len(r.events)
      BY <1>4, <2>1, <3>1
    <3>2. CASE i \notin 1..Len(r.events)
      <4>1. i - Len(r.events) \in 1..Len(new) /\ grown[i] = new[i - Len(r.events)]
        BY <1>4, <3>2
      <4>2. Len(r.events) \in Nat /\ i \in Nat
        BY <1>1, <1>3, <1>4
      <4>3. Len(r.events) + 1 + (i - Len(r.events)) - 1 = i
        BY <4>2, Shifted
      <4>. QED BY <2>2, <4>1, <4>3
    <3>. QED BY <3>1, <3>2
  <2>4. v.expected_event_seq = Len(grown) + 1
    <3>1. Len(grown) = Len(r.events) + Len(new)
      BY <1>4
    <3>2. v.expected_event_seq = r.expected_event_seq + Len(new)
      BY <1>5 DEF NumberAfter
    <3>3. Len(r.events) \in Nat /\ Len(new) \in Nat /\ r.expected_event_seq = Len(r.events) + 1
      BY <1>1, <1>3, <2>1
    <3> HIDE DEF grown, new
    <3>. QED BY <3>1, <3>2, <3>3
  <2>. QED BY <1>5, <2>1, <2>3, <2>4 DEF SoundSoFar
<1>. QED BY <1>6, <1>7

\* A chunk of a type this version does not know.
LEMMA PassesOther ==
    ASSUME NEW file, NEW r, Covered(r, file),
           TypeAt(file, r.expected_chunk_seq) \notin {DictType, EventType},
           NEW v, v = Beyond(r, r.dictionary, r.events, r.expected_event_seq)
    PROVE  Passes(r, v, file) /\ SoundSoFar(v)
<1>1. r \in Readers /\ r.expected_chunk_seq \in Nat /\ r.offset \in Nat
  BY ReaderTypes DEF Covered
<1>2. /\ v \in Readers
      /\ v.pc = r.pc /\ v.torn_tail = r.torn_tail /\ v.file_len = r.file_len
      /\ v.offset = r.offset + 3 /\ v.expected_chunk_seq = r.expected_chunk_seq + 1
      /\ v.expected_event_seq = r.expected_event_seq
      /\ v.events = r.events
      /\ v.dictionary = r.dictionary
  <2>1. /\ r.dictionary \in Dictionary /\ r.events \in Seq(Events)
        /\ r.expected_event_seq \in Nat
    BY <1>1, ReaderTypes
  <2> DEFINE d == r.dictionary
             evs == r.events
             m == r.expected_event_seq
  <2>2. v = Beyond(r, d, evs, m) /\ d \in Dictionary /\ evs \in Seq(Events) /\ m \in Nat
    BY <2>1
  <2> HIDE DEF d, evs, m
  <2>3. /\ v \in Readers
        /\ v.pc = r.pc /\ v.torn_tail = r.torn_tail /\ v.file_len = r.file_len
        /\ v.offset = r.offset + 3 /\ v.expected_chunk_seq = r.expected_chunk_seq + 1
        /\ v.expected_event_seq = m
        /\ v.events = evs
        /\ v.dictionary = d
    BY <1>1, <2>2, NextFields, SMTT(60)
  <2>. QED BY <2>3 DEF d, evs, m
<1>3. \A x : /\ ~Carries(file, r.expected_chunk_seq, EventType, x)
             /\ ~Carries(file, r.expected_chunk_seq, DictType, x)
  BY DEF Carries
<1>4. Passes(r, v, file)
  BY <1>2, <1>3 DEF Passes
<1>5. SoundSoFar(v)
  BY <1>2 DEF Covered, SoundSoFar
<1>. QED BY <1>4, <1>5

-----------------------------------------------------------------------------
(* One iteration of the loop *)

\* The reader with the chunk it stood at skipped over.
Skip(v) == [v EXCEPT !.offset = @ + 3, !.expected_chunk_seq = @ + 1]

LEMMA Boundaries ==
    ASSUME NEW n \in Nat, n >= 1, NEW off \in Nat, off = 3 * (n - 1),
           NEW flen \in Nat, NEW len \in Nat, flen - off >= 2, flen <= len
    PROVE  /\ off + 1 \in 1..len /\ off + 2 \in 1..len
           /\ off + 1 = 3 * n - 2 /\ off + 2 = 3 * n - 1 /\ off + 3 = 3 * n
OBVIOUS

\* The loop body rejects the file, ends the scan at a chunk that is not
\* committed within the length taken, or takes a committed chunk.
LEMMA ChunkCases ==
    ASSUME NEW file \in Seq(FileCells), NEW r, Covered(r, file), r.file_len - r.offset >= 2
    PROVE  \/ ReadChunk(r, file) = Fail(r)
           \/ ReadChunk(r, file) = Stop(r, TRUE) /\ ~Ready(r, file)
           \/ /\ Ready(r, file)
              /\ ReadChunk(r, file) = Skip(TakePayload(r, TypeAt(file, r.expected_chunk_seq),
                                                       BodyAt(file, r.expected_chunk_seq)))
<1> DEFINE n == r.expected_chunk_seq
           head == file[r.offset + 1]
           need == 2 + head.chunk.payload_len
           body == file[r.offset + 2]
           trail == file[r.offset + need]
           taken == TakePayload(r, head.chunk.chunk_type, body.chunk)
           len == head.chunk.payload_len
<1>1. /\ n \in Nat /\ n >= 1 /\ r.offset \in Nat /\ r.file_len \in Nat
      /\ r.offset = 3 * (n - 1)
      /\ r.file_len <= Len(file) /\ Len(file) \in Nat
  BY ReaderTypes, LenProperties DEF Covered, AtBoundary
<1>2. /\ r.offset + 1 \in 1..Len(file) /\ r.offset + 2 \in 1..Len(file)
      /\ r.offset + 1 = 3 * n - 2 /\ r.offset + 2 = 3 * n - 1 /\ r.offset + 3 = 3 * n
  BY <1>1, Boundaries
<1>3. len \in Nat /\ head = file[3 * n - 2] /\ body = file[3 * n - 1]
  BY <1>2, CellTypes
<1>4. len = 1 => trail = file[3 * n] /\ need = 3
  BY <1>2
<1>5. Committed(file, n) <=>
        /\ head.part = 1 /\ len = 1 /\ head.chunk.sequence = n
        /\ body.part = 2 /\ file[3 * n].part = 3
        /\ file[3 * n].chunk.payload = body.chunk.payload
  BY <1>3 DEF Committed
<1>6. ReadChunk(r, file) =
        IF head.part # 1 THEN IF r.offset = 0 THEN Fail(r) ELSE Stop(r, TRUE)
        ELSE IF need > r.file_len - r.offset THEN Stop(r, TRUE)
        ELSE IF len > 1 THEN Fail(r)
        ELSE IF trail.part # 3 THEN Stop(r, TRUE)
        ELSE IF body.part # 2 \/ trail.chunk.payload # body.chunk.payload THEN Fail(r)
        ELSE IF head.chunk.sequence # n THEN Fail(r)
        ELSE [taken EXCEPT !.offset = @ + need, !.expected_chunk_seq = @ + 1]
  BY DEF ReadChunk
<1>7. Ready(r, file) <=> 3 * n <= r.file_len /\ Committed(file, n)
  BY DEF Ready
<1>8. need = 2 + len
  OBVIOUS
<1>9. len = 0 => trail = body
  OBVIOUS
<1>10. taken = TakePayload(r, TypeAt(file, n), BodyAt(file, n))
  BY <1>3 DEF TypeAt, BodyAt
<1>11. Skip(taken) = [taken EXCEPT !.offset = @ + 3, !.expected_chunk_seq = @ + 1]
  BY DEF Skip
<1> HIDE DEF n, head, need, body, trail, taken, len
<1>12. CASE head.part # 1
  BY <1>5, <1>6, <1>7, <1>12
<1>13. CASE head.part = 1 /\ need > r.file_len - r.offset
  <2>1. ReadChunk(r, file) = Stop(r, TRUE)
    BY <1>6, <1>13
  <2>2. len = 1 => ~(3 * n <= r.file_len)
    BY <1>1, <1>2, <1>4, <1>13
  <2>. QED BY <1>5, <1>7, <2>1, <2>2
<1>14. CASE head.part = 1 /\ ~(need > r.file_len - r.offset) /\ len > 1
  BY <1>6, <1>14
<1>15. CASE /\ head.part = 1 /\ ~(need > r.file_len - r.offset)
            /\ ~(len > 1) /\ trail.part # 3
  <2>1. ReadChunk(r, file) = Stop(r, TRUE)
    BY <1>6, <1>15
  <2>. QED BY <1>4, <1>5, <1>7, <1>15, <2>1
<1>16. CASE /\ head.part = 1 /\ ~(need > r.file_len - r.offset)
            /\ ~(len > 1) /\ trail.part = 3
            /\ \/ body.part # 2 \/ trail.chunk.payload # body.chunk.payload
               \/ head.chunk.sequence # n
  BY <1>6, <1>16
<1>17. CASE /\ head.part = 1 /\ ~(need > r.file_len - r.offset)
            /\ ~(len > 1) /\ trail.part = 3
            /\ body.part = 2 /\ trail.chunk.payload = body.chunk.payload
            /\ head.chunk.sequence = n
  <2>1. len = 1
    <3>1. len = 0 \/ len = 1
      BY <1>3, <1>17
    <3>2. len = 0 => trail.part = body.part
      BY <1>9
    <3>3. trail.part # body.part
      BY <1>17
    <3>. QED BY <3>1, <3>2, <3>3
  <2>2. 3 * n <= r.file_len /\ need = 3
    BY <1>1, <1>2, <1>4, <1>17, <2>1, SMTT(60)
  <2>3. Committed(file, n)
    BY <1>4, <1>5, <1>17, <2>1
  <2>4. ReadChunk(r, file) = Skip(taken)
    BY <1>6, <1>11, <1>17, <2>2
  <2>. QED BY <1>7, <1>10, <2>2, <2>3, <2>4 DEF n
<1>. QED BY <1>12, <1>13, <1>14, <1>15, <1>16, <1>17

\* A committed chunk is taken whole, or the file is rejected.
LEMMA TakeCases ==
    ASSUME NEW file \in Seq(FileCells), NEW r, Covered(r, file), Ready(r, file),
           NEW v, v = TakePayload(r, TypeAt(file, r.expected_chunk_seq),
                                  BodyAt(file, r.expected_chunk_seq))
    PROVE  \/ v = Fail(r)
           \/ Passes(r, Skip(v), file) /\ SoundSoFar(Skip(v))
<1> DEFINE type == TypeAt(file, r.expected_chunk_seq)
           body == BodyAt(file, r.expected_chunk_seq)
<1>1. r \in Readers
  BY DEF Covered
<1>2. CASE type = DictType /\ body.chunk_type = DictType /\ EntriesLegal(r.dictionary, body.payload)
  <2>1. v = [r EXCEPT !.dictionary.entries = @ \cup RangeOf(body.payload)]
    BY <1>2 DEF TakePayload, DictType, EventType
  <2>2. Skip(v) = Beyond(r, WithEntries(r, body.payload), r.events, r.expected_event_seq)
    BY <1>1, <2>1 DEF Skip, Beyond, WithEntries, Readers
  <2>. QED BY <1>2, <2>2, PassesDict
<1>3. CASE type = EventType /\ body.chunk_type = EventType /\ EventsLegal(r, body.payload)
  <2>1. v = [r EXCEPT !.events = @ \o body.payload,
                      !.expected_event_seq = @ + Len(body.payload)]
    BY <1>3 DEF TakePayload, DictType, EventType
  <2>2. Skip(v) = Beyond(r, r.dictionary, WithEvents(r, body.payload), NumberAfter(r, body.payload))
    BY <1>1, <2>1 DEF Skip, Beyond, WithEvents, NumberAfter, Readers
  <2>. QED BY <1>3, <2>2, PassesEvents
<1>4. CASE type \notin {DictType, EventType}
  <2>1. v = r
    BY <1>4 DEF TakePayload
  <2>2. Skip(v) = Beyond(r, r.dictionary, r.events, r.expected_event_seq)
    BY <1>1, <2>1 DEF Skip, Beyond, Readers
  <2>. QED BY <1>4, <2>2, PassesOther
<1>5. CASE /\ ~(type = DictType /\ body.chunk_type = DictType /\ EntriesLegal(r.dictionary, body.payload))
           /\ ~(type = EventType /\ body.chunk_type = EventType /\ EventsLegal(r, body.payload))
           /\ ~(type \notin {DictType, EventType})
  BY <1>5 DEF TakePayload
<1>. QED BY <1>2, <1>3, <1>4, <1>5

\* A reader that has failed, at the loop iteration before: the chunk it
\* failed at may have been counted or not.
Before(v) == {[v EXCEPT !.pc = "scan"],
              [v EXCEPT !.pc = "scan", !.offset = @ - 3, !.expected_chunk_seq = @ - 1]}

\* One iteration of the loop of SessionReader::open, on any file.
LEMMA StepCases ==
    ASSUME NEW file \in Seq(FileCells), NEW r, Scanning(r, file), NEW v, v = ReadStep(r, file)
    PROVE  \/ /\ Finished(v, file) /\ ~Ready(r, file)
              /\ v.file_len = r.file_len /\ v.expected_chunk_seq = r.expected_chunk_seq
              /\ v.events = r.events /\ v.dictionary = r.dictionary
           \/ v.pc = "error" /\ v \in Readers /\ r \in Before(v)
           \/ Scanning(v, file) /\ Ready(r, file) /\ Passes(r, v, file)
<1>1. /\ r \in Readers /\ r.pc = "scan" /\ r.torn_tail = FALSE
      /\ Covered(r, file) /\ AtBoundary(r, file) /\ HasGathered(r, file) /\ SoundSoFar(r)
  BY DEF Scanning, Covered
<1>2. /\ r.offset \in Nat /\ r.file_len \in Nat /\ r.offset <= r.file_len
      /\ r.expected_chunk_seq \in Nat /\ r.expected_chunk_seq >= 1
      /\ r.offset = 3 * (r.expected_chunk_seq - 1)
  BY <1>1, ReaderTypes DEF AtBoundary
<1>3. ASSUME NEW torn \in BOOLEAN, v = Stop(r, torn), torn <=> r.offset < r.file_len
      PROVE  /\ Finished(v, file)
             /\ v.file_len = r.file_len /\ v.expected_chunk_seq = r.expected_chunk_seq
             /\ v.events = r.events /\ v.dictionary = r.dictionary
  <2>1. v \in Readers /\ v.pc = "done" /\ v.torn_tail = torn
    BY <1>1, <1>3 DEF Stop, Readers
  <2>2. /\ v.file_len = r.file_len /\ v.offset = r.offset
        /\ v.expected_chunk_seq = r.expected_chunk_seq
    BY <1>1, <1>3 DEF Stop, Readers
  <2>3. /\ v.expected_event_seq = r.expected_event_seq
        /\ v.events = r.events /\ v.dictionary = r.dictionary
    BY <1>1, <1>3 DEF Stop, Readers
  <2>4. AtBoundary(v, file)
    BY <1>1, <2>2 DEF AtBoundary
  <2>5. HasGathered(v, file)
    BY <1>1, <2>2, <2>3 DEF HasGathered
  <2>6. SoundSoFar(v)
    BY <1>1, <2>3 DEF SoundSoFar
  <2>7. Covered(v, file)
    BY <2>1, <2>4, <2>5, <2>6 DEF Covered
  <2>8. v.torn_tail <=> v.offset < v.file_len
    BY <1>3, <2>1, <2>2
  <2>. QED BY <2>1, <2>2, <2>3, <2>7, <2>8 DEF Finished
<1>4. CASE ~(r.file_len - r.offset >= 2)
  <2>1. v = Stop(r, r.file_len > r.offset)
    BY <1>4 DEF ReadStep
  <2>2. ~(3 * r.expected_chunk_seq <= r.file_len)
    BY <1>2, <1>4
  <2>3. ~Ready(r, file)
    BY <2>2 DEF Ready
  <2>4. (r.file_len > r.offset) \in BOOLEAN /\ ((r.file_len > r.offset) <=> r.offset < r.file_len)
    BY <1>2
  <2>. QED BY <1>3, <2>1, <2>3, <2>4
<1>5. CASE r.file_len - r.offset >= 2
  <2>1. v = ReadChunk(r, file)
    BY <1>5 DEF ReadStep
  <2>2. CASE v = Fail(r)
    <3>1. v.pc = "error" /\ v \in Readers
      BY <1>1, <2>2 DEF Fail, Readers
    <3>2. r = [v EXCEPT !.pc = "scan"]
      BY <1>1, <2>2 DEF Fail, Readers
    <3>. QED BY <3>1, <3>2 DEF Before
  <2>3. CASE v = Stop(r, TRUE) /\ ~Ready(r, file)
    <3>1. r.offset < r.file_len
      BY <1>2, <1>5
    <3>. QED BY <1>3, <2>3, <3>1
  <2>4. ASSUME NEW t, t = TakePayload(r, TypeAt(file, r.expected_chunk_seq),
                                        BodyAt(file, r.expected_chunk_seq)),
               Ready(r, file), v = Skip(t), t = Fail(r)
        PROVE  v.pc = "error" /\ v \in Readers /\ r \in Before(v)
    <3>1. v = [r EXCEPT !.pc = "error", !.offset = r.offset + 3,
                        !.expected_chunk_seq = r.expected_chunk_seq + 1]
      BY <1>1, <2>4 DEF Skip, Fail, Readers
    <3>2. r.offset + 3 \in Nat /\ r.expected_chunk_seq + 1 \in Nat
      BY <1>2
    <3>3. v.pc = "error" /\ v \in Readers
      BY <1>1, <3>1, <3>2 DEF Readers
    <3>4. v.offset - 3 = r.offset /\ v.expected_chunk_seq - 1 = r.expected_chunk_seq
      BY <1>1, <1>2, <3>1 DEF Readers
    <3>5. r = [v EXCEPT !.pc = "scan", !.offset = @ - 3, !.expected_chunk_seq = @ - 1]
      BY <1>1, <3>1, <3>4 DEF Readers
    <3>. QED BY <3>3, <3>5 DEF Before
  <2>5. ASSUME NEW t, t = TakePayload(r, TypeAt(file, r.expected_chunk_seq),
                                        BodyAt(file, r.expected_chunk_seq)),
               Ready(r, file), v = Skip(t), Passes(r, v, file), SoundSoFar(v)
        PROVE  Scanning(v, file) /\ Ready(r, file) /\ Passes(r, v, file)
    <3>1. Covered(v, file)
      BY <1>1, <2>5, PassesCovers
    <3>2. v.pc = "scan" /\ v.torn_tail = FALSE
      BY <1>1, <2>5 DEF Passes
    <3>. QED BY <2>5, <3>1, <3>2 DEF Scanning
  <2>6. CASE /\ Ready(r, file)
             /\ v = Skip(TakePayload(r, TypeAt(file, r.expected_chunk_seq),
                                      BodyAt(file, r.expected_chunk_seq)))
    BY <1>1, <2>4, <2>5, <2>6, TakeCases
  <2>. QED BY <1>1, <1>5, <2>1, <2>2, <2>3, <2>6, ChunkCases
<1>. QED BY <1>4, <1>5

-----------------------------------------------------------------------------
(* Two readers of one file *)

\* A reader that has passed at least as many chunks has gathered at least as
\* much, and its events continue the other's.
LEMMA FartherReader ==
    ASSUME NEW file, NEW r, NEW v, Covered(r, file), Covered(v, file),
           r.expected_chunk_seq <= v.expected_chunk_seq
    PROVE  /\ r.dictionary.entries \subseteq v.dictionary.entries
           /\ Len(r.events) <= Len(v.events)
           /\ \A i \in 1..Len(r.events) : r.events[i] = v.events[i]
<1>1. /\ r \in Readers /\ v \in Readers
      /\ HasGathered(r, file) /\ HasGathered(v, file) /\ SoundSoFar(r) /\ SoundSoFar(v)
  BY DEF Covered
<1>2. /\ r.expected_chunk_seq \in Nat /\ v.expected_chunk_seq \in Nat
      /\ r.events \in Seq(Events) /\ v.events \in Seq(Events)
      /\ Len(r.events) \in Nat /\ Len(v.events) \in Nat
      /\ r.dictionary.entries \subseteq DictEntry
  BY <1>1, ReaderTypes
<1>3. \A k \in 1..(r.expected_chunk_seq - 1) : k \in 1..(v.expected_chunk_seq - 1)
  BY <1>2
<1>4. /\ RangeOf(r.events) \subseteq Events
      /\ DOMAIN r.events = 1..Len(r.events) /\ DOMAIN v.events = 1..Len(v.events)
  BY <1>2, RangeTyped
<1>5. RangeOf(r.events) \subseteq RangeOf(v.events)
  BY <1>1, <1>3, <1>4 DEF HasGathered
<1>6. r.dictionary.entries \subseteq v.dictionary.entries
  BY <1>1, <1>2, <1>3 DEF HasGathered
<1>7. ASSUME NEW i \in 1..Len(r.events)
      PROVE  i \in 1..Len(v.events) /\ r.events[i] = v.events[i]
  <2>1. r.events[i] \in RangeOf(v.events)
    BY <1>4, <1>5 DEF RangeOf
  <2>2. PICK j \in 1..Len(v.events) : r.events[i] = v.events[j]
    BY <1>4, <2>1 DEF RangeOf
  <2>3. r.events[i].event_sequence = i /\ v.events[j].event_sequence = j
    BY <1>1 DEF SoundSoFar
  <2>. QED BY <2>2, <2>3
<1>8. Len(r.events) <= Len(v.events)
  <2>1. CASE Len(r.events) = 0
    BY <1>2, <2>1
  <2>2. CASE Len(r.events) # 0
    <3>1. Len(r.events) \in 1..Len(r.events)
      BY <1>2, <2>2
    <3>2. Len(r.events) \in 1..Len(v.events)
      BY <1>7, <3>1
    <3>. QED BY <1>2, <3>2
  <2>. QED BY <2>1, <2>2
<1>. QED BY <1>6, <1>7, <1>8

LEMMA TakeAgain ==
    ASSUME NEW b, NEW l, NEW type, NEW body, b.pc = "scan", l \in Readers, b \in Readers,
           b.dictionary.entries = l.dictionary.entries,
           b.expected_event_seq = l.expected_event_seq,
           TakePayload(b, type, body).pc = "error"
    PROVE  TakePayload(l, type, body) = Fail(l)
<1>1. Keys(b.dictionary) = Keys(l.dictionary)
  BY DEF Keys
<1>2. \A x : CanInsert(b.dictionary, x) <=> CanInsert(l.dictionary, x)
  BY <1>1 DEF CanInsert, Require
<1>3. \A s : EntriesLegal(b.dictionary, s) <=> EntriesLegal(l.dictionary, s)
  BY <1>2 DEF EntriesLegal
<1>4. \A x : RefsResolve(b.dictionary, x) <=> RefsResolve(l.dictionary, x)
  BY <1>1 DEF RefsResolve
<1>5. \A s : EventsLegal(b, s) <=> EventsLegal(l, s)
  BY <1>4 DEF EventsLegal
<1>6. ~(type = DictType /\ body.chunk_type = DictType /\ EntriesLegal(b.dictionary, body.payload))
  <2>1. SUFFICES ASSUME type = DictType /\ body.chunk_type = DictType /\ EntriesLegal(b.dictionary, body.payload)
                 PROVE  FALSE
    OBVIOUS
  <2>2. TakePayload(b, type, body) = [b EXCEPT !.dictionary.entries = @ \cup RangeOf(body.payload)]
    BY <2>1 DEF TakePayload, DictType, EventType
  <2>3. TakePayload(b, type, body).pc = "scan"
    BY <2>2 DEF Readers
  <2>. QED BY <2>3
<1>7. ~(type = EventType /\ body.chunk_type = EventType /\ EventsLegal(b, body.payload))
  <2>1. SUFFICES ASSUME type = EventType /\ body.chunk_type = EventType /\ EventsLegal(b, body.payload)
                 PROVE  FALSE
    OBVIOUS
  <2>2. TakePayload(b, type, body) = [b EXCEPT !.events = @ \o body.payload,
                                               !.expected_event_seq = @ + Len(body.payload)]
    BY <2>1 DEF TakePayload, DictType, EventType
  <2>3. TakePayload(b, type, body).pc = "scan"
    BY <2>2 DEF Readers
  <2>. QED BY <2>3
<1>8. ~(type \notin {DictType, EventType})
  BY DEF TakePayload, DictType, EventType
<1>9. /\ ~(type = DictType /\ body.chunk_type = DictType /\ EntriesLegal(l.dictionary, body.payload))
      /\ ~(type = EventType /\ body.chunk_type = EventType /\ EventsLegal(l, body.payload))
  BY <1>3, <1>5, <1>6, <1>7
<1>. QED BY <1>8, <1>9 DEF TakePayload

LEMMA LessLeft ==
    ASSUME NEW x \in Nat, NEW a \in Nat, NEW c \in Nat, NEW o \in Nat, a <= c, x > c - o
    PROVE  x > a - o
OBVIOUS

\* A file one reader rejects at a chunk is rejected there by every reader
\* that sees at least as much of it.
LEMMA RejectedAgain ==
    ASSUME NEW file \in Seq(FileCells), NEW b, NEW l, Scanning(b, file), Scanning(l, file),
           b.expected_chunk_seq = l.expected_chunk_seq, b.file_len <= l.file_len,
           ReadStep(b, file).pc = "error"
    PROVE  ReadStep(l, file).pc = "error"
<1> DEFINE n == b.expected_chunk_seq
           off == b.offset
           head == file[off + 1]
           need == 2 + head.chunk.payload_len
           body == file[off + 2]
           trail == file[off + need]
           len == head.chunk.payload_len
           type == head.chunk.chunk_type
<1>1. /\ Covered(b, file) /\ Covered(l, file) /\ b.pc = "scan" /\ l.pc = "scan"
      /\ b \in Readers /\ l \in Readers
  BY DEF Scanning, Covered
<1>2. /\ b.offset = l.offset /\ b.offset \in Nat
      /\ b.file_len \in Nat /\ l.file_len \in Nat /\ b.file_len <= l.file_len
      /\ b.file_len <= Len(file) /\ Len(file) \in Nat
  <2>1. b.offset = 3 * (n - 1) /\ l.offset = 3 * (n - 1) /\ b.file_len <= Len(file)
    BY <1>1 DEF Covered, AtBoundary
  <2>. QED BY <1>1, <2>1, ReaderTypes, LenProperties
<1>3. b.dictionary.entries = l.dictionary.entries
  <2>1. n <= n /\ n \in Nat
    BY <1>1, ReaderTypes
  <2>2. b.dictionary.entries \subseteq l.dictionary.entries
    BY <1>1, <2>1, FartherReader
  <2>3. l.dictionary.entries \subseteq b.dictionary.entries
    BY <1>1, <2>1, FartherReader
  <2>. QED BY <2>2, <2>3
<1>4. b.expected_event_seq = l.expected_event_seq
  <2>1. n <= n /\ n \in Nat
    BY <1>1, ReaderTypes
  <2>2. Len(b.events) <= Len(l.events)
    BY <1>1, <2>1, FartherReader
  <2>3. Len(l.events) <= Len(b.events)
    BY <1>1, <2>1, FartherReader
  <2>4. Len(b.events) \in Nat /\ Len(l.events) \in Nat
    BY <1>1, ReaderTypes
  <2>5. b.expected_event_seq = Len(b.events) + 1 /\ l.expected_event_seq = Len(l.events) + 1
    BY <1>1 DEF Covered, SoundSoFar
  <2>. QED BY <2>2, <2>3, <2>4, <2>5
<1>5. ASSUME NEW torn PROVE Stop(b, torn).pc # "error"
  BY <1>1 DEF Stop, Readers
<1>6. b.file_len - off >= 2
  BY <1>5 DEF ReadStep
<1>7. l.file_len - off >= 2
  BY <1>2, <1>6
<1>8. ReadStep(b, file) = ReadChunk(b, file) /\ ReadStep(l, file) = ReadChunk(l, file)
  BY <1>2, <1>6, <1>7 DEF ReadStep
<1> DEFINE went(x) == [TakePayload(x, type, body.chunk) EXCEPT !.offset = @ + need, !.expected_chunk_seq = @ + 1]
<1>9. ReadChunk(b, file) =
        IF head.part # 1 THEN IF off = 0 THEN Fail(b) ELSE Stop(b, TRUE)
        ELSE IF need > b.file_len - off THEN Stop(b, TRUE)
        ELSE IF len > 1 THEN Fail(b)
        ELSE IF trail.part # 3 THEN Stop(b, TRUE)
        ELSE IF body.part # 2 \/ trail.chunk.payload # body.chunk.payload THEN Fail(b)
        ELSE IF head.chunk.sequence # n THEN Fail(b)
        ELSE went(b)
  BY DEF ReadChunk
<1>10. ReadChunk(l, file) =
        IF head.part # 1 THEN IF off = 0 THEN Fail(l) ELSE Stop(l, TRUE)
        ELSE IF need > l.file_len - off THEN Stop(l, TRUE)
        ELSE IF len > 1 THEN Fail(l)
        ELSE IF trail.part # 3 THEN Stop(l, TRUE)
        ELSE IF body.part # 2 \/ trail.chunk.payload # body.chunk.payload THEN Fail(l)
        ELSE IF head.chunk.sequence # n THEN Fail(l)
        ELSE went(l)
  BY <1>2 DEF ReadChunk
<1>11. Fail(l).pc = "error"
  BY <1>1 DEF Fail, Readers
<1>12. len \in Nat /\ need \in Nat
  <2>1. off + 1 \in 1..Len(file)
    BY <1>2, <1>6
  <2>. QED BY <2>1, CellTypes
<1>13. went(b).pc = "error" => went(l).pc = "error"
  <2>1. went(b).pc = TakePayload(b, type, body.chunk).pc
    OBVIOUS
  <2>2. Fail(l) \in Readers
    BY <1>1 DEF Fail, Readers
  <2>3. TakePayload(l, type, body.chunk) = Fail(l) => went(l).pc = "error"
    BY <1>11, <2>2 DEF Readers
  <2>. QED BY <1>1, <1>3, <1>4, <2>1, <2>3, TakeAgain
<1>14. need > l.file_len - off => need > b.file_len - off
  BY <1>2, <1>12, LessLeft
<1> HIDE DEF n, off, head, need, body, trail, len, type, went
<1>15. /\ ~(head.part # 1 /\ off # 0)
       /\ head.part = 1 => ~(need > b.file_len - off)
  BY <1>5, <1>8, <1>9
<1>16. CASE head.part # 1
  BY <1>8, <1>10, <1>11, <1>15, <1>16
<1>17. CASE head.part = 1 /\ len > 1
  BY <1>8, <1>10, <1>11, <1>14, <1>15, <1>17
<1>18. CASE head.part = 1 /\ ~(len > 1)
  <2>1. trail.part = 3
    BY <1>5, <1>8, <1>9, <1>15, <1>18
  <2>2. CASE body.part # 2 \/ trail.chunk.payload # body.chunk.payload
    BY <1>8, <1>10, <1>11, <1>14, <1>15, <1>18, <2>1, <2>2
  <2>3. CASE head.chunk.sequence # n
    BY <1>8, <1>10, <1>11, <1>14, <1>15, <1>18, <2>1, <2>3
  <2>4. CASE /\ ~(body.part # 2 \/ trail.chunk.payload # body.chunk.payload)
             /\ head.chunk.sequence = n
    <3>1. ReadChunk(b, file) = went(b)
      BY <1>9, <1>15, <1>18, <2>1, <2>4
    <3>2. ReadChunk(l, file) = went(l)
      BY <1>10, <1>14, <1>15, <1>18, <2>1, <2>4
    <3>. QED BY <1>8, <1>13, <3>1, <3>2
  <2>. QED BY <2>2, <2>3, <2>4
<1>. QED BY <1>16, <1>17, <1>18
=============================================================================
