--------------------------- MODULE DtjCodecProofs ---------------------------
(***************************************************************************)
(* Proofs about DtjCodec, for every list of entries and fields and every   *)
(* limit the types of the code allow: what crates/dtj encodes it decodes   *)
(* to the same records, and no proper prefix of an encoding decodes.       *)
(***************************************************************************)
EXTENDS DtjCodec, Integers, SequenceTheorems, NaturalsInduction, WellFoundedInduction, TLAPS

-----------------------------------------------------------------------------
(* Sequences and induction up to a bound *)

\* A concatenation is its first part and, behind it, its second.
LEMMA Joined ==
    ASSUME NEW S, NEW x \in Seq(S), NEW y \in Seq(S)
    PROVE  /\ x \o y \in Seq(S)
           /\ Len(x) \in Nat /\ Len(y) \in Nat
           /\ Len(x \o y) = Len(x) + Len(y)
           /\ \A i \in 1..Len(x) : (x \o y)[i] = x[i]
           /\ \A i \in 1..Len(y) : (x \o y)[Len(x) + i] = y[i]
  <1>1. Len(x) \in Nat /\ Len(y) \in Nat
    BY LenProperties
  <1>2. /\ x \o y \in Seq(S)
        /\ Len(x \o y) = Len(x) + Len(y)
        /\ \A i \in 1..(Len(x) + Len(y)) :
              (x \o y)[i] = IF i <= Len(x) THEN x[i] ELSE y[i - Len(x)]
    BY ConcatProperties
  <1> QED
    BY <1>1, <1>2

\* A set of numbers that holds 0 and with each number below n the next one
\* holds all of them up to n.
LEMMA UpTo ==
    ASSUME NEW n \in Nat, NEW T, 0 \in T, \A m \in 0..(n - 1) : m \in T => m + 1 \in T
    PROVE  \A m \in 0..n : m \in T
  <1> DEFINE B == {m \in 0..n : m \notin T}
  <1>1. SUFFICES ASSUME B # {} PROVE FALSE
    OBVIOUS
  <1>2. B \subseteq Nat
    OBVIOUS
  <1>3. \E x \in B : \A y \in B : ~(<<y, x>> \in OpToRel(<, Nat))
    BY <1>1, <1>2, NatLessThanWellFounded, WFMin
  <1>4. PICK x \in B : \A y \in B : ~(y < x)
    BY <1>2, <1>3 DEF OpToRel
  <1>5. x \in Nat /\ x # 0 /\ x <= n /\ x \notin T
    OBVIOUS
  <1>6. x - 1 \in T
    BY <1>4, <1>5
  <1> QED
    BY <1>5, <1>6

-----------------------------------------------------------------------------
(* Numbers as bytes *)

\* Quotient and remainder by 256 of a number of two bytes.
LEMMA Halves ==
    ASSUME NEW n \in Word16
    PROVE  \E q, r \in Byte : n \div 256 = q /\ n % 256 = r /\ n = r + 256 * q
  <1> DEFINE q == n \div 256  r == n % 256
  <1>0. n \in Nat /\ n < 65536
    BY DEF Word16
  <1>1. q >= 0
    BY <1>0
  <1>2. q < 256
    BY <1>0
  <1>3. q \in Int
    BY <1>0
  <1>4. r = n - 256 * q
    BY <1>0
  <1>5. r \in Nat /\ r < 256
    BY <1>0
  <1> HIDE DEF q, r
  <1>6. q \in Byte /\ r \in Byte /\ n = r + 256 * q
    BY <1>0, <1>1, <1>2, <1>3, <1>4, <1>5 DEF Byte
  <1> QED
    BY <1>6 DEF q, r

LEMMA Small ==
    ASSUME NEW n \in Byte
    PROVE  n % 256 = n
  BY DEF Byte

\* Quotient and remainder by 65536 of a number of four bytes.
LEMMA FourBytes ==
    ASSUME NEW n \in Word32
    PROVE  \E q, r \in Word16 : n \div 65536 = q /\ n % 65536 = r /\ n = r + 65536 * q
  <1> DEFINE q == n \div 65536  r == n % 65536
  <1>0. n \in Nat
    BY DEF Word32
  <1>1. q >= 0
    BY <1>0
  <1>2. q < 65536
    BY DEF Word32
  <1>3. q \in Int
    BY <1>0
  <1>4. r = n - 65536 * q
    BY <1>0
  <1>5. r \in Nat /\ r < 65536
    BY <1>0
  <1> HIDE DEF q, r
  <1>6. q \in Word16 /\ r \in Word16 /\ n = r + 65536 * q
    BY <1>0, <1>1, <1>2, <1>3, <1>4, <1>5 DEF Word16
  <1> QED
    BY <1>6 DEF q, r

\* A number of two bytes is a number of four bytes, and so is a smaller one.
LEMMA SmallWord ==
    ASSUME NEW m \in Word16, NEW n \in Nat, n <= m
    PROVE  n \in Word32
  <1>1. n < 65536
    BY DEF Word16
  <1>2. n \div 65536 = 0
    BY <1>1
  <1> QED
    BY <1>2 DEF Word32

LEMMA LessWord ==
    ASSUME NEW m \in Word32, NEW n \in Nat, n <= m
    PROVE  n \in Word32
  <1>1. PICK q, r \in Word16 : m \div 65536 = q /\ m % 65536 = r /\ m = r + 65536 * q
    BY FourBytes
  <1>2. n < 65536 * 65536
    BY <1>1 DEF Word16
  <1>3. n \div 65536 < 65536
    BY <1>2
  <1> QED
    BY <1>3 DEF Word32

\* The two and the four bytes of a number, one by one.
LEMMA LE2Bytes ==
    ASSUME NEW n \in Word16
    PROVE  /\ LE2(n) \in Seq(Byte) /\ Len(LE2(n)) = 2
           /\ LE2(n)[1] + 256 * LE2(n)[2] = n
  <1>1. PICK q, r \in Byte : n \div 256 = q /\ n % 256 = r /\ n = r + 256 * q
    BY Halves
  <1>2. LE2(n) = <<r, q>>
    BY <1>1, Small DEF LE2
  <1>3. <<r, q>> \in Seq(Byte) /\ Len(<<r, q>>) = 2 /\ <<r, q>>[1] = r /\ <<r, q>>[2] = q
    OBVIOUS
  <1>4. r \in Nat /\ q \in Nat
    BY DEF Byte
  <1> QED
    BY <1>1, <1>2, <1>3, <1>4, ZenonT(90)

LEMMA LE4Bytes ==
    ASSUME NEW n \in Word32
    PROVE  /\ LE4(n) \in Seq(Byte) /\ Len(LE4(n)) = 4
           /\ (LE4(n)[1] + 256 * LE4(n)[2]) + 65536 * (LE4(n)[3] + 256 * LE4(n)[4]) = n
  <1>1. PICK q, r \in Word16 : n \div 65536 = q /\ n % 65536 = r /\ n = r + 65536 * q
    BY FourBytes
  <1>2. LE4(n) = LE2(n % 65536) \o LE2(n \div 65536)
    BY DEF LE4
  <1>3. LE2(n % 65536) = LE2(r) /\ LE2(n \div 65536) = LE2(q)
    BY <1>1
  <1> DEFINE lo == LE2(r)  hi == LE2(q)
  <1>4. /\ lo \in Seq(Byte) /\ Len(lo) = 2 /\ lo[1] + 256 * lo[2] = r
        /\ hi \in Seq(Byte) /\ Len(hi) = 2 /\ hi[1] + 256 * hi[2] = q
    BY LE2Bytes
  <1>5. LE4(n) = lo \o hi
    BY <1>2, <1>3
  <1> HIDE DEF lo, hi
  <1>6. /\ lo \o hi \in Seq(Byte) /\ Len(lo \o hi) = Len(lo) + Len(hi)
        /\ \A i \in 1..Len(lo) : (lo \o hi)[i] = lo[i]
        /\ \A i \in 1..Len(hi) : (lo \o hi)[Len(lo) + i] = hi[i]
    <2>1. lo \in Seq(Byte) /\ hi \in Seq(Byte)
      BY <1>4
    <2> QED
      BY <2>1, Joined
  <1>7. /\ Len(lo \o hi) = 4 /\ (lo \o hi)[1] = lo[1] /\ (lo \o hi)[2] = lo[2]
        /\ (lo \o hi)[2 + 1] = hi[1] /\ (lo \o hi)[2 + 2] = hi[2]
    BY <1>4, <1>6
  <1>8. (lo \o hi)[3] = hi[1] /\ (lo \o hi)[4] = hi[2]
    BY <1>7
  <1>9. (lo[1] + 256 * lo[2]) + 65536 * (hi[1] + 256 * hi[2]) = n
    <2>1. r \in Nat /\ q \in Nat
      BY DEF Word16
    <2> QED
      BY <1>1, <1>4, <2>1
  <1> QED
    BY <1>5, <1>6, <1>7, <1>8, <1>9

-----------------------------------------------------------------------------
(* What a buffer holds at an offset *)

\* As far as the buffer goes, p stands in it from offset off on.
Holds(b, off, p) == \A j \in 1..Len(p) : off + j <= Len(b) => b[off + j] = p[j]

\* A buffer that holds two parts behind each other holds each of them.
LEMMA HoldsParts ==
    ASSUME NEW b \in Seq(Byte), NEW off \in Nat, NEW x \in Seq(Byte), NEW y \in Seq(Byte),
           Holds(b, off, x \o y)
    PROVE  Holds(b, off, x) /\ Holds(b, off + Len(x), y)
  <1>1. /\ Len(x) \in Nat /\ Len(y) \in Nat /\ Len(b) \in Nat
        /\ Len(x \o y) = Len(x) + Len(y)
        /\ \A i \in 1..Len(x) : (x \o y)[i] = x[i]
        /\ \A i \in 1..Len(y) : (x \o y)[Len(x) + i] = y[i]
    BY Joined, LenProperties
  <1>2. ASSUME NEW j \in 1..Len(x), off + j <= Len(b) PROVE b[off + j] = x[j]
    <2>1. j \in 1..Len(x \o y)
      BY <1>1
    <2> QED
      BY <1>1, <1>2, <2>1 DEF Holds
  <1>3. ASSUME NEW j \in 1..Len(y), (off + Len(x)) + j <= Len(b) PROVE b[(off + Len(x)) + j] = y[j]
    <2>1. Len(x) + j \in 1..Len(x \o y) /\ off + (Len(x) + j) = (off + Len(x)) + j
      BY <1>1
    <2>2. b[off + (Len(x) + j)] = (x \o y)[Len(x) + j]
      BY <1>3, <2>1 DEF Holds
    <2> QED
      BY <1>1, <2>1, <2>2
  <1> QED
    BY <1>2, <1>3 DEF Holds

\* Reading back two bytes, four bytes and a slice.
LEMMA Read16 ==
    ASSUME NEW b \in Seq(Byte), NEW off \in Nat, NEW n \in Word16,
           Holds(b, off, LE2(n)), off + 2 <= Len(b)
    PROVE  U16(b, off) = n
  <1>1. b[off + 1] = LE2(n)[1] /\ b[off + 2] = LE2(n)[2]
    BY LE2Bytes, LenProperties DEF Holds
  <1> QED
    BY <1>1, LE2Bytes DEF U16

LEMMA Read32 ==
    ASSUME NEW b \in Seq(Byte), NEW off \in Nat, NEW n \in Word32,
           Holds(b, off, LE4(n)), off + 4 <= Len(b)
    PROVE  U32(b, off) = n
  <1> DEFINE l == LE4(n)
  <1>1. /\ Len(l) = 4 /\ (l[1] + 256 * l[2]) + 65536 * (l[3] + 256 * l[4]) = n
        /\ Len(b) \in Nat
    BY LE4Bytes, LenProperties
  <1>2. Holds(b, off, l)
    OBVIOUS
  <1> HIDE DEF l
  <1>3. b[off + 1] = l[1] /\ b[off + 2] = l[2] /\ b[off + 3] = l[3] /\ b[off + 4] = l[4]
    BY <1>1, <1>2 DEF Holds
  <1>4. (off + 2) + 1 = off + 3 /\ (off + 2) + 2 = off + 4
    OBVIOUS
  <1> QED
    BY <1>1, <1>3, <1>4 DEF U16, U32

LEMMA ReadSlice ==
    ASSUME NEW b \in Seq(Byte), NEW off \in Nat, NEW p \in Seq(Byte),
           Holds(b, off, p), off + Len(p) <= Len(b)
    PROVE  Slice(b, off, Len(p)) = p
  <1> DEFINE q == SubSeq(b, off + 1, off + Len(p))
  <1>1. Len(b) \in Nat /\ Len(p) \in Nat /\ DOMAIN b = 1..Len(b) /\ \A i \in 1..Len(b) : b[i] \in Byte
    BY LenProperties
  <1>2. \A i \in (off + 1)..(off + Len(p)) : b[i] \in Byte
    BY <1>1
  <1>3. off + 1 \in Int /\ off + Len(p) \in Int
    BY <1>1
  <1>4. /\ q \in Seq(Byte)
        /\ Len(q) = IF off + 1 <= off + Len(p) THEN (off + Len(p)) - (off + 1) + 1 ELSE 0
        /\ \A i \in 1..((off + Len(p)) - (off + 1) + 1) : q[i] = b[(off + 1) + i - 1]
    BY <1>2, <1>3, SubSeqProperties
  <1> HIDE DEF q
  <1>5. Len(q) = Len(p)
    BY <1>1, <1>4
  <1>6. ASSUME NEW i \in 1..Len(p) PROVE q[i] = p[i]
    <2>1. i \in 1..((off + Len(p)) - (off + 1) + 1) /\ (off + 1) + i - 1 = off + i /\ off + i <= Len(b)
      BY <1>1
    <2> QED
      BY <1>4, <2>1 DEF Holds
  <1>7. q = p
    BY <1>4, <1>5, <1>6, SeqEqual
  <1> QED
    BY <1>7 DEF q, Slice

-----------------------------------------------------------------------------
(* One dictionary entry *)

GoodEntry == {e \in DictEntries : Len(e.name) \in Word16}

LEMMA EntryType ==
    ASSUME NEW e \in GoodEntry
    PROVE  /\ e.kind \in Byte /\ e.kind \in 1..4 /\ e.id \in Word32
           /\ e.name \in Seq(Byte) /\ Len(e.name) \in Word16 /\ Len(e.name) \in Nat
           /\ e = [kind |-> e.kind, id |-> e.id, name |-> e.name]
           /\ <<e.kind>> \in Seq(Byte) /\ Len(<<e.kind>>) = 1 /\ <<e.kind>>[1] = e.kind
  <1>1. /\ e.kind \in 1..4 /\ e.id \in Word32 /\ e.name \in Seq(Byte) /\ Len(e.name) \in Word16
        /\ e = [kind |-> e.kind, id |-> e.id, name |-> e.name]
    BY DEF GoodEntry, DictEntries
  <1>2. e.kind \in Byte
    BY <1>1 DEF Byte
  <1>3. Len(e.name) \in Nat
    BY <1>1, LenProperties
  <1> QED
    BY <1>1, <1>2, <1>3

\* The four parts of an encoded entry, where a decoder looks for them.
LEMMA EntryParts ==
    ASSUME NEW e \in GoodEntry
    PROVE  /\ EncodeEntry(e) \in Seq(Byte) /\ Len(EncodeEntry(e)) = 7 + Len(e.name)
           /\ \A b \in Seq(Byte), off \in Nat : Holds(b, off, EncodeEntry(e)) =>
                 /\ Holds(b, off, <<e.kind>>) /\ Holds(b, off + 1, LE4(e.id))
                 /\ Holds(b, off + 5, LE2(Len(e.name))) /\ Holds(b, off + 7, e.name)
  <1> DEFINE k == <<e.kind>>  i == LE4(e.id)  l == LE2(Len(e.name))  n == e.name
  <1>1. /\ k \in Seq(Byte) /\ i \in Seq(Byte) /\ l \in Seq(Byte) /\ n \in Seq(Byte)
        /\ Len(k) = 1 /\ Len(i) = 4 /\ Len(l) = 2 /\ Len(n) \in Nat
    BY EntryType, LE4Bytes, LE2Bytes
  <1>2. EncodeEntry(e) = ((k \o i) \o l) \o n
    BY DEF EncodeEntry
  <1> HIDE DEF k, i, l, n
  <1>3. k \o i \in Seq(Byte) /\ Len(k \o i) = 5
    <2>1. k \o i \in Seq(Byte) /\ Len(k \o i) = Len(k) + Len(i)
      BY <1>1, Joined
    <2> QED
      BY <1>1, <2>1
  <1>4. (k \o i) \o l \in Seq(Byte) /\ Len((k \o i) \o l) = 7
    <2>1. (k \o i) \o l \in Seq(Byte) /\ Len((k \o i) \o l) = Len(k \o i) + Len(l)
      BY <1>1, <1>3, Joined
    <2> QED
      BY <1>1, <1>3, <2>1
  <1>5. ((k \o i) \o l) \o n \in Seq(Byte) /\ Len(((k \o i) \o l) \o n) = 7 + Len(n)
    <2>1. /\ ((k \o i) \o l) \o n \in Seq(Byte)
          /\ Len(((k \o i) \o l) \o n) = Len((k \o i) \o l) + Len(n)
      BY <1>1, <1>4, Joined
    <2> QED
      BY <1>1, <1>4, <2>1
  <1>6. ASSUME NEW b \in Seq(Byte), NEW off \in Nat, Holds(b, off, ((k \o i) \o l) \o n)
        PROVE  Holds(b, off, k) /\ Holds(b, off + 1, i) /\ Holds(b, off + 5, l) /\ Holds(b, off + 7, n)
    <2>1. Holds(b, off, (k \o i) \o l) /\ Holds(b, off + 7, n)
      BY <1>1, <1>4, <1>6, HoldsParts
    <2>2. Holds(b, off, k \o i) /\ Holds(b, off + 5, l)
      BY <1>1, <1>3, <2>1, HoldsParts
    <2>3. Holds(b, off, k) /\ Holds(b, off + 1, i)
      BY <1>1, <2>2, HoldsParts
    <2> QED
      BY <2>1, <2>2, <2>3
  <1> QED
    BY <1>2, <1>5, <1>6 DEF k, i, l, n

\* decode_entries reads an entry that is all there, and fails on one that is
\* cut off.
LEMMA EntryStep ==
    ASSUME NEW e \in GoodEntry, NEW b \in Seq(Byte), NEW off \in Nat,
           Holds(b, off, EncodeEntry(e))
    PROVE  /\ off + Len(EncodeEntry(e)) <= Len(b) =>
                 RustEntry(b, off) = Item(off + Len(EncodeEntry(e)), e)
           /\ off + Len(EncodeEntry(e)) > Len(b) => RustEntry(b, off) = Bad
  <1> DEFINE n == Len(e.name)  rec == [kind |-> b[off + 1], id |-> U32(b, off + 1), name |-> Slice(b, off + 7, n)]
  <1>0. n \in Nat /\ Len(b) \in Nat /\ n \in Word16 /\ e.name \in Seq(Byte)
    BY EntryType, LenProperties
  <1>1. Len(EncodeEntry(e)) = 7 + n
    BY EntryParts
  <1>2. /\ Holds(b, off, <<e.kind>>) /\ Holds(b, off + 1, LE4(e.id))
        /\ Holds(b, off + 5, LE2(n)) /\ Holds(b, off + 7, e.name)
    BY EntryParts
  <1> HIDE DEF n
  <1>3. CASE off + 7 > Len(b)
    <2>1. RustEntry(b, off) = Bad
      BY <1>3 DEF RustEntry
    <2> QED
      BY <1>0, <1>1, <1>3, <2>1
  <1>4. CASE off + 7 <= Len(b)
    <2>1. U16(b, off + 5) = n
      <3>1. (off + 5) + 2 <= Len(b) /\ off + 5 \in Nat
        BY <1>0, <1>4
      <3> QED
        BY <1>0, <1>2, <3>1, Read16
    <2>2. U32(b, off + 1) = e.id
      <3>1. (off + 1) + 4 <= Len(b) /\ off + 1 \in Nat
        BY <1>0, <1>4
      <3> QED
        BY <1>2, <3>1, EntryType, Read32
    <2>3. b[off + 1] = e.kind
      <3>1. off + 1 <= Len(b)
        BY <1>0, <1>4
      <3> QED
        BY <1>2, <3>1, EntryType DEF Holds
    <2>4. b[off + 1] \in 1..4
      BY <2>3, EntryType
    <2>5. ~(off + 6 > Len(b) \/ off + 7 > Len(b))
      BY <1>0, <1>4
    <2>6. RustEntry(b, off) = IF off + 7 + n > Len(b) THEN Bad ELSE Item(off + 7 + n, rec)
      BY <2>1, <2>4, <2>5 DEF RustEntry
    <2>7. CASE off + 7 + n > Len(b)
      BY <1>0, <1>1, <2>6, <2>7
    <2>8. CASE off + 7 + n <= Len(b)
      <3>1. Slice(b, off + 7, n) = e.name
        <4>1. off + 7 \in Nat /\ (off + 7) + n <= Len(b)
          BY <1>0, <2>8
        <4>2. Len(e.name) = n
          BY DEF n
        <4> QED
          BY <1>0, <1>2, <4>1, <4>2, ReadSlice
      <3>2. rec = e
        BY <2>2, <2>3, <3>1, EntryType
      <3> HIDE DEF rec
      <3>3. ~(off + 7 + n > Len(b)) /\ off + 7 + n = off + (7 + n)
        BY <1>0, <2>8
      <3> QED
        BY <1>0, <1>1, <2>6, <2>8, <3>2, <3>3
    <2> QED
      BY <1>0, <2>7, <2>8
  <1> QED
    BY <1>0, <1>3, <1>4

-----------------------------------------------------------------------------
(* One field of a payload *)

GoodField == {f \in Fields : f.tag = BytesTag => Len(f.data) <= MaxBytesValue}

\* The value of a field as it is written: BYTES with its length in front.
Body(f) == IF f.tag = BytesTag THEN LE4(Len(f.data)) \o f.data ELSE f.data

LEMMA FieldType ==
    ASSUME NEW f \in GoodField
    PROVE  /\ f.name_id \in Word32 /\ f.tag \in 1..12 /\ f.tag \in Byte
           /\ f.data \in Seq(Byte) /\ Len(f.data) \in Nat
           /\ f = [name_id |-> f.name_id, tag |-> f.tag, data |-> f.data]
           /\ f.tag # 12 => Len(f.data) = FixedWidth[f.tag]
           /\ f.tag = 12 => Len(f.data) <= MaxBytesValue /\ Len(f.data) \in Word32
           /\ <<f.tag, 0>> \in Seq(Byte) /\ Len(<<f.tag, 0>>) = 2 /\ <<f.tag, 0>>[1] = f.tag
  <1>1. /\ f.name_id \in Word32 /\ f.tag \in 1..12 /\ f.data \in Seq(Byte)
        /\ f = [name_id |-> f.name_id, tag |-> f.tag, data |-> f.data]
        /\ f.tag # 12 => Len(f.data) = FixedWidth[f.tag]
        /\ f.tag = 12 => Len(f.data) <= MaxBytesValue
    BY DEF GoodField, Fields, BytesTag
  <1>2. f.tag \in Byte /\ 0 \in Byte
    BY <1>1 DEF Byte
  <1>3. Len(f.data) \in Nat
    BY <1>1, LenProperties
  <1>4. ASSUME f.tag = 12 PROVE Len(f.data) \in Word32
    BY <1>1, <1>3, <1>4, SmallWord, CodecAssumption
  <1> QED
    BY <1>1, <1>2, <1>3, <1>4

\* The parts of an encoded field, where a decoder looks for them.
LEMMA FieldParts ==
    ASSUME NEW f \in GoodField
    PROVE  /\ EncodeField(f) \in Seq(Byte) /\ Body(f) \in Seq(Byte)
           /\ Len(EncodeField(f)) = 6 + Len(Body(f))
           /\ Len(Body(f)) = IF f.tag = 12 THEN 4 + Len(f.data) ELSE Len(f.data)
           /\ \A b \in Seq(Byte), off \in Nat : Holds(b, off, EncodeField(f)) =>
                 /\ Holds(b, off, LE4(f.name_id)) /\ Holds(b, off + 4, <<f.tag, 0>>)
                 /\ f.tag = 12 => Holds(b, off + 6, LE4(Len(f.data))) /\ Holds(b, (off + 6) + 4, f.data)
                 /\ f.tag # 12 => Holds(b, off + 6, f.data)
  <1> DEFINE i == LE4(f.name_id)  t == <<f.tag, 0>>  l == LE4(Len(f.data))  d == f.data  v == Body(f)
  <1>1. /\ i \in Seq(Byte) /\ t \in Seq(Byte) /\ d \in Seq(Byte)
        /\ Len(i) = 4 /\ Len(t) = 2 /\ Len(d) \in Nat
    BY FieldType, LE4Bytes
  <1>2. f.tag = 12 => l \in Seq(Byte) /\ Len(l) = 4
    BY FieldType, LE4Bytes
  <1>3. EncodeField(f) = (i \o t) \o v
    BY DEF EncodeField, Body
  <1>4. v = IF f.tag = 12 THEN l \o d ELSE d
    BY DEF Body, BytesTag
  <1>5. Body(f) = v /\ Len(f.data) = Len(d)
    OBVIOUS
  <1> HIDE DEF i, t, l, d, v
  <1>6. v \in Seq(Byte) /\ Len(v) = IF f.tag = 12 THEN 4 + Len(d) ELSE Len(d)
    <2>1. CASE f.tag = 12
      <3>1. l \o d \in Seq(Byte) /\ Len(l \o d) = Len(l) + Len(d)
        BY <1>1, <1>2, <2>1, Joined
      <3> QED
        BY <1>2, <1>4, <2>1, <3>1
    <2>2. CASE f.tag # 12
      BY <1>1, <1>4, <2>2
    <2> QED
      BY <2>1, <2>2
  <1>7. i \o t \in Seq(Byte) /\ Len(i \o t) = 6
    <2>1. i \o t \in Seq(Byte) /\ Len(i \o t) = Len(i) + Len(t)
      BY <1>1, Joined
    <2> QED
      BY <1>1, <2>1
  <1>8. (i \o t) \o v \in Seq(Byte) /\ Len((i \o t) \o v) = 6 + Len(v)
    <2>1. (i \o t) \o v \in Seq(Byte) /\ Len((i \o t) \o v) = Len(i \o t) + Len(v)
      BY <1>6, <1>7, Joined
    <2> QED
      BY <1>7, <2>1
  <1>9. ASSUME NEW b \in Seq(Byte), NEW off \in Nat, Holds(b, off, (i \o t) \o v)
        PROVE  /\ Holds(b, off, i) /\ Holds(b, off + 4, t)
               /\ f.tag = 12 => Holds(b, off + 6, l) /\ Holds(b, (off + 6) + 4, d)
               /\ f.tag # 12 => Holds(b, off + 6, d)
    <2>1. Holds(b, off, i \o t) /\ Holds(b, off + 6, v)
      BY <1>6, <1>7, <1>9, HoldsParts
    <2>2. Holds(b, off, i) /\ Holds(b, off + 4, t)
      BY <1>1, <2>1, HoldsParts
    <2>3. ASSUME f.tag = 12 PROVE Holds(b, off + 6, l) /\ Holds(b, (off + 6) + 4, d)
      <3>1. Holds(b, off + 6, l \o d) /\ off + 6 \in Nat
        BY <1>4, <2>1, <2>3
      <3> QED
        BY <1>1, <1>2, <2>3, <3>1, HoldsParts
    <2>4. ASSUME f.tag # 12 PROVE Holds(b, off + 6, d)
      BY <1>4, <2>1, <2>4
    <2> QED
      BY <2>2, <2>3, <2>4
  <1>10. Len(v) = IF f.tag = 12 THEN 4 + Len(f.data) ELSE Len(f.data)
    BY <1>5, <1>6
  <1>11. EncodeField(f) \in Seq(Byte) /\ Len(EncodeField(f)) = 6 + Len(v)
    BY <1>3, <1>8
  <1>12. ASSUME NEW b \in Seq(Byte), NEW off \in Nat, Holds(b, off, EncodeField(f))
        PROVE  /\ Holds(b, off, i) /\ Holds(b, off + 4, t)
               /\ f.tag = 12 => Holds(b, off + 6, l) /\ Holds(b, (off + 6) + 4, d)
               /\ f.tag # 12 => Holds(b, off + 6, d)
    BY <1>3, <1>9, <1>12
  <1> QED
    BY <1>5, <1>6, <1>10, <1>11, <1>12 DEF i, t, l, d

\* decode reads a field that is all there, and fails on one that is cut off.
LEMMA FieldStep ==
    ASSUME NEW f \in GoodField, NEW b \in Seq(Byte), NEW off \in Nat,
           Holds(b, off, EncodeField(f))
    PROVE  /\ off + Len(EncodeField(f)) <= Len(b) =>
                 RustField(b, off) = Item(off + Len(EncodeField(f)), f)
           /\ off + Len(EncodeField(f)) > Len(b) => RustField(b, off) = Bad
  <1> DEFINE n == Len(f.data)
  <1>0. n \in Nat /\ Len(b) \in Nat /\ f.data \in Seq(Byte) /\ Len(f.data) = n /\ MaxBytesValue \in Nat
    BY FieldType, LenProperties, CodecAssumption DEF Word16
  <1>1. /\ Len(EncodeField(f)) = 6 + Len(Body(f))
        /\ Len(Body(f)) = IF f.tag = 12 THEN 4 + n ELSE n
    BY FieldParts
  <1>2. /\ Holds(b, off, LE4(f.name_id)) /\ Holds(b, off + 4, <<f.tag, 0>>)
        /\ f.tag = 12 => Holds(b, off + 6, LE4(n)) /\ Holds(b, (off + 6) + 4, f.data)
        /\ f.tag # 12 => Holds(b, off + 6, f.data)
    BY FieldParts
  <1>3. /\ f.name_id \in Word32 /\ f.tag \in 1..12
        /\ f = [name_id |-> f.name_id, tag |-> f.tag, data |-> f.data]
        /\ f.tag # 12 => n = FixedWidth[f.tag]
        /\ f.tag = 12 => n <= MaxBytesValue /\ n \in Word32
        /\ Len(<<f.tag, 0>>) = 2 /\ <<f.tag, 0>>[1] = f.tag
    BY FieldType
  <1> HIDE DEF n
  <1>4. CASE off + 6 > Len(b)
    <2>1. RustField(b, off) = Bad
      BY <1>4 DEF RustField, Field
    <2>2. ~(off + Len(EncodeField(f)) <= Len(b))
      BY <1>0, <1>1, <1>4
    <2> QED
      BY <2>1, <2>2
  <1>5. ASSUME off + 6 <= Len(b)
        PROVE  b[off + 5] = f.tag /\ U32(b, off) = f.name_id /\ ~(off + 6 > Len(b))
    <2>1. off + 4 <= Len(b) /\ (off + 4) + 1 = off + 5 /\ off + 5 <= Len(b) /\ ~(off + 6 > Len(b))
      BY <1>0, <1>5
    <2>2. U32(b, off) = f.name_id
      BY <1>2, <1>3, <2>1, Read32
    <2>3. b[off + 5] = f.tag
      BY <1>2, <1>3, <2>1 DEF Holds
    <2> QED
      BY <2>1, <2>2, <2>3
  <1>6. CASE off + 6 <= Len(b) /\ f.tag # 12
    <2> DEFINE rec == [name_id |-> U32(b, off), tag |-> b[off + 5], data |-> Slice(b, off + 6 + 0, n)]
    <2>1. RustField(b, off) =
            IF off + 6 + 0 + n > Len(b) THEN Bad ELSE Item(off + 6 + 0 + n, rec)
      BY <1>0, <1>3, <1>5, <1>6 DEF RustField, Field, BytesTag
    <2>2. Len(EncodeField(f)) = 6 + n
      BY <1>1, <1>6
    <2>3. ASSUME off + (6 + n) <= Len(b) PROVE rec = f
      <3>1. off + 6 \in Nat /\ (off + 6) + n <= Len(b) /\ off + 6 + 0 = off + 6
        BY <1>0, <2>3
      <3>2. Slice(b, off + 6, n) = f.data
        BY <1>0, <1>2, <1>6, <3>1, ReadSlice
      <3> QED
        BY <1>3, <1>5, <1>6, <3>1, <3>2
    <2> HIDE DEF rec
    <2>4. off + 6 + 0 + n = off + (6 + n)
      BY <1>0
    <2>5. CASE off + (6 + n) <= Len(b)
      <3>1. ~(off + (6 + n) > Len(b))
        BY <1>0, <2>5
      <3> QED
        BY <2>1, <2>2, <2>3, <2>4, <2>5, <3>1
    <2>6. CASE off + (6 + n) > Len(b)
      <3>1. ~(off + (6 + n) <= Len(b))
        BY <1>0, <2>6
      <3> QED
        BY <2>1, <2>2, <2>4, <2>6, <3>1
    <2> QED
      BY <1>0, <2>5, <2>6
  <1>7. CASE off + 6 <= Len(b) /\ f.tag = 12
    <2>1. Len(EncodeField(f)) = 10 + n
      BY <1>0, <1>1, <1>7
    <2>2. CASE off + 10 > Len(b)
      <3>1. off + 6 + 4 > Len(b)
        BY <2>2
      <3>2. RustField(b, off) = Bad
        BY <1>5, <1>7, <3>1 DEF RustField, Field, BytesTag
      <3>3. ~(off + Len(EncodeField(f)) <= Len(b))
        BY <1>0, <2>1, <2>2
      <3> QED
        BY <3>2, <3>3
    <2>3. CASE off + 10 <= Len(b)
      <3> DEFINE rec == [name_id |-> U32(b, off), tag |-> b[off + 5], data |-> Slice(b, off + 6 + 4, n)]
      <3>1. U32(b, off + 6) = n
        <4>1. off + 6 \in Nat /\ (off + 6) + 4 <= Len(b)
          BY <1>0, <2>3
        <4> QED
          BY <1>2, <1>3, <1>7, <4>1, Read32
      <3>2. ~(off + 6 + 4 > Len(b)) /\ ~(n > MaxBytesValue)
        BY <1>0, <1>3, <1>7, <2>3
      <3>3. RustField(b, off) =
              IF off + 6 + 4 + n > Len(b) THEN Bad ELSE Item(off + 6 + 4 + n, rec)
        BY <1>5, <1>7, <3>1, <3>2 DEF RustField, Field, BytesTag
      <3>4. ASSUME off + (10 + n) <= Len(b) PROVE rec = f
        <4>1. (off + 6) + 4 \in Nat /\ ((off + 6) + 4) + n <= Len(b)
          BY <1>0, <3>4
        <4>2. Slice(b, (off + 6) + 4, n) = f.data
          BY <1>0, <1>2, <1>7, <4>1, ReadSlice
        <4> QED
          BY <1>3, <1>5, <1>7, <4>2
      <3> HIDE DEF rec
      <3>5. off + 6 + 4 + n = off + (10 + n)
        BY <1>0
      <3>6. CASE off + (10 + n) <= Len(b)
        <4>1. ~(off + (10 + n) > Len(b))
          BY <1>0, <3>6
        <4> QED
          BY <2>1, <3>3, <3>4, <3>5, <3>6, <4>1
      <3>7. CASE off + (10 + n) > Len(b)
        <4>1. ~(off + (10 + n) <= Len(b))
          BY <1>0, <3>7
        <4> QED
          BY <2>1, <3>3, <3>5, <3>7, <4>1
      <3> QED
        BY <1>0, <3>6, <3>7
    <2> QED
      BY <1>0, <2>2, <2>3
  <1> QED
    BY <1>0, <1>4, <1>6, <1>7

-----------------------------------------------------------------------------
(* The parts of a concatenation *)

IsOut(out, p, n) == out = [i \in 0..n |-> IF i = 0 THEN <<>> ELSE out[i - 1] \o p[i]]

LEMMA OutExists ==
    ASSUME NEW p, NEW n \in Nat
    PROVE  \E out : IsOut(out, p, n)
  <1> DEFINE T == {m \in 0..n : \E out : IsOut(out, p, m)}
  <1>1. 0 \in T
    <2> DEFINE out == [i \in 0..0 |-> <<>>]
    <2>1. out = [i \in 0..0 |-> IF i = 0 THEN <<>> ELSE out[i - 1] \o p[i]]
      OBVIOUS
    <2> HIDE DEF out
    <2>2. IsOut(out, p, 0)
      BY <2>1 DEF IsOut
    <2> QED
      BY <2>2
  <1>2. ASSUME NEW m \in 0..(n - 1), m \in T PROVE m + 1 \in T
    <2>1. PICK out : IsOut(out, p, m)
      BY <1>2
    <2> DEFINE new == [i \in 0..(m + 1) |-> IF i = m + 1 THEN out[m] \o p[m + 1] ELSE out[i]]
    <2>2. ASSUME NEW i \in 0..(m + 1)
          PROVE  new[i] = IF i = 0 THEN <<>> ELSE new[i - 1] \o p[i]
      <3>1. CASE i = m + 1
        <4>1. m \in 0..(m + 1) /\ m # m + 1 /\ i - 1 = m /\ i # 0
          BY <3>1
        <4>2. new[i] = out[m] \o p[m + 1] /\ new[m] = out[m]
          BY <3>1, <4>1
        <4> HIDE DEF new
        <4> QED
          BY <3>1, <4>1, <4>2
      <3>2. CASE i = 0
        <4>1. new[0] = out[0] /\ out[0] = <<>>
          BY <2>1 DEF IsOut
        <4> QED
          BY <3>2, <4>1
      <3>3. CASE i \in 1..m
        <4>1. new[i] = out[i] /\ new[i - 1] = out[i - 1] /\ i # 0
          BY <3>3
        <4>2. i \in 0..m /\ i # 0
          BY <3>3
        <4>3. out[i] = out[i - 1] \o p[i]
          BY <2>1, <4>2 DEF IsOut
        <4> QED
          BY <4>1, <4>3
      <3> QED
        BY <3>1, <3>2, <3>3
    <2>3. new = [i \in 0..(m + 1) |-> new[i]]
      OBVIOUS
    <2> HIDE DEF new
    <2>4. new = [i \in 0..(m + 1) |-> IF i = 0 THEN <<>> ELSE new[i - 1] \o p[i]]
      BY <2>2, <2>3
    <2>5. IsOut(new, p, m + 1)
      BY <2>4 DEF IsOut
    <2> QED
      BY <2>5
  <1> HIDE DEF T
  <1>3. \A m \in 0..n : m \in T
    BY <1>1, <1>2, UpTo
  <1> QED
    BY <1>3 DEF T

\* Each part of a concatenation has a place: it starts where the part before
\* it ends, and what holds the whole holds the part at its place.
LEMMA ConcatPlaces ==
    ASSUME NEW p \in Seq(Seq(Byte))
    PROVE  /\ Concat(p) \in Seq(Byte)
           /\ \E o \in [0..Len(p) -> Nat] :
                 /\ o[0] = 0 /\ o[Len(p)] = Len(Concat(p))
                 /\ \A i \in 1..Len(p) : o[i] = o[i - 1] + Len(p[i])
                 /\ \A b \in Seq(Byte), off \in Nat : Holds(b, off, Concat(p)) =>
                       \A i \in 1..Len(p) : Holds(b, off + o[i - 1], p[i])
  <1> DEFINE n == Len(p)
  <1>1. n \in Nat /\ \A i \in 1..n : p[i] \in Seq(Byte)
    BY LenProperties
  <1> DEFINE out == CHOOSE f : f = [i \in 0..n |-> IF i = 0 THEN <<>> ELSE f[i - 1] \o p[i]]
  <1>2. Concat(p) = out[n]
    BY Zenon DEF Concat
  <1>3. out = [i \in 0..n |-> IF i = 0 THEN <<>> ELSE out[i - 1] \o p[i]]
    BY <1>1, OutExists DEF IsOut
  <1> HIDE DEF n, out
  <1>4. out[0] = <<>> /\ \A m \in 0..(n - 1) : out[m + 1] = out[m] \o p[m + 1]
    <2>1. out[0] = <<>>
      BY <1>1, <1>3
    <2>2. ASSUME NEW m \in 0..(n - 1) PROVE out[m + 1] = out[m] \o p[m + 1]
      <3>1. m + 1 \in 0..n /\ m + 1 # 0 /\ (m + 1) - 1 = m
        BY <1>1
      <3> QED
        BY <1>3, <3>1
    <2> QED
      BY <2>1, <2>2
  <1>5. \A m \in 0..n : out[m] \in Seq(Byte)
    <2> DEFINE T == {m \in 0..n : out[m] \in Seq(Byte)}
    <2>1. 0 \in T
      <3>1. out[0] \in Seq(Byte) /\ 0 \in 0..n
        BY <1>1, <1>4, EmptySeq
      <3> QED
        BY <3>1
    <2>2. ASSUME NEW m \in 0..(n - 1), m \in T PROVE m + 1 \in T
      <3>1. m + 1 \in 1..n /\ m + 1 \in 0..n
        BY <1>1
      <3>2. out[m] \o p[m + 1] \in Seq(Byte)
        BY <1>1, <2>2, <3>1, Joined
      <3> QED
        BY <1>4, <3>1, <3>2
    <2> HIDE DEF T
    <2>3. \A m \in 0..n : m \in T
      BY <1>1, <2>1, <2>2, UpTo
    <2> QED
      BY <2>3 DEF T
  <1>6. \A m \in 0..n : \A b \in Seq(Byte), off \in Nat : Holds(b, off, out[m]) =>
            \A i \in 1..m : Holds(b, off + Len(out[i - 1]), p[i])
    <2> DEFINE Q(m) == \A b \in Seq(Byte), off \in Nat : Holds(b, off, out[m]) =>
                          \A i \in 1..m : Holds(b, off + Len(out[i - 1]), p[i])
               T == {m \in 0..n : Q(m)}
    <2>1. 0 \in T
      BY <1>1
    <2>2. ASSUME NEW m \in 0..(n - 1), m \in T PROVE m + 1 \in T
      <3>1. m + 1 \in 0..n /\ m \in 0..n /\ m + 1 \in 1..n /\ (m + 1) - 1 = m
        BY <1>1
      <3>2. SUFFICES ASSUME NEW b \in Seq(Byte), NEW off \in Nat, Holds(b, off, out[m + 1]),
                            NEW i \in 1..(m + 1)
                     PROVE  Holds(b, off + Len(out[i - 1]), p[i])
        BY <3>1
      <3>3. Holds(b, off, out[m]) /\ Holds(b, off + Len(out[m]), p[m + 1])
        <4>1. Holds(b, off, out[m] \o p[m + 1])
          BY <1>4, <3>2
        <4> QED
          BY <1>1, <1>5, <3>1, <4>1, HoldsParts
      <3>4. CASE i = m + 1
        BY <3>1, <3>3, <3>4
      <3>5. CASE i \in 1..m
        BY <2>2, <3>3, <3>5
      <3> QED
        BY <3>4, <3>5
    <2> HIDE DEF T
    <2>3. \A m \in 0..n : m \in T
      BY <1>1, <2>1, <2>2, UpTo
    <2> QED
      BY <2>3 DEF T
  <1> DEFINE o == [i \in 0..n |-> Len(out[i])]
  <1>7. o \in [0..n -> Nat]
    BY <1>5, LenProperties
  <1>8. o[0] = 0 /\ o[n] = Len(out[n])
    BY <1>1, <1>4
  <1>9. ASSUME NEW i \in 1..n PROVE o[i] = o[i - 1] + Len(p[i]) /\ o[i - 1] = Len(out[i - 1])
    <2>1. i \in 0..n /\ i - 1 \in 0..n /\ i - 1 \in 0..(n - 1) /\ (i - 1) + 1 = i
      BY <1>1
    <2>2. out[i] = out[i - 1] \o p[i]
      BY <1>4, <2>1
    <2>3. Len(out[i - 1] \o p[i]) = Len(out[i - 1]) + Len(p[i])
      BY <1>1, <1>5, <2>1, Joined
    <2> QED
      BY <2>1, <2>2, <2>3
  <1> HIDE DEF o
  <1>10. \A b \in Seq(Byte), off \in Nat : Holds(b, off, out[n]) =>
            \A i \in 1..n : Holds(b, off + o[i - 1], p[i])
    <2>1. n \in 0..n
      BY <1>1
    <2>2. \A b \in Seq(Byte), off \in Nat : Holds(b, off, out[n]) =>
            \A i \in 1..n : Holds(b, off + Len(out[i - 1]), p[i])
      BY <1>6, <2>1
    <2> QED
      BY <1>9, <2>2
  <1>11. Concat(p) \in Seq(Byte)
    BY <1>1, <1>2, <1>5
  <1> QED
    BY <1>2, <1>7, <1>8, <1>9, <1>10, <1>11 DEF n

-----------------------------------------------------------------------------
(* The decoding loop *)

Kinds == {"entries", "payload"}

Good(kind)          == IF kind = "entries" THEN GoodEntry ELSE GoodField
Enc(kind, x)        == IF kind = "entries" THEN EncodeEntry(x) ELSE EncodeField(x)
Reads(kind, b, off) == IF kind = "entries" THEN RustEntry(b, off) ELSE RustField(b, off)

\* One round of the loop after a round that left p.
Round(p, r) ==
    IF ~p.ok \/ ~r.ok THEN [ok |-> FALSE, off |-> p.off, items |-> <<>>]
    ELSE [ok |-> TRUE, off |-> r.off, items |-> Append(p.items, r.item)]

Start(off) == [ok |-> TRUE, off |-> off, items |-> <<>>]

IsLoop(st, kind, b, start, n) ==
    st = [i \in 0..n |-> IF i = 0 THEN Start(start)
                         ELSE Round(st[i - 1], Reads(kind, b, st[i - 1].off))]

LEMMA LoopExists ==
    ASSUME NEW kind, NEW b, NEW start, NEW n \in Nat
    PROVE  \E st : IsLoop(st, kind, b, start, n)
  <1> DEFINE T == {m \in 0..n : \E st : IsLoop(st, kind, b, start, m)}
  <1>1. 0 \in T
    <2> DEFINE st == [i \in 0..0 |-> Start(start)]
    <2>1. st = [i \in 0..0 |-> IF i = 0 THEN Start(start)
                               ELSE Round(st[i - 1], Reads(kind, b, st[i - 1].off))]
      OBVIOUS
    <2> HIDE DEF st
    <2>2. IsLoop(st, kind, b, start, 0)
      BY <2>1 DEF IsLoop
    <2> QED
      BY <2>2
  <1>2. ASSUME NEW m \in 0..(n - 1), m \in T PROVE m + 1 \in T
    <2>1. PICK st : IsLoop(st, kind, b, start, m)
      BY <1>2
    <2> DEFINE next == Round(st[m], Reads(kind, b, st[m].off))
               new == [i \in 0..(m + 1) |-> IF i = m + 1 THEN next ELSE st[i]]
    <2>2. ASSUME NEW i \in 0..(m + 1)
          PROVE  new[i] = IF i = 0 THEN Start(start)
                          ELSE Round(new[i - 1], Reads(kind, b, new[i - 1].off))
      <3>1. CASE i = m + 1
        <4>1. m \in 0..(m + 1) /\ m # m + 1 /\ i - 1 = m /\ i # 0
          BY <3>1
        <4>2. new[i] = next /\ new[m] = st[m]
          BY <3>1, <4>1
        <4> HIDE DEF new
        <4> QED
          BY <3>1, <4>1, <4>2
      <3>2. CASE i = 0
        <4>1. new[0] = st[0] /\ st[0] = Start(start)
          BY <2>1 DEF IsLoop
        <4> QED
          BY <3>2, <4>1
      <3>3. CASE i \in 1..m
        <4>1. new[i] = st[i] /\ new[i - 1] = st[i - 1] /\ i # 0
          BY <3>3
        <4>2. i \in 0..m /\ i # 0
          BY <3>3
        <4>3. st[i] = Round(st[i - 1], Reads(kind, b, st[i - 1].off))
          BY <2>1, <4>2 DEF IsLoop
        <4> HIDE DEF new
        <4> QED
          BY <4>1, <4>3
      <3> QED
        BY <3>1, <3>2, <3>3
    <2>3. new = [i \in 0..(m + 1) |-> new[i]]
      OBVIOUS
    <2> HIDE DEF new
    <2>4. new = [i \in 0..(m + 1) |-> IF i = 0 THEN Start(start)
                                     ELSE Round(new[i - 1], Reads(kind, b, new[i - 1].off))]
      BY <2>2, <2>3
    <2>5. IsLoop(new, kind, b, start, m + 1)
      BY <2>4 DEF IsLoop
    <2> QED
      BY <2>5
  <1> HIDE DEF T
  <1>3. \A m \in 0..n : m \in T
    BY <1>1, <1>2, UpTo
  <1> QED
    BY <1>3 DEF T

\* What the code's loop returns, from the states of its rounds.
Result(st, n, b) == IF st[n].ok /\ st[n].off = Len(b) THEN Ok(st[n].items) ELSE Err

LEMMA EntriesLoop ==
    ASSUME NEW b, NEW start, NEW n \in Nat
    PROVE  \E st : IsLoop(st, "entries", b, start, n) /\ Loop(b, start, n, RustEntry) = Result(st, n, b)
  <1> DEFINE Body1(f) ==
               [i \in 0..n |-> IF i = 0 THEN [ok |-> TRUE, off |-> start, items |-> <<>>]
                ELSE IF ~f[i - 1].ok \/ ~RustEntry(b, f[i - 1].off).ok
                     THEN [ok |-> FALSE, off |-> f[i - 1].off, items |-> <<>>]
                     ELSE [ok |-> TRUE, off |-> RustEntry(b, f[i - 1].off).off,
                           items |-> Append(f[i - 1].items, RustEntry(b, f[i - 1].off).item)]]
             st == CHOOSE f : f = Body1(f)
  <1>1. Loop(b, start, n, RustEntry) = Result(st, n, b)
    BY DEF Loop, Result
  <1>2. \A f : IsLoop(f, "entries", b, start, n) <=> f = Body1(f)
    BY DEF IsLoop, Start, Round, Reads
  <1>3. \E f : f = Body1(f)
    BY <1>2, LoopExists, ZenonT(60)
  <1>4. st = Body1(st)
    BY <1>3
  <1> QED
    BY <1>1, <1>2, <1>4

LEMMA PayloadLoop ==
    ASSUME NEW b, NEW start, NEW n \in Nat
    PROVE  \E st : IsLoop(st, "payload", b, start, n) /\ Loop(b, start, n, RustField) = Result(st, n, b)
  <1> DEFINE Body1(f) ==
               [i \in 0..n |-> IF i = 0 THEN [ok |-> TRUE, off |-> start, items |-> <<>>]
                ELSE IF ~f[i - 1].ok \/ ~RustField(b, f[i - 1].off).ok
                     THEN [ok |-> FALSE, off |-> f[i - 1].off, items |-> <<>>]
                     ELSE [ok |-> TRUE, off |-> RustField(b, f[i - 1].off).off,
                           items |-> Append(f[i - 1].items, RustField(b, f[i - 1].off).item)]]
             st == CHOOSE f : f = Body1(f)
  <1>1. Loop(b, start, n, RustField) = Result(st, n, b)
    BY DEF Loop, Result
  <1>2. \A f : IsLoop(f, "payload", b, start, n) <=> f = Body1(f)
    BY DEF IsLoop, Start, Round, Reads
  <1>3. \E f : f = Body1(f)
    BY <1>2, LoopExists
  <1>4. st = Body1(st)
    BY <1>3
  <1> QED
    BY <1>1, <1>2, <1>4

\* The first m items and the next one are the first m + 1 items.
LEMMA OneMore ==
    ASSUME NEW S, NEW xs \in Seq(S), NEW m \in 0..(Len(xs) - 1)
    PROVE  Append(SubSeq(xs, 1, m), xs[m + 1]) = SubSeq(xs, 1, m + 1)
  <1> DEFINE a == SubSeq(xs, 1, m)  c == SubSeq(xs, 1, m + 1)  e == xs[m + 1]
  <1>1. Len(xs) \in Nat /\ m \in Nat /\ m + 1 \in 1..Len(xs) /\ \A i \in 1..Len(xs) : xs[i] \in S
    BY LenProperties
  <1>2. /\ a \in Seq(S) /\ Len(a) = IF 1 <= m THEN m - 1 + 1 ELSE 0
        /\ \A i \in 1..(m - 1 + 1) : a[i] = xs[1 + i - 1]
    <2>1. 1 \in Int /\ m \in Int /\ \A i \in 1..m : xs[i] \in S
      BY <1>1
    <2> QED
      BY <2>1, SubSeqProperties
  <1>3. /\ c \in Seq(S) /\ Len(c) = IF 1 <= m + 1 THEN (m + 1) - 1 + 1 ELSE 0
        /\ \A i \in 1..((m + 1) - 1 + 1) : c[i] = xs[1 + i - 1]
    <2>1. 1 \in Int /\ m + 1 \in Int /\ \A i \in 1..(m + 1) : xs[i] \in S
      BY <1>1
    <2> QED
      BY <2>1, SubSeqProperties
  <1>4. e \in S
    BY <1>1
  <1> HIDE DEF a, c, e
  <1>5. Len(a) = m /\ Len(c) = m + 1
    BY <1>1, <1>2, <1>3
  <1>6. /\ Append(a, e) \in Seq(S) /\ Len(Append(a, e)) = Len(a) + 1
        /\ \A i \in 1..Len(a) : Append(a, e)[i] = a[i]
        /\ Append(a, e)[Len(a) + 1] = e
    BY <1>2, <1>4, AppendProperties
  <1>7. ASSUME NEW i \in 1..(m + 1) PROVE Append(a, e)[i] = c[i]
    <2>0. 1 + i - 1 = i /\ i \in 1..((m + 1) - 1 + 1)
      BY <1>1
    <2>1. c[i] = xs[i]
      BY <1>3, <2>0
    <2>2. CASE i = m + 1
      BY <1>5, <1>6, <2>1, <2>2 DEF e
    <2>3. CASE i \in 1..m
      <3>1. i \in 1..(m - 1 + 1)
        BY <1>1, <2>3
      <3> QED
        BY <1>2, <1>5, <1>6, <2>0, <2>1, <2>3, <3>1
    <2>4. m \in Nat
      BY <1>1
    <2>5. i = m + 1 \/ i \in 1..m
      BY <2>4
    <2> QED
      BY <2>2, <2>3, <2>5
  <1>8. Append(a, e) = c
    BY <1>3, <1>5, <1>6, <1>7, SeqEqual
  <1> QED
    BY <1>8 DEF a, c, e

LEMMA AllOfThem ==
    ASSUME NEW S, NEW xs \in Seq(S)
    PROVE  SubSeq(xs, 1, 0) = <<>> /\ SubSeq(xs, 1, Len(xs)) = xs
  BY SubSeqEmpty, SubSeqFull

\* One round reads the item that stands at its offset, or fails on a cut one.
LEMMA ReadsItem ==
    ASSUME NEW kind \in Kinds, NEW x \in Good(kind), NEW b \in Seq(Byte), NEW off \in Nat,
           Holds(b, off, Enc(kind, x))
    PROVE  /\ Enc(kind, x) \in Seq(Byte) /\ Len(Enc(kind, x)) \in Nat
           /\ off + Len(Enc(kind, x)) <= Len(b) =>
                 Reads(kind, b, off) = Item(off + Len(Enc(kind, x)), x)
           /\ off + Len(Enc(kind, x)) > Len(b) => Reads(kind, b, off) = Bad
  <1>1. CASE kind = "entries"
    <2>1. x \in GoodEntry /\ Enc(kind, x) = EncodeEntry(x) /\ Reads(kind, b, off) = RustEntry(b, off)
      BY <1>1 DEF Good, Enc, Reads
    <2>2. EncodeEntry(x) \in Seq(Byte)
      BY <2>1, EntryParts
    <2>3. Len(EncodeEntry(x)) \in Nat
      BY <2>2, LenProperties
    <2>4. Holds(b, off, EncodeEntry(x))
      BY <2>1
    <2> QED
      BY <2>1, <2>2, <2>3, <2>4, EntryStep
  <1>2. CASE kind = "payload"
    <2>1. x \in GoodField /\ Enc(kind, x) = EncodeField(x) /\ Reads(kind, b, off) = RustField(b, off)
      BY <1>2 DEF Good, Enc, Reads
    <2>2. EncodeField(x) \in Seq(Byte)
      BY <2>1, FieldParts
    <2>3. Len(EncodeField(x)) \in Nat
      BY <2>2, LenProperties
    <2>4. Holds(b, off, EncodeField(x))
      BY <2>1
    <2> QED
      BY <2>1, <2>2, <2>3, <2>4, FieldStep
  <1> QED
    BY <1>1, <1>2 DEF Kinds

\* The loop over a buffer that holds the items at their places, as far as it
\* goes: after m rounds it has read the first m items, or it has failed.
LEMMA LoopRuns ==
    ASSUME NEW kind \in Kinds, NEW xs \in Seq(Good(kind)), NEW o \in [0..Len(xs) -> Nat],
           \A i \in 1..Len(xs) : o[i] = o[i - 1] + Len(Enc(kind, xs[i])),
           NEW b \in Seq(Byte), o[0] <= Len(b),
           \A i \in 1..Len(xs) : Holds(b, o[i - 1], Enc(kind, xs[i])),
           NEW st, IsLoop(st, kind, b, o[0], Len(xs))
    PROVE  \A m \in 0..Len(xs) :
             /\ o[m] <= Len(b) => st[m] = [ok |-> TRUE, off |-> o[m], items |-> SubSeq(xs, 1, m)]
             /\ o[m] > Len(b) => ~st[m].ok
  <1> DEFINE n == Len(xs)
             Q(m) == /\ o[m] <= Len(b) => st[m] = [ok |-> TRUE, off |-> o[m], items |-> SubSeq(xs, 1, m)]
                     /\ o[m] > Len(b) => ~st[m].ok
             T == {m \in 0..n : Q(m)}
  <1>1. n \in Nat /\ Len(b) \in Nat /\ \A i \in 1..n : xs[i] \in Good(kind)
    BY LenProperties
  <1>2. st[0] = Start(o[0])
    BY <1>1 DEF IsLoop
  <1>3. 0 \in T
    <2>1. SubSeq(xs, 1, 0) = <<>>
      BY AllOfThem
    <2>2. ~(o[0] > Len(b)) /\ 0 \in 0..n
      BY <1>1
    <2> QED
      BY <1>2, <2>1, <2>2 DEF Start
  <1>4. ASSUME NEW m \in 0..(n - 1), m \in T PROVE m + 1 \in T
    <2> DEFINE x == xs[m + 1]  len == Len(Enc(kind, x))
    <2>1. m \in 0..n /\ m + 1 \in 0..n /\ m + 1 \in 1..n /\ (m + 1) - 1 = m /\ m + 1 # 0
      BY <1>1
    <2>2. x \in Good(kind) /\ o[m] \in Nat /\ o[m + 1] = o[m] + len /\ Holds(b, o[m], Enc(kind, x))
      BY <1>1, <2>1
    <2>3. /\ len \in Nat
          /\ o[m] + len <= Len(b) => Reads(kind, b, o[m]) = Item(o[m] + len, x)
          /\ o[m] + len > Len(b) => Reads(kind, b, o[m]) = Bad
      BY <2>2, ReadsItem
    <2>4. st[m + 1] = Round(st[m], Reads(kind, b, st[m].off))
      BY <2>1 DEF IsLoop
    <2>5. Append(SubSeq(xs, 1, m), x) = SubSeq(xs, 1, m + 1)
      BY OneMore
    <2>6. Q(m)
      BY <1>4
    <2> HIDE DEF x, len
    <2>7. CASE o[m] > Len(b)
      <3>1. o[m + 1] > Len(b) /\ ~(o[m + 1] <= Len(b))
        BY <1>1, <2>2, <2>3, <2>7
      <3>2. ~st[m].ok
        BY <2>6, <2>7
      <3>3. ~st[m + 1].ok
        BY <2>4, <3>2 DEF Round
      <3> QED
        BY <2>1, <3>1, <3>3
    <2>8. CASE o[m] <= Len(b)
      <3>1. st[m] = [ok |-> TRUE, off |-> o[m], items |-> SubSeq(xs, 1, m)]
        BY <2>6, <2>8
      <3>2. st[m + 1] = Round(st[m], Reads(kind, b, o[m]))
        BY <2>4, <3>1
      <3>3. CASE o[m] + len <= Len(b)
        <4>1. st[m + 1] = [ok |-> TRUE, off |-> o[m] + len, items |-> Append(SubSeq(xs, 1, m), x)]
          <5>1. st[m + 1] = Round([ok |-> TRUE, off |-> o[m], items |-> SubSeq(xs, 1, m)], Item(o[m] + len, x))
            BY <2>3, <3>1, <3>2, <3>3
          <5>2. Round([ok |-> TRUE, off |-> o[m], items |-> SubSeq(xs, 1, m)], Item(o[m] + len, x))
                  = [ok |-> TRUE, off |-> o[m] + len, items |-> Append(SubSeq(xs, 1, m), x)]
            <6> DEFINE first == SubSeq(xs, 1, m)  next == o[m] + len
            <6> HIDE DEF first, next
            <6>1. Round([ok |-> TRUE, off |-> o[m], items |-> first], Item(next, x))
                    = [ok |-> TRUE, off |-> next, items |-> Append(first, x)]
              BY DEF Round, Item
            <6> QED
              BY <6>1 DEF first, next
          <5> QED
            BY <5>1, <5>2, Zenon
        <4>2. ~(o[m + 1] > Len(b))
          BY <1>1, <2>2, <2>3, <3>3
        <4> QED
          BY <2>1, <2>2, <2>5, <4>1, <4>2
      <3>4. CASE o[m] + len > Len(b)
        <4>1. ~st[m + 1].ok
          BY <2>3, <3>2, <3>4 DEF Round, Bad
        <4>2. ~(o[m + 1] <= Len(b))
          BY <1>1, <2>2, <2>3, <3>4
        <4> QED
          BY <2>1, <4>1, <4>2
      <3> QED
        BY <1>1, <2>2, <2>3, <3>3, <3>4
    <2> QED
      BY <1>1, <2>2, <2>7, <2>8
  <1> HIDE DEF T
  <1>5. \A m \in 0..n : m \in T
    BY <1>1, <1>3, <1>4, UpTo
  <1> QED
    BY <1>5 DEF T

-----------------------------------------------------------------------------
(* Encoded payloads *)

\* Decoding what stands behind the count: all of it gives the items back, and
\* a part of it is refused.
LEMMA LoopDecodes ==
    ASSUME NEW kind \in Kinds, NEW xs \in Seq(Good(kind)), NEW start \in Nat, NEW p,
           p = [i \in DOMAIN xs |-> Enc(kind, xs[i])],
           NEW b \in Seq(Byte), start <= Len(b), Holds(b, start, Concat(p)),
           NEW st, IsLoop(st, kind, b, start, Len(xs))
    PROVE  /\ Concat(p) \in Seq(Byte) /\ Len(Concat(p)) \in Nat
           /\ Len(b) = start + Len(Concat(p)) => Result(st, Len(xs), b) = Ok(xs)
           /\ Len(b) < start + Len(Concat(p)) => Result(st, Len(xs), b) = Err
  <1> DEFINE n == Len(xs)
  <1>1. n \in Nat /\ Len(b) \in Nat /\ DOMAIN xs = 1..n /\ \A i \in 1..n : xs[i] \in Good(kind)
    BY LenProperties
  <1>2. \A i \in 1..n : Enc(kind, xs[i]) \in Seq(Byte)
    <2>1. SUFFICES ASSUME NEW i \in 1..n PROVE Enc(kind, xs[i]) \in Seq(Byte)
      OBVIOUS
    <2>2. xs[i] \in Good(kind)
      BY <1>1
    <2>3. CASE kind = "entries"
      BY <2>2, <2>3, EntryParts DEF Good, Enc
    <2>4. CASE kind = "payload"
      BY <2>2, <2>4, FieldParts DEF Good, Enc
    <2> QED
      BY <2>3, <2>4 DEF Kinds
  <1>3. p \in [1..n -> Seq(Byte)] /\ \A i \in 1..n : p[i] = Enc(kind, xs[i])
    BY <1>1, <1>2
  <1>4. p \in Seq(Seq(Byte)) /\ Len(p) = n
    BY <1>1, <1>3
  <1> HIDE DEF n
  <1>5. Concat(p) \in Seq(Byte)
    BY <1>4, ConcatPlaces
  <1>6. PICK q \in [0..n -> Nat] :
                 /\ q[0] = 0 /\ q[n] = Len(Concat(p))
                 /\ \A i \in 1..n : q[i] = q[i - 1] + Len(p[i])
                 /\ \A c \in Seq(Byte), off \in Nat : Holds(c, off, Concat(p)) =>
                       \A i \in 1..n : Holds(c, off + q[i - 1], p[i])
    BY <1>4, ConcatPlaces
  <1> DEFINE o == [i \in 0..n |-> start + q[i]]
  <1>7. o \in [0..n -> Nat] /\ o[0] = start /\ o[n] = start + Len(Concat(p))
    <2>1. \A i \in 0..n : start + q[i] \in Nat
      OBVIOUS
    <2>2. o \in [0..n -> Nat]
      BY <2>1
    <2>3. 0 \in 0..n /\ n \in 0..n /\ start + 0 = start
      BY <1>1
    <2> QED
      BY <1>6, <2>2, <2>3
  <1>8. ASSUME NEW i \in 1..n
        PROVE  o[i] = o[i - 1] + Len(Enc(kind, xs[i])) /\ Holds(b, o[i - 1], Enc(kind, xs[i]))
    <2>1. i \in 0..n /\ i - 1 \in 0..n
      BY <1>1
    <2>2. o[i] = start + q[i] /\ o[i - 1] = start + q[i - 1]
      BY <2>1
    <2>3. Len(Enc(kind, xs[i])) \in Nat /\ q[i - 1] \in Nat /\ q[i] \in Nat
      BY <1>2, <2>1, LenProperties
    <2>4. q[i] = q[i - 1] + Len(Enc(kind, xs[i]))
      BY <1>3, <1>6
    <2>5. Holds(b, start + q[i - 1], Enc(kind, xs[i]))
      BY <1>3, <1>6
    <2> HIDE DEF o
    <2>6. start + (q[i - 1] + Len(Enc(kind, xs[i]))) = (start + q[i - 1]) + Len(Enc(kind, xs[i]))
      BY <2>3
    <2> QED
      BY <2>2, <2>4, <2>5, <2>6
  <1> HIDE DEF o
  <1>9. n \in 0..n
    BY <1>1
  <1>10. /\ o[n] <= Len(b) => st[n] = [ok |-> TRUE, off |-> o[n], items |-> SubSeq(xs, 1, n)]
         /\ o[n] > Len(b) => ~st[n].ok
    <2>1. /\ o \in [0..Len(xs) -> Nat] /\ o[0] <= Len(b)
          /\ IsLoop(st, kind, b, o[0], Len(xs))
      BY <1>7 DEF n
    <2>2. /\ \A i \in 1..Len(xs) : o[i] = o[i - 1] + Len(Enc(kind, xs[i]))
          /\ \A i \in 1..Len(xs) : Holds(b, o[i - 1], Enc(kind, xs[i]))
      BY <1>8 DEF n
    <2>3. n \in 0..Len(xs)
      BY <1>9 DEF n
    <2> QED
      BY <2>1, <2>2, <2>3, LoopRuns
  <1>11. SubSeq(xs, 1, n) = xs
    BY AllOfThem DEF n
  <1>12. Len(Concat(p)) \in Nat
    BY <1>5, LenProperties
  <1>13. ASSUME Len(b) = start + Len(Concat(p)) PROVE Result(st, n, b) = Ok(xs)
    <2>1. o[n] <= Len(b) /\ o[n] = Len(b)
      BY <1>1, <1>7, <1>13
    <2>2. st[n].ok /\ st[n].off = Len(b) /\ st[n].items = xs
      <3>1. st[n] = [ok |-> TRUE, off |-> o[n], items |-> SubSeq(xs, 1, n)]
        BY <1>10, <2>1
      <3>2. st[n] = [ok |-> TRUE, off |-> Len(b), items |-> xs]
        BY <1>11, <2>1, <3>1, Zenon
      <3> QED
        BY <3>2
    <2> QED
      BY <2>2 DEF Result
  <1>14. ASSUME Len(b) < start + Len(Concat(p)) PROVE Result(st, n, b) = Err
    <2>1. o[n] > Len(b)
      BY <1>1, <1>7, <1>12, <1>14
    <2> QED
      BY <1>10, <2>1 DEF Result
  <1> QED
    BY <1>5, <1>12, <1>13, <1>14 DEF n

LEMMA EntriesDecode ==
    ASSUME NEW es \in Seq(GoodEntry), Len(es) <= MaxDictEntries,
           NEW b \in Seq(Byte), Holds(b, 0, EncodeEntries(es))
    PROVE  /\ EncodeEntries(es) \in Seq(Byte)
           /\ Len(b) = Len(EncodeEntries(es)) => RustDecodeEntries(b) = Ok(es)
           /\ Len(b) < Len(EncodeEntries(es)) => RustDecodeEntries(b) = Err
  <1> DEFINE n == Len(es)  p == [i \in DOMAIN es |-> EncodeEntry(es[i])]  c == LE4(n)
  <1>1. n \in Nat /\ Len(b) \in Nat /\ n \in Word32 /\ n <= MaxDictEntries /\ MaxDictEntries \in Nat
    <2>1. n \in Nat /\ Len(b) \in Nat
      BY LenProperties
    <2>2. MaxDictEntries \in Word32
      BY CodecAssumption
    <2>3. MaxDictEntries \in Nat
      BY <2>2 DEF Word32
    <2> QED
      BY <2>1, <2>2, <2>3, LessWord
  <1>2. es \in Seq(Good("entries")) /\ p = [i \in DOMAIN es |-> Enc("entries", es[i])] /\ "entries" \in Kinds
    BY DEF Good, Enc, Kinds
  <1>3. EncodeEntries(es) = c \o Concat(p) /\ c \in Seq(Byte) /\ Len(c) = 4
    BY <1>1, LE4Bytes DEF EncodeEntries
  <1> HIDE DEF n, p, c
  <1>4. Concat(p) \in Seq(Byte)
    <2>1. p \in [1..n -> Seq(Byte)]
      <3>1. DOMAIN es = 1..n /\ \A i \in 1..n : es[i] \in GoodEntry
        BY LenProperties DEF n
      <3> QED
        BY <3>1, EntryParts DEF p
    <2>2. p \in Seq(Seq(Byte))
      BY <1>1, <2>1
    <2> QED
      BY <2>2, ConcatPlaces
  <1>5. EncodeEntries(es) \in Seq(Byte) /\ Len(EncodeEntries(es)) = 4 + Len(Concat(p)) /\ Len(Concat(p)) \in Nat
    <2>1. /\ c \o Concat(p) \in Seq(Byte) /\ Len(c \o Concat(p)) = Len(c) + Len(Concat(p))
          /\ Len(Concat(p)) \in Nat
      BY <1>3, <1>4, Joined, ZenonT(60)
    <2> QED
      BY <1>3, <2>1
  <1>6. Holds(b, 0, c) /\ Holds(b, 4, Concat(p))
    <2>1. Holds(b, 0, c \o Concat(p)) /\ 0 \in Nat
      BY <1>3
    <2>2. Holds(b, 0, c) /\ Holds(b, 0 + Len(c), Concat(p))
      BY <1>3, <1>4, <2>1, HoldsParts
    <2>3. 0 + Len(c) = 4
      BY <1>3
    <2> QED
      BY <2>2, <2>3
  <1>7. CASE Len(b) < 4
    <2>1. RustDecodeEntries(b) = Err
      BY <1>7 DEF RustDecodeEntries
    <2>2. ~(Len(b) = Len(EncodeEntries(es)))
      BY <1>1, <1>5, <1>7
    <2> QED
      BY <1>5, <2>1, <2>2
  <1>8. CASE 4 <= Len(b)
    <2>1. U32(b, 0) = n
      <3>1. 0 \in Nat /\ 0 + 4 <= Len(b)
        BY <1>1, <1>8
      <3> QED
        BY <1>1, <1>6, <3>1, Read32 DEF c
    <2>2. ~(Len(b) < 4 \/ n > MaxDictEntries)
      BY <1>1, <1>8
    <2>3. RustDecodeEntries(b) = Loop(b, 4, n, RustEntry)
      BY <2>1, <2>2 DEF RustDecodeEntries
    <2>4. PICK st : IsLoop(st, "entries", b, 4, n) /\ Loop(b, 4, n, RustEntry) = Result(st, n, b)
      BY <1>1, EntriesLoop
    <2>5. /\ Len(b) = 4 + Len(Concat(p)) => Result(st, n, b) = Ok(es)
          /\ Len(b) < 4 + Len(Concat(p)) => Result(st, n, b) = Err
      BY <1>2, <1>6, <1>8, <2>4, LoopDecodes DEF n
    <2> QED
      BY <1>5, <2>3, <2>4, <2>5
  <1> QED
    BY <1>1, <1>7, <1>8

LEMMA PayloadDecode ==
    ASSUME NEW fs \in Seq(GoodField), Len(fs) <= MaxFields,
           NEW b \in Seq(Byte), Holds(b, 0, EncodePayload(fs))
    PROVE  /\ EncodePayload(fs) \in Seq(Byte)
           /\ Len(b) = Len(EncodePayload(fs)) => RustDecodePayload(b) = Ok(fs)
           /\ Len(b) < Len(EncodePayload(fs)) => RustDecodePayload(b) = Err
  <1> DEFINE n == Len(fs)  p == [i \in DOMAIN fs |-> EncodeField(fs[i])]  c == LE2(n)
  <1>1. n \in Nat /\ Len(b) \in Nat /\ n \in Word16
    <2>1. n \in Nat /\ Len(b) \in Nat
      BY LenProperties
    <2>2. MaxFields \in Word16
      BY CodecAssumption
    <2> QED
      BY <2>1, <2>2 DEF Word16
  <1>2. fs \in Seq(Good("payload")) /\ p = [i \in DOMAIN fs |-> Enc("payload", fs[i])] /\ "payload" \in Kinds
    BY DEF Good, Enc, Kinds
  <1>3. EncodePayload(fs) = c \o Concat(p) /\ c \in Seq(Byte) /\ Len(c) = 2
    BY <1>1, LE2Bytes DEF EncodePayload
  <1> HIDE DEF n, p, c
  <1>4. Concat(p) \in Seq(Byte)
    <2>1. p \in [1..n -> Seq(Byte)]
      <3>1. DOMAIN fs = 1..n /\ \A i \in 1..n : fs[i] \in GoodField
        BY LenProperties DEF n
      <3> QED
        BY <3>1, FieldParts DEF p
    <2>2. p \in Seq(Seq(Byte))
      BY <1>1, <2>1
    <2> QED
      BY <2>2, ConcatPlaces
  <1>5. EncodePayload(fs) \in Seq(Byte) /\ Len(EncodePayload(fs)) = 2 + Len(Concat(p)) /\ Len(Concat(p)) \in Nat
    <2>1. /\ c \o Concat(p) \in Seq(Byte) /\ Len(c \o Concat(p)) = Len(c) + Len(Concat(p))
          /\ Len(Concat(p)) \in Nat
      BY <1>3, <1>4, Joined
    <2> QED
      BY <1>3, <2>1
  <1>6. Holds(b, 0, c) /\ Holds(b, 2, Concat(p))
    <2>1. Holds(b, 0, c \o Concat(p)) /\ 0 \in Nat
      BY <1>3
    <2>2. Holds(b, 0, c) /\ Holds(b, 0 + Len(c), Concat(p))
      BY <1>3, <1>4, <2>1, HoldsParts
    <2>3. 0 + Len(c) = 2
      BY <1>3
    <2> QED
      BY <2>2, <2>3
  <1>7. CASE Len(b) < 2
    <2>1. RustDecodePayload(b) = Err
      BY <1>7 DEF RustDecodePayload
    <2>2. ~(Len(b) = Len(EncodePayload(fs)))
      BY <1>1, <1>5, <1>7
    <2> QED
      BY <1>5, <2>1, <2>2
  <1>8. CASE 2 <= Len(b)
    <2>1. U16(b, 0) = n
      <3>1. 0 \in Nat /\ 0 + 2 <= Len(b)
        BY <1>1, <1>8
      <3> QED
        BY <1>1, <1>6, <3>1, Read16 DEF c
    <2>2. ~(Len(b) < 2)
      BY <1>1, <1>8
    <2>3. RustDecodePayload(b) = Loop(b, 2, n, RustField)
      BY <2>1, <2>2 DEF RustDecodePayload
    <2>4. PICK st : IsLoop(st, "payload", b, 2, n) /\ Loop(b, 2, n, RustField) = Result(st, n, b)
      BY <1>1, PayloadLoop
    <2>5. /\ Len(b) = 2 + Len(Concat(p)) => Result(st, n, b) = Ok(fs)
          /\ Len(b) < 2 + Len(Concat(p)) => Result(st, n, b) = Err
      BY <1>2, <1>6, <1>8, <2>4, LoopDecodes DEF n
    <2> QED
      BY <1>5, <2>3, <2>4, <2>5
  <1> QED
    BY <1>1, <1>7, <1>8

-----------------------------------------------------------------------------
(* Theorems *)

\* The encoding of an input, as Encode writes it.
Encoding(in) == IF in.kind = "entries" THEN EncodeEntries(in.items) ELSE EncodePayload(in.items)

Inputs == [kind : {"entries"}, items : Entries] \cup [kind : {"payload"}, items : Payloads]

\* What the codec has done so far.
CodecInv ==
    /\ input \in Inputs /\ pc \in {"encode", "decode", "done"}
    /\ \/ buf = <<>>
       \/ Encodable(input) /\ buf = Encoding(input)
    /\ pc = "decode" => Encodable(input) /\ buf = Encoding(input)
    /\ pc = "done" /\ buf # <<>> => rust = RustDecode(input.kind, buf)

\* What any input that can be encoded decodes to, from its encoding and from a
\* part of it.
LEMMA Decodes ==
    ASSUME NEW in \in Inputs, Encodable(in), NEW b \in Seq(Byte), Holds(b, 0, Encoding(in))
    PROVE  /\ Encoding(in) \in Seq(Byte)
           /\ Len(b) = Len(Encoding(in)) => RustDecode(in.kind, b) = Ok(in.items)
           /\ Len(b) < Len(Encoding(in)) => RustDecode(in.kind, b) = Err
  <1> DEFINE xs == in.items
  <1>1. CASE in.kind = "entries"
    <2>1. xs \in Seq(DictEntries) /\ EncodableEntries(xs)
      BY <1>1, CodecAssumption DEF Inputs, Encodable
    <2>2. Len(xs) <= MaxDictEntries /\ \A i \in 1..Len(xs) : xs[i] \in GoodEntry
      <3>1. DOMAIN xs = 1..Len(xs) /\ Len(xs) <= MaxDictEntries
        BY <2>1, LenProperties DEF EncodableEntries
      <3>2. ASSUME NEW i \in 1..Len(xs) PROVE xs[i] \in GoodEntry
        <4>1. xs[i] \in DictEntries /\ Len(xs[i].name) <= MaxNameLen
          BY <2>1, <3>1, LenProperties DEF EncodableEntries
        <4>2. Len(xs[i].name) \in Nat /\ MaxNameLen \in Word16
          BY <4>1, LenProperties, CodecAssumption DEF DictEntries
        <4>3. Len(xs[i].name) \in Word16
          BY <4>1, <4>2 DEF Word16
        <4> QED
          BY <4>1, <4>3 DEF GoodEntry
      <3> QED
        BY <3>1, <3>2
    <2>3. xs \in Seq(GoodEntry)
      BY <2>1, <2>2, LenProperties
    <2>4. Encoding(in) = EncodeEntries(xs) /\ RustDecode(in.kind, b) = RustDecodeEntries(b)
      BY <1>1 DEF Encoding, RustDecode
    <2>5. Holds(b, 0, EncodeEntries(xs))
      BY <2>4
    <2> QED
      BY <2>2, <2>3, <2>4, <2>5, EntriesDecode
  <1>2. CASE in.kind = "payload"
    <2>1. xs \in Seq(Fields) /\ EncodablePayload(xs)
      BY <1>2, CodecAssumption DEF Inputs, Encodable
    <2>2. Len(xs) <= MaxFields /\ \A i \in 1..Len(xs) : xs[i] \in GoodField
      BY <2>1, LenProperties DEF EncodablePayload, GoodField
    <2>3. xs \in Seq(GoodField)
      BY <2>1, <2>2, LenProperties
    <2>4. Encoding(in) = EncodePayload(xs) /\ RustDecode(in.kind, b) = RustDecodePayload(b)
      BY <1>2 DEF Encoding, RustDecode
    <2>5. Holds(b, 0, EncodePayload(xs))
      BY <2>4
    <2> QED
      BY <2>2, <2>3, <2>4, <2>5, PayloadDecode
  <1> QED
    BY <1>1, <1>2 DEF Inputs

\* A buffer holds itself, and a cut of it holds it as far as it goes.
LEMMA HoldsItself ==
    ASSUME NEW b \in Seq(Byte)
    PROVE  Holds(b, 0, b)
  BY LenProperties DEF Holds

LEMMA HoldsCut ==
    ASSUME NEW b \in Seq(Byte), NEW k \in 0..(Len(b) - 1)
    PROVE  /\ SubSeq(b, 1, k) \in Seq(Byte) /\ Len(SubSeq(b, 1, k)) = k
           /\ Holds(SubSeq(b, 1, k), 0, b)
  <1>1. Len(b) \in Nat /\ k \in Nat /\ k < Len(b) /\ \A i \in 1..Len(b) : b[i] \in Byte
    BY LenProperties
  <1> DEFINE c == SubSeq(b, 1, k)
  <1>2. /\ c \in Seq(Byte) /\ Len(c) = IF 1 <= k THEN k - 1 + 1 ELSE 0
        /\ \A i \in 1..(k - 1 + 1) : c[i] = b[1 + i - 1]
    <2>1. 1 \in Int /\ k \in Int /\ \A i \in 1..k : b[i] \in Byte
      BY <1>1
    <2> QED
      BY <2>1, SubSeqProperties
  <1> HIDE DEF c
  <1>3. Len(c) = k
    BY <1>1, <1>2
  <1>4. ASSUME NEW j \in 1..Len(b), 0 + j <= Len(c) PROVE c[0 + j] = b[j]
    <2>1. 0 + j = j /\ 1 + j - 1 = j /\ j \in 1..(k - 1 + 1)
      BY <1>1, <1>3, <1>4
    <2> QED
      BY <1>2, <2>1
  <1>5. Holds(c, 0, b)
    BY <1>4 DEF Holds
  <1> QED
    BY <1>2, <1>3, <1>5 DEF c

\* The encoding of an input that can be encoded is a sequence of bytes.
LEMMA EncodingType ==
    ASSUME NEW in \in Inputs, Encodable(in)
    PROVE  Encoding(in) \in Seq(Byte)
  <1>1. <<>> \in Seq(Byte) /\ Len(<<>>) = 0
    BY EmptySeq
  <1>2. \A j \in 1..Len(Encoding(in)) : ~(0 + j <= Len(<<>>))
    BY <1>1
  <1>3. Holds(<<>>, 0, Encoding(in))
    BY <1>2 DEF Holds
  <1> QED
    BY <1>1, <1>3, Decodes

\* The codec's invariant: what is decoded is the encoding of the input.
THEOREM CodecInvariant == Spec => []CodecInv
  <1>1. Init => CodecInv
    BY DEF Init, CodecInv, Inputs
  <1>2. CodecInv /\ [Next]_vars => CodecInv'
    <2> SUFFICES ASSUME CodecInv, [Next]_vars PROVE CodecInv'
      OBVIOUS
    <2>1. CASE Encode
      BY <2>1 DEF CodecInv, Encode, Encoding, Encodable
    <2>2. CASE Decode
      BY <2>2 DEF CodecInv, Decode, Encodable, Encoding
    <2>3. CASE UNCHANGED vars
      BY <2>3 DEF CodecInv, vars, Encoding, Encodable, RustDecode
    <2> QED
      BY <2>1, <2>2, <2>3 DEF Next
  <1> QED
    BY <1>1, <1>2, PTL DEF Spec

\* What crates/dtj encodes it decodes to the same records: every list of
\* dictionary entries and every typed payload within the limits.
THEOREM RoundTrip == Spec => []RustRoundTrip
  <1>1. CodecInv => RustRoundTrip
    <2> SUFFICES ASSUME CodecInv, Decoded PROVE rust = Ok(input.items)
      BY DEF RustRoundTrip
    <2>1. /\ input \in Inputs /\ Encodable(input) /\ buf = Encoding(input)
          /\ rust = RustDecode(input.kind, buf)
      BY DEF CodecInv, Decoded
    <2>2. Encoding(input) \in Seq(Byte)
      BY <2>1, EncodingType
    <2>3. Holds(buf, 0, Encoding(input))
      BY <2>1, <2>2, HoldsItself
    <2> QED
      BY <2>1, <2>2, <2>3, Decodes
  <1> QED
    BY <1>1, CodecInvariant, PTL

\* A cut payload is refused: no proper prefix of an encoding decodes.
THEOREM CutIsRefused == Spec => []PrefixRejected
  <1>1. CodecInv => PrefixRejected
    <2> SUFFICES ASSUME CodecInv, Decoded, NEW k \in 0..(Len(buf) - 1)
                 PROVE  ~RustDecode(input.kind, SubSeq(buf, 1, k)).ok
      BY DEF PrefixRejected
    <2> DEFINE b == SubSeq(buf, 1, k)
    <2>1. input \in Inputs /\ Encodable(input) /\ buf = Encoding(input)
      BY DEF CodecInv, Decoded
    <2>2. buf \in Seq(Byte)
      BY <2>1, EncodingType
    <2>3. b \in Seq(Byte) /\ Len(b) = k /\ Holds(b, 0, buf)
      BY <2>2, HoldsCut
    <2>4. Len(b) < Len(Encoding(input))
      BY <2>1, <2>2, <2>3, LenProperties
    <2> HIDE DEF b
    <2>5. RustDecode(input.kind, b) = Err
      BY <2>1, <2>3, <2>4, Decodes
    <2> QED
      BY <2>5 DEF b, Err
  <1> QED
    BY <1>1, CodecInvariant, PTL
=============================================================================
