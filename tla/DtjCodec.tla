------------------------------ MODULE DtjCodec ------------------------------
(***************************************************************************)
(* The byte layout of Dictionary chunk payloads and of typed field         *)
(* payloads: the encoders and decoders of crates/dtj (dict.rs, payload.rs) *)
(* and the decoders of the MCP server's own reader (dtj_native.py), which  *)
(* is used where the Rust module is not installed.  A buffer is a sequence *)
(* of bytes; offsets count from 0 as in the code.                          *)
(***************************************************************************)
EXTENDS Naturals, Sequences

CONSTANTS
    Entries,        \* lists of dictionary entries to encode
    Payloads,       \* lists of fields to encode
    MaxDictEntries, \* MAX_DICT_ENTRIES
    MaxNameLen,     \* MAX_DICT_NAME_LEN
    MaxFields,      \* u16::MAX, the most fields of a payload
    MaxBytesValue   \* MAX_BYTES_VALUE

VARIABLES
    input,      \* what is encoded: [kind, items]
    buf,        \* its encoding
    rust,       \* what crates/dtj decodes from it
    python,     \* what dtj_native.py decodes from it
    pc          \* encode, decode, done

vars == <<input, buf, rust, python, pc>>

-----------------------------------------------------------------------------
(* Bytes *)

Byte   == {n \in Nat : n < 256}
Word16 == {n \in Nat : n < 65536}
Word32 == {n \in Nat : n \div 65536 < 65536}

\* A number of two and of four bytes, the least significant byte first.
LE2(n) == <<n % 256, (n \div 256) % 256>>
LE4(n) == LE2(n % 65536) \o LE2(n \div 65536)

U16(b, off) == b[off + 1] + 256 * b[off + 2]
U32(b, off) == U16(b, off) + 65536 * U16(b, off + 2)

Slice(b, off, n) == SubSeq(b, off + 1, off + n)

\* The parts behind each other, as a loop of extend_from_slice leaves them.
Concat(parts) ==
    LET out[i \in 0..Len(parts)] == IF i = 0 THEN <<>> ELSE out[i - 1] \o parts[i]
    IN  out[Len(parts)]

Err == [ok |-> FALSE, items |-> <<>>]
Ok(items) == [ok |-> TRUE, items |-> items]

\* A decoding loop: `step' reads one item at an offset and returns the item
\* and the offset behind it, or fails; all of the buffer must be used.
Loop(b, start, count, step(_, _)) ==
    LET st[i \in 0..count] ==
            IF i = 0 THEN [ok |-> TRUE, off |-> start, items |-> <<>>]
            ELSE LET p == st[i - 1]
                     r == step(b, p.off)
                 IN  IF ~p.ok \/ ~r.ok THEN [ok |-> FALSE, off |-> p.off, items |-> <<>>]
                     ELSE [ok |-> TRUE, off |-> r.off, items |-> Append(p.items, r.item)]
    IN  IF st[count].ok /\ st[count].off = Len(b) THEN Ok(st[count].items) ELSE Err

Bad == [ok |-> FALSE, off |-> 0, item |-> 0]
Item(off, item) == [ok |-> TRUE, off |-> off, item |-> item]

-----------------------------------------------------------------------------
(* Dictionary entries: kind u8, id u32, name_len u16, name. *)

EncodeEntry(e) == <<e.kind>> \o LE4(e.id) \o LE2(Len(e.name)) \o e.name

\* encode_entries fails on too many entries and on a name over the limit.
EncodableEntries(es) ==
    Len(es) <= MaxDictEntries /\ \A i \in DOMAIN es : Len(es[i].name) <= MaxNameLen

EncodeEntries(es) == LE4(Len(es)) \o Concat([i \in DOMAIN es |-> EncodeEntry(es[i])])

\* An entry as DictEntry defines it.
DictEntries == [kind : 1..4, id : Word32, name : Seq(Byte)]

RustEntry(b, off) ==
    LET n == U16(b, off + 5)
    IN  IF off + 6 > Len(b) \/ off + 7 > Len(b) THEN Bad
        ELSE IF b[off + 1] \notin 1..4 \/ off + 7 + n > Len(b) THEN Bad
        ELSE Item(off + 7 + n, [kind |-> b[off + 1], id |-> U32(b, off + 1), name |-> Slice(b, off + 7, n)])

\* Mutant of RustDecodeEntries: a buffer without a count holds no entries.
RustDecodeEntriesLenient(b) ==
    IF Len(b) < 4 THEN Ok(<<>>) ELSE Loop(b, 4, U32(b, 0), RustEntry)

RustDecodeEntries(b) ==
    IF Len(b) < 4 \/ U32(b, 0) > MaxDictEntries THEN Err ELSE Loop(b, 4, U32(b, 0), RustEntry)

PyEntry(b, off) ==
    LET n == U16(b, off + 8)
    IN  IF off + 10 > Len(b) THEN Bad
        ELSE IF b[off + 1] \notin 1..4 \/ n > MaxNameLen \/ off + 10 + n > Len(b) THEN Bad
        ELSE Item(off + 10 + n, [kind |-> b[off + 1], id |-> U32(b, off + 4), name |-> Slice(b, off + 10, n)])

PyDecodeEntries(b) ==
    IF Len(b) < 4 \/ U32(b, 0) > MaxDictEntries THEN Err ELSE Loop(b, 4, U32(b, 0), PyEntry)

-----------------------------------------------------------------------------
(* Typed payloads: per field name_id u32, tag u8, reserved u8, value.  A    *)
(* value is its tag and its bytes; only BYTES has a length of its own.     *)

BytesTag == 12

FixedWidth == <<1, 4, 8, 4, 8, 4, 8, 4, 8, 12, 4>>

\* Mutant of EncodeField: the length of a BYTES value in two bytes.
EncodeFieldShort(f) ==
    LE4(f.name_id) \o <<f.tag, 0>>
    \o (IF f.tag = BytesTag THEN LE2(Len(f.data)) \o f.data ELSE f.data)

EncodeField(f) ==
    LE4(f.name_id) \o <<f.tag, 0>>
    \o (IF f.tag = BytesTag THEN LE4(Len(f.data)) \o f.data ELSE f.data)

\* TypedPayload::encode fails on too many fields and on a BYTES value over the
\* limit.
EncodablePayload(fs) ==
    /\ Len(fs) <= MaxFields
    /\ \A i \in DOMAIN fs : fs[i].tag = BytesTag => Len(fs[i].data) <= MaxBytesValue

EncodePayload(fs) == LE2(Len(fs)) \o Concat([i \in DOMAIN fs |-> EncodeField(fs[i])])

\* A field whose BYTES length is stored in `width' bytes, read by Num.
Field(b, off, width, Num(_, _)) ==
    LET tag  == b[off + 5]
        size == IF tag = BytesTag THEN Num(b, off + 6) ELSE FixedWidth[tag]
        skip == IF tag = BytesTag THEN width ELSE 0
    IN  IF off + 6 > Len(b) THEN Bad
        ELSE IF tag \notin 1..BytesTag \/ off + 6 + skip > Len(b) THEN Bad
        ELSE IF tag = BytesTag /\ size > MaxBytesValue THEN Bad
        ELSE IF off + 6 + skip + size > Len(b) THEN Bad
        ELSE Item(off + 6 + skip + size,
                  [name_id |-> U32(b, off), tag |-> tag, data |-> Slice(b, off + 6 + skip, size)])

RustField(b, off) == Field(b, off, 4, U32)
PyField(b, off)   == Field(b, off, 2, U16)

\* A field as Value and Field define it: the bytes of a value have the width of
\* its type, and a BOOL is one of two bytes.
Fields ==
    {f \in [name_id : Word32, tag : 1..BytesTag, data : Seq(Byte)] :
        /\ f.tag # BytesTag => Len(f.data) = FixedWidth[f.tag]
        /\ f.tag = 1 => f.data[1] \in {0, 1}}

RustDecodePayload(b) == IF Len(b) < 2 THEN Err ELSE Loop(b, 2, U16(b, 0), RustField)
PyDecodePayload(b)   == IF Len(b) < 2 THEN Err ELSE Loop(b, 2, U16(b, 0), PyField)

-----------------------------------------------------------------------------
\* What the types of the code guarantee: the limits are u32 and u16 constants
\* and the inputs are Vec<DictEntry> and Vec<Field>.
ASSUME CodecAssumption ==
    /\ MaxDictEntries \in Word32
    /\ MaxNameLen \in Word16 /\ MaxFields \in Word16 /\ MaxBytesValue \in Word16
    /\ \A es \in Entries : es \in Seq(DictEntries)
    /\ \A fs \in Payloads : fs \in Seq(Fields)

Encodable(in) ==
    IF in.kind = "entries" THEN EncodableEntries(in.items) ELSE EncodablePayload(in.items)

RustDecode(kind, b) == IF kind = "entries" THEN RustDecodeEntries(b) ELSE RustDecodePayload(b)

Init ==
    /\ input \in [kind : {"entries"}, items : Entries] \cup [kind : {"payload"}, items : Payloads]
    /\ buf = <<>> /\ rust = Err /\ python = Err
    /\ pc = "encode"

Encode ==
    /\ pc = "encode"
    /\ \/ /\ Encodable(input)
          /\ buf' = IF input.kind = "entries" THEN EncodeEntries(input.items) ELSE EncodePayload(input.items)
          /\ pc' = "decode"
       \/ /\ ~Encodable(input)
          /\ pc' = "done" /\ UNCHANGED buf
    /\ UNCHANGED <<input, rust, python>>

Decode ==
    /\ pc = "decode"
    /\ rust' = RustDecode(input.kind, buf)
    /\ python' = IF input.kind = "entries" THEN PyDecodeEntries(buf) ELSE PyDecodePayload(buf)
    /\ pc' = "done"
    /\ UNCHANGED <<input, buf>>

Next == Encode \/ Decode

Spec == Init /\ [][Next]_vars

-----------------------------------------------------------------------------
(* Properties *)

Decoded == pc = "done" /\ buf # <<>>

\* What crates/dtj encodes it decodes to the same records.
RustRoundTrip == Decoded => rust = Ok(input.items)

\* Self-delimiting: no proper prefix of an encoded payload decodes, so a cut
\* or a wrong length is reported, never read as fewer records.
PrefixRejected ==
    Decoded => \A k \in 0..(Len(buf) - 1) : ~RustDecode(input.kind, SubSeq(buf, 1, k)).ok

\* dtj_native.py, "Python port of crates/dtj SessionReader": what it decodes
\* from a Dictionary payload or a typed payload is what crates/dtj decodes.
PythonAgrees == Decoded => python = rust
=============================================================================
