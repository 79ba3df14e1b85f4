----------------------- MODULE JournalRecoveryProofs -----------------------
(***************************************************************************)
(* SessionWriter, for every instance: type correctness, the invariant of a *)
(* file that short writes may have torn, and crash safety; and, when no    *)
(* write is cut inside a chunk, the stronger invariant, what an open       *)
(* writer holds, and the refinement of JournalLog.  Then the writer and    *)
(* the reader together, for every instance: whatever I/O errors and        *)
(* crashes do to the file, SessionReader::open accepts the journal         *)
(* SessionWriter is writing, or has left behind, and returns a prefix of   *)
(* what append_event recorded; and that prefix covers what was promised,   *)
(* unless a short write left a chunk missing.                              *)
(***************************************************************************)
EXTENDS JournalRecovery, JournalCoreProofs, FiniteSetTheorems

-----------------------------------------------------------------------------
(* Types *)

\* A writer that is gone is a writer state: only its file matters.
LEMMA GoneType ==
    ASSUME NEW cells \in Seq(Cells)
    PROVE  Gone(cells) \in WriterStates
BY NewWriterType DEF Gone, WriterStates

LEMMA ResultType ==
    ASSUME NEW ok \in BOOLEAN
    PROVE  \A op \in Ops : Result(op, ok) \in [op : Ops, ok : BOOLEAN]
BY DEF Result

LEMMA InitType == Init => TypeOK
<1>1. <<>> \in Seq(Events)
  BY EmptySeq
<1>2. Result("none", TRUE) \in [op : Ops, ok : BOOLEAN]
  BY ResultType DEF Ops
<1>3. SUFFICES ASSUME Init PROVE TypeOK
  OBVIOUS
<1>4. accepted \in Seq(Events) /\ writer \in WriterStates /\ last \in [op : Ops, ok : BOOLEAN]
  BY <1>1, <1>2, <1>3, NewWriterType DEF Init
<1>5. header \in BOOLEAN /\ status \in Statuses /\ stable \in Nat /\ faults \in Nat
  BY <1>3 DEF Init, Statuses
<1>. QED BY <1>4, <1>5 DEF TypeOK

LEMMA FaultyType ==
    ASSUME TypeOK, NEW canFail \in BOOLEAN, Faulty(canFail)
    PROVE  faults' \in Nat
BY DEF TypeOK, Faulty

\* Every call of the writer, and a crash, keep the types.
LEMMA StepType ==
    ASSUME TypeOK, Next
    PROVE  TypeOK'
<1> USE DEF TypeOK
<1>1. CASE Create
  <2>1. last' \in [op : Ops, ok : BOOLEAN]
    BY <1>1, ResultType DEF Ops, Create
  <2>. QED BY <1>1, <2>1 DEF Create, Statuses
<1>2. CASE CreateFails
  <2>1. last' \in [op : Ops, ok : BOOLEAN]
    BY <1>2, ResultType DEF Ops, CreateFails
  <2>. QED BY <1>2, <2>1 DEF CreateFails, Statuses
<1>3. ASSUME NEW in \in InternInputs, InternName(in[1], in[2])
      PROVE  TypeOK'
  <2>1. in[1] \in Kinds /\ in[2] \in Names
    BY WriterAssumption
  <2>2. Intern(writer, in[1], in[2]) \in Outcomes
    BY <2>1, InternType
  <2>3. writer' \in WriterStates
    BY <1>3, <2>2 DEF InternName, Outcomes
  <2>4. last' \in [op : Ops, ok : BOOLEAN]
    BY <1>3, <2>2, ResultType DEF Ops, InternName, Outcomes
  <2>. QED BY <1>3, <2>3, <2>4 DEF InternName
<1>4. ASSUME NEW ev \in EventInputs, NEW canFail \in BOOLEAN, AppendCall(ev, canFail)
      PROVE  TypeOK'
  <2>1. ev \in Events
    BY WriterAssumption
  <2>2. PICK o \in AppendEvent(writer, ev, canFail) :
          /\ writer' = o.w
          /\ accepted' = IF o.w.next_event_seq = writer.next_event_seq THEN accepted
                         ELSE Append(accepted, [ev EXCEPT !.event_sequence = writer.next_event_seq])
          /\ stable' = IF o.ok /\ o.w.pending_events = <<>> THEN Len(accepted') ELSE stable
          /\ last' = Result("append", o.ok)
    BY <1>4 DEF AppendCall
  <2>3. o.w \in WriterStates /\ o.ok \in BOOLEAN
    BY <2>1, AppendType DEF Outcomes
  <2>4. accepted' \in Seq(Events)
    <3>1. [ev EXCEPT !.event_sequence = writer.next_event_seq] \in Events
      BY <2>1, PushedType
    <3>. QED BY <2>2, <3>1, AppendProperties
  <2>5. stable' \in Nat
    BY <2>2, <2>4, LenProperties
  <2>6. faults' \in Nat
    BY <1>4, FaultyType DEF AppendCall
  <2>9. last' \in [op : Ops, ok : BOOLEAN]
    BY <2>2, <2>3, ResultType DEF Ops
  <2>. QED BY <1>4, <2>2, <2>3, <2>4, <2>5, <2>6, <2>9 DEF AppendCall
<1>5. ASSUME NEW canFail \in BOOLEAN, FlushCall(canFail)
      PROVE  TypeOK'
  <2>1. PICK o \in FlushChunk(writer, canFail) :
          /\ writer' = o.w
          /\ stable' = IF o.ok THEN Len(accepted) ELSE stable
          /\ last' = Result("flush", o.ok)
    BY <1>5 DEF FlushCall
  <2>2. o.w \in WriterStates /\ o.ok \in BOOLEAN
    BY FlushChunkType DEF Outcomes
  <2>3. stable' \in Nat
    BY <2>1, LenProperties
  <2>4. faults' \in Nat
    BY <1>5, FaultyType DEF FlushCall
  <2>9. last' \in [op : Ops, ok : BOOLEAN]
    BY <2>1, <2>2, ResultType DEF Ops
  <2>. QED BY <1>5, <2>1, <2>2, <2>3, <2>4, <2>9 DEF FlushCall
<1>6. ASSUME NEW canFail \in BOOLEAN, FinishCall(canFail)
      PROVE  TypeOK'
  <2>1. PICK o \in Finish(writer, canFail) :
          /\ writer' = Gone(o.w.disk)
          /\ stable' = IF o.ok THEN Len(accepted) ELSE stable
          /\ last' = Result("finish", o.ok)
    BY <1>6 DEF FinishCall
  <2>2. o.w \in WriterStates /\ o.ok \in BOOLEAN
    BY FinishType DEF Outcomes
  <2>3. writer' \in WriterStates
    BY <2>1, <2>2, FieldTypes, GoneType
  <2>4. stable' \in Nat
    BY <2>1, LenProperties
  <2>5. faults' \in Nat
    BY <1>6, FaultyType DEF FinishCall
  <2>9. last' \in [op : Ops, ok : BOOLEAN]
    BY <2>1, <2>2, ResultType DEF Ops
  <2>. QED BY <1>6, <2>1, <2>2, <2>3, <2>4, <2>5, <2>9 DEF FinishCall, Statuses
<1>7. ASSUME NEW canFail \in BOOLEAN, DropCall(canFail)
      PROVE  TypeOK'
  <2>1. PICK d \in DropWriter(writer, canFail) : writer' = Gone(d.disk)
    BY <1>7 DEF DropCall
  <2>2. writer' \in WriterStates
    BY <2>1, DropType, FieldTypes, GoneType
  <2>3. faults' \in Nat
    BY <1>7, FaultyType DEF DropCall
  <2>9. last' \in [op : Ops, ok : BOOLEAN]
    BY <1>7, ResultType DEF Ops, DropCall
  <2>. QED BY <1>7, <2>2, <2>3, <2>9 DEF DropCall, Statuses
<1>8. CASE Crash
  <2>1. PICK image \in CrashImages(writer) : writer' = Gone(image)
    BY <1>8 DEF Crash
  <2>2. writer' \in WriterStates
    BY <2>1, CrashType, GoneType
  <2>9. last' \in [op : Ops, ok : BOOLEAN]
    BY <1>8, ResultType DEF Ops, Crash
  <2>. QED BY <1>8, <2>2, <2>9 DEF Crash, Statuses
<1>. QED BY <1>1, <1>2, <1>3, <1>4, <1>5, <1>6, <1>7, <1>8 DEF Next

\* Type correctness of writer.rs: whatever the calls, I/O errors and crashes,
\* the fields of the writer keep their types and the file holds only cells of
\* encoded chunks.
THEOREM TypeCorrect == Spec => []TypeOK
<1>1. Init => TypeOK
  BY InitType
<1>2. TypeOK /\ [Next]_vars => TypeOK'
  <2>1. CASE Next
    BY <2>1, StepType
  <2>2. CASE UNCHANGED vars
    BY <2>2 DEF vars, TypeOK
  <2>. QED BY <2>1, <2>2
<1>. QED BY <1>1, <1>2, PTL DEF Spec

-----------------------------------------------------------------------------
(* IndInv is an invariant *)

\* IndInv, with the types it needs, of any state.
LEMMA IndParts ==
    ASSUME TypeOK
    PROVE  IndInv <=> /\ Numbered(accepted)
                      /\ FileInv(writer.disk, accepted, stable)
                      /\ status = "new" => writer = NewWriter /\ accepted = <<>>
                      /\ status = "open" => WriterInv(writer, accepted)
                      /\ status # "open" => writer.buf = <<>>
BY DEF TypeOK, IndInv, Numbered, FileInv, Written

LEMMA GoneDisk ==
    ASSUME NEW cells
    PROVE  Gone(cells).disk = cells /\ Gone(cells).buf = <<>>
BY DEF Gone, NewWriter

LEMMA InitInd == Init => IndInv
<1>1. SUFFICES ASSUME Init PROVE IndInv
  OBVIOUS
<1>2. TypeOK
  BY <1>1, InitType
<1>3. writer = NewWriter /\ accepted = <<>> /\ stable = 0 /\ status = "new"
  BY <1>1 DEF Init
<1>4. NewWriter.buf = <<>>
  BY DEF NewWriter
<1>. QED BY <1>2, <1>3, <1>4, IndParts, NewInv

\* The same of the next state of a step that leaves the writer open, or ends
\* the session.
LEMMA IndNext ==
    ASSUME Numbered(accepted'), FileInv(writer'.disk, accepted', stable'),
           status' # "new", status' = "open" => WriterInv(writer', accepted'),
           status' # "open" => writer'.buf = <<>>
    PROVE  IndInv'
BY DEF IndInv, Numbered, FileInv, Written

\* append_event, whatever becomes of the flush it may trigger.
LEMMA AppendInd ==
    ASSUME ~PartialWrites, TypeOK, IndInv, NEW ev \in EventInputs, NEW canFail \in BOOLEAN,
           AppendCall(ev, canFail)
    PROVE  IndInv'
<1> DEFINE w == writer
           rec == [ev EXCEPT !.event_sequence = writer.next_event_seq]
           grown == Append(accepted, rec)
<1>1. ev \in Events /\ status = "open" /\ status' = "open"
  BY WriterAssumption DEF AppendCall
<1>2. w \in WriterStates /\ stable \in Nat
  BY DEF TypeOK
<1>3. Numbered(accepted) /\ FileInv(w.disk, accepted, stable) /\ WriterInv(w, accepted)
  BY <1>1, IndParts
<1>4. PICK o \in AppendEvent(w, ev, canFail) :
        /\ writer' = o.w
        /\ accepted' = IF o.w.next_event_seq = w.next_event_seq THEN accepted ELSE grown
        /\ stable' = IF o.ok /\ o.w.pending_events = <<>> THEN Len(accepted') ELSE stable
  BY DEF AppendCall
<1>5. status' # "new" /\ status' = "open"
  BY <1>1
<1>6. CASE o = Outcome(w, FALSE, 0)
  <2>1. o.w = w /\ ~o.ok
    BY <1>6 DEF Outcome
  <2>2. writer' = w /\ accepted' = accepted /\ stable' = stable
    BY <1>4, <2>1
  <2>. QED BY <1>3, <1>5, <2>2, IndNext
<1>7. CASE RefsResolve(w.dictionary, ev)
  <2> DEFINE v == Pushed(w, ev)
  <2>1. rec \in Events /\ rec.event_sequence = Len(accepted) + 1 /\ WriterInv(v, grown)
    BY <1>1, <1>2, <1>3, <1>7, InvPushed
  <2>2. v \in WriterStates
    BY <1>1, <1>2, PushedType
  <2>3. Numbered(grown)
    BY <1>3, <2>1, GrownProps
  <2>4. FileInv(w.disk, grown, stable)
    BY <1>2, <1>3, <2>1, FieldTypes, FileGrown
  <2>5. v.disk = w.disk /\ v.next_event_seq = w.next_event_seq + 1
        /\ v.pending_events = Append(w.pending_events, rec)
    BY <1>2 DEF Pushed, WriterStates
  <2>6. w.next_event_seq \in Nat /\ w.next_event_seq + 1 # w.next_event_seq
    <3>1. w.next_event_seq \in Nat
      BY <1>2, FieldTypes
    <3>. QED BY <3>1
  <2> HIDE DEF v, rec, grown, w
  <2>7. CASE o = Outcome(v, TRUE, w.next_event_seq)
    <3>1. o.w = v
      BY <2>7 DEF Outcome
    <3>2. v.pending_events # <<>>
      <4>1. w.pending_events \in Seq(Events)
        BY <1>2, FieldTypes
      <4>2. Len(Append(w.pending_events, rec)) = Len(w.pending_events) + 1 /\ Len(w.pending_events) \in Nat
        BY <2>1, <4>1, AppendProperties, LenProperties
      <4>3. Len(v.pending_events) # 0
        BY <2>5, <4>2
      <4>. QED BY <4>3, EmptySeq
    <3>3. writer' = v /\ accepted' = grown /\ stable' = stable
      BY <1>4, <2>5, <2>6, <3>1, <3>2
    <3>. QED BY <1>5, <2>1, <2>3, <2>4, <2>5, <3>3, IndNext
  <2>8. ASSUME NEW p \in FlushChunk(v, canFail), o = [p EXCEPT !.val = w.next_event_seq]
        PROVE  IndInv'
    <3>1. p \in Outcomes
      BY <2>2, FlushChunkType
    <3>2. o.w = p.w /\ o.ok = p.ok
      BY <2>8, <3>1 DEF Outcomes
    <3>3. Kept(p.w, v, grown) /\ (p.ok => AllWritten(p.w))
      BY <2>1, <2>2, <2>3, KeptFlushChunk
    <3>4. /\ p.w \in WriterStates /\ WriterInv(p.w, grown)
          /\ p.w.next_event_seq = v.next_event_seq
      BY <3>3 DEF Kept
    <3>5. writer' = p.w /\ accepted' = grown
      BY <1>4, <2>5, <2>6, <3>2, <3>4
    <3>6. FileInv(p.w.disk, grown, stable)
      BY <2>2, <2>4, <2>5, <3>3, FileAfter
    <3>7. CASE p.ok
      <4>1. stable' = Len(grown) \/ stable' = stable
        BY <1>4, <3>5
      <4>2. FileInv(p.w.disk, grown, Len(grown))
        BY <2>3, <3>3, <3>4, <3>7, FileComplete
      <4>. QED BY <1>5, <2>3, <3>4, <3>5, <3>6, <4>1, <4>2, IndNext
    <3>8. CASE ~p.ok
      <4>1. stable' = stable
        BY <1>4, <3>2, <3>8
      <4>. QED BY <1>5, <2>3, <3>4, <3>5, <3>6, <4>1, IndNext
    <3>. QED BY <3>7, <3>8
  <2>. QED BY <1>7, <2>7, <2>8, AppendSteps DEF v, w
<1>. QED BY <1>6, <1>7, AppendSteps

\* Every call and a crash keep the invariant.
LEMMA StepInd ==
    ASSUME ~PartialWrites, TypeOK, IndInv, Next
    PROVE  IndInv'
<1>1. writer \in WriterStates /\ stable \in Nat
  BY DEF TypeOK
<1>2. Numbered(accepted) /\ FileInv(writer.disk, accepted, stable)
  BY IndParts
<1>3. status = "open" => WriterInv(writer, accepted)
  BY IndParts
<1>4. CASE Create
  <2>1. status = "new" /\ status' = "open" /\ writer' = writer /\ accepted' = accepted /\ stable' = stable
    BY <1>4 DEF Create
  <2>2. writer = NewWriter /\ accepted = <<>>
    BY <2>1, IndParts
  <2>. QED BY <1>2, <2>1, <2>2, NewInv, IndNext
<1>5. CASE CreateFails
  <2>1. status = "new" /\ status' = "dropped" /\ writer' = writer /\ accepted' = accepted /\ stable' = stable
    BY <1>5 DEF CreateFails
  <2>2. writer.buf = <<>>
    BY <2>1, IndParts
  <2>. QED BY <1>2, <2>1, <2>2, IndNext
<1>6. ASSUME NEW in \in InternInputs, InternName(in[1], in[2])
      PROVE  IndInv'
  <2>1. in[1] \in Kinds /\ in[2] \in Names
    BY WriterAssumption
  <2>2. /\ status = "open" /\ status' = "open" /\ accepted' = accepted /\ stable' = stable
        /\ writer' = Intern(writer, in[1], in[2]).w
    BY <1>6 DEF InternName
  <2>3. WriterInv(writer', accepted) /\ writer'.disk = writer.disk
    BY <1>1, <1>3, <2>1, <2>2, InvIntern
  <2>. QED BY <1>2, <2>2, <2>3, IndNext
<1>7. ASSUME NEW ev \in EventInputs, NEW canFail \in BOOLEAN, AppendCall(ev, canFail)
      PROVE  IndInv'
  BY <1>7, AppendInd
<1>8. ASSUME NEW canFail \in BOOLEAN, FlushCall(canFail)
      PROVE  IndInv'
  <2>1. status = "open" /\ status' = "open" /\ accepted' = accepted
    BY <1>8 DEF FlushCall
  <2>2. PICK o \in FlushChunk(writer, canFail) :
           writer' = o.w /\ stable' = IF o.ok THEN Len(accepted) ELSE stable
    BY <1>8 DEF FlushCall
  <2>3. Kept(o.w, writer, accepted) /\ (o.ok => AllWritten(o.w))
    BY <1>1, <1>2, <1>3, <2>1, KeptFlushChunk
  <2>4. o.w \in WriterStates /\ WriterInv(o.w, accepted)
    BY <2>3 DEF Kept
  <2>5. FileInv(o.w.disk, accepted, stable)
    BY <1>1, <1>2, <2>3, FileAfter
  <2>6. o.ok => FileInv(o.w.disk, accepted, Len(accepted))
    BY <1>2, <2>3, <2>4, FileComplete
  <2>. QED BY <1>2, <2>1, <2>2, <2>4, <2>5, <2>6, IndNext
<1>9. ASSUME NEW canFail \in BOOLEAN, FinishCall(canFail)
      PROVE  IndInv'
  <2>1. status = "open" /\ status' = "finished" /\ accepted' = accepted
    BY <1>9 DEF FinishCall
  <2>2. PICK o \in Finish(writer, canFail) :
           writer' = Gone(o.w.disk) /\ stable' = IF o.ok THEN Len(accepted) ELSE stable
    BY <1>9 DEF FinishCall
  <2>3. /\ Kept(o.w, writer, accepted)
        /\ o.ok => \E p : Kept(p, writer, accepted) /\ AllWritten(p) /\ Kept(o.w, p, accepted)
    BY <1>1, <1>2, <1>3, <2>1, KeptFinish
  <2>4. FileInv(o.w.disk, accepted, stable)
    BY <1>1, <1>2, <2>3, FileAfter
  <2>5. ASSUME o.ok PROVE FileInv(o.w.disk, accepted, Len(accepted))
    <3>1. PICK p : Kept(p, writer, accepted) /\ AllWritten(p) /\ Kept(o.w, p, accepted)
      BY <2>3, <2>5
    <3>2. p \in WriterStates /\ WriterInv(p, accepted)
      BY <3>1 DEF Kept
    <3>3. FileInv(p.disk, accepted, Len(accepted))
      BY <1>2, <3>1, <3>2, FileComplete
    <3>. QED BY <3>1, <3>2, <3>3, FileAfter
  <2>6. writer'.disk = o.w.disk /\ writer'.buf = <<>>
    BY <2>2, GoneDisk
  <2>. QED BY <1>2, <2>1, <2>2, <2>4, <2>5, <2>6, IndNext
<1>10. ASSUME NEW canFail \in BOOLEAN, DropCall(canFail)
       PROVE  IndInv'
  <2>1. status = "open" /\ status' = "dropped" /\ accepted' = accepted /\ stable' = stable
    BY <1>10 DEF DropCall
  <2>2. PICK d \in DropWriter(writer, canFail) : writer' = Gone(d.disk)
    BY <1>10 DEF DropCall
  <2>3. Kept(d, writer, accepted)
    BY <1>1, <1>3, <2>1, KeptDrop
  <2>4. FileInv(d.disk, accepted, stable)
    BY <1>1, <1>2, <2>3, FileAfter
  <2>5. writer'.disk = d.disk /\ writer'.buf = <<>>
    BY <2>2, GoneDisk
  <2>. QED BY <1>2, <2>1, <2>4, <2>5, IndNext
<1>11. CASE Crash
  <2>1. status = "open" /\ status' = "crashed" /\ accepted' = accepted /\ stable' = stable
    BY <1>11 DEF Crash
  <2>2. PICK image \in CrashImages(writer) : writer' = Gone(image)
    BY <1>11 DEF Crash
  <2>3. Pre(writer.disk, image) /\ GoodCells(image, accepted)
    BY <1>1, <1>2, <1>3, <2>1, CrashKeeps
  <2>4. FileInv(image, accepted, stable)
    BY <1>2, <2>3, FileKept
  <2>5. writer'.disk = image /\ writer'.buf = <<>>
    BY <2>2, GoneDisk
  <2>. QED BY <1>2, <2>1, <2>4, <2>5, IndNext
<1>. QED BY <1>4, <1>5, <1>6, <1>7, <1>8, <1>9, <1>10, <1>11 DEF Next

\* The invariant of writer.rs: sequence numbers, chunk order, names before the
\* events that use them, and the split of recorded events between the file,
\* the buffer and pending_events, for every instance whose writes are not cut
\* inside a chunk.
THEOREM InductiveInvariant ==
    ASSUME ~PartialWrites
    PROVE  Spec => []IndInv
<1>1. Init => TypeOK /\ IndInv
  BY InitType, InitInd
<1>2. TypeOK /\ IndInv /\ [Next]_vars => (TypeOK /\ IndInv)'
  <2>1. SUFFICES ASSUME TypeOK, IndInv, [Next]_vars PROVE TypeOK' /\ IndInv'
    OBVIOUS
  <2>2. CASE Next
    BY <2>1, <2>2, StepType, StepInd
  <2>3. CASE UNCHANGED vars
    BY <2>1, <2>3 DEF vars, TypeOK, IndInv
  <2>. QED BY <2>1, <2>2, <2>3
<1>. QED BY <1>1, <1>2, PTL DEF Spec

-----------------------------------------------------------------------------
(* ShortInv is an invariant, whatever a failed write leaves behind *)

LEMMA ShortParts ==
    ASSUME TypeOK
    PROVE  ShortInv <=> /\ Numbered(accepted)
                        /\ ShortFile(writer.disk, accepted, stable)
                        /\ status = "new" => writer = NewWriter /\ accepted = <<>>
                        /\ status = "open" => OpenInv(writer, accepted)
                        /\ status # "open" => writer.buf = <<>>
BY DEF TypeOK, ShortInv, Numbered, ShortFile, Written, OpenInv

LEMMA NewShort == /\ Numbered(<<>>) /\ ShortFile(NewWriter.disk, <<>>, 0)
                  /\ OpenInv(NewWriter, <<>>)
<1>1. Numbered(<<>>) /\ FileInv(NewWriter.disk, <<>>, 0) /\ WriterInv(NewWriter, <<>>)
  BY NewInv
<1>. QED BY <1>1 DEF FileInv, ShortFile, SoundCells, OpenInv

LEMMA InitShort == Init => ShortInv
<1>1. SUFFICES ASSUME Init PROVE ShortInv
  OBVIOUS
<1>2. TypeOK
  BY <1>1, InitType
<1>3. writer = NewWriter /\ accepted = <<>> /\ stable = 0 /\ status = "new"
  BY <1>1 DEF Init
<1>4. NewWriter.buf = <<>>
  BY DEF NewWriter
<1>. QED BY <1>2, <1>3, <1>4, ShortParts, NewShort

LEMMA ShortNext ==
    ASSUME Numbered(accepted'), ShortFile(writer'.disk, accepted', stable'),
           status' # "new", status' = "open" => OpenInv(writer', accepted'),
           status' # "open" => writer'.buf = <<>>
    PROVE  ShortInv'
BY DEF ShortInv, Numbered, ShortFile, Written, OpenInv

\* append_event, whatever its writes leave behind.
LEMMA AppendShort ==
    ASSUME TypeOK, ShortInv, NEW ev \in EventInputs, NEW canFail \in BOOLEAN,
           AppendCall(ev, canFail)
    PROVE  ShortInv'
<1> DEFINE w == writer
           rec == [ev EXCEPT !.event_sequence = writer.next_event_seq]
           grown == Append(accepted, rec)
<1>1. ev \in Events /\ status = "open" /\ status' = "open"
  BY WriterAssumption DEF AppendCall
<1>2. w \in WriterStates /\ stable \in Nat
  BY DEF TypeOK
<1>3. Numbered(accepted) /\ ShortFile(w.disk, accepted, stable) /\ OpenInv(w, accepted)
  BY <1>1, ShortParts
<1>4. PICK o \in AppendEvent(w, ev, canFail) :
        /\ writer' = o.w
        /\ accepted' = IF o.w.next_event_seq = w.next_event_seq THEN accepted ELSE grown
        /\ stable' = IF o.ok /\ o.w.pending_events = <<>> THEN Len(accepted') ELSE stable
  BY DEF AppendCall
<1>5. status' # "new" /\ status' = "open"
  BY <1>1
<1>6. CASE o = Outcome(w, FALSE, 0)
  <2>1. o.w = w /\ ~o.ok
    BY <1>6 DEF Outcome
  <2>2. writer' = w /\ accepted' = accepted /\ stable' = stable
    BY <1>4, <2>1
  <2>. QED BY <1>3, <1>5, <2>2, ShortNext
<1>7. CASE RefsResolve(w.dictionary, ev)
  <2> DEFINE v == Pushed(w, ev)
  <2>1. rec \in Events /\ rec.event_sequence = Len(accepted) + 1 /\ OpenInv(v, grown)
    BY <1>1, <1>2, <1>3, <1>7, OpenPushed
  <2>2. v \in WriterStates
    BY <1>1, <1>2, PushedType
  <2>3. Numbered(grown)
    BY <1>3, <2>1, GrownProps
  <2>4. ShortFile(w.disk, grown, stable)
    BY <1>2, <1>3, <2>1, FieldTypes, ShortGrown
  <2>5. v.disk = w.disk /\ v.next_event_seq = w.next_event_seq + 1
        /\ v.pending_events = Append(w.pending_events, rec)
    BY <1>2 DEF Pushed, WriterStates
  <2>6. w.next_event_seq \in Nat /\ w.next_event_seq + 1 # w.next_event_seq
    <3>1. w.next_event_seq \in Nat
      BY <1>2, FieldTypes
    <3>. QED BY <3>1
  <2> HIDE DEF v, rec, grown, w
  <2>7. CASE o = Outcome(v, TRUE, w.next_event_seq)
    <3>1. o.w = v
      BY <2>7 DEF Outcome
    <3>2. v.pending_events # <<>>
      <4>1. w.pending_events \in Seq(Events)
        BY <1>2, FieldTypes
      <4>2. Len(Append(w.pending_events, rec)) = Len(w.pending_events) + 1 /\ Len(w.pending_events) \in Nat
        BY <2>1, <4>1, AppendProperties, LenProperties
      <4>3. Len(v.pending_events) # 0
        BY <2>5, <4>2
      <4>. QED BY <4>3, EmptySeq
    <3>3. writer' = v /\ accepted' = grown /\ stable' = stable
      BY <1>4, <2>5, <2>6, <3>1, <3>2
    <3>. QED BY <1>5, <2>1, <2>3, <2>4, <2>5, <3>3, ShortNext
  <2>8. ASSUME NEW p \in FlushChunk(v, canFail), o = [p EXCEPT !.val = w.next_event_seq]
        PROVE  ShortInv'
    <3>1. p \in Outcomes
      BY <2>2, FlushChunkType
    <3>2. o.w = p.w /\ o.ok = p.ok
      BY <2>8, <3>1 DEF Outcomes
    <3>3. Goes(p.w, v, grown) /\ (p.ok => AllWritten(p.w) /\ p.w.pending_dict = <<>>)
      BY <2>1, <2>2, <2>3, GoesFlushChunk
    <3>4. /\ p.w \in WriterStates /\ OpenInv(p.w, grown)
          /\ p.w.next_event_seq = v.next_event_seq
      BY <3>3 DEF Goes
    <3>5. writer' = p.w /\ accepted' = grown
      BY <1>4, <2>5, <2>6, <3>2, <3>4
    <3>6. ShortFile(p.w.disk, grown, stable)
      BY <2>2, <2>4, <2>5, <3>3, ShortAfter
    <3>7. CASE p.ok
      <4>1. stable' = Len(grown) \/ stable' = stable
        BY <1>4, <3>5
      <4>2. ShortFile(p.w.disk, grown, Len(grown))
        BY <2>3, <3>3, <3>4, <3>7, ShortComplete
      <4>. QED BY <1>5, <2>3, <3>4, <3>5, <3>6, <4>1, <4>2, ShortNext
    <3>8. CASE ~p.ok
      <4>1. stable' = stable
        BY <1>4, <3>2, <3>8
      <4>. QED BY <1>5, <2>3, <3>4, <3>5, <3>6, <4>1, ShortNext
    <3>. QED BY <3>7, <3>8
  <2>. QED BY <1>7, <2>7, <2>8, AppendSteps DEF v, w
<1>. QED BY <1>6, <1>7, AppendSteps

\* Every call and a crash keep ShortInv.
LEMMA StepShort ==
    ASSUME TypeOK, ShortInv, Next
    PROVE  ShortInv'
<1>1. writer \in WriterStates /\ stable \in Nat
  BY DEF TypeOK
<1>2. Numbered(accepted) /\ ShortFile(writer.disk, accepted, stable)
  BY ShortParts
<1>3. status = "open" => OpenInv(writer, accepted)
  BY ShortParts
<1>4. CASE Create
  <2>1. status = "new" /\ status' = "open" /\ writer' = writer /\ accepted' = accepted /\ stable' = stable
    BY <1>4 DEF Create
  <2>2. writer = NewWriter /\ accepted = <<>>
    BY <2>1, ShortParts
  <2>. QED BY <1>2, <2>1, <2>2, NewShort, ShortNext
<1>5. CASE CreateFails
  <2>1. status = "new" /\ status' = "dropped" /\ writer' = writer /\ accepted' = accepted /\ stable' = stable
    BY <1>5 DEF CreateFails
  <2>2. writer.buf = <<>>
    BY <2>1, ShortParts
  <2>. QED BY <1>2, <2>1, <2>2, ShortNext
<1>6. ASSUME NEW in \in InternInputs, InternName(in[1], in[2])
      PROVE  ShortInv'
  <2>1. in[1] \in Kinds /\ in[2] \in Names
    BY WriterAssumption
  <2>2. /\ status = "open" /\ status' = "open" /\ accepted' = accepted /\ stable' = stable
        /\ writer' = Intern(writer, in[1], in[2]).w
    BY <1>6 DEF InternName
  <2>3. OpenInv(writer', accepted) /\ writer'.disk = writer.disk
    BY <1>1, <1>3, <2>1, <2>2, OpenIntern
  <2>. QED BY <1>2, <2>2, <2>3, ShortNext
<1>7. ASSUME NEW ev \in EventInputs, NEW canFail \in BOOLEAN, AppendCall(ev, canFail)
      PROVE  ShortInv'
  BY <1>7, AppendShort
<1>8. ASSUME NEW canFail \in BOOLEAN, FlushCall(canFail)
      PROVE  ShortInv'
  <2>1. status = "open" /\ status' = "open" /\ accepted' = accepted
    BY <1>8 DEF FlushCall
  <2>2. PICK o \in FlushChunk(writer, canFail) :
           writer' = o.w /\ stable' = IF o.ok THEN Len(accepted) ELSE stable
    BY <1>8 DEF FlushCall
  <2>3. Goes(o.w, writer, accepted) /\ (o.ok => AllWritten(o.w) /\ o.w.pending_dict = <<>>)
    BY <1>1, <1>2, <1>3, <2>1, GoesFlushChunk
  <2>4. o.w \in WriterStates /\ OpenInv(o.w, accepted)
    BY <2>3 DEF Goes
  <2>5. ShortFile(o.w.disk, accepted, stable)
    BY <1>1, <1>2, <2>3, ShortAfter
  <2>6. o.ok => ShortFile(o.w.disk, accepted, Len(accepted))
    BY <1>2, <2>3, <2>4, ShortComplete
  <2>. QED BY <1>2, <2>1, <2>2, <2>4, <2>5, <2>6, ShortNext
<1>9. ASSUME NEW canFail \in BOOLEAN, FinishCall(canFail)
      PROVE  ShortInv'
  <2>1. status = "open" /\ status' = "finished" /\ accepted' = accepted
    BY <1>9 DEF FinishCall
  <2>2. PICK o \in Finish(writer, canFail) :
           writer' = Gone(o.w.disk) /\ stable' = IF o.ok THEN Len(accepted) ELSE stable
    BY <1>9 DEF FinishCall
  <2>3. /\ Goes(o.w, writer, accepted)
        /\ o.ok => \E p : /\ Goes(p, writer, accepted) /\ AllWritten(p) /\ p.pending_dict = <<>>
                       /\ Goes(o.w, p, accepted)
    BY <1>1, <1>2, <1>3, <2>1, GoesFinish
  <2>4. ShortFile(o.w.disk, accepted, stable)
    BY <1>1, <1>2, <2>3, ShortAfter
  <2>5. ASSUME o.ok PROVE ShortFile(o.w.disk, accepted, Len(accepted))
    <3>1. PICK p :
                       /\ Goes(p, writer, accepted) /\ AllWritten(p) /\ p.pending_dict = <<>>
                       /\ Goes(o.w, p, accepted)
      BY <2>3, <2>5
    <3>2. p \in WriterStates /\ OpenInv(p, accepted)
      BY <3>1 DEF Goes
    <3>3. ShortFile(p.disk, accepted, Len(accepted))
      BY <1>2, <3>1, <3>2, ShortComplete
    <3>. QED BY <3>1, <3>2, <3>3, ShortAfter
  <2>6. writer'.disk = o.w.disk /\ writer'.buf = <<>>
    BY <2>2, GoneDisk
  <2>. QED BY <1>2, <2>1, <2>2, <2>4, <2>5, <2>6, ShortNext
<1>10. ASSUME NEW canFail \in BOOLEAN, DropCall(canFail)
       PROVE  ShortInv'
  <2>1. status = "open" /\ status' = "dropped" /\ accepted' = accepted /\ stable' = stable
    BY <1>10 DEF DropCall
  <2>2. PICK d \in DropWriter(writer, canFail) : writer' = Gone(d.disk)
    BY <1>10 DEF DropCall
  <2>3. Goes(d, writer, accepted)
    BY <1>1, <1>3, <2>1, GoesDrop
  <2>4. ShortFile(d.disk, accepted, stable)
    BY <1>1, <1>2, <2>3, ShortAfter
  <2>5. writer'.disk = d.disk /\ writer'.buf = <<>>
    BY <2>2, GoneDisk
  <2>. QED BY <1>2, <2>1, <2>4, <2>5, ShortNext
<1>11. CASE Crash
  <2>1. status = "open" /\ status' = "crashed" /\ accepted' = accepted /\ stable' = stable
    BY <1>11 DEF Crash
  <2>2. PICK image \in CrashImages(writer) : writer' = Gone(image)
    BY <1>11 DEF Crash
  <2>3. Pre(writer.disk, image) /\ SoundCells(image, accepted)
    BY <1>1, <1>2, <1>3, <2>1, CrashGoes
  <2>4. ShortFile(image, accepted, stable)
    BY <1>2, <2>3, ShortKept
  <2>5. writer'.disk = image /\ writer'.buf = <<>>
    BY <2>2, GoneDisk
  <2>. QED BY <1>2, <2>1, <2>4, <2>5, ShortNext
<1>. QED BY <1>4, <1>5, <1>6, <1>7, <1>8, <1>9, <1>10, <1>11 DEF Next

\* The invariant of writer.rs for every instance: after an I/O error in the
\* middle of a chunk too, the file is sound up to the fragment, and recorded
\* events keep their numbers.
THEOREM ShortWriteInvariant == Spec => []ShortInv
<1>1. Init => TypeOK /\ ShortInv
  BY InitType, InitShort
<1>2. TypeOK /\ ShortInv /\ [Next]_vars => (TypeOK /\ ShortInv)'
  <2>1. SUFFICES ASSUME TypeOK, ShortInv, [Next]_vars PROVE TypeOK' /\ ShortInv'
    OBVIOUS
  <2>2. CASE Next
    BY <2>1, <2>2, StepType, StepShort
  <2>3. CASE UNCHANGED vars
    BY <2>1, <2>3 DEF vars, TypeOK, ShortInv
  <2>. QED BY <2>1, <2>2, <2>3
<1>. QED BY <1>1, <1>2, PTL DEF Spec

-----------------------------------------------------------------------------
(* What a crash leaves *)

\* Every cut of the file reads like whole chunks of the history.
LEMMA CutReads ==
    ASSUME TypeOK, ShortInv, NEW k \in 0..Len(writer.disk)
    PROVE  \E g \in Seq(Cells) :
              /\ GoodCells(g, accepted)
              /\ EventsIn(SubSeq(writer.disk, 1, k)) = EventsIn(g)
              /\ EntriesIn(SubSeq(writer.disk, 1, k)) = EntriesIn(g)
<1> DEFINE c == SubSeq(writer.disk, 1, k)
<1>1. writer.disk \in Seq(Cells)
  BY FieldTypes DEF TypeOK
<1>2. c \in Seq(Cells)
  BY <1>1, CutProps
<1>3. Pre(c, writer.disk)
  BY <1>1, PreCut
<1>4. SoundCells(writer.disk, accepted)
  BY DEF ShortInv
<1>5. SoundCells(c, accepted)
  BY <1>3, <1>4, SoundPrefix
<1>. QED BY <1>2, <1>5, SoundRead

LEMMA ShortRecoverable ==
    ASSUME TypeOK, ShortInv
    PROVE  RecoverablePrefix
<1>1. SUFFICES ASSUME NEW k \in 0..Len(writer.disk)
               PROVE  LET found == EventsIn(SubSeq(writer.disk, 1, k))
                      IN  /\ found \subseteq RangeOf(accepted)
                          /\ \A i, j \in 1..Len(accepted) :
                                i < j /\ accepted[j] \in found => accepted[i] \in found
  BY DEF RecoverablePrefix
<1>2. PICK c \in Seq(Cells) : /\ GoodCells(c, accepted)
                              /\ EventsIn(SubSeq(writer.disk, 1, k)) = EventsIn(c)
  BY CutReads
<1>3. ChunksInOrder(c) /\ EventsInOrder(c, accepted) /\ Len(c) \in Nat
  BY <1>2, LenProperties DEF GoodCells
<1>4. EventsIn(c) \subseteq RangeOf(accepted)
  <2>1. ASSUME NEW ev \in EventsIn(c) PROVE ev \in RangeOf(accepted)
    <3>1. PICK n \in 1..Len(c) : HasEvent(c, n, ev)
      BY <1>3, EventsRead DEF Written
    <3>. QED BY <1>3, <3>1 DEF EventsInOrder, HasEvent
  <2>. QED BY <2>1
<1>5. ASSUME NEW i \in 1..Len(accepted), NEW j \in 1..Len(accepted), i < j, accepted[j] \in EventsIn(c)
      PROVE  accepted[i] \in EventsIn(c)
  <2>1. PICK n \in 1..Len(c) : HasEvent(c, n, accepted[j])
    BY <1>3, <1>5, EventsRead DEF Written
  <2>2. i \in 1..(j - 1)
    BY <1>5
  <2>3. PICK m \in 1..n : HasEvent(c, m, accepted[i])
    BY <1>3, <2>1, <2>2 DEF EventsInOrder
  <2>4. m \in 1..Len(c)
    BY <1>3
  <2>5. Written(c, accepted[i])
    BY <2>3, <2>4 DEF Written
  <2>. QED BY <1>3, <2>5, EventsRead
<1>. QED BY <1>2, <1>4, <1>5

LEMMA ShortRefs ==
    ASSUME TypeOK, ShortInv
    PROVE  RefsRecoverable
<1>1. SUFFICES ASSUME NEW k \in 0..Len(writer.disk), NEW ev \in EventsIn(SubSeq(writer.disk, 1, k)),
                      NEW r \in ev.refs
               PROVE  r \in {Key(e) : e \in EntriesIn(SubSeq(writer.disk, 1, k))}
  BY DEF RefsRecoverable
<1>2. PICK c \in Seq(Cells) : /\ GoodCells(c, accepted)
                              /\ EventsIn(SubSeq(writer.disk, 1, k)) = EventsIn(c)
                              /\ EntriesIn(SubSeq(writer.disk, 1, k)) = EntriesIn(c)
  BY CutReads
<1>3. accepted \in Seq(Events)
  BY DEF TypeOK
<1>4. /\ ChunksInOrder(c) /\ EventsInOrder(c, accepted) /\ RefsInOrder(c, accepted)
      /\ Len(c) \in Nat
  BY <1>2, LenProperties DEF GoodCells
<1>5. ev \in EventsIn(c)
  BY <1>2
<1>6. PICK n \in 1..Len(c) : HasEvent(c, n, ev)
  BY <1>4, <1>5, EventsRead DEF Written
<1>7. ev \in RangeOf(accepted)
  BY <1>4, <1>6 DEF EventsInOrder, HasEvent
<1>8. PICK i \in 1..Len(accepted) : ev = accepted[i]
  BY <1>3, <1>7, RangeProps
<1>9. PICK j \in 1..(n - 1) : Defines(c, j, r)
  BY <1>4, <1>6, <1>8 DEF RefsInOrder
<1>10. j \in 1..Len(c)
  BY <1>4
<1>11. r \in {Key(e) : e \in EntriesIn(c)}
  BY <1>4, <1>9, <1>10, EntriesRead
<1>. QED BY <1>2, <1>11

LEMMA IndStable ==
    ASSUME TypeOK, IndInv
    PROVE  StableRecoverable
<1>1. writer.disk \in Seq(Cells)
  BY FieldTypes DEF TypeOK
<1>2. Len(writer.disk) \in Nat
  BY <1>1, LenProperties
<1>3. ChunksInOrder(writer.disk) /\ \A n \in 1..stable : Written(writer.disk, accepted[n])
  BY DEF IndInv, GoodCells, Written
<1>. QED BY <1>2, <1>3, EventsRead DEF StableRecoverable

\* Crash recovery, for every instance: cut the file anywhere, at any moment,
\* after a short write too, and its whole chunks hold a prefix of what
\* append_event recorded.
THEOREM CrashLeavesPrefix == Spec => []RecoverablePrefix
<1>1. TypeOK /\ ShortInv => RecoverablePrefix
  BY ShortRecoverable
<1>. QED BY <1>1, ShortWriteInvariant, TypeCorrect, PTL

\* flush_chunk writes names before the events that use them: every cut of the
\* file, after a short write too, defines every id its events mention.
THEOREM CrashLeavesDictionary == Spec => []RefsRecoverable
<1>1. TypeOK /\ ShortInv => RefsRecoverable
  BY ShortRefs
<1>. QED BY <1>1, ShortWriteInvariant, TypeCorrect, PTL

\* An Ok from flush_chunk, finish or a flushing append_event is never taken
\* back: what it covered is in the file, through later errors and crashes.
THEOREM FlushIsKept ==
    ASSUME ~PartialWrites
    PROVE  Spec => []StableRecoverable
<1>1. TypeOK /\ IndInv => StableRecoverable
  BY IndStable
<1>2. Spec => []IndInv
  BY InductiveInvariant
<1>. QED BY <1>1, <1>2, TypeCorrect, PTL

-----------------------------------------------------------------------------
(* What an open writer holds *)

LEMMA IndNothingLost ==
    ASSUME TypeOK, IndInv
    PROVE  NothingLostWhileOpen
<1>1. SUFFICES ASSUME status = "open"
               PROVE  /\ RangeOf(writer.pending_events) \cap EventsIn(Stream(writer)) = {}
                      /\ RangeOf(writer.pending_events) \cup EventsIn(Stream(writer)) = RangeOf(accepted)
  BY DEF NothingLostWhileOpen
<1> DEFINE pending == RangeOf(writer.pending_events)
           sealed == EventsIn(Stream(writer))
           base == Sealed(writer, accepted)
<1>2. writer \in WriterStates /\ Numbered(accepted) /\ WriterInv(writer, accepted)
  BY <1>1, IndParts DEF TypeOK
<1>3. /\ sealed \subseteq RangeOf(accepted) /\ pending \subseteq RangeOf(accepted)
      /\ \A n \in 1..Len(accepted) : accepted[n] \in sealed <=> n <= base
      /\ \A n \in 1..Len(accepted) : accepted[n] \in pending <=> base < n
  BY <1>2, WhereEventsAre
<1>4. \A x \in RangeOf(accepted) : \E n \in 1..Len(accepted) : x = accepted[n]
  BY <1>2, RangeProps DEF Numbered
<1>5. base \in Nat
  BY <1>2, InvFacts
<1> HIDE DEF pending, sealed, base
<1>6. \A n \in 1..Len(accepted) : accepted[n] \in sealed <=> accepted[n] \notin pending
  BY <1>3, <1>5
<1>7. pending \cap sealed = {} /\ pending \cup sealed = RangeOf(accepted)
  BY <1>3, <1>4, <1>6
<1>. QED BY <1>7 DEF pending, sealed

LEMMA IndDictionary ==
    ASSUME TypeOK, IndInv
    PROVE  DictionaryConsistent
<1>1. writer \in WriterStates /\ Numbered(accepted)
  BY IndParts DEF TypeOK
<1>2. CASE status = "open"
  <2>1. WriterInv(writer, accepted)
    BY <1>2, IndParts
  <2>2. EntriesIn(Stream(writer)) \cup RangeOf(writer.pending_dict) = writer.dictionary.entries
    BY <1>1, <2>1, WhereEntriesAre
  <2>3. \A e, f \in writer.dictionary.entries : e.kind = f.kind /\ (e.id = f.id \/ e.name = f.name) => e = f
    BY <2>1 DEF WriterInv, DictInv, Alike
  <2>. QED BY <1>2, <2>2, <2>3 DEF DictionaryConsistent
<1>3. CASE status # "open"
  <2>1. writer.disk \in Seq(Cells) /\ writer.buf = <<>>
    BY <1>1, <1>3, FieldTypes, IndParts
  <2>2. Stream(writer) = writer.disk
    BY <2>1, ConcatEmptySeq DEF Stream
  <2>3. ChunksInOrder(writer.disk) /\ EntriesExact(writer.disk)
    BY DEF IndInv, GoodCells
  <2>4. \A e, f \in EntriesIn(writer.disk) : e.kind = f.kind /\ (e.id = f.id \/ e.name = f.name) => e = f
    BY <2>1, <2>3, EntriesUnique DEF Alike
  <2>. QED BY <1>3, <2>2, <2>4 DEF DictionaryConsistent
<1>. QED BY <1>2, <1>3

\* A failed flush_chunk loses no event and doubles none: while the writer is
\* open each recorded event is in a sealed chunk or pending, never both.
THEOREM NothingLost ==
    ASSUME ~PartialWrites
    PROVE  Spec => []NothingLostWhileOpen
<1>1. TypeOK /\ IndInv => NothingLostWhileOpen
  BY IndNothingLost
<1>2. Spec => []IndInv
  BY InductiveInvariant
<1>. QED BY <1>1, <1>2, TypeCorrect, PTL

\* intern and flush_chunk: no id has two names and no name two ids, in the
\* writer and in the chunks a reader rebuilds the dictionary from, and while
\* the writer is open no interned name is missing from both.
THEOREM DictionariesAgree ==
    ASSUME ~PartialWrites
    PROVE  Spec => []DictionaryConsistent
<1>1. TypeOK /\ IndInv => DictionaryConsistent
  BY IndDictionary
<1>2. Spec => []IndInv
  BY InductiveInvariant
<1>. QED BY <1>1, <1>2, TypeCorrect, PTL

-----------------------------------------------------------------------------
(* The writer implements JournalLog *)

\* How many events a reader recovers.
Visible(c) == Cardinality(EventsIn(c))

\* A history has as many events as positions: its first k are k events.
LEMMA FirstEvents ==
    ASSUME NEW acc, Numbered(acc), NEW k \in 0..Len(acc)
    PROVE  /\ IsFiniteSet({acc[n] : n \in 1..k})
           /\ Cardinality({acc[n] : n \in 1..k}) = k
<1> DEFINE T == {acc[n] : n \in 1..k}
           f == [n \in 1..k |-> acc[n]]
<1>1. acc \in Seq(Events) /\ \A n \in 1..Len(acc) : acc[n].event_sequence = n
  BY DEF Numbered
<1>2. Len(acc) \in Nat /\ k \in Nat
  BY <1>1, LenProperties
<1>3. \A n \in 1..k : n \in 1..Len(acc)
  BY <1>2
<1>4. \A i, j \in 1..k : acc[i] = acc[j] => i = j
  BY <1>1, <1>3
<1>5. f \in Bijection(1..k, T)
  BY <1>4 DEF Bijection, Injection, Surjection, IsInjective
<1>6. ExistsBijection(1..k, T)
  BY <1>5 DEF ExistsBijection
<1>7. IsFiniteSet(1..k) /\ Cardinality(1..k) = k
  <2>1. 1 \in Int /\ k \in Int
    BY <1>2
  <2>2. IsFiniteSet(1..k) /\ Cardinality(1..k) = IF 1 > k THEN 0 ELSE k - 1 + 1
    BY <2>1, FS_Interval
  <2>3. (IF 1 > k THEN 0 ELSE k - 1 + 1) = k
    BY <1>2
  <2>. QED BY <2>2, <2>3
<1> HIDE DEF T
<1>8. IsFiniteSet(T) /\ Cardinality(T) = Cardinality(1..k)
  BY <1>6, <1>7, FS_Bijection
<1>. QED BY <1>7, <1>8 DEF T

\* The events of a sound file are between the promised ones and all of them.
LEMMA VisibleBounds ==
    ASSUME NEW c \in Seq(Cells), NEW acc, Numbered(acc), NEW st \in Nat, FileInv(c, acc, st)
    PROVE  /\ IsFiniteSet(EventsIn(c)) /\ Visible(c) \in Nat
           /\ st <= Visible(c) /\ Visible(c) <= Len(acc)
<1> DEFINE first == {acc[n] : n \in 1..st}
           all == {acc[n] : n \in 1..Len(acc)}
<1>1. Len(c) \in Nat /\ Len(acc) \in Nat /\ acc \in Seq(Events)
  BY LenProperties DEF Numbered
<1>2. /\ ChunksInOrder(c) /\ EventsInOrder(c, acc) /\ st <= Len(acc)
      /\ \A n \in 1..st : Written(c, acc[n])
  BY DEF FileInv, GoodCells
<1>3. \A ev : ev \in EventsIn(c) <=> Written(c, ev)
  BY <1>1, <1>2, EventsRead
<1>4. first \subseteq EventsIn(c)
  BY <1>2, <1>3
<1>5. EventsIn(c) \subseteq all
  <2>1. ASSUME NEW ev \in EventsIn(c) PROVE ev \in all
    <3>1. PICK k \in 1..Len(c) : HasEvent(c, k, ev)
      BY <1>3 DEF Written
    <3>2. ev \in RangeOf(acc)
      BY <1>2, <3>1 DEF EventsInOrder, HasEvent
    <3>. QED BY <1>1, <3>2, RangeProps
  <2>. QED BY <2>1
<1>6. IsFiniteSet(all) /\ Cardinality(all) = Len(acc)
  <2>1. Len(acc) \in 0..Len(acc)
    BY <1>1
  <2>. QED BY <2>1, FirstEvents
<1>7. IsFiniteSet(first) /\ Cardinality(first) = st
  <2>1. st \in 0..Len(acc)
    BY <1>1, <1>2
  <2>. QED BY <2>1, FirstEvents
<1> HIDE DEF first, all
<1>8. IsFiniteSet(EventsIn(c)) /\ Cardinality(EventsIn(c)) <= Cardinality(all)
  BY <1>5, <1>6, FS_Subset
<1>9. Cardinality(first) <= Cardinality(EventsIn(c))
  BY <1>4, <1>8, FS_Subset
<1>10. Cardinality(EventsIn(c)) \in Nat
  BY <1>8, FS_CardinalityType
<1>. QED BY <1>6, <1>7, <1>8, <1>9, <1>10 DEF Visible

\* A reader of a longer file recovers no fewer events.
LEMMA VisibleGrows ==
    ASSUME NEW c, NEW d, Pre(c, d), ChunksInOrder(c), ChunksInOrder(d), IsFiniteSet(EventsIn(d))
    PROVE  Visible(c) <= Visible(d)
<1>1. Len(c) \in Nat /\ Len(d) \in Nat
  BY DEF Pre
<1>2. EventsIn(c) \subseteq EventsIn(d)
  BY <1>1, EventsRead, WrittenPre
<1>. QED BY <1>2, FS_Subset DEF Visible

\* What any step does to the file, the history and the promise.
Advances ==
    /\ Pre(writer.disk, writer'.disk)
    /\ \/ accepted' = accepted
       \/ status = "open" /\ status' = "open" /\ \E ev \in Recordable : accepted' = Append(accepted, ev)
    /\ stable' = stable \/ stable' = Len(accepted')
    /\ \/ status \in {"new", "open"} /\ status' \in {"new", "open"}
       \/ status \in {"new", "open"} /\ status' \notin {"new", "open"} /\ accepted' = accepted

LEMMA AppendAdvances ==
    ASSUME TypeOK, ShortInv, NEW ev \in EventInputs, NEW canFail \in BOOLEAN,
           AppendCall(ev, canFail)
    PROVE  Advances
<1> DEFINE w == writer
           rec == [ev EXCEPT !.event_sequence = writer.next_event_seq]
<1>1. ev \in Events /\ status = "open" /\ status' = "open"
  BY WriterAssumption DEF AppendCall
<1>2. w \in WriterStates /\ w.disk \in Seq(Cells) /\ accepted \in Seq(Events)
  BY FieldTypes DEF TypeOK
<1>3. Numbered(accepted) /\ OpenInv(w, accepted)
  BY <1>1, ShortParts
<1>4. PICK o \in AppendEvent(w, ev, canFail) :
        /\ writer' = o.w
        /\ accepted' = IF o.w.next_event_seq = w.next_event_seq THEN accepted ELSE Append(accepted, rec)
        /\ stable' = IF o.ok /\ o.w.pending_events = <<>> THEN Len(accepted') ELSE stable
  BY DEF AppendCall
<1>5. rec \in Recordable
  <2>1. w.next_event_seq = Len(accepted) + 1 /\ Len(accepted) < MaxEvents
    BY <1>3 DEF OpenInv, WriterInv, TornWriter, AppendCall
  <2>2. Len(accepted) \in Nat /\ MaxEvents \in Nat
    BY <1>2, LenProperties, WriterAssumption
  <2>3. w.next_event_seq \in 1..MaxEvents
    BY <2>1, <2>2
  <2>. QED BY <2>3 DEF Recordable
<1>6. Pre(w.disk, writer'.disk)
  <2>1. CASE o = Outcome(w, FALSE, 0)
    <3>1. o.w = w
      BY <2>1 DEF Outcome
    <3>. QED BY <1>2, <1>4, <3>1, PreRefl
  <2>2. CASE RefsResolve(w.dictionary, ev)
    <3> DEFINE v == Pushed(w, ev)
               grown == Append(accepted, rec)
    <3>1. rec \in Events /\ rec.event_sequence = Len(accepted) + 1 /\ OpenInv(v, grown)
      BY <1>1, <1>2, <1>3, <2>2, OpenPushed
    <3>2. v \in WriterStates
      BY <1>1, <1>2, PushedType
    <3>3. Numbered(grown)
      BY <1>3, <3>1, GrownProps
    <3>4. v.disk = w.disk
      BY <1>2 DEF Pushed, WriterStates
    <3> HIDE DEF v, grown
    <3>5. CASE o = Outcome(v, TRUE, w.next_event_seq)
      <4>1. o.w = v
        BY <3>5 DEF Outcome
      <4>. QED BY <1>2, <1>4, <3>4, <4>1, PreRefl
    <3>6. ASSUME NEW p \in FlushChunk(v, canFail), o = [p EXCEPT !.val = w.next_event_seq]
          PROVE  Pre(w.disk, writer'.disk)
      <4>1. p \in Outcomes
        BY <3>2, FlushChunkType
      <4>2. o.w = p.w
        BY <3>6, <4>1 DEF Outcomes
      <4>3. Goes(p.w, v, grown)
        BY <3>1, <3>2, <3>3, GoesFlushChunk
      <4>4. Pre(v.disk, p.w.disk)
        BY <3>2, <4>3, GoesDisk
      <4>. QED BY <1>4, <3>4, <4>2, <4>4
    <3>. QED BY <2>2, <3>5, <3>6, AppendSteps DEF v
  <2>. QED BY <2>1, <2>2, AppendSteps
<1>7. stable' = stable \/ stable' = Len(accepted')
  BY <1>4
<1>8. accepted' = accepted \/ accepted' = Append(accepted, rec)
  BY <1>4
<1>. QED BY <1>1, <1>5, <1>6, <1>7, <1>8 DEF Advances

LEMMA StepAdvances ==
    ASSUME TypeOK, ShortInv, Next
    PROVE  Advances
<1>1. writer \in WriterStates /\ writer.disk \in Seq(Cells) /\ Numbered(accepted)
  BY FieldTypes, ShortParts DEF TypeOK
<1>2. status = "open" => OpenInv(writer, accepted)
  BY ShortParts
<1>3. Pre(writer.disk, writer.disk)
  BY <1>1, PreRefl
<1>4. CASE Create
  BY <1>3, <1>4 DEF Create, Advances
<1>5. CASE CreateFails
  BY <1>3, <1>5 DEF CreateFails, Advances
<1>6. ASSUME NEW in \in InternInputs, InternName(in[1], in[2])
      PROVE  Advances
  <2>1. in[1] \in Kinds /\ in[2] \in Names
    BY WriterAssumption
  <2>2. /\ status = "open" /\ status' = "open" /\ accepted' = accepted /\ stable' = stable
        /\ writer' = Intern(writer, in[1], in[2]).w
    BY <1>6 DEF InternName
  <2>3. writer'.disk = writer.disk
    BY <1>1, <1>2, <2>1, <2>2, OpenIntern
  <2>. QED BY <1>3, <2>2, <2>3 DEF Advances
<1>7. ASSUME NEW ev \in EventInputs, NEW canFail \in BOOLEAN, AppendCall(ev, canFail)
      PROVE  Advances
  BY <1>7, AppendAdvances
<1>8. ASSUME NEW canFail \in BOOLEAN, FlushCall(canFail)
      PROVE  Advances
  <2>1. status = "open" /\ status' = "open" /\ accepted' = accepted
    BY <1>8 DEF FlushCall
  <2>2. PICK o \in FlushChunk(writer, canFail) :
           writer' = o.w /\ stable' = IF o.ok THEN Len(accepted) ELSE stable
    BY <1>8 DEF FlushCall
  <2>3. Goes(o.w, writer, accepted)
    BY <1>1, <1>2, <2>1, GoesFlushChunk
  <2>4. Pre(writer.disk, o.w.disk)
    BY <1>1, <2>3, GoesDisk
  <2>. QED BY <2>1, <2>2, <2>4 DEF Advances
<1>9. ASSUME NEW canFail \in BOOLEAN, FinishCall(canFail)
      PROVE  Advances
  <2>1. status = "open" /\ status' = "finished" /\ accepted' = accepted
    BY <1>9 DEF FinishCall
  <2>2. PICK o \in Finish(writer, canFail) :
           writer' = Gone(o.w.disk) /\ stable' = IF o.ok THEN Len(accepted) ELSE stable
    BY <1>9 DEF FinishCall
  <2>3. Goes(o.w, writer, accepted)
    BY <1>1, <1>2, <2>1, GoesFinish
  <2>4. Pre(writer.disk, o.w.disk) /\ writer'.disk = o.w.disk
    BY <1>1, <2>2, <2>3, GoesDisk, GoneDisk
  <2>. QED BY <2>1, <2>2, <2>4 DEF Advances
<1>10. ASSUME NEW canFail \in BOOLEAN, DropCall(canFail)
       PROVE  Advances
  <2>1. status = "open" /\ status' = "dropped" /\ accepted' = accepted /\ stable' = stable
    BY <1>10 DEF DropCall
  <2>2. PICK d \in DropWriter(writer, canFail) : writer' = Gone(d.disk)
    BY <1>10 DEF DropCall
  <2>3. Goes(d, writer, accepted)
    BY <1>1, <1>2, <2>1, GoesDrop
  <2>4. Pre(writer.disk, d.disk) /\ writer'.disk = d.disk
    BY <1>1, <2>2, <2>3, GoesDisk, GoneDisk
  <2>. QED BY <2>1, <2>4 DEF Advances
<1>11. CASE Crash
  <2>1. status = "open" /\ status' = "crashed" /\ accepted' = accepted /\ stable' = stable
    BY <1>11 DEF Crash
  <2>2. PICK image \in CrashImages(writer) : writer' = Gone(image)
    BY <1>11 DEF Crash
  <2>3. Pre(writer.disk, image) /\ writer'.disk = image
    BY <1>1, <1>2, <2>1, <2>2, CrashGoes, GoneDisk
  <2>. QED BY <2>1, <2>3 DEF Advances
<1>. QED BY <1>4, <1>5, <1>6, <1>7, <1>8, <1>9, <1>10, <1>11 DEF Next

\* Every step of the writer is a step of the log.
LEMMA StepLog ==
    ASSUME TypeOK, IndInv, TypeOK', IndInv', Advances
    PROVE  Log!LogNext
<1> DEFINE c == writer.disk
           d == writer'.disk
<1>1. /\ c \in Seq(Cells) /\ Numbered(accepted) /\ stable \in Nat /\ FileInv(c, accepted, stable)
      /\ ChunksInOrder(c)
  BY FieldTypes, IndParts DEF TypeOK, FileInv, GoodCells
<1>2. /\ d \in Seq(Cells) /\ Numbered(accepted') /\ stable' \in Nat /\ FileInv(d, accepted', stable')
      /\ ChunksInOrder(d)
  <2>1. d \in Seq(Cells) /\ stable' \in Nat
    BY FieldTypes DEF TypeOK
  <2>2. Numbered(accepted') /\ FileInv(d, accepted', stable')
    BY DEF TypeOK, IndInv, Numbered, FileInv, Written
  <2>. QED BY <2>1, <2>2 DEF FileInv, GoodCells
<1>3. /\ IsFiniteSet(EventsIn(c)) /\ Visible(c) \in Nat
      /\ stable <= Visible(c) /\ Visible(c) <= Len(accepted)
  BY <1>1, VisibleBounds
<1>4. /\ IsFiniteSet(EventsIn(d)) /\ Visible(d) \in Nat
      /\ stable' <= Visible(d) /\ Visible(d) <= Len(accepted')
  BY <1>2, VisibleBounds
<1>5. Visible(c) <= Visible(d)
  BY <1>1, <1>2, <1>4, VisibleGrows DEF Advances
<1>6. /\ \/ accepted' = accepted
         \/ status = "open" /\ status' = "open" /\ \E ev \in Recordable : accepted' = Append(accepted, ev)
      /\ stable' = stable \/ stable' = Len(accepted')
      /\ \/ status \in {"new", "open"} /\ status' \in {"new", "open"}
         \/ status \in {"new", "open"} /\ status' \notin {"new", "open"} /\ accepted' = accepted
  BY DEF Advances
<1>7. Len(accepted) \in Nat /\ Len(accepted') \in Nat
  BY LenProperties DEF TypeOK
<1>8. stable <= stable'
  BY <1>1, <1>2, <1>3, <1>4, <1>5, <1>6, <1>7
<1>9. Log!Advance
  <2>1. Visible(d) \in Visible(c)..Len(accepted') /\ stable' \in stable..Visible(d)
    BY <1>1, <1>2, <1>3, <1>4, <1>5, <1>7, <1>8
  <2>. QED BY <2>1 DEF Log!Advance, Visible
<1>10. CASE status' \notin {"new", "open"}
  <2>1. Log!LogClose
    BY <1>6, <1>9, <1>10 DEF Log!LogClose
  <2>. QED BY <2>1 DEF Log!LogNext
<1>11. CASE status' \in {"new", "open"} /\ accepted' = accepted
  <2>1. Log!LogSync
    BY <1>6, <1>9, <1>11 DEF Log!LogSync
  <2>. QED BY <2>1 DEF Log!LogNext
<1>12. CASE status' \in {"new", "open"} /\ accepted' # accepted
  <2>1. Log!LogAppend
    BY <1>6, <1>9, <1>12 DEF Log!LogAppend
  <2>. QED BY <2>1 DEF Log!LogNext
<1>. QED BY <1>10, <1>11, <1>12

\* The writer is a log of which the file holds a prefix: no call of writer.rs,
\* I/O error or crash shrinks what a reader recovers, and what an Ok flush
\* promised is never taken back.
THEOREM WriterImplementsLog ==
    ASSUME ~PartialWrites
    PROVE  Spec => ImplementsLog
<1>1. Init => Log!LogInit
  <2>1. SUFFICES ASSUME Init PROVE Log!LogInit
    OBVIOUS
  <2>2. /\ writer.disk = <<>> /\ accepted = <<>> /\ stable = 0 /\ status = "new"
    BY <2>1 DEF Init, NewWriter
  <2>3. EventsIn(<<>>) = {}
    <3>1. Len(<<>>) = 0 /\ 1..0 = {}
      BY EmptySeq
    <3>2. CommittedSeqs(<<>>) = {}
      BY <3>1 DEF CommittedSeqs
    <3>. QED BY <3>2 DEF EventsIn
  <2>4. Cardinality(EventsIn(writer.disk)) = 0
    BY <2>2, <2>3, FS_EmptySet
  <2>. QED BY <2>2, <2>4 DEF Log!LogInit
<1>2. TypeOK /\ IndInv /\ TypeOK' /\ IndInv' /\ [Next]_vars => [Log!LogNext]_(Log!logVars)
  <2>1. SUFFICES ASSUME TypeOK, IndInv, TypeOK', IndInv', [Next]_vars
                 PROVE  [Log!LogNext]_(Log!logVars)
    OBVIOUS
  <2>2. CASE Next
    <3>1. ShortInv
      BY <2>1 DEF IndInv, ShortInv, SoundCells
    <3>2. Advances
      BY <2>1, <2>2, <3>1, StepAdvances
    <3>. QED BY <2>1, <3>2, StepLog
  <2>3. CASE UNCHANGED vars
    BY <2>3 DEF vars, Log!logVars
  <2>. QED BY <2>1, <2>2, <2>3
<1>3. Spec => []TypeOK /\ []IndInv
  BY TypeCorrect, InductiveInvariant, PTL
<1>. QED BY <1>1, <1>2, <1>3, PTL DEF Spec, ImplementsLog, Log!LogSpec

-----------------------------------------------------------------------------
(* A file a writer wrote, as a reader sees it *)

LEMMA CellsFile ==
    ASSUME NEW c \in Seq(Cells)
    PROVE  c \in Seq(FileCells)
<1>1. Chunks \subseteq FileChunks /\ MixedChunks \subseteq FileChunks
  BY DEF Chunks, MixedChunks, MixedLength, FileChunks, DictType, EventType
<1>2. Cells \subseteq FileCells
  BY <1>1 DEF Cells, FileCells
<1>3. Len(c) \in Nat /\ DOMAIN c = 1..Len(c) /\ \A i \in 1..Len(c) : c[i] \in FileCells
  BY <1>2, LenProperties, ElementOfSeq
<1>4. c = [i \in 1..Len(c) |-> c[i]]
  BY LenProperties
<1>. QED BY <1>3, <1>4, IsASeq

\* A whole chunk is a committed one, and carries what it holds.
LEMMA GoodChunk ==
    ASSUME NEW c \in Seq(Cells), ChunksInOrder(c), NEW k \in Nat \ {0}, 3 * k <= Len(c)
    PROVE  /\ Committed(c, k)
           /\ TypeAt(c, k) = ChunkAt(c, k).chunk_type
           /\ BodyAt(c, k) = ChunkAt(c, k)
           /\ \A x : Carries(c, k, EventType, x) <=> HasEvent(c, k, x)
           /\ \A x : Carries(c, k, DictType, x) <=> HasEntry(c, k, x)
<1> DEFINE chunk == ChunkAt(c, k)
<1>1. Len(c) \in Nat /\ k \in 1..Len(c)
  BY LenProperties
<1>3. WholeChunk(c, k)
  BY <1>1 DEF ChunksInOrder
<1>4. /\ chunk.sequence = k
      /\ \A p \in 1..3 : c[3 * k - 3 + p] = [part |-> p, chunk |-> chunk]
  BY <1>3 DEF WholeChunk, ChunkAt
<1>5. 3 * k - 3 + 1 = 3 * k - 2 /\ 3 * k - 3 + 2 = 3 * k - 1 /\ 3 * k - 3 + 3 = 3 * k
  OBVIOUS
<1> HIDE DEF chunk
<1>7. /\ c[3 * k - 2] = [part |-> 1, chunk |-> chunk]
      /\ c[3 * k - 1] = [part |-> 2, chunk |-> chunk]
      /\ c[3 * k] = [part |-> 3, chunk |-> chunk]
  <2>1. 1 \in 1..3 /\ 2 \in 1..3 /\ 3 \in 1..3
    OBVIOUS
  <2>. QED BY <1>4, <1>5, <2>1
<1>6. chunk.payload_len = 1
  <2>1. 3 * k \in 1..Len(c)
    BY <1>1
  <2>2. c[3 * k] \in Cells /\ c[3 * k].part = 3 /\ c[3 * k].chunk = chunk
    BY <1>7, <2>1, ElementOfSeq
  <2>. QED BY <2>2 DEF Cells, Chunks
<1>8. Committed(c, k)
  BY <1>4, <1>6, <1>7 DEF Committed
<1>9. TypeAt(c, k) = chunk.chunk_type /\ BodyAt(c, k) = chunk
  BY <1>7 DEF TypeAt, BodyAt
<1>. QED BY <1>8, <1>9 DEF chunk, Carries, HasEvent, HasEntry

LEMMA InsideFile ==
    ASSUME NEW e \in Nat, NEW len \in Nat, NEW size \in Nat, 3 * (e - 1) <= len, len <= size,
           NEW k \in 1..(e - 1)
    PROVE  3 * k - 2 \in 1..size /\ 3 * k - 1 \in 1..size /\ 3 * k \in 1..size
<1>1. 3 * k <= size
  OBVIOUS
<1>. QED BY <1>1

\* What a reader has gathered stays true while the file grows.
LEMMA CoveredPre ==
    ASSUME NEW c, NEW d, Pre(c, d), NEW r, Covered(r, c)
    PROVE  Covered(r, d)
<1>1. /\ r \in Readers /\ AtBoundary(r, c) /\ HasGathered(r, c) /\ SoundSoFar(r)
  BY DEF Covered
<1>2. /\ r.expected_chunk_seq \in Nat /\ r.offset \in Nat /\ r.file_len \in Nat
  BY <1>1, ReaderTypes
<1>3. /\ r.file_len <= Len(c) /\ r.offset = 3 * (r.expected_chunk_seq - 1) /\ r.offset <= r.file_len
      /\ r.expected_chunk_seq >= 1
      /\ \A k \in 1..(r.expected_chunk_seq - 1) : Committed(c, k)
  BY <1>1 DEF AtBoundary
<1>4. Len(c) \in Nat /\ Len(d) \in Nat /\ Len(c) <= Len(d) /\ \A i \in 1..Len(c) : c[i] = d[i]
  BY DEF Pre
<1>5. ASSUME NEW k \in 1..(r.expected_chunk_seq - 1)
      PROVE  c[3 * k - 2] = d[3 * k - 2] /\ c[3 * k - 1] = d[3 * k - 1] /\ c[3 * k] = d[3 * k]
  <2>1. 3 * k - 2 \in 1..Len(c) /\ 3 * k - 1 \in 1..Len(c) /\ 3 * k \in 1..Len(c)
    BY <1>2, <1>3, <1>4, InsideFile
  <2>. QED BY <1>4, <2>1
<1>6. \A k \in 1..(r.expected_chunk_seq - 1) :
         /\ Committed(d, k)
         /\ \A t, x : Carries(c, k, t, x) <=> Carries(d, k, t, x)
  BY <1>3, <1>5, SMTT(60) DEF Committed, Carries, TypeAt, BodyAt
<1>7. r.file_len <= Len(d)
  BY <1>2, <1>3, <1>4
<1>8. AtBoundary(r, d)
  BY <1>3, <1>6, <1>7 DEF AtBoundary
<1>9. HasGathered(r, d)
  BY <1>1, <1>6 DEF HasGathered
<1>. QED BY <1>1, <1>8, <1>9 DEF Covered

\* The events a reader has gathered are the first of the history: those of
\* the chunks it has passed.
LEMMA ReadSoFar ==
    ASSUME NEW c \in Seq(Cells), NEW acc, Numbered(acc), GoodCells(c, acc),
           NEW r, Covered(r, c)
    PROVE  /\ Len(r.events) \in Nat /\ Len(r.events) <= Len(acc)
           /\ \A i \in 1..Len(r.events) : r.events[i] = acc[i]
           /\ \A n \in 1..Len(acc) :
                 n <= Len(r.events) <=> \E k \in 1..(r.expected_chunk_seq - 1) : HasEvent(c, k, acc[n])
<1>1. /\ r \in Readers /\ AtBoundary(r, c) /\ HasGathered(r, c) /\ SoundSoFar(r)
  BY DEF Covered
<1>2. /\ r.expected_chunk_seq \in Nat /\ r.offset \in Nat /\ r.file_len \in Nat
      /\ r.events \in Seq(Events) /\ Len(r.events) \in Nat
  BY <1>1, ReaderTypes
<1>3. /\ r.file_len <= Len(c) /\ r.offset = 3 * (r.expected_chunk_seq - 1) /\ r.offset <= r.file_len
  BY <1>1 DEF AtBoundary
<1>4. /\ acc \in Seq(Events) /\ Len(acc) \in Nat /\ DOMAIN acc = 1..Len(acc)
      /\ \A n \in 1..Len(acc) : acc[n].event_sequence = n
      /\ \A n \in 1..Len(acc) : acc[n] \in Events
  BY LenProperties, ElementOfSeq DEF Numbered
<1>5. ChunksInOrder(c) /\ EventsInOrder(c, acc) /\ Len(c) \in Nat
  BY LenProperties DEF GoodCells
<1>6. ASSUME NEW k \in 1..(r.expected_chunk_seq - 1)
      PROVE  /\ k \in Nat \ {0} /\ k \in 1..Len(c) /\ 3 * k <= Len(c)
             /\ \A x : Carries(c, k, EventType, x) <=> HasEvent(c, k, x)
  <2>1. k \in Nat \ {0} /\ k \in 1..Len(c) /\ 3 * k <= Len(c)
    BY <1>2, <1>3, <1>5, SMTT(60)
  <2>. QED BY <1>5, <2>1, GoodChunk
<1>7. DOMAIN r.events = 1..Len(r.events) /\ \A i \in 1..Len(r.events) : r.events[i] \in RangeOf(r.events)
  BY <1>2, RangeTyped DEF RangeOf
<1>8. ASSUME NEW i \in 1..Len(r.events)
      PROVE  /\ i \in 1..Len(acc) /\ r.events[i] = acc[i]
             /\ \E k \in 1..(r.expected_chunk_seq - 1) : HasEvent(c, k, acc[i])
  <2>1. PICK k \in 1..(r.expected_chunk_seq - 1) : Carries(c, k, EventType, r.events[i])
    BY <1>1, <1>7 DEF HasGathered
  <2>2. HasEvent(c, k, r.events[i]) /\ k \in 1..Len(c)
    BY <1>6, <2>1
  <2>3. r.events[i] \in RangeOf(acc)
    BY <1>5, <2>2 DEF EventsInOrder, HasEvent
  <2>4. PICK n \in 1..Len(acc) : r.events[i] = acc[n]
    BY <1>4, <2>3 DEF RangeOf
  <2>5. n = i
    BY <1>1, <1>4, <2>4 DEF SoundSoFar
  <2>. QED BY <2>1, <2>2, <2>4, <2>5
<1>9. Len(r.events) <= Len(acc)
  <2>1. CASE Len(r.events) = 0
    BY <1>4, <2>1
  <2>2. CASE Len(r.events) # 0
    <3>1. Len(r.events) \in 1..Len(r.events)
      BY <1>2, <2>2
    <3>. QED BY <1>4, <1>8, <3>1
  <2>. QED BY <2>1, <2>2
<1>10. ASSUME NEW n \in 1..Len(acc), NEW k \in 1..(r.expected_chunk_seq - 1), HasEvent(c, k, acc[n])
       PROVE  n <= Len(r.events)
  <2>1. acc[n] \in RangeOf(r.events)
    BY <1>1, <1>4, <1>6, <1>10 DEF HasGathered
  <2>2. PICK i \in 1..Len(r.events) : acc[n] = r.events[i]
    BY <1>7, <2>1 DEF RangeOf
  <2>3. i = n
    BY <1>1, <1>4, <2>2 DEF SoundSoFar
  <2>. QED BY <1>2, <2>3
<1>11. \A n \in 1..Len(acc) : n <= Len(r.events) => n \in 1..Len(r.events)
  BY <1>2, <1>4
<1>. QED BY <1>2, <1>8, <1>9, <1>10, <1>11

-----------------------------------------------------------------------------
(* The loop on such a file *)

LEMMA SameCount ==
    ASSUME NEW a \in Nat, NEW b \in Nat, NEW len \in Nat, a <= len, b <= len,
           \A n \in 1..len : n <= a <=> n <= b
    PROVE  a = b
<1>1. CASE a < b
  <2>1. b \in 1..len
    BY <1>1
  <2>. QED BY <1>1, <2>1
<1>2. CASE b < a
  <2>1. a \in 1..len
    BY <1>2
  <2>. QED BY <1>2, <2>1
<1>. QED BY <1>1, <1>2

\* A whole chunk is next.
Whole(r) == 3 * r.expected_chunk_seq <= r.file_len

LEMMA NextChunk ==
    ASSUME NEW c \in Seq(Cells), NEW acc, GoodCells(c, acc), NEW r, Covered(r, c), Whole(r)
    PROVE  LET n == r.expected_chunk_seq
           IN  /\ n \in Nat \ {0} /\ n \in 1..Len(c) /\ 3 * n <= Len(c)
               /\ Committed(c, n) /\ Ready(r, c)
               /\ TypeAt(c, n) = ChunkAt(c, n).chunk_type /\ BodyAt(c, n) = ChunkAt(c, n)
               /\ \A k \in 1..(n - 1) :
                     /\ k \in 1..Len(c) /\ 3 * k <= Len(c) /\ k # n
                     /\ \A x : Carries(c, k, EventType, x) <=> HasEvent(c, k, x)
                     /\ \A x : Carries(c, k, DictType, x) <=> HasEntry(c, k, x)
<1> DEFINE n == r.expected_chunk_seq
<1>1. /\ n \in Nat /\ n >= 1 /\ r.file_len \in Nat /\ Len(c) \in Nat
      /\ r.file_len <= Len(c) /\ 3 * n <= r.file_len
  BY ReaderTypes, LenProperties DEF Covered, AtBoundary, Whole
<1>2. ChunksInOrder(c)
  BY DEF GoodCells
<1> HIDE DEF n
<1>3. n \in Nat \ {0} /\ n \in 1..Len(c) /\ 3 * n <= Len(c)
  BY <1>1
<1>4. /\ Committed(c, n)
      /\ TypeAt(c, n) = ChunkAt(c, n).chunk_type /\ BodyAt(c, n) = ChunkAt(c, n)
  BY <1>2, <1>3, GoodChunk
<1>5. ASSUME NEW k \in 1..(n - 1)
      PROVE  /\ k \in 1..Len(c) /\ 3 * k <= Len(c) /\ k # n
             /\ \A x : Carries(c, k, EventType, x) <=> HasEvent(c, k, x)
             /\ \A x : Carries(c, k, DictType, x) <=> HasEntry(c, k, x)
  <2>1. k \in Nat \ {0} /\ k \in 1..Len(c) /\ 3 * k <= Len(c) /\ k # n
    BY <1>1
  <2>. QED BY <1>2, <2>1, GoodChunk
<1>. QED BY <1>1, <1>3, <1>4, <1>5 DEF n, Ready

\* Dictionary::insert takes the entries of the next Dictionary chunk.
LEMMA TakesEntries ==
    ASSUME NEW c \in Seq(Cells), NEW acc, GoodCells(c, acc), NEW r, Covered(r, c), Whole(r),
           ChunkAt(c, r.expected_chunk_seq).chunk_type = DictType
    PROVE  EntriesLegal(r.dictionary, ChunkAt(c, r.expected_chunk_seq).payload)
<1> DEFINE n == r.expected_chunk_seq
           p == ChunkAt(c, n).payload
<1>1. /\ n \in Nat \ {0} /\ n \in 1..Len(c) /\ 3 * n <= Len(c)
      /\ \A k \in 1..(n - 1) :
            /\ k \in 1..Len(c) /\ 3 * k <= Len(c) /\ k # n
            /\ \A x : Carries(c, k, DictType, x) <=> HasEntry(c, k, x)
  BY NextChunk
<1>2. /\ DOMAIN p = 1..Len(p) /\ p \in Seq(DictEntry) /\ Len(p) \in Nat
  BY <1>1, PayloadLen
<1>3. EntriesExact(c)
  BY DEF GoodCells
<1>4. LegalEntries(p)
  BY <1>1, <1>3 DEF EntriesExact
<1>5. HasGathered(r, c)
  BY DEF Covered
<1>6. ChunkAt(c, n).chunk_type = DictType
  OBVIOUS
<1> HIDE DEF n
<1>7. ASSUME NEW i \in 1..Len(p), NEW e \in r.dictionary.entries, Key(e) = Key(p[i])
      PROVE  FALSE
  <2>1. PICK k \in 1..(n - 1) : Carries(c, k, DictType, e)
    BY <1>5 DEF HasGathered, n
  <2>2. HasEntry(c, k, e) /\ k \in 1..Len(c) /\ 3 * k <= Len(c) /\ k # n
    BY <1>1, <2>1
  <2>3. p[i] \in RangeOf(p) /\ HasEntry(c, n, p[i])
    BY <1>1, <1>2, <1>6 DEF HasEntry, RangeOf
  <2>4. Alike(e, p[i])
    BY <1>7 DEF Alike, Key
  <2>5. e \in RangeOf(ChunkAt(c, k).payload)
    BY <2>2 DEF HasEntry
  <2>. QED BY <1>1, <1>3, <2>2, <2>3, <2>4, <2>5 DEF EntriesExact
<1>8. \A i \in 1..Len(p) : ~Require(r.dictionary, p[i].kind, p[i].id)
  BY <1>7 DEF Require, Keys, Key
<1>9. \A i \in 1..Len(p) : CanInsert(r.dictionary, p[i])
  BY <1>4, <1>8 DEF LegalEntries, CanInsert
<1>10. \A i, j \in 1..Len(p) : Key(p[i]) = Key(p[j]) => i = j
  BY <1>4 DEF LegalEntries, Alike, Key
<1>11. Len(p) <= MaxDictEntries
  BY <1>4 DEF LegalEntries, EncodableEntries
<1>12. EntriesLegal(r.dictionary, p)
  BY <1>2, <1>9, <1>10, <1>11 DEF EntriesLegal
<1>. QED BY <1>12 DEF n

\* decode_many and validate_event_refs take the events of the next Event
\* chunk: they continue the numbering, and their names are in the dictionary.
LEMMA TakesEvents ==
    ASSUME NEW c \in Seq(Cells), NEW acc, Numbered(acc), GoodCells(c, acc),
           NEW r, Covered(r, c), Whole(r),
           ChunkAt(c, r.expected_chunk_seq).chunk_type = EventType
    PROVE  EventsLegal(r, ChunkAt(c, r.expected_chunk_seq).payload)
<1> DEFINE n == r.expected_chunk_seq
           p == ChunkAt(c, n).payload
<1>1. /\ n \in Nat \ {0} /\ n \in 1..Len(c) /\ 3 * n <= Len(c)
      /\ \A k \in 1..(n - 1) :
            /\ k \in 1..Len(c) /\ 3 * k <= Len(c) /\ k # n
            /\ \A x : Carries(c, k, DictType, x) <=> HasEntry(c, k, x)
  BY NextChunk
<1>2. /\ DOMAIN p = 1..Len(p) /\ p \in Seq(Events) /\ Len(p) \in Nat
  BY <1>1, PayloadLen
<1>3. EventsExact(c, acc) /\ RefsInOrder(c, acc)
  BY DEF GoodCells
<1>4. EncodableEvents(p) /\ \E b \in 0..Len(acc) : Stretch(c, n, acc, b)
  BY <1>1, <1>3 DEF EventsExact
<1>5. HasGathered(r, c) /\ r.expected_event_seq = Len(r.events) + 1
  BY DEF Covered, SoundSoFar
<1>6. ChunkAt(c, n).chunk_type = EventType
  OBVIOUS
<1>7. Len(acc) \in Nat /\ \A m \in 1..Len(acc) : acc[m].event_sequence = m
  BY LenProperties DEF Numbered
<1>8. /\ Len(r.events) \in Nat /\ Len(r.events) <= Len(acc)
      /\ \A m \in 1..Len(acc) : m <= Len(r.events) <=> \E k \in 1..(n - 1) : HasEvent(c, k, acc[m])
  BY ReadSoFar
<1> HIDE DEF n
<1>9. PICK b \in 0..Len(acc) : Stretch(c, n, acc, b)
  BY <1>4
<1>10. /\ b + Len(p) <= Len(acc)
       /\ \A i \in 1..Len(p) : p[i] = acc[b + i]
       /\ \A m \in 1..Len(acc) : m <= b <=> \E j \in 1..(n - 1) : HasEvent(c, j, acc[m])
  BY <1>9 DEF Stretch
<1>11. b = Len(r.events)
  <2>1. \A m \in 1..Len(acc) : m <= b <=> m <= Len(r.events)
    BY <1>8, <1>10
  <2>2. b \in Nat /\ b <= Len(acc)
    BY <1>7
  <2>. QED BY <1>7, <1>8, <2>1, <2>2, SameCount
<1>12. ASSUME NEW i \in 1..Len(p)
       PROVE  /\ p[i].size <= MaxEventPayload
              /\ p[i].event_sequence = r.expected_event_seq + i - 1
              /\ RefsResolve(r.dictionary, p[i])
  <2>1. p[i] = acc[b + i] /\ b + i \in 1..Len(acc)
    BY <1>2, <1>7, <1>10
  <2>2. p[i].event_sequence = b + i
    BY <1>7, <2>1
  <2>3. r.expected_event_seq + i - 1 = b + i
    BY <1>2, <1>5, <1>8, <1>11
  <2>4. HasEvent(c, n, acc[b + i])
    BY <1>1, <1>2, <1>6, <2>1 DEF HasEvent, RangeOf
  <2>5. ASSUME NEW ref \in p[i].refs PROVE ref \in Keys(r.dictionary)
    <3>1. PICK j \in 1..(n - 1) : Defines(c, j, ref)
      BY <1>1, <1>3, <2>1, <2>4 DEF RefsInOrder
    <3>2. PICK e \in RangeOf(ChunkAt(c, j).payload) : Key(e) = ref /\ HasEntry(c, j, e)
      BY <3>1 DEF Defines, HasEntry
    <3>3. Carries(c, j, DictType, e)
      BY <1>1, <3>2
    <3>4. e \in DictEntry
      <4>1. j \in Nat \ {0} /\ 3 * j <= Len(c) /\ ChunkAt(c, j).chunk_type = DictType
        BY <1>1, <3>2 DEF HasEntry
      <4>2. ChunkAt(c, j).payload \in Seq(DictEntry)
        BY <4>1, PayloadLen
      <4>. QED BY <3>2, <4>2, RangeTyped
    <3>5. e \in r.dictionary.entries
      BY <1>5, <3>3, <3>4 DEF HasGathered, n
    <3>. QED BY <3>2, <3>5 DEF Keys
  <2>6. RefsResolve(r.dictionary, p[i])
    BY <2>5 DEF RefsResolve
  <2>7. p[i].size <= MaxEventPayload
    BY <1>2, <1>4 DEF EncodableEvents
  <2>. QED BY <2>2, <2>3, <2>6, <2>7
<1>13. Len(p) <= MaxEventsPerChunk
  BY <1>4 DEF EncodableEvents
<1>14. EventsLegal(r, p)
  BY <1>2, <1>12, <1>13 DEF EventsLegal
<1>. QED BY <1>14 DEF n

\* A whole chunk is taken.
LEMMA TakesChunk ==
    ASSUME NEW c \in Seq(Cells), NEW acc, Numbered(acc), GoodCells(c, acc),
           NEW r, Scanning(r, c), Whole(r)
    PROVE  TakePayload(r, TypeAt(c, r.expected_chunk_seq), BodyAt(c, r.expected_chunk_seq)).pc = "scan"
<1> DEFINE n == r.expected_chunk_seq
           type == TypeAt(c, n)
           body == BodyAt(c, n)
           taken == TakePayload(r, type, body)
<1>1. r.pc = "scan" /\ Covered(r, c) /\ r \in Readers
  BY DEF Scanning, Covered
<1>2. /\ n \in Nat \ {0} /\ 3 * n <= Len(c)
      /\ type = ChunkAt(c, n).chunk_type /\ body = ChunkAt(c, n)
  BY <1>1, NextChunk
<1>3. ChunkAt(c, n) \in Chunks \cup MixedChunks
  BY <1>2, PayloadLen
<1>4. type = body.chunk_type /\ type \in {DictType, EventType}
  BY <1>2, <1>3 DEF Chunks, MixedChunks
<1>5. CASE type = DictType
  <2>1. EntriesLegal(r.dictionary, body.payload)
    BY <1>1, <1>2, <1>5, TakesEntries
  <2>2. taken = [r EXCEPT !.dictionary.entries = @ \cup RangeOf(body.payload)]
    BY <1>4, <1>5, <2>1 DEF TakePayload, DictType, EventType
  <2>. QED BY <1>1, <2>2 DEF Readers
<1>6. CASE type = EventType
  <2>1. EventsLegal(r, body.payload)
    BY <1>1, <1>2, <1>6, TakesEvents
  <2>2. taken = [r EXCEPT !.events = @ \o body.payload,
                          !.expected_event_seq = @ + Len(body.payload)]
    BY <1>4, <1>6, <2>1 DEF TakePayload, DictType, EventType
  <2>. QED BY <1>1, <2>2 DEF Readers
<1>. QED BY <1>4, <1>5, <1>6

LEMMA HeaderNext ==
    ASSUME NEW n \in Nat, n >= 1, NEW len \in Nat, NEW size \in Nat, len <= size,
           len - 3 * (n - 1) >= 2
    PROVE  /\ 3 * (n - 1) + 1 = 3 * n - 2 /\ 3 * n - 2 \in 1..size /\ 3 * n - 2 <= size
           /\ n \in 1..size
           /\ 3 * (n - 1) + 2 = 3 * n - 1 /\ 3 * (n - 1) + 3 = 3 * n
           /\ ~(3 > len - 3 * (n - 1)) => 3 * n <= len
<1>1. 3 * n - 1 <= size
  OBVIOUS
<1>. QED BY <1>1

-----------------------------------------------------------------------------
(* The loop on a file with a fragment of a chunk *)

\* What a reader has gathered it has gathered from the chunks it has passed,
\* whatever follows them and whatever length it took.
LEMMA CoveredAlike ==
    ASSUME NEW c, NEW d, Len(c) \in Nat, Len(d) \in Nat, NEW r, Covered(r, c),
           \A i \in 1..r.offset : c[i] = d[i],
           NEW len \in Nat, r.offset <= len, len <= Len(d)
    PROVE  Covered([r EXCEPT !.file_len = len], d)
<1> DEFINE s == [r EXCEPT !.file_len = len]
           e == r.expected_chunk_seq
<1>1. r \in Readers /\ AtBoundary(r, c) /\ HasGathered(r, c) /\ SoundSoFar(r)
  BY DEF Covered
<1>2. e \in Nat /\ r.offset \in Nat
  BY <1>1, ReaderTypes
<1>3. /\ r.offset = 3 * (e - 1) /\ e >= 1
      /\ \A k \in 1..(e - 1) : Committed(c, k)
  BY <1>1 DEF AtBoundary
<1>4. /\ s \in Readers /\ s.file_len = len /\ s.expected_chunk_seq = e /\ s.offset = r.offset
      /\ s.events = r.events /\ s.dictionary = r.dictionary
      /\ s.expected_event_seq = r.expected_event_seq
  BY <1>1 DEF Readers
<1> HIDE DEF s, e
<1>5. ASSUME NEW k \in 1..(e - 1)
      PROVE  c[3 * k - 2] = d[3 * k - 2] /\ c[3 * k - 1] = d[3 * k - 1] /\ c[3 * k] = d[3 * k]
  <2>1. 3 * (e - 1) <= r.offset /\ r.offset <= r.offset
    BY <1>2, <1>3
  <2>2. 3 * k - 2 \in 1..r.offset /\ 3 * k - 1 \in 1..r.offset /\ 3 * k \in 1..r.offset
    BY <1>2, <2>1, InsideFile
  <2>. QED BY <2>2
<1>6. \A k \in 1..(e - 1) :
         /\ Committed(d, k)
         /\ \A t, x : Carries(c, k, t, x) <=> Carries(d, k, t, x)
  BY <1>3, <1>5, SMTT(60) DEF Committed, Carries, TypeAt, BodyAt
<1>7. AtBoundary(s, d)
  BY <1>3, <1>4, <1>6 DEF AtBoundary
<1>8. HasGathered(s, d)
  BY <1>1, <1>4, <1>6 DEF HasGathered, e
<1>9. SoundSoFar(s)
  BY <1>1, <1>4 DEF SoundSoFar
<1>. QED BY <1>4, <1>7, <1>8, <1>9 DEF Covered, s

\* The places of chunk n of m chunks and of the fragment behind them.
LEMMA BeforeFragment ==
    ASSUME NEW m \in Nat, NEW n \in Nat, n >= 1, NEW size \in Nat, 3 * m < size
    PROVE  /\ n <= m \/ n = m + 1 \/ m + 1 \in 1..(n - 1)
           /\ n <= m + 1 => 3 * (n - 1) <= 3 * m
           /\ n = m + 1 => 3 * n - 2 = 3 * m + 1 /\ 3 * n = 3 * m + 3
           /\ n <= m => 3 * n <= 3 * m /\ 3 * n - 2 \in 1..(3 * m) /\ 3 * n - 1 \in 1..(3 * m)
                        /\ 3 * n \in 1..(3 * m) /\ 3 * n - 2 <= 3 * m /\ n \in 1..(3 * m)
           /\ 3 * (m + 1) = 3 * m + 3
OBVIOUS

\* A reader of a torn file has passed none of the fragment: what it knows of
\* the file it knows of the whole chunks before it.
LEMMA StopsAtFragment ==
    ASSUME NEW c \in Seq(Cells), NEW acc, NEW m \in Nat, TornAfter(c, m, acc),
           NEW r, Covered(r, c)
    PROVE  LET g == SubSeq(c, 1, 3 * m)
               s == [r EXCEPT !.file_len = IF r.file_len <= 3 * m THEN r.file_len ELSE 3 * m]
           IN  /\ r.expected_chunk_seq <= m + 1
               /\ g \in Seq(Cells) /\ Len(g) = 3 * m /\ \A i \in 1..(3 * m) : g[i] = c[i]
               /\ Covered(s, g)
<1> DEFINE g == SubSeq(c, 1, 3 * m)
           len == IF r.file_len <= 3 * m THEN r.file_len ELSE 3 * m
           s == [r EXCEPT !.file_len = len]
           n == r.expected_chunk_seq
<1>1. r \in Readers /\ AtBoundary(r, c)
  BY DEF Covered
<1>2. n \in Nat /\ r.offset \in Nat /\ r.file_len \in Nat
  BY <1>1, ReaderTypes
<1>3. /\ r.file_len <= Len(c) /\ n >= 1 /\ r.offset = 3 * (n - 1) /\ r.offset <= r.file_len
      /\ \A k \in 1..(n - 1) : Committed(c, k)
  BY <1>1 DEF AtBoundary
<1>4. /\ Len(c) \in Nat /\ 3 * m < Len(c) /\ (3 * m + 3 <= Len(c) => c[3 * m + 3].part # 3)
  BY LenProperties DEF TornAfter
<1> HIDE DEF n
<1>5. /\ n <= m \/ n = m + 1 \/ m + 1 \in 1..(n - 1)
      /\ n <= m + 1 => 3 * (n - 1) <= 3 * m
      /\ 3 * (m + 1) = 3 * m + 3
  BY <1>2, <1>3, <1>4, BeforeFragment
<1>6. n <= m + 1
  <2>1. ASSUME m + 1 \in 1..(n - 1) PROVE FALSE
    <3>1. c[3 * (m + 1)].part = 3
      BY <1>3, <2>1 DEF Committed
    <3>2. 3 * m + 3 <= Len(c)
      BY <1>2, <1>3, <1>4, <2>1
    <3>. QED BY <1>4, <1>5, <3>1, <3>2
  <2>2. n <= m => n <= m + 1
    BY <1>2
  <2>. QED BY <1>2, <1>5, <2>1, <2>2
<1>7. 3 * m \in 0..Len(c) /\ 3 * m \in Nat
  BY <1>4, TornPlaces
<1>8. g \in Seq(Cells) /\ Len(g) = 3 * m /\ Pre(g, c)
  BY <1>7, CutProps, PreCut
<1>9. \A i \in 1..(3 * m) : g[i] = c[i]
  BY <1>8 DEF Pre
<1> HIDE DEF g
<1>10. \A i \in 1..r.offset : c[i] = g[i]
  <2>1. r.offset <= 3 * m
    BY <1>3, <1>5, <1>6
  <2>2. \A i \in 1..r.offset : i \in 1..(3 * m)
    BY <1>2, <1>7, <2>1
  <2>. QED BY <1>9, <2>2
<1>11. len \in Nat /\ r.offset <= len /\ len <= Len(g)
  BY <1>2, <1>3, <1>5, <1>6, <1>7, <1>8
<1>12. Covered(s, g)
  <2> HIDE DEF len
  <2>. QED BY <1>4, <1>7, <1>8, <1>10, <1>11, CoveredAlike
<1>. QED BY <1>6, <1>8, <1>9, <1>12 DEF g, n

\* The checks of a payload do not depend on the length the reader took.
LEMMA SamePayload ==
    ASSUME NEW r \in Readers, r.pc = "scan", NEW len, NEW type, NEW body,
           TakePayload([r EXCEPT !.file_len = len], type, body).pc = "scan"
    PROVE  TakePayload(r, type, body).pc = "scan"
<1> DEFINE s == [r EXCEPT !.file_len = len]
<1>1. s.dictionary = r.dictionary /\ s.expected_event_seq = r.expected_event_seq
  BY DEF Readers
<1>2. EventsLegal(s, body.payload) <=> EventsLegal(r, body.payload)
  BY <1>1 DEF EventsLegal
<1>3. Fail(s).pc = "error"
  BY DEF Fail, Readers
<1>4. CASE type = DictType /\ body.chunk_type = DictType /\ EntriesLegal(r.dictionary, body.payload)
  <2>1. TakePayload(r, type, body) = [r EXCEPT !.dictionary.entries = @ \cup RangeOf(body.payload)]
    BY <1>4 DEF TakePayload, DictType, EventType
  <2>. QED BY <2>1 DEF Readers
<1>5. CASE type = EventType /\ body.chunk_type = EventType /\ EventsLegal(r, body.payload)
  <2>1. TakePayload(r, type, body) = [r EXCEPT !.events = @ \o body.payload,
                                               !.expected_event_seq = @ + Len(body.payload)]
    BY <1>5 DEF TakePayload, DictType, EventType
  <2>. QED BY <2>1 DEF Readers
<1>6. CASE type \notin {DictType, EventType}
  BY <1>6 DEF TakePayload
<1>7. CASE /\ ~(type = DictType /\ body.chunk_type = DictType /\ EntriesLegal(r.dictionary, body.payload))
           /\ ~(type = EventType /\ body.chunk_type = EventType /\ EventsLegal(r, body.payload))
           /\ type \in {DictType, EventType}
  <2>1. TakePayload(s, type, body) = Fail(s)
    BY <1>1, <1>2, <1>7 DEF TakePayload
  <2>. QED BY <1>3, <2>1
<1>. QED BY <1>4, <1>5, <1>6, <1>7

\* What follows the chunks already read: a header that is there begins a
\* chunk, or is less than a header, and a chunk whose trailer is there is
\* whole and is taken.
TakesNext(r, c) ==
    LET n == r.expected_chunk_seq
    IN  /\ 3 * n - 2 <= Len(c) => c[3 * n - 2].part \in {0, 1}
        /\ 3 * n <= r.file_len =>
              \/ c[3 * n].part # 3
              \/ Committed(c, n) /\ TakePayload(r, TypeAt(c, n), BodyAt(c, n)).pc = "scan"

LEMMA GoodContinues ==
    ASSUME NEW c \in Seq(Cells), NEW acc, Numbered(acc), GoodCells(c, acc),
           NEW r, Scanning(r, c)
    PROVE  TakesNext(r, c)
<1> DEFINE n == r.expected_chunk_seq
<1>1. Covered(r, c)
  BY DEF Scanning
<1>2. n \in Nat /\ n >= 1 /\ Len(c) \in Nat
  BY <1>1, ReaderTypes, LenProperties DEF Covered, AtBoundary
<1>3. 3 * n - 2 <= Len(c) => n \in 1..Len(c)
  BY <1>2
<1>4. 3 * n - 2 <= Len(c) => c[3 * n - 2].part = 1
  BY <1>3 DEF GoodCells, HeadersInPlace
<1>5. ASSUME 3 * n <= r.file_len
      PROVE  Committed(c, n) /\ TakePayload(r, TypeAt(c, n), BodyAt(c, n)).pc = "scan"
  <2>1. Whole(r)
    BY <1>5 DEF Whole
  <2>. QED BY <1>1, <2>1, NextChunk, TakesChunk
<1>. QED BY <1>4, <1>5 DEF TakesNext

LEMMA TornContinues ==
    ASSUME NEW c \in Seq(Cells), NEW acc, Numbered(acc), NEW m \in Nat, TornAfter(c, m, acc),
           NEW r, Scanning(r, c)
    PROVE  TakesNext(r, c)
<1> DEFINE n == r.expected_chunk_seq
           g == SubSeq(c, 1, 3 * m)
           len == IF r.file_len <= 3 * m THEN r.file_len ELSE 3 * m
           s == [r EXCEPT !.file_len = len]
<1>1. Covered(r, c) /\ r \in Readers /\ r.pc = "scan" /\ r.torn_tail = FALSE
  BY DEF Scanning, Covered
<1>2. /\ n \in Nat /\ n >= 1 /\ r.file_len \in Nat /\ Len(c) \in Nat /\ r.file_len <= Len(c)
  BY <1>1, ReaderTypes, LenProperties DEF Covered, AtBoundary
<1>3. /\ 3 * m < Len(c) /\ GoodCells(g, acc) /\ c[3 * m + 1].part \in {0, 1}
      /\ 3 * m + 3 <= Len(c) => c[3 * m + 3].part # 3
  BY DEF TornAfter
<1>4. /\ n <= m + 1
      /\ g \in Seq(Cells) /\ Len(g) = 3 * m /\ \A i \in 1..(3 * m) : g[i] = c[i]
      /\ Covered(s, g)
  BY <1>1, StopsAtFragment
<1>5. /\ s.expected_chunk_seq = n /\ s.file_len = len /\ s.pc = "scan" /\ s.torn_tail = FALSE
  BY <1>1 DEF Readers
<1>6. /\ n <= m \/ n = m + 1
      /\ n = m + 1 => 3 * n - 2 = 3 * m + 1 /\ 3 * n = 3 * m + 3
      /\ n <= m => 3 * n <= 3 * m /\ 3 * n - 2 \in 1..(3 * m) /\ 3 * n - 1 \in 1..(3 * m)
                   /\ 3 * n \in 1..(3 * m) /\ 3 * n - 2 <= 3 * m
  <2>1. /\ n <= m \/ n = m + 1 \/ m + 1 \in 1..(n - 1)
        /\ n = m + 1 => 3 * n - 2 = 3 * m + 1 /\ 3 * n = 3 * m + 3
        /\ n <= m => 3 * n <= 3 * m /\ 3 * n - 2 \in 1..(3 * m) /\ 3 * n - 1 \in 1..(3 * m)
                   /\ 3 * n \in 1..(3 * m) /\ 3 * n - 2 <= 3 * m
    BY <1>2, <1>3, BeforeFragment
  <2>2. m + 1 \notin 1..(n - 1)
    BY <1>2, <1>4
  <2>. QED BY <2>1, <2>2
<1>7. CASE n = m + 1
  <2>1. 3 * n <= r.file_len => 3 * m + 3 <= Len(c)
    BY <1>2, <1>6, <1>7
  <2>. QED BY <1>3, <1>6, <1>7, <2>1 DEF TakesNext
<1>8. CASE n <= m
  <2>1. Scanning(s, g)
    BY <1>4, <1>5 DEF Scanning
  <2>2. TakesNext(s, g)
    BY <1>3, <1>4, <2>1, GoodContinues
  <2>3. c[3 * n - 2] = g[3 * n - 2] /\ c[3 * n - 1] = g[3 * n - 1] /\ c[3 * n] = g[3 * n]
    BY <1>4, <1>6, <1>8
  <2>4. 3 * n <= r.file_len => 3 * n <= len
    BY <1>6, <1>8
  <2> HIDE DEF n, g, s, len
  <2>5. c[3 * n - 2].part \in {0, 1}
    BY <1>4, <1>5, <1>6, <1>8, <2>2, <2>3 DEF TakesNext
  <2>6. ASSUME 3 * n <= r.file_len
        PROVE  \/ c[3 * n].part # 3
               \/ Committed(c, n) /\ TakePayload(s, TypeAt(c, n), BodyAt(c, n)).pc = "scan"
    <3>1. \/ g[3 * n].part # 3
          \/ Committed(g, n) /\ TakePayload(s, TypeAt(g, n), BodyAt(g, n)).pc = "scan"
      BY <1>5, <2>2, <2>4, <2>6 DEF TakesNext
    <3>2. Committed(g, n) <=> Committed(c, n)
      BY <2>3 DEF Committed
    <3>3. TypeAt(g, n) = TypeAt(c, n) /\ BodyAt(g, n) = BodyAt(c, n)
      BY <2>3 DEF TypeAt, BodyAt
    <3>. QED BY <2>3, <3>1, <3>2, <3>3
  <2>7. TakePayload(s, TypeAt(c, n), BodyAt(c, n)).pc = "scan"
          => TakePayload(r, TypeAt(c, n), BodyAt(c, n)).pc = "scan"
    BY <1>1, SamePayload DEF s
  <2>. QED BY <2>5, <2>6, <2>7 DEF TakesNext, n
<1>. QED BY <1>6, <1>7, <1>8

LEMMA SoundContinues ==
    ASSUME NEW c \in Seq(Cells), NEW acc, Numbered(acc), SoundCells(c, acc),
           NEW r, Scanning(r, c)
    PROVE  TakesNext(r, c)
<1>1. \A m \in 0..Len(c) : m \in Nat
  BY LenProperties
<1>. QED BY <1>1, GoodContinues, TornContinues DEF SoundCells

\* Whatever follows the chunks already read, the loop does not reject it,
\* unless it is a fragment of a header with something behind it.
LEMMA NotRejected ==
    ASSUME NEW c \in Seq(Cells), NEW r, Scanning(r, c), TakesNext(r, c),
           ~CutHeader(c, r.file_len)
    PROVE  ReadStep(r, c).pc # "error"
<1> DEFINE n == r.expected_chunk_seq
           head == c[r.offset + 1]
           need == 2 + head.chunk.payload_len
           body == c[r.offset + 2]
           trail == c[r.offset + need]
           taken == TakePayload(r, head.chunk.chunk_type, body.chunk)
           went == [taken EXCEPT !.offset = @ + need, !.expected_chunk_seq = @ + 1]
<1>1. r \in Readers /\ r.pc = "scan" /\ Covered(r, c)
  BY DEF Scanning, Covered
<1>2. /\ n \in Nat /\ n >= 1 /\ r.file_len \in Nat /\ Len(c) \in Nat
      /\ r.offset = 3 * (n - 1) /\ r.file_len <= Len(c)
  BY <1>1, ReaderTypes, LenProperties DEF Covered, AtBoundary
<1>3. \A torn : Stop(r, torn).pc = "done"
  BY <1>1 DEF Stop, Readers
<1>4. CASE ~(r.file_len - r.offset >= 2)
  BY <1>3, <1>4 DEF ReadStep
<1>5. CASE r.file_len - r.offset >= 2
  <2>1. ReadStep(r, c) = ReadChunk(r, c)
    BY <1>5 DEF ReadStep
  <2>2. /\ r.offset + 1 = 3 * n - 2 /\ 3 * n - 2 \in 1..Len(c) /\ 3 * n - 2 <= Len(c)
        /\ r.offset + 2 = 3 * n - 1 /\ r.offset + 3 = 3 * n
        /\ ~(3 > r.file_len - r.offset) => 3 * n <= r.file_len
    BY <1>2, <1>5, HeaderNext
  <2>3. head.part = 1 /\ head.chunk.payload_len = 1
    <3>1. head = c[3 * n - 2] /\ 3 * n - 2 \in 1..(r.file_len - 1)
      BY <1>2, <1>5, <2>2
    <3>2. head.part # 0 /\ head.chunk.payload_len = 1
      BY <3>1 DEF CutHeader
    <3>3. head.part \in {0, 1}
      BY <2>2, <3>1 DEF TakesNext
    <3>. QED BY <3>2, <3>3
  <2>4. head.chunk.payload_len = 1
    BY <2>3
  <2>5. need = 3 /\ trail = c[3 * n] /\ head = c[3 * n - 2] /\ body = c[3 * n - 1]
    BY <2>2, <2>4
  <2>6. ReadChunk(r, c) =
          IF head.part # 1 THEN IF r.offset = 0 THEN Fail(r) ELSE Stop(r, TRUE)
          ELSE IF need > r.file_len - r.offset THEN Stop(r, TRUE)
          ELSE IF head.chunk.payload_len > 1 THEN Fail(r)
          ELSE IF trail.part # 3 THEN Stop(r, TRUE)
          ELSE IF body.part # 2 \/ trail.chunk.payload # body.chunk.payload THEN Fail(r)
          ELSE IF head.chunk.sequence # n THEN Fail(r)
          ELSE went
    BY DEF ReadChunk
  <2>7. went.pc = taken.pc
    OBVIOUS
  <2>8. taken = TakePayload(r, TypeAt(c, n), BodyAt(c, n))
    BY <2>5 DEF TypeAt, BodyAt
  <2> HIDE DEF n, head, need, body, trail, taken, went
  <2>9. CASE 3 > r.file_len - r.offset
    BY <1>3, <2>1, <2>3, <2>5, <2>6, <2>9
  <2>10. CASE ~(3 > r.file_len - r.offset)
    <3>1. \/ trail.part # 3
          \/ Committed(c, n) /\ taken.pc = "scan"
      BY <2>2, <2>5, <2>8, <2>10 DEF TakesNext, n
    <3>2. ~(need > r.file_len - r.offset) /\ ~(head.chunk.payload_len > 1)
      BY <2>4, <2>5, <2>10
    <3>3. CASE trail.part # 3
      BY <1>3, <2>1, <2>3, <2>6, <3>2, <3>3
    <3>4. CASE Committed(c, n) /\ taken.pc = "scan"
      <4>1. /\ head.chunk.sequence = n /\ body.part = 2 /\ trail.part = 3
            /\ trail.chunk.payload = body.chunk.payload
        BY <2>5, <3>4 DEF Committed
      <4>2. ReadChunk(r, c) = went
        BY <2>3, <2>6, <3>2, <4>1
      <4>. QED BY <2>1, <2>7, <3>4, <4>2
    <3>. QED BY <3>1, <3>3, <3>4
  <2>. QED BY <2>9, <2>10
<1>. QED BY <1>4, <1>5

\* The events gathered from a sound file are the first of the history.
LEMMA SoundSoFarRead ==
    ASSUME NEW c \in Seq(Cells), NEW acc, Numbered(acc), SoundCells(c, acc),
           NEW r, Covered(r, c)
    PROVE  /\ Len(r.events) \in Nat /\ Len(r.events) <= Len(acc)
           /\ \A i \in 1..Len(r.events) : r.events[i] = acc[i]
<1>1. CASE GoodCells(c, acc)
  BY <1>1, ReadSoFar
<1>2. ASSUME NEW m \in 0..Len(c), TornAfter(c, m, acc)
      PROVE  /\ Len(r.events) \in Nat /\ Len(r.events) <= Len(acc)
             /\ \A i \in 1..Len(r.events) : r.events[i] = acc[i]
  <2> DEFINE g == SubSeq(c, 1, 3 * m)
             s == [r EXCEPT !.file_len = IF r.file_len <= 3 * m THEN r.file_len ELSE 3 * m]
  <2>1. m \in Nat
    BY LenProperties
  <2>2. g \in Seq(Cells) /\ Covered(s, g) /\ GoodCells(g, acc)
    BY <1>2, <2>1, StopsAtFragment DEF TornAfter
  <2>3. s.events = r.events
    BY DEF Covered, Readers
  <2> HIDE DEF g, s
  <2>4. /\ Len(s.events) \in Nat /\ Len(s.events) <= Len(acc)
        /\ \A i \in 1..Len(s.events) : s.events[i] = acc[i]
    BY <2>2, ReadSoFar
  <2>. QED BY <2>3, <2>4
<1>. QED BY <1>1, <1>2 DEF SoundCells

-----------------------------------------------------------------------------
(* The invariant *)

\* What a reader holds that has opened the file c after st of the events acc
\* were promised: what the chunks it has passed carry; it stops only where no
\* committed chunk is left in the length it took, and fails only at a header
\* cut short; and, with no chunk missing, that length covers the st.
Held(r, c, acc, st) ==
    /\ \/ Scanning(r, c)
       \/ Finished(r, c) /\ ~Ready(r, c)
       \/ r.pc = "error" /\ r.file_len \in 0..Len(c) /\ CutHeader(c, r.file_len)
    /\ st <= Len(acc)
    /\ ChunksInOrder(c) =>
          \A n \in 1..st : \E k \in 1..Len(c) : 3 * k <= r.file_len /\ HasEvent(c, k, acc[n])

LEMMA HeldOpen ==
    ASSUME NEW c \in Seq(Cells), NEW acc, NEW st, ShortFile(c, acc, st)
    PROVE  Held(OpenReader(TRUE, Len(c)), c, acc, st)
<1>1. c \in Seq(FileCells) /\ Len(c) \in 0..Len(c)
  BY CellsFile, LenProperties
<1>2. Scanning(OpenReader(TRUE, Len(c)), c) /\ OpenReader(TRUE, Len(c)).file_len = Len(c)
  BY <1>1, OpenScans
<1> DEFINE r == OpenReader(TRUE, Len(c))
<1>3. \A k, x : HasEvent(c, k, x) => 3 * k <= r.file_len
  BY <1>2 DEF HasEvent
<1>4. /\ st <= Len(acc)
      /\ ChunksInOrder(c) => \A n \in 1..st : \E k \in 1..Len(c) : HasEvent(c, k, acc[n])
  BY DEF ShortFile, Written
<1> HIDE DEF r
<1>5. Held(r, c, acc, st)
  <2>1. Scanning(r, c)
    BY <1>2 DEF r
  <2>2. ChunksInOrder(c) =>
          \A n \in 1..st : \E k \in 1..Len(c) : 3 * k <= r.file_len /\ HasEvent(c, k, acc[n])
    BY <1>3, <1>4
  <2>. QED BY <1>4, <2>1, <2>2 DEF Held
<1>. QED BY <1>5 DEF r

\* One iteration of the loop.
LEMMA HeldScan ==
    ASSUME NEW c \in Seq(Cells), NEW acc, Numbered(acc), SoundCells(c, acc), NEW st,
           NEW r, Held(r, c, acc, st), r.pc = "scan",
           NEW v, v = ReadStep(r, c)
    PROVE  Held(v, c, acc, st)
<1>1. Scanning(r, c)
  BY DEF Held, Finished
<1>2. c \in Seq(FileCells)
  BY CellsFile
<1>3. v.pc = "error" => CutHeader(c, r.file_len)
  BY <1>1, SoundContinues, NotRejected
<1>4. /\ st <= Len(acc)
      /\ ChunksInOrder(c) =>
            \A n \in 1..st : \E k \in 1..Len(c) : 3 * k <= r.file_len /\ HasEvent(c, k, acc[n])
  BY DEF Held
<1>5. ASSUME v.file_len = r.file_len,
             \/ Scanning(v, c)
             \/ Finished(v, c) /\ ~Ready(v, c)
      PROVE  Held(v, c, acc, st)
  <2>1. ChunksInOrder(c) =>
            \A n \in 1..st : \E k \in 1..Len(c) : 3 * k <= v.file_len /\ HasEvent(c, k, acc[n])
    BY <1>4, <1>5
  <2>. QED BY <1>4, <1>5, <2>1 DEF Held
<1>6. CASE /\ Finished(v, c) /\ ~Ready(r, c)
           /\ v.file_len = r.file_len /\ v.expected_chunk_seq = r.expected_chunk_seq
  <2>1. ~Ready(v, c)
    BY <1>6 DEF Ready
  <2>. QED BY <1>5, <1>6, <2>1
<1>7. CASE Scanning(v, c) /\ Passes(r, v, c)
  <2>1. v.file_len = r.file_len
    BY <1>7 DEF Passes
  <2>. QED BY <1>5, <1>7, <2>1
<1>8. CASE v.pc = "error" /\ v \in Readers /\ r \in Before(v)
  <2>1. v.file_len = r.file_len
    BY <1>8 DEF Before, Readers
  <2>2. r.file_len \in 0..Len(c)
    BY <1>1, ReaderTypes, LenProperties DEF Scanning, Covered, AtBoundary
  <2>3. ChunksInOrder(c) =>
            \A n \in 1..st : \E k \in 1..Len(c) : 3 * k <= v.file_len /\ HasEvent(c, k, acc[n])
    BY <1>4, <2>1
  <2>. QED BY <1>3, <1>4, <1>8, <2>1, <2>2, <2>3 DEF Held
<1>. QED BY <1>1, <1>2, <1>6, <1>7, <1>8, StepCases

\* The chunk a reader stands at does not change while the file grows.
LEMMA ReadyPre ==
    ASSUME NEW c, NEW d, Pre(c, d), NEW r, Covered(r, c)
    PROVE  Ready(r, c) <=> Ready(r, d)
<1> DEFINE n == r.expected_chunk_seq
<1>1. n \in Nat /\ n >= 1 /\ r.file_len \in Nat /\ r.file_len <= Len(c)
  BY ReaderTypes DEF Covered, AtBoundary
<1>2. Len(c) \in Nat /\ Len(d) \in Nat /\ Len(c) <= Len(d) /\ \A i \in 1..Len(c) : c[i] = d[i]
  BY DEF Pre
<1>3. ASSUME 3 * n <= r.file_len
      PROVE  c[3 * n - 2] = d[3 * n - 2] /\ c[3 * n - 1] = d[3 * n - 1] /\ c[3 * n] = d[3 * n]
  <2> HIDE DEF n
  <2>1. 3 * n <= Len(c)
    BY <1>1, <1>2, <1>3
  <2>2. 3 * n - 2 \in 1..Len(c) /\ 3 * n - 1 \in 1..Len(c) /\ 3 * n \in 1..Len(c)
    BY <1>1, <1>2, <2>1
  <2>. QED BY <1>2, <2>2
<1>. QED BY <1>3 DEF Ready, Committed

\* The writer runs between two iterations: the file and the history grow.
LEMMA HeldGrows ==
    ASSUME NEW c, NEW d, Pre(c, d), NEW acc, NEW more, Len(acc) \in Nat, Len(more) \in Nat,
           Len(acc) <= Len(more), \A n \in 1..Len(acc) : more[n] = acc[n],
           NEW st \in Nat, NEW r, Held(r, c, acc, st)
    PROVE  Held(r, d, more, st)
<1>1. Scanning(r, c) => Scanning(r, d)
  BY CoveredPre DEF Scanning
<1>2. Finished(r, c) /\ ~Ready(r, c) => Finished(r, d) /\ ~Ready(r, d)
  BY CoveredPre, ReadyPre DEF Finished
<1>3. st <= Len(acc) /\ st <= Len(more)
  BY DEF Held
<1>4. ASSUME ChunksInOrder(d), NEW n \in 1..st
      PROVE  \E k \in 1..Len(d) : 3 * k <= r.file_len /\ HasEvent(d, k, more[n])
  <2>1. ChunksInOrder(c)
    BY <1>4, InOrderPrefix
  <2>2. PICK k \in 1..Len(c) : 3 * k <= r.file_len /\ HasEvent(c, k, acc[n])
    BY <2>1 DEF Held
  <2>3. k \in Nat \ {0} /\ k \in 1..Len(d)
    BY DEF Pre
  <2>4. HasEvent(d, k, acc[n])
    BY <2>2, <2>3, PreKeeps
  <2>5. more[n] = acc[n]
    BY <1>3
  <2>. QED BY <2>2, <2>3, <2>4, <2>5
<1>5. ASSUME r.file_len \in 0..Len(c), CutHeader(c, r.file_len)
      PROVE  r.file_len \in 0..Len(d) /\ CutHeader(d, r.file_len)
  <2>1. Len(c) \in Nat /\ Len(d) \in Nat /\ Len(c) <= Len(d) /\ \A i \in 1..Len(c) : c[i] = d[i]
    BY DEF Pre
  <2>2. \A k \in 1..(r.file_len - 1) : k \in 1..Len(c)
    BY <1>5, <2>1
  <2>3. CutHeader(d, r.file_len)
    BY <1>5, <2>1, <2>2 DEF CutHeader
  <2>. QED BY <1>5, <2>1, <2>3
<1>. QED BY <1>1, <1>2, <1>3, <1>4, <1>5 DEF Held

\* The inductive invariant of writer and reader: the writer's own, and what
\* the reader has gathered, once it has opened a file that has its header.
RecoveryInv ==
    /\ TypeOK
    /\ ShortInv
    /\ opened \in BOOLEAN
    /\ stableAtOpen \in Nat
    /\ opened => status # "new"
    /\ opened /\ ~header => reader.pc = "error"
    /\ opened /\ header => Held(reader, writer.disk, accepted, stableAtOpen)

LEMMA RecoveryInit == RInit => RecoveryInv
<1>1. SUFFICES ASSUME RInit PROVE RecoveryInv
  OBVIOUS
<1>2. Init /\ opened = FALSE /\ stableAtOpen = 0
  BY <1>1 DEF RInit
<1>3. TypeOK /\ ShortInv
  BY <1>2, InitType, InitShort
<1>. QED BY <1>2, <1>3 DEF RecoveryInv

LEMMA HeaderStays ==
    ASSUME Next, status # "new"
    PROVE  header' = header /\ status' # "new"
BY DEF Next, Create, CreateFails, InternName, AppendCall, FlushCall, FinishCall, DropCall, Crash

LEMMA RecoveryWriter ==
    ASSUME RecoveryInv, WriterStep
    PROVE  RecoveryInv'
<1>1. TypeOK /\ ShortInv /\ Next /\ reader' = reader /\ opened' = opened /\ stableAtOpen' = stableAtOpen
  BY DEF RecoveryInv, WriterStep, readerVars
<1>2. TypeOK' /\ ShortInv'
  BY <1>1, StepType, StepShort
<1>3. opened => header' = header /\ status' # "new"
  BY <1>1, HeaderStays DEF RecoveryInv
<1>4. Pre(writer.disk, writer'.disk)
  BY <1>1, StepAdvances DEF Advances
<1>5. Len(accepted) \in Nat /\ accepted \in Seq(Events) /\ Len(accepted') \in Nat
  BY <1>1, <1>2, LenProperties DEF TypeOK
<1>6. Len(accepted) <= Len(accepted') /\ \A n \in 1..Len(accepted) : accepted'[n] = accepted[n]
  <2>1. CASE accepted' = accepted
    BY <1>5, <2>1
  <2>2. CASE \E ev \in Recordable : accepted' = Append(accepted, ev)
    <3>1. PICK ev \in Recordable : accepted' = Append(accepted, ev)
      BY <2>2
    <3>2. ev \in Events
      BY WriterAssumption DEF Recordable, Events
    <3>. QED BY <1>5, <3>1, <3>2, AppendProperties
  <2>. QED BY <1>1, <2>1, <2>2, StepAdvances DEF Advances
<1>7. ASSUME opened, header PROVE Held(reader, writer'.disk, accepted', stableAtOpen)
  <2>1. Held(reader, writer.disk, accepted, stableAtOpen) /\ stableAtOpen \in Nat
    BY <1>7 DEF RecoveryInv
  <2>. QED BY <1>4, <1>5, <1>6, <2>1, HeldGrows
<1>8. opened \in BOOLEAN /\ stableAtOpen \in Nat /\ (opened /\ ~header => reader.pc = "error")
  BY DEF RecoveryInv
<1>. QED BY <1>1, <1>2, <1>3, <1>7, <1>8 DEF RecoveryInv

LEMMA RecoveryOpen ==
    ASSUME RecoveryInv, Open
    PROVE  RecoveryInv'
<1>1. /\ TypeOK /\ ShortInv /\ writer \in WriterStates /\ stable \in Nat
  BY DEF RecoveryInv, TypeOK
<1>2. /\ header' = header /\ status' = status /\ writer' = writer /\ accepted' = accepted
      /\ stable' = stable /\ faults' = faults /\ last' = last
      /\ status # "new" /\ opened' = TRUE /\ stableAtOpen' = stable
      /\ reader' = OpenReader(header, Len(writer.disk))
  BY DEF Open, vars
<1>3. TypeOK' /\ ShortInv'
  BY <1>1, <1>2 DEF TypeOK, ShortInv
<1>4. ~header => reader'.pc = "error"
  BY <1>2 DEF OpenReader
<1>5. ASSUME header PROVE Held(reader', writer.disk, accepted, stable)
  <2>1. writer.disk \in Seq(Cells)
    BY <1>1, FieldTypes
  <2>2. ShortFile(writer.disk, accepted, stable)
    BY <1>1, ShortParts
  <2>3. header = TRUE
    BY <1>1, <1>5 DEF TypeOK
  <2>. QED BY <1>2, <2>1, <2>2, <2>3, HeldOpen
<1>. QED BY <1>1, <1>2, <1>3, <1>4, <1>5 DEF RecoveryInv

LEMMA RecoveryScan ==
    ASSUME RecoveryInv, Scan
    PROVE  RecoveryInv'
<1>1. /\ TypeOK /\ ShortInv /\ writer \in WriterStates
  BY DEF RecoveryInv, TypeOK
<1>2. /\ header' = header /\ status' = status /\ writer' = writer /\ accepted' = accepted
      /\ stable' = stable /\ faults' = faults /\ last' = last
      /\ opened /\ opened' = opened /\ stableAtOpen' = stableAtOpen
      /\ reader.pc = "scan" /\ reader' = ReadStep(reader, writer.disk)
  BY DEF Scan, vars
<1>3. TypeOK' /\ ShortInv'
  BY <1>1, <1>2 DEF TypeOK, ShortInv
<1>4. header /\ Held(reader, writer.disk, accepted, stableAtOpen)
  BY <1>2 DEF RecoveryInv
<1>5. writer.disk \in Seq(Cells) /\ Numbered(accepted) /\ SoundCells(writer.disk, accepted)
  BY <1>1, FieldTypes, ShortParts DEF ShortInv
<1>6. Held(reader', writer.disk, accepted, stableAtOpen)
  BY <1>2, <1>4, <1>5, HeldScan
<1>. QED BY <1>2, <1>3, <1>4, <1>6 DEF RecoveryInv

\* Writer and reader keep their invariant, whichever moves and whatever a
\* failed write leaves in the file, less than a chunk header included.
THEOREM RecoveryInvariant == RSpec => []RecoveryInv
<1>1. RInit => RecoveryInv
  BY RecoveryInit
<1>2. RecoveryInv /\ [RNext]_<<vars, readerVars>> => RecoveryInv'
  <2>1. SUFFICES ASSUME RecoveryInv, [RNext]_<<vars, readerVars>> PROVE RecoveryInv'
    OBVIOUS
  <2>2. CASE WriterStep
    BY <2>1, <2>2, RecoveryWriter
  <2>3. CASE Open
    BY <2>1, <2>3, RecoveryOpen
  <2>4. CASE Scan
    BY <2>1, <2>4, RecoveryScan
  <2>5. CASE UNCHANGED <<vars, readerVars>>
    BY <2>1, <2>5 DEF RecoveryInv, TypeOK, ShortInv, vars, readerVars
  <2>. QED BY <2>1, <2>2, <2>3, <2>4, <2>5 DEF RNext
<1>. QED BY <1>1, <1>2, PTL DEF RSpec

\* SessionReader::open accepts the journal SessionWriter wrote at any moment:
\* during a call, after a drop, a crash, an I/O error in the middle of a
\* chunk, even with more written behind the fragment, as long as no fragment
\* of a chunk header has something behind it.
THEOREM AcceptsEveryJournal == RSpec => []NeverRejects
<1>1. RecoveryInv => NeverRejects
  BY DEF RecoveryInv, NeverRejects, Held, Scanning, Finished
<1>. QED BY <1>1, RecoveryInvariant, PTL

LEMMA DoneHeld ==
    ASSUME RecoveryInv, opened, reader.pc = "done"
    PROVE  /\ writer.disk \in Seq(Cells) /\ Numbered(accepted) /\ SoundCells(writer.disk, accepted)
           /\ Finished(reader, writer.disk) /\ ~Ready(reader, writer.disk)
           /\ Covered(reader, writer.disk)
           /\ Held(reader, writer.disk, accepted, stableAtOpen)
<1>1. TypeOK /\ ShortInv /\ header
  BY DEF RecoveryInv
<1>2. writer.disk \in Seq(Cells) /\ Numbered(accepted) /\ SoundCells(writer.disk, accepted)
  BY <1>1, FieldTypes, ShortParts DEF ShortInv, TypeOK
<1>3. Held(reader, writer.disk, accepted, stableAtOpen)
  BY <1>1 DEF RecoveryInv
<1>. QED BY <1>2, <1>3 DEF Held, Scanning, Finished

\* What SessionReader::open returns is a prefix of what append_event recorded,
\* even from a file a short write has torn.
THEOREM ReturnsPrefix == RSpec => []ReadsPrefix
<1>1. RecoveryInv => ReadsPrefix
  <2>1. SUFFICES ASSUME RecoveryInv, opened, reader.pc = "done"
                 PROVE  /\ Len(reader.events) <= Len(accepted)
                        /\ reader.events = SubSeq(accepted, 1, Len(reader.events))
    BY DEF ReadsPrefix
  <2>2. /\ Len(reader.events) \in Nat /\ Len(reader.events) <= Len(accepted)
        /\ \A i \in 1..Len(reader.events) : reader.events[i] = accepted[i]
    BY <2>1, DoneHeld, SoundSoFarRead
  <2>3. accepted \in Seq(Events) /\ reader.events \in Seq(Events)
    BY <2>1, DoneHeld, ReaderTypes DEF Numbered, Covered
  <2>4. /\ SubSeq(accepted, 1, Len(reader.events)) \in Seq(Events)
        /\ Len(SubSeq(accepted, 1, Len(reader.events))) = Len(reader.events)
        /\ \A i \in 1..Len(reader.events) : SubSeq(accepted, 1, Len(reader.events))[i] = accepted[i]
    BY <2>2, <2>3, PrefixProps
  <2>. QED BY <2>2, <2>3, <2>4, SeqEqual
<1>. QED BY <1>1, RecoveryInvariant, PTL

\* It returns every event an acknowledged flush had covered when the file was
\* opened, in a file with no chunk missing.
THEOREM ReturnsPromised == RSpec => []ReadsStable
<1>1. RecoveryInv => ReadsStable
  <2>1. SUFFICES ASSUME RecoveryInv, opened, reader.pc = "done", ChunksInOrder(writer.disk)
                 PROVE  Len(reader.events) >= stableAtOpen
    BY DEF ReadsStable
  <2> DEFINE c == writer.disk
             r == reader
             e == reader.expected_chunk_seq
  <2>2. /\ c \in Seq(Cells) /\ Numbered(accepted) /\ Covered(r, c)
        /\ ~Ready(r, c) /\ Held(r, c, accepted, stableAtOpen) /\ ChunksInOrder(c)
    BY <2>1, DoneHeld
  <2>3. stableAtOpen \in Nat
    BY <2>1 DEF RecoveryInv
  <2>4. /\ e \in Nat /\ e >= 1 /\ r.file_len \in Nat /\ Len(c) \in Nat /\ r.file_len <= Len(c)
        /\ r.events \in Seq(Events) /\ Len(r.events) \in Nat
    BY <2>2, ReaderTypes, LenProperties DEF Covered, AtBoundary
  <2> HIDE DEF e
  <2>5. 3 * e > r.file_len
    <3>1. ASSUME 3 * e <= r.file_len PROVE FALSE
      <4>1. e \in Nat \ {0} /\ 3 * e <= Len(c)
        BY <2>4, <3>1
      <4>2. Committed(c, e)
        BY <2>2, <4>1, GoodChunk
      <4>. QED BY <2>2, <3>1, <4>2 DEF Ready, e
    <3>. QED BY <2>4, <3>1
  <2>6. CASE stableAtOpen = 0
    BY <2>4, <2>6
  <2>7. CASE stableAtOpen # 0
    <3>1. stableAtOpen \in 1..stableAtOpen /\ stableAtOpen \in 1..Len(accepted)
      BY <2>2, <2>3, <2>7, LenProperties DEF Held, Numbered
    <3>2. PICK k \in 1..Len(c) : 3 * k <= r.file_len /\ HasEvent(c, k, accepted[stableAtOpen])
      BY <2>2, <3>1 DEF Held
    <3>3. k \in 1..(e - 1) /\ k \in Nat \ {0} /\ 3 * k <= Len(c)
      BY <2>4, <2>5, <3>2
    <3>4. Carries(c, k, EventType, accepted[stableAtOpen])
      BY <2>2, <3>2, <3>3, GoodChunk
    <3>5. accepted[stableAtOpen] \in Events /\ accepted[stableAtOpen].event_sequence = stableAtOpen
      BY <2>2, <3>1, ElementOfSeq DEF Numbered
    <3>6. accepted[stableAtOpen] \in RangeOf(r.events)
      BY <2>2, <3>3, <3>4, <3>5 DEF Covered, HasGathered, e
    <3>7. PICK i \in 1..Len(r.events) : accepted[stableAtOpen] = r.events[i]
      BY <2>4, <3>6, RangeProps
    <3>8. i = stableAtOpen
      BY <2>2, <3>5, <3>7 DEF Covered, SoundSoFar
    <3>. QED BY <2>4, <3>7, <3>8
  <2>. QED BY <2>6, <2>7
<1>. QED BY <1>1, RecoveryInvariant, PTL
=============================================================================
