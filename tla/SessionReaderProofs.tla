------------------------ MODULE SessionReaderProofs ------------------------
(***************************************************************************)
(* SessionReader::open on every file: what it returns is sound, it reports *)
(* a torn tail exactly when it left cells unread, and a file it can read   *)
(* stays readable, to a prefix, however much of its end is missing.        *)
(***************************************************************************)
EXTENDS SessionReader, JournalCoreProofs

\* A reader that took the length len of the file and has not failed.
Runs(r, len) ==
    /\ r.pc \in {"scan", "done"} => r.file_len = len
    /\ Scanning(r, file) \/ Finished(r, file) \/ r.pc = "error"

\* The iteration at which the early reader rejected the file; the late one
\* cannot get past the same chunk.
Rejected ==
    \E b \in Before(early) :
        /\ Scanning(b, file) /\ b.file_len = cut
        /\ ReadStep(b, file).pc = "error"
        /\ late.pc # "done"
        /\ late.pc = "scan" => late.expected_chunk_seq <= b.expected_chunk_seq

\* The inductive invariant: each reader holds what the chunks it has passed
\* carry, and the late one never ends at an earlier chunk than the early one.
ReaderInv ==
    /\ file \in Files
    /\ cut \in 0..Len(file)
    /\ Runs(early, cut)
    /\ Runs(late, Len(file))
    /\ early.pc = "scan" => late = OpenReader(TRUE, Len(file))
    /\ early.pc = "error" => Rejected
    /\ early.pc = "done" /\ late.pc = "done"
          => early.expected_chunk_seq <= late.expected_chunk_seq

LEMMA InitReader == Init => ReaderInv
<1>1. SUFFICES ASSUME Init PROVE ReaderInv
  OBVIOUS
<1>2. /\ file \in Files /\ file \in Seq(FileCells) /\ cut \in 0..Len(file)
      /\ early = OpenReader(TRUE, cut) /\ late = OpenReader(TRUE, Len(file))
  BY <1>1, FilesAssumption DEF Init
<1>3. Len(file) \in 0..Len(file)
  BY <1>2, LenProperties
<1>4. Scanning(early, file) /\ early.file_len = cut
  BY <1>2, OpenScans
<1>5. Scanning(late, file) /\ late.file_len = Len(file)
  BY <1>2, <1>3, OpenScans
<1>6. early.pc = "scan" /\ late.pc = "scan"
  BY <1>4, <1>5 DEF Scanning
<1>. QED BY <1>2, <1>4, <1>5, <1>6 DEF ReaderInv, Runs

\* A reader of the whole file does not end at a chunk an earlier one passed.
LEMMA LateGoesOn ==
    ASSUME NEW f, NEW e, NEW l, Covered(e, f), Covered(l, f), e.file_len <= l.file_len,
           l.expected_chunk_seq < e.expected_chunk_seq
    PROVE  Ready(l, f)
<1>1. /\ e.expected_chunk_seq \in Nat /\ l.expected_chunk_seq \in Nat
      /\ l.expected_chunk_seq >= 1
      /\ e.file_len \in Nat /\ l.file_len \in Nat
      /\ e.offset = 3 * (e.expected_chunk_seq - 1) /\ e.offset <= e.file_len
      /\ \A k \in 1..(e.expected_chunk_seq - 1) : Committed(f, k)
  BY ReaderTypes DEF Covered, AtBoundary
<1>2. l.expected_chunk_seq \in 1..(e.expected_chunk_seq - 1)
  BY <1>1
<1>3. 3 * l.expected_chunk_seq <= l.file_len
  BY <1>1
<1>. QED BY <1>1, <1>2, <1>3 DEF Ready

LEMMA EarlyStep == ReaderInv /\ StepEarly => ReaderInv'
<1>1. SUFFICES ASSUME ReaderInv, StepEarly PROVE ReaderInv'
  OBVIOUS
<1>2. /\ file \in Files /\ file \in Seq(FileCells) /\ cut \in 0..Len(file)
      /\ file' = file /\ cut' = cut /\ late' = late
      /\ early.pc = "scan" /\ early' = ReadStep(early, file)
  BY <1>1, FilesAssumption DEF ReaderInv, StepEarly
<1>3. Scanning(early, file) /\ early.file_len = cut
  BY <1>1, <1>2 DEF ReaderInv, Runs, Finished
<1>4. late = OpenReader(TRUE, Len(file)) /\ late.pc = "scan" /\ late.expected_chunk_seq = 1
  BY <1>1, <1>2 DEF ReaderInv, OpenReader
<1>5. Runs(late, Len(file))'
  BY <1>1, <1>2 DEF ReaderInv, Runs
<1>6. /\ early.expected_chunk_seq \in Nat /\ early.expected_chunk_seq >= 1
  BY <1>3, ReaderTypes DEF Scanning, Covered, AtBoundary
<1>7. CASE Finished(early', file) /\ early'.file_len = early.file_len
  <2>1. early'.pc = "done"
    BY <1>7 DEF Finished
  <2>2. Runs(early, cut)'
    BY <1>2, <1>3, <1>7 DEF Runs
  <2>. QED BY <1>2, <1>4, <1>5, <2>1, <2>2 DEF ReaderInv
<1>8. CASE early'.pc = "error" /\ early \in Before(early')
  <2>1. Runs(early, cut)'
    BY <1>8 DEF Runs
  <2>2. Rejected'
    BY <1>2, <1>3, <1>4, <1>6, <1>8 DEF Rejected
  <2>. QED BY <1>2, <1>5, <1>8, <2>1, <2>2 DEF ReaderInv
<1>9. CASE Scanning(early', file) /\ early'.file_len = early.file_len
  <2>1. early'.pc = "scan"
    BY <1>9 DEF Scanning
  <2>2. Runs(early, cut)'
    BY <1>2, <1>3, <1>9 DEF Runs
  <2>. QED BY <1>2, <1>4, <1>5, <2>1, <2>2 DEF ReaderInv
<1>. QED BY <1>2, <1>3, <1>7, <1>8, <1>9, StepCases DEF Passes

LEMMA LateStep == ReaderInv /\ StepLate => ReaderInv'
<1>1. SUFFICES ASSUME ReaderInv, StepLate PROVE ReaderInv'
  OBVIOUS
<1>2. /\ file \in Files /\ file \in Seq(FileCells) /\ cut \in 0..Len(file)
      /\ file' = file /\ cut' = cut /\ early' = early /\ early.pc # "scan"
      /\ late.pc = "scan" /\ late' = ReadStep(late, file)
  BY <1>1, FilesAssumption DEF ReaderInv, StepLate
<1>3. Scanning(late, file) /\ late.file_len = Len(file) /\ Covered(late, file)
  BY <1>1, <1>2 DEF ReaderInv, Runs, Finished, Scanning
<1>4. Runs(early, cut)' /\ cut <= Len(file)
  BY <1>1, <1>2, LenProperties DEF ReaderInv, Runs
<1>5. /\ early.pc = "error" => Rejected
      /\ early.pc \in {"done", "error"}
      /\ early.pc = "done" => Covered(early, file) /\ early.file_len = cut
  BY <1>1, <1>2 DEF ReaderInv, Runs, Finished, Scanning
<1>6. /\ late.expected_chunk_seq \in Nat
      /\ early.pc = "done" => early.expected_chunk_seq \in Nat
  BY <1>3, <1>5, ReaderTypes DEF Covered
<1>7. ASSUME early.pc = "error" PROVE late'.pc # "done" /\ Rejected'
  <2>1. PICK b \in Before(early) :
           /\ Scanning(b, file) /\ b.file_len = cut
           /\ ReadStep(b, file).pc = "error"
           /\ late.expected_chunk_seq <= b.expected_chunk_seq
    BY <1>2, <1>5, <1>7 DEF Rejected
  <2>2. Covered(b, file) /\ b.expected_chunk_seq \in Nat
    BY <2>1, ReaderTypes DEF Scanning, Covered
  <2>3. CASE late.expected_chunk_seq = b.expected_chunk_seq
    <3>1. late'.pc = "error"
      BY <1>2, <1>3, <1>4, <2>1, <2>3, RejectedAgain
    <3>. QED BY <1>2, <2>1, <3>1 DEF Rejected
  <2>4. CASE late.expected_chunk_seq # b.expected_chunk_seq
    <3>1. Ready(late, file)
      BY <1>3, <1>4, <1>6, <2>1, <2>2, <2>4, LateGoesOn
    <3>2. late'.pc = "error" \/ (late'.pc = "scan" /\ late'.expected_chunk_seq = late.expected_chunk_seq + 1)
      BY <1>2, <1>3, <3>1, StepCases DEF Scanning, Passes
    <3>3. late.expected_chunk_seq + 1 <= b.expected_chunk_seq
      BY <1>6, <2>1, <2>2, <2>4
    <3>. QED BY <1>2, <2>1, <3>2, <3>3 DEF Rejected
  <2>. QED BY <2>3, <2>4
<1>8. ASSUME early.pc = "done", ~Ready(late, file)
      PROVE  early.expected_chunk_seq <= late.expected_chunk_seq
  <2>1. ~(late.expected_chunk_seq < early.expected_chunk_seq)
    BY <1>3, <1>4, <1>5, <1>8, LateGoesOn
  <2>. QED BY <1>6, <1>8, <2>1
<1>9. CASE /\ Finished(late', file) /\ ~Ready(late, file)
           /\ late'.file_len = late.file_len
           /\ late'.expected_chunk_seq = late.expected_chunk_seq
  <2>1. Runs(late, Len(file))'
    BY <1>2, <1>3, <1>9 DEF Runs
  <2>2. late'.pc = "done"
    BY <1>9 DEF Finished
  <2>. QED BY <1>2, <1>4, <1>5, <1>7, <1>8, <1>9, <2>1, <2>2 DEF ReaderInv
<1>10. CASE late'.pc = "error"
  <2>1. Runs(late, Len(file))'
    BY <1>10 DEF Runs
  <2>. QED BY <1>2, <1>4, <1>5, <1>7, <1>10, <2>1 DEF ReaderInv
<1>11. CASE Scanning(late', file) /\ late'.file_len = late.file_len
  <2>1. Runs(late, Len(file))'
    BY <1>2, <1>3, <1>11 DEF Runs
  <2>2. late'.pc = "scan"
    BY <1>11 DEF Scanning
  <2>. QED BY <1>2, <1>4, <1>5, <1>7, <2>1, <2>2 DEF ReaderInv
<1>. QED BY <1>2, <1>3, <1>9, <1>10, <1>11, StepCases DEF Passes

\* Both readers of reader.rs, at every iteration of their loops and on every
\* file, hold exactly what the chunks they have passed carry; one that has
\* rejected the file stands at a chunk no reader of a longer part gets past.
THEOREM ReaderInvariant == Spec => []ReaderInv
<1>1. ReaderInv /\ [Next]_vars => ReaderInv'
  <2>1. SUFFICES ASSUME ReaderInv, [Next]_vars PROVE ReaderInv'
    OBVIOUS
  <2>2. CASE StepEarly
    BY <2>1, <2>2, EarlyStep
  <2>3. CASE StepLate
    BY <2>1, <2>3, LateStep
  <2>4. CASE UNCHANGED vars
    BY <2>1, <2>4 DEF vars, ReaderInv, Runs, Rejected, OpenReader
  <2>. QED BY <2>1, <2>2, <2>3, <2>4 DEF Next
<1>. QED BY <1>1, InitReader, PTL DEF Spec

LEMMA InvSound ==
    ASSUME NEW f, NEW r, r.pc = "done" => Finished(r, f)
    PROVE  SoundSession(r)
<1>1. SUFFICES ASSUME r.pc = "done" PROVE SoundSession(r)
  BY DEF SoundSession
<1>2. r \in Readers /\ SoundSoFar(r)
  BY <1>1 DEF Finished, Covered
<1>3. DOMAIN r.events = 1..Len(r.events)
  BY <1>2, ReaderTypes, RangeTyped
<1>. QED BY <1>2, <1>3 DEF SoundSession, SoundSoFar

LEMMA InvEnds ==
    ASSUME ReaderInv
    PROVE  /\ early.pc = "done" => Finished(early, file) /\ early.file_len = cut
           /\ late.pc = "done" => Finished(late, file) /\ late.file_len = Len(file)
BY DEF ReaderInv, Runs, Scanning

\* Fail-closed: whatever a file holds, a session that reader.rs returns from
\* open has resolved every id of every event and has gapless numbers.
THEOREM OpenFailsClosed == Spec => []FailClosed
<1>1. ReaderInv => FailClosed
  BY InvEnds, InvSound DEF FailClosed
<1>. QED BY <1>1, ReaderInvariant, PTL

\* had_torn_tail of reader.rs is true exactly when cells were left unread.
THEOREM TornTailTrue == Spec => []TornTailReported
<1>1. ReaderInv => TornTailReported
  BY InvEnds DEF TornTailReported, Finished
<1>. QED BY <1>1, ReaderInvariant, PTL

\* Torn-tail recovery of reader.rs, on every file: cut a readable file
\* anywhere and open still succeeds, with a prefix of its events.
THEOREM TruncationIsSafe == Spec => []TruncationSafe
<1>1. ReaderInv => TruncationSafe
  <2>1. SUFFICES ASSUME ReaderInv, early.pc # "scan", late.pc = "done"
                 PROVE  /\ early.pc = "done"
                        /\ early.events = SubSeq(late.events, 1, Len(early.events))
                        /\ early.dictionary.entries \subseteq late.dictionary.entries
    BY DEF TruncationSafe
  <2>2. early.pc = "done" /\ early.expected_chunk_seq <= late.expected_chunk_seq
    <3>1. early.pc # "error"
      BY <2>1 DEF ReaderInv, Rejected
    <3>2. early.pc = "done"
      BY <2>1, <3>1 DEF ReaderInv, Runs, Scanning, Finished
    <3>. QED BY <2>1, <3>2 DEF ReaderInv
  <2>3. Covered(early, file) /\ Covered(late, file)
    BY <2>1, <2>2, InvEnds DEF Finished
  <2>4. /\ early.dictionary.entries \subseteq late.dictionary.entries
        /\ Len(early.events) <= Len(late.events)
        /\ \A i \in 1..Len(early.events) : early.events[i] = late.events[i]
    BY <2>2, <2>3, FartherReader
  <2>5. /\ early.events \in Seq(Events) /\ late.events \in Seq(Events)
        /\ Len(early.events) \in Nat /\ Len(late.events) \in Nat
    BY <2>3, ReaderTypes DEF Covered
  <2> DEFINE n == Len(early.events)
             s == SubSeq(late.events, 1, n)
  <2>6. /\ s \in Seq(Events) /\ Len(s) = n
        /\ \A i \in 1..n : s[i] = late.events[i]
    BY <2>4, <2>5, PrefixProps
  <2> HIDE DEF s
  <2>7. early.events = s
    BY <2>4, <2>5, <2>6, SeqEqual
  <2>. QED BY <2>2, <2>4, <2>7 DEF s
<1>. QED BY <1>1, ReaderInvariant, PTL
=============================================================================
