-------------------------- MODULE TraceToolsProofs --------------------------
(***************************************************************************)
(* Proofs about TraceTools, for every session, filter, page size and       *)
(* number of captures: what a client that reads a search result page by    *)
(* page has seen while the session is recorded, and what a baseline that   *)
(* was saved meanwhile is compared with.                                   *)
(***************************************************************************)
EXTENDS TraceTools, SequenceTheorems, NaturalsInduction, WellFoundedInduction, TLAPS

\* What a producer can have recorded.
Recordable ==
    {[seq |-> n, mono |-> k.mono, cat |-> k.cat, name |-> k.name, severity |-> k.severity,
      corr |-> k.corr, payload |-> k.payload] : n \in Nat, k \in EventKinds}
Histories == Seq(Recordable)

Begins(s, t) == Len(s) <= Len(t) /\ \A i \in 1..Len(s) : s[i] = t[i]

\* What the matches are after event n, from what they are after event n - 1.
MatchStep(m, evs, f, n) ==
    IF event_matches_native_filters(evs[n], f) THEN Append(m[n - 1], evs[n]) ELSE m[n - 1]
IsMatching(m, evs, f, n) ==
    m = [i \in 0..n |-> IF i = 0 THEN <<>> ELSE MatchStep(m, evs, f, i)]

-----------------------------------------------------------------------------
(* Sequences and induction up to a bound *)

\* A set of numbers that holds 0 and with each number below n the next one
\* holds all of them up to n.
LEMMA Upward ==
    ASSUME NEW n \in Nat, NEW T, 0 \in T, \A m \in 0..(n - 1) : m \in T => m + 1 \in T
    PROVE  \A m \in 0..n : m \in T
  <1> DEFINE B == {m \in 0..n : m \notin T}
  <1>1. SUFFICES ASSUME B # {} PROVE FALSE
    OBVIOUS
  <1>2. B \subseteq Nat
    OBVIOUS
  <1>3. \E x \in B : \A y \in B : ~(<<y, x>> \in OpToRel(<, Nat))
    BY <1>1, <1>2, NatLessThanWellFounded, WFMin
  <1>4. PICK x \in B : \A y \in B : ~(y < x)
    BY <1>2, <1>3 DEF OpToRel
  <1>5. x \in Nat /\ x # 0 /\ x <= n /\ x \notin T
    OBVIOUS
  <1>6. x - 1 \in T
    BY <1>4, <1>5
  <1> QED
    BY <1>5, <1>6

LEMMA BeginsIsPrefix ==
    ASSUME NEW S, NEW s \in Seq(S), NEW t \in Seq(S), Begins(s, t)
    PROVE  IsPrefix(s, t)
  <1>1. Len(s) \in Nat /\ Len(t) \in Nat /\ Len(s) <= Len(t)
    BY LenProperties DEF Begins
  <1>2. /\ SubSeq(s, 1, Len(s)) = [i \in 1..Len(s) |-> s[i]]
        /\ SubSeq(t, 1, Len(s)) = [i \in 1..Len(s) |-> t[i]]
    BY <1>1
  <1>3. \A i \in 1..Len(s) : s[i] = t[i]
    BY DEF Begins
  <1>4. SubSeq(s, 1, Len(s)) = SubSeq(t, 1, Len(s))
    BY <1>2, <1>3
  <1> QED
    BY <1>1, <1>4 DEF IsPrefix

LEMMA BeginsItself ==
    ASSUME NEW s \in Histories
    PROVE  Begins(s, s)
  BY LenProperties DEF Begins, Histories

LEMMA BeginsTransitive ==
    ASSUME NEW S, NEW r \in Seq(S), NEW s \in Seq(S), NEW t \in Seq(S), Begins(r, s), Begins(s, t)
    PROVE  Begins(r, t)
  <1>1. Len(r) \in Nat /\ Len(s) \in Nat /\ Len(t) \in Nat
    BY LenProperties
  <1>2. Len(r) <= Len(s) /\ Len(s) <= Len(t)
    BY DEF Begins
  <1>3. ASSUME NEW i \in 1..Len(r) PROVE r[i] = t[i]
    <2>1. i \in 1..Len(s)
      BY <1>1, <1>2
    <2> QED
      BY <2>1 DEF Begins
  <1> QED
    BY <1>1, <1>2, <1>3 DEF Begins

\* A sequence begins what is appended to it, and so does what begins it.
LEMMA BeginsAppended ==
    ASSUME NEW S, NEW s \in Seq(S), NEW x \in S
    PROVE  /\ Append(s, x) \in Seq(S)
           /\ Len(Append(s, x)) = Len(s) + 1
           /\ Append(s, x)[Len(s) + 1] = x
           /\ Begins(s, Append(s, x))
  <1>1. Len(s) \in Nat
    BY LenProperties
  <1>2. /\ Append(s, x) \in Seq(S) /\ Len(Append(s, x)) = Len(s) + 1
        /\ Append(s, x)[Len(s) + 1] = x
        /\ \A i \in 1..Len(s) : Append(s, x)[i] = s[i]
    BY AppendProperties
  <1> QED
    BY <1>1, <1>2 DEF Begins

-----------------------------------------------------------------------------
(* Matches *)

LEMMA MatchingExists ==
    ASSUME NEW evs, NEW f, NEW n \in Nat
    PROVE  \E m : IsMatching(m, evs, f, n)
  <1> DEFINE T == {k \in 0..n : \E m : IsMatching(m, evs, f, k)}
  <1>1. 0 \in T
    <2> DEFINE m == [i \in 0..0 |-> <<>>]
    <2>1. m = [i \in 0..0 |-> IF i = 0 THEN <<>> ELSE MatchStep(m, evs, f, i)]
      OBVIOUS
    <2> HIDE DEF m
    <2>2. IsMatching(m, evs, f, 0)
      BY <2>1 DEF IsMatching
    <2> QED
      BY <2>2
  <1>2. ASSUME NEW k \in 0..(n - 1), k \in T PROVE k + 1 \in T
    <2>1. PICK m : IsMatching(m, evs, f, k)
      BY <1>2
    <2> DEFINE next == MatchStep(m, evs, f, k + 1)
               new == [i \in 0..(k + 1) |-> IF i = k + 1 THEN next ELSE m[i]]
    <2>2. ASSUME NEW i \in 0..(k + 1)
          PROVE  new[i] = IF i = 0 THEN <<>> ELSE MatchStep(new, evs, f, i)
      <3>1. CASE i = k + 1
        <4>1. k \in 0..(k + 1) /\ k # k + 1 /\ i - 1 = k /\ i # 0
          BY <3>1
        <4>2. new[i] = next /\ new[k] = m[k]
          BY <3>1, <4>1
        <4>3. k + 1 - 1 = k
          OBVIOUS
        <4>4. MatchStep(new, evs, f, i) = next
          <5> HIDE DEF new
          <5> QED
            BY <3>1, <4>2, <4>3 DEF MatchStep
        <4> HIDE DEF new, next
        <4> QED
          BY <4>1, <4>2, <4>4
      <3>2. CASE i = 0
        <4>1. new[0] = m[0] /\ m[0] = <<>>
          BY <2>1 DEF IsMatching
        <4> QED
          BY <3>2, <4>1
      <3>3. CASE i \in 1..k
        <4>1. new[i] = m[i] /\ new[i - 1] = m[i - 1] /\ i # 0
          BY <3>3
        <4>2. i \in 0..k /\ i # 0
          BY <3>3
        <4>3. m[i] = MatchStep(m, evs, f, i)
          BY <2>1, <4>2 DEF IsMatching
        <4> HIDE DEF new
        <4>4. MatchStep(new, evs, f, i) = MatchStep(m, evs, f, i)
          BY <4>1 DEF MatchStep
        <4> QED
          BY <4>1, <4>3, <4>4
      <3> QED
        BY <3>1, <3>2, <3>3
    <2>3. new = [i \in 0..(k + 1) |-> IF i = 0 THEN <<>> ELSE MatchStep(new, evs, f, i)]
      <3>1. new = [i \in 0..(k + 1) |-> new[i]]
        OBVIOUS
      <3> HIDE DEF new
      <3> QED
        BY <2>2, <3>1
    <2> HIDE DEF new
    <2>4. IsMatching(new, evs, f, k + 1)
      BY <2>3 DEF IsMatching
    <2> QED
      BY <2>4
  <1> HIDE DEF T
  <1>3. \A k \in 0..n : k \in T
    BY <1>1, <1>2, Upward
  <1> QED
    BY <1>3 DEF T

\* The matches, after no event and after one more.
LEMMA MatchingPlaces ==
    ASSUME NEW evs \in Histories, NEW f
    PROVE  /\ Matching(evs, f)[0] = <<>>
           /\ \A n \in 1..Len(evs) :
                Matching(evs, f)[n] = MatchStep(Matching(evs, f), evs, f, n)
  <1> DEFINE M == CHOOSE m : IsMatching(m, evs, f, Len(evs))
  <1>1. Len(evs) \in Nat
    BY LenProperties DEF Histories
  <1>2. IsMatching(M, evs, f, Len(evs))
    BY <1>1, MatchingExists
  <1>3. Matching(evs, f) = M
    BY Zenon DEF Matching, IsMatching, MatchStep
  <1> HIDE DEF M
  <1>4. M = [i \in 0..Len(evs) |-> IF i = 0 THEN <<>> ELSE MatchStep(M, evs, f, i)]
    BY <1>2 DEF IsMatching
  <1>5. M[0] = <<>>
    BY <1>1, <1>4
  <1>6. ASSUME NEW n \in 1..Len(evs) PROVE M[n] = MatchStep(M, evs, f, n)
    <2>1. n \in 0..Len(evs) /\ n # 0
      BY <1>1
    <2> QED
      BY <1>4, <2>1
  <1> QED
    BY <1>3, <1>5, <1>6

\* One more event adds itself or nothing.
LEMMA StepIsEither ==
    ASSUME NEW m, NEW evs, NEW f, NEW n, NEW k, n - 1 = k
    PROVE  MatchStep(m, evs, f, n) = Append(m[k], evs[n]) \/ MatchStep(m, evs, f, n) = m[k]
  BY Zenon DEF MatchStep

\* The matches are a sequence of events, and grow with the events looked at.
LEMMA MatchingType ==
    ASSUME NEW evs \in Histories, NEW f
    PROVE  \A n \in 0..Len(evs) : Matching(evs, f)[n] \in Histories
  <1> DEFINE M == Matching(evs, f)
             T == {n \in 0..Len(evs) : M[n] \in Histories}
  <1>1. Len(evs) \in Nat
    BY LenProperties DEF Histories
  <1>2. /\ M[0] = <<>>
        /\ \A n \in 1..Len(evs) : M[n] = MatchStep(M, evs, f, n)
    BY MatchingPlaces
  <1> HIDE DEF M
  <1>3. 0 \in T
    <2>1. <<>> \in Histories
      BY DEF Histories
    <2> QED
      BY <1>1, <1>2, <2>1
  <1>4. ASSUME NEW n \in 0..(Len(evs) - 1), n \in T PROVE n + 1 \in T
    <2>1. n + 1 \in 1..Len(evs) /\ n + 1 - 1 = n
      BY <1>1
    <2>2. evs[n + 1] \in Recordable
      BY <2>1, ElementOfSeq DEF Histories
    <2>3. M[n] \in Seq(Recordable)
      BY <1>4 DEF Histories
    <2>4. Append(M[n], evs[n + 1]) \in Seq(Recordable)
      BY <2>2, <2>3, BeginsAppended
    <2>5. M[n + 1] = Append(M[n], evs[n + 1]) \/ M[n + 1] = M[n]
      <3>1. M[n + 1] = MatchStep(M, evs, f, n + 1)
        BY <1>2, <2>1
      <3>2. \/ MatchStep(M, evs, f, n + 1) = Append(M[n], evs[n + 1])
            \/ MatchStep(M, evs, f, n + 1) = M[n]
        BY <2>1, StepIsEither, SMTT(60)
      <3> QED
        BY <3>1, <3>2
    <2>6. M[n + 1] \in Histories
      BY <2>3, <2>4, <2>5 DEF Histories
    <2>7. n + 1 \in 0..Len(evs)
      BY <2>1
    <2> QED
      BY <2>6, <2>7
  <1> HIDE DEF T
  <1>5. \A n \in 0..Len(evs) : n \in T
    BY <1>1, <1>3, <1>4, Upward
  <1> QED
    BY <1>5 DEF T, M

LEMMA MatchingGrows ==
    ASSUME NEW evs \in Histories, NEW f, NEW n \in 0..Len(evs), NEW k \in 0..n
    PROVE  Begins(Matching(evs, f)[k], Matching(evs, f)[n])
  <1> DEFINE M == Matching(evs, f)
             T == {j \in 0..Len(evs) : \A i \in 0..j : Begins(M[i], M[j])}
  <1>1. Len(evs) \in Nat /\ n \in Nat /\ k \in Nat
    BY LenProperties DEF Histories
  <1>2. \A j \in 1..Len(evs) : M[j] = MatchStep(M, evs, f, j)
    BY MatchingPlaces
  <1>3. \A j \in 0..Len(evs) : M[j] \in Histories
    BY MatchingType
  <1> HIDE DEF M
  <1>4. 0 \in T
    <2>1. Begins(M[0], M[0])
      BY <1>1, <1>3, BeginsItself
    <2> QED
      BY <1>1, <2>1
  <1>5. ASSUME NEW j \in 0..(Len(evs) - 1), j \in T PROVE j + 1 \in T
    <2>1. j + 1 \in 1..Len(evs) /\ j + 1 - 1 = j /\ j \in 0..Len(evs) /\ j + 1 \in 0..Len(evs)
      BY <1>1
    <2>2. evs[j + 1] \in Recordable
      BY <2>1, ElementOfSeq DEF Histories
    <2>3. M[j] \in Histories /\ M[j + 1] \in Histories
      BY <1>3, <2>1
    <2>4. M[j + 1] = Append(M[j], evs[j + 1]) \/ M[j + 1] = M[j]
      <3>1. M[j + 1] = MatchStep(M, evs, f, j + 1)
        BY <1>2, <2>1
      <3>2. \/ MatchStep(M, evs, f, j + 1) = Append(M[j], evs[j + 1])
            \/ MatchStep(M, evs, f, j + 1) = M[j]
        BY <2>1, StepIsEither, SMTT(60)
      <3> QED
        BY <3>1, <3>2
    <2>5. Begins(M[j], M[j + 1])
      <3>1. Begins(M[j], M[j])
        BY <2>3, BeginsItself
      <3>2. Begins(M[j], Append(M[j], evs[j + 1]))
        BY <2>2, <2>3, BeginsAppended DEF Histories
      <3> QED
        BY <2>4, <3>1, <3>2
    <2>6. ASSUME NEW i \in 0..(j + 1) PROVE Begins(M[i], M[j + 1])
      <3>1. CASE i = j + 1
        BY <2>3, <3>1, BeginsItself
      <3>2. CASE i # j + 1
        <4>1. i \in 0..j /\ i \in 0..Len(evs)
          BY <1>1, <3>2
        <4>2. Begins(M[i], M[j])
          BY <1>5, <4>1
        <4>3. M[i] \in Histories
          BY <1>3, <4>1
        <4> QED
          BY <2>3, <2>5, <4>2, <4>3, BeginsTransitive DEF Histories
      <3> QED
        BY <3>1, <3>2
    <2> QED
      BY <2>1, <2>6
  <1> HIDE DEF T
  <1>6. \A j \in 0..Len(evs) : j \in T
    BY <1>1, <1>4, <1>5, Upward
  <1> QED
    BY <1>6 DEF T, M

\* The matches among the first n events are a matter of these events alone.
LEMMA MatchingAlike ==
    ASSUME NEW evs \in Histories, NEW other \in Histories, Begins(evs, other), NEW f,
           NEW n \in 0..Len(evs)
    PROVE  Matching(other, f)[n] = Matching(evs, f)[n]
  <1> DEFINE M == Matching(evs, f)  N == Matching(other, f)
             T == {j \in 0..Len(evs) : N[j] = M[j]}
  <1>1. Len(evs) \in Nat /\ Len(other) \in Nat /\ Len(evs) <= Len(other)
    BY LenProperties DEF Histories, Begins
  <1>2. /\ M[0] = <<>> /\ N[0] = <<>>
        /\ \A j \in 1..Len(evs) : M[j] = MatchStep(M, evs, f, j)
        /\ \A j \in 1..Len(other) : N[j] = MatchStep(N, other, f, j)
    BY MatchingPlaces
  <1> HIDE DEF M, N
  <1>3. 0 \in T
    BY <1>1, <1>2
  <1>4. ASSUME NEW j \in 0..(Len(evs) - 1), j \in T PROVE j + 1 \in T
    <2>1. /\ j + 1 \in 1..Len(evs) /\ j + 1 \in 1..Len(other) /\ j + 1 - 1 = j
          /\ j + 1 \in 0..Len(evs)
      BY <1>1
    <2>2. evs[j + 1] = other[j + 1]
      BY <2>1 DEF Begins
    <2>3. M[j + 1] = MatchStep(M, evs, f, j + 1) /\ N[j + 1] = MatchStep(N, other, f, j + 1)
      BY <1>2, <2>1
    <2>4. N[j + 1] = M[j + 1]
      BY <1>4, <2>1, <2>2, <2>3 DEF MatchStep
    <2> QED
      BY <2>1, <2>4
  <1> HIDE DEF T
  <1>5. \A j \in 0..Len(evs) : j \in T
    BY <1>1, <1>3, <1>4, Upward
  <1> QED
    BY <1>5 DEF T, M, N

\* The search of the first n events of a session.
LEMMA MatchedCut ==
    ASSUME NEW evs \in Histories, NEW f, NEW n \in 0..Len(evs)
    PROVE  Matched(SubSeq(evs, 1, n), f) = Matching(evs, f)[n]
  <1> DEFINE cut == SubSeq(evs, 1, n)
  <1>1. Len(evs) \in Nat /\ n \in Nat /\ n <= Len(evs)
    BY LenProperties DEF Histories
  <1>2. cut = [i \in 1..n |-> evs[i]]
    BY <1>1
  <1>3. \A i \in 1..n : evs[i] \in Recordable
    BY <1>1, ElementOfSeq DEF Histories
  <1> HIDE DEF cut
  <1>4. cut \in Seq(Recordable) /\ Len(cut) = n
    BY <1>1, <1>2, <1>3
  <1>5. Begins(cut, evs)
    BY <1>1, <1>2, <1>4 DEF Begins
  <1>6. Matching(evs, f)[n] = Matching(cut, f)[n]
    BY <1>1, <1>4, <1>5, MatchingAlike DEF Histories
  <1> QED
    BY <1>4, <1>6 DEF Matched, cut

-----------------------------------------------------------------------------
(* The inductive invariant *)

PageJobs ==
    [op : {"page"}, filter : Filters, limit : Limits, got : Histories, more : BOOLEAN,
     capture : Nat, at : Nat]
BundleJob(j) ==
    j = [op |-> "bundle", parts |-> j.parts, from |-> j.from, capture |-> j.capture]
SaveJobs ==
    {[op |-> "save", data |-> baseline_build(s), of |-> s, capture |-> c] :
        s \in Histories, c \in Nat}
Saved ==
    {[data |-> baseline_build(s), of |-> s, capture |-> c] : s \in Histories, c \in Nat}

\* s is what the file held at some time in capture c.
FromFile(s, c) == c <= capture /\ (c = capture => Begins(s, events))

\* The pages read are the matches among the first `at' events, cut at a page.
PageInv ==
    job.op = "page" =>
        /\ job.capture <= capture
        /\ job.capture = capture =>
            /\ job.at <= Len(events)
            /\ Begins(job.got, Matching(events, job.filter)[job.at])
            /\ \/ job.more
               \/ job.got = Matching(events, job.filter)[job.at]
               \/ Len(job.got) > MaxOffset
            /\ \/ job.got = <<>> /\ job.at = 0
               \/ validate_search_limit(job.limit) /\ validate_mono_window(job.filter)

SavedNow(b) == b \in Saved /\ FromFile(b.of, b.capture)

\* Of the states s and t of captures c and d, one begins with the other.
Alike(s, c, t, d) == c = d => Begins(s, t) \/ Begins(t, s)

\* A diff that has decoded the session and not yet read the baseline.
ReadingNow(r) ==
    /\ r = [ok |-> FALSE, kind |-> "reading", at |-> r.at, capture |-> r.capture, seen |-> r.seen]
    /\ r.at \in Histories /\ r.capture \in Nat
    /\ FromFile(r.at, r.capture)
    /\ baseline = Torn \/ (SavedNow(baseline) /\ Alike(baseline.of, baseline.capture, r.at, r.capture))
    /\ job.op = "save" => Alike(job.of, job.capture, r.at, r.capture)
    /\ r.seen = Torn \/ (r.seen \in Saved /\ (r.seen.capture = r.capture => Begins(r.seen.of, r.at)))

\* A diff that has returned.
Compared(r) ==
    /\ r.ok = TRUE
    /\ r.base \in Saved /\ r.at \in Histories
    /\ Alike(r.base.of, r.base.capture, r.at, r.capture)
    /\ r.base.capture = r.capture /\ r.seen = r.base => Begins(r.base.of, r.at)

ToolsTypes ==
    /\ events \in Histories /\ capture \in Nat
    /\ job = Idle \/ job \in PageJobs \/ job \in SaveJobs \/ BundleJob(job)
    /\ baseline \in {None, Torn} \/ baseline \in Saved
BaselineInv ==
    /\ job.op = "save" => FromFile(job.of, job.capture)
    /\ baseline \in {None, Torn} \/ SavedNow(baseline)
    /\ \/ result \in {None, Failed("BaselineMissing"), Failed("CorruptBaseline")}
       \/ ReadingNow(result)
       \/ Compared(result)

ToolsInv == ToolsTypes /\ PageInv /\ BaselineInv

-----------------------------------------------------------------------------
(* The producer *)

LEMMA ToolsInit == Init => ToolsInv
  <1> SUFFICES ASSUME Init PROVE ToolsInv
    OBVIOUS
  <1>1. events = <<>> /\ capture = 1 /\ job = Idle /\ baseline = None /\ result = None
    BY DEF Init
  <1>2. job.op = "idle"
    BY <1>1 DEF Idle
  <1>3. ToolsTypes
    BY <1>1 DEF ToolsTypes, Histories
  <1>4. PageInv
    BY <1>2 DEF PageInv
  <1>5. BaselineInv
    BY <1>1, <1>2 DEF BaselineInv
  <1> QED
    BY <1>3, <1>4, <1>5 DEF ToolsInv

\* What the file held it still begins with, or it is another capture's.
LEMMA FromFileStays ==
    ASSUME NEW s \in Histories, NEW c \in Nat, FromFile(s, c), ToolsTypes,
           events' \in Histories, capture' \in Nat,
           (capture' = capture /\ Begins(events, events')) \/ capture' > capture
    PROVE  c <= capture' /\ (c = capture' => Begins(s, events'))
  <1>1. capture \in Nat /\ events \in Histories
    BY DEF ToolsTypes
  <1>2. c <= capture /\ (c = capture => Begins(s, events))
    BY DEF FromFile
  <1>3. CASE capture' > capture
    BY <1>1, <1>2, <1>3
  <1>4. CASE capture' = capture /\ Begins(events, events')
    <2>1. c = capture => Begins(s, events')
      BY <1>1, <1>2, <1>4, BeginsTransitive DEF Histories
    <2> QED
      BY <1>2, <1>4, <2>1
  <1> QED
    BY <1>3, <1>4

LEMMA SavedFields ==
    ASSUME NEW b \in Saved
    PROVE  b.of \in Histories /\ b.capture \in Nat /\ b.data = baseline_build(b.of)
  BY DEF Saved

LEMMA SaveJobFields ==
    ASSUME NEW j \in SaveJobs
    PROVE  /\ j.op = "save"
           /\ j.of \in Histories /\ j.capture \in Nat /\ j.data = baseline_build(j.of)
  BY DEF SaveJobs

LEMMA PageJobFields ==
    ASSUME NEW j \in PageJobs
    PROVE  /\ j.op = "page" /\ j.got \in Histories /\ j.more \in BOOLEAN
           /\ j.capture \in Nat /\ j.at \in Nat
  BY DEF PageJobs

\* The form of a job tells its kind.
LEMMA JobKinds ==
    ASSUME ToolsTypes
    PROVE  /\ job.op = "page" => job \in PageJobs
           /\ job.op = "save" => job \in SaveJobs
           /\ job.op = "bundle" => BundleJob(job)
  <1>1. job = Idle => job.op = "idle"
    BY DEF Idle
  <1>2. job \in PageJobs => job.op = "page"
    BY PageJobFields
  <1>3. job \in SaveJobs => job.op = "save"
    BY SaveJobFields
  <1>4. BundleJob(job) => job.op = "bundle"
    BY DEF BundleJob
  <1> QED
    BY <1>1, <1>2, <1>3, <1>4 DEF ToolsTypes

\* Events are added, or another capture takes the place of the file.
LEMMA ToolsGrow ==
    ASSUME ToolsInv, events' \in Histories, capture' \in Nat,
           (capture' = capture /\ Begins(events, events')) \/ capture' > capture,
           job' = job, baseline' = baseline, result' = result
    PROVE  ToolsInv'
  <1>1. ToolsTypes /\ PageInv /\ BaselineInv
    BY DEF ToolsInv
  <1>2. events \in Histories /\ capture \in Nat
    BY <1>1 DEF ToolsTypes
  <1>3. ToolsTypes'
    BY <1>1 DEF ToolsTypes
  <1>4. PageInv'
    <2>1. SUFFICES ASSUME job.op = "page"
                   PROVE  PageInv'
      BY DEF PageInv
    <2>2. /\ job.capture \in Nat /\ job.at \in Nat /\ job.capture <= capture
      BY <1>1, <2>1, JobKinds, PageJobFields DEF PageInv
    <2>3. job.capture <= capture'
      BY <1>2, <2>2
    <2>4. CASE job.capture # capture'
      BY <2>3, <2>4 DEF PageInv
    <2>5. CASE job.capture = capture'
      <3>1. capture' = capture /\ Begins(events, events')
        BY <1>2, <2>2, <2>5
      <3>2. job.at <= Len(events)
        BY <1>1, <2>1, <2>5, <3>1 DEF PageInv
      <3>3. job.at <= Len(events')
        BY <1>2, <2>2, <3>1, <3>2, LenProperties DEF Begins, Histories
      <3>4. job.at \in 0..Len(events)
        BY <1>2, <2>2, <3>2, LenProperties DEF Histories
      <3>5. Matching(events', job.filter)[job.at] = Matching(events, job.filter)[job.at]
        BY <1>2, <3>1, <3>4, MatchingAlike
      <3> QED
        BY <1>1, <2>1, <2>3, <2>5, <3>1, <3>3, <3>5 DEF PageInv
    <2> QED
      BY <2>4, <2>5
  <1>5. ASSUME job.op = "save", FromFile(job.of, job.capture)
        PROVE  FromFile(job.of, job.capture)'
    <2>1. job.of \in Histories /\ job.capture \in Nat
      BY <1>1, <1>5, JobKinds, SaveJobFields
    <2>2. job.capture <= capture' /\ (job.capture = capture' => Begins(job.of, events'))
      BY <1>1, <1>5, <2>1, FromFileStays
    <2> QED
      BY <2>2 DEF FromFile
  <1>6. ASSUME SavedNow(baseline) PROVE SavedNow(baseline)'
    <2>1. baseline \in Saved /\ FromFile(baseline.of, baseline.capture)
      BY <1>6 DEF SavedNow
    <2>2. baseline.of \in Histories /\ baseline.capture \in Nat
      BY <2>1, SavedFields
    <2>3. /\ baseline.capture <= capture'
          /\ (baseline.capture = capture' => Begins(baseline.of, events'))
      BY <1>1, <2>1, <2>2, FromFileStays
    <2> QED
      BY <2>1, <2>3 DEF SavedNow, FromFile
  <1>7. ASSUME ReadingNow(result) PROVE ReadingNow(result)'
    <2>1. result.at \in Histories /\ result.capture \in Nat /\ FromFile(result.at, result.capture)
      BY <1>7 DEF ReadingNow
    <2>2. /\ result.capture <= capture'
          /\ (result.capture = capture' => Begins(result.at, events'))
      BY <1>1, <2>1, FromFileStays
    <2>3. FromFile(result.at, result.capture)'
      BY <2>2 DEF FromFile
    <2> QED
      BY <1>6, <1>7, <2>3 DEF ReadingNow
  <1>8. Compared(result) => Compared(result)'
    BY DEF Compared
  <1>9. BaselineInv'
    BY <1>1, <1>5, <1>6, <1>7, <1>8 DEF BaselineInv
  <1> QED
    BY <1>3, <1>4, <1>9 DEF ToolsInv

LEMMA RecordKeeps ==
    ASSUME ToolsInv, Record
    PROVE  ToolsInv'
  <1>1. events \in Histories /\ capture \in Nat
    BY DEF ToolsInv, ToolsTypes
  <1>2. PICK k \in EventKinds :
            events' = Append(events, [seq |-> Len(events) + 1, mono |-> k.mono, cat |-> k.cat,
                                      name |-> k.name, severity |-> k.severity, corr |-> k.corr,
                                      payload |-> k.payload])
    BY DEF Record
  <1> DEFINE e == [seq |-> Len(events) + 1, mono |-> k.mono, cat |-> k.cat, name |-> k.name,
                   severity |-> k.severity, corr |-> k.corr, payload |-> k.payload]
  <1>3. Len(events) + 1 \in Nat
    BY <1>1, LenProperties DEF Histories
  <1>4. e \in Recordable
    BY <1>3 DEF Recordable
  <1>5. events' = Append(events, e)
    BY <1>2
  <1> HIDE DEF e
  <1>6. events' \in Histories /\ Begins(events, events')
    BY <1>1, <1>4, <1>5, BeginsAppended DEF Histories
  <1>7. capture' = capture /\ job' = job /\ baseline' = baseline /\ result' = result
    BY DEF Record
  <1> QED
    BY <1>1, <1>6, <1>7, ToolsGrow

LEMMA NewCaptureKeeps ==
    ASSUME ToolsInv, NewCapture
    PROVE  ToolsInv'
  <1>1. capture \in Nat
    BY DEF ToolsInv, ToolsTypes
  <1>2. /\ capture' = capture + 1 /\ events' = <<>>
        /\ job' = job /\ baseline' = baseline /\ result' = result
    BY DEF NewCapture
  <1>3. events' \in Histories
    BY <1>2 DEF Histories
  <1>4. capture' \in Nat /\ capture' > capture
    BY <1>1, <1>2
  <1> QED
    BY <1>2, <1>3, <1>4, ToolsGrow

-----------------------------------------------------------------------------
(* Pages *)

\* What a search that succeeds has checked and returns.
LEMMA SearchReturns ==
    ASSUME NEW evs \in Histories, NEW f, NEW limit, NEW offset \in Nat,
           search_session_dtj(evs, f, limit, offset).ok
    PROVE  /\ validate_search_limit(limit) /\ validate_mono_window(f)
           /\ search_session_dtj(evs, f, limit, offset)
                = [ok |-> TRUE, matched_count |-> Len(Matched(evs, f)),
                   events |-> SubSeq(Matched(evs, f), offset + 1,
                                     AtMost(Len(Matched(evs, f)), offset + limit))]
  <1>1. Failed("InvalidLimit").ok = FALSE /\ Failed("InvalidQuery").ok = FALSE
    BY DEF Failed
  <1> QED
    BY <1>1, Zenon DEF search_session_dtj

LEMMA SearchRefuses ==
    ASSUME NEW evs, NEW f, NEW limit, NEW offset,
           ~search_session_dtj(evs, f, limit, offset).ok
    PROVE  ~validate_search_limit(limit) \/ ~validate_search_offset(offset) \/ ~validate_mono_window(f)
  BY Zenon DEF search_session_dtj

\* The next page of m, up to `last': it joins to what was read, which stays
\* where m begins, and is all of m when nothing is left.
LEMMA PageJoins ==
    ASSUME NEW m \in Histories, NEW got \in Histories, NEW last \in Nat, NEW page,
           last <= Len(m), last = Len(m) \/ last > Len(got),
           page = SubSeq(m, Len(got) + 1, last)
    PROVE  /\ got \o page \in Histories
           /\ Len(page) \in Nat
           /\ Begins(got, m) => Begins(got \o page, m)
           /\ Begins(got, m) /\ Len(m) - Len(got) - Len(page) <= 0 => got \o page = m
  <1>1. Len(m) \in Nat /\ Len(got) \in Nat
    BY LenProperties DEF Histories
  <1>2. CASE last <= Len(got)
    <2>1. page = <<>>
      BY <1>1, <1>2, SubSeqEmpty
    <2>2. got \o page = got
      BY <2>1, ConcatEmptySeq DEF Histories
    <2>3. Len(page) = 0
      BY <2>1, EmptySeq
    <2>4. ASSUME Begins(got, m) PROVE got = m
      <3>1. Len(got) <= Len(m) /\ \A i \in 1..Len(got) : got[i] = m[i]
        BY <2>4 DEF Begins
      <3>2. Len(got) = Len(m)
        BY <1>1, <1>2, <3>1
      <3> QED
        BY <3>1, <3>2, SeqEqual DEF Histories
    <2>5. got \o page \in Histories /\ (Begins(got, m) => Begins(got \o page, m))
      BY <2>2, ZenonT(60)
    <2>6. Begins(got, m) => got \o page = m
      BY <2>2, <2>4
    <2>7. Len(page) \in Nat
      BY <2>3
    <2> QED
      BY <2>5, <2>6, <2>7
  <1>3. CASE last > Len(got)
    <2>1. \A i \in (Len(got) + 1)..last : m[i] \in Recordable
      BY <1>1, ElementOfSeq DEF Histories
    <2>2. /\ page \in Seq(Recordable)
          /\ Len(page) = last - Len(got)
          /\ \A i \in 1..(last - Len(got)) : page[i] = m[Len(got) + i]
      <3>1. /\ page \in Seq(Recordable)
            /\ Len(page) = IF Len(got) + 1 <= last THEN last - (Len(got) + 1) + 1 ELSE 0
            /\ \A i \in 1..(last - (Len(got) + 1) + 1) : page[i] = m[Len(got) + 1 + i - 1]
        BY <1>1, <2>1, SubSeqProperties
      <3>2. Len(got) + 1 <= last /\ last - (Len(got) + 1) + 1 = last - Len(got)
        BY <1>1, <1>3
      <3>3. ASSUME NEW i \in 1..(last - Len(got)) PROVE page[i] = m[Len(got) + i]
        <4>1. Len(got) + 1 + i - 1 = Len(got) + i
          BY <1>1
        <4> QED
          BY <3>1, <3>2, <4>1
      <3> QED
        BY <3>1, <3>2, <3>3
    <2>3. last - Len(got) \in Nat /\ Len(got) + Len(page) = last
      BY <1>1, <1>3, <2>2
    <2>4. /\ got \o page \in Seq(Recordable) /\ Len(got \o page) = last
          /\ \A i \in 1..last : (got \o page)[i] = IF i <= Len(got) THEN got[i] ELSE page[i - Len(got)]
      BY <2>2, <2>3, ConcatProperties DEF Histories
    <2>5. ASSUME Begins(got, m), NEW i \in 1..last PROVE (got \o page)[i] = m[i]
      <3>1. CASE i <= Len(got)
        <4>1. i \in 1..Len(got) /\ (got \o page)[i] = got[i]
          BY <1>1, <2>4, <3>1
        <4> QED
          BY <2>5, <4>1 DEF Begins
      <3>2. CASE i > Len(got)
        <4>1. i - Len(got) \in 1..(last - Len(got)) /\ Len(got) + (i - Len(got)) = i
          BY <1>1, <3>2
        <4>2. page[i - Len(got)] = m[i]
          BY <2>2, <4>1
        <4>3. (got \o page)[i] = page[i - Len(got)]
          BY <1>1, <2>4, <3>2
        <4> QED
          BY <4>2, <4>3
      <3> QED
        BY <1>1, <3>1, <3>2
    <2>6. ASSUME Begins(got, m) PROVE Begins(got \o page, m)
      BY <2>4, <2>5, <2>6 DEF Begins
    <2>7. ASSUME Begins(got, m), Len(m) - Len(got) - Len(page) <= 0 PROVE got \o page = m
      <3>1. last = Len(m)
        BY <1>1, <2>3, <2>7
      <3> QED
        BY <2>4, <2>5, <2>7, <3>1, SeqEqual DEF Histories
    <2>8. Len(page) \in Nat /\ got \o page \in Histories
      BY <2>2, <2>3, <2>4 DEF Histories
    <2> QED
      BY <2>6, <2>7, <2>8
  <1>4. last <= Len(got) \/ last > Len(got)
    BY <1>1
  <1> QED
    BY <1>2, <1>3, <1>4

\* Steps of a client that reads pages or parts leave the baseline alone.
LEMMA BaselineKept ==
    ASSUME BaselineInv, events' = events, capture' = capture, baseline' = baseline,
           job'.op # "save", result' = result \/ result' = None
    PROVE  BaselineInv'
  <1>1. SavedNow(baseline) => SavedNow(baseline)'
    BY DEF SavedNow, FromFile
  <1>2. ASSUME ReadingNow(result), result' = result PROVE ReadingNow(result)'
    <2>1. FromFile(result.at, result.capture)'
      BY <1>2 DEF ReadingNow, FromFile
    <2> QED
      BY <1>1, <1>2, <2>1 DEF ReadingNow
  <1>3. ASSUME Compared(result), result' = result PROVE Compared(result)'
    BY <1>3 DEF Compared
  <1> QED
    BY <1>1, <1>2, <1>3 DEF BaselineInv

LEMMA StartPagingKeeps ==
    ASSUME ToolsInv, StartPaging
    PROVE  ToolsInv'
  <1>1. ToolsTypes /\ BaselineInv
    BY DEF ToolsInv
  <1>2. PICK f \in Filters, n \in Limits :
            job' = [op |-> "page", filter |-> f, limit |-> n, got |-> <<>>, more |-> TRUE,
                     capture |-> capture, at |-> 0]
    BY DEF StartPaging
  <1>3. events' = events /\ capture' = capture /\ baseline' = baseline /\ result' = None
    BY DEF StartPaging
  <1>4. events \in Histories /\ capture \in Nat
    BY <1>1 DEF ToolsTypes
  <1>5. <<>> \in Histories
    BY DEF Histories
  <1>6. job' \in PageJobs
    BY <1>2, <1>4, <1>5 DEF PageJobs
  <1>7. ToolsTypes'
    BY <1>1, <1>3, <1>6 DEF ToolsTypes
  <1>8. /\ job'.op = "page" /\ job'.capture = capture /\ job'.at = 0 /\ job'.more = TRUE
        /\ job'.got = <<>>
    BY <1>2
  <1>9. PageInv'
    <2>1. 0 <= Len(events)
      BY <1>4, LenProperties DEF Histories
    <2>2. Begins(<<>>, Matching(events, job'.filter)[0])
      BY <1>4, <1>5, MatchingPlaces, BeginsItself
    <2> QED
      BY <1>3, <1>4, <1>8, <2>1, <2>2 DEF PageInv
  <1>10. BaselineInv'
    BY <1>1, <1>3, <1>8, BaselineKept
  <1> QED
    BY <1>7, <1>9, <1>10 DEF ToolsInv

LEMMA NextPageKeeps ==
    ASSUME ToolsInv, NextPage
    PROVE  ToolsInv'
  <1> DEFINE page == search_session_dtj(events, job.filter, job.limit, Len(job.got))
             m == Matched(events, job.filter)
  <1>1. ToolsTypes /\ PageInv /\ BaselineInv
    BY DEF ToolsInv
  <1>2. /\ job.op = "page" /\ page.ok
        /\ job' = [job EXCEPT !.got = @ \o page.events, !.more = More(page, Len(job.got)) > 0,
                              !.at = Len(events)]
        /\ events' = events /\ capture' = capture /\ baseline' = baseline /\ result' = result
    BY DEF NextPage
  <1>3. events \in Histories /\ capture \in Nat /\ Len(events) \in Nat
    BY <1>1, LenProperties DEF ToolsTypes, Histories
  <1>4. job \in PageJobs
    BY <1>1, <1>2, JobKinds
  <1>5. job.got \in Histories /\ Len(job.got) \in Nat
    BY <1>4, PageJobFields, LenProperties DEF Histories
  <1>6. /\ validate_search_limit(job.limit) /\ validate_mono_window(job.filter)
        /\ page = [ok |-> TRUE, matched_count |-> Len(m),
                   events |-> SubSeq(m, Len(job.got) + 1, AtMost(Len(m), Len(job.got) + job.limit))]
    BY <1>2, <1>3, <1>5, SearchReturns, ZenonT(90)
  <1>7. m = Matching(events, job.filter)[Len(events)]
    BY DEF Matched
  <1> HIDE DEF m, page
  <1>8. m \in Histories /\ Len(m) \in Nat
    BY <1>3, <1>7, MatchingType, LenProperties DEF Histories
  <1>9. job.limit \in Nat /\ job.limit >= 1
    BY <1>6, LimitsAssumption DEF validate_search_limit
  <1>10. /\ page.events = SubSeq(m, Len(job.got) + 1, AtMost(Len(m), Len(job.got) + job.limit))
         /\ page.matched_count = Len(m)
    BY <1>6
  <1>11. /\ job.got \o page.events \in Histories /\ Len(page.events) \in Nat
         /\ Begins(job.got, m) => Begins(job.got \o page.events, m)
         /\ Begins(job.got, m) /\ Len(m) - Len(job.got) - Len(page.events) <= 0
                => job.got \o page.events = m
    <2> DEFINE last == AtMost(Len(m), Len(job.got) + job.limit)
    <2>1. last \in Nat /\ last <= Len(m) /\ (last = Len(m) \/ last > Len(job.got))
      BY <1>5, <1>8, <1>9 DEF AtMost
    <2>2. page.events = SubSeq(m, Len(job.got) + 1, last)
      BY <1>10
    <2> HIDE DEF last
    <2> QED
      BY <1>5, <1>8, <2>1, <2>2, PageJoins
  <1>12. ~(More(page, Len(job.got)) > 0) => Len(m) - Len(job.got) - Len(page.events) <= 0
    <2>1. Len(page.events) \in Nat /\ page.matched_count = Len(m)
      BY <1>10, <1>11
    <2>2. Len(m) - Len(job.got) - Len(page.events) \in Int
      BY <1>5, <1>8, <2>1
    <2>3. More(page, Len(job.got)) = AtLeast(0, Len(m) - Len(job.got) - Len(page.events))
      BY <2>1 DEF More
    <2>4. ASSUME NEW x \in Int, ~(AtLeast(0, x) > 0) PROVE x <= 0
      BY <2>4 DEF AtLeast
    <2> QED
      BY <2>2, <2>3, <2>4
  <1> DEFINE more == More(page, Len(job.got)) > 0
  <1>13. more \in BOOLEAN
    OBVIOUS
  <1>14. job' = [job EXCEPT !.got = job.got \o page.events, !.more = more, !.at = Len(events)]
    BY <1>2
  <1>15. ~more => Len(m) - Len(job.got) - Len(page.events) <= 0
    BY <1>12
  <1> HIDE DEF more
  <1>16. /\ job' \in PageJobs
         /\ job'.op = "page" /\ job'.filter = job.filter /\ job'.limit = job.limit
         /\ job'.got = job.got \o page.events /\ job'.more = more
         /\ job'.capture = job.capture /\ job'.at = Len(events)
    BY <1>3, <1>4, <1>11, <1>13, <1>14 DEF PageJobs
  <1>17. ToolsTypes'
    BY <1>1, <1>2, <1>16 DEF ToolsTypes
  <1>18. PageInv'
    <2>1. job.capture <= capture
      BY <1>1, <1>2 DEF PageInv
    <2>2. ASSUME job.capture = capture PROVE Begins(job.got, m)
      <3>1. /\ job.at <= Len(events) /\ job.at \in 0..Len(events)
            /\ Begins(job.got, Matching(events, job.filter)[job.at])
        BY <1>1, <1>2, <1>3, <1>4, <2>2, PageJobFields DEF PageInv
      <3>2. Begins(Matching(events, job.filter)[job.at], m)
        BY <1>3, <1>7, <3>1, MatchingGrows
      <3>3. Matching(events, job.filter)[job.at] \in Histories
        BY <1>3, <3>1, MatchingType
      <3> QED
        BY <1>5, <1>8, <3>1, <3>2, <3>3, BeginsTransitive DEF Histories
    <2>3. ASSUME job.capture = capture
          PROVE  /\ Begins(job.got \o page.events, m)
                 /\ more \/ job.got \o page.events = m
      BY <1>11, <1>15, <2>2, <2>3
    <2>4. (Len(events) <= Len(events))
      BY <1>3
    <2> QED
      BY <1>2, <1>6, <1>7, <1>16, <2>1, <2>3, <2>4 DEF PageInv
  <1>19. BaselineInv'
    BY <1>1, <1>2, <1>16, BaselineKept
  <1> QED
    BY <1>17, <1>18, <1>19 DEF ToolsInv

LEMMA PageRefusedKeeps ==
    ASSUME ToolsInv, PageRefused
    PROVE  ToolsInv'
  <1>1. ToolsTypes /\ PageInv /\ BaselineInv
    BY DEF ToolsInv
  <1>2. /\ job.op = "page"
        /\ ~search_session_dtj(events, job.filter, job.limit, Len(job.got)).ok
        /\ job' = [job EXCEPT !.more = FALSE]
        /\ events' = events /\ capture' = capture /\ baseline' = baseline /\ result' = result
    BY DEF PageRefused
  <1>3. job \in PageJobs
    BY <1>1, <1>2, JobKinds
  <1>4. events \in Histories /\ Len(job.got) \in Nat
    BY <1>1, <1>3, PageJobFields, LenProperties DEF ToolsTypes, Histories
  <1>5. /\ job' \in PageJobs
        /\ job'.op = "page" /\ job'.filter = job.filter /\ job'.limit = job.limit
        /\ job'.got = job.got /\ job'.capture = job.capture /\ job'.at = job.at
    BY <1>2, <1>3 DEF PageJobs
  <1>6. ToolsTypes'
    BY <1>1, <1>2, <1>5 DEF ToolsTypes
  <1>7. \/ ~validate_search_limit(job.limit)
        \/ ~validate_search_offset(Len(job.got))
        \/ ~validate_mono_window(job.filter)
    BY <1>2, SearchRefuses
  <1>8. ~validate_search_offset(Len(job.got)) => Len(job.got) > MaxOffset
    BY <1>4, LimitsAssumption DEF validate_search_offset
  <1>9. ASSUME job.capture = capture
        PROVE  job.got = Matching(events, job.filter)[job.at] \/ Len(job.got) > MaxOffset
    <2>1. \/ job.got = <<>> /\ job.at = 0
          \/ validate_search_limit(job.limit) /\ validate_mono_window(job.filter)
      BY <1>1, <1>2, <1>9 DEF PageInv
    <2>2. Matching(events, job.filter)[0] = <<>>
      BY <1>4, MatchingPlaces
    <2> QED
      BY <1>7, <1>8, <2>1, <2>2
  <1>10. PageInv'
    BY <1>1, <1>2, <1>5, <1>9 DEF PageInv
  <1>11. BaselineInv'
    BY <1>1, <1>2, <1>5, BaselineKept
  <1> QED
    BY <1>6, <1>10, <1>11 DEF ToolsInv

-----------------------------------------------------------------------------
(* Bundles *)

\* A step after which the client is not reading pages or saving.
LEMMA OtherJobKeeps ==
    ASSUME ToolsInv, job' = Idle \/ BundleJob(job)', events' = events, capture' = capture,
           baseline' = baseline, result' = result \/ result' = None
    PROVE  ToolsInv'
  <1>1. ToolsTypes /\ BaselineInv
    BY DEF ToolsInv
  <1>2. job'.op # "page" /\ job'.op # "save"
    BY DEF Idle, BundleJob
  <1>3. ToolsTypes'
    BY <1>1 DEF ToolsTypes
  <1>4. PageInv'
    BY <1>2 DEF PageInv
  <1>5. BaselineInv'
    BY <1>1, <1>2, BaselineKept
  <1> QED
    BY <1>3, <1>4, <1>5 DEF ToolsInv

LEMMA StartBundleKeeps ==
    ASSUME ToolsInv, StartBundle
    PROVE  ToolsInv'
  <1>1. /\ job' = [op |-> "bundle", parts |-> <<>>, from |-> events, capture |-> capture]
        /\ events' = events /\ capture' = capture /\ baseline' = baseline /\ result' = None
    BY DEF StartBundle
  <1>2. BundleJob(job)'
    BY <1>1 DEF BundleJob
  <1> QED
    BY <1>1, <1>2, OtherJobKeeps

LEMMA BundleStepKeeps ==
    ASSUME ToolsInv, BundleStep
    PROVE  ToolsInv'
  <1>1. /\ job.op = "bundle"
        /\ events' = events /\ capture' = capture /\ baseline' = baseline /\ result' = result
    BY DEF BundleStep
  <1>2. PICK parts : job' = [job EXCEPT !.parts = parts]
    BY DEF BundleStep
  <1>3. BundleJob(job)
    BY <1>1, JobKinds DEF ToolsInv
  <1>4. BundleJob(job)'
    BY <1>2, <1>3 DEF BundleJob
  <1> QED
    BY <1>1, <1>4, OtherJobKeeps

LEMMA DecodeFailsKeeps ==
    ASSUME ToolsInv, DecodeFails
    PROVE  ToolsInv'
  <1>1. /\ job' = Idle
        /\ events' = events /\ capture' = capture /\ baseline' = baseline /\ result' = result
    BY DEF DecodeFails
  <1> QED
    BY <1>1, OtherJobKeeps

-----------------------------------------------------------------------------
(* Baselines *)

LEMMA ReadingIs ==
    ASSUME BaselineInv, Reading
    PROVE  ReadingNow(result)
  <1>1. Failed("BaselineMissing").kind # "reading" /\ Failed("CorruptBaseline").kind # "reading"
    BY DEF Failed
  <1>2. result # None /\ result.ok # TRUE /\ result.kind = "reading"
    BY DEF Reading
  <1>3. ~Compared(result)
    BY <1>2 DEF Compared
  <1> QED
    BY <1>1, <1>2, <1>3 DEF BaselineInv

LEMMA SaveOpensKeeps ==
    ASSUME ToolsInv, SaveOpens
    PROVE  ToolsInv'
  <1>1. ToolsTypes /\ BaselineInv
    BY DEF ToolsInv
  <1>2. /\ job' = [op |-> "save", data |-> baseline_build(events), of |-> events, capture |-> capture]
        /\ baseline' = Torn
        /\ result' = IF Reading THEN result ELSE None
        /\ events' = events /\ capture' = capture
    BY DEF SaveOpens
  <1>3. events \in Histories /\ capture \in Nat
    BY <1>1 DEF ToolsTypes
  <1>4. job' \in SaveJobs
    BY <1>2, <1>3 DEF SaveJobs
  <1>5. job'.op = "save" /\ job'.of = events /\ job'.capture = capture
    BY <1>2
  <1>6. ToolsTypes'
    BY <1>1, <1>2, <1>4 DEF ToolsTypes
  <1>7. PageInv'
    BY <1>5 DEF PageInv
  <1>8. FromFile(job.of, job.capture)'
    BY <1>2, <1>3, <1>5, BeginsItself DEF FromFile
  <1>9. ASSUME Reading PROVE ReadingNow(result)'
    <2>1. ReadingNow(result)
      BY <1>1, <1>9, ReadingIs
    <2>2. result' = result
      BY <1>2, <1>9
    <2>3. FromFile(result.at, result.capture)
      BY <2>1 DEF ReadingNow
    <2>4. FromFile(result.at, result.capture)'
      BY <1>2, <2>2, <2>3 DEF FromFile
    <2>5. Alike(job.of, job.capture, result.at, result.capture)'
      BY <1>5, <2>2, <2>3 DEF FromFile, Alike
    <2>6. baseline' = Torn
      BY <1>2
    <2> QED
      BY <2>1, <2>2, <2>4, <2>5, <2>6 DEF ReadingNow
  <1>10. result' = None \/ ReadingNow(result)'
    BY <1>2, <1>9
  <1>11. BaselineInv'
    BY <1>2, <1>8, <1>10 DEF BaselineInv
  <1> QED
    BY <1>6, <1>7, <1>11 DEF ToolsInv

LEMMA SaveWritesKeeps ==
    ASSUME ToolsInv, SaveWrites
    PROVE  ToolsInv'
  <1>1. ToolsTypes /\ BaselineInv
    BY DEF ToolsInv
  <1>2. /\ job.op = "save" /\ job' = Idle
        /\ \/ baseline' = [data |-> job.data, of |-> job.of, capture |-> job.capture]
           \/ baseline' = baseline
        /\ events' = events /\ capture' = capture /\ result' = result
    BY DEF SaveWrites
  <1>3. job'.op = "idle"
    BY <1>2 DEF Idle
  <1>4. CASE baseline' = baseline
    BY <1>2, <1>4, OtherJobKeeps
  <1>5. CASE baseline' = [data |-> job.data, of |-> job.of, capture |-> job.capture]
    <2>1. job.of \in Histories /\ job.capture \in Nat /\ job.data = baseline_build(job.of)
      BY <1>1, <1>2, JobKinds, SaveJobFields
    <2>2. baseline' \in Saved /\ baseline'.of = job.of /\ baseline'.capture = job.capture
      BY <1>5, <2>1 DEF Saved
    <2>3. FromFile(job.of, job.capture)
      BY <1>1, <1>2 DEF BaselineInv
    <2>4. SavedNow(baseline)'
      BY <1>2, <2>2, <2>3 DEF SavedNow, FromFile
    <2>5. ASSUME ReadingNow(result) PROVE ReadingNow(result)'
      <3>1. FromFile(result.at, result.capture)'
        BY <1>2, <2>5 DEF ReadingNow, FromFile
      <3>2. Alike(baseline.of, baseline.capture, result.at, result.capture)'
        BY <1>2, <2>2, <2>5 DEF ReadingNow, Alike
      <3> QED
        BY <1>2, <1>3, <2>4, <2>5, <3>1, <3>2 DEF ReadingNow
    <2>6. Compared(result) => Compared(result)'
      BY <1>2 DEF Compared
    <2>7. BaselineInv'
      BY <1>1, <1>2, <1>3, <2>4, <2>5, <2>6 DEF BaselineInv
    <2>8. ToolsTypes'
      BY <1>1, <1>2, <2>2 DEF ToolsTypes
    <2>9. PageInv'
      BY <1>3 DEF PageInv
    <2> QED
      BY <2>7, <2>8, <2>9 DEF ToolsInv
  <1> QED
    BY <1>2, <1>4, <1>5

LEMMA DiffDecodesKeeps ==
    ASSUME ToolsInv, DiffDecodes
    PROVE  ToolsInv'
  <1>1. ToolsTypes /\ PageInv /\ BaselineInv
    BY DEF ToolsInv
  <1>2. /\ result' = IF baseline = None THEN Failed("BaselineMissing")
                     ELSE [ok |-> FALSE, kind |-> "reading", at |-> events, capture |-> capture,
                           seen |-> baseline]
        /\ events' = events /\ capture' = capture /\ job' = job /\ baseline' = baseline
    BY DEF DiffDecodes
  <1>3. events \in Histories /\ capture \in Nat
    BY <1>1 DEF ToolsTypes
  <1>4. ToolsTypes'
    BY <1>1, <1>2 DEF ToolsTypes
  <1>5. PageInv'
    BY <1>1, <1>2 DEF PageInv
  <1>6. SavedNow(baseline) => SavedNow(baseline)'
    BY <1>2 DEF SavedNow, FromFile
  <1>7. (job.op = "save" => FromFile(job.of, job.capture))'
    BY <1>1, <1>2 DEF BaselineInv, FromFile
  <1>8. ASSUME baseline # None PROVE ReadingNow(result)'
    <2>1. baseline = Torn \/ SavedNow(baseline)
      BY <1>1, <1>8 DEF BaselineInv
    <2>2. result' = [ok |-> FALSE, kind |-> "reading", at |-> events, capture |-> capture,
                     seen |-> baseline]
      BY <1>2, <1>8
    <2>3. result'.at = events /\ result'.capture = capture /\ result'.seen = baseline
      BY <2>2
    <2>4. FromFile(result.at, result.capture)'
      BY <1>2, <1>3, <2>3, BeginsItself DEF FromFile
    <2>5. ASSUME SavedNow(baseline)
          PROVE  /\ Alike(baseline.of, baseline.capture, result.at, result.capture)'
                 /\ baseline \in Saved
                 /\ baseline.capture = capture => Begins(baseline.of, events)
      BY <1>2, <2>3, <2>5 DEF SavedNow, FromFile, Alike
    <2>6. (job.op = "save" => Alike(job.of, job.capture, result.at, result.capture))'
      BY <1>1, <1>2, <2>3 DEF BaselineInv, FromFile, Alike
    <2>7. (result.seen = Torn
           \/ (result.seen \in Saved /\ (result.seen.capture = result.capture => Begins(result.seen.of, result.at))))'
      BY <2>1, <2>3, <2>5
    <2>8. (baseline = Torn
           \/ (SavedNow(baseline) /\ Alike(baseline.of, baseline.capture, result.at, result.capture)))'
      BY <1>2, <1>6, <2>1, <2>5
    <2>9. (result = [ok |-> FALSE, kind |-> "reading", at |-> result.at, capture |-> result.capture,
                     seen |-> result.seen])'
      BY <2>2, <2>3
    <2> QED
      BY <1>3, <2>3, <2>4, <2>6, <2>7, <2>8, <2>9 DEF ReadingNow
  <1>9. result' = Failed("BaselineMissing") \/ ReadingNow(result)'
    BY <1>2, <1>8
  <1>10. (baseline \in {None, Torn} \/ SavedNow(baseline))'
    BY <1>1, <1>2, <1>6 DEF BaselineInv
  <1>11. BaselineInv'
    BY <1>7, <1>9, <1>10 DEF BaselineInv
  <1> QED
    BY <1>4, <1>5, <1>11 DEF ToolsInv

LEMMA DiffReadsKeeps ==
    ASSUME ToolsInv, DiffReads
    PROVE  ToolsInv'
  <1> DEFINE diff == baseline_diff_dtj(result.at)
  <1>1. ToolsTypes /\ PageInv /\ BaselineInv
    BY DEF ToolsInv
  <1>2. /\ Reading
        /\ result' = IF ~diff.ok THEN diff
                     ELSE [ok |-> TRUE, base |-> diff.base, changes |-> diff.changes, red |-> diff.red,
                           at |-> result.at, capture |-> result.capture, seen |-> result.seen]
        /\ events' = events /\ capture' = capture /\ job' = job /\ baseline' = baseline
    BY DEF DiffReads
  <1>3. ReadingNow(result)
    BY <1>1, <1>2, ReadingIs
  <1>4. ToolsTypes'
    BY <1>1, <1>2 DEF ToolsTypes
  <1>5. PageInv'
    BY <1>1, <1>2 DEF PageInv
  <1>6. SavedNow(baseline) => SavedNow(baseline)'
    BY <1>2 DEF SavedNow, FromFile
  <1>7. ASSUME baseline = Torn PROVE result' = Failed("CorruptBaseline")
    <2>1. diff = Failed("CorruptBaseline")
      BY <1>7 DEF baseline_diff_dtj
    <2>2. diff.ok = FALSE
      BY <2>1 DEF Failed
    <2> QED
      BY <1>2, <2>1, <2>2
  <1>8. ASSUME baseline # Torn PROVE Compared(result)'
    <2>1. PICK now, changes, red :
            diff = [ok |-> TRUE, base |-> baseline, current |-> now, changes |-> changes, red |-> red]
      BY <1>8 DEF baseline_diff_dtj
    <2>2. diff.ok = TRUE
      BY <2>1
    <2>3. diff.base = baseline
      BY <2>1
    <2> HIDE DEF diff
    <2>5. /\ result'.ok = TRUE /\ result'.base = baseline
          /\ result'.at = result.at /\ result'.capture = result.capture /\ result'.seen = result.seen
      BY <1>2, <2>2, <2>3
    <2>6. /\ baseline \in Saved /\ result.at \in Histories
          /\ Alike(baseline.of, baseline.capture, result.at, result.capture)
      BY <1>3, <1>8 DEF ReadingNow, SavedNow
    <2>7. baseline.capture = result.capture /\ result.seen = baseline => Begins(baseline.of, result.at)
      BY <1>3, <1>8 DEF ReadingNow
    <2>8. Compared(result)'
      BY <2>5, <2>6, <2>7 DEF Compared
    <2> QED
      BY <2>8
  <1> HIDE DEF diff
  <1>9. result' = Failed("CorruptBaseline") \/ Compared(result)'
    BY <1>2, <1>7, <1>8
  <1>10. (job.op = "save" => FromFile(job.of, job.capture))'
    BY <1>1, <1>2 DEF BaselineInv, FromFile
  <1>11. (baseline \in {None, Torn} \/ SavedNow(baseline))'
    BY <1>1, <1>2, <1>6 DEF BaselineInv
  <1>12. BaselineInv'
    BY <1>9, <1>10, <1>11 DEF BaselineInv
  <1> QED
    BY <1>4, <1>5, <1>12 DEF ToolsInv

-----------------------------------------------------------------------------
(* Theorems *)

LEMMA ToolsStutter ==
    ASSUME ToolsInv, UNCHANGED vars
    PROVE  ToolsInv'
  <1>1. /\ events' = events /\ capture' = capture /\ job' = job /\ baseline' = baseline
        /\ result' = result
    BY DEF vars
  <1>2. events \in Histories /\ capture \in Nat
    BY DEF ToolsInv, ToolsTypes
  <1>3. Begins(events, events')
    BY <1>1, <1>2, BeginsItself
  <1> QED
    BY <1>1, <1>2, <1>3, ToolsGrow

\* Whatever is recorded between the decodes of a client, the invariant of its
\* pages, its baseline and its comparison holds.
THEOREM ToolsInvariant == Spec => []ToolsInv
  <1>1. ASSUME ToolsInv, [Next]_vars PROVE ToolsInv'
    BY <1>1, RecordKeeps, NewCaptureKeeps, StartPagingKeeps, NextPageKeeps, PageRefusedKeeps,
       StartBundleKeeps, BundleStepKeeps, DecodeFailsKeeps, SaveOpensKeeps, SaveWritesKeeps,
       DiffDecodesKeeps, DiffReadsKeeps, ToolsStutter DEF Next
  <1> QED
    BY ToolsInit, <1>1, PTL DEF Spec

\* search_session_dtj, called page after page while the session is recorded:
\* no match is skipped or returned twice, and the client stops only when it has
\* all of them or an offset can go no further.
THEOREM PagesAreComplete == Spec => []PagesComplete
  <1>1. ASSUME ToolsInv PROVE PagesComplete
    <2>1. SUFFICES ASSUME job.op = "page", job.capture = capture
                   PROVE  /\ IsPrefix(job.got, Matched(events, job.filter))
                          /\ \/ job.more
                             \/ job.got = Matched(SubSeq(events, 1, job.at), job.filter)
                             \/ Len(job.got) > MaxOffset
      BY DEF PagesComplete
    <2> DEFINE m == Matching(events, job.filter)
    <2>2. events \in Histories /\ Len(events) \in Nat
      BY <1>1, LenProperties DEF ToolsInv, ToolsTypes, Histories
    <2>3. job.got \in Histories /\ job.at \in Nat
      BY <1>1, <2>1, JobKinds, PageJobFields DEF ToolsInv
    <2>4. /\ job.at <= Len(events) /\ Begins(job.got, m[job.at])
          /\ job.more \/ job.got = m[job.at] \/ Len(job.got) > MaxOffset
      BY <1>1, <2>1 DEF ToolsInv, PageInv
    <2> HIDE DEF m
    <2>5. job.at \in 0..Len(events) /\ Len(events) \in 0..Len(events)
      BY <2>2, <2>3, <2>4
    <2>6. m[job.at] \in Histories /\ m[Len(events)] \in Histories
      BY <2>2, <2>5, MatchingType DEF m
    <2>7. Begins(m[job.at], m[Len(events)])
      BY <2>2, <2>3, <2>4, <2>5, MatchingGrows DEF m
    <2>8. Begins(job.got, m[Len(events)])
      BY <2>3, <2>4, <2>6, <2>7, BeginsTransitive DEF Histories
    <2>9. IsPrefix(job.got, m[Len(events)])
      BY <2>3, <2>6, <2>8, BeginsIsPrefix DEF Histories
    <2>10. /\ Matched(events, job.filter) = m[Len(events)]
           /\ Matched(SubSeq(events, 1, job.at), job.filter) = m[job.at]
      BY <2>2, <2>5, MatchedCut DEF Matched, m
    <2> QED
      BY <2>4, <2>9, <2>10
  <1> QED
    BY <1>1, ToolsInvariant, PTL

\* baseline_diff_dtj compares with a baseline that was saved whole, and within a
\* capture an earlier state with a later one, however the save, the decode and
\* the read of the baseline are interleaved.
THEOREM BaselinesAreTrue == Spec => []BaselineTrue
  <1>1. ASSUME ToolsInv PROVE BaselineTrue
    <2>1. SUFFICES ASSUME result # None, result.ok
                   PROVE  /\ result.base.data = baseline_build(result.base.of)
                          /\ result.base.capture = result.capture =>
                              /\ IsPrefix(result.base.of, result.at) \/ IsPrefix(result.at, result.base.of)
                              /\ result.seen = result.base => IsPrefix(result.base.of, result.at)
      BY DEF BaselineTrue
    <2>2. Compared(result)
      <3>1. Failed("BaselineMissing").ok = FALSE /\ Failed("CorruptBaseline").ok = FALSE
        BY DEF Failed
      <3>2. ReadingNow(result) => result.ok = FALSE
        BY DEF ReadingNow
      <3> QED
        BY <1>1, <2>1, <3>1, <3>2 DEF ToolsInv, BaselineInv
    <2>3. result.base \in Saved /\ result.at \in Histories
      BY <2>2 DEF Compared
    <2>4. result.base.of \in Histories /\ result.base.data = baseline_build(result.base.of)
      BY <2>3, SavedFields
    <2>5. ASSUME Begins(result.base.of, result.at) PROVE IsPrefix(result.base.of, result.at)
      BY <2>3, <2>4, <2>5, BeginsIsPrefix DEF Histories
    <2>6. ASSUME Begins(result.at, result.base.of) PROVE IsPrefix(result.at, result.base.of)
      BY <2>3, <2>4, <2>6, BeginsIsPrefix DEF Histories
    <2>7. result.base.capture = result.capture =>
            /\ Begins(result.base.of, result.at) \/ Begins(result.at, result.base.of)
            /\ result.seen = result.base => Begins(result.base.of, result.at)
      BY <2>2 DEF Compared, Alike
    <2> QED
      BY <2>4, <2>5, <2>6, <2>7
  <1> QED
    BY <1>1, ToolsInvariant, PTL
=============================================================================
