-------------------------- MODULE SdkClientProofs --------------------------
(***************************************************************************)
(* Proofs about the Python SDK's session (SdkClient): an agent it started  *)
(* does not outlive it, and as long as no reply was given up on, the agent *)
(* records what was emitted.                                               *)
(***************************************************************************)
EXTENDS SdkClient, SequenceTheorems, TLAPS

-----------------------------------------------------------------------------
(* The inductive invariant *)

Places == {"idle", "noop", "failed", "connect", "hello", "opening", "abort", "ready",
           "emit", "finish", "stop", "closed"}
Replies == [op : {"hello", "opening", "intern", "append", "finish"}, ok : BOOLEAN, id : Nat]

ClientTypes ==
    /\ pc \in Places
    /\ pc = "emit" => args \in EmitArgs
    /\ sent \in Commands \cup {None}
    /\ DOMAIN cache \subseteq Kinds \X Strings
    /\ \A p \in DOMAIN cache : cache[p] \in Nat

AgentTypes ==
    /\ requests \in Seq(Commands)
    /\ replies \in Seq(Replies)
    /\ process \in {"none", "starting", "running", "exited", "stopped"}
    /\ dict \in [Kinds -> Seq(Strings)]
    /\ journal \in Seq(Records)
    /\ durable \in 0..Len(journal)

HistoryTypes ==
    /\ acked \subseteq Nat \X EmitArgs
    /\ late \in BOOLEAN
    /\ finished \in BOOLEAN

\* The command a thread waits for is one its place in the code sends.
Turn ==
    sent # None =>
        \/ pc \in {"hello", "opening", "finish"} /\ sent.op = pc
        \/ pc = "emit" /\ sent.op = "intern"
        \/ pc = "emit" /\ sent.op = "append" /\ sent.body.of = args

\* The dictionary d gives the record e the strings of its emit.
Reads(d, e) ==
    /\ Len(e.ids) = Len(Wanted(e.of))
    /\ \A i \in 1..Len(e.ids) :
        LET kind == Wanted(e.of)[i][1] IN
        e.ids[i] \in 1..Len(d[kind]) /\ d[kind][e.ids[i]] = Wanted(e.of)[i][2]

\* The reply r is the answer to the command the client waits for.
Answers(r) ==
    /\ r.op = sent.op
    /\ r.ok /\ sent.op = "intern" =>
        /\ r.id \in 1..Len(dict[sent.body[1]])
        /\ dict[sent.body[1]][r.id] = sent.body[2]
    /\ r.ok /\ sent.op = "append" =>
        /\ r.id >= 1
        /\ Alive => r.id <= Len(journal)
        /\ r.id <= Len(journal) => journal[r.id].of = args
    /\ r.ok /\ sent.op = "finish" => \A x \in acked : x[1] <= durable

\* One command at a time: it is on its way, or answered, or lost with the agent.
Exchange ==
    pc \notin {"abort", "failed", "stop", "closed"} =>
        \/ sent = None /\ requests = <<>> /\ replies = <<>>
        \/ sent # None /\ requests = <<sent>> /\ replies = <<>> /\ Alive
        \/ sent # None /\ requests = <<>> /\ Len(replies) = 1 /\ Answers(replies[1])
        \/ sent # None /\ requests = <<>> /\ replies = <<>> /\ ~Alive

\* What an open or a close that gave up leaves behind changes no journal.
Remains ==
    pc \in {"abort", "stop"} =>
        \A i \in 1..Len(requests) : requests[i].op \in {"hello", "opening", "finish"}

\* Cached ids, the append under way and the journal stand for the right strings.
CacheTrue ==
    \A p \in DOMAIN cache : cache[p] \in 1..Len(dict[p[1]]) /\ dict[p[1]][cache[p]] = p[2]
SentTrue == sent # None /\ sent.op = "append" => Reads(dict, sent.body)
JournalTrue == \A i \in 1..Len(journal) : Reads(dict, journal[i])

\* The numbers emit returned are places in the journal.
Ledger ==
    \A x \in acked :
        /\ x[1] >= 1
        /\ Alive => x[1] <= Len(journal)
        /\ x[1] <= Len(journal) => journal[x[1]].of = x[2]

\* Until the handshake nothing was emitted, and it starts with a bound agent.
Early ==
    /\ pc \in {"idle", "noop", "connect", "failed", "hello", "opening", "abort"} => acked = {}
    /\ process \in {"none", "starting"} => pc \in {"idle", "noop", "connect", "failed"}

FinishedTrue == finished => pc \in {"stop", "closed"} /\ \A x \in acked : x[1] <= durable

SdkTypes == ClientTypes /\ AgentTypes /\ HistoryTypes /\ Turn /\ Early
InStep == Exchange /\ Remains /\ CacheTrue /\ SentTrue /\ JournalTrue /\ Ledger /\ FinishedTrue
SdkInv == SdkTypes /\ (~late => InStep)

\* Who started the agent, and what became of it.
Orphans ==
    /\ opts.socket_path => process \in {"running", "exited"}
    /\ ~opts.socket_path /\ pc \in {"idle", "noop"} => process = "none"
    /\ ~opts.socket_path /\ pc = "closed" => process \notin {"starting", "running"}
    /\ ~opts.socket_path /\ pc = "failed" /\ ~lost => process \notin {"starting", "running"}

-----------------------------------------------------------------------------
(* The strings of an emit *)

\* A sequence whose elements lie in S is a sequence over S.
LEMMA SeqOver ==
    ASSUME NEW S, NEW T, NEW s \in Seq(T), \A i \in 1..Len(s) : s[i] \in S
    PROVE  s \in Seq(S)
<1>1. Len(s) \in Nat /\ s \in [1..Len(s) -> T]
  BY LenProperties
<1>2. s \in [1..Len(s) -> S]
  BY <1>1
<1>. QED BY <1>1, <1>2

LEMMA InternedProps ==
    ASSUME NEW kind \in Kinds, NEW T, NEW str \in T
    PROVE  Interned(kind, str) \in Seq(Kinds \X T) /\ Len(Interned(kind, str)) \in 0..1
<1>1. <<>> \in Seq(Kinds \X T) /\ Len(<<>>) = 0
  BY EmptySeq
<1>2. << <<kind, str>> >> \in Seq(Kinds \X T) /\ Len(<< <<kind, str>> >>) = 1
  OBVIOUS
<1>3. CASE str = None \/ str \in BadValues
  BY <1>1, <1>3 DEF Interned
<1>4. CASE ~(str = None \/ str \in BadValues)
  BY <1>2, <1>4 DEF Interned
<1>. QED BY <1>3, <1>4

LEMMA JoinShort ==
    ASSUME NEW S, NEW s, NEW t, NEW m \in Nat, NEW n \in Nat, n = m + 1,
           s \in Seq(S) /\ Len(s) \in 0..m, t \in Seq(S) /\ Len(t) \in 0..1
    PROVE  s \o t \in Seq(S) /\ Len(s \o t) \in 0..n
<1>1. s \o t \in Seq(S) /\ Len(s \o t) = Len(s) + Len(t)
  BY ConcatProperties
<1>2. \A x \in 0..m, y \in 0..1 : x + y \in 0..n
  OBVIOUS
<1>. QED BY <1>1, <1>2, Zenon

\* emit interns at most six strings.
LEMMA WantedProps ==
    ASSUME NEW a \in EmitArgs
    PROVE  Wanted(a) \in Seq(Kinds \X Strings) /\ Len(Wanted(a)) \in 0..6
<1> DEFINE T == {a.domain, a.category, a.name, a.correlation, a.field_name, a.value}
           P == Kinds \X T
           w1 == Interned("domain", a.domain)
           w2 == Interned("category", a.category)
           w3 == Interned("event_name", a.name)
           w4 == Interned("string", a.correlation)
           w5 == Interned("string", a.field_name)
           w6 == Interned("string", a.value)
<1>0. {"domain", "category", "event_name", "string"} \subseteq Kinds
  BY DEF Kinds
<1> DEFINE Short(w, n) == w \in Seq(P) /\ Len(w) \in 0..n
<1>1. Short(w1, 1) /\ Short(w2, 1) /\ Short(w3, 1) /\ Short(w4, 1) /\ Short(w5, 1) /\ Short(w6, 1)
  BY <1>0, InternedProps
<1>2. \A s, t : \A m \in 1..5 : Short(s, m) /\ Short(t, 1) => Short(s \o t, m + 1)
  <2> HIDE DEF P
  <2>. QED BY JoinShort
<1> HIDE DEF P, w1, w2, w3, w4, w5, w6, Short
<1>3. Short(w1 \o w2, 2)
  BY <1>1, <1>2
<1>4. Short(w1 \o w2 \o w3, 3)
  BY <1>1, <1>2, <1>3
<1>5. Short(w1 \o w2 \o w3 \o w4, 4)
  BY <1>1, <1>2, <1>4
<1>5a. Short(w1 \o w2 \o w3 \o w4 \o w5, 5)
  BY <1>1, <1>2, <1>5
<1>5b. Short(w1 \o w2 \o w3 \o w4 \o w5 \o w6, 6)
  BY <1>1, <1>2, <1>5a
<1>6. Wanted(a) \in Seq(P) /\ Len(Wanted(a)) \in 0..6
  BY <1>5b DEF Short, Wanted, w1, w2, w3, w4, w5, w6
<1>7. ASSUME NEW i \in 1..Len(Wanted(a))
      PROVE  Wanted(a)[i] \in Kinds \X Strings
  <2>1. DOMAIN Wanted(a) = 1..Len(Wanted(a))
    BY <1>6, LenProperties
  <2>2. Wanted(a)[i] \in Kinds \X T
    BY <1>6, ElementOfSeq DEF P
  <2>3. Wanted(a)[i][2] \in Strings
    BY <2>1 DEF Strings
  <2>. QED BY <2>2, <2>3
<1>. QED BY <1>6, <1>7, SeqOver

\* The string emit asks for first is one of its strings without an id.
LEMMA FirstProps ==
    ASSUME NEW a \in EmitArgs, Missing(a) # {}
    PROVE  First(Missing(a)) \in Missing(a)
<1>1. Missing(a) \subseteq 1..6
  BY WantedProps DEF Missing
<1>2. \E i \in Missing(a) : \A j \in Missing(a) : i <= j
  <2> DEFINE M == Missing(a)
  <2>0. M \subseteq 1..6 /\ M # {}
    BY <1>1
  <2> HIDE DEF M
  <2>1. CASE 1 \in M
    BY <2>0, <2>1 DEF M
  <2>2. CASE 1 \notin M /\ 2 \in M
    BY <2>0, <2>2 DEF M
  <2>3. CASE 1 \notin M /\ 2 \notin M /\ 3 \in M
    BY <2>0, <2>3 DEF M
  <2>4. CASE M \cap 1..3 = {} /\ 4 \in M
    BY <2>0, <2>4 DEF M
  <2>5. CASE M \cap 1..4 = {} /\ 5 \in M
    BY <2>0, <2>5 DEF M
  <2>6. CASE M \cap 1..5 = {}
    BY <2>0, <2>6 DEF M
  <2>7. M \cap 1..5 = {} \/ 1 \in M \/ 2 \in M \/ 3 \in M \/ 4 \in M \/ 5 \in M
    BY <2>0
  <2>8. 1 \notin M /\ 2 \notin M /\ 3 \notin M => M \cap 1..3 = {}
    BY <2>0
  <2>9. 1 \notin M /\ 2 \notin M /\ 3 \notin M /\ 4 \notin M => M \cap 1..4 = {}
    BY <2>0
  <2>. QED BY <2>1, <2>2, <2>3, <2>4, <2>5, <2>6, <2>7, <2>8, <2>9
<1>. QED BY <1>2 DEF First

-----------------------------------------------------------------------------
(* The agent an open started *)

LEMMA OrphansStep ==
    ASSUME Orphans, [Next]_vars
    PROVE  Orphans'
<1> USE DEF Orphans, client, channel, agent, history, Alive
<1>1. CASE OpenNoOp
  BY <1>1 DEF OpenNoOp
<1>2. CASE OpenRefused
  BY <1>2 DEF OpenRefused
<1>3. CASE start_agent
  BY <1>3 DEF start_agent, MayStart
<1>4. CASE StartFails
  BY <1>4 DEF StartFails, MayStart
<1>5. CASE Connect
  BY <1>5 DEF Connect
<1>6. CASE SendHandshake
  BY <1>6 DEF SendHandshake, Send
<1>7. CASE ReadHandshake
  BY <1>7 DEF ReadHandshake, Reply
<1>8. CASE HandshakeRaises
  BY <1>8 DEF HandshakeRaises
<1>9. CASE Abort
  BY <1>9 DEF Abort, stop_agent
<1>10. CASE SendIntern \/ SendAppend \/ SendFinish
  BY <1>10 DEF SendIntern, SendAppend, SendFinish, Send
<1>11. CASE ReadIntern
  BY <1>11 DEF ReadIntern, Reply
<1>12. CASE ReadAppend \/ ReadFinish
  BY <1>12 DEF ReadAppend, ReadFinish, Reply
<1>13. CASE EmitRaises \/ FinishRaises
  BY <1>13 DEF EmitRaises, FinishRaises
<1>14. CASE CloseEnd
  BY <1>14 DEF CloseEnd, stop_agent
<1>15. CASE EmitStart \/ CloseStart
  BY <1>15 DEF EmitStart, CloseStart
<1>16. CASE AgentBinds \/ AgentExits
  BY <1>16 DEF AgentBinds, AgentExits
<1>17. CASE AgentServes
  <2>1. UNCHANGED <<client, process, history>>
    BY <1>17 DEF AgentServes, ServeHandshake, ServeIntern, ServeAppend, ServeFinish, AgentAnswers
  <2>. QED BY <2>1
<1>18. CASE UNCHANGED vars
  BY <1>18 DEF vars
<1>. QED BY <1>1, <1>2, <1>3, <1>4, <1>5, <1>6, <1>7, <1>8, <1>9, <1>10, <1>11, <1>12, <1>13,
            <1>14, <1>15, <1>16, <1>17, <1>18 DEF Next, ClientStep

\* client.py, close and the handler of open: an agent the SDK started is gone
\* when close has returned, or an open that failed after connecting; an agent
\* it only connected to is never stopped.
THEOREM AgentStopped == Spec => []NoOrphan
<1>1. Init => Orphans
  BY DEF Init, Orphans
<1>2. Orphans /\ [Next]_vars => Orphans'
  BY OrphansStep
<1>3. Orphans => NoOrphan
  BY DEF Orphans, NoOrphan
<1>. QED BY <1>1, <1>2, <1>3, PTL DEF Spec

-----------------------------------------------------------------------------
(* Commands and the agent's answers *)

LEMMA CommandProps ==
    /\ \A c \in Commands : c # None
    /\ \A c \in Commands : c.op \in {"hello", "opening", "finish", "intern", "append"}
    /\ \A c \in Commands : c.op = "intern" => c.body \in Kinds \X Strings
    /\ \A c \in Commands : c.op = "append" => c.body \in Records
    /\ \A op \in {"hello", "opening", "finish"} : Cmd(op, None) \in Commands
    /\ \A b \in Kinds \X Strings : Cmd("intern", b) \in Commands
    /\ \A b \in Records : Cmd("append", b) \in Commands
BY NoneAssumption DEF Commands, Cmd

\* d grew to e: the ids of d keep their strings.
Grown(d, e) ==
    \A k \in Kinds : Len(d[k]) <= Len(e[k]) /\ \A i \in 1..Len(d[k]) : e[k][i] = d[k][i]

LEMMA ReadsGrown ==
    ASSUME NEW d \in [Kinds -> Seq(Strings)], NEW e \in [Kinds -> Seq(Strings)], Grown(d, e),
           NEW rec \in Records, Reads(d, rec)
    PROVE  Reads(e, rec)
<1>1. rec.of \in EmitArgs /\ rec.ids \in Seq(Nat)
  BY DEF Records
<1>2. ASSUME NEW i \in 1..Len(rec.ids)
      PROVE  LET kind == Wanted(rec.of)[i][1] IN
             rec.ids[i] \in 1..Len(e[kind]) /\ e[kind][rec.ids[i]] = Wanted(rec.of)[i][2]
  <2> DEFINE kind == Wanted(rec.of)[i][1]
  <2>1. i \in 1..Len(Wanted(rec.of))
    BY DEF Reads
  <2>2. kind \in Kinds
    BY <1>1, <2>1, WantedProps, ElementOfSeq
  <2>3. rec.ids[i] \in 1..Len(d[kind]) /\ d[kind][rec.ids[i]] = Wanted(rec.of)[i][2]
    BY DEF Reads
  <2>4. Len(d[kind]) \in Nat /\ Len(e[kind]) \in Nat
    BY <2>2, LenProperties
  <2> HIDE DEF kind
  <2>5. rec.ids[i] \in 1..Len(e[kind]) /\ e[kind][rec.ids[i]] = d[kind][rec.ids[i]]
    BY <2>2, <2>3, <2>4 DEF Grown
  <2>. QED BY <2>3, <2>5 DEF kind
<1>. QED BY <1>2 DEF Reads

\* The dictionary after an Intern.
WithString(d, kind, str) == [d EXCEPT ![kind] = IF str \in Range(@) THEN @ ELSE Append(@, str)]

LEMMA InternGrows ==
    ASSUME NEW d \in [Kinds -> Seq(Strings)], NEW kind \in Kinds, NEW str \in Strings
    PROVE  LET e == WithString(d, kind, str) IN
           e \in [Kinds -> Seq(Strings)] /\ Grown(d, e) /\ DOMAIN e[kind] = 1..Len(e[kind])
<1> DEFINE e == WithString(d, kind, str)
           new == IF str \in Range(d[kind]) THEN d[kind] ELSE Append(d[kind], str)
<1>1. d[kind] \in Seq(Strings) /\ Len(d[kind]) \in Nat
  BY LenProperties
<1>2. /\ new \in Seq(Strings) /\ Len(new) \in Nat /\ Len(d[kind]) <= Len(new)
      /\ \A i \in 1..Len(d[kind]) : new[i] = d[kind][i]
  <2>1. CASE str \in Range(d[kind])
    BY <1>1, <2>1
  <2>2. CASE str \notin Range(d[kind])
    BY <1>1, <2>2, AppendProperties
  <2>. QED BY <2>1, <2>2
<1>3. e = [d EXCEPT ![kind] = new]
  BY DEF WithString
<1> HIDE DEF new, e
<1>4. e \in [Kinds -> Seq(Strings)] /\ e[kind] = new /\ \A k \in Kinds \ {kind} : e[k] = d[k]
  BY <1>2, <1>3
<1>5. \A k \in Kinds : Len(d[k]) \in Nat
  BY LenProperties
<1>6. Grown(d, e)
  <2> SUFFICES ASSUME NEW k \in Kinds
               PROVE  Len(d[k]) <= Len(e[k]) /\ \A i \in 1..Len(d[k]) : e[k][i] = d[k][i]
    BY DEF Grown
  <2>1. CASE k = kind
    BY <1>2, <1>4, <2>1
  <2>2. CASE k # kind
    BY <1>4, <1>5, <2>2
  <2>. QED BY <2>1, <2>2
<1>. QED BY <1>4, <1>6, <1>2, LenProperties DEF e

\* What serving the command c with the reply r does to dictionary and journal.
Effect(c, r) ==
    \/ c.op \in {"hello", "opening"} /\ UNCHANGED <<dict, journal, durable>>
    \/ /\ c.op = "intern" /\ UNCHANGED <<journal, durable>>
       /\ dict' \in [Kinds -> Seq(Strings)] /\ Grown(dict, dict')
       /\ r.ok => /\ r.id \in 1..Len(dict'[c.body[1]])
                  /\ dict'[c.body[1]][r.id] = c.body[2]
    \/ /\ c.op = "append" /\ UNCHANGED <<dict, durable>>
       /\ \/ r.ok /\ journal' = Append(journal, c.body) /\ r.id = Len(journal) + 1
          \/ ~r.ok /\ UNCHANGED journal
    \/ /\ c.op = "finish" /\ UNCHANGED <<dict, journal>>
       /\ \/ r.ok /\ durable' = Len(journal)
          \/ ~r.ok /\ UNCHANGED durable

LEMMA Served ==
    ASSUME SdkTypes, AgentServes
    PROVE  /\ requests # <<>> /\ Head(requests) \in Commands /\ Alive
           /\ pc \notin {"closed", "failed"}
           /\ UNCHANGED <<client, process, flag, history>>
           /\ requests' = Tail(requests)
           /\ \E r \in Replies : /\ r.op = Head(requests).op
                                 /\ replies' = Append(replies, r)
                                 /\ Effect(Head(requests), r)
<1> DEFINE c == Head(requests)
<1>1. requests # <<>> /\ c \in Commands
  BY HeadTailProperties DEF SdkTypes, AgentTypes, AgentServes
<1>2. journal \in Seq(Records) /\ Len(journal) \in Nat /\ dict \in [Kinds -> Seq(Strings)]
  BY LenProperties DEF SdkTypes, AgentTypes
<1>3. \A op \in {"hello", "opening", "intern", "append", "finish"}, ok \in BOOLEAN, id \in Nat :
         /\ Resp(op, ok, id) \in Replies
         /\ Resp(op, ok, id).op = op /\ Resp(op, ok, id).ok = ok /\ Resp(op, ok, id).id = id
  BY DEF Resp, Replies
<1>0. ServeHandshake(c) \/ ServeIntern(c) \/ ServeAppend(c) \/ ServeFinish(c)
  BY DEF AgentServes
<1>a. Alive /\ pc \notin {"closed", "failed"} /\ c = Head(requests)
  BY DEF AgentServes
<1> HIDE DEF c
<1> DEFINE Done(r) == AgentAnswers(r) /\ r \in Replies /\ r.op = c.op /\ Effect(c, r)
<1>4. CASE ServeHandshake(c)
  <2>1. PICK ok \in BOOLEAN : AgentAnswers(Resp(c.op, ok, 0))
    BY <1>4 DEF ServeHandshake
  <2>2. Done(Resp(c.op, ok, 0))
    BY <1>3, <1>4, <2>1 DEF ServeHandshake, Effect
  <2>. QED BY <1>a, <1>1, <2>2 DEF AgentAnswers
<1>5. CASE ServeIntern(c)
  <2> DEFINE kind == c.body[1]
             str == c.body[2]
  <2>1. kind \in Kinds /\ str \in Strings /\ c.op = "intern" /\ UNCHANGED <<journal, durable>>
    BY <1>1, <1>5, CommandProps DEF ServeIntern
  <2>2. CASE UNCHANGED dict /\ AgentAnswers(Resp(c.op, FALSE, 0))
    <3>1. Grown(dict, dict') /\ dict' \in [Kinds -> Seq(Strings)]
      BY <1>2, <2>2, LenProperties DEF Grown
    <3>2. Done(Resp(c.op, FALSE, 0))
      <4> DEFINE r == Resp(c.op, FALSE, 0)
      <4>0. AgentAnswers(r)
        BY <2>2
      <4>1. r \in Replies /\ r.op = c.op /\ r.ok = FALSE
        BY <2>1 DEF r, Resp, Replies
      <4> HIDE DEF r
      <4>2. Effect(c, r)
        BY <2>1, <3>1, <4>1 DEF Effect
      <4>. QED BY <4>0, <4>1, <4>2 DEF r
    <3>. QED BY <1>a, <1>1, <3>2 DEF AgentAnswers
  <2>3. CASE /\ dict' = [dict EXCEPT ![kind] = IF str \in Range(@) THEN @ ELSE Append(@, str)]
             /\ \E i \in DOMAIN dict'[kind] :
                   dict'[kind][i] = str /\ AgentAnswers(Resp(c.op, TRUE, i))
    <3>1. /\ dict' \in [Kinds -> Seq(Strings)] /\ Grown(dict, dict')
          /\ DOMAIN dict'[kind] = 1..Len(dict'[kind])
      <4>1. dict' = WithString(dict, kind, str)
        BY <2>3 DEF WithString
      <4>. QED BY <1>2, <2>1, <4>1, InternGrows
    <3>2. PICK i \in 1..Len(dict'[kind]) : dict'[kind][i] = str /\ AgentAnswers(Resp(c.op, TRUE, i))
      BY <2>3, <3>1
    <3>3. i \in Nat
      BY <3>2
    <3>4. Done(Resp(c.op, TRUE, i))
      <4> DEFINE r == Resp(c.op, TRUE, i)
      <4>0. AgentAnswers(r)
        BY <3>2
      <4>1. r \in Replies /\ r.op = c.op /\ r.id = i
        BY <2>1, <3>3 DEF r, Resp, Replies
      <4> HIDE DEF r
      <4>2. Effect(c, r)
        BY <2>1, <3>1, <3>2, <4>1 DEF Effect
      <4>. QED BY <4>0, <4>1, <4>2 DEF r
    <3>. QED BY <1>a, <1>1, <3>4 DEF AgentAnswers
  <2>. QED BY <1>5, <2>2, <2>3 DEF ServeIntern
<1>6. CASE ServeAppend(c)
  <2>1. PICK ok \in {\A ref \in Range(Refs(c.body)) : Known(ref)} :
           /\ journal' = IF ok THEN Append(journal, c.body) ELSE journal
           /\ AgentAnswers(Resp(c.op, ok, Len(journal')))
    BY <1>6 DEF ServeAppend
  <2>2. ok \in BOOLEAN
    OBVIOUS
  <2>3. c.op = "append" /\ UNCHANGED <<dict, durable>> /\ c.body \in Records
    BY <1>1, <1>6, CommandProps DEF ServeAppend
  <2>4. Len(Append(journal, c.body)) = Len(journal) + 1
    BY <1>2, <2>3, AppendProperties
  <2>5. Len(journal') \in Nat
    BY <1>2, <2>1, <2>4
  <2>6. Done(Resp(c.op, ok, Len(journal')))
    <3> DEFINE r == Resp(c.op, ok, Len(journal'))
    <3>0. AgentAnswers(r)
      BY <2>1
    <3>1. r \in Replies /\ r.op = c.op /\ r.ok = ok /\ r.id = Len(journal')
      BY <2>2, <2>3, <2>5 DEF r, Resp, Replies
    <3> HIDE DEF r
    <3>2. ASSUME ok = TRUE PROVE Effect(c, r)
      BY <2>1, <2>3, <2>4, <3>1, <3>2 DEF Effect
    <3>3. ASSUME ok = FALSE PROVE Effect(c, r)
      BY <2>1, <2>3, <3>1, <3>3 DEF Effect
    <3>. QED BY <2>2, <3>0, <3>1, <3>2, <3>3 DEF r
  <2>. QED BY <1>a, <1>1, <2>6 DEF AgentAnswers
<1>7. CASE ServeFinish(c)
  <2>1. PICK ok \in BOOLEAN : /\ durable' = IF ok THEN Len(journal) ELSE durable
                             /\ AgentAnswers(Resp(c.op, ok, 0))
    BY <1>7 DEF ServeFinish
  <2>2. c.op = "finish" /\ UNCHANGED <<dict, journal>>
    BY <1>7 DEF ServeFinish
  <2>3. Done(Resp(c.op, ok, 0))
    BY <1>3, <2>1, <2>2 DEF Effect
  <2>. QED BY <1>a, <1>1, <2>3 DEF AgentAnswers
<1>. QED BY <1>0, <1>4, <1>5, <1>6, <1>7

-----------------------------------------------------------------------------
(* Types *)

LEMMA InitTypes == Init => SdkTypes
<1> SUFFICES ASSUME Init PROVE SdkTypes
  OBVIOUS
<1>1. ClientTypes
  BY DEF Init, ClientTypes, Places
<1>2. AgentTypes
  BY EmptySeq DEF Init, AgentTypes
<1>. QED BY <1>1, <1>2 DEF Init, SdkTypes, HistoryTypes, Turn, Early

\* The ids of a command to append are those of the cache.
LEMMA IdsType ==
    ASSUME ClientTypes, NEW a \in EmitArgs, Missing(a) = {}
    PROVE  [ids |-> Ids(a), of |-> a] \in Records /\ Len(Ids(a)) = Len(Wanted(a))
<1>1. Wanted(a) \in Seq(Kinds \X Strings) /\ Len(Wanted(a)) \in Nat
  BY WantedProps
<1>2. \A i \in 1..Len(Wanted(a)) : Wanted(a)[i] \in DOMAIN cache /\ cache[Wanted(a)[i]] \in Nat
  BY DEF Missing, ClientTypes
<1>3. Ids(a) \in [1..Len(Wanted(a)) -> Nat]
  BY <1>2 DEF Ids
<1>4. Ids(a) \in Seq(Nat) /\ Len(Ids(a)) = Len(Wanted(a))
  BY <1>1, <1>3, SMTT(60)
<1>. QED BY <1>4 DEF Records

\* Sending a command.
LEMMA SendTypes ==
    ASSUME SdkTypes, NEW cmd \in Commands, Send(cmd)
    PROVE  sent' \in Commands /\ sent' = cmd /\ sent' # None /\ requests' \in Seq(Commands)
           /\ requests' = Append(requests, cmd) /\ UNCHANGED replies /\ Alive
BY CommandProps, AppendProperties DEF SdkTypes, AgentTypes, Send

\* Reading a reply.
LEMMA ReplyTypes ==
    ASSUME SdkTypes, NEW r \in Incoming, Reply(r)
    PROVE  /\ replies # <<>> /\ r = Head(replies) /\ r \in Replies
           /\ replies' = Tail(replies) /\ replies' \in Seq(Replies)
           /\ sent' = None /\ UNCHANGED requests
<1>1. replies # <<>> /\ r = Head(replies)
  BY DEF Incoming
<1>. QED BY <1>1, HeadTailProperties DEF Reply, SdkTypes, AgentTypes

\* A cut of the journal, when the agent ends.
LEMMA CutJournal ==
    ASSUME AgentTypes
    PROVE  /\ SubSeq(journal, 1, durable) \in Seq(Records)
           /\ Len(SubSeq(journal, 1, durable)) = durable
           /\ durable \in Nat /\ Len(journal) \in Nat /\ durable <= Len(journal)
           /\ \A i \in 1..durable : SubSeq(journal, 1, durable)[i] = journal[i]
<1>1. /\ journal \in Seq(Records) /\ Len(journal) \in Nat
      /\ durable \in Nat /\ durable <= Len(journal)
  BY LenProperties DEF AgentTypes
<1>2. \A i \in 1..durable : journal[i] \in Records
  BY <1>1, ElementOfSeq
<1>3. /\ SubSeq(journal, 1, durable) \in Seq(Records)
      /\ Len(SubSeq(journal, 1, durable)) = IF 1 <= durable THEN durable - 1 + 1 ELSE 0
      /\ \A i \in 1..(durable - 1 + 1) : SubSeq(journal, 1, durable)[i] = journal[1 + i - 1]
  BY <1>1, <1>2, SubSeqProperties
<1>. QED BY <1>1, <1>3

\* Stopping the agent.
LEMMA StopTypes ==
    ASSUME SdkTypes, stop_agent, Discarded
    PROVE  /\ process' \in {"none", "starting", "running", "exited", "stopped"}
           /\ process' \in {"none", "starting"} => process' = process
           /\ process' = "running" => process = "running"
           /\ journal' \in Seq(Records) /\ durable \in 0..Len(journal')
           /\ \/ UNCHANGED journal
              \/ journal' = SubSeq(journal, 1, durable) /\ process' # "running"
<1>1. AgentTypes
  BY DEF SdkTypes
<1>2. CASE process' = "stopped"
  BY <1>1, <1>2, CutJournal DEF stop_agent, Discarded
<1>3. CASE process' # "stopped"
  BY <1>1, <1>3 DEF AgentTypes, stop_agent, Discarded
<1>. QED BY <1>2, <1>3

LEMMA ServeTypes ==
    ASSUME SdkTypes, AgentServes
    PROVE  AgentTypes'
<1>1. Head(requests) \in Commands /\ requests' \in Seq(Commands) /\ UNCHANGED process
  BY Served, HeadTailProperties DEF SdkTypes, AgentTypes
<1>2. PICK r \in Replies : replies' = Append(replies, r) /\ Effect(Head(requests), r)
  BY Served
<1>3. replies' \in Seq(Replies)
  BY <1>2, AppendProperties DEF SdkTypes, AgentTypes
<1>4. /\ journal \in Seq(Records) /\ Len(journal) \in Nat /\ durable \in 0..Len(journal)
      /\ dict \in [Kinds -> Seq(Strings)]
  BY LenProperties DEF SdkTypes, AgentTypes
<1>5. dict' \in [Kinds -> Seq(Strings)]
  BY <1>2, <1>4 DEF Effect
<1>6. journal' \in Seq(Records) /\ durable' \in 0..Len(journal')
  <2>1. CASE UNCHANGED journal
    BY <1>2, <1>4, <2>1 DEF Effect
  <2>2. CASE Head(requests).op = "append" /\ UNCHANGED durable
             /\ journal' = Append(journal, Head(requests).body)
    <3>1. Head(requests).body \in Records
      BY <1>1, <2>2, CommandProps
    <3>2. journal' \in Seq(Records) /\ Len(journal') = Len(journal) + 1
      BY <1>4, <2>2, <3>1, AppendProperties
    <3>. QED BY <1>4, <2>2, <3>2
  <2>. QED BY <1>2, <2>1, <2>2 DEF Effect
<1>. QED BY <1>1, <1>3, <1>5, <1>6 DEF SdkTypes, AgentTypes

LEMMA TypesStep ==
    ASSUME SdkTypes, [Next]_vars
    PROVE  SdkTypes'
<1> USE DEF SdkTypes, ClientTypes, HistoryTypes, Turn, Early, client, channel, agent, history
<1>1. CASE OpenNoOp \/ OpenRefused \/ StartFails
  BY <1>1 DEF OpenNoOp, OpenRefused, StartFails, MayStart, AgentTypes, Places
<1>2. CASE start_agent
  BY <1>2 DEF start_agent, MayStart, AgentTypes, Places
<1>3. CASE Connect
  BY <1>3 DEF Connect, AgentTypes, Places, Alive
<1>4. CASE SendHandshake
  <2>1. Cmd(pc, None) \in Commands /\ Cmd(pc, None).op = pc
    BY <1>4, CommandProps DEF SendHandshake, Cmd
  <2>2. sent' \in Commands /\ sent' = Cmd(pc, None) /\ requests' \in Seq(Commands) /\ UNCHANGED replies
    BY <1>4, <2>1, SendTypes DEF SendHandshake
  <2>. QED BY <1>4, <2>1, <2>2 DEF SendHandshake, AgentTypes
<1>5. CASE ReadHandshake
  <2>1. PICK r \in Incoming : Reply(r)
    BY <1>5 DEF ReadHandshake
  <2>2. replies' \in Seq(Replies) /\ sent' = None /\ UNCHANGED requests
    BY <2>1, ReplyTypes
  <2>3. pc' \in {"abort", "opening", "ready"}
    BY <1>5 DEF ReadHandshake
  <2>. QED BY <1>5, <2>2, <2>3 DEF ReadHandshake, AgentTypes, Places
<1>6. CASE HandshakeRaises \/ FinishRaises
  BY <1>6 DEF HandshakeRaises, FinishRaises, AgentTypes, Places
<1>7. CASE Abort
  <2>1. process' \in {"none", "starting"} => process' = process
    BY <1>7, StopTypes DEF Abort
  <2>2. AgentTypes'
    BY <1>7, StopTypes DEF Abort, AgentTypes
  <2>. QED BY <1>7, <2>1, <2>2 DEF Abort, Places
<1>8. CASE SendIntern
  <2> DEFINE want == Wanted(args)[First(Missing(args))]
  <2>1. First(Missing(args)) \in 1..Len(Wanted(args)) /\ args \in EmitArgs
    BY <1>8, FirstProps DEF SendIntern, Missing
  <2>2. want \in Kinds \X Strings
    BY <2>1, WantedProps, ElementOfSeq
  <2>3. Cmd("intern", want) \in Commands /\ Cmd("intern", want).op = "intern"
    BY <2>2, CommandProps DEF Cmd
  <2>4. /\ sent' \in Commands /\ sent' = Cmd("intern", want)
        /\ requests' \in Seq(Commands) /\ UNCHANGED replies
    BY <1>8, <2>3, SendTypes DEF SendIntern
  <2>. QED BY <1>8, <2>3, <2>4 DEF SendIntern, AgentTypes
<1>9. CASE SendAppend
  <2> DEFINE rec == [ids |-> Ids(args), of |-> args]
  <2>1. rec \in Records
    BY <1>9, IdsType DEF SendAppend
  <2>2. Cmd("append", rec) \in Commands /\ Cmd("append", rec).op = "append"
        /\ Cmd("append", rec).body.of = args
    BY <2>1, CommandProps DEF Cmd
  <2>4. /\ sent' \in Commands /\ sent' = Cmd("append", rec)
        /\ requests' \in Seq(Commands) /\ UNCHANGED replies
    BY <1>9, <2>2, SendTypes DEF SendAppend
  <2>. QED BY <1>9, <2>2, <2>4 DEF SendAppend, AgentTypes
<1>10. CASE ReadIntern
  <2>1. PICK r \in Incoming :
           /\ Reply(r)
           /\ IF Accepted(r)
              THEN cache' = [p \in DOMAIN cache \cup {sent.body} |->
                                 IF p = sent.body THEN r.id ELSE cache[p]] /\ pc' = pc
              ELSE cache' = cache /\ pc' = "ready"
    BY <1>10 DEF ReadIntern
  <2>2. replies' \in Seq(Replies) /\ sent' = None /\ UNCHANGED requests /\ r \in Replies
    BY <2>1, ReplyTypes
  <2>3. r.id \in Nat /\ sent.body \in Kinds \X Strings
    BY <1>10, <2>2, CommandProps DEF Replies, ReadIntern
  <2>4. DOMAIN cache' \subseteq Kinds \X Strings /\ \A p \in DOMAIN cache' : cache'[p] \in Nat
    BY <2>1, <2>3
  <2>5. pc' \in {"emit", "ready"}
    BY <1>10, <2>1 DEF ReadIntern
  <2>. QED BY <1>10, <2>2, <2>4, <2>5 DEF ReadIntern, AgentTypes, Places
<1>11. CASE ReadAppend
  <2>1. PICK r \in Incoming :
           Reply(r) /\ acked' = IF Accepted(r) THEN acked \cup {<<r.id, args>>} ELSE acked
    BY <1>11 DEF ReadAppend
  <2>2. replies' \in Seq(Replies) /\ sent' = None /\ UNCHANGED requests /\ r \in Replies
    BY <2>1, ReplyTypes
  <2>3. acked' \subseteq Nat \X EmitArgs
    BY <1>11, <2>1, <2>2 DEF Replies, ReadAppend
  <2>. QED BY <1>11, <2>2, <2>3 DEF ReadAppend, AgentTypes, Places
<1>12. CASE EmitRaises
  <2>1. late' \in BOOLEAN
    BY <1>12 DEF EmitRaises, Alive
  <2>. QED BY <1>12, <2>1 DEF EmitRaises, AgentTypes, Places
<1>13. CASE SendFinish
  <2>1. Cmd("finish", None) \in Commands /\ Cmd("finish", None).op = "finish"
    BY CommandProps DEF Cmd
  <2>2. /\ sent' \in Commands /\ sent' = Cmd("finish", None)
        /\ requests' \in Seq(Commands) /\ UNCHANGED replies
    BY <1>13, <2>1, SendTypes DEF SendFinish
  <2>. QED BY <1>13, <2>1, <2>2 DEF SendFinish, AgentTypes
<1>14. CASE ReadFinish
  <2>1. PICK r \in Incoming : Reply(r) /\ finished' = r.ok
    BY <1>14 DEF ReadFinish
  <2>2. replies' \in Seq(Replies) /\ sent' = None /\ UNCHANGED requests /\ r.ok \in BOOLEAN
    BY <2>1, ReplyTypes DEF Replies
  <2>. QED BY <1>14, <2>1, <2>2 DEF ReadFinish, AgentTypes, Places
<1>15. CASE CloseEnd
  <2>1. process' \in {"none", "starting"} => process' = process
    BY <1>15, StopTypes DEF CloseEnd
  <2>2. AgentTypes'
    BY <1>15, StopTypes DEF CloseEnd, AgentTypes
  <2>. QED BY <1>15, <2>1, <2>2 DEF CloseEnd, Places
<1>16. CASE EmitStart \/ CloseStart
  BY <1>16 DEF EmitStart, CloseStart, AgentTypes, Places
<1>17. CASE AgentBinds
  BY <1>17 DEF AgentBinds, AgentTypes
<1>18. CASE AgentExits
  <2>1. AgentTypes
    OBVIOUS
  <2>2. journal' \in Seq(Records) /\ durable' \in 0..Len(journal') /\ requests' \in Seq(Commands)
    BY <1>18, <2>1, CutJournal, EmptySeq DEF AgentExits
  <2>. QED BY <1>18, <2>2 DEF AgentExits, AgentTypes
<1>19. CASE AgentServes
  <2>1. AgentTypes' /\ UNCHANGED <<client, process, history>>
    BY <1>19, ServeTypes, Served
  <2>. QED BY <2>1
<1>20. CASE UNCHANGED vars
  BY <1>20 DEF vars, AgentTypes
<1>. QED BY <1>1, <1>2, <1>3, <1>4, <1>5, <1>6, <1>7, <1>8, <1>9, <1>10, <1>11, <1>12, <1>13,
            <1>14, <1>15, <1>16, <1>17, <1>18, <1>19, <1>20 DEF Next, ClientStep

-----------------------------------------------------------------------------
(* One command at a time *)

\* What does not touch the agent, the caches and what was acknowledged leaves
\* their part of the invariant alone.
LEMMA SteadyKeeps ==
    ASSUME InStep, UNCHANGED <<cache, process, dict, journal, durable, acked>>
    PROVE  CacheTrue' /\ JournalTrue' /\ Ledger'
BY DEF InStep, CacheTrue, JournalTrue, Ledger, Reads, Alive

\* Nothing is on its way while no reply is awaited.
LEMMA QuietChannel ==
    ASSUME InStep, sent = None, pc \notin {"abort", "failed", "stop", "closed"}
    PROVE  requests = <<>> /\ replies = <<>>
BY DEF InStep, Exchange

\* A client step that only moves on.
LEMMA MovesInStep ==
    ASSUME SdkTypes, InStep, sent = None, sent' = None,
           UNCHANGED <<cache, channel, process, dict, journal, durable, acked, finished>>,
           pc \notin {"abort", "failed", "stop", "closed"}, pc' \notin {"abort", "stop", "closed"}
    PROVE  InStep'
<1>1. CacheTrue' /\ JournalTrue' /\ Ledger'
  BY SteadyKeeps
<1>2. Exchange'
  BY QuietChannel DEF Exchange, channel
<1>3. FinishedTrue'
  BY DEF InStep, FinishedTrue
<1>. QED BY <1>1, <1>2, <1>3 DEF InStep, Remains, SentTrue

\* A command is sent.
LEMMA SendInStep ==
    ASSUME SdkTypes, InStep, sent = None, NEW cmd \in Commands, Send(cmd),
           pc \in {"hello", "opening", "emit", "finish"}, pc' = pc,
           cmd.op = "append" => Reads(dict, cmd.body),
           UNCHANGED <<cache, agent, history>>
    PROVE  InStep'
<1>0. UNCHANGED <<process, dict, journal, durable, acked, finished>>
  BY DEF agent, history
<1>1. CacheTrue' /\ JournalTrue' /\ Ledger'
  BY <1>0, SteadyKeeps
<1>2. requests = <<>> /\ replies = <<>>
  BY QuietChannel
<1>3. sent' = cmd /\ sent' # None /\ requests' = Append(<<>>, cmd) /\ replies' = <<>> /\ Alive'
  BY <1>0, <1>2, SendTypes DEF Alive
<1>4. Append(<<>>, cmd) = <<cmd>>
  OBVIOUS
<1>5. Exchange'
  BY <1>3, <1>4 DEF Exchange
<1>6. SentTrue'
  BY <1>0, <1>3 DEF SentTrue
<1>. QED BY <1>0, <1>1, <1>5, <1>6 DEF InStep, Remains, FinishedTrue

\* The reply that is read is the answer to the command that was sent.
LEMMA ReplyInStep ==
    ASSUME SdkTypes, InStep, sent # None, NEW r \in Incoming, Reply(r),
           pc \notin {"abort", "failed", "stop", "closed"}
    PROVE  /\ Answers(r) /\ r \in Replies
           /\ sent' = None /\ requests = <<>> /\ requests' = <<>> /\ replies' = <<>>
<1>1. replies # <<>> /\ r = Head(replies) /\ r \in Replies /\ replies' = Tail(replies)
      /\ sent' = None /\ UNCHANGED requests
  BY ReplyTypes
<1>2. requests = <<>> /\ Len(replies) = 1 /\ Answers(replies[1])
  BY <1>1 DEF InStep, Exchange
<1>3. replies \in Seq(Replies)
  BY DEF SdkTypes, AgentTypes
<1>4. Head(replies) = replies[1] /\ Tail(replies) = <<>>
  BY <1>1, <1>2, <1>3
<1>. QED BY <1>1, <1>2, <1>4

LEMMA ReadsInStep ==
    ASSUME SdkTypes, InStep, sent' = None, requests' = <<>>, replies' = <<>>,
           UNCHANGED <<cache, process, dict, journal, durable, acked>>, FinishedTrue'
    PROVE  InStep'
<1>1. CacheTrue' /\ JournalTrue' /\ Ledger'
  BY SteadyKeeps
<1>2. Exchange' /\ SentTrue'
  BY DEF Exchange, SentTrue
<1>3. Remains'
  BY EmptySeq DEF Remains
<1>. QED BY <1>1, <1>2, <1>3 DEF InStep

\* _intern caches the id of the string it asked for.
LEMMA InternInStep ==
    ASSUME SdkTypes, InStep, ReadIntern
    PROVE  InStep'
<1>0. UNCHANGED <<agent, history>> /\ pc = "emit" /\ sent # None /\ sent.op = "intern"
  BY DEF ReadIntern
<1>1. PICK r \in Incoming :
         /\ Reply(r)
         /\ IF Accepted(r)
            THEN cache' = [p \in DOMAIN cache \cup {sent.body} |->
                               IF p = sent.body THEN r.id ELSE cache[p]] /\ pc' = pc
            ELSE cache' = cache /\ pc' = "ready"
  BY DEF ReadIntern
<1>2. Answers(r) /\ sent' = None /\ requests' = <<>> /\ replies' = <<>>
  BY <1>0, <1>1, ReplyInStep
<1>3. FinishedTrue'
  BY <1>0 DEF InStep, FinishedTrue, history
<1>4. CASE ~Accepted(r)
  BY <1>0, <1>1, <1>2, <1>3, <1>4, ReadsInStep DEF agent, history
<1>5. CASE Accepted(r)
  <2>1. /\ r.id \in 1..Len(dict[sent.body[1]])
        /\ dict[sent.body[1]][r.id] = sent.body[2]
    BY <1>0, <1>2, <1>5 DEF Answers, Accepted
  <2>2. \A p \in DOMAIN cache' :
           cache'[p] \in 1..Len(dict[p[1]]) /\ dict[p[1]][cache'[p]] = p[2]
    BY <1>1, <1>5, <2>1 DEF InStep, CacheTrue
  <2>3. CacheTrue'
    BY <1>0, <2>2 DEF CacheTrue, agent
  <2>4. JournalTrue' /\ Ledger'
    BY <1>0 DEF InStep, JournalTrue, Ledger, Reads, Alive, agent, history
  <2>5. Exchange' /\ SentTrue'
    BY <1>2 DEF Exchange, SentTrue
  <2>6. Remains'
    BY <1>2, EmptySeq DEF Remains
  <2>. QED BY <1>3, <2>3, <2>4, <2>5, <2>6 DEF InStep
<1>. QED BY <1>4, <1>5

\* emit returns the number its event has in the journal.
LEMMA AppendInStep ==
    ASSUME SdkTypes, InStep, ReadAppend
    PROVE  InStep'
<1>0. /\ UNCHANGED <<cache, agent, late, finished>> /\ pc = "emit" /\ pc' = "ready"
      /\ sent # None /\ sent.op = "append"
  BY DEF ReadAppend
<1>1. PICK r \in Incoming :
         Reply(r) /\ acked' = IF Accepted(r) THEN acked \cup {<<r.id, args>>} ELSE acked
  BY DEF ReadAppend
<1>2. Answers(r) /\ sent' = None /\ requests' = <<>> /\ replies' = <<>>
  BY <1>0, <1>1, ReplyInStep
<1>3. ~finished
  BY <1>0 DEF InStep, FinishedTrue
<1>4. FinishedTrue'
  BY <1>0, <1>3 DEF FinishedTrue
<1>5. CASE ~Accepted(r)
  BY <1>0, <1>1, <1>2, <1>4, <1>5, ReadsInStep DEF agent
<1>6. CASE Accepted(r)
  <2>1. /\ r.id >= 1
        /\ Alive => r.id <= Len(journal)
        /\ r.id <= Len(journal) => journal[r.id].of = args
    BY <1>0, <1>2, <1>6 DEF Answers, Accepted
  <2>2. \A x \in acked' : x \in acked \/ x = <<r.id, args>>
    BY <1>1
  <2>3. \A x \in acked' : /\ x[1] >= 1
                          /\ Alive => x[1] <= Len(journal)
                          /\ x[1] <= Len(journal) => journal[x[1]].of = x[2]
    BY <2>1, <2>2 DEF InStep, Ledger
  <2>4. Ledger'
    BY <1>0, <2>3 DEF Ledger, Alive, agent
  <2>5. CacheTrue' /\ JournalTrue'
    BY <1>0 DEF InStep, CacheTrue, JournalTrue, Reads, agent
  <2>6. Exchange' /\ SentTrue'
    BY <1>2 DEF Exchange, SentTrue
  <2>7. Remains'
    BY <1>2, EmptySeq DEF Remains
  <2>. QED BY <1>4, <2>4, <2>5, <2>6, <2>7 DEF InStep
<1>. QED BY <1>5, <1>6

\* The agent ends, by itself or stopped, and the journal is cut.
LEMMA CutInStep ==
    ASSUME SdkTypes, InStep, process' # "running",
           UNCHANGED journal \/ journal' = SubSeq(journal, 1, durable)
    PROVE  /\ Len(journal') <= Len(journal) /\ Len(journal') \in Nat /\ Len(journal) \in Nat
           /\ \A i \in 1..Len(journal') : journal'[i] = journal[i]
<1>1. AgentTypes
  BY DEF SdkTypes
<1>2. Len(journal) \in Nat
  BY <1>1, LenProperties DEF AgentTypes
<1>. QED BY <1>1, <1>2, CutJournal

LEMMA EndInStep ==
    ASSUME SdkTypes, InStep, process' # "running",
           UNCHANGED journal \/ journal' = SubSeq(journal, 1, durable),
           UNCHANGED <<cache, dict, durable, acked>>
    PROVE  CacheTrue' /\ JournalTrue' /\ Ledger'
<1>1. /\ Len(journal') <= Len(journal) /\ Len(journal') \in Nat /\ Len(journal) \in Nat
      /\ \A i \in 1..Len(journal') : journal'[i] = journal[i]
  BY CutInStep
<1>2. CacheTrue'
  BY DEF InStep, CacheTrue
<1>3. JournalTrue'
  <2>1. \A i \in 1..Len(journal') : Reads(dict, journal'[i])
    BY <1>1 DEF InStep, JournalTrue
  <2>. QED BY <2>1 DEF JournalTrue, Reads
<1>4. Ledger'
  <2>1. \A x \in acked : x[1] \in Nat
    BY DEF SdkTypes, HistoryTypes
  <2>2. \A x \in acked : x[1] <= Len(journal') => journal'[x[1]].of = x[2]
    BY <1>1, <2>1 DEF InStep, Ledger
  <2>. QED BY <2>2 DEF InStep, Ledger, Alive
<1>. QED BY <1>2, <1>3, <1>4

LEMMA StopInStep ==
    ASSUME SdkTypes, InStep, Abort \/ CloseEnd
    PROVE  InStep'
<1>0. /\ stop_agent /\ Discarded /\ pc' \in {"failed", "closed"}
      /\ UNCHANGED <<sent, cache, channel, dict, durable, history>>
      /\ pc = "abort" \/ (pc = "stop" /\ pc' = "closed")
  BY DEF Abort, CloseEnd
<1>1. CacheTrue' /\ JournalTrue' /\ Ledger'
  <2>1. CASE process' # "running"
    BY <1>0, <2>1, StopTypes, EndInStep DEF history
  <2>2. CASE process' = "running"
    BY <1>0, <2>2, StopTypes, SteadyKeeps DEF history
  <2>. QED BY <2>1, <2>2
<1>2. SentTrue'
  BY <1>0 DEF InStep, SentTrue, Reads
<1>3. FinishedTrue'
  BY <1>0 DEF InStep, FinishedTrue, history
<1>. QED BY <1>0, <1>1, <1>2, <1>3 DEF InStep, Exchange, Remains

LEMMA ExitInStep ==
    ASSUME SdkTypes, InStep, AgentExits
    PROVE  InStep'
<1>0. /\ process' = "exited" /\ requests' = <<>> /\ journal' = SubSeq(journal, 1, durable)
      /\ UNCHANGED <<client, replies, dict, durable, history>>
  BY DEF AgentExits
<1>1. CacheTrue' /\ JournalTrue' /\ Ledger'
  BY <1>0, EndInStep DEF client, history
<1>2. ~Alive'
  BY <1>0 DEF Alive
<1>3. ASSUME Len(replies) = 1, Answers(replies[1])
      PROVE  Answers(replies[1])'
  <2>1. /\ Len(journal') <= Len(journal) /\ Len(journal') \in Nat /\ Len(journal) \in Nat
        /\ \A i \in 1..Len(journal') : journal'[i] = journal[i]
    BY <1>0, CutInStep
  <2>2. replies[1] \in Replies
    <3>1. replies \in Seq(Replies) /\ 1 \in 1..Len(replies)
      BY <1>3 DEF SdkTypes, AgentTypes
    <3>. QED BY <3>1, ElementOfSeq
  <2>3. replies[1].id \in Nat
    BY <2>2 DEF Replies
  <2>4. /\ replies'[1] = replies[1] /\ UNCHANGED <<sent, args, acked>>
    BY <1>0 DEF client, history
  <2>5. /\ replies[1].op = sent.op
        /\ replies[1].ok /\ sent.op = "intern" =>
              /\ replies[1].id \in 1..Len(dict'[sent.body[1]])
              /\ dict'[sent.body[1]][replies[1].id] = sent.body[2]
        /\ replies[1].ok /\ sent.op = "finish" => \A x \in acked : x[1] <= durable'
    BY <1>0, <1>3 DEF Answers
  <2>6. replies[1].ok /\ sent.op = "append" =>
           /\ replies[1].id >= 1
           /\ replies[1].id <= Len(journal') => journal'[replies[1].id].of = args
    BY <1>3, <2>1, <2>3 DEF Answers
  <2>. QED BY <1>2, <2>4, <2>5, <2>6 DEF Answers
<1>4. Exchange'
  <2> SUFFICES ASSUME pc \notin {"abort", "failed", "stop", "closed"} PROVE Exchange'
    BY <1>0 DEF Exchange, client
  <2>1. CASE sent = None /\ requests = <<>> /\ replies = <<>>
    BY <1>0, <2>1 DEF Exchange, client
  <2>2. CASE sent # None /\ replies = <<>>
    BY <1>0, <1>2, <2>2 DEF Exchange, client
  <2>3. CASE sent # None /\ Len(replies) = 1 /\ Answers(replies[1])
    BY <1>0, <1>3, <2>3 DEF Exchange, client
  <2>. QED BY <2>1, <2>2, <2>3 DEF InStep, Exchange
<1>5. SentTrue'
  BY <1>0 DEF InStep, SentTrue, Reads, client
<1>6. FinishedTrue'
  BY <1>0 DEF InStep, FinishedTrue, client, history
<1>7. Remains'
  BY <1>0, EmptySeq DEF Remains
<1>. QED BY <1>1, <1>4, <1>5, <1>6, <1>7 DEF InStep

\* Serving a command keeps what earlier ids and numbers stand for.
LEMMA ServeKeeps ==
    ASSUME SdkTypes, InStep, AgentServes, NEW c \in Commands, NEW r \in Replies, Effect(c, r),
           c.op = "append" => Reads(dict, c.body)
    PROVE  /\ CacheTrue' /\ SentTrue' /\ JournalTrue' /\ Ledger'
           /\ \A x \in acked : x[1] <= Len(journal)
           /\ durable <= durable'
<1>0. /\ Alive /\ UNCHANGED <<client, process, history>>
      /\ dict \in [Kinds -> Seq(Strings)]
      /\ journal \in Seq(Records) /\ Len(journal) \in Nat /\ durable \in 0..Len(journal)
  BY Served, LenProperties DEF SdkTypes, AgentTypes
<1>1. dict' \in [Kinds -> Seq(Strings)] /\ Grown(dict, dict')
  <2>1. CASE UNCHANGED dict
    BY <1>0, <2>1, LenProperties DEF Grown
  <2>. QED BY <2>1 DEF Effect
<1>2. CacheTrue'
  <2> SUFFICES ASSUME NEW p \in DOMAIN cache
               PROVE  cache[p] \in 1..Len(dict'[p[1]]) /\ dict'[p[1]][cache[p]] = p[2]
    BY <1>0 DEF CacheTrue, client
  <2>1. p[1] \in Kinds
    BY DEF SdkTypes, ClientTypes
  <2>2. cache[p] \in 1..Len(dict[p[1]]) /\ dict[p[1]][cache[p]] = p[2]
    BY DEF InStep, CacheTrue
  <2>3. Len(dict[p[1]]) \in Nat /\ Len(dict'[p[1]]) \in Nat
    BY <1>0, <1>1, <2>1, LenProperties
  <2>. QED BY <1>1, <2>1, <2>2, <2>3 DEF Grown
<1>3. SentTrue'
  <2>1. sent # None /\ sent.op = "append" => sent.body \in Records
    BY CommandProps DEF SdkTypes, ClientTypes
  <2>2. sent # None /\ sent.op = "append" => Reads(dict', sent.body)
    BY <1>0, <1>1, <2>1, ReadsGrown DEF InStep, SentTrue
  <2>. QED BY <1>0, <2>2 DEF SentTrue, client
<1>4. \A i \in 1..Len(journal) : Reads(dict', journal[i])
  BY <1>0, <1>1, ReadsGrown, ElementOfSeq DEF InStep, JournalTrue
<1>5. \A x \in acked : x[1] \in Nat /\ x[1] >= 1 /\ x[1] <= Len(journal) /\ journal[x[1]].of = x[2]
  BY <1>0 DEF InStep, Ledger, SdkTypes, HistoryTypes
<1>6. CASE UNCHANGED journal
  <2>1. JournalTrue'
    BY <1>4, <1>6 DEF JournalTrue
  <2>2. Ledger'
    BY <1>0, <1>5, <1>6 DEF Ledger, history
  <2>3. durable <= durable'
    BY <1>0, <1>6 DEF Effect
  <2>. QED BY <1>2, <1>3, <1>5, <2>1, <2>2, <2>3
<1>7. CASE c.op = "append" /\ journal' = Append(journal, c.body) /\ UNCHANGED <<dict, durable>>
  <2>1. c.body \in Records
    BY <1>7, CommandProps
  <2>2. /\ Len(journal') = Len(journal) + 1 /\ journal'[Len(journal) + 1] = c.body
        /\ \A i \in 1..Len(journal) : journal'[i] = journal[i]
    BY <1>0, <1>7, <2>1, AppendProperties
  <2>3. JournalTrue'
    <3>1. \A i \in 1..Len(journal') : i \in 1..Len(journal) \/ i = Len(journal) + 1
      BY <1>0, <2>2
    <3>2. \A i \in 1..Len(journal') : Reads(dict', journal'[i])
      BY <1>4, <1>7, <2>2, <3>1
    <3>. QED BY <3>2 DEF JournalTrue
  <2>4. Ledger'
    BY <1>0, <1>5, <2>2 DEF Ledger, history
  <2>. QED BY <1>0, <1>2, <1>3, <1>5, <1>7, <2>3, <2>4
<1>. QED BY <1>6, <1>7 DEF Effect

LEMMA ServeInStep ==
    ASSUME SdkTypes, InStep, AgentServes
    PROVE  InStep'
<1> DEFINE c == Head(requests)
<1>0. /\ requests # <<>> /\ c \in Commands /\ Alive /\ pc \notin {"closed", "failed"}
      /\ UNCHANGED <<client, process, history>> /\ requests' = Tail(requests)
  BY Served
<1>1. PICK r \in Replies : r.op = c.op /\ replies' = Append(replies, r) /\ Effect(c, r)
  BY Served
<1>2. requests \in Seq(Commands) /\ replies \in Seq(Replies) /\ c = requests[1]
      /\ Len(requests) \in Nat /\ Len(requests) >= 1
  BY <1>0 DEF SdkTypes, AgentTypes
<1> HIDE DEF c
<1>3. CASE pc \in {"abort", "stop"}
  <2>1. c.op \in {"hello", "opening", "finish"}
    BY <1>2, <1>3 DEF InStep, Remains
  <2>2. /\ CacheTrue' /\ SentTrue' /\ JournalTrue' /\ Ledger'
        /\ \A x \in acked : x[1] <= Len(journal)
        /\ durable <= durable'
    BY <1>0, <1>1, <2>1, ServeKeeps
  <2>3. Remains'
    <3>1. \A i \in 1..Len(requests') : requests'[i] = requests[i + 1] /\ i + 1 \in 1..Len(requests)
      BY <1>0, <1>2, HeadTailProperties
    <3>. QED BY <1>3, <3>1 DEF InStep, Remains
  <2>4. FinishedTrue'
    <3>1. durable \in Nat /\ durable' \in Nat /\ \A x \in acked : x[1] \in Nat
      BY ServeTypes, LenProperties DEF SdkTypes, AgentTypes, HistoryTypes
    <3>. QED BY <1>0, <2>2, <3>1 DEF InStep, FinishedTrue, client, history
  <2>. QED BY <1>0, <1>3, <2>2, <2>3, <2>4 DEF InStep, Exchange, client
<1>4. CASE pc \notin {"abort", "stop"}
  <2>1. sent # None /\ requests = <<sent>> /\ replies = <<>>
    BY <1>0, <1>4 DEF InStep, Exchange
  <2>2. c = sent /\ requests' = <<>>
    BY <1>0, <1>2, <2>1
  <2>3. c.op = "append" => Reads(dict, c.body)
    BY <2>1, <2>2 DEF InStep, SentTrue
  <2>4. /\ CacheTrue' /\ SentTrue' /\ JournalTrue' /\ Ledger'
        /\ \A x \in acked : x[1] <= Len(journal)
    BY <1>0, <1>1, <2>3, ServeKeeps
  <2>5. replies' = <<r>> /\ Len(replies') = 1 /\ replies'[1] = r
    BY <1>1, <2>1
  <2>6. Answers(r)'
    <3>1. c.op = "append" => c.body.of = args /\ c.body \in Records
      BY <2>1, <2>2, <1>0, CommandProps DEF SdkTypes, Turn
    <3>2. journal \in Seq(Records) /\ Len(journal) \in Nat
      BY LenProperties DEF SdkTypes, AgentTypes
    <3>3. c.op = "append" => Len(Append(journal, c.body)) = Len(journal) + 1
                             /\ Append(journal, c.body)[Len(journal) + 1] = c.body
      BY <3>1, <3>2, AppendProperties
    <3>4. r.ok /\ c.op = "intern" => /\ r.id \in 1..Len(dict'[c.body[1]])
                                     /\ dict'[c.body[1]][r.id] = c.body[2]
      BY <1>1 DEF Effect
    <3>5. r.ok /\ c.op = "append" => /\ r.id >= 1 /\ r.id <= Len(journal')
                                     /\ journal'[r.id].of = args
      BY <1>1, <3>1, <3>2, <3>3 DEF Effect
    <3>6. r.ok /\ c.op = "finish" => \A x \in acked : x[1] <= durable'
      BY <1>1, <2>4 DEF Effect
    <3>. QED BY <1>0, <1>1, <2>2, <3>4, <3>5, <3>6 DEF Answers, client, history
  <2>7. Exchange'
    BY <1>0, <2>1, <2>2, <2>5, <2>6 DEF Exchange, client
  <2>8. FinishedTrue'
    BY <1>0, <1>4 DEF InStep, FinishedTrue, client, history
  <2>9. Remains'
    BY <1>0, <1>4 DEF Remains, client
  <2>. QED BY <2>4, <2>7, <2>8, <2>9 DEF InStep
<1>. QED BY <1>3, <1>4

\* Every step keeps client and agent in step, as long as no reply is given up on.
LEMMA InStepStep ==
    ASSUME SdkInv, [Next]_vars, ~late'
    PROVE  InStep'
<1> USE DEF client, agent, history
<1>0. SdkTypes /\ SdkTypes' /\ Turn
  BY TypesStep DEF SdkInv, SdkTypes
<1>1. CASE OpenNoOp \/ OpenRefused \/ StartFails \/ Connect \/ EmitStart
  <2>1. ~late /\ pc \in {"idle", "connect", "ready"} /\ sent = None
    BY <1>0, <1>1 DEF OpenNoOp, OpenRefused, StartFails, MayStart, Connect, EmitStart, Turn
  <2>2. pc' \in {"noop", "failed", "hello", "emit"}
        /\ UNCHANGED <<sent, cache, channel, process, dict, journal, durable, acked, finished>>
    BY <1>1 DEF OpenNoOp, OpenRefused, StartFails, Connect, EmitStart
  <2>. QED BY <1>0, <2>1, <2>2, MovesInStep DEF SdkInv
<1>2. CASE start_agent
  <2>1. ~late /\ pc = "idle" /\ sent = None /\ pc' = "connect"
        /\ UNCHANGED <<sent, cache, channel, dict, journal, durable, history>>
    BY <1>0, <1>2 DEF start_agent, MayStart, Turn
  <2>2. InStep /\ acked = {}
    BY <1>0, <2>1 DEF SdkInv, SdkTypes, Early
  <2>3. CacheTrue' /\ JournalTrue' /\ Ledger' /\ SentTrue'
    BY <2>1, <2>2 DEF InStep, CacheTrue, JournalTrue, Ledger, SentTrue, Reads
  <2>4. Exchange' /\ Remains' /\ FinishedTrue'
    BY <2>1, <2>2, QuietChannel DEF InStep, Exchange, Remains, FinishedTrue, channel
  <2>. QED BY <2>3, <2>4 DEF InStep
<1>3. CASE SendHandshake \/ SendFinish
  <2>1. PICK op \in {"hello", "opening", "finish"} : pc = op /\ Send(Cmd(op, None))
    BY <1>3 DEF SendHandshake, SendFinish
  <2>2. ~late /\ sent = None /\ UNCHANGED <<pc, cache, agent, history>>
    BY <1>3 DEF SendHandshake, SendFinish
  <2>3. Cmd(op, None) \in Commands /\ Cmd(op, None).op # "append"
    BY <2>1, CommandProps DEF Cmd
  <2>4. InStep
    BY <2>2 DEF SdkInv
  <2>. QED BY <1>0, <2>1, <2>2, <2>3, <2>4, SendInStep
<1>4. CASE ReadHandshake
  <2>1. PICK r \in Incoming : Reply(r)
    BY <1>4 DEF ReadHandshake
  <2>2. ~late /\ pc \in {"hello", "opening"} /\ sent # None /\ UNCHANGED <<cache, agent, history>>
    BY <1>4 DEF ReadHandshake
  <2>3. InStep
    BY <2>2 DEF SdkInv
  <2>4. sent' = None /\ requests' = <<>> /\ replies' = <<>>
    BY <1>0, <2>1, <2>2, <2>3, ReplyInStep
  <2>5. FinishedTrue'
    BY <2>2, <2>3 DEF InStep, FinishedTrue
  <2>. QED BY <1>0, <2>2, <2>3, <2>4, <2>5, ReadsInStep
<1>5. CASE HandshakeRaises \/ FinishRaises
  <2>1. /\ ~late /\ pc \in {"hello", "opening", "finish"} /\ pc' \in {"abort", "stop"} /\ sent' = None
        /\ UNCHANGED <<cache, channel, agent, history>>
    BY <1>5 DEF HandshakeRaises, FinishRaises
  <2>2. InStep
    BY <2>1 DEF SdkInv
  <2>3. requests = <<>> \/ (requests = <<sent>> /\ sent # None)
    BY <2>1, <2>2 DEF InStep, Exchange
  <2>4. Remains'
    <3>1. CASE requests = <<>>
      BY <2>1, <3>1, EmptySeq DEF Remains, channel
    <3>2. CASE requests = <<sent>> /\ sent # None
      <4>1. sent.op \in {"hello", "opening", "finish"}
        BY <1>0, <2>1, <3>2 DEF Turn
      <4>2. Len(requests) = 1 /\ requests[1] = sent
        BY <3>2
      <4>3. \A i \in 1..Len(requests) : requests[i].op \in {"hello", "opening", "finish"}
        BY <4>1, <4>2
      <4>. QED BY <2>1, <4>3 DEF Remains, channel
    <3>. QED BY <2>3, <3>1, <3>2
  <2>5. CacheTrue' /\ JournalTrue' /\ Ledger'
    BY <2>1, <2>2, SteadyKeeps
  <2>6. Exchange' /\ SentTrue' /\ FinishedTrue'
    BY <2>1, <2>2 DEF InStep, Exchange, SentTrue, FinishedTrue
  <2>. QED BY <2>4, <2>5, <2>6 DEF InStep
<1>6. CASE Abort \/ CloseEnd
  <2>1. ~late
    BY <1>6 DEF Abort, CloseEnd
  <2>. QED BY <1>0, <1>6, <2>1, StopInStep DEF SdkInv
<1>7. CASE SendIntern
  <2> DEFINE want == Wanted(args)[First(Missing(args))]
  <2>1. ~late /\ pc = "emit" /\ sent = None /\ Send(Cmd("intern", want)) /\ Missing(args) # {}
        /\ UNCHANGED <<pc, cache, agent, history>>
    BY <1>7 DEF SendIntern
  <2>2. First(Missing(args)) \in 1..Len(Wanted(args)) /\ args \in EmitArgs
    BY <1>0, <2>1, FirstProps DEF Missing, SdkTypes, ClientTypes
  <2>3. want \in Kinds \X Strings
    BY <2>2, WantedProps, ElementOfSeq
  <2> HIDE DEF want
  <2>4. Cmd("intern", want) \in Commands /\ Cmd("intern", want).op # "append"
    BY <2>3, CommandProps DEF Cmd
  <2>5. InStep
    BY <2>1 DEF SdkInv
  <2>. QED BY <1>0, <2>1, <2>4, <2>5, SendInStep
<1>8. CASE SendAppend
  <2> DEFINE rec == [ids |-> Ids(args), of |-> args]
  <2>1. ~late /\ pc = "emit" /\ sent = None /\ Send(Cmd("append", rec)) /\ Missing(args) = {}
        /\ UNCHANGED <<pc, cache, agent, history>>
    BY <1>8 DEF SendAppend
  <2>2. args \in EmitArgs /\ ClientTypes
    BY <1>0, <2>1 DEF SdkTypes, ClientTypes
  <2>3. rec \in Records /\ Len(rec.ids) = Len(Wanted(args)) /\ rec.of = args
    BY <2>1, <2>2, IdsType
  <2>4. InStep
    BY <2>1 DEF SdkInv
  <2>5. \A i \in 1..Len(Wanted(args)) :
           LET want == Wanted(args)[i] IN
           rec.ids[i] = cache[want] /\ rec.ids[i] \in 1..Len(dict[want[1]])
           /\ dict[want[1]][rec.ids[i]] = want[2]
    BY <2>1, <2>4 DEF Ids, Missing, InStep, CacheTrue
  <2> HIDE DEF rec
  <2>6. Reads(dict, rec)
    BY <2>3, <2>5 DEF Reads
  <2>7. Cmd("append", rec) \in Commands /\ Cmd("append", rec).body = rec
    BY <2>3, CommandProps DEF Cmd
  <2>. QED BY <1>0, <2>1, <2>4, <2>6, <2>7, SendInStep
<1>9. CASE ReadIntern
  <2>1. ~late
    BY <1>9 DEF ReadIntern
  <2>. QED BY <1>0, <1>9, <2>1, InternInStep DEF SdkInv
<1>10. CASE ReadAppend
  <2>1. ~late
    BY <1>10 DEF ReadAppend
  <2>. QED BY <1>0, <1>10, <2>1, AppendInStep DEF SdkInv
<1>11. CASE EmitRaises
  <2>1. /\ ~late /\ pc = "emit" /\ pc' = "ready" /\ sent' = None
        /\ UNCHANGED <<cache, channel, agent, acked, finished>>
        /\ sent # None => replies = <<>> /\ ~Alive
    BY <1>0, <1>11 DEF EmitRaises, NoReply, BrokenPipe, SdkTypes, HistoryTypes
  <2>2. InStep
    BY <2>1 DEF SdkInv
  <2>3. requests = <<>> /\ replies = <<>>
    BY <2>1, <2>2, EmptySeq DEF InStep, Exchange
  <2>4. FinishedTrue'
    BY <2>1, <2>2 DEF InStep, FinishedTrue
  <2>. QED BY <1>0, <2>1, <2>2, <2>3, <2>4, ReadsInStep DEF channel
<1>12. CASE ReadFinish
  <2>1. PICK r \in Incoming : Reply(r) /\ finished' = r.ok
    BY <1>12 DEF ReadFinish
  <2>2. /\ ~late /\ pc = "finish" /\ pc' = "stop" /\ sent # None
        /\ UNCHANGED <<cache, agent, acked>>
    BY <1>12 DEF ReadFinish
  <2>3. InStep
    BY <2>2 DEF SdkInv
  <2>4. Answers(r) /\ sent' = None /\ requests' = <<>> /\ replies' = <<>>
    BY <1>0, <2>1, <2>2, <2>3, ReplyInStep
  <2>5. FinishedTrue'
    BY <1>0, <2>1, <2>2, <2>4 DEF FinishedTrue, Answers, Turn
  <2>. QED BY <1>0, <2>2, <2>3, <2>4, <2>5, ReadsInStep
<1>13. CASE CloseStart
  <2>1. ~late /\ pc = "ready" /\ pc' = "finish" /\ sent = None
        /\ UNCHANGED <<sent, cache, channel, agent, history>>
    BY <1>0, <1>13 DEF CloseStart, Turn
  <2>. QED BY <1>0, <2>1, MovesInStep DEF SdkInv
<1>14. CASE AgentBinds
  <2>1. /\ ~late /\ process = "starting"
        /\ UNCHANGED <<client, channel, dict, journal, durable, history>>
    BY <1>14 DEF AgentBinds
  <2>2. InStep /\ pc \in {"idle", "noop", "connect", "failed"} /\ acked = {} /\ sent = None
    BY <1>0, <2>1 DEF SdkInv, SdkTypes, Early, Turn
  <2>3. CacheTrue' /\ JournalTrue' /\ Ledger' /\ SentTrue'
    BY <2>1, <2>2 DEF InStep, CacheTrue, JournalTrue, Ledger, SentTrue, Reads
  <2>4. Exchange' /\ Remains' /\ FinishedTrue'
    BY <2>1, <2>2 DEF InStep, Exchange, Remains, FinishedTrue, channel
  <2>. QED BY <2>3, <2>4 DEF InStep
<1>15. CASE AgentExits
  <2>1. ~late
    BY <1>15 DEF AgentExits
  <2>. QED BY <1>0, <1>15, <2>1, ExitInStep DEF SdkInv
<1>16. CASE AgentServes
  <2>1. ~late
    BY <1>0, <1>16, Served
  <2>. QED BY <1>0, <1>16, <2>1, ServeInStep DEF SdkInv
<1>17. CASE UNCHANGED vars
  <2>1. InStep /\ ~late
    BY <1>17 DEF SdkInv, vars
  <2>2. CacheTrue' /\ JournalTrue' /\ Ledger'
    BY <1>17, <2>1, SteadyKeeps DEF vars
  <2>3. Exchange' /\ Remains' /\ SentTrue' /\ FinishedTrue'
    BY <1>17, <2>1
       DEF vars, channel, InStep, Exchange, Remains, SentTrue, FinishedTrue, Answers, Alive, Reads
  <2>. QED BY <2>2, <2>3 DEF InStep
<1>. QED BY <1>1, <1>2, <1>3, <1>4, <1>5, <1>6, <1>7, <1>8, <1>9, <1>10, <1>11, <1>12, <1>13,
            <1>14, <1>15, <1>16, <1>17 DEF Next, ClientStep

-----------------------------------------------------------------------------
(* What the agent records *)

\* The invariant of an SDK session (client.py): the types and the place of each
\* exchange always; as long as no reply was given up on, one command at a time,
\* and ids, journal and acknowledged numbers that mean what was emitted.
THEOREM SdkInvariant == Spec => []SdkInv
<1>1. Init => SdkInv
  <2> SUFFICES ASSUME Init PROVE SdkInv
    OBVIOUS
  <2>1. SdkTypes
    BY InitTypes
  <2>2. Exchange /\ Remains /\ CacheTrue /\ SentTrue /\ Ledger /\ FinishedTrue
    BY DEF Init, Exchange, Remains, CacheTrue, SentTrue, Ledger, FinishedTrue
  <2>3. JournalTrue
    BY EmptySeq DEF Init, JournalTrue
  <2>. QED BY <2>1, <2>2, <2>3 DEF SdkInv, InStep
<1>2. SdkInv /\ [Next]_vars => SdkInv'
  BY TypesStep, InStepStep DEF SdkInv
<1>. QED BY <1>1, <1>2, PTL DEF Spec

LEMMA InvNames == SdkInv => NamesMatch
<1> SUFFICES ASSUME SdkInv, ~late, NEW n \in DOMAIN journal
             PROVE  Decoded(journal[n]) = Wanted(journal[n].of)
  BY DEF NamesMatch, NamesRecorded
<1> DEFINE e == journal[n]
           w == Wanted(e.of)
<1>1. journal \in Seq(Records) /\ n \in 1..Len(journal)
  BY LenProperties DEF SdkInv, SdkTypes, AgentTypes
<1>2. e \in Records /\ Reads(dict, e)
  BY <1>1, ElementOfSeq DEF SdkInv, InStep, JournalTrue
<1>3. e.ids \in Seq(Nat) /\ e.of \in EmitArgs
  BY <1>2 DEF Records
<1>4. w \in Seq(Kinds \X Strings)
  BY <1>3, WantedProps
<1>5. Len(e.ids) = Len(w) /\ DOMAIN e.ids = 1..Len(w) /\ DOMAIN w = 1..Len(w)
  BY <1>2, <1>3, <1>4, LenProperties DEF Reads
<1>6. w = [i \in 1..Len(w) |-> w[i]]
  BY <1>4, LenProperties
<1>7. ASSUME NEW i \in 1..Len(w)
      PROVE  Decoded(e)[i] = w[i] /\ i \in DOMAIN Decoded(e)
  <2>1. w[i] \in Kinds \X Strings
    BY <1>4, ElementOfSeq
  <2>2. Refs(e)[i] = <<w[i][1], e.ids[i]>>
    BY <1>5 DEF Refs
  <2>3. Decoded(e)[i] = <<w[i][1], dict[w[i][1]][e.ids[i]]>> /\ i \in DOMAIN Decoded(e)
    BY <1>5, <2>2 DEF Decoded
  <2>4. dict[w[i][1]][e.ids[i]] = w[i][2]
    BY <1>2, <1>5 DEF Reads
  <2>. QED BY <2>1, <2>3, <2>4
<1>8. Decoded(e) = [i \in 1..Len(w) |-> Decoded(e)[i]]
  BY <1>5 DEF Decoded
<1> HIDE DEF e, w
<1>9. Decoded(e) = w
  BY <1>6, <1>7, <1>8
<1>. QED BY <1>9 DEF e, w

\* client.py, emit and _intern, with dtj-agent: what the agent recorded for an
\* emit decodes to the strings that emit was given, for any sequence of calls,
\* refusals and ends of the agent, as long as no reply was given up on.
THEOREM NamesAreRecorded == Spec => []NamesMatch
BY SdkInvariant, InvNames, PTL

\* client.py, emit and close: the number emit returns is the place of its event
\* in the journal, and a close that read FinishSessionOk stops the agent after
\* all of those events are in the file.
THEOREM AcknowledgedAreThere == Spec => []AckedAreThere
<1>1. SdkInv => AckedAreThere
  BY DEF SdkInv, InStep, Ledger, FinishedTrue, AckedAreThere
<1>. QED BY <1>1, SdkInvariant, PTL
=============================================================================
