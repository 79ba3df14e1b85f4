----------------------------- MODULE SdkClient -----------------------------
(***************************************************************************)
(* The Python SDK (packages/dtj-python/src/dtj_sdk): TraceSession.open     *)
(* finds or starts an agent, connects, shakes hands and opens a session;   *)
(* emit interns the strings it has no id for, one exchange each, and then  *)
(* appends the event; close finishes the session and stops the agent it    *)
(* started.  Every read of a reply gives up after 5 seconds, and a reply   *)
(* that arrives later stays in the socket.                                 *)
(*                                                                         *)
(* The agent is external: a process that answers commands one at a time in *)
(* order, as slowly as it likes, and may die.  DtjAgent models it in full. *)
(***************************************************************************)
EXTENDS Naturals, Sequences, FiniteSets, Functions

CONSTANTS
    None,           \* no argument, no command
    Options,        \* arguments of TraceSession.open, see OptionsType
    EmitArgs,       \* arguments of emit, see Wanted
    LongNames,      \* strings over the 1024 bytes encode_intern accepts
    BadValues,      \* values encode_value refuses
    MaxEmits        \* bound on the calls of emit

OptionsType ==
    [enabled : BOOLEAN,
     config : {"none", "found", "missing"},     \* missing: explicit, no such file
     data_dir : BOOLEAN,                        \* given explicitly
     socket_path : BOOLEAN,                     \* an agent that runs already
     agent : {"found", "none", "bad_path"}]     \* bad_path: explicit, not executable

ASSUME SdkAssumption ==
    /\ Options \subseteq OptionsType
    /\ MaxEmits \in Nat

Kinds == {"domain", "category", "event_name", "string"}

\* The strings emit interns, in its order; a correlation is optional, and
\* only a str value is interned.
Interned(kind, str) == IF str = None \/ str \in BadValues THEN <<>> ELSE << <<kind, str>> >>
Wanted(a) ==
    Interned("domain", a.domain) \o Interned("category", a.category)
    \o Interned("event_name", a.name) \o Interned("string", a.correlation)
    \o Interned("string", a.field_name) \o Interned("string", a.value)

\* The command frames: an append carries ids, and (for the properties) the
\* arguments of the emit that sends it.
Strings == UNION {{Wanted(a)[i][2] : i \in DOMAIN Wanted(a)} : a \in EmitArgs}
Records == [ids : Seq(Nat), of : EmitArgs]
Commands ==
    [op : {"hello", "opening", "finish"}, body : {None}]
    \cup [op : {"intern"}, body : Kinds \X Strings]
    \cup [op : {"append"}, body : Records]

ASSUME NoneAssumption == None \notin Commands

VARIABLES
    opts,       \* the arguments of open
    pc,         \* where the calling thread is
    args,       \* the arguments of the emit in progress
    sent,       \* the command whose reply the thread waits for
    cache,      \* the id caches: <<kind, string>> to id
    requests,   \* frames on their way to the agent
    replies,    \* frames on their way to the client
    process,    \* the agent: none, starting, running, exited, stopped (by the SDK)
    flag,       \* how it was started: None, data_dir or config
    dict,       \* the agent's dictionary: per kind, the strings in order of id
    journal,    \* the events the agent recorded: ids, and the emit they are of
    durable,    \* how many of them are in the file
    acked,      \* history: sequence numbers emit returned, with its arguments
    late,       \* history: a reply was given up on in this session
    lost,       \* history: open gave up on connecting
    finished,   \* history: close read a FinishSessionOk
    emits       \* calls of emit so far

client == <<opts, pc, args, sent, cache>>
channel == <<requests, replies>>
agent == <<process, flag, dict, journal, durable>>
history == <<acked, late, lost, finished, emits>>
vars == <<client, channel, agent, history>>

Resting == {"idle", "noop", "failed", "ready", "closed"}
Alive == process = "running"

Init ==
    /\ opts \in Options
    /\ pc = "idle" /\ args = None /\ sent = None /\ cache = <<>>
    /\ requests = <<>> /\ replies = <<>>
    /\ process = IF opts.socket_path THEN "running" ELSE "none"
    /\ flag = None /\ dict = [k \in Kinds |-> <<>>] /\ journal = <<>> /\ durable = 0
    /\ acked = {} /\ late = FALSE /\ lost = FALSE /\ finished = FALSE /\ emits = 0

-----------------------------------------------------------------------------
(* TraceSession.open *)

\* AgentDiscovery.find_agent: an explicit path must be executable; otherwise
\* the places are tried in turn, and there may be no agent in any of them.
find_agent == IF opts.agent = "bad_path" THEN "raise" ELSE opts.agent

\* find_config_path, and the choice of storage location: an explicit data_dir
\* wins over a config file, ./traces is the fallback.
StartFlag == IF opts.config = "found" /\ ~opts.data_dir THEN "config" ELSE "data_dir"

\* Tracing is disabled, or there is no agent: a NoOpTraceSession, whose emit
\* and close do nothing.
OpenNoOp ==
    /\ pc = "idle"
    /\ \/ ~opts.enabled
       \/ opts.config # "missing" /\ ~opts.socket_path /\ find_agent = "none"
    /\ pc' = "noop"
    /\ UNCHANGED <<opts, args, sent, cache, channel, agent, history>>

\* An explicit config_path or agent_path that is not there is an error.
OpenRefused ==
    /\ pc = "idle" /\ opts.enabled
    /\ \/ opts.config = "missing"
       \/ ~opts.socket_path /\ find_agent = "raise"
    /\ pc' = "failed"
    /\ UNCHANGED <<opts, args, sent, cache, channel, agent, history>>

MayStart == pc = "idle" /\ opts.enabled /\ opts.config # "missing"

\* start_agent: nothing to start when there is a socket path; otherwise the
\* process is spawned, and binds its socket some time later.
start_agent ==
    /\ MayStart
    /\ \/ opts.socket_path /\ UNCHANGED <<process, flag>>
       \/ /\ ~opts.socket_path /\ find_agent = "found"
          /\ process' = "starting" /\ flag' = StartFlag
    /\ pc' = "connect"
    /\ UNCHANGED <<opts, args, sent, cache, channel, dict, journal, durable, history>>

\* mkdir or Popen fails; the socket directory is removed.
StartFails ==
    /\ MayStart /\ ~opts.socket_path /\ find_agent = "found"
    /\ pc' = "failed"
    /\ UNCHANGED <<opts, args, sent, cache, channel, agent, history>>

\* _connect_with_retry: tries until the agent listens or 5 seconds are over.
\* The exception leaves open without passing the handler that stops the agent.
Connect ==
    /\ pc = "connect"
    /\ \/ Alive /\ pc' = "hello" /\ lost' = lost
       \/ pc' = "failed" /\ lost' = TRUE
    /\ UNCHANGED <<opts, args, sent, cache, channel, agent, acked, late, finished, emits>>

-----------------------------------------------------------------------------
(* Exchanges.  A frame carries its opcode and what the code tells apart.   *)

Cmd(op, body) == [op |-> op, body |-> body]
Resp(op, ok, id) == [op |-> op, ok |-> ok, id |-> id]

\* sendall: to a connection that is down it raises, see Raise.
Send(cmd) ==
    /\ Alive
    /\ requests' = Append(requests, cmd)
    /\ sent' = cmd
    /\ UNCHANGED replies

\* _read_frame and the opcode checks behind it: the first frame in the socket
\* is the reply, whichever command it answers.
Incoming == IF replies = <<>> THEN {} ELSE {Head(replies)}
Reply(r) == /\ replies' = Tail(replies)
            /\ sent' = None
            /\ UNCHANGED requests
Accepted(r) == r.ok /\ r.op = sent.op

\* What raises out of an exchange: the 5 second timeout of recv, or the end
\* of the connection.
NoReply == replies = <<>> /\ sent # None
BrokenPipe == ~Alive /\ sent = None

-----------------------------------------------------------------------------

\* The handshake of open: Hello, then OpenSession.
SendHandshake ==
    /\ pc \in {"hello", "opening"} /\ sent = None
    /\ Send(Cmd(pc, None))
    /\ UNCHANGED <<opts, pc, args, cache, agent, history>>

ReadHandshake ==
    /\ pc \in {"hello", "opening"} /\ sent # None
    /\ \E r \in Incoming :
        /\ Reply(r)
        /\ pc' = IF ~Accepted(r) THEN "abort"
                 ELSE IF pc = "hello" THEN "opening" ELSE "ready"
    /\ UNCHANGED <<opts, args, cache, agent, history>>

\* Any exception after connecting, a timeout included, goes to the handler;
\* encode_open_session refuses a producer name or version that is too long.
HandshakeRaises ==
    /\ pc \in {"hello", "opening"}
    /\ \/ NoReply \/ BrokenPipe
       \/ pc = "opening" /\ sent = None
    /\ pc' = "abort" /\ sent' = None
    /\ UNCHANGED <<opts, args, cache, channel, agent, history>>

\* stop_agent: terminate, and kill after 5 seconds; an agent that was only
\* connected to is left alone.  The socket is closed as well.
stop_agent ==
    process' = IF process \in {"starting", "running"} /\ ~opts.socket_path
               THEN "stopped" ELSE process

\* What the stopped agent had not written is gone.
Discarded ==
    journal' = IF process' = "stopped" THEN SubSeq(journal, 1, durable) ELSE journal

\* Mutant of Abort: the agent is left running.
AbortKeepsAgent ==
    /\ pc = "abort"
    /\ pc' = "failed"
    /\ UNCHANGED <<opts, args, sent, cache, channel, agent, history>>

Abort ==
    /\ pc = "abort"
    /\ stop_agent /\ Discarded
    /\ pc' = "failed"
    /\ UNCHANGED <<opts, args, sent, cache, channel, flag, dict, durable, history>>

-----------------------------------------------------------------------------
(* emit *)

\* The strings of Wanted the caches do not hold, by position.
Missing(a) == {i \in 1..Len(Wanted(a)) : Wanted(a)[i] \notin DOMAIN cache}
First(S) == CHOOSE i \in S : \A j \in S : i <= j

\* Mutant of Ids: the last two ids change places.
IdsSwapped(a) ==
    LET n == Len(Wanted(a))
        at(i) == IF i = n THEN n - 1 ELSE IF i = n - 1 THEN n ELSE i
    IN [i \in 1..n |-> cache[Wanted(a)[at(i)]]]

Ids(a) == [i \in 1..Len(Wanted(a)) |-> cache[Wanted(a)[i]]]

\* The session is open and the severity is known; other calls raise at once.
EmitStart ==
    /\ pc = "ready" /\ emits < MaxEmits
    /\ args' \in EmitArgs
    /\ pc' = "emit" /\ emits' = emits + 1
    /\ UNCHANGED <<opts, sent, cache, channel, agent, acked, late, lost, finished>>

\* _intern of the first string without an id.
SendIntern ==
    /\ pc = "emit" /\ sent = None /\ Missing(args) # {}
    /\ LET want == Wanted(args)[First(Missing(args))] IN
        /\ want[2] \notin LongNames
        /\ Send(Cmd("intern", want))
    /\ UNCHANGED <<opts, pc, args, cache, agent, history>>

\* encode_append_event and its sendall; encode_value is called before it.
SendAppend ==
    /\ pc = "emit" /\ sent = None /\ Missing(args) = {}
    /\ args.value \notin BadValues
    /\ Send(Cmd("append", [ids |-> Ids(args), of |-> args]))
    /\ UNCHANGED <<opts, pc, args, cache, agent, history>>

\* The rest of _intern: the id is cached under the string that was asked for.
ReadIntern ==
    /\ pc = "emit" /\ sent # None /\ sent.op = "intern"
    /\ \E r \in Incoming :
        /\ Reply(r)
        /\ IF Accepted(r)
           THEN cache' = [p \in DOMAIN cache \cup {sent.body} |->
                              IF p = sent.body THEN r.id ELSE cache[p]] /\ pc' = pc
           ELSE cache' = cache /\ pc' = "ready"
    /\ UNCHANGED <<opts, args, agent, history>>

\* Mutant of ReadAppend: emit returns the number the next event will get.
ReadAppendNext ==
    /\ pc = "emit" /\ sent # None /\ sent.op = "append"
    /\ \E r \in Incoming :
        /\ Reply(r)
        /\ acked' = IF Accepted(r) THEN acked \cup {<<r.id + 1, args>>} ELSE acked
    /\ pc' = "ready"
    /\ UNCHANGED <<opts, args, cache, agent, late, lost, finished, emits>>

\* The rest of emit: it returns the sequence number, or raises.
ReadAppend ==
    /\ pc = "emit" /\ sent # None /\ sent.op = "append"
    /\ \E r \in Incoming :
        /\ Reply(r)
        /\ acked' = IF Accepted(r) THEN acked \cup {<<r.id, args>>} ELSE acked
    /\ pc' = "ready"
    /\ UNCHANGED <<opts, args, cache, agent, late, lost, finished, emits>>

\* Mutant of EmitRaises: there is no receive timeout.
EmitRaisesNoTimeout ==
    /\ pc = "emit"
    /\ ~Alive /\ (NoReply \/ BrokenPipe)
    /\ pc' = "ready" /\ sent' = None
    /\ UNCHANGED <<opts, args, cache, channel, agent, history>>

\* A string too long, a value that cannot be encoded, a timeout, or a broken
\* connection raises out of emit.  The session stays usable.
EmitRaises ==
    /\ pc = "emit"
    /\ \/ NoReply /\ late' = (late \/ Alive)
       \/ BrokenPipe /\ UNCHANGED late
       \/ /\ sent = None /\ UNCHANGED late
          /\ IF Missing(args) # {}
             THEN Wanted(args)[First(Missing(args))][2] \in LongNames
             ELSE args.value \in BadValues
    /\ pc' = "ready" /\ sent' = None
    /\ UNCHANGED <<opts, args, cache, channel, agent, acked, lost, finished, emits>>

-----------------------------------------------------------------------------
(* close *)

CloseStart ==
    /\ pc = "ready"
    /\ pc' = "finish"
    /\ UNCHANGED <<opts, args, sent, cache, channel, agent, history>>

SendFinish ==
    /\ pc = "finish" /\ sent = None
    /\ Send(Cmd("finish", None))
    /\ UNCHANGED <<opts, pc, args, cache, agent, history>>

\* Any frame will do: an Error is ignored and the opcode is not compared.
ReadFinish ==
    /\ pc = "finish" /\ sent # None
    /\ \E r \in Incoming :
        /\ Reply(r)
        /\ finished' = r.ok
    /\ pc' = "stop"
    /\ UNCHANGED <<opts, args, cache, agent, acked, late, lost, emits>>

FinishRaises ==
    /\ pc = "finish"
    /\ NoReply \/ BrokenPipe
    /\ pc' = "stop" /\ sent' = None
    /\ UNCHANGED <<opts, args, cache, channel, agent, history>>

CloseEnd ==
    /\ pc = "stop"
    /\ stop_agent /\ Discarded
    /\ pc' = "closed"
    /\ UNCHANGED <<opts, args, sent, cache, channel, flag, dict, durable, history>>

-----------------------------------------------------------------------------
(* The agent, as the client sees it *)

AgentBinds ==
    /\ process = "starting" /\ process' = "running"
    /\ UNCHANGED <<client, channel, flag, dict, journal, durable, history>>

\* It may exit on its own at any time, and loses what it has not written.
AgentExits ==
    /\ process \in {"starting", "running"} /\ process' = "exited"
    /\ requests' = <<>>
    /\ journal' = SubSeq(journal, 1, durable)
    /\ UNCHANGED <<client, replies, flag, dict, durable, history>>

\* The kinds of the ids of an append command, and the strings they stand for.
Refs(e) == [i \in DOMAIN e.ids |-> <<Wanted(e.of)[i][1], e.ids[i]>>]
Known(ref) == ref[2] \in DOMAIN dict[ref[1]]
Decoded(e) == [i \in DOMAIN e.ids |-> <<Refs(e)[i][1], dict[Refs(e)[i][1]][e.ids[i]]>>]

AgentAnswers(r) == /\ requests' = Tail(requests) /\ replies' = Append(replies, r)
                   /\ UNCHANGED <<client, process, flag, history>>

\* Hello and OpenSession are refused or not.
ServeHandshake(c) ==
    /\ c.op \in {"hello", "opening"}
    /\ \E ok \in BOOLEAN : AgentAnswers(Resp(c.op, ok, 0))
    /\ UNCHANGED <<dict, journal, durable>>

\* Intern returns the id the string has, gives it the next one of its kind,
\* or is refused.
ServeIntern(c) ==
    /\ c.op = "intern"
    /\ LET kind == c.body[1]
           str == c.body[2]
       IN \/ /\ dict' = [dict EXCEPT ![kind] = IF str \in Range(@) THEN @ ELSE Append(@, str)]
             /\ \E i \in DOMAIN dict'[kind] :
                    dict'[kind][i] = str /\ AgentAnswers(Resp(c.op, TRUE, i))
          \/ UNCHANGED dict /\ AgentAnswers(Resp(c.op, FALSE, 0))
    /\ UNCHANGED <<journal, durable>>

\* AppendEvent records the event unless an id is unknown.
ServeAppend(c) ==
    /\ c.op = "append"
    /\ \E ok \in {\A ref \in Range(Refs(c.body)) : Known(ref)} :
        /\ journal' = IF ok THEN Append(journal, c.body) ELSE journal
        /\ AgentAnswers(Resp(c.op, ok, Len(journal')))
    /\ UNCHANGED <<dict, durable>>

ServeFinish(c) ==
    /\ c.op = "finish"
    /\ \E ok \in BOOLEAN : /\ durable' = IF ok THEN Len(journal) ELSE durable
                           /\ AgentAnswers(Resp(c.op, ok, 0))
    /\ UNCHANGED <<dict, journal>>

\* One command; the connection is open as long as the client is not done.
AgentServes ==
    /\ Alive /\ requests # <<>> /\ pc \notin {"closed", "failed"}
    /\ LET c == Head(requests) IN
       ServeHandshake(c) \/ ServeIntern(c) \/ ServeAppend(c) \/ ServeFinish(c)

-----------------------------------------------------------------------------

ClientStep ==
    \/ OpenNoOp \/ OpenRefused \/ start_agent \/ StartFails \/ Connect
    \/ SendHandshake \/ ReadHandshake \/ HandshakeRaises \/ Abort
    \/ SendIntern \/ SendAppend \/ ReadIntern \/ ReadAppend \/ EmitRaises
    \/ SendFinish \/ ReadFinish \/ FinishRaises \/ CloseEnd

Next ==
    \/ ClientStep \/ EmitStart \/ CloseStart
    \/ AgentBinds \/ AgentExits \/ AgentServes

\* A call runs to its end; the application need not make one, and the agent
\* need not answer.
Spec == Init /\ [][Next]_vars /\ WF_vars(ClientStep)

-----------------------------------------------------------------------------
(* Properties *)

\* What the agent recorded for an emit decodes to the strings that emit was
\* given, in every event, whatever was cached by whom before.
NamesRecorded == \A i \in DOMAIN journal : Decoded(journal[i]) = Wanted(journal[i].of)

\* The same as long as no reply was given up on.  (After a timeout the next
\* _intern takes the late reply for its own: see the run of MCStaleReply.cfg.)
NamesMatch == ~late => NamesRecorded

\* The number emit returns is the place of its own event in the journal, and
\* after a close that read FinishSessionOk all those events are in the file:
\* close stops the agent only after it has flushed.
AckedAreThere ==
    ~late =>
        \A x \in acked :
            LET n == x[1] IN
            /\ n <= Len(journal) => journal[n].of = x[2]
            /\ pc = "closed" /\ finished => n <= durable

\* An agent the SDK started does not outlive close, nor an open that failed
\* after connecting; an agent that was there before is never stopped.  (When
\* connecting fails the agent it started is left running.)
NoOrphan ==
    /\ pc \in {"closed", "failed"} /\ ~opts.socket_path /\ ~lost
        => process \notin {"starting", "running"}
    /\ opts.socket_path => process # "stopped"

\* open, emit and close return, whatever the agent does.
CallReturns == [](pc \notin Resting => <>(pc \in Resting))
=============================================================================
