--------------------------- MODULE DtjAgentProofs ---------------------------
(***************************************************************************)
(* dtj-agent, for every instance: the race for the socket path, for any    *)
(* number of agents; and, when no write is cut inside a chunk, that what   *)
(* it acknowledged is not lost and what it promised stays readable, but    *)
(* for the files an OpenSession that failed truncated under their writer.  *)
(***************************************************************************)
EXTENDS DtjAgent, JournalCoreProofs

-----------------------------------------------------------------------------
(* The socket path *)

Places == {"starting", "found", "checked", "cleared", "refused", "failed", "listening",
           "serving", "exiting", "exited", "killed"}

\* No agent has failed, was killed or has come to its exit.
Undisturbed == \A a \in Agents : proc[a] \notin {"failed", "killed", "exiting", "exited"}

\* An agent that finds the path empty is about to bind it, a stale socket is
\* still there only before the first removal, and an agent whose socket is at
\* the path is running.
RaceInv ==
    /\ proc \in [Agents -> Places]
    /\ path \in Agents \cup {"absent", "stale", "file"}
    /\ path \in Agents => proc[path] \in {"listening", "serving", "exiting"}
    /\ Undisturbed /\ path = "absent" =>
          (\A a \in Agents : proc[a] = "starting") \/ (\E a \in Agents : proc[a] = "cleared")
    /\ Undisturbed /\ path = "stale" =>
          \A a \in Agents : proc[a] \in {"starting", "found", "checked"}

LEMMA RaceStep ==
    ASSUME RaceInv, NEW a \in Agents, SocketStep(a)
    PROVE  RaceInv'
<1> USE DEF Places
<1>1. /\ proc \in [Agents -> Places] /\ path \in Agents \cup {"absent", "stale", "file"}
      /\ a \notin {"absent", "stale", "file"}
  BY AgentsAssumption DEF RaceInv
<1>2. Undisturbed' => Undisturbed
  <2>1. SUFFICES ASSUME NEW b \in Agents, proc[b] \in {"failed", "killed", "exiting", "exited"}
                 PROVE  proc'[b] \in {"failed", "killed", "exiting", "exited"}
    BY DEF Undisturbed
  <2>. QED BY <1>1, <2>1
           DEF SocketStep, Start, Check, Stat, Remove, Bind, StartFails, AcceptOne, Leave, Exit,
               KillAgent, Moves
<1>3. CASE Check(a)
  <2>1. /\ proc' \in [Agents -> Places] /\ proc[a] = "starting" /\ path' = path
        /\ proc'[a] = IF path = "absent" THEN "cleared" ELSE "found"
        /\ \A b \in Agents : b # a => proc'[b] = proc[b]
    BY <1>1, <1>3 DEF Check, Moves
  <2>. QED BY <1>1, <1>2, <2>1 DEF RaceInv
<1>4. CASE Stat(a)
  <2>1. /\ proc' \in [Agents -> Places] /\ proc[a] = "found" /\ path' = path
        /\ proc'[a] = IF path \in {"absent", "file"} THEN "refused" ELSE "checked"
        /\ \A b \in Agents : b # a => proc'[b] = proc[b]
    BY <1>1, <1>4 DEF Stat, Moves
  <2>. QED BY <1>1, <1>2, <2>1 DEF RaceInv
<1>5. CASE Remove(a)
  <2>1. /\ proc' \in [Agents -> Places] /\ proc[a] = "checked" /\ path' = "absent"
        /\ proc'[a] = IF path = "absent" THEN "refused" ELSE "cleared"
        /\ \A b \in Agents : b # a => proc'[b] = proc[b]
    BY <1>1, <1>5 DEF Remove, Moves
  <2>2. path' \notin Agents
    BY <2>1, AgentsAssumption
  <2>. QED BY <1>1, <1>2, <2>1, <2>2 DEF RaceInv
<1>6. CASE Bind(a)
  <2>1. CASE path = "absent"
    <3>1. /\ proc' \in [Agents -> Places] /\ path' = a /\ proc'[a] = "listening"
      BY <1>1, <1>6, <2>1 DEF Bind, Moves
    <3>. QED BY <1>1, <3>1 DEF RaceInv
  <2>2. CASE path # "absent"
    <3>1. /\ proc' \in [Agents -> Places] /\ proc[a] = "cleared" /\ path' = path
          /\ proc'[a] = "refused"
          /\ \A b \in Agents : b # a => proc'[b] = proc[b]
      BY <1>1, <1>6, <2>2 DEF Bind, Moves
    <3>. QED BY <1>1, <1>2, <2>2, <3>1 DEF RaceInv
  <2>. QED BY <2>1, <2>2
<1>7. CASE AcceptOne(a)
  <2>1. /\ proc' \in [Agents -> Places] /\ path' = path /\ path = a /\ proc'[a] = "serving"
    BY <1>1, <1>7 DEF AcceptOne, Moves
  <2>. QED BY <1>1, <2>1 DEF RaceInv
<1>8. CASE StartFails(a) \/ Leave(a) \/ Exit(a) \/ KillAgent(a)
  <2>1. /\ proc' \in [Agents -> Places]
        /\ proc'[a] \in {"failed", "exiting", "exited", "killed"}
        /\ \A b \in Agents : b # a => proc'[b] = proc[b]
    BY <1>1, <1>8 DEF StartFails, Leave, Exit, KillAgent, Moves
  <2>2. ~Undisturbed'
    BY <2>1 DEF Undisturbed
  <2>3. path' \in {path, "absent", "stale"}
    BY <1>8 DEF StartFails, Leave, Exit, KillAgent, Without
  <2>4. path' = a => proc'[a] = "exiting"
    <3>1. CASE StartFails(a)
      <4>1. proc[a] \in {"starting", "found", "checked", "cleared"} /\ path' = path
        BY <1>1, <3>1 DEF StartFails, Moves
      <4>. QED BY <1>1, <4>1 DEF RaceInv
    <3>2. CASE Leave(a)
      BY <1>1, <3>2 DEF Leave, Moves
    <3>3. CASE Exit(a) \/ KillAgent(a)
      BY <1>1, <3>3 DEF Exit, KillAgent, Without
    <3>. QED BY <1>8, <3>1, <3>2, <3>3
  <2>5. path' \in Agents => path' = path
    BY <2>3, AgentsAssumption
  <2>6. path' \in Agents => proc'[path'] \in {"listening", "serving", "exiting"}
    BY <2>1, <2>4, <2>5 DEF RaceInv
  <2>. QED BY <1>1, <2>1, <2>2, <2>3, <2>6 DEF RaceInv
<1>. QED BY <1>3, <1>4, <1>5, <1>6, <1>7, <1>8 DEF SocketStep, Start

\* main, for any number of agents on one path: check, removal and bind are
\* separate steps and each may remove the socket of another, yet the race for
\* the path leaves a running agent reachable there.
THEOREM StartRace == SocketSpec => []RaceHasWinner
<1>1. SocketInit => RaceInv
  <2>1. SUFFICES ASSUME SocketInit PROVE RaceInv
    OBVIOUS
  <2>2. proc \in [Agents -> Places] /\ \A a \in Agents : proc[a] = "starting"
    BY <2>1 DEF SocketInit, Places
  <2>. QED BY <2>1, <2>2, AgentsAssumption DEF SocketInit, RaceInv
<1>2. RaceInv /\ [\E a \in Agents : SocketStep(a)]_socketVars => RaceInv'
  BY RaceStep DEF socketVars, RaceInv, Undisturbed
<1>3. RaceInv => RaceHasWinner
  BY DEF RaceInv, RaceHasWinner, Undisturbed
<1>. QED BY <1>1, <1>2, <1>3, PTL DEF SocketSpec

\* A step that answers a frame, or is the client's, is not about the process.
LEMMA ServeKeepsProc ==
    ASSUME Serve \/ Disconnect \/ \E frame \in Frames : Send(frame)
    PROVE  UNCHANGED socketVars
<1>1. ASSUME Refuse PROVE UNCHANGED socketVars
  BY <1>1 DEF Refuse, procVars, socketVars
<1>2. CASE Hello
  BY <1>1, <1>2 DEF Hello, procVars, socketVars
<1>3. CASE OpenSession
  BY <1>1, <1>3 DEF OpenSession, procVars, socketVars
<1>4. CASE InternCmd
  BY <1>1, <1>4 DEF InternCmd, procVars, socketVars
<1>5. CASE AppendEventCmd
  BY <1>1, <1>5 DEF AppendEventCmd, procVars, socketVars
<1>6. CASE FinishSession
  BY <1>1, <1>6 DEF FinishSession, procVars, socketVars
<1>7. CASE FlushCmd
  BY <1>1, <1>7 DEF FlushCmd, procVars, socketVars
<1>8. CASE Ping \/ Unknown \/ TooLarge
  BY <1>1, <1>8 DEF Ping, Unknown, TooLarge, procVars, socketVars
<1>9. CASE Disconnect \/ \E frame \in Frames : Send(frame)
  BY <1>9 DEF Disconnect, Send, procVars, socketVars
<1>. QED BY <1>2, <1>3, <1>4, <1>5, <1>6, <1>7, <1>8, <1>9 DEF Serve

\* The agent that serves sessions takes and leaves the path as the others do:
\* with its client, its files and its failures it is one of their number.
THEOREM AgentTakesPath == Spec => SocketSpec
<1>1. Init => SocketInit
  BY DEF Init
<1>2. [Next]_vars => [\E a \in Agents : SocketStep(a)]_socketVars
  <2>1. CASE StartMe \/ EndConnection \/ ExitMe \/ Accept \/ Kill
    BY <2>1, AgentAssumption DEF StartMe, EndConnection, ExitMe, Accept, Kill, SocketStep
  <2>2. CASE Others
    BY <2>2 DEF Others
  <2>3. CASE Serve \/ Disconnect \/ \E frame \in Frames : Send(frame)
    BY <2>3, ServeKeepsProc
  <2>4. CASE UNCHANGED vars
    BY <2>4 DEF vars, procVars, socketVars
  <2>. QED BY <2>1, <2>2, <2>3, <2>4 DEF Next, AgentStep
<1>. QED BY <1>1, <1>2, PTL DEF Spec, SocketSpec

-----------------------------------------------------------------------------
(* One session: its writer w, the events S acknowledged in it and the      *)
(* events P promised of its file.                                          *)

\* All events a writer has recorded, sealed or pending.
RecordedBy(w) == EventsIn(Stream(w)) \cup RangeOf(w.pending_events)

Session(w, S, P) ==
    /\ w \in WriterStates
    /\ \E acc \in Seq(Events) : Numbered(acc) /\ WriterInv(w, acc) /\ S \subseteq RangeOf(acc)
    /\ P \subseteq EventsIn(w.disk)

\* The file a session leaves behind holds P.
Left(disk, P) == disk \in Seq(Cells) /\ P \subseteq EventsIn(disk)

\* Every event found in a prefix of a file is found in the file.
LEMMA EventsGrow ==
    ASSUME NEW c, NEW d, Pre(c, d)
    PROVE  EventsIn(c) \subseteq EventsIn(d)
<1>1. ASSUME NEW ev \in EventsIn(c) PROVE ev \in EventsIn(d)
  <2>1. PICK k \in CommittedSeqs(c) :
           ChunkAt(c, k).chunk_type = EventType /\ ev \in RangeOf(ChunkAt(c, k).payload)
    BY DEF EventsIn
  <2>2. k \in 1..Len(c) /\ \A j \in 1..k : WholeChunk(c, j)
    BY DEF CommittedSeqs
  <2>3. Len(c) \in Nat /\ Len(d) \in Nat /\ Len(c) <= Len(d)
    BY DEF Pre
  <2>4. k \in 1..Len(d) /\ k \in 1..k /\ k \in Nat \ {0}
    BY <2>2, <2>3
  <2>5. ASSUME NEW j \in 1..k PROVE WholeChunk(d, j)
    <3>1. WholeChunk(c, j)
      BY <2>2
    <3>2. 3 * j <= Len(c)
      BY <3>1 DEF WholeChunk
    <3>3. j \in Nat \ {0}
      BY <2>4
    <3>. QED BY <3>1, <3>2, <3>3, PreChunk
  <2>6. k \in CommittedSeqs(d)
    BY <2>4, <2>5 DEF CommittedSeqs
  <2>7. WholeChunk(c, k)
    BY <2>2, <2>4
  <2>8. 3 * k <= Len(c)
    BY <2>7 DEF WholeChunk
  <2>9. ChunkAt(c, k) = ChunkAt(d, k)
    BY <2>4, <2>8, PreChunk
  <2>. QED BY <2>1, <2>6, <2>9 DEF EventsIn
<1>. QED BY <1>1

\* A writer has recorded exactly its history.
LEMMA RecordedHistory ==
    ASSUME NEW w \in WriterStates, NEW acc, Numbered(acc), WriterInv(w, acc)
    PROVE  RecordedBy(w) = RangeOf(acc) /\ RangeOf(acc) \subseteq Events
<1>1. /\ EventsIn(Stream(w)) \subseteq RangeOf(acc)
      /\ RangeOf(w.pending_events) \subseteq RangeOf(acc)
      /\ \A n \in 1..Len(acc) : acc[n] \in EventsIn(Stream(w)) <=> n <= Sealed(w, acc)
      /\ \A n \in 1..Len(acc) : acc[n] \in RangeOf(w.pending_events) <=> Sealed(w, acc) < n
  BY WhereEventsAre
<1>2. acc \in Seq(Events) /\ Len(acc) \in Nat /\ Sealed(w, acc) \in Nat
  BY InvFacts DEF Numbered
<1>3. \A n \in 1..Len(acc) : n <= Sealed(w, acc) \/ Sealed(w, acc) < n
  BY <1>2
<1>4. \A x \in RangeOf(acc) : \E n \in 1..Len(acc) : x = acc[n]
  BY <1>2, RangeProps
<1>5. RangeOf(acc) \subseteq RecordedBy(w)
  BY <1>1, <1>3, <1>4 DEF RecordedBy
<1>6. RangeOf(acc) \subseteq Events
  BY <1>2, <1>4, RangeProps
<1>. QED BY <1>1, <1>5, <1>6 DEF RecordedBy

\* After a flush that succeeded the history is in the file.
LEMMA HistoryInFile ==
    ASSUME NEW w \in WriterStates, NEW acc, Numbered(acc), WriterInv(w, acc), AllWritten(w)
    PROVE  RangeOf(acc) \subseteq EventsIn(w.disk)
<1>1. FileInv(w.disk, acc, Len(acc))
  BY FileComplete
<1>2. w.disk \in Seq(Cells) /\ Len(w.disk) \in Nat /\ acc \in Seq(Events)
  BY FieldTypes, LenProperties DEF Numbered
<1>3. ChunksInOrder(w.disk) /\ \A n \in 1..Len(acc) : Written(w.disk, acc[n])
  BY <1>1 DEF FileInv, GoodCells
<1>4. \A x \in RangeOf(acc) : \E n \in 1..Len(acc) : x = acc[n]
  BY <1>2, RangeProps
<1>5. \A x \in RangeOf(acc) : Written(w.disk, x)
  BY <1>3, <1>4
<1>. QED BY <1>2, <1>3, <1>5, EventsRead

LEMMA SessionNew == Session(NewWriter, {}, {})
<1>1. NewWriter \in WriterStates /\ <<>> \in Seq(Events)
  BY NewWriterType, EmptySeq
<1>2. Numbered(<<>>) /\ WriterInv(NewWriter, <<>>)
  BY NewInv
<1>. QED BY <1>1, <1>2 DEF Session

LEMMA SessionKept ==
    ASSUME NEW w \in WriterStates, NEW v, NEW acc, Numbered(acc), Kept(v, w, acc),
           NEW S, S \subseteq RangeOf(acc), NEW P, P \subseteq EventsIn(w.disk)
    PROVE  Session(v, S, P) /\ Left(v.disk, P)
<1>1. v \in WriterStates /\ WriterInv(v, acc)
  BY DEF Kept
<1>2. Pre(w.disk, v.disk)
  BY KeptDisk
<1>3. P \subseteq EventsIn(v.disk)
  BY <1>2, EventsGrow
<1>4. v.disk \in Seq(Cells)
  BY <1>1, FieldTypes
<1>. QED BY <1>1, <1>3, <1>4 DEF Session, Left, Numbered

LEMMA SessionIntern ==
    ASSUME NEW w, NEW S, NEW P, Session(w, S, P), NEW kind \in Kinds, NEW name \in Names
    PROVE  Session(Intern(w, kind, name).w, S, P)
<1>1. PICK acc \in Seq(Events) : Numbered(acc) /\ WriterInv(w, acc) /\ S \subseteq RangeOf(acc)
  BY DEF Session
<1>2. w \in WriterStates /\ P \subseteq EventsIn(w.disk)
  BY DEF Session
<1>3. Intern(w, kind, name) \in Outcomes
  BY <1>2, InternType
<1>4. WriterInv(Intern(w, kind, name).w, acc) /\ Intern(w, kind, name).w.disk = w.disk
  BY <1>1, <1>2, InvIntern
<1>5. Intern(w, kind, name).w \in WriterStates
  BY <1>3 DEF Outcomes
<1>. QED BY <1>1, <1>2, <1>4, <1>5 DEF Session

LEMMA SessionFlush ==
    ASSUME ~PartialWrites, NEW w, NEW S, NEW P, Session(w, S, P), NEW canFail \in BOOLEAN,
           NEW o \in FlushChunk(w, canFail)
    PROVE  /\ Session(o.w, S, P)
           /\ o.ok => Session(o.w, S, RecordedBy(w))
<1>1. PICK acc \in Seq(Events) : Numbered(acc) /\ WriterInv(w, acc) /\ S \subseteq RangeOf(acc)
  BY DEF Session
<1>2. w \in WriterStates /\ P \subseteq EventsIn(w.disk)
  BY DEF Session
<1>3. Kept(o.w, w, acc) /\ (o.ok => AllWritten(o.w))
  BY <1>1, <1>2, KeptFlushChunk
<1>4. Session(o.w, S, P)
  BY <1>1, <1>2, <1>3, SessionKept
<1>5. ASSUME o.ok PROVE Session(o.w, S, RecordedBy(w))
  <2>1. o.w \in WriterStates /\ WriterInv(o.w, acc)
    BY <1>3 DEF Kept
  <2>2. RangeOf(acc) \subseteq EventsIn(o.w.disk)
    BY <1>1, <1>3, <1>5, <2>1, HistoryInFile
  <2>3. RecordedBy(w) = RangeOf(acc)
    BY <1>1, <1>2, RecordedHistory
  <2>. QED BY <1>1, <2>1, <2>2, <2>3 DEF Session
<1>. QED BY <1>4, <1>5

LEMMA SessionFinish ==
    ASSUME ~PartialWrites, NEW w, NEW S, NEW P, Session(w, S, P), NEW canFail \in BOOLEAN,
           NEW o \in Finish(w, canFail)
    PROVE  /\ Left(o.w.disk, P)
           /\ o.ok => Left(o.w.disk, RecordedBy(w))
<1>1. PICK acc \in Seq(Events) : Numbered(acc) /\ WriterInv(w, acc) /\ S \subseteq RangeOf(acc)
  BY DEF Session
<1>2. w \in WriterStates /\ P \subseteq EventsIn(w.disk)
  BY DEF Session
<1>3. /\ Kept(o.w, w, acc)
      /\ o.ok => \E p : Kept(p, w, acc) /\ AllWritten(p) /\ Kept(o.w, p, acc)
  BY <1>1, <1>2, KeptFinish
<1>4. Left(o.w.disk, P)
  BY <1>1, <1>2, <1>3, SessionKept
<1>5. ASSUME o.ok PROVE Left(o.w.disk, RecordedBy(w))
  <2>1. PICK p : Kept(p, w, acc) /\ AllWritten(p) /\ Kept(o.w, p, acc)
    BY <1>3, <1>5
  <2>2. p \in WriterStates /\ WriterInv(p, acc)
    BY <2>1 DEF Kept
  <2>3. RangeOf(acc) \subseteq EventsIn(p.disk)
    BY <1>1, <2>1, <2>2, HistoryInFile
  <2>4. RecordedBy(w) = RangeOf(acc)
    BY <1>1, <1>2, RecordedHistory
  <2>5. Left(o.w.disk, RangeOf(acc))
    BY <1>1, <2>1, <2>2, <2>3, SessionKept
  <2>. QED BY <2>4, <2>5
<1>. QED BY <1>4, <1>5

LEMMA SessionDrop ==
    ASSUME NEW w, NEW S, NEW P, Session(w, S, P), NEW canFail \in BOOLEAN,
           NEW d \in DropWriter(w, canFail)
    PROVE  Left(d.disk, P)
<1>1. PICK acc \in Seq(Events) : Numbered(acc) /\ WriterInv(w, acc) /\ S \subseteq RangeOf(acc)
  BY DEF Session
<1>2. w \in WriterStates /\ P \subseteq EventsIn(w.disk)
  BY DEF Session
<1>3. Kept(d, w, acc)
  BY <1>1, <1>2, KeptDrop
<1>. QED BY <1>1, <1>2, <1>3, SessionKept

LEMMA SessionCrash ==
    ASSUME ~PartialWrites, NEW w, NEW S, NEW P, Session(w, S, P), NEW image \in CrashImages(w)
    PROVE  Left(image, P)
<1>1. PICK acc \in Seq(Events) : Numbered(acc) /\ WriterInv(w, acc) /\ S \subseteq RangeOf(acc)
  BY DEF Session
<1>2. w \in WriterStates /\ P \subseteq EventsIn(w.disk)
  BY DEF Session
<1>3. Pre(w.disk, image)
  BY <1>1, <1>2, CrashKeeps
<1>. QED BY <1>2, <1>3, EventsGrow DEF Left, Pre

\* append_event: what it answers Ok for is recorded.
LEMMA SessionAppend ==
    ASSUME ~PartialWrites, NEW w, NEW S, NEW P, Session(w, S, P), NEW canFail \in BOOLEAN,
           NEW ev \in Events, NEW o \in AppendEvent(w, ev, canFail)
    PROVE  /\ Session(o.w, S, P)
           /\ o.ok => Session(o.w, S \cup {[ev EXCEPT !.event_sequence = o.val]}, P)
<1> DEFINE rec == [ev EXCEPT !.event_sequence = w.next_event_seq]
           v == Pushed(w, ev)
<1>1. PICK acc \in Seq(Events) : Numbered(acc) /\ WriterInv(w, acc) /\ S \subseteq RangeOf(acc)
  BY DEF Session
<1>2. w \in WriterStates /\ P \subseteq EventsIn(w.disk)
  BY DEF Session
<1>3. CASE o = Outcome(w, FALSE, 0)
  <2>1. o.w = w /\ ~o.ok
    BY <1>3 DEF Outcome
  <2>. QED BY <2>1
<1>4. CASE RefsResolve(w.dictionary, ev)
  <2> DEFINE grown == Append(acc, rec)
  <2>1. rec \in Events /\ rec.event_sequence = Len(acc) + 1 /\ WriterInv(v, grown)
    BY <1>1, <1>2, <1>4, InvPushed
  <2>2. v \in WriterStates
    BY <1>2, PushedType
  <2>3. Numbered(grown) /\ RangeOf(acc) \subseteq RangeOf(grown)
    BY <1>1, <2>1, GrownProps
  <2>4. grown \in Seq(Events) /\ grown[Len(acc) + 1] = rec /\ Len(acc) + 1 \in 1..Len(grown)
    BY <1>1, <2>1, <2>3, GrownProps DEF Numbered
  <2>5. v.disk = w.disk
    BY <1>2 DEF Pushed, WriterStates
  <2> HIDE DEF v, grown, rec
  <2>6. rec \in RangeOf(grown)
    <3>1. \A i \in 1..Len(grown) : grown[i] \in RangeOf(grown)
      BY <2>4, RangeProps
    <3>. QED BY <2>4, <3>1
  <2>7. S \subseteq RangeOf(grown) /\ S \cup {rec} \subseteq RangeOf(grown) /\ P \subseteq EventsIn(v.disk)
    BY <1>1, <1>2, <2>3, <2>5, <2>6
  <2>8. CASE o = Outcome(v, TRUE, w.next_event_seq)
    <3>1. o.w = v /\ o.val = w.next_event_seq
      BY <2>8 DEF Outcome
    <3>2. Session(v, S, P) /\ Session(v, S \cup {rec}, P)
      BY <2>1, <2>2, <2>3, <2>4, <2>7 DEF Session
    <3>. QED BY <3>1, <3>2 DEF rec
  <2>9. ASSUME NEW p \in FlushChunk(v, canFail), o = [p EXCEPT !.val = w.next_event_seq]
        PROVE  Session(o.w, S, P) /\ Session(o.w, S \cup {[ev EXCEPT !.event_sequence = o.val]}, P)
    <3>1. p \in Outcomes
      BY <2>2, FlushChunkType
    <3>2. o.w = p.w /\ o.val = w.next_event_seq
      BY <2>9, <3>1 DEF Outcomes
    <3>3. Kept(p.w, v, grown)
      BY <2>1, <2>2, <2>3, KeptFlushChunk
    <3>4. Session(p.w, S, P)
      BY <2>2, <2>3, <2>7, <3>3, SessionKept
    <3>5. Session(p.w, S \cup {rec}, P)
      BY <2>2, <2>3, <2>7, <3>3, SessionKept
    <3>. QED BY <3>2, <3>4, <3>5 DEF rec
  <2>. QED BY <1>4, <2>8, <2>9, AppendSteps DEF v
<1>. QED BY <1>3, <1>4, AppendSteps

-----------------------------------------------------------------------------
(* The open session.  Of a session whose file an OpenSession truncated     *)
(* under its writer nothing is known but the writer's type.                *)

Held(w, S, P) == w \in WriterStates /\ (current \in clobbered \/ Session(w, S, P))

Leaves(disk, P) == disk \in Seq(Cells) /\ (current \in clobbered \/ Left(disk, P))

LEMMA HeldIntern ==
    ASSUME NEW w, NEW S, NEW P, Held(w, S, P), NEW kind \in Kinds, NEW name \in Names
    PROVE  Held(Intern(w, kind, name).w, S, P)
<1>1. Intern(w, kind, name).w \in WriterStates
  BY InternType DEF Held, Outcomes
<1>. QED BY <1>1, SessionIntern DEF Held

LEMMA HeldFlush ==
    ASSUME ~PartialWrites, NEW w, NEW S, NEW P, Held(w, S, P), NEW canFail \in BOOLEAN,
           NEW o \in FlushChunk(w, canFail)
    PROVE  Held(o.w, S, P) /\ (o.ok => Held(o.w, S, RecordedBy(w)))
<1>1. o.w \in WriterStates
  BY FlushChunkType DEF Held, Outcomes
<1>. QED BY <1>1, SessionFlush DEF Held

LEMMA HeldFinish ==
    ASSUME ~PartialWrites, NEW w, NEW S, NEW P, Held(w, S, P), NEW canFail \in BOOLEAN,
           NEW o \in Finish(w, canFail)
    PROVE  Leaves(o.w.disk, P) /\ (o.ok => Leaves(o.w.disk, RecordedBy(w)))
<1>1. o.w \in WriterStates
  BY FinishType DEF Held, Outcomes
<1>2. o.w.disk \in Seq(Cells)
  BY <1>1, FieldTypes
<1>. QED BY <1>2, SessionFinish DEF Held, Leaves

LEMMA HeldDrop ==
    ASSUME NEW w, NEW S, NEW P, Held(w, S, P), NEW canFail \in BOOLEAN,
           NEW d \in DropWriter(w, canFail)
    PROVE  Leaves(d.disk, P)
<1>1. d.disk \in Seq(Cells)
  BY DropType, FieldTypes DEF Held
<1>. QED BY <1>1, SessionDrop DEF Held, Leaves

LEMMA HeldCrash ==
    ASSUME ~PartialWrites, NEW w, NEW S, NEW P, Held(w, S, P), NEW image \in CrashImages(w)
    PROVE  Leaves(image, P)
<1>1. image \in Seq(Cells)
  BY CrashType DEF Held
<1>. QED BY <1>1, SessionCrash DEF Held, Leaves

LEMMA HeldAppend ==
    ASSUME ~PartialWrites, NEW w, NEW S, NEW P, Held(w, S, P), NEW canFail \in BOOLEAN,
           NEW ev \in Events, NEW o \in AppendEvent(w, ev, canFail)
    PROVE  /\ o \in Outcomes
           /\ Held(o.w, S, P)
           /\ o.ok => Held(o.w, S \cup {[ev EXCEPT !.event_sequence = o.val]}, P)
<1>1. o \in Outcomes
  BY AppendType DEF Held
<1>2. o.w \in WriterStates
  BY <1>1 DEF Outcomes
<1>. QED BY <1>1, <1>2, SessionAppend DEF Held

-----------------------------------------------------------------------------
(* Files *)

\* Writing cells over a file from its start leaves them at its start.
LEMMA OverlayProps ==
    ASSUME NEW base \in Seq(Cells), NEW cells \in Seq(Cells)
    PROVE  Overlay(base, cells) \in Seq(Cells) /\ EventsIn(cells) \subseteq EventsIn(Overlay(base, cells))
<1> DEFINE tail == SubSeq(base, Len(cells) + 1, Len(base))
<1>1. Len(base) \in Nat /\ Len(cells) \in Nat
  BY LenProperties
<1>2. Len(cells) + 1 \in Int /\ Len(base) \in Int
  BY <1>1
<1>3. \A i \in (Len(cells) + 1)..Len(base) : i \in 1..Len(base)
  BY <1>1
<1>4. \A i \in 1..Len(base) : base[i] \in Cells
  BY ElementOfSeq
<1>5. tail \in Seq(Cells)
  BY <1>1, <1>2, <1>3, <1>4, SubSeqProperties
<1>6. Pre(cells, Overlay(base, cells))
  BY <1>5, PreJoin DEF Overlay
<1>. QED BY <1>6, EventsGrow DEF Pre

\* The cells of a hole are cells.
LEMMA ScrapType == Scrap \in Cells
<1>1. Chunk(DictType, 0, <<>>) \in Chunks
  BY EmptySeq DEF Chunk, Chunks, DictType
<1>. QED BY <1>1 DEF Scrap, Cells

-----------------------------------------------------------------------------
(* The agent *)

AgentTypes ==
    /\ live \in BOOLEAN
    /\ live => current \in FileNames
    /\ files \in [FileNames -> Seq(Cells)]
    /\ promised = [n \in FileNames |-> promised[n]]
    /\ inbox \in Frames \cup {None}

\* What is promised of a file is in it, the open session's and the files
\* truncated under their writer apart.
FilesKept ==
    \A n \in FileNames :
       (live /\ current = n) \/ n \in clobbered \/ promised[n] \subseteq EventsIn(files[n])

AgentInv ==
    /\ AgentTypes
    /\ live => Held(writer, acked, promised[current])
    /\ FilesKept

\* What a frame carries.
LEMMA FrameTypes ==
    ASSUME AgentInv, inbox # None
    PROVE  /\ inbox.op = "OpenSession" => inbox.name \in FileNames
           /\ inbox.op = "Intern" => inbox.in[1] \in Kinds /\ inbox.in[2] \in Names
           /\ inbox.op = "AppendEvent" => inbox.ev \in Events
<1>1. inbox \in Frames
  BY DEF AgentInv, AgentTypes
<1>2. CASE inbox \in [op : {"OpenSession"}, ok : BOOLEAN, name : FileNames]
  BY <1>2
<1>3. CASE inbox \in [op : {"Intern"}, ok : BOOLEAN, in : InternInputs]
  <2>1. inbox.in \in Kinds \X Names /\ inbox.op = "Intern"
    BY <1>3, AgentAssumption
  <2>. QED BY <2>1
<1>4. CASE inbox \in [op : {"AppendEvent"}, ok : BOOLEAN, ev : EventInputs]
  BY <1>4, AgentAssumption
<1>5. CASE inbox \in [op : {"FinishSession", "Ping", "Flush", "Unknown", "Empty", "TooLarge"}]
  BY <1>5
<1>6. CASE inbox \in [op : {"Hello"}, ok : BOOLEAN]
  BY <1>6
<1>. QED BY <1>1, <1>2, <1>3, <1>4, <1>5, <1>6 DEF Frames

\* A step that touches neither the session nor the files.
LEMMA AgentSame ==
    ASSUME AgentInv, UNCHANGED <<writer, live, current, files, acked, promised, clobbered>>,
           inbox' \in Frames \cup {None}
    PROVE  AgentInv'
BY DEF AgentInv, AgentTypes, FilesKept, Held, Session

LEMMA RefuseSame ==
    ASSUME AgentInv, Refuse
    PROVE  AgentInv'
BY AgentSame DEF Refuse, Answer, sessionVars, histVars

\* A step that goes on with the open session.
LEMMA AgentGoesOn ==
    ASSUME AgentInv, live, UNCHANGED <<live, current, files, clobbered>>, inbox' = None,
           NEW P, promised' = [promised EXCEPT ![current] = P],
           Held(writer', acked', P)
    PROVE  AgentInv'
<1>1. current \in FileNames /\ promised'[current] = P
  BY DEF AgentInv, AgentTypes
<1>2. promised' = [n \in FileNames |-> promised'[n]]
  BY DEF AgentInv, AgentTypes
<1>3. \A n \in FileNames : n # current => promised'[n] = promised[n]
  BY DEF AgentInv, AgentTypes
<1>4. AgentTypes'
  BY <1>2 DEF AgentInv, AgentTypes
<1>5. FilesKept'
  BY <1>3 DEF AgentInv, FilesKept
<1>6. Held(writer, acked, promised[current])'
  BY <1>1 DEF Held
<1>. QED BY <1>4, <1>5, <1>6 DEF AgentInv

LEMMA AgentGoesOnSame ==
    ASSUME AgentInv, live, UNCHANGED <<live, current, files, promised, clobbered>>, inbox' = None,
           Held(writer', acked', promised[current])
    PROVE  AgentInv'
<1>1. promised' = [promised EXCEPT ![current] = promised[current]]
  BY DEF AgentInv, AgentTypes
<1>. QED BY <1>1, AgentGoesOn

\* The writer is gone and has left its cells in its file.
LEMMA SettledKeeps ==
    ASSUME AgentInv, NEW disk, NEW P, live => Leaves(disk, P)
    PROVE  /\ Settled(disk) \in [FileNames -> Seq(Cells)]
           /\ \A n \in FileNames :
                 n \in clobbered \/ IF live /\ current = n THEN P \subseteq EventsIn(Settled(disk)[n])
                                    ELSE promised[n] \subseteq EventsIn(Settled(disk)[n])
<1>1. files \in [FileNames -> Seq(Cells)] /\ FilesKept
  BY DEF AgentInv, AgentTypes
<1>2. CASE ~live
  BY <1>1, <1>2 DEF Settled, FilesKept
<1>3. CASE live
  <2>1. current \in FileNames /\ disk \in Seq(Cells) /\ (current \in clobbered \/ P \subseteq EventsIn(disk))
    BY <1>3 DEF AgentInv, AgentTypes, Leaves, Left
  <2>2. /\ Overlay(files[current], disk) \in Seq(Cells)
        /\ current \in clobbered \/ P \subseteq EventsIn(Overlay(files[current], disk))
    BY <1>1, <2>1, OverlayProps
  <2>3. Settled(disk) = [files EXCEPT ![current] = Overlay(files[current], disk)]
    BY <1>3 DEF Settled
  <2>4. Settled(disk) \in [FileNames -> Seq(Cells)]
    BY <1>1, <2>1, <2>2, <2>3
  <2>5. Settled(disk)[current] = Overlay(files[current], disk)
    BY <1>1, <2>1, <2>3
  <2>6. \A n \in FileNames : n # current => Settled(disk)[n] = files[n]
    BY <1>1, <2>3
  <2>7. \A n \in FileNames : n # current => n \in clobbered \/ promised[n] \subseteq EventsIn(files[n])
    BY <1>1 DEF FilesKept
  <2>. QED BY <1>3, <2>2, <2>4, <2>5, <2>6, <2>7
<1>. QED BY <1>2, <1>3

\* A step after which no session is open.
LEMMA AgentSettles ==
    ASSUME AgentInv, NEW disk, files' = Settled(disk), live' = FALSE, clobbered' = clobbered,
           inbox' \in Frames \cup {None},
           \/ UNCHANGED promised /\ (live => Leaves(disk, promised[current]))
           \/ live /\ \E P : Leaves(disk, P) /\ promised' = [promised EXCEPT ![current] = P]
    PROVE  AgentInv'
<1>1. promised = [n \in FileNames |-> promised[n]] /\ (live => current \in FileNames)
  BY DEF AgentInv, AgentTypes
<1>2. CASE UNCHANGED promised /\ (live => Leaves(disk, promised[current]))
  <2>1. /\ Settled(disk) \in [FileNames -> Seq(Cells)]
        /\ \A n \in FileNames :
              n \in clobbered \/ IF live /\ current = n
                                 THEN promised[current] \subseteq EventsIn(Settled(disk)[n])
                                 ELSE promised[n] \subseteq EventsIn(Settled(disk)[n])
    BY <1>2, SettledKeeps
  <2>2. \A n \in FileNames : n \in clobbered' \/ promised'[n] \subseteq EventsIn(files'[n])
    BY <1>2, <2>1
  <2>. QED BY <1>1, <1>2, <2>1, <2>2 DEF AgentInv, AgentTypes, FilesKept
<1>3. ASSUME live, NEW P, Leaves(disk, P), promised' = [promised EXCEPT ![current] = P]
      PROVE  AgentInv'
  <2>1. /\ Settled(disk) \in [FileNames -> Seq(Cells)]
        /\ \A n \in FileNames :
              n \in clobbered \/ IF live /\ current = n THEN P \subseteq EventsIn(Settled(disk)[n])
                                 ELSE promised[n] \subseteq EventsIn(Settled(disk)[n])
    BY <1>3, SettledKeeps
  <2>2. promised' = [n \in FileNames |-> promised'[n]]
    BY <1>1, <1>3
  <2>3. \A n \in FileNames : promised'[n] = IF current = n THEN P ELSE promised[n]
    BY <1>1, <1>3
  <2>4. \A n \in FileNames : n \in clobbered' \/ promised'[n] \subseteq EventsIn(files'[n])
    BY <1>3, <2>1, <2>3
  <2>. QED BY <2>1, <2>2, <2>4 DEF AgentInv, AgentTypes, FilesKept
<1>. QED BY <1>2, <1>3

-----------------------------------------------------------------------------
(* Every step keeps the invariant. *)

LEMMA ProcKeeps ==
    ASSUME AgentInv, StartMe \/ ExitMe \/ Others \/ Accept \/ Disconnect
    PROVE  AgentInv'
<1>1. UNCHANGED <<writer, live, current, files, acked, promised, clobbered, inbox>>
  BY DEF StartMe, ExitMe, Others, Accept, Disconnect, connVars, sessionVars, histVars
<1>. QED BY <1>1, AgentSame DEF AgentInv, AgentTypes

LEMMA SendKeeps ==
    ASSUME AgentInv, NEW frame \in Frames, Send(frame)
    PROVE  AgentInv'
BY AgentSame DEF Send, sessionVars, histVars

LEMMA EndKeeps ==
    ASSUME AgentInv, EndConnection
    PROVE  AgentInv'
<1>1. PICK canFail \in BOOLEAN : \E w \in DropWriter(writer, canFail) : files' = Settled(w.disk)
  BY DEF EndConnection
<1>2. PICK w \in DropWriter(writer, canFail) : files' = Settled(w.disk)
  BY <1>1
<1>3. live => Leaves(w.disk, promised[current])
  BY <1>2, HeldDrop DEF AgentInv
<1>4. live' = FALSE /\ UNCHANGED <<promised, clobbered, inbox>>
  BY DEF EndConnection, connVars
<1>5. inbox' \in Frames \cup {None}
  BY <1>4 DEF AgentInv, AgentTypes
<1>. QED BY <1>2, <1>3, <1>4, <1>5, AgentSettles

LEMMA KillKeeps ==
    ASSUME ~PartialWrites, AgentInv, Kill
    PROVE  AgentInv'
<1>1. live' = FALSE /\ UNCHANGED <<promised, clobbered, inbox>>
  BY DEF Kill, connVars, histVars
<1>2. inbox' \in Frames \cup {None}
  BY <1>1 DEF AgentInv, AgentTypes
<1>3. CASE live
  <2>1. PICK image \in CrashImages(writer) : files' = Settled(image)
    BY <1>3 DEF Kill
  <2>2. Leaves(image, promised[current])
    BY <1>3, HeldCrash DEF AgentInv
  <2>. QED BY <1>1, <1>2, <2>1, <2>2, AgentSettles
<1>4. CASE ~live
  <2>1. files' = Settled(<<>>)
    BY <1>4 DEF Kill, Settled
  <2>. QED BY <1>1, <1>2, <1>4, <2>1, AgentSettles
<1>. QED BY <1>3, <1>4

LEMMA SmallKeeps ==
    ASSUME AgentInv, Hello \/ Ping \/ Unknown \/ TooLarge
    PROVE  AgentInv'
<1>1. CASE Refuse
  BY <1>1, RefuseSame
<1>2. CASE ~Refuse
  <2>1. UNCHANGED <<writer, live, current, files, acked, promised, clobbered>> /\ inbox' = None
    BY <1>2 DEF Hello, Ping, Unknown, TooLarge, Answer, sessionVars, histVars
  <2>. QED BY <2>1, AgentSame
<1>. QED BY <1>1, <1>2

LEMMA InternKeeps ==
    ASSUME AgentInv, InternCmd
    PROVE  AgentInv'
<1> DEFINE o == Intern(writer, inbox.in[1], inbox.in[2])
<1>1. CASE Refuse
  BY <1>1, RefuseSame
<1>2. CASE ~Refuse
  <2>1. /\ live /\ writer' = o.w /\ inbox' = None
        /\ UNCHANGED <<live, current, files, promised, clobbered, acked>>
    BY <1>2 DEF InternCmd, Answer, histVars
  <2>2. inbox.in[1] \in Kinds /\ inbox.in[2] \in Names
    BY FrameTypes DEF InternCmd, Serving
  <2>3. Held(writer, acked, promised[current])
    BY <2>1 DEF AgentInv
  <2>4. Held(o.w, acked, promised[current])
    BY <2>2, <2>3, HeldIntern
  <2> HIDE DEF o
  <2>. QED BY <2>1, <2>4, AgentGoesOnSame
<1>. QED BY <1>1, <1>2

LEMMA FlushKeeps ==
    ASSUME ~PartialWrites, AgentInv, FlushCmd
    PROVE  AgentInv'
<1>1. CASE Refuse
  BY <1>1, RefuseSame
<1>2. CASE ~Refuse
  <2>1. live /\ inbox' = None /\ UNCHANGED <<live, current, files, clobbered, acked>>
    BY <1>2 DEF FlushCmd, Answer
  <2>2. PICK canFail \in BOOLEAN : \E o \in FlushChunk(writer, canFail) :
           writer' = o.w /\ IF o.ok THEN Promise(writer) ELSE UNCHANGED promised
    BY <1>2 DEF FlushCmd
  <2>3. PICK o \in FlushChunk(writer, canFail) :
           writer' = o.w /\ IF o.ok THEN Promise(writer) ELSE UNCHANGED promised
    BY <2>2
  <2>4. Held(writer, acked, promised[current])
    BY <2>1 DEF AgentInv
  <2>5. /\ Held(o.w, acked, promised[current])
        /\ o.ok => Held(o.w, acked, RecordedBy(writer))
    BY <2>3, <2>4, HeldFlush
  <2>6. CASE o.ok
    <3>1. promised' = [promised EXCEPT ![current] = RecordedBy(writer)]
      BY <2>3, <2>6 DEF Promise, RecordedBy
    <3>. QED BY <2>1, <2>3, <2>5, <2>6, <3>1, AgentGoesOn
  <2>7. CASE ~o.ok
    BY <2>1, <2>3, <2>5, <2>7, AgentGoesOnSame
  <2>. QED BY <2>6, <2>7
<1>. QED BY <1>1, <1>2

LEMMA FinishKeeps ==
    ASSUME ~PartialWrites, AgentInv, FinishSession
    PROVE  AgentInv'
<1>1. CASE Refuse
  BY <1>1, RefuseSame
<1>2. CASE ~Refuse
  <2>1. live /\ inbox' = None /\ live' = FALSE /\ clobbered' = clobbered
    BY <1>2 DEF FinishSession, Answer
  <2>2. PICK canFail \in BOOLEAN : \E o \in Finish(writer, canFail) :
           /\ files' = Settled(o.w.disk)
           /\ IF o.ok THEN Promise(writer) ELSE UNCHANGED promised
    BY <1>2 DEF FinishSession
  <2>3. PICK o \in Finish(writer, canFail) :
           /\ files' = Settled(o.w.disk)
           /\ IF o.ok THEN Promise(writer) ELSE UNCHANGED promised
    BY <2>2
  <2>4. Held(writer, acked, promised[current])
    BY <2>1 DEF AgentInv
  <2>5. /\ Leaves(o.w.disk, promised[current])
        /\ o.ok => Leaves(o.w.disk, RecordedBy(writer))
    BY <2>3, <2>4, HeldFinish
  <2>6. CASE o.ok
    <3>1. promised' = [promised EXCEPT ![current] = RecordedBy(writer)]
      BY <2>3, <2>6 DEF Promise, RecordedBy
    <3>. QED BY <2>1, <2>3, <2>5, <2>6, <3>1, AgentSettles
  <2>7. CASE ~o.ok
    BY <2>1, <2>3, <2>5, <2>7, AgentSettles
  <2>. QED BY <2>6, <2>7
<1>. QED BY <1>1, <1>2

\* append_event, with the flush of flush_every_event after it.
LEMMA OutcomesKeep ==
    ASSUME ~PartialWrites, AgentInv, live, NEW ev \in Events, NEW canFail \in BOOLEAN,
           NEW o \in AppendOutcomes(ev, canFail)
    PROVE  /\ Held(o.w, acked, promised[current])
           /\ o.ok => Held(o.w, acked \cup {[ev EXCEPT !.event_sequence = o.val]}, promised[current])
<1>1. Held(writer, acked, promised[current])
  BY DEF AgentInv
<1>2. PICK a \in AppendEvent(writer, ev, canFail) :
         o \in IF a.ok /\ flush_every_event
               THEN {[a EXCEPT !.w = f.w] : f \in FlushChunk(a.w, canFail)} ELSE {a}
  BY DEF AppendOutcomes
<1>3. /\ a \in Outcomes /\ Held(a.w, acked, promised[current])
      /\ a.ok => Held(a.w, acked \cup {[ev EXCEPT !.event_sequence = a.val]}, promised[current])
  BY <1>1, HeldAppend
<1>4. CASE o = a
  BY <1>3, <1>4
<1>5. ASSUME a.ok, NEW f \in FlushChunk(a.w, canFail), o = [a EXCEPT !.w = f.w]
      PROVE  Held(o.w, acked \cup {[ev EXCEPT !.event_sequence = o.val]}, promised[current])
             /\ Held(o.w, acked, promised[current])
  <2>1. o.w = f.w /\ o.val = a.val
    BY <1>3, <1>5 DEF Outcomes
  <2>2. Held(f.w, acked, promised[current])
    BY <1>3, <1>5, HeldFlush
  <2>3. Held(f.w, acked \cup {[ev EXCEPT !.event_sequence = a.val]}, promised[current])
    BY <1>3, <1>5, HeldFlush
  <2>. QED BY <2>1, <2>2, <2>3
<1>. QED BY <1>2, <1>4, <1>5

LEMMA AppendKeeps ==
    ASSUME ~PartialWrites, AgentInv, AppendEventCmd
    PROVE  AgentInv'
<1>1. CASE Refuse
  BY <1>1, RefuseSame
<1>2. CASE ~Refuse
  <2>1. live /\ inbox' = None /\ UNCHANGED <<live, current, files, clobbered, promised>>
    BY <1>2 DEF AppendEventCmd, Answer
  <2>2. PICK canFail \in BOOLEAN : \E o \in AppendOutcomes(inbox.ev, canFail) :
           /\ writer' = o.w
           /\ acked' = IF o.ok /\ conn = "open"
                       THEN acked \cup {[inbox.ev EXCEPT !.event_sequence = o.val]} ELSE acked
    BY <1>2 DEF AppendEventCmd
  <2>3. PICK o \in AppendOutcomes(inbox.ev, canFail) :
           /\ writer' = o.w
           /\ acked' = IF o.ok /\ conn = "open"
                       THEN acked \cup {[inbox.ev EXCEPT !.event_sequence = o.val]} ELSE acked
    BY <2>2
  <2>4. inbox.ev \in Events
    BY FrameTypes DEF AppendEventCmd, Serving
  <2>5. /\ Held(o.w, acked, promised[current])
        /\ o.ok => Held(o.w, acked \cup {[inbox.ev EXCEPT !.event_sequence = o.val]}, promised[current])
    BY <2>1, <2>3, <2>4, OutcomesKeep
  <2>6. Held(writer', acked', promised[current])
    BY <2>3, <2>5
  <2>. QED BY <2>1, <2>6, AgentGoesOnSame
<1>. QED BY <1>1, <1>2

\* OpenSession truncates its file first, and every other file is kept.
LEMMA ReopenedKeeps ==
    ASSUME AgentInv, NEW m \in FileNames, NEW disk, live => Leaves(disk, promised[current])
    PROVE  /\ Reopened(m, disk) \in [FileNames -> Seq(Cells)]
           /\ \A n \in FileNames :
                 n # m => n \in clobbered \/ promised[n] \subseteq EventsIn(Reopened(m, disk)[n])
<1>1. files \in [FileNames -> Seq(Cells)] /\ FilesKept
  BY DEF AgentInv, AgentTypes
<1>2. CASE live /\ current = m
  <2> DEFINE kept == Len(writer.disk)
             holes == [i \in 1..Len(disk) |-> IF i <= kept THEN Scrap ELSE disk[i]]
             left == IF Len(disk) = kept THEN <<>> ELSE holes
  <2>1. disk \in Seq(Cells)
    BY <1>2 DEF Leaves
  <2>2. Len(disk) \in Nat /\ \A i \in 1..Len(disk) : disk[i] \in Cells
    BY <2>1, LenProperties, ElementOfSeq
  <2>3. holes \in [1..Len(disk) -> Cells]
    BY <2>2, ScrapType
  <2>4. holes \in Seq(Cells)
    BY <2>2, <2>3, SeqDef
  <2> HIDE DEF holes
  <2>5. left \in Seq(Cells)
    BY <2>4, EmptySeq
  <2>6. Reopened(m, disk) = [files EXCEPT ![m] = left]
    BY <1>2 DEF Reopened, holes
  <2> HIDE DEF left
  <2>7. Reopened(m, disk) \in [FileNames -> Seq(Cells)]
    BY <1>1, <2>5, <2>6
  <2>8. \A n \in FileNames : n # m => Reopened(m, disk)[n] = files[n]
    BY <1>1, <2>6
  <2>9. \A n \in FileNames : n # m => n \in clobbered \/ promised[n] \subseteq EventsIn(files[n])
    BY <1>1, <1>2 DEF FilesKept
  <2>. QED BY <2>7, <2>8, <2>9
<1>3. CASE ~(live /\ current = m)
  <2>1. /\ Settled(disk) \in [FileNames -> Seq(Cells)]
        /\ \A n \in FileNames :
              n \in clobbered \/ IF live /\ current = n
                                 THEN promised[current] \subseteq EventsIn(Settled(disk)[n])
                                 ELSE promised[n] \subseteq EventsIn(Settled(disk)[n])
    BY SettledKeeps
  <2>2. Reopened(m, disk) = [Settled(disk) EXCEPT ![m] = <<>>]
    BY <1>3 DEF Reopened
  <2>3. Reopened(m, disk) \in [FileNames -> Seq(Cells)]
    BY <2>1, <2>2, EmptySeq
  <2>4. \A n \in FileNames : n # m => Reopened(m, disk)[n] = Settled(disk)[n]
    BY <2>1, <2>2
  <2>5. \A n \in FileNames : n \in clobbered \/ promised[n] \subseteq EventsIn(Settled(disk)[n])
    BY <2>1
  <2>. QED BY <2>3, <2>4, <2>5
<1>. QED BY <1>2, <1>3

\* A session is opened, and the one that was open is dropped.
LEMMA OpenedKeeps ==
    ASSUME AgentInv, NEW m \in FileNames, NEW canFail \in BOOLEAN,
           NEW w \in IF live THEN DropWriter(writer, canFail) ELSE {writer},
           files' = Reopened(m, w.disk), writer' = NewWriter, live' = TRUE, current' = m,
           acked' = {}, promised' = [promised EXCEPT ![m] = {}],
           clobbered' = clobbered \ {m}, inbox' = None
    PROVE  AgentInv'
<1>1. live => Leaves(w.disk, promised[current])
  BY HeldDrop DEF AgentInv
<1>2. /\ files' \in [FileNames -> Seq(Cells)]
      /\ \A n \in FileNames : n # m => n \in clobbered \/ promised[n] \subseteq EventsIn(files'[n])
  BY <1>1, ReopenedKeeps
<1>3. promised = [n \in FileNames |-> promised[n]]
  BY DEF AgentInv, AgentTypes
<1>4. /\ promised' = [n \in FileNames |-> promised'[n]]
      /\ promised'[m] = {}
      /\ \A n \in FileNames : n # m => promised'[n] = promised[n]
  BY <1>3
<1>5. FilesKept'
  BY <1>2, <1>4 DEF FilesKept
<1>6. AgentTypes'
  BY <1>2, <1>4 DEF AgentTypes
<1>7. Held(writer, acked, promised[current])'
  BY <1>4, SessionNew, NewWriterType DEF Held
<1>. QED BY <1>5, <1>6, <1>7 DEF AgentInv

\* The header cannot be written: the file is truncated, under its writer when
\* it is the open session's.
LEMMA TruncatedKeeps ==
    ASSUME AgentInv, NEW m \in FileNames, files' = [files EXCEPT ![m] = <<>>],
           promised' = [promised EXCEPT ![m] = {}], UNCHANGED <<live, current, acked>>, inbox' = None,
           IF live /\ current = m
           THEN /\ writer' = [writer EXCEPT !.disk = [i \in DOMAIN writer.disk |-> Scrap]]
                /\ clobbered' = clobbered \cup {m}
           ELSE UNCHANGED writer /\ clobbered' = clobbered \ {m}
    PROVE  AgentInv'
<1>1. /\ files \in [FileNames -> Seq(Cells)] /\ FilesKept
      /\ promised = [n \in FileNames |-> promised[n]]
  BY DEF AgentInv, AgentTypes
<1>2. /\ files' \in [FileNames -> Seq(Cells)]
      /\ \A n \in FileNames : n # m => files'[n] = files[n]
  BY <1>1, EmptySeq
<1>3. /\ promised' = [n \in FileNames |-> promised'[n]]
      /\ promised'[m] = {}
      /\ \A n \in FileNames : n # m => promised'[n] = promised[n]
  BY <1>1
<1>4. FilesKept'
  BY <1>1, <1>2, <1>3 DEF FilesKept
<1>5. AgentTypes'
  BY <1>2, <1>3 DEF AgentInv, AgentTypes
<1>6. CASE live /\ current = m
  <2> DEFINE holes == [i \in DOMAIN writer.disk |-> Scrap]
  <2>1. writer \in WriterStates
    BY <1>6 DEF AgentInv, Held
  <2>2. writer.disk \in Seq(Cells)
    BY <2>1, FieldTypes
  <2>3. DOMAIN writer.disk = 1..Len(writer.disk) /\ Len(writer.disk) \in Nat
    BY <2>2, LenProperties
  <2>4. holes \in [1..Len(writer.disk) -> Cells]
    BY <2>3, ScrapType
  <2>5. holes \in Seq(Cells)
    BY <2>3, <2>4, SeqDef
  <2> HIDE DEF holes
  <2>6. writer' = [writer EXCEPT !.disk = holes]
    BY <1>6 DEF holes
  <2>7. writer' \in WriterStates
    BY <2>1, <2>5, <2>6 DEF WriterStates
  <2>8. Held(writer, acked, promised[current])'
    BY <1>6, <2>7 DEF Held
  <2>. QED BY <1>4, <1>5, <2>8 DEF AgentInv
<1>7. CASE ~(live /\ current = m)
  <2>1. live' => Held(writer, acked, promised[current])'
    BY <1>3, <1>7 DEF AgentInv, AgentTypes, Held
  <2>. QED BY <1>4, <1>5, <2>1 DEF AgentInv
<1>. QED BY <1>6, <1>7

LEMMA OpenKeeps ==
    ASSUME AgentInv, OpenSession
    PROVE  AgentInv'
<1> DEFINE m == inbox.name
<1>1. m \in FileNames
  BY FrameTypes DEF OpenSession, Serving
<1>2. CASE Refuse
  BY <1>2, RefuseSame
<1>3. CASE inbox' = None /\ UNCHANGED <<procVars, sessionVars, histVars>>
  BY <1>3, AgentSame DEF sessionVars, histVars
<1>4. ASSUME inbox' = None,
             \E canFail \in BOOLEAN :
                \E w \in IF live THEN DropWriter(writer, canFail) ELSE {writer} : files' = Reopened(m, w.disk),
             writer' = NewWriter, live' = TRUE, current' = m, acked' = {},
             promised' = [promised EXCEPT ![m] = {}], clobbered' = clobbered \ {m}
      PROVE  AgentInv'
  <2> HIDE DEF m
  <2>1. PICK canFail \in BOOLEAN :
           \E w \in IF live THEN DropWriter(writer, canFail) ELSE {writer} : files' = Reopened(m, w.disk)
    BY <1>4
  <2>2. PICK w \in IF live THEN DropWriter(writer, canFail) ELSE {writer} : files' = Reopened(m, w.disk)
    BY <2>1
  <2>. QED BY <1>1, <1>4, <2>2, OpenedKeeps
<1>5. ASSUME inbox' = None, files' = [files EXCEPT ![m] = <<>>],
             promised' = [promised EXCEPT ![m] = {}], UNCHANGED <<live, current, acked>>,
             IF live /\ current = m
             THEN /\ writer' = [writer EXCEPT !.disk = [i \in DOMAIN writer.disk |-> Scrap]]
                  /\ clobbered' = clobbered \cup {m}
             ELSE UNCHANGED writer /\ clobbered' = clobbered \ {m}
      PROVE  AgentInv'
  <2> HIDE DEF m
  <2>. QED BY <1>1, <1>5, TruncatedKeeps
<1>. QED BY <1>2, <1>3, <1>4, <1>5 DEF OpenSession, Answer

LEMMA AgentStart ==
    ASSUME Init
    PROVE  AgentInv
<1>1. files \in [FileNames -> Seq(Cells)] /\ promised = [n \in FileNames |-> promised[n]]
  BY EmptySeq DEF Init
<1>2. \A n \in FileNames : promised[n] = {}
  BY DEF Init
<1>. QED BY <1>1, <1>2 DEF Init, AgentInv, AgentTypes, FilesKept

LEMMA AgentKeeps ==
    ASSUME ~PartialWrites, AgentInv, [Next]_vars
    PROVE  AgentInv'
<1>1. CASE StartMe \/ ExitMe \/ Others \/ Accept \/ Disconnect
  BY <1>1, ProcKeeps
<1>2. CASE EndConnection
  BY <1>2, EndKeeps
<1>3. CASE Kill
  BY <1>3, KillKeeps
<1>4. CASE \E frame \in Frames : Send(frame)
  BY <1>4, SendKeeps
<1>5. CASE Hello \/ Ping \/ Unknown \/ TooLarge
  BY <1>5, SmallKeeps
<1>6. CASE OpenSession
  BY <1>6, OpenKeeps
<1>7. CASE InternCmd
  BY <1>7, InternKeeps
<1>8. CASE AppendEventCmd
  BY <1>8, AppendKeeps
<1>9. CASE FinishSession
  BY <1>9, FinishKeeps
<1>10. CASE FlushCmd
  BY <1>10, FlushKeeps
<1>11. CASE UNCHANGED vars
  <2>1. UNCHANGED <<writer, live, current, files, acked, promised, clobbered, inbox>>
    BY <1>11 DEF vars, connVars, sessionVars, histVars
  <2>. QED BY <2>1, AgentSame DEF AgentInv, AgentTypes
<1>. QED BY <1>1, <1>2, <1>3, <1>4, <1>5, <1>6, <1>7, <1>8, <1>9, <1>10, <1>11
         DEF Next, AgentStep, Serve

\* handle_client, the writer's operations, every I/O error, a failed
\* OpenSession included, and a kill of the process: the files stay typed, the
\* open session's writer agrees with a history that has every acknowledged
\* event, and every other file holds what was promised of it, except where an
\* OpenSession truncated the file under its writer.
THEOREM AgentInvariant ==
    ASSUME ~PartialWrites
    PROVE  Spec => []AgentInv
<1>1. Init => AgentInv
  BY AgentStart
<1>2. AgentInv /\ [Next]_vars => AgentInv'
  BY AgentKeeps
<1>. QED BY <1>1, <1>2, PTL DEF Spec

\* AppendEventOk: while its session is open an acknowledged event is in the
\* file, in the BufWriter or in pending_events, whatever flush failed and
\* whatever frame was refused in between, unless an OpenSession truncated the
\* session's own file and failed.
THEOREM AckedKept ==
    ASSUME ~PartialWrites
    PROVE  Spec => []AckedNotLost
<1>1. AgentInv => AckedNotLost
  <2>1. SUFFICES ASSUME AgentInv, live, current \notin clobbered PROVE acked \subseteq Recorded
    BY DEF AckedNotLost
  <2>2. Session(writer, acked, promised[current])
    BY <2>1 DEF AgentInv, Held
  <2>3. PICK acc \in Seq(Events) :
           Numbered(acc) /\ WriterInv(writer, acc) /\ acked \subseteq RangeOf(acc)
    BY <2>2 DEF Session
  <2>4. writer \in WriterStates
    BY <2>2 DEF Session
  <2>5. RecordedBy(writer) = RangeOf(acc)
    BY <2>3, <2>4, RecordedHistory
  <2>. QED BY <2>3, <2>5 DEF RecordedBy, Recorded
<1>. QED BY <1>1, AgentInvariant, PTL

\* FinishSessionOk and FlushOk: the events recorded before them stay readable
\* from the session's file, through later frames, a lost connection, other
\* sessions and a kill, until a session of the same file name is asked for.
THEOREM PromisesKept ==
    ASSUME ~PartialWrites
    PROVE  Spec => []PromisedReadable
<1>1. AgentInv => PromisedReadable
  <2>1. SUFFICES ASSUME AgentInv, NEW n \in FileNames, n \notin clobbered
                 PROVE  promised[n] \subseteq EventsIn(Content(n))
    BY DEF PromisedReadable
  <2>2. CASE live /\ current = n
    <3>1. writer.disk \in Seq(Cells) /\ promised[n] \subseteq EventsIn(writer.disk)
      BY <2>1, <2>2, FieldTypes DEF AgentInv, Held, Session
    <3>2. files[n] \in Seq(Cells)
      BY <2>1 DEF AgentInv, AgentTypes
    <3>3. EventsIn(writer.disk) \subseteq EventsIn(Overlay(files[n], writer.disk))
      BY <3>1, <3>2, OverlayProps
    <3>. QED BY <2>2, <3>1, <3>3 DEF Content
  <2>3. CASE ~(live /\ current = n)
    BY <2>1, <2>3 DEF AgentInv, FilesKept, Content
  <2>. QED BY <2>2, <2>3
<1>. QED BY <1>1, AgentInvariant, PTL
=============================================================================
