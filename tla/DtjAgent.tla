------------------------------ MODULE DtjAgent ------------------------------
(***************************************************************************)
(* dtj-agent (crates/dtj/src/bin/dtj-agent.rs): the process that owns the  *)
(* session writer.  It binds a Unix socket, accepts one client, answers    *)
(* that client's frames one at a time with the operations of WriterCore,   *)
(* and exits when the connection ends.  The client may send any command at *)
(* any time, well formed or not, disconnect, or stop reading replies; the  *)
(* process may be killed; writes to the session file may fail.  How it     *)
(* takes the socket path, and what other agents do to it, is AgentSocket.  *)
(***************************************************************************)
EXTENDS WriterCore, AgentSocket

CONSTANTS
    None,           \* no frame, no reply, no file
    Me,             \* the agent modelled here; the others only take the path
    FileNames,      \* session file names a client may ask for
    InternInputs,   \* <<kind, name>> pairs a client may intern
    EventInputs,    \* events a client may append
    MaxEvents,      \* bound on the events recorded in one session
    MaxSessions,    \* bound on the OpenSession commands that succeed
    MaxFaults       \* bound on the frames that meet an I/O error

ASSUME AgentAssumption ==
    /\ Me \in Agents
    /\ InternInputs \subseteq Kinds \X Names
    /\ EventInputs \subseteq Events
    /\ MaxEvents \in Nat /\ MaxSessions \in Nat /\ MaxFaults \in Nat

VARIABLES
    flush_every_event, \* AgentState::flush_every_event
    conn,           \* the connection: none, open, eof (client left) or broken
    inbox,          \* the frame the client has sent and not got a reply for
    reply,          \* the opcode of the reply to the client's last frame
    hello_done,     \* AgentState::hello_done
    session_opened, \* AgentState::session_opened
    writer,         \* AgentState::writer; meaningful when live
    live,           \* whether AgentState::writer is Some
    current,        \* the file name the writer was created for
    files,          \* the session files, apart from what the writer writes
    acked,          \* history: events answered AppendEventOk in this session
    promised,       \* history: per file, events covered by a Finish/FlushOk
    clobbered,      \* history: files an OpenSession that failed truncated
                    \* under their open writer
    sessions,       \* OpenSession commands that succeeded
    faults          \* frames that met an I/O error

procVars == <<proc, path, flush_every_event>>
connVars == <<conn, inbox, reply>>
sessionVars == <<hello_done, session_opened, writer, live, current, files>>
histVars == <<acked, promised, clobbered, sessions, faults>>
vars == <<procVars, connVars, sessionVars, histVars>>

\* Frames.  A malformed body (too short, bad UTF-8, bad file name, unknown
\* type tag, field_count other than 1, ...) is refused without effect.
Frames ==
    [op : {"FinishSession", "Ping", "Flush", "Unknown", "Empty", "TooLarge"}]
    \cup [op : {"Hello"}, ok : BOOLEAN]
    \cup [op : {"OpenSession"}, ok : BOOLEAN, name : FileNames]
    \cup [op : {"Intern"}, ok : BOOLEAN, in : InternInputs]
    \cup [op : {"AppendEvent"}, ok : BOOLEAN, ev : EventInputs]

Init ==
    /\ SocketInit
    /\ flush_every_event \in BOOLEAN
    /\ conn = "none" /\ inbox = None /\ reply = None
    /\ hello_done = FALSE /\ session_opened = FALSE
    /\ writer = NewWriter /\ live = FALSE /\ current = None
    /\ files = [n \in FileNames |-> <<>>]
    /\ acked = {} /\ promised = [n \in FileNames |-> {}] /\ clobbered = {}
    /\ sessions = 0 /\ faults = 0

\* A step that meets an I/O error uses up one fault.
Faulty(canFail) == /\ canFail => faults < MaxFaults
                   /\ faults' = IF canFail THEN faults + 1 ELSE faults

-----------------------------------------------------------------------------
(* Files.  A writer writes from the start of its file; what lies beyond its *)
(* position is whatever was there.                                         *)

Overlay(base, cells) == cells \o SubSeq(base, Len(cells) + 1, Len(base))

\* The content of file n as a reader would find it now.
Content(n) == IF live /\ current = n THEN Overlay(files[n], writer.disk) ELSE files[n]

\* The files once the writer is gone, having left `disk' in its file.
Settled(disk) ==
    IF live THEN [files EXCEPT ![current] = Overlay(@, disk)] ELSE files

\* The files after OpenSession created file n: n is truncated first, then
\* the old writer is dropped, and its BufWriter writes out what it still
\* holds at its own position, into the truncated file if it is the same.
Reopened(n, disk) ==
    IF live /\ current = n
    THEN LET kept == Len(writer.disk)
         IN [files EXCEPT ![n] = IF Len(disk) = kept THEN <<>>
                                 ELSE [i \in 1..Len(disk) |-> IF i <= kept THEN Scrap ELSE disk[i]]]
    ELSE [Settled(disk) EXCEPT ![n] = <<>>]

-----------------------------------------------------------------------------
(* main *)

\* Arguments and configuration are read, and the socket path taken.
StartMe == /\ Start(Me) \/ StartFails(Me)
           /\ UNCHANGED <<flush_every_event, connVars, sessionVars, histVars>>

\* The other agents on the path.
Others == /\ \E a \in Agents \ {Me} : SocketStep(a)
          /\ UNCHANGED <<flush_every_event, connVars, sessionVars, histVars>>

\* The first client is accepted.
Accept ==
    /\ AcceptOne(Me)
    /\ conn' = "open"
    /\ UNCHANGED <<flush_every_event, inbox, reply, sessionVars, histVars>>

\* Mutant of EndConnection: main goes back to accept.
EndConnectionListens ==
    /\ Moves(Me, "serving", "listening")
    /\ conn \in {"eof", "broken"} /\ inbox = None
    /\ live' = FALSE
    /\ UNCHANGED <<path, flush_every_event, connVars, hello_done, session_opened, writer, current,
                   files, histVars>>

\* handle_client returns: the AgentState is dropped, and its writer with it.
EndConnection ==
    /\ Leave(Me)
    /\ conn \in {"eof", "broken"} /\ inbox = None
    /\ \E canFail \in BOOLEAN :
          /\ Faulty(canFail) /\ (canFail => live)
          /\ \E w \in DropWriter(writer, canFail) : files' = Settled(w.disk)
    /\ live' = FALSE
    /\ UNCHANGED <<flush_every_event, connVars, hello_done, session_opened, writer, current,
                   acked, promised, clobbered, sessions>>

ExitMe == /\ Exit(Me)
          /\ UNCHANGED <<flush_every_event, connVars, sessionVars, histVars>>

\* The process is killed: no destructor runs.
Kill ==
    /\ KillAgent(Me)
    /\ IF live THEN \E image \in CrashImages(writer) : files' = Settled(image)
       ELSE UNCHANGED files
    /\ live' = FALSE
    /\ UNCHANGED <<flush_every_event, connVars, hello_done, session_opened, writer, current, histVars>>

-----------------------------------------------------------------------------
(* The client *)

\* The bounds of the model are bounds on what the client sends.
Send(frame) ==
    /\ conn = "open" /\ inbox = None
    /\ frame.op = "OpenSession" => sessions < MaxSessions
    /\ frame.op = "AppendEvent" => writer.next_event_seq <= MaxEvents
    /\ inbox' = frame /\ reply' = None
    /\ UNCHANGED <<procVars, conn, sessionVars, histVars>>

\* The client closes its end; a frame it has already sent is still served.
Disconnect ==
    /\ conn = "open"
    /\ conn' = "eof"
    /\ UNCHANGED <<procVars, inbox, reply, sessionVars, histVars>>

-----------------------------------------------------------------------------
(* handle_client *)

Serving(op) == proc[Me] = "serving" /\ inbox # None /\ inbox.op = op

\* write_frame: the reply goes out or, when the client is gone, fails, and
\* handle_client returns.
Answer(op) ==
    /\ inbox' = None
    /\ \/ conn = "open" /\ reply' = op /\ UNCHANGED conn
       \/ conn = "eof" /\ conn' = "broken" /\ UNCHANGED reply

\* An Error frame, with nothing changed.
Refuse == Answer("Error") /\ UNCHANGED <<procVars, sessionVars, histVars>>

\* Every event the writer has recorded in this session, sealed or pending.
Recorded == EventsIn(Stream(writer)) \cup RangeOf(writer.pending_events)

Promise(w) ==
    promised' = [promised EXCEPT ![current] = EventsIn(Stream(w)) \cup RangeOf(w.pending_events)]

Hello ==
    /\ Serving("Hello")
    /\ \/ /\ ~inbox.ok
          /\ Refuse
       \/ /\ inbox.ok
          /\ hello_done' = TRUE
          /\ Answer("HelloOk")
          /\ UNCHANGED <<procVars, session_opened, writer, live, current, files, histVars>>

OpenSession ==
    /\ Serving("OpenSession")
    /\ \/ /\ ~(hello_done /\ inbox.ok)
          /\ Refuse
       \/ /\ hello_done /\ inbox.ok
          /\ \E canFail \in BOOLEAN :
             /\ Faulty(canFail) /\ (canFail => live)
             /\ \E w \in IF live THEN DropWriter(writer, canFail) ELSE {writer} :
                   files' = Reopened(inbox.name, w.disk)
          /\ writer' = NewWriter /\ live' = TRUE /\ current' = inbox.name
          /\ session_opened' = TRUE
          /\ sessions' = sessions + 1
          /\ acked' = {}
          /\ promised' = [promised EXCEPT ![inbox.name] = {}]
          /\ clobbered' = clobbered \ {inbox.name}
          /\ Answer("OpenSessionOk")
          /\ UNCHANGED <<procVars, hello_done>>
       \/ \* SessionWriter::create cannot open the file: the session stays open
          /\ hello_done /\ inbox.ok
          /\ Refuse
       \/ \* create truncates the file and then cannot write its header; the
          \* writer of the same file goes on at its position behind a hole
          /\ hello_done /\ inbox.ok
          /\ Faulty(TRUE)
          /\ files' = [files EXCEPT ![inbox.name] = <<>>]
          /\ promised' = [promised EXCEPT ![inbox.name] = {}]
          /\ IF live /\ current = inbox.name
             THEN /\ writer' = [writer EXCEPT !.disk = [i \in DOMAIN @ |-> Scrap]]
                  /\ clobbered' = clobbered \cup {inbox.name}
             ELSE /\ UNCHANGED writer
                  /\ clobbered' = clobbered \ {inbox.name}
          /\ Answer("Error")
          /\ UNCHANGED <<procVars, hello_done, session_opened, live, current, acked, sessions>>
       \/ \* the data directory cannot be made: handle_client returns
          /\ hello_done /\ inbox.ok
          /\ inbox' = None /\ conn' = "broken"
          /\ reply' \in {reply, "Error"}
          /\ UNCHANGED <<procVars, sessionVars, histVars>>

InternCmd ==
    /\ Serving("Intern")
    /\ LET o == Intern(writer, inbox.in[1], inbox.in[2])
       IN  \/ /\ ~(hello_done /\ session_opened /\ inbox.ok /\ live)
              /\ Refuse
           \/ /\ hello_done /\ session_opened /\ inbox.ok /\ live
              /\ writer' = o.w
              /\ Answer(IF o.ok THEN "InternOk" ELSE "Error")
              /\ UNCHANGED <<procVars, hello_done, session_opened, live, current, files, histVars>>

\* append_event and, with flush_every_event, a flush_chunk whose failure is
\* only logged.
AppendOutcomes(ev, canFail) ==
    UNION {IF o.ok /\ flush_every_event
           THEN {[o EXCEPT !.w = f.w] : f \in FlushChunk(o.w, canFail)}
           ELSE {o} : o \in AppendEvent(writer, ev, canFail)}

AppendEventCmd ==
    /\ Serving("AppendEvent")
    /\ \/ /\ ~(hello_done /\ session_opened /\ inbox.ok /\ live)
          /\ Refuse
       \/ /\ hello_done /\ session_opened /\ inbox.ok /\ live
          /\ \E canFail \in BOOLEAN :
             /\ Faulty(canFail)
             /\ \E o \in AppendOutcomes(inbox.ev, canFail) :
                /\ writer' = o.w
                /\ Answer(IF o.ok THEN "AppendEventOk" ELSE "Error")
                /\ acked' = IF o.ok /\ conn = "open"
                            THEN acked \cup {[inbox.ev EXCEPT !.event_sequence = o.val]} ELSE acked
          /\ UNCHANGED <<procVars, hello_done, session_opened, live, current, files, promised,
                         clobbered, sessions>>

\* writer.take(): whatever finish returns, the session is over.
FinishSession ==
    /\ Serving("FinishSession")
    /\ \/ ~live /\ Refuse
       \/ /\ live
          /\ \E canFail \in BOOLEAN :
             /\ Faulty(canFail)
             /\ \E o \in Finish(writer, canFail) :
                /\ files' = Settled(o.w.disk)
                /\ Answer(IF o.ok THEN "FinishSessionOk" ELSE "Error")
                /\ IF o.ok THEN Promise(writer) ELSE UNCHANGED promised
          /\ live' = FALSE
          /\ UNCHANGED <<procVars, hello_done, session_opened, writer, current, acked, clobbered, sessions>>

\* Mutant of FlushCmd: without a session the frame gets no reply.
FlushCmdOnlyLive ==
    /\ Serving("Flush") /\ live
    /\ \E o \in FlushChunk(writer, FALSE) :
          /\ writer' = o.w
          /\ Answer(IF o.ok THEN "FlushOk" ELSE "Error")
    /\ UNCHANGED <<procVars, hello_done, session_opened, live, current, files, histVars>>

FlushCmd ==
    /\ Serving("Flush")
    /\ \/ ~live /\ Refuse
       \/ /\ live
          /\ \E canFail \in BOOLEAN :
             /\ Faulty(canFail)
             /\ \E o \in FlushChunk(writer, canFail) :
                /\ writer' = o.w
                /\ Answer(IF o.ok THEN "FlushOk" ELSE "Error")
                /\ IF o.ok THEN Promise(writer) ELSE UNCHANGED promised
          /\ UNCHANGED <<procVars, hello_done, session_opened, live, current, files, acked,
                         clobbered, sessions>>

Ping == Serving("Ping") /\ Answer("Pong") /\ UNCHANGED <<procVars, sessionVars, histVars>>

\* An unknown opcode or an empty frame.
Unknown == (Serving("Unknown") \/ Serving("Empty")) /\ Refuse

\* read_frame refuses more than MAX_FRAME_SIZE: the connection just ends.
TooLarge ==
    /\ Serving("TooLarge")
    /\ inbox' = None /\ conn' = "broken"
    /\ UNCHANGED <<procVars, reply, sessionVars, histVars>>

Serve == Hello \/ OpenSession \/ InternCmd \/ AppendEventCmd \/ FinishSession
         \/ FlushCmd \/ Ping \/ Unknown \/ TooLarge

AgentStep == StartMe \/ EndConnection \/ ExitMe \/ Serve

Next == AgentStep \/ Others \/ Accept \/ Kill \/ Disconnect \/ \E frame \in Frames : Send(frame)

\* The agent's single thread keeps running: it never waits except for a
\* client to connect and for the client's next frame.
Spec == Init /\ [][Next]_vars /\ WF_vars(AgentStep)

-----------------------------------------------------------------------------
(* Properties *)

\* docs/dtj-agent-protocol-v1.md, "server flushes and replies FinishSessionOk":
\* after FinishSessionOk or FlushOk every event recorded before it is readable
\* from its file, whatever the client does next and even if the agent is
\* killed, until the client asks for a session with the same file name.  Such
\* an OpenSession, when it fails after it has truncated the file of the open
\* session, leaves that session running on a file no reader gets past: what a
\* later FlushOk or FinishSessionOk promises of it is not readable.
PromisedReadable == \A n \in FileNames : n \in clobbered \/ promised[n] \subseteq EventsIn(Content(n))

\* An event answered AppendEventOk is in the session's file or still pending
\* for as long as the session is open: failed flushes and refused frames in
\* between do not lose it.  The one command that does is an OpenSession for
\* the session's own file name that fails after it has truncated the file.
AckedNotLost == live /\ current \notin clobbered => acked \subseteq Recorded

\* handle_client answers every frame it can read, or ends the connection.
FrameServed == inbox # None ~> inbox = None \/ proc[Me] = "killed"

\* Once the client is gone the agent ends: it never waits for another one.
AgentEnds == conn \in {"eof", "broken"} ~> proc[Me] \in {"exited", "killed"}

\* specs/dtj-format-v1.md: a lossless session never silently overwrites an
\* accepted event.  Opening the next session keeps the acknowledged events of
\* the one that is open.
AckedSurviveOpen ==
    [][live /\ sessions' > sessions /\ current' # current
          => acked \subseteq EventsIn(files'[current])]_vars
=============================================================================
