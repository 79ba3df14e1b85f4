---------------------------- MODULE AgentSocket ----------------------------
(***************************************************************************)
(* main of dtj-agent (crates/dtj/src/bin/dtj-agent.rs): how a process      *)
(* takes the socket path and gives it up.  Whoever needs an agent starts   *)
(* one, so several of them may be started on the same path.  Each looks at *)
(* the path, removes the socket it finds there, makes its data directory   *)
(* and binds in steps of their own, with no lock between the processes.    *)
(***************************************************************************)
CONSTANT Agents     \* the processes started on the path

ASSUME AgentsAssumption == Agents \cap {"absent", "stale", "file"} = {}

VARIABLES
    proc,           \* per agent, where it is in main
    path            \* what is at the path: absent, stale (the socket of no
                    \* running process), file (not a socket), or the socket
                    \* of the agent named

socketVars == <<proc, path>>

SocketInit ==
    /\ proc = [a \in Agents |-> "starting"]
    /\ path \in {"absent", "stale", "file"}

Moves(a, from, to) == proc[a] = from /\ proc' = [proc EXCEPT ![a] = to]

\* socket_path.exists()
Check(a) ==
    /\ Moves(a, "starting", IF path = "absent" THEN "cleared" ELSE "found")
    /\ UNCHANGED path

\* symlink_metadata and is_socket: refused when it is no socket, or is gone.
Stat(a) ==
    /\ Moves(a, "found", IF path \in {"absent", "file"} THEN "refused" ELSE "checked")
    /\ UNCHANGED path

\* remove_file removes what is there by now, whoever's it is.
Remove(a) ==
    /\ Moves(a, "checked", IF path = "absent" THEN "refused" ELSE "cleared")
    /\ path' = "absent"

\* Mutant of Bind: the path is cleaned up as on the normal exit.
BindCleansUp(a) ==
    \/ /\ path = "absent" /\ Moves(a, "cleared", "listening")
       /\ path' = a
    \/ /\ path # "absent" /\ Moves(a, "cleared", "refused")
       /\ path' = "absent"

\* UnixListener::bind; a path that is taken again refuses it.
Bind(a) ==
    \/ /\ path = "absent" /\ Moves(a, "cleared", "listening")
       /\ path' = a
    \/ /\ path # "absent" /\ Moves(a, "cleared", "refused")
       /\ UNCHANGED path

\* The arguments or the configuration are unusable, or the system refuses to
\* stat, to remove, to make the data directory or to bind: main returns.
StartFails(a) ==
    /\ \E from \in {"starting", "found", "checked", "cleared"} : Moves(a, from, "failed")
    /\ UNCHANGED path

\* A client finds the agent by its path, connects and is accepted; there is
\* never a second one.
AcceptOne(a) ==
    /\ path = a /\ Moves(a, "listening", "serving")
    /\ UNCHANGED path

\* handle_client has returned.
Leave(a) ==
    /\ Moves(a, "serving", "exiting")
    /\ UNCHANGED path

\* The path once agent a and its listener are gone.
Without(a) == IF path = a THEN "stale" ELSE path

\* The path is removed on a normal exit, whoever's it is; a failure to remove
\* it is ignored.
Exit(a) ==
    /\ Moves(a, "exiting", "exited")
    /\ path' \in {"absent", Without(a)}

\* The process is killed: nothing cleans the path up.
KillAgent(a) ==
    /\ \E from \in {"found", "checked", "cleared", "listening", "serving", "exiting"} :
          Moves(a, from, "killed")
    /\ path' = Without(a)

Start(a) == Check(a) \/ Stat(a) \/ Remove(a) \/ Bind(a)

SocketStep(a) ==
    Start(a) \/ StartFails(a) \/ AcceptOne(a) \/ Leave(a) \/ Exit(a) \/ KillAgent(a)

SocketSpec == SocketInit /\ [][\E a \in Agents : SocketStep(a)]_socketVars

-----------------------------------------------------------------------------
(* Properties *)

\* The start-up race has a winner: however the checks, removals and binds of
\* the agents interleave, and though they remove each other's sockets, once
\* none is between its check and its bind the path is the socket of a running
\* agent, unless a file is in the way or an agent has failed, was killed or
\* has come to its exit.  The socket of an agent is never at the path beyond
\* the agent's end.
RaceHasWinner ==
    /\ path \in Agents => proc[path] \in {"listening", "serving", "exiting"}
    /\ /\ \A a \in Agents : proc[a] \in {"starting", "refused", "listening", "serving"}
       /\ \E a \in Agents : proc[a] # "starting"
       /\ path # "file"
       => path \in Agents
=============================================================================
