------------------------------ MODULE McpStore ------------------------------
(***************************************************************************)
(* Session files and their persistent indexes, as the MCP server uses them *)
(* (dtj_core.py, dtj_read.py, dtj_store.py, dtj_index.py).  Several server *)
(* processes work on one store directory while producers create and append *)
(* to session files.  An index is built from a decode between two stats of *)
(* the session file, written to a temporary file and renamed into place;   *)
(* it is used only when it carries the identity the session file has now:  *)
(* its path, size and modification time.                                   *)
(*                                                                         *)
(* A file holds a header and events of one capture: <<capture, records>>,  *)
(* where 0 records is a file whose header is not there yet.  Its size is   *)
(* its number of records, its time the coarse clock of the file system.    *)
(***************************************************************************)
EXTENDS Naturals, FiniteSets

CONSTANTS
    None,           \* no file, no value
    Procs,          \* server processes
    RustProcs,      \* those that could import the dtj_python extension (_HAS_RUST)
    Sessions,       \* paths of session files
    Captured,       \* the sessions that are there at the start
    Stem(_),        \* the stem of a path; index_path_for keeps only this
    MaxChanges,     \* bound on what others do: writes, edits, kills, signals
    MaxTime,        \* bound on the clock
    MaxCalls        \* bound on the tool calls

VARIABLES
    files,      \* session path to [data, mtime], or None
    clock,      \* the time the file system stamps writes with
    indexes,    \* stem to the index document, or None
    job,        \* process to the call it is in
    answer,     \* process to the answer of its last call
    seen,       \* history: <<s, data>> pairs true at some time in p's call, for
                \* the session it is about or (job[p].s = None) for all
    held,       \* history: <<identity, data>> pairs that were true
    reentered,  \* history: identities a file came back to
    changes,    \* what others did so far
    calls       \* tool calls so far

fileVars == <<files, clock, held, reentered, changes>>
callVars == <<job, answer, calls>>
storeVars == <<fileVars, indexes, callVars, seen>>

Stems == {Stem(s) : s \in Sessions}

\* A session file holds a capture, up to some number of records, and has a
\* modification time; an index holds what it was built from, with the identity.
Contents == Nat \X Nat
FileStates == [data : Contents, mtime : Nat]
Identities == Sessions \X Nat \X Nat
Documents == [id : Identities, data : Contents]

\* No path, no file, no identity and no index: none of those there may be.
ASSUME StoreAssumption == None \notin Sessions \cup FileStates \cup Identities \cup Documents

Idle == [op |-> "idle"]
Busy(p) == job[p].op # "idle"

\* _source_identity of a path: resolved path, st_size, st_mtime_ns.
source_identity(s) == IF files[s] = None THEN None
                       ELSE <<s, files[s].data[2], files[s].mtime>>

StoreInit ==
    /\ clock = 1
    /\ files = [s \in Sessions |-> IF s \in Captured THEN [data |-> <<1, 1>>, mtime |-> clock] ELSE None]
    /\ indexes = [x \in Stems |-> None]
    /\ job = [p \in Procs |-> Idle]
    /\ answer = [p \in Procs |-> None]
    /\ seen = [p \in Procs |-> {}]
    /\ held = {<<source_identity(s), files[s].data>> : s \in {t \in Sessions : files[t] # None}}
    /\ reentered = {}
    /\ changes = 0 /\ calls = 0

-----------------------------------------------------------------------------
(* The producers and the file system *)

\* What others do is of no more interest once the last call has ended.
Watched == calls < MaxCalls \/ \E p \in Procs : Busy(p)
Change == Watched /\ changes < MaxChanges /\ changes' = changes + 1

\* A write leaves a session file with this data, stamped with the clock.
SetFile(s, data) ==
    LET id == <<s, data[2], clock>> IN
    /\ Change
    /\ files' = [files EXCEPT ![s] = [data |-> data, mtime |-> clock]]
    /\ held' = held \cup {<<id, data>>}
    /\ reentered' = IF \E h \in held : h[1] = id THEN reentered \cup {id} ELSE reentered
    /\ seen' = [p \in Procs |-> IF Busy(p) /\ job[p].s \in {s, None}
                               THEN seen[p] \cup {<<s, data>>} ELSE seen[p]]

\* The agent creates the file, truncating what was there.
CreateSession(s) ==
    /\ SetFile(s, IF files[s] = None THEN <<1, 0>> ELSE <<files[s].data[1] + 1, 0>>)
    /\ UNCHANGED <<clock, indexes, callVars>>

AppendRecord(s) ==
    /\ files[s] # None
    /\ SetFile(s, [files[s].data EXCEPT ![2] = @ + 1])
    /\ UNCHANGED <<clock, indexes, callVars>>

Tick ==
    /\ Watched /\ clock < MaxTime /\ clock' = clock + 1
    /\ UNCHANGED <<files, held, reentered, changes, indexes, callVars, seen>>

-----------------------------------------------------------------------------
(* Decoding.  read_session_dtj and read_session return a projection, or an *)
(* error projection; with the extension the except clause names DtjError,  *)
(* which is unbound there, and the call raises instead.  JournalRecovery   *)
(* shows that a decode sees the file as of one moment.                     *)

Decodes(s) == files[s] # None /\ files[s].data[2] > 0
DecodeRaises(p, s) == p \in RustProcs /\ files[s] # None /\ ~Decodes(s)

-----------------------------------------------------------------------------
(* Calls *)

\* A tool call starts; the answer of the previous one is gone.
Begin(p, j, facts) ==
    /\ ~Busy(p) /\ calls < MaxCalls /\ calls' = calls + 1
    /\ job' = [job EXCEPT ![p] = j]
    /\ answer' = [answer EXCEPT ![p] = None]
    /\ seen' = [seen EXCEPT ![p] = facts]

Goto(p, j) == job' = [job EXCEPT ![p] = j] /\ UNCHANGED <<answer, calls, seen>>

Return(p, a) ==
    /\ job' = [job EXCEPT ![p] = Idle]
    /\ answer' = [answer EXCEPT ![p] = a]
    /\ UNCHANGED <<calls, seen>>

Ok(p, data) == [op |-> job[p].op, s |-> job[p].s, ok |-> TRUE, data |-> data]
Error(p, kind) == [op |-> job[p].op, s |-> job[p].s, ok |-> FALSE, kind |-> kind]

Facts(ss) == {<<s, files[s].data>> : s \in {t \in ss : files[t] # None}}

\* "rebuild" is index_session_dtj with rebuild; "open" is the other calls that
\* use an index: index_session_dtj without, search_session_dtj_index and
\* load_validated_index_events.  The session must be a file to be indexed, the
\* index must be one to be opened; otherwise the call is refused at once.
StartIndexCall(p) ==
    /\ \E s \in Sessions :
        \/ files[s] # None /\ Begin(p, [op |-> "rebuild", s |-> s, pc |-> "before"], Facts({s}))
        \/ indexes[Stem(s)] # None /\ Begin(p, [op |-> "open", s |-> s, pc |-> "stat"], Facts({s}))
    /\ UNCHANGED <<fileVars, indexes>>

At(p, pc) == job[p].op \in {"rebuild", "open"} /\ job[p].pc = pc

\* _open_validated_index takes the identity of the session file ...
StatSource(p) ==
    /\ At(p, "stat")
    /\ LET id == source_identity(job[p].s) IN
       IF id = None THEN Return(p, Error(p, "Io"))
       ELSE Goto(p, [op |-> job[p].op, s |-> job[p].s, pc |-> "load", id |-> id])
    /\ UNCHANGED <<fileVars, indexes>>

\* Mutant of identity_matches: the time of the last write is not compared.
IdentityWithoutTime(doc, id) == doc.id[1] = id[1] /\ doc.id[2] = id[2]

identity_matches(doc, id) == doc.id = id

\* ... and then loads the index, which must carry the same one.
LoadIndex(p) ==
    /\ At(p, "load")
    /\ LET doc == indexes[Stem(job[p].s)] IN
       Return(p, IF identity_matches(doc, job[p].id) THEN Ok(p, doc.data)
                                                       ELSE Error(p, "StaleIndex"))
    /\ UNCHANGED <<fileVars, indexes>>

\* _build_index_atomic: the identity before the decode,
StatBefore(p) ==
    /\ At(p, "before")
    /\ LET id == source_identity(job[p].s) IN
       Goto(p, [op |-> "rebuild", s |-> job[p].s, pc |-> "decode", id |-> id])
    /\ UNCHANGED <<fileVars, indexes>>

\* the decode,
Decode(p) ==
    /\ At(p, "decode")
    /\ IF Decodes(job[p].s)
       THEN Goto(p, [op |-> "rebuild", s |-> job[p].s, pc |-> "after",
                     id |-> job[p].id, data |-> files[job[p].s].data])
       ELSE Return(p, Error(p, IF p \in RustProcs THEN "Raised" ELSE "Malformed"))
    /\ UNCHANGED <<fileVars, indexes>>

\* Mutant of StatAfter: the file is not looked at again.
StatAfterUnchecked(p) ==
    /\ At(p, "after")
    /\ Goto(p, [job[p] EXCEPT !.pc = "write"])
    /\ UNCHANGED <<fileVars, indexes>>

\* and the identity after it, which must be the same.
StatAfter(p) ==
    /\ At(p, "after")
    /\ IF source_identity(job[p].s) = job[p].id
       THEN Goto(p, [job[p] EXCEPT !.pc = "write"])
       ELSE Return(p, Error(p, "SourceChanged"))
    /\ UNCHANGED <<fileVars, indexes>>

\* build_document: the identity, and what was decoded.
build_document(j) == [id |-> j.id, data |-> j.data]

\* The temporary file is written, read back and renamed over the index; when
\* that fails it is removed.
Publish(p) ==
    /\ At(p, "write")
    /\ \/ /\ indexes' = [indexes EXCEPT ![Stem(job[p].s)] = build_document(job[p])]
          /\ Return(p, Ok(p, job[p].data))
       \/ /\ UNCHANGED indexes
          /\ Return(p, Error(p, "IndexBuildFailed"))
    /\ UNCHANGED <<fileVars>>

-----------------------------------------------------------------------------
(* DtjSessionStore.list_sessions *)

\* iter_session_paths is consumed before the first file is opened.
StartList(p) ==
    /\ LET paths == {s \in Sessions : files[s] # None} IN
       Begin(p, [op |-> "list", s |-> None, todo |-> paths, sessions |-> {}, errors |-> {}], Facts(Sessions))
    /\ UNCHANGED <<fileVars, indexes>>

\* Mutant of ListNext: a session that does not decode is tried again.
ListNextRetries(p) ==
    /\ job[p].op = "list"
    /\ \E s \in job[p].todo :
        /\ Decodes(s)
        /\ Goto(p, [job[p] EXCEPT !.todo = @ \ {s}, !.sessions = @ \cup {<<s, files[s].data>>}])
    /\ UNCHANGED <<fileVars, indexes>>

\* open_session_meta of the next path.
ListNext(p) ==
    /\ job[p].op = "list"
    /\ \E s \in job[p].todo :
        IF DecodeRaises(p, s) THEN Return(p, Error(p, "Raised"))
        ELSE Goto(p, IF Decodes(s)
                     THEN [job[p] EXCEPT !.todo = @ \ {s}, !.sessions = @ \cup {<<s, files[s].data>>}]
                     ELSE [job[p] EXCEPT !.todo = @ \ {s}, !.errors = @ \cup {s}])
    /\ UNCHANGED <<fileVars, indexes>>

ListEnd(p) ==
    /\ job[p].op = "list" /\ job[p].todo = {}
    /\ Return(p, Ok(p, [sessions |-> job[p].sessions, errors |-> job[p].errors]))
    /\ UNCHANGED <<fileVars, indexes>>

-----------------------------------------------------------------------------

StoreStep(p) ==
    \/ StatSource(p) \/ LoadIndex(p)
    \/ StatBefore(p) \/ Decode(p) \/ StatAfter(p) \/ Publish(p)
    \/ ListNext(p) \/ ListEnd(p)

StoreStart(p) == StartIndexCall(p) \/ StartList(p)

WriteStep == Tick \/ \E s \in Sessions : CreateSession(s) \/ AppendRecord(s)

-----------------------------------------------------------------------------
(* Properties *)

\* An index at rest holds what its session file held under the identity it
\* carries, whatever was written around the decode and whoever else built or
\* shares the index path.  The exception is an identity the file came back
\* to: a new capture of the same size within one tick of the clock.
IndexTrue ==
    \A x \in Stems :
        LET doc == indexes[x] IN
        doc # None /\ doc.id \notin reentered =>
            Stem(doc.id[1]) = x /\ <<doc.id, doc.data>> \in held

\* What a successful rebuild or use of an index reports for a session was in
\* that session's file at some moment during the call.
IndexAnswerTrue(p, a) ==
    a.op \in {"rebuild", "open"} /\ a.ok =>
        <<a.s, a.data>> \in seen[p] \/ \E id \in reentered : id[1] = a.s

\* A listing that returns tells the truth about every session it names, and
\* without the extension it returns even if some of them do not decode.
ListingTrue(p, a) ==
    a.op = "list" =>
        /\ a.ok => /\ a.data.sessions \subseteq seen[p]
                   /\ \A s \in a.data.errors : \E f \in seen[p] : f[1] = s /\ f[2][2] = 0
        /\ a.ok \/ p \in RustProcs

\* No call answers with something that was not the case while it ran.
AnswerTrue ==
    \A p \in Procs : answer[p] # None => IndexAnswerTrue(p, answer[p]) /\ ListingTrue(p, answer[p])
=============================================================================
