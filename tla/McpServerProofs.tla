--------------------------- MODULE McpServerProofs ---------------------------
(***************************************************************************)
(* Proofs about the MCP server processes (McpServer, McpStore): an index   *)
(* holds what its session file held under its identity, and a tool call    *)
(* answers with what was the case while it ran, for any number of server   *)
(* processes and sessions.                                                 *)
(***************************************************************************)
EXTENDS McpServer, FiniteSetTheorems, TLAPS

-----------------------------------------------------------------------------
(* The inductive invariant *)

RebuildJobs ==
    [op : {"rebuild"}, s : Sessions, pc : {"before"}]
    \cup [op : {"rebuild"}, s : Sessions, pc : {"decode"}, id : Identities]
    \cup [op : {"rebuild"}, s : Sessions, pc : {"after", "write"}, id : Identities, data : Contents]
OpenJobs ==
    [op : {"open"}, s : Sessions, pc : {"stat"}]
    \cup [op : {"open"}, s : Sessions, pc : {"load"}, id : Identities]
ListJobs ==
    [op : {"list"}, s : {None}, todo : SUBSET Sessions,
     sessions : SUBSET (Sessions \X Contents), errors : SUBSET Sessions]
Written == {Updated(cfg) : cfg \in ConfigInputs}
ConfigJobs ==
    [op : {"config_set"}, s : {None}, pc : {"check", "replace"}, data : Written]
    \cup [op : {"config_get"}, s : {None}, pc : {"read"}]
    \cup [op : {"config_get"}, s : {None}, pc : {"exists"},
          data : Written \cup ConfigFiles \cup {default_config}]
CatalogJobs ==
    [op : {"catalog"}, s : {None}, pc : {"digest"}]
    \cup [op : {"catalog"}, s : {None}, pc : {"content"}, digest : RegistryDocs]
Jobs == {Idle} \cup RebuildJobs \cup OpenJobs \cup ListJobs \cup ConfigJobs \cup CatalogJobs

FileTypes ==
    /\ files \in [Sessions -> FileStates \cup {None}]
    /\ clock \in Nat
    /\ held \subseteq Identities \X Contents
    /\ indexes \in [Stems -> Documents \cup {None}]
CallTypes ==
    /\ job \in [Procs -> Jobs]
    /\ DOMAIN answer = Procs
    /\ DOMAIN seen = Procs
    /\ DOMAIN known = Procs
    /\ config \in Written \cup ConfigFiles \cup {None}
    /\ registry \in RegistryDocs \cup {None}
    /\ \A p \in Procs : Busy(p) => answer[p] = None
    /\ \A p \in Procs : job[p].op = "rebuild" => files[job[p].s] # None
McpTypes == FileTypes /\ CallTypes

\* What a file holds now is on record under its identity; an identity nothing
\* came back to stands for one content.
HeldTrue == \A s \in Sessions : files[s] # None => <<source_identity(s), files[s].data>> \in held
HeldOnce == \A g, h \in held : g[1] = h[1] => g[2] = h[2] \/ g[1] \in reentered

\* A call on the store in progress has seen what the files it is about hold.
StoreOps == {"rebuild", "open", "list"}
SeenNow(p) ==
    job[p].op \in StoreOps =>
        \A s \in Sessions : files[s] # None /\ job[p].s \in {s, None} => <<s, files[s].data>> \in seen[p]

\* What the steps of a rebuild have established.
RebuildTrue(p) ==
    LET j == job[p] IN
    j.op = "rebuild" =>
        /\ j.pc \in {"decode", "after", "write"} =>
            j.id[1] = j.s /\ \E h \in held : h[1] = j.id
        /\ j.pc \in {"after", "write"} => <<j.s, j.data>> \in seen[p]
        /\ j.pc = "after" =>
            <<j.id, j.data>> \in held \/ j.id \in reentered \/ source_identity(j.s) # j.id
        /\ j.pc = "write" => <<j.id, j.data>> \in held \/ j.id \in reentered

\* ... those of a use of an index,
OpenTrue(p) ==
    LET j == job[p] IN
    j.op = "open" =>
        /\ indexes[Stem(j.s)] # None
        /\ j.pc = "load" =>
            /\ j.id[1] = j.s
            /\ \E h \in held : h[1] = j.id /\ <<j.s, h[2]>> \in seen[p]

\* ... and those of a listing.
ListTrue(p) ==
    LET j == job[p] IN
    j.op = "list" =>
        /\ \A s \in j.todo : files[s] # None
        /\ j.sessions \subseteq seen[p]
        /\ \A s \in j.errors : \E f \in seen[p] : f[1] = s /\ f[2][2] = 0

StoreCallTrue(p) == SeenNow(p) /\ RebuildTrue(p) /\ OpenTrue(p) /\ ListTrue(p)
StoreAnswerTrue(p) == answer[p] # None => IndexAnswerTrue(p, answer[p]) /\ ListingTrue(p, answer[p])

StoreInv ==
    /\ HeldTrue /\ HeldOnce /\ IndexTrue
    /\ \A p \in Procs : StoreCallTrue(p) /\ StoreAnswerTrue(p)

\* A call on the files of the server in progress knows how they are.
ToolOps == {"config_set", "config_get", "catalog"}
KnownNow(p) == job[p].op \in ToolOps => <<config, registry>> \in known[p]

\* The configuration a config_get has read, as ConfigTrue has it.
ConfigsOf(p) == {k[1] : k \in known[p]}
DocsOf(p) == {k[2] : k \in known[p]}
ReadTrue(p, c) ==
    \/ c \in ConfigsOf(p) /\ validate_config(c)
    \/ c = default_config /\ None \in ConfigsOf(p)
ConfigCallTrue(p) ==
    LET j == job[p] IN
    /\ j.op = "config_set" /\ j.pc = "replace" => validate_config(j.data)
    /\ j.op = "config_get" /\ j.pc = "exists" =>
        ReadTrue(p, j.data) /\ (config = None => j.data = default_config)
CatalogCallTrue(p) ==
    LET j == job[p] IN
    j.op = "catalog" /\ j.pc = "content" =>
        registry # None /\ j.digest \in DocsOf(p)

ServerCallTrue(p) == KnownNow(p) /\ ConfigCallTrue(p) /\ CatalogCallTrue(p)

ConfigFileTrue == config # None /\ ~validate_config(config) => config \in ConfigFiles
ConfigAnswerTrue(p) ==
    LET a == answer[p] IN
    a # None /\ a.ok =>
        /\ a.op = "config_set" => a.data \in ConfigsOf(p)
        /\ a.op = "config_get" =>
            ReadTrue(p, a.data.config) /\ (~a.data.exists => a.data.config = default_config)
SchemasTrue(schemas) ==
    \A i \in DOMAIN schemas : AcceptsSafely(schemas[i], Payloads) /\ Satisfiable(schemas[i], Payloads)
CatalogAnswerTrue(p) ==
    LET a == answer[p] IN
    a # None /\ a.op = "catalog" /\ a.ok =>
        /\ a.data.of \in DocsOf(p) /\ a.data.digest \in DocsOf(p)
        /\ Cardinality(DocsOf(p)) = 1 => a.data.digest = a.data.of
        /\ SchemasTrue(a.data.schemas)

ServerInv ==
    /\ ConfigFileTrue
    /\ \A p \in Procs : IsFiniteSet(DocsOf(p))
    /\ \A p \in Procs : ServerCallTrue(p) /\ ConfigAnswerTrue(p) /\ CatalogAnswerTrue(p)

-----------------------------------------------------------------------------
(* Operators of the model *)

\* The place a call is at says which shape its job has.
LEMMA JobShape ==
    ASSUME NEW j \in Jobs
    PROVE  /\ j.op = "rebuild" => j \in RebuildJobs
           /\ j.op = "open" => j \in OpenJobs
           /\ j.op = "list" => j \in ListJobs
           /\ j.op \in {"config_set", "config_get"} => j \in ConfigJobs
           /\ j.op = "catalog" => j \in CatalogJobs
<1>1. j = Idle => j.op = "idle"
  BY DEF Idle
<1>2. j \in RebuildJobs => j.op = "rebuild"
  BY DEF RebuildJobs
<1>3. j \in OpenJobs => j.op = "open"
  BY DEF OpenJobs
<1>4. j \in ListJobs => j.op = "list"
  BY DEF ListJobs
<1>5. j \in ConfigJobs => j.op \in {"config_set", "config_get"}
  BY DEF ConfigJobs
<1>6. j \in CatalogJobs => j.op = "catalog"
  BY DEF CatalogJobs
<1>. QED BY <1>1, <1>2, <1>3, <1>4, <1>5, <1>6 DEF Jobs

LEMMA RebuildShape ==
    ASSUME NEW j \in RebuildJobs
    PROVE  /\ j.s \in Sessions
           /\ j.pc \in {"before", "decode", "after", "write"}
           /\ j.pc \in {"decode", "after", "write"} => j.id \in Identities
           /\ j.pc \in {"after", "write"} =>
                j \in [op : {"rebuild"}, s : Sessions, pc : {"after", "write"}, id : Identities, data : Contents]
  BY DEF RebuildJobs

LEMMA OpenShape ==
    ASSUME NEW j \in OpenJobs
    PROVE  /\ j.s \in Sessions
           /\ j.pc \in {"stat", "load"}
           /\ j.pc = "load" => j.id \in Identities
  BY DEF OpenJobs

LEMMA ConfigShape ==
    ASSUME NEW j \in ConfigJobs
    PROVE  /\ j.s = None
           /\ j.op = "config_set" =>
                j \in [op : {"config_set"}, s : {None}, pc : {"check", "replace"}, data : Written]
           /\ j.op = "config_get" => j.pc \in {"read", "exists"}
  BY DEF ConfigJobs

LEMMA CatalogShape ==
    ASSUME NEW j \in CatalogJobs
    PROVE  /\ j.s = None
           /\ j.pc \in {"digest", "content"}
           /\ j.pc = "content" => j.digest \in RegistryDocs
  BY DEF CatalogJobs

\* The identity of a file that is there.
LEMMA IdentityProps ==
    ASSUME FileTypes, NEW s \in Sessions, files[s] # None
    PROVE  /\ source_identity(s) = <<s, files[s].data[2], files[s].mtime>>
           /\ source_identity(s) \in Identities
           /\ source_identity(s) # None
           /\ source_identity(s)[1] = s
           /\ files[s] \in FileStates
           /\ files[s].data \in Contents
<1>1. files[s] \in FileStates
  BY DEF FileTypes
<1>2. files[s].data \in Nat \X Nat /\ files[s].mtime \in Nat
  BY <1>1 DEF FileStates, Contents
<1>3. source_identity(s) = <<s, files[s].data[2], files[s].mtime>>
  BY DEF source_identity
<1>4. source_identity(s) \in Identities
  BY <1>2, <1>3 DEF Identities
<1>. QED BY <1>1, <1>2, <1>3, <1>4, StoreAssumption DEF Contents

LEMMA AppendedContents ==
    ASSUME NEW d \in Contents
    PROVE  [d EXCEPT ![2] = @ + 1] \in Contents
  BY DEF Contents

LEMMA RecreatedContents ==
    ASSUME NEW d \in Contents
    PROVE  <<d[1] + 1, 0>> \in Contents /\ <<1, 0>> \in Contents
  BY DEF Contents

-----------------------------------------------------------------------------
(* Types *)

\* Nothing removes a file.
FilesStay == \A s \in Sessions : files[s] # None => files'[s] # None

\* What a step leaves to the calls in progress: everything but their jobs.
Around == FileTypes' /\ FilesStay /\ DOMAIN known' = Procs
    /\ config' \in Written \cup ConfigFiles \cup {None} /\ registry' \in RegistryDocs \cup {None}

LEMMA NoCallMoves ==
    ASSUME McpTypes, Around, UNCHANGED <<job, answer>>, DOMAIN seen' = Procs
    PROVE  McpTypes'
<1>1. \A p \in Procs : job[p].op = "rebuild" => job[p].s \in Sessions
  BY JobShape, RebuildShape DEF McpTypes, CallTypes
<1>2. \A p \in Procs : job[p].op = "rebuild" => files'[job[p].s] # None
  BY <1>1 DEF McpTypes, CallTypes, Around, FilesStay
<1>. QED BY <1>2 DEF McpTypes, CallTypes, Around, Busy

LEMMA CallMoves ==
    ASSUME McpTypes, Around, DOMAIN seen' = Procs, NEW p \in Procs, NEW j \in Jobs, NEW a,
           job' = [job EXCEPT ![p] = j],
           \/ answer' = answer /\ Busy(p)
           \/ answer' = [answer EXCEPT ![p] = a] /\ (a = None \/ j = Idle),
           j.op = "rebuild" => files'[j.s] # None
    PROVE  McpTypes'
<1>1. \A q \in Procs : job[q].op = "rebuild" => files'[job[q].s] # None
  <2>1. \A q \in Procs : job[q].op = "rebuild" => job[q].s \in Sessions
    BY JobShape, RebuildShape DEF McpTypes, CallTypes
  <2>. QED BY <2>1 DEF McpTypes, CallTypes, Around, FilesStay
<1>2. job' \in [Procs -> Jobs]
  BY DEF McpTypes, CallTypes
<1>3. \A q \in Procs : job'[q] = IF q = p THEN j ELSE job[q]
  BY DEF McpTypes, CallTypes
<1>4. DOMAIN answer' = Procs
  BY DEF McpTypes, CallTypes
<1>5. \A q \in Procs : job'[q].op # "idle" => answer'[q] = None
  BY <1>3 DEF McpTypes, CallTypes, Busy, Idle
<1>. QED BY <1>1, <1>2, <1>3, <1>4, <1>5 DEF McpTypes, CallTypes, Around, Busy

\* The shape of a call, and the steps that end or advance it.
LEMMA BeginTypes ==
    ASSUME McpTypes, Around, NEW p \in Procs, NEW j \in Jobs, NEW facts, Begin(p, j, facts),
           j.op = "rebuild" => files'[j.s] # None
    PROVE  McpTypes'
<1>1. job' = [job EXCEPT ![p] = j] /\ answer' = [answer EXCEPT ![p] = None] /\ DOMAIN seen' = Procs
  BY DEF Begin, McpTypes, CallTypes
<1>. QED BY <1>1, CallMoves

LEMMA GotoTypes ==
    ASSUME McpTypes, Around, NEW p \in Procs, NEW j \in Jobs, Goto(p, j), Busy(p),
           j.op = "rebuild" => files'[j.s] # None
    PROVE  McpTypes'
<1>1. job' = [job EXCEPT ![p] = j] /\ answer' = answer /\ DOMAIN seen' = Procs
  BY DEF Goto, McpTypes, CallTypes
<1>. QED BY <1>1, CallMoves

LEMMA ReturnTypes ==
    ASSUME McpTypes, Around, NEW p \in Procs, NEW a, Return(p, a)
    PROVE  McpTypes'
<1>1. job' = [job EXCEPT ![p] = Idle] /\ answer' = [answer EXCEPT ![p] = a] /\ DOMAIN seen' = Procs
  BY DEF Return, McpTypes, CallTypes
<1>2. Idle \in Jobs /\ Idle.op # "rebuild"
  BY DEF Jobs, Idle
<1>. QED BY <1>1, <1>2, CallMoves

LEMMA InitTypes == Init => McpTypes
<1>. SUFFICES ASSUME Init PROVE McpTypes
  OBVIOUS
<1>1. files \in [Sessions -> FileStates \cup {None}] /\ clock \in Nat
  BY DEF Init, StoreInit, FileStates, Contents
<1>2. \A s \in Sessions : files[s] # None => files[s].data \in Contents /\ source_identity(s) \in Identities
  <2>. TAKE s \in Sessions
  <2>. HAVE files[s] # None
  <2>1. files[s] = [data |-> <<1, 1>>, mtime |-> 1]
    BY DEF Init, StoreInit
  <2>. QED BY <2>1 DEF Contents, Identities, source_identity
<1>3. held \subseteq Identities \X Contents
  BY <1>2 DEF Init, StoreInit
<1>4. indexes \in [Stems -> Documents \cup {None}]
  BY DEF Init, StoreInit
<1>5. job \in [Procs -> Jobs] /\ \A p \in Procs : job[p].op = "idle"
  BY DEF Init, StoreInit, Jobs, Idle
<1>. QED BY <1>1, <1>3, <1>4, <1>5 DEF Init, StoreInit, McpTypes, FileTypes, CallTypes, Busy

\* A step of a call leaves the files alone.
LEMMA FilesKept ==
    ASSUME McpTypes, UNCHANGED <<fileVars, indexes>>
    PROVE  FileTypes' /\ FilesStay
  BY DEF McpTypes, FileTypes, fileVars, FilesStay

LEMMA SetFileTypes ==
    ASSUME McpTypes, NEW s \in Sessions, NEW data \in Contents, SetFile(s, data),
           UNCHANGED <<clock, indexes, callVars, serverVars>>
    PROVE  McpTypes'
<1>1. [data |-> data, mtime |-> clock] \in FileStates
  BY DEF McpTypes, FileTypes, FileStates
<1>2. files' \in [Sessions -> FileStates \cup {None}] /\ FilesStay
  <2>1. [data |-> data, mtime |-> clock] # None
    BY <1>1, StoreAssumption
  <2>. QED BY <1>1, <2>1 DEF McpTypes, FileTypes, FilesStay, SetFile
<1>3. <<s, data[2], clock>> \in Identities
  BY DEF McpTypes, FileTypes, Identities, Contents
<1>4. held' \subseteq Identities \X Contents
  BY <1>3 DEF McpTypes, FileTypes, SetFile
<1>5. DOMAIN seen' = Procs
  BY DEF SetFile
<1>6. Around /\ UNCHANGED <<job, answer>>
  BY <1>2, <1>4 DEF Around, McpTypes, FileTypes, CallTypes, callVars, serverVars
<1>. QED BY <1>5, <1>6, NoCallMoves

\* Appending to a file and creating one give it a content.
LEMMA WriteStepContents ==
    ASSUME McpTypes, NEW s \in Sessions
    PROVE  /\ CreateSession(s) => \E data \in Contents : data[2] = 0 /\ SetFile(s, data)
           /\ AppendRecord(s) => \E data \in Contents : SetFile(s, data)
<1>1. files[s] # None => files[s].data \in Contents
  BY IdentityProps DEF McpTypes
<1>2. ASSUME CreateSession(s) PROVE \E data \in Contents : data[2] = 0 /\ SetFile(s, data)
  <2>. DEFINE d == IF files[s] = None THEN <<1, 0>> ELSE <<files[s].data[1] + 1, 0>>
  <2>1. d \in Contents /\ d[2] = 0
    BY <1>1, RecreatedContents DEF Contents
  <2>2. SetFile(s, d)
    BY <1>2 DEF CreateSession
  <2>. QED BY <2>1, <2>2
<1>3. ASSUME AppendRecord(s) PROVE \E data \in Contents : SetFile(s, data)
  <2>1. [files[s].data EXCEPT ![2] = @ + 1] \in Contents
    BY <1>1, <1>3, AppendedContents DEF AppendRecord
  <2>. QED BY <1>3, <2>1 DEF AppendRecord
<1>. QED BY <1>2, <1>3

LEMMA WriteTypes ==
    ASSUME McpTypes, WriteStep, UNCHANGED serverVars
    PROVE  McpTypes'
<1>1. CASE Tick
  <2>1. Around /\ UNCHANGED <<job, answer>> /\ DOMAIN seen' = Procs
    BY <1>1 DEF Tick, Around, McpTypes, FileTypes, CallTypes, FilesStay, callVars, serverVars
  <2>. QED BY <2>1, NoCallMoves
<1>2. ASSUME NEW s \in Sessions, CreateSession(s) \/ AppendRecord(s) PROVE McpTypes'
  <2>1. PICK data \in Contents : SetFile(s, data)
    BY <1>2, WriteStepContents
  <2>2. UNCHANGED <<clock, indexes, callVars, serverVars>>
    BY <1>2 DEF CreateSession, AppendRecord
  <2>. QED BY <2>1, <2>2, SetFileTypes
<1>. QED BY <1>1, <1>2 DEF WriteStep

LEMMA StoreStartTypes ==
    ASSUME McpTypes, NEW p \in Procs, StoreStart(p), UNCHANGED serverVars
    PROVE  McpTypes'
<1>1. UNCHANGED <<fileVars, indexes>>
  BY DEF StoreStart, StartIndexCall, StartList
<1>2. Around
  BY <1>1, FilesKept DEF Around, McpTypes, CallTypes, serverVars
<1>3. CASE StartList(p)
  <2>. DEFINE j == [op |-> "list", s |-> None, todo |-> {s \in Sessions : files[s] # None},
                    sessions |-> {}, errors |-> {}]
  <2>1. j \in Jobs /\ j.op # "rebuild"
    BY DEF Jobs, ListJobs
  <2>2. Begin(p, j, Facts(Sessions))
    BY <1>3 DEF StartList
  <2>. QED BY <1>2, <2>1, <2>2, BeginTypes
<1>4. CASE StartIndexCall(p)
  <2>1. PICK s \in Sessions :
            \/ files[s] # None /\ Begin(p, [op |-> "rebuild", s |-> s, pc |-> "before"], Facts({s}))
            \/ indexes[Stem(s)] # None /\ Begin(p, [op |-> "open", s |-> s, pc |-> "stat"], Facts({s}))
    BY <1>4 DEF StartIndexCall
  <2>2. /\ [op |-> "rebuild", s |-> s, pc |-> "before"] \in Jobs
        /\ [op |-> "open", s |-> s, pc |-> "stat"] \in Jobs
    BY DEF Jobs, RebuildJobs, OpenJobs
  <2>3. files' = files
    BY <1>1 DEF fileVars
  <2>4. CASE files[s] # None /\ Begin(p, [op |-> "rebuild", s |-> s, pc |-> "before"], Facts({s}))
    BY <1>2, <2>2, <2>3, <2>4, BeginTypes
  <2>5. CASE Begin(p, [op |-> "open", s |-> s, pc |-> "stat"], Facts({s}))
    BY <1>2, <2>2, <2>5, BeginTypes
  <2>. QED BY <2>1, <2>4, <2>5
<1>. QED BY <1>3, <1>4 DEF StoreStart

\* A call at one of these places is in progress, and has a session.
LEMMA AtShape ==
    ASSUME McpTypes, NEW p \in Procs
    PROVE  /\ \A pc \in {"before", "decode", "after", "write"} :
                At(p, pc) => job[p] \in RebuildJobs /\ job[p].op = "rebuild" /\ files[job[p].s] # None
           /\ \A pc \in {"stat", "load"} :
                At(p, pc) => job[p] \in OpenJobs /\ job[p].op = "open"
<1>1. job[p] \in Jobs
  BY DEF McpTypes, CallTypes
<1>2. job[p].op = "rebuild" => /\ job[p] \in RebuildJobs /\ files[job[p].s] # None
                               /\ job[p].pc \in {"before", "decode", "after", "write"}
  BY <1>1, JobShape, RebuildShape DEF McpTypes, CallTypes
<1>3. job[p].op = "open" => job[p] \in OpenJobs /\ job[p].pc \in {"stat", "load"}
  BY <1>1, JobShape, OpenShape
<1>. QED BY <1>2, <1>3 DEF At

LEMMA StoreStepTypes ==
    ASSUME McpTypes, NEW p \in Procs, StoreStep(p), UNCHANGED serverVars
    PROVE  McpTypes'
<1>. DEFINE s == job[p].s
<1>0. UNCHANGED fileVars /\ files' = files
  BY DEF StoreStep, StatSource, LoadIndex, StatBefore, Decode, StatAfter, Publish, ListNext, ListEnd, fileVars
<1>1. ASSUME UNCHANGED indexes PROVE Around
  BY <1>0, <1>1, FilesKept DEF Around, McpTypes, CallTypes, serverVars
<1>2. CASE StatSource(p)
  <2>1. Around /\ job[p] \in OpenJobs /\ s \in Sessions /\ job[p].op = "open" /\ Busy(p)
    BY <1>1, <1>2, AtShape, OpenShape DEF StatSource, Busy
  <2>2. CASE source_identity(s) = None
    BY <1>2, <2>1, <2>2, ReturnTypes DEF StatSource
  <2>3. CASE source_identity(s) # None
    <3>. DEFINE j == [op |-> job[p].op, s |-> s, pc |-> "load", id |-> source_identity(s)]
    <3>1. source_identity(s) \in Identities
      BY <2>1, <2>3, IdentityProps DEF source_identity, McpTypes
    <3>2. j \in Jobs /\ j.op # "rebuild"
      BY <2>1, <3>1 DEF Jobs, OpenJobs
    <3>3. Goto(p, j)
      BY <1>2, <2>3 DEF StatSource
    <3>. QED BY <2>1, <3>2, <3>3, GotoTypes
  <2>. QED BY <2>2, <2>3
<1>3. CASE LoadIndex(p)
  BY <1>1, <1>3, ReturnTypes DEF LoadIndex
<1>4. CASE StatBefore(p)
  <2>1. Around /\ job[p] \in RebuildJobs /\ s \in Sessions /\ files[s] # None /\ Busy(p)
    BY <1>1, <1>4, AtShape, RebuildShape DEF StatBefore, Busy
  <2>. DEFINE j == [op |-> "rebuild", s |-> s, pc |-> "decode", id |-> source_identity(s)]
  <2>2. j \in Jobs
    BY <2>1, IdentityProps DEF Jobs, RebuildJobs, McpTypes
  <2>3. Goto(p, j)
    BY <1>4 DEF StatBefore
  <2>. QED BY <1>0, <2>1, <2>2, <2>3, GotoTypes
<1>5. CASE Decode(p)
  <2>1. /\ Around /\ job[p] \in RebuildJobs /\ s \in Sessions /\ files[s] # None /\ Busy(p)
        /\ job[p].id \in Identities
    BY <1>1, <1>5, AtShape, RebuildShape DEF Decode, Busy, At
  <2>2. CASE Decodes(s)
    <3>. DEFINE j == [op |-> "rebuild", s |-> s, pc |-> "after", id |-> job[p].id, data |-> files[s].data]
    <3>1. j \in Jobs
      BY <2>1, IdentityProps DEF Jobs, RebuildJobs, McpTypes
    <3>2. Goto(p, j)
      BY <1>5, <2>2 DEF Decode
    <3>. QED BY <1>0, <2>1, <3>1, <3>2, GotoTypes
  <2>3. CASE ~Decodes(s)
    BY <1>5, <2>1, <2>3, ReturnTypes DEF Decode
  <2>. QED BY <2>2, <2>3
<1>6. CASE StatAfter(p)
  <2>1. /\ Around /\ s \in Sessions /\ files[s] # None /\ Busy(p)
        /\ job[p] \in [op : {"rebuild"}, s : Sessions, pc : {"after", "write"}, id : Identities, data : Contents]
    BY <1>1, <1>6, AtShape, RebuildShape DEF StatAfter, Busy, At
  <2>2. CASE source_identity(s) = job[p].id
    <3>. DEFINE j == [job[p] EXCEPT !.pc = "write"]
    <3>1. j \in Jobs /\ j.s = s
      BY <2>1 DEF Jobs, RebuildJobs
    <3>2. Goto(p, j)
      BY <1>6, <2>2 DEF StatAfter
    <3>. QED BY <1>0, <2>1, <3>1, <3>2, GotoTypes
  <2>3. CASE source_identity(s) # job[p].id
    BY <1>6, <2>1, <2>3, ReturnTypes DEF StatAfter
  <2>. QED BY <2>2, <2>3
<1>7. CASE Publish(p)
  <2>1. /\ s \in Sessions
        /\ job[p] \in [op : {"rebuild"}, s : Sessions, pc : {"after", "write"}, id : Identities, data : Contents]
    BY <1>7, AtShape, RebuildShape DEF Publish, At
  <2>2. build_document(job[p]) \in Documents
    BY <2>1 DEF build_document, Documents
  <2>3. indexes' \in [Stems -> Documents \cup {None}]
    BY <1>7, <2>1, <2>2 DEF Publish, Stems, McpTypes, FileTypes
  <2>4. Around
    BY <1>0, <2>3 DEF Around, McpTypes, FileTypes, CallTypes, FilesStay, serverVars, fileVars
  <2>. QED BY <1>7, <2>4, ReturnTypes DEF Publish
<1>8. CASE ListNext(p)
  <2>1. Around /\ job[p] \in ListJobs /\ Busy(p)
    BY <1>1, <1>8, JobShape, SMTT(60) DEF ListNext, Busy, McpTypes, CallTypes
  <2>2. PICK t \in job[p].todo :
            IF DecodeRaises(p, t) THEN Return(p, Error(p, "Raised"))
            ELSE Goto(p, IF Decodes(t)
                         THEN [job[p] EXCEPT !.todo = @ \ {t}, !.sessions = @ \cup {<<t, files[t].data>>}]
                         ELSE [job[p] EXCEPT !.todo = @ \ {t}, !.errors = @ \cup {t}])
    BY <1>8 DEF ListNext
  <2>3. t \in Sessions
    BY <2>1 DEF ListJobs
  <2>4. CASE DecodeRaises(p, t)
    BY <2>1, <2>2, <2>4, ReturnTypes
  <2>5. CASE ~DecodeRaises(p, t) /\ Decodes(t)
    <3>. DEFINE j == [job[p] EXCEPT !.todo = @ \ {t}, !.sessions = @ \cup {<<t, files[t].data>>}]
    <3>1. files[t].data \in Contents
      BY <2>3, <2>5, IdentityProps DEF Decodes, McpTypes
    <3>2. j \in ListJobs /\ j.op # "rebuild"
      <4>1. job[p].sessions \cup {<<t, files[t].data>>} \in SUBSET (Sessions \X Contents)
        BY <2>1, <2>3, <3>1 DEF ListJobs
      <4>2. job[p].todo \ {t} \in SUBSET Sessions
        BY <2>1 DEF ListJobs
      <4>. QED BY <2>1, <4>1, <4>2 DEF ListJobs
    <3>. QED BY <2>1, <2>2, <2>5, <3>2, GotoTypes DEF Jobs
  <2>6. CASE ~DecodeRaises(p, t) /\ ~Decodes(t)
    <3>. DEFINE j == [job[p] EXCEPT !.todo = @ \ {t}, !.errors = @ \cup {t}]
    <3>1. j \in ListJobs /\ j.op # "rebuild"
      BY <2>1, <2>3 DEF ListJobs
    <3>. QED BY <2>1, <2>2, <2>6, <3>1, GotoTypes DEF Jobs
  <2>. QED BY <2>4, <2>5, <2>6
<1>9. CASE ListEnd(p)
  BY <1>1, <1>9, ReturnTypes DEF ListEnd
<1>. QED BY <1>2, <1>3, <1>4, <1>5, <1>6, <1>7, <1>8, <1>9, SMTT(60) DEF StoreStep

LEMMA ToolStartTypes ==
    ASSUME McpTypes, NEW p \in Procs, StartConfigSet(p) \/ StartConfigGet(p) \/ StartCatalog(p)
    PROVE  McpTypes'
<1>1. PICK j : /\ StartToolCall(p, j) /\ j.op # "rebuild"
               /\ \/ j \in [op : {"config_set"}, s : {None}, pc : {"check", "replace"}, data : Written]
                  \/ j \in [op : {"config_get"}, s : {None}, pc : {"read"}]
                  \/ j \in [op : {"catalog"}, s : {None}, pc : {"digest"}]
  <2>1. CASE StartConfigSet(p)
    <3>1. PICK cfg \in ConfigInputs :
            StartToolCall(p, [op |-> "config_set", s |-> None, pc |-> "check", data |-> Updated(cfg)])
      BY <2>1 DEF StartConfigSet
    <3>2. Updated(cfg) \in Written
      BY DEF Written
    <3>. QED BY <3>1, <3>2
  <2>2. CASE StartConfigGet(p)
    BY <2>2 DEF StartConfigGet
  <2>3. CASE StartCatalog(p)
    BY <2>3 DEF StartCatalog
  <2>. QED BY <2>1, <2>2, <2>3
<1>2. j \in Jobs
  BY <1>1 DEF Jobs, ConfigJobs, CatalogJobs
<1>3. Around
  BY <1>1, FilesKept DEF StartToolCall, Around, McpTypes, CallTypes
<1>. QED BY <1>1, <1>2, <1>3, BeginTypes DEF StartToolCall

LEMMA ToolStepTypes ==
    ASSUME McpTypes, NEW p \in Procs,
           \/ CheckConfig(p) \/ ReplaceConfig(p) \/ get_or_default(p) \/ ConfigExists(p)
           \/ sha256_file(p) \/ load_registry(p)
    PROVE  McpTypes'
<1>1. UNCHANGED <<fileVars, indexes, registry>>
  BY DEF CheckConfig, ReplaceConfig, get_or_default, ConfigExists, sha256_file, load_registry, CallStep
<1>2. job[p] \in Jobs
  BY DEF McpTypes, CallTypes
<1>3. ASSUME UNCHANGED <<config, known>> PROVE Around
  BY <1>1, <1>3, FilesKept DEF Around, McpTypes, CallTypes
<1>4. CASE CheckConfig(p)
  <2>1. Around /\ Busy(p)
    BY <1>3, <1>4 DEF CheckConfig, Busy
  <2>2. [job[p] EXCEPT !.pc = "replace"] \in Jobs /\ [job[p] EXCEPT !.pc = "replace"].op # "rebuild"
    <3>1. job[p] \in [op : {"config_set"}, s : {None}, pc : {"check", "replace"}, data : Written]
      BY <1>2, <1>4, JobShape, ConfigShape DEF CheckConfig
    <3>. QED BY <3>1 DEF Jobs, ConfigJobs
  <2>. QED BY <1>4, <2>1, <2>2, GotoTypes, ReturnTypes DEF CheckConfig
<1>5. CASE ReplaceConfig(p)
  <2>1. job[p].data \in Written
    BY <1>2, <1>5, JobShape, ConfigShape DEF ReplaceConfig
  <2>2. Around
    BY <1>1, <1>5, <2>1, FilesKept DEF Around, McpTypes, CallTypes, ReplaceConfig, Observe
  <2>. QED BY <1>5, <2>2, ReturnTypes DEF ReplaceConfig
<1>6. CASE get_or_default(p)
  <2>1. Around /\ Busy(p)
    BY <1>3, <1>6 DEF get_or_default, Busy
  <2>2. CASE config # None /\ ~validate_config(config)
    BY <1>6, <2>1, <2>2, ReturnTypes DEF get_or_default
  <2>3. CASE ~(config # None /\ ~validate_config(config))
    <3>. DEFINE d == IF config = None THEN default_config ELSE config
                j == [op |-> "config_get", s |-> None, pc |-> "exists", data |-> d]
    <3>1. d \in Written \cup ConfigFiles \cup {default_config}
      BY DEF McpTypes, CallTypes
    <3>2. Goto(p, j)
      BY <1>6, <2>3 DEF get_or_default
    <3>. HIDE DEF d
    <3>3. j \in Jobs /\ j.op # "rebuild"
      BY <3>1 DEF Jobs, ConfigJobs
    <3>. QED BY <2>1, <3>2, <3>3, GotoTypes
  <2>. QED BY <2>2, <2>3
<1>7. CASE ConfigExists(p)
  BY <1>3, <1>7, ReturnTypes DEF ConfigExists
<1>8. CASE sha256_file(p)
  <2>1. Around /\ Busy(p)
    BY <1>3, <1>8 DEF sha256_file, Busy
  <2>2. CASE registry = None
    BY <1>8, <2>1, <2>2, ReturnTypes DEF sha256_file
  <2>3. CASE registry # None
    <3>. DEFINE j == [op |-> "catalog", s |-> None, pc |-> "content", digest |-> registry]
    <3>1. registry \in RegistryDocs
      BY <2>3 DEF McpTypes, CallTypes
    <3>2. j \in Jobs /\ j.op # "rebuild"
      BY <3>1 DEF Jobs, CatalogJobs
    <3>3. Goto(p, j)
      BY <1>8, <2>3 DEF sha256_file
    <3>. QED BY <2>1, <3>2, <3>3, GotoTypes
  <2>. QED BY <2>2, <2>3
<1>9. CASE load_registry(p)
  BY <1>3, <1>9, ReturnTypes DEF load_registry
<1>. QED BY <1>4, <1>5, <1>6, <1>7, <1>8, <1>9

LEMMA KillTypes ==
    ASSUME McpTypes, NEW p \in Procs, Kill(p)
    PROVE  McpTypes'
<1>1. Around /\ DOMAIN seen' = Procs
  BY DEF Kill, Around, McpTypes, FileTypes, CallTypes, FilesStay
<1>2. job' = [job EXCEPT ![p] = Idle] /\ answer' = [answer EXCEPT ![p] = None]
  BY DEF Kill
<1>3. Idle \in Jobs /\ Idle.op # "rebuild"
  BY DEF Jobs, Idle
<1>. QED BY <1>1, <1>2, <1>3, CallMoves

LEMMA OtherTypes ==
    ASSUME McpTypes, EditFile \/ \E p \in Procs : signal_handler(p)
    PROVE  McpTypes'
<1>1. DOMAIN seen' = Procs /\ UNCHANGED <<job, answer, files, clock, held, indexes>>
  BY DEF EditFile, signal_handler, McpTypes, CallTypes, callVars
<1>2. DOMAIN known' = Procs
  BY DEF EditFile, signal_handler, McpTypes, CallTypes, Observe
<1>3. config' \in Written \cup ConfigFiles \cup {None} /\ registry' \in RegistryDocs \cup {None}
  BY DEF EditFile, signal_handler, McpTypes, CallTypes
<1>4. Around
  BY <1>1, <1>2, <1>3 DEF Around, McpTypes, FileTypes, FilesStay
<1>. QED BY <1>1, <1>4, NoCallMoves

\* The kinds of step a behaviour takes.
LEMMA NextSteps ==
    ASSUME Next
    PROVE  \/ WriteStep /\ UNCHANGED serverVars
           \/ EditFile
           \/ \E p \in Procs :
                \/ StoreStart(p) /\ UNCHANGED serverVars
                \/ StoreStep(p) /\ UNCHANGED serverVars
                \/ StartConfigSet(p) \/ StartConfigGet(p) \/ StartCatalog(p)
                \/ CheckConfig(p) \/ ReplaceConfig(p) \/ get_or_default(p) \/ ConfigExists(p)
                \/ sha256_file(p) \/ load_registry(p)
                \/ Kill(p) \/ signal_handler(p)
  BY DEF Next, Request, ServeStep

LEMMA StepTypes == McpTypes /\ [Next]_vars => McpTypes'
<1>. SUFFICES ASSUME McpTypes, [Next]_vars PROVE McpTypes'
  OBVIOUS
<1>1. CASE UNCHANGED vars
  BY <1>1 DEF vars, storeVars, serverVars, fileVars, callVars, McpTypes, FileTypes, CallTypes, Busy
<1>2. CASE Next
  BY <1>2, NextSteps, WriteTypes, StoreStartTypes, StoreStepTypes, ToolStartTypes, ToolStepTypes,
     KillTypes, OtherTypes
<1>. QED BY <1>1, <1>2

\* The server's calls keep the shape of where they are in the code, and a
\* rebuild only runs on a file that exists.
THEOREM McpTypeCorrect == Spec => []McpTypes
  BY InitTypes, StepTypes, PTL DEF Spec

-----------------------------------------------------------------------------
(* Indexes and what the calls on the store answer *)

\* A step of one call touches only that call, and no file.
LEMMA OneCall ==
    ASSUME McpTypes, StoreInv, UNCHANGED <<files, held, reentered>>, NEW p \in Procs,
           \A q \in Procs \ {p} : job'[q] = job[q] /\ seen'[q] = seen[q] /\ answer'[q] = answer[q],
           \A x \in Stems : indexes[x] # None => indexes'[x] # None,
           IndexTrue', StoreCallTrue(p)', StoreAnswerTrue(p)'
    PROVE  StoreInv'
<1>1. HeldTrue' /\ HeldOnce'
  BY DEF StoreInv, HeldTrue, HeldOnce, source_identity
<1>2. ASSUME NEW q \in Procs \ {p} PROVE StoreCallTrue(q)'
  <2>1. job'[q] = job[q] /\ seen'[q] = seen[q] /\ StoreCallTrue(q)
    BY DEF StoreInv
  <2>2. SeenNow(q)' /\ RebuildTrue(q)' /\ ListTrue(q)'
    BY <2>1 DEF StoreCallTrue, SeenNow, RebuildTrue, ListTrue, source_identity
  <2>3. OpenTrue(q)'
    <3>1. job[q].op = "open" => Stem(job[q].s) \in Stems
      BY JobShape, OpenShape DEF McpTypes, CallTypes, Stems
    <3>. QED BY <2>1, <3>1 DEF StoreCallTrue, OpenTrue
  <2>. QED BY <2>2, <2>3 DEF StoreCallTrue
<1>3. ASSUME NEW q \in Procs \ {p} PROVE StoreAnswerTrue(q)'
  <2>1. answer'[q] = answer[q] /\ seen'[q] = seen[q] /\ StoreAnswerTrue(q)
    BY DEF StoreInv
  <2>. QED BY <2>1 DEF StoreAnswerTrue, IndexAnswerTrue, ListingTrue
<1>. QED BY <1>1, <1>2, <1>3 DEF StoreInv

\* A call that is not on the store has nothing to say here.
LEMMA OffStore ==
    ASSUME NEW p \in Procs, job[p].op \notin StoreOps
    PROVE  StoreCallTrue(p)
  BY DEF StoreOps, StoreCallTrue, SeenNow, RebuildTrue, OpenTrue, ListTrue

LEMMA StoreReturn ==
    ASSUME McpTypes, StoreInv, UNCHANGED fileVars, NEW p \in Procs, NEW a, Return(p, a),
           \A x \in Stems : indexes[x] # None => indexes'[x] # None, IndexTrue',
           IndexAnswerTrue(p, a) /\ ListingTrue(p, a)
    PROVE  StoreInv'
<1>1. UNCHANGED <<files, held, reentered, seen>>
  BY DEF fileVars, Return
<1>2. /\ \A q \in Procs \ {p} : job'[q] = job[q] /\ seen'[q] = seen[q] /\ answer'[q] = answer[q]
      /\ job'[p] = Idle /\ answer'[p] = a
  BY DEF Return, McpTypes, CallTypes
<1>3. StoreCallTrue(p)'
  BY <1>2 DEF Idle, StoreOps, StoreCallTrue, SeenNow, RebuildTrue, OpenTrue, ListTrue
<1>4. StoreAnswerTrue(p)'
  BY <1>1, <1>2 DEF StoreAnswerTrue, IndexAnswerTrue, ListingTrue
<1>. QED BY <1>1, <1>2, <1>3, <1>4, OneCall

\* ... when the indexes stay as they are.
LEMMA StoreReturnOnly ==
    ASSUME McpTypes, StoreInv, UNCHANGED <<fileVars, indexes>>, NEW p \in Procs, NEW a, Return(p, a),
           IndexAnswerTrue(p, a) /\ ListingTrue(p, a)
    PROVE  StoreInv'
<1>1. IndexTrue'
  BY DEF fileVars, StoreInv, IndexTrue
<1>. QED BY <1>1, StoreReturn

LEMMA StoreGoto ==
    ASSUME McpTypes, StoreInv, UNCHANGED <<fileVars, indexes>>, NEW p \in Procs, NEW j, Goto(p, j),
           StoreCallTrue(p)'
    PROVE  StoreInv'
<1>1. UNCHANGED <<files, held, reentered, indexes, answer, seen>>
  BY DEF fileVars, Goto
<1>2. \A q \in Procs \ {p} : job'[q] = job[q]
  BY DEF Goto, McpTypes, CallTypes
<1>3. IndexTrue' /\ StoreAnswerTrue(p)'
  BY <1>1 DEF StoreInv, IndexTrue, StoreAnswerTrue, IndexAnswerTrue, ListingTrue
<1>. QED BY <1>1, <1>2, <1>3, OneCall

LEMMA StoreBegin ==
    ASSUME McpTypes, StoreInv, UNCHANGED <<fileVars, indexes>>, NEW p \in Procs, NEW j, NEW facts,
           Begin(p, j, facts), StoreCallTrue(p)'
    PROVE  StoreInv'
<1>1. UNCHANGED <<files, held, reentered, indexes>>
  BY DEF fileVars
<1>2. /\ \A q \in Procs \ {p} : job'[q] = job[q] /\ seen'[q] = seen[q] /\ answer'[q] = answer[q]
      /\ answer'[p] = None
  BY DEF Begin, McpTypes, CallTypes
<1>3. IndexTrue' /\ StoreAnswerTrue(p)'
  BY <1>1, <1>2 DEF StoreInv, IndexTrue, StoreAnswerTrue
<1>. QED BY <1>1, <1>2, <1>3, OneCall

\* Steps that touch neither the store nor a call.
LEMMA NoStoreStep ==
    ASSUME StoreInv, UNCHANGED <<files, held, reentered, indexes, job, answer, seen>>
    PROVE  StoreInv'
  BY DEF StoreInv, HeldTrue, HeldOnce, IndexTrue, StoreCallTrue, SeenNow, RebuildTrue, OpenTrue, ListTrue,
     StoreAnswerTrue, IndexAnswerTrue, ListingTrue, source_identity

LEMMA InitStore == Init => StoreInv
<1>. SUFFICES ASSUME Init PROVE StoreInv
  OBVIOUS
<1>1. HeldTrue
  BY DEF Init, StoreInit, HeldTrue
<1>2. HeldOnce
  <2>. SUFFICES ASSUME NEW g \in held, NEW h \in held, g[1] = h[1] PROVE g[2] = h[2]
    BY DEF HeldOnce
  <2>1. \A s \in Sessions : files[s] # None => files[s].data = <<1, 1>>
    BY DEF Init, StoreInit
  <2>. QED BY <2>1 DEF Init, StoreInit
<1>3. IndexTrue
  BY DEF Init, StoreInit, IndexTrue
<1>4. \A p \in Procs : StoreAnswerTrue(p) /\ job[p].op = "idle"
  BY DEF Init, StoreInit, StoreAnswerTrue, Idle
<1>. QED BY <1>1, <1>2, <1>3, <1>4, OffStore DEF StoreInv, StoreOps

LEMMA SetFileStore ==
    ASSUME McpTypes, StoreInv, NEW s \in Sessions, NEW data \in Contents, SetFile(s, data),
           UNCHANGED <<indexes, job, answer>>
    PROVE  StoreInv'
<1>. DEFINE id == <<s, data[2], clock>>
<1>1. /\ \A t \in Sessions \ {s} : files'[t] = files[t]
      /\ files'[s] = [data |-> data, mtime |-> clock] /\ files'[s] # None
  <2>1. [data |-> data, mtime |-> clock] \in FileStates
    BY DEF McpTypes, FileTypes, FileStates
  <2>. QED BY <2>1, StoreAssumption DEF SetFile, McpTypes, FileTypes
<1>2. /\ \A t \in Sessions \ {s} : source_identity(t)' = source_identity(t)
      /\ source_identity(s)' = id
  BY <1>1 DEF source_identity
<1>3. held' = held \cup {<<id, data>>}
  BY DEF SetFile
<1>4. reentered \subseteq reentered' /\ ((\E h \in held : h[1] = id) => id \in reentered')
  BY DEF SetFile
<1>5. \A p \in Procs : seen[p] \subseteq seen'[p]
  BY DEF SetFile
<1>5a. \A p \in Procs : job[p].op # "idle" /\ job[p].s \in {s, None} => <<s, data>> \in seen'[p]
  BY DEF SetFile, Busy
<1>. HIDE DEF id
<1>6. HeldTrue'
  <2>. SUFFICES ASSUME NEW t \in Sessions, files'[t] # None
               PROVE <<source_identity(t)', files'[t].data>> \in held'
    BY DEF HeldTrue
  <2>1. CASE t = s
    BY <1>1, <1>2, <1>3, <2>1
  <2>2. CASE t # s
    BY <1>1, <1>2, <1>3, <2>2 DEF StoreInv, HeldTrue
  <2>. QED BY <2>1, <2>2
<1>7. HeldOnce'
  <2>. SUFFICES ASSUME NEW g \in held', NEW h \in held', g[1] = h[1]
               PROVE g[2] = h[2] \/ g[1] \in reentered'
    BY DEF HeldOnce
  <2>1. CASE g \in held /\ h \in held
    BY <1>4, <2>1 DEF StoreInv, HeldOnce
  <2>2. CASE g \notin held \/ h \notin held
    BY <1>3, <1>4, <2>2
  <2>. QED BY <2>1, <2>2
<1>8. IndexTrue'
  BY <1>3, <1>4 DEF StoreInv, IndexTrue
<1>9. ASSUME NEW p \in Procs PROVE StoreCallTrue(p)' /\ StoreAnswerTrue(p)'
  <2>0. StoreCallTrue(p) /\ StoreAnswerTrue(p) /\ seen[p] \subseteq seen'[p]
    BY <1>5 DEF StoreInv
  <2>1. SeenNow(p)'
    <3>. SUFFICES ASSUME job[p].op \in StoreOps, NEW t \in Sessions, files'[t] # None, job[p].s \in {t, None}
                 PROVE <<t, files'[t].data>> \in seen'[p]
      BY DEF SeenNow
    <3>1. CASE t = s
      BY <1>1, <1>5a, <3>1 DEF StoreOps
    <3>2. CASE t # s
      BY <1>1, <2>0, <3>2 DEF StoreCallTrue, SeenNow
    <3>. QED BY <3>1, <3>2
  <2>2. RebuildTrue(p)'
    <3>. SUFFICES ASSUME job[p].op = "rebuild" PROVE RebuildTrue(p)'
      BY DEF RebuildTrue
    <3>. DEFINE j == job[p]
    <3>1. j \in RebuildJobs /\ j.s \in Sessions /\ RebuildTrue(p)
      BY <2>0, JobShape, RebuildShape DEF McpTypes, CallTypes, StoreCallTrue
    <3>2. j.pc \in {"decode", "after", "write"} => j.id[1] = j.s /\ \E h \in held : h[1] = j.id
      BY <3>1 DEF RebuildTrue
    <3>3. j.pc = "after" => <<j.id, j.data>> \in held' \/ j.id \in reentered' \/ source_identity(j.s)' # j.id
      BY <1>2, <1>3, <1>4, <3>1, <3>2 DEF RebuildTrue
    <3>4. j.pc = "write" => <<j.id, j.data>> \in held' \/ j.id \in reentered'
      BY <1>3, <1>4, <3>1 DEF RebuildTrue
    <3>5. j.pc \in {"after", "write"} => <<j.s, j.data>> \in seen'[p]
      BY <2>0, <3>1 DEF RebuildTrue
    <3>6. j.pc \in {"decode", "after", "write"} => j.id[1] = j.s /\ \E h \in held' : h[1] = j.id
      BY <1>3, <3>2
    <3>. QED BY <3>3, <3>4, <3>5, <3>6 DEF RebuildTrue
  <2>3. OpenTrue(p)'
    BY <1>3, <2>0 DEF StoreCallTrue, OpenTrue
  <2>4. ListTrue(p)'
    <3>. SUFFICES ASSUME job[p].op = "list" PROVE ListTrue(p)'
      BY DEF ListTrue
    <3>1. job[p].todo \subseteq Sessions
      BY JobShape DEF McpTypes, CallTypes, ListJobs
    <3>2. \A t \in job[p].todo : files'[t] # None
      BY <1>1, <2>0, <3>1 DEF StoreCallTrue, ListTrue
    <3>. QED BY <2>0, <3>2 DEF StoreCallTrue, ListTrue
  <2>5. StoreAnswerTrue(p)'
    BY <1>4, <2>0 DEF StoreAnswerTrue, IndexAnswerTrue, ListingTrue
  <2>. QED BY <2>1, <2>2, <2>3, <2>4, <2>5 DEF StoreCallTrue
<1>. QED BY <1>6, <1>7, <1>8, <1>9 DEF StoreInv

LEMMA WriteStore ==
    ASSUME McpTypes, StoreInv, WriteStep
    PROVE  StoreInv'
<1>1. CASE Tick
  BY <1>1, NoStoreStep DEF Tick, callVars
<1>2. ASSUME NEW s \in Sessions, CreateSession(s) \/ AppendRecord(s) PROVE StoreInv'
  <2>1. PICK data \in Contents : SetFile(s, data)
    BY <1>2, WriteStepContents
  <2>2. UNCHANGED <<indexes, job, answer>>
    BY <1>2 DEF CreateSession, AppendRecord, callVars
  <2>. QED BY <2>1, <2>2, SetFileStore
<1>. QED BY <1>1, <1>2 DEF WriteStep

\* A call starts with the facts about the files it is about.
LEMMA BeginSeen ==
    ASSUME McpTypes, NEW p \in Procs, NEW j, NEW ss, Begin(p, j, Facts(ss)), files' = files,
           \A s \in Sessions : j.s \in {s, None} => s \in ss
    PROVE  SeenNow(p)' /\ job'[p] = j
<1>1. job'[p] = j /\ seen'[p] = Facts(ss)
  BY DEF Begin, McpTypes, CallTypes
<1>2. \A s \in Sessions : files[s] # None /\ j.s \in {s, None} => <<s, files[s].data>> \in Facts(ss)
  BY DEF Facts
<1>. QED BY <1>1, <1>2 DEF SeenNow

LEMMA StoreStartStore ==
    ASSUME McpTypes, StoreInv, NEW p \in Procs, StoreStart(p)
    PROVE  StoreInv'
<1>1. UNCHANGED <<fileVars, indexes>> /\ files' = files
  BY DEF StoreStart, StartIndexCall, StartList, fileVars
<1>2. CASE StartList(p)
  <2>. DEFINE j == [op |-> "list", s |-> None, todo |-> {s \in Sessions : files[s] # None},
                    sessions |-> {}, errors |-> {}]
  <2>1. Begin(p, j, Facts(Sessions))
    BY <1>2 DEF StartList
  <2>2. SeenNow(p)' /\ job'[p] = j
    BY <1>1, <2>1, BeginSeen
  <2>3. RebuildTrue(p)' /\ OpenTrue(p)' /\ ListTrue(p)'
    BY <1>1, <2>2 DEF RebuildTrue, OpenTrue, ListTrue
  <2>. QED BY <1>1, <2>1, <2>2, <2>3, StoreBegin DEF StoreCallTrue
<1>3. CASE StartIndexCall(p)
  <2>1. PICK s \in Sessions :
            \/ files[s] # None /\ Begin(p, [op |-> "rebuild", s |-> s, pc |-> "before"], Facts({s}))
            \/ indexes[Stem(s)] # None /\ Begin(p, [op |-> "open", s |-> s, pc |-> "stat"], Facts({s}))
    BY <1>3 DEF StartIndexCall
  <2>. DEFINE jr == [op |-> "rebuild", s |-> s, pc |-> "before"]
              jo == [op |-> "open", s |-> s, pc |-> "stat"]
  <2>2. CASE Begin(p, jr, Facts({s}))
    <3>1. SeenNow(p)' /\ job'[p] = jr
      <4>1. \A t \in Sessions : jr.s \in {t, None} => t \in {s}
        BY StoreAssumption
      <4>. QED BY <1>1, <2>2, <4>1, BeginSeen
    <3>2. RebuildTrue(p)' /\ OpenTrue(p)' /\ ListTrue(p)'
      BY <3>1 DEF RebuildTrue, OpenTrue, ListTrue
    <3>. QED BY <1>1, <2>2, <3>1, <3>2, StoreBegin DEF StoreCallTrue
  <2>3. CASE indexes[Stem(s)] # None /\ Begin(p, jo, Facts({s}))
    <3>1. SeenNow(p)' /\ job'[p] = jo
      <4>1. \A t \in Sessions : jo.s \in {t, None} => t \in {s}
        BY StoreAssumption
      <4>. QED BY <1>1, <2>3, <4>1, BeginSeen
    <3>2. RebuildTrue(p)' /\ OpenTrue(p)' /\ ListTrue(p)'
      BY <1>1, <2>3, <3>1 DEF RebuildTrue, OpenTrue, ListTrue
    <3>. QED BY <1>1, <2>3, <3>1, <3>2, StoreBegin DEF StoreCallTrue
  <2>. QED BY <2>1, <2>2, <2>3
<1>. QED BY <1>2, <1>3 DEF StoreStart

\* The steps of a call on the store, one by one.
LEMMA StatSourceStore ==
    ASSUME McpTypes, StoreInv, NEW p \in Procs, StatSource(p)
    PROVE  StoreInv'
<1>. DEFINE s == job[p].s
            id == source_identity(s)
            j == [op |-> job[p].op, s |-> s, pc |-> "load", id |-> id]
<1>1. job[p].op = "open" /\ s \in Sessions /\ UNCHANGED <<fileVars, indexes>>
  BY AtShape, OpenShape DEF StatSource
<1>2. CASE id = None
  <2>1. Return(p, Error(p, "Io"))
    BY <1>2 DEF StatSource
  <2>2. IndexAnswerTrue(p, Error(p, "Io")) /\ ListingTrue(p, Error(p, "Io"))
    BY <1>1 DEF IndexAnswerTrue, ListingTrue, Error
  <2>. QED BY <1>1, <2>1, <2>2, StoreReturnOnly
<1>3. CASE id # None
  <2>1. Goto(p, j)
    BY <1>3 DEF StatSource
  <2>2. job'[p] = j /\ seen' = seen /\ UNCHANGED <<files, held, indexes>>
    BY <1>1, <2>1 DEF Goto, McpTypes, CallTypes, fileVars
  <2>3. files[s] # None
    BY <1>3 DEF source_identity
  <2>4. id[1] = s /\ <<id, files[s].data>> \in held /\ <<s, files[s].data>> \in seen[p]
    BY <1>1, <2>3, IdentityProps DEF McpTypes, StoreInv, HeldTrue, StoreCallTrue, SeenNow, StoreOps
  <2>5. indexes[Stem(s)] # None
    BY <1>1 DEF StoreInv, StoreCallTrue, OpenTrue
  <2>6. SeenNow(p)'
    BY <1>1, <2>2 DEF StoreInv, StoreCallTrue, SeenNow, StoreOps
  <2>. HIDE DEF id
  <2>7. \E h \in held : h[1] = id /\ <<s, h[2]>> \in seen[p]
    BY <2>4
  <2>8. RebuildTrue(p)' /\ OpenTrue(p)' /\ ListTrue(p)'
    <3>1. job'[p].op = "open" /\ job'[p].s = s /\ job'[p].id = id
      BY <1>1, <2>2
    <3>2. RebuildTrue(p)' /\ ListTrue(p)'
      BY <3>1 DEF RebuildTrue, ListTrue
    <3>. QED BY <2>2, <2>4, <2>5, <2>7, <3>1, <3>2 DEF OpenTrue
  <2>. QED BY <1>1, <2>1, <2>6, <2>8, StoreGoto DEF StoreCallTrue
<1>. QED BY <1>2, <1>3

LEMMA LoadIndexStore ==
    ASSUME McpTypes, StoreInv, NEW p \in Procs, LoadIndex(p)
    PROVE  StoreInv'
<1>. DEFINE s == job[p].s
            doc == indexes[Stem(s)]
<1>1. /\ job[p].op = "open" /\ job[p].pc = "load" /\ s \in Sessions
      /\ UNCHANGED <<fileVars, indexes>>
  BY AtShape, OpenShape DEF LoadIndex, At
<1>2. /\ doc # None /\ job[p].id[1] = s /\ Stem(s) \in Stems
      /\ \E h \in held : h[1] = job[p].id /\ <<s, h[2]>> \in seen[p]
  BY <1>1 DEF StoreInv, StoreCallTrue, OpenTrue, Stems
<1>3. CASE identity_matches(doc, job[p].id)
  <2>1. Return(p, Ok(p, doc.data))
    BY <1>3 DEF LoadIndex
  <2>2. doc.id = job[p].id
    BY <1>3 DEF identity_matches
  <2>3. <<s, doc.data>> \in seen[p] \/ \E id \in reentered : id[1] = s
    <3>1. CASE job[p].id \in reentered
      BY <1>2, <3>1
    <3>2. CASE job[p].id \notin reentered
      <4>1. <<doc.id, doc.data>> \in held
        BY <1>2, <2>2, <3>2 DEF StoreInv, IndexTrue
      <4>2. PICK h \in held : h[1] = job[p].id /\ <<s, h[2]>> \in seen[p]
        BY <1>2
      <4>3. h[2] = doc.data
        BY <2>2, <3>2, <4>1, <4>2 DEF StoreInv, HeldOnce
      <4>. QED BY <4>2, <4>3
    <3>. QED BY <3>1, <3>2
  <2>4. IndexAnswerTrue(p, Ok(p, doc.data)) /\ ListingTrue(p, Ok(p, doc.data))
    BY <1>1, <2>3 DEF IndexAnswerTrue, ListingTrue, Ok
  <2>. QED BY <1>1, <2>1, <2>4, StoreReturnOnly
<1>4. CASE ~identity_matches(doc, job[p].id)
  <2>1. Return(p, Error(p, "StaleIndex"))
    BY <1>4 DEF LoadIndex
  <2>2. IndexAnswerTrue(p, Error(p, "StaleIndex")) /\ ListingTrue(p, Error(p, "StaleIndex"))
    BY <1>1 DEF IndexAnswerTrue, ListingTrue, Error
  <2>. QED BY <1>1, <2>1, <2>2, StoreReturnOnly
<1>. QED BY <1>3, <1>4

LEMMA StatBeforeStore ==
    ASSUME McpTypes, StoreInv, NEW p \in Procs, StatBefore(p)
    PROVE  StoreInv'
<1>. DEFINE s == job[p].s
            id == source_identity(s)
            j == [op |-> "rebuild", s |-> s, pc |-> "decode", id |-> id]
<1>1. job[p].op = "rebuild" /\ s \in Sessions /\ files[s] # None /\ UNCHANGED <<fileVars, indexes>>
  BY AtShape, RebuildShape DEF StatBefore
<1>2. Goto(p, j)
  BY DEF StatBefore
<1>3. job'[p] = j /\ seen' = seen /\ UNCHANGED <<files, held, indexes>>
  BY <1>1, <1>2 DEF Goto, McpTypes, CallTypes, fileVars
<1>4. id[1] = s /\ <<id, files[s].data>> \in held
  BY <1>1, IdentityProps DEF McpTypes, StoreInv, HeldTrue
<1>5. SeenNow(p)'
  BY <1>1, <1>3 DEF StoreInv, StoreCallTrue, SeenNow, StoreOps
<1>. HIDE DEF id
<1>6. \E h \in held : h[1] = id
  BY <1>4
<1>7. RebuildTrue(p)' /\ OpenTrue(p)' /\ ListTrue(p)'
  BY <1>3, <1>4, <1>6 DEF RebuildTrue, OpenTrue, ListTrue
<1>. QED BY <1>1, <1>2, <1>5, <1>7, StoreGoto DEF StoreCallTrue

LEMMA DecodeStore ==
    ASSUME McpTypes, StoreInv, NEW p \in Procs, Decode(p)
    PROVE  StoreInv'
<1>. DEFINE s == job[p].s
            j == [op |-> "rebuild", s |-> s, pc |-> "after", id |-> job[p].id, data |-> files[s].data]
<1>1. /\ job[p].op = "rebuild" /\ job[p].pc = "decode" /\ s \in Sessions /\ files[s] # None
      /\ UNCHANGED <<fileVars, indexes>>
  BY AtShape, RebuildShape DEF Decode, At
<1>2. CASE Decodes(s)
  <2>1. Goto(p, j)
    BY <1>2 DEF Decode
  <2>2. job'[p] = j /\ seen' = seen /\ UNCHANGED <<files, held, indexes, reentered>>
    BY <1>1, <2>1 DEF Goto, McpTypes, CallTypes, fileVars
  <2>3. <<source_identity(s), files[s].data>> \in held /\ <<s, files[s].data>> \in seen[p]
    BY <1>1 DEF StoreInv, HeldTrue, StoreCallTrue, SeenNow, StoreOps
  <2>4. SeenNow(p)'
    BY <1>1, <2>2 DEF StoreInv, StoreCallTrue, SeenNow, StoreOps
  <2>5. job[p].id[1] = s /\ \E h \in held : h[1] = job[p].id
    BY <1>1 DEF StoreInv, StoreCallTrue, RebuildTrue
  <2>6. source_identity(s)' = source_identity(s)
    BY <2>2 DEF source_identity
  <2>7. RebuildTrue(p)'
    BY <2>2, <2>3, <2>5, <2>6 DEF RebuildTrue
  <2>8. OpenTrue(p)' /\ ListTrue(p)'
    BY <2>2 DEF OpenTrue, ListTrue
  <2>. QED BY <1>1, <2>1, <2>4, <2>7, <2>8, StoreGoto DEF StoreCallTrue
<1>3. CASE ~Decodes(s)
  <2>1. PICK kind : Return(p, Error(p, kind))
    BY <1>3 DEF Decode
  <2>2. IndexAnswerTrue(p, Error(p, kind)) /\ ListingTrue(p, Error(p, kind))
    BY <1>1 DEF IndexAnswerTrue, ListingTrue, Error
  <2>. QED BY <1>1, <2>1, <2>2, StoreReturnOnly
<1>. QED BY <1>2, <1>3

LEMMA StatAfterStore ==
    ASSUME McpTypes, StoreInv, NEW p \in Procs, StatAfter(p)
    PROVE  StoreInv'
<1>. DEFINE s == job[p].s
            j == [job[p] EXCEPT !.pc = "write"]
<1>1. /\ job[p].op = "rebuild" /\ job[p].pc = "after" /\ s \in Sessions /\ files[s] # None
      /\ job[p] \in [op : {"rebuild"}, s : Sessions, pc : {"after", "write"}, id : Identities, data : Contents]
      /\ UNCHANGED <<fileVars, indexes>>
  BY AtShape, RebuildShape DEF StatAfter, At
<1>2. CASE source_identity(s) = job[p].id
  <2>1. Goto(p, j)
    BY <1>2 DEF StatAfter
  <2>2. job'[p] = j /\ seen' = seen /\ UNCHANGED <<files, held, indexes, reentered>>
    BY <1>1, <2>1 DEF Goto, McpTypes, CallTypes, fileVars
  <2>3. j.op = "rebuild" /\ j.s = s /\ j.pc = "write" /\ j.id = job[p].id /\ j.data = job[p].data
    BY <1>1
  <2>4. SeenNow(p)'
    BY <1>1, <2>2, <2>3 DEF StoreInv, StoreCallTrue, SeenNow, StoreOps
  <2>5. /\ job[p].id[1] = s /\ \E h \in held : h[1] = job[p].id
        /\ <<s, job[p].data>> \in seen[p]
        /\ <<job[p].id, job[p].data>> \in held \/ job[p].id \in reentered
    BY <1>1, <1>2 DEF StoreInv, StoreCallTrue, RebuildTrue
  <2>. HIDE DEF j
  <2>6. RebuildTrue(p)'
    BY <2>2, <2>3, <2>5 DEF RebuildTrue
  <2>7. OpenTrue(p)' /\ ListTrue(p)'
    BY <2>2, <2>3 DEF OpenTrue, ListTrue
  <2>. QED BY <1>1, <2>1, <2>4, <2>6, <2>7, StoreGoto DEF StoreCallTrue
<1>3. CASE source_identity(s) # job[p].id
  <2>1. Return(p, Error(p, "SourceChanged"))
    BY <1>3 DEF StatAfter
  <2>2. IndexAnswerTrue(p, Error(p, "SourceChanged")) /\ ListingTrue(p, Error(p, "SourceChanged"))
    BY <1>1 DEF IndexAnswerTrue, ListingTrue, Error
  <2>. QED BY <1>1, <2>1, <2>2, StoreReturnOnly
<1>. QED BY <1>2, <1>3

LEMMA PublishStore ==
    ASSUME McpTypes, StoreInv, NEW p \in Procs, Publish(p)
    PROVE  StoreInv'
<1>. DEFINE s == job[p].s
            doc == build_document(job[p])
<1>1. /\ job[p].op = "rebuild" /\ job[p].pc = "write" /\ s \in Sessions
      /\ job[p] \in [op : {"rebuild"}, s : Sessions, pc : {"after", "write"}, id : Identities, data : Contents]
      /\ UNCHANGED fileVars
  BY AtShape, RebuildShape DEF Publish, At
<1>2. /\ job[p].id[1] = s /\ <<s, job[p].data>> \in seen[p]
      /\ <<job[p].id, job[p].data>> \in held \/ job[p].id \in reentered
  BY <1>1 DEF StoreInv, StoreCallTrue, RebuildTrue
<1>3. CASE indexes' = [indexes EXCEPT ![Stem(s)] = doc] /\ Return(p, Ok(p, job[p].data))
  <2>1. doc.id = job[p].id /\ doc.data = job[p].data /\ doc # None
    BY <1>1, StoreAssumption DEF build_document, Documents
  <2>2. \A x \in Stems : indexes'[x] = IF x = Stem(s) THEN doc ELSE indexes[x]
    BY <1>3 DEF McpTypes, FileTypes
  <2>3. held' = held /\ reentered' = reentered
    BY <1>1 DEF fileVars
  <2>. HIDE DEF doc
  <2>4. IndexTrue'
    <3>. SUFFICES ASSUME NEW x \in Stems, indexes'[x] # None, indexes'[x].id \notin reentered
                 PROVE  Stem(indexes'[x].id[1]) = x /\ <<indexes'[x].id, indexes'[x].data>> \in held
      BY <2>3 DEF IndexTrue
    <3>1. CASE x = Stem(s)
      BY <1>2, <2>1, <2>2, <3>1
    <3>2. CASE x # Stem(s)
      BY <2>2, <3>2 DEF StoreInv, IndexTrue
    <3>. QED BY <3>1, <3>2
  <2>5. IndexAnswerTrue(p, Ok(p, job[p].data)) /\ ListingTrue(p, Ok(p, job[p].data))
    BY <1>1, <1>2 DEF IndexAnswerTrue, ListingTrue, Ok
  <2>6. \A x \in Stems : indexes[x] # None => indexes'[x] # None
    BY <2>1, <2>2
  <2>. QED BY <1>1, <1>3, <2>4, <2>5, <2>6, StoreReturn
<1>4. CASE UNCHANGED indexes /\ Return(p, Error(p, "IndexBuildFailed"))
  <2>1. IndexAnswerTrue(p, Error(p, "IndexBuildFailed")) /\ ListingTrue(p, Error(p, "IndexBuildFailed"))
    BY <1>1 DEF IndexAnswerTrue, ListingTrue, Error
  <2>. QED BY <1>1, <1>4, <2>1, StoreReturnOnly
<1>. QED BY <1>3, <1>4 DEF Publish

LEMMA ListNextStore ==
    ASSUME McpTypes, StoreInv, NEW p \in Procs, ListNext(p)
    PROVE  StoreInv'
<1>1. job[p].op = "list" /\ job[p] \in ListJobs /\ UNCHANGED <<fileVars, indexes>>
  BY JobShape, SMTT(60) DEF ListNext, McpTypes, CallTypes
<1>2. PICK t \in job[p].todo :
          IF DecodeRaises(p, t) THEN Return(p, Error(p, "Raised"))
          ELSE Goto(p, IF Decodes(t)
                       THEN [job[p] EXCEPT !.todo = @ \ {t}, !.sessions = @ \cup {<<t, files[t].data>>}]
                       ELSE [job[p] EXCEPT !.todo = @ \ {t}, !.errors = @ \cup {t}])
  BY DEF ListNext
<1>3. t \in Sessions /\ job[p].s = None
  BY <1>1 DEF ListJobs
<1>4. files[t] # None /\ <<t, files[t].data>> \in seen[p] /\ ListTrue(p) /\ SeenNow(p)
  BY <1>1, <1>3 DEF StoreInv, StoreCallTrue, ListTrue, SeenNow, StoreOps
<1>5. files[t].data[2] \in Nat
  BY <1>3, <1>4, IdentityProps DEF McpTypes, Contents
<1>6. CASE DecodeRaises(p, t)
  <2>1. p \in RustProcs
    BY <1>6 DEF DecodeRaises
  <2>2. IndexAnswerTrue(p, Error(p, "Raised")) /\ ListingTrue(p, Error(p, "Raised"))
    BY <1>1, <2>1 DEF IndexAnswerTrue, ListingTrue, Error
  <2>. QED BY <1>1, <1>2, <1>6, <2>2, StoreReturnOnly
<1>7. ASSUME NEW j, Goto(p, j), j.op = "list", j.s = None, j.todo \subseteq job[p].todo,
             j.sessions \subseteq seen[p], \A s \in j.errors : \E f \in seen[p] : f[1] = s /\ f[2][2] = 0
      PROVE  StoreInv'
  <2>1. job'[p] = j /\ seen' = seen /\ UNCHANGED files
    BY <1>1, <1>7 DEF Goto, McpTypes, CallTypes, fileVars
  <2>2. SeenNow(p)'
    BY <1>1, <1>3, <1>4, <1>7, <2>1 DEF SeenNow, StoreOps
  <2>3. ListTrue(p)'
    BY <1>1, <1>4, <1>7, <2>1 DEF ListTrue
  <2>4. RebuildTrue(p)' /\ OpenTrue(p)'
    BY <1>7, <2>1 DEF RebuildTrue, OpenTrue
  <2>. QED BY <1>1, <1>7, <2>2, <2>3, <2>4, StoreGoto DEF StoreCallTrue
<1>8. CASE ~DecodeRaises(p, t) /\ Decodes(t)
  <2>. DEFINE j == [job[p] EXCEPT !.todo = @ \ {t}, !.sessions = @ \cup {<<t, files[t].data>>}]
  <2>1. /\ j.op = "list" /\ j.s = None /\ j.todo = job[p].todo \ {t} /\ j.errors = job[p].errors
        /\ j.sessions = job[p].sessions \cup {<<t, files[t].data>>}
    BY <1>1 DEF ListJobs
  <2>2. Goto(p, j)
    BY <1>2, <1>8
  <2>. HIDE DEF j
  <2>3. j.sessions \subseteq seen[p] /\ \A s \in j.errors : \E f \in seen[p] : f[1] = s /\ f[2][2] = 0
    BY <1>1, <1>4, <2>1 DEF ListTrue
  <2>. QED BY <1>7, <2>1, <2>2, <2>3
<1>9. CASE ~DecodeRaises(p, t) /\ ~Decodes(t)
  <2>. DEFINE j == [job[p] EXCEPT !.todo = @ \ {t}, !.errors = @ \cup {t}]
  <2>1. /\ j.op = "list" /\ j.s = None /\ j.todo = job[p].todo \ {t} /\ j.sessions = job[p].sessions
        /\ j.errors = job[p].errors \cup {t}
    BY <1>1 DEF ListJobs
  <2>2. Goto(p, j)
    BY <1>2, <1>9
  <2>3. files[t].data[2] = 0
    BY <1>4, <1>5, <1>9 DEF Decodes
  <2>. HIDE DEF j
  <2>4. j.sessions \subseteq seen[p]
    BY <1>1, <1>4, <2>1 DEF ListTrue
  <2>5. \A s \in j.errors : \E f \in seen[p] : f[1] = s /\ f[2][2] = 0
    BY <1>1, <1>4, <2>1, <2>3 DEF ListTrue
  <2>. QED BY <1>7, <2>1, <2>2, <2>4, <2>5
<1>. QED BY <1>6, <1>8, <1>9

LEMMA ListEndStore ==
    ASSUME McpTypes, StoreInv, NEW p \in Procs, ListEnd(p)
    PROVE  StoreInv'
<1>. DEFINE a == Ok(p, [sessions |-> job[p].sessions, errors |-> job[p].errors])
<1>1. job[p].op = "list" /\ UNCHANGED <<fileVars, indexes>> /\ Return(p, a)
  BY DEF ListEnd
<1>2. ListTrue(p)
  BY DEF StoreInv, StoreCallTrue
<1>3. IndexAnswerTrue(p, a) /\ ListingTrue(p, a)
  BY <1>1, <1>2 DEF IndexAnswerTrue, ListingTrue, Ok, ListTrue
<1>. HIDE DEF a
<1>. QED BY <1>1, <1>3, StoreReturnOnly

\* Calls that are not on the store say nothing about it.
LEMMA OffStoreStep ==
    ASSUME McpTypes, StoreInv, UNCHANGED <<fileVars, indexes>>, NEW p \in Procs, NEW j, NEW a,
           \/ Begin(p, j, {}) /\ j.op \notin StoreOps
           \/ Goto(p, j) /\ j.op \notin StoreOps
           \/ Return(p, a) /\ a.op \notin StoreOps
    PROVE  StoreInv'
<1>1. CASE (Begin(p, j, {}) \/ Goto(p, j)) /\ j.op \notin StoreOps
  <2>1. job'[p] = j
    BY <1>1 DEF Begin, Goto, McpTypes, CallTypes
  <2>2. StoreCallTrue(p)'
    BY <1>1, <2>1 DEF StoreOps, StoreCallTrue, SeenNow, RebuildTrue, OpenTrue, ListTrue
  <2>. QED BY <1>1, <2>2, StoreBegin, StoreGoto
<1>2. CASE Return(p, a) /\ a.op \notin StoreOps
  <2>1. IndexAnswerTrue(p, a) /\ ListingTrue(p, a)
    BY <1>2 DEF IndexAnswerTrue, ListingTrue, StoreOps
  <2>. QED BY <1>2, <2>1, StoreReturnOnly
<1>. QED BY <1>1, <1>2

LEMMA ToolStore ==
    ASSUME McpTypes, StoreInv, NEW p \in Procs,
           \/ StartConfigSet(p) \/ StartConfigGet(p) \/ StartCatalog(p)
           \/ CheckConfig(p) \/ ReplaceConfig(p) \/ get_or_default(p) \/ ConfigExists(p)
           \/ sha256_file(p) \/ load_registry(p)
    PROVE  StoreInv'
<1>1. UNCHANGED <<fileVars, indexes>>
  BY DEF StartConfigSet, StartConfigGet, StartCatalog, StartToolCall, CheckConfig, ReplaceConfig,
     get_or_default, ConfigExists, sha256_file, load_registry, CallStep
<1>2. CASE StartConfigSet(p) \/ StartConfigGet(p) \/ StartCatalog(p)
  <2>0. CASE StartConfigSet(p)
    <3>1. PICK cfg \in ConfigInputs :
            StartToolCall(p, [op |-> "config_set", s |-> None, pc |-> "check", data |-> Updated(cfg)])
      BY <2>0 DEF StartConfigSet
    <3>. QED BY <1>1, <3>1, OffStoreStep DEF StartToolCall, StoreOps
  <2>1. CASE StartConfigGet(p)
    BY <1>1, <2>1, OffStoreStep DEF StartConfigGet, StartToolCall, StoreOps
  <2>2. CASE StartCatalog(p)
    BY <1>1, <2>2, OffStoreStep DEF StartCatalog, StartToolCall, StoreOps
  <2>. QED BY <1>2, <2>0, <2>1, <2>2
<1>3. CASE CheckConfig(p)
  <2>1. job[p] \in [op : {"config_set"}, s : {None}, pc : {"check", "replace"}, data : Written]
    BY <1>3, JobShape, ConfigShape DEF CheckConfig, McpTypes, CallTypes
  <2>2. [job[p] EXCEPT !.pc = "replace"].op \notin StoreOps /\ Error(p, "refused").op \notin StoreOps
    BY <2>1 DEF StoreOps, Error
  <2>. QED BY <1>1, <1>3, <2>2, OffStoreStep DEF CheckConfig
<1>4. CASE ReplaceConfig(p) \/ ConfigExists(p) \/ load_registry(p)
  <2>1. PICK a : Return(p, a) /\ a.op = job[p].op
    BY <1>4 DEF ReplaceConfig, ConfigExists, load_registry, Ok, Error
  <2>2. a.op \notin StoreOps
    BY <1>4, <2>1 DEF ReplaceConfig, ConfigExists, load_registry, StoreOps
  <2>. QED BY <1>1, <2>1, <2>2, OffStoreStep
<1>5. CASE get_or_default(p)
  <2>1. \/ \E j : Goto(p, j) /\ j.op \notin StoreOps
        \/ \E a : Return(p, a) /\ a.op \notin StoreOps
    BY <1>5 DEF get_or_default, Error, StoreOps
  <2>. QED BY <1>1, <2>1, OffStoreStep
<1>6. CASE sha256_file(p)
  <2>1. \/ \E j : Goto(p, j) /\ j.op \notin StoreOps
        \/ \E a : Return(p, a) /\ a.op \notin StoreOps
    BY <1>6 DEF sha256_file, Error, StoreOps
  <2>. QED BY <1>1, <2>1, OffStoreStep
<1>. QED BY <1>2, <1>3, <1>4, <1>5, <1>6

LEMMA KillStore ==
    ASSUME McpTypes, StoreInv, NEW p \in Procs, Kill(p)
    PROVE  StoreInv'
<1>1. /\ \A q \in Procs \ {p} : job'[q] = job[q] /\ seen'[q] = seen[q] /\ answer'[q] = answer[q]
      /\ job'[p] = Idle /\ answer'[p] = None /\ UNCHANGED <<files, held, reentered, indexes>>
  BY DEF Kill, McpTypes, CallTypes
<1>2. StoreCallTrue(p)' /\ StoreAnswerTrue(p)'
  BY <1>1 DEF Idle, StoreOps, StoreCallTrue, SeenNow, RebuildTrue, OpenTrue, ListTrue, StoreAnswerTrue
<1>3. IndexTrue'
  BY <1>1 DEF StoreInv, IndexTrue
<1>. QED BY <1>1, <1>2, <1>3, OneCall

LEMMA StepStore == McpTypes /\ StoreInv /\ [Next]_vars => StoreInv'
<1>. SUFFICES ASSUME McpTypes, StoreInv, [Next]_vars PROVE StoreInv'
  OBVIOUS
<1>1. CASE UNCHANGED vars
  BY <1>1, NoStoreStep DEF vars, storeVars, fileVars, callVars
<1>2. ASSUME EditFile \/ \E p \in Procs : signal_handler(p) PROVE StoreInv'
  BY <1>2, NoStoreStep DEF EditFile, signal_handler, callVars
<1>3. ASSUME NEW p \in Procs, StoreStep(p) PROVE StoreInv'
  BY <1>3, StatSourceStore, LoadIndexStore, StatBeforeStore, DecodeStore, StatAfterStore, PublishStore,
     ListNextStore, ListEndStore DEF StoreStep
<1>4. CASE Next
  BY <1>2, <1>3, <1>4, NextSteps, WriteStore, StoreStartStore, ToolStore, KillStore
<1>. QED BY <1>1, <1>4

\* What the store's files, indexes and calls amount to: the inductive
\* invariant.
THEOREM StoreInvariant == Spec => []StoreInv
  BY InitTypes, StepTypes, InitStore, StepStore, PTL DEF Spec

\* An index at rest holds what its session file held under the identity it
\* carries (_build_index_atomic), for any number of processes building and
\* producers writing, unless the file came back to that identity.
THEOREM IndexesTrue == Spec => []IndexTrue
<1>1. StoreInv => IndexTrue
  BY DEF StoreInv
<1>. QED BY <1>1, StoreInvariant, PTL

\* What a rebuild, a search or a listing answers was in the session files at
\* some moment during the call (dtj_index.py, dtj_store.py).
THEOREM AnswersTrue == Spec => []AnswerTrue
<1>1. StoreInv => AnswerTrue
  BY DEF StoreInv, AnswerTrue, StoreAnswerTrue
<1>. QED BY <1>1, StoreInvariant, PTL

-----------------------------------------------------------------------------
(* Schemas of a registry that was loaded *)

LEMMA ParsedField ==
    ASSUME NEW raw \in RawFields, FieldValid(raw)
    PROVE  /\ parse_field(raw).name = raw.name
           /\ parse_field(raw).required \in BOOLEAN
           /\ parse_field(raw).redaction_action \in {"allow", "drop_field", "reject"}
           /\ parse_field(raw).redaction_action = "drop_field" => ~parse_field(raw).required
           /\ parse_field(raw).sensitivity = "secret_forbidden" => parse_field(raw).redaction_action = "reject"
<1>1. /\ parse_field(raw).redaction_action = "drop_field" => ~parse_field(raw).required
      /\ parse_field(raw).sensitivity = "secret_forbidden" => parse_field(raw).redaction_action = "reject"
  BY DEF FieldValid
<1>2. parse_field(raw).name = raw.name /\ parse_field(raw).required \in BOOLEAN
  BY DEF parse_field, RawFields
<1>3. default_redaction_action(raw.sensitivity) \in {"allow", "drop_field", "reject"}
  BY DEF default_redaction_action
<1>4. parse_field(raw).redaction_action \in {"allow", "drop_field", "reject"}
  BY <1>3 DEF parse_field, RawFields
<1>. QED BY <1>1, <1>2, <1>4

\* The checks of validate_candidate are all passed by what it accepts.
LEMMA CodeAccepted ==
    ASSUME NEW schema, NEW payload
    PROVE  Code(schema, payload) = "accepted" <=>
            /\ \A f \in schema.fields : f.name \in NamesIn(payload) =>
                f.sensitivity # "secret_forbidden" /\ f.redaction_action # "reject"
            /\ \A f \in schema.fields : f.name \notin NamesIn(payload) => ~f.required
            /\ ~(schema.policy = "strict" /\ Declared(schema, payload) # payload)
            /\ \A v \in payload : \A f \in Named(schema, v.name) : f.value_type = v.type
  BY DEF Code

LEMMA SchemaSafe ==
    ASSUME NEW schema,
           \A f \in schema.fields :
                /\ f.redaction_action \in {"allow", "drop_field", "reject"}
                /\ f.required \in BOOLEAN
    PROVE  AcceptsSafely(schema, Payloads)
<1>. SUFFICES ASSUME NEW payload \in Payloads, Code(schema, payload) = "accepted"
             PROVE  /\ \A f \in schema.fields :
                        /\ f.required => f.name \in NamesIn(payload)
                        /\ f.sensitivity = "secret_forbidden" => f.name \notin NamesIn(payload)
                    /\ \A f \in Metrics(schema, payload) \cup GraphRefs(schema, payload) :
                        f.redaction_action = "allow" /\ f.sensitivity # "secret_forbidden"
  BY DEF AcceptsSafely
<1>1. /\ \A f \in schema.fields : f.name \in NamesIn(payload) =>
            f.sensitivity # "secret_forbidden" /\ f.redaction_action # "reject"
      /\ \A f \in schema.fields : f.name \notin NamesIn(payload) => ~f.required
  BY CodeAccepted
<1>2. ASSUME NEW f \in Metrics(schema, payload) \cup GraphRefs(schema, payload)
      PROVE  f.redaction_action = "allow" /\ f.sensitivity # "secret_forbidden"
  <2>1. f \in schema.fields /\ f.name \in NamesIn(Kept(schema, payload))
    BY <1>2 DEF Metrics, GraphRefs
  <2>2. PICK v \in Kept(schema, payload) : f.name = v.name
    BY <2>1 DEF NamesIn
  <2>3. f.name \in NamesIn(payload) /\ f.redaction_action # "drop_field"
    BY <2>1, <2>2 DEF Kept, NamesIn, Named
  <2>. QED BY <1>1, <2>1, <2>3
<1>. QED BY <1>1, <1>2

LEMMA SchemaSatisfiable ==
    ASSUME NEW schema, Least(schema) \in Payloads,
           \A f \in schema.fields :
                /\ f.required \in BOOLEAN
                /\ f.sensitivity = "secret_forbidden" => f.redaction_action = "reject",
           \A f, g \in schema.fields : f.name = g.name => f = g
    PROVE  Satisfiable(schema, Payloads)
<1>1. ASSUME NEW payload \in Payloads, Code(schema, payload) = "accepted",
             NEW f \in schema.fields, f.required, f.redaction_action = "reject"
      PROVE  FALSE
  BY <1>1, CodeAccepted
<1>2. ASSUME ~\E f \in schema.fields : f.required /\ f.redaction_action = "reject"
      PROVE  Code(schema, Least(schema)) = "accepted"
  <2>. DEFINE P == Least(schema)
  <2>1. \A v \in P : \E f \in schema.fields : f.required /\ v = [name |-> f.name, type |-> f.value_type]
    BY DEF Least
  <2>2. \A f \in schema.fields : f.required => [name |-> f.name, type |-> f.value_type] \in P
    BY DEF Least
  <2>. HIDE DEF P
  <2>3. \A f \in schema.fields : f.name \in NamesIn(P) <=> f.required
    <3>1. ASSUME NEW f \in schema.fields, f.name \in NamesIn(P) PROVE f.required
      <4>1. PICK v \in P : f.name = v.name
        BY <3>1 DEF NamesIn
      <4>2. PICK g \in schema.fields : g.required /\ v = [name |-> g.name, type |-> g.value_type]
        BY <2>1
      <4>. QED BY <4>1, <4>2
    <3>2. ASSUME NEW f \in schema.fields, f.required PROVE f.name \in NamesIn(P)
      <4>1. [name |-> f.name, type |-> f.value_type] \in P
        BY <2>2, <3>2
      <4>. QED BY <4>1 DEF NamesIn
    <3>. QED BY <3>1, <3>2
  <2>4. \A f \in schema.fields : f.name \in NamesIn(P) =>
            f.sensitivity # "secret_forbidden" /\ f.redaction_action # "reject"
    BY <1>2, <2>3
  <2>5. Declared(schema, P) = P
    <3>1. ASSUME NEW v \in P PROVE Named(schema, v.name) # {}
      <4>1. PICK g \in schema.fields : g.required /\ v = [name |-> g.name, type |-> g.value_type]
        BY <2>1
      <4>. QED BY <4>1 DEF Named
    <3>. QED BY <3>1 DEF Declared
  <2>6. ASSUME NEW v \in P, NEW f \in Named(schema, v.name) PROVE f.value_type = v.type
    <3>1. PICK g \in schema.fields : g.required /\ v = [name |-> g.name, type |-> g.value_type]
      BY <2>1
    <3>2. f \in schema.fields /\ f.name = v.name
      BY DEF Named
    <3>3. f = g
      BY <3>1, <3>2
    <3>. QED BY <3>1, <3>3
  <2>. QED BY <2>3, <2>4, <2>5, <2>6, CodeAccepted DEF P
<1>. QED BY <1>1, <1>2 DEF Satisfiable

\* Every schema of a document that _parse_registry_document accepts.
LEMMA RegistrySafe ==
    ASSUME NEW doc \in RegistryDocs, RegistryValid(doc)
    PROVE  SchemasTrue(parse_registry_document(doc))
<1>. SUFFICES ASSUME NEW i \in DOMAIN doc
             PROVE  /\ AcceptsSafely(parse_event_schema(doc[i]), Payloads)
                    /\ Satisfiable(parse_event_schema(doc[i]), Payloads)
  BY DEF SchemasTrue, parse_registry_document
<1>. DEFINE raws == doc[i].fields
            schema == parse_event_schema(doc[i])
<1>1. schema.fields = {parse_field(raws[k]) : k \in DOMAIN raws}
  BY ServerAssumption DEF parse_event_schema
<1>2. \A k \in DOMAIN raws : raws[k] \in RawFields /\ FieldValid(raws[k])
  BY ServerAssumption DEF RegistryValid, SchemaValid
<1>3. \A k, l \in DOMAIN raws : raws[k].name = raws[l].name => k = l
  BY DEF RegistryValid, SchemaValid
<1>4. Least(schema) \in Payloads
  BY PayloadsAssumption
<1>. HIDE DEF schema, raws
<1>5. \A f \in schema.fields :
        /\ f.redaction_action \in {"allow", "drop_field", "reject"}
        /\ f.required \in BOOLEAN
        /\ f.sensitivity = "secret_forbidden" => f.redaction_action = "reject"
  BY <1>1, <1>2, ParsedField
<1>6. \A f, g \in schema.fields : f.name = g.name => f = g
  BY <1>1, <1>2, <1>3, ParsedField
<1>7. AcceptsSafely(schema, Payloads) /\ Satisfiable(schema, Payloads)
  BY <1>4, <1>5, <1>6, SchemaSafe, SchemaSatisfiable
<1>. QED BY <1>7 DEF schema

-----------------------------------------------------------------------------
(* The configuration and the registry *)

LEMMA ServerOneCall ==
    ASSUME McpTypes, ServerInv, UNCHANGED <<config, registry>>, NEW p \in Procs,
           \A q \in Procs \ {p} : job'[q] = job[q] /\ known'[q] = known[q] /\ answer'[q] = answer[q],
           IsFiniteSet(DocsOf(p))', ServerCallTrue(p)', ConfigAnswerTrue(p)', CatalogAnswerTrue(p)'
    PROVE  ServerInv'
<1>1. ConfigFileTrue'
  BY DEF ServerInv, ConfigFileTrue
<1>2. ASSUME NEW q \in Procs \ {p}
      PROVE  (IsFiniteSet(DocsOf(q)) /\ ServerCallTrue(q) /\ ConfigAnswerTrue(q) /\ CatalogAnswerTrue(q))'
  <2>1. job'[q] = job[q] /\ known'[q] = known[q] /\ answer'[q] = answer[q]
    OBVIOUS
  <2>2. DocsOf(q)' = DocsOf(q) /\ ConfigsOf(q)' = ConfigsOf(q)
    BY <2>1 DEF DocsOf, ConfigsOf
  <2>3. IsFiniteSet(DocsOf(q)) /\ ServerCallTrue(q) /\ ConfigAnswerTrue(q) /\ CatalogAnswerTrue(q)
    BY DEF ServerInv
  <2>4. ServerCallTrue(q)'
    BY <2>1, <2>2, <2>3 DEF ServerCallTrue, KnownNow, ConfigCallTrue, CatalogCallTrue, ReadTrue
  <2>5. ConfigAnswerTrue(q)' /\ CatalogAnswerTrue(q)'
    BY <2>1, <2>2, <2>3 DEF ConfigAnswerTrue, CatalogAnswerTrue, ReadTrue
  <2>. QED BY <2>2, <2>3, <2>4, <2>5
<1>. QED BY <1>1, <1>2 DEF ServerInv

\* A step that leaves the calls, the configuration and the registry alone.
LEMMA NoServerStep ==
    ASSUME ServerInv, UNCHANGED <<config, registry, known, job, answer>>
    PROVE  ServerInv'
<1>1. \A p \in Procs : DocsOf(p)' = DocsOf(p) /\ ConfigsOf(p)' = ConfigsOf(p)
  BY DEF DocsOf, ConfigsOf
<1>. QED BY <1>1 DEF ServerInv, ConfigFileTrue, ServerCallTrue, KnownNow, ConfigCallTrue, CatalogCallTrue,
     ReadTrue, ConfigAnswerTrue, CatalogAnswerTrue

\* The answer of a call is judged by what was known when it ended.
LEMMA ServerReturn ==
    ASSUME McpTypes, ServerInv, UNCHANGED <<config, registry, known>>, NEW p \in Procs, NEW a, Return(p, a),
           ConfigAnswerTrue(p)', CatalogAnswerTrue(p)'
    PROVE  ServerInv'
<1>1. \A q \in Procs \ {p} : job'[q] = job[q] /\ known'[q] = known[q] /\ answer'[q] = answer[q]
  BY DEF Return, McpTypes, CallTypes
<1>2. job'[p].op = "idle"
  BY DEF Return, McpTypes, CallTypes, Idle
<1>3. ServerCallTrue(p)'
  BY <1>2 DEF ServerCallTrue, KnownNow, ConfigCallTrue, CatalogCallTrue, ToolOps
<1>4. IsFiniteSet(DocsOf(p))'
  BY DEF ServerInv, DocsOf
<1>. QED BY <1>1, <1>3, <1>4, ServerOneCall

LEMMA ServerGoto ==
    ASSUME McpTypes, ServerInv, UNCHANGED <<config, registry, known>>, NEW p \in Procs, NEW j, Goto(p, j),
           ServerCallTrue(p)'
    PROVE  ServerInv'
<1>1. \A q \in Procs \ {p} : job'[q] = job[q] /\ known'[q] = known[q] /\ answer'[q] = answer[q]
  BY DEF Goto, McpTypes, CallTypes
<1>2. DocsOf(p)' = DocsOf(p) /\ ConfigsOf(p)' = ConfigsOf(p) /\ answer' = answer
  BY DEF Goto, DocsOf, ConfigsOf
<1>3. IsFiniteSet(DocsOf(p))' /\ ConfigAnswerTrue(p)' /\ CatalogAnswerTrue(p)'
  BY <1>2 DEF ServerInv, ConfigAnswerTrue, CatalogAnswerTrue, ReadTrue
<1>. QED BY <1>1, <1>3, ServerOneCall

\* Calls on the store say nothing about the configuration and the registry.
LEMMA OffServer ==
    ASSUME McpTypes, ServerInv, UNCHANGED <<config, registry, known>>, NEW p \in Procs, NEW j, NEW a, NEW facts,
           \/ Begin(p, j, facts) /\ j.op \in StoreOps
           \/ Goto(p, j) /\ j.op \in StoreOps
           \/ Return(p, a) /\ a.op \in StoreOps
    PROVE  ServerInv'
<1>1. CASE Begin(p, j, facts) /\ j.op \in StoreOps
  <2>1. /\ \A q \in Procs \ {p} : job'[q] = job[q] /\ known'[q] = known[q] /\ answer'[q] = answer[q]
        /\ job'[p] = j /\ answer'[p] = None
    BY <1>1 DEF Begin, McpTypes, CallTypes
  <2>2. ServerCallTrue(p)' /\ ConfigAnswerTrue(p)' /\ CatalogAnswerTrue(p)'
    BY <1>1, <2>1 DEF ServerCallTrue, KnownNow, ConfigCallTrue, CatalogCallTrue, ToolOps, StoreOps,
       ConfigAnswerTrue, CatalogAnswerTrue
  <2>3. IsFiniteSet(DocsOf(p))'
    BY DEF ServerInv, DocsOf
  <2>. QED BY <2>1, <2>2, <2>3, ServerOneCall
<1>2. CASE Goto(p, j) /\ j.op \in StoreOps
  <2>1. job'[p] = j
    BY <1>2 DEF Goto, McpTypes, CallTypes
  <2>2. ServerCallTrue(p)'
    BY <1>2, <2>1 DEF ServerCallTrue, KnownNow, ConfigCallTrue, CatalogCallTrue, ToolOps, StoreOps
  <2>. QED BY <1>2, <2>2, ServerGoto
<1>3. CASE Return(p, a) /\ a.op \in StoreOps
  <2>1. answer'[p] = a
    BY <1>3 DEF Return, McpTypes, CallTypes
  <2>2. ConfigAnswerTrue(p)' /\ CatalogAnswerTrue(p)'
    BY <1>3, <2>1 DEF ConfigAnswerTrue, CatalogAnswerTrue, StoreOps
  <2>. QED BY <1>3, <2>2, ServerReturn
<1>. QED BY <1>1, <1>2, <1>3

LEMMA StoreServer ==
    ASSUME McpTypes, ServerInv, NEW p \in Procs, StoreStart(p) \/ StoreStep(p), UNCHANGED serverVars
    PROVE  ServerInv'
<1>0. UNCHANGED <<config, registry, known>>
  BY DEF serverVars
<1>1. CASE StartIndexCall(p)
  <2>1. PICK s \in Sessions :
            \/ Begin(p, [op |-> "rebuild", s |-> s, pc |-> "before"], Facts({s}))
            \/ Begin(p, [op |-> "open", s |-> s, pc |-> "stat"], Facts({s}))
    BY <1>1 DEF StartIndexCall
  <2>. QED BY <1>0, <2>1, OffServer DEF StoreOps
<1>2. CASE StartList(p)
  <2>1. Begin(p, [op |-> "list", s |-> None, todo |-> {s \in Sessions : files[s] # None},
                  sessions |-> {}, errors |-> {}], Facts(Sessions))
    BY <1>2 DEF StartList
  <2>. QED BY <1>0, <2>1, OffServer DEF StoreOps
<1>3. CASE StatSource(p) \/ StatBefore(p) \/ Decode(p) \/ LoadIndex(p) \/ Publish(p)
  <2>1. job[p].op \in StoreOps
    BY <1>3 DEF StatSource, StatBefore, Decode, LoadIndex, Publish, At, StoreOps
  <2>2. \/ \E j : Goto(p, j) /\ j.op \in StoreOps
        \/ \E a : Return(p, a) /\ a.op \in StoreOps
    <3>1. CASE StatSource(p)
      BY <2>1, <3>1 DEF StatSource, Error, StoreOps
    <3>2. CASE StatBefore(p)
      BY <2>1, <3>2 DEF StatBefore, StoreOps
    <3>3. CASE Decode(p)
      BY <2>1, <3>3 DEF Decode, Error, StoreOps
    <3>4. CASE LoadIndex(p)
      BY <2>1, <3>4 DEF LoadIndex, Error, Ok
    <3>5. CASE Publish(p)
      BY <2>1, <3>5 DEF Publish, Error, Ok
    <3>. QED BY <1>3, <3>1, <3>2, <3>3, <3>4, <3>5
  <2>. QED BY <1>0, <2>2, OffServer
<1>4. CASE StatAfter(p)
  <2>1. job[p] \in [op : {"rebuild"}, s : Sessions, pc : {"after", "write"}, id : Identities, data : Contents]
    BY <1>4, AtShape, RebuildShape DEF StatAfter, At
  <2>2. [job[p] EXCEPT !.pc = "write"].op \in StoreOps /\ Error(p, "SourceChanged").op \in StoreOps
    BY <2>1 DEF StoreOps, Error
  <2>. QED BY <1>0, <1>4, <2>2, OffServer DEF StatAfter
<1>5. CASE ListNext(p)
  <2>1. job[p] \in ListJobs /\ job[p].op = "list"
    BY <1>5, JobShape, SMTT(60) DEF ListNext, McpTypes, CallTypes
  <2>2. PICK t \in job[p].todo :
          IF DecodeRaises(p, t) THEN Return(p, Error(p, "Raised"))
          ELSE Goto(p, IF Decodes(t)
                       THEN [job[p] EXCEPT !.todo = @ \ {t}, !.sessions = @ \cup {<<t, files[t].data>>}]
                       ELSE [job[p] EXCEPT !.todo = @ \ {t}, !.errors = @ \cup {t}])
    BY <1>5 DEF ListNext
  <2>3. /\ [job[p] EXCEPT !.todo = @ \ {t}, !.sessions = @ \cup {<<t, files[t].data>>}].op \in StoreOps
        /\ [job[p] EXCEPT !.todo = @ \ {t}, !.errors = @ \cup {t}].op \in StoreOps
        /\ Error(p, "Raised").op \in StoreOps
    BY <2>1 DEF ListJobs, StoreOps, Error
  <2>4. CASE DecodeRaises(p, t)
    BY <1>0, <2>2, <2>3, <2>4, OffServer
  <2>5. CASE ~DecodeRaises(p, t) /\ Decodes(t)
    BY <1>0, <2>2, <2>3, <2>5, OffServer
  <2>6. CASE ~DecodeRaises(p, t) /\ ~Decodes(t)
    BY <1>0, <2>2, <2>3, <2>6, OffServer
  <2>. QED BY <2>4, <2>5, <2>6
<1>6. CASE ListEnd(p)
  <2>1. PICK a : Return(p, a) /\ a.op \in StoreOps
    BY <1>6 DEF ListEnd, Ok, StoreOps
  <2>. QED BY <1>0, <2>1, OffServer
<1>. QED BY <1>1, <1>2, <1>3, <1>4, <1>5, <1>6 DEF StoreStart, StoreStep

LEMMA ToolStartServer ==
    ASSUME McpTypes, ServerInv, NEW p \in Procs, StartConfigSet(p) \/ StartConfigGet(p) \/ StartCatalog(p)
    PROVE  ServerInv'
<1>1. ASSUME NEW j, StartToolCall(p, j), j.pc \in {"check", "read", "digest"} PROVE ServerInv'
  <2>1. /\ \A q \in Procs \ {p} : job'[q] = job[q] /\ known'[q] = known[q] /\ answer'[q] = answer[q]
        /\ job'[p] = j /\ answer'[p] = None /\ known'[p] = {<<config, registry>>}
        /\ UNCHANGED <<config, registry>>
    BY <1>1 DEF StartToolCall, Begin, McpTypes, CallTypes
  <2>2. IsFiniteSet(DocsOf(p))'
    <3>1. DocsOf(p)' = {registry}
      BY <2>1 DEF DocsOf
    <3>. QED BY <3>1, FS_Singleton
  <2>3. ServerCallTrue(p)'
    BY <1>1, <2>1 DEF ServerCallTrue, KnownNow, ConfigCallTrue, CatalogCallTrue
  <2>4. ConfigAnswerTrue(p)' /\ CatalogAnswerTrue(p)'
    BY <2>1 DEF ConfigAnswerTrue, CatalogAnswerTrue
  <2>. QED BY <2>1, <2>2, <2>3, <2>4, ServerOneCall
<1>2. CASE StartConfigSet(p)
  <2>1. PICK cfg \in ConfigInputs :
            StartToolCall(p, [op |-> "config_set", s |-> None, pc |-> "check", data |-> Updated(cfg)])
    BY <1>2 DEF StartConfigSet
  <2>. QED BY <1>1, <2>1
<1>3. CASE StartConfigGet(p)
  BY <1>1, <1>3 DEF StartConfigGet
<1>4. CASE StartCatalog(p)
  BY <1>1, <1>4 DEF StartCatalog
<1>. QED BY <1>2, <1>3, <1>4

\* A call in progress learns of a change of the files; the others keep what
\* they answered with.
LEMMA ObservedCall ==
    ASSUME McpTypes, ServerInv, Observe(config', registry'), NEW q \in Procs,
           job'[q] = job[q], answer'[q] = answer[q],
           config' = None => config = None, registry' = None => registry = None
    PROVE  ServerCallTrue(q)' /\ ConfigAnswerTrue(q)' /\ CatalogAnswerTrue(q)'
<1>1. /\ job[q].op # "idle" => known'[q] = known[q] \cup {<<config', registry'>>}
      /\ job[q].op = "idle" => known'[q] = known[q]
      /\ known[q] \subseteq known'[q]
  BY DEF Observe, Busy
<1>2. ServerCallTrue(q) /\ ConfigAnswerTrue(q) /\ CatalogAnswerTrue(q)
  BY DEF ServerInv
<1>3. ConfigsOf(q) \subseteq ConfigsOf(q)' /\ DocsOf(q) \subseteq DocsOf(q)'
  BY <1>1 DEF ConfigsOf, DocsOf
<1>4. KnownNow(q)'
  BY <1>1 DEF KnownNow, ToolOps
<1>5. ConfigCallTrue(q)' /\ CatalogCallTrue(q)'
  BY <1>2, <1>3 DEF ServerCallTrue, ConfigCallTrue, CatalogCallTrue, ReadTrue
<1>6. answer[q] # None => known'[q] = known[q]
  BY <1>1 DEF McpTypes, CallTypes, Busy
<1>7. answer[q] # None => ConfigsOf(q)' = ConfigsOf(q) /\ DocsOf(q)' = DocsOf(q)
  BY <1>6 DEF ConfigsOf, DocsOf
<1>8. ConfigAnswerTrue(q)' /\ CatalogAnswerTrue(q)'
  BY <1>2, <1>7 DEF ConfigAnswerTrue, CatalogAnswerTrue, ReadTrue
<1>. QED BY <1>4, <1>5, <1>8 DEF ServerCallTrue

LEMMA ObservedFinite ==
    ASSUME ServerInv, Observe(config', registry'), NEW q \in Procs
    PROVE  IsFiniteSet(DocsOf(q))'
<1>1. known'[q] = known[q] \/ known'[q] = known[q] \cup {<<config', registry'>>}
  BY DEF Observe
<1>2. DocsOf(q)' = DocsOf(q) \/ DocsOf(q)' = DocsOf(q) \cup {registry'}
  BY <1>1 DEF DocsOf
<1>. QED BY <1>2, FS_AddElement DEF ServerInv

LEMMA EditServer ==
    ASSUME McpTypes, ServerInv, EditFile
    PROVE  ServerInv'
<1>1. Observe(config', registry') /\ UNCHANGED <<job, answer>>
  BY DEF EditFile, callVars
<1>2. (config' = None => config = None) /\ (registry' = None => registry = None)
  BY ServerAssumption DEF EditFile
<1>3. ConfigFileTrue'
  BY DEF EditFile, ConfigFileTrue, ServerInv
<1>. QED BY <1>1, <1>2, <1>3, ObservedCall, ObservedFinite DEF ServerInv

LEMMA ReplaceServer ==
    ASSUME McpTypes, ServerInv, NEW p \in Procs, ReplaceConfig(p)
    PROVE  ServerInv'
<1>1. /\ job[p].op = "config_set" /\ job[p].pc = "replace" /\ config' = job[p].data
      /\ Observe(config', registry') /\ registry' = registry
      /\ Return(p, Ok(p, job[p].data))
  BY DEF ReplaceConfig, CallStep
<1>2. job[p].data \in Written /\ validate_config(job[p].data)
  BY <1>1, JobShape, ConfigShape DEF McpTypes, CallTypes, ServerInv, ServerCallTrue, ConfigCallTrue
<1>3. config' # None
  BY <1>1, <1>2, ConfigAssumption DEF Written
<1>4. ConfigFileTrue'
  BY <1>1, <1>2 DEF ConfigFileTrue, validate_config
<1>5. /\ \A q \in Procs \ {p} : job'[q] = job[q] /\ answer'[q] = answer[q]
      /\ job'[p] = Idle /\ answer'[p] = Ok(p, job[p].data)
  BY <1>1 DEF Return, McpTypes, CallTypes
<1>6. \A q \in Procs \ {p} : ServerCallTrue(q)' /\ ConfigAnswerTrue(q)' /\ CatalogAnswerTrue(q)'
  BY <1>1, <1>3, <1>5, ObservedCall
<1>7. ServerCallTrue(p)'
  BY <1>5 DEF Idle, ServerCallTrue, KnownNow, ConfigCallTrue, CatalogCallTrue, ToolOps
<1>8. config' \in ConfigsOf(p)'
  <2>1. <<config', registry'>> \in known'[p]
    BY <1>1 DEF Observe, Busy
  <2>. QED BY <2>1 DEF ConfigsOf
<1>9. ConfigAnswerTrue(p)' /\ CatalogAnswerTrue(p)'
  BY <1>1, <1>5, <1>8 DEF ConfigAnswerTrue, CatalogAnswerTrue, Ok
<1>. QED BY <1>1, <1>4, <1>6, <1>7, <1>9, ObservedFinite DEF ServerInv

\* A refusal satisfies what is asked of an answer.
LEMMA ErrorServer ==
    ASSUME McpTypes, ServerInv, UNCHANGED <<config, registry, known>>, NEW p \in Procs, NEW kind,
           Return(p, Error(p, kind))
    PROVE  ServerInv'
<1>1. answer'[p] = Error(p, kind)
  BY DEF Return, McpTypes, CallTypes
<1>2. ConfigAnswerTrue(p)' /\ CatalogAnswerTrue(p)'
  BY <1>1 DEF ConfigAnswerTrue, CatalogAnswerTrue, Error
<1>. QED BY <1>2, ServerReturn

LEMMA CheckServer ==
    ASSUME McpTypes, ServerInv, NEW p \in Procs, CheckConfig(p)
    PROVE  ServerInv'
<1>. DEFINE j == [job[p] EXCEPT !.pc = "replace"]
<1>1. job[p].op = "config_set" /\ UNCHANGED <<config, registry, known>>
  BY DEF CheckConfig, CallStep
<1>2. CASE validate_config(job[p].data) /\ Goto(p, j)
  <2>1. job[p] \in [op : {"config_set"}, s : {None}, pc : {"check", "replace"}, data : Written]
    BY <1>1, JobShape, ConfigShape DEF McpTypes, CallTypes
  <2>2. job'[p] = j /\ j.op = "config_set" /\ j.data = job[p].data
    BY <1>2, <2>1 DEF Goto, McpTypes, CallTypes
  <2>. HIDE DEF j
  <2>3. ServerCallTrue(p)'
    BY <1>1, <1>2, <2>2
       DEF ServerInv, ServerCallTrue, KnownNow, ConfigCallTrue, CatalogCallTrue, ToolOps, validate_config
  <2>. QED BY <1>1, <1>2, <2>3, ServerGoto
<1>3. CASE Return(p, Error(p, "refused"))
  BY <1>1, <1>3, ErrorServer
<1>. QED BY <1>2, <1>3 DEF CheckConfig

LEMMA GetServer ==
    ASSUME McpTypes, ServerInv, NEW p \in Procs, get_or_default(p)
    PROVE  ServerInv'
<1>. DEFINE d == IF config = None THEN default_config ELSE config
            j == [op |-> "config_get", s |-> None, pc |-> "exists", data |-> d]
<1>1. job[p].op = "config_get" /\ UNCHANGED <<config, registry, known>>
  BY DEF get_or_default, CallStep
<1>2. CASE config # None /\ ~validate_config(config)
  BY <1>1, <1>2, ErrorServer DEF get_or_default
<1>3. CASE ~(config # None /\ ~validate_config(config))
  <2>1. Goto(p, j)
    BY <1>3 DEF get_or_default
  <2>2. <<config, registry>> \in known[p]
    BY <1>1 DEF ServerInv, ServerCallTrue, KnownNow, ToolOps
  <2>3. config \in ConfigsOf(p)
    BY <2>2 DEF ConfigsOf
  <2>4. ReadTrue(p, d) /\ (config = None => d = default_config)
    BY <1>3, <2>3 DEF ReadTrue
  <2>5. job'[p] = j /\ ConfigsOf(p)' = ConfigsOf(p)
    BY <1>1, <2>1 DEF Goto, McpTypes, CallTypes, ConfigsOf
  <2>. HIDE DEF d
  <2>6. ServerCallTrue(p)'
    BY <1>1, <2>2, <2>4, <2>5 DEF ServerCallTrue, KnownNow, ConfigCallTrue, CatalogCallTrue, ReadTrue
  <2>. QED BY <1>1, <2>1, <2>6, ServerGoto
<1>. QED BY <1>2, <1>3

LEMMA ExistsServer ==
    ASSUME McpTypes, ServerInv, NEW p \in Procs, ConfigExists(p)
    PROVE  ServerInv'
<1>. DEFINE a == Ok(p, [config |-> job[p].data, exists |-> config # None])
<1>1. /\ job[p].op = "config_get" /\ job[p].pc = "exists" /\ UNCHANGED <<config, registry, known>>
      /\ Return(p, a)
  BY DEF ConfigExists, CallStep
<1>2. ReadTrue(p, job[p].data) /\ (config = None => job[p].data = default_config)
  BY <1>1 DEF ServerInv, ServerCallTrue, ConfigCallTrue
<1>3. answer'[p] = a /\ ConfigsOf(p)' = ConfigsOf(p)
  BY <1>1 DEF Return, McpTypes, CallTypes, ConfigsOf
<1>4. /\ a.op = "config_get" /\ a.data.config = job[p].data
      /\ ~a.data.exists => config = None
  BY <1>1 DEF Ok
<1>. HIDE DEF a
<1>5. ConfigAnswerTrue(p)' /\ CatalogAnswerTrue(p)'
  BY <1>2, <1>3, <1>4 DEF ConfigAnswerTrue, CatalogAnswerTrue, ReadTrue
<1>. QED BY <1>1, <1>5, ServerReturn

LEMMA DigestServer ==
    ASSUME McpTypes, ServerInv, NEW p \in Procs, sha256_file(p)
    PROVE  ServerInv'
<1>. DEFINE j == [op |-> "catalog", s |-> None, pc |-> "content", digest |-> registry]
<1>1. job[p].op = "catalog" /\ UNCHANGED <<config, registry, known>>
  BY DEF sha256_file, CallStep
<1>2. CASE registry = None
  BY <1>1, <1>2, ErrorServer DEF sha256_file
<1>3. CASE registry # None
  <2>1. Goto(p, j)
    BY <1>3 DEF sha256_file
  <2>2. <<config, registry>> \in known[p]
    BY <1>1 DEF ServerInv, ServerCallTrue, KnownNow, ToolOps
  <2>3. registry \in DocsOf(p)
    BY <2>2 DEF DocsOf
  <2>4. job'[p] = j /\ DocsOf(p)' = DocsOf(p)
    BY <1>1, <2>1 DEF Goto, McpTypes, CallTypes, DocsOf
  <2>5. ServerCallTrue(p)'
    BY <1>1, <1>3, <2>2, <2>3, <2>4 DEF ServerCallTrue, KnownNow, ConfigCallTrue, CatalogCallTrue
  <2>. QED BY <1>1, <2>1, <2>5, ServerGoto
<1>. QED BY <1>2, <1>3

LEMMA LoadServer ==
    ASSUME McpTypes, ServerInv, NEW p \in Procs, load_registry(p)
    PROVE  ServerInv'
<1>. DEFINE d == [digest |-> job[p].digest, of |-> registry, schemas |-> parse_registry_document(registry)]
<1>1. job[p].op = "catalog" /\ job[p].pc = "content" /\ UNCHANGED <<config, registry, known>>
  BY DEF load_registry, CallStep
<1>2. CASE RegistryValid(registry)
  <2>1. Return(p, Ok(p, d))
    BY <1>2 DEF load_registry
  <2>2. <<config, registry>> \in known[p] /\ registry # None /\ job[p].digest \in DocsOf(p)
    BY <1>1 DEF ServerInv, ServerCallTrue, KnownNow, CatalogCallTrue, ToolOps
  <2>3. registry \in DocsOf(p)
    BY <2>2 DEF DocsOf
  <2>4. Cardinality(DocsOf(p)) = 1 => job[p].digest = registry
    <3>1. IsFiniteSet(DocsOf(p))
      BY DEF ServerInv
    <3>. QED BY <2>2, <2>3, <3>1, FS_Singleton
  <2>5. SchemasTrue(parse_registry_document(registry))
    BY <1>2, <2>2, RegistrySafe DEF McpTypes, CallTypes
  <2>6. answer'[p] = Ok(p, d) /\ DocsOf(p)' = DocsOf(p)
    BY <1>1, <2>1 DEF Return, McpTypes, CallTypes, DocsOf
  <2>7. /\ Ok(p, d).op = "catalog" /\ Ok(p, d).data.digest = job[p].digest /\ Ok(p, d).data.of = registry
        /\ Ok(p, d).data.schemas = parse_registry_document(registry)
    BY <1>1 DEF Ok
  <2>8. ConfigAnswerTrue(p)' /\ CatalogAnswerTrue(p)'
    BY <2>2, <2>3, <2>4, <2>5, <2>6, <2>7 DEF ConfigAnswerTrue, CatalogAnswerTrue
  <2>. QED BY <1>1, <2>1, <2>8, ServerReturn
<1>3. CASE ~RegistryValid(registry)
  BY <1>1, <1>3, ErrorServer DEF load_registry
<1>. QED BY <1>2, <1>3

LEMMA KillServer ==
    ASSUME McpTypes, ServerInv, NEW p \in Procs, Kill(p)
    PROVE  ServerInv'
<1>1. /\ \A q \in Procs \ {p} : job'[q] = job[q] /\ known'[q] = known[q] /\ answer'[q] = answer[q]
      /\ job'[p] = Idle /\ answer'[p] = None /\ known'[p] = {} /\ UNCHANGED <<config, registry>>
  BY DEF Kill, McpTypes, CallTypes
<1>2. ServerCallTrue(p)' /\ ConfigAnswerTrue(p)' /\ CatalogAnswerTrue(p)'
  BY <1>1 DEF Idle, ServerCallTrue, KnownNow, ConfigCallTrue, CatalogCallTrue, ToolOps, ConfigAnswerTrue,
     CatalogAnswerTrue
<1>3. IsFiniteSet(DocsOf(p))'
  <2>1. DocsOf(p)' = {}
    BY <1>1 DEF DocsOf
  <2>. QED BY <2>1, FS_EmptySet
<1>. QED BY <1>1, <1>2, <1>3, ServerOneCall

LEMMA InitServer == Init => ServerInv
<1>. SUFFICES ASSUME Init PROVE ServerInv
  OBVIOUS
<1>1. /\ \A p \in Procs : job[p] = Idle /\ answer[p] = None /\ known[p] = {}
      /\ config = None
  BY DEF Init, StoreInit
<1>2. \A p \in Procs : ServerCallTrue(p) /\ ConfigAnswerTrue(p) /\ CatalogAnswerTrue(p)
  BY <1>1 DEF Idle, ServerCallTrue, KnownNow, ConfigCallTrue, CatalogCallTrue, ToolOps, ConfigAnswerTrue,
     CatalogAnswerTrue
<1>3. \A p \in Procs : IsFiniteSet(DocsOf(p))
  <2>1. \A p \in Procs : DocsOf(p) = {}
    BY <1>1 DEF DocsOf
  <2>. QED BY <2>1, FS_EmptySet
<1>. QED BY <1>1, <1>2, <1>3 DEF ServerInv, ConfigFileTrue

LEMMA StepServer == McpTypes /\ ServerInv /\ [Next]_vars => ServerInv'
<1>. SUFFICES ASSUME McpTypes, ServerInv, [Next]_vars PROVE ServerInv'
  OBVIOUS
<1>1. CASE UNCHANGED vars
  BY <1>1, NoServerStep DEF vars, storeVars, serverVars, callVars
<1>2. ASSUME WriteStep, UNCHANGED serverVars PROVE ServerInv'
  BY <1>2, NoServerStep DEF WriteStep, Tick, CreateSession, AppendRecord, serverVars, callVars
<1>3. ASSUME NEW p \in Procs, signal_handler(p) PROVE ServerInv'
  BY <1>3, NoServerStep DEF signal_handler, callVars
<1>4. CASE Next
  BY <1>2, <1>3, <1>4, NextSteps, EditServer, StoreServer, ToolStartServer, CheckServer, ReplaceServer,
     GetServer, ExistsServer, DigestServer, LoadServer, KillServer
<1>. QED BY <1>1, <1>4

\* What the server's files and the calls on them amount to: the inductive
\* invariant.
THEOREM ServerInvariant == Spec => []ServerInv
  BY InitTypes, StepTypes, InitServer, StepServer, PTL DEF Spec

\* config_set never leaves an invalid configuration behind, and config_get
\* reports one the file held during the call (config_io.py, server.py).
THEOREM ConfigsTrue == Spec => []ConfigTrue
<1>1. ServerInv => ConfigTrue
  BY DEF ServerInv, ConfigFileTrue, ConfigAnswerTrue, ConfigTrue, ReadTrue, ConfigsOf
<1>. QED BY <1>1, ServerInvariant, PTL

\* event_catalog shows schemas of a registry that was there during the call,
\* and a candidate each of them accepts is safe (load_registry, _parse_field,
\* validate_candidate), for every registry document and set of candidates.
THEOREM CatalogsTrue == Spec => []CatalogTrue
<1>1. ServerInv => CatalogTrue
  BY DEF ServerInv, CatalogAnswerTrue, CatalogTrue, SchemasTrue, DocsOf
<1>. QED BY <1>1, ServerInvariant, PTL
=============================================================================
