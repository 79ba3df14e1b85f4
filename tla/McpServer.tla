------------------------------ MODULE McpServer ------------------------------
(***************************************************************************)
(* The MCP server processes (server.py, http_server.py): tool calls on the *)
(* session store, on a configuration file (config_io.py) and on an event   *)
(* schema registry (dtj_catalog.py, dtg_schema.py).  A process serves one  *)
(* request at a time.  It may be killed, and it may get a signal: then its *)
(* handler calls server.shutdown() on the thread that runs serve_forever,  *)
(* and waits for that loop to end for ever.                                *)
(*                                                                         *)
(* The three groups of tools share no state, so the clients of a behaviour *)
(* ask about one of them: its topic.                                       *)
(***************************************************************************)
EXTENDS McpStore, SchemaRegistry

CONSTANTS
    RequiredKeys,   \* configuration keys default_config has
    OptionalKeys,   \* the others validate_config knows
    ConfigInputs,   \* JSON objects config_set may get: functions on keys
    RegistryDocs,   \* registry documents, see SchemaRegistry
    ConfigFiles,    \* configuration files a user may put in place
    Payloads        \* candidates the schemas are judged by

ASSUME ServerAssumption ==
    /\ None \notin RegistryDocs /\ None \notin ConfigFiles
    /\ \A doc \in RegistryDocs : \A i \in DOMAIN doc :
        /\ DOMAIN doc[i] = {"key", "version", "policy", "fields"}
        /\ \A j \in DOMAIN doc[i].fields : doc[i].fields[j] \in RawFields

\* Among the candidates is, for every schema, the one that has its required
\* fields and no others.
ASSUME PayloadsAssumption ==
    \A doc \in RegistryDocs : RegistryValid(doc) =>
        \A i \in DOMAIN doc : Least(parse_event_schema(doc[i])) \in Payloads

VARIABLES
    topic,      \* what the clients of this behaviour ask about
    up,         \* process to serving or hung
    config,     \* the configuration file, or None
    registry,   \* the registry file, or None
    known       \* history: <<config, registry>> pairs true in p's call

serverVars == <<topic, up, config, registry, known>>
vars == <<storeVars, serverVars>>

-----------------------------------------------------------------------------
(* Configuration values: functions from keys to "default", "set" or "bad"  *)

default_config == [k \in RequiredKeys |-> "default"]

validate_config(c) ==
    /\ RequiredKeys \subseteq DOMAIN c
    /\ DOMAIN c \subseteq RequiredKeys \cup OptionalKeys
    /\ \A k \in DOMAIN c : c[k] # "bad"

\* base.update(cfg): what the caller leaves out is reset to its default.
Updated(cfg) ==
    [k \in RequiredKeys \cup DOMAIN cfg |->
        IF k \in DOMAIN cfg THEN cfg[k] ELSE default_config[k]]

\* A configuration that is written is a file there is.
ASSUME ConfigAssumption == None \notin {Updated(cfg) : cfg \in ConfigInputs}

Init ==
    /\ StoreInit
    /\ topic \in {"store", "config", "catalog"}
    /\ up = [p \in Procs |-> "serving"]
    /\ config = None /\ registry = None
    /\ known = [p \in Procs |-> {}]

\* A change of either file is something every call in progress may observe.
Observe(c, r) ==
    known' = [p \in Procs |-> IF Busy(p) THEN known[p] \cup {<<c, r>>} ELSE known[p]]

StartToolCall(p, j) ==
    /\ Begin(p, j, {})
    /\ known' = [known EXCEPT ![p] = {<<config, registry>>}]
    /\ UNCHANGED <<fileVars, indexes, topic, up, config, registry>>

CallStep == UNCHANGED <<fileVars, indexes, topic, up, registry>>

-----------------------------------------------------------------------------
(* config_set and config_get *)

StartConfigSet(p) ==
    \E cfg \in ConfigInputs :
        StartToolCall(p, [op |-> "config_set", s |-> None, pc |-> "check", data |-> Updated(cfg)])

\* Mutant of CheckConfig: the configuration is written as it came.
CheckConfigNever(p) ==
    /\ job[p].op = "config_set" /\ job[p].pc = "check"
    /\ Goto(p, [job[p] EXCEPT !.pc = "replace"])
    /\ CallStep /\ UNCHANGED <<config, known>>

\* validate_config, in the tool and again in write_config_atomic; then the
\* temporary file, which is removed when it cannot be written.
CheckConfig(p) ==
    /\ job[p].op = "config_set" /\ job[p].pc = "check"
    /\ \/ /\ validate_config(job[p].data)
          /\ Goto(p, [job[p] EXCEPT !.pc = "replace"])
       \/ Return(p, Error(p, "refused"))
    /\ CallStep /\ UNCHANGED <<config, known>>

ReplaceConfig(p) ==
    /\ job[p].op = "config_set" /\ job[p].pc = "replace"
    /\ config' = job[p].data
    /\ Observe(config', registry)
    /\ Return(p, Ok(p, job[p].data))
    /\ CallStep

StartConfigGet(p) ==
    StartToolCall(p, [op |-> "config_get", s |-> None, pc |-> "read"])

\* get_or_default: the default when there is no file; an invalid one raises.
get_or_default(p) ==
    /\ job[p].op = "config_get" /\ job[p].pc = "read"
    /\ IF config # None /\ ~validate_config(config)
       THEN Return(p, Error(p, "invalid"))
       ELSE Goto(p, [op |-> "config_get", s |-> None, pc |-> "exists",
                     data |-> IF config = None THEN default_config ELSE config])
    /\ CallStep /\ UNCHANGED <<config, known>>

\* Whether the file exists is looked up again after it was read.
ConfigExists(p) ==
    /\ job[p].op = "config_get" /\ job[p].pc = "exists"
    /\ Return(p, Ok(p, [config |-> job[p].data, exists |-> config # None]))
    /\ CallStep /\ UNCHANGED <<config, known>>

-----------------------------------------------------------------------------
(* event_catalog: load_registry reads the file for its digest, and again   *)
(* for its content.                                                        *)

StartCatalog(p) ==
    StartToolCall(p, [op |-> "catalog", s |-> None, pc |-> "digest"])

sha256_file(p) ==
    /\ job[p].op = "catalog" /\ job[p].pc = "digest"
    /\ IF registry = None THEN Return(p, Error(p, "RegistryMissing"))
       ELSE Goto(p, [op |-> "catalog", s |-> None, pc |-> "content", digest |-> registry])
    /\ CallStep /\ UNCHANGED <<config, known>>

load_registry(p) ==
    /\ job[p].op = "catalog" /\ job[p].pc = "content"
    /\ Return(p, IF RegistryValid(registry)
                 THEN Ok(p, [digest |-> job[p].digest, of |-> registry,
                             schemas |-> parse_registry_document(registry)])
                 ELSE Error(p, "InvalidRegistry"))
    /\ CallStep /\ UNCHANGED <<config, known>>

\* Somebody puts a registry or a configuration file in place.
EditFile ==
    /\ Change
    /\ \/ topic = "catalog" /\ registry' \in RegistryDocs \ {registry} /\ UNCHANGED config
       \/ topic = "config" /\ config' \in ConfigFiles \ {config} /\ UNCHANGED registry
    /\ Observe(config', registry')
    /\ UNCHANGED <<files, clock, held, reentered, indexes, callVars, seen, topic, up>>

-----------------------------------------------------------------------------

\* The process is killed, in the middle of a call or when it hangs, and started
\* again.
Kill(p) ==
    /\ Change
    /\ Busy(p) \/ up[p] = "hung"
    /\ up' = [up EXCEPT ![p] = "serving"]
    /\ job' = [job EXCEPT ![p] = Idle]
    /\ answer' = [answer EXCEPT ![p] = None]
    /\ seen' = [seen EXCEPT ![p] = {}] /\ known' = [known EXCEPT ![p] = {}]
    /\ UNCHANGED <<files, clock, held, reentered, indexes, calls, topic, config, registry>>

\* SIGINT or SIGTERM: serve_http's signal_handler.
signal_handler(p) ==
    /\ Change
    /\ up[p] = "serving"
    /\ up' = [up EXCEPT ![p] = "hung"]
    /\ UNCHANGED <<files, clock, held, reentered, indexes, callVars, seen, topic, config, registry, known>>

ServeStep(p) ==
    /\ up[p] = "serving"
    /\ \/ StoreStep(p) /\ UNCHANGED serverVars
       \/ CheckConfig(p) \/ ReplaceConfig(p) \/ get_or_default(p) \/ ConfigExists(p)
       \/ sha256_file(p) \/ load_registry(p)

\* do_POST and _handle_single_request: a request names a tool; anything else
\* is answered with an error and changes nothing.
Request(p) ==
    /\ up[p] = "serving"
    /\ \/ /\ topic = "store" /\ StoreStart(p)
          /\ UNCHANGED serverVars
       \/ topic = "config" /\ (StartConfigSet(p) \/ StartConfigGet(p))
       \/ topic = "catalog" /\ StartCatalog(p)

Next ==
    \/ topic = "store" /\ WriteStep /\ UNCHANGED serverVars
    \/ EditFile
    \/ \E p \in Procs : Request(p) \/ ServeStep(p) \/ Kill(p) \/ signal_handler(p)

\* A server that is not hung goes on with the call it is in.
Spec == Init /\ [][Next]_vars /\ \A p \in Procs : WF_vars(ServeStep(p))

-----------------------------------------------------------------------------
(* Properties *)

\* The configuration file is only ever replaced by a valid configuration, and
\* config_get reports a state the file was in during the call: the file's
\* content, or the default while there was none.  "exists" may be newer.
ConfigTrue ==
    /\ config # None /\ ~validate_config(config) => config \in ConfigFiles
    /\ \A p \in Procs :
        LET a == answer[p]
            configs == {k[1] : k \in known[p]}
        IN a # None /\ a.ok =>
            /\ a.op = "config_set" => a.data \in configs
            /\ a.op = "config_get" =>
                /\ \/ a.data.config \in configs /\ validate_config(a.data.config)
                   \/ a.data.config = default_config /\ None \in configs
                /\ ~a.data.exists => a.data.config = default_config

\* The catalog shows a registry that was there during the call, of which every
\* schema is safe to validate against; the digest it reports is of the same
\* document unless the file was replaced between the two reads.
CatalogTrue ==
    \A p \in Procs :
        LET a == answer[p]
            docs == {k[2] : k \in known[p]}
        IN a # None /\ a.op = "catalog" /\ a.ok =>
            /\ a.data.of \in docs /\ a.data.digest \in docs
            /\ Cardinality(docs) = 1 => a.data.digest = a.data.of
            /\ \A i \in DOMAIN a.data.schemas :
                /\ AcceptsSafely(a.data.schemas[i], Payloads)
                /\ Satisfiable(a.data.schemas[i], Payloads)

\* Every request is answered, unless a signal hangs the server.
RequestAnswered ==
    \A p \in Procs : [](Busy(p) => <>(~Busy(p) \/ up[p] = "hung"))
=============================================================================
