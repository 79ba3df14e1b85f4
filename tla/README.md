# A TLA+ verification of DTJ

DTJ is a debug-trace journal. Programs record typed events through one of the
SDKs; the SDK talks to `dtj-agent`, a small process that owns the session file;
the agent writes the file with `crates/dtj`; readers (the Rust crate, its CLI, a
pure-Python port in the MCP server, and through them the VS Code extension) open
the file, possibly while it is being written or after a crash.

This directory models the way of an event from the program that emits it to the
answer of a tool that analyses it: the Python SDK, the agent, the writer, the file,
the reader, and the MCP server with its indexes, searches and analyses. The modules
are checked with TLC on small instances; what the writer, the reader, the two
together, the codec, the agent, the Python SDK, the MCP server and a client that
pages through a growing session promise is proved with TLAPS for every instance
(section 4).

    SDKs --(Unix socket, one client)--> dtj-agent --> SessionWriter --> file
                                                                         |
                       dtj CLI, pymodule, dtj_native.py (MCP) <-- SessionReader
                                     |
          MCP server: index, store, search, analytics, config, schema registry

## 1. Inventory

| component | state | operations | hard behaviour | what makes it correct |
|---|---|---|---|---|
| session writer, `writer.rs` | dictionary, pending names and events, two sequence counters, a `BufWriter` | create, intern, append_event, flush_chunk, finish, drop | a crash or I/O error between the dictionary chunk, the event chunk and the flush; limits met at flush time | whatever survives is a prefix of what was recorded, with the names it needs; an Ok flush is kept |
| session reader, `reader.rs` | offset, expected chunk and event numbers, dictionary, events | open (one scan) | torn tails, damage before the tail, a file that grows meanwhile | refuses what is unsound, shortens what is cut, ends |
| format and record encodings, `format.rs`, `chunk.rs`, `dict.rs`, `event.rs`, `payload.rs`, `header.rs`, `crc32.rs` | none | encode, decode | truncated lengths, limits | inverse, self-delimiting |
| `dtj-agent` | handshake flags, the writer, socket path, one connection | Hello, OpenSession, Intern, AppendEvent, FinishSession, Flush, Ping; start, exit | commands in any order, a client that leaves, a kill, I/O errors, a session opened over another, several agents on one path | what it acknowledged is not lost, what it promised is readable, every frame is answered, it exits; some agent is reachable |
| MCP native reader, `dtj_native.py` | as the reader | open_session | a second implementation of the same bytes | agrees with the crate |
| Python SDK, `dtj_sdk/` | connection, id caches, owned agent process | open, emit, close | a reply that comes after its timeout, an agent that is slow or dies, failures half way through open | a name is recorded as it was emitted; an acknowledged event is where emit said; no agent is left behind; calls return |
| the other SDKs | the same | the same | concurrent emits over one socket | the same |
| MCP core, index and store, `dtj_core.py`, `dtj_index.py`, `dtj_store.py` | index files, one per session stem | build, open, search an index; list a store | session files that change around a decode, several processes, a reader that raises | an index holds what its identity says, an answer was true during the call |
| MCP query, search, analytics, `dtj_query.py`, `dtj_search.py`, `dtj_analyze.py`, `dtj_analytics.py` | a baseline file | some forty read-only tools; save and compare baselines | results put together from several decodes, sessions within a session, clocks that go back, boundaries | equal to their definitions, and consistent with each other |
| MCP configuration and schema registry, `config_io.py`, `protocol.py`, `dtg_schema.py`, `dtj_catalog.py` | a JSON file each | get, set, load, validate | files replaced between two reads | a configuration is replaced whole and only by a valid one; a schema accepts nothing unsafe |
| MCP server and HTTP server, `server.py`, `http_server.py` | the call in progress | requests, shutdown | kills, signals | every request is answered |
| VS Code extension | child processes, editor documents | run with timeout, abort, show | late results, processes that do not stop | no stale result is shown, no child is left |
| reports, prompts, CLI output, stress tool, build scripts | none | | | text, not modelled |

Interactions: SDK and agent exchange length-prefixed frames, one reply per
request. Agents started on one socket path share nothing but the path. The agent calls the writer in its only thread. Writer and reader share
the file and nothing else: there is no lock, and a reader trusts only the length
it saw when it opened the file. Every tool of the MCP server decodes the session
file anew, or uses an index file beside it; server processes share these files and
nothing else. The extension starts the CLI and the MCP server as child processes.

The hazards found in this code, each at its line, are listed in `PROJECT.json`
with the properties that cover them.

## 2. Modules

| module | models |
|---|---|
| `DtjFormat` | dictionary, events, limits, chunks and cells; what a file *means* (`WholeChunk`, `CommittedSeqs`, `EventsIn`, `EntriesIn`), stated without a scan |
| `WriterCore` | `SessionWriter`'s methods and the `BufWriter` under it, as operators from a writer to the set of possible outcomes |
| `SessionWriter` | the state machine of one writer: caller, I/O errors, finish, drop, crash; the safety properties, and the inductive invariants `IndInv` (no write is cut inside a chunk) and `ShortInv` (every instance) |
| `JournalLog` | the abstract specification: a log, of which a growing prefix is visible |
| `ReaderCore`, `SessionReader` | the loop of `SessionReader::open`; the loop on arbitrary, damaged and cut files |
| `JournalRecovery` | `SessionWriter` and `ReaderCore` composed on one file |
| `AgentSocket` | how agents take one socket path, remove each other's sockets, and give the path up |
| `DtjAgent` | one of these agents on top of `WriterCore`, its client and its files |
| `DtjCodec` | the byte layouts of dictionary entries and typed payloads with their limits, in Rust and in Python |
| `SdkClient` | `TraceSession` of the Python SDK with its agent process, against an agent that answers in order, late, or not at all |
| `McpStore` | decoding, indexes and the listing of a store, by several processes next to producers |
| `SchemaRegistry` | what a registry of event schemas may declare and what `validate_candidate` accepts |
| `McpServer` | `McpStore` and `SchemaRegistry` in server processes: requests, configuration, catalog, kills, signals |
| `TraceQuery`, `TraceAnalytics` | the search, query, report and analysis functions as operators on decoded events |
| `TraceTools` | a client of these tools while a session is recorded: pages, bundles, baselines; and the properties of the operators |
| `JournalCoreProofs` | TLAPS proofs about the operations of the writer and one iteration of the reader's loop |
| `SessionReaderProofs` | about the reader: every file and every cut |
| `JournalRecoveryProofs` | about the writer (types, short writes, crash safety, refinement) and about writer and reader together |
| `DtjCodecProofs` | about the encodings: round trip, and cuts |
| `DtjAgentProofs`, `SdkClientProofs`, `McpServerProofs` | about the agent with its writer, the Python SDK, and the store, configuration and catalog of the MCP server |
| `TraceToolsProofs` | about a client that reads pages and compares baselines while a session is recorded |
| `MC*` | constants for TLC |

### How state and actions correspond to the code

*Cells.* A file after its 128-byte header is a sequence of cells; a chunk is three
of them, the 24-byte header, the payload and the 8-byte trailer with CRC and
commit marker. A file that ends inside a cell is read exactly as one that ends before
it, because the reader compares declared with remaining bytes, so cutting between
cells loses no behaviour of a file that is only truncated. Something written *behind*
a cut is another matter. Behind a cut in a payload or a trailer the reader finds no
commit marker, wherever the cut was. Behind less than a magic it finds no magic
(`Scrap`); behind a header cut before the end of its length field it may find a length
over the limit (`Mixed`). Both are cells of their own (`Fragments`). Left out are bytes
that happen to read as a magic, a commit marker or a small length where they stand, and
a fragment followed by fewer than the 32 bytes the loop asks for, which is a torn tail
where the model reports the error. A chunk without payload, which the reader would skip,
is left out too: the writer seals none. The CRC is the identity: a payload cell that is not the one its
trailer was computed for is a mismatch.

*BufWriter.* `disk` is what `write(2)` has taken, `buf` what is still in the
buffer. `write_all` may keep the cells, empty the buffer first, or write
everything through; which one depends on sizes the model leaves open. On an error
it may have emptied any part of the buffer; with `PartialWrites = TRUE` a direct
write may also be cut inside a chunk, at any byte. Dropping a `BufWriter` writes the buffer out
and ignores the result. The model has process crashes, not power loss: the code
never calls `fsync`, and promises nothing about it.

*Writer.* One action per method. `AppendCall` contains the flush a full chunk
triggers; `FlushCall` both halves and the final flush, with the early return of
each `?`; `FinishCall` the drop of the consumed writer. `Crash` may happen
between calls or inside a flush: the file keeps what it had and any part of what
the flush would have written. `accepted` (events given a sequence number),
`stable` (how many an Ok flush covered) and `last` are history.

*Events* keep what the journal tells apart: number, dictionary keys, payload
size. Sizes are small units and the limits of `format.rs` are constants.

*Reader.* `ReadStep` is one iteration of the loop, with the early returns in the
order of the code: bad magic (an error at the first chunk, a torn tail later),
too few bytes, declared length over the limit, missing commit marker, CRC,
sequence number, payload.

*Agent.* `main` is `Check`, `Stat`, `Remove`, `Bind` and `StartFails` of `AgentSocket`,
each a step of its own between which other agents take theirs (`StartMe`, `Others`),
then `Accept`, `EndConnection`, `ExitMe`. `Remove` and `Exit` remove what is at the path
by then, whoever's it is; `Accept` needs the path, because a client has nothing else to
find the agent by. Each opcode of `handle_client` is an action with all its refusals. A malformed body is
a frame with `ok = FALSE`, refused without effect, whatever is malformed about
it. `files` holds what is in each session file apart from the live writer's own
cells; `Reopened` spells out what happens when `OpenSession` truncates the file
whose old writer is dropped only afterwards. When `OpenSession` truncates a file and
then cannot write its header, the session stays as it was; if the file is its own,
`clobbered` remembers that its writer goes on behind a hole. Whether the header of the
failed `create` still gets out when its buffer is dropped makes no difference: the file
has no events. Argument and configuration parsing is the choice between `Check` and
`StartFails`. The client sends a frame when it has the reply to the last: a client that
pipelines frames and never reads, and so blocks the agent in `write_frame`, is not
modelled.

*Codec.* Bytes as numbers, offsets from 0 as in the code; ids and lengths keep the
width of their type (`Word16`, `Word32`). What is over a limit is not encoded, and a
count over its limit is not decoded. UTF-8 validation and scalar interpretation are
left out.

*SDK.* `pc` is where the calling thread is; an exchange is two steps, a send and a
read, and between them the agent may answer, be slow or die. The read takes the
first frame in the socket, as `_read_frame` does. What raises is its own action
(`HandshakeRaises`, `EmitRaises`, `FinishRaises`) because it leads elsewhere: open
stops the agent, emit leaves the session usable, close goes on. The agent here is
external and only as detailed as the client can tell; `late`, `lost`, `acked` and
`finished` are history.

*Store.* A session file is its capture, its number of records and its modification
time; size and time are what `_source_identity` looks at. Every stat, decode, load
and rename of `_build_index_atomic` and `_open_validated_index` is a step of its
own. That a decode sees the file as of one moment is what `recovery` shows.
`RustProcs` are the processes that imported the extension, where a file that does
not decode makes the call raise an `UnboundLocalError` instead of returning an
error. `held`, `reentered` and `seen` are history.

*Server.* Tools on the store, the configuration and the registry share no state, so
a behaviour is about one of them (`topic`). Values of a configuration are *default*,
*set* and *bad*; `Updated` is the `update` of a fresh default, so that what
`config_set` is not given is reset. The catalog reads the registry twice, for its
digest and for its content.

*Queries and analyses.* An event is its number, time, category, name, severity,
correlation and typed fields. `Lower` and `In` stand for `casefold` and the
substring test, and are tables in the instance. Results are data; the rows of text
made from them, and the cut to the top rows, are left out. Recursion is written
with recursive functions and folds. In `TraceTools` the tools that decode once are
not actions: their properties are stated of every state, which is every sequence of
events. What takes several decodes is a sequence of actions: reading page after
page, the five parts of `analyze_bundle_dtj`, a baseline that is saved in place, and
a comparison, which decodes the session before it reads the baseline.

## 3. Runs

All runs say `CHECK_DEADLOCK FALSE`: a finished writer, a reader that is done, an
agent that has exited, a closed session and a server without requests really stop.

| run | question | bounds and why they suffice |
|---|---|---|
| `writer` | does every order of calls, with an I/O error and a crash at any point, leave a recoverable prefix with its names, lose nothing while the writer is open, and implement `JournalLog`? `IndInv` is checked here before it is proved from. No write is cut here; `recovery` and the proofs of section 4 have those that are | 3 events, 2 events per chunk, 2 kinds, a too-long name, plain/large/oversized/unresolvable events, 1 failing call: a full chunk, a part-filled one, a batch over the chunk limit, a second dictionary chunk, a failed flush and its retry all occur |
| `reader` | on every file of three chunk images, sound or with one of seven defects, cut anywhere: prefix, soundness, torn-tail flag, termination | three chunks: a defect before, at and behind the cut |
| `recovery` | does a reader that opens at any moment accept the file and return a prefix, and at least what was promised? | one short write allowed, at any byte; 3 events; all interleavings of scan and writer |
| `agent` | any client, an I/O error and a kill: are promised events readable, acknowledged ones not lost, does the race for the socket path have a winner, is every frame served, does the agent end? | 2 sessions over 2 file names, 1 event each, 1 fault: enough for reopening the same and another file, and for a failed reopening; 3 agents: one that removes the socket of a second while a third is between its check and its bind. `OneAtATime` (a state constraint) explores the frames of the client while no other agent has started, and the other agents while the client has sent none that was accepted: a frame neither reads nor changes the path, and the others neither read nor change what a frame does |
| `codec` | are the Rust encoders and decoders inverse and self-delimiting? | up to two records each, with the limits at two, and inputs over each limit; one scalar of each width, BYTES of 0 to 3 bytes with limit 2, ids of one and of two bytes |
| `sdk` | do events carry the names that were emitted, is an acknowledged event there, is an agent left behind, does every call return? | 7 ways to call open, 2 emits out of 5 (a string under several kinds, optional parts, a string too long, a value that cannot be encoded): the second emit finds the caches filled by the first |
| `mcp` | are indexes, answers, configurations and catalogs true whatever happens between two steps, and is every request answered? | 2 processes (one with the extension), 2 calls, 2 sessions that share an index path, 2 changes by others, 2 ticks of the clock: a session can be replaced by one of the same size in the same tick, and every stat, decode and rename can be overtaken |
| `analysis` | do the tools agree with each other and with reference definitions, and what do pages, bundles and baselines say of a session that is being recorded? | every sequence of up to 4 events of 8 kinds (two kinds of boundary, an entity opened and closed, one with a clock that goes back and a reference to another, a failure, snapshots); up to 3 events around multi-step calls, 2 captures, page sizes 1 and 2, offsets up to 1 so that the offset limit is met |

Fairness. `SessionReader` has weak fairness of its loop: it is straight-line code
in one thread and waits for nothing. `DtjAgent` has weak fairness of `AgentStep`,
the agent's only thread, which blocks only in `accept` and in reading the next
frame; neither is part of `AgentStep`. `SdkClient` has weak fairness of the calling
thread, which never waits longer than the 5 seconds of its socket timeout, and none
of the agent. `McpServer` has weak fairness of each process's step in a call while it
serves; a process the signal handler has stuck takes none. Nothing is assumed of
clients, of crashes or of I/O. `FrameServed` and `AgentEnds` allow a kill.
`FrameServed` assumes a client that reads its replies.

What the runs check, by name:

| run | property | what it says |
|---|---|---|
| `writer` | `RecoverablePrefix`, `RefsRecoverable`, `StableRecoverable` | every cut of the file reads as a prefix of the history, with the names it needs, and with all an acknowledged flush promised |
| | `NothingLostWhileOpen`, `DictionaryConsistent` | an accepted event is pending or written; an id has one meaning |
| | `ImplementsLog` | no call, I/O error or crash shrinks what a reader recovers (refinement of `JournalLog`) |
| | `TypeOK`, `IndInv` | the type invariant and the inductive invariant of the proofs |
| `reader` | `TruncationSafe`, `FailClosed` | a cut file gives a prefix of what the whole one gives; what `open` returns is numbered and resolved, whatever the file holds |
| | `TornTailReported`, `Terminates` | `had_torn_tail` exactly when cells were not used; `open` ends |
| `recovery` | `NeverRejects`, `ReadsPrefix`, `ReadsStable` | a journal the writer wrote is accepted at any moment, unless a retried write follows part of a chunk header; it is read as a prefix, with what was promised unless a retried write follows a fragment |
| `agent` | `PromisedReadable`, `AckedNotLost` | what `FlushOk` and `FinishSessionOk` covered stays readable; an acknowledged event stays while its session is open; both but for a file that a failed `OpenSession` truncated under its writer |
| | `RaceHasWinner` | agents that look, remove and bind in separate steps, and remove each other's sockets, leave a running one at the path |
| | `FrameServed`, `AgentEnds` | every frame is served; the agent ends once its client is gone |
| `codec` | `RustRoundTrip`, `PrefixRejected` | decode inverts encode; no proper prefix of an encoding decodes |
| `sdk` | `NamesMatch`, `AckedAreThere` | while no reply was given up on, events decode to the strings emitted; the number `emit` returns is the event's place, and after a confirmed `close` all are in the file |
| | `NoOrphan`, `CallReturns` | an agent the SDK started does not outlive `close` or an open that failed after connecting; calls return |
| `mcp` | `IndexTrue`, `AnswerTrue` | an index holds, and an answer tells, what the session file held under its identity |
| | `ConfigTrue`, `CatalogTrue` | `config_get` and the catalog report states that were there during the call |
| | `RequestAnswered` | every request is answered, unless a signal hangs the server |
| `analysis` | `PagesComplete`, `CategorySpellingOnly` | pages neither skip nor repeat; the two searches and the two statistics differ only by the spelling of a category |
| | `SessionsAgree`, `PairsAgree` | the notions of "last session" and of open/close pairs agree, except where stated |
| | `WindowsComplete`, `ChainIsHistory` | neighbourhoods and clusters are unions of contexts; a causal chain is within reachability |
| | `SummariesAddUp` | summaries account for each event once; the changes a baseline diff finds (it prints the 25 largest) add up to the events recorded in between |
| | `BaselineTrue` | a baseline diff compares with a baseline saved whole, and with an earlier state of the capture unless a save came between its two reads |
| `short_write` | `StableRecoverable` | violated with short writes |
| `reopen` | `AckedSurviveOpen` | violated: acknowledged events of the open session at the next `OpenSession` |
| `python_reader` | `PythonAgrees` | violated: the Python decoder against the Rust one |
| `stale_reply` | `NamesRecorded` | violated: names of every recorded event, timeouts included |

Safety properties worth a second look:
`RecoverablePrefix` and `RefsRecoverable` speak of *every* cut of the file, in
every state, so they cover a crash at any byte. `TruncationSafe` compares two
readers of one file. `NamesMatch` relates the ids in the journal, through the
agent's dictionary, to the arguments of the emit they come from. `IndexTrue` and
`AnswerTrue` hold up to one exception, which they name: a file that comes back to an
identity it had (a new capture of equal size within one tick of the clock).
`PagesComplete` says both that pages never repeat or skip a match while events are
recorded and that a client stops only when it has them all. `SessionsAgree` ties
five different notions of "the last session" together. `PairsAgree` says exactly
when the order-blind and the ordered treatment of open and close events differ.
`ChainIsHistory` compares the greedy walk of `causal_chain_dtj` with reachability.

### Disagreements with documents

Four runs have the result *violation*; the counterexample is what the code does.

| run | the text | the code |
|---|---|---|
| `short_write` | `specs/dtj-format-v1.md:14` "A crash leaves all prior **committed** chunks recoverable." | after a direct write that stopped inside a chunk, `flush_chunk` called again writes the whole chunk behind the fragment; a reader stops at the fragment and later committed chunks are not recovered |
| `reopen` | `specs/dtj-format-v1.md:15` "`LosslessSession` never silently overwrites an accepted event." | `OpenSession` replaces the open writer without `finish`; acknowledged pending events are gone |
| `python_reader` | `specs/dtj-format-v1.md:118`, `:214`; `dtj_native.py:1` "Python port of crates/dtj SessionReader" | a 10-byte entry header and a 2-byte BYTES length |
| `stale_reply` | `docs/dtj-agent-protocol-v1.md:99` "**Intern** / **InternOk** exchanges to populate dictionary"; `client.py:285` "Intern a string, using cache." | after a timeout the next `_intern` takes the late reply for its own and caches a wrong id for the rest of the session |

Smaller differences met while reading, visible in the model and not given a run
of their own: `append_event` takes events above the limits (`writer.rs:121`,
against `specs/dtj-format-v1.md:243`); with `flush_every_event` a failed flush is
only logged (`dtj-agent.rs:665`, against `:112`); `max_events_per_chunk` is stored
and never read (`dtj-agent.rs:114`); reopening the same file name after a failed flush
lets the old `BufWriter`, dropped last, write its buffer into the new file
(`dtj-agent.rs:456`, against `writer.rs:48`); an `OpenSession` for the file that is open
truncates it before it writes the header, so that when this write fails the session stays
open, its sealed acknowledged events are gone, and what `FlushOk` covers from then on lies
behind a hole no reader gets past (`writer.rs:51`, `dtj-agent.rs:448`); a retried flush
behind the first bytes of a chunk header makes the reader reject the file, and for the
first chunk all of it, where `writer.rs` reports only the failed flush
(`reader.rs:52-55`, `:74`); a second agent removes the socket of a running one, which
nobody can reach any more (`dtj-agent.rs:957`), and an agent that exits removes the
socket of the one that replaced it (`:1002`); an `AppendEvent` answered with Error may
have been recorded, so that a retry records it twice (`writer.rs:134`); after one event
over the limits nothing more of the session can be flushed. In the Python parts: open
leaves the agent it started running when it cannot connect (`client.py:189`); one file
that does not decode ends a listing of the store when the extension is installed
(`dtj_core.py:61`); two sessions with the same stem share an index path
(`dtj_store.py:70`) and rebuild it in turns; a signal hangs the HTTP server
(`http_server.py:156`); a schema may require a field it rejects (`dtg_schema.py:429`);
matches beyond `MAX_OFFSET` cannot be reached although the footer announces them.

## 4. Proofs

Every theorem holds for every value of the constants that meets the named
assumptions, which say of the constants only what their types are
(`FormatAssumption`, `PartialWritesAssumption`, `WriterAssumption`,
`AgentAssumption`, `AgentsAssumption`, `FilesAssumption`, `SdkAssumption`, `ServerAssumption`,
`CodecAssumption`, `LimitsAssumption`), that `None` is none of the values it stands
beside (`NoneAssumption`, `StoreAssumption`, `ConfigAssumption`), and that the
candidates of the catalog include the smallest one of each schema
(`PayloadsAssumption`). Results marked * further assume `~PartialWrites`: no write is
cut inside a chunk.

| module | theorem | proves |
|---|---|---|
| `JournalRecoveryProofs` | `TypeCorrect` | `TypeOK` |
| | `ShortWriteInvariant` | `ShortInv` |
| | `CrashLeavesPrefix`, `CrashLeavesDictionary` | `RecoverablePrefix`, `RefsRecoverable`, short writes included |
| | `InductiveInvariant`* | `IndInv` |
| | `FlushIsKept`* | `StableRecoverable` |
| | `NothingLost`*, `DictionariesAgree`* | `NothingLostWhileOpen`, `DictionaryConsistent` |
| | `WriterImplementsLog`* | `ImplementsLog`: `SessionWriter` refines `JournalLog` |
| | `RecoveryInvariant` | `RecoveryInv` |
| | `AcceptsEveryJournal`, `ReturnsPrefix`, `ReturnsPromised` | `NeverRejects`, `ReadsPrefix`, `ReadsStable`, short writes at any byte included |
| `SessionReaderProofs` | `ReaderInvariant` | `ReaderInv` |
| | `OpenFailsClosed`, `TornTailTrue`, `TruncationIsSafe` | `FailClosed`, `TornTailReported`, `TruncationSafe` |
| `DtjCodecProofs` | `CodecInvariant` | `CodecInv` |
| | `RoundTrip`, `CutIsRefused` | `RustRoundTrip`, `PrefixRejected` |
| `DtjAgentProofs` | `StartRace`, `AgentTakesPath` | `RaceHasWinner` of `SocketSpec`; `DtjAgent` refines `SocketSpec` |
| | `AgentInvariant`* | `AgentInv` |
| | `AckedKept`*, `PromisesKept`* | `AckedNotLost`, `PromisedReadable` |
| `SdkClientProofs` | `AgentStopped` | `NoOrphan` |
| | `SdkInvariant`, `NamesAreRecorded`, `AcknowledgedAreThere` | `SdkInv`, `NamesMatch`, `AckedAreThere` |
| `McpServerProofs` | `McpTypeCorrect`, `StoreInvariant`, `ServerInvariant` | `McpTypes`, `StoreInv`, `ServerInv` |
| | `IndexesTrue`, `AnswersTrue` | `IndexTrue`, `AnswerTrue` |
| | `ConfigsTrue`, `CatalogsTrue` | `ConfigTrue`, `CatalogTrue` |
| `TraceToolsProofs` | `ToolsInvariant` | `ToolsInv` |
| | `PagesAreComplete`, `BaselinesAreTrue` | `PagesComplete`, `BaselineTrue` |

The theorems marked * about the writer are false without `~PartialWrites`, and the run
`short_write` is the counterexample for `StableRecoverable`: what a retried flush
writes behind a fragment cannot be read, although it is acknowledged. The two about the
agent depend on that promise in the same way. Every other I/O error is in all of them,
that of the header in `OpenSession` included.

### Writer

`JournalCoreProofs` states what each operation of `WriterCore` returns:
`CutProps`/`JoinProps` about sequences, `PlacedProps` and `WriteAllProps` about the
`BufWriter`, `SealDictProps`/`SealEventsProps` (a seal writes all of a pending list
as the next chunk, or nothing), `FlushChunkSteps` and `AppendSteps`, which take the
set expressions apart once and for all.

`RecoverablePrefix` is not inductive: it says nothing about the buffer, the
counters or the pending lists, and a flush is correct only because of them.
`IndInv` adds three layers.

1. `GoodCells(c, acc)`: chunks are whole and numbered without a gap, each begins
   with its header, an event is preceded by all earlier events, an id is defined in a
   chunk *before* the events that mention it, an event chunk is an exact stretch of the
   history (`EventsExact`), and no id or name is defined twice (`EntriesExact`). It is
   stated chunk by chunk so that it survives any cut (`GoodPrefix`), which is what a
   crash, a failed write and a partly emptied buffer have in common.
2. `WriterInv(w, acc)`, of an open writer: the stream `disk \o buf` is good and has
   `next_chunk_seq - 1` chunks; `pending_events` are the last events of the
   history; the others are in the stream; each name is pending or in the stream, and
   never both (`DictInv`).
3. The file of every state, live or gone, is good and holds the first `stable`
   events.

A dictionary chunk can always be added (`AddDict`). An event chunk can be added
when no name is pending (`AddEvents`, `InvSealEvents`): this is where the order of
the two halves of `flush_chunk`, and its early return when the first half fails,
are used. `Kept(v, w, acc)` collects what every half of a flush, a drop and a crash
guarantee, and is transitive, so that the actions are proved by composition. Event
numbers make events of the history distinct (`Numbered`, `GrownProps`), without
which a new event could be mistaken for one already written.
`EventsRead` turns the chunk-by-chunk statements into the sets `EventsIn` and
`EntriesIn` of the properties.

*Short writes.* When a write is cut inside a chunk, the file has a fragment, the writer
forgets nothing and the next call writes the whole chunk behind it, so that `WriterInv`
fails for good. `ShortInv` is what is left; it is proved, and no run lists it. `SoundCells` says that a file is either good
(`GoodCells`) or good for some `m` chunks with a fragment behind them (`TornAfter`): a
header, or what is left of one, and no trailer where its trailer belongs. What is written
later does not mend it: it begins with a header, one or two cells behind the beginning of
the fragment, so that the trailer's place is taken by something else. `RecoverablePrefix` and
`RefsRecoverable` are about whole chunks at their places, which is why they hold in every
instance. `TornWriter` says what an open writer still knows behind a fragment: the numbers
of its events, and that it has something left to write whenever the fragment is the end of
the file. The promise about `stable` is kept for as long as no chunk is missing
(`ChunksInOrder`).

*Refinement.* `JournalLog` counts: how many events are logged, how many are visible.
The visible ones are a prefix of the history, the history is numbered, so the
recovered set has the cardinality of that prefix; every call then maps to one step of
the log, or to a stutter.

### Reader, and reader with writer

`Covered(r, file)` says that a reader stands at a chunk boundary, that the chunks it
has passed are committed, and that it has gathered what they carry and nothing else.
`JournalCoreProofs` shows that one iteration of the loop, on any file whose cells are
of `FileCells`, either passes a committed chunk (`Passes`) or ends the scan. For
`TruncationSafe` two scans are compared: the invariant remembers the iteration at which
the reader of the shorter file failed, and that the other cannot get past that
chunk (`Rejected`).

`RecoveryInv` joins this to the writer's `IndInv`. The file only grows while a
reader scans it (`Pre`), so what was passed stays passed; every chunk the writer
wrote whole is acceptable to the reader, for which `EventsExact`, `EntriesExact` and
`HeadersInPlace` were added to `GoodCells`: the reader rejects a gap in the event
numbers, an id defined twice and a chunk that does not begin with its header. Of a torn
file the reader takes the chunks before the fragment (`TakesNext`) and does not get
past it (`StopsAtFragment`): if the fragment has its whole header, it finds no commit
marker where the trailer belongs, which is a torn tail and not an error, and the journal
is accepted. If the header itself was cut, the reader may find no magic, or a length
over the limit, and reject the file; `NeverRejects` leaves these journals out
(`CutHeader`). Whatever is returned is a prefix.

### Codec

`Holds(b, off, p)` says that, as far as the buffer goes, the bytes `p` stand in it from
`off` on. Each encoded record has a lemma that says which bytes it consists of
(`EntryParts`, `FieldParts`) and one that a decoder at its first byte returns the
record and the offset behind it, or fails because the buffer ends (`EntryStep`,
`FieldStep`). `ConcatPlaces` gives each record its place in the encoding, and `LoopRuns`
says that after `m` rounds the decoder has the first `m` records, or has failed.
`Decodes` follows: a buffer that holds the encoding, or a part of it, decodes to the
records if it is whole and to an error if it is not. The recursive functions
behind `Concat` and `Loop` are shown to exist, and to have these values, by taking a
smallest counterexample up to a bound (`UpTo`), which needs no induction theorem with an
operator parameter.

### Agent

`Session(w, S, P)` is what the agent needs of its open writer: a history that `w`
agrees with in the sense of `WriterInv` and that has the acknowledged events `S`, and a
file that holds the promised events `P`. Each operation of the writer has a lemma
about it (`SessionAppend`, `SessionFlush`, `SessionFinish`, `SessionDrop`,
`SessionCrash`). `AgentInv` says that the open session is one, and that every other file
holds what was promised of it. Of a session whose file was truncated under it only the
types are known (`Held`, `Leaves`), and that it may not touch other files; the second part is what survives `Settled` and
`Reopened`, the ways in which a writer's cells end up in a file (`OverlayProps`).

For the socket path, `RaceInv` says why the race has a winner: as long as no agent has
failed or gone, an empty path means that nobody has started or somebody has yet to bind
(`cleared`), and a stale socket that nobody has got past its check. The removal of a live
socket keeps this, since the agent that removes it is then the one that has yet to bind.

### SDK

`NamesMatch` needs that a reply belongs to the request the client waits for. While
no reply was given up on (`~late`), `Exchange` lists the four states of the one command
there can be: none, on its way, answered, or lost with the agent. `Answers` says of the
waiting reply what it will be used for; `CacheTrue`, `SentTrue` and `JournalTrue` follow
the ids from the reply into the cache, the next append and the journal. The agent's
dictionary only grows (`Grown`), so an id keeps its meaning. After a timeout nothing of
this holds, which is what the run `stale_reply` shows.

### MCP server

`IndexTrue` needs what each step of `_build_index_atomic` has established
(`RebuildTrue`): after the second stat the decoded content was held under the first
stat's identity, unless the file came back to that identity. `HeldTrue` and `HeldOnce`
tie identities to contents. `SeenNow` says that a call in progress has seen the present
content of the files it is about, which is what makes answers true at some moment *of
the call*. `ServerInv` does the same for the configuration and the registry
(`KnownNow`), and `CatalogsTrue` rests on what `parse_event_schema` lets through.

### Pages and baselines

`Matching(events, f)[n]` are the matches among the first `n` events. They only grow
with `n` (`MatchingGrows`) and depend on these events alone (`MatchingAlike`), so that the
matches a client has seen stay the first matches of a session that is recorded on.
`PageInv` remembers at which event the last page was read: what the client has are the
matches up to there, cut at a page (`PageJoins`), all of them when the tool announced no
more; a call that is refused later can only be refused for its offset, because limit and
window were accepted before.

`BaselineInv` follows a decoded state of the session through the save and the comparison:
each is a state its capture was once in (`FromFile`), so that two of one capture begin with
each other (`Alike`). A comparison decodes first and reads the baseline after that; the
baseline seen at the decode is the older one, and one that was saved in between may be the
younger one, which is the exception in `BaselineTrue`.

### Only model-checked

* liveness under fairness, which is outside the prover: `Terminates`, `FrameServed`,
  `AgentEnds`, `CallReturns`, `RequestAnswered`;
* the other properties of `TraceTools`: `SessionsAgree`, `PairsAgree`,
  `WindowsComplete`, `ChainIsHistory`, `SummariesAddUp` are about what
  folds and sums of the community modules compute on every sequence of events, which
  takes an induction over an operator argument; `CategorySpellingOnly` holds only for
  sessions whose matches fit one page, as they do in the run;
* the promises of writer and agent (*) when writes are cut inside a chunk, of which the
  run `short_write` shows that they fail.

No proof depends on the value of `PayloadSize`.

Each checked property has a mutant in `PROJECT.json`: an operator, marked *Mutant*
beside the one it replaces, that changes the code the way a plausible bug would and
makes TLC find the property violated.

## 5. Not modelled

UTF-8 and float contents, CRC arithmetic, message texts, clocks, power loss, the
text the command line and the MCP tools print, JSON-RPC framing and the FastMCP
library, build scripts. Of the analyses, `preset_report_dtj`, `snapshot_diff_dtj` and
`persistence_mismatches_dtj`, which select and print events by fixed word lists, and
the domain of an event, which is filtered like its name. The Rust, TypeScript, Go, C
and C++ SDKs: they speak the same protocol, with caches, processes and error paths of
their own, and `SdkClient` says nothing about them. The legacy JSONL path (`store.py`,
`ingest.py`, `search.py`), which no tool reaches any more; its index is rewritten in
place without a lock (`store.py:139`). The command line (`cli.py`), which calls the
tools with arguments they do not take. The VS Code extension.

## 6. What could follow

1. `ChainIsHistory` and `SessionsAgree` as theorems, with the walks of
   `TraceAnalytics` written as recursive functions like `Matching`.
2. The agent with short writes: what `FlushOk` promises for a file without a fragment.
3. The TypeScript client with concurrent emits over one socket, next to `SdkClient`.
4. VS Code: `processRunner.ts` (timeout, abort, escalation to SIGKILL) and the
   editor's stale results.
