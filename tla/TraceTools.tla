----------------------------- MODULE TraceTools -----------------------------
(***************************************************************************)
(* An agent that works on a session with the query and analysis tools of   *)
(* the MCP server while the session is being recorded.  Every tool call    *)
(* decodes the file anew (JournalRecovery: a prefix of what is recorded),  *)
(* and the bundles make several calls; a new capture may replace the file  *)
(* at any time.  Three things take more than one decode: reading a result  *)
(* page by page, analyze_bundle_dtj, and a baseline saved now and compared *)
(* with later.                                                             *)
(***************************************************************************)
EXTENDS TraceAnalytics

CONSTANTS
    EventKinds,     \* events a producer sends, without seq
    Filters,        \* filters of the searches
    Limits,         \* page sizes
    Correlations,   \* correlation ids and entity ids
    Durations,      \* duration fields
    MaxEvents,      \* bound on the events recorded,
    MaxBusy,        \* and recorded before or while a client is at work
    MaxCaptures     \* bound on the captures

VARIABLES
    events,     \* what a decode of the session file returns now
    recorded,   \* events recorded so far, in all captures
    capture,    \* which capture the file holds
    job,        \* the client's multi-step call
    baseline,   \* the baseline file: None, Torn or a baseline
    result      \* of the last baseline_diff, or how far it is

vars == <<events, recorded, capture, job, baseline, result>>

Idle == [op |-> "idle"]
Torn == [torn |-> TRUE]

Init ==
    /\ events = <<>> /\ recorded = 0 /\ capture = 1
    /\ job = Idle /\ baseline = None /\ result = None

\* No client has done anything yet.
Quiet == job = Idle /\ baseline = None /\ result = None /\ capture = 1

-----------------------------------------------------------------------------
(* The producer *)

Record ==
    /\ recorded < IF Quiet THEN MaxEvents ELSE MaxBusy
    /\ recorded' = recorded + 1
    /\ \E k \in EventKinds :
        events' = Append(events, [seq |-> Len(events) + 1, mono |-> k.mono, cat |-> k.cat,
                                  name |-> k.name, severity |-> k.severity, corr |-> k.corr,
                                  payload |-> k.payload])
    /\ UNCHANGED <<capture, job, baseline, result>>

NewCapture ==
    /\ capture < MaxCaptures /\ capture' = capture + 1
    /\ events # <<>> /\ recorded < MaxBusy /\ events' = <<>>
    /\ UNCHANGED <<recorded, job, baseline, result>>

-----------------------------------------------------------------------------
(* Reading a search result page by page: the next offset is where the last *)
(* page ended, for as long as the tool says that there is more.  (at is a  *)
(* history: how much was recorded when the last page was read.)            *)

StartPaging ==
    /\ job = Idle /\ baseline = None /\ recorded <= MaxBusy
    /\ \E f \in Filters, n \in Limits :
        job' = [op |-> "page", filter |-> f, limit |-> n, got |-> <<>>, more |-> TRUE,
                 capture |-> capture, at |-> 0]
    /\ result' = None
    /\ UNCHANGED <<events, recorded, capture, baseline>>

NextPage ==
    /\ job.op = "page" /\ job.more
    /\ LET page == search_session_dtj(events, job.filter, job.limit, Len(job.got)) IN
       /\ page.ok
       /\ job' = [job EXCEPT !.got = @ \o page.events, !.more = More(page, Len(job.got)) > 0,
                              !.at = Len(events)]
    /\ UNCHANGED <<events, recorded, capture, baseline, result>>

\* The next offset is more than a call may ask for.
PageRefused ==
    /\ job.op = "page" /\ job.more
    /\ ~search_session_dtj(events, job.filter, job.limit, Len(job.got)).ok
    /\ job' = [job EXCEPT !.more = FALSE]
    /\ UNCHANGED <<events, recorded, capture, baseline, result>>

-----------------------------------------------------------------------------
(* analyze_bundle_dtj: five tools, five decodes *)

StartBundle ==
    /\ job = Idle /\ baseline = None /\ recorded <= MaxBusy
    /\ job' = [op |-> "bundle", parts |-> <<>>, from |-> events, capture |-> capture]
    /\ result' = None
    /\ UNCHANGED <<events, recorded, capture, baseline>>

\* The part that is next, from the events as they are now.
BundlePart(n, evs) ==
    CASE n = 1 -> last_session_dtj(evs)
      [] n = 2 -> analyze_dtj(evs, TRUE)
      [] n = 3 -> trace_brief_dtj(evs, TRUE)
      [] n = 4 -> event_balance_dtj(evs, TRUE)
      [] n = 5 -> red_flags_dtj(evs, FALSE)

BundleStep ==
    /\ job.op = "bundle" /\ Len(job.parts) < 5
    /\ job' = [job EXCEPT !.parts = Append(@, BundlePart(Len(@) + 1, events))]
    /\ UNCHANGED <<events, recorded, capture, baseline, result>>

\* A decode fails while the header of a new capture is not written: what the
\* client was doing ends with that error.
DecodeFails ==
    /\ job.op \in {"page", "bundle"} /\ job.capture # capture /\ events = <<>>
    /\ job' = Idle
    /\ UNCHANGED <<events, recorded, capture, baseline, result>>

-----------------------------------------------------------------------------
(* Baselines *)

Reading == result # None /\ ~result.ok /\ result.kind = "reading"

\* Mutant of SaveOpens: the baseline is of the last session only.
SaveOpensLastSession ==
    /\ job = Idle /\ recorded <= MaxBusy
    /\ job' = [op |-> "save", data |-> baseline_build(Since(events, TRUE)), of |-> events,
                capture |-> capture]
    /\ baseline' = Torn
    /\ result' = IF Reading THEN result ELSE None
    /\ UNCHANGED <<events, recorded, capture>>

\* baseline_save_dtj decodes, then opens the file for writing, which empties
\* it, and then writes it.
SaveOpens ==
    /\ job = Idle /\ recorded <= MaxBusy
    /\ job' = [op |-> "save", data |-> baseline_build(events), of |-> events, capture |-> capture]
    /\ baseline' = Torn
    /\ result' = IF Reading THEN result ELSE None
    /\ UNCHANGED <<events, recorded, capture>>

SaveWrites ==
    /\ job.op = "save"
    /\ \/ baseline' = [data |-> job.data, of |-> job.of, capture |-> job.capture]
       \/ UNCHANGED baseline        \* it fails, or the process is killed
    /\ job' = Idle
    /\ UNCHANGED <<events, recorded, capture, result>>

\* What baseline_diff_dtj makes of the events it decoded and of the baseline.
baseline_diff_dtj(evs) ==
    LET now == baseline_build(evs) IN
    IF baseline = Torn THEN Failed("CorruptBaseline")
    ELSE [ok |-> TRUE, base |-> baseline, current |-> now,
          changes |-> Changes(baseline.data.tags, now.tags),
          red |-> Changes(baseline.data.red_flags, now.red_flags)]

\* It looks whether there is a baseline, decodes the session (seen is a
\* history: the baseline then),
DiffDecodes ==
    /\ result = None /\ recorded <= MaxBusy
    /\ result' = IF baseline = None THEN Failed("BaselineMissing")
                 ELSE [ok |-> FALSE, kind |-> "reading", at |-> events, capture |-> capture,
                       seen |-> baseline]
    /\ UNCHANGED <<events, recorded, capture, job, baseline>>

\* and then reads the baseline.
DiffReads ==
    /\ Reading
    /\ LET diff == baseline_diff_dtj(result.at) IN
       result' = IF ~diff.ok THEN diff
                 ELSE [ok |-> TRUE, base |-> diff.base, changes |-> diff.changes, red |-> diff.red,
                       at |-> result.at, capture |-> result.capture, seen |-> result.seen]
    /\ UNCHANGED <<events, recorded, capture, job, baseline>>

-----------------------------------------------------------------------------

Next ==
    \/ Record \/ NewCapture
    \/ StartPaging \/ NextPage \/ PageRefused
    \/ StartBundle \/ BundleStep \/ DecodeFails
    \/ SaveOpens \/ SaveWrites \/ DiffDecodes \/ DiffReads

Spec == Init /\ [][Next]_vars

-----------------------------------------------------------------------------
(* Properties.  Those of the events alone are looked at while it is Quiet: *)
(* the producer waits for no client, so that no sequence is missed.         *)

Sum(S, f(_)) == MapThenSumSet(f, S)
Ordered(evs) == \A i \in 1..(Len(evs) - 1) : evs[i].mono <= evs[i + 1].mono

\* Pages read one after the other while events are recorded are the matches in
\* order, without one left out or twice, and the client stops only when it has
\* all there were when it read the last page, or more than an offset can pass;
\* unless a new capture replaced the file under it.
PagesComplete ==
    job.op = "page" /\ job.capture = capture =>
        LET all == Matched(events, job.filter) IN
        /\ IsPrefix(job.got, all)
        /\ \/ job.more
           \/ job.got = Matched(SubSeq(events, 1, job.at), job.filter)
           \/ Len(job.got) > MaxOffset

\* Whatever text search finds, regex search for the same word finds too, and
\* the metrics of stats and of the report over an index are the same, when the
\* category is spelled as the events spell it.
CategorySpellingOnly ==
    Quiet => \A f \in Filters :
        ("category" \in DOMAIN f => \A e \in ToSet(events) : Lower(e.cat) = Lower(f.category) => e.cat = f.category)
            => /\ "text" \in DOMAIN f =>
                    ToSet(text_search_dtj(events, f.text, f, MaxLimit).events)
                        \subseteq ToSet(regex_search_dtj(events, f.text, f, MaxLimit).events)
               /\ DOMAIN f \subseteq {"category"} =>
                    stats_report_dtj(events, f, Durations).metrics
                        = performance_report_dtj_index(events, f, Durations).metrics

\* All tools see the last session begin at the same event: last_session, the
\* scope since the last clear, and the slices that are compared.  Events in no
\* slice are those before the first boundary.
OneLastSession ==
    LET slices == session_slices(events)
        scoped == Since(events, TRUE)
        bs == BoundariesOf(events)
    IN /\ last_session_dtj(events).count = Len(scoped)
       /\ events # <<>> => scoped = slices[Len(slices)] /\ Len(slices) = count_sessions(events)
       /\ FlattenSeq(slices) = IF bs = {} THEN events ELSE SubSeq(events, Min(bs), Len(events))
       /\ trace_brief_dtj(events, TRUE).sessions <= 1
       /\ LET cmp == compare_sessions_dtj(events) IN
          cmp.previous # None => Sum(cmp.changes, LAMBDA c : c[3] - c[2]) = Len(scoped) - Len(slices[Len(slices) - 1])

\* The parts of a bundle are about the same session unless one began, or the
\* file was replaced, while it was made; the flags are of the whole file.
BundleCoherent ==
    job.op = "bundle" /\ job.capture = capture /\ Len(job.parts) = 5 =>
        LET p == job.parts
            same == last_boundary_seq(job.from) = last_boundary_seq(events)
        IN /\ same => /\ p[1].boundary \in {None, p[3].start}
                      /\ p[1].count <= p[2].event_count /\ p[2].event_count <= p[3].event_count
                      /\ \A m \in DOMAIN p[3].red_flags : CountOf(p[5], m) >= p[3].red_flags[m]
           /\ job.from = events => p[2].balance = p[4] /\ p[3].balance = p[4]

\* The tools agree on the last session, within one file and across the decodes
\* of a bundle.
SessionsAgree == (Quiet => OneLastSession) /\ BundleCoherent

\* An entity reported as unmatched is still open for pair_latency too; they
\* differ only on one that was closed and opened again.  One whose opening has
\* no closing event after it at all is still open.  When entities are
\* opened once and closed after that, the balance is the number unmatched, and
\* no latency is negative if the clock did not go back.
PairsAgree ==
    Quiet => \A kind \in DOMAIN EventPairs, since \in BOOLEAN :
        LET evs == Since(events, since)
            unmatched == DOMAIN unmatched_entities_dtj(evs, kind)
            latency == pair_latency_dtj(evs, kind)
            isOpen(i) == OpensPair(evs[i], kind)
            isClose(i) == ClosesPair(evs[i], kind)
            id(i) == entity_id_from_event(evs[i])
            tidy == /\ \A i \in DOMAIN evs : isOpen(i) \/ isClose(i) => id(i) # None
                    /\ \A i, j \in DOMAIN evs : id(i) = id(j) /\ i < j => ~isOpen(j) /\ ~(isClose(i) /\ isClose(j))
                    /\ \A j \in DOMAIN evs : isClose(j) => \E i \in 1..(j - 1) : id(i) = id(j) /\ isOpen(i)
            sr == scan(evs)
        IN /\ unmatched \subseteq latency.still_open
           /\ \A x \in latency.still_open \ unmatched :
                \E i, j \in DOMAIN evs : i < j /\ id(i) = x /\ id(j) = x /\ isClose(i) /\ isOpen(j)
           /\ \A g \in sequence_gap_dtj(evs, "Created", EventPairs[kind].closes, Len(evs)) :
                kind = "Dangling" /\ g[2] = None =>
                    entity_id_from_event(events[g[1]]) \in latency.still_open
           /\ tidy => /\ sr.opens[kind] - sr.closes[kind] = Cardinality(unmatched)
                      /\ Len(latency.latencies) = sr.closes[kind]
           /\ Ordered(evs) => \A n \in DOMAIN latency.latencies : latency.latencies[n] >= 0

\* A neighbourhood is the union of the contexts of its hits and a cluster that
\* of its anchors, in order and without repeats; a context is a range; and the
\* minimal repro of a range has each of its signatures once.
WindowsComplete ==
    Quiet => \A w \in 0..2 :
        /\ \A x \in Correlations :
            LET hood == correlation_neighbourhood_dtj(events, x, w, 1, MaxLimit)
                near(S, b, a) == UNION {ToSet(context_around_event_dtj(events, s, b, a).events) : s \in S}
                cluster == entity_cluster_dtj(events, x, w).events
            IN /\ hood.ok => /\ ToSet(hood.events) = near({e.seq : e \in {d \in ToSet(events) : d.corr = x}}, w, 1)
                             /\ \A i, j \in DOMAIN hood.events : i < j => hood.events[i].seq < hood.events[j].seq
               /\ ToSet(cluster) = near(SeqsOf(entity_timeline_dtj(events, x)), w, w)
               /\ \A i, j \in DOMAIN cluster : i < j => cluster[i].seq < cluster[j].seq
               /\ LET line == entity_timeline_dtj(events, x) ends == first_last_dtj(events, <<>>, x) IN
                  ends.count = Len(line) /\ (line # <<>> => ends.first = Head(line) /\ ends.last = Last(line))
        /\ \A s \in 1..Len(events) :
            LET ctx == context_around_event_dtj(events, s, w, w).events
                repro == minimal_repro_dtj(events, s - w, s + w).events
                bundle == line_bundle_dtj(events, s, w, w, 2)
            IN /\ ctx = get_event_range_dtj(events, s - w, s + w).events
               /\ tail_events_dtj(events, w + 1).events = get_event_range_dtj(events, Len(events) - w, Len(events)).events
               /\ Last(bundle.chain) = events[s] /\ events[s] \in ToSet(bundle.context)
               /\ \A e \in ToSet(ctx) : Cardinality({d \in ToSet(repro) :
                    Tag(d) = Tag(e) /\ entity_refs(d) = entity_refs(e)}) = 1

\* A causal chain is what the event can be traced back to: the nearest of the
\* earlier events linked to it by a path of shared references that goes back
\* in time, in order, ending with the event.
ChainIsHistory ==
    Quiet => \A t \in DOMAIN events, hops \in 1..MaxEvents :
        LET linked(i, j) == entity_refs(events[i]) \cap entity_refs(events[j]) # {}
            reach[i \in 1..t] == i = t \/ \E j \in (i + 1)..t : reach[j] /\ linked(i, j)
            before == Slice(events, {i \in 1..t : reach[i]})
            n == Len(before)
        IN causal_chain_dtj(events, t, hops).chain
            = SubSeq(before, AtLeast(1, n - hops), n)

\* When the snapshots of an id come as before, after, before, after ..., the
\* pair that is compared is the last two of them.
SnapshotsPaired ==
    LET pairs == snapshot_before_after_dtj(events)
        snaps(x) == SelectSeq(snapshot_events(events), LAMBDA e : payload_kv(e)["id"] = x)
        inTurn(s) == \A i \in DOMAIN s : s[i].name = IF i % 2 = 1 THEN "before" ELSE "after"
    IN \A x \in DOMAIN pairs :
        LET s == snaps(x) n == Len(s) IN
        inTurn(s) /\ n % 2 = 0 => pairs[x].before = s[n - 1].seq /\ pairs[x].after = s[n].seq

\* Within a capture the changes baseline_diff finds add up to the events
\* recorded between the two decodes; it prints the 25 largest of them.
ChangesAddUp ==
    result # None /\ result.ok /\ result.base.capture = result.capture =>
        Sum(result.changes, LAMBDA c : c[3] - c[2]) = Len(result.at) - Len(result.base.of)

\* Every summary accounts for each event of its scope once: runs and bursts
\* partition it, buckets, templates and transitions add up to it; a burst with
\* an ordered clock fits its window; percentiles are ordered; and the changes
\* baseline_diff finds add up to the events recorded between the two decodes.
SummariesAddUp ==
    /\ ChangesAddUp
    /\ Quiet => \A since \in BOOLEAN :
           LET evs == Since(events, since)
               n == Len(evs)
               bursts == bursts_dtj(evs, 1, 1)
               metrics == stats_report_dtj(events, <<>>, Durations).metrics
               lat == pair_latency_dtj(evs, "Dangling").latencies
           IN /\ Sum(repetition(evs, 1), LAMBDA r : r.run) = n
              /\ Sum(bursts, LAMBDA b : b.count) = n
              /\ \A b, c \in bursts : b # c => b.end < c.start \/ c.end < b.start
              /\ Ordered(evs) => \A b \in bursts : evs[b.end].mono - evs[b.start].mono <= 1
              /\ Ordered(evs) /\ n > 0 => Sum(gaps_dtj(evs, 0), LAMBDA g : g[2]) = evs[n].mono - evs[1].mono
              /\ n > 0 => /\ Total(density_timeline_dtj(evs, 2)) = n
                          /\ Total(transition_matrix_dtj(evs)) = n - 1
              /\ Total(message_templates_dtj(evs)) = n
              /\ \A f \in {g \in Filters : DOMAIN g \subseteq {"category"}} :
                   LET st == stats_report_dtj(events, f, Durations) IN
                   /\ Total(st.by_category) = st.events_scanned
                   /\ Total(st.by_event_name) = st.events_scanned
              /\ Total(field_crosstab_dtj(evs, "id", "ms")) <= Total(field_breakdown_dtj(evs, "ms"))
              /\ \A k \in DOMAIN metrics : /\ metrics[k].p50 <= metrics[k].p95
                                           /\ metrics[k].p95 <= 100 * metrics[k].max
              /\ lat # <<>> => LatencyP95(lat) <= lat[Len(lat)]
              /\ SnapshotsPaired

\* A baseline_diff that returns compares with a baseline that was saved whole,
\* and of two states of one capture; the baseline is the older one, unless it
\* was saved anew while the session was decoded.
BaselineTrue ==
    result # None /\ result.ok =>
        /\ result.base.data = baseline_build(result.base.of)
        /\ result.base.capture = result.capture =>
            /\ IsPrefix(result.base.of, result.at) \/ IsPrefix(result.at, result.base.of)
            /\ result.seen = result.base => IsPrefix(result.base.of, result.at)
=============================================================================
