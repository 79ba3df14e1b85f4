--------------------------- MODULE TraceAnalytics ---------------------------
(***************************************************************************)
(* The analyses of one decoded session (dtj_analyze.py, dtj_analytics.py). *)
(* Results are kept as data: the text the tools print from them, and the   *)
(* truncation to the top rows where nothing depends on it, are left out.   *)
(***************************************************************************)
EXTENDS TraceQuery

CONSTANTS
    EventPairs,     \* EVENT_PAIRS: kind to [opens, closes], sets of substrings
    RedFlags,       \* RED_FLAGS: label to a word, or to a field and its value
    Blanked(_)      \* a value with its numbers, or if it has none all of it, as {}

NamedIn(e, words) == \E w \in words : In(w, e.name)
SeqsOf(s) == {s[i].seq : i \in DOMAIN s}

\* _tag
Tag(e) == <<e.cat, e.name>>

\* _payload_kv: the fields that have a text form.
payload_kv(e) ==
    [n \in Typed(e, {"string", "int", "float", "bool"}) |-> e.payload[n].value]

\* _haystack (with _string_parts): words, and name=value pairs.
Haystack(e) == [words |-> text_parts(e) \cup Values(e, {"bytes"}), pairs |-> payload_kv(e)]

\* A marker of _scan: a word in any case, or field=value as it is spelled.
Marked(e, m) ==
    \/ "word" \in DOMAIN m /\ Mentions(Haystack(e).words, m.word)
    \/ "field" \in DOMAIN m /\ m.field \in DOMAIN payload_kv(e) /\ payload_kv(e)[m.field] = m.value

EntityFields == {"id", "wire", "networkId", "sourceId", "route"}

\* _entity_refs: the correlation and the entity fields.
entity_refs(e) ==
    ({e.corr} \ {None})
        \cup {e.payload[n].value : n \in EntityFields \cap Typed(e, {"string", "int"})}

\* _entity_id_from_event: the first of these fields it has (no value is empty).
entity_id_from_event(e) ==
    LET has == Typed(e, {"string", "int"})
        first == SelectSeq(<<"id", "networkId", "sourceId", "wire">>, LAMBDA n : n \in has)
    IN IF first = <<>> THEN None ELSE e.payload[Head(first)].value

\* _entity_field_match: the correlation or one of four fields; not the route.
entity_field_match(e, x) ==
    \/ e.corr = x
    \/ \E n \in (EntityFields \ {"route"}) \cap DOMAIN payload_kv(e) : payload_kv(e)[n] = x

-----------------------------------------------------------------------------
(* Sessions within a file *)

is_session_boundary(e) ==
    \/ e.cat = "Session" /\ In("Begin", e.name)
    \/ e.cat = "Lifecycle" /\ e.name = "trace" /\ Mentions(Haystack(e).words, "cleared")

BoundariesOf(events) == {i \in DOMAIN events : is_session_boundary(events[i])}

last_boundary_seq(events) ==
    LET bs == BoundariesOf(events) IN IF bs = {} THEN None ELSE events[Max(bs)].seq

count_sessions(events) ==
    LET n == Cardinality(BoundariesOf(events)) IN
    IF n > 0 THEN n ELSE IF events = <<>> THEN 0 ELSE 1

\* Mutant of scope_events: the boundary itself is left out.
ScopeAfterBoundary(events, since_last_clear, category, from, to) ==
    LET since == IF since_last_clear THEN last_boundary_seq(events) ELSE None IN
    SelectSeq(events, LAMBDA e : since # None => e.seq > since)

\* The category is compared as it is spelled; from, to are mono bounds or None.
scope_events(events, since_last_clear, category, from, to) ==
    LET since == IF since_last_clear THEN last_boundary_seq(events) ELSE None IN
    SelectSeq(events, LAMBDA e :
        /\ since # None => e.seq >= since
        /\ category # None => e.cat = category
        /\ from # None => e.mono >= from
        /\ to # None => e.mono <= to)

Since(events, since_last_clear) == scope_events(events, since_last_clear, None, None, None)

\* _session_slices: what comes before the first boundary is in no slice.
session_slices(events) ==
    LET starts == SetToSortSeq(BoundariesOf(events), LAMBDA a, b : a < b) IN
    IF starts = <<>> THEN IF events = <<>> THEN <<>> ELSE <<events>>
    ELSE [k \in DOMAIN starts |->
            SubSeq(events, starts[k], IF k < Len(starts) THEN starts[k + 1] - 1 ELSE Len(events))]

last_session_dtj(events) ==
    LET b == last_boundary_seq(events) IN
    CASE events = <<>> -> [boundary |-> None, count |-> 0]
      [] events # <<>> /\ b = None -> [boundary |-> 1, count |-> Len(events)]
      [] OTHER -> [boundary |-> b, count |-> Cardinality({i \in DOMAIN events : events[i].seq >= b})]

TagCounts(events) == Counts(DOMAIN events, LAMBDA i : Tag(events[i]))
CountOf(counts, k) == IF k \in DOMAIN counts THEN counts[k] ELSE 0

\* The keys whose counts differ, with both counts.
Changes(a, b) ==
    {<<k, CountOf(a, k), CountOf(b, k)>> :
        k \in {x \in DOMAIN a \cup DOMAIN b : CountOf(a, x) # CountOf(b, x)}}

RedCounts(events) ==
    LET hits(f) == {i \in DOMAIN events : Marked(events[i], RedFlags[f])} IN
    [f \in {g \in DOMAIN RedFlags : hits(g) # {}} |-> Cardinality(hits(f))]

compare_sessions_dtj(events) ==
    LET slices == session_slices(events)
        n == Len(slices)
    IN IF n < 2 THEN [ok |-> TRUE, previous |-> None, last |-> None]
       ELSE [ok |-> TRUE, previous |-> TagCounts(slices[n - 1]), last |-> TagCounts(slices[n]),
             changes |-> Changes(TagCounts(slices[n - 1]), TagCounts(slices[n])),
             red |-> Changes(RedCounts(slices[n - 1]), RedCounts(slices[n]))]

-----------------------------------------------------------------------------
(* Pairs of opening and closing events *)

OpensPair(e, kind) == NamedIn(e, EventPairs[kind].opens)
ClosesPair(e, kind) == ~OpensPair(e, kind) /\ NamedIn(e, EventPairs[kind].closes)

\* _scan: the counts over the events of a scope.
scan(events) ==
    [opens |-> [k \in DOMAIN EventPairs |-> Cardinality({i \in DOMAIN events : OpensPair(events[i], k)})],
     closes |-> [k \in DOMAIN EventPairs |-> Cardinality({i \in DOMAIN events : ClosesPair(events[i], k)})],
     categories |-> Counts(DOMAIN events, LAMBDA i : events[i].cat),
     red_counts |-> RedCounts(events),
     first_mono |-> IF events = <<>> THEN None ELSE Head(events).mono,
     last_mono |-> IF events = <<>> THEN None ELSE Last(events).mono]

\* The unbalanced kinds of _balance_rows and event_balance_dtj.
balance_rows(sr) ==
    {[pair |-> k, created |-> sr.opens[k], closed |-> sr.closes[k]] :
        k \in {x \in DOMAIN EventPairs : sr.opens[x] # sr.closes[x]}}

event_balance_dtj(events, since_last_clear) == balance_rows(scan(Since(events, since_last_clear)))

red_flags_dtj(events, since_last_clear) == RedCounts(Since(events, since_last_clear))

\* unmatched_entities_dtj: the entities opened and not closed anywhere in the
\* scope, with the last event that opened each and the last that names it.
unmatched_entities_dtj(scoped, kind) ==
    LET about(x) == {i \in DOMAIN scoped : entity_id_from_event(scoped[i]) = x}
        ids == {entity_id_from_event(scoped[i]) : i \in DOMAIN scoped} \ {None}
        opened == {x \in ids : \E i \in about(x) : OpensPair(scoped[i], kind)}
        closed == {x \in ids : \E i \in about(x) : ClosesPair(scoped[i], kind)}
    IN [x \in opened \ closed |->
            [created |-> scoped[Max({i \in about(x) : OpensPair(scoped[i], kind)})].seq,
             last |-> scoped[Max(about(x))].seq]]

\* Mutant of pair_latency_dtj: a closed entity stays in the table of open ones.
PairLatencyKeepsOpen(scoped, kind) ==
    LET step(acc, e) ==
            LET x == entity_id_from_event(e) IN
            IF x = None THEN acc
            ELSE IF OpensPair(e, kind)
            THEN [acc EXCEPT !.open = [y \in DOMAIN @ \cup {x} |-> IF y = x THEN e ELSE @[y]]]
            ELSE IF ClosesPair(e, kind) /\ x \in DOMAIN acc.open
            THEN [acc EXCEPT !.latencies = Append(@, e.mono - acc.open[x].mono)]
            ELSE acc
        end == FoldLeft(step, [open |-> <<>>, latencies |-> <<>>], scoped)
    IN [still_open |-> DOMAIN end.open, latencies |-> SortSeq(end.latencies, LAMBDA a, b : a < b)]

\* pair_latency_dtj: one pass that pairs a close with the open before it.
pair_latency_dtj(scoped, kind) ==
    LET step(acc, e) ==
            LET x == entity_id_from_event(e) IN
            IF x = None THEN acc
            ELSE IF OpensPair(e, kind)
            THEN [acc EXCEPT !.open = [y \in DOMAIN @ \cup {x} |-> IF y = x THEN e ELSE @[y]]]
            ELSE IF ClosesPair(e, kind) /\ x \in DOMAIN acc.open
            THEN [open |-> [y \in DOMAIN acc.open \ {x} |-> acc.open[y]],
                  latencies |-> Append(acc.latencies, e.mono - acc.open[x].mono)]
            ELSE acc
        end == FoldLeft(step, [open |-> <<>>, latencies |-> <<>>], scoped)
    IN [still_open |-> DOMAIN end.open, latencies |-> SortSeq(end.latencies, LAMBDA a, b : a < b)]

\* Its p95: an index into the sorted latencies.
LatencyP95(latencies) ==
    LET n == Len(latencies) IN latencies[1 + AtMost((n * 95) \div 100, n - 1)]

\* sequence_gap_dtj: each opening event and the first closing one among the
\* next max_lines.
sequence_gap_dtj(scoped, open_event, close_parts, max_lines) ==
    LET opens == {i \in DOMAIN scoped : In(Lower(open_event), Lower(scoped[i].name))}
        after(i) == {j \in (i + 1)..AtMost(i + max_lines, Len(scoped)) :
                        \E c \in close_parts : In(Lower(c), Lower(scoped[j].name))}
    IN {<<scoped[i].seq, IF after(i) = {} THEN None ELSE scoped[Min(after(i))].seq>> : i \in opens}

-----------------------------------------------------------------------------
(* Entities *)

\* Mutant of causal_chain_dtj: only references of the event itself are followed.
ChainOfOne(events, seq, hops) ==
    LET at == {i \in DOMAIN events : events[i].seq = seq}
        t == Max(at)
        step(acc, e) ==
            IF Len(acc) < hops + 1 /\ entity_refs(events[t]) \cap entity_refs(e) # {}
            THEN <<e>> \o acc ELSE acc
    IN IF at = {} THEN Failed("MissingEvent")
       ELSE [ok |-> TRUE, chain |-> FoldLeft(step, <<events[t]>>, Reverse(SubSeq(events, 1, t - 1)))]

\* causal_chain_dtj: walks back from the event, collecting at most hops events
\* that share a reference with what it has; refs grows with each.
causal_chain_dtj(events, seq, hops) ==
    LET at == {i \in DOMAIN events : events[i].seq = seq}
        t == Max(at)
        step(acc, e) ==
            IF Len(acc.chain) < hops + 1 /\ acc.refs \cap entity_refs(e) # {}
            THEN [chain |-> <<e>> \o acc.chain, refs |-> acc.refs \cup entity_refs(e)]
            ELSE acc
    IN IF at = {} THEN Failed("MissingEvent")
       ELSE [ok |-> TRUE,
             chain |-> FoldLeft(step, [chain |-> <<events[t]>>, refs |-> entity_refs(events[t])],
                                Reverse(SubSeq(events, 1, t - 1))).chain]

entity_timeline_dtj(events, x) == SelectSeq(events, LAMBDA e : entity_field_match(e, x))

\* Mutant of entity_cluster_dtj: events in two windows appear twice.
ClusterRepeats(events, x, window) ==
    LET anchors == SelectSeq([i \in DOMAIN events |-> i], LAMBDA i : entity_field_match(events[i], x))
        step(acc, i) == acc \o SubSeq(events, Min(Window(events, i, window, window)),
                                              Max(Window(events, i, window, window)))
    IN [events |-> FoldLeft(step, <<>>, anchors), related |-> <<>>]

\* entity_cluster_dtj: the windows of the entity's events one after the other,
\* each event once, and how often they refer to others.
entity_cluster_dtj(events, x, window) ==
    LET anchors == SelectSeq([i \in DOMAIN events |-> i], LAMBDA i : entity_field_match(events[i], x))
        step(acc, i) ==
            acc \o SelectSeq(SubSeq(events, Min(Window(events, i, window, window)),
                                            Max(Window(events, i, window, window))),
                             LAMBDA e : e.seq \notin SeqsOf(acc))
        cluster == FoldLeft(step, <<>>, anchors)
        refs == {<<e, r>> : e \in ToSet(cluster), r \in UNION {entity_refs(e) : e \in ToSet(cluster)} \ {x}}
    IN [events |-> cluster,
        related |-> Counts({p \in refs : p[2] \in entity_refs(p[1])}, LAMBDA p : p[2])]

\* first_last_dtj, for a tag given in full.
first_last_dtj(events, tag, x) ==
    LET hits == {i \in DOMAIN events : Tag(events[i]) = tag \/ entity_field_match(events[i], x)} IN
    IF hits = {} THEN [count |-> 0]
    ELSE [count |-> Cardinality(hits), first |-> events[Min(hits)], last |-> events[Max(hits)]]

\* minimal_repro_dtj: the first event of each signature in the range.
minimal_repro_dtj(events, start, end) ==
    LET range == get_event_range_dtj(events, start, end)
        sig(e) == <<Tag(e), entity_refs(e)>>
        step(kept, e) == IF \E k \in ToSet(kept) : sig(k) = sig(e) THEN kept ELSE Append(kept, e)
    IN IF range.ok THEN [ok |-> TRUE, events |-> FoldLeft(step, <<>>, range.events)] ELSE range

-----------------------------------------------------------------------------
(* Snapshots *)

snapshot_events(events) == SelectSeq(events, LAMBDA e : e.cat = "Snapshot")

\* snapshot_before_after_dtj without an entity: the last "before" and the last
\* "after" snapshot of each id, and the fields in which they differ.
snapshot_before_after_dtj(events) ==
    LET snaps == ToSet(snapshot_events(events))
        key(e) == IF "id" \in DOMAIN payload_kv(e) THEN payload_kv(e)["id"] ELSE e.seq
        before == {e \in snaps : In("before", Lower(e.name))}
        after == {e \in snaps \ before : In("after", Lower(e.name))}
        last(S, x) == CHOOSE e \in S : key(e) = x /\ \A d \in S : key(d) = x => d.seq <= e.seq
        field(e, n) == IF n \in DOMAIN payload_kv(e) THEN payload_kv(e)[n] ELSE None
        diffs(b, a) == {n \in DOMAIN payload_kv(a) \cup DOMAIN payload_kv(b) : field(a, n) # field(b, n)}
    IN [x \in {key(e) : e \in before} \cap {key(e) : e \in after} |->
            [before |-> last(before, x).seq, after |-> last(after, x).seq,
             diffs |-> diffs(last(before, x), last(after, x))]]

-----------------------------------------------------------------------------
(* Repetition, time and counts *)

\* repetition_dtj and _repetition: runs of equal events, as [start, run].
repetition(scoped, min_run) ==
    LET same(i) == i > 1 /\ Tag(scoped[i]) = Tag(scoped[i - 1]) /\ Haystack(scoped[i]) = Haystack(scoped[i - 1])
        run[i \in DOMAIN scoped] == IF same(i) THEN run[i - 1] + 1 ELSE 1
        ends == {i \in DOMAIN scoped : (i = Len(scoped) \/ ~same(i + 1)) /\ run[i] >= min_run}
    IN {[start |-> scoped[i - run[i] + 1].seq, run |-> run[i]] : i \in ends}

\* Mutant of bursts_dtj: every event may start a burst.
BurstsOverlap(scoped, window, min_count) ==
    LET stop(i) == Min({j \in (i + 1)..Len(scoped) : \/ scoped[j].mono - scoped[i].mono > window
                                                     \/ Tag(scoped[j]) # Tag(scoped[i])}
                       \cup {Len(scoped) + 1})
        starts == {i \in DOMAIN scoped : stop(i) - i >= min_count}
    IN {[count |-> stop(i) - i, start |-> i, end |-> stop(i) - 1] : i \in starts}

\* bursts_dtj: from each start as far as the tag is the same and the time at
\* most window later than that of the start; the next start is where it ends.
bursts_dtj(scoped, window, min_count) ==
    LET stop(i) == Min({j \in (i + 1)..Len(scoped) : \/ scoped[j].mono - scoped[i].mono > window
                                                     \/ Tag(scoped[j]) # Tag(scoped[i])}
                       \cup {Len(scoped) + 1})
        isStart[i \in DOMAIN scoped] == i = 1 \/ \E k \in 1..(i - 1) : isStart[k] /\ stop(k) = i
        starts == {i \in DOMAIN scoped : isStart[i] /\ stop(i) - i >= min_count}
    IN {[count |-> stop(i) - i, start |-> i, end |-> stop(i) - 1] : i \in starts}

gaps_dtj(scoped, min_gap) ==
    {<<scoped[i].seq, scoped[i + 1].mono - scoped[i].mono>> :
        i \in {k \in 1..(Len(scoped) - 1) : scoped[k + 1].mono - scoped[k].mono >= min_gap}}

transition_matrix_dtj(scoped) ==
    Counts(1..(Len(scoped) - 1), LAMBDA i : <<Tag(scoped[i]), Tag(scoped[i + 1])>>)

\* density_timeline_dtj: events by bucket and category, for all categories.
density_timeline_dtj(scoped, bucket) ==
    Counts(DOMAIN scoped, LAMBDA i : <<(scoped[i].mono - scoped[1].mono) \div bucket, scoped[i].cat>>)

\* _event_template: the tag, and the fields with their values blanked.
event_template(e) ==
    <<Tag(e), [n \in DOMAIN payload_kv(e) |-> Blanked(payload_kv(e)[n])]>>

message_templates_dtj(scoped) == Counts(DOMAIN scoped, LAMBDA i : event_template(scoped[i]))

field_breakdown_dtj(scoped, field) ==
    Counts({i \in DOMAIN scoped : field \in DOMAIN payload_kv(scoped[i])},
           LAMBDA i : payload_kv(scoped[i])[field])

field_crosstab_dtj(scoped, a, b) ==
    Counts({i \in DOMAIN scoped : {a, b} \subseteq DOMAIN payload_kv(scoped[i])},
           LAMBDA i : <<payload_kv(scoped[i])[a], payload_kv(scoped[i])[b]>>)

-----------------------------------------------------------------------------
(* Overviews *)

analyze_dtj(events, since_last_clear) ==
    LET scoped == Since(events, since_last_clear) sr == scan(scoped) IN
    [event_count |-> Len(scoped), sessions |-> count_sessions(scoped), balance |-> balance_rows(sr),
     runs |-> repetition(scoped, 3), red_flags |-> sr.red_counts]

\* trace_brief_dtj: what it found and the tool it recommends next.
trace_brief_dtj(events, since_last_clear) ==
    LET scoped == Since(events, since_last_clear)
        sr == scan(scoped)
    IN [start |-> IF scoped # <<>> THEN scoped[1].seq ELSE 1, event_count |-> Len(scoped),
        sessions |-> count_sessions(scoped), balance |-> balance_rows(sr), red_flags |-> sr.red_counts,
        next |-> CASE scoped = <<>> -> "session_stats_dtj"
                   [] sr.red_counts # <<>> -> "session_context_dtj"
                   [] balance_rows(sr) # {} -> "session_event_balance_dtj"
                   [] OTHER -> "session_stats_dtj"]

\* line_bundle_dtj, for one decode.
line_bundle_dtj(events, seq, before, after, hops) ==
    LET ctx == context_around_event_dtj(events, seq, before, after)
        chain == causal_chain_dtj(events, seq, hops)
    IN IF ~ctx.ok THEN ctx ELSE [ok |-> TRUE, context |-> ctx.events, chain |-> chain.chain]

\* _baseline_build
baseline_build(events) ==
    LET sr == scan(events) IN
    [lines |-> Len(events), tags |-> TagCounts(events), categories |-> sr.categories,
     red_flags |-> sr.red_counts, last_monotonic_ns |-> sr.last_mono]
=============================================================================
