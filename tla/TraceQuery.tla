----------------------------- MODULE TraceQuery -----------------------------
(***************************************************************************)
(* Search and bounded queries over the events of one decoded session       *)
(* (dtj_search.py, dtj_query.py), and the duration metrics (report.py,     *)
(* dtj_report.py).  An event is a record                                   *)
(*   [seq, mono, cat, name, severity, corr, payload]                       *)
(* with payload a function from field names to [type, value]; seq is its   *)
(* event_sequence, which the writer numbers 1, 2, 3 ...  The clock of the  *)
(* producer, mono, is whatever the producer sent.  The domain of an event  *)
(* is filtered exactly like its name and is left out.                      *)
(***************************************************************************)
EXTENDS Integers, Sequences, FiniteSets, FiniteSetsExt, SequencesExt

CONSTANTS
    None,           \* an absent value
    Lower(_),       \* str.casefold
    In(_, _),       \* In(w, s): w is a substring of s
    MaxLimit,       \* MAX_SEARCH_LIMIT
    MaxOffset       \* MAX_OFFSET

ASSUME LimitsAssumption == MaxLimit \in Nat /\ MaxOffset \in Nat

Failed(kind) == [ok |-> FALSE, kind |-> kind]
AtMost(a, b) == IF a < b THEN a ELSE b
AtLeast(a, b) == IF a > b THEN a ELSE b
Counts(S, key(_)) == [k \in {key(x) : x \in S} |-> Cardinality({x \in S : key(x) = k})]
Total(counts) == MapThenSumSet(LAMBDA k : counts[k], DOMAIN counts)

Typed(e, types) == {n \in DOMAIN e.payload : e.payload[n].type \in types}
Values(e, types) == {e.payload[n].value : n \in Typed(e, types)}
\* The code looks for w in the parts joined with spaces: w is one word.
Mentions(parts, w) == \E p \in parts : In(Lower(w), Lower(p))

-----------------------------------------------------------------------------
(* dtj_search *)

\* _human_readable_text_parts: no severity, no numbers, no bytes.
human_readable_text_parts(e) ==
    ({e.cat, e.name, e.corr} \ {None}) \cup DOMAIN e.payload \cup Values(e, {"string"})

\* One filter of event_matches_native_filters.
Passes(e, key, v) ==
    CASE key = "category" -> Lower(e.cat) = Lower(v)
      [] key = "exclude_category" -> Lower(e.cat) # Lower(v)
      [] key = "event_name" -> e.name = v
      [] key = "event" -> In(Lower(v), Lower(e.name))
      [] key = "correlation_id" -> e.corr = v
      [] key = "severity" -> e.severity = v
      [] key = "text" -> Mentions(human_readable_text_parts(e), v)
      [] key = "exclude" -> ~Mentions(human_readable_text_parts(e), v)
      [] key = "mono_from_ns" -> e.mono >= v
      [] key = "mono_to_ns" -> e.mono <= v

\* f is a function from the filters of a call to their values.
event_matches_native_filters(e, f) == \A key \in DOMAIN f : Passes(e, key, f[key])

\* The list comprehension of search_session_dtj, after each event.
Matching(events, f) ==
    LET found[n \in 0..Len(events)] ==
            IF n = 0 THEN <<>>
            ELSE IF event_matches_native_filters(events[n], f) THEN Append(found[n - 1], events[n])
            ELSE found[n - 1]
    IN  found
Matched(events, f) == Matching(events, f)[Len(events)]

validate_search_limit(n) == n \in 1..MaxLimit
validate_search_offset(n) == n \in 0..MaxOffset
validate_mono_window(f) ==
    /\ \A k \in {"mono_from_ns", "mono_to_ns"} \cap DOMAIN f : f[k] >= 0
    /\ {"mono_from_ns", "mono_to_ns"} \subseteq DOMAIN f => f.mono_from_ns <= f.mono_to_ns

\* Mutant of search_session_dtj: matched_count is the size of the page.
SearchCountsPage(events, f, limit, offset) ==
    LET matched == Matched(events, f)
        page == SubSeq(matched, offset + 1, AtMost(Len(matched), offset + limit))
    IN [ok |-> TRUE, matched_count |-> Len(page), events |-> page]

search_session_dtj(events, f, limit, offset) ==
    IF ~validate_search_limit(limit) \/ ~validate_search_offset(offset) THEN Failed("InvalidLimit")
    ELSE IF ~validate_mono_window(f) THEN Failed("InvalidQuery")
    ELSE LET matched == Matched(events, f) IN
         [ok |-> TRUE, matched_count |-> Len(matched),
          events |-> SubSeq(matched, offset + 1, AtMost(Len(matched), offset + limit))]

\* What _list_traces_text says is left after a page.
More(page, offset) == AtLeast(0, page.matched_count - offset - Len(page.events))

-----------------------------------------------------------------------------
(* dtj_query *)

\* events[lo..hi] around position i.
Window(events, i, before, after) == AtLeast(1, i - before)..AtMost(Len(events), i + after)
Slice(events, S) == [k \in 1..Cardinality(S) |->
                        events[CHOOSE i \in S : Cardinality({j \in S : j < i}) = k - 1]]

tail_events_dtj(events, n) ==
    IF ~validate_search_limit(n) THEN Failed("InvalidLimit")
    ELSE [ok |-> TRUE,
          events |-> IF n < Len(events) THEN SubSeq(events, Len(events) - n + 1, Len(events))
                     ELSE events]

get_event_range_dtj(events, start, end) ==
    IF end < start THEN Failed("InvalidRange")
    ELSE IF end - start + 1 > MaxLimit THEN Failed("ResultTooLarge")
    ELSE [ok |-> TRUE, events |-> SelectSeq(events, LAMBDA e : start <= e.seq /\ e.seq <= end)]

\* The callers' bounds on before and after are checked first.
context_around_event_dtj(events, seq, before, after) ==
    LET found == {i \in DOMAIN events : events[i].seq = seq} IN
    IF found = {} THEN Failed("MissingEvent")
    ELSE [ok |-> TRUE, events |-> Slice(events, Window(events, Min(found), before, after))]

\* Of the filters, it takes the category.
text_search_dtj(events, query, f, limit) ==
    search_session_dtj(events, [k \in (DOMAIN f \cap {"category"}) \cup {"text"} |->
                                    IF k = "text" THEN query ELSE f[k]], limit, 0)

\* Mutant of text_parts: the correlation is left out.
TextWithoutCorrelation(e) ==
    {e.cat, e.name, e.severity} \cup DOMAIN e.payload \cup Values(e, {"string", "int", "float", "bool"})

\* _text_parts: severity and numbers too.
text_parts(e) ==
    human_readable_text_parts(e) \cup {e.severity} \cup Values(e, {"int", "float", "bool"})

\* regex_search_dtj for a pattern that is a plain word; the category is
\* compared as it is spelled.
regex_search_dtj(events, word, f, limit) ==
    IF ~validate_search_limit(limit) THEN Failed("InvalidLimit")
    ELSE LET matched == SelectSeq(events, LAMBDA e :
                            /\ "category" \in DOMAIN f => e.cat = f.category
                            /\ Mentions(text_parts(e), word))
         IN  [ok |-> TRUE, matched_count |-> Len(matched),
              events |-> SubSeq(matched, 1, AtMost(Len(matched), limit))]

correlation_neighbourhood_dtj(events, corr, before, after, limit) ==
    LET hits == {i \in DOMAIN events : events[i].corr = corr}
        selected == UNION {Window(events, i, before, after) : i \in hits}
    IN IF ~validate_search_limit(limit) THEN Failed("InvalidLimit")
       ELSE IF Cardinality(selected) > limit THEN Failed("ResultTooLarge")
       ELSE [ok |-> TRUE, matched_count |-> Cardinality(selected), events |-> Slice(events, selected)]

-----------------------------------------------------------------------------
(* Duration metrics *)

\* _percentile of sorted integers, times 100: interpolated between the two
\* nearest ranks.
percentile(sorted, p) ==
    LET k == (Len(sorted) - 1) * p
        f == 1 + k \div 100
        r == k % 100
    IN IF r = 0 THEN 100 * sorted[f] ELSE sorted[f] * (100 - r) + sorted[f + 1] * r

\* The sorted values of a field of number type in the events of S.
SortedValues(S, field) ==
    LET has == {e \in S : field \in Typed(e, {"int", "float"})} IN
    SetToSortSeq({<<e.payload[field].number, e.seq>> : e \in has},
                 LAMBDA a, b : a[1] < b[1] \/ (a[1] = b[1] /\ a[2] < b[2]))

\* Metrics of the events in S: by event name and duration field (one that
\* _is_duration_field accepts), count, p50, p95 and max.
Metrics(S, durations) ==
    LET keys == {<<e.cat, e.name, n>> : e \in S, n \in durations}
        vals(k) == LET vs == SortedValues({e \in S : e.cat = k[1] /\ e.name = k[2]}, k[3])
                   IN  [i \in DOMAIN vs |-> vs[i][1]]
        used == {k \in keys : vals(k) # <<>>}
    IN [k \in used |-> [count |-> Len(vals(k)), p50 |-> percentile(vals(k), 50),
                        p95 |-> percentile(vals(k), 95), max |-> vals(k)[Len(vals(k))]]]

\* f holds a category or nothing.
stats_report_dtj(events, f, durations) ==
    LET S == {e \in ToSet(events) : event_matches_native_filters(e, f)} IN
    [events_scanned |-> Cardinality(S), by_category |-> Counts(S, LAMBDA e : e.cat),
     by_event_name |-> Counts(S, LAMBDA e : e.name),
     by_severity |-> Counts(S, LAMBDA e : e.severity), metrics |-> Metrics(S, durations)]

\* _filter_events of an index: every filter compares exactly.
filter_events(events, f) ==
    LET field(e) == [category |-> e.cat, event_name |-> e.name, correlation_id |-> e.corr,
                     severity |-> e.severity] IN
    SelectSeq(events, LAMBDA e : \A k \in DOMAIN f : field(e)[k] = f[k])

\* The report over an index; f holds a category or nothing.
performance_report_dtj_index(events, f, durations) ==
    LET S == ToSet(filter_events(events, f)) IN
    [events_scanned |-> Cardinality(S), metrics |-> Metrics(S, durations)]
=============================================================================
