---------------------------- MODULE MCTraceTools ----------------------------
(* A small instance of TraceTools for TLC. *)
EXTENDS TraceTools, TLC

MCLower(s) == CASE s = "Wire" -> "wire" [] s = "Begin" -> "begin" [] s = "Created" -> "created"
                [] s = "CandidateBegin" -> "candidatebegin" [] OTHER -> s
MCIn(w, s) == w = s \/ <<w, s>> \in {<<"Begin", "CandidateBegin">>, <<"begin", "candidatebegin">>}

MCBlanked(v) == "{}"

MCEventPairs ==
    [Dangling |-> [opens |-> {"Created"}, closes |-> {"Destroyed", "Consumed"}],
     Begin |-> [opens |-> {"Begin"}, closes |-> {"Success", "Commit", "Dispose", "End"}],
     Arm |-> [opens |-> {"Arm", "Arming"}, closes |-> {"Release"}],
     Candidate |-> [opens |-> {"CandidateBegin"}, closes |-> {"Commit", "Cancel"}]]
MCRedFlags == [skip |-> [word |-> "skip"], failed |-> [field |-> "result", value |-> "Failed"]]

Text(v) == [type |-> "string", value |-> v]
Num(v, n) == [type |-> "int", value |-> v, number |-> n]
Kind(mono, cat, name, corr, payload) ==
    [mono |-> mono, cat |-> cat, name |-> name, severity |-> "info", corr |-> corr, payload |-> payload]

\* A boundary of each kind, an entity that is opened and closed, one opened by
\* another with a clock that goes back, a failure along its route, and a pair
\* of snapshots.
MCEventKinds ==
    { Kind(0, "Session", "Begin", None, <<>>),
      Kind(2, "Lifecycle", "trace", None, "msg" :> Text("cleared")),
      Kind(1, "Wire", "Created", None, "id" :> Text("x")),
      Kind(2, "wire", "Destroyed", None, "id" :> Text("x") @@ "ms" :> Num("3", 3)),
      Kind(0, "Wire", "Created", "x", "networkId" :> Text("y")),
      Kind(4, "Wire", "CandidateBegin", None,
           "route" :> Text("y") @@ "result" :> Text("Failed") @@ "ms" :> Num("1", 1)),
      Kind(3, "Snapshot", "before", None, "id" :> Text("y") @@ "state" :> Text("a")),
      Kind(3, "Snapshot", "after", None, "id" :> Text("y") @@ "state" :> Text("skip")) }

MCFilters ==
    { <<>>, [category |-> "wire"], [text |-> "x"], [event |-> "Begin", mono_to_ns |-> 2],
      [exclude |-> "y", category |-> "Wire", text |-> "created"] }
=============================================================================
