----------------------------- MODULE MCMcpServer -----------------------------
(* A small instance of McpServer for TLC. *)
EXTENDS McpServer

\* Two sessions of the same name, in the store and in its sessions directory:
\* they share an index path.
MCStem(s) == "x"

Field(n, required, sensitivity) ==
    [name |-> n, value_type |-> "I64", required |-> required, sensitivity |-> sensitivity,
     semantic_role |-> Undeclared, metric_eligible |-> FALSE, graph_role |-> "none",
     redaction_action |-> Undeclared]
Metric(n, sensitivity) ==
    [Field(n, FALSE, sensitivity) EXCEPT !.semantic_role = "metric", !.metric_eligible = TRUE]
Ref(n, action) ==
    [Field(n, FALSE, "public") EXCEPT !.graph_role = "event_reference", !.redaction_action = action]
Schema(policy, fields) == [key |-> "k", version |-> 1, policy |-> policy, fields |-> fields]

MCRegistryDocs ==
    { <<Schema("strict", <<Field("a", TRUE, "public"), Metric("b", "sensitive")>>)>>,
      <<Schema("relaxed", <<Field("a", TRUE, "secret_forbidden"), Ref("b", "drop_field")>>),
        [Schema("strict", <<Field("a", FALSE, "secret_forbidden"), Ref("b", Undeclared)>>)
            EXCEPT !.version = 2]>>,
      <<Schema("strict", <<Field("a", TRUE, "sensitive")>>)>> }

MCPayloads == SUBSET [name : {"a", "b"}, type : {"I64", "InternedString"}]

MCConfigInputs ==
    {[k \in {"profile"} |-> "set"], [k \in {"profile"} |-> "bad"], [k \in {"other"} |-> "set"],
     [k \in {"pendingEventCapacity"} |-> "set"]}
MCRequiredKeys == {"enabled", "profile"}
MCConfigFiles == {[k \in MCRequiredKeys |-> "bad"]}
MCOptionalKeys == {"pendingEventCapacity"}
=============================================================================
