--------------------------- MODULE SchemaRegistry ---------------------------
(***************************************************************************)
(* The event schema registry (dtg_schema.py): what a registry document may *)
(* declare, and what validate_candidate accepts under a schema.  A payload *)
(* is a set of fields, each with a name and whether its value has a type.  *)
(***************************************************************************)
EXTENDS Naturals, Sequences, FiniteSets

CONSTANT Undeclared     \* an optional key the declaration leaves out

RawFields ==
    [name : STRING, value_type : {"I64", "InternedString", "?"}, required : BOOLEAN,
     sensitivity : {"public", "internal", "sensitive", "secret_forbidden"},
     semantic_role : {Undeclared, "metric", "identifier", "event_reference"},
     metric_eligible : BOOLEAN, graph_role : {"none", "event_reference"},
     redaction_action : {Undeclared, "allow", "drop_field", "reject"}]

\* _default_redaction_action
default_redaction_action(sensitivity) ==
    CASE sensitivity = "secret_forbidden" -> "reject"
      [] sensitivity = "sensitive" -> "drop_field"
      [] OTHER -> "allow"

\* The field as _parse_field stores it.
parse_field(raw) ==
    [raw EXCEPT
        !.semantic_role = IF raw.graph_role # "none" /\ @ = Undeclared THEN raw.graph_role ELSE @,
        !.redaction_action = IF @ = Undeclared THEN default_redaction_action(raw.sensitivity) ELSE @]

\* What _parse_field raises for.
FieldValid(raw) ==
    LET f == parse_field(raw) IN
    /\ f.value_type # "?"
    /\ f.metric_eligible => f.semantic_role = "metric"
    /\ f.graph_role # "none" => f.semantic_role = f.graph_role
    /\ f.redaction_action = "drop_field" => ~f.required
    /\ f.sensitivity = "secret_forbidden" => f.redaction_action = "reject"

\* A schema: [key, version, policy, fields], key standing for producer,
\* domain, category and event name; fields is a sequence of raw fields.
SchemaValid(e) ==
    /\ e.policy \in {"strict", "relaxed"} /\ e.version >= 1
    /\ \A i \in DOMAIN e.fields : FieldValid(e.fields[i])
    /\ \A i, j \in DOMAIN e.fields : e.fields[i].name = e.fields[j].name => i = j

parse_event_schema(e) ==
    [e EXCEPT !.fields = {parse_field(@[i]) : i \in DOMAIN @}]

\* _parse_registry_document, for a document that is a JSON object.
RegistryValid(doc) ==
    /\ doc # <<>>
    /\ \A i \in DOMAIN doc : SchemaValid(doc[i])
    /\ \A i, j \in DOMAIN doc :
        doc[i].key = doc[j].key /\ doc[i].version = doc[j].version => i = j

parse_registry_document(doc) == [i \in DOMAIN doc |-> parse_event_schema(doc[i])]

-----------------------------------------------------------------------------
(* validate_candidate *)

Named(schema, n) == {f \in schema.fields : f.name = n}
Declared(schema, payload) == {v \in payload : Named(schema, v.name) # {}}
NamesIn(fs) == {f.name : f \in fs}

\* The checks in their order; the first that fails is the error code.  (The
\* last two are made field by field; which one is reported is then a matter
\* of the order of the payload.)
Code(schema, payload) ==
    LET present == {f \in schema.fields : f.name \in NamesIn(payload)} IN
    CASE \E f \in present : f.sensitivity = "secret_forbidden" -> "SecretForbidden"
      [] \E f \in present : f.redaction_action = "reject" -> "FieldRejected"
      [] \E f \in schema.fields \ present : f.required -> "RequiredFieldMissing"
      [] schema.policy = "strict" /\ Declared(schema, payload) # payload -> "UnknownField"
      [] \E v \in payload : \E f \in Named(schema, v.name) : f.value_type # v.type -> "TypeMismatch"
      [] OTHER -> "accepted"

\* Mutant of Kept: nothing is dropped before metrics and references are taken.
KeptAll(schema, payload) == payload

\* The fields of the payload that are not dropped, and what is approved.
Kept(schema, payload) ==
    {v \in payload : \A f \in Named(schema, v.name) : f.redaction_action # "drop_field"}
Metrics(schema, payload) ==
    {f \in schema.fields : f.metric_eligible /\ f.semantic_role = "metric"
                           /\ f.name \in NamesIn(Kept(schema, payload))}
GraphRefs(schema, payload) ==
    {f \in schema.fields : f.graph_role # "none" /\ f.name \in NamesIn(Kept(schema, payload))}

\* The smallest candidate a schema can accept: its required fields.
Least(schema) ==
    {[name |-> f.name, type |-> f.value_type] : f \in {g \in schema.fields : g.required}}

-----------------------------------------------------------------------------
(* Properties of a schema from a registry that was loaded *)

\* An accepted candidate carries every required field, no secret, and no
\* approved field that redaction forbids.
AcceptsSafely(schema, payloads) ==
    \A payload \in payloads : Code(schema, payload) = "accepted" =>
        /\ \A f \in schema.fields :
            /\ f.required => f.name \in NamesIn(payload)
            /\ f.sensitivity = "secret_forbidden" => f.name \notin NamesIn(payload)
        /\ \A f \in Metrics(schema, payload) \cup GraphRefs(schema, payload) :
            f.redaction_action = "allow" /\ f.sensitivity # "secret_forbidden"

\* There is a candidate it accepts, exactly when it does not require a field
\* it rejects.  (_parse_field refuses a required field that is dropped, and
\* lets a required field that is rejected pass.)
Satisfiable(schema, payloads) ==
    (\E payload \in payloads : Code(schema, payload) = "accepted")
        <=> ~\E f \in schema.fields : f.required /\ f.redaction_action = "reject"
=============================================================================
