------------------------------- MODULE Routes -------------------------------
(***************************************************************************)
(* Which answer a request gets before any route runs: do_GET, do_POST and  *)
(* _resolve_approval of adapters/http_surface.py, in the order in which    *)
(* they look at the request and at the connection's identity.              *)
(*                                                                         *)
(* A request is the facts those checks read: the operation its method and  *)
(* path name, the generation it declares, whether its body is an object,   *)
(* whether its delegation is in bounds and what its schema says of it.     *)
(***************************************************************************)
EXTENDS Identity

CONSTANTS
    Composed,  \* whether services were composed behind the surface
    Approvals  \* whether the approval routes are served

ASSUME RoutesAssumption == {Composed, Approvals} \subseteq BOOLEAN

Reads == {"read_whoami", "read_status", "read_policy_status", "read_decision",
          "read_approval", "read_evidence", "export_evidence"}

Operations == Reads \cup {"ask_decision", "resolve_approval", "unmatched"}

Generations == {"spoken", "generation_missing", "generation_unreadable",
                "generation_unsupported"}

SchemaVerdicts == {"of_this_generation", "member_unknown", "request_malformed"}

Requests == [op : Operations, generation : Generations, object : BOOLEAN,
             delegation : BOOLEAN, schema : SchemaVerdicts]

\* "served": the operation's own route answers.  "decide": the authority does.
Codes == (Generations \cup SchemaVerdicts
          \cup {"operation_unknown", "delegation_invalid", "principal_groups_unavailable",
                "policy_unavailable", "served", "decide"})
         \ {"spoken", "of_this_generation"}

\* The codes that say something of the connection's identity.
AboutTheIdentity == {"principal_groups_unavailable", "policy_unavailable"}

\* A request for a decision writes its connection on the scope it names.
TouchesScope == {"policy_unavailable", "decide"}

\* Whether a request that needs a principal may go on.
HasPrincipal(id) == id.status # "unknown" /\ id.principal # None

\* do_GET.
GetCode(id, r) ==
    CASE r.op = "read_whoami" -> "served"
      [] r.op = "read_status" ->
            IF id.principal = None THEN "principal_groups_unavailable" ELSE "served"
      [] OTHER ->
            IF ~Composed THEN "operation_unknown"
            ELSE IF r.generation # "spoken" THEN r.generation
            ELSE IF r.op = "read_approval" /\ ~Approvals THEN "operation_unknown"
            ELSE "served"

\* _resolve_approval: the operation, the body, the generation, the person, the schema.
ResolveCode(id, r) ==
    CASE ~(Composed /\ Approvals)     -> "operation_unknown"
      [] Composed /\ Approvals ->
            IF ~r.object THEN "request_malformed"
            ELSE IF r.generation # "spoken" THEN r.generation
            ELSE IF ~HasPrincipal(id) THEN "principal_groups_unavailable"
            ELSE IF r.schema # "of_this_generation" THEN r.schema
            ELSE "served"

\* do_POST for an ask: the schema is held before the scope is touched, and the
\* authority is looked for after.
AskCode(id, r) ==
    IF ~r.object THEN "request_malformed"
    ELSE IF r.generation # "spoken" THEN r.generation
    ELSE IF ~r.delegation THEN "delegation_invalid"
    ELSE IF ~HasPrincipal(id) THEN "principal_groups_unavailable"
    ELSE IF r.schema # "of_this_generation" THEN r.schema
    ELSE IF ~Composed THEN "policy_unavailable"
    ELSE "decide"

RouteCode(id, r) ==
    CASE r.op = "unmatched"        -> "operation_unknown"
      [] r.op \in Reads            -> GetCode(id, r)
      [] r.op = "resolve_approval" -> ResolveCode(id, r)
      [] r.op = "ask_decision"     -> AskCode(id, r)

=============================================================================
