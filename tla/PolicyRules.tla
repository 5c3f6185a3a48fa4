---------------------------- MODULE PolicyRules ----------------------------
(***************************************************************************)
(* The policy format and its two evaluations.                              *)
(*                                                                         *)
(* domain/policy.py reads a policy and evaluates a live question.          *)
(* sayfirst_contract/retrospective_policy.py, which the server does not    *)
(* import, evaluates what a record says was asked against the archived     *)
(* bytes, years later and without an account directory.  The two parsers   *)
(* and the two evaluations are written apart in the code and are written   *)
(* apart here.                                                             *)
(*                                                                         *)
(* A document is what the TOML reader gives: its members, each either      *)
(* absent, malformed, or a value.                                          *)
(***************************************************************************)
EXTENDS Naturals, Sequences, SequencesExt

CONSTANTS
    Absent,        \* a member that is not there; None
    Malformed,     \* a member of the wrong type or shape
    MaxLifetime,   \* max_lifetime_seconds of the deployment
    MaxDeadline    \* MAX_REVIEW_DEADLINE_SECONDS

ASSUME RulesAssumption == MaxLifetime \in Nat /\ MaxDeadline \in Nat /\ Absent # Malformed

DefaultDeadline == 1   \* DEFAULT_REVIEW_DEADLINE_SECONDS, in the model's units
LocalScope == "local"

Given(value) == value \notin {Absent, Malformed}

\* What an acting identity answers to: its user name and the names of its groups.
Held(question) == {<<"user", question.user>>} \cup {<<"group", g>> : g \in question.groups}

-----------------------------------------------------------------------------
(* domain/policy.py *)

ScopeOf(raw) == IF raw.scope = Absent THEN LocalScope ELSE raw.scope

LifetimeAccepted(raw, bound) ==
    \/ raw.lifetime = Absent
    \/ raw.lifetime # Malformed /\ raw.lifetime \in 1 .. bound /\ raw.outcome = "allow"

\* The wait of a rule: Absent where the rule does not suspend, Malformed where
\* the member is refused.
review_deadline(raw) ==
    IF raw.outcome # "suspend"
    THEN IF raw.deadline = Absent THEN Absent ELSE Malformed
    ELSE IF raw.deadline = Absent THEN DefaultDeadline
    ELSE IF raw.deadline # Malformed /\ raw.deadline \in 1 .. MaxDeadline
         THEN raw.deadline ELSE Malformed

RuleAccepted(raw) ==
    /\ raw.known
    /\ Given(raw.id)
    /\ Given(raw.capability)
    /\ raw.scope # Malformed
    /\ raw.principals \notin {{}, Absent, Malformed}
    /\ raw.outcome \in {"allow", "deny", "suspend"}
    /\ raw.reason
    /\ LifetimeAccepted(raw, MaxLifetime)
    /\ raw.digest # Malformed
    /\ review_deadline(raw) # Malformed

rule(raw) ==
    [rule_id |-> raw.id, capability |-> raw.capability, scope |-> ScopeOf(raw),
     principals |-> raw.principals, outcome |-> raw.outcome, digest |-> raw.digest,
     lifetime |-> raw.lifetime, deadline |-> review_deadline(raw)]

IdsAreUnique(rules) == \A i, j \in DOMAIN rules : rules[i].id = rules[j].id => i = j

\* A policy, or the reason there is none.
parse_policy(document) ==
    LET refused(why) == [reason |-> why, rules |-> <<>>]
        invalid == \/ ~ document.revision
                   \/ \E i \in DOMAIN document.rules : ~ RuleAccepted(document.rules[i])
                   \/ ~ IdsAreUnique(document.rules)
    IN  IF ~ document.decodes THEN refused("malformed")
        ELSE IF ~ document.known THEN refused("invalid")
        ELSE IF document.format # 1 THEN refused("format_unsupported")
        ELSE IF invalid THEN refused("invalid")
        ELSE [reason |-> Absent, rules |-> [i \in DOMAIN document.rules |-> rule(document.rules[i])]]

applies(r, question) ==
    /\ r.capability = question.capability
    /\ r.scope = question.scope
    /\ r.principals \cap Held(question) # {}
    /\ r.digest = Absent \/ r.digest = question.digest

\* Mutant: the references of the first rule for the question only.
ReferencesOfFirst(rules, question) ==
    LET same == SelectSeq(rules, LAMBDA r : r.capability = question.capability /\ r.scope = question.scope)
    IN  IF same = <<>> THEN {} ELSE Held(question) \cap same[1].principals

references_read(rules, question) ==
    Held(question) \cap
        UNION {r.principals : r \in {s \in Range(rules) : s.capability = question.capability
                                                          /\ s.scope = question.scope}}

\* The order in which outcomes are looked for, and the reason of each.
Strictest == <<[outcome |-> "deny", reason |-> "policy_denies"],
               [outcome |-> "suspend", reason |-> "policy_requires_review"],
               [outcome |-> "allow", reason |-> "policy_allows"]>>

evaluate(rules, question) ==
    LET with(level) == {i \in DOMAIN rules : /\ applies(rules[i], question)
                                             /\ rules[i].outcome = Strictest[level].outcome}
        first == CHOOSE k \in 1 .. 3 : with(k) # {} /\ \A j \in 1 .. k - 1 : with(j) = {}
        found == CHOOSE i \in with(first) : \A j \in with(first) : i <= j
    IN  IF \A i \in DOMAIN rules : ~ applies(rules[i], question)
        THEN [outcome |-> "deny", reason |-> "policy_absent", rule_id |-> Absent]
        ELSE [outcome |-> Strictest[first].outcome, reason |-> Strictest[first].reason,
              rule_id |-> rules[found].rule_id]

-----------------------------------------------------------------------------
(* retrospective_policy.py *)

RecipeReasons == {"policy_allows", "policy_denies", "policy_absent", "policy_requires_review"}

\* The deployment's bound on a lifetime is not part of the recipe.
RecordedRuleAccepted(raw) ==
    /\ raw.known
    /\ Given(raw.id)
    /\ Given(raw.capability)
    /\ raw.scope # Malformed
    /\ raw.principals \notin {{}, Absent, Malformed}
    /\ raw.outcome \in {"allow", "deny", "suspend"}
    /\ raw.reason
    /\ \/ raw.lifetime = Absent
       \/ raw.lifetime # Malformed /\ raw.lifetime >= 1 /\ raw.outcome = "allow"
    /\ \/ raw.deadline = Absent
       \/ raw.deadline # Malformed /\ raw.deadline \in 1 .. MaxDeadline /\ raw.outcome = "suspend"
    /\ raw.digest # Malformed

RecordedPolicyAccepted(document) ==
    /\ document.decodes
    /\ document.known
    /\ document.format = 1
    /\ document.revision
    /\ \A i \in DOMAIN document.rules : RecordedRuleAccepted(document.rules[i])
    /\ IdsAreUnique(document.rules)

\* The triple these bytes yield for what the record carries.  Rules are looked
\* for from the strictest outcome to the mildest, and in the order of the file.
evaluate_recorded_inputs(document, record) ==
    LET named(raw) ==
            /\ raw.capability = record.capability
            /\ ScopeOf(raw) = record.scope
            /\ \E reference \in raw.principals : reference \in record.references
            /\ raw.digest = Absent \/ (record.digest # Absent /\ raw.digest = record.digest)
        applying == {i \in DOMAIN document.rules : named(document.rules[i])}
        rank(i) == CASE document.rules[i].outcome = "deny"    -> 1
                     [] document.rules[i].outcome = "suspend" -> 2
                     [] document.rules[i].outcome = "allow"   -> 3
        chosen == CHOOSE i \in applying :
                      \A j \in applying : rank(i) < rank(j) \/ (rank(i) = rank(j) /\ i <= j)
    IN  IF applying = {}
        THEN [outcome |-> "deny", reason |-> "policy_absent", rule_id |-> Absent]
        ELSE [outcome |-> document.rules[chosen].outcome,
              reason |-> Strictest[rank(chosen)].reason, rule_id |-> document.rules[chosen].id]

\* What a reader concludes about one record.
rederive_recorded_decision(record, document) ==
    IF record.reason \notin RecipeReasons THEN "reason_outside_recipe"
    ELSE IF ~ RecordedPolicyAccepted(document) THEN "policy_unparseable"
    ELSE IF evaluate_recorded_inputs(document, record) =
                [outcome |-> record.outcome, reason |-> record.reason, rule_id |-> record.rule_id]
         THEN "confirmed" ELSE "differs"
=============================================================================
