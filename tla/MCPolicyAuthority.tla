------------------------ MODULE MCPolicyAuthority ------------------------
(* Two files, a handful of policies, two handler threads.                  *)
EXTENDS PolicyAuthority, TLC

CONSTANTS f1, f2, strict, pinned, cut, t1, t2

User(n) == <<"user", n>>
Group(n) == <<"group", n>>

Raw(id, outcome, principals) ==
    [known |-> TRUE, id |-> id, capability |-> "pay", scope |-> Absent, principals |-> principals,
     outcome |-> outcome, reason |-> TRUE, lifetime |-> Absent, deadline |-> Absent, digest |-> Absent]

Doc(rules) == [decodes |-> TRUE, known |-> TRUE, format |-> 1, revision |-> TRUE, rules |-> rules]

\* An allow for a user with a suspension and a deny for its groups behind it;
\* rules pinned to a digest, one of them also for another scope; an edit cut short.
SomeDocument(content) ==
    CASE content = strict -> Doc(<<Raw("r1", "allow", {User("ann")}),
                                   Raw("r2", "suspend", {Group("ops"), Group("dev")}),
                                   Raw("r3", "deny", {Group("temps")})>>)
      [] content = pinned -> Doc(<<[Raw("r1", "allow", {User("ann"), User("bob")})
                                        EXCEPT !.digest = "d1", !.lifetime = 1, !.scope = "local"],
                                   [Raw("r2", "deny", {Group("temps")}) EXCEPT !.digest = "d2"],
                                   [Raw("r3", "suspend", {Group("ops")}) EXCEPT !.deadline = 2],
                                   [Raw("r4", "deny", {Group("dev")}) EXCEPT !.scope = "lab"]>>)
      [] content = cut    -> [Doc(<<>>) EXCEPT !.decodes = FALSE]

Ask(user, groups, digest) ==
    [user |-> user, groups |-> groups, capability |-> "pay", scope |-> "local", digest |-> digest]

Interchangeable == Permutations({t1, t2})

SomeQuestions == {Ask("ann", {"dev", "temps"}, Absent), Ask("bob", {"dev"}, "d1")}
=============================================================================
