----------------------------- MODULE Decisions -----------------------------
(***************************************************************************)
(* Decision requests, people's acts and sweeps over one approval store:    *)
(* DecisionService.ask and _consult_approvals (application/decisions.py),  *)
(* the resolution route with the provider port behind it                   *)
(* (adapters/api/approval_routes.py, plugins/approval.py), and the sweep   *)
(* of a held connection (adapters/http_surface.py).                        *)
(*                                                                         *)
(* The daemon is threaded.  A request is a process of its own, and a step  *)
(* is the code between two acquisitions of the store's lock, between two   *)
(* calls of a port, or between two readings of the clock.  The asks here   *)
(* are the ones whose rule says `suspend`: an ask whose rule allows or     *)
(* denies never reaches the approval store.                                *)
(***************************************************************************)
EXTENDS ApprovalStore

CONSTANTS
  Acts,         \* resolution requests, one person's act each
  Holders,      \* threads holding an issuing connection, which sweep
  NoRef,        \* no approval reference
  ClaimTries,   \* _CLAIM_TRIES
  MaxTime,      \* bound: the clock stops here
  MaxRestarts   \* bound: how often the process may end and start again

ASSUME DecisionsAssumption ==
  /\ NoRef \notin Asks
  /\ ClaimTries \in Nat \ {0}
  /\ MaxTime \in Nat
  /\ MaxRestarts \in Nat

VARIABLES
  pc,           \* where each ask is
  asked_at,     \* the instant each ask read when it began
  attempt,      \* looks of the consultation so far
  consulted,    \* _Consulted: its outcome and the reference it names
  appended,     \* what became of the ask's decision in the decision store
  act,          \* each person's act: where it is, on what, dated when
  sweep,        \* each holder's sweep: where it is and its instant
  restarts

askVars == <<pc, asked_at, attempt, consulted, appended>>
vars == <<storeVars, askVars, act, sweep, restarts>>

AskSteps == {"idle", "expire", "forget", "consult", "claim", "provider",
             "append", "settle", "unwind", "done", "crashed"}
Outcomes == {"none", "suspend", "deny", "allow"}
ActSteps == {"idle", "judge", "write", "applied", "recorded", "unrecorded",
             "done", "crashed"}
(* No append, or one refused before its first byte; a record on the chain, *)
(* whatever the append said of it; an indeterminate append that left none. *)
Appends == {"no", "committed", "uncertain"}

NotConsulted == [outcome |-> "none", ref |-> NoRef]

(* _Consulted.spend and .opened: an allow always spends the execution it   *)
(* names, and an ask opened the wait it names exactly when it minted it.   *)
Spends(a) == consulted[a].outcome = "allow"
Opened(a) == consulted[a].ref = a

Act == [pc: ActSteps, ref: Asks \cup {NoRef}, resolution: ACTED \cup {"none"}, at: Nat]
Sweep == [pc: {"idle", "expire", "forget"}, at: Nat]

NoAct(where) == [pc |-> where, ref |-> NoRef, resolution |-> "none", at |-> 0]

Committed(a) == appended[a] = "committed"
Began(a) == appended[a] # "no"

TypeOK ==
  /\ StoreTypeOK
  /\ pc \in [Asks -> AskSteps]
  /\ asked_at \in [Asks -> Nat]
  /\ attempt \in [Asks -> Nat]
  /\ consulted \in [Asks -> [outcome: Outcomes, ref: Asks \cup {NoRef}]]
  /\ appended \in [Asks -> Appends]
  /\ act \in [Acts -> Act]
  /\ sweep \in [Holders -> Sweep]
  /\ restarts \in Nat

Init ==
  /\ StoreInit
  /\ pc = [a \in Asks |-> "idle"]
  /\ asked_at = [a \in Asks |-> 0]
  /\ attempt = [a \in Asks |-> 0]
  /\ consulted = [a \in Asks |-> NotConsulted]
  /\ appended = [a \in Asks |-> "no"]
  /\ act = [p \in Acts |-> NoAct("idle")]
  /\ sweep = [h \in Holders |-> [pc |-> "idle", at |-> 0]]
  /\ restarts = 0

-----------------------------------------------------------------------------
(* One ask, from its clock reading to its answer.                          *)

Goto(a, from, to) ==
  /\ pc[a] = from
  /\ pc' = [pc EXCEPT ![a] = to]

(* The ask is answered; its locals end with the call.                      *)
Finish(a, from) ==
  /\ Goto(a, from, "done")
  /\ asked_at' = [asked_at EXCEPT ![a] = 0]
  /\ attempt' = [attempt EXCEPT ![a] = 0]

Begin(a) ==
  /\ Goto(a, "idle", "expire")
  /\ asked_at' = [asked_at EXCEPT ![a] = now]
  /\ UNCHANGED <<storeVars, attempt, consulted, appended, act, sweep, restarts>>

(* sweep(now), before anything the request could be refused over.          *)
AskExpires(a) ==
  /\ Goto(a, "expire", "forget")
  /\ wait' = expire_past(asked_at[a])
  /\ UNCHANGED <<question, now, opened, asked_at, attempt, consulted, appended,
                 act, sweep, restarts>>

(* The ask then goes on to its rule, or is refused: by the write-access    *)
(* checks, its schema, an unavailable policy or archive.                   *)
AskForgets(a) ==
  /\ \/ Goto(a, "forget", "consult") /\ UNCHANGED <<asked_at, attempt>>
     \/ Finish(a, "forget")
  /\ wait' = forget_lapsed(asked_at[a])
  /\ UNCHANGED <<question, now, opened, consulted, appended, act, sweep, restarts>>

(* open_if_absent found nothing: the wait is opened under the same lock.   *)
OpenWait(a) ==
  /\ Goto(a, "consult", "provider")
  /\ Live(question[a]) = {}
  /\ wait' = open(a, asked_at[a])
  /\ opened' = opened + 1
  /\ consulted' = [consulted EXCEPT ![a] = [outcome |-> "suspend", ref |-> a]]
  /\ UNCHANGED <<question, now, asked_at, attempt, appended, act, sweep, restarts>>

(* What an ask finds: the newest record its question still has.            *)
Finds(a, r) == Live(question[a]) # {} /\ r = newest_live(question[a])

(* Mutant: a wait another ask is still opening is answered with.           *)
FindPending(a) ==
  /\ Goto(a, "consult", "append")
  /\ \E r \in Asks :
       /\ Finds(a, r)
       /\ wait[r].state = "pending"
       /\ consulted' = [consulted EXCEPT ![a] = [outcome |-> "suspend", ref |-> r]]
  /\ UNCHANGED <<storeVars, asked_at, attempt, appended, act, sweep, restarts>>

FindPublished(a) ==
  /\ Goto(a, "consult", "append")
  /\ \E r \in Asks :
       /\ Finds(a, r)
       /\ wait[r].state = "pending" /\ wait[r].published
       /\ consulted' = [consulted EXCEPT ![a] = [outcome |-> "suspend", ref |-> r]]
  /\ UNCHANGED <<storeVars, asked_at, attempt, appended, act, sweep, restarts>>

FindRejected(a) ==
  /\ Goto(a, "consult", "append")
  /\ \E r \in Asks :
       /\ Finds(a, r)
       /\ wait[r].state = "rejected"
       /\ consulted' = [consulted EXCEPT ![a] = [outcome |-> "deny", ref |-> r]]
  /\ UNCHANGED <<storeVars, asked_at, attempt, appended, act, sweep, restarts>>

FindApproved(a) ==
  /\ Goto(a, "consult", "claim")
  /\ \E r \in Asks :
       /\ Finds(a, r)
       /\ wait[r].state = "approved" /\ ~ wait[r].claimed
       /\ consulted' = [consulted EXCEPT ![a] = [outcome |-> "none", ref |-> r]]
  /\ UNCHANGED <<storeVars, asked_at, attempt, appended, act, sweep, restarts>>

(* Look again, a bounded number of times; then answer decision_contended.  *)
Retry(a, from) ==
  /\ \/ /\ attempt[a] + 1 < ClaimTries
        /\ Goto(a, from, "consult")
        /\ attempt' = [attempt EXCEPT ![a] = @ + 1]
        /\ UNCHANGED asked_at
     \/ /\ attempt[a] + 1 >= ClaimTries
        /\ Finish(a, from)
  /\ consulted' = [consulted EXCEPT ![a] = NotConsulted]
  /\ UNCHANGED <<storeVars, appended, act, sweep, restarts>>

(* A wait another ask is still opening, or an execution another ask holds. *)
FindInFlight(a) ==
  /\ pc[a] = "consult"
  /\ \E r \in Asks :
       /\ Finds(a, r)
       /\ \/ wait[r].state = "pending" /\ ~ wait[r].published
          \/ wait[r].state = "approved" /\ wait[r].claimed
  /\ Retry(a, "consult")

Claim(a) ==
  /\ Goto(a, "claim", "append")
  /\ Claimable(consulted[a].ref)
  /\ wait' = claim(consulted[a].ref)
  /\ consulted' = [consulted EXCEPT ![a] =
       [outcome |-> "allow", ref |-> consulted[a].ref]]
  /\ UNCHANGED <<question, now, opened, asked_at, attempt, appended, act, sweep,
                 restarts>>

(* ApprovalAlreadyClaimed, or ApprovalUnknown where it was forgotten.      *)
LoseClaim(a) ==
  /\ pc[a] = "claim"
  /\ ~ Claimable(consulted[a].ref)
  /\ Retry(a, "claim")

(* provider.suspend, for which any exception is one answer.                *)
ProviderTakes(a) ==
  /\ Goto(a, "provider", "append")
  /\ UNCHANGED <<storeVars, asked_at, attempt, consulted, appended, act, sweep,
                 restarts>>

ProviderRefuses(a) ==
  /\ Goto(a, "provider", "unwind")
  /\ UNCHANGED <<storeVars, asked_at, attempt, consulted, appended, act, sweep,
                 restarts>>

(* decisions.append: a refusal before the first byte, or anything raised   *)
(* before the call, leaves `recorded` false; a return, readable receipt or *)
(* not, and an indeterminate append set it.                                *)
AppendRefused(a) ==
  /\ Goto(a, "append", "unwind")
  /\ UNCHANGED <<storeVars, asked_at, attempt, consulted, appended, act, sweep,
                 restarts>>

(* Mutant: an indeterminate append is taken for one that wrote nothing.    *)
AppendDoubted(a) ==
  /\ \/ Goto(a, "append", "settle") /\ appended' = [appended EXCEPT ![a] = "committed"]
     \/ /\ Goto(a, "append", "unwind")
        /\ \E became \in {"committed", "uncertain"} :
             appended' = [appended EXCEPT ![a] = became]
  /\ UNCHANGED <<storeVars, asked_at, attempt, consulted, act, sweep, restarts>>

AppendBegan(a) ==
  /\ Goto(a, "append", "settle")
  /\ \E became \in {"committed", "uncertain"} :
       appended' = [appended EXCEPT ![a] = became]
  /\ UNCHANGED <<storeVars, asked_at, attempt, consulted, act, sweep, restarts>>

(* Behind a record that exists or may exist: _publish_opened, then consume *)
(* or _consume_claimed.  An ask opened a wait or spends one, never both.   *)
Settle(a) ==
  /\ Finish(a, "settle")
  /\ wait' = IF Opened(a) THEN publish(consulted[a].ref)
             ELSE IF Spends(a) THEN consume(consulted[a].ref)
             ELSE wait
  /\ UNCHANGED <<question, now, opened, consulted, appended, act, sweep, restarts>>

(* Nothing was written: _release_claim and _withdraw_opened, or the        *)
(* abandon of _open_with.                                                  *)
Unwind(a) ==
  /\ Finish(a, "unwind")
  /\ wait' = IF Spends(a) THEN release_claim(consulted[a].ref)
             ELSE IF Opened(a) THEN abandon(consulted[a].ref)
             ELSE wait
  /\ UNCHANGED <<question, now, opened, consulted, appended, act, sweep, restarts>>

AskStep(a) ==
  \/ AskExpires(a) \/ AskForgets(a)
  \/ OpenWait(a) \/ FindPublished(a) \/ FindRejected(a) \/ FindApproved(a)
  \/ FindInFlight(a) \/ Claim(a) \/ LoseClaim(a)
  \/ ProviderTakes(a) \/ ProviderRefuses(a)
  \/ AppendRefused(a) \/ AppendBegan(a) \/ Settle(a) \/ Unwind(a)

-----------------------------------------------------------------------------
(* One person's act on one reference, through the resolution route.        *)

(* The route reads the record and refuses one already over.  It does not   *)
(* ask whether the wait is published.                                      *)
ActBegins(p) ==
  /\ act[p].pc = "idle"
  /\ \E r \in Asks, resolution \in ACTED :
       /\ Kept(r)
       /\ state_at(wait[r], now) = "pending"
       /\ act' = [act EXCEPT ![p] = [pc |-> "judge", ref |-> r,
                                     resolution |-> resolution, at |-> 0]]
  /\ UNCHANGED <<storeVars, askVars, sweep, restarts>>

(* The provider refused, gave an answer no act supports, or continued the  *)
(* suspension: nothing is applied.                                         *)
ActUnanswered(p) ==
  /\ act[p].pc = "judge"
  /\ act' = [act EXCEPT ![p] = NoAct("done")]
  /\ UNCHANGED <<storeVars, askVars, sweep, restarts>>

(* The answer is derivable from the act, so write_resolution runs: its     *)
(* argument `now` is the clock's value before the store's lock is taken.   *)
ActDated(p) ==
  /\ act[p].pc = "judge"
  /\ act' = [act EXCEPT ![p].pc = "write", ![p].at = now]
  /\ UNCHANGED <<storeVars, askVars, sweep, restarts>>

ActApplied(p) ==
  /\ act[p].pc = "write"
  /\ Resolvable(act[p].ref)
  /\ InTime(act[p].ref, act[p].at)
  /\ wait' = resolve(act[p].ref, act[p].resolution, act[p].at)
  /\ act' = [act EXCEPT ![p].pc = "applied"]
  /\ UNCHANGED <<question, now, opened, askVars, sweep, restarts>>

(* The wait ran out: it is ended at its deadline and the act is refused.   *)
ActLate(p) ==
  /\ act[p].pc = "write"
  /\ Resolvable(act[p].ref)
  /\ ~ InTime(act[p].ref, act[p].at)
  /\ wait' = [wait EXCEPT ![act[p].ref] = expired(@)]
  /\ act' = [act EXCEPT ![p] = NoAct("done")]
  /\ UNCHANGED <<question, now, opened, askVars, sweep, restarts>>

(* Another act landed first, the sweep ended it, or it is forgotten.       *)
ActRefused(p) ==
  /\ act[p].pc = "write"
  /\ ~ Resolvable(act[p].ref)
  /\ act' = [act EXCEPT ![p] = NoAct("done")]
  /\ UNCHANGED <<storeVars, askVars, sweep, restarts>>

(* recorder.record runs after the store was written, and may fail.         *)
ActRecorded(p) ==
  /\ act[p].pc = "applied"
  /\ \E became \in {"recorded", "unrecorded"} :
       act' = [act EXCEPT ![p].pc = became]
  /\ UNCHANGED <<storeVars, askVars, sweep, restarts>>

ActStep(p) ==
  \/ ActUnanswered(p) \/ ActDated(p)
  \/ ActApplied(p) \/ ActLate(p) \/ ActRefused(p) \/ ActRecorded(p)

-----------------------------------------------------------------------------
(* A held connection wakes every fifth of a second and sweeps.             *)

HolderWakes(h) ==
  /\ sweep[h].pc = "idle"
  /\ sweep' = [sweep EXCEPT ![h] = [pc |-> "expire", at |-> now]]
  /\ UNCHANGED <<storeVars, askVars, act, restarts>>

HolderExpires(h) ==
  /\ sweep[h].pc = "expire"
  /\ wait' = expire_past(sweep[h].at)
  /\ sweep' = [sweep EXCEPT ![h].pc = "forget"]
  /\ UNCHANGED <<question, now, opened, askVars, act, restarts>>

HolderForgets(h) ==
  /\ sweep[h].pc = "forget"
  /\ wait' = forget_lapsed(sweep[h].at)
  /\ sweep' = [sweep EXCEPT ![h] = [pc |-> "idle", at |-> 0]]
  /\ UNCHANGED <<question, now, opened, askVars, act, restarts>>

HolderStep(h) == HolderWakes(h) \/ HolderExpires(h) \/ HolderForgets(h)

Tick ==
  /\ now < MaxTime
  /\ now' = now + 1
  /\ UNCHANGED <<question, wait, opened, askVars, act, sweep, restarts>>

(* The process ends at any instant and starts again: the waits are gone,   *)
(* the requests in flight are never answered, the decisions stay.          *)
Restart ==
  /\ restarts < MaxRestarts
  /\ restarts' = restarts + 1
  /\ wait' = lose_all
  /\ pc' = [a \in Asks |-> IF pc[a] \in {"idle", "done"} THEN pc[a] ELSE "crashed"]
  /\ act' = [p \in Acts |-> IF act[p].pc \in {"judge", "write"} THEN NoAct("crashed")
                            ELSE IF act[p].pc = "applied"
                                 THEN [act[p] EXCEPT !.pc = "unrecorded"]
                            ELSE act[p]]
  /\ sweep' = [h \in Holders |-> [pc |-> "idle", at |-> 0]]
  /\ UNCHANGED <<question, now, opened, asked_at, attempt, consulted, appended>>

Next ==
  \/ \E a \in Asks : Begin(a)
  \/ \E a \in Asks : AskStep(a)
  \/ \E p \in Acts : ActBegins(p)
  \/ \E p \in Acts : ActStep(p)
  \/ \E h \in Holders : HolderStep(h)
  \/ Tick
  \/ Restart

Spec == Init /\ [][Next]_vars

-----------------------------------------------------------------------------
(* Safety.                                                                 *)

(* One resolution authorises one execution (ApprovalStore, article 12):    *)
(* however asks, failed and indeterminate appends, unreadable receipts and *)
(* restarts interleave, the chain holds at most one allow naming a wait.   *)
OneExecutionPerAct ==
  \A a, b \in Asks :
    /\ Committed(a) /\ consulted[a].outcome = "allow"
    /\ Committed(b) /\ consulted[b].outcome = "allow"
    /\ consulted[a].ref = consulted[b].ref
    => a = b

(* Every allow on the chain stands on a person's act: some resolution      *)
(* request applied `approved` to the very wait the decision names.         *)
AllowStandsOnAnAct ==
  \A a \in Asks :
    Committed(a) /\ consulted[a].outcome = "allow" =>
      \E p \in Acts :
        /\ act[p].pc \in {"applied", "recorded", "unrecorded"}
        /\ act[p].ref = consulted[a].ref
        /\ act[p].resolution = "approved"

(* Publication is the boundary abandon respects (publish, _open_with,      *)
(* _withdraw_opened): no decision that is or may be on the chain names a   *)
(* wait its opener then withdrew.                                          *)
NoWithdrawnPromise ==
  \A a \in Asks : Began(a) => \A r \in Asks :
    consulted[a].ref = r => wait[r].state # "abandoned"

(* open_if_absent looks and opens under one lock: a question never has two *)
(* waits whose deadline is still ahead and which nobody has answered.      *)
OneOpenWait ==
  \A r, s \in Asks :
    /\ wait[r].state = "pending" /\ now < wait[r].deadline
    /\ wait[s].state = "pending" /\ now < wait[s].deadline
    /\ question[r] = question[s]
    => r = s

(* A claim is held by exactly one ask that is still running, so a question *)
(* is never left contended with nobody to finish it (_release_claim,       *)
(* _consume_claimed).                                                      *)
ClaimHasOneHolder ==
  \A r \in Asks :
    Kept(r) /\ wait[r].claimed /\ ~ wait[r].consumed =>
      \E a \in Asks :
        /\ pc[a] \in {"append", "settle", "unwind"}
        /\ Spends(a) /\ consulted[a].ref = r
        /\ \A b \in Asks \ {a} :
             ~ (/\ pc[b] \in {"append", "settle", "unwind"}
                /\ Spends(b) /\ consulted[b].ref = r)

(* Nothing is consumed without a record: an execution is spent only behind *)
(* an append that began, never behind one refused before its first byte.   *)
SpentBehindARecord ==
  \A r \in Asks :
    wait[r].consumed =>
      \E a \in Asks : Began(a) /\ Spends(a) /\ consulted[a].ref = r

(* An execution that is taken is backed: a claim by one running ask that   *)
(* will finish it, a spend by a record (_release_claim, _consume_claimed). *)
ClaimsAreBacked == ClaimHasOneHolder /\ SpentBehindARecord

-----------------------------------------------------------------------------
(* What makes the safety properties inductive.                             *)

BeforeOpening == {"idle", "expire", "forget", "consult", "claim"}
Holding == {"append", "settle", "unwind"}

Holds(a, r) == pc[a] \in Holding /\ Spends(a) /\ consulted[a].ref = r

(* The members of a consultation, and of the record an ask mints, agree    *)
(* with where the ask is.                                                  *)
ConsultationShape ==
  \A a \in Asks :
    /\ Spends(a) => consulted[a].ref \in Asks /\ ~ Opened(a)
    /\ pc[a] \in {"idle", "expire", "forget", "consult"}
         => consulted[a] = NotConsulted
    /\ pc[a] = "claim" => /\ consulted[a].ref \in Asks
                          /\ consulted[a].outcome = "none"
                          /\ ~ Opened(a)
    /\ pc[a] = "provider" => Opened(a)
    /\ pc[a] \in BeforeOpening => wait[a].state = "none"
    /\ pc[a] = "settle" => Began(a)
    /\ Began(a) => pc[a] \in {"settle", "done", "crashed"}

(* An act in progress names a wait.                                        *)
ActShape ==
  \A p \in Acts :
    act[p].pc \in {"judge", "write", "applied", "recorded", "unrecorded"}
      => act[p].ref \in Asks /\ act[p].resolution \in ACTED

(* Only an approved record is claimed, and only a claimed one is spent.    *)
SpendShape ==
  \A r \in Asks :
    /\ wait[r].claimed => wait[r].state = "approved"
    /\ wait[r].consumed => wait[r].claimed

(* Whoever holds an execution holds it alone, on a record still approved,  *)
(* claimed and unspent.                                                    *)
HeldExecution ==
  \A a \in Asks : \A r \in Asks :
    Holds(a, r) =>
      /\ wait[r].state = "approved" /\ wait[r].claimed /\ ~ wait[r].consumed
      /\ \A b \in Asks : Holds(b, r) => a = b

(* An execution behind an append that began can never be claimed again.    *)
OutOfReach(r) ==
  wait[r].consumed \/ wait[r].state \in {"forgotten", "lost", "abandoned"}

SpentForGood ==
  \A a \in Asks : \A r \in Asks :
    Began(a) /\ Spends(a) /\ consulted[a].ref = r =>
      /\ pc[a] # "settle" => OutOfReach(r)
      /\ \A b \in Asks :
           Began(b) /\ Spends(b) /\ consulted[b].ref = r => a = b

ExecutionInv == ConsultationShape /\ SpendShape /\ HeldExecution /\ SpentForGood

(* A reference an ask did not mint is one somebody outside its opener has  *)
(* been told about, and such a wait is never withdrawn.                    *)
Told(r) ==
  \/ wait[r].state \in {"approved", "rejected", "expired", "forgotten", "lost"}
  \/ wait[r].state = "pending" /\ wait[r].published

PromiseInv ==
  \A a \in Asks : \A r \in Asks :
    consulted[a].ref = r =>
      /\ ~ Opened(a) => Told(r)
      /\ Opened(a) /\ pc[a] \in {"provider", "append", "settle"}
           => wait[r].state # "abandoned"
      /\ Opened(a) /\ Began(a) => wait[r].state # "abandoned"

(* Somebody's `approved` was applied to this wait.                         *)
Approved(r) ==
  \E p \in Acts :
    /\ act[p].pc \in {"applied", "recorded", "unrecorded"}
    /\ act[p].ref = r
    /\ act[p].resolution = "approved"

(* Whatever is, was or is about to be spent stands on such an act.         *)
ApprovalInv ==
  /\ \A r \in Asks : wait[r].state = "approved" => Approved(r)
  /\ \A a \in Asks : \A r \in Asks :
       (pc[a] = "claim" \/ Spends(a)) /\ consulted[a].ref = r => Approved(r)

(* A claim nobody has spent is held.                                       *)
ClaimsAreHeld ==
  \A r \in Asks :
    wait[r].claimed /\ ~ wait[r].consumed => \E a \in Asks : Holds(a, r)

(* No instant anybody acts with lies ahead of the clock.                   *)
ClocksBehind ==
  /\ \A a \in Asks : asked_at[a] <= now
  /\ \A h \in Holders : sweep[h].at <= now

(* A wait lasts its length, and a rejection is dated after its opening.    *)
WaitsDated ==
  \A r \in Asks : Kept(r) =>
    /\ wait[r].requested_at <= now
    /\ wait[r].deadline = wait[r].requested_at + WaitLength
    /\ wait[r].state = "rejected" => wait[r].requested_at <= wait[r].resolved_at

(* An act under way was begun on a wait already open, and is dated later.  *)
ActsDated ==
  \A p \in Acts : \A r \in Asks :
    act[p].pc \in {"judge", "write"} /\ act[p].ref = r =>
      /\ wait[r].state # "none"
      /\ act[p].pc = "write" /\ Kept(r) => wait[r].requested_at <= act[p].at

DatedInOrder == ClocksBehind /\ WaitsDated /\ ActsDated

-----------------------------------------------------------------------------
(* What a step may never do.                                               *)

(* Until somebody spends it, an approval keeps its state.                  *)
KeptUntilSpent(r) ==
  wait[r].state = "approved" /\ ~ wait[r].consumed
    => wait'[r].state \in {"approved", "lost"}

(* A spent approval is read by reference for one wait-length after the     *)
(* spend, however long after the act the spend came (_lapse_instant).      *)
SpentStaysReadable(r) ==
  wait[r].consumed /\ now < wait[r].consumed_at + WaitLength
    => wait'[r].state \in {"approved", "lost"}

(* A rejection stands for the wait it ended: until the deadline the record *)
(* is kept and no new wait is opened for its question.                     *)
RejectionStands(r) ==
  wait[r].state = "rejected" /\ now < wait[r].deadline =>
    /\ wait'[r].state \in {"rejected", "lost"}
    /\ \A s \in Asks : question[s] = question[r] /\ wait[s].state = "none"
                        => wait'[s].state = "none"

(* A person's act stands.  An approval nobody has spent outlives every     *)
(* sweep (forget_lapsed), a spent one stays readable for a wait-length     *)
(* (_lapse_instant), a rejection holds its question until its deadline;    *)
(* only the process ending loses them.                                     *)
ActsStand ==
  [][\A r \in Asks :
       KeptUntilSpent(r) /\ SpentStaysReadable(r) /\ RejectionStands(r)]_vars
=============================================================================
