--------------------------- MODULE ApprovalStore ---------------------------
(***************************************************************************)
(* The daemon's store of suspended questions: class ApprovalStore of       *)
(* application/approvals.py, with the record it keeps (domain/approval.py).*)
(*                                                                         *)
(* Every method of the store runs under one lock, so a method is one value *)
(* of `wait` computed from another: each operator below is what `wait`     *)
(* becomes when that method returns, and is `wait` itself where the method *)
(* refuses.  Who calls them, in which order and with which stale instant,  *)
(* is module Decisions.                                                    *)
(*                                                                         *)
(* A reference is minted once, by the one ask that opens the wait, so the  *)
(* references are the asks.  The two due-time heaps of the code are        *)
(* indexes over instants the record itself holds ("the record is the       *)
(* authority and the index is a hint"), and are read off the record here.  *)
(* The order a question's waits were opened in is the number `order`.      *)
(***************************************************************************)
EXTENDS Integers

CONSTANTS
  Asks,         \* decision requests; each mints the reference of one wait
  Questions,    \* the questions they may carry
  WaitLength    \* review_deadline_seconds of the rule that suspends

ASSUME WaitLengthAssumption == WaitLength \in Nat \ {0}

VARIABLES
  question,     \* what each ask asks: scope, principal, capability, digest
  now,          \* the one clock of the store
  wait,         \* _by_reference: the record kept under each reference
  opened        \* how many waits were opened so far

storeVars == <<question, now, wait, opened>>

(* The states a kept record has, and why a record is not kept: no ask has  *)
(* opened it, its ask withdrew it, the sweep forgot it, or the process     *)
(* that held it in memory ended.                                           *)
KeptStates == {"pending", "approved", "rejected", "expired"}
GoneStates == {"none", "abandoned", "forgotten", "lost"}
ACTED == {"approved", "rejected"}

Wait == [state: KeptStates \cup GoneStates, order: Nat,
         requested_at: Nat, deadline: Nat, resolved_at: Nat, consumed_at: Nat,
         published: BOOLEAN, claimed: BOOLEAN, consumed: BOOLEAN]

(* A record no longer kept has no members a reader could see.              *)
Gone(why) ==
  [state |-> why, order |-> 0, requested_at |-> 0, deadline |-> 0,
   resolved_at |-> 0, consumed_at |-> 0,
   published |-> FALSE, claimed |-> FALSE, consumed |-> FALSE]

Kept(r) == wait[r].state \in KeptStates

(* Approval.state_at: a wait past its deadline reads as expired before any *)
(* sweep has run; the bound is inclusive.                                  *)
state_at(w, t) ==
  IF w.state = "pending" /\ t >= w.deadline THEN "expired" ELSE w.state

(* Mutant: a wait still being opened answers nobody.                       *)
StillAnswersOncePublished(r, q) ==
  /\ Kept(r) /\ question[r] = q /\ ~ wait[r].consumed /\ wait[r].published
  /\ state_at(wait[r], now) # "expired"
  /\ ~ (wait[r].state = "rejected" /\ now >= wait[r].deadline)

(* _newest_live with in_flight: the records this question still has.       *)
StillAnswers(r, q) ==
  /\ Kept(r)
  /\ question[r] = q
  /\ ~ wait[r].consumed
  /\ state_at(wait[r], now) # "expired"
  /\ ~ (wait[r].state = "rejected" /\ now >= wait[r].deadline)

Live(q) == {r \in Asks : StillAnswers(r, q)}

newest_live(q) ==
  CHOOSE r \in Live(q) : \A s \in Live(q) : wait[s].order <= wait[r].order

-----------------------------------------------------------------------------
(* open, reached through open_if_absent: a pending, unpublished record     *)
(* measured from the instant the ask began at.                             *)
open(r, at) ==
  [wait EXCEPT ![r] =
     [state |-> "pending", order |-> opened + 1,
      requested_at |-> at, deadline |-> at + WaitLength,
      resolved_at |-> 0, consumed_at |-> 0,
      published |-> FALSE, claimed |-> FALSE, consumed |-> FALSE]]

publish(r) ==
  IF wait[r].state = "pending" THEN [wait EXCEPT ![r].published = TRUE] ELSE wait

abandon(r) ==
  IF wait[r].state = "pending" /\ ~ wait[r].claimed /\ ~ wait[r].published
  THEN [wait EXCEPT ![r] = Gone("abandoned")]
  ELSE wait

(* Mutant: nobody looks whether another ask holds the execution.           *)
ClaimableTwice(r) == wait[r].state = "approved" /\ ~ wait[r].consumed

(* claim is refused unless the record is approved, unspent and unclaimed.  *)
Claimable(r) == wait[r].state = "approved" /\ ~ wait[r].consumed /\ ~ wait[r].claimed

claim(r) == [wait EXCEPT ![r].claimed = TRUE]

release_claim(r) ==
  IF Kept(r) /\ wait[r].claimed /\ ~ wait[r].consumed
  THEN [wait EXCEPT ![r].claimed = FALSE]
  ELSE wait

consume(r) ==
  IF wait[r].state = "approved" /\ wait[r].claimed /\ ~ wait[r].consumed
  THEN [wait EXCEPT ![r].consumed = TRUE, ![r].consumed_at = now]
  ELSE wait

(* Mutants: the act's verb is stored, or any act approves.                 *)
ResolveStoresTheVerb(r, resolution, at) ==
  [wait EXCEPT ![r].state = "approve", ![r].resolved_at = at, ![r].published = TRUE]

ResolveApproves(r, resolution, at) ==
  [wait EXCEPT ![r].state = "approved", ![r].resolved_at = at, ![r].published = TRUE]

(* resolve on a pending record: a person's act dated `at`, which ends the  *)
(* wait if it is early enough and marks it expired at its deadline if not. *)
Resolvable(r) == wait[r].state = "pending"

InTime(r, at) == at < wait[r].deadline

resolve(r, resolution, at) ==
  [wait EXCEPT ![r].state = resolution, ![r].resolved_at = at, ![r].published = TRUE]

expired(w) == [w EXCEPT !.state = "expired", !.resolved_at = w.deadline]

(* Mutant: an approval lapses unspent.                                     *)
LapsesUnspent(w) == w.state \in {"rejected", "expired", "approved"}

(* The two halves of the sweep.  _lapse_instant: nothing for a pending     *)
(* wait and for an approval nobody has spent; otherwise one wait-length    *)
(* after the spend, the act or the lapse.                                  *)
Lapses(w) == w.state \in {"rejected", "expired"} \/ (w.state = "approved" /\ w.consumed)

LapseInstant(w) ==
  (IF w.consumed THEN w.consumed_at ELSE w.resolved_at) + (w.deadline - w.requested_at)

expire_past(at) ==
  [r \in Asks |->
     IF wait[r].state = "pending" /\ wait[r].deadline <= at
     THEN expired(wait[r]) ELSE wait[r]]

forget_lapsed(at) ==
  [r \in Asks |->
     IF Lapses(wait[r]) /\ LapseInstant(wait[r]) <= at
     THEN Gone("forgotten") ELSE wait[r]]

(* The store is memory: a process that ends loses it, whatever it held.    *)
lose_all ==
  [r \in Asks |-> IF Kept(r) THEN Gone("lost") ELSE wait[r]]

StoreInit ==
  /\ question \in [Asks -> Questions]
  /\ now = 0
  /\ wait = [r \in Asks |-> Gone("none")]
  /\ opened = 0

StoreTypeOK ==
  /\ question \in [Asks -> Questions]
  /\ now \in Nat
  /\ wait \in [Asks -> Wait]
  /\ opened \in Nat
=============================================================================
