---------------------------- MODULE EmitterProofs ----------------------------
(***************************************************************************)
(* Proofs about the evidence pipeline.  PipelineInv of Emitter is kept by  *)
(* every step: what is where (ScopeShape, PlaceShape), how much of it      *)
(* (QueueIsBounded), in which order (OrderShape, GradeShape) and what a    *)
(* flush has seen (FlushShape).  The safety properties of the component    *)
(* follow from it, for any number of scopes, threads, emissions and        *)
(* failures of the store.                                                  *)
(*                                                                         *)
(* What writes which variable is said once (Writers), as is what each      *)
(* action does to the sequences records travel through: Losing,            *)
(* Submitting, TakingQueued, TakingPending, Landing, Appending, Raising.   *)
(***************************************************************************)
EXTENDS Emitter, FiniteSetTheorems, FunctionTheorems, WellFoundedInduction, TLAPS

-----------------------------------------------------------------------------
(* A step is one of these.                                                 *)
LEMMA StepCases ==
  ASSUME [Next]_vars
  PROVE  \/ \E s \in Scopes, size \in UnitSizes :
              SubmitTooLate(s, size) \/ SubmitTooMuch(s, size) \/ Submit(s, size)
         \/ TakesQueued \/ TakesPending \/ FindsNothing
         \/ Appends \/ Raises \/ Settles \/ SettlesFailed
         \/ \E s \in Scopes : RetryComesDue(s)
         \/ \E f \in Flushers, s \in Scopes : FlushBegins(f, s)
         \/ \E t \in Threads : FlushReturns(t) \/ FlushTimesOut(t)
         \/ CloseBegins \/ CloseRaises \/ CloseFlushes \/ CloseMarks \/ CloseJoins
         \/ UNCHANGED vars
BY DEF Next, Worker

(* Who writes what.                                                        *)
Written ==
  /\ UNCHANGED units \/ (\E s \in Scopes, size \in UnitSizes : SubmitTooLate(s, size))
       \/ (\E s \in Scopes, size \in UnitSizes : SubmitTooMuch(s, size))
       \/ (\E s \in Scopes, size \in UnitSizes : Submit(s, size))
  /\ UNCHANGED queue \/ (\E s \in Scopes, size \in UnitSizes : Submit(s, size))
       \/ TakesQueued
  /\ UNCHANGED queued \/ (\E s \in Scopes, size \in UnitSizes : Submit(s, size))
       \/ TakesQueued
  /\ UNCHANGED pending \/ (\E s \in Scopes, size \in UnitSizes : SubmitTooLate(s, size))
       \/ (\E s \in Scopes, size \in UnitSizes : SubmitTooMuch(s, size))
       \/ (\E s \in Scopes, size \in UnitSizes : Submit(s, size)) \/ TakesPending
       \/ SettlesFailed
  /\ UNCHANGED backoff \/ TakesPending \/ FindsNothing
       \/ (\E s \in Scopes : RetryComesDue(s)) \/ Settles \/ SettlesFailed
  /\ UNCHANGED final \/ TakesPending
  /\ UNCHANGED closing \/ CloseMarks
  /\ UNCHANGED worker \/ (\E s \in Scopes, size \in UnitSizes : SubmitTooMuch(s, size))
       \/ (\E s \in Scopes, size \in UnitSizes : Submit(s, size)) \/ TakesQueued
       \/ TakesPending \/ FindsNothing \/ Raises \/ Settles \/ SettlesFailed
       \/ (\E s \in Scopes : RetryComesDue(s))
       \/ (\E f \in Flushers, s \in Scopes : FlushBegins(f, s)) \/ CloseFlushes
       \/ CloseMarks
  /\ UNCHANGED unit \/ TakesQueued \/ TakesPending \/ Appends \/ Settles \/ SettlesFailed
  /\ UNCHANGED graded \/ TakesQueued \/ TakesPending
  /\ UNCHANGED flush \/ TakesPending \/ FindsNothing
       \/ (\E f \in Flushers, s \in Scopes : FlushBegins(f, s))
       \/ (\E t \in Threads : FlushReturns(t)) \/ (\E t \in Threads : FlushTimesOut(t))
       \/ CloseFlushes
  /\ UNCHANGED close \/ CloseBegins \/ CloseRaises \/ CloseFlushes \/ CloseMarks
       \/ CloseJoins
  /\ UNCHANGED chain \/ Appends \/ Raises
  /\ UNCHANGED doubted \/ Raises
  /\ UNCHANGED failures \/ Raises

(* No other action writes it.                                              *)
LEMMA Writers ==
  ASSUME [Next]_vars
  PROVE  Written
<1>1. ASSUME NEW s \in Scopes, NEW size \in UnitSizes, SubmitTooLate(s, size) PROVE Written
  <2>1. UNCHANGED <<queue, queued, backoff, final, closing, worker, unit, graded, flush,
     close, chain, doubted, failures>>
    BY <1>1 DEF SubmitTooLate, Offered, Lost, New, queueVars, workerVars, storeVars
  <2> QED  BY <1>1, <2>1 DEF Written
<1>2. ASSUME NEW s \in Scopes, NEW size \in UnitSizes, SubmitTooMuch(s, size) PROVE Written
  <2>1. UNCHANGED <<queue, queued, backoff, final, closing, unit, graded, flush, close,
     chain, doubted, failures>>
    BY <1>2 DEF SubmitTooMuch, Offered, Lost, New, Notify, queueVars, workerVars, storeVars
  <2> QED  BY <1>2, <2>1 DEF Written
<1>3. ASSUME NEW s \in Scopes, NEW size \in UnitSizes, Submit(s, size) PROVE Written
  <2>1. UNCHANGED <<backoff, final, closing, unit, graded, flush, close, chain, doubted,
     failures>>
    BY <1>3 DEF Submit, Offered, Notify, queueVars, workerVars, storeVars
  <2> QED  BY <1>3, <2>1 DEF Written
<1>4. ASSUME TakesQueued PROVE Written
  <2>1. UNCHANGED <<units, pending, backoff, final, closing, flush, close, chain,
     doubted, failures>>
    BY <1>4 DEF TakesQueued, Takes, queueVars, workerVars, storeVars
  <2> QED  BY <1>4, <2>1 DEF Written
<1>5. ASSUME TakesPending PROVE Written
  <2>1. UNCHANGED <<units, queue, queued, closing, close, chain, doubted, failures>>
    BY <1>5 DEF TakesPending, Takes, Complete, queueVars, workerVars, storeVars
  <2> QED  BY <1>5, <2>1 DEF Written
<1>6. ASSUME FindsNothing PROVE Written
  <2>1. UNCHANGED <<units, queue, queued, pending, final, closing, unit, graded, close,
     chain, doubted, failures>>
    BY <1>6 DEF FindsNothing, Complete, queueVars, workerVars, storeVars
  <2> QED  BY <1>6, <2>1 DEF Written
<1>7. ASSUME Appends PROVE Written
  <2>1. UNCHANGED <<units, queue, queued, pending, backoff, final, closing, worker,
     graded, flush, close, doubted, failures>>
    BY <1>7 DEF Appends, Lands, queueVars, workerVars, storeVars
  <2> QED  BY <1>7, <2>1 DEF Written
<1>8. ASSUME Raises PROVE Written
  <2>1. UNCHANGED <<units, queue, queued, pending, backoff, final, closing, unit, graded,
     flush, close>>
    BY <1>8 DEF Raises, Lands, queueVars, workerVars, storeVars
  <2> QED  BY <1>8, <2>1 DEF Written
<1>9. ASSUME Settles PROVE Written
  <2>1. UNCHANGED <<units, queue, queued, pending, final, closing, graded, flush, close,
     chain, doubted, failures>>
    BY <1>9 DEF Settles, queueVars, workerVars, storeVars
  <2> QED  BY <1>9, <2>1 DEF Written
<1>10. ASSUME SettlesFailed PROVE Written
  <2>1. UNCHANGED <<units, queue, queued, final, closing, graded, flush, close, chain,
     doubted, failures>>
    BY <1>10 DEF SettlesFailed, Lost, queueVars, workerVars, storeVars
  <2> QED  BY <1>10, <2>1 DEF Written
<1>11. ASSUME NEW s \in Scopes, RetryComesDue(s) PROVE Written
  <2>1. UNCHANGED <<units, queue, queued, pending, final, closing, unit, graded, flush,
     close, chain, doubted, failures>>
    BY <1>11 DEF RetryComesDue, queueVars, workerVars, storeVars
  <2> QED  BY <1>11, <2>1 DEF Written
<1>12. ASSUME NEW f \in Flushers, NEW s \in Scopes, FlushBegins(f, s) PROVE Written
  <2>1. UNCHANGED <<units, queue, queued, pending, backoff, final, closing, unit, graded,
     close, chain, doubted, failures>>
    BY <1>12 DEF FlushBegins, Request, Notify, queueVars, workerVars, storeVars
  <2> QED  BY <1>12, <2>1 DEF Written
<1>13. ASSUME NEW t \in Threads, FlushReturns(t) PROVE Written
  <2>1. UNCHANGED <<units, queue, queued, pending, backoff, final, closing, worker, unit,
     graded, close, chain, doubted, failures>>
    BY <1>13 DEF FlushReturns, queueVars, workerVars, storeVars
  <2> QED  BY <1>13, <2>1 DEF Written
<1>14. ASSUME NEW t \in Threads, FlushTimesOut(t) PROVE Written
  <2>1. UNCHANGED <<units, queue, queued, pending, backoff, final, closing, worker, unit,
     graded, close, chain, doubted, failures>>
    BY <1>14 DEF FlushTimesOut, queueVars, workerVars, storeVars
  <2> QED  BY <1>14, <2>1 DEF Written
<1>15. ASSUME CloseBegins PROVE Written
  <2>1. UNCHANGED <<units, queue, queued, pending, backoff, final, closing, worker, unit,
     graded, flush, chain, doubted, failures>>
    BY <1>15 DEF CloseBegins, queueVars, workerVars, storeVars
  <2> QED  BY <1>15, <2>1 DEF Written
<1>16. ASSUME CloseRaises PROVE Written
  <2>1. UNCHANGED <<units, queue, queued, pending, backoff, final, closing, worker, unit,
     graded, flush, chain, doubted, failures>>
    BY <1>16 DEF CloseRaises, queueVars, workerVars, storeVars
  <2> QED  BY <1>16, <2>1 DEF Written
<1>17. ASSUME CloseFlushes PROVE Written
  <2>1. UNCHANGED <<units, queue, queued, pending, backoff, final, closing, unit, graded,
     chain, doubted, failures>>
    BY <1>17 DEF CloseFlushes, Request, Notify, queueVars, workerVars, storeVars
  <2> QED  BY <1>17, <2>1 DEF Written
<1>18. ASSUME CloseMarks PROVE Written
  <2>1. UNCHANGED <<units, queue, queued, pending, backoff, final, unit, graded, flush,
     chain, doubted, failures>>
    BY <1>18 DEF CloseMarks, Notify, queueVars, workerVars, storeVars
  <2> QED  BY <1>18, <2>1 DEF Written
<1>19. ASSUME CloseJoins PROVE Written
  <2>1. UNCHANGED <<units, queue, queued, pending, backoff, final, closing, worker, unit,
     graded, flush, chain, doubted, failures>>
    BY <1>19 DEF CloseJoins, queueVars, workerVars, storeVars
  <2> QED  BY <1>19, <2>1 DEF Written
<1>20. CASE UNCHANGED vars
  BY <1>20 DEF Written, vars
<1> QED
  BY <1>1, <1>2, <1>3, <1>4, <1>5, <1>6, <1>7, <1>8, <1>9, <1>10, <1>11, <1>12, <1>13,
     <1>14, <1>15, <1>16, <1>17, <1>18, <1>19, <1>20, StepCases

-----------------------------------------------------------------------------
(* Numbers, and what the worker takes.                                     *)

(* A set of numbers that is not empty has a least one.                     *)
LEMMA LeastOf ==
  ASSUME NEW S \in SUBSET Nat, S # {}
  PROVE  Min(S) \in S /\ \A n \in S : Min(S) <= n
<1>1. IsWellFoundedOn(OpToRel(<, Nat), Nat)  BY NatLessThanWellFounded, Zenon
<1>2. PICK m \in S : \A k \in S : ~ (<<k, m>> \in OpToRel(<, Nat))
  BY <1>1, WFMin, Zenon
<1>3. \A k \in S : ~ (<<k, m>> \in OpToRel(<, Nat)) => ~ (k < m)
  BY DEF OpToRel
<1>4. \A k \in S : ~ (k < m) => m <= k
  OBVIOUS
<1>5. \A k \in S : m <= k
  BY <1>2, <1>3, <1>4
<1> QED  BY <1>5 DEF Min

(* What the worker takes: a gap, behind its grade, and then records.       *)
LEMMA GapTaken ==
  ASSUME NEW s \in Scopes, NEW gap \in SUBSET Record, gap # {}
  PROVE  LET t == GapEntries(s, gap) IN
         /\ t \in Seq(Entries)
         /\ s \in graded => Len(t) = 1 /\ t[1] = Entry("gap", gap)
         /\ s \notin graded => Len(t) = 2 /\ t[1] = Entry("grade", {}) /\ t[2] = Entry("gap", gap)
<1>1. Entry("gap", gap) \in Entries /\ Entry("grade", {}) \in Entries
  BY DEF Entry, Entries
<1>2. CASE s \in graded
  <2>1. GapEntries(s, gap) = <<>> \o <<Entry("gap", gap)>>  BY <1>2 DEF GapEntries
  <2>2. <<>> \o <<Entry("gap", gap)>> = <<Entry("gap", gap)>>  BY <1>1
  <2> QED  BY <1>1, <1>2, <2>1, <2>2
<1>3. CASE s \notin graded
  <2>1. GapEntries(s, gap) = <<Entry("grade", {})>> \o <<Entry("gap", gap)>>
    BY <1>3 DEF GapEntries
  <2> QED  BY <1>1, <1>3, <2>1
<1> QED  BY <1>2, <1>3

(* A record of each place of the unit.                                     *)
LEMMA RecordsTaken ==
  ASSUME NEW n \in 1..MaxUnits, NEW size \in UnitSizes
  PROVE  LET t == RecordEntries(n, size) IN
         /\ t \in Seq(Entries) /\ Len(t) = size /\ DOMAIN t = 1..size
         /\ \A k \in 1..size : t[k] = Entry("record", {<<n, k>>})
<1>1. size \in Nat  BY EmitterAssumption
<1>2. \A k \in 1..size : Entry("record", {<<n, k>>}) \in Entries
  BY DEF Entry, Entries, Record
<1> QED  BY <1>1, <1>2 DEF RecordEntries

-----------------------------------------------------------------------------
(* Types, a group of variables at a time.                                  *)

Unit == [scope: Scopes, size: UnitSizes]
Waiter == [pc: {"idle", "waiting", "true", "false"}, scope: Scopes, done: BOOLEAN, before: 0..MaxUnits]
InQueueRecord == [scope: Scopes, number: 1..MaxUnits, size: UnitSizes, gap: SUBSET Record]

UnitTypes == units \in Seq(Unit) /\ Len(units) <= MaxUnits
QueueTypes == queue \in Seq(InQueueRecord)
LossTypes == pending \in [Scopes -> SUBSET Record]
ScopeTypes ==
  /\ backoff \subseteq Scopes /\ final \subseteq Scopes /\ graded \subseteq Scopes
  /\ closing \in BOOLEAN
WorkerTypes ==
  worker \in [pc: {"look", "wait", "append", "failed", "gone"}, alarm: SUBSET Scopes]
TodoTypes == unit \in [scope: Scopes, todo: Seq(Entries)]
FlushTypes == flush \in [Threads -> Waiter]
CloseTypes ==
  close \in [pc: {"idle", "flush", "join", "true", "false", "raised"}, left: SUBSET Scopes,
             flushed: BOOLEAN, before: 0..MaxUnits]
ChainTypes == chain \in [Scopes -> Seq(Entries)]
FailureTypes == doubted \subseteq Record /\ failures \in 0..MaxFailures

(* Together they are the types of the pipeline.                            *)
LEMMA Groups ==
  TypeOK <=>
    /\ UnitTypes /\ QueueTypes /\ queued \in Nat /\ LossTypes /\ ScopeTypes /\ WorkerTypes
    /\ TodoTypes /\ FlushTypes /\ CloseTypes /\ ChainTypes /\ FailureTypes
BY DEF TypeOK, UnitTypes, QueueTypes, LossTypes, ScopeTypes, WorkerTypes, TodoTypes, FlushTypes,
   CloseTypes, ChainTypes, FailureTypes, Unit, Waiter, InQueueRecord

(* The records of a unit are records, and there are as many as it is long. *)
LEMMA Sizes ==
  /\ \A n \in UnitSizes : n \in Nat /\ n # 0
  /\ \A size \in UnitSizes, k \in Nat : k \in 1..size => k \in UNION {1..j : j \in UnitSizes}
BY EmitterAssumption

(* Units are submitted, within the bound.                                  *)
LEMMA UnitStep ==
  ASSUME UnitTypes,
         [Next]_vars
  PROVE  UnitTypes'
<1>1. ASSUME NEW s \in Scopes, NEW size \in UnitSizes, SubmitTooLate(s, size) PROVE
     UnitTypes'
  <2>1. Len(units) + 1 <= MaxUnits
    BY <1>1, EmitterAssumption DEF SubmitTooLate, Offered, UnitTypes
  <2>2. [scope |-> s, size |-> size] \in Unit  BY DEF Unit
  <2>3. units' = Append(units, [scope |-> s, size |-> size])
    BY <1>1 DEF SubmitTooLate, Offered
  <2>4. units' \in Seq(Unit) /\ Len(units') = Len(units) + 1
    BY <2>2, <2>3 DEF UnitTypes
  <2> QED  BY <2>1, <2>4 DEF UnitTypes
<1>2. ASSUME NEW s \in Scopes, NEW size \in UnitSizes, SubmitTooMuch(s, size) PROVE
     UnitTypes'
  <2>1. Len(units) + 1 <= MaxUnits
    BY <1>2, EmitterAssumption DEF SubmitTooMuch, Offered, UnitTypes
  <2>2. [scope |-> s, size |-> size] \in Unit  BY DEF Unit
  <2>3. units' = Append(units, [scope |-> s, size |-> size])
    BY <1>2 DEF SubmitTooMuch, Offered
  <2>4. units' \in Seq(Unit) /\ Len(units') = Len(units) + 1
    BY <2>2, <2>3 DEF UnitTypes
  <2> QED  BY <2>1, <2>4 DEF UnitTypes
<1>3. ASSUME NEW s \in Scopes, NEW size \in UnitSizes, Submit(s, size) PROVE UnitTypes'
  <2>1. Len(units) + 1 <= MaxUnits
    BY <1>3, EmitterAssumption DEF Submit, Offered, UnitTypes
  <2>2. [scope |-> s, size |-> size] \in Unit  BY DEF Unit
  <2>3. units' = Append(units, [scope |-> s, size |-> size])
    BY <1>3 DEF Submit, Offered
  <2>4. units' \in Seq(Unit) /\ Len(units') = Len(units) + 1
    BY <2>2, <2>3 DEF UnitTypes
  <2> QED  BY <2>1, <2>4 DEF UnitTypes
<1>4. CASE UNCHANGED <<units>>
  BY <1>4 DEF UnitTypes, Unit
<1> QED
  BY <1>1, <1>2, <1>3, <1>4, Writers DEF Written

(* What is queued was submitted, with the losses before it.                *)
LEMMA QueueStep ==
  ASSUME QueueTypes, UnitTypes, LossTypes,
         [Next]_vars
  PROVE  QueueTypes'
<1>1. ASSUME NEW s \in Scopes, NEW size \in UnitSizes, Submit(s, size) PROVE QueueTypes'
  <2>1. Len(units) + 1 \in 1..MaxUnits  BY <1>1, EmitterAssumption DEF Submit, Offered, UnitTypes
  <2>2. pending[s] \in SUBSET Record  BY DEF LossTypes
  <2>3. [scope |-> s, number |-> Len(units) + 1, size |-> size, gap |-> pending[s]] \in InQueueRecord
    BY <2>1, <2>2 DEF InQueueRecord
  <2> QED  BY <1>1, <2>3 DEF Submit, QueueTypes
<1>2. ASSUME TakesQueued PROVE QueueTypes'
  BY <1>2 DEF TakesQueued, QueueTypes
<1>3. CASE UNCHANGED <<queue>>
  BY <1>3 DEF QueueTypes
<1> QED
  BY <1>1, <1>2, <1>3, Writers DEF Written

(* A loss is of records.                                                   *)
LEMMA LossStep ==
  ASSUME LossTypes, UnitTypes, TodoTypes,
         [Next]_vars
  PROVE  LossTypes'
<1>1. ASSUME NEW s \in Scopes, NEW size \in UnitSizes, SubmitTooLate(s, size) PROVE
     LossTypes'
  <2>1. New(size) \subseteq Record
    BY <1>1, Sizes, EmitterAssumption DEF SubmitTooLate, Offered, New, Record, UnitTypes
  <2>2. pending' = [pending EXCEPT ![s] = @ \cup New(size)]
    BY <1>1 DEF SubmitTooLate, Lost
  <2> QED  BY <2>1, <2>2 DEF LossTypes
<1>2. ASSUME NEW s \in Scopes, NEW size \in UnitSizes, SubmitTooMuch(s, size) PROVE
     LossTypes'
  <2>1. New(size) \subseteq Record
    BY <1>2, Sizes, EmitterAssumption DEF SubmitTooMuch, Offered, New, Record, UnitTypes
  <2>2. pending' = [pending EXCEPT ![s] = @ \cup New(size)]
    BY <1>2 DEF SubmitTooMuch, Lost
  <2> QED  BY <2>1, <2>2 DEF LossTypes
<1>3. ASSUME NEW s \in Scopes, NEW size \in UnitSizes, Submit(s, size) PROVE LossTypes'
  BY <1>3 DEF Submit, Offered, Notify, queueVars, workerVars, storeVars, LossTypes
<1>4. ASSUME TakesPending PROVE LossTypes'
  BY <1>4 DEF TakesPending, Takes, Complete, queueVars, workerVars, storeVars, LossTypes
<1>5. ASSUME SettlesFailed PROVE LossTypes'
  <2>1. \A i \in DOMAIN unit.todo : unit.todo[i] \in Entries  BY DEF TodoTypes
  <2>2. \A i \in DOMAIN unit.todo : unit.todo[i].of \subseteq Record  BY <2>1 DEF Entries
  <2>3. Owed \subseteq Record  BY <2>2 DEF Owed
  <2> QED  BY <1>5, <2>3 DEF SettlesFailed, Lost, LossTypes, TodoTypes
<1>6. CASE UNCHANGED <<pending>>
  BY <1>6 DEF LossTypes
<1> QED
  BY <1>1, <1>2, <1>3, <1>4, <1>5, <1>6, Writers DEF Written

(* Scopes back off, are tried a last time and graded.                      *)
LEMMA ScopeStep ==
  ASSUME ScopeTypes, QueueTypes, TodoTypes,
         [Next]_vars
  PROVE  ScopeTypes'
<1>1. ASSUME TakesQueued PROVE ScopeTypes'
  <2>1. Head(queue) \in InQueueRecord  BY <1>1 DEF TakesQueued, QueueTypes
  <2>2. /\ UNCHANGED <<backoff, final, closing>> /\ graded' \subseteq graded \cup {Head(queue).scope}
    BY <1>1 DEF TakesQueued, Takes
  <2> QED  BY <2>1, <2>2 DEF ScopeTypes, InQueueRecord
<1>2. ASSUME TakesPending PROVE ScopeTypes'
  <2>1. Declarable \in SUBSET Nat /\ Declarable # {}  BY <1>2 DEF TakesPending, Declarable, Lossy, Scopes
  <2>2. Min(Declarable) \in Scopes  BY <2>1, LeastOf DEF Declarable, Lossy
  <2>3. /\ backoff' \subseteq backoff /\ graded' \subseteq graded \cup {Min(Declarable)}
        /\ final' \subseteq final \cup {Min(Declarable)} /\ closing' = closing
    BY <1>2 DEF TakesPending, Takes, Complete
  <2> QED  BY <2>2, <2>3 DEF ScopeTypes
<1>3. ASSUME FindsNothing PROVE ScopeTypes'
  BY <1>3 DEF FindsNothing, Complete, queueVars, workerVars, storeVars, ScopeTypes,
     TodoTypes
<1>4. ASSUME Settles PROVE ScopeTypes'
  BY <1>4 DEF Settles, queueVars, workerVars, storeVars, ScopeTypes, TodoTypes
<1>5. ASSUME SettlesFailed PROVE ScopeTypes'
  BY <1>5 DEF SettlesFailed, Lost, queueVars, workerVars, storeVars, ScopeTypes, TodoTypes
<1>6. ASSUME NEW s \in Scopes, RetryComesDue(s) PROVE ScopeTypes'
  BY <1>6 DEF RetryComesDue, queueVars, workerVars, storeVars, ScopeTypes, TodoTypes
<1>7. ASSUME CloseMarks PROVE ScopeTypes'
  BY <1>7 DEF CloseMarks, Notify, queueVars, workerVars, storeVars, ScopeTypes, TodoTypes
<1>8. CASE UNCHANGED <<backoff, final, graded, closing>>
  BY <1>8 DEF ScopeTypes, TodoTypes
<1> QED
  BY <1>1, <1>2, <1>3, <1>4, <1>5, <1>6, <1>7, <1>8, Writers DEF Written

(* The worker is somewhere.                                                *)
LEMMA WorkerStep ==
  ASSUME WorkerTypes, ScopeTypes,
         [Next]_vars
  PROVE  WorkerTypes'
<1>1. ASSUME NEW s \in Scopes, NEW size \in UnitSizes, SubmitTooMuch(s, size) PROVE
     WorkerTypes'
  BY <1>1 DEF SubmitTooMuch, Offered, Lost, New, Notify, queueVars, workerVars,
     storeVars, WorkerTypes, ScopeTypes
<1>2. ASSUME NEW s \in Scopes, NEW size \in UnitSizes, Submit(s, size) PROVE WorkerTypes'
  BY <1>2 DEF Submit, Offered, Notify, queueVars, workerVars, storeVars, WorkerTypes,
     ScopeTypes
<1>3. ASSUME TakesQueued PROVE WorkerTypes'
  BY <1>3 DEF TakesQueued, Takes, queueVars, workerVars, storeVars, WorkerTypes, ScopeTypes
<1>4. ASSUME TakesPending PROVE WorkerTypes'
  BY <1>4 DEF TakesPending, Takes, Complete, queueVars, workerVars, storeVars,
     WorkerTypes, ScopeTypes
<1>5. ASSUME FindsNothing PROVE WorkerTypes'
  BY <1>5 DEF FindsNothing, Complete, queueVars, workerVars, storeVars, WorkerTypes,
     ScopeTypes
<1>6. ASSUME Raises PROVE WorkerTypes'
  BY <1>6 DEF Raises, Lands, queueVars, workerVars, storeVars, WorkerTypes, ScopeTypes
<1>7. ASSUME Settles PROVE WorkerTypes'
  BY <1>7 DEF Settles, queueVars, workerVars, storeVars, WorkerTypes, ScopeTypes
<1>8. ASSUME SettlesFailed PROVE WorkerTypes'
  BY <1>8 DEF SettlesFailed, Lost, queueVars, workerVars, storeVars, WorkerTypes, ScopeTypes
<1>9. ASSUME NEW s \in Scopes, RetryComesDue(s) PROVE WorkerTypes'
  BY <1>9 DEF RetryComesDue, queueVars, workerVars, storeVars, WorkerTypes, ScopeTypes
<1>10. ASSUME NEW f \in Flushers, NEW s \in Scopes, FlushBegins(f, s) PROVE WorkerTypes'
  BY <1>10 DEF FlushBegins, Request, Notify, queueVars, workerVars, storeVars,
     WorkerTypes, ScopeTypes
<1>11. ASSUME CloseFlushes PROVE WorkerTypes'
  BY <1>11 DEF CloseFlushes, Request, Notify, queueVars, workerVars, storeVars,
     WorkerTypes, ScopeTypes
<1>12. ASSUME CloseMarks PROVE WorkerTypes'
  BY <1>12 DEF CloseMarks, Notify, queueVars, workerVars, storeVars, WorkerTypes, ScopeTypes
<1>13. CASE UNCHANGED <<worker>>
  BY <1>13 DEF WorkerTypes, ScopeTypes
<1> QED
  BY <1>1, <1>2, <1>3, <1>4, <1>5, <1>6, <1>7, <1>8, <1>9, <1>10, <1>11, <1>12, <1>13,
     Writers DEF Written

(* What the worker holds is entries.                                       *)
LEMMA TodoStep ==
  ASSUME TodoTypes, QueueTypes, LossTypes,
         [Next]_vars
  PROVE  TodoTypes'
<1>1. ASSUME TakesQueued PROVE TodoTypes'
  <2>1. Head(queue) \in InQueueRecord  BY <1>1 DEF TakesQueued, QueueTypes
  <2> DEFINE u == Head(queue)
  <2>2. /\ u.scope \in Scopes /\ u.number \in 1..MaxUnits /\ u.size \in UnitSizes
        /\ u.gap \in SUBSET Record
    BY <2>1 DEF InQueueRecord
  <2>3. unit' = [scope |-> u.scope,
                 todo |-> GapEntries(u.scope, u.gap) \o RecordEntries(u.number, u.size)]
    BY <1>1 DEF TakesQueued, Takes
  <2> HIDE DEF u
  <2>4. GapEntries(u.scope, u.gap) \in Seq(Entries)
    <3>1. CASE u.gap = {}  BY <3>1 DEF GapEntries
    <3>2. CASE u.gap # {}  BY <2>2, <3>2, GapTaken
    <3> QED  BY <3>1, <3>2
  <2>5. RecordEntries(u.number, u.size) \in Seq(Entries)  BY <2>2, RecordsTaken
  <2> QED  BY <2>2, <2>3, <2>4, <2>5 DEF TodoTypes
<1>2. ASSUME TakesPending PROVE TodoTypes'
  <2>1. Declarable \in SUBSET Nat /\ Declarable # {}  BY <1>2 DEF TakesPending, Declarable, Lossy, Scopes
  <2>2. PICK s \in Scopes : s = Min(Declarable) /\ pending[s] # {}
    BY <2>1, LeastOf DEF Declarable, Lossy
  <2>3. unit' = [scope |-> s, todo |-> GapEntries(s, pending[s]) \o <<>>]
    BY <1>2, <2>2 DEF TakesPending, Takes
  <2>4. GapEntries(s, pending[s]) \in Seq(Entries)
    <3>1. pending[s] \in SUBSET Record  BY DEF LossTypes
    <3> QED  BY <2>2, <3>1, GapTaken
  <2> QED  BY <2>3, <2>4 DEF TodoTypes
<1>3. ASSUME Appends PROVE TodoTypes'
  BY <1>3 DEF Appends, Lands, queueVars, workerVars, storeVars, TodoTypes
<1>4. ASSUME Settles PROVE TodoTypes'
  BY <1>4, EmitterAssumption DEF Settles, TodoTypes, NoUnit, Scopes
<1>5. ASSUME SettlesFailed PROVE TodoTypes'
  BY <1>5, EmitterAssumption DEF SettlesFailed, TodoTypes, NoUnit, Scopes
<1>6. CASE UNCHANGED <<unit>>
  BY <1>6 DEF TodoTypes
<1> QED
  BY <1>1, <1>2, <1>3, <1>4, <1>5, <1>6, Writers DEF Written

(* Flushes.                                                                *)
LEMMA FlushStep ==
  ASSUME FlushTypes, CloseTypes, UnitTypes,
         [Next]_vars
  PROVE  FlushTypes'
<1>1. ASSUME TakesPending PROVE FlushTypes'
  BY <1>1 DEF TakesPending, Takes, Complete, queueVars, workerVars, storeVars,
     FlushTypes, Waiter
<1>2. ASSUME FindsNothing PROVE FlushTypes'
  BY <1>2 DEF FindsNothing, Complete, queueVars, workerVars, storeVars, FlushTypes, Waiter
<1>3. ASSUME NEW f \in Flushers, NEW s \in Scopes, FlushBegins(f, s) PROVE FlushTypes'
  <2>1. Len(units) \in 0..MaxUnits  BY EmitterAssumption DEF UnitTypes
  <2> QED  BY <1>3, <2>1 DEF FlushBegins, Request, FlushTypes, Waiter
<1>4. ASSUME NEW t \in Threads, FlushReturns(t) PROVE FlushTypes'
  BY <1>4 DEF FlushReturns, queueVars, workerVars, storeVars, FlushTypes, Waiter
<1>5. ASSUME NEW t \in Threads, FlushTimesOut(t) PROVE FlushTypes'
  <2>1. 1 \in Scopes /\ 0 \in 0..MaxUnits  BY EmitterAssumption DEF Scopes
  <2>2. AtRest \in Waiter  BY <2>1 DEF AtRest, Waiter
  <2>3. [AtRest EXCEPT !.pc = "false"] \in Waiter
    BY <2>2 DEF Waiter
  <2> QED  BY <1>5, <2>3 DEF FlushTimesOut, FlushTypes
<1>6. ASSUME CloseFlushes PROVE FlushTypes'
  <2>1. close.left \in SUBSET Nat /\ close.left # {}  BY <1>6 DEF CloseFlushes, CloseTypes, Scopes
  <2>2. Min(close.left) \in Scopes  BY <2>1, LeastOf DEF CloseTypes
  <2>3. Len(units) \in 0..MaxUnits  BY EmitterAssumption DEF UnitTypes
  <2> QED  BY <1>6, <2>2, <2>3 DEF CloseFlushes, Request, FlushTypes, Waiter
<1>7. CASE UNCHANGED <<flush>>
  BY <1>7 DEF FlushTypes, Waiter
<1> QED
  BY <1>1, <1>2, <1>3, <1>4, <1>5, <1>6, <1>7, Writers DEF Written

(* The close.                                                              *)
LEMMA CloseStep ==
  ASSUME CloseTypes, UnitTypes, QueueTypes, ScopeTypes, FlushTypes, WorkerTypes,
         [Next]_vars
  PROVE  CloseTypes'
<1>1. ASSUME CloseBegins PROVE CloseTypes'
  <2>1. Len(units) \in 0..MaxUnits  BY EmitterAssumption DEF UnitTypes
  <2>2. Held \subseteq Scopes
    <3>1. \A i \in DOMAIN queue : queue[i].scope \in Scopes
      <4>1. \A i \in DOMAIN queue : queue[i] \in InQueueRecord  BY DEF QueueTypes
      <4> QED  BY <4>1 DEF InQueueRecord
    <3>2. \A i \in DOMAIN units : units[i].scope \in Scopes
      <4>1. \A i \in DOMAIN units : units[i] \in Unit  BY DEF UnitTypes
      <4> QED  BY <4>1 DEF Unit
    <3> QED  BY <3>1, <3>2 DEF Held, Lossy, ScopeTypes
  <2> QED  BY <1>1, <2>1, <2>2 DEF CloseBegins, CloseTypes
<1>2. ASSUME CloseRaises PROVE CloseTypes'
  BY <1>2 DEF CloseRaises, queueVars, workerVars, storeVars, CloseTypes
<1>3. ASSUME CloseFlushes PROVE CloseTypes'
  BY <1>3 DEF CloseFlushes, Request, Notify, queueVars, workerVars, storeVars, CloseTypes
<1>4. ASSUME CloseMarks PROVE CloseTypes'
  BY <1>4 DEF CloseMarks, Notify, queueVars, workerVars, storeVars, CloseTypes
<1>5. ASSUME CloseJoins PROVE CloseTypes'
  BY <1>5 DEF CloseJoins, queueVars, workerVars, storeVars, CloseTypes
<1>6. CASE UNCHANGED <<close>>
  BY <1>6 DEF CloseTypes
<1> QED
  BY <1>1, <1>2, <1>3, <1>4, <1>5, <1>6, Writers DEF Written

(* The chain is entries.                                                   *)
LEMMA ChainStep ==
  ASSUME ChainTypes, TodoTypes,
         [Next]_vars
  PROVE  ChainTypes'
<1>1. ASSUME Appends PROVE ChainTypes'
  <2>1. Head(unit.todo) \in Entries  BY <1>1 DEF Appends, TodoTypes
  <2> QED  BY <1>1, <2>1 DEF Appends, Lands, ChainTypes, TodoTypes
<1>2. ASSUME Raises PROVE ChainTypes'
  <2>1. Head(unit.todo) \in Entries  BY <1>2 DEF Raises, TodoTypes
  <2>2. CASE UNCHANGED <<chain, doubted>>  BY <2>2 DEF ChainTypes
  <2>3. CASE Lands  BY <2>1, <2>3 DEF Lands, ChainTypes, TodoTypes
  <2> QED  BY <1>2, <2>2, <2>3 DEF Raises
<1>3. CASE UNCHANGED <<chain>>
  BY <1>3 DEF ChainTypes
<1> QED
  BY <1>1, <1>2, <1>3, Writers DEF Written

(* What failed.                                                            *)
LEMMA FailureStep ==
  ASSUME FailureTypes, TodoTypes,
         [Next]_vars
  PROVE  FailureTypes'
<1>1. ASSUME Raises PROVE FailureTypes'
  <2>1. Head(unit.todo) \in Entries  BY <1>1 DEF Raises, TodoTypes
  <2>2. Head(unit.todo).of \subseteq Record  BY <2>1 DEF Entries
  <2> QED  BY <1>1, <2>2, EmitterAssumption DEF Raises, FailureTypes
<1>2. CASE UNCHANGED <<doubted, failures>>
  BY <1>2 DEF FailureTypes
<1> QED
  BY <1>1, <1>2, Writers DEF Written

-----------------------------------------------------------------------------
(* What each step moves, place by place.                                   *)

(* Units are never taken back.                                             *)
LEMMA UnitsKept ==
  ASSUME UnitTypes, [Next]_vars
  PROVE  /\ Len(units) <= Len(units') /\ DOMAIN units \subseteq DOMAIN units'
         /\ \A n \in DOMAIN units : units'[n] = units[n]
<1>1. ASSUME NEW s \in Scopes, NEW size \in UnitSizes, Offered(s, size)
      PROVE  /\ Len(units) <= Len(units') /\ DOMAIN units \subseteq DOMAIN units'
             /\ \A n \in DOMAIN units : units'[n] = units[n]
  <2>1. units' = Append(units, [scope |-> s, size |-> size])  BY <1>1 DEF Offered
  <2> QED  BY <2>1 DEF UnitTypes
<1>2. UNCHANGED units \/ \E s \in Scopes, size \in UnitSizes : Offered(s, size)
  BY Writers DEF Written, SubmitTooLate, SubmitTooMuch, Submit
<1> QED  BY <1>1, <1>2 DEF UnitTypes

(* Nor are the records of one, and a scope only gains some.                *)
LEMMA RecordsKept ==
  ASSUME UnitTypes, [Next]_vars
  PROVE  /\ \A n \in DOMAIN units : RecordsOf(n)' = RecordsOf(n)
         /\ \A s \in Scopes : RecordsIn(s) \subseteq RecordsIn(s)'
<1>1. \A n \in DOMAIN units : RecordsOf(n)' = RecordsOf(n)
  BY UnitsKept DEF RecordsOf
<1>2. ASSUME NEW s \in Scopes, NEW r \in RecordsIn(s) PROVE r \in RecordsIn(s)'
  <2>1. PICK n \in DOMAIN units : units[n].scope = s /\ r \in RecordsOf(n)
    BY DEF RecordsIn
  <2>2. n \in DOMAIN units' /\ units'[n].scope = s /\ r \in RecordsOf(n)'
    BY <1>1, <2>1, UnitsKept
  <2> QED  BY <2>2 DEF RecordsIn
<1> QED  BY <1>1, <1>2

(* What belongs to a scope, by the unit it is of.                          *)
LEMMA Belongs ==
  ASSUME UnitTypes, NEW s, NEW r \in RecordsIn(s)
  PROVE  \E n \in DOMAIN units, k \in Nat :
           /\ r = <<n, k>> /\ n \in 1..Len(units) /\ k \in 1..units[n].size
           /\ units[n].scope = s /\ r \in RecordsOf(n)
<1>1. PICK n \in DOMAIN units : units[n].scope = s /\ r \in RecordsOf(n)
  BY DEF RecordsIn
<1>2. PICK k \in 1..units[n].size : r = <<n, k>>  BY <1>1 DEF RecordsOf
<1>3. n \in 1..Len(units) /\ k \in Nat  BY DEF UnitTypes
<1> QED  BY <1>1, <1>2, <1>3

(* A record of a unit has the unit's number.                               *)
LEMMA NumberOf ==
  ASSUME NEW n, NEW r \in RecordsOf(n)
  PROVE  r[1] = n /\ \E k \in 1..units[n].size : r = <<n, k>>
BY DEF RecordsOf

(* A unit that fits is queued behind the others, with the losses before it.*)
LEMMA Submitting ==
  ASSUME UnitTypes, QueueTypes, LossTypes,
         NEW s \in Scopes, NEW size \in UnitSizes, Submit(s, size)
  PROVE  /\ Len(units') = Len(units) + 1 /\ DOMAIN units' = 1..(Len(units) + 1)
         /\ units'[Len(units) + 1] = [scope |-> s, size |-> size]
         /\ \A n \in DOMAIN units : units'[n] = units[n]
         /\ Len(queue') = Len(queue) + 1 /\ DOMAIN queue' = 1..(Len(queue) + 1)
         /\ DOMAIN queue = 1..Len(queue)
         /\ queue'[Len(queue) + 1] = [scope |-> s, number |-> Len(units) + 1, size |-> size,
                                      gap |-> pending[s]]
         /\ \A i \in DOMAIN queue : queue'[i] = queue[i]
         /\ pending' = [pending EXCEPT ![s] = {}]
         /\ UNCHANGED <<unit, graded, chain, doubted, failures, flush, close>>
<1> DEFINE q == [scope |-> s, number |-> Len(units) + 1, size |-> size, gap |-> pending[s]]
<1>1. Len(units) + 1 \in 1..MaxUnits  BY EmitterAssumption DEF Submit, Offered, UnitTypes
<1>2. pending[s] \in SUBSET Record  BY DEF LossTypes
<1>3. q \in InQueueRecord  BY <1>1, <1>2 DEF InQueueRecord
<1>4. units' = Append(units, [scope |-> s, size |-> size]) /\ queue' = Append(queue, q)
  BY DEF Submit, Offered
<1> HIDE DEF q
<1>5. /\ Len(units') = Len(units) + 1 /\ DOMAIN units' = 1..(Len(units) + 1)
      /\ units'[Len(units) + 1] = [scope |-> s, size |-> size]
      /\ \A n \in DOMAIN units : units'[n] = units[n]
  BY <1>4 DEF UnitTypes
<1>6. /\ Len(queue') = Len(queue) + 1 /\ DOMAIN queue' = 1..(Len(queue) + 1)
      /\ DOMAIN queue = 1..Len(queue)
      /\ queue'[Len(queue) + 1] = q
      /\ \A i \in DOMAIN queue : queue'[i] = queue[i]
  BY <1>3, <1>4 DEF QueueTypes
<1>7. /\ pending' = [pending EXCEPT ![s] = {}]
      /\ UNCHANGED <<unit, graded, chain, doubted, failures, flush, close>>
  BY DEF Submit, storeVars
<1> QED  BY <1>5, <1>6, <1>7 DEF q

(* One that does not is a loss of its scope.                               *)
LEMMA Losing ==
  ASSUME UnitTypes, NEW s \in Scopes, NEW size \in UnitSizes,
         SubmitTooLate(s, size) \/ SubmitTooMuch(s, size)
  PROVE  /\ Len(units') = Len(units) + 1 /\ DOMAIN units' = 1..(Len(units) + 1)
         /\ units'[Len(units) + 1] = [scope |-> s, size |-> size]
         /\ \A n \in DOMAIN units : units'[n] = units[n]
         /\ pending' = [pending EXCEPT ![s] = @ \cup New(size)]
         /\ \A n : n = Len(units) + 1 => New(size) = RecordsOf(n)'
         /\ UNCHANGED <<queue, unit, graded, chain, doubted, failures, flush, close>>
<1>1. units' = Append(units, [scope |-> s, size |-> size])
  BY DEF SubmitTooLate, SubmitTooMuch, Offered
<1>2. /\ Len(units') = Len(units) + 1 /\ DOMAIN units' = 1..(Len(units) + 1)
      /\ units'[Len(units) + 1] = [scope |-> s, size |-> size]
      /\ \A n \in DOMAIN units : units'[n] = units[n]
  BY <1>1 DEF UnitTypes
<1>3. pending' = [pending EXCEPT ![s] = @ \cup New(size)]
  BY DEF SubmitTooLate, SubmitTooMuch, Lost
<1>4. ASSUME NEW n, n = Len(units) + 1 PROVE New(size) = RecordsOf(n)'
  <2>1. units'[n].size = size  BY <1>2, <1>4
  <2> QED  BY <1>4, <2>1 DEF New, RecordsOf
<1>5. UNCHANGED <<queue, unit, graded, chain, doubted, failures, flush, close>>
  BY DEF SubmitTooLate, SubmitTooMuch, queueVars, workerVars, storeVars
<1> QED  BY <1>2, <1>3, <1>4, <1>5

(* The first entries of what the worker takes: the gap, behind a grade if  *)
(* the scope has none.                                                     *)
Taking(s, gap, g, todo) ==
  /\ g \in 0..2 /\ g <= Len(todo)
  /\ gap = {} <=> g = 0
  /\ gap # {} => todo[g] = Entry("gap", gap) /\ (g = 1 <=> s \in graded)
  /\ g = 2 => todo[1] = Entry("grade", {})

(* Those entries, before any others.                                       *)
LEMMA TakingTodo ==
  ASSUME NEW s \in Scopes, NEW gap \in SUBSET Record, NEW rest \in Seq(Entries)
  PROVE  \E g \in 0..2, todo \in Seq(Entries) :
           /\ todo = GapEntries(s, gap) \o rest
           /\ Taking(s, gap, g, todo) /\ Len(todo) = g + Len(rest) /\ DOMAIN todo = 1..Len(todo)
           /\ \A k \in 1..Len(rest) : todo[g + k] = rest[k]
<1>1. CASE gap = {}
  <2>1. GapEntries(s, gap) = <<>>  BY <1>1 DEF GapEntries
  <2>2. rest = GapEntries(s, gap) \o rest  BY <2>1
  <2>3. /\ Taking(s, gap, 0, rest) /\ Len(rest) = 0 + Len(rest) /\ DOMAIN rest = 1..Len(rest)
        /\ \A k \in 1..Len(rest) : rest[0 + k] = rest[k]
    BY <1>1 DEF Taking
  <2> WITNESS 0 \in 0..2, rest \in Seq(Entries)
  <2> QED  BY <2>2, <2>3
<1>2. CASE gap # {}
  <2>1. PICK front : front = GapEntries(s, gap)  OBVIOUS
  <2>2. /\ front \in Seq(Entries)
        /\ s \in graded => Len(front) = 1 /\ front[1] = Entry("gap", gap)
        /\ s \notin graded =>
             Len(front) = 2 /\ front[1] = Entry("grade", {}) /\ front[2] = Entry("gap", gap)
    BY <1>2, <2>1, GapTaken
  <2>3. PICK todo \in Seq(Entries) : todo = front \o rest
    <3>1. front \o rest \in Seq(Entries)  BY <2>2
    <3> QED  BY <3>1, Zenon
  <2>4. PICK g \in 1..2 : g = Len(front)  BY <2>2
  <2>5. /\ Len(todo) = g + Len(rest) /\ DOMAIN todo = 1..Len(todo)
        /\ \A k \in 1..g : todo[k] = front[k]
        /\ \A k \in 1..Len(rest) : todo[g + k] = rest[k]
    BY <2>2, <2>3, <2>4
  <2>6. g <= Len(todo)  BY <2>2, <2>4, <2>5
  <2>7. todo[g] = front[g] /\ todo[1] = front[1]  BY <2>5
  <2>8. front[g] = Entry("gap", gap)
    <3>1. CASE s \in graded  BY <2>2, <2>4, <3>1
    <3>2. CASE s \notin graded  BY <2>2, <2>4, <3>2
    <3> QED  BY <3>1, <3>2
  <2>9. (g = 1 <=> s \in graded) /\ (g = 2 => front[1] = Entry("grade", {}))
    <3>1. CASE s \in graded  BY <2>2, <2>4, <3>1
    <3>2. CASE s \notin graded  BY <2>2, <2>4, <3>2
    <3> QED  BY <3>1, <3>2
  <2>10. Taking(s, gap, g, todo)  BY <1>2, <2>6, <2>7, <2>8, <2>9 DEF Taking
  <2> WITNESS g \in 0..2, todo \in Seq(Entries)
  <2> QED  BY <2>1, <2>3, <2>5, <2>10
<1> QED  BY <1>1, <1>2

(* The worker takes the first of the queue: its gap, then its records.     *)
LEMMA TakingQueued ==
  ASSUME QueueTypes, TakesQueued
  PROVE  \E u \in InQueueRecord, g \in 0..2, todo \in Seq(Entries) :
           /\ 1 \in DOMAIN queue /\ u = queue[1] /\ DOMAIN queue = 1..Len(queue)
           /\ Len(queue) \in Nat \ {0} /\ DOMAIN queue' = 1..(Len(queue) - 1)
           /\ \A i \in DOMAIN queue' : i + 1 \in DOMAIN queue /\ queue'[i] = queue[i + 1]
           /\ \A i \in DOMAIN queue : i # 1 => i - 1 \in DOMAIN queue'
           /\ unit' = [scope |-> u.scope, todo |-> todo]
           /\ Taking(u.scope, u.gap, g, todo) /\ Len(todo) = g + u.size
           /\ DOMAIN todo = 1..(g + u.size)
           /\ \A k \in 1..u.size : todo[g + k] = Entry("record", {<<u.number, k>>})
           /\ graded' = IF u.gap = {} THEN graded ELSE graded \cup {u.scope}
           /\ worker.pc = "look" /\ queued' = queued - u.size
           /\ UNCHANGED <<units, pending, chain, doubted, failures, flush, close>>
<1>1. queue # <<>>  BY DEF TakesQueued
<1>2. PICK u \in InQueueRecord : u = Head(queue) /\ u = queue[1]
  BY <1>1 DEF QueueTypes
<1>3. /\ u.scope \in Scopes /\ u.number \in 1..MaxUnits /\ u.size \in UnitSizes
      /\ u.gap \in SUBSET Record
  BY DEF InQueueRecord
<1>4. PICK rest : rest = RecordEntries(u.number, u.size)  OBVIOUS
<1>5. /\ rest \in Seq(Entries) /\ Len(rest) = u.size
      /\ \A k \in 1..u.size : rest[k] = Entry("record", {<<u.number, k>>})
  BY <1>3, <1>4, RecordsTaken
<1>6. PICK g \in 0..2, todo \in Seq(Entries) :
        /\ todo = GapEntries(u.scope, u.gap) \o rest
        /\ Taking(u.scope, u.gap, g, todo) /\ Len(todo) = g + Len(rest) /\ DOMAIN todo = 1..Len(todo)
        /\ \A k \in 1..Len(rest) : todo[g + k] = rest[k]
  BY <1>3, <1>5, TakingTodo
<1>7. unit' = [scope |-> u.scope, todo |-> todo]
  BY <1>2, <1>4, <1>6 DEF TakesQueued, Takes
<1>8. /\ graded' = IF u.gap = {} THEN graded ELSE graded \cup {u.scope}
      /\ worker.pc = "look" /\ queued' = queued - u.size
      /\ UNCHANGED <<units, pending, chain, doubted, failures, flush, close>>
  BY <1>2 DEF TakesQueued, Takes, storeVars
<1>9. /\ 1 \in DOMAIN queue /\ DOMAIN queue = 1..Len(queue)
      /\ Len(queue) \in Nat \ {0} /\ DOMAIN queue' = 1..(Len(queue) - 1)
      /\ \A i \in DOMAIN queue' : i + 1 \in DOMAIN queue /\ queue'[i] = queue[i + 1]
      /\ \A i \in DOMAIN queue : i # 1 => i - 1 \in DOMAIN queue'
  <2>1. queue' = Tail(queue)  BY DEF TakesQueued
  <2> QED  BY <1>1, <2>1 DEF QueueTypes
<1>10. /\ Len(todo) = g + u.size /\ DOMAIN todo = 1..(g + u.size)
       /\ \A k \in 1..u.size : todo[g + k] = Entry("record", {<<u.number, k>>})
  BY <1>5, <1>6
<1> QED  BY <1>2, <1>6, <1>7, <1>8, <1>9, <1>10

(* It takes the losses of a scope: a gap alone.                            *)
LEMMA TakingPending ==
  ASSUME LossTypes, TakesPending
  PROVE  \E s \in Scopes, g \in 1..2, todo \in Seq(Entries) :
           /\ pending[s] # {} /\ pending[s] \in SUBSET Record
           /\ unit' = [scope |-> s, todo |-> todo]
           /\ Taking(s, pending[s], g, todo) /\ Len(todo) = g /\ DOMAIN todo = 1..g
           /\ graded' = graded \cup {s}
           /\ pending' = [pending EXCEPT ![s] = {}]
           /\ worker.pc = "look" /\ queue = <<>>
           /\ Complete({x \in Considered \ Lossy : x < s})
           /\ UNCHANGED <<units, queue, queued, chain, doubted, failures, close>>
<1>1. Declarable \in SUBSET Nat /\ Declarable # {}
  BY DEF TakesPending, Declarable, Lossy, Scopes
<1>2. PICK s \in Scopes : s = Min(Declarable) /\ pending[s] # {}
  BY <1>1, LeastOf DEF Declarable, Lossy
<1>3. pending[s] \in SUBSET Record  BY DEF LossTypes
<1>4. <<>> \in Seq(Entries) /\ Len(<<>>) = 0  OBVIOUS
<1>5. PICK rest \in Seq(Entries) : rest = <<>>  BY <1>4
<1>6. PICK gap \in SUBSET Record : gap = pending[s]  BY <1>3
<1>7. PICK g \in 0..2, todo \in Seq(Entries) :
        /\ todo = GapEntries(s, gap) \o rest
        /\ Taking(s, gap, g, todo) /\ Len(todo) = g + Len(rest) /\ DOMAIN todo = 1..Len(todo)
        /\ \A k \in 1..Len(rest) : todo[g + k] = rest[k]
  BY TakingTodo
<1>8. g \in 1..2 /\ Len(todo) = g /\ DOMAIN todo = 1..g
  BY <1>2, <1>4, <1>5, <1>6, <1>7 DEF Taking
<1>9. unit' = [scope |-> s, todo |-> todo]
  BY <1>2, <1>5, <1>6, <1>7 DEF TakesPending, Takes
<1>10. /\ graded' = graded \cup {s}
       /\ pending' = [pending EXCEPT ![s] = {}]
       /\ worker.pc = "look" /\ queue = <<>>
       /\ Complete({x \in Considered \ Lossy : x < s})
  BY <1>2 DEF TakesPending, Takes
<1>11. UNCHANGED <<units, queue, queued, chain, doubted, failures, close>>
  BY DEF TakesPending, queueVars, storeVars
<1> QED  BY <1>2, <1>3, <1>6, <1>7, <1>8, <1>9, <1>10, <1>11

(* An entry lands at the end of the chain of its scope.                    *)
LEMMA Landing ==
  ASSUME ChainTypes, TodoTypes, unit.todo # <<>>, Lands
  PROVE  /\ unit.scope \in Scopes /\ 1 \in DOMAIN unit.todo /\ DOMAIN unit.todo = 1..Len(unit.todo)
         /\ chain' \in [Scopes -> Seq(Entries)]
         /\ \A s \in Scopes : s # unit.scope => chain'[s] = chain[s]
         /\ \A s \in Scopes : /\ DOMAIN chain[s] = 1..Len(chain[s]) /\ Len(chain[s]) \in Nat
                              /\ DOMAIN chain'[s] = 1..Len(chain'[s])
         /\ Len(chain'[unit.scope]) = Len(chain[unit.scope]) + 1
         /\ \A i \in DOMAIN chain[unit.scope] : chain'[unit.scope][i] = chain[unit.scope][i]
         /\ chain'[unit.scope][Len(chain[unit.scope]) + 1] = unit.todo[1]
<1>1. unit.scope \in Scopes /\ unit.todo \in Seq(Entries)  BY DEF TodoTypes
<1>2. PICK e \in Entries : e = Head(unit.todo) /\ e = unit.todo[1]  BY <1>1
<1>3. chain' = [chain EXCEPT ![unit.scope] = Append(@, e)]  BY <1>2 DEF Lands
<1>4. \A s \in Scopes : chain[s] \in Seq(Entries)  BY DEF ChainTypes
<1>5. chain'[unit.scope] = Append(chain[unit.scope], e)  BY <1>1, <1>3 DEF ChainTypes
<1>6. \A s \in Scopes : s # unit.scope => chain'[s] = chain[s]  BY <1>3 DEF ChainTypes
<1>7. /\ Len(chain'[unit.scope]) = Len(chain[unit.scope]) + 1
      /\ chain'[unit.scope] \in Seq(Entries)
      /\ \A i \in DOMAIN chain[unit.scope] : chain'[unit.scope][i] = chain[unit.scope][i]
      /\ chain'[unit.scope][Len(chain[unit.scope]) + 1] = e
  BY <1>1, <1>4, <1>5
<1>8. \A s \in Scopes : chain'[s] \in Seq(Entries)  BY <1>4, <1>6, <1>7
<1>9. chain' \in [Scopes -> Seq(Entries)]  BY <1>3, <1>8 DEF ChainTypes
<1>10. \A s \in Scopes : /\ DOMAIN chain[s] = 1..Len(chain[s]) /\ Len(chain[s]) \in Nat
                         /\ DOMAIN chain'[s] = 1..Len(chain'[s])
  BY <1>4, <1>8
<1>11. 1 \in DOMAIN unit.todo /\ DOMAIN unit.todo = 1..Len(unit.todo)  BY <1>1
<1> QED  BY <1>1, <1>2, <1>6, <1>7, <1>9, <1>10, <1>11

(* An append that succeeds takes the entry off the worker's hands.         *)
LEMMA Appending ==
  ASSUME ChainTypes, TodoTypes, Appends
  PROVE  /\ unit.todo # <<>> /\ Lands /\ worker.pc = "append"
         /\ unit'.scope = unit.scope /\ DOMAIN unit'.todo = 1..(Len(unit.todo) - 1)
         /\ \A i \in DOMAIN unit'.todo :
              i \in Nat /\ i + 1 \in DOMAIN unit.todo /\ unit'.todo[i] = unit.todo[i + 1]
         /\ \A i \in DOMAIN unit.todo : i # 1 => i \in Nat /\ i - 1 \in DOMAIN unit'.todo
         /\ UNCHANGED <<units, queue, pending, graded, doubted, failures, flush, close, worker>>
<1>1. unit.todo # <<>> /\ Lands /\ worker.pc = "append"
  BY DEF Appends
<1>2. unit.todo \in Seq(Entries)  BY DEF TodoTypes
<1>3. unit'.scope = unit.scope /\ unit'.todo = Tail(unit.todo)
  BY DEF Appends, TodoTypes
<1>4. /\ DOMAIN unit'.todo = 1..(Len(unit.todo) - 1)
      /\ \A i \in DOMAIN unit'.todo :
           i \in Nat /\ i + 1 \in DOMAIN unit.todo /\ unit'.todo[i] = unit.todo[i + 1]
      /\ \A i \in DOMAIN unit.todo : i # 1 => i \in Nat /\ i - 1 \in DOMAIN unit'.todo
  BY <1>1, <1>2, <1>3
<1>5. UNCHANGED <<units, queue, pending, graded, doubted, failures, flush, close, worker>>
  BY DEF Appends, queueVars
<1> QED  BY <1>1, <1>3, <1>4, <1>5

(* One that raises may have landed all the same, and is doubted then.      *)
LEMMA Raising ==
  ASSUME ChainTypes, TodoTypes, Raises
  PROVE  /\ unit.todo # <<>> /\ worker.pc = "append" /\ (WorkerTypes => worker'.pc = "failed")
         /\ UNCHANGED <<chain, doubted>> \/ (Lands /\ doubted' = doubted \cup unit.todo[1].of)
         /\ failures \in Nat => failures' # 0
         /\ UNCHANGED <<units, queue, pending, graded, unit, flush, close>>
<1>1. unit.todo \in Seq(Entries) /\ unit.todo # <<>>  BY DEF TodoTypes, Raises
<1>2. Head(unit.todo) = unit.todo[1]  BY <1>1
<1>3. UNCHANGED <<chain, doubted>> \/ (Lands /\ doubted' = doubted \cup unit.todo[1].of)
  BY <1>2 DEF Raises
<1>4. worker' = [worker EXCEPT !.pc = "failed"] /\ worker.pc = "append"  BY DEF Raises
<1>5. WorkerTypes => worker'.pc = "failed"  BY <1>4 DEF WorkerTypes
<1>6. failures \in Nat => failures' # 0  BY DEF Raises
<1>7. UNCHANGED <<units, queue, pending, graded, unit, flush, close>>
  BY DEF Raises, queueVars
<1> QED  BY <1>1, <1>3, <1>4, <1>5, <1>6, <1>7

(* What a failed unit still owed is a loss.                                *)
LEMMA SettlingFailed ==
  ASSUME LossTypes, TodoTypes, SettlesFailed
  PROVE  /\ unit.scope \in Scopes /\ unit' = NoUnit /\ unit'.todo = <<>> /\ DOMAIN unit'.todo = {}
         /\ pending' = [pending EXCEPT ![unit.scope] = @ \cup Owed]
         /\ \A r : r \in Owed <=> \E i \in DOMAIN unit.todo : r \in unit.todo[i].of
         /\ worker.pc = "failed"
         /\ UNCHANGED <<units, queue, graded, chain, doubted, failures, flush, close>>
<1>1. unit.scope \in Scopes  BY DEF TodoTypes
<1>2. unit' = NoUnit /\ worker.pc = "failed"  BY DEF SettlesFailed
<1>3. unit'.todo = <<>> /\ DOMAIN unit'.todo = {}  BY <1>2 DEF NoUnit
<1>4. pending' = [pending EXCEPT ![unit.scope] = @ \cup Owed]
  BY DEF SettlesFailed, Lost
<1>5. \A r : r \in Owed <=> \E i \in DOMAIN unit.todo : r \in unit.todo[i].of
  BY DEF Owed
<1>6. UNCHANGED <<units, queue, graded, chain, doubted, failures, flush, close>>
  BY DEF SettlesFailed, queueVars, storeVars
<1> QED  BY <1>1, <1>2, <1>3, <1>4, <1>5, <1>6

-----------------------------------------------------------------------------
(* The worker's hands, and the scopes.                                     *)

(* The worker holds what it appends, and failed because the store did.     *)
LEMMA WorkerShapeStep ==
  ASSUME WorkerTypes, FailureTypes, TodoTypes, WorkerShape,
         [Next]_vars
  PROVE  WorkerShape'
<1>1. ASSUME NEW s \in Scopes, NEW size \in UnitSizes, SubmitTooMuch(s, size) PROVE
     WorkerShape'
  BY <1>1 DEF SubmitTooMuch, Offered, Lost, New, Notify, queueVars, workerVars,
     storeVars, WorkerShape
<1>2. ASSUME NEW s \in Scopes, NEW size \in UnitSizes, Submit(s, size) PROVE WorkerShape'
  BY <1>2 DEF Submit, Offered, Notify, queueVars, workerVars, storeVars, WorkerShape
<1>3. ASSUME TakesQueued PROVE WorkerShape'
  BY <1>3 DEF TakesQueued, Takes, WorkerShape, WorkerTypes
<1>4. ASSUME TakesPending PROVE WorkerShape'
  BY <1>4 DEF TakesPending, Takes, WorkerShape, WorkerTypes
<1>5. ASSUME FindsNothing PROVE WorkerShape'
  <2>1. worker.pc = "look" /\ UNCHANGED <<unit, failures>>  BY <1>5 DEF FindsNothing, storeVars
  <2>2. worker'.pc \in {"gone", "wait"}  BY <1>5 DEF FindsNothing
  <2> QED  BY <2>1, <2>2 DEF WorkerShape
<1>6. ASSUME Appends PROVE WorkerShape'
  BY <1>6 DEF Appends, WorkerShape, workerVars
<1>7. ASSUME Raises PROVE WorkerShape'
  BY <1>7 DEF Raises, WorkerShape, WorkerTypes, FailureTypes
<1>8. ASSUME Settles PROVE WorkerShape'
  BY <1>8 DEF Settles, WorkerShape, WorkerTypes, NoUnit, storeVars
<1>9. ASSUME SettlesFailed PROVE WorkerShape'
  BY <1>9 DEF SettlesFailed, WorkerShape, WorkerTypes, NoUnit, storeVars
<1>10. ASSUME NEW s \in Scopes, RetryComesDue(s) PROVE WorkerShape'
  BY <1>10 DEF RetryComesDue, queueVars, workerVars, storeVars, WorkerShape
<1>11. ASSUME NEW f \in Flushers, NEW s \in Scopes, FlushBegins(f, s) PROVE WorkerShape'
  BY <1>11 DEF FlushBegins, Request, Notify, queueVars, workerVars, storeVars, WorkerShape
<1>12. ASSUME CloseFlushes PROVE WorkerShape'
  BY <1>12 DEF CloseFlushes, Request, Notify, queueVars, workerVars, storeVars, WorkerShape
<1>13. ASSUME CloseMarks PROVE WorkerShape'
  BY <1>13 DEF CloseMarks, Notify, queueVars, workerVars, storeVars, WorkerShape
<1>14. CASE UNCHANGED <<worker, unit, failures>>
  BY <1>14 DEF WorkerShape
<1> QED
  BY <1>1, <1>2, <1>3, <1>4, <1>5, <1>6, <1>7, <1>8, <1>9, <1>10, <1>11, <1>12, <1>13,
     <1>14, Writers DEF Written


PendingIn == \A s \in Scopes : pending[s] \subseteq RecordsIn(s)
ChainIn == \A s \in Scopes : \A i \in DOMAIN chain[s] : chain[s][i].of \subseteq RecordsIn(s)
QueueIn ==
  \A i \in DOMAIN queue :
    /\ queue[i].number \in DOMAIN units
    /\ units[queue[i].number] = [scope |-> queue[i].scope, size |-> queue[i].size]
    /\ queue[i].gap \subseteq RecordsIn(queue[i].scope)
    /\ \A r \in queue[i].gap : r[1] < queue[i].number
TodoIn == \A i \in DOMAIN unit.todo : unit.todo[i].of \subseteq RecordsIn(unit.scope)

(* Everything keeps to its scope when each of these does.                  *)
LEMMA Scoped == ScopeShape <=> PendingIn /\ ChainIn /\ QueueIn /\ TodoIn
BY DEF ScopeShape, PendingIn, ChainIn, QueueIn, TodoIn

(* Losses are counted for the scope they are of.                           *)
LEMMA PendingInStep ==
  ASSUME UnitTypes, QueueTypes, LossTypes, TodoTypes, PendingIn, TodoIn,
         [Next]_vars
  PROVE  PendingIn'
<1>1. ASSUME NEW s \in Scopes, NEW size \in UnitSizes, SubmitTooLate(s, size) PROVE
     PendingIn'
  <2>0. Len(units) \in Nat  BY DEF UnitTypes
  <2>1. /\ pending' = [pending EXCEPT ![s] = @ \cup New(size)]
        /\ DOMAIN units' = 1..(Len(units) + 1)
        /\ units'[Len(units) + 1] = [scope |-> s, size |-> size]
        /\ \A n : n = Len(units) + 1 => New(size) = RecordsOf(n)'
    BY <1>1, Losing, Zenon
  <2>2. New(size) \subseteq RecordsIn(s)'
    <3>1. PICK n \in DOMAIN units' : n = Len(units) + 1  BY <2>0, <2>1
    <3>2. New(size) = RecordsOf(n)' /\ units'[n].scope = s  BY <2>1, <3>1
    <3> QED  BY <3>2 DEF RecordsIn
  <2> QED  BY <2>1, <2>2, RecordsKept DEF PendingIn, LossTypes
<1>2. ASSUME NEW s \in Scopes, NEW size \in UnitSizes, SubmitTooMuch(s, size) PROVE
     PendingIn'
  <2>0. Len(units) \in Nat  BY DEF UnitTypes
  <2>1. /\ pending' = [pending EXCEPT ![s] = @ \cup New(size)]
        /\ DOMAIN units' = 1..(Len(units) + 1)
        /\ units'[Len(units) + 1] = [scope |-> s, size |-> size]
        /\ \A n : n = Len(units) + 1 => New(size) = RecordsOf(n)'
    BY <1>2, Losing, Zenon
  <2>2. New(size) \subseteq RecordsIn(s)'
    <3>1. PICK n \in DOMAIN units' : n = Len(units) + 1  BY <2>0, <2>1
    <3>2. New(size) = RecordsOf(n)' /\ units'[n].scope = s  BY <2>1, <3>1
    <3> QED  BY <3>2 DEF RecordsIn
  <2> QED  BY <2>1, <2>2, RecordsKept DEF PendingIn, LossTypes
<1>3. ASSUME NEW s \in Scopes, NEW size \in UnitSizes, Submit(s, size) PROVE PendingIn'
  <2>1. pending' = [pending EXCEPT ![s] = {}]  BY <1>3, Submitting
  <2> QED  BY <2>1, RecordsKept DEF PendingIn, LossTypes
<1>4. ASSUME TakesPending PROVE PendingIn'
  <2>1. PICK s \in Scopes : pending' = [pending EXCEPT ![s] = {}]  BY <1>4, TakingPending
  <2> QED  BY <2>1, RecordsKept DEF PendingIn, LossTypes
<1>5. ASSUME SettlesFailed PROVE PendingIn'
  <2>1. /\ unit.scope \in Scopes /\ pending' = [pending EXCEPT ![unit.scope] = @ \cup Owed]
        /\ \A r : r \in Owed <=> \E i \in DOMAIN unit.todo : r \in unit.todo[i].of
    BY <1>5, SettlingFailed
  <2>2. Owed \subseteq RecordsIn(unit.scope)  BY <2>1 DEF TodoIn
  <2>3. PICK w \in Scopes : w = unit.scope  BY <2>1
  <2>4. Owed \subseteq RecordsIn(w)  BY <2>2, <2>3
  <2>5. pending' = [pending EXCEPT ![w] = @ \cup Owed]  BY <2>1, <2>3
  <2> QED  BY <2>4, <2>5, RecordsKept DEF PendingIn, LossTypes
<1>6. CASE UNCHANGED <<pending, units>>
  BY <1>6, RecordsKept DEF PendingIn
<1> QED
  BY <1>1, <1>2, <1>3, <1>4, <1>5, <1>6, Writers DEF Written

(* The chain of a scope holds its records.                                 *)
LEMMA ChainInStep ==
  ASSUME UnitTypes, TodoTypes, ChainTypes, ChainIn, TodoIn,
         [Next]_vars
  PROVE  ChainIn'
<1>1. ASSUME NEW s \in Scopes, NEW size \in UnitSizes, SubmitTooLate(s, size) PROVE ChainIn'
  <2>1. UNCHANGED chain  BY <1>1, Losing
  <2> QED  BY <2>1, RecordsKept DEF ChainIn
<1>2. ASSUME NEW s \in Scopes, NEW size \in UnitSizes, SubmitTooMuch(s, size) PROVE ChainIn'
  <2>1. UNCHANGED chain  BY <1>2, Losing
  <2> QED  BY <2>1, RecordsKept DEF ChainIn
<1>3. ASSUME NEW s \in Scopes, NEW size \in UnitSizes, Submit(s, size) PROVE ChainIn'
  <2>1. UNCHANGED chain  BY <1>3 DEF Submit, storeVars
  <2> QED  BY <2>1, RecordsKept DEF ChainIn
<1>4. ASSUME Appends PROVE ChainIn'
  <2>1. Lands /\ unit.todo # <<>>  BY <1>4, Appending
  <2>2. PICK w \in Scopes : w = unit.scope  BY <1>4, Landing, <2>1
  <2>3. chain'[w][Len(chain[w]) + 1].of \subseteq RecordsIn(w)'
    <3>1. unit.todo[1].of \subseteq RecordsIn(unit.scope)  BY <1>4, Landing, <2>1 DEF TodoIn
    <3>2. unit.todo[1].of \subseteq RecordsIn(w)  BY <2>2, <3>1
    <3>3. chain'[w][Len(chain[w]) + 1] = unit.todo[1]  BY Landing, <2>1, <2>2
    <3> QED  BY <3>2, <3>3, RecordsKept
  <2>4. ASSUME NEW s \in Scopes, NEW i \in DOMAIN chain'[s]
        PROVE  chain'[s][i].of \subseteq RecordsIn(s)'
    <3>1. CASE i \in DOMAIN chain[s] /\ chain'[s][i] = chain[s][i]
      BY <3>1, RecordsKept DEF ChainIn
    <3>2. CASE s = w /\ i = Len(chain[s]) + 1
      BY <2>3, <3>2
    <3>3. \/ i \in DOMAIN chain[s] /\ chain'[s][i] = chain[s][i]
          \/ s = w /\ i = Len(chain[s]) + 1
      BY <2>1, <2>2, Landing
    <3> QED  BY <3>1, <3>2, <3>3
  <2> QED  BY <2>4 DEF ChainIn
<1>5. ASSUME Raises PROVE ChainIn'
  <2>0. CASE Lands
    <3>1. unit.todo # <<>>  BY <1>5, Raising
    <3>2. PICK w \in Scopes : w = unit.scope  BY <1>5, Landing, <3>1, <2>0
    <3>3. chain'[w][Len(chain[w]) + 1].of \subseteq RecordsIn(w)'
      <4>1. unit.todo[1].of \subseteq RecordsIn(unit.scope)  BY <1>5, Landing, <3>1, <2>0 DEF TodoIn
      <4>2. unit.todo[1].of \subseteq RecordsIn(w)  BY <3>2, <4>1
      <4>3. chain'[w][Len(chain[w]) + 1] = unit.todo[1]  BY Landing, <3>1, <2>0, <3>2
      <4> QED  BY <4>2, <4>3, RecordsKept
    <3>4. ASSUME NEW s \in Scopes, NEW i \in DOMAIN chain'[s]
          PROVE  chain'[s][i].of \subseteq RecordsIn(s)'
      <4>1. CASE i \in DOMAIN chain[s] /\ chain'[s][i] = chain[s][i]
        BY <4>1, RecordsKept DEF ChainIn
      <4>2. CASE s = w /\ i = Len(chain[s]) + 1
        BY <3>3, <4>2
      <4>3. \/ i \in DOMAIN chain[s] /\ chain'[s][i] = chain[s][i]
            \/ s = w /\ i = Len(chain[s]) + 1
        BY <3>1, <2>0, <3>2, Landing
      <4> QED  BY <4>1, <4>2, <4>3
    <3> QED  BY <3>4 DEF ChainIn
  <2>1. CASE UNCHANGED chain  BY <2>1, RecordsKept DEF ChainIn
  <2> QED  BY <1>5, <2>0, <2>1, Raising
<1>6. CASE UNCHANGED <<chain, units>>
  BY <1>6, RecordsKept DEF ChainIn
<1> QED
  BY <1>1, <1>2, <1>3, <1>4, <1>5, <1>6, Writers DEF Written


(* What was queued stays as it was, whatever is submitted after it.        *)
LEMMA QueuedStays ==
  ASSUME UnitTypes, QueueTypes, QueueIn, [Next]_vars, NEW i \in DOMAIN queue,
         NEW j \in DOMAIN queue', queue'[j] = queue[i]
  PROVE  /\ queue'[j].number \in DOMAIN units'
         /\ units'[queue'[j].number] = [scope |-> queue'[j].scope, size |-> queue'[j].size]
         /\ queue'[j].gap \subseteq (RecordsIn(queue[j].scope))'
         /\ \A r \in queue'[j].gap : r[1] < queue'[j].number
<1>1. PICK q \in InQueueRecord : q = queue[i]  BY DEF QueueTypes
<1>2. PICK s \in Scopes : s = q.scope  BY DEF InQueueRecord
<1>3. /\ q.number \in DOMAIN units
      /\ units[q.number] = [scope |-> q.scope, size |-> q.size]
      /\ q.gap \subseteq RecordsIn(s)
      /\ \A r \in q.gap : r[1] < q.number
  BY <1>1, <1>2 DEF QueueIn
<1>4. q.gap \subseteq RecordsIn(s)'  BY <1>2, <1>3, RecordsKept
<1>5. q.number \in DOMAIN units' /\ units'[q.number] = units[q.number]
  BY <1>3, UnitsKept
<1>6. s = queue'[j].scope /\ q = queue'[j]  BY <1>1, <1>2
<1>7. queue'[j].gap \subseteq (RecordsIn(queue[j].scope))'
  BY <1>4, <1>6 DEF RecordsIn, RecordsOf
<1> QED  BY <1>3, <1>5, <1>6, <1>7

(* What is queued is as it was submitted.                                  *)
LEMMA QueueInStep ==
  ASSUME UnitTypes, QueueTypes, LossTypes, PendingIn, QueueIn,
         [Next]_vars
  PROVE  QueueIn'
<1>1. ASSUME NEW s \in Scopes, NEW size \in UnitSizes, SubmitTooLate(s, size) PROVE QueueIn'
  <2>1. UNCHANGED queue  BY <1>1, Losing
  <2> QED  BY <2>1, QueuedStays DEF QueueIn
<1>2. ASSUME NEW s \in Scopes, NEW size \in UnitSizes, SubmitTooMuch(s, size) PROVE QueueIn'
  <2>1. UNCHANGED queue  BY <1>2, Losing
  <2> QED  BY <2>1, QueuedStays DEF QueueIn
<1>3. ASSUME NEW s \in Scopes, NEW size \in UnitSizes, Submit(s, size) PROVE QueueIn'
  <2> DEFINE m == Len(units) + 1
  <2>1. /\ m \in DOMAIN units' /\ units'[m] = [scope |-> s, size |-> size]
        /\ DOMAIN queue' = 1..(Len(queue) + 1) /\ DOMAIN queue = 1..Len(queue)
        /\ \A i \in DOMAIN queue : queue'[i] = queue[i]
        /\ queue'[Len(queue) + 1] = [scope |-> s, number |-> m, size |-> size, gap |-> pending[s]]
        /\ Len(queue) \in Nat /\ Len(units) \in Nat
    BY <1>3, Submitting DEF UnitTypes, QueueTypes
  <2>2. pending[s] \subseteq RecordsIn(s)' /\ \A r \in pending[s] : r[1] < m
    <3>1. pending[s] \subseteq RecordsIn(s)  BY DEF PendingIn
    <3>2. \A r \in RecordsIn(s) : r[1] \in 1..Len(units)  BY Belongs
    <3> QED  BY <2>1, <3>1, <3>2, RecordsKept
  <2> HIDE DEF m
  <2>3. ASSUME NEW j \in DOMAIN queue'
        PROVE  /\ queue'[j].number \in DOMAIN units'
               /\ units'[queue'[j].number] = [scope |-> queue'[j].scope, size |-> queue'[j].size]
               /\ queue'[j].gap \subseteq (RecordsIn(queue[j].scope))'
               /\ \A r \in queue'[j].gap : r[1] < queue'[j].number
    <3>1. CASE j \in DOMAIN queue
      BY <2>1, <3>1, QueuedStays
    <3>2. CASE j = Len(queue) + 1
      <4>1. /\ queue'[j].scope = s /\ queue'[j].number = m /\ queue'[j].size = size
            /\ queue'[j].gap = pending[s]
        BY <2>1, <3>2
      <4>2. queue'[j].gap \subseteq (RecordsIn(queue[j].scope))'
        BY <2>2, <4>1 DEF RecordsIn, RecordsOf
      <4> QED  BY <2>1, <2>2, <4>1, <4>2
    <3> QED  BY <2>1, <3>1, <3>2
  <2> QED  BY <2>3 DEF QueueIn
<1>4. ASSUME TakesQueued PROVE QueueIn'
  <2>1. \A i \in DOMAIN queue' : i + 1 \in DOMAIN queue /\ queue'[i] = queue[i + 1]
    BY <1>4, TakingQueued
  <2> QED  BY <2>1, QueuedStays DEF QueueIn
<1>5. CASE UNCHANGED <<queue, units>>
  BY <1>5, QueuedStays DEF QueueIn
<1> QED
  BY <1>1, <1>2, <1>3, <1>4, <1>5, Writers DEF Written


(* Nor does what the worker holds change its scope.                        *)
LEMMA TodoStays ==
  ASSUME UnitTypes, TodoTypes, TodoIn, [Next]_vars, UNCHANGED unit
  PROVE  TodoIn'
<1>1. PICK w \in Scopes : w = unit.scope  BY DEF TodoTypes
<1>2. \A i \in DOMAIN unit.todo : unit.todo[i].of \subseteq RecordsIn(w)  BY <1>1 DEF TodoIn
<1>3. \A i \in DOMAIN unit.todo : unit.todo[i].of \subseteq RecordsIn(w)'
  BY <1>2, RecordsKept
<1>4. w = unit'.scope  BY <1>1
<1>5. RecordsIn(w)' = (RecordsIn(unit.scope))'  BY <1>4 DEF RecordsIn, RecordsOf
<1> QED  BY <1>3, <1>5 DEF TodoIn

(* What the worker holds is of its scope.                                  *)
LEMMA TodoInStep ==
  ASSUME UnitTypes, QueueTypes, LossTypes, TodoTypes, ChainTypes, PendingIn, QueueIn, TodoIn,
         [Next]_vars
  PROVE  TodoIn'
<1>1. ASSUME NEW s \in Scopes, NEW size \in UnitSizes, SubmitTooLate(s, size) PROVE TodoIn'
  <2>1. UNCHANGED unit  BY <1>1, Losing, Submitting
  <2> QED  BY <2>1, TodoStays
<1>2. ASSUME NEW s \in Scopes, NEW size \in UnitSizes, SubmitTooMuch(s, size) PROVE TodoIn'
  <2>1. UNCHANGED unit  BY <1>2, Losing, Submitting
  <2> QED  BY <2>1, TodoStays
<1>3. ASSUME NEW s \in Scopes, NEW size \in UnitSizes, Submit(s, size) PROVE TodoIn'
  <2>1. UNCHANGED unit  BY <1>3, Losing, Submitting
  <2> QED  BY <2>1, TodoStays
<1>4. ASSUME TakesQueued PROVE TodoIn'
  <2>1. PICK u \in InQueueRecord, g \in 0..2, todo \in Seq(Entries) :
          /\ 1 \in DOMAIN queue /\ u = queue[1]
          /\ unit' = [scope |-> u.scope, todo |-> todo]
          /\ Taking(u.scope, u.gap, g, todo)
          /\ DOMAIN todo = 1..(g + u.size)
          /\ \A k \in 1..u.size : todo[g + k] = Entry("record", {<<u.number, k>>})
          /\ UNCHANGED units
    BY <1>4, TakingQueued
  <2>2. /\ u.number \in DOMAIN units
        /\ units[u.number] = [scope |-> u.scope, size |-> u.size]
        /\ u.gap \subseteq RecordsIn(u.scope)
    BY <2>1 DEF QueueIn
  <2>3. u.size \in Nat /\ u.scope \in Scopes  BY Sizes DEF InQueueRecord
  <2>4. \A k \in 1..u.size : {<<u.number, k>>} \subseteq RecordsIn(u.scope)
    BY <2>2 DEF RecordsIn, RecordsOf
  <2>5. ASSUME NEW i \in DOMAIN todo PROVE todo[i].of \subseteq RecordsIn(u.scope)
    <3>1. CASE i > g
      <4>0. i - g \in 1..u.size /\ i = g + (i - g)  BY <2>1, <2>3, <3>1
      <4>1. PICK k \in 1..u.size : i = g + k  BY <4>0, Zenon
      <4>2. todo[i] = Entry("record", {<<u.number, k>>})  BY <2>1, <4>1
      <4> QED  BY <2>4, <4>2 DEF Entry
    <3>2. CASE i <= g
      <4>1. todo[i] = Entry("gap", u.gap) \/ todo[i] = Entry("grade", {})
        BY <2>1, <2>3, <3>2 DEF Taking
      <4> QED  BY <2>2, <4>1 DEF Entry
    <3> QED  BY <2>1, <2>3, <3>1, <3>2
  <2>6. PICK w \in Scopes : w = u.scope  BY <2>3
  <2>7. RecordsIn(w)' = RecordsIn(w)  BY <2>1 DEF RecordsIn, RecordsOf
  <2>8. (RecordsIn(unit.scope))' = RecordsIn(w)'  BY <2>1, <2>6 DEF RecordsIn, RecordsOf
  <2> QED  BY <2>1, <2>5, <2>6, <2>7, <2>8 DEF TodoIn
<1>5. ASSUME TakesPending PROVE TodoIn'
  <2>1. PICK s \in Scopes, g \in 1..2, todo \in Seq(Entries) :
          /\ pending[s] # {}
          /\ unit' = [scope |-> s, todo |-> todo]
          /\ Taking(s, pending[s], g, todo) /\ DOMAIN todo = 1..g
          /\ UNCHANGED units
    BY <1>5, TakingPending
  <2>2. ASSUME NEW i \in DOMAIN todo PROVE todo[i].of \subseteq RecordsIn(s)
    <3>1. todo[i] = Entry("gap", pending[s]) \/ todo[i] = Entry("grade", {})
      BY <2>1 DEF Taking
    <3> QED  BY <3>1 DEF Entry, PendingIn
  <2>3. RecordsIn(s)' = RecordsIn(s)  BY <2>1 DEF RecordsIn, RecordsOf
  <2>4. (RecordsIn(unit.scope))' = RecordsIn(s)'  BY <2>1 DEF RecordsIn, RecordsOf
  <2> QED  BY <2>1, <2>2, <2>3, <2>4 DEF TodoIn
<1>6. ASSUME Appends PROVE TodoIn'
  <2>1. /\ unit'.scope = unit.scope /\ UNCHANGED units
        /\ \A i \in DOMAIN unit'.todo : i + 1 \in DOMAIN unit.todo /\ unit'.todo[i] = unit.todo[i + 1]
    BY <1>6, Appending
  <2>2. (RecordsIn(unit.scope))' = RecordsIn(unit.scope)  BY <2>1 DEF RecordsIn, RecordsOf
  <2> QED  BY <2>1, <2>2 DEF TodoIn
<1>7. ASSUME Settles PROVE TodoIn'
  <2>1. DOMAIN unit'.todo = {}  BY <1>7 DEF Settles, NoUnit
  <2> QED  BY <2>1 DEF TodoIn
<1>8. ASSUME SettlesFailed PROVE TodoIn'
  <2>1. DOMAIN unit'.todo = {}  BY <1>8 DEF SettlesFailed, NoUnit
  <2> QED  BY <2>1 DEF TodoIn
<1>9. CASE UNCHANGED <<unit, units>>
  BY <1>9, TodoStays
<1> QED
  BY <1>1, <1>2, <1>3, <1>4, <1>5, <1>6, <1>7, <1>8, <1>9, Writers DEF Written

-----------------------------------------------------------------------------
(* A record is somewhere, and nowhere twice.                               *)

OnceOnChain(r) ==
  \A s \in Scopes : \A i, j \in DOMAIN chain[s] :
    r \in chain[s][i].of /\ r \in chain[s][j].of => i = j
OnceQueued(r) == \A i, j \in DOMAIN queue : InQueue(r, i) /\ InQueue(r, j) => i = j
OnceTaken(r) ==
  \A i, j \in DOMAIN unit.todo : r \in unit.todo[i].of /\ r \in unit.todo[j].of => i = j
Apart(r) ==
  /\ OnChain(r) => ~ Queued(r) /\ ~ Taken(r) /\ ~ Undeclared(r)
  /\ Queued(r) => ~ Taken(r) /\ ~ Undeclared(r)
  /\ Taken(r) => ~ Undeclared(r)

(* Nowhere twice: in one kind of place, and once in it.                    *)
LEMMA Once ==
  ASSUME NEW r
  PROVE  NotTwice(r) <=> Apart(r) /\ OnceOnChain(r) /\ OnceQueued(r) /\ OnceTaken(r)
BY DEF NotTwice, Apart, OnceOnChain, OnceQueued, OnceTaken

(* The same of the next state.                                             *)
LEMMA OnceNext ==
  ASSUME NEW r
  PROVE  NotTwice(r)' <=> Apart(r)' /\ OnceOnChain(r)' /\ OnceQueued(r)' /\ OnceTaken(r)'
BY DEF NotTwice, Apart, OnceOnChain, OnceQueued, OnceTaken

(* Only records of units that were submitted are anywhere.                 *)
LEMMA Known ==
  ASSUME UnitTypes, QueueTypes, TodoTypes, ScopeShape, NEW r, Somewhere(r)
  PROVE  r[1] \in DOMAIN units
<1>1. \A s : r \in RecordsIn(s) => r[1] \in DOMAIN units
  <2>1. ASSUME NEW s, r \in RecordsIn(s) PROVE r[1] \in DOMAIN units
    <3>1. PICK n \in DOMAIN units, k \in Nat : r = <<n, k>>  BY <2>1, Belongs
    <3> QED  BY <3>1
  <2> QED  BY <2>1
<1>2. CASE OnChain(r)  BY <1>1, <1>2 DEF OnChain, ScopeShape
<1>3. CASE Queued(r)  BY <1>1, <1>3 DEF Queued, InQueue, ScopeShape
<1>4. CASE Taken(r)  BY <1>1, <1>4 DEF Taken, ScopeShape
<1>5. CASE Undeclared(r)  BY <1>1, <1>5 DEF Undeclared, ScopeShape
<1> QED  BY <1>2, <1>3, <1>4, <1>5 DEF Somewhere

(* A record is a loss of its own scope alone.                              *)
LEMMA LossOfOne ==
  ASSUME UnitTypes, ScopeShape, NEW r, NEW s \in Scopes, NEW w \in Scopes,
         r \in pending[s], r \in pending[w]
  PROVE  s = w
<1>1. r \in RecordsIn(s) /\ r \in RecordsIn(w)  BY DEF ScopeShape
<1>2. PICK n \in DOMAIN units, k \in Nat : r = <<n, k>> /\ units[n].scope = s
  BY <1>1, Belongs
<1>3. PICK m \in DOMAIN units, j \in Nat : r = <<m, j>> /\ units[m].scope = w
  BY <1>1, Belongs
<1> QED  BY <1>2, <1>3

(* A record of the next state was there, or is of the unit submitted now.  *)
LEMMA OldOrNew ==
  ASSUME UnitTypes, [Next]_vars, NEW n \in DOMAIN units', NEW r \in RecordsOf(n)'
  PROVE  /\ r[1] = n
         /\ \/ n \in DOMAIN units /\ r \in RecordsOf(n)
            \/ n = Len(units) + 1 /\ n \notin DOMAIN units
<1>1. r[1] = n  BY DEF RecordsOf
<1>2. n \in DOMAIN units => r \in RecordsOf(n)  BY RecordsKept
<1>3. n \in DOMAIN units \/ (n = Len(units) + 1 /\ n \notin DOMAIN units)
  <2>1. ASSUME NEW s \in Scopes, NEW size \in UnitSizes, Offered(s, size)
        PROVE  n \in DOMAIN units \/ (n = Len(units) + 1 /\ n \notin DOMAIN units)
    <3>1. units' = Append(units, [scope |-> s, size |-> size])  BY <2>1 DEF Offered
    <3>2. /\ DOMAIN units' = 1..(Len(units) + 1) /\ DOMAIN units = 1..Len(units)
          /\ Len(units) \in Nat
      BY <3>1 DEF UnitTypes
    <3> QED  BY <3>2
  <2>2. UNCHANGED units \/ \E s \in Scopes, size \in UnitSizes : Offered(s, size)
    BY Writers DEF Written, SubmitTooLate, SubmitTooMuch, Submit
  <2>3. CASE UNCHANGED units
    <3>1. DOMAIN units' = DOMAIN units  BY <2>3
    <3> QED  BY <3>1
  <2> QED  BY <2>1, <2>2, <2>3
<1> QED  BY <1>1, <1>2, <1>3

(* A loss is counted, and nothing else moves.                              *)
LEMMA LosingPlaces ==
  ASSUME UnitTypes, QueueTypes, TodoTypes, LossTypes, ScopeShape, PlaceShape, [Next]_vars,
         NEW s \in Scopes, NEW size \in UnitSizes,
         SubmitTooLate(s, size) \/ SubmitTooMuch(s, size)
  PROVE  PlaceShape'
<1> SUFFICES ASSUME NEW n \in DOMAIN units', NEW r \in RecordsOf(n)'
             PROVE  Somewhere(r)' /\ (r \notin doubted' => NotTwice(r)')
  BY DEF PlaceShape
<1>1. UNCHANGED <<queue, unit, chain, doubted>>  BY Losing
<1>2. pending' = [pending EXCEPT ![s] = @ \cup New(size)]  BY Losing, Zenon
<1>3. /\ OnChain(r)' <=> OnChain(r)
      /\ Queued(r)' <=> Queued(r)
      /\ Taken(r)' <=> Taken(r)
      /\ OnceOnChain(r)' <=> OnceOnChain(r)
      /\ OnceQueued(r)' <=> OnceQueued(r)
      /\ OnceTaken(r)' <=> OnceTaken(r)
  BY <1>1 DEF OnChain, Queued, InQueue, Taken, OnceOnChain, OnceQueued, OnceTaken
<1>4. CASE n \in DOMAIN units /\ r \in RecordsOf(n)
  <2>1. r[1] = n /\ r[1] # Len(units) + 1  BY <1>4, OldOrNew DEF UnitTypes
  <2>2. r \notin New(size)  BY <2>1 DEF New
  <2>3. Undeclared(r)' <=> Undeclared(r)  BY <1>2, <2>2 DEF Undeclared, LossTypes
  <2>4. Somewhere(r) /\ (r \notin doubted => NotTwice(r))  BY <1>4 DEF PlaceShape
  <2>5. Somewhere(r)'  BY <1>3, <2>3, <2>4 DEF Somewhere
  <2>6. r \notin doubted' => NotTwice(r)'
    BY <1>1, <1>3, <2>3, <2>4, Once, OnceNext DEF Apart
  <2> QED  BY <2>5, <2>6
<1>5. CASE n = Len(units) + 1 /\ n \notin DOMAIN units
  <2>1. r[1] = n  BY OldOrNew
  <2>2. ~ Somewhere(r)  BY <1>5, <2>1, Known
  <2>3. r \in New(size)
    <3>1. \A m : m = Len(units) + 1 => New(size) = RecordsOf(m)'  BY Losing, Zenon
    <3> QED  BY <1>5, <3>1
  <2>4. Undeclared(r)'  BY <1>2, <2>3 DEF Undeclared, LossTypes
  <2>5. ~ OnChain(r)' /\ ~ Queued(r)' /\ ~ Taken(r)'  BY <1>3, <2>2 DEF Somewhere
  <2>6. OnceOnChain(r)' /\ OnceQueued(r)' /\ OnceTaken(r)'
    BY <2>5 DEF OnChain, Queued, Taken, OnceOnChain, OnceQueued, OnceTaken
  <2> QED  BY <2>4, <2>5, <2>6, OnceNext DEF Somewhere, Apart
<1> QED  BY <1>4, <1>5, OldOrNew

(* A unit is queued, with the losses of its scope so far.                  *)
LEMMA SubmittingPlaces ==
  ASSUME UnitTypes, QueueTypes, TodoTypes, LossTypes, ScopeShape, PlaceShape, [Next]_vars,
         NEW s \in Scopes, NEW size \in UnitSizes, Submit(s, size)
  PROVE  PlaceShape'
<1> SUFFICES ASSUME NEW n \in DOMAIN units', NEW r \in RecordsOf(n)'
             PROVE  Somewhere(r)' /\ (r \notin doubted' => NotTwice(r)')
  BY DEF PlaceShape
<1>1. UNCHANGED <<unit, chain, doubted>>  BY Submitting
<1>2. pending' = [pending EXCEPT ![s] = {}]  BY Submitting
<1>3. PICK m : m = Len(queue) + 1  OBVIOUS
<1>4. /\ DOMAIN queue' = (DOMAIN queue) \cup {m} /\ m \notin DOMAIN queue
      /\ \A i \in DOMAIN queue : queue'[i] = queue[i]
      /\ queue'[m].number = Len(units) + 1 /\ queue'[m].gap = pending[s]
  <2>1. Len(queue) \in Nat  BY DEF QueueTypes
  <2>2. DOMAIN queue' = 1..(Len(queue) + 1) /\ DOMAIN queue = 1..Len(queue)
    BY Submitting
  <2>3. queue'[Len(queue) + 1] = [scope |-> s, number |-> Len(units) + 1, size |-> size,
                                  gap |-> pending[s]]
    BY Submitting
  <2>4. \A i \in DOMAIN queue : queue'[i] = queue[i]  BY Submitting
  <2> QED  BY <1>3, <2>1, <2>2, <2>3, <2>4
<1>5. /\ OnChain(r)' <=> OnChain(r)
      /\ Taken(r)' <=> Taken(r)
      /\ OnceOnChain(r)' <=> OnceOnChain(r)
      /\ OnceTaken(r)' <=> OnceTaken(r)
  BY <1>1 DEF OnChain, Taken, OnceOnChain, OnceTaken
<1>6. InQueue(r, m)' <=> r \in pending[s] \/ r[1] = Len(units) + 1
  BY <1>4 DEF InQueue
<1>7. \A i \in DOMAIN queue : InQueue(r, i)' <=> InQueue(r, i)
  BY <1>4 DEF InQueue
<1>8. Queued(r)' <=> Queued(r) \/ InQueue(r, m)'
  BY <1>4, <1>7 DEF Queued
<1>9. Undeclared(r)' => Undeclared(r) /\ r \notin pending[s]
  <2>1. ASSUME NEW w \in Scopes, r \in pending'[w] PROVE Undeclared(r) /\ r \notin pending[s]
    <3>1. w # s /\ r \in pending[w]  BY <1>2, <2>1 DEF LossTypes
    <3> QED  BY <3>1, LossOfOne DEF Undeclared
  <2> QED  BY <2>1 DEF Undeclared
<1>10. Undeclared(r) => Undeclared(r)' \/ r \in pending[s]
  BY <1>2 DEF Undeclared, LossTypes
<1>11. ASSUME OnceQueued(r), ~ Queued(r) \/ ~ InQueue(r, m)' PROVE OnceQueued(r)'
  <2>1. \A i \in DOMAIN queue' : i = m \/ i \in DOMAIN queue  BY <1>4
  <2> QED  BY <1>7, <1>11, <2>1 DEF OnceQueued, Queued
<1>12. CASE n \in DOMAIN units /\ r \in RecordsOf(n)
  <2>1. r[1] # Len(units) + 1  BY <1>12, OldOrNew DEF UnitTypes
  <2>2. Somewhere(r) /\ (r \notin doubted => NotTwice(r))  BY <1>12 DEF PlaceShape
  <2>3. InQueue(r, m)' <=> r \in pending[s]  BY <1>6, <2>1
  <2>4. Somewhere(r)'  BY <1>5, <1>8, <1>10, <2>2, <2>3 DEF Somewhere
  <2>5. r \in pending[s] => Undeclared(r)  BY DEF Undeclared
  <2>6. ASSUME r \notin doubted' PROVE NotTwice(r)'
    <3>1. Apart(r) /\ OnceOnChain(r) /\ OnceQueued(r) /\ OnceTaken(r)
      BY <1>1, <2>2, <2>6, Once
    <3>2. ~ Queued(r) \/ ~ InQueue(r, m)'  BY <2>3, <2>5, <3>1 DEF Apart
    <3>3. Apart(r)'  BY <1>5, <1>8, <1>9, <2>3, <2>5, <3>1 DEF Apart
    <3> QED  BY <1>5, <1>11, <3>1, <3>2, <3>3, OnceNext
  <2> QED  BY <2>4, <2>6
<1>13. CASE n = Len(units) + 1 /\ n \notin DOMAIN units
  <2>1. r[1] = n  BY OldOrNew
  <2>2. ~ Somewhere(r)  BY <1>13, <2>1, Known
  <2>3. InQueue(r, m)' /\ Queued(r)'  BY <1>6, <1>8, <1>13, <2>1
  <2>4. ~ OnChain(r)' /\ ~ Taken(r)' /\ ~ Undeclared(r)' /\ ~ Queued(r)
    BY <1>5, <1>9, <2>2 DEF Somewhere
  <2>5. OnceQueued(r)'  BY <1>11, <2>4 DEF OnceQueued, Queued
  <2>6. OnceOnChain(r)' /\ OnceTaken(r)'
    BY <2>4 DEF OnChain, Taken, OnceOnChain, OnceTaken
  <2> QED  BY <2>3, <2>4, <2>5, <2>6, OnceNext DEF Somewhere, Apart
<1> QED  BY <1>12, <1>13, OldOrNew

(* The worker takes a queued unit: it had nothing in its hands.            *)
LEMMA TakingQueuedPlaces ==
  ASSUME UnitTypes, QueueTypes, TodoTypes, ScopeShape, WorkerShape, PlaceShape, [Next]_vars,
         TakesQueued
  PROVE  PlaceShape'
<1> SUFFICES ASSUME NEW n \in DOMAIN units', NEW r \in RecordsOf(n)'
             PROVE  Somewhere(r)' /\ (r \notin doubted' => NotTwice(r)')
  BY DEF PlaceShape
<1>1. PICK u \in InQueueRecord, g \in 0..2, todo \in Seq(Entries) :
        /\ 1 \in DOMAIN queue /\ u = queue[1]
        /\ DOMAIN queue = 1..Len(queue) /\ DOMAIN queue' = 1..(Len(queue) - 1)
        /\ Len(queue) \in Nat \ {0}
        /\ \A i \in DOMAIN queue' : i + 1 \in DOMAIN queue /\ queue'[i] = queue[i + 1]
        /\ \A i \in DOMAIN queue : i # 1 => i - 1 \in DOMAIN queue'
        /\ unit' = [scope |-> u.scope, todo |-> todo]
        /\ Taking(u.scope, u.gap, g, todo)
        /\ DOMAIN todo = 1..(g + u.size)
        /\ \A k \in 1..u.size : todo[g + k] = Entry("record", {<<u.number, k>>})
        /\ worker.pc = "look"
        /\ UNCHANGED <<units, pending, chain, doubted>>
  BY TakingQueued
<1>2. n \in DOMAIN units /\ r[1] = n /\ r \in RecordsOf(n)  BY <1>1, OldOrNew
<1>3. Somewhere(r) /\ (r \notin doubted => NotTwice(r))  BY <1>2 DEF PlaceShape
<1>4. ~ Taken(r)  BY <1>1 DEF WorkerShape, Taken
<1>5. /\ OnChain(r)' <=> OnChain(r)
      /\ Undeclared(r)' <=> Undeclared(r)
      /\ OnceOnChain(r)' <=> OnceOnChain(r)
  BY <1>1 DEF OnChain, Undeclared, OnceOnChain
<1>6. \A i \in DOMAIN queue' : i \in Nat /\ (InQueue(r, i)' <=> InQueue(r, i + 1))
  BY <1>1 DEF InQueue
<1>7. Queued(r) <=> Queued(r)' \/ InQueue(r, 1)
  <2>1. ASSUME Queued(r) PROVE Queued(r)' \/ InQueue(r, 1)
    <3>1. PICK i \in DOMAIN queue : InQueue(r, i)  BY <2>1 DEF Queued
    <3>2. CASE i = 1  BY <3>1, <3>2
    <3>3. CASE i # 1
      <4>1. i - 1 \in DOMAIN queue' /\ (i - 1) + 1 = i  BY <1>1, <3>3
      <4>2. PICK j \in DOMAIN queue' : j + 1 = i  BY <4>1
      <4>3. InQueue(r, j)'  BY <1>6, <3>1, <4>2
      <4> QED  BY <4>3 DEF Queued
    <3> QED  BY <3>2, <3>3
  <2>2. ASSUME Queued(r)' PROVE Queued(r)
    <3>1. PICK i \in DOMAIN queue' : InQueue(r, i)'  BY <2>2 DEF Queued
    <3>2. InQueue(r, i + 1) /\ i + 1 \in DOMAIN queue  BY <1>1, <1>6, <3>1
    <3> QED  BY <3>2 DEF Queued
  <2> QED  BY <1>1, <2>1, <2>2 DEF Queued
<1>8. ASSUME OnceQueued(r) PROVE OnceQueued(r)' /\ (Queued(r)' => ~ InQueue(r, 1))
  <2>1. ASSUME NEW i \in DOMAIN queue', NEW j \in DOMAIN queue', InQueue(r, i)', InQueue(r, j)'
        PROVE  i = j
    <3>1. InQueue(r, i + 1) /\ InQueue(r, j + 1) /\ i + 1 \in DOMAIN queue /\ j + 1 \in DOMAIN queue
      BY <1>1, <1>6, <2>1
    <3>2. i + 1 = j + 1  BY <1>8, <3>1 DEF OnceQueued
    <3> QED  BY <1>6, <3>2
  <2>2. ASSUME NEW i \in DOMAIN queue', InQueue(r, i)', InQueue(r, 1) PROVE FALSE
    <3>1. InQueue(r, i + 1) /\ i + 1 \in DOMAIN queue  BY <1>1, <1>6, <2>2
    <3>2. i + 1 = 1  BY <1>1, <1>8, <2>2, <3>1 DEF OnceQueued
    <3>3. i \in 1..(Len(queue) - 1)  BY <1>1
    <3> QED  BY <1>1, <3>2, <3>3
  <2> QED  BY <2>1, <2>2 DEF OnceQueued, Queued
<1>9. u.size \in Nat /\ u.number \in Nat
  <2>1. u.size \in UnitSizes /\ u.number \in 1..MaxUnits  BY DEF InQueueRecord
  <2>2. MaxUnits \in Nat  BY EmitterAssumption
  <2>3. u.size \in Nat  BY <2>1, Sizes
  <2>4. u.number \in Nat  BY <2>1, <2>2
  <2> QED  BY <2>3, <2>4
<1>10. /\ units[u.number].size = u.size
       /\ \A x \in u.gap : x[1] < u.number
  <2>1. /\ units[u.number] = [scope |-> u.scope, size |-> u.size]
        /\ \A x \in u.gap : x[1] < u.number
    BY <1>1 DEF ScopeShape
  <2> QED  BY <2>1
<1>11. Taken(r)' <=> InQueue(r, 1)
  <2>1. Taken(r)' <=> \E i \in DOMAIN todo : r \in todo[i].of  BY <1>1 DEF Taken
  <2>2. ASSUME NEW i \in DOMAIN todo, r \in todo[i].of PROVE InQueue(r, 1)
    <3>1. CASE i > g
      <4>1. i - g \in 1..u.size /\ i = g + (i - g)  BY <1>1, <1>9, <3>1
      <4>2. PICK k \in 1..u.size : i = g + k  BY <4>1, Zenon
      <4>3. todo[i] = Entry("record", {<<u.number, k>>})  BY <1>1, <4>2
      <4>4. r = <<u.number, k>>  BY <2>2, <4>3 DEF Entry
      <4> QED  BY <1>1, <4>4 DEF InQueue
    <3>2. CASE i <= g
      <4>1. todo[i] = Entry("gap", u.gap) \/ todo[i] = Entry("grade", {})
        BY <1>1, <1>9, <3>2 DEF Taking
      <4> QED  BY <1>1, <2>2, <4>1 DEF Entry, InQueue
    <3> QED  BY <1>1, <1>9, <3>1, <3>2
  <2>3. ASSUME InQueue(r, 1) PROVE \E i \in DOMAIN todo : r \in todo[i].of
    <3>1. CASE r \in u.gap
      <4>1. g \in DOMAIN todo /\ todo[g] = Entry("gap", u.gap)
        BY <1>1, <1>9, <3>1 DEF Taking
      <4> QED  BY <3>1, <4>1 DEF Entry
    <3>2. CASE r[1] = u.number
      <4>1. PICK k \in 1..units[n].size : r = <<n, k>>  BY <1>2, NumberOf
      <4>2. k \in 1..u.size /\ r = <<u.number, k>>  BY <1>2, <1>10, <3>2, <4>1
      <4>3. todo[g + k] = Entry("record", {<<u.number, k>>})  BY <1>1, <4>2, Zenon
      <4>4. DOMAIN todo = 1..(g + u.size) /\ g \in Nat  BY <1>1
      <4>5. g + k \in DOMAIN todo  BY <1>9, <4>2, <4>4
      <4>6. r \in todo[g + k].of  BY <4>2, <4>3 DEF Entry
      <4> QED  BY <4>5, <4>6
    <3> QED  BY <1>1, <2>3, <3>1, <3>2 DEF InQueue
  <2> QED  BY <2>1, <2>2, <2>3
<1>12. OnceTaken(r)'
  <2>1. ASSUME NEW i \in DOMAIN todo, r \in todo[i].of
        PROVE  \/ i = g /\ r \in u.gap
               \/ \E k \in 1..u.size : i = g + k /\ r = <<u.number, k>>
    <3>1. CASE i > g
      <4>1. i - g \in 1..u.size /\ i = g + (i - g)  BY <1>1, <1>9, <3>1
      <4>2. PICK k \in 1..u.size : i = g + k  BY <4>1, Zenon
      <4>3. todo[i] = Entry("record", {<<u.number, k>>})  BY <1>1, <4>2
      <4>4. r = <<u.number, k>>  BY <2>1, <4>3 DEF Entry
      <4> QED  BY <4>2, <4>4
    <3>2. CASE i <= g
      <4>1. (i = g /\ todo[i] = Entry("gap", u.gap)) \/ todo[i] = Entry("grade", {})
        BY <1>1, <1>9, <3>2 DEF Taking
      <4> QED  BY <2>1, <4>1 DEF Entry
    <3> QED  BY <1>1, <1>9, <3>1, <3>2
  <2>2. ASSUME NEW i \in DOMAIN todo, NEW j \in DOMAIN todo, r \in todo[i].of, r \in todo[j].of
        PROVE  i = j
    <3>1. CASE i = g /\ j = g  BY <3>1
    <3>2. CASE r \in u.gap
      <4>1. r[1] # u.number  BY <1>2, <1>9, <1>10, <3>2
      <4>2. \A k \in 1..u.size : r # <<u.number, k>>  BY <4>1
      <4> QED  BY <2>1, <2>2, <4>2
    <3>3. CASE r \notin u.gap
      <4>1. PICK k \in 1..u.size : i = g + k /\ r = <<u.number, k>>  BY <2>1, <2>2, <3>3
      <4>2. PICK l \in 1..u.size : j = g + l /\ r = <<u.number, l>>  BY <2>1, <2>2, <3>3
      <4> QED  BY <4>1, <4>2
    <3> QED  BY <3>2, <3>3
  <2> QED  BY <1>1, <2>2 DEF OnceTaken
<1>13. Somewhere(r)'  BY <1>3, <1>4, <1>5, <1>7, <1>11 DEF Somewhere
<1>14. ASSUME r \notin doubted' PROVE NotTwice(r)'
  <2>1. Apart(r) /\ OnceOnChain(r) /\ OnceQueued(r) /\ OnceTaken(r)
    BY <1>1, <1>3, <1>14, Once
  <2>2. Apart(r)'  BY <1>4, <1>5, <1>7, <1>8, <1>11, <2>1 DEF Apart
  <2> QED  BY <1>5, <1>8, <1>12, <2>1, <2>2, OnceNext
<1> QED  BY <1>13, <1>14

(* The worker takes the losses of a scope.                                 *)
LEMMA TakingPendingPlaces ==
  ASSUME UnitTypes, LossTypes, ScopeShape, WorkerShape, PlaceShape, [Next]_vars, TakesPending
  PROVE  PlaceShape'
<1> SUFFICES ASSUME NEW n \in DOMAIN units', NEW r \in RecordsOf(n)'
             PROVE  Somewhere(r)' /\ (r \notin doubted' => NotTwice(r)')
  BY DEF PlaceShape
<1>1. PICK s \in Scopes, g \in 1..2, todo \in Seq(Entries) :
        /\ unit' = [scope |-> s, todo |-> todo] /\ pending[s] # {}
        /\ Taking(s, pending[s], g, todo) /\ DOMAIN todo = 1..g
        /\ pending' = [pending EXCEPT ![s] = {}]
        /\ worker.pc = "look"
        /\ UNCHANGED <<units, queue, chain, doubted>>
  BY TakingPending
<1>2. n \in DOMAIN units /\ r[1] = n /\ r \in RecordsOf(n)  BY <1>1, OldOrNew
<1>3. Somewhere(r) /\ (r \notin doubted => NotTwice(r))  BY <1>2 DEF PlaceShape
<1>4. ~ Taken(r)  BY <1>1 DEF WorkerShape, Taken
<1>5. /\ OnChain(r)' <=> OnChain(r)
      /\ Queued(r)' <=> Queued(r)
      /\ OnceOnChain(r)' <=> OnceOnChain(r)
      /\ OnceQueued(r)' <=> OnceQueued(r)
  BY <1>1 DEF OnChain, Queued, InQueue, OnceOnChain, OnceQueued
<1>6. todo[g] = Entry("gap", pending[s]) /\ \A i \in DOMAIN todo : i # g => todo[i] = Entry("grade", {})
  BY <1>1 DEF Taking
<1>7. \A i \in DOMAIN todo : r \in todo[i].of => i = g /\ r \in pending[s]
  BY <1>6 DEF Entry
<1>8. (Taken(r)' <=> r \in pending[s]) /\ OnceTaken(r)'
  BY <1>1, <1>6, <1>7 DEF Taken, OnceTaken, Entry
<1>9. Undeclared(r)' => Undeclared(r) /\ r \notin pending[s]
  <2>1. ASSUME NEW w \in Scopes, r \in pending'[w] PROVE Undeclared(r) /\ r \notin pending[s]
    <3>1. w # s /\ r \in pending[w]  BY <1>1, <2>1 DEF LossTypes
    <3> QED  BY <3>1, LossOfOne DEF Undeclared
  <2> QED  BY <2>1 DEF Undeclared
<1>10. Undeclared(r) => Undeclared(r)' \/ r \in pending[s]
  BY <1>1 DEF Undeclared, LossTypes
<1>11. r \in pending[s] => Undeclared(r)  BY DEF Undeclared
<1>12. Somewhere(r)'  BY <1>3, <1>4, <1>5, <1>8, <1>10 DEF Somewhere
<1>13. ASSUME r \notin doubted' PROVE NotTwice(r)'
  <2>1. Apart(r) /\ OnceOnChain(r) /\ OnceQueued(r)
    BY <1>1, <1>3, <1>13, Once
  <2>2. Apart(r)'  BY <1>5, <1>8, <1>9, <1>11, <2>1 DEF Apart
  <2> QED  BY <1>5, <1>8, <2>1, <2>2, OnceNext
<1> QED  BY <1>12, <1>13

(* An entry lands: its records are on the chain, and only if it raised     *)
(* still in the worker's hands.                                            *)
LEMMA LandingPlaces ==
  ASSUME ChainTypes, TodoTypes, unit.todo # <<>>, Lands, NEW r
  PROVE  /\ OnChain(r)' <=> OnChain(r) \/ r \in unit.todo[1].of
         /\ OnceOnChain(r) /\ (OnChain(r) => r \notin unit.todo[1].of) => OnceOnChain(r)'
<1>1. PICK w \in Scopes : w = unit.scope  BY Landing
<1>2. PICK m : m = Len(chain[w]) + 1  OBVIOUS
<1>3. /\ \A s \in Scopes : s # w => chain'[s] = chain[s]
      /\ DOMAIN chain'[w] = (DOMAIN chain[w]) \cup {m} /\ m \notin DOMAIN chain[w]
      /\ \A i \in DOMAIN chain[w] : chain'[w][i] = chain[w][i]
      /\ chain'[w][m] = unit.todo[1]
  BY <1>1, <1>2, Landing
<1>4. OnChain(r)' <=> OnChain(r) \/ r \in unit.todo[1].of
  <2>1. ASSUME NEW s \in Scopes, NEW i \in DOMAIN chain'[s], r \in chain'[s][i].of
        PROVE  OnChain(r) \/ r \in unit.todo[1].of
    BY <1>3, <2>1 DEF OnChain
  <2>2. ASSUME NEW s \in Scopes, NEW i \in DOMAIN chain[s], r \in chain[s][i].of
        PROVE  OnChain(r)'
    BY <1>3, <2>2 DEF OnChain
  <2>3. r \in unit.todo[1].of => OnChain(r)'  BY <1>3 DEF OnChain
  <2> QED  BY <2>1, <2>2, <2>3 DEF OnChain
<1>5. ASSUME OnceOnChain(r), OnChain(r) => r \notin unit.todo[1].of PROVE OnceOnChain(r)'
  <2>1. ASSUME NEW s \in Scopes, NEW i \in DOMAIN chain'[s], NEW j \in DOMAIN chain'[s],
               r \in chain'[s][i].of, r \in chain'[s][j].of
        PROVE  i = j
    <3>1. CASE s # w  BY <1>3, <1>5, <2>1, <3>1 DEF OnceOnChain
    <3>2. CASE s = w /\ i \in DOMAIN chain[w] /\ j \in DOMAIN chain[w]
      BY <1>3, <1>5, <2>1, <3>2 DEF OnceOnChain
    <3>3. CASE s = w /\ i = m /\ j \in DOMAIN chain[w]
      BY <1>3, <1>5, <2>1, <3>3 DEF OnChain
    <3>4. CASE s = w /\ j = m /\ i \in DOMAIN chain[w]
      BY <1>3, <1>5, <2>1, <3>4 DEF OnChain
    <3> QED  BY <1>3, <3>1, <3>2, <3>3, <3>4
  <2> QED  BY <2>1 DEF OnceOnChain
<1> QED  BY <1>4, <1>5

(* The store keeps an entry.                                               *)
LEMMA AppendingPlaces ==
  ASSUME UnitTypes, TodoTypes, ChainTypes, PlaceShape, [Next]_vars, Appends
  PROVE  PlaceShape'
<1> SUFFICES ASSUME NEW n \in DOMAIN units', NEW r \in RecordsOf(n)'
             PROVE  Somewhere(r)' /\ (r \notin doubted' => NotTwice(r)')
  BY DEF PlaceShape
<1>1. /\ unit.todo # <<>> /\ Lands /\ 1 \in DOMAIN unit.todo
      /\ DOMAIN unit.todo = 1..Len(unit.todo) /\ DOMAIN unit'.todo = 1..(Len(unit.todo) - 1)
      /\ \A i \in DOMAIN unit'.todo :
           i \in Nat /\ i + 1 \in DOMAIN unit.todo /\ unit'.todo[i] = unit.todo[i + 1]
      /\ \A i \in DOMAIN unit.todo : i # 1 => i \in Nat /\ i - 1 \in DOMAIN unit'.todo
      /\ UNCHANGED <<units, queue, pending, doubted>>
  BY Appending, Landing
<1>2. n \in DOMAIN units /\ r \in RecordsOf(n)  BY <1>1, OldOrNew
<1>3. Somewhere(r) /\ (r \notin doubted => NotTwice(r))  BY <1>2 DEF PlaceShape
<1>4. /\ Undeclared(r)' <=> Undeclared(r)
      /\ Queued(r)' <=> Queued(r)
      /\ OnceQueued(r)' <=> OnceQueued(r)
  BY <1>1 DEF Undeclared, Queued, InQueue, OnceQueued
<1>5. /\ OnChain(r)' <=> OnChain(r) \/ r \in unit.todo[1].of
      /\ OnceOnChain(r) /\ (OnChain(r) => r \notin unit.todo[1].of) => OnceOnChain(r)'
  BY <1>1, LandingPlaces
<1>6. Taken(r) => Taken(r)' \/ r \in unit.todo[1].of
  <2>1. ASSUME NEW i \in DOMAIN unit.todo, r \in unit.todo[i].of, i # 1 PROVE Taken(r)'
    <3>1. i - 1 \in DOMAIN unit'.todo /\ (i - 1) + 1 = i  BY <1>1, <2>1
    <3>2. PICK j \in DOMAIN unit'.todo : j + 1 = i  BY <3>1
    <3> QED  BY <1>1, <2>1, <3>2 DEF Taken
  <2> QED  BY <2>1 DEF Taken
<1>7. (Taken(r)' => Taken(r)) /\ (r \in unit.todo[1].of => Taken(r))
  BY <1>1 DEF Taken
<1>8. ASSUME OnceTaken(r) PROVE OnceTaken(r)' /\ (Taken(r)' => r \notin unit.todo[1].of)
  <2>1. ASSUME NEW i \in DOMAIN unit'.todo, NEW j \in DOMAIN unit'.todo,
               r \in unit'.todo[i].of, r \in unit'.todo[j].of
        PROVE  i = j
    <3>1. /\ r \in unit.todo[i + 1].of /\ r \in unit.todo[j + 1].of
          /\ i + 1 \in DOMAIN unit.todo /\ j + 1 \in DOMAIN unit.todo
      BY <1>1, <2>1
    <3>2. i + 1 = j + 1  BY <1>8, <3>1 DEF OnceTaken
    <3> QED  BY <1>1, <3>2
  <2>2. ASSUME NEW i \in DOMAIN unit'.todo, r \in unit'.todo[i].of, r \in unit.todo[1].of
        PROVE  FALSE
    <3>1. r \in unit.todo[i + 1].of /\ i + 1 \in DOMAIN unit.todo  BY <1>1, <2>2
    <3>2. i + 1 = 1  BY <1>1, <1>8, <2>2, <3>1 DEF OnceTaken
    <3>3. i \in 1..(Len(unit.todo) - 1) /\ i \in Nat  BY <1>1
    <3>4. i # 0  BY <3>3
    <3> QED  BY <3>2, <3>3, <3>4
  <2> QED  BY <2>1, <2>2 DEF OnceTaken, Taken
<1>9. Somewhere(r)'  BY <1>3, <1>4, <1>5, <1>6 DEF Somewhere
<1>10. ASSUME r \notin doubted' PROVE NotTwice(r)'
  <2>1. Apart(r) /\ OnceOnChain(r) /\ OnceQueued(r) /\ OnceTaken(r)
    BY <1>1, <1>3, <1>10, Once
  <2>2. OnChain(r) => r \notin unit.todo[1].of  BY <1>7, <2>1 DEF Apart
  <2>3. Apart(r)'  BY <1>4, <1>5, <1>7, <1>8, <2>1 DEF Apart
  <2> QED  BY <1>4, <1>5, <1>8, <2>1, <2>2, <2>3, OnceNext
<1> QED  BY <1>9, <1>10

(* The store raises: what it kept nevertheless is doubted.                 *)
LEMMA RaisingPlaces ==
  ASSUME UnitTypes, TodoTypes, ChainTypes, PlaceShape, [Next]_vars, Raises
  PROVE  PlaceShape'
<1> SUFFICES ASSUME NEW n \in DOMAIN units', NEW r \in RecordsOf(n)'
             PROVE  Somewhere(r)' /\ (r \notin doubted' => NotTwice(r)')
  BY DEF PlaceShape
<1>1. /\ unit.todo # <<>>
      /\ UNCHANGED <<chain, doubted>> \/ (Lands /\ doubted' = doubted \cup unit.todo[1].of)
      /\ UNCHANGED <<units, queue, pending, unit>>
  BY Raising
<1>2. n \in DOMAIN units /\ r \in RecordsOf(n)  BY <1>1, OldOrNew
<1>3. Somewhere(r) /\ (r \notin doubted => NotTwice(r))  BY <1>2 DEF PlaceShape
<1>4. /\ Undeclared(r)' <=> Undeclared(r)
      /\ Queued(r)' <=> Queued(r)
      /\ Taken(r)' <=> Taken(r)
      /\ OnceQueued(r)' <=> OnceQueued(r)
      /\ OnceTaken(r)' <=> OnceTaken(r)
  BY <1>1 DEF Undeclared, Queued, InQueue, Taken, OnceQueued, OnceTaken
<1>5. CASE UNCHANGED <<chain, doubted>>
  <2>1. (OnChain(r)' <=> OnChain(r)) /\ (OnceOnChain(r)' <=> OnceOnChain(r))
    BY <1>5 DEF OnChain, OnceOnChain
  <2>2. Somewhere(r)'  BY <1>3, <1>4, <2>1 DEF Somewhere
  <2>3. r \notin doubted' => NotTwice(r)'
    BY <1>3, <1>4, <1>5, <2>1, Once, OnceNext DEF Apart
  <2> QED  BY <2>2, <2>3
<1>6. CASE Lands /\ doubted' = doubted \cup unit.todo[1].of
  <2>1. /\ OnChain(r)' <=> OnChain(r) \/ r \in unit.todo[1].of
        /\ OnceOnChain(r) /\ (OnChain(r) => r \notin unit.todo[1].of) => OnceOnChain(r)'
    BY <1>1, <1>6, LandingPlaces
  <2>2. Somewhere(r)'  BY <1>3, <1>4, <2>1 DEF Somewhere
  <2>3. ASSUME r \notin doubted' PROVE NotTwice(r)'
    <3>1. r \notin doubted /\ r \notin unit.todo[1].of  BY <1>6, <2>3
    <3> QED  BY <1>3, <1>4, <2>1, <3>1, Once, OnceNext DEF Apart
  <2> QED  BY <2>2, <2>3
<1> QED  BY <1>1, <1>5, <1>6

(* What the worker could not append it counts.                             *)
LEMMA SettlingPlaces ==
  ASSUME UnitTypes, TodoTypes, LossTypes, PlaceShape, [Next]_vars, Settles \/ SettlesFailed
  PROVE  PlaceShape'
<1> SUFFICES ASSUME NEW n \in DOMAIN units', NEW r \in RecordsOf(n)'
             PROVE  Somewhere(r)' /\ (r \notin doubted' => NotTwice(r)')
  BY DEF PlaceShape
<1>1. /\ UNCHANGED <<units, queue, chain, doubted>> /\ DOMAIN unit'.todo = {}
  BY DEF Settles, SettlesFailed, queueVars, storeVars, NoUnit
<1>2. n \in DOMAIN units /\ r \in RecordsOf(n)  BY <1>1, OldOrNew
<1>3. Somewhere(r) /\ (r \notin doubted => NotTwice(r))  BY <1>2 DEF PlaceShape
<1>4. /\ OnChain(r)' <=> OnChain(r)
      /\ Queued(r)' <=> Queued(r)
      /\ OnceOnChain(r)' <=> OnceOnChain(r)
      /\ OnceQueued(r)' <=> OnceQueued(r)
  BY <1>1 DEF OnChain, Queued, InQueue, OnceOnChain, OnceQueued
<1>5. ~ Taken(r)' /\ OnceTaken(r)'  BY <1>1 DEF Taken, OnceTaken
<1>6. Undeclared(r)' <=> Undeclared(r) \/ Taken(r)
  <2>1. CASE Settles
    <3>1. UNCHANGED pending /\ unit.todo = <<>>  BY <2>1 DEF Settles
    <3> QED  BY <3>1 DEF Undeclared, Taken
  <2>2. CASE SettlesFailed
    <3>1. PICK w \in Scopes : w = unit.scope  BY <2>2, SettlingFailed
    <3>2. /\ pending' = [pending EXCEPT ![w] = @ \cup Owed]
          /\ r \in Owed <=> Taken(r)
      BY <2>2, <3>1, SettlingFailed DEF Taken
    <3> QED  BY <3>2 DEF Undeclared, LossTypes
  <2> QED  BY <2>1, <2>2
<1>7. Somewhere(r)'  BY <1>3, <1>4, <1>6 DEF Somewhere
<1>8. ASSUME r \notin doubted' PROVE NotTwice(r)'
  <2>1. Apart(r) /\ OnceOnChain(r) /\ OnceQueued(r) /\ OnceTaken(r)
    BY <1>1, <1>3, <1>8, Once
  <2>2. Apart(r)'  BY <1>4, <1>5, <1>6, <2>1 DEF Apart
  <2> QED  BY <1>4, <1>5, <2>1, <2>2, OnceNext
<1> QED  BY <1>7, <1>8

(* No step loses a record or keeps it twice.                               *)
LEMMA PlaceStep ==
  ASSUME UnitTypes, QueueTypes, TodoTypes, LossTypes, ChainTypes, ScopeShape,
         WorkerShape, PlaceShape,
         [Next]_vars
  PROVE  PlaceShape'
<1>1. ASSUME NEW s \in Scopes, NEW size \in UnitSizes, SubmitTooLate(s, size) PROVE
     PlaceShape'
  BY <1>1, LosingPlaces
<1>2. ASSUME NEW s \in Scopes, NEW size \in UnitSizes, SubmitTooMuch(s, size) PROVE
     PlaceShape'
  BY <1>2, LosingPlaces
<1>3. ASSUME NEW s \in Scopes, NEW size \in UnitSizes, Submit(s, size) PROVE PlaceShape'
  BY <1>3, SubmittingPlaces
<1>4. ASSUME TakesQueued PROVE PlaceShape'
  BY <1>4, TakingQueuedPlaces
<1>5. ASSUME TakesPending PROVE PlaceShape'
  BY <1>5, TakingPendingPlaces
<1>6. ASSUME Appends PROVE PlaceShape'
  BY <1>6, AppendingPlaces
<1>7. ASSUME Raises PROVE PlaceShape'
  BY <1>7, RaisingPlaces
<1>8. ASSUME Settles PROVE PlaceShape'
  BY <1>8, SettlingPlaces
<1>9. ASSUME SettlesFailed PROVE PlaceShape'
  BY <1>9, SettlingPlaces
<1>10. CASE UNCHANGED <<units, queue, unit, pending, chain, doubted>>
  BY <1>10 DEF PlaceShape, RecordsOf, Somewhere, NotTwice, OnChain, Queued, InQueue, Taken,
     Undeclared
<1> QED
  BY <1>1, <1>2, <1>3, <1>4, <1>5, <1>6, <1>7, <1>8, <1>9, <1>10, Writers DEF Written

-----------------------------------------------------------------------------
(* The count of the queue.                                                 *)

(* A unit has as many records as it is long.                               *)
LEMMA UnitRecords ==
  ASSUME NEW n, NEW size \in Nat
  PROVE  LET R == {<<n, k>> : k \in 1..size} IN IsFiniteSet(R) /\ Cardinality(R) = size
<1> DEFINE R == {<<n, k>> : k \in 1..size}
           f == [k \in 1..size |-> <<n, k>>]
<1>1. f \in Bijection(1..size, R)
  <2>1. f \in [1..size -> R]  OBVIOUS
  <2>2. \A a, b \in 1..size : f[a] = f[b] => a = b  OBVIOUS
  <2>3. \A r \in R : \E k \in 1..size : f[k] = r  OBVIOUS
  <2> QED  BY <2>1, <2>2, <2>3, Fun_IsBij
<1>2. ExistsBijection(1..size, R)  BY <1>1 DEF ExistsBijection
<1>3. IsFiniteSet(1..size) /\ Cardinality(1..size) = size  BY FS_Interval
<1> HIDE DEF R, f
<1> QED  BY <1>2, <1>3, FS_Bijection DEF R

(* There are finitely many records in the queue.                           *)
LEMMA QueueIsFinite ==
  ASSUME UnitTypes, QueueTypes, ScopeShape
  PROVE  IsFiniteSet(QueuedRecords)
<1> DEFINE D == 1..Len(queue)
           F == [i \in D |-> RecordsOf(queue[i].number)]
           T == {RecordsOf(queue[i].number) : i \in D}
<1>1. DOMAIN queue = D /\ Len(queue) \in Nat  BY DEF QueueTypes
<1>2. IsFiniteSet(D)  BY <1>1, FS_Interval
<1>3. IsFiniteSet(T)
  <2>1. F \in [D -> T]  OBVIOUS
  <2>2. \A t \in T : \E i \in D : F[i] = t  OBVIOUS
  <2>3. F \in Surjection(D, T)  BY <2>1, <2>2, Fun_IsSurj
  <2> HIDE DEF D, F, T
  <2> QED  BY <1>2, <2>3, FS_Surjection
<1>4. ASSUME NEW i \in D PROVE IsFiniteSet(RecordsOf(queue[i].number))
  <2>1. PICK n : n = queue[i].number  OBVIOUS
  <2>2. units[n] = [scope |-> queue[i].scope, size |-> queue[i].size] /\ n \in DOMAIN units
    BY <1>1, <2>1 DEF ScopeShape
  <2>3. units[n] \in Unit  BY <2>2 DEF UnitTypes
  <2>4. units[n].size \in UnitSizes  BY <2>3 DEF Unit
  <2>5. units[n].size \in Nat  BY <2>4, Sizes
  <2> QED  BY <2>1, <2>5, UnitRecords DEF RecordsOf
<1>5. \A t \in T : IsFiniteSet(t)  BY <1>4
<1>6. QueuedRecords = UNION T  BY <1>1 DEF QueuedRecords
<1> HIDE DEF T
<1> QED  BY <1>3, <1>5, <1>6, FS_UNION

(* The queue is in order, whatever joins it.                               *)
LEMMA SubmittingInOrder ==
  ASSUME UnitTypes, QueueTypes, LossTypes, ScopeShape, QueueShape,
         NEW s \in Scopes, NEW size \in UnitSizes, Submit(s, size)
  PROVE  QueueShape'
<1>1. /\ DOMAIN queue' = 1..(Len(queue) + 1) /\ DOMAIN queue = 1..Len(queue)
      /\ \A i \in DOMAIN queue : queue'[i] = queue[i]
  BY Submitting
<1>2. queue'[Len(queue) + 1].number = Len(units) + 1
  <2>1. queue'[Len(queue) + 1] = [scope |-> s, number |-> Len(units) + 1, size |-> size,
                                  gap |-> pending[s]]
    BY Submitting
  <2> QED  BY <2>1
<1>3. Len(queue) \in Nat /\ Len(units) \in Nat /\ DOMAIN units = 1..Len(units)
  BY DEF QueueTypes, UnitTypes
<1>4. \A i \in DOMAIN queue : queue[i].number \in 1..Len(units)
  BY <1>3 DEF ScopeShape
<1>5. ASSUME NEW i \in DOMAIN queue', NEW j \in DOMAIN queue', i < j
      PROVE  queue'[i].number < queue'[j].number
  <2>1. i \in DOMAIN queue  BY <1>1, <1>3, <1>5
  <2>2. CASE j \in DOMAIN queue  BY <1>1, <1>5, <2>1, <2>2 DEF QueueShape
  <2>3. CASE j = Len(queue) + 1
    <3>1. queue'[i].number \in 1..Len(units) /\ queue'[j].number = Len(units) + 1
      BY <1>1, <1>2, <1>4, <2>1, <2>3
    <3> QED  BY <1>3, <3>1
  <2> QED  BY <1>1, <1>3, <2>2, <2>3
<1> QED  BY <1>5 DEF QueueShape

(* The records that join it are new, and as many as are counted.           *)
LEMMA SubmittingCount ==
  ASSUME UnitTypes, QueueTypes, LossTypes, ScopeShape, QueueIsBounded, queued \in Nat,
         [Next]_vars, NEW s \in Scopes, NEW size \in UnitSizes, Submit(s, size)
  PROVE  QueueIsBounded' /\ queued' \in Nat
<1>1. /\ DOMAIN queue' = 1..(Len(queue) + 1) /\ DOMAIN queue = 1..Len(queue)
      /\ \A i \in DOMAIN queue : queue'[i] = queue[i]
      /\ units'[Len(units) + 1] = [scope |-> s, size |-> size]
  BY Submitting
<1>2. queue'[Len(queue) + 1].number = Len(units) + 1
  <2>1. queue'[Len(queue) + 1] = [scope |-> s, number |-> Len(units) + 1, size |-> size,
                                  gap |-> pending[s]]
    BY Submitting
  <2> QED  BY <2>1
<1>3. Len(queue) \in Nat /\ Len(units) \in Nat /\ DOMAIN units = 1..Len(units)
  BY DEF QueueTypes, UnitTypes
<1>4. \A i \in DOMAIN queue : queue[i].number \in DOMAIN units
  BY DEF ScopeShape
<1>5. PICK m : m = Len(units) + 1  OBVIOUS
<1> DEFINE N == {<<m, k>> : k \in 1..size}
           Q == QueuedRecords
<1>6. size \in Nat  BY Sizes
<1>7. IsFiniteSet(N) /\ Cardinality(N) = size  BY <1>6, UnitRecords
<1>8. IsFiniteSet(Q)  BY QueueIsFinite
<1>9. QueuedRecords' = Q \cup N
  <2>1. RecordsOf(m)' = N
    <3>1. units'[m].size = size  BY <1>1, <1>5
    <3> QED  BY <3>1 DEF RecordsOf
  <2>2. \A i \in DOMAIN queue : (RecordsOf(queue[i].number))' = RecordsOf(queue[i].number)
    <3>1. ASSUME NEW i \in DOMAIN queue
          PROVE  (RecordsOf(queue[i].number))' = RecordsOf(queue[i].number)
      <4>1. PICK n \in DOMAIN units : n = queue[i].number  BY <1>4
      <4>2. RecordsOf(n)' = RecordsOf(n)  BY RecordsKept
      <4>3. n = queue'[i].number  BY <1>1, <4>1
      <4> QED  BY <4>1, <4>2, <4>3 DEF RecordsOf
    <3> QED  BY <3>1
  <2>3. PICK l : l = Len(queue) + 1  OBVIOUS
  <2>4. (RecordsOf(queue[l].number))' = N
    <3>1. queue'[l].number = m  BY <1>2, <1>5, <2>3
    <3> QED  BY <2>1, <3>1 DEF RecordsOf
  <2>5. DOMAIN queue' = (DOMAIN queue) \cup {l}  BY <1>1, <1>3, <2>3
  <2> HIDE DEF N
  <2>6. QueuedRecords' = UNION {(RecordsOf(queue[i].number))' : i \in (DOMAIN queue) \cup {l}}
    BY <2>5 DEF QueuedRecords
  <2>7. ASSUME NEW r PROVE r \in QueuedRecords' <=> r \in Q \/ r \in N
    <3>1. r \in QueuedRecords' <=> \E i \in (DOMAIN queue) \cup {l} : r \in (RecordsOf(queue[i].number))'
      BY <2>6
    <3>2. r \in Q <=> \E i \in DOMAIN queue : r \in RecordsOf(queue[i].number)
      BY DEF QueuedRecords
    <3> QED  BY <2>2, <2>4, <3>1, <3>2
  <2> QED  BY <2>7
<1>10. Q \cap N = {}
  <2>1. \A r \in Q : r[1] \in DOMAIN units
    BY <1>4 DEF QueuedRecords, RecordsOf
  <2>2. \A r \in N : r[1] = m  OBVIOUS
  <2>3. m \notin DOMAIN units  BY <1>3, <1>5
  <2> HIDE DEF N, Q
  <2> QED  BY <2>1, <2>2, <2>3
<1>11. Cardinality(Q \cup N) = Cardinality(Q) + size
  <2> HIDE DEF N, Q
  <2>1. Cardinality(Q \cup N) = Cardinality(Q) + Cardinality(N) - Cardinality(Q \cap N)
    BY <1>7, <1>8, FS_Union
  <2>2. Cardinality(Q \cap N) = 0  BY <1>10, FS_EmptySet
  <2>3. Cardinality(Q) \in Nat  BY <1>8, FS_CardinalityType
  <2> QED  BY <1>6, <1>7, <2>1, <2>2, <2>3
<1>12. queued' = queued + size /\ queued + size <= QueueCapacity
  <2>1. QueueCapacity \in Nat  BY EmitterAssumption
  <2>2. queued' = queued + size /\ ~ (queued + size > QueueCapacity)
    BY DEF Submit, Overflows
  <2> QED  BY <1>6, <2>1, <2>2
<1>13. queued = Cardinality(Q)  BY DEF QueueIsBounded
<1> HIDE DEF N, Q
<1>14. queued' = Cardinality(QueuedRecords')  BY <1>9, <1>11, <1>12, <1>13
<1> QED  BY <1>6, <1>12, <1>14 DEF QueueIsBounded

(* What leaves it is the first unit, counted as it was submitted.          *)
LEMMA TakingCount ==
  ASSUME UnitTypes, QueueTypes, ScopeShape, QueueShape, QueueIsBounded, queued \in Nat,
         [Next]_vars, TakesQueued
  PROVE  QueueIsBounded' /\ queued' \in Nat /\ QueueShape'
<1>1. PICK u \in InQueueRecord :
        /\ 1 \in DOMAIN queue /\ u = queue[1] /\ DOMAIN queue = 1..Len(queue)
        /\ Len(queue) \in Nat \ {0} /\ DOMAIN queue' = 1..(Len(queue) - 1)
        /\ \A i \in DOMAIN queue' : i + 1 \in DOMAIN queue /\ queue'[i] = queue[i + 1]
        /\ \A i \in DOMAIN queue : i # 1 => i - 1 \in DOMAIN queue'
        /\ queued' = queued - u.size
        /\ UNCHANGED units
  BY TakingQueued
<1>2. \A i \in DOMAIN queue' : i \in Nat /\ i + 1 > 1  BY <1>1
<1>3. QueueShape'
  <2>1. ASSUME NEW i \in DOMAIN queue', NEW j \in DOMAIN queue', i < j
        PROVE  queue'[i].number < queue'[j].number
    <3>1. i + 1 < j + 1  BY <1>2, <2>1
    <3>2. queue[i + 1].number < queue[j + 1].number  BY <1>1, <3>1 DEF QueueShape
    <3> QED  BY <1>1, <3>2
  <2> QED  BY <2>1 DEF QueueShape
<1>4. /\ u.number \in DOMAIN units /\ units[u.number].size = u.size
  <2>1. u.number \in DOMAIN units /\ units[u.number] = [scope |-> u.scope, size |-> u.size]
    BY <1>1 DEF ScopeShape
  <2> QED  BY <2>1
<1> DEFINE N == {<<u.number, k>> : k \in 1..u.size}
           Q == QueuedRecords
<1>5. u.size \in Nat
  <2>1. u.size \in UnitSizes  BY DEF InQueueRecord
  <2> QED  BY <2>1, Sizes
<1>6. IsFiniteSet(N) /\ Cardinality(N) = u.size  BY <1>5, UnitRecords
<1>7. IsFiniteSet(Q)  BY QueueIsFinite
<1>8. RecordsOf(u.number) = N  BY <1>4 DEF RecordsOf
<1>9. N \subseteq Q  BY <1>1, <1>8 DEF QueuedRecords
<1>10. QueuedRecords' = Q \ N
  <2>1. ASSUME NEW r
        PROVE  r \in QueuedRecords' <=> \E i \in DOMAIN queue' : r \in RecordsOf(queue[i + 1].number)
    <3>1. r \in QueuedRecords' <=> \E i \in DOMAIN queue' : r \in (RecordsOf(queue[i].number))'
      BY DEF QueuedRecords
    <3>2. ASSUME NEW i \in DOMAIN queue'
          PROVE  (RecordsOf(queue[i].number))' = RecordsOf(queue[i + 1].number)
      BY <1>1 DEF RecordsOf
    <3> QED  BY <3>1, <3>2
  <2> HIDE DEF N
  <2>2. ASSUME NEW r, NEW i \in DOMAIN queue', r \in RecordsOf(queue[i + 1].number)
        PROVE  r \in Q /\ r \notin N
    <3>1. i + 1 \in DOMAIN queue /\ i + 1 > 1  BY <1>1, <1>2
    <3>2. r \in Q  BY <2>2, <3>1 DEF QueuedRecords
    <3>3. queue[1].number < queue[i + 1].number  BY <1>1, <3>1 DEF QueueShape
    <3>4. r[1] = queue[i + 1].number  BY <2>2, NumberOf
    <3>5. \A x \in N : x[1] = queue[1].number  BY <1>1 DEF N
    <3>6. queue[1].number \in Nat  BY <1>1, <1>4 DEF UnitTypes
    <3>7. r[1] # queue[1].number  BY <3>3, <3>4, <3>6
    <3> QED  BY <3>2, <3>5, <3>7
  <2>3. ASSUME NEW r, r \in Q, r \notin N
        PROVE  \E i \in DOMAIN queue' : r \in RecordsOf(queue[i + 1].number)
    <3>1. PICK i \in DOMAIN queue : r \in RecordsOf(queue[i].number)
      BY <2>3 DEF QueuedRecords
    <3>2. i # 1  BY <1>1, <1>8, <2>3, <3>1
    <3>3. i - 1 \in DOMAIN queue' /\ (i - 1) + 1 = i  BY <1>1, <3>2
    <3>4. PICK j \in DOMAIN queue' : j + 1 = i  BY <3>3
    <3> QED  BY <3>1, <3>4
  <2> QED  BY <2>1, <2>2, <2>3
<1>11. queued = Cardinality(Q) /\ queued <= QueueCapacity  BY DEF QueueIsBounded
<1> HIDE DEF N, Q
<1>12. Cardinality(Q \ N) = Cardinality(Q) - Cardinality(Q \cap N)
  BY <1>7, FS_Difference
<1>13. Q \cap N = N  BY <1>9
<1>14. Cardinality(Q \ N) = queued - u.size  BY <1>6, <1>11, <1>12, <1>13
<1>15. Cardinality(Q \ N) \in Nat
  <2>1. IsFiniteSet(Q \ N)  BY <1>7, FS_Difference
  <2> QED  BY <2>1, FS_CardinalityType
<1>16. queued' = Cardinality(QueuedRecords')  BY <1>1, <1>10, <1>14
<1>17. queued' \in Nat  BY <1>10, <1>15, <1>16
<1>18. queued' <= QueueCapacity
  <2>1. QueueCapacity \in Nat  BY EmitterAssumption
  <2> QED  BY <1>1, <1>5, <1>11, <2>1
<1> QED  BY <1>3, <1>16, <1>17, <1>18 DEF QueueIsBounded

(* The queue is in order, and counted.                                     *)
LEMMA CountStep ==
  ASSUME UnitTypes, QueueTypes, LossTypes, ScopeShape, QueueShape, QueueIsBounded,
         queued \in Nat, [Next]_vars
  PROVE  QueueIsBounded' /\ queued' \in Nat /\ QueueShape'
<1>1. ASSUME NEW s \in Scopes, NEW size \in UnitSizes, Submit(s, size)
      PROVE  QueueIsBounded' /\ queued' \in Nat /\ QueueShape'
  BY <1>1, SubmittingCount, SubmittingInOrder
<1>2. CASE TakesQueued  BY <1>2, TakingCount
<1>3. CASE UNCHANGED <<queue, queued>>
  <2>1. QueueShape'  BY <1>3 DEF QueueShape
  <2>2. ASSUME NEW i \in DOMAIN queue
        PROVE  (RecordsOf(queue[i].number))' = RecordsOf(queue[i].number)
    <3>1. PICK n \in DOMAIN units : n = queue[i].number  BY DEF ScopeShape
    <3>2. RecordsOf(n)' = RecordsOf(n)  BY RecordsKept
    <3>3. n = queue'[i].number  BY <1>3, <3>1
    <3> QED  BY <3>1, <3>2, <3>3 DEF RecordsOf
  <2>3. QueuedRecords' = QueuedRecords
    <3>1. QueuedRecords' = UNION {(RecordsOf(queue[i].number))' : i \in DOMAIN queue}
      BY <1>3 DEF QueuedRecords
    <3> QED  BY <2>2, <3>1 DEF QueuedRecords
  <2> QED  BY <1>3, <2>1, <2>3 DEF QueueIsBounded
<1> QED  BY <1>1, <1>2, <1>3, Writers DEF Written

-----------------------------------------------------------------------------
(* What a flush and a close answer.                                        *)

(* What is on the chain stays there.                                       *)
LEMMA RecordedKept ==
  ASSUME UnitTypes, TodoTypes, ChainTypes, [Next]_vars, NEW n \in DOMAIN units, Recorded(n)
  PROVE  Recorded(n)'
<1>1. units'[n] = units[n] /\ RecordsOf(n)' = RecordsOf(n)  BY UnitsKept, RecordsKept
<1>2. PICK s \in Scopes : s = units[n].scope
  <2>1. units[n] \in Unit  BY DEF UnitTypes
  <2> QED  BY <2>1 DEF Unit
<1>3. DOMAIN chain[s] \subseteq DOMAIN chain'[s] /\ \A i \in DOMAIN chain[s] : chain'[s][i] = chain[s][i]
  <2>1. CASE UNCHANGED chain  BY <2>1
  <2>2. CASE Lands /\ unit.todo # <<>>  BY <2>2, Landing
  <2>3. UNCHANGED chain \/ (Lands /\ unit.todo # <<>>)
    BY Writers, Appending, Raising DEF Written
  <2> QED  BY <2>1, <2>2, <2>3
<1>4. \A r \in RecordsOf(n) : \E i \in DOMAIN chain[s] : r \in chain[s][i].of
  BY <1>2 DEF Recorded
<1>5. \A r \in RecordsOf(n)' : \E i \in DOMAIN chain'[s] : r \in chain'[s][i].of
  BY <1>1, <1>3, <1>4
<1>6. s = units'[n].scope  BY <1>1, <1>2
<1> QED  BY <1>5, <1>6 DEF Recorded

(* When the worker finds no unit and a scope has no losses, all of its     *)
(* records are on the chain.                                               *)
LEMMA AllRecorded ==
  ASSUME UnitTypes, QueueTypes, TodoTypes, ScopeShape, WorkerShape, PlaceShape,
         worker.pc = "look", queue = <<>>, NEW s \in Scopes, pending[s] = {},
         NEW n \in DOMAIN units, units[n].scope = s
  PROVE  Recorded(n)
<1>1. \A w \in Scopes, r \in RecordsOf(n) : r \in RecordsIn(w) => w = s
  <2>1. ASSUME NEW w \in Scopes, NEW r \in RecordsOf(n), r \in RecordsIn(w) PROVE w = s
    <3>1. PICK m \in DOMAIN units, k \in Nat : r = <<m, k>> /\ units[m].scope = w
      BY <2>1, Belongs
    <3>2. r[1] = n  BY NumberOf
    <3> QED  BY <3>1, <3>2
  <2> QED  BY <2>1
<1>2. ASSUME NEW r \in RecordsOf(n) PROVE \E i \in DOMAIN chain[s] : r \in chain[s][i].of
  <2>1. Somewhere(r)  BY DEF PlaceShape
  <2>2. ~ Taken(r) /\ ~ Queued(r)  BY DEF WorkerShape, Taken, Queued
  <2>3. ~ Undeclared(r)  BY <1>1 DEF Undeclared, ScopeShape
  <2>4. PICK w \in Scopes : \E i \in DOMAIN chain[w] : r \in chain[w][i].of
    BY <2>1, <2>2, <2>3 DEF Somewhere, OnChain
  <2>5. w = s  BY <1>1, <2>4 DEF ScopeShape
  <2> QED  BY <2>4, <2>5
<1> QED  BY <1>2 DEF Recorded

(* What a flush that was completed has seen recorded.                      *)
Told(t) ==
  /\ flush[t].before <= Len(units)
  /\ flush[t].pc = "true" \/ (Waiting(t) /\ flush[t].done) =>
       \A n \in 1..flush[t].before : units[n].scope = flush[t].scope => Recorded(n)

FlushTold == \A t \in Threads : Told(t)

CloseTold ==
  /\ close.before <= Len(units)
  /\ close.pc = "flush" /\ flush[Closer].pc # "false" =>
       \A n \in 1..close.before :
         \/ Recorded(n) \/ units[n].scope \in close.left
         \/ /\ Waiting(Closer) /\ flush[Closer].scope = units[n].scope
            /\ close.before <= flush[Closer].before
  /\ close.pc \in {"join", "true"} /\ close.flushed => \A n \in 1..close.before : Recorded(n)
  /\ close.pc = "true" => close.flushed

(* The two make up what is told.                                           *)
LEMMA Tells == FlushShape <=> FlushTold /\ CloseTold
BY DEF FlushShape, FlushTold, Told, CloseTold

(* What was told of the units before stays true.                           *)
LEMMA ToldStays ==
  ASSUME UnitTypes, TodoTypes, ChainTypes, [Next]_vars, NEW b \in Nat, b <= Len(units)
  PROVE  /\ b <= Len(units')
         /\ \A n \in 1..b : /\ n \in DOMAIN units /\ units'[n] = units[n]
                            /\ Recorded(n) => Recorded(n)'
<1>1. Len(units) \in Nat /\ DOMAIN units = 1..Len(units) /\ Len(units) <= Len(units')
  BY UnitsKept DEF UnitTypes
<1>2. Len(units') \in Nat  BY UnitStep DEF UnitTypes
<1>3. \A n \in 1..b : n \in DOMAIN units  BY <1>1
<1> QED  BY <1>1, <1>2, <1>3, UnitsKept, RecordedKept

(* A flush that nothing happens to.                                        *)
LEMMA ToldUntouched ==
  ASSUME UnitTypes, TodoTypes, ChainTypes, FlushTypes, FlushTold, [Next]_vars,
         NEW t \in Threads, flush'[t] = flush[t]
  PROVE  Told(t)'
<1>1. PICK b : b = flush[t].before  OBVIOUS
<1>2. b \in Nat /\ b <= Len(units)
  <2>1. flush[t] \in Waiter  BY DEF FlushTypes
  <2>2. b \in 0..MaxUnits  BY <1>1, <2>1 DEF Waiter
  <2>3. b \in Nat  BY <2>2, EmitterAssumption
  <2> QED  BY <1>1, <2>3 DEF FlushTold, Told
<1>3. b <= Len(units') /\ \A n \in 1..b : /\ n \in DOMAIN units /\ units'[n] = units[n]
                                          /\ Recorded(n) => Recorded(n)'
  BY <1>2, ToldStays
<1>4. ASSUME flush'[t].pc = "true" \/ (Waiting(t)' /\ flush'[t].done),
             NEW n \in 1..b, units'[n].scope = flush'[t].scope
      PROVE  Recorded(n)'
  <2>1. flush[t].pc = "true" \/ (Waiting(t) /\ flush[t].done)  BY <1>4 DEF Waiting
  <2>2. units[n].scope = flush[t].scope  BY <1>3, <1>4
  <2>3. Recorded(n)  BY <1>1, <1>4, <2>1, <2>2 DEF FlushTold, Told
  <2> QED  BY <1>3, <2>3
<1>5. b = flush'[t].before  BY <1>1
<1> QED  BY <1>3, <1>4, <1>5 DEF Told

(* The worker completes the flushes of scopes without losses.              *)
LEMMA Completing ==
  ASSUME UnitTypes, QueueTypes, LossTypes, TodoTypes, ChainTypes, FlushTypes,
         ScopeShape, WorkerShape, PlaceShape, FlushTold, [Next]_vars,
         NEW S, \A s \in S \cap Scopes : pending[s] = {}, Complete(S),
         worker.pc = "look", queue = <<>>
  PROVE  FlushTold'
<1>1. ASSUME NEW t \in Threads PROVE Told(t)'
  <2>1. flush' = [x \in Threads |-> IF Waiting(x) /\ flush[x].scope \in S
                                    THEN [flush[x] EXCEPT !.done = TRUE] ELSE flush[x]]
    BY DEF Complete
  <2>2. CASE ~ (Waiting(t) /\ flush[t].scope \in S)
    <3>1. flush'[t] = flush[t]  BY <2>1, <2>2
    <3> QED  BY <3>1, ToldUntouched
  <2>3. CASE Waiting(t) /\ flush[t].scope \in S
    <3>1. flush[t] \in Waiter  BY DEF FlushTypes
    <3>2. /\ flush'[t].before = flush[t].before /\ flush'[t].scope = flush[t].scope
      BY <2>1, <2>3, <3>1 DEF Waiter
    <3>3. PICK b : b = flush[t].before  OBVIOUS
    <3>4. b \in 0..MaxUnits  BY <3>1, <3>3 DEF Waiter
    <3>5. b \in Nat /\ b <= Len(units)
      <4>1. b \in Nat  BY <3>4, EmitterAssumption
      <4> QED  BY <3>3, <4>1 DEF FlushTold, Told
    <3>6. b <= Len(units') /\ \A n \in 1..b : /\ n \in DOMAIN units /\ units'[n] = units[n]
                                              /\ Recorded(n) => Recorded(n)'
      BY <3>5, ToldStays
    <3>7. PICK s \in Scopes : s = flush[t].scope  BY <3>1 DEF Waiter
    <3>8. pending[s] = {}  BY <2>3, <3>7
    <3>9. ASSUME NEW n \in 1..b, units'[n].scope = s PROVE Recorded(n)'
      <4>1. n \in DOMAIN units /\ units[n].scope = s  BY <3>6, <3>9
      <4>2. Recorded(n)  BY <3>8, <4>1, AllRecorded
      <4> QED  BY <3>6, <4>2
    <3> QED  BY <3>2, <3>3, <3>6, <3>7, <3>9 DEF Told
  <2> QED  BY <2>2, <2>3
<1> QED  BY <1>1 DEF FlushTold

(* A flush that is asked for, returns or gives up.                         *)
LEMMA Asking ==
  ASSUME UnitTypes, TodoTypes, ChainTypes, FlushTypes, FlushTold, [Next]_vars, UNCHANGED units,
         NEW t \in Threads, NEW s, Request(t, s)
  PROVE  FlushTold'
<1>1. /\ flush'[t] = [pc |-> "waiting", scope |-> s, done |-> FALSE, before |-> Len(units)]
      /\ \A x \in Threads : x # t => flush'[x] = flush[x]
  BY DEF Request, FlushTypes
<1>2. Told(t)'
  <2>1. flush'[t].pc = "waiting" /\ flush'[t].done = FALSE /\ flush'[t].before = Len(units)
    BY <1>1
  <2>2. Len(units') = Len(units) /\ Len(units) \in Nat  BY DEF UnitTypes
  <2>3. flush'[t].before <= Len(units')  BY <2>1, <2>2
  <2>4. ~ (flush'[t].pc = "true" \/ (Waiting(t)' /\ flush'[t].done))  BY <2>1
  <2> QED  BY <2>3, <2>4 DEF Told
<1>3. \A x \in Threads : x # t => Told(x)'  BY <1>1, ToldUntouched
<1> QED  BY <1>2, <1>3 DEF FlushTold

(* A flush is completed over what is recorded.                             *)
LEMMA FlushToldStep ==
  ASSUME UnitTypes, QueueTypes, LossTypes, TodoTypes, ChainTypes, CloseTypes,
         FlushTypes, ScopeShape, WorkerShape, PlaceShape, FlushTold,
         [Next]_vars
  PROVE  FlushTold'
<1>1. ASSUME NEW s \in Scopes, NEW size \in UnitSizes, SubmitTooLate(s, size) PROVE
     FlushTold'
  <2>1. UNCHANGED flush  BY <1>1, Losing
  <2> QED  BY <2>1, ToldUntouched DEF FlushTold
<1>2. ASSUME NEW s \in Scopes, NEW size \in UnitSizes, SubmitTooMuch(s, size) PROVE
     FlushTold'
  <2>1. UNCHANGED flush  BY <1>2, Losing
  <2> QED  BY <2>1, ToldUntouched DEF FlushTold
<1>3. ASSUME NEW s \in Scopes, NEW size \in UnitSizes, Submit(s, size) PROVE FlushTold'
  <2>1. UNCHANGED flush  BY <1>3, Submitting
  <2> QED  BY <2>1, ToldUntouched DEF FlushTold
<1>4. ASSUME TakesPending PROVE FlushTold'
  <2>1. PICK s \in Scopes : /\ Complete({x \in Considered \ Lossy : x < s})
                            /\ worker.pc = "look" /\ queue = <<>>
    BY <1>4, TakingPending
  <2>2. \A x \in {y \in Considered \ Lossy : y < s} \cap Scopes : pending[x] = {}
    BY DEF Lossy
  <2> QED  BY <2>1, <2>2, Completing
<1>5. ASSUME FindsNothing PROVE FlushTold'
  <2>1. Complete(Considered \ Lossy) /\ worker.pc = "look" /\ queue = <<>>
    BY <1>5 DEF FindsNothing
  <2>2. \A x \in (Considered \ Lossy) \cap Scopes : pending[x] = {}
    BY DEF Lossy
  <2> QED  BY <2>1, <2>2, Completing
<1>6. ASSUME Appends PROVE FlushTold'
  <2>1. UNCHANGED flush  BY <1>6, Appending
  <2> QED  BY <2>1, ToldUntouched DEF FlushTold
<1>7. ASSUME Raises PROVE FlushTold'
  <2>1. UNCHANGED flush  BY <1>7, Raising
  <2> QED  BY <2>1, ToldUntouched DEF FlushTold
<1>8. ASSUME NEW f \in Flushers, NEW s \in Scopes, FlushBegins(f, s) PROVE FlushTold'
  <2>1. f \in Threads /\ Request(f, s) /\ UNCHANGED units  BY <1>8 DEF FlushBegins, Threads
  <2> QED  BY <2>1, Asking
<1>9. ASSUME NEW t \in Threads, FlushReturns(t) PROVE FlushTold'
  <2>1. /\ Waiting(t) /\ flush[t].done /\ UNCHANGED <<units, chain>>
        /\ flush' = [flush EXCEPT ![t].pc = "true"]
    BY <1>9 DEF FlushReturns, storeVars
  <2>2. \A x \in Threads : x # t => flush'[x] = flush[x]  BY <2>1 DEF FlushTypes
  <2>3. /\ flush'[t].before = flush[t].before /\ flush'[t].scope = flush[t].scope
    BY <2>1 DEF FlushTypes, Waiter
  <2>4. Told(t)  BY DEF FlushTold
  <2>5. \A n : Recorded(n)' <=> Recorded(n)  BY <2>1 DEF Recorded, RecordsOf
  <2>6. Told(t)'  BY <2>1, <2>3, <2>4, <2>5 DEF Told
  <2>7. \A x \in Threads : x # t => Told(x)'  BY <2>2, ToldUntouched
  <2> QED  BY <2>6, <2>7 DEF FlushTold
<1>10. ASSUME NEW t \in Threads, FlushTimesOut(t) PROVE FlushTold'
  <2>1. /\ flush' = [flush EXCEPT ![t] = [AtRest EXCEPT !.pc = "false"]]
        /\ UNCHANGED units
    BY <1>10 DEF FlushTimesOut
  <2>2. \A x \in Threads : x # t => flush'[x] = flush[x]  BY <2>1 DEF FlushTypes
  <2>3. flush'[t].before = 0 /\ flush'[t].pc = "false"
    BY <2>1 DEF FlushTypes, AtRest
  <2>4. Len(units') \in Nat  BY UnitStep DEF UnitTypes
  <2>5. Told(t)'  BY <2>3, <2>4 DEF Told, Waiting
  <2>6. \A x \in Threads : x # t => Told(x)'  BY <2>2, ToldUntouched
  <2> QED  BY <2>5, <2>6 DEF FlushTold
<1>11. ASSUME CloseFlushes PROVE FlushTold'
  <2>1. PICK s : s = Min(close.left)  OBVIOUS
  <2>2. Closer \in Threads /\ Request(Closer, s) /\ UNCHANGED units
    BY <1>11, <2>1 DEF CloseFlushes, Threads
  <2> QED  BY <2>2, Asking
<1>12. CASE UNCHANGED <<units, flush, chain>>
  BY <1>12, ToldUntouched DEF FlushTold
<1> QED
  BY <1>1, <1>2, <1>3, <1>4, <1>5, <1>6, <1>7, <1>8, <1>9, <1>10, <1>11, <1>12, Writers
     DEF Written


(* What the close has seen, when it has not moved and its flush is still   *)
(* asked for, or was refused.                                              *)
LEMMA CloseUntouched ==
  ASSUME UnitTypes, TodoTypes, ChainTypes, FlushTypes, CloseTypes, CloseTold, [Next]_vars,
         UNCHANGED close,
         \/ flush'[Closer].pc = "false"
         \/ /\ flush'[Closer].pc = flush[Closer].pc
            /\ flush'[Closer].scope = flush[Closer].scope
            /\ flush'[Closer].before = flush[Closer].before
  PROVE  CloseTold'
<1>1. PICK b \in Nat : b = close.before /\ b = close'.before
  <2>1. close.before \in 0..MaxUnits  BY DEF CloseTypes
  <2>2. close.before \in Nat  BY <2>1, EmitterAssumption
  <2> QED  BY <2>2
<1>2. b <= Len(units') /\ \A n \in 1..b : /\ n \in DOMAIN units /\ units'[n] = units[n]
                                          /\ Recorded(n) => Recorded(n)'
  <2>1. b <= Len(units)  BY <1>1 DEF CloseTold
  <2> QED  BY <2>1, ToldStays
<1>3. ASSUME close'.pc = "flush", flush'[Closer].pc # "false", NEW n \in 1..b
      PROVE  \/ Recorded(n)' \/ units'[n].scope \in close'.left
             \/ /\ Waiting(Closer)' /\ flush'[Closer].scope = units'[n].scope
                /\ b <= flush'[Closer].before
  <2>1. \/ Recorded(n) \/ units[n].scope \in close.left
        \/ /\ Waiting(Closer) /\ flush[Closer].scope = units[n].scope
           /\ b <= flush[Closer].before
    BY <1>1, <1>3 DEF CloseTold
  <2> QED  BY <1>2, <1>3, <2>1 DEF Waiting
<1>4. ASSUME close'.pc \in {"join", "true"}, close'.flushed, NEW n \in 1..b PROVE Recorded(n)'
  <2>1. Recorded(n)  BY <1>1, <1>4 DEF CloseTold
  <2> QED  BY <1>2, <2>1
<1>5. close'.pc = "true" => close'.flushed  BY DEF CloseTold
<1> QED  BY <1>1, <1>2, <1>3, <1>4, <1>5 DEF CloseTold

(* A close has flushed scope by scope when it says so.                     *)
LEMMA CloseToldStep ==
  ASSUME UnitTypes, TodoTypes, LossTypes, ChainTypes, FlushTypes, CloseTypes, QueueTypes,
         FlushTold, CloseTold,
         [Next]_vars
  PROVE  CloseTold'
<1>1. ASSUME NEW s \in Scopes, NEW size \in UnitSizes, SubmitTooLate(s, size) PROVE
     CloseTold'
  <2>1. UNCHANGED <<flush, close>>  BY <1>1, Losing
  <2> QED  BY <2>1, CloseUntouched
<1>2. ASSUME NEW s \in Scopes, NEW size \in UnitSizes, SubmitTooMuch(s, size) PROVE
     CloseTold'
  <2>1. UNCHANGED <<flush, close>>  BY <1>2, Losing
  <2> QED  BY <2>1, CloseUntouched
<1>3. ASSUME NEW s \in Scopes, NEW size \in UnitSizes, Submit(s, size) PROVE CloseTold'
  <2>1. UNCHANGED <<flush, close>>  BY <1>3, Submitting
  <2> QED  BY <2>1, CloseUntouched
<1>4. ASSUME TakesPending PROVE CloseTold'
  <2>1. (\E S : Complete(S)) /\ UNCHANGED close
    BY <1>4 DEF TakesPending
  <2>2. \A x \in Threads : /\ flush'[x].pc = flush[x].pc /\ flush'[x].scope = flush[x].scope
                           /\ flush'[x].before = flush[x].before
    BY <2>1 DEF Complete, FlushTypes, Waiter
  <2> QED  BY <2>1, <2>2, CloseUntouched DEF Threads
<1>5. ASSUME FindsNothing PROVE CloseTold'
  <2>1. (\E S : Complete(S)) /\ UNCHANGED close
    BY <1>5 DEF FindsNothing
  <2>2. \A x \in Threads : /\ flush'[x].pc = flush[x].pc /\ flush'[x].scope = flush[x].scope
                           /\ flush'[x].before = flush[x].before
    BY <2>1 DEF Complete, FlushTypes, Waiter
  <2> QED  BY <2>1, <2>2, CloseUntouched DEF Threads
<1>6. ASSUME Appends PROVE CloseTold'
  <2>1. UNCHANGED <<flush, close>>  BY <1>6, Appending
  <2> QED  BY <2>1, CloseUntouched
<1>7. ASSUME Raises PROVE CloseTold'
  <2>1. UNCHANGED <<flush, close>>  BY <1>7, Raising
  <2> QED  BY <2>1, CloseUntouched
<1>8. ASSUME NEW f \in Flushers, NEW s \in Scopes, FlushBegins(f, s) PROVE CloseTold'
  <2>1. f # Closer  BY EmitterAssumption
  <2>2. flush'[Closer] = flush[Closer] /\ UNCHANGED close
    BY <1>8, <2>1 DEF FlushBegins, Request, FlushTypes, Threads
  <2> QED  BY <2>2, CloseUntouched
<1>9. ASSUME NEW t \in Threads, FlushReturns(t) PROVE CloseTold'
  <2>1. /\ Waiting(t) /\ flush[t].done /\ UNCHANGED <<units, chain, close>>
        /\ flush' = [flush EXCEPT ![t].pc = "true"]
    BY <1>9 DEF FlushReturns, storeVars
  <2>2. CASE t # Closer
    <3>1. flush'[Closer] = flush[Closer]  BY <2>1, <2>2 DEF FlushTypes, Threads
    <3> QED  BY <2>1, <3>1, CloseUntouched
  <2>3. CASE t = Closer
    <3>1. \A n : Recorded(n)' <=> Recorded(n)  BY <2>1 DEF Recorded, RecordsOf
    <3>2. Told(Closer)  BY <2>3 DEF FlushTold
    <3>3. PICK b \in Nat : b = close.before
      <4>1. close.before \in 0..MaxUnits  BY DEF CloseTypes
      <4>2. close.before \in Nat  BY <4>1, EmitterAssumption
      <4> QED  BY <4>2
    <3>4. PICK e \in Nat : e = flush[Closer].before
      <4>1. flush[Closer] \in Waiter  BY DEF FlushTypes, Threads
      <4>2. flush[Closer].before \in 0..MaxUnits  BY <4>1 DEF Waiter
      <4>3. flush[Closer].before \in Nat  BY <4>2, EmitterAssumption
      <4> QED  BY <4>3
    <3>5. flush[Closer].pc = "waiting"  BY <2>1, <2>3 DEF Waiting
    <3>6. ASSUME close.pc = "flush", NEW n \in 1..b
          PROVE  Recorded(n) \/ units[n].scope \in close.left
      <4>1. \/ Recorded(n) \/ units[n].scope \in close.left
            \/ flush[Closer].scope = units[n].scope /\ b <= e
        BY <3>3, <3>4, <3>5, <3>6 DEF CloseTold
      <4>2. CASE flush[Closer].scope = units[n].scope /\ b <= e
        <5>1. n \in 1..e  BY <4>2
        <5> QED  BY <2>1, <2>3, <3>2, <3>4, <4>2, <5>1 DEF Told
      <4> QED  BY <4>1, <4>2
    <3> QED  BY <2>1, <3>1, <3>3, <3>6 DEF CloseTold
  <2> QED  BY <2>2, <2>3
<1>10. ASSUME NEW t \in Threads, FlushTimesOut(t) PROVE CloseTold'
  <2>1. /\ flush' = [flush EXCEPT ![t] = [AtRest EXCEPT !.pc = "false"]]
        /\ UNCHANGED close
    BY <1>10 DEF FlushTimesOut
  <2>2. CASE t # Closer
    <3>1. flush'[Closer] = flush[Closer]  BY <2>1, <2>2 DEF FlushTypes, Threads
    <3> QED  BY <2>1, <3>1, CloseUntouched
  <2>3. CASE t = Closer
    <3>1. flush'[Closer].pc = "false"  BY <2>1, <2>3 DEF FlushTypes, AtRest
    <3> QED  BY <2>1, <3>1, CloseUntouched
  <2> QED  BY <2>2, <2>3
<1>11. ASSUME CloseBegins PROVE CloseTold'
  <2>1. /\ close' = [pc |-> "flush", left |-> Held, flushed |-> TRUE, before |-> Len(units)]
        /\ UNCHANGED <<units, flush, chain>>
    BY <1>11 DEF CloseBegins, storeVars
  <2>2. /\ close'.pc = "flush" /\ close'.left = Held /\ close'.before = Len(units)
    BY <2>1
  <2>3. Len(units) \in Nat /\ Len(units') = Len(units) /\ DOMAIN units = 1..Len(units)
    BY <2>1 DEF UnitTypes
  <2>4. \A n \in 1..Len(units) : units[n].scope \in Held  BY <2>3 DEF Held
  <2> QED  BY <2>1, <2>2, <2>3, <2>4 DEF CloseTold
<1>12. ASSUME CloseRaises PROVE CloseTold'
  <2>1. /\ close' = [close EXCEPT !.pc = "raised"]
        /\ UNCHANGED <<units, flush, chain>>
    BY <1>12 DEF CloseRaises, storeVars
  <2>2. close'.pc = "raised" /\ close'.before = close.before  BY <2>1 DEF CloseTypes
  <2> QED  BY <2>1, <2>2 DEF CloseTold
<1>13. ASSUME CloseFlushes PROVE CloseTold'
  <2>1. PICK m : m = Min(close.left)  OBVIOUS
  <2>2. /\ close.pc = "flush" /\ flush[Closer].pc \in {"idle", "true"}
        /\ flush' = [flush EXCEPT ![Closer] = [pc |-> "waiting", scope |-> m, done |-> FALSE,
                                               before |-> Len(units)]]
        /\ close' = [close EXCEPT !.left = @ \ {m}]
        /\ UNCHANGED <<units, chain>>
    BY <1>13, <2>1 DEF CloseFlushes, Request, storeVars
  <2>3. /\ close'.pc = "flush" /\ close'.left = close.left \ {m} /\ close'.before = close.before
    BY <2>2 DEF CloseTypes
  <2>4. flush'[Closer] = [pc |-> "waiting", scope |-> m, done |-> FALSE, before |-> Len(units)]
    BY <2>2 DEF FlushTypes, Threads
  <2>5. /\ flush'[Closer].pc = "waiting" /\ flush'[Closer].scope = m
        /\ flush'[Closer].before = Len(units)
    BY <2>4
  <2>6. close.before <= Len(units)  BY DEF CloseTold
  <2>7. \A n : Recorded(n)' <=> Recorded(n)  BY <2>2 DEF Recorded, RecordsOf
  <2>8. \A n \in 1..close.before : Recorded(n) \/ units[n].scope \in close.left
    BY <2>2 DEF CloseTold, Waiting
  <2>9. ASSUME NEW n \in 1..close.before
        PROVE  \/ Recorded(n)' \/ units'[n].scope \in close'.left
               \/ /\ Waiting(Closer)' /\ flush'[Closer].scope = units'[n].scope
                  /\ close'.before <= flush'[Closer].before
    BY <2>2, <2>3, <2>5, <2>6, <2>7, <2>8 DEF Waiting
  <2> QED  BY <2>2, <2>3, <2>6, <2>9 DEF CloseTold
<1>14. ASSUME CloseMarks PROVE CloseTold'
  <2>1. /\ close.pc = "flush" /\ ~ Waiting(Closer)
        /\ flush[Closer].pc = "false" \/ close.left = {}
        /\ close' = [close EXCEPT !.pc = "join", !.flushed = flush[Closer].pc # "false"]
        /\ UNCHANGED <<units, flush, chain>>
    BY <1>14 DEF CloseMarks, storeVars
  <2>2. /\ close'.pc = "join" /\ close'.before = close.before
        /\ close'.flushed => flush[Closer].pc # "false"
    BY <2>1 DEF CloseTypes
  <2>3. \A n : Recorded(n)' <=> Recorded(n)  BY <2>1 DEF Recorded, RecordsOf
  <2>4. ASSUME flush[Closer].pc # "false", NEW n \in 1..close.before PROVE Recorded(n)
    BY <2>1, <2>4 DEF CloseTold
  <2> QED  BY <2>1, <2>2, <2>3, <2>4 DEF CloseTold
<1>15. ASSUME CloseJoins PROVE CloseTold'
  <2>1. /\ close.pc = "join" /\ UNCHANGED <<units, flush, chain>>
        /\ close' = [close EXCEPT !.pc = IF close.flushed /\ worker.pc = "gone"
                                         THEN "true" ELSE "false"]
    BY <1>15 DEF CloseJoins, storeVars
  <2>2. /\ close'.before = close.before /\ close'.flushed = close.flushed
        /\ close'.pc = "false" \/ (close'.pc = "true" /\ close.flushed)
    BY <2>1 DEF CloseTypes
  <2>3. \A n : Recorded(n)' <=> Recorded(n)  BY <2>1 DEF Recorded, RecordsOf
  <2> QED  BY <2>1, <2>2, <2>3 DEF CloseTold
<1>16. CASE UNCHANGED <<units, flush, chain, close>>
  BY <1>16, CloseUntouched
<1> QED
  BY <1>1, <1>2, <1>3, <1>4, <1>5, <1>6, <1>7, <1>8, <1>9, <1>10, <1>11, <1>12, <1>13,
     <1>14, <1>15, <1>16, Writers DEF Written

-----------------------------------------------------------------------------
(* The order of the pipeline, while the store accepts.                     *)

(* Nothing in the pipeline is newer than the last unit submitted.          *)
LEMMA Submitted ==
  ASSUME UnitTypes, QueueTypes, TodoTypes, ScopeShape
  PROVE  /\ \A s \in Scopes : \A r \in pending[s] : r[1] \in 1..Len(units)
         /\ \A s \in Scopes : \A i \in DOMAIN chain[s] : \A r \in chain[s][i].of : r[1] \in 1..Len(units)
         /\ \A i \in DOMAIN unit.todo : \A r \in unit.todo[i].of : r[1] \in 1..Len(units)
         /\ \A i \in DOMAIN queue : \A r \in QueuedAt(i) : r[1] \in 1..Len(units)
<1>0. DOMAIN units = 1..Len(units)  BY DEF UnitTypes
<1>1. \A s : \A r \in RecordsIn(s) : r[1] \in 1..Len(units)
  <2>1. ASSUME NEW s, NEW r \in RecordsIn(s) PROVE r[1] \in 1..Len(units)
    <3>1. PICK n \in DOMAIN units, k \in Nat : r = <<n, k>>  BY Belongs
    <3> QED  BY <1>0, <3>1
  <2> QED  BY <2>1
<1>2. \A i \in DOMAIN queue : \A r \in QueuedAt(i) : r[1] \in 1..Len(units)
  <2>1. ASSUME NEW i \in DOMAIN queue, NEW r \in QueuedAt(i) PROVE r[1] \in 1..Len(units)
    <3>1. CASE r \in queue[i].gap  BY <1>1, <3>1 DEF ScopeShape
    <3>2. CASE r \in RecordsOf(queue[i].number)
      <4>1. r[1] = queue[i].number  BY <3>2, NumberOf
      <4> QED  BY <1>0, <4>1 DEF ScopeShape
    <3> QED  BY <3>1, <3>2 DEF QueuedAt
  <2> QED  BY <2>1
<1> QED  BY <1>1, <1>2 DEF ScopeShape

(* What comes in last is behind everything.                                *)
LEMMA NewIsLast ==
  ASSUME NEW m \in Nat, NEW R, \A r \in R : r[1] \in 1..m, NEW P, Before(R, P),
         NEW N, \A r \in N : r[1] = m + 1
  PROVE  Before(R, P \cup N)
BY DEF Before

(* An empty set is before any, and any before it.                          *)
LEMMA EmptyIsLast == \A R : Before(R, {}) /\ Before({}, R)
BY DEF Before

(* The order when a loss is counted.                                       *)
LEMMA LosingOrder ==
  ASSUME UnitTypes, QueueTypes, TodoTypes, LossTypes, ScopeShape, Ordered, [Next]_vars,
         NEW s \in Scopes, NEW size \in UnitSizes,
         SubmitTooLate(s, size) \/ SubmitTooMuch(s, size)
  PROVE  Ordered'
<1>1. UNCHANGED <<queue, unit, chain>>  BY Losing
<1>2. pending' = [pending EXCEPT ![s] = @ \cup New(size)]  BY Losing, Zenon
<1>3. Len(units) \in Nat  BY DEF UnitTypes
<1>4. \A r \in New(size) : r[1] = Len(units) + 1  BY DEF New
<1>5. ASSUME NEW R, \A r \in R : r[1] \in 1..Len(units), NEW w \in Scopes, Before(R, pending[w])
      PROVE  Before(R, pending'[w])
  <2>1. Before(R, pending[w] \cup New(size))  BY <1>3, <1>4, <1>5, NewIsLast
  <2>2. pending'[w] = pending[w] \/ pending'[w] = pending[w] \cup New(size)
    BY <1>2 DEF LossTypes
  <2> QED  BY <1>5, <2>1, <2>2
<1>6. \A i \in DOMAIN queue : (QueuedAt(i))' = QueuedAt(i)
  <2>1. ASSUME NEW i \in DOMAIN queue PROVE (QueuedAt(i))' = QueuedAt(i)
    <3>1. PICK n \in DOMAIN units : n = queue[i].number  BY DEF ScopeShape
    <3>2. RecordsOf(n)' = RecordsOf(n)  BY RecordsKept
    <3>3. queue'[i] = queue[i]  BY <1>1
    <3> QED  BY <3>1, <3>2, <3>3 DEF QueuedAt, RecordsOf
  <2> QED  BY <2>1
<1>7. ChainOrder' /\ ChainThenTodo' /\ TodoOrder'
  BY <1>1 DEF Ordered, ChainOrder, ChainThenTodo, TodoOrder
<1>8. ChainThenQueue' /\ TodoThenQueue' /\ QueueOrder'
  BY <1>1, <1>6 DEF Ordered, ChainThenQueue, TodoThenQueue, QueueOrder
<1>9. ChainThenLoss'
  BY <1>1, <1>5, Submitted DEF Ordered, ChainThenLoss
<1>10. TodoThenLoss'
  <2>1. unit.scope \in Scopes  BY DEF TodoTypes
  <2> QED  BY <1>1, <1>5, <2>1, Submitted DEF Ordered, TodoThenLoss
<1>11. QueueThenLoss'
  <2>1. ASSUME NEW i \in DOMAIN queue PROVE Before(QueuedAt(i), pending'[queue[i].scope])
    <3>1. queue[i] \in InQueueRecord  BY DEF QueueTypes
    <3>2. queue[i].scope \in Scopes  BY <3>1 DEF InQueueRecord
    <3> QED  BY <1>5, <3>2, Submitted DEF Ordered, QueueThenLoss
  <2> QED  BY <1>1, <1>6, <2>1 DEF QueueThenLoss
<1> QED  BY <1>7, <1>8, <1>9, <1>10, <1>11 DEF Ordered

(* The order when a unit is queued: it is the newest, and its gap was      *)
(* behind the rest already.                                                *)
LEMMA SubmittingOrder ==
  ASSUME UnitTypes, QueueTypes, TodoTypes, LossTypes, ScopeShape, Ordered, [Next]_vars,
         NEW s \in Scopes, NEW size \in UnitSizes, Submit(s, size)
  PROVE  Ordered'
<1>1. UNCHANGED <<unit, chain>>  BY Submitting
<1>2. pending' = [pending EXCEPT ![s] = {}]  BY Submitting
<1>3. PICK m : m = Len(queue) + 1  OBVIOUS
<1>4. /\ DOMAIN queue' = (DOMAIN queue) \cup {m} /\ m \notin DOMAIN queue
      /\ \A i \in DOMAIN queue : queue'[i] = queue[i] /\ i \in Nat /\ i < m
      /\ queue'[m].number = Len(units) + 1 /\ queue'[m].gap = pending[s]
      /\ queue'[m].scope = s
  <2>1. Len(queue) \in Nat  BY DEF QueueTypes
  <2>2. DOMAIN queue' = 1..(Len(queue) + 1) /\ DOMAIN queue = 1..Len(queue)
    BY Submitting
  <2>3. queue'[Len(queue) + 1] = [scope |-> s, number |-> Len(units) + 1, size |-> size,
                                  gap |-> pending[s]]
    BY Submitting
  <2>4. \A i \in DOMAIN queue : queue'[i] = queue[i]  BY Submitting
  <2> QED  BY <1>3, <2>1, <2>2, <2>3, <2>4
<1>5. Len(units) \in Nat  BY DEF UnitTypes
<1>6. \A i \in DOMAIN queue : (QueuedAt(i))' = QueuedAt(i)
  <2>1. ASSUME NEW i \in DOMAIN queue PROVE (QueuedAt(i))' = QueuedAt(i)
    <3>1. PICK n \in DOMAIN units : n = queue[i].number  BY DEF ScopeShape
    <3>2. RecordsOf(n)' = RecordsOf(n)  BY RecordsKept
    <3>3. queue'[i] = queue[i]  BY <1>4
    <3> QED  BY <3>1, <3>2, <3>3 DEF QueuedAt, RecordsOf
  <2> QED  BY <2>1
<1>7. PICK N : (QueuedAt(m))' = pending[s] \cup N /\ \A r \in N : r[1] = Len(units) + 1
  <2>1. PICK n : n = Len(units) + 1  OBVIOUS
  <2>2. (QueuedAt(m))' = pending[s] \cup RecordsOf(n)'
    BY <1>4, <2>1 DEF QueuedAt, RecordsOf
  <2>3. \A r \in RecordsOf(n)' : r[1] = n  BY DEF RecordsOf
  <2> QED  BY <2>1, <2>2, <2>3
<1>8. ASSUME NEW R, \A r \in R : r[1] \in 1..Len(units), Before(R, pending[s])
      PROVE  Before(R, (QueuedAt(m))')
  <2>1. Before(R, pending[s] \cup N)  BY <1>5, <1>7, <1>8, NewIsLast
  <2> QED  BY <1>7, <2>1
<1>9. \A w \in Scopes : \A R : Before(R, pending[w]) => Before(R, pending'[w])
  BY <1>2, EmptyIsLast DEF LossTypes
<1>10. ChainOrder' /\ ChainThenTodo' /\ TodoOrder'
  BY <1>1 DEF Ordered, ChainOrder, ChainThenTodo, TodoOrder
<1>11. ChainThenQueue'
  <2>1. ASSUME NEW i \in DOMAIN chain[s] PROVE Before(chain[s][i].of, (QueuedAt(m))')
    BY <1>8, Submitted DEF Ordered, ChainThenLoss
  <2>2. ASSUME NEW w \in Scopes, NEW i \in DOMAIN chain[w], NEW j \in DOMAIN queue', queue'[j].scope = w
        PROVE  Before(chain[w][i].of, (QueuedAt(j))')
    <3>1. CASE j \in DOMAIN queue
      <4>1. queue[j].scope = w  BY <1>4, <2>2, <3>1
      <4>2. Before(chain[w][i].of, QueuedAt(j))  BY <3>1, <4>1 DEF Ordered, ChainThenQueue
      <4> QED  BY <1>6, <3>1, <4>2
    <3>2. CASE j = m  BY <1>4, <2>1, <2>2, <3>2
    <3> QED  BY <1>4, <3>1, <3>2
  <2> QED  BY <1>1, <2>2 DEF ChainThenQueue
<1>12. TodoThenQueue'
  <2>1. ASSUME NEW i \in DOMAIN unit.todo, NEW j \in DOMAIN queue', queue'[j].scope = unit.scope
        PROVE  Before(unit.todo[i].of, (QueuedAt(j))')
    <3>1. CASE j \in DOMAIN queue
      <4>1. queue[j].scope = unit.scope  BY <1>4, <2>1, <3>1
      <4>2. Before(unit.todo[i].of, QueuedAt(j))  BY <3>1, <4>1 DEF Ordered, TodoThenQueue
      <4> QED  BY <1>6, <3>1, <4>2
    <3>2. CASE j = m
      <4>1. Before(unit.todo[i].of, pending[s])  BY <1>4, <2>1, <3>2 DEF Ordered, TodoThenLoss
      <4> QED  BY <1>8, <3>2, <4>1, Submitted
    <3> QED  BY <1>4, <3>1, <3>2
  <2> QED  BY <1>1, <2>1 DEF TodoThenQueue
<1>13. QueueOrder'
  <2>1. ASSUME NEW i \in DOMAIN queue', NEW j \in DOMAIN queue', i < j,
               queue'[i].scope = queue'[j].scope
        PROVE  Before((QueuedAt(i))', (QueuedAt(j))')
    <3>1. CASE i \in DOMAIN queue /\ j \in DOMAIN queue
      <4>1. Before(QueuedAt(i), QueuedAt(j))  BY <1>4, <2>1, <3>1 DEF Ordered, QueueOrder
      <4> QED  BY <1>6, <3>1, <4>1
    <3>2. CASE i \in DOMAIN queue /\ j = m
      <4>1. Before(QueuedAt(i), pending[s])  BY <1>4, <2>1, <3>2 DEF Ordered, QueueThenLoss
      <4>2. Before(QueuedAt(i), (QueuedAt(m))')  BY <1>8, <3>2, <4>1, Submitted
      <4> QED  BY <1>6, <3>2, <4>2
    <3>3. ~ (i = m /\ j = m) /\ ~ (i = m /\ j \in DOMAIN queue)
      <4>1. m \in Nat  BY <1>3 DEF QueueTypes
      <4> QED  BY <1>4, <2>1, <4>1
    <3> QED  BY <1>4, <3>1, <3>2, <3>3
  <2> QED  BY <2>1 DEF QueueOrder
<1>14. ChainThenLoss'
  BY <1>1, <1>9 DEF Ordered, ChainThenLoss
<1>15. TodoThenLoss'
  <2>1. unit.scope \in Scopes  BY DEF TodoTypes
  <2> QED  BY <1>1, <1>9, <2>1 DEF Ordered, TodoThenLoss
<1>16. QueueThenLoss'
  <2>1. ASSUME NEW i \in DOMAIN queue' PROVE Before((QueuedAt(i))', pending'[queue'[i].scope])
    <3>1. CASE i \in DOMAIN queue
      <4>1. queue[i] \in InQueueRecord  BY <3>1 DEF QueueTypes
      <4>2. queue[i].scope \in Scopes  BY <4>1 DEF InQueueRecord
      <4>3. Before(QueuedAt(i), pending[queue[i].scope])  BY <3>1 DEF Ordered, QueueThenLoss
      <4>4. Before(QueuedAt(i), pending'[queue[i].scope])  BY <1>9, <4>2, <4>3
      <4> QED  BY <1>4, <1>6, <3>1, <4>4
    <3>2. CASE i = m
      <4>1. pending'[queue'[i].scope] = {}  BY <1>2, <1>4, <3>2 DEF LossTypes
      <4> QED  BY <4>1, EmptyIsLast
    <3> QED  BY <1>4, <3>1, <3>2
  <2> QED  BY <2>1 DEF QueueThenLoss
<1> QED  BY <1>10, <1>11, <1>12, <1>13, <1>14, <1>15, <1>16 DEF Ordered

(* The order when the worker takes a queued unit: the gap is of earlier    *)
(* records than the unit's own.                                            *)
LEMMA TakingQueuedOrder ==
  ASSUME UnitTypes, QueueTypes, TodoTypes, LossTypes, ScopeShape, WorkerShape, Ordered,
         [Next]_vars, TakesQueued
  PROVE  Ordered'
<1>1. PICK u \in InQueueRecord, g \in 0..2, todo \in Seq(Entries) :
        /\ 1 \in DOMAIN queue /\ u = queue[1]
        /\ DOMAIN queue = 1..Len(queue) /\ DOMAIN queue' = 1..(Len(queue) - 1)
        /\ Len(queue) \in Nat \ {0}
        /\ \A i \in DOMAIN queue' : i + 1 \in DOMAIN queue /\ queue'[i] = queue[i + 1]
        /\ unit' = [scope |-> u.scope, todo |-> todo]
        /\ Taking(u.scope, u.gap, g, todo)
        /\ DOMAIN todo = 1..(g + u.size)
        /\ \A k \in 1..u.size : todo[g + k] = Entry("record", {<<u.number, k>>})
        /\ worker.pc = "look"
        /\ UNCHANGED <<units, pending, chain>>
  BY TakingQueued
<1>2. u.size \in Nat /\ u.number \in Nat /\ u.scope \in Scopes
  <2>1. u.size \in UnitSizes /\ u.number \in 1..MaxUnits /\ u.scope \in Scopes
    BY DEF InQueueRecord
  <2>2. MaxUnits \in Nat  BY EmitterAssumption
  <2>3. u.size \in Nat  BY <2>1, Sizes
  <2>4. u.number \in Nat  BY <2>1, <2>2
  <2> QED  BY <2>1, <2>3, <2>4
<1>3. /\ units[u.number].size = u.size /\ u.number \in DOMAIN units
      /\ \A x \in u.gap : x[1] < u.number /\ x[1] \in Nat
  <2>1. /\ units[u.number] = [scope |-> u.scope, size |-> u.size] /\ u.number \in DOMAIN units
        /\ \A x \in u.gap : x[1] < u.number
    BY <1>1 DEF ScopeShape
  <2>2. \A x \in u.gap : x[1] \in Nat
    <3>1. u.gap \subseteq QueuedAt(1)  BY <1>1 DEF QueuedAt
    <3> QED  BY <1>1, <3>1, Submitted
  <2> QED  BY <2>1, <2>2
<1>4. \A i \in DOMAIN todo :
        \/ i <= g /\ (todo[i].of = {} \/ (i = g /\ todo[i].of = u.gap))
        \/ \E k \in 1..u.size : i = g + k /\ todo[i].of = {<<u.number, k>>}
  <2>1. ASSUME NEW i \in DOMAIN todo, i > g
        PROVE  \E k \in 1..u.size : i = g + k /\ todo[i].of = {<<u.number, k>>}
    <3>1. i - g \in 1..u.size /\ i = g + (i - g)  BY <1>1, <1>2, <2>1
    <3>2. PICK k \in 1..u.size : i = g + k  BY <3>1, Zenon
    <3>3. todo[i] = Entry("record", {<<u.number, k>>})  BY <1>1, <3>2
    <3> QED  BY <3>2, <3>3 DEF Entry
  <2>2. ASSUME NEW i \in DOMAIN todo, i <= g
        PROVE  todo[i].of = {} \/ (i = g /\ todo[i].of = u.gap)
    <3>1. (i = g /\ todo[i] = Entry("gap", u.gap)) \/ todo[i] = Entry("grade", {})
      BY <1>1, <1>2, <2>2 DEF Taking
    <3> QED  BY <3>1 DEF Entry
  <2>3. \A i \in DOMAIN todo : i > g \/ i <= g  BY <1>1, <1>2
  <2> QED  BY <2>1, <2>2, <2>3
<1>5. \A i \in DOMAIN todo : todo[i].of \subseteq QueuedAt(1)
  <2>1. \A k \in 1..u.size : {<<u.number, k>>} \subseteq RecordsOf(u.number)
    BY <1>3 DEF RecordsOf
  <2> QED  BY <1>1, <1>4, <2>1 DEF QueuedAt
<1>6. \A R, P, Q : Before(P, Q) /\ R \subseteq P => Before(R, Q)  BY DEF Before
<1>7. \A R, P, Q : Before(P, Q) /\ R \subseteq Q => Before(P, R)  BY DEF Before
<1>8. \A i \in DOMAIN queue' : i \in Nat /\ (QueuedAt(i))' = QueuedAt(i + 1)
  BY <1>1 DEF QueuedAt, RecordsOf
<1>9. unit'.todo = todo /\ unit'.scope = u.scope  BY <1>1
<1>10. ChainOrder' /\ ChainThenLoss'
  BY <1>1 DEF Ordered, ChainOrder, ChainThenLoss
<1>11. ChainThenTodo'
  <2>1. ASSUME NEW i \in DOMAIN chain[u.scope], NEW j \in DOMAIN todo
        PROVE  Before(chain[u.scope][i].of, todo[j].of)
    <3>1. Before(chain[u.scope][i].of, QueuedAt(1))
      BY <1>1, <1>2 DEF Ordered, ChainThenQueue
    <3> QED  BY <1>5, <1>7, <3>1
  <2> QED  BY <1>1, <1>9, <2>1 DEF ChainThenTodo
<1>12. ChainThenQueue'
  <2>1. ASSUME NEW w \in Scopes, NEW i \in DOMAIN chain[w], NEW j \in DOMAIN queue', queue'[j].scope = w
        PROVE  Before(chain[w][i].of, (QueuedAt(j))')
    <3>1. j + 1 \in DOMAIN queue /\ queue[j + 1].scope = w  BY <1>1, <2>1
    <3>2. Before(chain[w][i].of, QueuedAt(j + 1))  BY <3>1 DEF Ordered, ChainThenQueue
    <3> QED  BY <1>8, <3>2
  <2> QED  BY <1>1, <2>1 DEF ChainThenQueue
<1>13. TodoOrder'
  <2>1. ASSUME NEW i \in DOMAIN todo, NEW j \in DOMAIN todo, i < j
        PROVE  Before(todo[i].of, todo[j].of)
    <3>1. CASE todo[i].of = {} \/ todo[j].of = {}  BY <3>1, EmptyIsLast
    <3>2. CASE i = g /\ todo[i].of = u.gap
      <4>0. ~ (j <= g)  BY <1>1, <1>2, <2>1, <3>2
      <4>1. PICK k \in 1..u.size : todo[j].of = {<<u.number, k>>}
        BY <1>4, <4>0
      <4> QED  BY <1>2, <1>3, <3>2, <4>1 DEF Before
    <3>3. CASE \E k \in 1..u.size : i = g + k /\ todo[i].of = {<<u.number, k>>}
      <4>1. PICK k \in 1..u.size : i = g + k /\ todo[i].of = {<<u.number, k>>}  BY <3>3
      <4>2. j > g  BY <1>1, <1>2, <2>1, <4>1
      <4>3. PICK l \in 1..u.size : todo[j].of = {<<u.number, l>>}
        BY <1>1, <1>2, <1>4, <4>2
      <4> QED  BY <1>2, <4>1, <4>3 DEF Before
    <3> QED  BY <1>4, <3>1, <3>2, <3>3
  <2> QED  BY <1>9, <2>1 DEF TodoOrder
<1>14. TodoThenQueue'
  <2>1. ASSUME NEW i \in DOMAIN todo, NEW j \in DOMAIN queue', queue'[j].scope = u.scope
        PROVE  Before(todo[i].of, (QueuedAt(j))')
    <3>1. j + 1 \in DOMAIN queue /\ queue[j + 1].scope = u.scope /\ 1 < j + 1
      BY <1>1, <2>1
    <3>2. Before(QueuedAt(1), QueuedAt(j + 1))  BY <1>1, <3>1 DEF Ordered, QueueOrder
    <3> QED  BY <1>5, <1>6, <1>8, <3>2
  <2> QED  BY <1>9, <2>1 DEF TodoThenQueue
<1>15. TodoThenLoss'
  <2>1. Before(QueuedAt(1), pending[u.scope])  BY <1>1 DEF Ordered, QueueThenLoss
  <2> QED  BY <1>1, <1>5, <1>6, <1>9, <2>1 DEF TodoThenLoss
<1>16. QueueOrder'
  <2>1. ASSUME NEW i \in DOMAIN queue', NEW j \in DOMAIN queue', i < j,
               queue'[i].scope = queue'[j].scope
        PROVE  Before((QueuedAt(i))', (QueuedAt(j))')
    <3>1. i + 1 \in DOMAIN queue /\ j + 1 \in DOMAIN queue /\ i + 1 < j + 1
      BY <1>1, <1>8, <2>1
    <3>2. queue[i + 1].scope = queue[j + 1].scope  BY <1>1, <2>1
    <3>3. Before(QueuedAt(i + 1), QueuedAt(j + 1))  BY <3>1, <3>2 DEF Ordered, QueueOrder
    <3> QED  BY <1>8, <3>3
  <2> QED  BY <2>1 DEF QueueOrder
<1>17. QueueThenLoss'
  <2>1. ASSUME NEW i \in DOMAIN queue' PROVE Before((QueuedAt(i))', pending[queue'[i].scope])
    <3>1. Before(QueuedAt(i + 1), pending[queue[i + 1].scope])
      BY <1>1 DEF Ordered, QueueThenLoss
    <3> QED  BY <1>1, <1>8, <3>1
  <2> QED  BY <1>1, <2>1 DEF QueueThenLoss
<1> QED  BY <1>10, <1>11, <1>12, <1>13, <1>14, <1>15, <1>16, <1>17 DEF Ordered

(* The order when it takes losses: there is no queue for them to overtake. *)
LEMMA TakingPendingOrder ==
  ASSUME TodoTypes, LossTypes, WorkerShape, Ordered, [Next]_vars, TakesPending
  PROVE  Ordered'
<1>1. PICK s \in Scopes, g \in 1..2, todo \in Seq(Entries) :
        /\ unit' = [scope |-> s, todo |-> todo] /\ pending[s] # {}
        /\ Taking(s, pending[s], g, todo) /\ DOMAIN todo = 1..g
        /\ pending' = [pending EXCEPT ![s] = {}]
        /\ queue = <<>>
        /\ UNCHANGED <<units, queue, chain>>
  BY TakingPending
<1>2. \A i \in DOMAIN todo : (i = g /\ todo[i].of = pending[s]) \/ todo[i].of = {}
  <2>1. \A i \in DOMAIN todo :
          (i = g /\ todo[i] = Entry("gap", pending[s])) \/ todo[i] = Entry("grade", {})
    BY <1>1 DEF Taking
  <2> QED  BY <2>1 DEF Entry
<1>3. unit'.todo = todo /\ unit'.scope = s /\ DOMAIN queue' = {}  BY <1>1
<1>4. ChainOrder'  BY <1>1 DEF Ordered, ChainOrder
<1>5. ChainThenTodo'
  BY <1>1, <1>2, <1>3, EmptyIsLast DEF Ordered, ChainThenLoss, ChainThenTodo
<1>6. ChainThenQueue' /\ TodoThenQueue' /\ QueueOrder' /\ QueueThenLoss'
  BY <1>3 DEF ChainThenQueue, TodoThenQueue, QueueOrder, QueueThenLoss
<1>7. ChainThenLoss'
  <2>1. \A w \in Scopes : pending'[w] = pending[w] \/ pending'[w] = {}
    BY <1>1 DEF LossTypes
  <2> QED  BY <1>1, <2>1, EmptyIsLast DEF Ordered, ChainThenLoss
<1>8. TodoOrder'
  <2>1. \A i, j \in DOMAIN todo : i < j => i # g \/ j # g  BY <1>1
  <2> QED  BY <1>2, <1>3, <2>1, EmptyIsLast DEF TodoOrder
<1>9. TodoThenLoss'
  <2>1. pending'[s] = {}  BY <1>1 DEF LossTypes
  <2> QED  BY <1>3, <2>1, EmptyIsLast DEF TodoThenLoss
<1> QED  BY <1>4, <1>5, <1>6, <1>7, <1>8, <1>9 DEF Ordered

(* The order when the store keeps an entry.                                *)
LEMMA AppendingOrder ==
  ASSUME TodoTypes, ChainTypes, Ordered, [Next]_vars, Appends
  PROVE  Ordered'
<1>1. PICK w \in Scopes : w = unit.scope  BY DEF TodoTypes
<1>2. PICK m : m = Len(chain[w]) + 1  OBVIOUS
<1>3. /\ unit.todo # <<>> /\ Lands /\ unit'.scope = unit.scope
      /\ DOMAIN unit'.todo = 1..(Len(unit.todo) - 1)
      /\ \A i \in DOMAIN unit'.todo :
           i \in Nat /\ i + 1 \in DOMAIN unit.todo /\ unit'.todo[i] = unit.todo[i + 1]
      /\ UNCHANGED <<units, queue, pending>>
  BY Appending
<1>4. /\ 1 \in DOMAIN unit.todo
      /\ \A s \in Scopes : s # w => chain'[s] = chain[s]
      /\ DOMAIN chain'[w] = (DOMAIN chain[w]) \cup {m}
      /\ \A i \in DOMAIN chain[w] : chain'[w][i] = chain[w][i] /\ i \in Nat /\ i < m
      /\ chain'[w][m] = unit.todo[1] /\ m \in Nat
  BY <1>1, <1>2, <1>3, Landing
<1>5. \A i \in DOMAIN unit'.todo : 1 < i + 1  BY <1>3
<1>6. \A i \in DOMAIN queue : (QueuedAt(i))' = QueuedAt(i)
  BY <1>3 DEF QueuedAt, RecordsOf
<1>7. \A s \in Scopes : \A i \in DOMAIN chain'[s] :
        \/ i \in DOMAIN chain[s] /\ chain'[s][i] = chain[s][i]
        \/ s = w /\ i = m
  BY <1>4
<1>8. ChainOrder'
  <2>1. ASSUME NEW s \in Scopes, NEW i \in DOMAIN chain'[s], NEW j \in DOMAIN chain'[s], i < j
        PROVE  Before(chain'[s][i].of, chain'[s][j].of)
    <3>1. CASE s # w  BY <1>4, <2>1, <3>1 DEF Ordered, ChainOrder
    <3>2. CASE s = w /\ i \in DOMAIN chain[w] /\ j \in DOMAIN chain[w]
      BY <1>4, <2>1, <3>2 DEF Ordered, ChainOrder
    <3>3. CASE s = w /\ i \in DOMAIN chain[w] /\ j = m
      BY <1>1, <1>4, <3>3 DEF Ordered, ChainThenTodo
    <3>4. ~ (s = w /\ i = m)
      <4>1. ASSUME s = w, i = m PROVE FALSE
        <5>1. j = m \/ j < m  BY <1>4, <4>1
        <5>2. j \in Nat  BY <1>4, <4>1
        <5> QED  BY <1>4, <2>1, <4>1, <5>1, <5>2
      <4> QED  BY <4>1
    <3> QED  BY <1>4, <3>1, <3>2, <3>3, <3>4
  <2> QED  BY <2>1 DEF ChainOrder
<1>9. ChainThenTodo'
  <2>1. ASSUME NEW i \in DOMAIN chain'[w], NEW j \in DOMAIN unit'.todo
        PROVE  Before(chain'[w][i].of, unit'.todo[j].of)
    <3>1. CASE i = m
      <4>1. Before(unit.todo[1].of, unit.todo[j + 1].of)
        BY <1>3, <1>4, <1>5 DEF Ordered, TodoOrder
      <4> QED  BY <1>3, <1>4, <3>1, <4>1
    <3>2. CASE i \in DOMAIN chain[w]
      <4>1. Before(chain[w][i].of, unit.todo[j + 1].of)
        BY <1>1, <1>3, <3>2 DEF Ordered, ChainThenTodo
      <4> QED  BY <1>3, <1>4, <3>2, <4>1
    <3> QED  BY <1>4, <3>1, <3>2
  <2> QED  BY <1>1, <1>3, <2>1 DEF ChainThenTodo
<1>10. ChainThenQueue'
  <2>1. ASSUME NEW s \in Scopes, NEW i \in DOMAIN chain'[s], NEW j \in DOMAIN queue, queue[j].scope = s
        PROVE  Before(chain'[s][i].of, QueuedAt(j))
    <3>1. CASE i \in DOMAIN chain[s] /\ chain'[s][i] = chain[s][i]
      BY <2>1, <3>1 DEF Ordered, ChainThenQueue
    <3>2. CASE s = w /\ i = m
      BY <1>1, <1>4, <2>1, <3>2 DEF Ordered, TodoThenQueue
    <3> QED  BY <1>7, <3>1, <3>2
  <2> QED  BY <1>3, <1>6, <2>1 DEF ChainThenQueue
<1>11. ChainThenLoss'
  <2>1. ASSUME NEW s \in Scopes, NEW i \in DOMAIN chain'[s] PROVE Before(chain'[s][i].of, pending[s])
    <3>1. CASE i \in DOMAIN chain[s] /\ chain'[s][i] = chain[s][i]
      BY <3>1 DEF Ordered, ChainThenLoss
    <3>2. CASE s = w /\ i = m
      BY <1>1, <1>4, <3>2 DEF Ordered, TodoThenLoss
    <3> QED  BY <1>7, <3>1, <3>2
  <2> QED  BY <1>3, <2>1 DEF ChainThenLoss
<1>12. TodoOrder'
  <2>1. ASSUME NEW i \in DOMAIN unit'.todo, NEW j \in DOMAIN unit'.todo, i < j
        PROVE  Before(unit'.todo[i].of, unit'.todo[j].of)
    <3>1. i + 1 < j + 1  BY <1>3, <2>1
    <3>2. Before(unit.todo[i + 1].of, unit.todo[j + 1].of)
      BY <1>3, <3>1 DEF Ordered, TodoOrder
    <3> QED  BY <1>3, <3>2
  <2> QED  BY <2>1 DEF TodoOrder
<1>13. TodoThenQueue'
  <2>1. ASSUME NEW i \in DOMAIN unit'.todo, NEW j \in DOMAIN queue, queue[j].scope = unit.scope
        PROVE  Before(unit'.todo[i].of, QueuedAt(j))
    <3>1. Before(unit.todo[i + 1].of, QueuedAt(j))
      BY <1>3, <2>1 DEF Ordered, TodoThenQueue
    <3> QED  BY <1>3, <3>1
  <2> QED  BY <1>3, <1>6, <2>1 DEF TodoThenQueue
<1>14. TodoThenLoss'
  <2>1. ASSUME NEW i \in DOMAIN unit'.todo PROVE Before(unit'.todo[i].of, pending[unit.scope])
    <3>1. Before(unit.todo[i + 1].of, pending[unit.scope])
      BY <1>3 DEF Ordered, TodoThenLoss
    <3> QED  BY <1>3, <3>1
  <2> QED  BY <1>3, <2>1 DEF TodoThenLoss
<1>15. QueueOrder' /\ QueueThenLoss'
  BY <1>3, <1>6 DEF Ordered, QueueOrder, QueueThenLoss
<1> QED  BY <1>8, <1>9, <1>10, <1>11, <1>12, <1>13, <1>14, <1>15 DEF Ordered

(* No step of a store that accepts puts records out of order.             *)
LEMMA OrderStep ==
  ASSUME UnitTypes, QueueTypes, TodoTypes, LossTypes, ChainTypes, FailureTypes,
         ScopeShape, WorkerShape, OrderShape,
         [Next]_vars
  PROVE  OrderShape'
<1>1. ASSUME NEW s \in Scopes, NEW size \in UnitSizes, SubmitTooLate(s, size) PROVE
     OrderShape'
  <2>1. UNCHANGED failures  BY <1>1 DEF SubmitTooLate, storeVars
  <2> QED  BY <1>1, <2>1, LosingOrder DEF OrderShape
<1>2. ASSUME NEW s \in Scopes, NEW size \in UnitSizes, SubmitTooMuch(s, size) PROVE
     OrderShape'
  <2>1. UNCHANGED failures  BY <1>2 DEF SubmitTooMuch, storeVars
  <2> QED  BY <1>2, <2>1, LosingOrder DEF OrderShape
<1>3. ASSUME NEW s \in Scopes, NEW size \in UnitSizes, Submit(s, size) PROVE OrderShape'
  <2>1. UNCHANGED failures  BY <1>3 DEF Submit, storeVars
  <2> QED  BY <1>3, <2>1, SubmittingOrder DEF OrderShape
<1>4. ASSUME TakesQueued PROVE OrderShape'
  <2>1. UNCHANGED failures  BY <1>4 DEF TakesQueued, storeVars
  <2> QED  BY <1>4, <2>1, TakingQueuedOrder DEF OrderShape
<1>5. ASSUME TakesPending PROVE OrderShape'
  <2>1. UNCHANGED failures  BY <1>5 DEF TakesPending, storeVars
  <2> QED  BY <1>5, <2>1, TakingPendingOrder DEF OrderShape
<1>6. ASSUME Appends PROVE OrderShape'
  <2>1. UNCHANGED failures  BY <1>6 DEF Appends, storeVars
  <2> QED  BY <1>6, <2>1, AppendingOrder DEF OrderShape
<1>7. ASSUME Raises PROVE OrderShape'
  BY <1>7, Raising DEF FailureTypes, OrderShape
<1>8. ASSUME Settles PROVE OrderShape'
  <2>1. UNCHANGED <<units, queue, pending, chain, failures>> /\ DOMAIN unit'.todo = {}
    BY <1>8 DEF Settles, NoUnit, queueVars, storeVars
  <2>2. ASSUME Ordered PROVE Ordered'
    <3>1. ChainOrder' /\ ChainThenLoss'
      BY <2>1, <2>2 DEF Ordered, ChainOrder, ChainThenLoss
    <3>2. ChainThenTodo' /\ TodoOrder' /\ TodoThenQueue' /\ TodoThenLoss'
      BY <2>1 DEF ChainThenTodo, TodoOrder, TodoThenQueue, TodoThenLoss
    <3>3. \A i \in DOMAIN queue : (QueuedAt(i))' = QueuedAt(i)
      BY <2>1 DEF QueuedAt, RecordsOf
    <3>4. ChainThenQueue' /\ QueueOrder' /\ QueueThenLoss'
      BY <2>1, <2>2, <3>3 DEF Ordered, ChainThenQueue, QueueOrder, QueueThenLoss
    <3> QED  BY <3>1, <3>2, <3>4 DEF Ordered
  <2> QED  BY <2>1, <2>2 DEF OrderShape
<1>9. ASSUME SettlesFailed PROVE OrderShape'
  <2>1. worker.pc = "failed" /\ UNCHANGED failures  BY <1>9 DEF SettlesFailed, storeVars
  <2>2. failures' # 0  BY <2>1 DEF WorkerShape
  <2> QED  BY <2>2 DEF OrderShape
<1>10. CASE UNCHANGED <<units, queue, unit, pending, chain, failures>>
  <2>1. \A i \in DOMAIN queue : (QueuedAt(i))' = QueuedAt(i)
    BY <1>10 DEF QueuedAt, RecordsOf
  <2>2. ASSUME Ordered PROVE Ordered'
    <3>1. ChainOrder' /\ ChainThenLoss' /\ ChainThenTodo' /\ TodoOrder' /\ TodoThenLoss'
      BY <1>10, <2>2 DEF Ordered, ChainOrder, ChainThenLoss, ChainThenTodo, TodoOrder, TodoThenLoss
    <3>2. ChainThenQueue' /\ TodoThenQueue' /\ QueueOrder' /\ QueueThenLoss'
      BY <1>10, <2>1, <2>2 DEF Ordered, ChainThenQueue, TodoThenQueue, QueueOrder, QueueThenLoss
    <3> QED  BY <3>1, <3>2 DEF Ordered
  <2> QED  BY <1>10, <2>2 DEF OrderShape
<1> QED
  BY <1>1, <1>2, <1>3, <1>4, <1>5, <1>6, <1>7, <1>8, <1>9, <1>10, Writers DEF Written

-----------------------------------------------------------------------------
(* A gap behind the grade of its scope.                                    *)

ChainGraded ==
  \A s \in Scopes : \A j \in DOMAIN chain[s] :
    chain[s][j].kind = "gap" => \E k \in 1..(j - 1) : chain[s][k].kind = "grade"
TodoGraded ==
  \A j \in DOMAIN unit.todo :
    unit.todo[j].kind = "gap" =>
      Graded(unit.scope) \/ \E k \in 1..(j - 1) : unit.todo[k].kind = "grade"
ScopesGraded ==
  \A s \in graded :
    Graded(s) \/ (unit.scope = s /\ \E k \in DOMAIN unit.todo : unit.todo[k].kind = "grade")

(* The grades, stage by stage, of this state.                              *)
LEMMA GradedBefore == GradeShape /\ failures = 0 => ChainGraded /\ TodoGraded /\ ScopesGraded
BY DEF GradeShape, ChainGraded, TodoGraded, ScopesGraded

(* And of the next.                                                        *)
LEMMA GradedAfter ==
  ASSUME failures' = 0 => ChainGraded' /\ TodoGraded' /\ ScopesGraded'
  PROVE  GradeShape'
BY DEF GradeShape, ChainGraded, TodoGraded, ScopesGraded

(* When the worker takes a gap, its scope has a grade or gets one first.   *)
LEMMA TakingGrade ==
  ASSUME NEW s \in Scopes, NEW gap, NEW g \in 0..2, NEW todo \in Seq(Entries), Taking(s, gap, g, todo),
         \A j \in DOMAIN todo : j > g => todo[j].kind = "record",
         ScopesGraded, unit.todo = <<>>, UNCHANGED chain, unit' = [scope |-> s, todo |-> todo],
         graded' = IF gap = {} THEN graded ELSE graded \cup {s}
  PROVE  TodoGraded' /\ ScopesGraded'
<1>1. \A x : Graded(x)' <=> Graded(x)  BY DEF Graded
<1>2. \A x \in graded : Graded(x)  BY DEF ScopesGraded
<1>3. unit'.scope = s /\ unit'.todo = todo  OBVIOUS
<1>4. TodoGraded'
  <2>1. ASSUME NEW j \in DOMAIN todo, todo[j].kind = "gap"
        PROVE  Graded(s) \/ \E k \in 1..(j - 1) : todo[k].kind = "grade"
    <3>1. j \in Nat /\ j # 0 /\ j <= g  BY <2>1
    <3>2. CASE g = 1
      <4>1. gap # {} /\ s \in graded  BY <3>2 DEF Taking
      <4> QED  BY <1>2, <4>1
    <3>3. CASE g = 2
      <4>1. todo[1] = Entry("grade", {})  BY <3>3 DEF Taking
      <4>2. todo[1].kind = "grade"  BY <4>1 DEF Entry
      <4>3. j # 1  BY <2>1, <4>2
      <4>4. 1 \in 1..(j - 1)  BY <3>1, <4>3
      <4> QED  BY <4>2, <4>4
    <3> QED  BY <3>1, <3>2, <3>3
  <2>2. ASSUME NEW j \in DOMAIN unit'.todo, unit'.todo[j].kind = "gap"
        PROVE  (Graded(unit.scope))' \/ \E k \in 1..(j - 1) : unit'.todo[k].kind = "grade"
    <3>1. Graded(s) \/ \E k \in 1..(j - 1) : todo[k].kind = "grade"  BY <1>3, <2>1, <2>2
    <3>2. (Graded(unit.scope))' <=> Graded(s)  BY <1>3 DEF Graded
    <3> QED  BY <1>3, <3>1, <3>2
  <2> QED  BY <2>2 DEF TodoGraded
<1>5. ScopesGraded'
  <2>1. ASSUME gap # {} PROVE Graded(s) \/ \E k \in DOMAIN todo : todo[k].kind = "grade"
    <3>1. g # 0 /\ (g = 1 <=> s \in graded)  BY <2>1 DEF Taking
    <3>2. CASE g = 1  BY <1>2, <3>1, <3>2
    <3>3. CASE g = 2
      <4>1. todo[1] = Entry("grade", {}) /\ g <= Len(todo)  BY <3>3 DEF Taking
      <4>2. todo[1].kind = "grade" /\ 1 \in DOMAIN todo  BY <3>3, <4>1 DEF Entry
      <4> QED  BY <4>2
    <3> QED  BY <3>1, <3>2, <3>3
  <2>2. ASSUME NEW x \in graded'
        PROVE  \/ Graded(x)'
               \/ /\ unit'.scope = x
                  /\ \E k \in DOMAIN unit'.todo : unit'.todo[k].kind = "grade"
    <3>1. CASE x \in graded  BY <1>1, <1>2, <3>1
    <3>2. CASE x = s /\ gap # {}  BY <1>1, <1>3, <2>1, <3>2
    <3> QED  BY <2>2, <3>1, <3>2
  <2> QED  BY <2>2 DEF ScopesGraded
<1> QED  BY <1>4, <1>5

(* When the store keeps an entry, a grade counts for its scope.            *)
LEMMA AppendingGrade ==
  ASSUME TodoTypes, ChainTypes, ScopeTypes, ChainGraded, TodoGraded, ScopesGraded, [Next]_vars, Appends
  PROVE  ChainGraded' /\ TodoGraded' /\ ScopesGraded'
<1>1. PICK w \in Scopes : w = unit.scope  BY DEF TodoTypes
<1>2. PICK m : m = Len(chain[w]) + 1  OBVIOUS
<1>3. /\ unit.todo # <<>> /\ Lands /\ unit'.scope = unit.scope
      /\ DOMAIN unit'.todo = 1..(Len(unit.todo) - 1)
      /\ \A i \in DOMAIN unit'.todo :
           i \in Nat /\ i + 1 \in DOMAIN unit.todo /\ unit'.todo[i] = unit.todo[i + 1]
      /\ \A i \in DOMAIN unit.todo : i # 1 => i \in Nat /\ i - 1 \in DOMAIN unit'.todo
      /\ UNCHANGED graded
  BY Appending
<1>4. /\ 1 \in DOMAIN unit.todo /\ DOMAIN unit.todo = 1..Len(unit.todo)
      /\ \A s \in Scopes : s # w => chain'[s] = chain[s]
      /\ DOMAIN chain[w] = 1..(m - 1) /\ m \in Nat
      /\ DOMAIN chain'[w] = (DOMAIN chain[w]) \cup {m}
      /\ \A i \in DOMAIN chain[w] : chain'[w][i] = chain[w][i]
      /\ chain'[w][m] = unit.todo[1]
  BY <1>1, <1>2, <1>3, Landing
<1>5. \A s \in Scopes : Graded(s) => Graded(s)'
  <2>1. ASSUME NEW s \in Scopes, NEW k \in DOMAIN chain[s], chain[s][k].kind = "grade"
        PROVE  k \in DOMAIN chain'[s] /\ chain'[s][k].kind = "grade"
    BY <1>4, <2>1
  <2> QED  BY <2>1 DEF Graded
<1>6. unit.todo[1].kind = "grade" => Graded(w)'
  BY <1>4 DEF Graded
<1>7. ChainGraded'
  <2>1. ASSUME NEW s \in Scopes, NEW j \in DOMAIN chain'[s], chain'[s][j].kind = "gap"
        PROVE  \E k \in 1..(j - 1) : chain'[s][k].kind = "grade"
    <3>1. CASE s # w  BY <1>4, <2>1, <3>1 DEF ChainGraded
    <3>2. CASE s = w /\ j \in DOMAIN chain[w]
      <4>1. PICK k \in 1..(j - 1) : chain[w][k].kind = "grade"
        BY <1>4, <2>1, <3>2 DEF ChainGraded
      <4>2. k \in DOMAIN chain[w]  BY <1>4, <3>2
      <4> QED  BY <1>4, <3>2, <4>1, <4>2
    <3>3. CASE s = w /\ j = m
      <4>1. unit.todo[1].kind = "gap"  BY <1>4, <2>1, <3>3
      <4>2. Graded(w)  BY <1>1, <1>4, <4>1 DEF TodoGraded
      <4>3. PICK k \in DOMAIN chain[w] : chain[w][k].kind = "grade"  BY <4>2 DEF Graded
      <4> QED  BY <1>4, <3>3, <4>3
    <3> QED  BY <1>4, <3>1, <3>2, <3>3
  <2> QED  BY <2>1 DEF ChainGraded
<1>8. TodoGraded'
  <2>1. ASSUME NEW j \in DOMAIN unit'.todo, unit'.todo[j].kind = "gap"
        PROVE  Graded(w)' \/ \E k \in 1..(j - 1) : unit'.todo[k].kind = "grade"
    <3>1. unit.todo[j + 1].kind = "gap" /\ j + 1 \in DOMAIN unit.todo /\ j \in Nat
      BY <1>3, <2>1
    <3>2. CASE Graded(w)  BY <1>5, <3>2
    <3>3. CASE \E k \in 1..((j + 1) - 1) : unit.todo[k].kind = "grade"
      <4>1. PICK k \in 1..j : unit.todo[k].kind = "grade"  BY <3>1, <3>3
      <4>2. CASE k = 1  BY <1>6, <4>1, <4>2
      <4>3. CASE k # 1
        <5>1. k - 1 \in 1..(j - 1) /\ (k - 1) + 1 = k  BY <3>1, <4>3
        <5>2. PICK l \in 1..(j - 1) : l + 1 = k  BY <5>1
        <5>3. l \in DOMAIN unit'.todo  BY <1>3, <3>1, <5>2
        <5>4. unit'.todo[l].kind = "grade"  BY <1>3, <4>1, <5>2, <5>3
        <5> QED  BY <5>4
      <4> QED  BY <4>2, <4>3
    <3> QED  BY <1>1, <3>1, <3>2, <3>3 DEF TodoGraded
  <2>2. (Graded(unit.scope))' <=> Graded(w)'  BY <1>1, <1>3 DEF Graded
  <2> QED  BY <2>1, <2>2 DEF TodoGraded
<1>9. ScopesGraded'
  <2>1. ASSUME NEW s \in graded
        PROVE  \/ Graded(s)'
               \/ /\ unit'.scope = s
                  /\ \E k \in DOMAIN unit'.todo : unit'.todo[k].kind = "grade"
    <3>0. s \in Scopes  BY DEF ScopeTypes
    <3>1. CASE Graded(s)  BY <1>5, <3>0, <3>1
    <3>2. CASE unit.scope = s /\ \E k \in DOMAIN unit.todo : unit.todo[k].kind = "grade"
      <4>1. PICK k \in DOMAIN unit.todo : unit.todo[k].kind = "grade"  BY <3>2
      <4>2. CASE k = 1  BY <1>1, <1>6, <3>2, <4>1, <4>2
      <4>3. CASE k # 1
        <5>1. k - 1 \in DOMAIN unit'.todo /\ (k - 1) + 1 = k  BY <1>3, <1>4, <4>3
        <5>2. PICK l \in DOMAIN unit'.todo : l + 1 = k  BY <5>1
        <5> QED  BY <1>3, <3>2, <4>1, <5>2
      <4> QED  BY <4>2, <4>3
    <3> QED  BY <3>1, <3>2 DEF ScopesGraded
  <2> QED  BY <1>3, <2>1 DEF ScopesGraded
<1> QED  BY <1>7, <1>8, <1>9

(* No step of a store that accepts lets a gap go ahead of a grade.         *)
LEMMA GradeStep ==
  ASSUME QueueTypes, TodoTypes, LossTypes, ChainTypes, FailureTypes, ScopeTypes,
         WorkerShape, GradeShape,
         [Next]_vars
  PROVE  GradeShape'
<1>1. ASSUME TakesQueued PROVE GradeShape'
  <2>1. PICK u \in InQueueRecord, g \in 0..2, todo \in Seq(Entries) :
          /\ unit' = [scope |-> u.scope, todo |-> todo]
          /\ Taking(u.scope, u.gap, g, todo)
          /\ DOMAIN todo = 1..(g + u.size)
          /\ \A k \in 1..u.size : todo[g + k] = Entry("record", {<<u.number, k>>})
          /\ graded' = IF u.gap = {} THEN graded ELSE graded \cup {u.scope}
          /\ worker.pc = "look"
          /\ UNCHANGED <<chain, failures>>
    BY <1>1, TakingQueued
  <2>2. u.size \in Nat /\ u.scope \in Scopes
    <3>1. u.size \in UnitSizes /\ u.scope \in Scopes  BY DEF InQueueRecord
    <3> QED  BY <3>1, Sizes
  <2>3. ASSUME NEW j \in DOMAIN todo, j > g PROVE todo[j].kind = "record"
    <3>1. j - g \in 1..u.size /\ j = g + (j - g)  BY <2>1, <2>2, <2>3
    <3>2. PICK k \in 1..u.size : j = g + k  BY <3>1, Zenon
    <3>3. todo[j] = Entry("record", {<<u.number, k>>})  BY <2>1, <3>2
    <3> QED  BY <3>3 DEF Entry
  <2>4. unit.todo = <<>>  BY <2>1 DEF WorkerShape
  <2>5. PICK gap : gap = u.gap  OBVIOUS
  <2>6. PICK s \in Scopes : s = u.scope  BY <2>2
  <2>7. ScopesGraded => TodoGraded' /\ ScopesGraded'
    BY <2>1, <2>3, <2>4, <2>5, <2>6, TakingGrade
  <2>8. ChainGraded => ChainGraded'  BY <2>1 DEF ChainGraded
  <2> QED  BY <2>1, <2>7, <2>8, GradedBefore, GradedAfter
<1>2. ASSUME TakesPending PROVE GradeShape'
  <2>1. PICK s \in Scopes, g \in 1..2, todo \in Seq(Entries) :
          /\ pending[s] # {} /\ unit' = [scope |-> s, todo |-> todo]
          /\ Taking(s, pending[s], g, todo) /\ DOMAIN todo = 1..g
          /\ graded' = graded \cup {s}
          /\ worker.pc = "look"
          /\ UNCHANGED <<chain, failures>>
    BY <1>2, TakingPending
  <2>2. \A j \in DOMAIN todo : j > g => todo[j].kind = "record"  BY <2>1
  <2>3. unit.todo = <<>>  BY <2>1 DEF WorkerShape
  <2>4. PICK gap : gap = pending[s]  OBVIOUS
  <2>5. graded' = IF gap = {} THEN graded ELSE graded \cup {s}  BY <2>1, <2>4
  <2>6. g \in 0..2  OBVIOUS
  <2>7. ScopesGraded => TodoGraded' /\ ScopesGraded'
    BY <2>1, <2>2, <2>3, <2>4, <2>5, <2>6, TakingGrade
  <2>8. ChainGraded => ChainGraded'  BY <2>1 DEF ChainGraded
  <2> QED  BY <2>1, <2>7, <2>8, GradedBefore, GradedAfter
<1>3. ASSUME Appends PROVE GradeShape'
  <2>1. UNCHANGED failures  BY <1>3, Appending
  <2> QED  BY <1>3, <2>1, AppendingGrade, GradedBefore, GradedAfter
<1>4. ASSUME Raises PROVE GradeShape'
  <2>1. failures' # 0  BY <1>4, Raising DEF FailureTypes
  <2> QED  BY <2>1, GradedAfter
<1>5. ASSUME Settles PROVE GradeShape'
  <2>1. /\ UNCHANGED <<chain, graded, failures>> /\ DOMAIN unit'.todo = {}
        /\ unit.todo = <<>>
    BY <1>5 DEF Settles, NoUnit, storeVars
  <2>2. ChainGraded => ChainGraded'  BY <2>1 DEF ChainGraded
  <2>3. TodoGraded'  BY <2>1 DEF TodoGraded
  <2>4. \A s : Graded(s)' <=> Graded(s)  BY <2>1 DEF Graded
  <2>5. ScopesGraded => ScopesGraded'  BY <2>1, <2>4 DEF ScopesGraded
  <2> QED  BY <2>1, <2>2, <2>3, <2>5, GradedBefore, GradedAfter
<1>6. ASSUME SettlesFailed PROVE GradeShape'
  <2>1. worker.pc = "failed" /\ UNCHANGED failures  BY <1>6 DEF SettlesFailed, storeVars
  <2>2. failures' # 0  BY <2>1 DEF WorkerShape
  <2> QED  BY <2>2, GradedAfter
<1>7. CASE UNCHANGED <<chain, unit, graded, failures>>
  <2>1. ChainGraded /\ TodoGraded /\ ScopesGraded => ChainGraded' /\ TodoGraded' /\ ScopesGraded'
    BY <1>7 DEF ChainGraded, TodoGraded, ScopesGraded, Graded
  <2> QED  BY <1>7, <2>1, GradedBefore, GradedAfter
<1> QED
  BY <1>1, <1>2, <1>3, <1>4, <1>5, <1>6, <1>7, Writers DEF Written

-----------------------------------------------------------------------------
(* The emitter's invariant holds before anything is emitted.               *)
LEMMA InitLemma ==
  ASSUME Init
  PROVE  PipelineInv
<1>1. Scopes # {} /\ 1 \in Scopes /\ Closer \in Threads
  BY EmitterAssumption DEF Scopes, Threads
<1>2. TypeOK
  <2>1. UnitTypes /\ QueueTypes /\ queued \in Nat /\ LossTypes /\ ScopeTypes /\ WorkerTypes
    <3>1. UnitTypes  BY EmitterAssumption DEF Init, UnitTypes
    <3>2. QueueTypes /\ queued \in Nat  BY DEF Init, QueueTypes
    <3>3. LossTypes /\ ScopeTypes /\ WorkerTypes
      BY DEF Init, LossTypes, ScopeTypes, WorkerTypes
    <3> QED  BY <3>1, <3>2, <3>3
  <2>2. TodoTypes /\ ChainTypes
    BY <1>1 DEF Init, NoUnit, TodoTypes, ChainTypes
  <2>3. FlushTypes /\ CloseTypes /\ FailureTypes
    <3>1. 0 \in 0..MaxUnits /\ 0 \in 0..MaxFailures  BY EmitterAssumption
    <3>2. AtRest \in Waiter  BY <1>1, <3>1 DEF AtRest, Waiter
    <3> QED  BY <1>1, <3>1, <3>2 DEF Init, FlushTypes, CloseTypes, FailureTypes
  <2> QED  BY <2>1, <2>2, <2>3, Groups
<1>3. ScopeShape
  BY <1>1 DEF Init, NoUnit, ScopeShape
<1>4. QueueShape /\ WorkerShape
  BY DEF Init, NoUnit, QueueShape, WorkerShape
<1>5. PlaceShape
  BY DEF Init, PlaceShape
<1>6. QueueIsBounded
  <2>1. QueuedRecords = {}  BY DEF Init, QueuedRecords
  <2> QED  BY <2>1, FS_EmptySet, EmitterAssumption DEF Init, QueueIsBounded
<1>7. OrderShape
  <2>1. ChainOrder /\ ChainThenTodo /\ ChainThenQueue /\ ChainThenLoss
    BY DEF Init, NoUnit, ChainOrder, ChainThenTodo, ChainThenQueue, ChainThenLoss
  <2>2. TodoOrder /\ TodoThenQueue /\ TodoThenLoss
    BY DEF Init, NoUnit, TodoOrder, TodoThenQueue, TodoThenLoss
  <2>3. QueueOrder /\ QueueThenLoss
    BY DEF Init, QueueOrder, QueueThenLoss
  <2> QED  BY <2>1, <2>2, <2>3 DEF OrderShape, Ordered
<1>8. GradeShape
  BY DEF Init, NoUnit, GradeShape
<1>9. FlushShape
  <2>1. \A t \in Threads : flush[t] = AtRest  BY DEF Init
  <2>2. close = [pc |-> "idle", left |-> {}, flushed |-> TRUE, before |-> 0] /\ Len(units) = 0
    BY DEF Init
  <2>3. FlushTold  BY <2>1, <2>2 DEF AtRest, FlushTold, Told, Waiting
  <2>4. CloseTold  BY <2>2 DEF CloseTold
  <2> QED  BY <2>3, <2>4, Tells
<1> QED  BY <1>2, <1>3, <1>4, <1>5, <1>6, <1>7, <1>8, <1>9 DEF PipelineInv

(* Every step keeps it.                                                    *)
LEMMA StepLemma ==
  ASSUME PipelineInv, [Next]_vars
  PROVE  PipelineInv'
<1>1. /\ TypeOK /\ ScopeShape /\ QueueShape /\ WorkerShape /\ PlaceShape /\ QueueIsBounded
      /\ OrderShape /\ GradeShape /\ FlushShape
  BY DEF PipelineInv
<1>2. /\ UnitTypes /\ QueueTypes /\ queued \in Nat /\ LossTypes /\ ScopeTypes /\ WorkerTypes
      /\ TodoTypes /\ FlushTypes /\ CloseTypes /\ ChainTypes /\ FailureTypes
  BY <1>1, Groups
<1>3. PendingIn /\ ChainIn /\ QueueIn /\ TodoIn  BY <1>1, Scoped
<1>4. FlushTold /\ CloseTold  BY <1>1, Tells
<1>5. QueueIsBounded' /\ queued' \in Nat /\ QueueShape'  BY <1>1, <1>2, CountStep
<1>6. TypeOK'
  <2>1. UnitTypes' /\ QueueTypes' /\ LossTypes' /\ ScopeTypes'
    BY <1>2, UnitStep, QueueStep, LossStep, ScopeStep
  <2>2. WorkerTypes' /\ TodoTypes' /\ FlushTypes' /\ CloseTypes'
    BY <1>2, WorkerStep, TodoStep, FlushStep, CloseStep
  <2>3. ChainTypes' /\ FailureTypes'
    BY <1>2, ChainStep, FailureStep
  <2> QED
    BY <1>5, <2>1, <2>2, <2>3 DEF TypeOK, UnitTypes, QueueTypes, LossTypes, ScopeTypes,
       WorkerTypes, TodoTypes, FlushTypes, CloseTypes, ChainTypes, FailureTypes, Unit, Waiter,
       InQueueRecord
<1>7. ScopeShape'
  <2>1. PendingIn' /\ ChainIn' /\ QueueIn' /\ TodoIn'
    BY <1>2, <1>3, PendingInStep, ChainInStep, QueueInStep, TodoInStep
  <2> QED  BY <2>1 DEF ScopeShape, PendingIn, ChainIn, QueueIn, TodoIn
<1>8. WorkerShape'  BY <1>1, <1>2, WorkerShapeStep
<1>9. PlaceShape'  BY <1>1, <1>2, PlaceStep
<1>10. OrderShape'  BY <1>1, <1>2, OrderStep
<1>11. GradeShape'  BY <1>1, <1>2, GradeStep
<1>12. FlushShape'
  <2>1. FlushTold' /\ CloseTold'
    BY <1>1, <1>2, <1>4, FlushToldStep, CloseToldStep
  <2> QED  BY <2>1 DEF FlushShape, FlushTold, Told, CloseTold
<1> QED
  BY <1>5, <1>6, <1>7, <1>8, <1>9, <1>10, <1>11, <1>12 DEF PipelineInv

-----------------------------------------------------------------------------
(* How many indices there are of a kind: none, one, or more.               *)
LEMMA Occurrences ==
  ASSUME NEW n \in Nat, NEW S \in SUBSET (1..n)
  PROVE  /\ Cardinality(S) \in Nat
         /\ Cardinality(S) = 0 <=> S = {}
         /\ (\A i, j \in S : i = j) /\ S # {} => Cardinality(S) = 1
<1>1. IsFiniteSet(S)
  <2>1. IsFiniteSet(1..n)  BY FS_Interval
  <2> QED  BY <2>1, FS_Subset
<1>2. Cardinality(S) \in Nat  BY <1>1, FS_CardinalityType
<1>3. Cardinality(S) = 0 <=> S = {}  BY <1>1, FS_EmptySet
<1>4. ASSUME \A i, j \in S : i = j, S # {} PROVE Cardinality(S) = 1
  <2>1. PICK i \in S : TRUE  BY <1>4
  <2>2. S = {i}  BY <1>4, <2>1
  <2> QED  BY <2>2, FS_Singleton
<1> QED  BY <1>2, <1>3, <1>4

(* What is of one scope is on no other's chain, nor among its losses.      *)
LEMMA OfItsScope ==
  ASSUME UnitTypes, ScopeShape, NEW n \in DOMAIN units, NEW r \in RecordsOf(n),
         NEW s \in Scopes
  PROVE  /\ r \in pending[s] => s = units[n].scope
         /\ \A i \in DOMAIN chain[s] : r \in chain[s][i].of => s = units[n].scope
<1>1. ASSUME r \in RecordsIn(s) PROVE s = units[n].scope
  <2>1. PICK m \in DOMAIN units : units[m].scope = s /\ r \in RecordsOf(m)
    BY <1>1 DEF RecordsIn
  <2>2. r[1] = m /\ r[1] = n  BY <2>1, NumberOf
  <2> QED  BY <2>1, <2>2
<1> QED  BY <1>1 DEF ScopeShape

(* Four counts of which one is not zero, or one is one and the others zero.*)
LEMMA Counted ==
  ASSUME NEW c \in Nat, NEW q \in Nat, NEW t \in Nat, NEW p \in Nat
  PROVE  /\ c # 0 \/ q # 0 \/ t # 0 \/ p = 1 => c + q + t + p >= 1
         /\ \/ c = 1 /\ q = 0 /\ t = 0 /\ p = 0
            \/ c = 0 /\ q = 1 /\ t = 0 /\ p = 0
            \/ c = 0 /\ q = 0 /\ t = 1 /\ p = 0
            \/ c = 0 /\ q = 0 /\ t = 0 /\ p = 1
            => c + q + t + p = 1
OBVIOUS

(* A record that is somewhere and not twice is counted in one place.       *)
LEMMA OnePlace ==
  ASSUME PipelineInv
  PROVE  InOnePlace
<1> SUFFICES ASSUME NEW n \in DOMAIN units, NEW r \in RecordsOf(n)
             PROVE  /\ Places(r, units[n].scope) >= 1
                    /\ r \notin doubted => Places(r, units[n].scope) = 1
  BY DEF InOnePlace
<1>1. /\ UnitTypes /\ QueueTypes /\ TodoTypes /\ ChainTypes /\ ScopeShape
      /\ Somewhere(r) /\ (r \notin doubted => NotTwice(r))
  BY Groups DEF PipelineInv, PlaceShape
<1>2. PICK s \in Scopes : s = units[n].scope
  <2>1. units[n] \in Unit  BY <1>1 DEF UnitTypes
  <2> QED  BY <2>1 DEF Unit
<1> DEFINE C == {i \in DOMAIN chain[s] : r \in chain[s][i].of}
           Q == {i \in DOMAIN queue : InQueue(r, i)}
           T == {i \in DOMAIN unit.todo : r \in unit.todo[i].of}
           p == IF r \in pending[s] THEN 1 ELSE 0
<1>3. Places(r, s) = Cardinality(C) + Cardinality(Q) + Cardinality(T) + p
  BY DEF Places, InQueue
<1>4. OnChain(r) <=> C # {}  BY <1>1, <1>2, OfItsScope DEF OnChain
<1>5. Queued(r) <=> Q # {}  BY DEF Queued
<1>6. Taken(r) <=> T # {}  BY DEF Taken
<1>7. Undeclared(r) <=> p = 1  BY <1>1, <1>2, OfItsScope DEF Undeclared
<1>8. /\ Cardinality(C) \in Nat /\ (Cardinality(C) = 0 <=> C = {})
      /\ (\A i, j \in C : i = j) /\ C # {} => Cardinality(C) = 1
  <2>1. PICK k \in Nat : DOMAIN chain[s] = 1..k
    <3>1. chain[s] \in Seq(Entries)  BY <1>1 DEF ChainTypes
    <3> QED  BY <3>1
  <2>2. C \in SUBSET (1..k)  BY <2>1
  <2> HIDE DEF C
  <2> QED  BY <2>2, Occurrences
<1>9. /\ Cardinality(Q) \in Nat /\ (Cardinality(Q) = 0 <=> Q = {})
      /\ (\A i, j \in Q : i = j) /\ Q # {} => Cardinality(Q) = 1
  <2>1. PICK k \in Nat : DOMAIN queue = 1..k  BY <1>1 DEF QueueTypes
  <2>2. Q \in SUBSET (1..k)  BY <2>1
  <2> HIDE DEF Q
  <2> QED  BY <2>2, Occurrences
<1>10. /\ Cardinality(T) \in Nat /\ (Cardinality(T) = 0 <=> T = {})
       /\ (\A i, j \in T : i = j) /\ T # {} => Cardinality(T) = 1
  <2>1. PICK k \in Nat : DOMAIN unit.todo = 1..k
    <3>1. unit.todo \in Seq(Entries)  BY <1>1 DEF TodoTypes
    <3> QED  BY <3>1
  <2>2. T \in SUBSET (1..k)  BY <2>1
  <2> HIDE DEF T
  <2> QED  BY <2>2, Occurrences
<1>11. p \in {0, 1}  OBVIOUS
<1>12. NotTwice(r) =>
         /\ \A i, j \in C : i = j
         /\ \A i, j \in Q : i = j
         /\ \A i, j \in T : i = j
  BY DEF NotTwice
<1>13. Cardinality(C) \in Nat /\ Cardinality(Q) \in Nat /\ Cardinality(T) \in Nat /\ p \in Nat
  BY <1>8, <1>9, <1>10, <1>11
<1> HIDE DEF C, Q, T, p
<1>14. Places(r, s) >= 1
  <2>1. C # {} \/ Q # {} \/ T # {} \/ p = 1
    BY <1>1, <1>4, <1>5, <1>6, <1>7, Zenon DEF Somewhere
  <2>2. Cardinality(C) # 0 \/ Cardinality(Q) # 0 \/ Cardinality(T) # 0 \/ p = 1
    BY <1>8, <1>9, <1>10, <2>1, Zenon
  <2> QED  BY <1>3, <1>13, <2>2, Counted
<1>15. ASSUME r \notin doubted PROVE Places(r, s) = 1
  <2>1. NotTwice(r)  BY <1>1, <1>15
  <2>2. /\ C # {} => Q = {} /\ T = {} /\ p # 1
        /\ Q # {} => T = {} /\ p # 1
        /\ T # {} => p # 1
    BY <1>4, <1>5, <1>6, <1>7, <2>1, Zenon DEF NotTwice
  <2>3. C # {} \/ Q # {} \/ T # {} \/ p = 1
    BY <1>1, <1>4, <1>5, <1>6, <1>7, Zenon DEF Somewhere
  <2>4. /\ C # {} => Cardinality(C) = 1
        /\ Q # {} => Cardinality(Q) = 1
        /\ T # {} => Cardinality(T) = 1
    BY <1>8, <1>9, <1>10, <1>12, <2>1, Zenon
  <2>5. \/ Cardinality(C) = 1 /\ Cardinality(Q) = 0 /\ Cardinality(T) = 0 /\ p = 0
        \/ Cardinality(C) = 0 /\ Cardinality(Q) = 1 /\ Cardinality(T) = 0 /\ p = 0
        \/ Cardinality(C) = 0 /\ Cardinality(Q) = 0 /\ Cardinality(T) = 1 /\ p = 0
        \/ Cardinality(C) = 0 /\ Cardinality(Q) = 0 /\ Cardinality(T) = 0 /\ p = 1
    BY <1>8, <1>9, <1>10, <1>11, <2>2, <2>3, <2>4, Zenon
  <2> QED  BY <1>3, <1>13, <2>5, Counted
<1> QED  BY <1>2, <1>14, <1>15

-----------------------------------------------------------------------------
(* The pipeline's invariant holds in every state the program reaches, and  *)
(* with it every variable has its type.                                    *)
THEOREM Pipeline == Spec => []PipelineInv
<1>1. Init => PipelineInv  BY InitLemma
<1>2. PipelineInv /\ [Next]_vars => PipelineInv'  BY StepLemma
<1> QED  BY <1>1, <1>2, PTL DEF Spec

(* What _submit, _count_loss, _next_unit and _restore_gap do to a record   *)
(* leaves it in one place: on the chain, in the queue, in the worker's     *)
(* hands, in a declared gap or counted as a loss.  _queued_records is what *)
(* the queue holds and within its capacity.  While the store accepts, a    *)
(* gap stands where the losses happened, behind the daemon's grade.        *)
THEOREM NoSilentLoss == Spec => []EveryRecordIsAccounted
<1>1. PipelineInv => EveryRecordIsAccounted
  <2> SUFFICES ASSUME PipelineInv PROVE EveryRecordIsAccounted  OBVIOUS
  <2>1. TypeOK /\ QueueIsBounded /\ OrderShape /\ GradeShape  BY DEF PipelineInv
  <2>2. InOnePlace  BY OnePlace
  <2>3. GapsStandWhereTheyHappened
    BY <2>1 DEF GapsStandWhereTheyHappened, OrderShape, Ordered, ChainOrder, Before, GradeShape
  <2> QED  BY <2>1, <2>2, <2>3 DEF EveryRecordIsAccounted
<1> QED  BY <1>1, Pipeline, PTL

(* flush answers true, and close does, only when everything submitted      *)
(* before it was called is on the chain, as a record or in a declared gap, *)
(* whatever was submitted, refused or retried meanwhile.                   *)
THEOREM FlushMeansRecorded == Spec => []FlushTellsTheTruth
<1>1. PipelineInv => FlushTellsTheTruth
  BY DEF PipelineInv, FlushShape, FlushTellsTheTruth
<1> QED  BY <1>1, Pipeline, PTL
=============================================================================
