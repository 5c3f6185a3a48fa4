------------------------------ MODULE Emitter ------------------------------
(***************************************************************************)
(* The evidence pipeline: EvidenceEmitter                                  *)
(* (application/evidence_emitter.py).  Request threads hand it units of    *)
(* records and never wait for the store; one worker appends them.  What    *)
(* the bounded queue cannot hold, and what the store refuses, is counted   *)
(* per scope and declared later in a gap record.  Others wait for a flush, *)
(* and the daemon's stop closes it.                                        *)
(*                                                                         *)
(* One condition guards the queue, the counts and the requests, so a step  *)
(* is one critical section or one call of the store.  A gap is the set of  *)
(* the records it stands for; the code keeps their number, kinds and span. *)
(***************************************************************************)
EXTENDS Naturals, Sequences, FiniteSets, FiniteSetsExt

CONSTANTS
  NumScopes,      \* scopes, in the order the code sorts them
  UnitSizes,      \* how many records one emission may hold
  QueueCapacity,  \* queue_capacity, in records
  Flushers,       \* callers of flush(scope): before_verdict
  Closer,         \* the thread that closes the emitter
  MaxUnits,       \* bound: emissions
  MaxFailures     \* bound: appends the store raises on

Scopes == 1..NumScopes
Threads == Flushers \cup {Closer}

ASSUME EmitterAssumption ==
  /\ NumScopes \in Nat \ {0} /\ QueueCapacity \in Nat \ {0}
  /\ UnitSizes \subseteq Nat \ {0}
  /\ Closer \notin Flushers
  /\ MaxUnits \in Nat /\ MaxFailures \in Nat

VARIABLES
  units,       \* what was submitted, in order
  queue,       \* _queue
  queued,      \* _queued_records
  pending,     \* _pending: the losses not declared yet, per scope
  backoff,     \* the scopes whose _retry_at is still to come
  final,       \* _final_attempt
  closing,     \* _closing
  worker,      \* where the worker is, and the scopes whose retry ends its wait
  unit,        \* _inflight: its scope and the entries still to append
  graded,      \* the scopes whose daemon grade was evaluated
  flush,       \* each flush: where it is, its scope, whether it completed
  close,       \* close(): where it is, the scopes left, what it flushed
  chain,       \* the entries the store holds, per scope
  doubted,     \* records of an append that raised with the entry on disk
  failures

queueVars == <<queue, queued>>
workerVars == <<worker, unit, graded>>
storeVars == <<chain, doubted, failures>>
vars == <<units, queue, queued, pending, backoff, final, closing, worker, unit,
          graded, flush, close, chain, doubted, failures>>

(* A record is its unit's number and its place in it.                      *)
RecordsOf(n) == {<<n, k>> : k \in 1..units[n].size}
Entry(kind, records) == [kind |-> kind, of |-> records]

(* The entries the worker owes the store for a unit: the gap before it,    *)
(* under the daemon's own grade if none was evaluated yet, then its        *)
(* records.                                                                *)
GapEntries(s, gap) ==
  IF gap = {} THEN <<>>
  ELSE (IF s \in graded THEN <<>> ELSE <<Entry("grade", {})>>) \o <<Entry("gap", gap)>>

RecordEntries(n, size) == [k \in 1..size |-> Entry("record", {<<n, k>>})]

NoUnit == [scope |-> 1, todo |-> <<>>]
AtRest == [pc |-> "idle", scope |-> 1, done |-> FALSE, before |-> 0]

Waiting(t) == flush[t].pc = "waiting"
Requested == {flush[t].scope : t \in {u \in Threads : Waiting(u)}}
Lossy == {s \in Scopes : pending[s] # {}}

(* notify_all, as far as the worker's wait is concerned.                   *)
Notify == worker' = IF worker.pc = "wait" THEN [pc |-> "look", alarm |-> {}] ELSE worker

Init ==
  /\ units = <<>> /\ queue = <<>> /\ queued = 0
  /\ pending = [s \in Scopes |-> {}]
  /\ backoff = {} /\ final = {} /\ closing = FALSE
  /\ worker = [pc |-> "look", alarm |-> {}]
  /\ unit = NoUnit
  /\ graded = {}
  /\ flush = [t \in Threads |-> AtRest]
  /\ close = [pc |-> "idle", left |-> {}, flushed |-> TRUE, before |-> 0]
  /\ chain = [s \in Scopes |-> <<>>]
  /\ doubted = {} /\ failures = 0

-----------------------------------------------------------------------------
(* _submit, by any request thread.                                         *)
Offered(s, size) ==
  /\ Len(units) < MaxUnits
  /\ units' = Append(units, [scope |-> s, size |-> size])

New(size) == {<<Len(units) + 1, k>> : k \in 1..size}

(* _count_loss.                                                            *)
Lost(s, records) == [pending EXCEPT ![s] = @ \cup records]

(* Nobody is told: the worker has left or looks once more by itself.       *)
SubmitTooLate(s, size) ==
  /\ Offered(s, size)
  /\ closing
  /\ pending' = Lost(s, New(size))
  /\ UNCHANGED <<queueVars, backoff, final, closing, workerVars, flush, close,
                 storeVars>>

Overflows(size) == queued + size > QueueCapacity

SubmitTooMuch(s, size) ==
  /\ Offered(s, size)
  /\ ~ closing /\ Overflows(size)
  /\ pending' = Lost(s, New(size))
  /\ Notify
  /\ UNCHANGED <<queueVars, backoff, final, closing, unit, graded, flush, close,
                 storeVars>>

(* The unit carries the losses of its scope so far, to be declared first.  *)
Submit(s, size) ==
  /\ Offered(s, size)
  /\ ~ closing /\ ~ Overflows(size)
  /\ queue' = Append(queue, [scope |-> s, number |-> Len(units) + 1, size |-> size,
                             gap |-> pending[s]])
  /\ queued' = queued + size
  /\ pending' = [pending EXCEPT ![s] = {}]
  /\ Notify
  /\ UNCHANGED <<backoff, final, closing, unit, graded, flush, close, storeVars>>

-----------------------------------------------------------------------------
(* The worker: _drain and _next_unit.                                      *)
Takes(s, gap, records) ==
  /\ worker' = [worker EXCEPT !.pc = "append"]
  /\ unit' = [scope |-> s, todo |-> GapEntries(s, gap) \o records]
  /\ graded' = IF gap = {} THEN graded ELSE graded \cup {s}

TakesQueued ==
  /\ worker.pc = "look"
  /\ queue # <<>>
  /\ LET u == Head(queue) IN
     /\ Takes(u.scope, u.gap, RecordEntries(u.number, u.size))
     /\ queued' = queued - u.size
  /\ queue' = Tail(queue)
  /\ UNCHANGED <<units, pending, backoff, final, closing, flush, close, storeVars>>

(* _complete_flush, of every scope in S.                                   *)
Complete(S) ==
  /\ flush' = [t \in Threads |->
                 IF Waiting(t) /\ flush[t].scope \in S
                 THEN [flush[t] EXCEPT !.done = TRUE] ELSE flush[t]]
  /\ backoff' = backoff \ S

(* The scopes _next_unit goes through, in order, and the pending losses it *)
(* would try to declare now: each once more while closing, else those      *)
(* whose retry is due.                                                     *)
Considered == IF closing THEN Requested \cup Lossy ELSE Requested

Due(s) == IF closing THEN s \notin final ELSE s \notin backoff

Declarable == {s \in Considered \cap Lossy : Due(s)}

TakesPending ==
  /\ worker.pc = "look"
  /\ queue = <<>> /\ Declarable # {}
  /\ LET s == Min(Declarable) IN
     /\ Takes(s, pending[s], <<>>)
     /\ Complete({x \in Considered \ Lossy : x < s})
     /\ pending' = [pending EXCEPT ![s] = {}]
     /\ final' = IF closing THEN final \cup {s} ELSE final
  /\ UNCHANGED <<units, queueVars, closing, close, storeVars>>

(* Mutant: a flush completes over losses whose retry is not due.           *)
FindsNothingDue ==
  /\ worker.pc = "look"
  /\ queue = <<>> /\ Declarable = {}
  /\ Complete(Considered)
  /\ worker' = IF closing /\ Lossy \subseteq final
               THEN [pc |-> "gone", alarm |-> {}]
               ELSE [pc |-> "wait", alarm |-> Requested \cap Lossy \cap backoff]
  /\ UNCHANGED <<units, queueVars, pending, final, closing, unit, graded, close, storeVars>>

(* Nothing to append: the worker leaves, or waits until it is notified or  *)
(* a requested retry is due (_retryable_pending, _idle_timeout).           *)
FindsNothing ==
  /\ worker.pc = "look"
  /\ queue = <<>> /\ Declarable = {}
  /\ Complete(Considered \ Lossy)
  /\ worker' = IF closing /\ Lossy \subseteq final
               THEN [pc |-> "gone", alarm |-> {}]
               ELSE [pc |-> "wait", alarm |-> Requested \cap Lossy \cap backoff]
  /\ UNCHANGED <<units, queueVars, pending, final, closing, unit, graded, close,
                 storeVars>>

RetryComesDue(s) ==
  /\ s \in backoff
  /\ backoff' = backoff \ {s}
  /\ worker' = IF worker.pc = "wait" /\ s \in worker.alarm
               THEN [pc |-> "look", alarm |-> {}] ELSE worker
  /\ UNCHANGED <<units, queueVars, pending, final, closing, unit, graded, flush,
                 close, storeVars>>

(* One append, outside the lock.                                           *)
Lands == chain' = [chain EXCEPT ![unit.scope] = Append(@, Head(unit.todo))]

Appends ==
  /\ worker.pc = "append"
  /\ unit.todo # <<>>
  /\ Lands
  /\ unit' = [unit EXCEPT !.todo = Tail(@)]
  /\ UNCHANGED <<units, queueVars, pending, backoff, final, closing, worker, graded,
                 flush, close, doubted, failures>>

(* The store raises, with nothing kept or, when only the sync failed, with *)
(* the entry on disk.                                                      *)
Raises ==
  /\ worker.pc = "append"
  /\ unit.todo # <<>>
  /\ failures < MaxFailures
  /\ failures' = failures + 1
  /\ \/ UNCHANGED <<chain, doubted>>
     \/ Lands /\ doubted' = doubted \cup Head(unit.todo).of
  /\ worker' = [worker EXCEPT !.pc = "failed"]
  /\ UNCHANGED <<units, queueVars, pending, backoff, final, closing, unit, graded,
                 flush, close>>

Settles ==
  /\ worker.pc = "append"
  /\ unit.todo = <<>>
  /\ backoff' = backoff \ {unit.scope}
  /\ worker' = [worker EXCEPT !.pc = "look"]
  /\ unit' = NoUnit
  /\ UNCHANGED <<units, queueVars, pending, final, closing, graded, flush, close, storeVars>>

(* What the failed unit still owed: its gap if it was not written, and the *)
(* records from the refused one on.  A daemon's grade is not a loss.       *)
Owed == UNION {unit.todo[i].of : i \in DOMAIN unit.todo}

(* Mutant: the losses counted meanwhile are replaced, not joined.          *)
SettlesFailedOver ==
  /\ worker.pc = "failed"
  /\ pending' = [pending EXCEPT ![unit.scope] = IF Owed = {} THEN @ ELSE Owed]
  /\ backoff' = backoff \cup {unit.scope}
  /\ worker' = [worker EXCEPT !.pc = "look"]
  /\ unit' = NoUnit
  /\ UNCHANGED <<units, queueVars, final, closing, graded, flush, close, storeVars>>

(* _restore_gap, _count_loss and _back_off.                                *)
SettlesFailed ==
  /\ worker.pc = "failed"
  /\ pending' = Lost(unit.scope, Owed)
  /\ backoff' = backoff \cup {unit.scope}
  /\ worker' = [worker EXCEPT !.pc = "look"]
  /\ unit' = NoUnit
  /\ UNCHANGED <<units, queueVars, final, closing, graded, flush, close, storeVars>>

Worker ==
  \/ TakesQueued \/ TakesPending \/ FindsNothing
  \/ Appends \/ Raises \/ Settles \/ SettlesFailed

-----------------------------------------------------------------------------
(* Mutant: the worker is not notified of a request.                        *)
RequestUnheard(t, s) ==
  /\ flush' = [flush EXCEPT ![t] = [pc |-> "waiting", scope |-> s, done |-> FALSE,
                                    before |-> Len(units)]]
  /\ UNCHANGED worker

(* flush(scope): the request is notified, and stands until it returns.     *)
Request(t, s) ==
  /\ flush' = [flush EXCEPT ![t] = [pc |-> "waiting", scope |-> s, done |-> FALSE,
                                    before |-> Len(units)]]
  /\ Notify


FlushBegins(f, s) ==
  /\ flush[f].pc = "idle"
  /\ Request(f, s)
  /\ UNCHANGED <<units, queueVars, pending, backoff, final, closing, unit, graded,
                 close, storeVars>>

FlushReturns(t) ==
  /\ Waiting(t) /\ flush[t].done
  /\ flush' = [flush EXCEPT ![t].pc = "true"]
  /\ UNCHANGED <<units, queueVars, pending, backoff, final, closing, workerVars,
                 close, storeVars>>

FlushTimesOut(t) ==
  /\ Waiting(t) /\ ~ flush[t].done
  /\ flush' = [flush EXCEPT ![t] = [AtRest EXCEPT !.pc = "false"]]
  /\ UNCHANGED <<units, queueVars, pending, backoff, final, closing, workerVars,
                 close, storeVars>>

(* close(): the scopes with anything held or graded, each flushed in turn  *)
(* until one times out.  Every emission grades its scope.                  *)
Held == Lossy \cup {queue[i].scope : i \in DOMAIN queue} \cup {units[i].scope : i \in DOMAIN units}
             \cup graded

CloseBegins ==
  /\ close.pc = "idle"
  /\ close' = [pc |-> "flush", left |-> Held, flushed |-> TRUE, before |-> Len(units)]
  /\ UNCHANGED <<units, queueVars, pending, backoff, final, closing, workerVars,
                 flush, storeVars>>

(* The grades are read under the condition and written under a lock of     *)
(* their own: a new one under the iteration raises, and nothing is closed. *)
CloseRaises ==
  /\ close.pc = "idle"
  /\ graded # {} \/ units # <<>>
  /\ Len(units) < MaxUnits
  /\ close' = [close EXCEPT !.pc = "raised"]
  /\ UNCHANGED <<units, queueVars, pending, backoff, final, closing, workerVars,
                 flush, storeVars>>

CloseFlushes ==
  /\ close.pc = "flush"
  /\ flush[Closer].pc \in {"idle", "true"} /\ close.left # {}
  /\ Request(Closer, Min(close.left))
  /\ close' = [close EXCEPT !.left = @ \ {Min(close.left)}]
  /\ UNCHANGED <<units, queueVars, pending, backoff, final, closing, unit, graded,
                 storeVars>>

CloseMarks ==
  /\ close.pc = "flush"
  /\ ~ Waiting(Closer)
  /\ flush[Closer].pc = "false" \/ close.left = {}
  /\ closing' = TRUE
  /\ Notify
  /\ close' = [close EXCEPT !.pc = "join", !.flushed = flush[Closer].pc # "false"]
  /\ UNCHANGED <<units, queueVars, pending, backoff, final, unit, graded, flush,
                 storeVars>>

(* The worker is joined for as long as the timeout allows.                 *)
CloseJoins ==
  /\ close.pc = "join"
  /\ close' = [close EXCEPT !.pc = IF close.flushed /\ worker.pc = "gone" THEN "true" ELSE "false"]
  /\ UNCHANGED <<units, queueVars, pending, backoff, final, closing, workerVars,
                 flush, storeVars>>

Next ==
  \/ \E s \in Scopes, size \in UnitSizes :
       SubmitTooLate(s, size) \/ SubmitTooMuch(s, size) \/ Submit(s, size)
  \/ Worker
  \/ \E s \in Scopes : RetryComesDue(s)
  \/ \E f \in Flushers, s \in Scopes : FlushBegins(f, s)
  \/ \E t \in Threads : FlushReturns(t) \/ FlushTimesOut(t)
  \/ CloseBegins \/ CloseRaises \/ CloseFlushes \/ CloseMarks \/ CloseJoins

Spec == Init /\ [][Next]_vars

(* The worker runs and retries come due.  Nobody has to emit, to flush or  *)
(* to close, no timeout has to strike, and the store fails finitely often. *)
FairSpec ==
  /\ Spec
  /\ WF_vars(Worker)
  /\ \A s \in Scopes : WF_vars(RetryComesDue(s))
  /\ \A t \in Threads : WF_vars(FlushReturns(t))

-----------------------------------------------------------------------------
(* Every variable has its type.                                            *)
Record == (1..MaxUnits) \X UNION {1..k : k \in UnitSizes}
Entries == [kind: {"grade", "gap", "record"}, of: SUBSET Record]

TypeOK ==
  /\ units \in Seq([scope: Scopes, size: UnitSizes]) /\ Len(units) <= MaxUnits
  /\ queue \in Seq([scope: Scopes, number: 1..MaxUnits, size: UnitSizes, gap: SUBSET Record])
  /\ queued \in Nat
  /\ pending \in [Scopes -> SUBSET Record]
  /\ backoff \subseteq Scopes /\ final \subseteq Scopes /\ graded \subseteq Scopes
  /\ closing \in BOOLEAN
  /\ worker \in [pc: {"look", "wait", "append", "failed", "gone"}, alarm: SUBSET Scopes]
  /\ unit \in [scope: Scopes, todo: Seq(Entries)]
  /\ flush \in [Threads -> [pc: {"idle", "waiting", "true", "false"}, scope: Scopes,
                            done: BOOLEAN, before: 0..MaxUnits]]
  /\ close \in [pc: {"idle", "flush", "join", "true", "false", "raised"}, left: SUBSET Scopes,
                flushed: BOOLEAN, before: 0..MaxUnits]
  /\ chain \in [Scopes -> Seq(Entries)]
  /\ doubted \subseteq Record /\ failures \in 0..MaxFailures

(* The places a record is in: on the chain, in a gap on the chain, in the  *)
(* queue or its gaps, in the worker's hands, or counted as a loss.         *)
Places(r, s) ==
  Cardinality({i \in DOMAIN chain[s] : r \in chain[s][i].of})
  + Cardinality({i \in DOMAIN queue : r \in queue[i].gap \/ (r[1] = queue[i].number)})
  + Cardinality({i \in DOMAIN unit.todo : r \in unit.todo[i].of})
  + (IF r \in pending[s] THEN 1 ELSE 0)

(* It is in one of them.  Only one whose append raised with the entry on   *)
(* disk may be both on the chain and declared or held again.               *)
InOnePlace ==
  \A n \in DOMAIN units : \A r \in RecordsOf(n) :
    LET places == Places(r, units[n].scope) IN
    places >= 1 /\ (r \notin doubted => places = 1)

(* The count that admits units is the number of records queued.            *)
QueuedRecords == UNION {RecordsOf(queue[i].number) : i \in DOMAIN queue}

QueueIsBounded ==
  /\ queued = Cardinality(QueuedRecords)
  /\ queued <= QueueCapacity

(* A flush, or a close, that answers true has put everything submitted     *)
(* before it on the chain, as a record or in a declared gap.               *)
Recorded(n) == \A r \in RecordsOf(n) :
  \E i \in DOMAIN chain[units[n].scope] : r \in chain[units[n].scope][i].of

FlushTellsTheTruth ==
  /\ \A t \in Threads : flush[t].pc = "true" =>
       \A n \in 1..flush[t].before : units[n].scope = flush[t].scope => Recorded(n)
  /\ close.pc = "true" => \A n \in 1..close.before : Recorded(n)

(* While the store accepts, a gap stands where the loss happened: between  *)
(* the records submitted before the losses it declares and those submitted *)
(* after, behind the daemon's own grade.                                   *)
GapsStandWhereTheyHappened ==
  failures = 0 =>
    \A s \in Scopes : \A i, j \in DOMAIN chain[s] : i < j =>
      /\ \A r \in chain[s][i].of, q \in chain[s][j].of : r[1] <= q[1]
      /\ chain[s][j].kind = "gap" => \E k \in 1..(j - 1) : chain[s][k].kind = "grade"

(* No record is lost silently: every record submitted is in exactly one    *)
(* place, the queue within its bound, and a loss is declared at the point  *)
(* of the chain where it happened (_submit, _count_loss, _restore_gap).    *)
EveryRecordIsAccounted ==
  TypeOK /\ InOnePlace /\ QueueIsBounded /\ GapsStandWhereTheyHappened

-----------------------------------------------------------------------------
(* Nobody waits for the worker for good, though no timeout strikes: a      *)
(* flush of a store that accepts, again or still, is completed, unless the *)
(* emitter is closed under it, and closing ends the worker, whatever the   *)
(* store does (flush, _idle_timeout, close).                               *)
WaitingEnds ==
  /\ \A t \in Threads : Waiting(t) ~> ~ Waiting(t) \/ closing
  /\ closing ~> worker.pc = "gone"

-----------------------------------------------------------------------------
(* What makes them inductive.                                              *)

(* Every unit keeps to its scope: what is queued is what was submitted,    *)
(* and a gap is of earlier records.                                        *)
RecordsIn(s) == UNION {RecordsOf(n) : n \in {m \in DOMAIN units : units[m].scope = s}}

ScopeShape ==
  /\ \A s \in Scopes :
       /\ pending[s] \subseteq RecordsIn(s)
       /\ \A i \in DOMAIN chain[s] : chain[s][i].of \subseteq RecordsIn(s)
  /\ \A i \in DOMAIN queue :
       /\ queue[i].number \in DOMAIN units
       /\ units[queue[i].number] = [scope |-> queue[i].scope, size |-> queue[i].size]
       /\ queue[i].gap \subseteq RecordsIn(queue[i].scope)
       /\ \A r \in queue[i].gap : r[1] < queue[i].number
  /\ \A i \in DOMAIN unit.todo : unit.todo[i].of \subseteq RecordsIn(unit.scope)

(* Units are queued in the order of their submission.                      *)
QueueShape == \A i, j \in DOMAIN queue : i < j => queue[i].number < queue[j].number

(* The worker holds a unit while it appends it, and has failed only when   *)
(* the store has raised.                                                   *)
WorkerShape ==
  /\ worker.pc \notin {"append", "failed"} => unit.todo = <<>>
  /\ worker.pc = "failed" => failures # 0

(* A record is somewhere, and nowhere twice.                               *)
OnChain(r) == \E s \in Scopes : \E i \in DOMAIN chain[s] : r \in chain[s][i].of
InQueue(r, i) == r \in queue[i].gap \/ r[1] = queue[i].number
Queued(r) == \E i \in DOMAIN queue : InQueue(r, i)
Taken(r) == \E i \in DOMAIN unit.todo : r \in unit.todo[i].of
Undeclared(r) == \E s \in Scopes : r \in pending[s]

Somewhere(r) == OnChain(r) \/ Queued(r) \/ Taken(r) \/ Undeclared(r)

NotTwice(r) ==
  /\ OnChain(r) => ~ Queued(r) /\ ~ Taken(r) /\ ~ Undeclared(r)
  /\ Queued(r) => ~ Taken(r) /\ ~ Undeclared(r)
  /\ Taken(r) => ~ Undeclared(r)
  /\ \A s \in Scopes : \A i, j \in DOMAIN chain[s] :
       r \in chain[s][i].of /\ r \in chain[s][j].of => i = j
  /\ \A i, j \in DOMAIN queue : InQueue(r, i) /\ InQueue(r, j) => i = j
  /\ \A i, j \in DOMAIN unit.todo : r \in unit.todo[i].of /\ r \in unit.todo[j].of => i = j

PlaceShape ==
  \A n \in DOMAIN units : \A r \in RecordsOf(n) : Somewhere(r) /\ (r \notin doubted => NotTwice(r))

(* While the store accepts, records go through the pipeline in the order   *)
(* of their submission, and a gap behind the grade of its scope.           *)
Before(R, Q) == \A r \in R, q \in Q : r[1] <= q[1]
QueuedAt(i) == queue[i].gap \cup RecordsOf(queue[i].number)
Graded(s) == \E k \in DOMAIN chain[s] : chain[s][k].kind = "grade"

ChainOrder ==
  \A s \in Scopes : \A i, j \in DOMAIN chain[s] :
    i < j => Before(chain[s][i].of, chain[s][j].of)
ChainThenTodo ==
  \A s \in Scopes : \A i \in DOMAIN chain[s], j \in DOMAIN unit.todo :
    unit.scope = s => Before(chain[s][i].of, unit.todo[j].of)
ChainThenQueue ==
  \A s \in Scopes : \A i \in DOMAIN chain[s], j \in DOMAIN queue :
    queue[j].scope = s => Before(chain[s][i].of, QueuedAt(j))
ChainThenLoss ==
  \A s \in Scopes : \A i \in DOMAIN chain[s] : Before(chain[s][i].of, pending[s])
TodoOrder ==
  \A i, j \in DOMAIN unit.todo : i < j => Before(unit.todo[i].of, unit.todo[j].of)
TodoThenQueue ==
  \A i \in DOMAIN unit.todo, j \in DOMAIN queue :
    queue[j].scope = unit.scope => Before(unit.todo[i].of, QueuedAt(j))
TodoThenLoss ==
  \A i \in DOMAIN unit.todo : Before(unit.todo[i].of, pending[unit.scope])
QueueOrder ==
  \A i, j \in DOMAIN queue :
    i < j /\ queue[i].scope = queue[j].scope => Before(QueuedAt(i), QueuedAt(j))
QueueThenLoss ==
  \A i \in DOMAIN queue : Before(QueuedAt(i), pending[queue[i].scope])

Ordered ==
  /\ ChainOrder /\ ChainThenTodo /\ ChainThenQueue /\ ChainThenLoss
  /\ TodoOrder /\ TodoThenQueue /\ TodoThenLoss
  /\ QueueOrder /\ QueueThenLoss

OrderShape == failures = 0 => Ordered

GradeShape ==
  failures = 0 =>
    /\ \A s \in Scopes : \A j \in DOMAIN chain[s] :
         chain[s][j].kind = "gap" => \E k \in 1..(j - 1) : chain[s][k].kind = "grade"
    /\ \A j \in DOMAIN unit.todo :
         unit.todo[j].kind = "gap" =>
           Graded(unit.scope) \/ \E k \in 1..(j - 1) : unit.todo[k].kind = "grade"
    /\ \A s \in graded :
         Graded(s) \/ (unit.scope = s /\ \E k \in DOMAIN unit.todo : unit.todo[k].kind = "grade")

(* A flush completes over what is recorded; a close goes from scope to     *)
(* scope.                                                                  *)
FlushShape ==
  /\ \A t \in Threads :
       /\ flush[t].before <= Len(units)
       /\ flush[t].pc = "true" \/ (Waiting(t) /\ flush[t].done) =>
            \A n \in 1..flush[t].before : units[n].scope = flush[t].scope => Recorded(n)
  /\ close.before <= Len(units)
  /\ close.pc = "flush" /\ flush[Closer].pc # "false" =>
       \A n \in 1..close.before :
         \/ Recorded(n) \/ units[n].scope \in close.left
         \/ /\ Waiting(Closer) /\ flush[Closer].scope = units[n].scope
            /\ close.before <= flush[Closer].before
  /\ close.pc \in {"join", "true"} /\ close.flushed => \A n \in 1..close.before : Recorded(n)
  /\ close.pc = "true" => close.flushed

PipelineInv ==
  /\ TypeOK /\ ScopeShape /\ QueueShape /\ WorkerShape /\ PlaceShape /\ QueueIsBounded
  /\ OrderShape /\ GradeShape /\ FlushShape
=============================================================================
