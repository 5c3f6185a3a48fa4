------------------------------ MODULE Boundary ------------------------------
(***************************************************************************)
(* The in-process boundary (sayfirst_boundary/boundary.py, cache.py,       *)
(* signals.py, freshness.py) as several threads of a governed program use  *)
(* it: ask on a miss, act on a held grant, one reader thread per grant,    *)
(* and the outcome log (module OutcomeLog).                                *)
(*                                                                         *)
(* The control plane and the socket are external: a grant's stream carries *)
(* heartbeats and an ending, late or never, and may end.  A question       *)
(* stands for the whole key of a grant.  Closing a channel waits for the   *)
(* buffered reader another thread is blocked in, until that read returns.  *)
(***************************************************************************)
EXTENDS OutcomeLog

CONSTANTS
  Questions,
  NoThread,      \* nobody holds the lock
  Lifetime,      \* Grant.lifetime_seconds
  Horizon,       \* bound: instants
  MaxGrants,     \* bound: grants ever held
  MaxRequests,   \* bound: requests
  MaxFlushes     \* bound: flushes and closes of the boundary

ASSUME BoundaryAssumption ==
  /\ NoThread \notin Threads
  /\ Lifetime \in Nat \ {0} /\ Horizon \in Nat /\ MaxGrants \in Nat
  /\ MaxRequests \in Nat /\ MaxFlushes \in Nat

VARIABLES
  holds,      \* Boundary._hold_grants
  now,        \* the one clock of the host
  readers,    \* every SignalReader, in order of its grant
  held,       \* GrantStore._held: the reader's number, or 0
  lock,       \* the thread in GrantStore._lock, or NoThread
  pc, asked, judged, using, \* per thread: its place, question, `now`, reader
  giving,     \* the readers a thread still has to close
  requests, flushes

cacheVars == <<holds, readers, held, lock, pc, asked, judged, using, giving, requests, flushes>>
vars == <<cacheVars, now, logVars>>

Numbers == 1..MaxGrants
ReaderType ==
  [question: Questions, issued: 0..Horizon, heard: 0..Horizon, live: BOOLEAN,
   ended: BOOLEAN, thread: {"reading", "done"}, closed: BOOLEAN,
   stream: Seq([kind: {"heartbeat", "ended"}, at: 0..Horizon]),
   over: 0..(Horizon + 1)]

TypeOK ==
  /\ LogTypeOK
  /\ holds \in BOOLEAN /\ now \in 0..Horizon
  /\ readers \in Seq(ReaderType) /\ Len(readers) <= MaxGrants
  /\ held \in [Questions -> 0..Len(readers)]
  /\ lock \in Threads \cup {NoThread}
  /\ pc \in [Threads -> {"idle", "take", "drop", "ask", "put", "displace", "body",
                         "give"}]
  /\ asked \in [Threads -> Questions] /\ judged \in [Threads -> 0..Horizon]
  /\ using \in [Threads -> 0..Len(readers)]
  /\ giving \in [Threads -> SUBSET Numbers]
  /\ requests \in 0..MaxRequests /\ flushes \in 0..MaxFlushes

Init ==
  /\ LogInit
  /\ holds \in BOOLEAN /\ now = 0
  /\ readers = <<>> /\ held = [q \in Questions |-> 0] /\ lock = NoThread
  /\ pc = [t \in Threads |-> "idle"]
  /\ asked \in {[t \in Threads |-> q] : q \in Questions}
  /\ judged = [t \in Threads |-> 0] /\ using = [t \in Threads |-> 0]
  /\ giving = [t \in Threads |-> {}]
  /\ requests = 0 /\ flushes = 0

Free(t) == pc[t] = "idle" /\ At(t, "outside")
To(t, place) == pc' = [pc EXCEPT ![t] = place]
Never == Horizon + 1
-----------------------------------------------------------------------------
(* The other end of a grant's connection, and the time.                    *)
Tick == now < Horizon /\ now' = now + 1 /\ UNCHANGED <<cacheVars, logVars>>

Sends(r, kind) ==
  readers' = [readers EXCEPT ![r].stream = Append(@, [kind |-> kind, at |-> now])]

(* What is sent once nobody reads it is not looked at.                     *)
Listened(r) == readers[r].thread = "reading" /\ ~ readers[r].closed

Heartbeats(r) ==
  /\ Listened(r) /\ readers[r].stream = <<>> /\ readers[r].heard < now
  /\ Sends(r, "heartbeat")
  /\ UNCHANGED <<holds, now, held, lock, pc, asked, judged, using, giving, requests, flushes, logVars>>

(* An ending is the last thing the plane says; its close may come late.    *)
EndsGrant(r) ==
  /\ Listened(r)
  /\ \A i \in DOMAIN readers[r].stream : readers[r].stream[i].kind # "ended"
  /\ ~ readers[r].ended
  /\ Sends(r, "ended")
  /\ UNCHANGED <<holds, now, held, lock, pc, asked, judged, using, giving, requests, flushes, logVars>>

-----------------------------------------------------------------------------
(* SignalReader._apply: an ending is final.                                *)
Applied(r, signal) ==
  IF r.ended THEN r
  ELSE [r EXCEPT !.heard = signal.at, !.ended = signal.kind = "ended",
                 !.over = IF signal.kind = "ended" /\ @ = Never THEN now ELSE @]

(* Every way out of the loop ends the grant.                               *)
Ended(r) ==
  [r EXCEPT !.thread = "done", !.live = FALSE, !.stream = <<>>,
            !.over = IF @ = Never THEN now ELSE @]

(* _read_until_the_channel_ends: a frame; or the peer's close, a reset, a  *)
(* frame that does not read, a timeout, or a channel that was closed.      *)
ReadsSignal(r) ==
  /\ readers[r].thread = "reading" /\ readers[r].stream # <<>> /\ ~ readers[r].closed
  /\ readers' = [readers EXCEPT
       ![r] = [Applied(readers[r], Head(readers[r].stream)) EXCEPT !.stream = Tail(@)]]
  /\ UNCHANGED <<holds, now, held, lock, pc, asked, judged, using, giving, requests, flushes, logVars>>

StopsReading(r) ==
  /\ readers[r].thread = "reading"
  /\ readers' = [readers EXCEPT ![r] = Ended(readers[r])]
  /\ UNCHANGED <<holds, now, held, lock, pc, asked, judged, using, giving, requests, flushes, logVars>>

-----------------------------------------------------------------------------
(* Mutant: a grant is good until a lifetime after it last spoke.           *)
EndingRenewed(r, q, at) ==
  CASE ~ r.live -> "connection_lost"
    [] r.live /\ r.ended -> "by_signal"
    [] OTHER -> IF at - r.heard >= Lifetime THEN "silent" ELSE "live"

(* freshness.ending, over grant_use.                                       *)
Ending(r, q, at) ==
  CASE ~ r.live -> "connection_lost"
    [] r.live /\ r.ended -> "by_signal"
    [] r.live /\ ~ r.ended /\ at >= r.issued + Lifetime -> "expired"
    [] OTHER -> IF at - r.heard >= Lifetime THEN "silent"
                ELSE IF r.question # q THEN "conditions_differ" ELSE "live"

(* SignalReader.close marks the grant first; the channel's own close waits *)
(* for a read in progress.                                                 *)
Abandoned(n) ==
  [readers EXCEPT ![n].live = FALSE, ![n].closed = TRUE,
                  ![n].over = IF @ = Never THEN now ELSE @]
IsClosed(n) == readers[n].closed /\ readers[n].thread = "done"

(* Boundary.request reads the clock, then looks in the store.  (Arguments  *)
(* that have no digest raise before anything is asked.)                    *)
Begins(t, q) ==
  /\ Free(t) /\ requests < MaxRequests
  /\ requests' = requests + 1
  /\ asked' = [asked EXCEPT ![t] = q] /\ judged' = [judged EXCEPT ![t] = now]
  /\ using' = [using EXCEPT ![t] = 0]
  /\ To(t, IF holds THEN "take" ELSE "ask")
  /\ UNCHANGED <<holds, now, readers, held, lock, giving, flushes, logVars>>

(* GrantStore.take: a live grant, or none; an ended one is given up.       *)
Takes(t) ==
  /\ pc[t] = "take" /\ lock = NoThread
  /\ LET n == held[asked[t]] IN
     \/ /\ n = 0 /\ To(t, "ask") /\ UNCHANGED <<readers, held, lock, using>>
     \/ /\ n # 0 /\ Ending(readers[n], asked[t], judged[t]) = "live"
        /\ using' = [using EXCEPT ![t] = n] /\ To(t, "body")
        /\ UNCHANGED <<readers, held, lock>>
     \/ /\ n # 0 /\ Ending(readers[n], asked[t], judged[t]) # "live"
        /\ held' = [held EXCEPT ![asked[t]] = 0]
        /\ readers' = Abandoned(n)
        /\ using' = [using EXCEPT ![t] = n] /\ lock' = t /\ To(t, "drop")
  /\ UNCHANGED <<holds, now, asked, judged, giving, requests, flushes, logVars>>

(* Mutant: the lock is kept on the way out.                                *)
DropsLocked(t) ==
  /\ pc[t] = "drop" /\ IsClosed(using[t])
  /\ using' = [using EXCEPT ![t] = 0] /\ To(t, "ask")
  /\ UNCHANGED <<holds, now, readers, held, lock, asked, judged, giving, requests, flushes, logVars>>

Drops(t) ==
  /\ pc[t] = "drop" /\ IsClosed(using[t])
  /\ lock' = NoThread /\ using' = [using EXCEPT ![t] = 0] /\ To(t, "ask")
  /\ UNCHANGED <<holds, now, readers, held, asked, judged, giving, requests, flushes, logVars>>

(* Boundary._ask: anything but an allow raises.                            *)
AskRaises(t) ==
  /\ pc[t] = "ask" /\ To(t, "idle")
  /\ UNCHANGED <<holds, now, readers, held, lock, asked, judged, using, giving, requests, flushes, logVars>>

(* An allow without a grant, or one that is not held.                      *)
AskAllows(t) ==
  /\ pc[t] = "ask" /\ To(t, "body")
  /\ UNCHANGED <<holds, now, readers, held, lock, asked, judged, using, giving, requests, flushes, logVars>>

(* SignalReader.__init__, its thread started.                              *)
NewReader(q) ==
  [question |-> q, issued |-> now, heard |-> now, live |-> TRUE, ended |-> FALSE,
   thread |-> "reading", closed |-> FALSE, stream |-> <<>>, over |-> Never]

AskGrants(t) ==
  /\ pc[t] = "ask" /\ holds /\ Len(readers) < MaxGrants
  /\ readers' = Append(readers, NewReader(asked[t]))
  /\ using' = [using EXCEPT ![t] = Len(readers) + 1] /\ To(t, "put")
  /\ UNCHANGED <<holds, now, held, lock, asked, judged, giving, requests, flushes, logVars>>

(* Mutant: the reader displaced is left as it is.                          *)
PutsOver(t) ==
  /\ pc[t] = "put" /\ lock = NoThread
  /\ held' = [held EXCEPT ![asked[t]] = using[t]] /\ To(t, "body")
  /\ UNCHANGED <<holds, now, readers, lock, asked, judged, using, giving, requests, flushes, logVars>>

(* GrantStore.put closes what it displaces.                                *)
Puts(t) ==
  /\ pc[t] = "put" /\ lock = NoThread
  /\ LET n == held[asked[t]] IN
     IF n = 0
     THEN held' = [held EXCEPT ![asked[t]] = using[t]] /\ To(t, "body") /\ UNCHANGED <<readers, lock>>
     ELSE readers' = Abandoned(n) /\ lock' = t /\ To(t, "displace") /\ UNCHANGED held
  /\ UNCHANGED <<holds, now, asked, judged, using, giving, requests, flushes, logVars>>

Displaces(t) ==
  /\ pc[t] = "displace" /\ IsClosed(held[asked[t]])
  /\ held' = [held EXCEPT ![asked[t]] = using[t]]
  /\ lock' = NoThread /\ To(t, "body")
  /\ UNCHANGED <<holds, now, readers, asked, judged, using, giving, requests, flushes, logVars>>

(* The body ends, and its outcome is recorded, by it or for it.            *)
Acts(t) ==
  /\ pc[t] = "body" /\ To(t, "idle")
  /\ RecordBegins(t)
  /\ judged' = [judged EXCEPT ![t] = 0] /\ using' = [using EXCEPT ![t] = 0]
  /\ UNCHANGED <<holds, now, readers, held, lock, asked, giving, requests, flushes>>

(* Boundary.flush, and Boundary.close: the store is emptied under its      *)
(* lock, and the channels closed outside it.                               *)
Flushes(t) ==
  /\ Free(t) /\ flushes < MaxFlushes /\ flushes' = flushes + 1
  /\ FlushBegins(t)
  /\ UNCHANGED <<holds, now, readers, held, lock, pc, asked, judged, using, giving, requests>>

Closes(t) ==
  /\ Free(t) /\ flushes < MaxFlushes /\ flushes' = flushes + 1
  /\ lock = NoThread
  /\ giving' = [giving EXCEPT ![t] = {held[q] : q \in Questions} \ {0}]
  /\ held' = [q \in Questions |-> 0]
  /\ To(t, "give")
  /\ UNCHANGED <<holds, now, readers, lock, asked, judged, using, requests, logVars>>

GivesUp(t, n) ==
  /\ pc[t] = "give" /\ n \in giving[t]
  /\ IF readers[n].closed
     THEN IsClosed(n) /\ giving' = [giving EXCEPT ![t] = @ \ {n}] /\ UNCHANGED readers
     ELSE readers' = Abandoned(n) /\ UNCHANGED giving
  /\ UNCHANGED <<holds, now, held, lock, pc, asked, judged, using, requests, flushes, logVars>>

ClosedAll(t) ==
  /\ pc[t] = "give" /\ giving[t] = {}
  /\ FlushBegins(t) /\ To(t, "idle")
  /\ UNCHANGED <<holds, now, readers, held, lock, asked, judged, using, giving, requests, flushes>>

Logs(t) == LogStep(t) /\ UNCHANGED <<cacheVars, now>>

Thread(t) ==
  \/ Takes(t) \/ Drops(t) \/ AskRaises(t) \/ AskAllows(t) \/ AskGrants(t)
  \/ Puts(t) \/ Displaces(t) \/ Acts(t)
  \/ (\E n \in DOMAIN readers : GivesUp(t, n)) \/ ClosedAll(t) \/ Logs(t)

Calls(t) == (\E q \in Questions : Begins(t, q)) \/ Flushes(t) \/ Closes(t)

Next ==
  \/ \E t \in Threads : Thread(t) \/ Calls(t)
  \/ \E r \in DOMAIN readers :
       Heartbeats(r) \/ EndsGrant(r) \/ ReadsSignal(r) \/ StopsReading(r)
  \/ Tick

(* Threads run, and a read ends: the client's sockets carry a timeout.     *)
Spec ==
  /\ Init /\ [][Next]_vars
  /\ \A t \in Threads : WF_vars(Thread(t))
  /\ \A r \in Numbers : WF_vars(r \in DOMAIN readers /\ StopsReading(r))
-----------------------------------------------------------------------------
(* Two threads that miss on one question each come back with a grant: no   *)
(* reader is left open that the store, or a thread about to store or close *)
(* it, does not have.  "Invisible to the store and to close()" is what the *)
(* lock of GrantStore is for.                                              *)
NoOrphanReader ==
  \A r \in DOMAIN readers : readers[r].live =>
    \/ \E q \in Questions : held[q] = r
    \/ \E t \in Threads : r \in giving[t] \/ (pc[t] \in {"put", "displace"} /\ using[t] = r)

(* A thread that acts on a held grant asked its question, within the       *)
(* grant's lifetime, and before the reader knew of any ending: a signal    *)
(* that overtakes the judgement is the only one it misses.                 *)
HitsAreFresh ==
  /\ TypeOK
  /\ \A t \in Threads : pc[t] = "body" /\ using[t] # 0 =>
       LET r == readers[using[t]] IN
       /\ r.question = asked[t]
       /\ judged[t] < r.issued + Lifetime
       /\ r.over >= judged[t]

-----------------------------------------------------------------------------
(* What makes them inductive.  A thread in the store's lock, or behind it, *)
(* has a reader of its own; a reader closed is dead before its channel is; *)
(* a thread's `now` is never ahead of the clock.                           *)
InPlace(t) ==
  /\ pc[t] # "idle" => At(t, "outside")
  /\ lock = t <=> pc[t] \in {"drop", "displace"}
  /\ giving[t] # {} => pc[t] = "give"
  /\ giving[t] \subseteq DOMAIN readers
  /\ judged[t] <= now
  /\ pc[t] \in {"take", "ask"} => using[t] = 0
  /\ pc[t] \in {"drop", "put", "displace"} => using[t] # 0
  /\ pc[t] = "displace" => held[asked[t]] # 0 /\ ~ readers[held[asked[t]]].live

Fresh(t) ==
  pc[t] \in {"put", "displace", "body"} /\ using[t] # 0 =>
    /\ readers[using[t]].question = asked[t]
    /\ judged[t] < readers[using[t]].issued + Lifetime
    /\ readers[using[t]].over >= judged[t]

ReaderShape ==
  \A r \in DOMAIN readers :
    /\ readers[r].live /\ ~ readers[r].ended => readers[r].over = Never
    /\ readers[r].closed => ~ readers[r].live

BoundaryInv ==
  /\ TypeOK /\ ReaderShape /\ NoOrphanReader /\ LogInv
  /\ \A t \in Threads : InPlace(t) /\ Fresh(t)

-----------------------------------------------------------------------------
(* No thread waits for good, whatever the plane does: a request, neither   *)
(* for the store's lock nor for a channel another thread reads; and a      *)
(* reader given up ends, its thread does not outlive it (GrantStore,       *)
(* SignalReader.close).                                                    *)
ThreadsEnd ==
  /\ \A t \in Threads : ~ Free(t) ~> Free(t)
  /\ \A r \in Numbers :
       (r \in DOMAIN readers /\ readers[r].closed)
         ~> (r \in DOMAIN readers /\ readers[r].thread = "done")
=============================================================================
