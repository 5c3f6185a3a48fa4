------------------------------- MODULE Grants -------------------------------
(***************************************************************************)
(* Grants and the connections that issued them: the registry               *)
(* (application/grants.py), the policy service that notices a new version  *)
(* and tells it (application/policy.py), the part of DecisionService.ask   *)
(* that reserves, delivers and registers (application/decisions.py), the   *)
(* watch that holds an issuing connection (adapters/http_surface.py) and   *)
(* the writer of its stream (adapters/api/decision_routes.py).             *)
(*                                                                         *)
(* Every request runs on a thread of its own, asks one question and keeps  *)
(* that thread while it holds the grant it was given, so a grant is named  *)
(* by its request.  A step is the code between two acquisitions of the     *)
(* registry's lock, two reads of what other threads write, or two writes   *)
(* on a connection.  The policy service takes no lock at all.              *)
(*                                                                         *)
(* Instants are kept as ages: how long ago they were, up to Horizon.  An   *)
(* instant older than Horizon is not told from one exactly that old, and   *)
(* time passes for ever.  A Lifetime beyond Horizon never runs out.        *)
(***************************************************************************)
EXTENDS Integers, Sequences, FiniteSets

CONSTANTS
  Asks,             \* decision requests, each on its own connection
  PrincipalOf,      \* the uid of the peer of each request
  Versions,         \* contents the policy file may have
  Unavailable,      \* the policy file cannot be loaded
  Stop,             \* the thread that stops the daemon
  Nobody,           \* no thread, no grant
  MaxConnections,   \* max_connections
  Limits,           \* the values max_connections_per_principal may have
  ReloadSeconds,    \* reload_seconds
  Lifetime,         \* lifetime_seconds of every grant
  Heartbeat,        \* heartbeat_seconds of every grant
  Horizon,          \* bound: ages are not told apart beyond it
  MaxIncidents      \* bound: edits of the policy file and other incidents

Threads == Asks \cup {Stop}
Principals == {PrincipalOf[a] : a \in Asks}
NoLoad == [version |-> Unavailable, next |-> "tick"]
NoOne == [grant |-> Nobody, reason |-> "none", told |-> FALSE]

ASSUME GrantsAssumption ==
  /\ Unavailable \notin Versions
  /\ Stop \notin Asks
  /\ Nobody \notin Threads
  /\ MaxConnections \in Nat /\ Limits \subseteq Nat
  /\ ReloadSeconds \in Nat \ {0} /\ Lifetime \in Nat \ {0} /\ Heartbeat \in Nat \ {0}
  /\ Horizon \in Nat
  /\ MaxIncidents \in Nat

VARIABLES
  per_principal, \* max_connections_per_principal
  incidents,
  file,         \* what loading the policy file answers now
  current,      \* PolicyService._current
  checked,      \* age of PolicyService._last_checked
  conns,        \* GrantConnections._connections: the live grants
  reserved,     \* _reserved_total
  reservedBy,   \* _reserved_by_principal
  stopping,     \* _stopping
  lock,         \* the thread that holds the registry's lock between two steps
  version,      \* Grant.policy_version
  age,          \* age of Grant.issued_at
  silence,      \* age of GrantConnection.last_signal_at
  holding,      \* age of the start of the hold
  wire,         \* the frames written on each connection
  shut,         \* the connection's write side is shut down
  peer,         \* what the boundary at the other end does
  events,       \* the grant's events, in the order they were recorded
  pc,           \* where each thread is
  lag,          \* age of the instant the thread's request or sweep read
  load,         \* the version a thread loaded or announces, and where it goes on
  todo,         \* the part of its snapshot a thread has still to visit
  sawStop,      \* `stopping` as the registration read it
  ending        \* the grant a thread has popped and not yet recorded as ended

policyVars == <<file, current, checked>>
slotVars == <<reserved, reservedBy>>
grantVars == <<version, age, silence, holding>>
wireVars == <<wire, shut, peer>>
threadVars == <<pc, lag, load, todo, sawStop>>
vars == <<policyVars, conns, slotVars, stopping, lock, grantVars, wireVars,
          events, threadVars, ending, per_principal, incidents>>

Signals == {"policy_version_changed", "expired", "daemon_stopping"}
Reasons == Signals \cup {"connection_lost", "peer_wrote_on_the_stream"}
Frames == {"decision", "heartbeat"} \cup Signals
Places == {"idle", "reload", "compare", "announce", "announcing", "tick", "ticking",
           "admit", "decide", "append", "deliver", "open", "issue", "arrested",
           "recheck", "again", "watch", "hold", "finish", "done", "flagged"}

-----------------------------------------------------------------------------
(* Steps of a thread.                                                      *)

At(t, place) == pc[t] = place /\ ending[t] = NoOne
Goes(t, place) == pc' = [pc EXCEPT ![t] = place]
LockFree == lock = Nobody

(* sendall on the stream: it fails once the write side is shut, and may    *)
(* fail once the peer has closed.                                          *)
Carries(c) == IF shut[c] THEN {FALSE}
              ELSE IF peer[c] = "closed" THEN BOOLEAN ELSE {TRUE}

(* Mutant: an ending that does not ask whether the grant already ended.    *)
EndUnchecked(t, c, reason) ==
  /\ LockFree
  /\ conns' = conns \ {c}
  /\ wire' = IF shut[c] THEN wire ELSE [wire EXCEPT ![c] = Append(@, reason)]
  /\ ending' = [ending EXCEPT ![t] = [grant |-> c, reason |-> reason, told |-> ~ shut[c]]]
  /\ lock' = t
  /\ UNCHANGED <<shut, peer, events>>

(* _end: the grant that is still registered is popped and its ending       *)
(* written, both under the lock; _SignalWriter.signal shuts the write side *)
(* and the event is recorded afterwards (Records).                         *)
End(t, c, reason) ==
  /\ LockFree
  /\ IF c \in conns
     THEN \E sent \in Carries(c) :
            /\ conns' = conns \ {c}
            /\ wire' = IF sent THEN [wire EXCEPT ![c] = Append(@, reason)] ELSE wire
            /\ ending' = [ending EXCEPT ![t] = [grant |-> c, reason |-> reason, told |-> sent]]
            /\ lock' = t
     ELSE UNCHANGED <<conns, wire, ending, lock>>
  /\ UNCHANGED <<shut, peer, events>>

(* _peer_lost: popped under the lock, and nothing is written.              *)
Lose(t, c, reason) ==
  /\ LockFree
  /\ IF c \in conns
     THEN /\ conns' = conns \ {c}
          /\ ending' = [ending EXCEPT ![t] = [grant |-> c, reason |-> reason, told |-> FALSE]]
     ELSE UNCHANGED <<conns, ending>>
  /\ UNCHANGED <<lock, wire, shut, peer, events>>

(* What both leave for after the pop: the shut write side, the lock, and   *)
(* the event that says why the grant ended.                                *)
Records(t) ==
  LET e == ending[t] IN
  /\ e # NoOne
  /\ shut' = IF e.told THEN [shut EXCEPT ![e.grant] = TRUE] ELSE shut
  /\ lock' = IF lock = t THEN Nobody ELSE lock
  /\ events' = [events EXCEPT ![e.grant] = Append(@, e.reason)]
  /\ ending' = [ending EXCEPT ![t] = NoOne]
  /\ UNCHANGED <<policyVars, conns, slotVars, stopping, grantVars, wire, peer, threadVars>>

registryVars == <<conns, lock, wireVars, events, ending>>

-----------------------------------------------------------------------------
(* DecisionService.sweep: PolicyService.reload_if_due, then the registry's *)
(* tick.  A request sweeps before anything else, a held connection at      *)
(* every wake.                                                             *)

AfterSweep(a) == IF version[a] = Unavailable THEN "admit" ELSE "hold"

Arrives(a) ==
  /\ At(a, "idle")
  /\ Goes(a, "reload")
  /\ lag' = [lag EXCEPT ![a] = 0]
  /\ UNCHANGED <<policyVars, slotVars, stopping, grantVars, registryVars, load, todo, sawStop>>

(* store.load(), with the instant of the check put down first.             *)
Loads(t, next) ==
  /\ checked' = 0
  /\ load' = [load EXCEPT ![t] = [version |-> file, next |-> next]]
  /\ Goes(t, "compare")
  /\ UNCHANGED <<file, current>>

(* reload_if_due.                                                          *)
Reloads(a) ==
  /\ At(a, "reload")
  /\ IF checked < ReloadSeconds
     THEN Goes(a, "tick") /\ UNCHANGED <<policyVars, load>>
     ELSE Loads(a, "tick")
  /\ UNCHANGED <<slotVars, stopping, grantVars, registryVars, lag, todo, sawStop>>

(* What a load answered is kept by the decision it was made for only.      *)
Returned(a) == [load EXCEPT ![a] = IF @.next = "decide" THEN @ ELSE NoLoad]

(* The comparison every load ends in, and _change_to up to its listeners:  *)
(* a load that failed changes nothing.                                     *)
Compares(a) ==
  /\ At(a, "compare")
  /\ IF load[a].version \in {Unavailable, current}
     THEN Goes(a, load[a].next) /\ load' = Returned(a) /\ UNCHANGED current
     ELSE Goes(a, "announce") /\ current' = load[a].version /\ UNCHANGED load
  /\ UNCHANGED <<file, checked, slotVars, stopping, grantVars, registryVars,
                 lag, todo, sawStop>>

(* A visit of the rest of a snapshot ends where the thread goes on.        *)
Visits(t, rest, place, next) ==
  /\ todo' = [todo EXCEPT ![t] = rest]
  /\ Goes(t, IF rest = {} THEN next ELSE place)

(* GrantConnections.policy_version_changed: the snapshot, of which only    *)
(* the grants of another version are ended, each in a step of its own.     *)
Announces(a) ==
  /\ At(a, "announce")
  /\ LockFree
  /\ Visits(a, {c \in conns : version[c] # load[a].version}, "announcing", load[a].next)
  /\ load' = IF todo'[a] = {} THEN Returned(a) ELSE load
  /\ UNCHANGED <<policyVars, slotVars, stopping, grantVars, registryVars, lag, sawStop>>

AnnouncesTo(a, c) ==
  /\ At(a, "announcing")
  /\ c \in todo[a]
  /\ End(a, c, "policy_version_changed")
  /\ Visits(a, todo[a] \ {c}, "announcing", load[a].next)
  /\ load' = IF todo'[a] = {} THEN Returned(a) ELSE load
  /\ UNCHANGED <<policyVars, slotVars, stopping, grantVars, lag, sawStop>>

(* GrantConnections.tick at the instant the sweep read: spent grants end,  *)
(* and a silent one is written a heartbeat, whether or not it ended since  *)
(* the snapshot.  A heartbeat that cannot be written loses the grant.      *)
Expired(a, c) == age[c] - lag[a] >= Lifetime
BeatDue(a, c) == silence[c] - lag[a] >= Heartbeat

(* A held connection forgets the instant of a sweep that is over; the      *)
(* request mints its grant at it.                                          *)
SweptAt(a) == [lag EXCEPT ![a] = IF todo'[a] = {} /\ AfterSweep(a) = "hold" THEN 0 ELSE @]

Ticks(a) ==
  /\ At(a, "tick")
  /\ LockFree
  /\ Visits(a, conns, "ticking", AfterSweep(a))
  /\ lag' = SweptAt(a)
  /\ UNCHANGED <<policyVars, slotVars, stopping, grantVars, registryVars, load, sawStop>>

(* A run of heartbeats is kept as one frame.                               *)
Beaten(frames) ==
  IF frames # <<>> /\ frames[Len(frames)] = "heartbeat" THEN frames ELSE Append(frames, "heartbeat")

Beats(a, c) ==
  \/ /\ TRUE \in Carries(c)
     /\ wire' = [wire EXCEPT ![c] = Beaten(@)]
     /\ silence' = [silence EXCEPT ![c] = lag[a]]
     /\ UNCHANGED <<conns, lock, shut, peer, events, ending>>
  \/ FALSE \in Carries(c) /\ Lose(a, c, "connection_lost") /\ UNCHANGED silence

TicksOn(a, c) ==
  /\ At(a, "ticking")
  /\ c \in todo[a]
  /\ \/ Expired(a, c) /\ End(a, c, "expired") /\ UNCHANGED silence
     \/ ~ Expired(a, c) /\ BeatDue(a, c) /\ Beats(a, c)
     \/ ~ Expired(a, c) /\ ~ BeatDue(a, c) /\ UNCHANGED <<registryVars, silence>>
  /\ Visits(a, todo[a] \ {c}, "ticking", AfterSweep(a))
  /\ lag' = SweptAt(a)
  /\ UNCHANGED <<policyVars, slotVars, stopping, version, age, holding, load, sawStop>>

-----------------------------------------------------------------------------
(* The rest of DecisionService.ask.                                        *)

(* A request that is refused, or answered without a grant, is done.        *)
Answered(a) ==
  /\ Goes(a, "done")
  /\ lag' = [lag EXCEPT ![a] = 0]
  /\ load' = [load EXCEPT ![a] = NoLoad]
  /\ UNCHANGED <<policyVars, slotVars, version, age>>

(* Refused over the principal or the question, or answered with no allow   *)
(* on a stream; or load_for_decision.                                      *)
Refuses(a) ==
  /\ At(a, "admit") \/ (At(a, "decide") /\ LockFree)
  /\ Answered(a)
  /\ UNCHANGED <<stopping, silence, holding, registryVars, todo, sawStop>>

Admits(a) ==
  /\ At(a, "admit")
  /\ Loads(a, "decide")
  /\ UNCHANGED <<slotVars, stopping, grantVars, registryVars, lag, todo, sawStop>>

HeldBy(uid) == Cardinality({c \in conns : PrincipalOf[c] = uid}) + reservedBy[uid]
HasCapacity(uid) ==
  /\ Cardinality(conns) + reserved < MaxConnections
  /\ HeldBy(uid) < per_principal

(* An allow on a stream reserves a slot and mints its grant; every other   *)
(* answer, a full registry and a policy that could not be loaded hold      *)
(* nothing.                                                                *)
Decides(a) ==
  /\ At(a, "decide")
  /\ LockFree
  /\ \/ /\ load[a].version = Unavailable \/ ~ HasCapacity(PrincipalOf[a])
        /\ Answered(a)
     \/ /\ load[a].version # Unavailable
        /\ HasCapacity(PrincipalOf[a])
        /\ reserved' = reserved + 1
        /\ reservedBy' = [reservedBy EXCEPT ![PrincipalOf[a]] = @ + 1]
        /\ version' = [version EXCEPT ![a] = load[a].version]
        /\ age' = [age EXCEPT ![a] = lag[a]]
        /\ lag' = [lag EXCEPT ![a] = 0]
        /\ load' = [load EXCEPT ![a] = NoLoad]
        /\ Goes(a, "append")
        /\ UNCHANGED policyVars
  /\ UNCHANGED <<stopping, silence, holding, registryVars, todo, sawStop>>

(* _release_reservation, from cancel and from _open_reserved.              *)
Releases(a) ==
  /\ reserved' = reserved - 1
  /\ reservedBy' = [reservedBy EXCEPT ![PrincipalOf[a]] = @ - 1]

Cancels(a) == LockFree /\ Releases(a) /\ Goes(a, "done")

(* The decision store answers; or it refuses, and the reservation is       *)
(* cancelled (AppendFails).                                                *)
Appends(a) ==
  /\ At(a, "append")
  /\ Goes(a, "deliver")
  /\ UNCHANGED <<policyVars, slotVars, stopping, grantVars, registryVars, lag, load, todo,
                 sawStop>>

AppendFails(a) ==
  /\ At(a, "append")
  /\ Cancels(a)
  /\ UNCHANGED <<policyVars, stopping, grantVars, registryVars, lag, load, todo, sawStop>>

(* Mutant: a delivery that fails keeps its reservation.                    *)
DeliversOrLeaks(a) ==
  /\ At(a, "deliver")
  /\ \/ /\ TRUE \in Carries(a)
        /\ wire' = [wire EXCEPT ![a] = Append(@, "decision")]
        /\ Goes(a, "open")
     \/ FALSE \in Carries(a) /\ Goes(a, "done") /\ UNCHANGED wire
  /\ UNCHANGED <<policyVars, slotVars, conns, lock, stopping, grantVars, shut, peer, events, ending,
                 lag, load, todo, sawStop>>

(* deliver: the answer goes out before its grant is registered.            *)
Delivers(a) ==
  /\ At(a, "deliver")
  /\ \/ /\ TRUE \in Carries(a)
        /\ wire' = [wire EXCEPT ![a] = Append(@, "decision")]
        /\ Goes(a, "open")
        /\ UNCHANGED slotVars
     \/ FALSE \in Carries(a) /\ Cancels(a) /\ UNCHANGED wire
  /\ UNCHANGED <<policyVars, conns, lock, stopping, grantVars, shut, peer, events, ending,
                 lag, load, todo, sawStop>>

(* Mutant: a registration that does not look for the stop.                 *)
OpensUnaware(a) ==
  /\ At(a, "open")
  /\ LockFree
  /\ Releases(a)
  /\ conns' = conns \cup {a}
  /\ silence' = [silence EXCEPT ![a] = age[a]]
  /\ Goes(a, "issue")
  /\ UNCHANGED <<policyVars, stopping, lock, version, age, holding, wireVars, events, ending,
                 lag, load, todo, sawStop>>

(* _open_reserved, under the lock: the slot becomes a connection, and the  *)
(* stop is read where the registration is made.                            *)
Opens(a) ==
  /\ At(a, "open")
  /\ LockFree
  /\ Releases(a)
  /\ conns' = conns \cup {a}
  /\ silence' = [silence EXCEPT ![a] = age[a]]
  /\ sawStop' = [sawStop EXCEPT ![a] = stopping]
  /\ Goes(a, "issue")
  /\ UNCHANGED <<policyVars, stopping, lock, version, age, holding, wireVars, events, ending,
                 lag, load, todo>>

(* ...and after it: the event, and the end of a grant that came too late.  *)
Issues(a) ==
  /\ At(a, "issue")
  /\ events' = [events EXCEPT ![a] = Append(@, "issued")]
  /\ Goes(a, IF sawStop[a] THEN "arrested" ELSE "recheck")
  /\ UNCHANGED <<policyVars, conns, slotVars, stopping, lock, grantVars, wireVars, ending,
                 lag, load, todo, sawStop>>

Arrested(a) ==
  /\ At(a, "arrested")
  /\ End(a, a, "daemon_stopping")
  /\ Goes(a, "recheck")
  /\ UNCHANGED <<policyVars, slotVars, stopping, grantVars, lag, load, todo, sawStop>>

(* Mutant: a registered grant is not held against the version again.       *)
RechecksNothing(a) ==
  /\ At(a, "recheck")
  /\ Goes(a, "watch")
  /\ UNCHANGED <<policyVars, slotVars, stopping, grantVars, registryVars, lag, load, todo, sawStop>>

(* A version that moved between minting and registering is announced; the  *)
(* version announced is read again.                                        *)
Rechecks(a) ==
  /\ At(a, "recheck")
  /\ Goes(a, IF current = version[a] THEN "watch" ELSE "again")
  /\ UNCHANGED <<policyVars, slotVars, stopping, grantVars, registryVars,
                 lag, load, todo, sawStop>>

Rereads(a) ==
  /\ At(a, "again")
  /\ load' = [load EXCEPT ![a] = [version |-> current, next |-> "watch"]]
  /\ Goes(a, "announce")
  /\ UNCHANGED <<policyVars, slotVars, stopping, grantVars, registryVars, lag, todo, sawStop>>

-----------------------------------------------------------------------------
(* _hold_the_issuing_connection: the watch over an issuing connection.     *)

BeginsToHold(a) ==
  /\ At(a, "watch")
  /\ holding' = [holding EXCEPT ![a] = 0]
  /\ Goes(a, "hold")
  /\ UNCHANGED <<policyVars, slotVars, stopping, version, age, silence, registryVars,
                 lag, load, todo, sawStop>>

LetsGo(a) ==
  /\ At(a, "hold")
  /\ a \notin conns
  /\ Goes(a, "finish")
  /\ UNCHANGED <<registryVars, lag>>

(* reached_its_lifetime.                                                   *)
RunsOut(a) ==
  /\ At(a, "hold")
  /\ a \in conns
  /\ holding[a] >= Lifetime
  /\ End(a, a, "expired")
  /\ Goes(a, "finish")
  /\ UNCHANGED lag

(* The connection is readable: at end of file, or with bytes to read.      *)
Readable(a) ==
  /\ At(a, "hold")
  /\ a \in conns
  /\ holding[a] < Lifetime
  /\ \/ peer[a] = "closed" /\ UNCHANGED registryVars
     \/ peer[a] = "wrote" /\ Lose(a, a, "peer_wrote_on_the_stream")
  /\ Goes(a, "finish")
  /\ UNCHANGED lag

Wakes(a) ==
  /\ At(a, "hold")
  /\ a \in conns
  /\ holding[a] < Lifetime
  /\ peer[a] = "reading"
  /\ lag' = [lag EXCEPT ![a] = 0]
  /\ Goes(a, "reload")
  /\ UNCHANGED registryVars

Holds(a) ==
  /\ LetsGo(a) \/ RunsOut(a) \/ Readable(a) \/ Wakes(a)
  /\ UNCHANGED <<policyVars, slotVars, stopping, grantVars, load, todo, sawStop>>

(* finish: peer_closed on whatever the connection still holds.             *)
Finishes(a) ==
  /\ At(a, "finish")
  /\ Lose(a, a, "connection_lost")
  /\ Goes(a, "done")
  /\ UNCHANGED <<policyVars, slotVars, stopping, grantVars, lag, load, todo, sawStop>>

(* The socket of a request that is over is closed.                         *)
Closes(a) ==
  /\ At(a, "done")
  /\ ~ shut[a]
  /\ shut' = [shut EXCEPT ![a] = TRUE]
  /\ UNCHANGED <<policyVars, conns, slotVars, stopping, lock, grantVars, wire, peer, events,
                 threadVars, ending>>

-----------------------------------------------------------------------------
(* GrantConnections.shutdown, from ComposedServices.close.                 *)

Stops ==
  /\ At(Stop, "idle")
  /\ LockFree
  /\ stopping' = TRUE
  /\ Goes(Stop, "flagged")
  /\ UNCHANGED <<policyVars, slotVars, grantVars, registryVars, lag, load, todo, sawStop>>

StopsAll ==
  /\ At(Stop, "flagged")
  /\ LockFree
  /\ Visits(Stop, conns, "ticking", "done")
  /\ UNCHANGED <<policyVars, slotVars, stopping, grantVars, registryVars, lag, load, sawStop>>

StopsOne(c) ==
  /\ At(Stop, "ticking")
  /\ c \in todo[Stop]
  /\ End(Stop, c, "daemon_stopping")
  /\ Visits(Stop, todo[Stop] \ {c}, "ticking", "done")
  /\ UNCHANGED <<policyVars, slotVars, stopping, grantVars, lag, load, sawStop>>

-----------------------------------------------------------------------------
(* What the daemon does not decide: the operator who edits the policy      *)
(* file, the boundary at the other end, and time.                          *)

Edits ==
  /\ file' \in (Versions \cup {Unavailable}) \ {file}
  /\ UNCHANGED <<current, checked, conns, slotVars, stopping, lock, grantVars, wireVars,
                 events, threadVars, ending>>

PeerActs(a) ==
  /\ pc[a] \notin {"idle", "done"}
  /\ peer[a] = "reading"
  /\ \/ peer' = [peer EXCEPT ![a] = "closed"]
     \/ wire[a] # <<>> /\ peer' = [peer EXCEPT ![a] = "wrote"]
  /\ UNCHANGED <<policyVars, conns, slotVars, stopping, lock, grantVars, wire, shut,
                 events, threadVars, ending>>

(* An age is kept while something may still read it, and is 0 otherwise.   *)
Older(n, limit) == IF n < limit THEN n + 1 ELSE n
Dates(a) == pc[a] \in {"reload", "compare", "announce", "announcing", "tick", "ticking",
                      "admit", "decide"}
Visited(a) == a \in conns \/ \E t \in Threads : a \in todo[t]
Minted(a) == pc[a] \in {"append", "deliver", "open"}

TimePasses ==
  /\ checked' = Older(checked, ReloadSeconds)
  /\ age' = [a \in Asks |-> IF Minted(a) \/ Visited(a) THEN Older(age[a], Horizon) ELSE 0]
  /\ silence' = [a \in Asks |-> IF Visited(a) THEN Older(silence[a], Horizon) ELSE 0]
  /\ holding' = [a \in Asks |-> IF a \in conns THEN Older(holding[a], Horizon) ELSE 0]
  /\ lag' = [a \in Asks |-> IF Dates(a) THEN Older(lag[a], Horizon) ELSE 0]
  /\ UNCHANGED <<file, current, conns, slotVars, stopping, lock, version, wireVars, events,
                 pc, load, todo, sawStop, ending>>

-----------------------------------------------------------------------------
Init ==
  /\ per_principal \in Limits /\ incidents = 0
  /\ file \in Versions
  /\ current = file
  /\ checked = 0
  /\ conns = {}
  /\ reserved = 0
  /\ reservedBy = [p \in Principals |-> 0]
  /\ stopping = FALSE
  /\ lock = Nobody
  /\ version = [a \in Asks |-> Unavailable]
  /\ age = [a \in Asks |-> 0]
  /\ silence = [a \in Asks |-> 0]
  /\ holding = [a \in Asks |-> 0]
  /\ wire = [a \in Asks |-> <<>>]
  /\ shut = [a \in Asks |-> FALSE]
  /\ peer = [a \in Asks |-> "reading"]
  /\ events = [a \in Asks |-> <<>>]
  /\ pc = [t \in Threads |-> "idle"]
  /\ lag = [a \in Asks |-> 0]
  /\ load = [t \in Threads |-> NoLoad]
  /\ todo = [t \in Threads |-> {}]
  /\ sawStop = [a \in Asks |-> FALSE]
  /\ ending = [t \in Threads |-> NoOne]

Sweeps(a) ==
  \/ Reloads(a) \/ Compares(a) \/ Announces(a) \/ Ticks(a)
  \/ \E c \in Asks : AnnouncesTo(a, c) \/ TicksOn(a, c)

Registers(a) ==
  \/ Admits(a) \/ Decides(a) \/ Appends(a) \/ Delivers(a)
  \/ Opens(a) \/ Issues(a) \/ Arrested(a) \/ Rechecks(a) \/ Rereads(a)

Watches(a) == BeginsToHold(a) \/ Holds(a) \/ Finishes(a) \/ Closes(a)

Serves(a) == Sweeps(a) \/ Registers(a) \/ Watches(a) \/ Records(a)

Shutdown == StopsAll \/ (\E c \in Asks : StopsOne(c)) \/ Records(Stop)

(* What need not happen: an edit of the policy file, a request refused, a  *)
(* failed append, a peer that leaves or writes, a stop.                    *)
Incident == Edits \/ Stops \/ \E a \in Asks : Refuses(a) \/ AppendFails(a) \/ PeerActs(a)

Next ==
  /\ \/ /\ UNCHANGED incidents
        /\ \/ \E a \in Asks : Arrives(a) \/ Serves(a)
           \/ Shutdown \/ TimePasses
     \/ incidents < MaxIncidents /\ incidents' = incidents + 1 /\ Incident
  /\ UNCHANGED per_principal

Spec == Init /\ [][Next]_vars

-----------------------------------------------------------------------------
(* Every variable has its type.                                            *)
Ages == 0..Horizon

TypeOK ==
  /\ per_principal \in Limits /\ incidents \in 0..MaxIncidents
  /\ file \in Versions \cup {Unavailable}
  /\ current \in Versions /\ checked \in 0..ReloadSeconds
  /\ conns \subseteq Asks
  /\ reserved \in Nat /\ reservedBy \in [Principals -> Nat]
  /\ stopping \in BOOLEAN /\ lock \in Threads \cup {Nobody}
  /\ version \in [Asks -> Versions \cup {Unavailable}]
  /\ age \in [Asks -> Ages] /\ silence \in [Asks -> Ages]
  /\ holding \in [Asks -> Ages] /\ lag \in [Asks -> Ages]
  /\ wire \in [Asks -> Seq(Frames)] /\ shut \in [Asks -> BOOLEAN]
  /\ peer \in [Asks -> {"reading", "closed", "wrote"}]
  /\ events \in [Asks -> Seq(Reasons \cup {"issued"})]
  /\ pc \in [Threads -> Places]
  /\ load \in [Threads -> [version: Versions \cup {Unavailable}, next: {"tick", "decide", "watch"}]]
  /\ todo \in [Threads -> SUBSET Asks] /\ sawStop \in [Asks -> BOOLEAN]
  /\ ending \in [Threads -> [grant: Asks \cup {Nobody}, reason: Reasons \cup {"none"}, told: BOOLEAN]]

(* The slots a registry counts as reserved are those of the requests that  *)
(* have reserved and have neither registered nor cancelled, in total and   *)
(* per principal, and with the live grants they never exceed the limits:   *)
(* no failed append or delivery keeps a principal's capacity.              *)
SlotsAccounted ==
  LET waiting == {a \in Asks : pc[a] \in {"append", "deliver", "open"}}
      of(S, p) == Cardinality({a \in S : PrincipalOf[a] = p}) IN
  /\ TypeOK
  /\ reserved = Cardinality(waiting)
  /\ Cardinality(conns) + reserved <= MaxConnections
  /\ \A p \in Principals :
       /\ reservedBy[p] = of(waiting, p)
       /\ of(conns, p) + reservedBy[p] <= per_principal

(* Once shutdown has returned, the only grants still registered are those  *)
(* whose own request saw the stop as it registered them and is about to    *)
(* end them: "there is no instant in which it is neither".                 *)
StopLeavesNoGrant ==
  pc[Stop] = "done" /\ ending[Stop] = NoOne =>
    \A a \in conns : pc[a] = "arrested" \/ (pc[a] = "issue" /\ sawStop[a])

(* A live grant of a version that is not current has somebody about to end *)
(* it: a thread that announces another version and has not taken its       *)
(* snapshot yet or has the grant in it, or the grant's own request, which  *)
(* looks again after it registers.  The policy service takes no lock, and  *)
(* a load that comes late may put an old version back.                     *)
OldVersionsAreAnnounced ==
  \A c \in conns : version[c] # current =>
    \/ pc[c] \in {"issue", "arrested", "recheck", "again"}
    \/ \E t \in Asks :
         /\ load[t].version # version[c]
         /\ pc[t] = "announce" \/ (pc[t] = "announcing" /\ c \in todo[t])

(* A registered grant that is no longer live is recorded as ended once,    *)
(* now or by the thread that popped it; a live one is not; and what the    *)
(* boundary was told is the reason on the record.  No signal precedes the  *)
(* decision on its channel, and none follows the ending but a heartbeat    *)
(* that was already on its way.                                            *)
Registered(a) ==
  events[a] # <<>> \/ pc[a] \in {"issue", "arrested", "recheck", "again", "watch", "hold"}
EndsOf(a) == {i \in DOMAIN events[a] : events[a][i] # "issued"}
ToldOf(a) == {i \in DOMAIN wire[a] : wire[a][i] \in Signals}
EndersOf(a) == {t \in Threads : ending[t].grant = a}

EndedOnce ==
  \A a \in Asks :
    /\ Cardinality(EndsOf(a)) + Cardinality(EndersOf(a))
         = IF Registered(a) /\ a \notin conns THEN 1 ELSE 0
    /\ \A i \in ToldOf(a) :
         /\ \A j \in EndsOf(a) : events[a][j] = wire[a][i]
         /\ \A t \in EndersOf(a) : ending[t].reason = wire[a][i]
         /\ \A j \in (i + 1)..Len(wire[a]) : wire[a][j] = "heartbeat"
    /\ wire[a] # <<>> => wire[a][1] = "decision"
-----------------------------------------------------------------------------
(* What makes them inductive.                                              *)

(* A thread that has popped a grant knows which, and why.                  *)
EndingShape ==
  \A t \in Threads : ending[t] = NoOne \/ (ending[t].grant \in Asks /\ ending[t].reason \in Reasons)

(* Finitely many requests hold a slot at a time.                           *)
SlotShape ==
  /\ IsFiniteSet(conns) /\ IsFiniteSet({a \in Asks : Minted(a)})
  /\ SlotsAccounted

(* A live grant has been minted and registered; until then its request has *)
(* no version.                                                             *)
GrantShape ==
  \A a \in Asks :
    /\ a \in conns => version[a] # Unavailable /\ ~ Minted(a) /\ pc[a] # "done"
    /\ pc[a] \in {"idle", "admit", "decide"} => version[a] = Unavailable
    /\ Minted(a) \/ pc[a] \in {"issue", "arrested", "recheck", "again", "watch", "hold", "finish"}
         => version[a] # Unavailable
    /\ load[a].next = "decide" => version[a] = Unavailable
    /\ load[a].next = "watch" => version[a] # Unavailable

(* A grant the stop will not visit any more is about to be ended by its    *)
(* own request.                                                            *)
StopShape ==
  /\ pc[Stop] \in {"idle", "flagged", "ticking", "done"}
  /\ stopping <=> pc[Stop] # "idle"
  /\ pc[Stop] = "done" => todo[Stop] = {}
  /\ pc[Stop] \in {"ticking", "done"} =>
       \A a \in conns : a \in todo[Stop] \/ pc[a] = "arrested" \/ (pc[a] = "issue" /\ sawStop[a])

(* A registered grant is live, being ended by one thread, or ended.        *)
Ended(a) == EndsOf(a) # {}
Ends(t, a) == ending[t].grant = a

RecordShape(a) ==
  /\ \A i, j \in EndsOf(a) : i = j
  /\ version[a] = Unavailable \/ Minted(a) => events[a] = <<>>
  /\ version[a] # Unavailable /\ ~ Minted(a) /\ pc[a] \notin {"issue", "done"} => events[a] # <<>>
  /\ \A t, u \in Threads : Ends(t, a) /\ Ends(u, a) => t = u
  /\ \A t \in Threads : Ends(t, a) => ~ Ended(a)
  /\ a \in conns => ~ Ended(a) /\ \A t \in Threads : ~ Ends(t, a)
  /\ Registered(a) <=> a \in conns \/ Ended(a) \/ \E t \in Threads : Ends(t, a)

EndShape == \A a \in Asks : RecordShape(a)

(* The decision goes first, one signal at most follows it, and only a      *)
(* heartbeat follows that.                                                 *)
SignalShape(a) ==
  /\ version[a] = Unavailable \/ pc[a] \in {"append", "deliver"} => wire[a] = <<>>
  /\ a \in conns \/ pc[a] = "open" \/ (\E t \in Threads : a \in todo[t]) => wire[a] # <<>>
  /\ wire[a] # <<>> => wire[a][1] = "decision"
  /\ a \in conns \/ pc[a] = "open" => ToldOf(a) = {}
  /\ \A i \in ToldOf(a) :
       /\ \A j \in EndsOf(a) : events[a][j] = wire[a][i]
       /\ \A t \in Threads : Ends(t, a) => ending[t].reason = wire[a][i]
       /\ \A j \in (i + 1)..Len(wire[a]) : wire[a][j] = "heartbeat"

WireShape == \A a \in Asks : SignalShape(a)

RegistryInv ==
  EndingShape /\ SlotShape /\ GrantShape /\ StopShape /\ EndShape /\ WireShape
=============================================================================
