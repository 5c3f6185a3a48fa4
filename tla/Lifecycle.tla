------------------------------ MODULE Lifecycle ------------------------------
(***************************************************************************)
(* Daemon processes and the one local address and one evidence root they   *)
(* start on: Daemon.start, Daemon.stop and compose, from the first check   *)
(* to the last release, with the processes that die on the way.            *)
(*                                                                         *)
(* A life is one process.  The address is the name in the file system: 0,  *)
(* or the life whose bind made the socket that is there, dead or alive.    *)
(* The lock on the evidence root goes with the process that holds it.      *)
(* Which check refuses a start is not told apart: before the bind the      *)
(* address is not touched, after it the failing start removes the name.    *)
(***************************************************************************)
EXTENDS Naturals, FiniteSets

CONSTANTS
    MaxLives,  \* bound: processes ever started
    Pids       \* the process ids the system hands out

ASSUME LifecycleAssumption == MaxLives \in Nat /\ IsFiniteSet(Pids) /\ Pids \subseteq Nat \ {0}

VARIABLES
    lives,      \* how many processes were started
    proc,       \* each one's phase, process id and parent
    address,    \* what is at the socket's name
    root,       \* the life that holds the evidence root's writer lock, or 0
    overlapped  \* whether two lives were ever at work on the name at once

Lives == 1..MaxLives

\* A start, in order, then serving, then a stop, in order.
Starting == {"probing", "unlinking", "binding", "bound", "composing", "undoing"}
Listening == {"listening", "serving"}
Stopping == {"closing", "unbinding"}
Alive == Starting \cup Listening \cup Stopping \cup {"draining"}

\* An ended child keeps its process id until its parent collects it.
LifePhases == Alive \cup {"none", "zombie", "gone"}

Unborn == [phase |-> "none", pid |-> 0, parent |-> "nobody"]

LifecycleInit ==
    /\ lives = 0
    /\ proc = [l \in Lives |-> Unborn]
    /\ address = 0
    /\ root = 0
    /\ overlapped = FALSE

IsRunning(l) == proc[l].phase \in Alive

\* A connection to the socket succeeds until the listener is closed.
Listens(l) == l # 0 /\ proc[l].phase \in Listening \cup {"closing"}

Holding(pid) == {l \in Lives : proc[l].pid = pid /\ proc[l].phase \in Alive \cup {"zombie"}}
\* An id nobody has now; those never used are handed out in their order.
FreePids ==
    {pid \in Pids :
        /\ Holding(pid) = {}
        /\ \A below \in Pids : below < pid => \E l \in Lives : proc[l].pid = below}

At(l, phase) == proc' = [proc EXCEPT ![l].phase = phase]

\* The process ends: its descriptors, and the lock with them, are closed.
Ends(l, collected) ==
    /\ At(l, IF collected THEN "gone" ELSE "zombie")
    /\ root' = IF root = l THEN 0 ELSE root

\* Whoever waits for its children collects them itself; init collects the rest.
Orphan(l) == proc[l].parent = "nobody"

\* Every start begins by proving the directory, then looks at the name.
Starts(pid, parent) ==
    /\ lives < MaxLives
    /\ pid \in FreePids
    /\ lives' = lives + 1
    /\ proc' = [proc EXCEPT ![lives + 1] = [phase |-> "probing", pid |-> pid, parent |-> parent]]

-----------------------------------------------------------------------------
(* start() *)

\* A refusal before the bind: the settings, the principal, the directory, the
\* length of the name, the overflow ids.
RefusedEarly(l) ==
    /\ proc[l].phase \in {"probing", "binding"}
    /\ Ends(l, Orphan(l))
    /\ UNCHANGED <<lives, address>>

\* clear_stale_address: lstat and a connection attempt.
Probe(l) ==
    /\ proc[l].phase = "probing"
    /\ \/ address = 0 /\ At(l, "binding") /\ UNCHANGED root
       \/ address # 0 /\ ~Listens(address) /\ At(l, "unlinking") /\ UNCHANGED root
       \/ Listens(address) /\ Ends(l, Orphan(l))
    /\ UNCHANGED <<lives, address>>

\* The name that refused the connection is removed, whoever's it is by now.
Unlink(l) ==
    /\ proc[l].phase = "unlinking"
    /\ IF address = 0 THEN Ends(l, Orphan(l)) ELSE At(l, "binding") /\ UNCHANGED root
    /\ address' = 0
    /\ UNCHANGED lives

\* server_bind: a name that is taken is left to whoever has it.
Bind(l) ==
    /\ proc[l].phase = "binding"
    /\ \/ address = 0 /\ address' = l /\ At(l, "bound") /\ UNCHANGED root
       \/ address # 0 /\ Ends(l, Orphan(l)) /\ UNCHANGED address
    /\ UNCHANGED lives

\* _set_permissions, _drop_privileges, and compose up to the writer lock; any
\* of them may refuse, a name that is gone does, and so does a root another
\* process writes.
Secure(l) ==
    /\ proc[l].phase = "bound"
    /\ \/ At(l, "undoing") /\ UNCHANGED root
       \/ address # 0 /\ root = 0 /\ root' = l /\ At(l, "composing")
    /\ UNCHANGED <<lives, address>>

\* The rest of compose - stores, archive, plugins, recovery, the composition
\* record - and server_activate.
Listen(l) ==
    /\ proc[l].phase = "composing"
    /\ \/ At(l, "undoing")
       \/ At(l, "listening")
    /\ UNCHANGED <<lives, address, root>>

\* start()'s way out of a refusal after the bind: close, unlink the name, raise.
Undo(l) ==
    /\ proc[l].phase = "undoing"
    /\ address' = 0
    /\ Ends(l, Orphan(l))
    /\ UNCHANGED lives

\* main(): the handler of SIGTERM is installed once start() has returned.
Handle(l) ==
    /\ proc[l].phase = "listening"
    /\ At(l, "serving")
    /\ UNCHANGED <<lives, address, root>>

-----------------------------------------------------------------------------
(* stop(), and every other end. *)

\* What SIGTERM does: a clean stop once the handler is there, an end at once
\* before, nothing to a process that is stopping already.
Terminated(l) ==
    CASE proc[l].phase = "serving"                    -> At(l, "closing") /\ UNCHANGED root
      [] proc[l].phase \in Starting \cup {"listening"} -> Ends(l, Orphan(l))
      [] OTHER                                        -> UNCHANGED <<proc, root>>

\* shutdown and server_close: nobody listens at the name any more.
CloseListener(l) ==
    /\ proc[l].phase = "closing"
    /\ At(l, "unbinding")
    /\ UNCHANGED <<lives, address, root>>

\* The name is removed, or the host refuses and the stop says so.
Unbind(l) ==
    /\ proc[l].phase = "unbinding"
    /\ address' \in {0, address}
    /\ At(l, "draining")
    /\ UNCHANGED <<lives, root>>

\* ComposedServices.close, its drain included, and the end of the process.
Drain(l) ==
    /\ proc[l].phase = "draining"
    /\ Ends(l, Orphan(l))
    /\ UNCHANGED <<lives, address>>

\* The process is killed, or asked to stop by someone who is not `down`.
Dies(l) ==
    /\ IsRunning(l)
    /\ Ends(l, Orphan(l))
    /\ UNCHANGED <<lives, address>>

\* Someone runs `sayfirst-daemon serve` by hand.
StartedByHand ==
    /\ \E pid \in FreePids : Starts(pid, "nobody")
    /\ UNCHANGED <<address, root>>

LifeStep(l) ==
    \/ RefusedEarly(l)
    \/ Probe(l)
    \/ Unlink(l)
    \/ Bind(l)
    \/ Secure(l)
    \/ Listen(l)
    \/ Undo(l)
    \/ Handle(l)
    \/ CloseListener(l)
    \/ Unbind(l)
    \/ Drain(l)
    \/ Dies(l)

\* Lives at work on the name: a start from its probe on, a stop until it unlinked.
AtTheName == {l \in Lives : proc[l].phase \in Starting \cup Stopping}

Observe == overlapped' = (overlapped \/ Cardinality(AtTheName') > 1)

=============================================================================
