----------------------------- MODULE Quickstart -----------------------------
(***************************************************************************)
(* `up` and `down` of the quickstart over daemon processes that start,     *)
(* refuse, die and have their process ids reused (launcher.py).            *)
(*                                                                         *)
(* A command holds the lifecycle lock while it reads the record, decides,  *)
(* starts or signals, and writes the record.  `up` waits for its child     *)
(* outside the lock.  A record is the process id and the instant that      *)
(* process began, here the life itself, or 0 where the platform does not   *)
(* say.  What the commands print is left out but for the claim they make.  *)
(***************************************************************************)
EXTENDS Lifecycle

CONSTANTS Commands  \* the commands that are run, each once

VARIABLES
    lock,       \* the command that holds the lifecycle lock, or "nobody"
    record,     \* the record of a start
    cmd         \* each command's place

commandVars == <<lock, record, cmd>>
quickVars == <<lives, proc, address, root, overlapped, commandVars>>

ASSUME CommandsAssumption == "nobody" \notin Commands

NoRecord == [pid |-> 0, began |-> 0]

Places == {"idle", "up", "judge", "spawn", "record", "ready", "stopping", "abandon",
           "forget", "down", "decide", "pin", "signal", "wait", "done"}

\* What a command said of its child when it ended.
Claims == {"nothing", "ready"}

QuickInit ==
    /\ LifecycleInit
    /\ lock = "nobody"
    /\ record = NoRecord
    /\ cmd = [k \in Commands |-> [at |-> "idle", child |-> 0, pinned |-> 0, claim |-> "nothing"]]

Go(k, place) == cmd' = [cmd EXCEPT ![k].at = place]

\* A command ends.  Whatever it had started is init's to collect from now on.
Done(k, claim) == cmd' = [cmd EXCEPT ![k].at = "done", ![k].claim = claim]

Disown(p, k) ==
    [l \in Lives |->
        IF p[l].parent # k THEN p[l]
        ELSE [p[l] EXCEPT !.parent = "nobody",
                          !.phase = IF @ = "zombie" THEN "gone" ELSE @]]

Release(k) == lock' = IF lock = k THEN "nobody" ELSE lock

UnchangedLives == UNCHANGED <<lives, address, root>>

-----------------------------------------------------------------------------
(* Who is who. *)

\* The life that runs under a process id, or 0; a zombie does not run.
RunningAs(pid) ==
    IF \E l \in Holding(pid) : IsRunning(l) THEN CHOOSE l \in Holding(pid) : IsRunning(l) ELSE 0

\* _identity: the recorded id still names the recorded process, something else
\* or nothing, or it cannot be told.
Identity(rec) ==
    LET now == RunningAs(rec.pid)
    IN  IF rec = NoRecord \/ now = 0 THEN "gone"
        ELSE IF rec.began = 0 THEN "unknown"
        ELSE IF rec.began = now THEN "ours" ELSE "gone"

\* answering: the life that answers a status request at the address, or 0.
Answering == IF address # 0 /\ proc[address].phase = "serving" THEN address ELSE 0

-----------------------------------------------------------------------------
(* up *)

TakeLock(k, from, to) ==
    /\ cmd[k].at = from
    /\ lock = "nobody"
    /\ lock' = k
    /\ Go(k, to)
    /\ UnchangedLives
    /\ UNCHANGED <<proc, record>>

RunsUp(k) ==
    /\ cmd[k].at = "idle"
    /\ Go(k, "up")
    /\ UnchangedLives
    /\ UNCHANGED <<proc, lock, record>>

UpLocks(k) == TakeLock(k, "up", "judge")

\* The record read and judged.  While its process runs, or may, nothing is
\* started and the record stays, whether the daemon answers or not.
UpJudges(k) ==
    /\ cmd[k].at = "judge"
    /\ \/ Identity(record) = "gone" /\ Go(k, "spawn") /\ UNCHANGED lock
       \/ Identity(record) # "gone" /\ Done(k, "nothing") /\ Release(k)
    /\ UnchangedLives
    /\ UNCHANGED <<proc, record>>

\* Popen, which the host may refuse.
UpSpawns(k) ==
    /\ cmd[k].at = "spawn"
    /\ \/ /\ \E pid \in FreePids : Starts(pid, k)
          /\ cmd' = [cmd EXCEPT ![k].at = "record", ![k].child = lives + 1]
          /\ UNCHANGED lock
       \/ Done(k, "nothing") /\ Release(k) /\ UNCHANGED <<lives, proc>>
    /\ UNCHANGED <<address, root, record>>

\* process_began: boot and start instant of a process, or none where the
\* platform does not say.
process_began(l) == {l, 0}

write_record(l) == \E began \in process_began(l) : record' = [pid |-> proc[l].pid, began |-> began]

\* The record, whole or not at all; without it the child is stopped.
UpRecords(k) ==
    /\ cmd[k].at = "record"
    /\ \/ /\ write_record(cmd[k].child)
          /\ Go(k, "ready")
          /\ Release(k)
          /\ UNCHANGED <<proc, root>>
       \/ /\ Terminated(cmd[k].child)
          /\ Go(k, "abandon")
          /\ UNCHANGED <<record, lock>>
    /\ UNCHANGED <<lives, address>>

\* The wait: the child answers, by the process id of the peer credential,
UpReady(k) ==
    /\ cmd[k].at = "ready"
    /\ Answering # 0
    /\ proc[Answering].pid = proc[cmd[k].child].pid
    /\ Done(k, "ready")
    /\ proc' = Disown(proc, k)
    /\ UnchangedLives
    /\ UNCHANGED <<lock, record>>

\* or it has ended, which poll collects,
UpChildEnded(k) ==
    /\ cmd[k].at \in {"ready", "stopping"}
    /\ proc[cmd[k].child].phase = "zombie"
    /\ At(cmd[k].child, "gone")
    /\ Go(k, "forget")
    /\ UnchangedLives
    /\ UNCHANGED <<lock, record>>

\* or READY_SECONDS pass and it is asked to stop,
UpDeadline(k) ==
    /\ cmd[k].at = "ready"
    /\ Terminated(cmd[k].child)
    /\ Go(k, "stopping")
    /\ UNCHANGED <<lives, address, lock, record>>

\* and STOP_SECONDS pass without it stopping: the record is kept.  A child with
\* no record is waited for as long, under the lock, and nothing is forgotten.
UpGivesUp(k) ==
    /\ cmd[k].at \in {"stopping", "abandon"}
    /\ Done(k, "nothing")
    /\ proc' = Disown(proc, k)
    /\ Release(k)
    /\ UnchangedLives
    /\ UNCHANGED <<record>>

\* Mutant: the record is removed whoever it names.
UpForgetsAny(k) ==
    /\ cmd[k].at = "forget"
    /\ lock = "nobody"
    /\ record' = NoRecord
    /\ Done(k, "nothing")
    /\ proc' = Disown(proc, k)
    /\ UnchangedLives
    /\ UNCHANGED lock

\* _forget_if_ours, under the lock again: the record goes if it has the child's id.
UpForgets(k) ==
    /\ cmd[k].at = "forget"
    /\ lock = "nobody"
    /\ record' = IF record.pid = proc[cmd[k].child].pid THEN NoRecord ELSE record
    /\ Done(k, "nothing")
    /\ proc' = Disown(proc, k)
    /\ UnchangedLives
    /\ UNCHANGED lock

-----------------------------------------------------------------------------
(* down *)

RunsDown(k) ==
    /\ cmd[k].at = "idle"
    /\ Go(k, "down")
    /\ UnchangedLives
    /\ UNCHANGED <<proc, lock, record>>

DownLocks(k) == TakeLock(k, "down", "decide")

\* A process proved ours is stopped, one that cannot be told is left with its
\* record, and a stale record is removed.
DownJudges(k) ==
    /\ cmd[k].at = "decide"
    /\ \/ Identity(record) = "ours" /\ Go(k, "pin") /\ UNCHANGED <<record, lock>>
       \/ /\ Identity(record) # "ours"
          /\ record' = IF Identity(record) = "gone" THEN NoRecord ELSE record
          /\ Done(k, "nothing")
          /\ Release(k)
    /\ UnchangedLives
    /\ UNCHANGED proc

\* _request_stop: the process id is pinned,
DownPins(k) ==
    /\ cmd[k].at = "pin"
    /\ cmd' = [cmd EXCEPT ![k].at = "signal", ![k].pinned = RunningAs(record.pid)]
    /\ UnchangedLives
    /\ UNCHANGED <<proc, lock, record>>

\* Mutant: the proof made before the pin is not made again.
DownSignalsUnchecked(k) ==
    /\ cmd[k].at = "signal"
    /\ IF cmd[k].pinned # 0
       THEN Terminated(cmd[k].pinned)
       ELSE UNCHANGED <<proc, root>>
    /\ Go(k, "wait")
    /\ UNCHANGED <<lives, address, lock, record>>

\* and the process that runs under it now must have begun when the record says.
DownSignals(k) ==
    /\ cmd[k].at = "signal"
    /\ IF cmd[k].pinned # 0 /\ RunningAs(record.pid) = record.began
       THEN Terminated(cmd[k].pinned)
       ELSE UNCHANGED <<proc, root>>
    /\ Go(k, "wait")
    /\ UNCHANGED <<lives, address, lock, record>>

\* Nothing runs under the id any more.
DownSeesItGone(k) ==
    /\ cmd[k].at = "wait"
    /\ RunningAs(record.pid) = 0
    /\ record' = NoRecord
    /\ Done(k, "nothing")
    /\ Release(k)
    /\ UnchangedLives
    /\ UNCHANGED <<proc>>

\* Mutant: `down` waits for as long as something runs under the id.
DownWaitsForGood(k) ==
    /\ cmd[k].at = "wait"
    /\ RunningAs(record.pid) = 0
    /\ Done(k, "nothing")
    /\ Release(k)
    /\ UnchangedLives
    /\ UNCHANGED <<proc, record>>

\* STOP_SECONDS pass: one SIGTERM and nothing stronger, and the record stays.
DownDeadline(k) ==
    /\ cmd[k].at = "wait"
    /\ Done(k, "nothing")
    /\ Release(k)
    /\ UnchangedLives
    /\ UNCHANGED <<proc, record>>

\* The person interrupts a command; the lock goes with it and the child stays.
Interrupted(k) ==
    /\ cmd[k].at \notin {"idle", "done"}
    /\ Done(k, "nothing")
    /\ proc' = Disown(proc, k)
    /\ Release(k)
    /\ UnchangedLives
    /\ UNCHANGED <<record>>

-----------------------------------------------------------------------------
\* A command takes its next step by itself.
CommandStep(k) ==
    \/ UpLocks(k)
    \/ UpJudges(k)
    \/ UpSpawns(k)
    \/ UpRecords(k)
    \/ UpReady(k)
    \/ UpChildEnded(k)
    \/ UpDeadline(k)
    \/ UpGivesUp(k)
    \/ UpForgets(k)
    \/ DownLocks(k)
    \/ DownJudges(k)
    \/ DownPins(k)
    \/ DownSignals(k)
    \/ DownSeesItGone(k)
    \/ DownDeadline(k)

QuickNext ==
    /\ \/ (StartedByHand \/ \E l \in Lives : LifeStep(l)) /\ UNCHANGED commandVars
       \/ \E k \in Commands : RunsUp(k) \/ RunsDown(k) \/ CommandStep(k) \/ Interrupted(k)
    /\ Observe

\* A command that was begun goes on; nothing is assumed of the daemons.
QuickSpec == QuickInit /\ [][QuickNext]_quickVars /\ \A k \in Commands : WF_quickVars(CommandStep(k) /\ Observe)

-----------------------------------------------------------------------------
(* Properties. *)

\* Every variable has its type.
QuickTypeOK ==
    /\ lives \in 0..MaxLives
    /\ proc \in [Lives -> [phase : LifePhases, pid : Pids \cup {0},
                           parent : Commands \cup {"nobody"}]]
    /\ address \in 0..MaxLives
    /\ root \in 0..MaxLives
    /\ overlapped \in BOOLEAN
    /\ lock \in Commands \cup {"nobody"}
    /\ record \in [pid : Pids \cup {0}, began : 0..MaxLives]
    /\ cmd \in [Commands -> [at : Places, child : 0..MaxLives, pinned : 0..MaxLives,
                             claim : Claims]]

Children == {cmd[k].child : k \in Commands} \ {0}

\* A daemon that begins to stop is one `up` started.
SignalsOnlyOurs ==
    \A l \in Lives : (proc[l].phase = "serving" /\ proc'[l].phase = "closing")
          => l \in Children

\* The daemon that answers when `up` says ready is the process it started.
ReadyIsTheChild ==
    \A k \in Commands : (cmd[k].claim = "nothing" /\ cmd'[k].claim = "ready")
          => Answering = cmd[k].child

\* The commands speak of and stop the process `up` started and no other, though
\* other daemons start and die at the same address and process ids are reused
\* between the record, the proof, the pin and the signal (_identity, _request_stop).
OnlyOurChild == [][SignalsOnlyOurs /\ ReadyIsTheChild]_quickVars

\* Lives whose process id another life of a command had before.
Reuses(l) == \E m \in Children \ {l} : m < l /\ proc[m].pid = proc[l].pid

\* A daemon `up` said ready is one `down` can find for as long as it runs: the
\* record names it, though other commands fail, give up and forget around it.
\* The exception is a process id reused while another `up` is about to forget.
ReadyIsManaged ==
    \A k \in Commands :
        (cmd[k].claim = "ready" /\ IsRunning(cmd[k].child) /\ ~Reuses(cmd[k].child))
            => record.pid = proc[cmd[k].child].pid

\* Starts and stops that do not overlap leave every listening daemon at the
\* address, whatever died before them and wherever it died.
ListenersAreReachable ==
    ~overlapped => \A l \in Lives : proc[l].phase \in Listening => address = l

\* One process at a time composes, serves and drains over the evidence root.
OneWriter ==
    Cardinality({l \in Lives : proc[l].phase \in {"composing", "draining"}
                                                  \cup Listening \cup Stopping}) <= 1

\* What runs can be managed: a daemon said ready is in the record, listening
\* daemons are at the address, and one process at a time writes the evidence
\* root, whatever fails, gives up or dies around them.
DaemonStaysManaged == QuickTypeOK /\ ReadyIsManaged /\ ListenersAreReachable /\ OneWriter

\* A command that was begun ends, whatever the daemon and other commands do.
CommandsEnd == \A k \in Commands : cmd[k].at # "idle" ~> cmd[k].at = "done"

-----------------------------------------------------------------------------
(* What makes them inductive. *)

\* Lives are begun in their order, and a process id is handed out again only
\* when everyone who had it is gone.
LivesShape ==
    /\ \A l \in Lives : IF l <= lives THEN proc[l].phase # "none" /\ proc[l].pid \in Pids
                                       ELSE proc[l] = Unborn
    /\ \A k \in Commands : cmd[k].child <= lives
    /\ \A l, m \in Lives : l < m /\ m <= lives /\ proc[l].pid = proc[m].pid => proc[l].phase = "gone"

\* Whoever composes, serves or drains holds the evidence root.
AtWork == {"composing", "draining"} \cup Listening \cup Stopping

RootShape == \A l \in Lives : proc[l].phase \in AtWork => root = l

\* From the bind to the unlink a life is what the name reaches, and nobody
\* listens while another is about to take the name.
NameShape == ~overlapped =>
    /\ \A l, m \in AtTheName : l = m
    /\ \A l, m \in Lives : proc[l].phase \in {"unlinking", "binding"} => proc[m].phase \notin Listening
    /\ \A l \in Lives : proc[l].phase \in {"bound", "composing", "undoing"} \cup Listening \cup Stopping
           => address = l

\* A command that has a child has it alone, and has not collected it.
CommandShape ==
    /\ \A k \in Commands :
          /\ cmd[k].at \in {"judge", "spawn", "record", "abandon", "decide", "pin", "signal", "wait"} => lock = k
          /\ cmd[k].at \in {"idle", "up", "judge", "spawn"} => cmd[k].child = 0
          /\ cmd[k].at \in {"record", "ready", "stopping", "abandon"} =>
                /\ cmd[k].child # 0
                /\ proc[cmd[k].child].parent = k
                /\ proc[cmd[k].child].phase \in Alive \cup {"zombie"}
          /\ cmd[k].at = "forget" => cmd[k].child # 0
          /\ cmd[k].claim = "ready" => cmd[k].at = "done" /\ cmd[k].child # 0
    /\ \A j, k \in Commands : j # k /\ cmd[j].child = cmd[k].child => cmd[j].child = 0

\* The record is owed to a child that was recorded and still runs.
Owed(k) ==
    /\ cmd[k].at = "ready" \/ cmd[k].claim = "ready"
    /\ IsRunning(cmd[k].child) /\ ~Reuses(cmd[k].child)

RecordShape ==
    /\ \A k \in Commands : Owed(k) =>
           record.pid = proc[cmd[k].child].pid /\ record.began \in {0, cmd[k].child}
    /\ \A j, k \in Commands : cmd[k].at \in {"spawn", "record"} => ~Owed(j)
    /\ record.began # 0 => record.began \in Children
    /\ \A k \in Commands : cmd[k].at \in {"pin", "signal"} => record.began # 0
    /\ \A k \in Commands : cmd[k].at = "signal" /\ cmd[k].pinned # 0 =>
           cmd[k].pinned <= lives /\ proc[cmd[k].pinned].pid = record.pid

QuickInv ==
    QuickTypeOK /\ LivesShape /\ RootShape /\ NameShape /\ CommandShape /\ RecordShape
=============================================================================
