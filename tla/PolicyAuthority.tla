-------------------------- MODULE PolicyAuthority --------------------------
(***************************************************************************)
(* From the administrator's file to a recorded decision.                   *)
(*                                                                         *)
(* The file store opens the configured name, reads, and looks at the name  *)
(* again (adapters/file/policy_store.py); the policy service keeps what it *)
(* loaded last and rebuilds its projection when the version moves, with no *)
(* lock (application/policy.py); the archive keeps the bytes, one          *)
(* write-once file per version (adapters/file/policy_archive.py), before   *)
(* the decision service evaluates and appends (application/decisions.py).  *)
(* Meanwhile the administrator edits the file in place and points the name *)
(* elsewhere, a write or the directory's sync fails, and the daemon dies   *)
(* and starts again.                                                       *)
(***************************************************************************)
EXTENDS PolicyRules, FiniteSets

CONSTANTS
    Files,          \* files the configured name can reach
    Contents,       \* the bytes a file can hold, each named by its digest
    Document(_),    \* what the TOML reader makes of the bytes
    TooLarge,       \* the contents longer than MAX_POLICY_BYTES
    Unprotected,    \* the files someone other than an administrator could write
    Questions,      \* the asks
    Threads,        \* handler threads
    Incidents,      \* what may fail: "write", "sync", "projection", "kill", "power"
    MaxEdits,       \* bound: administrator's edits
    MaxCalls,       \* bound: asks and reloads begun
    MaxIncidents    \* bound: incidents

NoFile == "no file"
Durable == "durable"
Volatile == "volatile"   \* the directory was not synced since

ASSUME PolicyAssumption ==
    /\ Threads # {} /\ Questions # {} /\ Files # {}
    /\ NoFile \notin Files /\ NoFile \notin Threads
    /\ Absent \notin Contents /\ Absent \notin {Volatile, Durable}
    /\ Absent \notin {"malformed", "invalid", "format_unsupported"}
    /\ \A content \in Contents : Document(content).rules \in Seq(Range(Document(content).rules))
    /\ {MaxEdits, MaxCalls, MaxIncidents} \subseteq Nat

VARIABLES
    name,       \* the file the configured name reaches
    file,       \* the bytes of each file
    archive,    \* per version: the bytes under its name, and whether a crash keeps them
    orphans,    \* versions whose temporary stands in the archive's directory
    interrupted,  \* versions named in it whose sync failed, or was never reached
    lock,       \* the archive's lock
    life,       \* the daemon: where its start is, and what the start holds
    current,    \* PolicyService._current, as its version
    projected,  \* what the projection holds
    excused,    \* the projection may be behind: a rebuild failed, or was overtaken
    thread,     \* per thread: where it is, and what it has read
    committed,  \* the decision records
    edits, calls, incidents

fileVars == <<name, file>>
archiveVars == <<archive, orphans, interrupted, lock>>
serviceVars == <<current, projected, excused>>
bounds == <<edits, calls, incidents>>
policyVars == <<fileVars, archiveVars, life, serviceVars, thread, committed, bounds>>

-----------------------------------------------------------------------------
(* Values. *)

policy_version(content) == content

Down == [at |-> "down", held |-> NoFile, walked |-> NoFile, raw |-> Absent, moves |-> 0]

\* A thread between calls.  `seen` and `moves` are what the name stood for while
\* the call ran.
NoCall == [at |-> "idle", question |-> Absent, opened |-> NoFile, raw |-> Absent,
         seen |-> {}, moves |-> 0]

\* The archive once its directory is synced.
Synced == [v \in Contents |-> IF archive[v] = Volatile THEN Durable ELSE archive[v]]

LostAlready == {v \in interrupted : archive[v] = Absent}

Under(f) == IF f = NoFile THEN {} ELSE {file[f]}

Policy(content) == parse_policy(Document(content))

-----------------------------------------------------------------------------
(* The administrator.  Every edit is noted by whoever is reading. *)

Noted(where, becomes, moved) ==
    [t \in Threads |->
        IF thread[t].at = "idle" THEN thread[t]
        ELSE [thread[t] EXCEPT !.seen = @ \cup (IF where = NoFile THEN {} ELSE {becomes[where]}),
                               !.moves = @ + (IF moved THEN 1 ELSE 0)]]

\* Another file, or none, is put at the configured name.
Retarget(f) ==
    /\ edits < MaxEdits
    /\ f # name
    /\ name' = f
    /\ thread' = Noted(f, file, TRUE)
    /\ life' = [life EXCEPT !.moves = IF life.at \in {"held", "walked", "judged", "read"} THEN @ + 1 ELSE @]
    /\ edits' = edits + 1
    /\ UNCHANGED <<file, archiveVars, serviceVars, committed, calls, incidents>>

\* A file is rewritten in place.
Rewrite(f, content) ==
    /\ edits < MaxEdits
    /\ content # file[f]
    /\ file' = [file EXCEPT ![f] = content]
    /\ thread' = Noted(name, file', FALSE)
    /\ edits' = edits + 1
    /\ UNCHANGED <<name, archiveVars, life, serviceVars, committed, calls, incidents>>

-----------------------------------------------------------------------------
(* The file store. *)

\* The name still reaches the file of this descriptor.
name_still_reaches(descriptor) == name = descriptor

\* Mutant: the name is not looked at again after the read.
PolicyFromUnchecked(descriptor, raw) ==
    IF raw \in TooLarge THEN "too_large"
    ELSE IF Policy(raw).reason = Absent THEN "loaded" ELSE Policy(raw).reason

\* What the store answers for bytes read from a descriptor.
policy_from(descriptor, raw) ==
    IF name = NoFile THEN "absent"
    ELSE IF ~ name_still_reaches(descriptor) THEN "changed_while_read"
    ELSE IF raw \in TooLarge THEN "too_large"
    ELSE IF Policy(raw).reason # Absent THEN Policy(raw).reason
    ELSE "loaded"

-----------------------------------------------------------------------------
(* The start: PolicyService.start, then the archive of bootstrap's         *)
(* _durable_authorities.  Nothing is served before it ends.                *)

StartGoesOn(at) == life' = [life EXCEPT !.at = at]
StartRefused == life' = Down

\* protection_at_start: a descriptor of what the name reaches is held.
HoldAtStart ==
    /\ life.at = "down"
    /\ life' = [Down EXCEPT !.at = "held", !.held = name]
    /\ UNCHANGED <<fileVars, archiveVars, serviceVars, thread, committed, bounds>>

\* The walk judges what the name reaches while it walks.
WalkAtStart ==
    /\ life.at = "held"
    /\ IF name = NoFile \/ name \in Unprotected
       THEN StartRefused
       ELSE life' = [life EXCEPT !.at = "walked", !.walked = name]
    /\ UNCHANGED <<fileVars, archiveVars, serviceVars, thread, committed, bounds>>

\* A protected verdict keeps the descriptor, where there was one.
RecheckAtStart ==
    /\ life.at = "walked"
    /\ IF life.held # NoFile /\ ~ name_still_reaches(life.held)
       THEN StartRefused
       ELSE StartGoesOn("judged")
    /\ UNCHANGED <<fileVars, archiveVars, serviceVars, thread, committed, bounds>>

\* The load that follows reads the kept descriptor, or opens the name.
ReadAtStart ==
    /\ life.at = "judged"
    /\ LET descriptor == IF life.held # NoFile THEN life.held ELSE name
       IN  IF descriptor = NoFile
           THEN StartRefused
           ELSE life' = [life EXCEPT !.at = "read", !.held = descriptor, !.raw = file[descriptor]]
    /\ UNCHANGED <<fileVars, archiveVars, serviceVars, thread, committed, bounds>>

AnswerAtStart ==
    /\ life.at = "read"
    /\ IF policy_from(life.held, life.raw) = "loaded"
       THEN /\ life' = [life EXCEPT !.at = "loaded", !.raw = Absent]
            /\ current' = policy_version(life.raw)
            /\ projected' = policy_version(life.raw)
            /\ excused' = FALSE
       ELSE StartRefused /\ UNCHANGED serviceVars
    /\ UNCHANGED <<fileVars, archiveVars, thread, committed, bounds>>

\* FilePolicyArchive.recover: temporaries are removed unread, and the directory
\* is synced when any were.
RecoverArchive ==
    /\ life.at = "loaded"
    /\ orphans' = {}
    /\ IF orphans = {} THEN UNCHANGED <<archive, interrupted>>
       ELSE archive' = Synced /\ interrupted' = LostAlready
    /\ StartGoesOn("recovered")
    /\ UNCHANGED <<fileVars, lock, serviceVars, thread, committed, bounds>>

\* The start version is kept before anything listens, by the keep an ask uses.
KeepAtStart(t) ==
    /\ life.at = "recovered"
    /\ StartGoesOn("keeping")
    /\ thread' = [thread EXCEPT ![t] = [NoCall EXCEPT !.at = "archive", !.raw = current]]
    /\ UNCHANGED <<fileVars, archiveVars, serviceVars, committed, bounds>>

Listen(t) ==
    /\ life.at = "keeping"
    /\ thread[t].at = "decide"
    /\ StartGoesOn("serving")
    /\ thread' = [thread EXCEPT ![t] = NoCall]
    /\ UNCHANGED <<fileVars, archiveVars, serviceVars, committed, bounds>>

-----------------------------------------------------------------------------
(* A load, by an ask or by the reload that is due. *)

Goes(t, at) == thread' = [thread EXCEPT ![t].at = at]
Ends(t) == thread' = [thread EXCEPT ![t] = NoCall]

\* A version that cannot be kept refuses the question, or the start.
Refuses(t) ==
    /\ Ends(t)
    /\ life' = IF life.at = "keeping" THEN Down ELSE life

\* DecisionService.ask, or PolicyService.reload_if_due past its interval; the
\* name is opened.
Open(t, question) ==
    /\ life.at = "serving"
    /\ thread[t].at = "idle"
    /\ calls < MaxCalls
    /\ calls' = calls + 1
    /\ thread' = IF name = NoFile THEN thread
                 ELSE [thread EXCEPT ![t] = [NoCall EXCEPT !.at = "opened", !.question = question,
                                                         !.opened = name, !.seen = Under(name)]]
    /\ UNCHANGED <<fileVars, archiveVars, life, serviceVars, committed, edits, incidents>>

Read(t) ==
    /\ thread[t].at = "opened"
    /\ thread' = [thread EXCEPT ![t].at = "read", ![t].raw = file[thread[t].opened]]
    /\ UNCHANGED <<fileVars, archiveVars, life, serviceVars, committed, bounds>>

\* The store answers; an unavailable policy ends the call.
Answer(t) ==
    /\ thread[t].at = "read"
    /\ IF policy_from(thread[t].opened, thread[t].raw) = "loaded"
       THEN Goes(t, "loaded")
       ELSE Ends(t)
    /\ UNCHANGED <<fileVars, archiveVars, life, serviceVars, committed, bounds>>

AfterLoad(t) == IF thread[t].question = Absent THEN Ends(t) ELSE Goes(t, "archive")

\* Whether the version moved is looked at and the new one kept, then the
\* projection is rebuilt, with other threads in between.
Compare(t) ==
    /\ thread[t].at = "loaded"
    /\ IF policy_version(thread[t].raw) # current
       THEN /\ current' = policy_version(thread[t].raw)
            /\ Goes(t, "rebuild")
       ELSE UNCHANGED current /\ AfterLoad(t)
    /\ UNCHANGED <<fileVars, archiveVars, life, projected, excused, committed, bounds>>

\* A projection that cannot be rebuilt is announced and keeps what it held.
Rebuild(t, fails) ==
    /\ thread[t].at = "rebuild"
    /\ projected' = IF fails THEN projected ELSE policy_version(thread[t].raw)
    /\ excused' = (fails \/ policy_version(thread[t].raw) # current)
    /\ AfterLoad(t)
    /\ UNCHANGED <<fileVars, archiveVars, life, current, committed, edits, calls>>

RebuildStep(t) ==
    \/ Rebuild(t, FALSE) /\ UNCHANGED incidents
    \/ /\ "projection" \in Incidents /\ incidents < MaxIncidents
       /\ incidents' = incidents + 1
       /\ Rebuild(t, TRUE)

-----------------------------------------------------------------------------
(* DecisionService._archive and FilePolicyArchive.keep. *)

\* Under the lock: a version that is there is not written again, and a temporary
\* that stands in the way refuses the question.
Keep(t) ==
    /\ thread[t].at = "archive"
    /\ lock = NoFile
    /\ LET v == policy_version(thread[t].raw)
       IN  CASE archive[v] # Absent -> Goes(t, "decide") /\ UNCHANGED <<lock, orphans, life>>
             [] archive[v] = Absent /\ v \in orphans -> Refuses(t) /\ UNCHANGED <<lock, orphans>>
             [] OTHER -> /\ Goes(t, "writing")
                         /\ lock' = t
                         /\ orphans' = orphans \cup {v}
                         /\ UNCHANGED life
    /\ UNCHANGED <<fileVars, interrupted, archive, serviceVars, committed, bounds>>

\* The bytes are written and synced; a failure leaves the temporary.
WriteTemporary(t) ==
    /\ thread[t].at = "writing"
    /\ \/ Goes(t, "link") /\ UNCHANGED <<lock, life, incidents>>
       \/ /\ "write" \in Incidents /\ incidents < MaxIncidents
          /\ incidents' = incidents + 1
          /\ Refuses(t) /\ lock' = NoFile
    /\ UNCHANGED <<fileVars, interrupted, archive, orphans, serviceVars, committed, edits, calls>>

\* The version gets its name, which a crash can still lose, and the temporary goes.
LinkVersion(t) ==
    /\ thread[t].at = "link"
    /\ LET v == policy_version(thread[t].raw)
       IN  /\ archive' = [archive EXCEPT ![v] = Volatile]
           /\ orphans' = orphans \ {v}
    /\ Goes(t, "sync")
    /\ UNCHANGED <<fileVars, interrupted, lock, life, serviceVars, committed, bounds>>

\* Mutant: keep answers before the directory is synced.
SyncSkipped(t) ==
    /\ thread[t].at = "sync"
    /\ lock' = NoFile
    /\ Goes(t, "decide")
    /\ UNCHANGED <<fileVars, archive, orphans, interrupted, life, incidents, serviceVars, committed, edits, calls>>

\* The directory is synced; a failure refuses the question, with the name in place.
SyncDirectory(t) ==
    /\ thread[t].at = "sync"
    /\ lock' = NoFile
    /\ \/ /\ archive' = Synced
          /\ interrupted' = LostAlready
          /\ Goes(t, "decide")
          /\ UNCHANGED <<life, incidents>>
       \/ /\ "sync" \in Incidents /\ incidents < MaxIncidents
          /\ incidents' = incidents + 1
          /\ Refuses(t)
          /\ interrupted' = interrupted \cup {policy_version(thread[t].raw)}
          /\ UNCHANGED archive
    /\ UNCHANGED <<fileVars, orphans, serviceVars, committed, edits, calls>>

-----------------------------------------------------------------------------
(* The decision. *)

\* A suspension that a person's act ended is recorded as what the act made of it
\* (module Decisions).
Consulted(verdict) ==
    {verdict} \cup
        (IF verdict.outcome = "suspend"
         THEN {[verdict EXCEPT !.outcome = "allow", !.reason = "approval_granted"],
               [verdict EXCEPT !.outcome = "deny", !.reason = "approval_rejected"]}
         ELSE {})

\* A committed decision, with the references its evaluation read.
Decision(content, question, verdict, inForce) ==
    [version |-> policy_version(content), question |-> question,
     capability |-> question.capability, scope |-> question.scope, digest |-> question.digest,
     references |-> references_read(Policy(content).rules, question), outcome |-> verdict.outcome,
     reason |-> verdict.reason, rule_id |-> verdict.rule_id, in_force |-> inForce]

\* What the name stood for, at some moment of a call under which it moved once at most.
InForce(call) == call.moves <= 1 => policy_version(call.raw) \in call.seen

\* The rules loaded for this ask are evaluated, and the decision is appended.
Decide(t) ==
    /\ life.at = "serving"
    /\ thread[t].at = "decide"
    /\ \E verdict \in Consulted(evaluate(Policy(thread[t].raw).rules, thread[t].question)) :
           committed' = committed \cup
               {Decision(thread[t].raw, thread[t].question, verdict, InForce(thread[t]))}
    /\ Ends(t)
    /\ UNCHANGED <<fileVars, archiveVars, life, serviceVars, bounds>>

-----------------------------------------------------------------------------
(* The daemon dies, alone or with its host.  A killed process leaves the   *)
(* directory as it stands; a host that stops may lose what was never       *)
(* synced, and what it did not lose is on the disk.                        *)

Dies(how) ==
    /\ how \in Incidents /\ incidents < MaxIncidents
    /\ life.at # "down"
    /\ incidents' = incidents + 1
    /\ lock' = NoFile
    /\ life' = Down
    /\ current' = Absent
    /\ projected' = Absent
    /\ excused' = FALSE
    /\ thread' = [t \in Threads |-> NoCall]
    /\ UNCHANGED <<fileVars, committed, edits, calls>>

Killed ==
    /\ Dies("kill")
    /\ interrupted' = interrupted \cup {v \in Contents : archive[v] = Volatile}
    /\ UNCHANGED <<archive, orphans>>

PowerLost ==
    /\ Dies("power")
    /\ \E lost \in SUBSET {v \in Contents : archive[v] = Volatile} :
           archive' = [v \in Contents |-> IF v \in lost THEN Absent ELSE Synced[v]]
    /\ orphans' \in SUBSET orphans
    /\ UNCHANGED interrupted

-----------------------------------------------------------------------------
PolicyInit ==
    /\ name \in Files
    /\ file \in [Files -> Contents]
    /\ archive = [v \in Contents |-> Absent]
    /\ orphans = {}
    /\ interrupted = {}
    /\ lock = NoFile
    /\ life = Down
    /\ current = Absent
    /\ projected = Absent
    /\ excused = FALSE
    /\ thread = [t \in Threads |-> NoCall]
    /\ committed = {}
    /\ edits = 0 /\ calls = 0 /\ incidents = 0

Administrator ==
    \/ \E f \in Files \cup {NoFile} : Retarget(f)
    \/ \E f \in Files, content \in Contents : Rewrite(f, content)

Startup ==
    \/ HoldAtStart \/ WalkAtStart \/ RecheckAtStart
    \/ ReadAtStart \/ AnswerAtStart \/ RecoverArchive
    \/ \E t \in Threads : KeepAtStart(t) \/ Listen(t)

PolicyNext ==
    \/ Administrator
    \/ Startup
    \/ Killed \/ PowerLost
    \/ \E t \in Threads :
          \/ \E question \in Questions \cup {Absent} : Open(t, question)
          \/ Read(t) \/ Answer(t) \/ Compare(t) \/ RebuildStep(t)
          \/ Keep(t) \/ WriteTemporary(t) \/ LinkVersion(t) \/ SyncDirectory(t) \/ Decide(t)

PolicySpec == PolicyInit /\ [][PolicyNext]_policyVars

-----------------------------------------------------------------------------
(* Properties. *)

\* Every variable has its type.
PolicyTypeOK ==
    /\ name \in Files \cup {NoFile}
    /\ file \in [Files -> Contents]
    /\ archive \in [Contents -> {Absent, Volatile, Durable}]
    /\ orphans \subseteq Contents
    /\ interrupted \subseteq Contents
    /\ lock \in Threads \cup {NoFile}
    /\ lock # NoFile <=> \E t \in Threads : thread[t].at \in {"writing", "link", "sync"}
    /\ current \in Contents \cup {Absent}
    /\ projected \in Contents \cup {Absent}
    /\ life.at = "serving" => current # Absent
    /\ \A t \in Threads : thread[t].at \notin {"idle", "opened"} => thread[t].raw \in Contents

\* A version a committed decision names is in the archive, through failed writes,
\* kills, power losses and restarts, unless the keep that named it was itself
\* stopped before the directory's sync (decisions.py _archive, "so that no
\* committed decision names a version whose bytes were never kept").
CommittedVersionsAreKept ==
    \A d \in committed : archive[d.version] = Absent => d.version \in interrupted

\* A reader with the record and the archived bytes reaches the recorded answer:
\* the live evaluation, on all of a caller's groups, and the recipe's, on the
\* references the record carries, agree on every decision the policy alone took
\* (retrospective_policy.py rederive_recorded_decision).
ReplayAgrees ==
    \A d \in committed :
        rederive_recorded_decision(d, Document(d.version)) =
            (IF d.reason \in RecipeReasons THEN "confirmed" ELSE "reason_outside_recipe")

\* The order of the rules in the file never decides: the same rules in the
\* opposite order yield the recorded outcome (domain/policy.py evaluate).
OrderDoesNotDecide ==
    \A d \in committed :
        LET other == evaluate(Reverse(Policy(d.version).rules), d.question)
        IN  d.reason \in RecipeReasons => other.outcome = d.outcome /\ other.reason = d.reason

\* A decision is taken on bytes that stood under the configured name at some
\* moment of its ask: a name that moved once under the read is always noticed,
\* and so a file no longer the authority decides nothing it did not already hold
\* (policy_store.py load, "or this says it does not know which file they came from").
InForceWhenRead == \A d \in committed : d.in_force

\* A start reads the file its protection was judged on, if the name moved at most
\* once in between (policy_store.py protection_at_start, "a name retargeted
\* between them gave a verdict about one and bytes from another").
StartReadsWhatItJudged ==
    life.at \in {"loaded", "recovered", "keeping", "serving"} /\ life.moves <= 1 => life.held = life.walked

\* The projection a status read compares with the authority is behind it only
\* while a thread is on its way to rebuild it, or because a rebuild failed or was
\* overtaken by another load's (application/policy.py _change_to, _rebuild).
BehindForACause ==
    life.at = "serving" /\ projected # current
        => excused \/ \E t \in Threads : thread[t].at = "rebuild"

\* What the plane acts on is the authority that was read: decisions on bytes in
\* force during the ask, a start on the file whose protection it judged, and a
\* projection that is behind only for a cause (load, _change_to).
ReadsFollowTheAuthority ==
    PolicyTypeOK /\ InForceWhenRead /\ StartReadsWhatItJudged /\ BehindForACause

\* A committed record explains itself: the recipe over the archived bytes gives
\* the recorded answer, and the order of the file's rules had no part in it.
RecordsExplainThemselves == ReplayAgrees /\ OrderDoesNotDecide

-----------------------------------------------------------------------------
(* What makes them inductive. *)

Writing == {"writing", "link", "sync"}
Keeping == {"archive", "decide"} \cup Writing
Asking == {"idle", "opened", "read", "loaded", "rebuild"} \cup Keeping

Calls == [at : Asking, question : Questions \cup {Absent}, opened : Files \cup {NoFile},
          raw : Contents \cup {Absent}, seen : SUBSET Contents, moves : Nat]

Accepted(content) == Policy(content).reason = Absent

\* What a start holds, and how often the name moved under it.
Lives == [at : {"down", "held", "walked", "judged", "read", "loaded", "recovered", "keeping", "serving"},
          held : Files \cup {NoFile}, walked : Files \cup {NoFile},
          raw : Contents \cup {Absent}, moves : Nat]

Types ==
    /\ PolicyTypeOK
    /\ thread \in [Threads -> Calls]
    /\ life \in Lives
    /\ life.at = "read" => life.raw \in Contents /\ life.held # NoFile
    /\ \A t \in Threads : thread[t].at \in {"opened", "read"} => thread[t].opened \in Files

\* A thread that writes a version holds the archive's lock.
LockShape == \A t \in Threads : thread[t].at \in Writing <=> lock = t

\* A name that moved once is not where it was, and a start that held no file
\* found one only because it moved.
StartShape ==
    /\ life.at \in {"held", "walked"} =>
           (life.moves = 0 => name = life.held) /\ (life.moves = 1 => name # life.held)
    /\ life.at = "walked" => (life.moves = 0 => life.walked = life.held) /\ life.walked # NoFile
    /\ life.at \in {"walked", "judged"} /\ life.held = NoFile =>
           life.moves # 0 /\ (life.moves = 1 => name = life.walked)
    /\ life.at = "judged" /\ life.held # NoFile /\ life.moves <= 1 => life.held = life.walked
    /\ life.at = "read" /\ life.moves <= 1 => life.held = life.walked

\* The same of a call's read; what it read stood under the name.
ReadShape(call) ==
    /\ call.at \in {"opened", "read"} =>
           /\ call.moves = 0 => name = call.opened /\ file[call.opened] \in call.seen
           /\ call.moves = 1 => name # call.opened
           /\ call.at = "read" /\ call.moves = 0 => call.raw \in call.seen
    /\ call.at \in {"loaded", "rebuild"} \cup Keeping =>
           /\ Accepted(call.raw)
           /\ life.at # "keeping" => InForce(call)

\* Nobody asks before the daemon serves, but for the keep of the start.
ServiceShape ==
    /\ life.at \notin {"keeping", "serving"} => \A t \in Threads : thread[t].at = "idle"
    /\ life.at = "keeping" =>
           /\ \A t \in Threads : thread[t].at \in {"idle"} \cup Keeping
           /\ \A t, u \in Threads : thread[t].at # "idle" /\ thread[u].at # "idle" => t = u
    /\ life.at \in {"loaded", "recovered", "keeping", "serving"} => current \in Contents /\ Accepted(current)
    /\ life.at \in {"loaded", "recovered", "keeping"} => projected = current

\* A version that was decided on is durable, or its keep was stopped; and only
\* the directory's sync makes the difference.
Kept(v) == archive[v] = Durable \/ v \in interrupted

ArchiveShape ==
    /\ \A v \in Contents : archive[v] = Volatile =>
           v \in interrupted \/ \E t \in Threads : thread[t].at = "sync" /\ thread[t].raw = v
    /\ \A t \in Threads : thread[t].at \in {"writing", "link"} => archive[thread[t].raw] = Absent
    /\ \A t \in Threads : thread[t].at = "sync" => archive[thread[t].raw] # Absent
    /\ \A t \in Threads : thread[t].at = "decide" => Kept(thread[t].raw)
    /\ \A d \in committed : Kept(d.version)

\* A committed decision is the evaluation of a policy that was read.
CommittedShape ==
    \A d \in committed :
        /\ d.version \in Contents /\ Accepted(d.version)
        /\ \E verdict \in Consulted(evaluate(Policy(d.version).rules, d.question)) :
               d = Decision(d.version, d.question, verdict, TRUE)

PolicyInv ==
    /\ Types /\ LockShape /\ StartShape /\ ServiceShape /\ ArchiveShape /\ CommittedShape
    /\ StartReadsWhatItJudged /\ BehindForACause
    /\ \A t \in Threads : ReadShape(thread[t])
=============================================================================
