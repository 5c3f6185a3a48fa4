# SayFirst control plane: TLA+ models, checks and proofs

The SayFirst daemon decides whether a governed program may do something. A
*boundary* asks over a unix socket; the daemon evaluates a policy and answers
`allow`, `deny` or `suspend`. A suspended question waits for a person; the
caller asks again. Decisions go to an append-only chain, and a decision's
evidence to a second, hash-linked chain. This directory models the parts whose
correctness depends on the order in which threads, people, processes, sweeps and
failures take their steps, and the pure rules those parts apply.

Paths below are relative to `packages/control-plane/src/sayfirst_control_plane`
unless they name another package.

## Inventory

| part | state it keeps | operations | what makes it correct | module |
|---|---|---|---|---|
| approval store (`application/approvals.py`, `domain/approval.py`) | the record of each wait, the waits of each question in opening order, two due-time heaps; one lock, one clock | `open_if_absent`, `publish`, `abandon`, `resolve`, `claim`, `release_claim`, `consume`, `expire_past`, `forget_lapsed` | one act licenses one execution; one open wait per question; an act survives until spent | `ApprovalStore` |
| decision service (`application/decisions.py`), resolution route, provider port (`plugins/approval.py`) | none between calls; the locals of each ask and act | `ask`, `sweep`, `resolve`, `write_resolution` | an answer is on the chain before it is delivered; nothing is licensed twice behind a failed append | `Decisions` |
| decision store (`adapters/file/decision_store.py`) | the file, the index and head in memory, the fence | `append`, `_rebuild`, `_recover_tail` | a record reported refused is not on the chain; an unsure write fences the store | `DecisionLog`, `DecisionChain` |
| grant registry (`application/grants.py`, `domain/grant.py`) and the connection that holds a grant | reservations and live connections, current version, stopped flag | `reserve`, `open`, `cancel`, `policy_version_changed`, `tick`, `shutdown`, peer loss, hold | a grant ends once, for one reason; capacity is neither leaked nor exceeded; no live grant of an old version is forgotten | `Grants` |
| evidence emitter (`application/evidence_emitter.py`) | a bounded queue, gap counters, a worker | `_submit`, the worker's loop, `flush`, `close` | every record has its place, or a declared gap | `Emitter` |
| recovery (`application/recovery.py`, `adapters/file/recovery_journal.py`, `adapters/file/evidence_store.py`) | the journal of epochs, the evidence file | `open_epoch`, `close_clean`, `reconcile_at_start` | after any number of interrupted starts every lost decision is declared once | `Recovery` |
| evidence chain, its reads and export (`domain/evidence_chain.py`, `domain/integrity_grade.py`, `application/evidence_reads.py`) | the chain | placing, verifying, grading; pages and exports | what is called intact is what was recorded; no grade is raised | `EvidenceChain`, `EvidenceReads` |
| policy (`domain/policy.py`, `application/policy.py`, `adapters/file/policy_store.py`, `adapters/file/policy_archive.py`; `packages/contract` `retrospective_policy.py`) | the cached policy, the projection, the archive | parse, evaluate, `load`, `_change_to`, `keep`, `recover` | decisions stand on bytes in force and archived, and can be re-derived from them | `PolicyRules`, `PolicyAuthority` |
| socket server and HTTP surface (`adapters/socket_server.py`, `adapters/http_surface.py`, `domain/identity.py` and neighbours) | one identity per connection, the directory pool | accept, establish, resolve, refresh, guard, body, route, answer, close | who is served is who the directory admitted; one answer per request | `Identity`, `Routes`, `Surface` |
| daemon start and stop, quickstart (`adapters/socket_server.py`, `bootstrap.py`, `sayfirst_quickstart/launcher.py`) | the address, the lock of the evidence root, the record of the started process | `start`, `stop`, `up`, `down` | one writer; only a process of one's own is signalled | `Lifecycle`, `Quickstart` |
| effective access and directory protection (`access/effective_access.py`, `domain/directory_protection.py`, `domain/write_reach.py`) | none | four walks over the directories of a name | what is called protected a stranger cannot change | `Paths` |
| boundary (`packages/boundary`) | grant cache, one reader thread per grant, outcome log | request, `hit`, `put`, signals, `flush`, `close` | a held grant is used only while live, current and fresh; no reader is orphaned | `Boundary`, `OutcomeLog` |
| contract clients (`packages/contract`: `transport/socket_client.py`, `binding/http_unix_socket/client.py`) | a kept or a fresh connection | open, send, read, reconnect | nothing acted on is called safe to repeat; no byte to another account | `Client` |
| the rest: events, core-owned values, plugin discovery and composition, settings, status, contract documents, stub, conformance runner, testing kits | mostly none | | | see "Not modelled" |

How they meet: a connection (`Surface`) carries a request into the decision service
(`Decisions` for a rule that suspends, `Grants` for one that allows), which loads the
policy and archives it (`PolicyAuthority`, `PolicyRules`), appends to the decision
store (`DecisionLog`), emits evidence (`Emitter`) and, for a grant, holds the
connection whose stream the boundary reads (`Boundary`). A start (`Lifecycle`) judges
its files (`Paths`) and recovers what earlier lives left (`Recovery`).

### What is hard here

* **Interleavings.** Each connection is a thread. Asks of one question race for one
  execution; people race for one wait; sweeps run on every ask and on every held
  connection, with instants read before the lock is taken. The policy service and
  the boundary's outcome log take no lock at all.
* **Partial failure.** An append may be refused before its first byte, may be
  indeterminate, or may commit and return a receipt nobody can read. A gap, a marker
  and a journal record are three appends. A version's name exists before its
  directory is synced.
* **Stale values.** `ask` and `write_resolution` read the clock before the lock; a
  policy's name is looked at again after the read; a process id is reused between
  the proof and the signal; a page takes its grades from a prefix read separately.
* **Restarts.** Waits and grants are memory, decisions and evidence are files.
* **Late answers.** A directory lookup past its timeout keeps its worker; a reply
  past the client's timeout stays on the stream.
* **Limits.** Grant capacity, the emitter's queue, the outcome log, bounded looks of
  a consultation, the byte bound of an export.

`PROJECT.json` lists these, one per line of code where it bites, under `hazards`.

## Modules

### `ApprovalStore`

The store's record and one operator per method. The store holds one lock for a
whole method, so a method is a value of `wait` computed from another; where the
code raises, the operator returns `wait` unchanged or is guarded by the
predicate its caller tests (`Claimable`, `Resolvable`, `InTime`). References are
the asks that mint them, which is sound because a reference is minted once.
A record that is no longer kept says why (`none`, `abandoned`, `forgotten`,
`lost`): the code only says `ApprovalUnknown`, and the reason is what the
properties need to tell apart.

### `Decisions`

The three kinds of caller over that store, each a process:

* an **ask** (`pc`, `asked_at`, `attempt`, `consulted`, `appended`): `Begin` reads
  the clock; `AskExpires` and `AskForgets` are its sweep; then it is refused or
  consults. `OpenWait`, `FindPublished`, `FindRejected`, `FindApproved` and
  `FindInFlight` are the cases of `_consult_approvals`; `Claim`/`LoseClaim` the
  second critical section; `Retry` the bounded loop; `ProviderTakes` and
  `ProviderRefuses` the provider; `AppendRefused` and `AppendBegan` the decision
  store; `Settle` and `Unwind` the two exits (`recorded` true or false). Both the
  indeterminate append and the unreadable receipt settle: the code treats a
  record that may exist as one that does.
* an **act** (`act`): `ActBegins` is the route's read and check, `ActUnanswered` a
  provider that refuses, continues the wait or gives an answer no act supports,
  `ActDated` the clock reading of `write_resolution`, `ActApplied`, `ActLate` and
  `ActRefused` the store's write, `ActRecorded` the recorder.
* a **holder** (`sweep`): a thread holding an issuing connection, which sweeps.

`Restart` ends the process between any two steps: the waits go, requests in
flight are never answered, the decisions stay. The decision store is reduced to
`appended`: no record, a record, or an indeterminate append that left none.

`DecisionsProofs` holds the theorems about it; see "Proofs".

### `DecisionChain` and `DecisionLog`

`DecisionChain` is what the port `ports/decision_store.py` promises: a sequence
of decisions that only grows, one at a time, at the reference being appended, and
answers that are true when they are given (`acked`, `exists`, `refused`,
`indeterminate`).

`DecisionLog` is `adapters/file/decision_store.py` for one scope. One append
holds the scope's lock, so there is one writer (`writer`), and a step is what
happens between two system calls that may fail or at which the process may end:
`AppendBegins`, `AppendUnusable`, `AppendDuplicate`, `Opens`, `Recovers`,
`HeaderStep`, `RecordWritten`, `Published`, each with its failure. The file is its
complete lines and whether torn bytes follow; `CutShort` is what an interrupted
write may leave. `Rebuilt` is `_rebuild`: which lines it accepts, the positions
it indexes, whether the scope is unusable or fenced. `Crash` and `Start` end the
process anywhere and run the recovery of `bootstrap`.

Two errors leave `append` behind bytes it has written and fence nothing
(`_write_header`, `_sync_directory`). `escaped` remembers that one has; the
invariants and the refinement of the port hold until then. That no committed
decision is changed or removed holds regardless.

`AuthoritiesProofs` holds the theorems, the refinement of the port among them; see "Proofs".

### `Grants`

`application/grants.py` with its callers: each ask is a request thread that
sweeps, loads the policy, decides, reserves, appends, delivers, registers,
rechecks and then holds its connection (`adapters/http_surface.py`), and one
thread stops the daemon. `Reloads`, `Compares` and `Announces` are the policy
service, which takes no lock. `End` and `Lose` are `_end` and the peer's loss:
the pop under the lock is one step, the record behind it another (`Records`).
`Opens`, `Issues`, `Rechecks` and `Rereads` are `open` and what follows it.

There is no clock: `age`, `silence`, `holding` and `lag` are how long ago an
instant was read, cut off at `Horizon`, so the state space is finite and a thread
may still act on an instant it read long before. `Limits` are the per-principal
limits a run starts with, and `MaxIncidents` bounds the edits of the policy file,
failed loads and appends, refusals, peers that leave or write, and the stop.
Consecutive heartbeats on a wire are kept as one frame.

`GrantsProofs` holds the theorems about it; see "Proofs".

### `Emitter`

`application/evidence_emitter.py`: submissions (`SubmitTooLate`, `SubmitTooMuch`,
`Submit`), the worker's loop (`TakesQueued`, `TakesPending`, `FindsNothing`,
`Appends`, `Raises`, `Settles`, `SettlesFailed`), the retry timer, `flush` and
`close`. A gap is the *set* of records it stands for where the code keeps their
number, kinds and span; the set is what lets `EveryRecordIsAccounted` follow one
record through every hand-over. The completion counters a flush compares are
reduced to whether a completion happened since it asked; backoff is the set of
scopes whose retry is still to come. `Raises` leaves the entry on disk or not, as
the store may. `CloseRaises` is `flush` meeting a dictionary that another thread
is inserting into. The grade's evaluation is in `EvidenceReads`; the capture of
payloads is data, and is left out.

`EmitterProofs` holds the theorems about it; see "Proofs".

### `Recovery`

One scope across the lives of the daemon. A life opens its epoch, reconciles what
earlier ones left open (a marker for an unclean epoch, gaps that name its lost
decisions in chunks, the journal's record), compares, serves, and closes cleanly or
dies. Every append to the evidence file and to the journal may be whole, torn or
fail at its sync, and a life may die between any two. The emitter is reduced to
what it holds.

`RecoveryProofs` holds the theorems about it; see "Proofs".

### `OutcomeLog` and `Boundary`

`Boundary` is `boundary.py`, `cache.py`, `signals.py` and `freshness.py` as several
threads of a governed program use them: a thread looks, asks on a miss, judges a
held grant, acts, records; a reader thread per grant applies heartbeats and an
ending that come late or never. `Ending` is the judgement of a held grant. The store's lock
and the wait of a channel's close for the read in progress are steps, since that is
where one thread can hold up another. `OutcomeLog` is `evidence.py`, which takes no
lock: a step is what runs between two points where the interpreter may switch
threads. `GapsAreDeclared` is stated for as long as one thread has used the log; the
races of two are listed under "Observations".

`BoundaryAndReadsProofs` holds the theorems about both; see "Proofs".

### `Identity`, `Routes` and `Surface`

`Identity` has the pure rules: admission, the principal built from the directory's
answer, when an identity is due again, what a resolution leaves. `Routes` is the order of the
checks of `do_GET` and `do_POST` as an operator from the facts of a request to its
answer. `Surface` runs them: the accept loop, a thread per connection, the directory
on a pool of workers behind a timeout (an abandoned lookup keeps its worker), the
clock, the records a connection leaves on each scope's chain, and a defect at any
step. What a route answers is in `Decisions` and `Grants`.

`DaemonProofs` holds the theorems about `Surface`; see "Proofs".

### `Lifecycle` and `Quickstart`

`Lifecycle` is `Daemon.start`, `compose` and `Daemon.stop` over one address and one
evidence root that several processes share: the probe of an address that is there,
the removal of a stale one, the lock, the bind, and the ways out. `Quickstart` puts
`up` and `down` of `launcher.py` on top: the lifecycle lock, the record, the start,
the wait for readiness, the pinned process and the signal, each step interruptible,
with process ids that are reused. `overlapped` remembers that two lives were
at work on the name at once.

`DaemonProofs` holds the theorems about `Quickstart` over `Lifecycle`; see "Proofs".

### `EvidenceChain` and `EvidenceReads`

`EvidenceChain` places a record, verifies a range and says which grade it supports.
The hash of an entry is its preimage: injective, and nothing more. `EvidenceReads` lets
a chain be graded, recorded in part, damaged (a line edited or taken from the middle)
and continued while a page is read in its separate steps, and evaluates an export of
every range of the state. `InRange` is a slice, because the file's lines stand in the
order of their sequences.

`BoundaryAndReadsProofs` holds the theorems about both; see "Proofs".

### `Paths`

A tree of two directories, a link and a file with owners and modes; the four walks
over it, each translated from its own code; then every sequence of removals,
replacements, writes and mode changes that the file system lets one stranger make.
A lookup is a sequence of looks (where it is, what is left to look up, the links behind
it), each of them `Advance` of the one before: `_extend` and `directories_crossed` both
walk that way. What a name reaches, the chains it ends and the directories it crosses
are read off its looks.

`ClientAndPathsProofs` holds the theorems about it; see "Proofs".

### `PolicyRules` and `PolicyAuthority`

`PolicyRules` has both parsers and both evaluations: the server's and the contract
package's, which the server does not import. `PolicyAuthority` follows a policy from
the name the administrator configures to a recorded decision: the store's open, read
and second look; the service's compare, change and rebuild; the archive's write-once
keep with its temporary, link and directory sync; a kill, a power loss, a start.

`AuthoritiesProofs` holds the theorems about both; see "Proofs".

### `Client`

Both clients against a far end that acts when it likes, also after the client gave up,
answers in two parts, in another generation, or hangs up. `Lost` is what each client
makes of a request whose answer never came; `Connect`, `TimesOut` and `Reading` follow
the code's order of checks. Who listens at the address and which account a
profile names may change between connections.

`ClientAndPathsProofs` holds the theorems about it; see "Proofs".

## Runs

One run per component that has behaviour; every run uses its module's own
specification, and no definition is replaced.

| run | bounds | shows |
|---|---|---|
| `decisions` | 3 asks, 1 act, 1 holder, 1 question, waits of length 1, clock 0..1, 2 looks, 1 restart, asks symmetric | one execution per act, allows stand on acts, no withdrawn promise, one open wait, claims are backed, acts stand |
| `log_faults` | 3 references, 5 appends, 2 crashes, every fault | the file is the authority; the port's promise is refined |
| `grants` | 2 requests of one account, 2 versions, limits 1 and 2, lifetime, heartbeat, reload and horizon 1, 2 incidents (1 where the limit is 1) | stop and version change against registration, one ending each, exact capacity |
| `emitter` | 1 scope, 3 units of 2 records, capacity 2, 1 flusher, the closer, 1 failure | no record unaccounted for; flushes truthful; waiting ends |
| `recovery` | 3 lives, 2 decisions, 1 decision per gap, 2 faults | losses declared once; evidence lies in its epoch |
| `boundary` | 2 threads, 1 question, log of 1, lifetime 1, horizon 1, 2 grants, 2 requests, 1 flush or close | no orphaned reader; hits are fresh; gaps declared; threads end |
| `surface` | 1 connection, 3 kinds of peer, 2 requests, 2 directory changes, 1 worker, lifetime 1, horizon 2 | identity on record; served as established; one answer; requests end |
| `quickstart` | 2 commands, 3 lives, 2 process ids | the daemon stays managed; only one's own child; commands end |
| `policy_archive` | 2 files, 3 contents, 2 questions, 2 threads, 2 edits, 2 calls, 2 incidents | reads follow the authority; versions kept; records explain themselves |
| `evidence_reads` | 4 entries, 1 damage, pages of 2, exports of 3 entries and 3 bytes | damage is seen; grades honest; exports continue |
| `paths` | 3 tops, 13 directories, 6 files, 4 layouts, 1 link | protected names stay; non-writers cannot write |
| `client_calls` | 2 requests, 2 opens, 2 moves of listener or account | told what happened; answers are their requests'; an impostor gets nothing |

Why these bounds reach the cases:

* `decisions`: three asks are needed for one to open a wait and two to race for the
  execution its approval licenses. A clock of 0..1 over waits of length 1 lets a wait
  be opened, run out, be opened over and be swept, and a spent approval reach its
  lapse. Two looks exercise both branches of `Retry`. One question is enough because
  the store never relates two of them. The constraint `SweptOnce` stops exploring
  past a sweep of the held connection in a second life, which has nothing new to find:
  the waits of the first are lost.
* `log_faults`: five appends of three references let each be retried behind a failure
  or a crash, and two crashes let a recovery itself be interrupted.
* `grants`: two requests are a registration and the sweep, change or stop that races
  it; with a limit of 1 a leaked reservation refuses somebody. Two incidents combine,
  for instance, an edit with a peer that leaves.
* `emitter`: a unit of two records can fail at its first or its second; the queue
  holds one unit, so the second of three submissions overflows it and the third
  carries the gap.
* `recovery`: the third life recovers what the second left of recovering the first;
  one decision per gap makes two gaps of two losses.
* `boundary`: two threads that miss on one question, two grants of which one displaces
  the other, and a log that is full at its second record.
* `surface`: a second request on a kept connection meets an identity that is due; a
  single worker is held by one abandoned lookup; two changes revoke and restore.
* `quickstart`: two ids over three lives force a reuse; the third life may be one
  started by hand.
* `policy_archive`: two moves of the name bring it back; two threads race two loads;
  two incidents are a failed sync and the kill after it.
* `evidence_reads`: a grade, an effect, a gap and one more entry; a page of two has a
  prefix; the bounds cut an export inside the chain.
* `paths`: the shapes are the owners and modes the walks tell apart, sticky included.
* `client_calls`: the second request follows a first whose answer is late.

Checking for deadlock is off: each system may stop, with every request answered and
every bound used up.

### Fairness

* `Emitter`: weak fairness of the worker, of each retry and of a flush whose
  completion happened. No timeout has to strike; the store fails a bounded
  number of times, so in every behaviour it accepts again.
* `Boundary`: weak fairness of each thread, and of a reader's read ending, because the
  client's sockets carry a timeout. Signals need not come.
* `Surface`: weak fairness of each connection's own thread, and of the timeout on its
  wait. The directory and its workers owe nothing.
* `Quickstart`: weak fairness of each command's steps, its deadlines among them. The
  daemon need not answer, stop or die.

`Decisions`, `DecisionLog`, `Grants`, `Recovery`, `PolicyAuthority`, `EvidenceReads`,
`Paths` and `Client` are checked for safety only.

## Proofs

Eight modules of theorems prove for every value of the constants what the runs check on
a small instance. Each of the 33 invariants the runs check has a theorem, and so have the
action properties `ActsStand` and `OnlyOurChild` and the refinement `KeepsThePort`.
Components whose theorems share lemmas share a module.

| module | theorem | states |
|---|---|---|
| `DecisionsProofs` | `TypeCorrect`, `OneExecution`, `AllowsStandOnActs`, `PromisesAreKept`, `OneWaitPerQuestion`, `ClaimsBacked` | `TypeOK`, `OneExecutionPerAct`, `AllowStandsOnAnAct`, `NoWithdrawnPromise`, `OneOpenWait`, `ClaimsAreBacked` |
| | `ActsAreNeverTakenBack` | the action property `ActsStand` |
| `AuthoritiesProofs` | `Authority`, `AuthorityHolds` | `AuthorityInv`, `FileIsTheAuthority` |
| | `PortKept` | `KeepsThePort`: committed decisions are never changed or removed, and the file store implements `DecisionChain` until a failure escapes |
| | `PolicyIsFollowed`, `ReadsDoFollow`, `VersionsAreKept`, `RecordsDoExplain` | `PolicyInv`, `ReadsFollowTheAuthority`, `CommittedVersionsAreKept`, `RecordsExplainThemselves` |
| `GrantsProofs` | `Registry`, `SlotsAreAccounted`, `StopIsComplete`, `OldVersionsEnd`, `EveryGrantEndsOnce` | `RegistryInv`, `SlotsAccounted`, `StopLeavesNoGrant`, `OldVersionsAreAnnounced`, `EndedOnce` |
| `EmitterProofs` | `Pipeline`, `NoSilentLoss`, `FlushMeansRecorded` | `PipelineInv`, `EveryRecordIsAccounted`, `FlushTellsTheTruth` |
| `RecoveryProofs` | `Recoveries`, `EveryLossIsDeclaredOnce`, `AllEvidenceLiesInItsEpoch` | `RecoveryInv`, `LossesAreDeclared`, `EvidenceLiesInItsEpoch` |
| `BoundaryAndReadsProofs` | `Boundaries`, `NoReaderIsOrphaned`, `EveryHitIsFresh`, `EveryGapIsDeclared` | `BoundaryInv`, `NoOrphanReader`, `HitsAreFresh`, `GapsAreDeclared` |
| | `ReadsAreShaped`, `DamageDoesShow`, `GradesStayHonest`, `ExportsDoContinue` | `ReadsInv`, `DamageIsSeen`, `GradesAreHonest`, `ExportContinues` |
| `DaemonProofs` | `Surfaces`, `EveryIdentityIsOnRecord`, `ServedUnderTheirIdentity`, `EachRequestAnsweredOnce` | `SurfaceInv`, `IdentityIsOnRecord`, `ServedAsEstablished`, `OneAnswerPerRequest` |
| | `QuickstartIsInOrder`, `DaemonDoesStayManaged` | `QuickInv`, `DaemonStaysManaged` |
| | `OnlyOurChildIsTouched` | the action property `OnlyOurChild` |
| `ClientAndPathsProofs` | `Clients`, `CallersAreToldWhatHappened`, `RepliesAreTheirRequests`, `OnlyTheNamedPrincipalHears` | `ClientInv`, `ToldWhatHappened`, `AnswersAreTheirRequests`, `ImpostorGetsNothing` |
| | `VerdictsRest`, `ProtectedNamesDoStay`, `NonWritersCanNot` | `PathsInv`, `ProtectedNamesStay`, `NonWritersCannot` |

### Assumptions

Those of the modules, and no others; TLC evaluates each in a run. The bounds of a run
(`MaxTime`, `MaxAppends`, `MaxLives` and the like) are natural numbers, any natural
numbers. Lengths, lifetimes, capacities and pool sizes are positive, as the code's
settings require. What stands for "nothing" or for a party that is not in a set
(`NoRef`, `Nobody`, `NoOne`, `None`, `NoThread`, `Closer`, `Stop`, `Unavailable`) is in
none of the sets it is compared with. The sets of asks, acts, references, threads,
flushers, connections, scopes, principals and faults are arbitrary, and need not be
finite: what has to be (the live grants, the users of the log, the queue) is proved
finite. Where the code knows finitely many cases (two modes of admission, the kinds of
fault) the assumption names them. A policy's rules are a sequence (`PolicyAssumption`), the
process ids a machine hands out are finitely many positive numbers
(`LifecycleAssumption`), and no policy version is called what an edit leaves in its place
(`ReadsAssumption`). The attributes a tree starts with are those of directories and of a
file, and a name is followed over any number of links (`PathsAssumption`).

### How they go

The safety properties are seldom inductive. Each component's module therefore has a
section "What makes them inductive", which names the strengthening part by part; TLC
checked each of these parts on the run's instance before it was proved. A proof has a
lemma per part or group of parts, in which every action, or every group of actions that
does the same to that part, is a step; the theorem combines the lemmas.

**Decisions.** `TypeOK` needs what each place of an ask and an act entails
(`ConsultationShape`, `ActShape`): an ask reaches `settle` with a reference only because
of what it consulted. `OneExecutionPerAct` speaks of decisions on the chain, while what
prevents a second one is a claim in memory. `ExecutionInv` ties the two: only an
approved record is claimed and only a claimed one spent (`SpendShape`); an ask between
its claim and its settling holds the claim of the record it names, alone
(`HeldExecution`); the record an allow on the chain names is claimed by the ask still
settling it, or spent, or gone, and never claimable again (`SpentForGood`). This is
where the end of the process comes in: a lost record stays lost. `PromiseInv` says that
a reference an ask did not mint is one somebody outside its opener was told about, and
such a wait is never withdrawn; `ApprovalInv` that whatever is, was or is about to be
spent stands on a person's act; `ClaimsAreHeld` that a claim has an ask that will finish
it. `OneOpenWait` and `ActsStand` compare instants that were read before the lock, so
they rest on `DatedInOrder`: no instant anybody acts with lies ahead of the clock, a
wait lasts its length, an act is dated after the opening of its wait. `ExpiryEffect`,
`ForgettingEffect` and `LossEffect` say once what a sweep and a restart do to a record.

**Decision log.** `AuthorityInv` relates the file, the index in memory, the writer and
the answers: the index is what a rebuild of the file yields, but for the record just
written or behind a fence, and a record the index does not know is one whose writer was
told so or left in doubt. All but types and `WriterShape` is stated until a failure has
escaped. What a rebuild reads is defined line by line; where an induction over the lines
would be natural the proof takes the least line that would break the claim, which the
library's well-foundedness of `<` on the naturals provides (`LeastNumber`).
`PortKept` maps the file's lines to the decisions of `DecisionChain`: the initial state
to its initial state, and each step to one of its steps or to a stutter (`PortStep`).

**Grants.** `RegistryInv`: the counts of slots are those of the requests that hold one;
a registered grant is live, being ended by one thread, or ended, and each of those once
(`EndShape`); what was told on a stream is what will be recorded (`WireShape`); a grant
the stop will not visit any more is about to be ended by its own request (`StopShape`).
`OldVersionsAreAnnounced` is inductive with it, and the heart of its proof is
`OldVersionStep`: a load that changes the version leaves its thread with the
announcement still to make, and a registration behind it rechecks.

**Emitter.** `PlaceShape` is the accounting: every record submitted is on the chain, in
the queue, in the worker's hands or counted as lost, and in one of them only, unless the
store raised over it and may have written it. `FlushShape` follows a flush and a close
through what is recorded when they complete. That a gap stands where the losses
happened, and behind its scope's grade, holds while the store accepts; `Ordered` and
`GradeShape` say so of everything under way.

**Recovery.** `FilesInv` is what the two files say whatever ended the lives that wrote
them, `LifeInv` what a life in progress holds against them. A write that was whole, torn
or not synced is one of three ways to grow a file (`Grown`, `Lined`), so each part of
`FilesInv` is proved once for a grown file, and each action shows that what it appends
fits.

**Boundary.** A thread inside the store's lock, or behind it, has a reader of its own
(`InPlace`), which is why none is orphaned between two steps; `Fresh` carries a judgement
from the lock to the use. The outcome log's part is arithmetic: with one thread,
everything up to `Passed` has left the log, what follows is pending in order, and
`dropped` is how many of the former were not handed out.

**Surface.** `HandlerInv` is what one connection's handler entails wherever it stands,
`JobShape` that a connection waits for one consultation of the pool or was left without
one, `ChainShape` what the chains it touched tell. The freshness of a membership
(`Timely`) is a bound on when an identity is due against when the directory revoked it,
carried through a consultation that may answer late, or after its connection gave up.

**Policy.** `PolicyInv` follows one content from the file to a decision. A start and a call
hold an open file while the name may be moved: what they concluded depends on how often it
moved, so `StartShape` and `ReadShape` say what holds after no move and after one; from the
second on nothing is claimed, which is the two looks' limit. `ArchiveShape` is the
durability: a version whose directory entry is not synced is one a thread is about to sync
under the lock, or one whose keep was stopped, and a thread that decides has one that is
kept. `CommittedShape` says that a committed decision is the evaluation of the bytes it
names; `RecordsDoExplain` adds that the contract package's evaluation, written
independently, agrees with the server's over every policy the server accepts, rule by rule
(the first rule that applies is the least, again by `LeastNumber`).

**Quickstart.** `QuickInv` has to hold over commands and lives that are killed anywhere.
`LivesShape` orders the births, so a process id in use belongs to the last who had it;
`NameShape` says, until two lives have overlapped, that one life at most is between its
bind and its unlink and the address is its; `CommandShape` that a command's child is its
own and not collected, which is why its process id cannot be another's; `RecordShape` that
the record is the one owed to a child said ready. The last is what `down` reads to decide
whom to signal.

**Evidence reads.** `ReadsInv` has no need of the number of damages: a stored line is the
record of its place but for what an edit may have made of its body, version and hash
(`IsLine`), lines are missing from the middle only (`StoredAs`), and once there was damage
the chain is not `Whole`, which no append repairs. A hash is its preimage, so a line that
recomputes is the record. From there `DamageDoesShow` is the correctness of `verify`: a
verdict of intact leaves no hole, no line that does not recompute and no end that is
short, for a page whose lines were read before later edits as well. `GradesStayHonest`
compares, connection by connection, the weakest of the grades standing at each entry of
the page with those of the records; a prefix carries grades only if it verified.
`ExportsDoContinue` is about `Fitting`: what is served is a beginning of the range, and the
sequence named next is the one behind its last line.

**Clients.** `StreamShape` is the strengthening that matters: a connection that may send
has nothing of an earlier request on its way, and one that was left with a reply unread
reads no other. That an answer is the request's own and that what may be sent again was
not done follow from it.

**Paths.** `PathsInv` says that every passing verdict rests on a tree in which nothing was
replaced since (`Stands`) and on what its walk found, said of the tree as a whole and no
longer of the chain: root alone writes what decides the name (`RootsAlone`), the caller is
held off from it (`NoWriterAbove`), what lies above the address or the evidence root is
trusted (`Guarded`), the parents and the file are out of reach (`OutOfReach`). Getting there
takes the walks themselves. `LookupEnds` proves that a lookup is over after `Steps` looks,
since what is left of it shrinks with each; `Stops` that nothing changes once it is over;
then the lookup of each layout is followed look by look, and one that circles or follows a
link too many is shown to arrive nowhere (`LeadsNowhere`), so no verdict passes there.
`NothingReplaced` closes the argument: behind any of the walls a stranger finds no entry it
may replace, and a change of mode (`ModesChanged`) never opens one. The shapes of the root,
the directories and the file and `MaxLinks` are arbitrary; the tree of four layouts is the
model's own.

### Left to TLC

* Liveness (`Emitter`, `Boundary`, `Surface`, `Quickstart`): fairness and `ENABLED` are
  outside what the prover handles. No safety property is left to it alone.

## Observations

Met while modelling; each is behaviour the models contain and the properties are
stated around.

* **Approvals.** `write_resolution` reads its instant before the store's lock, so an
  act may approve a wait over which a newer one was already opened
  (`approvals.py:790` against `:300-303`). The store is written before the act is
  recorded, so a re-ask may be answered on an act that no record holds yet
  (`plugins/approval.py:269-271`), and an act may come back on a wait its opener has
  not published.
* **Decision log.** A failed directory sync leaves `append` as a plain `OSError`
  behind a record that is on disk, and the decision service reads it as a refusal
  before the first byte (`decision_store.py:177`). A torn header is not fenced: the
  next record is glued to it, acknowledged, and refused by every rebuild (`:208`).
* **Grants.** `_end` writes on the boundary's socket while it holds the registry's
  lock (`grants.py:338`), so a boundary that stops reading holds up every request; no
  property covers it, since a write always returns in the model. Another thread may
  record that a grant ended before its issue is recorded (`:208`, `:222`).
* **Emitter.** `close` answers true over a loss counted behind its flush, and the
  clean marker follows (`evidence_emitter.py:455`, `bootstrap.py:460`). A grade record
  that is dropped is not written again while the grade stays the same (`:684`). A
  `flush` of all scopes may raise while another thread grades a new one (`:399`). The
  loss of a failed append is declared after units that were queued already.
* **Recovery.** Decisions of an epoch that was never opened, or that was closed
  cleanly over a loss, are not accounted for (`recovery.py:240`). A journal append
  that fails in the middle leaves torn bytes; the next one is glued to them and the
  next start refuses the journal (`recovery_journal.py:123`). A torn gap names no
  epoch, so an earlier epoch still open may be given a span that reaches over another
  life's entries.
* **Boundary.** Two threads recording at once exceed the outcome log's capacity (the
  test is `==`), stamp one sequence number twice, and a `popleft` behind a flush may
  raise. The ending `SILENT` is never reached: a grant is out of its lifetime before
  it has been silent for one. The client's socket timeout of 5 s equals the default
  heartbeat.
* **Surface.** A revocation reaches a request by the instant it began, not by when
  its body arrived and it is decided (`docs/deployment.md:152-154`). `answered` is
  never reset, so a defect on a later request of a kept connection is dropped without
  an answer (`http_surface.py:1096`). A connection opened during an outage never has
  its principal recorded on the local chain, and a defect in set-up records a close
  without an opening. `read_status` on a connection whose identity is unknown answers
  with the principal it last had.
* **Start and quickstart.** A start that fails after its bind removes the name at the
  address, which may by then be another's (`socket_server.py`, the way out of
  `start`). A record another command wrote may be removed where a process id was
  reused (`launcher.py:726-731`). `SIGTERM` before `main` installs its handler ends a
  start with no clean-up.
* **Evidence reads.** A chain cut at its tail, and one re-hashed throughout, verify:
  this is by design. `verify` reports a hole before it hashes, so the grades of such a
  verdict come from entries nobody checked.
* **Paths.** The check of the evidence root and the walk of a grade judge a root
  named through a link only where it resolves, or only as it is spelled. `RootStays`
  and `CannotWriteIsTrue` are stated for names without a link.
* **Policy.** A keep whose directory sync failed leaves a name that the retry takes
  for kept (`policy_archive.py:38-39`, `:86`). A temporary left by a failed write
  makes later keeps of that version fail (`O_EXCL`) though the problem is published
  as retryable. Two racing loads can leave the projection on the older version until
  the next change. A name moved away and back between two looks goes unnoticed.
* **Clients.** The kept client complains of another generation before it reads a
  published `generation_unsupported`, and refuses a status in another generation that
  the per-request client answers. A problem with no readable generation is `Refused`
  by the one and `CouldNotAsk` by the other. After a timed-out body the next request
  on a kept connection is sent and then fails; after a timed-out header it is not
  sent.

## Plan

The model covers the daemon's concurrent and crash-prone parts, and every safety property
the runs check is proved. What could come next is breadth: trees of any depth for `Paths`, and
the reader of macOS lists.

## Not modelled

* Framing and rendering of HTTP, the contract's documents and schemas, the replay of
  a package of them, the stub, the conformance runner and the testing kits: data,
  a canned server and test support.
* Core-owned values: copies and validation of what crosses a port.
* Plugin discovery, activation and composition; settings and configuration: they run
  once at start, in sequence, over installed distributions and parsed files. The order
  of start and close is modelled where a component depends on it.
* Status and events: renderings of state other components keep. The deduplication of
  policy failure events is left out with them.
* The answers of the kernel and of NSS, which are inputs; macOS access lists; the
  platforms that do not say the peer's process id.
* Power loss in the decision log, where only the creating append syncs the directory
  (`decision_store.py:176`); it is modelled for the policy archive.
* Bytes of the policy archive changed by hand; a read torn by a concurrent write is a
  content of its own.
