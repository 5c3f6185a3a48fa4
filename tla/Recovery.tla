------------------------------ MODULE Recovery ------------------------------
(***************************************************************************)
(* What survives the daemon: the recovery writer                           *)
(* (application/recovery.py) over the recovery journal                     *)
(* (adapters/file/recovery_journal.py), the evidence chain                 *)
(* (adapters/file/evidence_store.py) and the decisions, for one scope,     *)
(* across the lives of the process.                                        *)
(*                                                                         *)
(* A life is a recording epoch.  It recovers what earlier lives left open, *)
(* serves, and stops cleanly, or dies at any point and in the middle of    *)
(* any write.  The emitter is reduced to what it holds (module Emitter).   *)
(* A decision is its position; an entry of the chain, its sequence.        *)
(***************************************************************************)
EXTENDS Naturals, Sequences, FiniteSets, FiniteSetsExt

CONSTANTS
  GapBound,       \* GAP_ID_BOUND
  MaxDecisions,   \* bound: decisions
  MaxLives,       \* bound: starts of the process
  MaxFaults       \* bound: appends that fail or are cut short, and failed scans

ASSUME RecoveryAssumption ==
  /\ GapBound \in Nat \ {0}
  /\ MaxDecisions \in Nat /\ MaxLives \in Nat /\ MaxFaults \in Nat

VARIABLES
  local,      \* whether this is COMPOSITION_SCOPE, opened at every start
  decisions,  \* the epoch each committed decision names, by position
  chain,      \* the complete entries of the scope's chain
  torn,       \* bytes behind the last of them
  journal,    \* the complete lines of the scope's journal
  jtorn,      \* bytes behind the last of them
  epoch,      \* the number of this life
  pc,         \* where it is
  opened,     \* whether it opened its epoch: RecoveryWriter._opened
  graded,     \* whether the daemon's grade was evaluated
  known,      \* the entries reconcile_at_start has read or written
  todo,       \* the journal's open records still to reconcile
  owed,       \* decisions answered, whose effect is not emitted yet
  held,       \* effects the emitter holds
  lost,       \* effects it counted and has not declared
  report,     \* the last reconciliation's
  faults

files == <<local, decisions, chain, torn, journal, jtorn>>
memory == <<opened, graded, known, todo, owed, held, lost, report>>
vars == <<files, epoch, pc, memory, faults>>

Entry(kind, e, names, from, through) ==
  [kind |-> kind, epoch |-> e, names |-> names, from |-> from, through |-> through]
Fact(kind, names) == Entry(kind, epoch, names, 0, 0)
(* _torn_gap names no epoch.                                               *)
TornGap == Entry("torn", 0, {}, 0, 0)
Line(record, e, from) == [record |-> record, epoch |-> e, from |-> from]
Garbage == Line("garbage", 0, 0)

NotRun == [state |-> "not_run", unflushed |-> 0]

EntryType ==
  [kind: {"effect", "grade", "composition", "dropped", "torn", "clean", "unclean", "unflushed"},
   epoch: 0..MaxLives, names: SUBSET (1..MaxDecisions), from: Nat, through: Nat]
LineType ==
  [record: {"open", "clean", "reconciled", "garbage"}, epoch: 0..MaxLives, from: Nat]

TypeOK ==
  /\ local \in BOOLEAN
  /\ decisions \in Seq(1..MaxLives) /\ Len(decisions) <= MaxDecisions
  /\ chain \in Seq(EntryType) /\ journal \in Seq(LineType)
  /\ torn \in BOOLEAN /\ jtorn \in BOOLEAN /\ opened \in BOOLEAN /\ graded \in BOOLEAN
  /\ epoch \in 0..MaxLives /\ faults \in 0..MaxFaults
  /\ pc \in {"down", "open", "read", "epoch", "scan", "gaps", "journal", "compare",
             "compose", "serving", "closing", "closed"}
  /\ known \subseteq DOMAIN chain
  /\ owed \cup held \cup lost \subseteq DOMAIN decisions
  /\ report \in [state: {"not_run", "agrees", "disagrees"}, unflushed: Nat]

Init ==
  /\ local \in BOOLEAN
  /\ decisions = <<>> /\ chain = <<>> /\ journal = <<>>
  /\ torn = FALSE /\ jtorn = FALSE
  /\ epoch = 0 /\ pc = "down" /\ faults = 0
  /\ opened = FALSE /\ graded = FALSE /\ known = {} /\ todo = {}
  /\ owed = {} /\ held = {} /\ lost = {} /\ report = NotRun

-----------------------------------------------------------------------------
(* FileEvidenceStore.append drops a torn tail, declares it, and writes.    *)
Placed(entries) == chain \o (IF torn THEN <<TornGap>> ELSE <<>>) \o entries

Writes(entries) == chain' = Placed(entries) /\ torn' = FALSE

(* Cut short anywhere: what is complete stays, and torn bytes may follow.  *)
(* All of it may be there, and only the sync have failed.                  *)
FailsToWrite(entries) ==
  /\ faults < MaxFaults /\ faults' = faults + 1
  /\ \E n \in Len(chain)..Len(Placed(entries)) :
       /\ chain' = SubSeq(Placed(entries), 1, n)
       /\ torn' \in IF n = Len(Placed(entries)) THEN {FALSE} ELSE BOOLEAN

(* FileRecoveryJournal._append: bytes go behind whatever is there, so a    *)
(* line behind torn bytes is not a record, and no read succeeds again.     *)
Readable == \A i \in DOMAIN journal : journal[i] # Garbage

Journalled(line) == Append(journal, IF jtorn THEN Garbage ELSE line)

Journals(line) ==
  /\ Readable
  /\ journal' = Journalled(line) /\ jtorn' = FALSE

FailsToJournal(line) ==
  \/ ~ Readable /\ UNCHANGED <<journal, jtorn, faults>>
  \/ /\ Readable /\ faults < MaxFaults /\ faults' = faults + 1
     /\ \/ jtorn' \in {jtorn, TRUE} /\ UNCHANGED journal
        \/ journal' = Journalled(line) /\ jtorn' = FALSE

(* open_epochs: the lines opened and neither closed nor reconciled; they   *)
(* are taken oldest first, which is in the order of the journal.           *)
ClosedEpochs == {journal[i].epoch : i \in {j \in DOMAIN journal : journal[j].record # "open"}}
OpenRecords == {i \in DOMAIN journal :
                  journal[i].record = "open" /\ journal[i].epoch \notin ClosedEpochs}
InHand == journal[Min(todo)]

(* The process ends: memory goes.                                          *)
Ends ==
  /\ pc' = "down"
  /\ opened' = FALSE /\ graded' = FALSE /\ known' = {} /\ todo' = {}
  /\ owed' = {} /\ held' = {} /\ lost' = {} /\ report' = NotRun

Dies == pc # "down" /\ Ends /\ UNCHANGED <<files, epoch, faults>>

-----------------------------------------------------------------------------
(* Mutant: a scope is only opened for what it has to reconcile.            *)
FirstStepAsNeeded == IF OpenRecords # {} THEN "open" ELSE "read"

FirstStep == IF local \/ OpenRecords # {} THEN "open" ELSE "read"

(* _recover_and_open.  A journal that cannot be read refuses the start.    *)
Start ==
  /\ pc = "down" /\ epoch < MaxLives
  /\ epoch' = epoch + 1
  /\ jtorn' = FALSE
  /\ IF Readable THEN pc' = FirstStep ELSE UNCHANGED pc
  /\ UNCHANGED <<local, decisions, chain, torn, journal, memory, faults>>

(* RecoveryWriter.open_epoch, from the head of the chain.                  *)
OpenLine == Line("open", epoch, Len(chain) + 1)

OpensEpoch ==
  /\ pc = "open"
  /\ Journals(OpenLine)
  /\ opened' = TRUE /\ pc' = "read"
  /\ UNCHANGED <<local, decisions, chain, torn, epoch, graded, known, todo, owed, held, lost,
                 report, faults>>

FailsToOpen ==
  /\ pc = "open"
  /\ FailsToJournal(OpenLine)
  /\ Ends
  /\ UNCHANGED <<local, decisions, chain, torn, epoch>>

(* reconcile_at_start reads the chain, and the open records but its own.   *)
Reads ==
  /\ pc = "read"
  /\ known' = DOMAIN chain
  /\ todo' = {i \in OpenRecords : journal[i].epoch # epoch}
  /\ pc' = IF todo' = {} THEN "compare" ELSE "epoch"
  /\ UNCHANGED <<files, epoch, opened, graded, owed, held, lost, report, faults>>

Entries(kind) == {i \in known : chain[i].kind = kind}
WrittenByRecovery(i) == chain[i].kind \in {"clean", "unclean", "unflushed"}

(* The entries the dead life produced: an entry that names no epoch counts.*)
Produced(r) ==
  {i \in known : i >= r.from /\ ~ WrittenByRecovery(i) /\ chain[i].epoch \in {r.epoch, 0}}

Marked(r) == \E i \in Entries("unclean") : chain[i].epoch = r.epoch

(* _grade_first, then the entry: the daemon's own grade once per life.     *)
Graded(entry) == (IF graded THEN <<>> ELSE <<Fact("grade", {})>>) \o <<entry>>

Marking(r) == Graded(Entry("unclean", r.epoch, {}, r.from, Max(Produced(r))))

NeedsMarker(r) == ~ Marked(r) /\ Produced(r) # {}

(* _reconcile_epoch: the marker, the decisions, then the journal.          *)
Marks ==
  /\ pc = "epoch"
  /\ IF NeedsMarker(InHand)
     THEN /\ Writes(Marking(InHand))
          /\ known' = known \cup {Len(chain')} /\ graded' = TRUE
     ELSE UNCHANGED <<chain, torn, known, graded>>
  /\ pc' = "scan"
  /\ UNCHANGED <<local, decisions, journal, jtorn, epoch, opened, todo, owed, held, lost,
                 report, faults>>

FailsToMark ==
  /\ pc = "epoch" /\ NeedsMarker(InHand)
  /\ FailsToWrite(Marking(InHand))
  /\ Ends
  /\ UNCHANGED <<local, decisions, journal, jtorn, epoch>>

Surviving == UNION {chain[i].names : i \in Entries("effect")}
NamedLost == UNION {chain[i].names : i \in Entries("unflushed")}

Missing(e) == {p \in DOMAIN decisions : decisions[p] = e} \ (Surviving \cup NamedLost)

(* Mutant: one marker is enough.                                           *)
ChunkTruncated(e) == {p \in Missing(e) : p = Min(Missing(e)) /\ NamedLost = {}}

(* _declare_unflushed: GAP_ID_BOUND decisions at a time, in order.         *)
Chunk(e) == {p \in Missing(e) : Cardinality({q \in Missing(e) : q < p}) < GapBound}
GapOf(r) == Graded(Entry("unflushed", r.epoch, Chunk(r.epoch), 0, 0))

Scans ==
  /\ pc = "scan" /\ pc' = "gaps"
  /\ UNCHANGED <<files, epoch, memory, faults>>

DeclaresUnflushed ==
  /\ pc = "gaps"
  /\ IF Chunk(InHand.epoch) = {}
     THEN pc' = "journal" /\ UNCHANGED <<chain, torn, known, graded>>
     ELSE /\ Writes(GapOf(InHand))
          /\ known' = known \cup {Len(chain')} /\ graded' = TRUE
          /\ UNCHANGED pc
  /\ UNCHANGED <<local, decisions, journal, jtorn, epoch, opened, todo, owed, held, lost,
                 report, faults>>

FailsToDeclare ==
  /\ pc = "gaps" /\ Chunk(InHand.epoch) # {}
  /\ FailsToWrite(GapOf(InHand))
  /\ Ends
  /\ UNCHANGED <<local, decisions, journal, jtorn, epoch>>

Served ==
  /\ pc' = IF local THEN "compose" ELSE "serving"
  /\ known' = {} /\ todo' = {}

(* DecisionStoreUnavailable: the reconciliation ends, and the epoch stays  *)
(* open for the next start.                                                *)
CannotScan ==
  /\ pc \in {"scan", "compare"}
  /\ faults < MaxFaults /\ faults' = faults + 1
  /\ report' = NotRun
  /\ Served
  /\ UNCHANGED <<files, epoch, opened, graded, owed, held, lost>>

Reconciles ==
  /\ pc = "journal"
  /\ Journals(Line("reconciled", InHand.epoch, 0))
  /\ todo' = todo \ {Min(todo)}
  /\ pc' = IF todo' = {} THEN "compare" ELSE "epoch"
  /\ UNCHANGED <<local, decisions, chain, torn, epoch, opened, graded, known, owed, held, lost,
                 report, faults>>

FailsToReconcile ==
  /\ pc = "journal"
  /\ FailsToJournal(Line("reconciled", InHand.epoch, 0))
  /\ Ends
  /\ UNCHANGED <<local, decisions, chain, torn, epoch>>

Report ==
  [state |-> IF Surviving \subseteq DOMAIN decisions THEN "agrees" ELSE "disagrees",
   unflushed |-> Cardinality(NamedLost)]

(* _compare: the decisions are scanned first; the shared facts it compares *)
(* are copies of one record here.                                          *)
Compares ==
  /\ pc = "compare"
  /\ report' = Report
  /\ Served
  /\ UNCHANGED <<files, epoch, opened, graded, owed, held, lost, faults>>

(* compose_plugins records the composition, or the start is refused.       *)
Composes ==
  /\ pc = "compose"
  /\ \/ Writes(<<Fact("composition", {})>>) /\ pc' = "serving" /\ UNCHANGED <<memory, faults>>
     \/ FailsToWrite(<<Fact("composition", {})>>) /\ Ends
  /\ UNCHANGED <<local, decisions, journal, jtorn, epoch>>

-----------------------------------------------------------------------------
(* A request's decision is on its file; then it is answered, or was        *)
(* indeterminate and is not.                                               *)
Decides ==
  /\ pc \in {"serving", "closing"} /\ Len(decisions) < MaxDecisions
  /\ decisions' = Append(decisions, epoch)
  /\ owed' \in {owed, owed \cup {Len(decisions) + 1}}
  /\ UNCHANGED <<local, chain, torn, journal, jtorn, epoch, pc, opened, graded, known, todo,
                 held, lost, report, faults>>

(* EvidenceEmitter._open_scope, before the scope's first event; when it    *)
(* raises, the request fails and its effect is not submitted.              *)
OpensScope(p) ==
  /\ pc \in {"serving", "closing"} /\ p \in owed /\ ~ opened
  /\ \/ Journals(OpenLine) /\ opened' = TRUE /\ UNCHANGED <<owed, faults>>
     \/ FailsToJournal(OpenLine) /\ owed' = owed \ {p} /\ UNCHANGED opened
  /\ UNCHANGED <<local, decisions, chain, torn, epoch, pc, graded, known, todo, held, lost, report>>

(* _submit: queued, or counted when the queue is full or closed.           *)
Emits(p) ==
  /\ pc \in {"serving", "closing"} /\ p \in owed /\ opened
  /\ owed' = owed \ {p}
  /\ \/ pc = "serving" /\ held' = held \cup {p} /\ UNCHANGED lost
     \/ lost' = lost \cup {p} /\ UNCHANGED held
  /\ UNCHANGED <<files, epoch, pc, opened, graded, known, todo, report, faults>>

(* The emitter's worker: an effect written or counted as lost, and a gap   *)
(* for what was lost.                                                      *)
Records(p) ==
  /\ pc = "serving" /\ p \in held
  /\ held' = held \ {p}
  /\ \/ Writes(<<Fact("effect", {p})>>) /\ UNCHANGED <<lost, faults>>
     \/ FailsToWrite(<<Fact("effect", {p})>>) /\ lost' = lost \cup {p}
  /\ UNCHANGED <<local, decisions, journal, jtorn, epoch, pc, opened, graded, known, todo, owed, report>>

Declares ==
  /\ pc = "serving" /\ lost # {}
  /\ Writes(Graded(Fact("dropped", {})))
  /\ lost' = {} /\ graded' = TRUE
  /\ UNCHANGED <<local, decisions, journal, jtorn, epoch, pc, opened, known, todo, owed, held,
                 report, faults>>

(* The process ends inside the worker's write.                             *)
DiesWriting(p) ==
  /\ pc = "serving" /\ p \in held
  /\ FailsToWrite(<<Fact("effect", {p})>>)
  /\ Ends
  /\ UNCHANGED <<local, decisions, journal, jtorn, epoch>>

-----------------------------------------------------------------------------
(* ComposedServices.close: only a drained emitter lets the epoch close.    *)
Drained == held = {} /\ lost = {}

Stops ==
  /\ pc = "serving"
  /\ IF Drained THEN pc' = "closing" /\ UNCHANGED memory ELSE Ends
  /\ UNCHANGED <<files, epoch, faults>>

OwnRecord == journal[Max({i \in OpenRecords : journal[i].epoch = epoch})]

(* close_clean marks the span its own grade closes, unless it is empty.    *)
CleanMarking ==
  LET grade == IF graded THEN <<>> ELSE <<Fact("grade", {})>>
      head == Len(Placed(grade))
      through == IF grade = <<>> THEN Len(chain) ELSE head IN
  IF through < OwnRecord.from THEN <<>>
  ELSE grade \o <<Entry("clean", epoch, {}, OwnRecord.from, through)>>

ClosesClean ==
  /\ pc = "closing" /\ opened /\ Readable
  /\ IF CleanMarking = <<>> THEN UNCHANGED <<chain, torn>> ELSE Writes(CleanMarking)
  /\ pc' = "closed" /\ graded' = TRUE
  /\ UNCHANGED <<local, decisions, journal, jtorn, epoch, opened, known, todo, owed, held, lost,
                 report, faults>>

(* Its errors are suppressed; a scope it never opened is left alone.       *)
FailsToClose ==
  /\ pc = "closing"
  /\ \/ (~ opened \/ ~ Readable) /\ UNCHANGED <<chain, torn, faults>>
     \/ opened /\ Readable /\ CleanMarking # <<>> /\ FailsToWrite(CleanMarking)
  /\ Ends
  /\ UNCHANGED <<local, decisions, journal, jtorn, epoch>>

JournalsClean ==
  /\ pc = "closed"
  /\ \/ Journals(Line("clean", epoch, 0)) /\ UNCHANGED faults
     \/ FailsToJournal(Line("clean", epoch, 0))
  /\ Ends
  /\ UNCHANGED <<local, decisions, chain, torn, epoch>>

Recovers ==
  \/ Start \/ OpensEpoch \/ FailsToOpen \/ Reads
  \/ Marks \/ FailsToMark \/ DeclaresUnflushed \/ FailsToDeclare
  \/ Scans \/ CannotScan \/ Reconciles \/ FailsToReconcile \/ Compares \/ Composes

Serves ==
  \/ Decides
  \/ \E p \in DOMAIN decisions : OpensScope(p) \/ Emits(p) \/ Records(p) \/ DiesWriting(p)
  \/ Declares

Closes == Stops \/ ClosesClean \/ FailsToClose \/ JournalsClean

Next == Recovers \/ Serves \/ Closes \/ Dies

Spec == Init /\ [][Next]_vars
-----------------------------------------------------------------------------
Effects(p) == {i \in DOMAIN chain : chain[i].kind = "effect" /\ p \in chain[i].names}
Named(p) == {i \in DOMAIN chain : chain[i].kind = "unflushed" /\ p \in chain[i].names}
Said(record, e) == \E i \in DOMAIN journal : journal[i].record = record /\ journal[i].epoch = e
Markers(kind, e) == {i \in DOMAIN chain : chain[i].kind = kind /\ chain[i].epoch = e}

(* Once the journal says an epoch is reconciled, every decision it         *)
(* committed is an effect on the chain or named in a gap, and everything   *)
(* it produced is under a marker; and a daemon that serves after a         *)
(* comparison that ran has no other epoch open.  However often starts die, *)
(* and wherever (_reconcile_epoch, _declare_unflushed).                    *)
ReconciledIsDeclared ==
  /\ \A e \in 1..MaxLives : Said("reconciled", e) =>
       \A p \in DOMAIN decisions :
         decisions[p] = e => Effects(p) \cup Named(p) # {}
  /\ pc = "serving" /\ report # NotRun =>
       \A i \in OpenRecords : journal[i].epoch = epoch

(* Recovery converges: no decision is both an effect and lost, or named    *)
(* twice; no epoch is marked unclean twice, or marked so once its clean    *)
(* stop is journalled.                                                     *)
DeclaredOnce ==
  /\ \A p \in DOMAIN decisions : Cardinality(Effects(p)) + Cardinality(Named(p)) <= 1
  /\ \A e \in 1..MaxLives :
       /\ Cardinality(Markers("unclean", e)) <= 1
       /\ Markers("unclean", e) = {} \/ ~ Said("clean", e)

(* A marker covers every entry its epoch wrote, so that a verifier lowers  *)
(* all that an unclean life left.  (It may cover more: a torn gap names no *)
(* epoch, and Produced counts it for every epoch that is still open.)      *)
SpansAreTheirEpochs ==
  \A m \in DOMAIN chain : chain[m].kind \in {"clean", "unclean"} =>
    \A i \in DOMAIN chain :
      ~ WrittenByRecovery(i) /\ chain[i].epoch = chain[m].epoch =>
        i \in chain[m].from..chain[m].through

(* "Before the emitter accepts any event in a scope, the scope's epoch is  *)
(* opened in the journal": no evidence of a life lies outside an epoch it  *)
(* opened before.                                                          *)
NoEvidenceOutsideAnEpoch ==
  \A i \in DOMAIN chain : ~ WrittenByRecovery(i) /\ chain[i].epoch # 0 /\ Readable =>
    \E j \in DOMAIN journal :
      journal[j].record = "open" /\ journal[j].epoch = chain[i].epoch /\ journal[j].from <= i

(* What the last comparison reported is what the chain says of the         *)
(* decisions that earlier lives lost.                                      *)
ReportIsTrue ==
  pc = "serving" /\ report # NotRun =>
    /\ report.state = "agrees"
    /\ report.unflushed = Cardinality({p \in DOMAIN decisions : Named(p) # {}})
    /\ \A p \in DOMAIN decisions :
         decisions[p] # epoch /\ Said("open", decisions[p]) /\ ~ Said("clean", decisions[p])
           => Effects(p) \cup Named(p) # {}

(* Every loss of an unclean life is declared, once, and the start's report *)
(* agrees with what was declared: recovery repeated over any number of     *)
(* interrupted starts converges (_reconcile_epoch, _declare_unflushed).    *)
LossesAreDeclared == TypeOK /\ ReconciledIsDeclared /\ DeclaredOnce /\ ReportIsTrue

(* The evidence of a life lies in an epoch opened before it, and the       *)
(* marker that ends the epoch covers all of it (open_epoch, close_clean).   *)
EvidenceLiesInItsEpoch == SpansAreTheirEpochs /\ NoEvidenceOutsideAnEpoch

-----------------------------------------------------------------------------
(* What makes them inductive.                                              *)
AfterRead == pc \in {"epoch", "scan", "gaps", "journal", "compare"}
InEpoch == pc \in {"epoch", "scan", "gaps", "journal"}

(* The files speak of the lives so far.                                    *)
FilesAreOfTheseLives ==
  /\ \A p \in DOMAIN decisions : decisions[p] <= epoch
  /\ \A i \in DOMAIN chain :
       /\ chain[i].epoch <= epoch /\ chain[i].names \subseteq DOMAIN decisions
       /\ chain[i].kind # "torn" => chain[i].epoch # 0
       /\ chain[i].kind \in {"unclean", "unflushed"} => chain[i].epoch # epoch
  /\ \A j \in DOMAIN journal :
       /\ journal[j].epoch <= epoch /\ journal[j].from <= Len(chain) + 1
       /\ journal[j].record = "garbage" <=> journal[j].epoch = 0
       /\ journal[j].record = "garbage" => journal[j] = Garbage
       /\ journal[j].record = "reconciled" => journal[j].epoch # epoch

(* Whatever was opened for an epoch was opened before its first entry.     *)
OpenedBefore ==
  \A j \in DOMAIN journal, i \in DOMAIN chain :
    journal[j].record = "open" /\ ~ WrittenByRecovery(i) /\ chain[i].epoch = journal[j].epoch
      => journal[j].from <= i

(* What the chain says of a decision or of an epoch, it says once.         *)
SaidOnce ==
  /\ \A p \in DOMAIN decisions : \A i, j \in Effects(p) \cup Named(p) : i = j
  /\ \A p \in DOMAIN decisions : Named(p) # {} => decisions[p] # epoch
  /\ \A i, j \in DOMAIN chain :
       chain[i].kind = "unclean" /\ chain[j].kind = "unclean" /\ chain[i].epoch = chain[j].epoch
         => i = j

(* How far a life has come, and what it holds then.                        *)
LifeShape ==
  /\ pc # "down" => epoch # 0
  /\ pc \in {"down", "open"} => ~ opened /\ ~ graded
  /\ pc \in {"down", "open", "read"} \/ AfterRead =>
       owed = {} /\ held = {} /\ lost = {} /\ report = NotRun
  /\ pc \in {"open", "read"} \/ AfterRead => ~ jtorn
  /\ ~ AfterRead => known = {} /\ todo = {}
  /\ InEpoch => todo # {} /\ opened
  /\ pc = "compare" => todo = {}
  /\ pc = "compose" => local
  /\ pc = "closed" => opened
  /\ local /\ pc \notin {"down", "open"} => opened
  /\ held \cup lost # {} => opened
  /\ pc = "read" /\ ~ opened => OpenRecords = {}

(* What its files hold of a life that is not over.                         *)
OwnEpoch ==
  /\ opened /\ Readable =>
       \E j \in DOMAIN journal : journal[j].record = "open" /\ journal[j].epoch = epoch
  /\ pc # "down" =>
       /\ ~ opened => \A i \in DOMAIN chain : chain[i].epoch # epoch
       /\ \A j \in DOMAIN journal : journal[j].epoch = epoch => journal[j].record = "open"
       /\ pc # "closed" => Markers("clean", epoch) = {}

(* What is still to be reconciled, and what recovery has not read is its   *)
(* own grade or declares a torn tail.                                      *)
ToReconcile ==
  /\ \A i \in todo :
       /\ i \in DOMAIN journal /\ journal[i].record = "open" /\ journal[i].epoch # epoch
       /\ ~ Said("clean", journal[i].epoch)
  /\ AfterRead =>
       /\ \A i \in OpenRecords : journal[i].epoch # epoch => i \in todo
       /\ \A i \in DOMAIN chain \ known : chain[i] \in {TornGap, Fact("grade", {})}
  /\ pc = "journal" => Missing(InHand.epoch) = {}

(* An effect that is still to come is of this life, and is not written.    *)
ToCome ==
  /\ owed \cap held = {}
  /\ \A p \in owed \cup held : decisions[p] = epoch /\ Effects(p) = {}

(* What was reported stays what it is.                                     *)
Reported ==
  report # NotRun =>
    /\ report.state = "agrees"
    /\ report.unflushed = Cardinality({p \in DOMAIN decisions : Named(p) # {}})
    /\ \A i \in OpenRecords : journal[i].epoch = epoch

(* A reconciled epoch lost nothing that is not named.                      *)
ReconciledIsNamed ==
  \A e \in 1..MaxLives : Said("reconciled", e) =>
    \A p \in DOMAIN decisions : decisions[p] = e => Effects(p) \cup Named(p) # {}

CleanIsNotMarked ==
  \A e \in 1..MaxLives : Said("clean", e) => Markers("unclean", e) = {}

FilesInv ==
  /\ FilesAreOfTheseLives /\ OpenedBefore /\ SaidOnce
  /\ SpansAreTheirEpochs /\ NoEvidenceOutsideAnEpoch
  /\ ReconciledIsNamed /\ CleanIsNotMarked

LifeInv == LifeShape /\ OwnEpoch /\ ToReconcile /\ ToCome /\ Reported

RecoveryInv == TypeOK /\ FilesInv /\ LifeInv
=============================================================================
