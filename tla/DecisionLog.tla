---------------------------- MODULE DecisionLog ----------------------------
(***************************************************************************)
(* The durable decision authority: FileDecisionStore                       *)
(* (adapters/file/decision_store.py) for one scope, with the recovery the  *)
(* daemon runs on it when it starts (bootstrap._durable_authorities).      *)
(*                                                                         *)
(* An append holds the scope's lock from its first check to its answer, so *)
(* there is one writer at a time; a step is what happens between two       *)
(* system calls that may fail, or at which the process may end.  The file  *)
(* is its complete lines and whether unfinished bytes follow them: a line  *)
(* is complete when its newline is on disk (_complete_lines).              *)
(***************************************************************************)
EXTENDS Naturals, Sequences, SequencesExt

CONSTANTS
  Refs,         \* decision references, minted once each
  Faults,       \* the calls that may fail: of FaultKinds
  MaxAppends,   \* bound: appends asked for
  MaxCrashes    \* bound: how often the process may end

FaultKinds == {"open", "recovery", "header", "size", "record", "directory"}

NoRef == "no decision"

ASSUME DecisionLogAssumption ==
  /\ NoRef \notin Refs
  /\ Faults \subseteq FaultKinds
  /\ MaxAppends \in Nat /\ MaxCrashes \in Nat

VARIABLES
  exists,       \* whether the scope's file is there
  lines,        \* its complete lines
  tail,         \* whether a torn suffix follows them
  state,        \* _ScopeState, as far as appends read it
  writer,       \* the append holding the lock: where it is, of what
  answer,       \* what the last append of each reference was told
  escaped,      \* an error has left append behind bytes of it, and fenced nothing
  appends,
  crashes

logVars == <<exists, lines, tail, state, writer, escaped, appends, crashes>>
vars == <<logVars, answer>>

(* Exceptions and receipts: DecisionStoreUnavailable and whatever else is  *)
(* raised is a refusal, DecisionAlreadyExists and                          *)
(* DecisionAppendIndeterminate are words of their own.                     *)
Words == {"nothing", "appending", "acked", "exists", "refused", "indeterminate", "lost"}

Told(before, word, position) ==
  [said |-> word, position |-> position,
   doubt |-> before.doubt \/ word \in {"indeterminate", "lost"}]

Line == [kind: {"header", "decision", "garbage"}, ref: Refs \cup {NoRef}, position: Nat]
Header == [kind |-> "header", ref |-> NoRef, position |-> 0]
Garbage == [kind |-> "garbage", ref |-> NoRef, position |-> 0]
Envelope(d, position) == [kind |-> "decision", ref |-> d, position |-> position]

(* The index: the position of each reference, 0 where it has none.         *)
NoIndex == [d \in Refs |-> 0]
NotLoaded == [loaded |-> FALSE, next |-> 1, positions |-> NoIndex,
              unusable |-> FALSE, fenced |-> FALSE]

(* _rebuild accepts line i after the lines before it.                      *)
Acceptable(ls, i) ==
  IF i = 1 THEN ls[i] = Header
  ELSE /\ ls[i].kind = "decision"
       /\ ls[i].position = i - 1
       /\ \A j \in 2..(i - 1) : ls[j].ref # ls[i].ref

(* The lines read before the first one that is not a usable record.        *)
UsableLines(ls) ==
  CHOOSE n \in 0..Len(ls) :
    /\ \A i \in 1..n : Acceptable(ls, i)
    /\ n < Len(ls) => ~ Acceptable(ls, n + 1)

Positions(ls, n) ==
  [d \in Refs |-> IF \E i \in 2..n : ls[i].ref = d
                  THEN (CHOOSE i \in 2..n : ls[i].ref = d) - 1 ELSE 0]

Rebuilt(ls, torn) ==
  LET n == UsableLines(ls) IN
  [loaded |-> TRUE, next |-> IF n = 0 THEN 1 ELSE n, positions |-> Positions(ls, n),
   unusable |-> n < Len(ls), fenced |-> torn]

(* _state_locked: the index kept, or the one the file gives.               *)
Loaded == IF state.loaded THEN state ELSE Rebuilt(lines, tail)

Indexed(d) == state.positions[d] # 0

Idle == [pc |-> "idle", ref |-> NoRef, created |-> FALSE]

TypeOK ==
  /\ exists \in BOOLEAN /\ tail \in BOOLEAN
  /\ lines \in Seq(Line)
  /\ state \in [loaded: BOOLEAN, next: Nat \ {0}, positions: [Refs -> Nat],
                unusable: BOOLEAN, fenced: BOOLEAN]
  /\ writer \in [pc: {"idle", "open", "recover", "header", "record", "synced", "down"},
                 ref: Refs \cup {NoRef}, created: BOOLEAN]
  /\ answer \in [Refs -> [said: Words, position: Nat, doubt: BOOLEAN]]
  /\ escaped \in BOOLEAN /\ appends \in 0..MaxAppends /\ crashes \in 0..MaxCrashes

LogInit ==
  /\ exists = FALSE /\ tail = FALSE
  /\ lines = <<>>
  /\ state = NotLoaded
  /\ writer = Idle
  /\ answer = [d \in Refs |-> [said |-> "nothing", position |-> 0, doubt |-> FALSE]]
  /\ escaped = FALSE /\ appends = 0 /\ crashes = 0

-----------------------------------------------------------------------------
(* append: what it was told, and the lock released.                        *)
Answered(word, position) ==
  /\ writer' = Idle
  /\ answer' = [answer EXCEPT ![writer.ref] = Told(@, word, position)]

Move(pc) == writer' = [writer EXCEPT !.pc = pc] /\ UNCHANGED answer

AppendBegins(d) ==
  /\ writer.pc = "idle"
  /\ appends < MaxAppends
  /\ appends' = appends + 1
  /\ state' = Loaded
  /\ writer' = [pc |-> "open", ref |-> d, created |-> ~ exists]
  /\ answer' = [answer EXCEPT ![d] = Told(@, "appending", 0)]
  /\ UNCHANGED <<exists, lines, tail, crashes, escaped>>

(* A scope it cannot serve, or a reference it holds already.               *)
AppendUnusable ==
  /\ writer.pc = "open"
  /\ state.unusable
  /\ Answered("refused", 0)
  /\ UNCHANGED <<exists, lines, tail, state, appends, crashes, escaped>>

AppendDuplicate ==
  /\ writer.pc = "open"
  /\ ~ state.unusable /\ Indexed(writer.ref)
  /\ Answered("exists", 0)
  /\ UNCHANGED <<exists, lines, tail, state, appends, crashes, escaped>>

Opens ==
  /\ writer.pc = "open"
  /\ ~ state.unusable /\ ~ Indexed(writer.ref)
  /\ exists' = TRUE
  /\ Move(IF state.fenced THEN "recover" ELSE "header")
  /\ UNCHANGED <<lines, tail, state, appends, crashes, escaped>>

(* The directory, the file or its lock cannot be had: nothing is written.  *)
OpenFails ==
  /\ "open" \in Faults
  /\ writer.pc = "open"
  /\ ~ state.unusable /\ ~ Indexed(writer.ref)
  /\ exists' \in {exists, TRUE}
  /\ Answered("refused", 0)
  /\ UNCHANGED <<lines, tail, state, appends, crashes, escaped>>

(* Mutant: the last record is dropped where no caller was given it.        *)
RecoversDistrustfully ==
  /\ writer.pc = "recover"
  /\ tail' = FALSE
  /\ lines' = IF Len(lines) > 1 /\ ~ Indexed(Last(lines).ref) THEN Front(lines) ELSE lines
  /\ state' = Rebuilt(lines', FALSE)
  /\ Move("header")
  /\ UNCHANGED <<exists, appends, crashes, escaped>>

(* _recover_tail and the rescan behind it, on a fenced scope only.  Whether*)
(* the rescan finds the scope unusable is not asked again.                 *)
Recovers ==
  /\ writer.pc = "recover"
  /\ tail' = FALSE
  /\ state' = Rebuilt(lines, FALSE)
  /\ IF state'.positions[writer.ref] # 0 THEN Answered("exists", 0) ELSE Move("header")
  /\ UNCHANGED <<exists, lines, appends, crashes, escaped>>

(* ftruncate or its fsync fails: still fenced, and nothing was written.    *)
RecoveryFails ==
  /\ "recovery" \in Faults
  /\ writer.pc = "recover"
  /\ tail' \in {tail, FALSE}
  /\ Answered("refused", 0)
  /\ UNCHANGED <<exists, lines, state, appends, crashes, escaped>>

HeaderNeeded == writer.created \/ (lines = <<>> /\ ~ tail)

HeaderStep ==
  /\ writer.pc = "header"
  /\ lines' = IF HeaderNeeded THEN Append(lines, Header) ELSE lines
  /\ Move("record")
  /\ UNCHANGED <<exists, tail, state, appends, crashes, escaped>>

(* What a write leaves of a line when it does not return: nothing, some    *)
(* bytes, or all of them with the newline.  O_APPEND puts them behind      *)
(* whatever torn suffix is there, and the newline then ends both as one    *)
(* line no reader accepts.                                                 *)
Landed(line) == Append(lines, IF tail THEN Garbage ELSE line)

CutShort(line) ==
  \/ UNCHANGED <<lines, tail>>
  \/ tail' = TRUE /\ UNCHANGED lines
  \/ lines' = Landed(line) /\ tail' = FALSE

(* _write_header lets the OSError escape, and fences nothing.              *)
HeaderFails ==
  /\ "header" \in Faults
  /\ writer.pc = "header" /\ HeaderNeeded
  /\ CutShort(Header)
  /\ Answered("refused", 0)
  /\ escaped' = (escaped \/ tail')
  /\ UNCHANGED <<exists, state, appends, crashes>>

(* The record exceeds the byte bound: refused before its first byte.       *)
RecordTooLarge ==
  /\ "size" \in Faults
  /\ writer.pc = "record"
  /\ Answered("refused", 0)
  /\ UNCHANGED <<exists, lines, tail, state, appends, crashes, escaped>>

RecordWritten ==
  /\ writer.pc = "record"
  /\ lines' = Landed(Envelope(writer.ref, state.next))
  /\ tail' = FALSE
  /\ Move("synced")
  /\ UNCHANGED <<exists, state, appends, crashes, escaped>>

(* _write_all: a short write or a failed sync fences the scope.            *)
RecordFails ==
  /\ "record" \in Faults
  /\ writer.pc = "record"
  /\ CutShort(Envelope(writer.ref, state.next))
  /\ state' = [state EXCEPT !.fenced = TRUE]
  /\ Answered("indeterminate", 0)
  /\ UNCHANGED <<exists, appends, crashes, escaped>>

(* Mutant: the position is answered and never indexed.                     *)
PublishedUnindexed ==
  /\ writer.pc = "synced"
  /\ state' = [state EXCEPT !.next = @ + 1]
  /\ Answered("acked", state.next)
  /\ UNCHANGED <<exists, lines, tail, appends, crashes, escaped>>

(* The directory of a file this append created is synced, and only then is *)
(* the index entry published and the position answered.                    *)
Published ==
  /\ writer.pc = "synced"
  /\ state' = [state EXCEPT !.positions[writer.ref] = state.next, !.next = @ + 1]
  /\ Answered("acked", state.next)
  /\ UNCHANGED <<exists, lines, tail, appends, crashes, escaped>>

(* The OSError of _sync_directory escapes as it is: to the caller this is  *)
(* an exception like any other raised before the first byte.               *)
DirectoryFails ==
  /\ "directory" \in Faults
  /\ writer.pc = "synced" /\ writer.created
  /\ Answered("refused", 0)
  /\ escaped' = TRUE
  /\ UNCHANGED <<exists, lines, tail, state, appends, crashes>>

(* The process ends, in the middle of a write or anywhere else.            *)
Crash ==
  /\ crashes < MaxCrashes
  /\ crashes' = crashes + 1
  /\ writer.pc # "down"
  /\ CASE writer.pc = "header" /\ HeaderNeeded -> CutShort(Header)
       [] writer.pc = "record" -> CutShort(Envelope(writer.ref, state.next))
       [] writer.pc = "recover" -> tail' \in {tail, FALSE} /\ UNCHANGED lines
       [] OTHER -> UNCHANGED <<lines, tail>>
  /\ state' = NotLoaded
  /\ writer' = [Idle EXCEPT !.pc = "down"]
  /\ answer' = [d \in Refs |-> IF d = writer.ref THEN Told(answer[d], "lost", 0)
                           ELSE answer[d]]
  /\ UNCHANGED <<exists, appends, escaped>>

(* A start recovers every scope whose file is there before it listens.     *)
Start ==
  /\ writer.pc = "down"
  /\ tail' = FALSE
  /\ state' = IF exists THEN Rebuilt(lines, FALSE) ELSE NotLoaded
  /\ writer' = Idle
  /\ UNCHANGED <<exists, lines, answer, appends, crashes, escaped>>

LogNext ==
  \/ \E d \in Refs : AppendBegins(d)
  \/ AppendUnusable \/ AppendDuplicate \/ Opens \/ OpenFails
  \/ Recovers \/ RecoveryFails
  \/ HeaderStep \/ HeaderFails
  \/ RecordTooLarge \/ RecordWritten \/ RecordFails
  \/ Published \/ DirectoryFails
  \/ Crash \/ Start

LogSpec == LogInit /\ [][LogNext]_vars
-----------------------------------------------------------------------------
(* The decisions the file holds, in position order.                        *)
Committed ==
  IF lines = <<>> THEN <<>> ELSE [i \in 1..(Len(lines) - 1) |-> lines[i + 1].ref]

(* Two errors leave append behind bytes it wrote without fencing the scope *)
(* (HeaderFails, DirectoryFails).  Until one does, whatever else fails and *)
(* whenever the process ends, the following holds.                         *)

(* What a caller was told is true of the file: a decision acknowledged, or *)
(* refused as a duplicate, is on it and readable after any restart, at the *)
(* position it was given, and one only ever refused left no record         *)
(* (DecisionStoreUnavailable, DecisionAppendIndeterminate).                *)
AnswersAreTrue ==
  ~ escaped => \A d \in Refs :
    LET at == Rebuilt(lines, tail).positions[d] IN
    /\ answer[d].said = "acked" => at = answer[d].position /\ at # 0
    /\ answer[d].said = "exists" => at # 0
    /\ answer[d].said = "refused" /\ ~ answer[d].doubt => ~ Contains(Committed, d)

(* The index is a rebuildable projection: between appends it is what a     *)
(* restart would read out of the file, unless the scope is fenced.         *)
IndexIsProjection ==
  ~ escaped /\ writer.pc = "idle" /\ state.loaded /\ ~ state.fenced =>
    state = Rebuilt(lines, tail)

(* The scope can be served: the file never has a complete line a rebuild   *)
(* refuses, or a position twice.                                           *)
FileStaysUsable == ~ escaped => UsableLines(lines) = Len(lines)

(* The file is the authority and the index its projection: what callers    *)
(* were told is true of the file after any restart, the index between      *)
(* appends is what a rebuild reads, and a rebuild reads every line.        *)
FileIsTheAuthority == TypeOK /\ AnswersAreTrue /\ IndexIsProjection /\ FileStaysUsable

-----------------------------------------------------------------------------
(* What makes it inductive.                                                *)

Appending == {"open", "recover", "header", "record", "synced"}

(* The writer, the file and the answers agree on who is appending.         *)
WriterShape ==
  /\ writer.pc \in Appending => writer.ref \in Refs /\ state.loaded
  /\ writer.pc \notin Appending => writer.ref = NoRef
  /\ writer.pc \in Appending \ {"open"} => exists
  /\ ~ exists => lines = <<>> /\ ~ tail
  /\ writer.created /\ writer.pc \in {"open", "recover", "header"} => lines = <<>>
  /\ \A d \in Refs :
       /\ answer[d].said = "appending" <=> writer.pc \in Appending /\ writer.ref = d
       /\ answer[d].said = "appending" => answer[d].position = 0

WellFormed(ls) == \A i \in 1..Len(ls) : Acceptable(ls, i)

(* Where a reference stands on the file, 0 where it does not.              *)
Placed(d) == Positions(lines, Len(lines))[d]

(* The file reads as records only, and nothing is written behind a torn    *)
(* suffix, which fences whoever has the scope loaded.                      *)
FileShape ==
  /\ WellFormed(lines)
  /\ state.loaded /\ tail => state.fenced
  /\ writer.pc \in {"header", "record", "synced"} => ~ state.fenced /\ ~ tail
  /\ writer.pc = "record" => lines # <<>>

(* The index is the file's, or the file's but for the record just written, *)
(* or behind a fence knows no more than the file.                          *)
IndexShape ==
  /\ ~ state.unusable
  /\ state.loaded => \A d \in Refs : state.positions[d] \in {0, Placed(d)}
  /\ state.loaded /\ ~ state.fenced /\ writer.pc # "synced" => state = Rebuilt(lines, tail)
  /\ writer.pc \in {"recover", "header", "record"} => state.positions[writer.ref] = 0
  /\ writer.pc = "synced" =>
       /\ Len(lines) > 1
       /\ state.next = Len(lines) - 1 /\ Placed(writer.ref) = state.next
       /\ state.positions = [Positions(lines, Len(lines)) EXCEPT ![writer.ref] = 0]

(* What was told is true, and a record the index does not know is in doubt.*)
AnswerShape ==
  \A d \in Refs :
    /\ answer[d].said = "acked" => Placed(d) = answer[d].position /\ Placed(d) # 0
    /\ answer[d].said = "exists" => Placed(d) # 0
    /\ answer[d].said = "refused" /\ ~ answer[d].doubt => Placed(d) = 0
    /\ state.loaded /\ state.positions[d] = 0 /\ Placed(d) # 0
         => answer[d].doubt \/ (writer.pc = "synced" /\ writer.ref = d)

AuthorityInv ==
  TypeOK /\ WriterShape /\ (~ escaped => FileShape /\ IndexShape /\ AnswerShape)

-----------------------------------------------------------------------------
(* The file store keeps the promises of the authority's port: no operation *)
(* updates or deletes a committed decision, whatever failed; every step    *)
(* leaves them alone or adds the one being appended, and every answer is   *)
(* true when it is given (ports/decision_store.py).                        *)
Chain == INSTANCE DecisionChain WITH chain <- Committed
KeepsThePort ==
  /\ Chain!Init
  /\ [][/\ IsPrefix(Committed, Committed')
        /\ escaped' \/ Chain!Next]_<<Committed, answer>>
=============================================================================
