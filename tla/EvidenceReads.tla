--------------------------- MODULE EvidenceReads ---------------------------
(***************************************************************************)
(* Reads of an evidence chain that is being written, graded and damaged:   *)
(* pages and exports (application/evidence_reads.py) over what the emitter *)
(* appends with its grades (application/evidence_emitter.py).              *)
(*                                                                         *)
(* A read takes its range and then the prefix from the store, while others *)
(* write and damage it.  Damage is an edit of one stored line, or a line   *)
(* removed from the middle, by somebody who does not recompute the hashes  *)
(* after it.                                                               *)
(* The emitter's queue, its flushes and the daemon's own grade are         *)
(* Emitter's: here a unit is recorded as far as the store takes it and the *)
(* rest is a loss the next gap declares.                                   *)
(***************************************************************************)
EXTENDS EvidenceChain

CONSTANTS
    Callers,      \* connections of governed programs
    Policies,     \* policy versions an effect names
    Archived,     \* the ones whose bytes the archive still holds
    MaxEntries,   \* bound: entries on the chain
    MaxDamage,    \* bound: lines edited or removed
    PageBound,    \* PAGE_BOUND
    ExportBound,  \* EXPORT_BOUND
    ByteBound     \* EXPORT_BYTE_BOUND, an entry and an archived policy being one each

ASSUME ReadsAssumption ==
    /\ Daemon \notin Callers
    /\ Archived \subseteq Policies
    /\ "edited" \notin Policies
    /\ MaxEntries \in Nat /\ MaxDamage \in Nat
    /\ PageBound \in Nat \ {0} /\ ExportBound \in Nat \ {0} /\ ByteBound \in Nat \ {0}

VARIABLES
    chain,    \* the lines of the scope's file
    written,  \* the records as they were appended
    graded,   \* the emitter's _grades: the last evaluation of each caller
    lost,     \* the kinds of the records lost since the last gap
    damage,   \* how many lines were edited or removed
    read      \* a read in progress

readsVars == <<chain, written, graded, lost, damage, read>>

NoRead == [at |-> "idle", from |-> 0, end |-> 0, next |-> 0, entries |-> <<>>]

ReadsInit ==
    /\ chain = <<>>
    /\ written = <<>>
    /\ graded = [c \in Callers |-> "none"]
    /\ lost = {}
    /\ damage = 0
    /\ read = NoRead

LatestOf(lines) == IF lines = <<>> THEN 0 ELSE lines[Len(lines)].sequence
Latest == LatestOf(chain)

-----------------------------------------------------------------------------
(* The emitter. *)

\* A unit is a gap, a grade and an effect at the most.
AppendAll(lines, records) ==
    LET one == Appended(lines, records[1])
        two == Appended(one, records[2])
    IN  IF Len(records) = 0 THEN lines
        ELSE IF Len(records) = 1 THEN one
        ELSE IF Len(records) = 2 THEN two ELSE Appended(two, records[3])

Kinds(records) == {records[i].kind : i \in 1..Len(records)}

\* _losses, kept by _count_loss.
Losses(records) == Kinds(records)

\* _drain: the gap owed, then the unit, as far as the store takes them.
Recorded(records) ==
    LET owed == IF lost = {} THEN <<>> ELSE <<Record("gap", Daemon, [NoBody EXCEPT !.kinds = lost])>>
        unit == owed \o records
    IN  \E taken \in 0..Len(unit) :
            LET kept == SubSeq(unit, 1, taken)
                refused == SubSeq(records, taken + 1 - Len(owed), Len(records))
            IN  /\ Len(written) + taken <= MaxEntries
                /\ chain' = AppendAll(chain, kept)
                /\ written' = written \o kept
                /\ lost' = IF taken < Len(owed) THEN lost \cup Losses(records)
                           ELSE Losses(refused)

\* _evaluate: whether the caller can write the store now, or cannot or may not.
Evaluations == {"observability", "unverified"}

\* _grade_record_if_needed: the evaluation replaces the last one, and is a
\* record of its own if it says something else.
GradeRecords(c, evaluation) ==
    IF evaluation = graded[c] THEN <<>> ELSE <<Record("grade", c, Says(evaluation))>>

\* emit_effect; an evaluation that is recent stands.
EmitEffect(c, policy, evaluation) ==
    /\ Recorded(GradeRecords(c, evaluation) \o <<Record("effect", c, Says(policy))>>)
    /\ graded' = [graded EXCEPT ![c] = evaluation]
    /\ UNCHANGED <<damage, read>>

\* RecoveryWriter appends its markers outside the queue; this one spans what was
\* recorded from `from` on.
CloseEpoch(from) ==
    /\ from \in 1..Latest
    /\ Len(written) < MaxEntries
    /\ LET marker == Record("recovery", Daemon, [NoBody EXCEPT !.from = from, !.through = Latest])
       IN  chain' = Appended(chain, marker) /\ written' = Append(written, marker)
    /\ UNCHANGED <<graded, lost, damage, read>>

-----------------------------------------------------------------------------
(* Damage. *)

Edits(entry) ==
    {[entry EXCEPT !.version = "v9"]}
    \cup IF entry.kind = "grade" THEN {[entry EXCEPT !.body.says = "evidence"]}
         ELSE IF entry.kind = "effect" THEN {[entry EXCEPT !.body.says = "edited"]}
         ELSE {[entry EXCEPT !.hash = Junk]}

Edited(i) ==
    /\ damage < MaxDamage
    /\ damage' = damage + 1
    /\ \E entry \in Edits(chain[i]) : chain' = [chain EXCEPT ![i] = entry]
    /\ UNCHANGED <<written, graded, lost, read>>

Removed(i) ==
    /\ i < Len(chain)
    /\ damage < MaxDamage
    /\ damage' = damage + 1
    /\ chain' = SubSeq(chain, 1, i - 1) \o SubSeq(chain, i + 1, Len(chain))
    /\ UNCHANGED <<written, graded, lost, read>>

-----------------------------------------------------------------------------
(* read_page *)

Least(a, b) == IF a < b THEN a ELSE b

\* _prepare: the reader's own grade is evaluated again and everything owed is
\* flushed, or the read is refused.
Prepare(c, evaluation) ==
    /\ read.at = "idle"
    /\ Recorded(GradeRecords(c, evaluation))
    /\ graded' = [graded EXCEPT ![c] = evaluation]
    /\ read' = IF lost' = {} THEN [NoRead EXCEPT !.at = "range"] ELSE NoRead
    /\ UNCHANGED damage

\* latest_sequence and read_range from the sequence asked for: what is appended
\* in between lies past the end that was asked for, so the two reads are one step.
ReadRange(from) ==
    /\ read.at = "range"
    /\ LET end == IF from > Latest THEN 0 ELSE Least(Latest, from + PageBound - 1)
       IN  read' = [at |-> "before", from |-> from, end |-> end,
                    next |-> IF end # 0 /\ end < Latest THEN end + 1 ELSE 0,
                    entries |-> InRange(chain, from, end)]
    /\ UNCHANGED <<chain, written, graded, lost, damage>>

LastGrades(entries) ==
    [c \in {entries[i].connection : i \in {j \in 1..Len(entries) : entries[j].kind = "grade"}} |->
        Standing(entries, <<>>, c, Len(entries))]

\* Mutant: the grades recorded before the range are believed as they stand.
GradesBeforeBelieved(lines, from) == LastGrades(InRange(lines, 1, from - 1))

\* _grades_before: a prefix that does not verify carries nothing.
GradesBefore(lines, from) ==
    LET earlier == InRange(lines, 1, from - 1)
    IN  IF from = 1 \/ verify(earlier, 1, from - 1, <<>>).condition # "intact" THEN <<>>
        ELSE LastGrades(earlier)

\* The page a read that has its range answers, its prefix read now.
Page ==
    [from |-> read.from, to |-> read.end, entries |-> read.entries, next |-> read.next,
     verdict |-> verify(read.entries, read.from, read.end, GradesBefore(chain, read.from))]

\* The page is answered, or the store could not be read.
ReadEnds ==
    /\ read.at # "idle"
    /\ read' = NoRead
    /\ UNCHANGED <<chain, written, graded, lost, damage>>

-----------------------------------------------------------------------------
(* export, whose own three reads see one chain here. *)

\* policy_attachments: one for each version the effects name.
Attachments(entries) == {entries[i].body.says : i \in {j \in 1..Len(entries) : entries[j].kind = "effect"}}

Bytes(entries, context) ==
    Len(entries) + Len(context) + Cardinality(Attachments(entries) \cap Archived)

\* _recovery_context: the entries after the range up to the first marker whose
\* span covers its end.
Context(lines, entries) ==
    LET last == entries[Len(entries)].sequence
        following == InRange(lines, last + 1, last + ExportBound)
        closing == {i \in 1..Len(following) :
                        /\ following[i].kind = "recovery"
                        /\ following[i].body.from <= last /\ last <= following[i].body.through}
    IN  IF entries = <<>> \/ closing = {} THEN <<>> ELSE SubSeq(following, 1, Min(closing))

Bundle(entries, from, end, next, context, before) ==
    [from |-> from, entries |-> entries, next |-> next, context |-> context,
     attachments |-> Attachments(entries), verdict |-> verify(entries, from, end, before)]

Refusal == [from |-> 0, entries |-> <<>>, next |-> 0, context |-> <<>>, attachments |-> {},
            verdict |-> Verdict(<<>>, "unverifiable", 0, <<>>, <<>>)]

\* Mutant: the prefix that fits is served with the continuation of the whole.
FittingKeepsNext(entries, from, end, next, context, before) ==
    LET fitting == {n \in 1..Len(entries) : Bytes(SubSeq(entries, 1, n), <<>>) <= ByteBound}
    IN  IF entries = <<>> \/ Bytes(entries, context) <= ByteBound
        THEN Bundle(entries, from, end, next, context, before)
        ELSE IF fitting = {} THEN Refusal
        ELSE Bundle(SubSeq(entries, 1, Max(fitting)), from, end, next, <<>>, before)

\* The context goes first, then entries from the end, each with what it names.
Fitting(entries, from, end, next, context, before) ==
    LET fitting == {n \in 1..Len(entries) : Bytes(SubSeq(entries, 1, n), <<>>) <= ByteBound}
        n == Max(fitting)
        last == entries[n].sequence
    IN  IF entries = <<>> \/ Bytes(entries, context) <= ByteBound
        THEN Bundle(entries, from, end, next, context, before)
        ELSE IF fitting = {} THEN Refusal
        ELSE IF n = Len(entries) THEN Bundle(entries, from, end, next, <<>>, before)
        ELSE Bundle(SubSeq(entries, 1, n), from, last, last + 1, <<>>, before)

\* export, with `to` 0 for no end asked.
Export(lines, from, to) ==
    LET head == LatestOf(lines)
        desired == IF to = 0 THEN head ELSE Least(to, head)
        end == IF head = 0 \/ from > head THEN 0 ELSE Least(desired, from + ExportBound - 1)
        entries == IF end = 0 THEN <<>> ELSE InRange(lines, from, end)
        next == IF end # 0 /\ end < desired THEN end + 1 ELSE 0
    IN  Fitting(entries, from, end, next, Context(lines, entries), GradesBefore(lines, from))

-----------------------------------------------------------------------------
ReadsNext ==
    \/ \E c \in Callers, p \in Policies, g \in Evaluations : EmitEffect(c, p, g)
    \/ CloseEpoch(1)
    \/ \E i \in 1..Len(chain) : Edited(i) \/ Removed(i)
    \/ \E c \in Callers, g \in Evaluations : Prepare(c, g)
    \/ \E from \in 1..MaxEntries : ReadRange(from)
    \/ ReadEnds

ReadsSpec == ReadsInit /\ [][ReadsNext]_readsVars

-----------------------------------------------------------------------------
(* Properties. *)

\* A read at its last step: the page is what it would answer.
Answering == read.at = "before"

\* Every variable has its type, hashes and bodies aside.
ReadsTypeOK ==
    /\ \A i \in 1..Len(chain) :
          /\ chain[i].sequence \in 1..MaxEntries
          /\ chain[i].kind \in {"effect", "grade", "gap", "recovery"}
          /\ chain[i].connection \in Callers \cup {Daemon}
    /\ Len(chain) <= Len(written) /\ Len(written) <= MaxEntries
    /\ graded \in [Callers -> Grades \cup {"none"}]
    /\ lost \subseteq {"effect", "grade"}
    /\ damage \in 0..MaxDamage
    /\ read.at \in {"idle", "range", "before"}

\* A page called intact holds the entries that were recorded from its first to
\* its last sequence, all of them, though the chain was appended to and damaged
\* between the three reads behind it.
IntactIsAsWritten ==
    Answering =>
        LET page == Page
        IN  page.verdict.condition = "intact" =>
              /\ [i \in 1..Len(page.entries) |-> RecordOf(page.entries[i])]
                    = SubSeq(written, page.from, page.to)
              /\ \A i \in 1..Len(page.entries) : page.entries[i].sequence = page.from + i - 1

\* Nobody raises a grade by editing a line: a page called intact states for each
\* connection no more than the grades recorded for it, before the page too.
NoRaisedGrade ==
    Answering =>
        LET page == Page
            recorded == grades_of(SubSeq(written, page.from, page.to),
                                  LastGrades(SubSeq(written, 1, page.from - 1)))
        IN  page.verdict.condition = "intact" =>
              \A c \in DOMAIN page.verdict.grades :
                  Rank(page.verdict.grades[c]) <= Rank(recorded[c])

\* Damage stays visible: while a line is not what was recorded, or one is
\* missing, the whole chain is not called intact, whatever was appended since.
DamageStaysVisible ==
    (read = NoRead /\ damage > 0) => verify(chain, 1, Latest, <<>>).condition # "intact"

\* An evaluation the emitter holds is on the chain, or its loss is: the last
\* grade the chain tells of a caller is the one evaluated last, or a gap that
\* counts a grade stands after it or is owed.
LostGradesAreDeclared ==
    \A c \in Callers :
        LET told == {i \in 1..Len(written) : written[i].kind = "grade" /\ written[i].connection = c}
            since == IF told = {} THEN 0 ELSE Max(told)
        IN  graded[c] = (IF told = {} THEN "none" ELSE written[since].body.says)
            \/ "grade" \in lost
            \/ \E i \in (since + 1)..Len(written) :
                   written[i].kind = "gap" /\ "grade" \in written[i].body.kinds

\* An export is complete as far as it goes and says where to go on: its entries
\* are the range's from the first one, the next request begins right after
\* them, and without one the range is exhausted.  Only an entry that cannot be
\* served alone refuses it.
ExportContinues == read = NoRead =>
    \A from \in 1..MaxEntries, to \in 0..MaxEntries :
        LET bundle == Export(chain, from, to)
            end == IF to = 0 THEN Latest ELSE Least(to, Latest)
            whole == InRange(chain, from, end)
            n == Len(bundle.entries)
        IN  (to = 0 \/ from <= to) =>
            IF bundle = Refusal
            THEN whole # <<>> /\ Bytes(SubSeq(whole, 1, 1), <<>>) > ByteBound
            ELSE /\ bundle.entries = SubSeq(whole, 1, n)
                 /\ bundle.next # 0 => InRange(chain, from, bundle.next - 1) = bundle.entries
                 /\ bundle.next = 0 => n = Len(whole)

\* Damage is seen: an intact verdict is given for exactly what was recorded,
\* page by page and for the chain as a whole, whatever was appended since.
DamageIsSeen == ReadsTypeOK /\ IntactIsAsWritten /\ DamageStaysVisible

\* Grades are honest: none is raised by editing a line, and one evaluated and
\* not on the chain is a declared loss.
GradesAreHonest == NoRaisedGrade /\ LostGradesAreDeclared

-----------------------------------------------------------------------------
(* What makes them inductive. *)

Bodies == [says : Policies \cup Grades \cup {"nothing"}, kinds : SUBSET {"effect", "grade"},
           from : 0..MaxEntries, through : 0..MaxEntries]

\* A record is one the emitter or the recovery writes.
Written == [kind : {"effect", "grade", "gap", "recovery"}, connection : Callers \cup {Daemon}, body : Bodies]

WrittenShape ==
    /\ written \in Seq(Written)
    /\ \A i \in 1..Len(written) :
          /\ written[i].kind = "grade" => written[i].body.says \in Evaluations
          /\ written[i].kind = "effect" => written[i].body.says \in Policies

LinesOf(lines) == {lines[i] : i \in 1..Len(lines)}

\* A stored line is a record in its place but for what an edit made of its body
\* and its version; its hash is the one it was stored with, or no entry's.
IsLine(entry, records) ==
    /\ entry.sequence \in 1..Len(records)
    /\ LET record == records[entry.sequence]
           stored == [sequence |-> entry.sequence, kind |-> record.kind, connection |-> record.connection,
                      body |-> record.body, previous |-> entry.previous]
       IN  /\ entry.hash \in {stored, Junk}
           /\ entry.body = [record.body EXCEPT !.says = entry.body.says]
           /\ entry = [sequence |-> entry.sequence, kind |-> record.kind, connection |-> record.connection,
                       body |-> entry.body, previous |-> entry.previous, hash |-> entry.hash,
                       version |-> entry.version]

\* Lines are missing from the middle only, and stand in their order.
StoredAs(lines, records) ==
    /\ lines \in Seq(LinesOf(lines))
    /\ Len(lines) <= Len(records)
    /\ IF lines = <<>> THEN records = <<>> ELSE LatestOf(lines) = Len(records)
    /\ \A i \in 1..Len(lines) : IsLine(lines[i], records)
    /\ \A i, j \in 1..Len(lines) : i < j => lines[i].sequence < lines[j].sequence

\* Nothing is missing and every line recomputes.
Whole(lines, records) ==
    Len(lines) = Len(records) /\ \A i \in 1..Len(lines) : entry_verifies(lines[i])

ChainShape == StoredAs(chain, written) /\ (damage > 0 => ~Whole(chain, written))

\* A read holds lines of its range as they were stored.
ReadShape == Answering =>
    /\ read.from \in 1..MaxEntries /\ read.end \in 0..Len(written)
    /\ read.entries \in Seq(LinesOf(read.entries))
    /\ \A i \in 1..Len(read.entries) :
          /\ IsLine(read.entries[i], written)
          /\ read.entries[i].sequence \in read.from..read.end

ReadsInv == ReadsTypeOK /\ WrittenShape /\ ChainShape /\ ReadShape /\ LostGradesAreDeclared
=============================================================================
