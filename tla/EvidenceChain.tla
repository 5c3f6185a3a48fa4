--------------------------- MODULE EvidenceChain ---------------------------
(***************************************************************************)
(* The evidence chain as values: how a record is placed, how a range of    *)
(* entries is verified, and which integrity grade a range supports         *)
(* (domain/evidence_chain.py, domain/integrity_grade.py).                  *)
(*                                                                         *)
(* SHA-256 is injective here: the hash of an entry is its preimage.  The   *)
(* instant and the principal of an entry are part of its body.             *)
(***************************************************************************)
EXTENDS Naturals, Sequences, FiniteSets, FiniteSetsExt

CONSTANTS
    NoHash  \* previous_hash of the first entry

\* A digest that is not the hash of any entry.
Junk == [digest |-> "junk"]

Version == "v1"
Daemon == "daemon"

\* GRADE_RANK.
Grades == {"unverified", "observability", "evidence"}
Rank(grade) == CASE grade = "unverified" -> 0 [] grade = "observability" -> 1 [] OTHER -> 2

weakest(grades) ==
    IF grades = {} THEN "unverified"
    ELSE CHOOSE g \in grades : \A h \in grades : Rank(g) <= Rank(h)

-----------------------------------------------------------------------------
(* Placing a record. *)

\* A body: what an effect or a grade says, the kinds a gap counts, or the span
\* of a recovery marker.
NoBody == [says |-> "nothing", kinds |-> {}, from |-> 0, through |-> 0]
Says(what) == [NoBody EXCEPT !.says = what]

Record(kind, connection, body) == [kind |-> kind, connection |-> connection, body |-> body]

RecordOf(entry) == Record(entry.kind, entry.connection, entry.body)

\* preimage: every member but the hash itself and the version of the recipe.
preimage(entry) ==
    [sequence |-> entry.sequence, kind |-> entry.kind, connection |-> entry.connection,
     body |-> entry.body, previous |-> entry.previous]

Hashed(record, sequence, previous) ==
    LET entry == [sequence |-> sequence, kind |-> record.kind,
                  connection |-> record.connection, body |-> record.body,
                  previous |-> previous]
    IN  [sequence |-> sequence, kind |-> record.kind, connection |-> record.connection,
         body |-> record.body, previous |-> previous, hash |-> entry, version |-> Version]

entry_verifies(entry) == entry.version = Version /\ preimage(entry) = entry.hash

\* chained, and chained_after_break where the predecessor does not verify: the
\* new entry names the stored predecessor as it stands.
placed(chain, record) ==
    IF chain = <<>> THEN Hashed(record, 1, NoHash)
    ELSE LET previous == chain[Len(chain)]
         IN  Hashed(record, previous.sequence + 1, previous.hash)

\* FileEvidenceStore.append of a whole line; the torn one is Recovery's.
Appended(chain, record) == Append(chain, placed(chain, record))

\* read_range.  Lines stand in the order of their sequences, so those of a range
\* stand together.
InRange(chain, from, to) ==
    LET hits == {i \in 1..Len(chain) : chain[i].sequence >= from /\ chain[i].sequence <= to}
    IN  IF hits = {} THEN <<>> ELSE SubSeq(chain, Min(hits), Max(hits))

-----------------------------------------------------------------------------
(* verify *)

Connections(entries) == {entries[i].connection : i \in 1..Len(entries)}

\* The grade that stood for a connection when entry i was recorded.
Standing(entries, before, connection, i) ==
    LET told == {j \in 1..i : entries[j].kind = "grade" /\ entries[j].connection = connection}
    IN  IF told # {} THEN entries[Max(told)].body.says
        ELSE IF connection \in DOMAIN before THEN before[connection] ELSE "unverified"

\* _grades: the weakest grade each connection's entries were recorded under.
grades_of(entries, before) ==
    [c \in Connections(entries) |->
        weakest({Standing(entries, before, c, i) :
                    i \in {j \in 1..Len(entries) : entries[j].connection = c}})]

Verdict(entries, condition, sequence, graded, before) ==
    [condition |-> condition, sequence |-> sequence, grades |-> grades_of(graded, before),
     to |-> IF entries = <<>> THEN 0 ELSE entries[Len(entries)].sequence]

\* Mutant: a range that stops short of the end asked for is a shorter clean one.
VerifyShort(entries, from, to, before) ==
    LET n == Len(entries)
        holes == {i \in 2..n : entries[i].sequence # entries[i - 1].sequence + 1}
        unfit == {i \in 1..n : ~entry_verifies(entries[i])}
        At(condition, sequence, i) ==
            Verdict(entries, condition, sequence, SubSeq(entries, 1, i), before)
    IN  IF n = 0 THEN At(IF to = 0 THEN "unverifiable" ELSE "gap_at", from, 0)
        ELSE IF entries[1].sequence # from THEN At("gap_at", from, 0)
        ELSE IF holes # {}
        THEN LET i == Min(holes) IN At("gap_at", entries[i - 1].sequence + 1, i - 1)
        ELSE IF unfit # {}
        THEN LET i == Min(unfit)
             IN  At(IF entries[i].version # Version THEN "unverifiable" ELSE "broken_at",
                    entries[i].sequence, i - 1)
        ELSE At("intact", 0, n)

\* The first thing wrong, in this order: an empty answer, a range that begins
\* late, a hole, a range that ends early, an entry whose recipe is not held or
\* does not recompute, a link that does not match.  `to` is 0 for no end asked.
verify(entries, from, to, before) ==
    LET n == Len(entries)
        holes == {i \in 2..n : entries[i].sequence # entries[i - 1].sequence + 1}
        unfit == {i \in 1..n : ~entry_verifies(entries[i])}
        unlinked == {i \in 2..n : entries[i].previous # entries[i - 1].hash}
        At(condition, sequence, i) ==
            Verdict(entries, condition, sequence, SubSeq(entries, 1, i), before)
    IN  IF n = 0 THEN At(IF to = 0 THEN "unverifiable" ELSE "gap_at", from, 0)
        ELSE IF entries[1].sequence # from THEN At("gap_at", from, 0)
        ELSE IF holes # {}
        THEN LET i == Min(holes) IN At("gap_at", entries[i - 1].sequence + 1, i - 1)
        ELSE IF to # 0 /\ entries[n].sequence < to THEN At("gap_at", entries[n].sequence + 1, n)
        ELSE IF unfit # {}
        THEN LET i == Min(unfit)
             IN  At(IF entries[i].version # Version THEN "unverifiable" ELSE "broken_at",
                    entries[i].sequence, i - 1)
        ELSE IF unlinked # {}
        THEN LET i == Min(unlinked) IN At("broken_at", entries[i].sequence, i - 1)
        ELSE At("intact", 0, n)

=============================================================================
