--------------------------- MODULE RecoveryProofs ---------------------------
(***************************************************************************)
(* Proofs about what survives the daemon.  RecoveryInv of Recovery is kept *)
(* by every step, a death in the middle of a write among them; what the    *)
(* recovery declares and what its markers cover follow from it, for any    *)
(* number of decisions, lives and failed writes.                           *)
(*                                                                         *)
(* A write that succeeds and one that is cut short leave a chain that has  *)
(* grown by the same entries (Grown), and an append to the journal one by  *)
(* the same line (Lined).  What may be written is said once (Fits,         *)
(* LineFits); the end of a life forgets everything else (EndsKeeps).       *)
(***************************************************************************)
EXTENDS Recovery, WellFoundedInduction, FiniteSetTheorems, SequenceTheorems, TLAPS

-----------------------------------------------------------------------------
(* Numbers and sequences.                                                  *)

(* A set of numbers that is not empty has a least one.                     *)
LEMMA LeastOf ==
  ASSUME NEW S \in SUBSET Nat, S # {}
  PROVE  Min(S) \in S /\ \A n \in S : Min(S) <= n
<1>1. IsWellFoundedOn(OpToRel(<, Nat), Nat)  BY NatLessThanWellFounded, Zenon
<1>2. PICK m \in S : \A k \in S : ~ (<<k, m>> \in OpToRel(<, Nat))
  BY <1>1, WFMin, Zenon
<1>3. \A k \in S : ~ (<<k, m>> \in OpToRel(<, Nat)) => ~ (k < m)
  BY DEF OpToRel
<1>4. \A k \in S : ~ (k < m) => m <= k
  OBVIOUS
<1>5. \A k \in S : m <= k
  BY <1>2, <1>3, <1>4
<1> QED  BY <1>5 DEF Min

(* One that is bounded has a greatest one: what the bound leaves is least. *)
LEMMA GreatestOf ==
  ASSUME NEW b \in Nat, NEW S \in SUBSET (0..b), S # {}
  PROVE  Max(S) \in S /\ \A n \in S : n <= Max(S)
<1> DEFINE Left == {n \in 0..b : b - n \in S}
<1>1. PICK k \in S : TRUE  OBVIOUS
<1>2. b - k \in Left  BY <1>1
<1>3. Left \in SUBSET Nat /\ Left # {}  BY <1>2
<1> DEFINE m == Min(Left)
<1>4. m \in Left /\ \A n \in Left : m <= n
  <2> HIDE DEF Left
  <2> QED  BY <1>3, LeastOf
<1>5. b - m \in S /\ m \in 0..b  BY <1>4
<1>6. ASSUME NEW n \in S PROVE n <= b - m
  <2>1. b - n \in Left  BY <1>6
  <2>2. m <= b - n  BY <1>4, <2>1
  <2> HIDE DEF m
  <2> QED  BY <1>5, <2>2
<1>7. \E x \in S : \A y \in S : x >= y
  <2> HIDE DEF m
  <2> QED  BY <1>5, <1>6
<1>8. Max(S) \in S /\ \A y \in S : Max(S) >= y
  BY <1>7 DEF Max
<1> QED  BY <1>8

(* At most one of a finite set of equals.                                  *)
LEMMA AtMostOne ==
  ASSUME NEW S, IsFiniteSet(S), \A i, j \in S : i = j
  PROVE  Cardinality(S) <= 1
<1>1. CASE S = {}  BY <1>1, FS_EmptySet
<1>2. CASE S # {}
  <2>1. PICK x \in S : TRUE  BY <1>2
  <2>2. S = {x}  BY <2>1
  <2> QED  BY <2>2, FS_Singleton
<1> QED  BY <1>1, <1>2

(* What has been cut from a sequence and what was put behind it.           *)
LEMMA Cut ==
  ASSUME NEW T, NEW c \in Seq(T), NEW e \in Seq(T), NEW n \in Len(c)..Len(c \o e)
  PROVE  LET d == SubSeq(c \o e, 1, n) IN
         /\ d \in Seq(T) /\ Len(d) = n /\ n <= Len(c) + Len(e)
         /\ \A i \in 1..Len(c) : d[i] = c[i]
         /\ \A i \in (Len(c) + 1)..n : d[i] = e[i - Len(c)]
<1> DEFINE w == c \o e
           d == SubSeq(w, 1, n)
<1>1. /\ w \in Seq(T) /\ Len(w) = Len(c) + Len(e)
      /\ \A i \in 1..(Len(c) + Len(e)) : w[i] = IF i <= Len(c) THEN c[i] ELSE e[i - Len(c)]
  BY ConcatProperties
<1>2. Len(c) \in Nat /\ Len(e) \in Nat /\ n \in Nat /\ n <= Len(w)
  <2>1. Len(c) \in Nat /\ Len(e) \in Nat  OBVIOUS
  <2> HIDE DEF w
  <2> QED  BY <1>1, <2>1 DEF w
<1> HIDE DEF w
<1>3. \A i \in 1..n : w[i] \in T
  BY <1>1, <1>2
<1>4. /\ d \in Seq(T) /\ Len(d) = (IF 1 <= n THEN n - 1 + 1 ELSE 0)
      /\ \A i \in 1..(n - 1 + 1) : d[i] = w[1 + i - 1]
  BY <1>2, <1>3, SubSeqProperties
<1> HIDE DEF d
<1>5. d \in Seq(T) /\ Len(d) = n /\ \A i \in 1..n : d[i] = w[i]
  BY <1>2, <1>4
<1>6. /\ \A i \in 1..Len(c) : d[i] = c[i]
      /\ \A i \in (Len(c) + 1)..n : d[i] = e[i - Len(c)]
  BY <1>1, <1>2, <1>5
<1>7. n <= Len(c) + Len(e)  BY <1>1, <1>2
<1> QED  BY <1>5, <1>6, <1>7 DEF d, w

-----------------------------------------------------------------------------
(* What a write leaves, and what a line in the journal does.               *)
Grade == Fact("grade", {})

(* The chain keeps what it has; behind it are a gap for a torn tail, the   *)
(* grade, and the entry itself, which is the last.                         *)
Grown(g, x) ==
  /\ chain' \in Seq(EntryType) /\ torn' \in BOOLEAN
  /\ Len(chain) <= Len(chain')
  /\ \A i \in DOMAIN chain : chain'[i] = chain[i]
  /\ \A i \in DOMAIN chain' \ DOMAIN chain :
       \/ chain'[i] = TornGap
       \/ chain'[i] = Grade /\ g = <<Grade>> /\ i = Len(Placed(g))
       \/ chain'[i] = x /\ i = Len(chain')

(* The types of the files, and of what the process holds.                  *)
FileTypes ==
  /\ local \in BOOLEAN
  /\ decisions \in Seq(1..MaxLives) /\ Len(decisions) <= MaxDecisions
  /\ chain \in Seq(EntryType) /\ journal \in Seq(LineType)
  /\ torn \in BOOLEAN /\ jtorn \in BOOLEAN
  /\ epoch \in 0..MaxLives /\ faults \in 0..MaxFaults

MemoryTypes ==
  /\ opened \in BOOLEAN /\ graded \in BOOLEAN
  /\ pc \in {"down", "open", "read", "epoch", "scan", "gaps", "journal", "compare",
             "compose", "serving", "closing", "closed"}
  /\ known \subseteq DOMAIN chain
  /\ owed \cup held \cup lost \subseteq DOMAIN decisions
  /\ report \in [state: {"not_run", "agrees", "disagrees"}, unflushed: Nat]

(* Together they are TypeOK.                                               *)
LEMMA Groups == TypeOK <=> FileTypes /\ MemoryTypes
BY Zenon DEF TypeOK, FileTypes, MemoryTypes

(* The same of the next state.                                             *)
LEMMA GroupsNext == TypeOK' <=> FileTypes' /\ MemoryTypes'
BY Zenon DEF TypeOK, FileTypes, MemoryTypes

(* What is placed behind the chain, and how long it is.                    *)
LEMMA PlacedShape ==
  ASSUME FileTypes, epoch # 0, NEW es \in Seq(EntryType)
  PROVE  \E f \in Seq(EntryType) :
           /\ Placed(es) = chain \o f
           /\ \/ ~ torn /\ f = es
              \/ torn /\ f = <<TornGap>> \o es
<1>1. TornGap \in EntryType
  BY RecoveryAssumption DEF TornGap, Entry, EntryType, FileTypes
<1>2. chain \in Seq(EntryType)  BY DEF FileTypes
<1>3. CASE torn
  <2>1. <<TornGap>> \in Seq(EntryType)  BY <1>1
  <2>2. Placed(es) = (chain \o <<TornGap>>) \o es  BY <1>3 DEF Placed
  <2>3. (chain \o <<TornGap>>) \o es = chain \o (<<TornGap>> \o es)
    BY <1>2, <2>1, ConcatAssociative
  <2>4. <<TornGap>> \o es \in Seq(EntryType)  BY <2>1, ConcatProperties
  <2> QED  BY <1>3, <2>2, <2>3, <2>4, Zenon
<1>4. CASE ~ torn
  <2>1. Placed(es) = (chain \o <<>>) \o es  BY <1>4 DEF Placed
  <2>2. chain \o <<>> = chain  BY <1>2, ConcatEmptySeq
  <2> QED  BY <1>4, <2>1, <2>2, Zenon
<1> QED  BY <1>3, <1>4

(* The entries of one write are the grade, if it is due, and the entry.    *)
LEMMA EntriesShape ==
  ASSUME FileTypes, NEW g \in {<<>>, <<Grade>>}, NEW x \in EntryType
  PROVE  LET es == g \o <<x>> IN
         /\ g \in Seq(EntryType) /\ es \in Seq(EntryType) /\ Len(es) = Len(g) + 1
         /\ \A k \in DOMAIN es : \/ es[k] = Grade /\ g = <<Grade>> /\ k = Len(es) - 1
                                 \/ es[k] = x /\ k = Len(es)
<1>1. Grade \in EntryType
  BY DEF Grade, Fact, Entry, EntryType, FileTypes
<1> HIDE DEF Grade
<1>2. CASE g = <<>>
  <2>1. g \o <<x>> = <<x>>  BY <1>2
  <2>2. g \in Seq(EntryType)  BY <1>2, EmptySeq
  <2> QED  BY <1>2, <2>1, <2>2
<1>3. CASE g = <<Grade>>
  <2>1. /\ <<Grade>> \in Seq(EntryType) /\ <<x>> \in Seq(EntryType)
        /\ Len(<<Grade>>) = 1 /\ Len(<<x>>) = 1 /\ <<Grade>>[1] = Grade /\ <<x>>[1] = x
    BY <1>1
  <2> DEFINE es == <<Grade>> \o <<x>>
  <2>2. /\ es \in Seq(EntryType) /\ Len(es) = 2
        /\ \A i \in 1..2 : es[i] = IF i <= 1 THEN <<Grade>>[i] ELSE <<x>>[i - 1]
    BY <2>1, ConcatProperties
  <2> HIDE DEF es
  <2>3. DOMAIN es = 1..2 /\ es[1] = Grade /\ es[2] = x  BY <2>1, <2>2
  <2> QED  BY <1>3, <2>1, <2>2, <2>3 DEF es
<1> QED  BY <1>2, <1>3

(* The same behind the gap that a torn tail is declared by.                *)
LEMMA BehindShape ==
  ASSUME FileTypes, epoch # 0, NEW g \in {<<>>, <<Grade>>}, NEW x \in EntryType
  PROVE  \E f \in Seq(EntryType) :
           /\ Placed(g \o <<x>>) = chain \o f /\ Len(f) > 0
           /\ Len(Placed(g)) = Len(chain) + Len(f) - 1
           /\ \A k \in DOMAIN f :
                \/ f[k] = TornGap
                \/ f[k] = Grade /\ g = <<Grade>> /\ k = Len(f) - 1
                \/ f[k] = x /\ k = Len(f)
<1> DEFINE es == g \o <<x>>
<1>1. /\ g \in Seq(EntryType) /\ es \in Seq(EntryType) /\ Len(es) = Len(g) + 1
      /\ \A k \in DOMAIN es : \/ es[k] = Grade /\ g = <<Grade>> /\ k = Len(es) - 1
                              \/ es[k] = x /\ k = Len(es)
  BY EntriesShape
<1> HIDE DEF es
<1>2. PICK f \in Seq(EntryType) : /\ Placed(es) = chain \o f
                                  /\ \/ ~ torn /\ f = es
                                     \/ torn /\ f = <<TornGap>> \o es
  BY <1>1, PlacedShape
<1>3. PICK h \in Seq(EntryType) : /\ Placed(g) = chain \o h
                                  /\ \/ ~ torn /\ h = g
                                     \/ torn /\ h = <<TornGap>> \o g
  BY <1>1, PlacedShape
<1>4. chain \in Seq(EntryType) /\ TornGap \in EntryType
  BY RecoveryAssumption DEF FileTypes, TornGap, Entry, EntryType
<1> HIDE DEF TornGap, Grade
<1>5. Len(Placed(g)) = Len(chain) + Len(h)
  BY <1>3, <1>4, ConcatProperties
<1>6. CASE ~ torn
  <2>1. f = es /\ h = g  BY <1>2, <1>3, <1>6
  <2>2. Len(g) \in Nat  BY <1>1
  <2>3. Len(Placed(g)) = Len(chain) + Len(f) - 1 /\ Len(f) > 0  BY <1>1, <1>4, <1>5, <2>1, <2>2
  <2> QED  BY <1>1, <1>2, <2>1, <2>3 DEF es
<1>7. CASE torn
  <2>1. f = <<TornGap>> \o es /\ h = <<TornGap>> \o g  BY <1>2, <1>3, <1>7
  <2>2. <<TornGap>> \in Seq(EntryType) /\ Len(<<TornGap>>) = 1 /\ <<TornGap>>[1] = TornGap
    BY <1>4
  <2>3. /\ Len(f) = 1 + Len(es) /\ Len(h) = 1 + Len(g)
        /\ \A k \in 1..(1 + Len(es)) : f[k] = IF k <= 1 THEN <<TornGap>>[k] ELSE es[k - 1]
    BY <1>1, <2>1, <2>2, ConcatProperties
  <2>4. Len(g) \in Nat /\ Len(es) \in Nat /\ Len(chain) \in Nat  BY <1>1, <1>4
  <2>5. Len(Placed(g)) = Len(chain) + Len(f) - 1 /\ Len(f) > 0
    BY <1>1, <1>5, <2>3, <2>4
  <2>6. ASSUME NEW k \in DOMAIN f
        PROVE  \/ f[k] = TornGap
               \/ f[k] = Grade /\ g = <<Grade>> /\ k = Len(f) - 1
               \/ f[k] = x /\ k = Len(f)
    <3>1. k \in 1..(1 + Len(es)) /\ k \in Nat  BY <2>3, <2>6
    <3>2. CASE k = 1  BY <2>2, <2>3, <2>4, <3>1, <3>2
    <3>3. CASE k > 1
      <4>1. f[k] = es[k - 1] /\ k - 1 \in DOMAIN es  BY <1>1, <2>3, <2>4, <3>1, <3>3
      <4>2. \/ es[k - 1] = Grade /\ g = <<Grade>> /\ k - 1 = Len(es) - 1
            \/ es[k - 1] = x /\ k - 1 = Len(es)
        BY <1>1, <4>1
      <4> QED  BY <2>3, <2>4, <3>1, <4>1, <4>2
    <3> QED  BY <3>1, <3>2, <3>3
  <2> QED  BY <1>2, <2>5, <2>6 DEF es
<1> QED  BY <1>6, <1>7

(* However much of a write there is, the chain has grown by it.            *)
LEMMA CutGrows ==
  ASSUME FileTypes, epoch # 0, NEW g \in {<<>>, <<Grade>>}, NEW x \in EntryType,
         NEW n \in Len(chain)..Len(Placed(g \o <<x>>)),
         chain' = SubSeq(Placed(g \o <<x>>), 1, n), torn' \in BOOLEAN
  PROVE  Grown(g, x) /\ Len(chain') = n /\ Len(chain) < Len(Placed(g \o <<x>>))
<1>1. PICK f \in Seq(EntryType) :
           /\ Placed(g \o <<x>>) = chain \o f /\ Len(f) > 0
           /\ Len(Placed(g)) = Len(chain) + Len(f) - 1
           /\ \A k \in DOMAIN f :
                \/ f[k] = TornGap
                \/ f[k] = Grade /\ g = <<Grade>> /\ k = Len(f) - 1
                \/ f[k] = x /\ k = Len(f)
  BY BehindShape
<1> HIDE DEF TornGap, Grade, Placed
<1>2. chain \in Seq(EntryType)  BY DEF FileTypes
<1>3. n \in Len(chain)..Len(chain \o f)  BY <1>1
<1>4. /\ chain' \in Seq(EntryType) /\ Len(chain') = n /\ n <= Len(chain) + Len(f)
      /\ \A i \in 1..Len(chain) : chain'[i] = chain[i]
      /\ \A i \in (Len(chain) + 1)..n : chain'[i] = f[i - Len(chain)]
  <2> DEFINE w == chain \o f
  <2>1. chain' = SubSeq(w, 1, n)  BY <1>1
  <2>2. LET d == SubSeq(w, 1, n) IN
        /\ d \in Seq(EntryType) /\ Len(d) = n /\ n <= Len(chain) + Len(f)
        /\ \A i \in 1..Len(chain) : d[i] = chain[i]
        /\ \A i \in (Len(chain) + 1)..n : d[i] = f[i - Len(chain)]
    BY <1>2, <1>3, Cut
  <2> HIDE DEF w
  <2> QED  BY <2>1, <2>2, Zenon
<1>5. Len(chain) \in Nat /\ Len(f) \in Nat /\ n \in Nat /\ Len(chain) <= n
  BY <1>2, <1>3, <1>4
<1>6. ASSUME NEW i \in DOMAIN chain' \ DOMAIN chain
      PROVE  \/ chain'[i] = TornGap
             \/ chain'[i] = Grade /\ g = <<Grade>> /\ i = Len(Placed(g))
             \/ chain'[i] = x /\ i = Len(chain')
  <2>1. i \in (Len(chain) + 1)..n /\ i \in Nat  BY <1>2, <1>4, <1>5, <1>6
  <2>2. chain'[i] = f[i - Len(chain)]  BY <1>4, <2>1
  <2>4. DOMAIN f = 1..Len(f)  OBVIOUS
  <2>5. i - Len(chain) \in DOMAIN f  BY <1>4, <1>5, <2>1, <2>4
  <2>3. \/ f[i - Len(chain)] = TornGap
        \/ f[i - Len(chain)] = Grade /\ g = <<Grade>> /\ i - Len(chain) = Len(f) - 1
        \/ f[i - Len(chain)] = x /\ i - Len(chain) = Len(f)
    BY <1>1, <2>5
  <2> QED  BY <1>1, <1>4, <1>5, <2>1, <2>2, <2>3
<1>7. Len(Placed(g \o <<x>>)) = Len(chain) + Len(f)
  BY <1>1, <1>2, ConcatProperties
<1>8. \A i \in DOMAIN chain : chain'[i] = chain[i]
  <2>1. DOMAIN chain = 1..Len(chain)  BY <1>2
  <2> QED  BY <1>4, <2>1
<1>9. Grown(g, x)
  <2>1. chain' \in Seq(EntryType) /\ Len(chain) <= Len(chain')  BY <1>4, <1>5
  <2> QED  BY <1>6, <1>8, <2>1 DEF Grown
<1> QED  BY <1>1, <1>4, <1>5, <1>7, <1>9

(* A write that succeeds.                                                  *)
LEMMA WritesGrow ==
  ASSUME FileTypes, epoch # 0, NEW g \in {<<>>, <<Grade>>}, NEW x \in EntryType,
         Writes(g \o <<x>>)
  PROVE  Grown(g, x) /\ Len(chain) < Len(chain')
<1> DEFINE w == Placed(g \o <<x>>)
<1>1. chain' = w /\ torn' \in BOOLEAN  BY DEF Writes
<1>2. PICK f \in Seq(EntryType) : w = chain \o f
  BY BehindShape
<1>3. chain \in Seq(EntryType)  BY DEF FileTypes
<1> HIDE DEF w
<1>4. w \in Seq(EntryType) /\ Len(w) = Len(chain) + Len(f)
  BY <1>2, <1>3, ConcatProperties
<1>5. SubSeq(w, 1, Len(w)) = w  BY <1>4, SubSeqFull
<1>6. Len(w) \in Len(chain)..Len(w)
  <2>1. Len(chain) \in Nat /\ Len(f) \in Nat  BY <1>3
  <2> QED  BY <1>4, <2>1
<1>7. chain' = SubSeq(w, 1, Len(w))  BY <1>1, <1>5
<1> QED  BY <1>1, <1>6, <1>7, CutGrows DEF w

(* A write that fails.                                                     *)
LEMMA FailsGrow ==
  ASSUME FileTypes, epoch # 0, NEW g \in {<<>>, <<Grade>>}, NEW x \in EntryType,
         FailsToWrite(g \o <<x>>)
  PROVE  Grown(g, x) /\ faults' \in 0..MaxFaults
<1> DEFINE w == Placed(g \o <<x>>)
<1>1. PICK n \in Len(chain)..Len(w) : /\ chain' = SubSeq(w, 1, n)
                                       /\ torn' \in IF n = Len(w) THEN {FALSE} ELSE BOOLEAN
  BY DEF FailsToWrite
<1>2. torn' \in BOOLEAN  BY <1>1
<1>3. faults' \in 0..MaxFaults  BY RecoveryAssumption DEF FailsToWrite, FileTypes
<1> QED  BY <1>1, <1>2, <1>3, CutGrows

(* One entry, and no grade before it.                                      *)
LEMMA Alone ==
  ASSUME NEW x \in EntryType
  PROVE  <<x>> = <<>> \o <<x>>
OBVIOUS

-----------------------------------------------------------------------------
(* What an entry must be for the files to stay what they are: of a life so *)
(* far and of decisions that are there, and saying only what has not been  *)
(* said.                                                                   *)
Fits(g, x) ==
  /\ x \in EntryType /\ x.epoch <= epoch /\ x.epoch # 0 /\ x.kind # "torn"
  /\ x.names \subseteq DOMAIN decisions
  /\ x.kind \in {"unclean", "unflushed"} <=> x.epoch # epoch
  /\ x.kind \in {"effect", "unflushed"} =>
       \A p \in x.names : Effects(p) = {} /\ Named(p) = {}
  /\ x.kind = "unflushed" => \A p \in x.names : decisions[p] # epoch
  /\ x.kind = "unclean" => Markers("unclean", x.epoch) = {} /\ ~ Said("clean", x.epoch)
  /\ x.kind \in {"clean", "unclean"} =>
       \A i \in DOMAIN chain :
         ~ WrittenByRecovery(i) /\ chain[i].epoch = x.epoch => i \in x.from..x.through
  /\ x.kind = "clean" /\ g = <<Grade>> => Len(Placed(g)) \in x.from..x.through

(* A process that may write has opened its epoch and not closed it.        *)
Recording == FileTypes /\ OwnEpoch /\ opened /\ pc \notin {"down", "closed"} /\ epoch # 0

(* The entries of the chain, old and new.                                  *)
LEMMA GrownChain ==
  ASSUME FileTypes, NEW g, NEW x, Grown(g, x)
  PROVE  /\ DOMAIN chain \subseteq DOMAIN chain'
         /\ \A i \in DOMAIN chain : chain[i] \in EntryType /\ chain'[i] = chain[i]
         /\ \A i \in DOMAIN chain' : chain'[i] \in EntryType /\ i \in Nat
         /\ \A i \in DOMAIN chain' \ DOMAIN chain :
              /\ i > Len(chain)
              /\ \/ chain'[i].kind = "torn" /\ chain'[i].epoch = 0 /\ chain'[i].names = {}
                 \/ /\ chain'[i].kind = "grade" /\ chain'[i].epoch = epoch
                    /\ chain'[i].names = {} /\ g = <<Grade>> /\ i = Len(Placed(g))
                 \/ chain'[i] = x /\ i = Len(chain')
<1>1. chain \in Seq(EntryType) /\ chain' \in Seq(EntryType) /\ Len(chain) <= Len(chain')
  BY DEF FileTypes, Grown
<1>2. /\ DOMAIN chain = 1..Len(chain) /\ DOMAIN chain' = 1..Len(chain')
      /\ Len(chain) \in Nat /\ Len(chain') \in Nat
  BY <1>1
<1>3. DOMAIN chain \subseteq DOMAIN chain'  BY <1>1, <1>2
<1>4. \A i \in DOMAIN chain : chain[i] \in EntryType /\ chain'[i] = chain[i]
  BY <1>1 DEF Grown
<1>5. \A i \in DOMAIN chain' : chain'[i] \in EntryType /\ i \in Nat
  BY <1>1, <1>2
<1>6. ASSUME NEW i \in DOMAIN chain' \ DOMAIN chain
      PROVE  /\ i > Len(chain)
             /\ \/ chain'[i].kind = "torn" /\ chain'[i].epoch = 0 /\ chain'[i].names = {}
                \/ /\ chain'[i].kind = "grade" /\ chain'[i].epoch = epoch
                   /\ chain'[i].names = {} /\ g = <<Grade>> /\ i = Len(Placed(g))
                \/ chain'[i] = x /\ i = Len(chain')
  <2>1. i > Len(chain)  BY <1>2, <1>6
  <2>2. \/ chain'[i] = TornGap
        \/ chain'[i] = Grade /\ g = <<Grade>> /\ i = Len(Placed(g))
        \/ chain'[i] = x /\ i = Len(chain')
    BY <1>6, Zenon DEF Grown
  <2>3. TornGap.kind = "torn" /\ TornGap.epoch = 0 /\ TornGap.names = {}
    BY DEF TornGap, Entry
  <2>4. Grade.kind = "grade" /\ Grade.epoch = epoch /\ Grade.names = {}
    BY DEF Grade, Fact, Entry
  <2> QED  BY <2>1, <2>2, <2>3, <2>4, Zenon
<1> QED  BY <1>3, <1>4, <1>5, <1>6

(* The files still speak of the lives so far.                              *)
LEMMA GrownOfTheseLives ==
  ASSUME Recording, FilesAreOfTheseLives, NEW g, NEW x, Grown(g, x), Fits(g, x),
         UNCHANGED <<decisions, journal, epoch>>
  PROVE  FilesAreOfTheseLives'
<1>1. FileTypes  BY DEF Recording
<1> USE GrownChain, <1>1
<1>2. epoch \in Nat /\ epoch # 0  BY DEF FileTypes, Recording
<1>3. ASSUME NEW i \in DOMAIN chain'
      PROVE  /\ chain'[i].epoch <= epoch /\ chain'[i].names \subseteq DOMAIN decisions
             /\ chain'[i].kind # "torn" => chain'[i].epoch # 0
             /\ chain'[i].kind \in {"unclean", "unflushed"} => chain'[i].epoch # epoch
  <2>1. CASE i \in DOMAIN chain  BY <2>1 DEF FilesAreOfTheseLives
  <2>2. CASE i \notin DOMAIN chain  BY <1>2, <1>3, <2>2 DEF Fits
  <2> QED  BY <2>1, <2>2
<1>4. ASSUME NEW j \in DOMAIN journal
      PROVE  /\ journal[j].epoch <= epoch /\ journal[j].from <= Len(chain') + 1
             /\ journal[j].record = "garbage" <=> journal[j].epoch = 0
             /\ journal[j].record = "garbage" => journal[j] = Garbage
             /\ journal[j].record = "reconciled" => journal[j].epoch # epoch
  <2>1. Len(chain) <= Len(chain')  BY DEF Grown
  <2>2. Len(chain) \in Nat /\ Len(chain') \in Nat  BY DEF FileTypes, Grown
  <2>3. journal[j] \in LineType  BY DEF FileTypes
  <2>4. journal[j].from \in Nat  BY <2>3 DEF LineType
  <2>5. journal[j].from <= Len(chain) + 1  BY DEF FilesAreOfTheseLives
  <2>6. journal[j].from <= Len(chain') + 1  BY <2>1, <2>2, <2>4, <2>5
  <2> QED  BY <2>6 DEF FilesAreOfTheseLives
<1>5. Garbage' = Garbage  BY DEF Garbage, Line
<1> QED  BY <1>3, <1>4, <1>5, Zenon DEF FilesAreOfTheseLives

(* Whatever is new lies behind where every epoch was opened.               *)
LEMMA GrownOpenedBefore ==
  ASSUME FileTypes, FilesAreOfTheseLives, OpenedBefore, NEW g, NEW x, Grown(g, x),
         UNCHANGED journal
  PROVE  OpenedBefore'
<1> USE GrownChain
<1>1. SUFFICES ASSUME NEW j \in DOMAIN journal, NEW i \in DOMAIN chain',
                      journal[j].record = "open",
                      chain'[i].kind \notin {"clean", "unclean", "unflushed"},
                      chain'[i].epoch = journal[j].epoch
               PROVE  journal[j].from <= i
  BY Zenon DEF OpenedBefore, WrittenByRecovery
<1>2. CASE i \in DOMAIN chain
  BY <1>1, <1>2 DEF OpenedBefore, WrittenByRecovery
<1>3. CASE i \notin DOMAIN chain
  <2>1. i > Len(chain) /\ i \in Nat /\ Len(chain) \in Nat  BY <1>3 DEF FileTypes
  <2>2. journal[j] \in LineType  BY DEF FileTypes
  <2>3. journal[j].from \in Nat  BY <2>2 DEF LineType
  <2>4. journal[j].from <= Len(chain) + 1  BY DEF FilesAreOfTheseLives
  <2> QED  BY <2>1, <2>3, <2>4
<1> QED  BY <1>2, <1>3

(* What the chain says of a decision before and after.                     *)
LEMMA GrownSays ==
  ASSUME FileTypes, NEW g, NEW x, Grown(g, x), NEW p
  PROVE  /\ Effects(p) \subseteq Effects(p)' /\ Named(p) \subseteq Named(p)'
         /\ Effects(p)' \subseteq Effects(p) \cup
              (IF x.kind = "effect" /\ p \in x.names THEN {Len(chain')} ELSE {})
         /\ Named(p)' \subseteq Named(p) \cup
              (IF x.kind = "unflushed" /\ p \in x.names THEN {Len(chain')} ELSE {})
<1> USE GrownChain
<1>1. Effects(p) \subseteq Effects(p)' /\ Named(p) \subseteq Named(p)'
  BY DEF Effects, Named
<1>2. ASSUME NEW i \in Effects(p)' \cup Named(p)', i \notin DOMAIN chain
      PROVE  chain'[i] = x /\ i = Len(chain')
  BY <1>2 DEF Effects, Named
<1>3. Effects(p)' \subseteq Effects(p) \cup
              (IF x.kind = "effect" /\ p \in x.names THEN {Len(chain')} ELSE {})
  BY <1>2 DEF Effects
<1>4. Named(p)' \subseteq Named(p) \cup
              (IF x.kind = "unflushed" /\ p \in x.names THEN {Len(chain')} ELSE {})
  BY <1>2 DEF Named
<1> QED  BY <1>1, <1>3, <1>4

(* What has been said is not said again.                                   *)
LEMMA GrownSaidOnce ==
  ASSUME FileTypes, SaidOnce, FilesAreOfTheseLives,
         NEW g, NEW x, Grown(g, x), Fits(g, x), UNCHANGED <<decisions, epoch>>
  PROVE  SaidOnce'
<1>1. ASSUME NEW p \in DOMAIN decisions
      PROVE  /\ \A i, j \in Effects(p)' \cup Named(p)' : i = j
             /\ Named(p)' # {} => decisions[p] # epoch
  <2>1. /\ Effects(p)' \subseteq Effects(p) \cup
              (IF x.kind = "effect" /\ p \in x.names THEN {Len(chain')} ELSE {})
        /\ Named(p)' \subseteq Named(p) \cup
              (IF x.kind = "unflushed" /\ p \in x.names THEN {Len(chain')} ELSE {})
    BY GrownSays
  <2>2. /\ \A i, j \in Effects(p) \cup Named(p) : i = j
        /\ Named(p) # {} => decisions[p] # epoch
    BY DEF SaidOnce
  <2>3. CASE x.kind \in {"effect", "unflushed"} /\ p \in x.names
    <3>1. /\ Effects(p) = {} /\ Named(p) = {}
          /\ x.kind = "unflushed" => decisions[p] # epoch
      BY <2>3 DEF Fits
    <3> QED  BY <2>1, <3>1
  <2>4. CASE ~ (x.kind \in {"effect", "unflushed"} /\ p \in x.names)
    <3>1. Effects(p)' \subseteq Effects(p) /\ Named(p)' \subseteq Named(p)
      BY <2>1, <2>4
    <3> QED  BY <2>2, <3>1
  <2> QED  BY <2>3, <2>4
<1>2. ASSUME NEW i \in DOMAIN chain', NEW j \in DOMAIN chain',
             chain'[i].kind = "unclean", chain'[j].kind = "unclean",
             chain'[i].epoch = chain'[j].epoch
      PROVE  i = j
  <2> USE GrownChain
  <2>1. \A k \in DOMAIN chain' \ DOMAIN chain :
          chain'[k].kind = "unclean" => chain'[k] = x /\ k = Len(chain')
    OBVIOUS
  <2>2. x.kind = "unclean" =>
          \A k \in DOMAIN chain : ~ (chain[k].kind = "unclean" /\ chain[k].epoch = x.epoch)
    BY DEF Fits, Markers
  <2>3. CASE i \in DOMAIN chain /\ j \in DOMAIN chain
    BY <1>2, <2>3 DEF SaidOnce
  <2>4. CASE i \notin DOMAIN chain /\ j \notin DOMAIN chain
    BY <1>2, <2>1, <2>4
  <2>5. CASE i \in DOMAIN chain /\ j \notin DOMAIN chain
    BY <1>2, <2>1, <2>2, <2>5
  <2>6. CASE i \notin DOMAIN chain /\ j \in DOMAIN chain
    BY <1>2, <2>1, <2>2, <2>6
  <2> QED  BY <2>3, <2>4, <2>5, <2>6
<1> QED  BY <1>1, <1>2, Zenon DEF SaidOnce

(* A marker still covers its epoch: what is new is of this life, which has *)
(* no marker yet, or is the marker itself.                                 *)
LEMMA GrownSpans ==
  ASSUME Recording, FilesAreOfTheseLives, SpansAreTheirEpochs,
         NEW g, NEW x, Grown(g, x), Fits(g, x), UNCHANGED epoch
  PROVE  SpansAreTheirEpochs'
<1>0. FileTypes  BY DEF Recording
<1> USE GrownChain, <1>0
<1>1. SUFFICES ASSUME NEW m \in DOMAIN chain', chain'[m].kind \in {"clean", "unclean"},
                      NEW i \in DOMAIN chain',
                      chain'[i].kind \notin {"clean", "unclean", "unflushed"},
                      chain'[i].epoch = chain'[m].epoch
               PROVE  i \in chain'[m].from..chain'[m].through
  BY Zenon DEF SpansAreTheirEpochs, WrittenByRecovery
<1>2. chain'[m] = x \/ m \in DOMAIN chain  BY <1>1
<1>3. epoch # 0  BY DEF Recording
<1>4. ASSUME m \in DOMAIN chain PROVE chain[m].epoch # epoch /\ chain[m].epoch # 0
  <2>1. chain[m].kind \in {"clean", "unclean"}  BY <1>1, <1>4
  <2>2. Markers("clean", epoch) = {}  BY DEF Recording, OwnEpoch
  <2>3. chain[m].kind = "clean" => chain[m].epoch # epoch  BY <1>4, <2>2 DEF Markers
  <2>4. /\ chain[m].kind # "torn" => chain[m].epoch # 0
        /\ chain[m].kind \in {"unclean", "unflushed"} => chain[m].epoch # epoch
    BY <1>4 DEF FilesAreOfTheseLives
  <2> QED  BY <2>1, <2>3, <2>4
<1>5. CASE i \in DOMAIN chain /\ m \in DOMAIN chain
  BY <1>1, <1>5 DEF SpansAreTheirEpochs, WrittenByRecovery
<1>6. CASE i \in DOMAIN chain /\ m \notin DOMAIN chain
  <2>1. chain'[m] = x  BY <1>2, <1>6
  <2>2. \A k \in DOMAIN chain :
         ~ WrittenByRecovery(k) /\ chain[k].epoch = x.epoch => k \in x.from..x.through
    BY <1>1, <2>1 DEF Fits
  <2> QED  BY <1>1, <1>6, <2>1, <2>2 DEF WrittenByRecovery
<1>7. CASE i \notin DOMAIN chain /\ m \in DOMAIN chain
  <2>1. chain'[m].epoch # epoch /\ chain'[m].epoch # 0  BY <1>4, <1>7
  <2>2. chain'[i] = x  BY <1>1, <1>7, <2>1
  <2>3. x.kind \in {"unclean", "unflushed"}  BY <1>1, <2>1, <2>2 DEF Fits
  <2> QED  BY <1>1, <2>2, <2>3
<1>8. CASE i \notin DOMAIN chain /\ m \notin DOMAIN chain
  <2>1. chain'[m] = x  BY <1>2, <1>8
  <2>2. x.epoch # 0  BY DEF Fits
  <2>3. chain'[i].kind = "grade" /\ chain'[i].epoch = epoch /\ g = <<Grade>>
        /\ i = Len(Placed(g))
    BY <1>1, <1>8, <2>1, <2>2
  <2>4. x.kind = "clean"  BY <1>1, <2>1, <2>3 DEF Fits
  <2> QED  BY <2>1, <2>3, <2>4 DEF Fits
<1> QED  BY <1>5, <1>6, <1>7, <1>8

(* What is new lies in the epoch this life has opened.                     *)
LEMMA GrownInAnEpoch ==
  ASSUME Recording, FilesAreOfTheseLives, OpenedBefore, NoEvidenceOutsideAnEpoch,
         NEW g, NEW x, Grown(g, x), Fits(g, x), UNCHANGED <<journal, epoch>>
  PROVE  NoEvidenceOutsideAnEpoch'
<1>0. FileTypes  BY DEF Recording
<1>1. OpenedBefore'  BY <1>0, GrownOpenedBefore
<1> USE GrownChain, <1>0
<1>2. SUFFICES ASSUME NEW i \in DOMAIN chain',
                      chain'[i].kind \notin {"clean", "unclean", "unflushed"},
                      chain'[i].epoch # 0, Readable
               PROVE  \E j \in DOMAIN journal :
                        /\ journal[j].record = "open" /\ journal[j].epoch = chain'[i].epoch
                        /\ journal[j].from <= i
  BY Zenon DEF NoEvidenceOutsideAnEpoch, WrittenByRecovery, Readable, Garbage, Line
<1>3. CASE i \in DOMAIN chain
  BY <1>2, <1>3 DEF NoEvidenceOutsideAnEpoch, WrittenByRecovery
<1>4. CASE i \notin DOMAIN chain
  <2>1. chain'[i].epoch = epoch  BY <1>2, <1>4 DEF Fits
  <2>2. PICK j \in DOMAIN journal : journal[j].record = "open" /\ journal[j].epoch = epoch
    BY <1>2 DEF Recording, OwnEpoch
  <2>3. journal[j].from <= i
    BY <1>1, <1>2, <2>1, <2>2 DEF OpenedBefore, WrittenByRecovery
  <2> QED  BY <2>1, <2>2, <2>3
<1> QED  BY <1>3, <1>4

(* All of it.                                                              *)
LEMMA GrownKeeps ==
  ASSUME Recording, FilesInv, NEW g, NEW x, Grown(g, x), Fits(g, x),
         UNCHANGED <<decisions, journal, epoch>>
  PROVE  FilesInv'
<1>0. FileTypes  BY DEF Recording
<1>1. FilesAreOfTheseLives'  BY GrownOfTheseLives DEF FilesInv
<1>2. OpenedBefore'  BY <1>0, GrownOpenedBefore DEF FilesInv
<1>3. SaidOnce'  BY <1>0, GrownSaidOnce DEF FilesInv
<1>4. SpansAreTheirEpochs'  BY GrownSpans DEF FilesInv
<1>5. NoEvidenceOutsideAnEpoch'  BY GrownInAnEpoch DEF FilesInv
<1>6. \A r, e : Said(r, e)' <=> Said(r, e)  BY DEF Said
<1>7. ReconciledIsNamed'
  <2>1. SUFFICES ASSUME NEW e \in 1..MaxLives, Said("reconciled", e),
                        NEW p \in DOMAIN decisions, decisions[p] = e
                 PROVE  Effects(p)' \cup Named(p)' # {}
    BY <1>6 DEF ReconciledIsNamed
  <2>2. Effects(p) \cup Named(p) # {}  BY <2>1 DEF FilesInv, ReconciledIsNamed
  <2>3. Effects(p) \subseteq Effects(p)' /\ Named(p) \subseteq Named(p)'  BY <1>0, GrownSays
  <2> QED  BY <2>2, <2>3
<1>8. CleanIsNotMarked'
  <2>1. SUFFICES ASSUME NEW e \in 1..MaxLives, Said("clean", e)
                 PROVE  Markers("unclean", e)' = {}
    BY <1>6 DEF CleanIsNotMarked
  <2>2. Markers("unclean", e) = {}  BY <2>1 DEF FilesInv, CleanIsNotMarked
  <2>3. ASSUME NEW i \in DOMAIN chain', chain'[i].kind = "unclean", chain'[i].epoch = e
        PROVE  FALSE
    <3>1. i \notin DOMAIN chain  BY <1>0, <2>2, <2>3, GrownChain DEF Markers
    <3>2. chain'[i] = x  BY <1>0, <2>3, <3>1, GrownChain
    <3> QED  BY <2>1, <2>3, <3>2 DEF Fits
  <2> QED  BY <2>3 DEF Markers
<1> QED  BY <1>1, <1>2, <1>3, <1>4, <1>5, <1>7, <1>8 DEF FilesInv

-----------------------------------------------------------------------------
(* The journal keeps its lines, and a line or torn bytes follow them.      *)
Lined(l) ==
  /\ journal' \in Seq(LineType) /\ jtorn' \in BOOLEAN
  /\ DOMAIN journal \subseteq DOMAIN journal'
  /\ \A j \in DOMAIN journal : journal'[j] = journal[j]
  /\ \A j \in DOMAIN journal' \ DOMAIN journal : journal'[j] = l \/ journal'[j] = Garbage

(* What may be said of an epoch.                                           *)
LineFits(l) ==
  /\ l \in LineType /\ l.epoch <= epoch /\ l.epoch # 0 /\ l.record # "garbage"
  /\ l.from <= Len(chain) + 1
  /\ l.record = "reconciled" =>
       /\ l.epoch # epoch
       /\ \A p \in DOMAIN decisions : decisions[p] = l.epoch => Effects(p) \cup Named(p) # {}
  /\ l.record = "clean" => Markers("unclean", l.epoch) = {}
  /\ l.record = "open" =>
       \A i \in DOMAIN chain :
         ~ WrittenByRecovery(i) /\ chain[i].epoch = l.epoch => l.from <= i

(* A line behind the others.                                               *)
LEMMA AppendLine ==
  ASSUME journal \in Seq(LineType), NEW l \in LineType, NEW k \in {l, Garbage},
         journal' = Append(journal, k)
  PROVE  /\ journal' \in Seq(LineType) /\ DOMAIN journal \subseteq DOMAIN journal'
         /\ \A j \in DOMAIN journal : journal'[j] = journal[j]
         /\ DOMAIN journal' \ DOMAIN journal = {Len(journal) + 1}
         /\ journal'[Len(journal) + 1] = k
<1>1. k \in LineType
  <2>1. Garbage \in LineType  BY RecoveryAssumption DEF Garbage, Line, LineType
  <2> QED  BY <2>1
<1>2. /\ journal' \in Seq(LineType) /\ Len(journal') = Len(journal) + 1
      /\ \A i \in 1..Len(journal) : journal'[i] = journal[i]
      /\ journal'[Len(journal) + 1] = k
  BY <1>1, AppendProperties
<1>3. DOMAIN journal' = 1..(Len(journal) + 1) /\ DOMAIN journal = 1..Len(journal)
      /\ Len(journal) \in Nat
  BY <1>2
<1> HIDE DEF Garbage
<1>4. DOMAIN journal' \ DOMAIN journal = {Len(journal) + 1}  BY <1>3
<1>5. DOMAIN journal \subseteq DOMAIN journal'  BY <1>3
<1>6. \A j \in DOMAIN journal : journal'[j] = journal[j]  BY <1>2, <1>3
<1> QED  BY <1>2, <1>4, <1>5, <1>6

(* An append that succeeds: the line is there, unless torn bytes were.     *)
LEMMA JournalsLine ==
  ASSUME FileTypes, NEW l \in LineType, Journals(l)
  PROVE  /\ Lined(l) /\ ~ jtorn'
         /\ DOMAIN journal' \ DOMAIN journal = {Len(journal) + 1}
         /\ journal'[Len(journal) + 1] = IF jtorn THEN Garbage ELSE l
<1> DEFINE k == IF jtorn THEN Garbage ELSE l
<1>1. journal' = Append(journal, k) /\ ~ jtorn' /\ jtorn' \in BOOLEAN
  BY DEF Journals, Journalled
<1>2. k \in {l, Garbage} /\ journal \in Seq(LineType)  BY DEF FileTypes
<1> HIDE DEF k
<1>3. /\ journal' \in Seq(LineType) /\ DOMAIN journal \subseteq DOMAIN journal'
      /\ \A j \in DOMAIN journal : journal'[j] = journal[j]
      /\ DOMAIN journal' \ DOMAIN journal = {Len(journal) + 1}
      /\ journal'[Len(journal) + 1] = k
  BY <1>1, <1>2, AppendLine
<1>4. \A j \in DOMAIN journal' \ DOMAIN journal : journal'[j] = l \/ journal'[j] = Garbage
  BY <1>2, <1>3
<1>5. Lined(l)  BY <1>1, <1>3, <1>4 DEF Lined
<1> QED  BY <1>1, <1>3, <1>5 DEF k

(* An append that fails: the line may be there all the same.               *)
LEMMA FailsLine ==
  ASSUME FileTypes, NEW l \in LineType, FailsToJournal(l)
  PROVE  Lined(l) /\ faults' \in 0..MaxFaults
<1>1. faults' \in 0..MaxFaults
  <2>1. faults' = faults \/ (faults < MaxFaults /\ faults' = faults + 1)
    BY Zenon DEF FailsToJournal
  <2>2. faults \in 0..MaxFaults /\ MaxFaults \in Nat  BY RecoveryAssumption DEF FileTypes
  <2> QED  BY <2>1, <2>2
<1>2. jtorn' \in BOOLEAN  BY DEF FailsToJournal, FileTypes
<1>3. journal' = journal \/ journal' = Journalled(l)  BY DEF FailsToJournal
<1>4. journal \in Seq(LineType)  BY DEF FileTypes
<1>5. CASE journal' = journal
  <2>1. journal' \in Seq(LineType)  BY <1>4, <1>5, Zenon
  <2> QED  BY <1>1, <1>2, <1>5, <2>1, Zenon DEF Lined
<1>6. CASE journal' = Journalled(l)
  <2> DEFINE k == IF jtorn THEN Garbage ELSE l
  <2>1. journal' = Append(journal, k) /\ k \in {l, Garbage}  BY <1>6 DEF Journalled
  <2> HIDE DEF k
  <2>2. /\ journal' \in Seq(LineType) /\ DOMAIN journal \subseteq DOMAIN journal'
        /\ \A j \in DOMAIN journal : journal'[j] = journal[j]
        /\ DOMAIN journal' \ DOMAIN journal = {Len(journal) + 1}
        /\ journal'[Len(journal) + 1] = k
    BY <1>4, <2>1, AppendLine
  <2>3. \A j \in DOMAIN journal' \ DOMAIN journal : journal'[j] = l \/ journal'[j] = Garbage
    BY <2>1, <2>2
  <2> QED  BY <1>1, <1>2, <2>2, <2>3, Zenon DEF Lined
<1> QED  BY <1>1, <1>3, <1>5, <1>6

(* The files stay what they are.                                           *)
LEMMA LinedKeeps ==
  ASSUME FileTypes, FilesInv, NEW l, Lined(l), LineFits(l),
         UNCHANGED <<decisions, chain, epoch>>
  PROVE  FilesInv'
<1>1. /\ DOMAIN journal \subseteq DOMAIN journal'
      /\ \A j \in DOMAIN journal : journal[j] \in LineType /\ journal'[j] = journal[j]
      /\ \A j \in DOMAIN journal' :
           \/ j \in DOMAIN journal
           \/ journal'[j] = l
           \/ /\ journal'[j] = Garbage /\ journal'[j].record = "garbage"
              /\ journal'[j].epoch = 0 /\ journal'[j].from = 0
  <2>1. Garbage.record = "garbage" /\ Garbage.epoch = 0 /\ Garbage.from = 0
    BY DEF Garbage, Line
  <2>2. \A j \in DOMAIN journal : journal[j] \in LineType  BY DEF FileTypes
  <2> HIDE DEF Garbage
  <2> QED  BY <2>1, <2>2 DEF Lined
<1>2. /\ \A p : Effects(p)' = Effects(p) /\ Named(p)' = Named(p)
      /\ \A k, e : Markers(k, e)' = Markers(k, e)
      /\ \A i : WrittenByRecovery(i)' = WrittenByRecovery(i)
  BY DEF Effects, Named, Markers, WrittenByRecovery
<1>3. \A r, e : r # "garbage" /\ Said(r, e)' => Said(r, e) \/ (l.record = r /\ l.epoch = e)
  BY <1>1 DEF Said
<1>4. FilesAreOfTheseLives'
  <2>1. ASSUME NEW j \in DOMAIN journal'
        PROVE  /\ journal'[j].epoch <= epoch /\ journal'[j].from <= Len(chain) + 1
               /\ journal'[j].record = "garbage" <=> journal'[j].epoch = 0
               /\ journal'[j].record = "garbage" => journal'[j] = Garbage
               /\ journal'[j].record = "reconciled" => journal'[j].epoch # epoch
    <3>1. CASE j \in DOMAIN journal
      BY <1>1, <3>1, Zenon DEF FilesInv, FilesAreOfTheseLives
    <3>2. CASE journal'[j] = l  BY <3>2 DEF LineFits
    <3>3. CASE journal'[j] = Garbage /\ journal'[j].record = "garbage"
               /\ journal'[j].epoch = 0 /\ journal'[j].from = 0
      <4>1. epoch \in Nat /\ Len(chain) \in Nat  BY DEF FileTypes
      <4> QED  BY <3>3, <4>1
    <3> QED  BY <1>1, <3>1, <3>2, <3>3
  <2>2. /\ \A p \in DOMAIN decisions : decisions[p] <= epoch
        /\ \A i \in DOMAIN chain :
             /\ chain[i].epoch <= epoch /\ chain[i].names \subseteq DOMAIN decisions
             /\ chain[i].kind # "torn" => chain[i].epoch # 0
             /\ chain[i].kind \in {"unclean", "unflushed"} => chain[i].epoch # epoch
    BY DEF FilesInv, FilesAreOfTheseLives
  <2>3. Garbage' = Garbage  BY DEF Garbage, Line
  <2> QED  BY <2>1, <2>2, <2>3, Zenon DEF FilesAreOfTheseLives
<1>5. OpenedBefore'
  <2>1. SUFFICES ASSUME NEW j \in DOMAIN journal', NEW i \in DOMAIN chain,
                        journal'[j].record = "open", ~ WrittenByRecovery(i),
                        chain[i].epoch = journal'[j].epoch
                 PROVE  journal'[j].from <= i
    BY <1>2, Zenon DEF OpenedBefore
  <2>2. CASE j \in DOMAIN journal
    BY <1>1, <2>1, <2>2 DEF FilesInv, OpenedBefore
  <2>3. CASE journal'[j] = l
    BY <2>1, <2>3 DEF LineFits
  <2> QED  BY <1>1, <2>1, <2>2, <2>3
<1>6. SaidOnce'  BY <1>2, Zenon DEF FilesInv, SaidOnce
<1>7. SpansAreTheirEpochs'  BY <1>2, Zenon DEF FilesInv, SpansAreTheirEpochs
<1>8. NoEvidenceOutsideAnEpoch'
  <2>1. Readable' => Readable
    <3>1. Garbage' = Garbage  BY DEF Garbage, Line
    <3> QED  BY <1>1, <3>1, Zenon DEF Readable
  <2>2. SUFFICES ASSUME NEW i \in DOMAIN chain, ~ WrittenByRecovery(i),
                        chain[i].epoch # 0, Readable
                 PROVE  \E j \in DOMAIN journal' :
                          /\ journal'[j].record = "open"
                          /\ journal'[j].epoch = chain[i].epoch /\ journal'[j].from <= i
    BY <1>2, <2>1, Zenon DEF NoEvidenceOutsideAnEpoch
  <2>3. PICK j \in DOMAIN journal : journal[j].record = "open"
                          /\ journal[j].epoch = chain[i].epoch /\ journal[j].from <= i
    BY <2>2 DEF FilesInv, NoEvidenceOutsideAnEpoch
  <2> QED  BY <1>1, <2>3
<1>9. ReconciledIsNamed'
  <2>1. SUFFICES ASSUME NEW e \in 1..MaxLives, Said("reconciled", e)',
                        NEW p \in DOMAIN decisions, decisions[p] = e
                 PROVE  Effects(p) \cup Named(p) # {}
    BY <1>2, Zenon DEF ReconciledIsNamed
  <2>2. CASE Said("reconciled", e)
    BY <2>1, <2>2 DEF FilesInv, ReconciledIsNamed
  <2>3. CASE l.record = "reconciled" /\ l.epoch = e
    BY <2>1, <2>3 DEF LineFits
  <2> QED  BY <1>3, <2>1, <2>2, <2>3
<1>10. CleanIsNotMarked'
  <2>1. SUFFICES ASSUME NEW e \in 1..MaxLives, Said("clean", e)'
                 PROVE  Markers("unclean", e) = {}
    BY <1>2, Zenon DEF CleanIsNotMarked
  <2>2. CASE Said("clean", e)  BY <2>2 DEF FilesInv, CleanIsNotMarked
  <2>3. CASE l.record = "clean" /\ l.epoch = e  BY <2>3 DEF LineFits
  <2> QED  BY <1>3, <2>1, <2>2, <2>3
<1> QED  BY <1>4, <1>5, <1>6, <1>7, <1>8, <1>9, <1>10 DEF FilesInv

-----------------------------------------------------------------------------
(* The end of a life: what the process held is gone.                       *)
LEMMA EndsKeeps ==
  ASSUME Ends
  PROVE  LifeInv' /\ MemoryTypes'
<1>1. report' = NotRun /\ NotRun' = NotRun  BY DEF Ends, NotRun
<1>2. LifeShape'
  <2>1. ~ AfterRead' /\ ~ InEpoch'  BY DEF Ends, AfterRead, InEpoch
  <2> QED  BY <1>1, <2>1 DEF Ends, LifeShape
<1>3. OwnEpoch'  BY DEF Ends, OwnEpoch
<1>4. ToReconcile'
  <2>1. ~ AfterRead'  BY DEF Ends, AfterRead
  <2> QED  BY <2>1 DEF Ends, ToReconcile
<1>5. ToCome'  BY DEF Ends, ToCome
<1>6. Reported'  BY <1>1 DEF Reported
<1>7. MemoryTypes'  BY DEF Ends, MemoryTypes, NotRun
<1> QED  BY <1>2, <1>3, <1>4, <1>5, <1>6, <1>7 DEF LifeInv

-----------------------------------------------------------------------------
(* Starting, and opening the epoch.                                        *)

(* A new life has a new number: nothing in the files is of it.             *)
LEMMA StartKeeps ==
  ASSUME RecoveryInv, Start
  PROVE  RecoveryInv'
<1>1. FileTypes /\ MemoryTypes /\ FilesInv /\ LifeInv  BY Groups DEF RecoveryInv
<1>2. /\ pc = "down" /\ epoch < MaxLives /\ epoch' = epoch + 1 /\ jtorn' = FALSE
      /\ pc' = "down" \/ pc' = "open" \/ (pc' = "read" /\ ~ local /\ OpenRecords = {})
      /\ UNCHANGED <<local, decisions, chain, torn, journal>>
      /\ UNCHANGED <<opened, graded, known, todo, owed, held, lost, report, faults>>
  BY DEF Start, FirstStep, memory
<1>3. epoch \in 0..MaxLives /\ MaxLives \in Nat  BY <1>1, RecoveryAssumption DEF FileTypes
<1>4. epoch' \in 0..MaxLives /\ epoch' # 0 /\ epoch \in Nat  BY <1>2, <1>3
<1>5. FileTypes'  BY <1>1, <1>2, <1>4 DEF FileTypes
<1>6. MemoryTypes'  BY <1>1, <1>2 DEF MemoryTypes
<1>7. /\ opened = FALSE /\ graded = FALSE /\ owed = {} /\ held = {} /\ lost = {}
      /\ report = NotRun /\ known = {} /\ todo = {}
  <2>1. LifeShape /\ pc = "down" /\ ~ AfterRead  BY <1>1, <1>2 DEF LifeInv, AfterRead
  <2>2. opened \in BOOLEAN /\ graded \in BOOLEAN  BY <1>1 DEF MemoryTypes
  <2> QED  BY <2>1, <2>2 DEF LifeShape
<1>8. /\ \A p : Effects(p)' = Effects(p) /\ Named(p)' = Named(p)
      /\ \A k, e : Markers(k, e)' = Markers(k, e) /\ Said(k, e)' = Said(k, e)
      /\ \A i : WrittenByRecovery(i)' = WrittenByRecovery(i)
      /\ Readable' = Readable /\ OpenRecords' = OpenRecords
      /\ Garbage' = Garbage /\ NotRun' = NotRun
  BY <1>2 DEF Effects, Named, Markers, Said, WrittenByRecovery, Readable, OpenRecords,
              ClosedEpochs, Garbage, Line, NotRun
<1>9. /\ \A p \in DOMAIN decisions : decisions[p] <= epoch /\ decisions[p] # epoch'
      /\ \A i \in DOMAIN chain : chain[i].epoch <= epoch' /\ chain[i].epoch # epoch'
      /\ \A j \in DOMAIN journal : journal[j].epoch <= epoch' /\ journal[j].epoch # epoch'
      /\ \A p \in DOMAIN decisions : decisions[p] <= epoch'
  <2>1. ASSUME NEW e \in Nat, e <= epoch PROVE e <= epoch' /\ e # epoch'
    BY <1>2, <1>4, <2>1
  <2>2. \A p \in DOMAIN decisions : decisions[p] \in Nat /\ decisions[p] <= epoch
    BY <1>1, <1>3 DEF FileTypes, FilesInv, FilesAreOfTheseLives
  <2>3. \A i \in DOMAIN chain : chain[i].epoch \in Nat /\ chain[i].epoch <= epoch
    <3>1. \A i \in DOMAIN chain : chain[i] \in EntryType  BY <1>1 DEF FileTypes
    <3> QED  BY <1>1, <1>3, <3>1 DEF EntryType, FilesInv, FilesAreOfTheseLives
  <2>4. \A j \in DOMAIN journal : journal[j].epoch \in Nat /\ journal[j].epoch <= epoch
    <3>1. \A j \in DOMAIN journal : journal[j] \in LineType  BY <1>1 DEF FileTypes
    <3> QED  BY <1>1, <1>3, <3>1 DEF LineType, FilesInv, FilesAreOfTheseLives
  <2> QED  BY <2>1, <2>2, <2>3, <2>4
<1>10. FilesInv'
  <2>1. FilesAreOfTheseLives'
    BY <1>1, <1>2, <1>8, <1>9 DEF FilesInv, FilesAreOfTheseLives
  <2>2. OpenedBefore'  BY <1>1, <1>2, <1>8, Zenon DEF FilesInv, OpenedBefore
  <2>3. SaidOnce'  BY <1>1, <1>2, <1>8, <1>9 DEF FilesInv, SaidOnce
  <2>4. SpansAreTheirEpochs'  BY <1>1, <1>2, <1>8, Zenon DEF FilesInv, SpansAreTheirEpochs
  <2>5. NoEvidenceOutsideAnEpoch'
    BY <1>1, <1>2, <1>8, Zenon DEF FilesInv, NoEvidenceOutsideAnEpoch
  <2>6. ReconciledIsNamed'  BY <1>1, <1>2, <1>8, Zenon DEF FilesInv, ReconciledIsNamed
  <2>7. CleanIsNotMarked'  BY <1>1, <1>2, <1>8, Zenon DEF FilesInv, CleanIsNotMarked
  <2> QED  BY <2>1, <2>2, <2>3, <2>4, <2>5, <2>6, <2>7 DEF FilesInv
<1>11. LifeInv'
  <2>1. ~ AfterRead' /\ ~ InEpoch'  BY <1>2 DEF AfterRead, InEpoch
  <2>2. LifeShape'  BY <1>2, <1>4, <1>7, <1>8, <2>1 DEF LifeShape
  <2>3. OwnEpoch'
    BY <1>2, <1>7, <1>9 DEF OwnEpoch, Markers
  <2>4. ToReconcile'  BY <1>2, <1>7, <2>1 DEF ToReconcile
  <2>5. ToCome'  BY <1>2, <1>7 DEF ToCome
  <2>6. Reported'  BY <1>2, <1>7, <1>8 DEF Reported
  <2> QED  BY <2>2, <2>3, <2>4, <2>5, <2>6 DEF LifeInv
<1> QED  BY <1>5, <1>6, <1>10, <1>11, GroupsNext DEF RecoveryInv

(* The line that opens the epoch may be written, for nothing is there yet. *)
LEMMA OpenLineFits ==
  ASSUME FileTypes, OwnEpoch, pc # "down", ~ opened, epoch # 0
  PROVE  OpenLine \in LineType /\ LineFits(OpenLine)
<1>1. epoch \in 0..MaxLives /\ Len(chain) \in Nat  BY DEF FileTypes
<1>2. OpenLine \in LineType  BY <1>1 DEF OpenLine, Line, LineType
<1>3. OpenLine.record = "open" /\ OpenLine.epoch = epoch /\ OpenLine.from = Len(chain) + 1
  BY DEF OpenLine, Line
<1>4. \A i \in DOMAIN chain : chain[i].epoch # epoch  BY DEF OwnEpoch
<1> QED  BY <1>1, <1>2, <1>3, <1>4 DEF LineFits

(* open_epoch.                                                             *)
LEMMA OpensEpochKeeps ==
  ASSUME RecoveryInv, OpensEpoch
  PROVE  RecoveryInv'
<1>1. FileTypes /\ MemoryTypes /\ FilesInv /\ LifeInv  BY Groups DEF RecoveryInv
<1>2. /\ pc = "open" /\ Journals(OpenLine) /\ opened' = TRUE /\ pc' = "read"
      /\ UNCHANGED <<local, decisions, chain, torn, epoch, graded, known, todo, owed, held,
                     lost, report, faults>>
  BY DEF OpensEpoch
<1>3. ~ opened /\ epoch # 0 /\ ~ jtorn /\ known = {} /\ todo = {}
      /\ owed = {} /\ held = {} /\ lost = {} /\ report = NotRun
  BY <1>1, <1>2 DEF LifeInv, LifeShape, AfterRead
<1>4. OwnEpoch  BY <1>1 DEF LifeInv
<1>5. OpenLine \in LineType /\ LineFits(OpenLine)
  BY <1>1, <1>2, <1>3, <1>4, OpenLineFits
<1>6. /\ Lined(OpenLine) /\ ~ jtorn'
      /\ DOMAIN journal' \ DOMAIN journal = {Len(journal) + 1}
      /\ journal'[Len(journal) + 1] = OpenLine
  BY <1>1, <1>2, <1>3, <1>5, JournalsLine
<1>7. FileTypes'
  <2>1. journal' \in Seq(LineType) /\ jtorn' \in BOOLEAN  BY <1>6 DEF Lined
  <2> QED  BY <1>1, <1>2, <2>1 DEF FileTypes
<1>8. MemoryTypes'  BY <1>1, <1>2 DEF MemoryTypes
<1>9. FilesInv'  BY <1>1, <1>2, <1>5, <1>6, LinedKeeps
<1>10. NotRun' = NotRun  BY DEF NotRun
<1>11. LifeInv'
  <2>1. ~ AfterRead' /\ ~ InEpoch'  BY <1>2 DEF AfterRead, InEpoch
  <2>2. LifeShape'  BY <1>2, <1>3, <1>6, <1>10, <2>1 DEF LifeShape
  <2>3. OwnEpoch'
    <3>1. OpenLine.record = "open" /\ OpenLine.epoch = epoch  BY DEF OpenLine, Line
    <3>2. \E j \in DOMAIN journal' : journal'[j].record = "open" /\ journal'[j].epoch = epoch
      BY <1>6, <3>1
    <3>3. ASSUME NEW j \in DOMAIN journal', journal'[j].epoch = epoch
          PROVE  journal'[j].record = "open"
      <4>1. CASE j \in DOMAIN journal
        BY <1>2, <1>4, <1>6, <3>3, <4>1 DEF OwnEpoch, Lined
      <4>2. CASE j \notin DOMAIN journal
        BY <1>6, <3>1, <3>3, <4>2
      <4> QED  BY <4>1, <4>2
    <3>4. Markers("clean", epoch)' = {}  BY <1>2, <1>4 DEF OwnEpoch, Markers
    <3> QED  BY <1>2, <3>2, <3>3, <3>4 DEF OwnEpoch
  <2>4. ToReconcile'  BY <1>2, <1>3, <2>1 DEF ToReconcile
  <2>5. ToCome'  BY <1>2, <1>3 DEF ToCome
  <2>6. Reported'  BY <1>2, <1>3, <1>10 DEF Reported
  <2> QED  BY <2>2, <2>3, <2>4, <2>5, <2>6 DEF LifeInv
<1> QED  BY <1>7, <1>8, <1>9, <1>11, GroupsNext DEF RecoveryInv

(* A life that ends over a line it could not write.                        *)
LEMMA EndsOverALine ==
  ASSUME RecoveryInv, NEW l \in LineType, LineFits(l),
         FailsToJournal(l) \/ (Journals(l) /\ UNCHANGED faults), Ends,
         UNCHANGED <<local, decisions, chain, torn, epoch>>
  PROVE  RecoveryInv'
<1>1. FileTypes /\ FilesInv  BY Groups DEF RecoveryInv
<1>2. Lined(l) /\ faults' \in 0..MaxFaults
  <2>1. CASE FailsToJournal(l)  BY <1>1, <2>1, FailsLine
  <2>2. CASE Journals(l) /\ UNCHANGED faults  BY <1>1, <2>2, JournalsLine DEF FileTypes
  <2> QED  BY <2>1, <2>2
<1>3. FilesInv'  BY <1>1, <1>2, LinedKeeps
<1>4. FileTypes'
  <2>1. journal' \in Seq(LineType) /\ jtorn' \in BOOLEAN  BY <1>2 DEF Lined
  <2> QED  BY <1>1, <1>2, <2>1 DEF FileTypes
<1> QED  BY <1>3, <1>4, EndsKeeps, GroupsNext DEF RecoveryInv

(* A start refused because its epoch could not be opened.                  *)
LEMMA FailsToOpenKeeps ==
  ASSUME RecoveryInv, FailsToOpen
  PROVE  RecoveryInv'
<1>1. FileTypes /\ LifeInv  BY Groups DEF RecoveryInv
<1>2. pc = "open" /\ FailsToJournal(OpenLine) /\ Ends
      /\ UNCHANGED <<local, decisions, chain, torn, epoch>>
  BY DEF FailsToOpen
<1>3. ~ opened /\ epoch # 0 /\ OwnEpoch  BY <1>1, <1>2 DEF LifeInv, LifeShape
<1>4. OpenLine \in LineType /\ LineFits(OpenLine)
  BY <1>1, <1>2, <1>3, OpenLineFits
<1> QED  BY <1>2, <1>4, EndsOverALine

(* A life that ends over a write.                                          *)
LEMMA EndsOverAWrite ==
  ASSUME RecoveryInv, NEW g \in {<<>>, <<Grade>>}, NEW x, Fits(g, x), opened,
         pc \notin {"down", "closed"}, FailsToWrite(g \o <<x>>), Ends,
         UNCHANGED <<local, decisions, journal, jtorn, epoch>>
  PROVE  RecoveryInv'
<1>1. FileTypes /\ FilesInv /\ LifeInv  BY Groups DEF RecoveryInv
<1>2. epoch # 0 /\ OwnEpoch  BY <1>1 DEF LifeInv, LifeShape
<1>3. Recording  BY <1>1, <1>2 DEF Recording
<1>4. x \in EntryType  BY DEF Fits
<1>5. Grown(g, x) /\ faults' \in 0..MaxFaults  BY <1>1, <1>2, <1>4, FailsGrow
<1>6. FilesInv'  BY <1>1, <1>3, <1>5, GrownKeeps
<1>7. FileTypes'
  <2>1. chain' \in Seq(EntryType) /\ torn' \in BOOLEAN  BY <1>5 DEF Grown
  <2> QED  BY <1>1, <1>5, <2>1 DEF FileTypes
<1> QED  BY <1>6, <1>7, EndsKeeps, GroupsNext DEF RecoveryInv

(* What writes no file leaves all of that alone.                           *)
LEMMA FilesSame ==
  ASSUME FilesInv, UNCHANGED <<decisions, chain, journal, epoch>>
  PROVE  FilesInv'
<1>1. /\ \A p : Effects(p)' = Effects(p) /\ Named(p)' = Named(p)
      /\ \A k, e : Markers(k, e)' = Markers(k, e) /\ Said(k, e)' = Said(k, e)
      /\ \A i : WrittenByRecovery(i)' = WrittenByRecovery(i)
      /\ Readable' = Readable /\ Garbage' = Garbage
  BY DEF Effects, Named, Markers, Said, WrittenByRecovery, Readable, Garbage, Line
<1>2. FilesAreOfTheseLives'  BY <1>1 DEF FilesInv, FilesAreOfTheseLives
<1>3. OpenedBefore'  BY <1>1, Zenon DEF FilesInv, OpenedBefore
<1>4. SaidOnce'  BY <1>1, Zenon DEF FilesInv, SaidOnce
<1>5. SpansAreTheirEpochs'  BY <1>1, Zenon DEF FilesInv, SpansAreTheirEpochs
<1>6. NoEvidenceOutsideAnEpoch'  BY <1>1, Zenon DEF FilesInv, NoEvidenceOutsideAnEpoch
<1>7. ReconciledIsNamed'  BY <1>1, Zenon DEF FilesInv, ReconciledIsNamed
<1>8. CleanIsNotMarked'  BY <1>1, Zenon DEF FilesInv, CleanIsNotMarked
<1> QED  BY <1>2, <1>3, <1>4, <1>5, <1>6, <1>7, <1>8 DEF FilesInv

(* The process dies between two writes.                                    *)
LEMMA DiesKeeps ==
  ASSUME RecoveryInv, Ends, UNCHANGED <<files, epoch, faults>>
  PROVE  RecoveryInv'
<1>1. FileTypes /\ FilesInv  BY Groups DEF RecoveryInv
<1>2. UNCHANGED <<local, decisions, chain, torn, journal, jtorn, epoch, faults>>
  BY DEF files
<1>3. FileTypes'  BY <1>1, <1>2 DEF FileTypes
<1>5. FilesInv'  BY <1>1, <1>2, FilesSame
<1> QED  BY <1>3, <1>5, EndsKeeps, GroupsNext DEF RecoveryInv

-----------------------------------------------------------------------------
(* Recovering what earlier lives left open.                                *)

(* The record in hand is the open line of an earlier life.                 *)
LEMMA InHandIs ==
  ASSUME RecoveryInv, InEpoch
  PROVE  /\ Min(todo) \in todo /\ Min(todo) \in DOMAIN journal
         /\ InHand = journal[Min(todo)] /\ InHand \in LineType
         /\ InHand.record = "open" /\ InHand.epoch # epoch /\ InHand.epoch # 0
         /\ InHand.epoch <= epoch /\ InHand.epoch \in 1..MaxLives
         /\ ~ Said("clean", InHand.epoch)
<1>1. FileTypes /\ FilesInv /\ LifeInv  BY Groups DEF RecoveryInv
<1>2. todo # {}  BY <1>1 DEF LifeInv, LifeShape
<1>3. \A i \in todo :
       /\ i \in DOMAIN journal /\ journal[i].record = "open" /\ journal[i].epoch # epoch
       /\ ~ Said("clean", journal[i].epoch)
  BY <1>1 DEF LifeInv, ToReconcile
<1>4. todo \in SUBSET Nat
  <2>1. journal \in Seq(LineType)  BY <1>1 DEF FileTypes
  <2>2. DOMAIN journal = 1..Len(journal)  BY <2>1
  <2> QED  BY <1>3, <2>2
<1>5. Min(todo) \in todo  BY <1>2, <1>4, LeastOf
<1> DEFINE m == Min(todo)
<1>6. m \in todo  BY <1>5
<1>7. InHand = journal[m]  BY DEF InHand
<1> HIDE DEF m
<1>8. m \in DOMAIN journal /\ journal[m].record = "open" /\ journal[m].epoch # epoch
      /\ ~ Said("clean", journal[m].epoch)
  BY <1>3, <1>6
<1>9. journal[m] \in LineType  BY <1>1, <1>8 DEF FileTypes
<1>10. journal[m].epoch <= epoch /\ journal[m].epoch # 0
  BY <1>1, <1>8 DEF FilesInv, FilesAreOfTheseLives
<1>11. journal[m].epoch \in 1..MaxLives
  BY <1>9, <1>10, RecoveryAssumption DEF LineType
<1> QED  BY <1>6, <1>7, <1>8, <1>9, <1>10, <1>11 DEF m

(* What recovery has not read is its own grade, or names no epoch.         *)
LEMMA UnreadIs ==
  ASSUME RecoveryInv, AfterRead, NEW i \in DOMAIN chain \ known
  PROVE  \/ chain[i].kind = "torn" /\ chain[i].epoch = 0
         \/ chain[i].kind = "grade" /\ chain[i].epoch = epoch
<1>1. chain[i] \in {TornGap, Fact("grade", {})}
  BY DEF RecoveryInv, LifeInv, ToReconcile
<1>2. TornGap.kind = "torn" /\ TornGap.epoch = 0  BY DEF TornGap, Entry
<1>3. Fact("grade", {}).kind = "grade" /\ Fact("grade", {}).epoch = epoch  BY DEF Fact, Entry
<1> HIDE DEF TornGap, Fact
<1> QED  BY <1>1, <1>2, <1>3

(* So all that the chain says of decisions it has read.                    *)
LEMMA ReadAll ==
  ASSUME RecoveryInv, AfterRead
  PROVE  /\ \A p : p \in Surviving <=> Effects(p) # {}
         /\ \A p : p \in NamedLost <=> Named(p) # {}
         /\ \A e : Markers("unclean", e) = {i \in Entries("unclean") : chain[i].epoch = e}
<1>1. \A i \in DOMAIN chain : chain[i].kind \in {"effect", "unflushed", "unclean"} => i \in known
  BY UnreadIs
<1>2. known \subseteq DOMAIN chain  BY Groups DEF RecoveryInv, MemoryTypes
<1>3. \A k : Entries(k) \subseteq DOMAIN chain /\ \A i \in Entries(k) : chain[i].kind = k
  BY <1>2 DEF Entries
<1>4. \A k \in {"effect", "unflushed", "unclean"} :
        Entries(k) = {i \in DOMAIN chain : chain[i].kind = k}
  BY <1>1, <1>2 DEF Entries
<1>5. \A p : p \in Surviving <=> Effects(p) # {}
  BY <1>4 DEF Surviving, Effects
<1>6. \A p : p \in NamedLost <=> Named(p) # {}
  BY <1>4 DEF NamedLost, Named
<1>7. \A e : Markers("unclean", e) = {i \in Entries("unclean") : chain[i].epoch = e}
  BY <1>4 DEF Markers
<1> QED  BY <1>5, <1>6, <1>7

(* reconcile_at_start reads the chain and the open records.                *)
LEMMA ReadsKeeps ==
  ASSUME RecoveryInv, Reads
  PROVE  RecoveryInv'
<1>1. FileTypes /\ MemoryTypes /\ FilesInv /\ LifeInv  BY Groups DEF RecoveryInv
<1>2. /\ pc = "read" /\ known' = DOMAIN chain
      /\ todo' = {i \in OpenRecords : journal[i].epoch # epoch}
      /\ pc' = IF todo' = {} THEN "compare" ELSE "epoch"
      /\ UNCHANGED <<local, decisions, chain, torn, journal, jtorn, epoch>>
      /\ UNCHANGED <<opened, graded, owed, held, lost, report, faults>>
  BY DEF Reads, files
<1>3. FileTypes'  BY <1>1, <1>2 DEF FileTypes
<1>4. MemoryTypes'  BY <1>1, <1>2 DEF MemoryTypes
<1>5. FilesInv'  BY <1>1, <1>2, FilesSame
<1>6. NotRun' = NotRun /\ OpenRecords' = OpenRecords /\ Readable' = Readable
      /\ \A r, e : Said(r, e)' = Said(r, e) /\ Markers(r, e)' = Markers(r, e)
  BY <1>2 DEF NotRun, OpenRecords, ClosedEpochs, Readable, Garbage, Line, Said, Markers
<1>7. epoch # 0 /\ ~ jtorn /\ owed = {} /\ held = {} /\ lost = {} /\ report = NotRun
      /\ (local => opened) /\ (~ opened => OpenRecords = {})
  BY <1>1, <1>2 DEF LifeInv, LifeShape
<1>8. LifeInv'
  <2>1. LifeShape'
    <3>1. AfterRead' /\ (InEpoch' <=> todo' # {})  BY <1>2 DEF AfterRead, InEpoch
    <3>2. todo' # {} => opened  BY <1>2, <1>7
    <3> QED  BY <1>2, <1>6, <1>7, <3>1, <3>2 DEF LifeShape
  <2>2. OwnEpoch'
    <3>1. OwnEpoch  BY <1>1 DEF LifeInv
    <3>2. pc' # "down" /\ pc' # "closed"  BY <1>2
    <3> QED  BY <1>2, <1>6, <3>1, <3>2 DEF OwnEpoch
  <2>3. ToReconcile'
    <3>1. \A i \in todo' :
            /\ i \in DOMAIN journal /\ journal[i].record = "open" /\ journal[i].epoch # epoch
            /\ ~ Said("clean", journal[i].epoch)
      BY <1>2 DEF OpenRecords, ClosedEpochs, Said
    <3>2. \A i \in OpenRecords : journal[i].epoch # epoch => i \in todo'  BY <1>2
    <3>3. DOMAIN chain \ known' = {}  BY <1>2
    <3>4. pc' # "journal"  BY <1>2
    <3> QED  BY <1>2, <1>6, <3>1, <3>2, <3>3, <3>4 DEF ToReconcile
  <2>4. ToCome'  BY <1>2, <1>7 DEF ToCome
  <2>5. Reported'  BY <1>2, <1>6, <1>7 DEF Reported
  <2> QED  BY <2>1, <2>2, <2>3, <2>4, <2>5 DEF LifeInv
<1> QED  BY <1>3, <1>4, <1>5, <1>8, GroupsNext DEF RecoveryInv

(* The grade, when it is due, and the entries that recovery writes.        *)
Due == IF graded THEN <<>> ELSE <<Grade>>
Unclean(r) == Entry("unclean", r.epoch, {}, r.from, Max(Produced(r)))
Gap(r) == Entry("unflushed", r.epoch, Chunk(r.epoch), 0, 0)

(* The marker covers all that the epoch produced, and is the first.        *)
LEMMA MarkingFits ==
  ASSUME RecoveryInv, pc = "epoch", NeedsMarker(InHand)
  PROVE  /\ Marking(InHand) = Due \o <<Unclean(InHand)>>
         /\ Due \in {<<>>, <<Grade>>} /\ Fits(Due, Unclean(InHand))
<1>1. FileTypes /\ MemoryTypes /\ FilesInv /\ LifeInv  BY Groups DEF RecoveryInv
<1>2. AfterRead /\ InEpoch  BY DEF AfterRead, InEpoch
<1>3. PICK r \in LineType : r = InHand  BY <1>2, InHandIs
<1>4. /\ r.record = "open" /\ r.epoch # epoch /\ r.epoch # 0 /\ r.epoch <= epoch
      /\ ~ Said("clean", r.epoch) /\ r.epoch \in 1..MaxLives
      /\ \E j \in DOMAIN journal : journal[j] = r
  BY <1>2, <1>3, InHandIs
<1>5. Marking(r) = Due \o <<Unclean(r)>>
  BY Zenon DEF Marking, Graded, Due, Unclean, Grade
<1>6. Due \in {<<>>, <<Grade>>}  BY DEF Due
<1>7. ~ Marked(r) /\ Produced(r) # {}  BY <1>3 DEF NeedsMarker
<1>8. Produced(r) \in SUBSET (0..Len(chain)) /\ Len(chain) \in Nat
  <2>1. chain \in Seq(EntryType)  BY <1>1 DEF FileTypes
  <2>2. DOMAIN chain = 1..Len(chain) /\ Len(chain) \in Nat  BY <2>1
  <2>3. known \subseteq DOMAIN chain  BY <1>1 DEF MemoryTypes
  <2> QED  BY <2>2, <2>3 DEF Produced
<1>9. Max(Produced(r)) \in Nat /\ \A n \in Produced(r) : n <= Max(Produced(r))
  <2> DEFINE b == Len(chain)
  <2>1. b \in Nat /\ Produced(r) \in SUBSET (0..b) /\ Produced(r) # {}  BY <1>7, <1>8
  <2> HIDE DEF b
  <2>2. Max(Produced(r)) \in Produced(r) /\ \A n \in Produced(r) : n <= Max(Produced(r))
    BY <2>1, GreatestOf
  <2>3. 0..b \subseteq Nat  BY <2>1
  <2> QED  BY <2>1, <2>2, <2>3, Zenon
<1> DEFINE top == Max(Produced(r))
<1>10. top \in Nat /\ \A n \in Produced(r) : n <= top  BY <1>9
<1>11. Unclean(r) = Entry("unclean", r.epoch, {}, r.from, top)  BY DEF Unclean
<1> HIDE DEF top
<1>12. /\ Unclean(r).kind = "unclean" /\ Unclean(r).epoch = r.epoch
       /\ Unclean(r).names = {} /\ Unclean(r).from = r.from /\ Unclean(r).through = top
  BY <1>11 DEF Entry
<1>13. r.from \in Nat /\ r.epoch \in 0..MaxLives  BY DEF LineType
<1>14. Unclean(r) \in EntryType  BY <1>10, <1>11, <1>13 DEF Entry, EntryType
<1>15. Markers("unclean", r.epoch) = {}
  BY <1>2, <1>7, ReadAll DEF Marked
<1>16. ASSUME NEW i \in DOMAIN chain, ~ WrittenByRecovery(i), chain[i].epoch = r.epoch
       PROVE  i \in r.from..top
  <2>1. i \in known  BY <1>2, <1>4, <1>16, UnreadIs
  <2>2. r.from <= i
    <3>1. PICK j \in DOMAIN journal : journal[j] = r  BY <1>4
    <3> QED  BY <1>1, <1>4, <1>16, <3>1 DEF FilesInv, OpenedBefore
  <2>3. i \in Nat
    <3>1. chain \in Seq(EntryType)  BY <1>1 DEF FileTypes
    <3>2. DOMAIN chain = 1..Len(chain)  BY <3>1
    <3> QED  BY <3>2
  <2>4. i \in Produced(r)  BY <1>13, <1>16, <2>1, <2>2, <2>3 DEF Produced
  <2>5. i <= top  BY <1>10, <2>4
  <2> QED  BY <1>10, <1>13, <2>2, <2>3, <2>5
<1>17. Fits(Due, Unclean(r))
  BY <1>4, <1>12, <1>14, <1>15, <1>16 DEF Fits
<1> QED  BY <1>3, <1>5, <1>6, <1>17

(* A gap names what is neither an effect nor named before.                 *)
LEMMA GapFits ==
  ASSUME RecoveryInv, pc = "gaps"
  PROVE  /\ GapOf(InHand) = Due \o <<Gap(InHand)>>
         /\ Due \in {<<>>, <<Grade>>} /\ Fits(Due, Gap(InHand))
<1>1. FileTypes /\ MemoryTypes /\ FilesInv /\ LifeInv  BY Groups DEF RecoveryInv
<1>2. AfterRead /\ InEpoch  BY DEF AfterRead, InEpoch
<1>3. PICK r \in LineType : r = InHand  BY <1>2, InHandIs
<1>4. r.epoch # epoch /\ r.epoch # 0 /\ r.epoch <= epoch
  BY <1>2, <1>3, InHandIs
<1>5. GapOf(r) = Due \o <<Gap(r)>>
  BY Zenon DEF GapOf, Graded, Due, Gap, Grade
<1>6. Due \in {<<>>, <<Grade>>}  BY DEF Due
<1>7. \A p \in Chunk(r.epoch) :
        /\ p \in DOMAIN decisions /\ decisions[p] = r.epoch
        /\ p \notin Surviving /\ p \notin NamedLost
  BY DEF Chunk, Missing
<1>8. \A p \in Chunk(r.epoch) : Effects(p) = {} /\ Named(p) = {}
  BY <1>2, <1>7, ReadAll
<1>9. Chunk(r.epoch) \in SUBSET (1..MaxDecisions)
  <2>1. decisions \in Seq(1..MaxLives) /\ Len(decisions) <= MaxDecisions
    BY <1>1 DEF FileTypes
  <2>2. DOMAIN decisions = 1..Len(decisions) /\ Len(decisions) \in Nat  BY <2>1
  <2>3. DOMAIN decisions \subseteq 1..MaxDecisions  BY <2>1, <2>2, RecoveryAssumption
  <2> QED  BY <1>7, <2>3
<1> DEFINE names == Chunk(r.epoch)
<1>10. /\ Gap(r).kind = "unflushed" /\ Gap(r).epoch = r.epoch /\ Gap(r).names = names
       /\ Gap(r) = Entry("unflushed", r.epoch, names, 0, 0)
  BY DEF Gap, Entry
<1>11. names \in SUBSET (1..MaxDecisions) /\ names \subseteq DOMAIN decisions  BY <1>7, <1>9
<1>12. \A p \in names : Effects(p) = {} /\ Named(p) = {} /\ decisions[p] # epoch
  BY <1>4, <1>7, <1>8
<1> HIDE DEF names
<1>13. r.epoch \in 0..MaxLives  BY DEF LineType
<1>14. Gap(r) \in EntryType  BY <1>10, <1>11, <1>13 DEF Entry, EntryType
<1>15. Fits(Due, Gap(r))
  BY <1>4, <1>10, <1>11, <1>12, <1>14 DEF Fits
<1> QED  BY <1>3, <1>5, <1>6, <1>15

(* What recovery has written it knows, but for the grade.                  *)
LEMMA RecoveryWrites ==
  ASSUME RecoveryInv, pc \in {"epoch", "gaps"}, NEW x, x.kind \in {"unclean", "unflushed"},
         Due \in {<<>>, <<Grade>>}, Fits(Due, x), Writes(Due \o <<x>>),
         known' = known \cup {Len(chain')}, graded' = TRUE, pc' \in {"scan", "gaps"},
         UNCHANGED <<local, decisions, journal, jtorn, epoch, opened, todo, owed, held, lost,
                     report, faults>>
  PROVE  RecoveryInv'
<1>1. FileTypes /\ MemoryTypes /\ FilesInv /\ LifeInv  BY Groups DEF RecoveryInv
<1>2. AfterRead /\ InEpoch  BY DEF AfterRead, InEpoch
<1>3. epoch # 0 /\ opened /\ todo # {} /\ ~ jtorn /\ owed = {} /\ held = {} /\ lost = {}
      /\ report = NotRun /\ OwnEpoch
  BY <1>1, <1>2 DEF LifeInv, LifeShape
<1>4. Recording  BY <1>1, <1>3 DEF Recording
<1>5. x \in EntryType  BY DEF Fits
<1>6. Grown(Due, x) /\ Len(chain) < Len(chain')  BY <1>1, <1>3, <1>5, WritesGrow
<1>7. FilesInv'  BY <1>1, <1>4, <1>6, GrownKeeps
<1>8. chain' \in Seq(EntryType) /\ torn' \in BOOLEAN  BY <1>6 DEF Grown
<1>9. FileTypes'  BY <1>1, <1>8 DEF FileTypes
<1>10. /\ DOMAIN chain \subseteq DOMAIN chain'
       /\ \A i \in DOMAIN chain : chain'[i] = chain[i]
       /\ \A i \in DOMAIN chain' \ DOMAIN chain :
            /\ chain'[i].kind # "clean"
            /\ i # Len(chain') => chain'[i] \in {TornGap, Grade}
  <2>1. /\ DOMAIN chain \subseteq DOMAIN chain'
        /\ \A i \in DOMAIN chain : chain'[i] = chain[i]
        /\ \A i \in DOMAIN chain' \ DOMAIN chain : chain'[i].kind # "clean"
    BY <1>1, <1>6, GrownChain
  <2>2. \A i \in DOMAIN chain' \ DOMAIN chain :
          i # Len(chain') => chain'[i] \in {TornGap, Grade}
    BY <1>6, Zenon DEF Grown
  <2> QED  BY <2>1, <2>2
<1>11. Len(chain') \in DOMAIN chain'
  <2>1. DOMAIN chain' = 1..Len(chain') /\ Len(chain') \in Nat  BY <1>8
  <2>2. Len(chain) \in Nat  BY <1>1 DEF FileTypes
  <2> QED  BY <1>6, <2>1, <2>2
<1>12. MemoryTypes'
  <2>1. known' \subseteq DOMAIN chain'  BY <1>1, <1>10, <1>11 DEF MemoryTypes
  <2>2. pc' \in {"down", "open", "read", "epoch", "scan", "gaps", "journal", "compare",
                 "compose", "serving", "closing", "closed"}
    OBVIOUS
  <2> QED  BY <1>1, <2>1, <2>2 DEF MemoryTypes
<1>13. NotRun' = NotRun /\ OpenRecords' = OpenRecords /\ Readable' = Readable
       /\ TornGap' = TornGap /\ Fact("grade", {})' = Grade
       /\ \A r, e : Said(r, e)' = Said(r, e)
  BY DEF NotRun, OpenRecords, ClosedEpochs, Readable, Garbage, Line, Said, TornGap, Entry,
         Fact, Grade
<1>14. AfterRead' /\ InEpoch' /\ pc' \notin {"compare", "down", "open", "read", "closed",
         "compose", "journal"}
  BY DEF AfterRead, InEpoch
<1>15. LifeInv'
  <2>1. LifeShape'  BY <1>3, <1>13, <1>14 DEF LifeShape
  <2>2. OwnEpoch'
    <3>1. Markers("clean", epoch) = {}  BY <1>3 DEF OwnEpoch
    <3>2. Markers("clean", epoch)' = {}  BY <1>10, <3>1 DEF Markers
    <3> QED  BY <1>3, <1>13, <1>14, <3>2 DEF OwnEpoch
  <2>3. ToReconcile'
    <3>1. ToReconcile  BY <1>1 DEF LifeInv
    <3>2. \A i \in DOMAIN chain \ known : chain[i] \in {TornGap, Grade}
      BY <1>2, <3>1 DEF ToReconcile, Grade
    <3> HIDE DEF TornGap, Grade
    <3>3. \A i \in DOMAIN chain' \ known' : chain'[i] \in {TornGap, Grade}
      BY <1>10, <3>2
    <3>4. \A i \in todo :
            /\ i \in DOMAIN journal /\ journal[i].record = "open" /\ journal[i].epoch # epoch
            /\ ~ Said("clean", journal[i].epoch)
      BY <3>1 DEF ToReconcile
    <3>5. \A i \in OpenRecords : journal[i].epoch # epoch => i \in todo
      BY <1>2, <3>1 DEF ToReconcile
    <3> QED  BY <1>13, <1>14, <3>3, <3>4, <3>5, Zenon DEF ToReconcile
  <2>4. ToCome'  BY <1>3 DEF ToCome
  <2>5. Reported'  BY <1>3, <1>13 DEF Reported
  <2> QED  BY <2>1, <2>2, <2>3, <2>4, <2>5 DEF LifeInv
<1> QED  BY <1>7, <1>9, <1>12, <1>15, GroupsNext DEF RecoveryInv

(* _reconcile_epoch marks the epoch, if it produced anything.              *)
LEMMA MarksKeeps ==
  ASSUME RecoveryInv, Marks
  PROVE  RecoveryInv'
<1>1. FileTypes /\ MemoryTypes /\ FilesInv /\ LifeInv  BY Groups DEF RecoveryInv
<1>2. /\ pc = "epoch" /\ pc' = "scan"
      /\ UNCHANGED <<local, decisions, journal, jtorn, epoch, opened, todo, owed, held, lost,
                     report, faults>>
  BY DEF Marks
<1>3. CASE NeedsMarker(InHand)
  <2>1. Writes(Marking(InHand)) /\ known' = known \cup {Len(chain')} /\ graded' = TRUE
    BY <1>3 DEF Marks
  <2>2. /\ Marking(InHand) = Due \o <<Unclean(InHand)>>
        /\ Due \in {<<>>, <<Grade>>} /\ Fits(Due, Unclean(InHand))
    BY <1>2, <1>3, MarkingFits
  <2>3. Unclean(InHand).kind = "unclean"  BY DEF Unclean, Entry
  <2> QED  BY <1>2, <2>1, <2>2, <2>3, RecoveryWrites
<1>4. CASE ~ NeedsMarker(InHand)
  <2>1. UNCHANGED <<chain, torn, known, graded>>  BY <1>4 DEF Marks
  <2>2. FileTypes'  BY <1>1, <1>2, <2>1 DEF FileTypes
  <2>3. MemoryTypes'  BY <1>1, <1>2, <2>1 DEF MemoryTypes
  <2>4. FilesInv'  BY <1>1, <1>2, <2>1, FilesSame
  <2>5. NotRun' = NotRun /\ OpenRecords' = OpenRecords /\ Readable' = Readable
        /\ TornGap' = TornGap /\ Fact("grade", {})' = Fact("grade", {})
        /\ \A r, e : Said(r, e)' = Said(r, e) /\ Markers(r, e)' = Markers(r, e)
    BY <1>2, <2>1 DEF NotRun, OpenRecords, ClosedEpochs, Readable, Garbage, Line, Said, Markers,
       TornGap, Entry, Fact
  <2>6. AfterRead /\ InEpoch /\ AfterRead' /\ InEpoch'  BY <1>2 DEF AfterRead, InEpoch
  <2>7. LifeShape'  BY <1>1, <1>2, <2>1, <2>5, <2>6 DEF LifeInv, LifeShape
  <2>8. OwnEpoch'  BY <1>1, <1>2, <2>1, <2>5, <2>6 DEF LifeInv, OwnEpoch
  <2>9. ToReconcile'
    BY <1>1, <1>2, <2>1, <2>5, <2>6 DEF LifeInv, ToReconcile
  <2>10. owed = {} /\ held = {} /\ report = NotRun  BY <1>1, <2>6 DEF LifeInv, LifeShape
  <2>11. ToCome' /\ Reported'  BY <1>2, <2>5, <2>10 DEF ToCome, Reported
  <2>12. LifeInv'  BY <2>7, <2>8, <2>9, <2>11 DEF LifeInv
  <2> QED  BY <2>2, <2>3, <2>4, <2>12, GroupsNext DEF RecoveryInv
<1> QED  BY <1>3, <1>4

(* The marker cut short.                                                   *)
LEMMA FailsToMarkKeeps ==
  ASSUME RecoveryInv, FailsToMark
  PROVE  RecoveryInv'
<1>1. /\ pc = "epoch" /\ NeedsMarker(InHand) /\ FailsToWrite(Marking(InHand)) /\ Ends
      /\ UNCHANGED <<local, decisions, journal, jtorn, epoch>>
  BY DEF FailsToMark
<1>2. /\ Marking(InHand) = Due \o <<Unclean(InHand)>>
      /\ Due \in {<<>>, <<Grade>>} /\ Fits(Due, Unclean(InHand))
  BY <1>1, MarkingFits
<1>3. opened  BY <1>1 DEF RecoveryInv, LifeInv, LifeShape, InEpoch
<1> QED  BY <1>1, <1>2, <1>3, EndsOverAWrite

(* What neither writes a file nor changes what recovery holds.             *)
LEMMA ScansKeeps ==
  ASSUME RecoveryInv, InEpoch, pc' \in {"gaps", "journal"},
         pc' = "journal" => Missing(InHand.epoch) = {},
         UNCHANGED <<files, epoch, memory, faults>>
  PROVE  RecoveryInv'
<1>1. FileTypes /\ MemoryTypes /\ FilesInv /\ LifeInv  BY Groups DEF RecoveryInv
<1>2. /\ UNCHANGED <<local, decisions, chain, torn, journal, jtorn, epoch, faults>>
      /\ UNCHANGED <<opened, graded, known, todo, owed, held, lost, report>>
  BY DEF files, memory
<1>3. FileTypes'  BY <1>1, <1>2 DEF FileTypes
<1>4. MemoryTypes'  BY <1>1, <1>2 DEF MemoryTypes
<1>5. FilesInv'  BY <1>1, <1>2, FilesSame
<1>6. NotRun' = NotRun /\ OpenRecords' = OpenRecords /\ Readable' = Readable
      /\ TornGap' = TornGap /\ Fact("grade", {})' = Fact("grade", {})
      /\ InHand' = InHand
      /\ \A r, e : /\ Said(r, e)' = Said(r, e) /\ Markers(r, e)' = Markers(r, e)
                   /\ Missing(e)' = Missing(e)
  BY <1>2 DEF NotRun, OpenRecords, ClosedEpochs, Readable, Garbage, Line, Said, Markers,
     TornGap, Entry, Fact, Missing, Surviving, NamedLost, Entries, InHand
<1>7. AfterRead /\ InEpoch /\ AfterRead' /\ InEpoch'  BY DEF AfterRead, InEpoch
<1>8. /\ pc \notin {"down", "open", "read", "compare", "compose", "closed"}
      /\ pc' \notin {"down", "open", "read", "compare", "compose", "closed"}
  BY DEF InEpoch
<1>9. LifeShape'  BY <1>1, <1>2, <1>6, <1>7, <1>8 DEF LifeInv, LifeShape
<1>10. OwnEpoch'  BY <1>1, <1>2, <1>6, <1>8 DEF LifeInv, OwnEpoch
<1>11. ToReconcile'
  <2>1. /\ \A i \in todo :
            /\ i \in DOMAIN journal /\ journal[i].record = "open" /\ journal[i].epoch # epoch
            /\ ~ Said("clean", journal[i].epoch)
        /\ \A i \in OpenRecords : journal[i].epoch # epoch => i \in todo
        /\ \A i \in DOMAIN chain \ known : chain[i] \in {TornGap, Fact("grade", {})}
    BY <1>1, <1>7 DEF LifeInv, ToReconcile
  <2>2. pc' = "journal" => Missing(InHand.epoch)' = {}
    BY <1>2, <1>6, Zenon DEF InHand
  <2> QED  BY <1>2, <1>6, <2>1, <2>2, Zenon DEF ToReconcile
<1>12. owed = {} /\ held = {} /\ report = NotRun  BY <1>1, <1>7 DEF LifeInv, LifeShape
<1>13. ToCome' /\ Reported'  BY <1>2, <1>6, <1>12 DEF ToCome, Reported
<1>14. LifeInv'  BY <1>9, <1>10, <1>11, <1>13 DEF LifeInv
<1> QED  BY <1>3, <1>4, <1>5, <1>14, GroupsNext DEF RecoveryInv

(* Nothing is missing when there is no further chunk to name: the least of *)
(* what is missing is always in it.                                        *)
LEMMA NoChunkNoneMissing ==
  ASSUME FileTypes, NEW e, Chunk(e) = {}
  PROVE  Missing(e) = {}
<1> SUFFICES ASSUME Missing(e) # {} PROVE FALSE  OBVIOUS
<1>1. Missing(e) \in SUBSET Nat
  <2>1. decisions \in Seq(1..MaxLives)  BY DEF FileTypes
  <2>2. DOMAIN decisions = 1..Len(decisions)  BY <2>1
  <2> QED  BY <2>2 DEF Missing
<1> DEFINE M == Missing(e)
           m == Min(M)
<1>2. m \in M /\ \A q \in M : m <= q  BY <1>1, LeastOf
<1>3. m \in Nat /\ M \in SUBSET Nat  BY <1>1, <1>2
<1>4. Chunk(e) = {p \in M : Cardinality({q \in M : q < p}) < GapBound}  BY DEF Chunk
<1> HIDE DEF M, m
<1>5. {q \in M : q < m} = {}
  <2>1. ASSUME NEW q \in M PROVE ~ (q < m)
    <3>1. q \in Nat /\ m <= q  BY <1>2, <1>3
    <3> QED  BY <1>3, <3>1
  <2> QED  BY <2>1, Zenon
<1>6. Cardinality({q \in M : q < m}) < GapBound  BY <1>5, FS_EmptySet, RecoveryAssumption
<1>7. m \in {p \in M : Cardinality({q \in M : q < p}) < GapBound}  BY <1>2, <1>6, Zenon
<1> QED  BY <1>4, <1>7

(* _declare_unflushed.                                                     *)
LEMMA DeclaresUnflushedKeeps ==
  ASSUME RecoveryInv, DeclaresUnflushed
  PROVE  RecoveryInv'
<1>1. FileTypes  BY Groups DEF RecoveryInv
<1>2. /\ pc = "gaps"
      /\ UNCHANGED <<local, decisions, journal, jtorn, epoch, opened, todo, owed, held, lost,
                     report, faults>>
  BY DEF DeclaresUnflushed
<1>3. InEpoch  BY <1>2 DEF InEpoch
<1>4. CASE Chunk(InHand.epoch) = {}
  <2>1. pc' = "journal" /\ UNCHANGED <<chain, torn, known, graded>>
    BY <1>4 DEF DeclaresUnflushed
  <2>2. UNCHANGED <<files, epoch, memory, faults>>  BY <1>2, <2>1 DEF files, memory
  <2>3. Missing(InHand.epoch) = {}  BY <1>1, <1>4, NoChunkNoneMissing
  <2> QED  BY <1>3, <2>1, <2>2, <2>3, ScansKeeps
<1>5. CASE Chunk(InHand.epoch) # {}
  <2>1. Writes(GapOf(InHand)) /\ known' = known \cup {Len(chain')} /\ graded' = TRUE /\ pc' = pc
    BY <1>5 DEF DeclaresUnflushed
  <2>2. /\ GapOf(InHand) = Due \o <<Gap(InHand)>>
        /\ Due \in {<<>>, <<Grade>>} /\ Fits(Due, Gap(InHand))
    BY <1>2, GapFits
  <2>3. Gap(InHand).kind = "unflushed"  BY DEF Gap, Entry
  <2> QED  BY <1>2, <2>1, <2>2, <2>3, RecoveryWrites
<1> QED  BY <1>4, <1>5

(* A gap cut short.                                                        *)
LEMMA FailsToDeclareKeeps ==
  ASSUME RecoveryInv, FailsToDeclare
  PROVE  RecoveryInv'
<1>1. /\ pc = "gaps" /\ FailsToWrite(GapOf(InHand)) /\ Ends
      /\ UNCHANGED <<local, decisions, journal, jtorn, epoch>>
  BY DEF FailsToDeclare
<1>2. /\ GapOf(InHand) = Due \o <<Gap(InHand)>>
      /\ Due \in {<<>>, <<Grade>>} /\ Fits(Due, Gap(InHand))
  BY <1>1, GapFits
<1>3. opened  BY <1>1 DEF RecoveryInv, LifeInv, LifeShape, InEpoch
<1> QED  BY <1>1, <1>2, <1>3, EndsOverAWrite

(* The line that reconciles an epoch may be written once none is missing.  *)
LEMMA ReconciledFits ==
  ASSUME RecoveryInv, pc = "journal"
  PROVE  LET l == Line("reconciled", InHand.epoch, 0) IN l \in LineType /\ LineFits(l)
<1>1. FileTypes /\ FilesInv /\ LifeInv  BY Groups DEF RecoveryInv
<1>2. AfterRead /\ InEpoch  BY DEF AfterRead, InEpoch
<1>3. PICK e \in 1..MaxLives : e = InHand.epoch  BY <1>2, InHandIs
<1>4. e # epoch /\ e <= epoch  BY <1>2, <1>3, InHandIs
<1>5. Missing(e) = {}  BY <1>1, <1>3 DEF LifeInv, ToReconcile
<1>6. ASSUME NEW p \in DOMAIN decisions, decisions[p] = e
      PROVE  Effects(p) \cup Named(p) # {}
  <2>1. p \in Surviving \/ p \in NamedLost  BY <1>5, <1>6 DEF Missing
  <2> QED  BY <1>2, <2>1, ReadAll
<1> DEFINE l == Line("reconciled", e, 0)
<1>7. l.record = "reconciled" /\ l.epoch = e /\ l.from = 0 /\ l \in LineType
  <2>1. e \in 0..MaxLives  BY RecoveryAssumption
  <2> QED  BY <2>1 DEF Line, LineType
<1> HIDE DEF l
<1>8. e # 0 /\ Len(chain) \in Nat  BY <1>1, RecoveryAssumption DEF FileTypes
<1>9. LineFits(l)  BY <1>4, <1>6, <1>7, <1>8 DEF LineFits
<1> QED  BY <1>3, <1>7, <1>9 DEF l

(* The epoch is reconciled in the journal, and the next is in hand.        *)
LEMMA ReconcilesKeeps ==
  ASSUME RecoveryInv, Reconciles
  PROVE  RecoveryInv'
<1>1. FileTypes /\ MemoryTypes /\ FilesInv /\ LifeInv  BY Groups DEF RecoveryInv
<1>2. /\ pc = "journal" /\ Journals(Line("reconciled", InHand.epoch, 0))
      /\ todo' = todo \ {Min(todo)}
      /\ pc' = IF todo' = {} THEN "compare" ELSE "epoch"
      /\ UNCHANGED <<local, decisions, chain, torn, epoch, opened, graded, known, owed, held,
                     lost, report, faults>>
  BY DEF Reconciles
<1>3. AfterRead /\ InEpoch  BY <1>2 DEF AfterRead, InEpoch
<1>4. PICK l \in LineType : l = Line("reconciled", InHand.epoch, 0) /\ LineFits(l)
  BY <1>2, ReconciledFits
<1>5. l.record = "reconciled" /\ l.epoch = InHand.epoch  BY <1>4 DEF Line
<1>6. epoch # 0 /\ ~ jtorn /\ opened /\ owed = {} /\ held = {} /\ lost = {} /\ report = NotRun
      /\ OwnEpoch /\ ToReconcile
  BY <1>1, <1>3 DEF LifeInv, LifeShape
<1>7. /\ Lined(l) /\ ~ jtorn'
      /\ DOMAIN journal' \ DOMAIN journal = {Len(journal) + 1}
      /\ journal'[Len(journal) + 1] = l
  BY <1>1, <1>2, <1>4, <1>6, JournalsLine
<1>8. /\ DOMAIN journal \subseteq DOMAIN journal'
      /\ \A j \in DOMAIN journal : journal'[j] = journal[j]
      /\ \A j \in DOMAIN journal' : j \in DOMAIN journal \/ journal'[j] = l
      /\ \E j \in DOMAIN journal' : journal'[j] = l
  BY <1>7 DEF Lined
<1>9. FileTypes'
  <2>1. journal' \in Seq(LineType) /\ jtorn' \in BOOLEAN  BY <1>7 DEF Lined
  <2> QED  BY <1>1, <1>2, <2>1 DEF FileTypes
<1>10. MemoryTypes'
  <2>1. pc' \in {"compare", "epoch"}  BY <1>2
  <2> QED  BY <1>1, <1>2, <2>1 DEF MemoryTypes
<1>11. FilesInv'  BY <1>1, <1>2, <1>4, <1>7, LinedKeeps
<1>12. AfterRead' /\ (InEpoch' <=> todo' # {}) /\ pc' \in {"compare", "epoch"}
  BY <1>2 DEF AfterRead, InEpoch
<1>13. NotRun' = NotRun /\ TornGap' = TornGap /\ Fact("grade", {})' = Fact("grade", {})
       /\ \A r, e : Markers(r, e)' = Markers(r, e)
  BY <1>2 DEF NotRun, TornGap, Entry, Fact, Markers
<1>14. LifeInv'
  <2>1. LifeShape'  BY <1>2, <1>6, <1>7, <1>12, <1>13 DEF LifeShape
  <2>2. OwnEpoch'
    <3>1. Readable' => Readable
      <4>1. Garbage' = Garbage  BY DEF Garbage, Line
      <4> QED  BY <1>8, <4>1, Zenon DEF Readable
    <3>2. Readable => \E j \in DOMAIN journal :
            journal[j].record = "open" /\ journal[j].epoch = epoch
      BY <1>6 DEF OwnEpoch
    <3>3. ASSUME NEW j \in DOMAIN journal', journal'[j].epoch = epoch
          PROVE  journal'[j].record = "open"
      <4>1. l.epoch # epoch  BY <1>4, <1>5 DEF LineFits
      <4>2. j \in DOMAIN journal  BY <1>8, <3>3, <4>1
      <4> QED  BY <1>2, <1>6, <1>8, <3>3, <4>2 DEF OwnEpoch
    <3>4. Markers("clean", epoch) = {}  BY <1>2, <1>6 DEF OwnEpoch
    <3>5. Readable' => \E j \in DOMAIN journal' :
            journal'[j].record = "open" /\ journal'[j].epoch = epoch
      BY <1>8, <3>1, <3>2
    <3> QED  BY <1>2, <1>6, <1>13, <3>3, <3>4, <3>5, Zenon DEF OwnEpoch
  <2>3. ToReconcile'
    <3>1. \A e : Said("clean", e)' => Said("clean", e)
      BY <1>5, <1>8 DEF Said
    <3>2. ASSUME NEW i \in todo'
          PROVE  /\ i \in DOMAIN journal' /\ journal'[i].record = "open"
                 /\ journal'[i].epoch # epoch
                 /\ ~ \E k \in DOMAIN journal' :
                        /\ journal'[k].record = "clean"
                        /\ journal'[k].epoch = journal'[i].epoch
      <4>1. i \in todo  BY <1>2, <3>2
      <4>2. i \in DOMAIN journal /\ journal[i].record = "open" /\ journal[i].epoch # epoch
            /\ ~ Said("clean", journal[i].epoch)
        BY <1>6, <4>1 DEF ToReconcile
      <4>3. journal'[i] = journal[i] /\ i \in DOMAIN journal'  BY <1>8, <4>2
      <4>4. PICK e : e = journal[i].epoch  OBVIOUS
      <4>5. ~ Said("clean", e)'  BY <3>1, <4>2, <4>4
      <4>6. Said("clean", e)' <=>
              \E k \in DOMAIN journal' : journal'[k].record = "clean" /\ journal'[k].epoch = e
        BY DEF Said
      <4> QED  BY <4>2, <4>3, <4>4, <4>5, <4>6, Zenon
    <3>3. ASSUME NEW i \in OpenRecords', journal'[i].epoch # epoch
          PROVE  i \in todo'
      <4>1. /\ i \in DOMAIN journal'
            /\ journal'[i].record = "open"
            /\ journal'[i].epoch \notin ClosedEpochs'
        BY <3>3 DEF OpenRecords
      <4>2. i \in DOMAIN journal /\ journal'[i] = journal[i]  BY <1>5, <1>8, <4>1
      <4>3. ClosedEpochs \subseteq ClosedEpochs' /\ InHand.epoch \in ClosedEpochs'
        BY <1>5, <1>8 DEF ClosedEpochs
      <4>4. i \in OpenRecords /\ journal[i].epoch # epoch
        BY <3>3, <4>1, <4>2, <4>3 DEF OpenRecords
      <4>5. i \in todo  BY <1>3, <1>6, <4>4 DEF ToReconcile
      <4>6. journal[i].epoch # InHand.epoch  BY <4>1, <4>2, <4>3
      <4>7. InHand = journal[Min(todo)]  BY DEF InHand
      <4>8. i # Min(todo)  BY <4>6, <4>7
      <4> QED  BY <1>2, <4>5, <4>8
    <3>4. \A i \in DOMAIN chain \ known : chain[i] \in {TornGap, Fact("grade", {})}
      BY <1>3, <1>6 DEF ToReconcile
    <3>5. pc' # "journal"  BY <1>12
    <3> QED  BY <1>2, <1>13, <3>2, <3>3, <3>4, <3>5, Zenon DEF ToReconcile, Said
  <2>4. ToCome' /\ Reported'  BY <1>2, <1>6, <1>13 DEF ToCome, Reported
  <2> QED  BY <2>1, <2>2, <2>3, <2>4 DEF LifeInv
<1> QED  BY <1>9, <1>10, <1>11, <1>14, GroupsNext DEF RecoveryInv

(* The line could not be written.                                          *)
LEMMA FailsToReconcileKeeps ==
  ASSUME RecoveryInv, FailsToReconcile
  PROVE  RecoveryInv'
<1>1. /\ pc = "journal" /\ FailsToJournal(Line("reconciled", InHand.epoch, 0)) /\ Ends
      /\ UNCHANGED <<local, decisions, chain, torn, epoch>>
  BY DEF FailsToReconcile
<1>2. PICK l \in LineType : l = Line("reconciled", InHand.epoch, 0) /\ LineFits(l)
  BY <1>1, ReconciledFits
<1> QED  BY <1>1, <1>2, EndsOverALine

-----------------------------------------------------------------------------
(* The end of recovery.                                                    *)

(* However it ends, what was recovered is left as it is.                   *)
LEMMA ServedKeeps ==
  ASSUME RecoveryInv, AfterRead, Served, faults' \in 0..MaxFaults,
         UNCHANGED <<files, epoch, opened, graded, owed, held, lost>>,
         report' \in [state: {"not_run", "agrees", "disagrees"}, unflushed: Nat],
         report' # NotRun =>
           /\ report'.state = "agrees"
           /\ report'.unflushed = Cardinality({p \in DOMAIN decisions : Named(p) # {}})
           /\ \A i \in OpenRecords : journal[i].epoch = epoch
  PROVE  RecoveryInv'
<1>1. FileTypes /\ MemoryTypes /\ FilesInv /\ LifeInv  BY Groups DEF RecoveryInv
<1>2. /\ UNCHANGED <<local, decisions, chain, torn, journal, jtorn, epoch>>
      /\ UNCHANGED <<opened, graded, owed, held, lost>>
      /\ known' = {} /\ todo' = {} /\ pc' = IF local THEN "compose" ELSE "serving"
  BY DEF files, Served
<1>3. FileTypes'  BY <1>1, <1>2 DEF FileTypes
<1>4. MemoryTypes'  BY <1>1, <1>2 DEF MemoryTypes
<1>5. FilesInv'  BY <1>1, <1>2, FilesSame
<1>6. /\ NotRun' = NotRun /\ OpenRecords' = OpenRecords /\ Readable' = Readable
      /\ \A r, e : Markers(r, e)' = Markers(r, e)
      /\ {p \in DOMAIN decisions : Named(p) # {}}' = {p \in DOMAIN decisions : Named(p) # {}}
  BY <1>2 DEF NotRun, OpenRecords, ClosedEpochs, Readable, Garbage, Line, Markers, Named
<1>7. /\ pc \notin {"down", "open", "read", "compose", "closed"}
      /\ pc' \in {"compose", "serving"} /\ ~ AfterRead' /\ ~ InEpoch'
  BY <1>2 DEF AfterRead, InEpoch
<1>8. epoch # 0 /\ owed = {} /\ held = {} /\ lost = {} /\ (local => opened)
  BY <1>1, <1>7 DEF LifeInv, LifeShape
<1>9. LifeShape'  BY <1>2, <1>7, <1>8 DEF LifeShape
<1>10. OwnEpoch'  BY <1>1, <1>2, <1>6, <1>7 DEF LifeInv, OwnEpoch
<1>11. ToReconcile'  BY <1>2, <1>7 DEF ToReconcile
<1>12. ToCome'  BY <1>2, <1>8 DEF ToCome
<1>13. Reported'  BY <1>2, <1>6, Zenon DEF Reported
<1> QED  BY <1>3, <1>4, <1>5, <1>9, <1>10, <1>11, <1>12, <1>13, GroupsNext
         DEF RecoveryInv, LifeInv

(* The decisions could not be read: nothing is reported.                   *)
LEMMA CannotScanKeeps ==
  ASSUME RecoveryInv, CannotScan
  PROVE  RecoveryInv'
<1>1. /\ pc \in {"scan", "compare"} /\ faults < MaxFaults /\ faults' = faults + 1
      /\ report' = NotRun /\ Served
      /\ UNCHANGED <<files, epoch, opened, graded, owed, held, lost>>
  BY DEF CannotScan
<1>2. AfterRead  BY <1>1 DEF AfterRead
<1>3. faults' \in 0..MaxFaults
  <2>1. faults \in 0..MaxFaults  BY Groups DEF RecoveryInv, FileTypes
  <2> QED  BY <1>1, <2>1, RecoveryAssumption
<1>4. report' \in [state: {"not_run", "agrees", "disagrees"}, unflushed: Nat]
  BY <1>1 DEF NotRun
<1> QED  BY <1>1, <1>2, <1>3, <1>4, ServedKeeps

(* The comparison reports what the chain says.                             *)
LEMMA ComparesKeeps ==
  ASSUME RecoveryInv, Compares
  PROVE  RecoveryInv'
<1>1. FileTypes /\ MemoryTypes /\ FilesInv /\ LifeInv  BY Groups DEF RecoveryInv
<1>2. /\ pc = "compare" /\ report' = Report /\ Served
      /\ UNCHANGED <<files, epoch, opened, graded, owed, held, lost, faults>>
  BY DEF Compares
<1>3. AfterRead  BY <1>2 DEF AfterRead
<1>4. Surviving \subseteq DOMAIN decisions /\ NamedLost \subseteq DOMAIN decisions
  <2>1. \A p : Effects(p) \cup Named(p) # {} => p \in DOMAIN decisions
    BY <1>1 DEF FilesInv, FilesAreOfTheseLives, Effects, Named
  <2> QED  BY <1>3, <2>1, ReadAll
<1>5. NamedLost = {p \in DOMAIN decisions : Named(p) # {}}
  BY <1>3, <1>4, ReadAll
<1>6. report'.state = "agrees" /\ report'.unflushed = Cardinality(NamedLost)
      /\ report' = [state |-> "agrees", unflushed |-> Cardinality(NamedLost)]
  BY <1>2, <1>4 DEF Report
<1>7. Cardinality(NamedLost) \in Nat
  <2>1. decisions \in Seq(1..MaxLives)  BY <1>1 DEF FileTypes
  <2>2. DOMAIN decisions = 1..Len(decisions) /\ Len(decisions) \in Nat  BY <2>1
  <2>3. IsFiniteSet(DOMAIN decisions)  BY <2>2, FS_Interval
  <2>4. IsFiniteSet(NamedLost)  BY <1>4, <2>3, FS_Subset
  <2> QED  BY <2>4, FS_CardinalityType
<1>8. report' \in [state: {"not_run", "agrees", "disagrees"}, unflushed: Nat]
  BY <1>6, <1>7
<1>9. \A i \in OpenRecords : journal[i].epoch = epoch
  <2>1. todo = {} /\ ToReconcile  BY <1>1, <1>2 DEF LifeInv, LifeShape
  <2> QED  BY <1>3, <2>1 DEF ToReconcile
<1>10. faults' \in 0..MaxFaults  BY <1>1, <1>2 DEF FileTypes
<1> QED  BY <1>2, <1>3, <1>5, <1>6, <1>8, <1>9, <1>10, ServedKeeps

-----------------------------------------------------------------------------
(* Writing while the daemon serves.                                        *)

(* What a fact of this life says has not been said.                        *)
LEMMA FactFits ==
  ASSUME RecoveryInv, epoch # 0, NEW k \in {"effect", "composition", "dropped"},
         NEW S \in SUBSET DOMAIN decisions, NEW g,
         k = "effect" => \A p \in S : p \in held
  PROVE  Fits(g, Fact(k, S)) /\ Fact(k, S).kind = k /\ Fact(k, S).names = S
<1>1. FileTypes /\ FilesInv /\ LifeInv  BY Groups DEF RecoveryInv
<1> DEFINE x == Fact(k, S)
<1>2. x.kind = k /\ x.epoch = epoch /\ x.names = S /\ x = Entry(k, epoch, S, 0, 0)
  BY DEF Fact, Entry
<1> HIDE DEF x
<1>3. S \in SUBSET (1..MaxDecisions)
  <2>1. decisions \in Seq(1..MaxLives) /\ Len(decisions) <= MaxDecisions
    BY <1>1 DEF FileTypes
  <2>2. DOMAIN decisions = 1..Len(decisions) /\ Len(decisions) \in Nat  BY <2>1
  <2>3. DOMAIN decisions \subseteq 1..MaxDecisions  BY <2>1, <2>2, RecoveryAssumption
  <2> QED  BY <2>3
<1>4. epoch \in 0..MaxLives /\ epoch \in Nat  BY <1>1, RecoveryAssumption DEF FileTypes
<1>5. x \in EntryType  BY <1>2, <1>3, <1>4 DEF Entry, EntryType
<1>6. k = "effect" => \A p \in S : Effects(p) = {} /\ Named(p) = {}
  <2>1. SUFFICES ASSUME k = "effect", NEW p \in S PROVE Effects(p) = {} /\ Named(p) = {}
    OBVIOUS
  <2>2. Effects(p) = {} /\ decisions[p] = epoch  BY <1>1, <2>1 DEF LifeInv, ToCome
  <2>3. Named(p) = {}  BY <1>1, <2>2 DEF FilesInv, SaidOnce
  <2> QED  BY <2>2, <2>3
<1>7. Fits(g, x)
  BY <1>2, <1>4, <1>5, <1>6 DEF Fits
<1> QED  BY <1>2, <1>7 DEF x

(* Who serves keeps its place, and what it holds shrinks or is what it was.*)
LEMMA ServingWrites ==
  ASSUME RecoveryInv, pc \in {"compose", "serving"}, pc' = "serving", opened,
         NEW g \in {<<>>, <<Grade>>},
         NEW k \in {"effect", "composition", "dropped"}, NEW S \in SUBSET DOMAIN decisions,
         Fits(g, Fact(k, S)), Grown(g, Fact(k, S)), faults' \in 0..MaxFaults,
         held' \subseteq held, k = "effect" => S \cap (owed \cup held') = {},
         lost' \subseteq DOMAIN decisions, graded' \in BOOLEAN,
         UNCHANGED <<local, decisions, journal, jtorn, epoch, opened, known, todo, owed, report>>
  PROVE  RecoveryInv'
<1>1. FileTypes /\ MemoryTypes /\ FilesInv /\ LifeInv  BY Groups DEF RecoveryInv
<1>2. epoch # 0 /\ OwnEpoch /\ known = {} /\ todo = {}
  BY <1>1 DEF LifeInv, LifeShape, AfterRead
<1>3. Recording  BY <1>1, <1>2 DEF Recording
<1> DEFINE x == Fact(k, S)
<1>4. Grown(g, x) /\ Fits(g, x) /\ x.kind = k /\ x.names = S
  BY DEF Fact, Entry
<1> HIDE DEF x
<1>5. FilesInv'  BY <1>3, <1>1, <1>4, GrownKeeps
<1>6. chain' \in Seq(EntryType) /\ torn' \in BOOLEAN  BY <1>4 DEF Grown
<1>7. FileTypes'  BY <1>1, <1>6 DEF FileTypes
<1>8. MemoryTypes'
  <2>1. known' = {} /\ opened' \in BOOLEAN  BY <1>1, <1>2 DEF MemoryTypes
  <2>2. owed' \cup held' \cup lost' \subseteq DOMAIN decisions'  BY <1>1 DEF MemoryTypes
  <2> QED  BY <1>1, <2>1, <2>2 DEF MemoryTypes
<1>9. NotRun' = NotRun /\ OpenRecords' = OpenRecords /\ Readable' = Readable
  BY DEF NotRun, OpenRecords, ClosedEpochs, Readable, Garbage, Line
<1>10. \A p : /\ Effects(p)' \subseteq Effects(p) \cup
                  (IF k = "effect" /\ p \in S THEN {Len(chain')} ELSE {})
              /\ Named(p)' = Named(p)
  <2>1. ASSUME NEW p
        PROVE  /\ Effects(p)' \subseteq Effects(p) \cup
                  (IF k = "effect" /\ p \in S THEN {Len(chain')} ELSE {})
               /\ Named(p)' = Named(p)
    <3>1. /\ Named(p) \subseteq Named(p)'
          /\ Effects(p)' \subseteq Effects(p) \cup
               (IF x.kind = "effect" /\ p \in x.names THEN {Len(chain')} ELSE {})
          /\ Named(p)' \subseteq Named(p) \cup
               (IF x.kind = "unflushed" /\ p \in x.names THEN {Len(chain')} ELSE {})
      BY <1>1, <1>4, GrownSays
    <3> QED  BY <1>4, <3>1
  <2> QED  BY <2>1
<1>11. ~ AfterRead' /\ ~ InEpoch'  BY DEF AfterRead, InEpoch
<1>12. LifeShape'  BY <1>2, <1>11 DEF LifeShape
<1>13. OwnEpoch'
  <2>1. Markers("clean", epoch) = {}  BY <1>2 DEF OwnEpoch
  <2>2. Markers("clean", epoch)' = {}
    <3>1. \A i \in DOMAIN chain' :
            (i \in DOMAIN chain /\ chain'[i] = chain[i]) \/ chain'[i].kind # "clean"
      BY <1>1, <1>4, GrownChain
    <3> QED  BY <2>1, <3>1 DEF Markers
  <2> QED  BY <1>2, <1>9, <2>2 DEF OwnEpoch
<1>14. ToReconcile'  BY <1>2, <1>11 DEF ToReconcile
<1>15. ToCome'
  <2>1. ToCome  BY <1>1 DEF LifeInv
  <2>2. ASSUME NEW p \in owed \cup held'
        PROVE  decisions[p] = epoch /\ Effects(p)' = {}
    <3>1. decisions[p] = epoch /\ Effects(p) = {}  BY <2>1, <2>2 DEF ToCome
    <3>2. ~ (k = "effect" /\ p \in S)  BY <2>2
    <3> QED  BY <1>10, <3>1, <3>2
  <2>3. owed \cap held' = {}  BY <2>1 DEF ToCome
  <2> QED  BY <2>2, <2>3 DEF ToCome
<1>16. Reported'
  <2>1. {p \in DOMAIN decisions : Named(p) # {}}' = {p \in DOMAIN decisions : Named(p) # {}}
    BY <1>10
  <2> QED  BY <1>1, <1>9, <2>1, Zenon DEF LifeInv, Reported
<1> QED  BY <1>5, <1>7, <1>8, <1>12, <1>13, <1>14, <1>15, <1>16, GroupsNext
         DEF RecoveryInv, LifeInv

(* compose_plugins.                                                        *)
LEMMA ComposesKeeps ==
  ASSUME RecoveryInv, Composes
  PROVE  RecoveryInv'
<1>1. FileTypes /\ MemoryTypes /\ LifeInv  BY Groups DEF RecoveryInv
<1>2. pc = "compose" /\ UNCHANGED <<local, decisions, journal, jtorn, epoch>>
  BY DEF Composes
<1>3. epoch # 0 /\ opened  BY <1>1, <1>2 DEF LifeInv, LifeShape
<1> DEFINE x == Fact("composition", {})
<1>4. Fits(<<>>, x)  BY <1>3, FactFits
<1>5. x \in EntryType  BY <1>4 DEF Fits
<1>6. <<x>> = <<>> \o <<x>>  BY <1>5, Alone
<1>7. CASE Writes(<<x>>) /\ pc' = "serving" /\ UNCHANGED <<memory, faults>>
  <2>1. Writes(<<>> \o <<x>>)  BY <1>6, <1>7
  <2>2. Grown(<<>>, x)
    <3> HIDE DEF x
    <3> QED  BY <1>1, <1>3, <1>5, <2>1, WritesGrow
  <2>3. UNCHANGED <<opened, graded, known, todo, owed, held, lost, report, faults>>
    BY <1>7 DEF memory
  <2>4. /\ faults' \in 0..MaxFaults /\ graded' \in BOOLEAN /\ lost' \subseteq DOMAIN decisions
    BY <1>1, <2>3 DEF FileTypes, MemoryTypes
  <2> QED  BY <1>2, <1>3, <1>4, <1>7, <2>2, <2>3, <2>4, ServingWrites
<1>8. CASE FailsToWrite(<<x>>) /\ Ends
  <2>1. FailsToWrite(<<>> \o <<x>>)  BY <1>6, <1>8
  <2> HIDE DEF x
  <2> QED  BY <1>2, <1>3, <1>4, <1>8, <2>1, EndsOverAWrite
<1> QED  BY <1>7, <1>8 DEF Composes

(* The worker writes an effect, or counts it as lost.                      *)
LEMMA RecordsKeeps ==
  ASSUME RecoveryInv, NEW p \in DOMAIN decisions, Records(p)
  PROVE  RecoveryInv'
<1>1. FileTypes /\ MemoryTypes /\ LifeInv  BY Groups DEF RecoveryInv
<1>2. /\ pc = "serving" /\ p \in held /\ held' = held \ {p}
      /\ UNCHANGED <<local, decisions, journal, jtorn, epoch, pc, opened, graded, known, todo,
                     owed, report>>
  BY DEF Records
<1>3. epoch # 0 /\ opened  BY <1>1, <1>2 DEF LifeInv, LifeShape
<1> DEFINE x == Fact("effect", {p})
<1>4. Fits(<<>>, x)  BY <1>2, <1>3, FactFits
<1>5. x \in EntryType  BY <1>4 DEF Fits
<1>6. <<x>> = <<>> \o <<x>>  BY <1>5, Alone
<1>7. /\ Grown(<<>>, x) /\ faults' \in 0..MaxFaults /\ lost' \subseteq DOMAIN decisions
  <2>1. CASE Writes(<<x>>) /\ UNCHANGED <<lost, faults>>
    <3>1. Writes(<<>> \o <<x>>)  BY <1>6, <2>1
    <3>2. Grown(<<>>, x)
      <4> HIDE DEF x
      <4> QED  BY <1>1, <1>3, <1>5, <3>1, WritesGrow
    <3> QED  BY <1>1, <2>1, <3>2 DEF FileTypes, MemoryTypes
  <2>2. CASE FailsToWrite(<<x>>) /\ lost' = lost \cup {p}
    <3>1. FailsToWrite(<<>> \o <<x>>)  BY <1>6, <2>2
    <3>2. Grown(<<>>, x) /\ faults' \in 0..MaxFaults
      <4> HIDE DEF x
      <4> QED  BY <1>1, <1>3, <1>5, <3>1, FailsGrow
    <3> QED  BY <1>1, <2>2, <3>2 DEF MemoryTypes
  <2> QED  BY <2>1, <2>2 DEF Records
<1>8. {p} \cap (owed \cup held') = {}
  <2>1. owed \cap held = {}  BY <1>1 DEF LifeInv, ToCome
  <2> QED  BY <1>2, <2>1
<1>9. graded' \in BOOLEAN  BY <1>1, <1>2 DEF MemoryTypes
<1> QED  BY <1>2, <1>3, <1>4, <1>7, <1>8, <1>9, ServingWrites

(* The process ends inside that write.                                     *)
LEMMA DiesWritingKeeps ==
  ASSUME RecoveryInv, NEW p \in DOMAIN decisions, DiesWriting(p)
  PROVE  RecoveryInv'
<1>1. FileTypes /\ MemoryTypes /\ LifeInv  BY Groups DEF RecoveryInv
<1>2. /\ pc = "serving" /\ p \in held /\ FailsToWrite(<<Fact("effect", {p})>>) /\ Ends
      /\ UNCHANGED <<local, decisions, journal, jtorn, epoch>>
  BY DEF DiesWriting
<1>3. epoch # 0 /\ opened  BY <1>1, <1>2 DEF LifeInv, LifeShape
<1> DEFINE x == Fact("effect", {p})
<1>4. Fits(<<>>, x)  BY <1>2, <1>3, FactFits
<1>5. x \in EntryType  BY <1>4 DEF Fits
<1>6. FailsToWrite(<<>> \o <<x>>)  BY <1>2, <1>5, Alone
<1> HIDE DEF x
<1> QED  BY <1>2, <1>3, <1>4, <1>6, EndsOverAWrite

(* The gap for what was lost.                                              *)
LEMMA DeclaresKeeps ==
  ASSUME RecoveryInv, Declares
  PROVE  RecoveryInv'
<1>1. FileTypes /\ MemoryTypes /\ LifeInv  BY Groups DEF RecoveryInv
<1>2. /\ pc = "serving" /\ lost # {} /\ Writes(Graded(Fact("dropped", {})))
      /\ lost' = {} /\ graded' = TRUE
      /\ UNCHANGED <<local, decisions, journal, jtorn, epoch, pc, opened, known, todo, owed,
                     held, report, faults>>
  BY DEF Declares
<1>3. epoch # 0 /\ opened  BY <1>1, <1>2 DEF LifeInv, LifeShape
<1> DEFINE x == Fact("dropped", {})
<1>4. Due \in {<<>>, <<Grade>>} /\ Graded(x) = Due \o <<x>>
  BY Zenon DEF Due, Graded, Grade
<1>5. Fits(Due, x)  BY <1>3, FactFits
<1>6. x \in EntryType  BY <1>5 DEF Fits
<1>7. Grown(Due, x)
  <2>1. Writes(Due \o <<x>>)  BY <1>2, <1>4
  <2> HIDE DEF x, Due
  <2> QED  BY <1>1, <1>3, <1>4, <1>6, <2>1, WritesGrow
<1>8. faults' \in 0..MaxFaults  BY <1>1, <1>2 DEF FileTypes
<1> QED  BY <1>2, <1>3, <1>4, <1>5, <1>7, <1>8, ServingWrites

-----------------------------------------------------------------------------
(* Requests.                                                               *)

(* A new decision is of this life, and nothing is said of it yet.          *)
LEMMA DecidesKeeps ==
  ASSUME RecoveryInv, Decides
  PROVE  RecoveryInv'
<1>1. FileTypes /\ MemoryTypes /\ FilesInv /\ LifeInv  BY Groups DEF RecoveryInv
<1>2. /\ pc \in {"serving", "closing"} /\ Len(decisions) < MaxDecisions
      /\ decisions' = Append(decisions, epoch)
      /\ owed' \in {owed, owed \cup {Len(decisions) + 1}}
      /\ UNCHANGED <<local, chain, torn, journal, jtorn, epoch, pc, opened, graded, known, todo,
                     held, lost, report, faults>>
  BY DEF Decides
<1>3. epoch # 0 /\ epoch \in 1..MaxLives /\ epoch \in Nat
  <2>1. epoch # 0  BY <1>1, <1>2 DEF LifeInv, LifeShape
  <2>2. epoch \in 0..MaxLives  BY <1>1 DEF FileTypes
  <2> QED  BY <2>1, <2>2, RecoveryAssumption
<1> DEFINE n == Len(decisions) + 1
<1>4. decisions \in Seq(1..MaxLives) /\ Len(decisions) \in Nat  BY <1>1 DEF FileTypes
<1>5. /\ decisions' \in Seq(1..MaxLives) /\ Len(decisions') = n
      /\ \A p \in 1..Len(decisions) : decisions'[p] = decisions[p]
      /\ decisions'[n] = epoch
  BY <1>2, <1>3, <1>4, AppendProperties
<1>6. /\ DOMAIN decisions = 1..Len(decisions) /\ DOMAIN decisions' = 1..n
      /\ n \in Nat
  BY <1>4, <1>5
<1>7. /\ DOMAIN decisions' = DOMAIN decisions \cup {n} /\ n \notin DOMAIN decisions
      /\ n <= MaxDecisions
  BY <1>2, <1>4, <1>6, RecoveryAssumption
<1> HIDE DEF n
<1>8. \A p \in DOMAIN decisions : decisions'[p] = decisions[p]  BY <1>5, <1>6
<1>9. FileTypes'  BY <1>1, <1>2, <1>5, <1>7 DEF FileTypes
<1>10. MemoryTypes'
  <2>1. owed' \cup held' \cup lost' \subseteq DOMAIN decisions'
    BY <1>1, <1>2, <1>7 DEF MemoryTypes, n
  <2> QED  BY <1>1, <1>2, <2>1 DEF MemoryTypes
<1>11. /\ \A p : Effects(p)' = Effects(p) /\ Named(p)' = Named(p)
       /\ \A k, e : Markers(k, e)' = Markers(k, e) /\ Said(k, e)' = Said(k, e)
       /\ \A i : WrittenByRecovery(i)' = WrittenByRecovery(i)
       /\ Readable' = Readable /\ OpenRecords' = OpenRecords
       /\ Garbage' = Garbage /\ NotRun' = NotRun
  BY <1>2 DEF Effects, Named, Markers, Said, WrittenByRecovery, Readable, OpenRecords,
              ClosedEpochs, Garbage, Line, NotRun
<1>12. Effects(n) = {} /\ Named(n) = {}
  BY <1>1, <1>7 DEF FilesInv, FilesAreOfTheseLives, Effects, Named
<1>13. FilesInv'
  <2>1. FilesAreOfTheseLives'
    <3>1. \A p \in DOMAIN decisions' : decisions'[p] <= epoch
      BY <1>1, <1>3, <1>5, <1>7, <1>8 DEF FilesInv, FilesAreOfTheseLives
    <3>2. \A i \in DOMAIN chain :
            /\ chain[i].epoch <= epoch /\ chain[i].names \subseteq DOMAIN decisions'
            /\ chain[i].kind # "torn" => chain[i].epoch # 0
            /\ chain[i].kind \in {"unclean", "unflushed"} => chain[i].epoch # epoch
      BY <1>1, <1>7 DEF FilesInv, FilesAreOfTheseLives
    <3> QED  BY <1>1, <1>2, <1>11, <3>1, <3>2, Zenon DEF FilesInv, FilesAreOfTheseLives
  <2>2. OpenedBefore'  BY <1>1, <1>2, <1>11, Zenon DEF FilesInv, OpenedBefore
  <2>3. SaidOnce'
    <3>1. \A p \in DOMAIN decisions' :
            /\ \A i, j \in Effects(p) \cup Named(p) : i = j
            /\ Named(p) # {} => decisions'[p] # epoch
      BY <1>1, <1>7, <1>8, <1>12 DEF FilesInv, SaidOnce
    <3> QED  BY <1>1, <1>2, <1>11, <3>1, Zenon DEF FilesInv, SaidOnce
  <2>4. SpansAreTheirEpochs'  BY <1>1, <1>2, <1>11, Zenon DEF FilesInv, SpansAreTheirEpochs
  <2>5. NoEvidenceOutsideAnEpoch'
    BY <1>1, <1>2, <1>11, Zenon DEF FilesInv, NoEvidenceOutsideAnEpoch
  <2>6. ReconciledIsNamed'
    <3>1. SUFFICES ASSUME NEW e \in 1..MaxLives, Said("reconciled", e),
                          NEW p \in DOMAIN decisions', decisions'[p] = e
                   PROVE  Effects(p) \cup Named(p) # {}
      BY <1>11 DEF ReconciledIsNamed
    <3>2. e # epoch  BY <1>1, <3>1 DEF FilesInv, FilesAreOfTheseLives, Said
    <3>3. p \in DOMAIN decisions /\ decisions[p] = e  BY <1>5, <1>7, <1>8, <3>1, <3>2
    <3> QED  BY <1>1, <3>1, <3>3 DEF FilesInv, ReconciledIsNamed
  <2>7. CleanIsNotMarked'  BY <1>1, <1>2, <1>11, Zenon DEF FilesInv, CleanIsNotMarked
  <2> QED  BY <2>1, <2>2, <2>3, <2>4, <2>5, <2>6, <2>7 DEF FilesInv
<1>14. LifeInv'
  <2>1. ~ AfterRead' /\ ~ InEpoch' /\ ~ AfterRead /\ ~ InEpoch  BY <1>2 DEF AfterRead, InEpoch
  <2>2. LifeShape'
    <3>1. pc \notin {"down", "open", "read", "compare", "compose", "closed"}  BY <1>2
    <3> QED  BY <1>1, <1>2, <2>1, <3>1 DEF LifeInv, LifeShape
  <2>3. OwnEpoch'  BY <1>1, <1>2, <1>11 DEF LifeInv, OwnEpoch
  <2>4. ToReconcile'
    BY <1>1, <1>2, <2>1 DEF LifeInv, LifeShape, ToReconcile
  <2>5. ToCome'
    <3>1. ToCome /\ held \subseteq DOMAIN decisions /\ owed \subseteq DOMAIN decisions
      BY <1>1 DEF LifeInv, MemoryTypes
    <3>2. owed' \subseteq owed \cup {n}  BY <1>2 DEF n
    <3>3. ASSUME NEW p \in owed' \cup held
          PROVE  decisions'[p] = epoch /\ Effects(p) = {}
      <4>1. CASE p = n  BY <1>5, <1>12, <4>1
      <4>2. CASE p # n
        <5>1. p \in owed \cup held  BY <3>2, <3>3, <4>2
        <5>2. p \in DOMAIN decisions  BY <3>1, <5>1
        <5> QED  BY <1>8, <3>1, <5>1, <5>2 DEF ToCome
      <4> QED  BY <4>1, <4>2
    <3>4. owed' \cap held = {}  BY <1>7, <3>1, <3>2 DEF ToCome
    <3> QED  BY <1>2, <1>11, <3>3, <3>4, Zenon DEF ToCome
  <2>6. Reported'
    <3>1. {p \in DOMAIN decisions' : Named(p)' # {}} = {p \in DOMAIN decisions : Named(p) # {}}
      BY <1>7, <1>11, <1>12
    <3>2. {p \in DOMAIN decisions : Named(p) # {}}' = {p \in DOMAIN decisions : Named(p) # {}}
      BY <3>1
    <3> QED  BY <1>1, <1>2, <1>11, <3>2, Zenon DEF LifeInv, Reported
  <2> QED  BY <2>2, <2>3, <2>4, <2>5, <2>6 DEF LifeInv
<1> QED  BY <1>9, <1>10, <1>13, <1>14, GroupsNext DEF RecoveryInv

(* The scope's first event opens its epoch, or its request fails.          *)
LEMMA OpensScopeKeeps ==
  ASSUME RecoveryInv, NEW p \in DOMAIN decisions, OpensScope(p)
  PROVE  RecoveryInv'
<1>1. FileTypes /\ MemoryTypes /\ FilesInv /\ LifeInv  BY Groups DEF RecoveryInv
<1>2. /\ pc \in {"serving", "closing"} /\ ~ opened
      /\ \/ Journals(OpenLine) /\ opened' = TRUE /\ owed' = owed /\ faults' = faults
         \/ FailsToJournal(OpenLine) /\ owed' = owed \ {p} /\ opened' = opened
      /\ UNCHANGED <<local, decisions, chain, torn, epoch, pc, graded, known, todo, held, lost,
                     report>>
  BY DEF OpensScope
<1>3. epoch # 0 /\ OwnEpoch /\ known = {} /\ todo = {} /\ held = {} /\ lost = {} /\ ~ local
  BY <1>1, <1>2 DEF LifeInv, LifeShape, AfterRead
<1>4. OpenLine \in LineType /\ LineFits(OpenLine)
  BY <1>1, <1>2, <1>3, OpenLineFits
<1>5. OpenLine.record = "open" /\ OpenLine.epoch = epoch  BY DEF OpenLine, Line
<1>6. Lined(OpenLine) /\ faults' \in 0..MaxFaults
  <2>1. CASE Journals(OpenLine) /\ faults' = faults
    BY <1>1, <1>4, <2>1, JournalsLine DEF FileTypes
  <2>2. CASE FailsToJournal(OpenLine)  BY <1>1, <1>4, <2>2, FailsLine
  <2> QED  BY <1>2, <2>1, <2>2
<1>7. FilesInv'  BY <1>1, <1>2, <1>4, <1>6, LinedKeeps
<1>8. FileTypes'
  <2>1. journal' \in Seq(LineType) /\ jtorn' \in BOOLEAN  BY <1>6 DEF Lined
  <2> QED  BY <1>1, <1>2, <1>6, <2>1 DEF FileTypes
<1>9. MemoryTypes'
  <2>1. owed' \cup held' \cup lost' \subseteq DOMAIN decisions'  BY <1>1, <1>2 DEF MemoryTypes
  <2>2. opened' \in BOOLEAN  BY <1>1, <1>2 DEF MemoryTypes
  <2> QED  BY <1>1, <1>2, <2>1, <2>2 DEF MemoryTypes
<1>10. /\ DOMAIN journal \subseteq DOMAIN journal'
       /\ \A j \in DOMAIN journal : journal'[j] = journal[j]
       /\ \A j \in DOMAIN journal' :
            \/ j \in DOMAIN journal
            \/ journal'[j].record = "open" /\ journal'[j].epoch = epoch
            \/ /\ journal'[j] = Garbage
               /\ journal'[j].record = "garbage" /\ journal'[j].epoch = 0
  <2>1. Garbage.record = "garbage" /\ Garbage.epoch = 0  BY DEF Garbage, Line
  <2> HIDE DEF Garbage, OpenLine
  <2> QED  BY <1>5, <1>6, <2>1 DEF Lined
<1>11. NotRun' = NotRun /\ Garbage' = Garbage
       /\ \A r, e : Markers(r, e)' = Markers(r, e)
       /\ {q \in DOMAIN decisions : Named(q) # {}}' = {q \in DOMAIN decisions : Named(q) # {}}
       /\ \A q : Effects(q)' = Effects(q)
  BY <1>2 DEF NotRun, Garbage, Line, Markers, Named, Effects
<1>12. ~ AfterRead' /\ ~ InEpoch'  BY <1>2 DEF AfterRead, InEpoch
<1>13. LifeInv'
  <2>1. LifeShape'  BY <1>2, <1>3, <1>12 DEF LifeShape
  <2>2. OwnEpoch'
    <3>1. opened' /\ Readable' =>
            \E j \in DOMAIN journal' : journal'[j].record = "open" /\ journal'[j].epoch = epoch
      <4>1. SUFFICES ASSUME opened', Readable'
                     PROVE \E j \in DOMAIN journal' :
                              journal'[j].record = "open" /\ journal'[j].epoch = epoch
        OBVIOUS
      <4>2. Journals(OpenLine)  BY <1>2, <4>1
      <4>3. /\ DOMAIN journal' \ DOMAIN journal = {Len(journal) + 1}
            /\ journal'[Len(journal) + 1] = IF jtorn THEN Garbage ELSE OpenLine
        BY <1>1, <1>4, <4>2, JournalsLine
      <4>4. Len(journal) + 1 \in DOMAIN journal'  BY <4>3
      <4>5. journal'[Len(journal) + 1] # Garbage  BY <1>11, <4>1, <4>4, Zenon DEF Readable
      <4>6. journal'[Len(journal) + 1] = OpenLine  BY <4>3, <4>5
      <4> QED  BY <1>5, <4>4, <4>6
    <3>2. \A j \in DOMAIN journal' : journal'[j].epoch = epoch => journal'[j].record = "open"
      BY <1>2, <1>3, <1>10 DEF OwnEpoch
    <3>3. Markers("clean", epoch) = {} /\ \A i \in DOMAIN chain : chain[i].epoch # epoch
      BY <1>2, <1>3 DEF OwnEpoch
    <3> QED  BY <1>2, <1>11, <3>1, <3>2, <3>3 DEF OwnEpoch
  <2>3. ToReconcile'  BY <1>2, <1>3, <1>12 DEF ToReconcile
  <2>4. ToCome'
    <3>1. ToCome /\ owed' \subseteq owed  BY <1>1, <1>2 DEF LifeInv
    <3> QED  BY <1>2, <1>3, <1>11, <3>1 DEF ToCome
  <2>5. Reported'
    <3>1. ASSUME NEW i \in OpenRecords', \A j \in OpenRecords : journal[j].epoch = epoch
          PROVE  journal'[i].epoch = epoch
      <4>1. /\ i \in DOMAIN journal'
            /\ journal'[i].record = "open"
            /\ journal'[i].epoch \notin ClosedEpochs'
        BY DEF OpenRecords
      <4>2. CASE i \in DOMAIN journal
        <5>1. ClosedEpochs \subseteq ClosedEpochs'  BY <1>10 DEF ClosedEpochs
        <5>2. i \in OpenRecords  BY <1>10, <4>1, <4>2, <5>1 DEF OpenRecords
        <5> QED  BY <1>10, <3>1, <4>2, <5>2
      <4>3. CASE i \notin DOMAIN journal  BY <1>10, <4>1, <4>3
      <4> QED  BY <4>2, <4>3
    <3>2. Reported  BY <1>1 DEF LifeInv
    <3> QED  BY <1>2, <1>11, <3>1, <3>2, Zenon DEF Reported
  <2> QED  BY <2>1, <2>2, <2>3, <2>4, <2>5 DEF LifeInv
<1> QED  BY <1>7, <1>8, <1>9, <1>13, GroupsNext DEF RecoveryInv

(* What writes no file, and only shrinks or keeps what is to come.         *)
LEMMA ServingMoves ==
  ASSUME RecoveryInv, pc \in {"serving", "closing"}, pc' \in {"serving", "closing"},
         owed' \subseteq owed, held' \subseteq owed \cup held, owed' \cap held' = {},
         lost' \subseteq DOMAIN decisions, held' \cup lost' # {} => opened,
         UNCHANGED <<files, epoch, opened, graded, known, todo, report, faults>>
  PROVE  RecoveryInv'
<1>1. FileTypes /\ MemoryTypes /\ FilesInv /\ LifeInv  BY Groups DEF RecoveryInv
<1>2. UNCHANGED <<local, decisions, chain, torn, journal, jtorn>>  BY DEF files
<1>3. FileTypes'  BY <1>1, <1>2 DEF FileTypes
<1>4. MemoryTypes'
  <2>1. owed' \cup held' \cup lost' \subseteq DOMAIN decisions'  BY <1>1, <1>2 DEF MemoryTypes
  <2>2. pc' \in {"down", "open", "read", "epoch", "scan", "gaps", "journal", "compare",
                 "compose", "serving", "closing", "closed"}
    OBVIOUS
  <2> QED  BY <1>1, <1>2, <2>1, <2>2 DEF MemoryTypes
<1>5. FilesInv'  BY <1>1, <1>2, FilesSame
<1>6. /\ NotRun' = NotRun /\ OpenRecords' = OpenRecords /\ Readable' = Readable
      /\ \A r, e : Markers(r, e)' = Markers(r, e)
      /\ {p \in DOMAIN decisions : Named(p) # {}}' = {p \in DOMAIN decisions : Named(p) # {}}
      /\ \A p : Effects(p)' = Effects(p)
  BY <1>2 DEF NotRun, OpenRecords, ClosedEpochs, Readable, Garbage, Line, Markers, Named, Effects
<1>7. ~ AfterRead /\ ~ InEpoch /\ ~ AfterRead' /\ ~ InEpoch'  BY DEF AfterRead, InEpoch
<1>8. LifeShape'  BY <1>1, <1>2, <1>7 DEF LifeInv, LifeShape
<1>9. OwnEpoch'  BY <1>1, <1>2, <1>6 DEF LifeInv, OwnEpoch
<1>10. ToReconcile'  BY <1>1, <1>7 DEF LifeInv, LifeShape, ToReconcile
<1>11. ToCome'  BY <1>1, <1>2, <1>6 DEF LifeInv, ToCome
<1>12. Reported'  BY <1>1, <1>2, <1>6, Zenon DEF LifeInv, Reported
<1> QED  BY <1>3, <1>4, <1>5, <1>8, <1>9, <1>10, <1>11, <1>12, GroupsNext
         DEF RecoveryInv, LifeInv

(* _submit.                                                                *)
LEMMA EmitsKeeps ==
  ASSUME RecoveryInv, NEW p \in DOMAIN decisions, Emits(p)
  PROVE  RecoveryInv'
<1>1. /\ pc \in {"serving", "closing"} /\ p \in owed /\ opened /\ owed' = owed \ {p}
      /\ \/ held' = held \cup {p} /\ lost' = lost
         \/ lost' = lost \cup {p} /\ held' = held
      /\ UNCHANGED <<files, epoch, pc, opened, graded, known, todo, report, faults>>
  BY DEF Emits
<1>2. owed \cap held = {} /\ lost \subseteq DOMAIN decisions
  BY Groups DEF RecoveryInv, LifeInv, ToCome, MemoryTypes
<1>3. owed' \subseteq owed /\ held' \subseteq owed \cup held /\ owed' \cap held' = {}
      /\ lost' \subseteq DOMAIN decisions
  BY <1>1, <1>2
<1> QED  BY <1>1, <1>3, ServingMoves

-----------------------------------------------------------------------------
(* Stopping.                                                               *)

(* ComposedServices.close: a drained emitter lets the epoch close.         *)
LEMMA StopsKeeps ==
  ASSUME RecoveryInv, Stops
  PROVE  RecoveryInv'
<1>1. pc = "serving" /\ UNCHANGED <<files, epoch, faults>>  BY DEF Stops
<1>2. CASE Drained
  <2>1. pc' = "closing" /\ UNCHANGED <<opened, graded, known, todo, owed, held, lost, report>>
    BY <1>2 DEF Stops, memory
  <2>2. owed \cap held = {} /\ lost \subseteq DOMAIN decisions /\ held \cup lost = {}
    BY <1>2, Groups DEF RecoveryInv, LifeInv, ToCome, MemoryTypes, Drained
  <2>3. owed' \subseteq owed /\ held' \subseteq owed \cup held /\ owed' \cap held' = {}
        /\ lost' \subseteq DOMAIN decisions /\ held' \cup lost' = {}
    BY <2>1, <2>2
  <2> QED  BY <1>1, <2>1, <2>3, ServingMoves
<1>3. CASE ~ Drained
  <2>1. Ends  BY <1>3 DEF Stops
  <2> QED  BY <1>1, <2>1, DiesKeeps
<1> QED  BY <1>2, <1>3

(* The record this life opened is the last of its own.                     *)
LEMMA OwnRecordIs ==
  ASSUME RecoveryInv, pc = "closing", opened, Readable
  PROVE  /\ OwnRecord \in LineType /\ OwnRecord.record = "open" /\ OwnRecord.epoch = epoch
         /\ OwnRecord.from <= Len(chain) + 1
         /\ \A i \in DOMAIN chain :
              ~ WrittenByRecovery(i) /\ chain[i].epoch = epoch => OwnRecord.from <= i
<1>1. FileTypes /\ FilesInv /\ LifeInv  BY Groups DEF RecoveryInv
<1> DEFINE Own == {i \in OpenRecords : journal[i].epoch = epoch}
<1>2. OwnEpoch  BY <1>1 DEF LifeInv
<1>3. Own # {}
  <2>1. PICK j \in DOMAIN journal : journal[j].record = "open" /\ journal[j].epoch = epoch
    BY <1>2 DEF OwnEpoch
  <2>2. epoch \notin ClosedEpochs
    <3>1. \A k \in DOMAIN journal : journal[k].epoch = epoch => journal[k].record = "open"
      BY <1>2 DEF OwnEpoch
    <3> QED  BY <3>1 DEF ClosedEpochs
  <2>3. j \in OpenRecords  BY <2>1, <2>2 DEF OpenRecords
  <2> QED  BY <2>1, <2>3
<1>4. Own \subseteq DOMAIN journal /\ \A i \in Own :
        journal[i].record = "open" /\ journal[i].epoch = epoch
  BY DEF OpenRecords
<1>5. Max(Own) \in Own
  <2>1. journal \in Seq(LineType)  BY <1>1 DEF FileTypes
  <2>2. DOMAIN journal = 1..Len(journal) /\ Len(journal) \in Nat  BY <2>1
  <2> DEFINE b == Len(journal)
  <2>3. b \in Nat /\ Own \in SUBSET (0..b)  BY <1>4, <2>2
  <2> HIDE DEF b, Own
  <2> QED  BY <1>3, <2>3, GreatestOf
<1>6. OwnRecord = journal[Max(Own)]  BY DEF OwnRecord
<1>7. PICK m \in Own : OwnRecord = journal[m]  BY <1>5, <1>6
<1>8. m \in DOMAIN journal /\ journal[m].record = "open" /\ journal[m].epoch = epoch
  BY <1>4, <1>7
<1>9. journal[m] \in LineType  BY <1>1, <1>8 DEF FileTypes
<1>10. journal[m].from <= Len(chain) + 1  BY <1>1, <1>8 DEF FilesInv, FilesAreOfTheseLives
<1>11. \A i \in DOMAIN chain :
              ~ WrittenByRecovery(i) /\ chain[i].epoch = epoch => journal[m].from <= i
  BY <1>1, <1>8 DEF FilesInv, OpenedBefore
<1> QED  BY <1>7, <1>8, <1>9, <1>10, <1>11, Zenon

(* The marker of a clean stop covers all that this life wrote.             *)
LEMMA CleanMarkingFits ==
  ASSUME RecoveryInv, pc = "closing", opened, Readable, CleanMarking # <<>>
  PROVE  \E x : /\ CleanMarking = Due \o <<x>> /\ Fits(Due, x) /\ x.kind = "clean"
                /\ Due \in {<<>>, <<Grade>>}
<1>1. FileTypes /\ FilesInv /\ LifeInv  BY Groups DEF RecoveryInv
<1>2. epoch # 0  BY <1>1 DEF LifeInv, LifeShape
<1>3. PICK r \in LineType : r = OwnRecord  BY OwnRecordIs
<1>4. /\ r.from <= Len(chain) + 1
      /\ \A i \in DOMAIN chain :
              ~ WrittenByRecovery(i) /\ chain[i].epoch = epoch => r.from <= i
  BY <1>3, OwnRecordIs
<1> DEFINE g == Due
           through == IF g = <<>> THEN Len(chain) ELSE Len(Placed(g))
           x == Entry("clean", epoch, {}, r.from, through)
<1>5. CleanMarking = IF through < r.from THEN <<>> ELSE g \o <<x>>
  BY <1>3, Zenon DEF CleanMarking, Due, Grade
<1>6. g \in {<<>>, <<Grade>>}  BY DEF Due
<1> HIDE DEF g
<1>7. chain \in Seq(EntryType) /\ Len(chain) \in Nat /\ DOMAIN chain = 1..Len(chain)
  <2>1. chain \in Seq(EntryType)  BY <1>1 DEF FileTypes
  <2> QED  BY <2>1
<1>8. Len(Placed(g)) \in Nat /\ Len(chain) <= Len(Placed(g))
  <2>1. PICK y \in EntryType : TRUE
    <3>1. Entry("torn", 0, {}, 0, 0) \in EntryType  BY RecoveryAssumption DEF Entry, EntryType
    <3> QED  BY <3>1
  <2>2. PICK f \in Seq(EntryType) : Len(f) > 0 /\ Len(Placed(g)) = Len(chain) + Len(f) - 1
    BY <1>1, <1>2, <1>6, <2>1, BehindShape
  <2>3. Len(f) \in Nat  BY <2>2
  <2> QED  BY <1>7, <2>2, <2>3
<1>9. through \in Nat /\ Len(chain) <= through  BY <1>7, <1>8
<1>10. g = <<Grade>> => through = Len(Placed(g))
  <2>1. <<Grade>> # <<>>  OBVIOUS
  <2> QED  BY <2>1
<1> HIDE DEF through
<1>11. ~ (through < r.from) /\ CleanMarking = g \o <<x>>  BY <1>5
<1>12. r.from \in Nat  BY DEF LineType
<1>13. x.kind = "clean" /\ x.epoch = epoch /\ x.names = {} /\ x.from = r.from
       /\ x.through = through
  BY DEF Entry
<1>14. epoch \in 0..MaxLives /\ epoch \in Nat  BY <1>1, RecoveryAssumption DEF FileTypes
<1>15. x \in EntryType  BY <1>9, <1>12, <1>14 DEF Entry, EntryType
<1>16. ASSUME NEW i \in DOMAIN chain, ~ WrittenByRecovery(i), chain[i].epoch = epoch
       PROVE  i \in r.from..through
  <2>1. r.from <= i  BY <1>4, <1>16
  <2> QED  BY <1>7, <1>9, <1>12, <2>1
<1>17. g = <<Grade>> => Len(Placed(g)) \in r.from..through
  BY <1>8, <1>9, <1>10, <1>11, <1>12
<1> HIDE DEF x
<1>18. Fits(g, x)
  BY <1>2, <1>13, <1>14, <1>15, <1>16, <1>17 DEF Fits
<1> QED  BY <1>6, <1>11, <1>13, <1>18 DEF g

(* close_clean writes it.                                                  *)
LEMMA ClosesCleanKeeps ==
  ASSUME RecoveryInv, ClosesClean
  PROVE  RecoveryInv'
<1>1. FileTypes /\ MemoryTypes /\ FilesInv /\ LifeInv  BY Groups DEF RecoveryInv
<1>2. /\ pc = "closing" /\ opened /\ Readable /\ pc' = "closed" /\ graded' = TRUE
      /\ UNCHANGED <<local, decisions, journal, jtorn, epoch, opened, known, todo, owed, held,
                     lost, report, faults>>
  BY DEF ClosesClean
<1>3. epoch # 0 /\ OwnEpoch /\ known = {} /\ todo = {}
  BY <1>1, <1>2 DEF LifeInv, LifeShape, AfterRead
<1>4. Recording  BY <1>1, <1>2, <1>3 DEF Recording
<1>5. /\ FilesInv' /\ FileTypes'
      /\ \A p : Effects(p)' = Effects(p) /\ Named(p)' = Named(p)
  <2>1. CASE CleanMarking = <<>>
    <3>1. UNCHANGED <<chain, torn>>  BY <2>1 DEF ClosesClean
    <3>2. FilesInv'  BY <1>1, <1>2, <3>1, FilesSame
    <3>3. FileTypes'  BY <1>1, <1>2, <3>1 DEF FileTypes
    <3>4. \A p : Effects(p)' = Effects(p) /\ Named(p)' = Named(p)  BY <3>1 DEF Effects, Named
    <3> QED  BY <3>2, <3>3, <3>4
  <2>2. CASE CleanMarking # <<>>
    <3>1. PICK x : /\ CleanMarking = Due \o <<x>> /\ Fits(Due, x) /\ x.kind = "clean"
                   /\ Due \in {<<>>, <<Grade>>}
      BY <1>2, <2>2, CleanMarkingFits
    <3>2. Writes(Due \o <<x>>)  BY <2>2, <3>1 DEF ClosesClean
    <3>3. x \in EntryType  BY <3>1 DEF Fits
    <3>4. Grown(Due, x)  BY <1>1, <1>3, <3>1, <3>2, <3>3, WritesGrow
    <3>5. FilesInv'  BY <1>1, <1>2, <1>4, <3>1, <3>4, GrownKeeps
    <3>6. FileTypes'
      <4>1. chain' \in Seq(EntryType) /\ torn' \in BOOLEAN  BY <3>4 DEF Grown
      <4> QED  BY <1>1, <1>2, <4>1 DEF FileTypes
    <3>7. ASSUME NEW p PROVE Effects(p)' = Effects(p) /\ Named(p)' = Named(p)
      <4>1. /\ Effects(p) \subseteq Effects(p)' /\ Named(p) \subseteq Named(p)'
            /\ Effects(p)' \subseteq Effects(p) \cup
                 (IF x.kind = "effect" /\ p \in x.names THEN {Len(chain')} ELSE {})
            /\ Named(p)' \subseteq Named(p) \cup
                 (IF x.kind = "unflushed" /\ p \in x.names THEN {Len(chain')} ELSE {})
        BY <1>1, <3>4, GrownSays
      <4> QED  BY <3>1, <4>1
    <3> QED  BY <3>5, <3>6, <3>7
  <2> QED  BY <2>1, <2>2
<1>6. MemoryTypes'
  <2>1. known' = {} /\ opened' \in BOOLEAN /\ graded' \in BOOLEAN
    BY <1>1, <1>2, <1>3 DEF MemoryTypes
  <2> QED  BY <1>1, <1>2, <2>1 DEF MemoryTypes
<1>7. /\ NotRun' = NotRun /\ OpenRecords' = OpenRecords /\ Readable' = Readable
      /\ {p \in DOMAIN decisions : Named(p) # {}}' = {p \in DOMAIN decisions : Named(p) # {}}
  BY <1>2, <1>5 DEF NotRun, OpenRecords, ClosedEpochs, Readable, Garbage, Line
<1>8. ~ AfterRead' /\ ~ InEpoch'  BY <1>2 DEF AfterRead, InEpoch
<1>9. LifeShape'  BY <1>2, <1>3, <1>8 DEF LifeShape
<1>10. OwnEpoch'  BY <1>2, <1>3, <1>7 DEF OwnEpoch
<1>11. ToReconcile'  BY <1>2, <1>3, <1>8 DEF ToReconcile
<1>12. ToCome'  BY <1>1, <1>2, <1>5 DEF LifeInv, ToCome
<1>13. Reported'  BY <1>1, <1>2, <1>7, Zenon DEF LifeInv, Reported
<1> QED  BY <1>5, <1>6, <1>9, <1>10, <1>11, <1>12, <1>13, GroupsNext DEF RecoveryInv, LifeInv

(* Or fails to.                                                            *)
LEMMA FailsToCloseKeeps ==
  ASSUME RecoveryInv, FailsToClose
  PROVE  RecoveryInv'
<1>1. pc = "closing" /\ Ends /\ UNCHANGED <<local, decisions, journal, jtorn, epoch>>
  BY DEF FailsToClose
<1>2. CASE UNCHANGED <<chain, torn, faults>>
  BY <1>1, <1>2, DiesKeeps DEF files
<1>3. CASE opened /\ Readable /\ CleanMarking # <<>> /\ FailsToWrite(CleanMarking)
  <2>1. PICK x : /\ CleanMarking = Due \o <<x>> /\ Fits(Due, x) /\ x.kind = "clean"
                 /\ Due \in {<<>>, <<Grade>>}
    BY <1>1, <1>3, CleanMarkingFits
  <2> QED  BY <1>1, <1>3, <2>1, EndsOverAWrite
<1> QED  BY <1>2, <1>3 DEF FailsToClose

(* The journal is told of a clean stop, or not.                            *)
LEMMA JournalsCleanKeeps ==
  ASSUME RecoveryInv, JournalsClean
  PROVE  RecoveryInv'
<1>1. FileTypes /\ FilesInv /\ LifeInv  BY Groups DEF RecoveryInv
<1> DEFINE l == Line("clean", epoch, 0)
<1>2. /\ pc = "closed" /\ Ends /\ UNCHANGED <<local, decisions, chain, torn, epoch>>
      /\ FailsToJournal(l) \/ (Journals(l) /\ UNCHANGED faults)
  BY DEF JournalsClean
<1>3. epoch # 0 /\ epoch \in 0..MaxLives /\ Len(chain) \in Nat
  BY <1>1, <1>2 DEF LifeInv, LifeShape, FileTypes
<1>4. l.record = "clean" /\ l.epoch = epoch /\ l.from = 0 /\ l \in LineType
  BY <1>3 DEF Line, LineType
<1> HIDE DEF l
<1>5. Markers("unclean", epoch) = {}
  BY <1>1 DEF FilesInv, FilesAreOfTheseLives, Markers
<1>6. epoch \in Nat  BY <1>3, RecoveryAssumption
<1>7. LineFits(l)  BY <1>3, <1>4, <1>5, <1>6 DEF LineFits
<1> QED  BY <1>2, <1>4, <1>7, EndsOverALine

-----------------------------------------------------------------------------
(* Every state.                                                            *)

(* Before the first start there is nothing.                                *)
LEMMA InitHas == Init => RecoveryInv
<1> SUFFICES ASSUME Init PROVE RecoveryInv  OBVIOUS
<1>1. decisions = <<>> /\ chain = <<>> /\ journal = <<>>  BY DEF Init
<1>2. /\ decisions \in Seq(1..MaxLives) /\ chain \in Seq(EntryType) /\ journal \in Seq(LineType)
      /\ Len(decisions) = 0 /\ DOMAIN decisions = {} /\ DOMAIN chain = {} /\ DOMAIN journal = {}
  BY <1>1
<1>3. 0 \in 0..MaxLives /\ 0 \in 0..MaxFaults /\ 0 <= MaxDecisions  BY RecoveryAssumption
<1>4. FileTypes  BY <1>2, <1>3 DEF Init, FileTypes
<1>5. MemoryTypes  BY <1>2 DEF Init, MemoryTypes, NotRun
<1>6. FilesInv
  <2>1. \A p : Effects(p) = {} /\ Named(p) = {}  BY <1>2 DEF Effects, Named
  <2>2. \A r, e : ~ Said(r, e) /\ Markers(r, e) = {}  BY <1>2 DEF Said, Markers
  <2> QED  BY <1>2, <2>1, <2>2
           DEF FilesInv, FilesAreOfTheseLives, OpenedBefore, SaidOnce, SpansAreTheirEpochs,
               NoEvidenceOutsideAnEpoch, ReconciledIsNamed, CleanIsNotMarked
<1>7. LifeInv
  <2>1. ~ AfterRead /\ ~ InEpoch  BY DEF Init, AfterRead, InEpoch
  <2> QED  BY <2>1
           DEF Init, LifeInv, LifeShape, OwnEpoch, ToReconcile, ToCome, Reported
<1> QED  BY <1>4, <1>5, <1>6, <1>7, Groups DEF RecoveryInv

(* Every step keeps the invariant.                                         *)
LEMMA NextKeeps == RecoveryInv /\ [Next]_vars => RecoveryInv'
<1> SUFFICES ASSUME RecoveryInv, [Next]_vars PROVE RecoveryInv'  OBVIOUS
<1>1. CASE Recovers
  <2>1. CASE Start  BY <2>1, StartKeeps
  <2>2. CASE OpensEpoch  BY <2>2, OpensEpochKeeps
  <2>3. CASE FailsToOpen  BY <2>3, FailsToOpenKeeps
  <2>4. CASE Reads  BY <2>4, ReadsKeeps
  <2>5. CASE Marks  BY <2>5, MarksKeeps
  <2>6. CASE FailsToMark  BY <2>6, FailsToMarkKeeps
  <2>7. CASE DeclaresUnflushed  BY <2>7, DeclaresUnflushedKeeps
  <2>8. CASE FailsToDeclare  BY <2>8, FailsToDeclareKeeps
  <2>9. CASE Scans
    <3>1. InEpoch /\ pc' = "gaps" /\ UNCHANGED <<files, epoch, memory, faults>>
      BY <2>9 DEF Scans, InEpoch
    <3> QED  BY <3>1, ScansKeeps
  <2>10. CASE CannotScan  BY <2>10, CannotScanKeeps
  <2>11. CASE Reconciles  BY <2>11, ReconcilesKeeps
  <2>12. CASE FailsToReconcile  BY <2>12, FailsToReconcileKeeps
  <2>13. CASE Compares  BY <2>13, ComparesKeeps
  <2>14. CASE Composes  BY <2>14, ComposesKeeps
  <2> QED
    BY <1>1, <2>1, <2>2, <2>3, <2>4, <2>5, <2>6, <2>7, <2>8, <2>9, <2>10, <2>11, <2>12, <2>13,
       <2>14, Zenon DEF Recovers
<1>2. CASE Serves
  <2>1. CASE Decides  BY <2>1, DecidesKeeps
  <2>2. CASE \E p \in DOMAIN decisions : OpensScope(p) \/ Emits(p) \/ Records(p) \/ DiesWriting(p)
    BY <2>2, OpensScopeKeeps, EmitsKeeps, RecordsKeeps, DiesWritingKeeps, Zenon
  <2>3. CASE Declares  BY <2>3, DeclaresKeeps
  <2> QED  BY <1>2, <2>1, <2>2, <2>3, Zenon DEF Serves
<1>3. CASE Closes
  BY <1>3, StopsKeeps, ClosesCleanKeeps, FailsToCloseKeeps, JournalsCleanKeeps, Zenon DEF Closes
<1>4. CASE Dies
  <2>1. Ends /\ UNCHANGED <<files, epoch, faults>>  BY <1>4 DEF Dies
  <2> QED  BY <2>1, DiesKeeps
<1>5. CASE UNCHANGED vars
  <2>1. UNCHANGED <<files, epoch, pc, memory, faults>>  BY <1>5 DEF vars
  <2>2. /\ UNCHANGED <<local, decisions, chain, torn, journal, jtorn, epoch, pc>>
        /\ UNCHANGED <<opened, graded, known, todo, owed, held, lost, report, faults>>
    BY <2>1 DEF files, memory
  <2>3. FileTypes /\ MemoryTypes /\ FilesInv /\ LifeInv  BY Groups DEF RecoveryInv
  <2>4. FileTypes' /\ MemoryTypes'  BY <2>2, <2>3 DEF FileTypes, MemoryTypes
  <2>5. FilesInv'  BY <2>2, <2>3, FilesSame
  <2>6. /\ NotRun' = NotRun /\ OpenRecords' = OpenRecords /\ Readable' = Readable
        /\ TornGap' = TornGap /\ Fact("grade", {})' = Fact("grade", {})
        /\ \A r, e : Markers(r, e)' = Markers(r, e) /\ Said(r, e)' = Said(r, e)
        /\ {p \in DOMAIN decisions : Named(p) # {}}' = {p \in DOMAIN decisions : Named(p) # {}}
        /\ \A p : Effects(p)' = Effects(p)
        /\ \A e : Missing(e)' = Missing(e)
        /\ AfterRead' = AfterRead /\ InEpoch' = InEpoch /\ InHand' = InHand
    BY <2>2 DEF NotRun, OpenRecords, ClosedEpochs, Readable, Garbage, Line, Markers, Said,
       TornGap, Entry, Fact, Named, Effects, Missing, Surviving, NamedLost, Entries,
       AfterRead, InEpoch, InHand
  <2>7. LifeShape'  BY <2>2, <2>3, <2>6, Zenon DEF LifeInv, LifeShape
  <2>8. OwnEpoch'  BY <2>2, <2>3, <2>6, Zenon DEF LifeInv, OwnEpoch
  <2>9. ToReconcile'
    <3>1. pc = "journal" => Missing(InHand.epoch)' = {}
      BY <2>2, <2>3, <2>6, Zenon DEF LifeInv, ToReconcile, InHand
    <3> QED  BY <2>2, <2>3, <2>6, <3>1, Zenon DEF LifeInv, ToReconcile
  <2>10. ToCome' /\ Reported'  BY <2>2, <2>3, <2>6, Zenon DEF LifeInv, ToCome, Reported
  <2> QED  BY <2>4, <2>5, <2>7, <2>8, <2>9, <2>10, GroupsNext DEF RecoveryInv, LifeInv
<1> QED  BY <1>1, <1>2, <1>3, <1>4, <1>5, Zenon DEF Next

(* The invariant holds in every life, however each of them ends.           *)
THEOREM Recoveries == Spec => []RecoveryInv
<1>1. Init => RecoveryInv  BY InitHas
<1>2. RecoveryInv /\ [Next]_vars => RecoveryInv'  BY NextKeeps
<1> QED  BY <1>1, <1>2, PTL DEF Spec

(* The losses of unclean lives are declared, each once, and the report of  *)
(* a start says so (_reconcile_epoch, _declare_unflushed, _compare).       *)
THEOREM EveryLossIsDeclaredOnce == Spec => []LossesAreDeclared
<1>1. RecoveryInv => LossesAreDeclared
  <2> SUFFICES ASSUME RecoveryInv PROVE LossesAreDeclared  OBVIOUS
  <2>1. FileTypes /\ FilesInv /\ LifeInv /\ TypeOK  BY Groups DEF RecoveryInv
  <2>2. ReconciledIsDeclared
    <3>1. \A e \in 1..MaxLives : Said("reconciled", e) =>
            \A p \in DOMAIN decisions : decisions[p] = e => Effects(p) \cup Named(p) # {}
      BY <2>1 DEF FilesInv, ReconciledIsNamed
    <3>2. report # NotRun => \A i \in OpenRecords : journal[i].epoch = epoch
      BY <2>1 DEF LifeInv, Reported
    <3> QED  BY <3>1, <3>2, Zenon DEF ReconciledIsDeclared
  <2>3. chain \in Seq(EntryType)  BY <2>1 DEF FileTypes
  <2>4. IsFiniteSet(DOMAIN chain)
    <3>1. DOMAIN chain = 1..Len(chain) /\ Len(chain) \in Nat  BY <2>3
    <3> QED  BY <3>1, FS_Interval
  <2>5. DeclaredOnce
    <3>1. ASSUME NEW p \in DOMAIN decisions
          PROVE  Cardinality(Effects(p)) + Cardinality(Named(p)) <= 1
      <4>1. Effects(p) \in SUBSET DOMAIN chain /\ Named(p) \in SUBSET DOMAIN chain
        BY DEF Effects, Named
      <4>2. IsFiniteSet(Effects(p)) /\ IsFiniteSet(Named(p))  BY <2>4, <4>1, FS_Subset
      <4>3. \A i, j \in Effects(p) \cup Named(p) : i = j  BY <2>1 DEF FilesInv, SaidOnce
      <4>4. Effects(p) \cap Named(p) = {}  BY DEF Effects, Named
      <4>5. Effects(p) = {} \/ Named(p) = {}  BY <4>3, <4>4
      <4>6. \A i, j \in Effects(p) : i = j  BY <4>3
      <4>7. \A i, j \in Named(p) : i = j  BY <4>3
      <4>8. Cardinality(Effects(p)) <= 1  BY <4>2, <4>6, AtMostOne
      <4>9. Cardinality(Named(p)) <= 1  BY <4>2, <4>7, AtMostOne
      <4>10. Cardinality(Effects(p)) \in Nat /\ Cardinality(Named(p)) \in Nat
        BY <4>2, FS_CardinalityType
      <4>11. Cardinality(Effects(p)) = 0 \/ Cardinality(Named(p)) = 0  BY <4>5, FS_EmptySet
      <4> QED  BY <4>8, <4>9, <4>10, <4>11
    <3>2. ASSUME NEW e \in 1..MaxLives
          PROVE  /\ Cardinality(Markers("unclean", e)) <= 1
                 /\ Markers("unclean", e) = {} \/ ~ Said("clean", e)
      <4>1. Markers("unclean", e) \in SUBSET DOMAIN chain  BY DEF Markers
      <4>2. IsFiniteSet(Markers("unclean", e))  BY <2>4, <4>1, FS_Subset
      <4>3. \A i, j \in Markers("unclean", e) : i = j
        BY <2>1 DEF FilesInv, SaidOnce, Markers
      <4>4. Cardinality(Markers("unclean", e)) <= 1  BY <4>2, <4>3, AtMostOne
      <4> QED  BY <2>1, <4>4 DEF FilesInv, CleanIsNotMarked
    <3> QED  BY <3>1, <3>2 DEF DeclaredOnce
  <2>6. ReportIsTrue
    <3> SUFFICES ASSUME pc = "serving", report # NotRun
                 PROVE  /\ report.state = "agrees"
                        /\ report.unflushed = Cardinality({p \in DOMAIN decisions : Named(p) # {}})
                        /\ \A p \in DOMAIN decisions :
                             decisions[p] # epoch /\ Said("open", decisions[p])
                               /\ ~ Said("clean", decisions[p])
                               => Effects(p) \cup Named(p) # {}
      BY DEF ReportIsTrue
    <3>1. /\ report.state = "agrees"
          /\ report.unflushed = Cardinality({p \in DOMAIN decisions : Named(p) # {}})
          /\ \A i \in OpenRecords : journal[i].epoch = epoch
      BY <2>1 DEF LifeInv, Reported
    <3>2. ASSUME NEW p \in DOMAIN decisions, decisions[p] # epoch, Said("open", decisions[p]),
                 ~ Said("clean", decisions[p])
          PROVE  Effects(p) \cup Named(p) # {}
      <4>1. PICK j \in DOMAIN journal :
              journal[j].record = "open" /\ journal[j].epoch = decisions[p]
        BY <3>2 DEF Said
      <4>2. j \notin OpenRecords  BY <3>1, <3>2, <4>1
      <4>3. PICK k \in DOMAIN journal :
              journal[k].record # "open" /\ journal[k].epoch = decisions[p]
        BY <4>1, <4>2 DEF OpenRecords, ClosedEpochs
      <4>4. decisions[p] \in 1..MaxLives
        <5>1. decisions \in Seq(1..MaxLives)  BY <2>1 DEF FileTypes
        <5>2. DOMAIN decisions = 1..Len(decisions)  BY <5>1
        <5>3. \A q \in 1..Len(decisions) : decisions[q] \in 1..MaxLives  BY <5>1, ElementOfSeq
        <5> QED  BY <5>2, <5>3
      <4>5. journal[k].record # "garbage"
        <5>1. journal[k].record = "garbage" <=> journal[k].epoch = 0
          BY <2>1 DEF FilesInv, FilesAreOfTheseLives
        <5> QED  BY <4>3, <4>4, <5>1, RecoveryAssumption
      <4>6. journal[k] \in LineType  BY <2>1 DEF FileTypes
      <4>7. Said("reconciled", decisions[p])
        BY <3>2, <4>3, <4>5, <4>6 DEF LineType, Said
      <4> QED  BY <2>1, <4>4, <4>7 DEF FilesInv, ReconciledIsNamed
    <3> QED  BY <3>1, <3>2
  <2> QED  BY <2>1, <2>2, <2>5, <2>6 DEF LossesAreDeclared
<1> QED  BY <1>1, Recoveries, PTL

(* The evidence of a life lies in an epoch that was opened before it, and  *)
(* the marker that ends the epoch covers it (open_epoch, close_clean).     *)
THEOREM AllEvidenceLiesInItsEpoch == Spec => []EvidenceLiesInItsEpoch
<1>1. RecoveryInv => EvidenceLiesInItsEpoch
  BY DEF RecoveryInv, FilesInv, EvidenceLiesInItsEpoch
<1> QED  BY <1>1, Recoveries, PTL
=============================================================================
