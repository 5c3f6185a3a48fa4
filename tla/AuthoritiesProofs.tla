-------------------------- MODULE AuthoritiesProofs --------------------------
(***************************************************************************)
(* What is true of the two authorities kept in files, for every number of  *)
(* threads, every set of contents, questions and references, and every     *)
(* bound.                                                                  *)
(*                                                                         *)
(* The decision store (DecisionLog): until an error escapes append         *)
(* unfenced, what callers were told is true of the file and the index is   *)
(* its projection (AuthorityHolds); and the file store implements the      *)
(* chain its port promises (PortKept).                                     *)
(*                                                                         *)
(* The policy (PolicyAuthority): what the plane acts on is the authority   *)
(* that was read (ReadsDoFollow), the bytes of a version that was decided  *)
(* on are kept (VersionsAreKept), and a record alone leads back to the     *)
(* recorded answer (RecordsDoExplain).                                     *)
(***************************************************************************)
EXTENDS DecisionLog, PolicyAuthority, WellFoundedInduction, SequenceTheorems, TLAPS

(* A set of numbers that has a member has a least one.                     *)
LEMMA LeastNumber ==
  ASSUME NEW T \in SUBSET Nat, T # {}
  PROVE  \E m \in T : \A k \in T : m <= k
<1>1. IsWellFoundedOn(OpToRel(<, Nat), Nat)  BY NatLessThanWellFounded, Zenon
<1>2. PICK m \in T : \A k \in T : ~ (<<k, m>> \in OpToRel(<, Nat))
  BY <1>1, WFMin, Zenon
<1>3. \A k \in T : ~ (<<k, m>> \in OpToRel(<, Nat)) => ~ (k < m)
  BY DEF OpToRel
<1>4. \A k \in T : ~ (k < m) => m <= k
  OBVIOUS
<1> QED  BY <1>2, <1>3, <1>4

-----------------------------------------------------------------------------
(* What a rebuild reads.                                                   *)

(* The scan stops at the first line it refuses, or at the end.             *)
LEMMA UsableBounded ==
  ASSUME NEW ls \in Seq(Line)
  PROVE  UsableLines(ls) \in 0..Len(ls)
<1> DEFINE Stops(n) == /\ \A i \in 1..n : Acceptable(ls, i)
                       /\ n < Len(ls) => ~ Acceptable(ls, n + 1)
           Refused == {i \in 1..Len(ls) : ~ Acceptable(ls, i)}
<1>1. Len(ls) \in Nat  OBVIOUS
<1>2. \E n \in 0..Len(ls) : Stops(n)
  <2>1. CASE Refused = {}
    <3>1. Stops(Len(ls))  BY <1>1, <2>1
    <3>2. Len(ls) \in 0..Len(ls)  BY <1>1
    <3> HIDE DEF Stops
    <3> QED  BY <3>1, <3>2
  <2>2. CASE Refused # {}
    <3>0. Refused \in SUBSET Nat  BY <1>1
    <3> HIDE DEF Refused
    <3>1. PICK m \in Refused : \A k \in Refused : m <= k  BY <3>0, <2>2, LeastNumber
    <3> USE DEF Refused
    <3>2. m \in 1..Len(ls) /\ ~ Acceptable(ls, m)  OBVIOUS
    <3>3. m - 1 \in 0..Len(ls) /\ m - 1 + 1 = m  BY <1>1, <3>2
    <3>4. \A i \in 1..(m - 1) : i \in 1..Len(ls) /\ ~ (m <= i)  BY <1>1, <3>2
    <3>5. \A i \in 1..(m - 1) : Acceptable(ls, i)  BY <3>1, <3>4
    <3>6. Stops(m - 1)  BY <3>2, <3>3, <3>5
    <3> HIDE DEF Stops
    <3> QED  BY <3>3, <3>6
  <2> QED  BY <2>1, <2>2
<1>3. UsableLines(ls) = CHOOSE n \in 0..Len(ls) : Stops(n)  BY DEF UsableLines
<1> HIDE DEF Stops
<1> QED  BY <1>2, <1>3

(* A file of records only is read to its end.                              *)
LEMMA WellFormedIsUsable ==
  ASSUME NEW ls \in Seq(Line), WellFormed(ls)
  PROVE  UsableLines(ls) = Len(ls)
<1> DEFINE Stops(n) == /\ \A i \in 1..n : Acceptable(ls, i)
                       /\ n < Len(ls) => ~ Acceptable(ls, n + 1)
<1>1. Len(ls) \in Nat  OBVIOUS
<1>2. Stops(Len(ls)) /\ Len(ls) \in 0..Len(ls)  BY <1>1 DEF WellFormed
<1>3. ASSUME NEW n \in 0..Len(ls), Stops(n) PROVE n = Len(ls)
  <2> SUFFICES ASSUME n < Len(ls) PROVE FALSE  BY <1>1
  <2>1. n + 1 \in 1..Len(ls)  BY <1>1
  <2> QED  BY <1>3, <2>1 DEF WellFormed
<1>4. UsableLines(ls) = CHOOSE n \in 0..Len(ls) : Stops(n)  BY DEF UsableLines
<1> HIDE DEF Stops
<1> QED  BY <1>2, <1>3, <1>4

(* Where a reference stands among the first n lines.                       *)
LEMMA PositionsTyped ==
  ASSUME NEW ls \in Seq(Line), NEW n \in Nat
  PROVE  Positions(ls, n) \in [Refs -> Nat]
<1> SUFFICES ASSUME NEW d \in Refs, \E i \in 2..n : ls[i].ref = d
             PROVE  (CHOOSE i \in 2..n : ls[i].ref = d) - 1 \in Nat
  BY DEF Positions
<1>1. (CHOOSE i \in 2..n : ls[i].ref = d) \in 2..n  OBVIOUS
<1> QED  BY <1>1

(* Whatever the file holds, a rebuild returns a state.                     *)
LEMMA RebuiltTyped ==
  ASSUME NEW ls \in Seq(Line), NEW torn \in BOOLEAN
  PROVE  /\ Rebuilt(ls, torn) \in [loaded: BOOLEAN, next: Nat \ {0},
                                   positions: [Refs -> Nat],
                                   unusable: BOOLEAN, fenced: BOOLEAN]
         /\ Rebuilt(ls, torn).loaded
<1>1. UsableLines(ls) \in Nat  BY UsableBounded
<1>2. Positions(ls, UsableLines(ls)) \in [Refs -> Nat]  BY <1>1, PositionsTyped
<1> QED  BY <1>1, <1>2 DEF Rebuilt

(* On a file of records a reference has one position at most, and it is    *)
(* the one its line carries.                                               *)
LEMMA PositionsOf ==
  ASSUME NEW ls \in Seq(Line), WellFormed(ls), NEW d \in Refs
  PROVE  /\ Positions(ls, Len(ls))[d] \in Nat
         /\ Positions(ls, Len(ls))[d] # 0 =>
              /\ Positions(ls, Len(ls))[d] + 1 \in 2..Len(ls)
              /\ ls[Positions(ls, Len(ls))[d] + 1].ref = d
         /\ \A i \in 2..Len(ls) : ls[i].ref = d => Positions(ls, Len(ls))[d] = i - 1
<1> DEFINE at == Positions(ls, Len(ls))[d]
<1>1. Len(ls) \in Nat  OBVIOUS
<1>2. CASE \E i \in 2..Len(ls) : ls[i].ref = d
  <2>1. PICK k \in 2..Len(ls) : ls[k].ref = d /\ at = k - 1
    BY <1>2 DEF Positions
  <2>2. \A i, j \in 2..Len(ls) : i < j => ls[i].ref # ls[j].ref
    <3> SUFFICES ASSUME NEW i \in 2..Len(ls), NEW j \in 2..Len(ls), i < j
                 PROVE  ls[i].ref # ls[j].ref
      OBVIOUS
    <3>1. Acceptable(ls, j) /\ j # 1 /\ i \in 2..(j - 1)  BY <1>1 DEF WellFormed
    <3> QED  BY <3>1 DEF Acceptable
  <2>3. \A i \in 2..Len(ls) : ls[i].ref = d => i = k
    BY <1>1, <2>1, <2>2
  <2> HIDE DEF at
  <2>4. at \in Nat /\ at + 1 = k  BY <2>1
  <2> QED  BY <2>1, <2>3, <2>4 DEF at
<1>3. CASE ~ \E i \in 2..Len(ls) : ls[i].ref = d
  BY <1>3 DEF Positions
<1> QED  BY <1>2, <1>3

(* What a rebuild of a file of records returns.                            *)
LEMMA RebuiltOfRecords ==
  ASSUME NEW ls \in Seq(Line), WellFormed(ls), NEW torn \in BOOLEAN
  PROVE  Rebuilt(ls, torn) =
           [loaded |-> TRUE, next |-> IF Len(ls) = 0 THEN 1 ELSE Len(ls),
            positions |-> Positions(ls, Len(ls)), unusable |-> FALSE, fenced |-> torn]
<1>1. UsableLines(ls) = Len(ls)  BY WellFormedIsUsable
<1>2. Len(ls) \in Nat  OBVIOUS
<1>3. (UsableLines(ls) < Len(ls)) = FALSE  BY <1>1, <1>2
<1> QED  BY <1>1, <1>3, Zenon DEF Rebuilt

(* The header of an empty file makes a file of records without one.        *)
LEMMA HeaderAppended ==
  /\ Header \in Line
  /\ WellFormed(<<>>) /\ WellFormed(Append(<<>>, Header))
  /\ Positions(<<>>, 0) = NoIndex /\ Positions(Append(<<>>, Header), 1) = NoIndex
<1>1. Header \in Line  BY DEF Header, Line
<1>2. WellFormed(<<>>)  BY DEF WellFormed
<1>3. Len(Append(<<>>, Header)) = 1 /\ Append(<<>>, Header)[1] = Header  OBVIOUS
<1>4. WellFormed(Append(<<>>, Header))  BY <1>3 DEF WellFormed, Acceptable
<1>5. Positions(<<>>, 0) = NoIndex /\ Positions(Append(<<>>, Header), 1) = NoIndex
  BY DEF Positions, NoIndex
<1> QED  BY <1>1, <1>2, <1>4, <1>5

(* A record behind the others, of a reference none of them has, is read at *)
(* the position it carries, and moves none.                                *)
LEMMA RecordAppended ==
  ASSUME NEW ls \in Seq(Line), WellFormed(ls), ls # <<>>, NEW d \in Refs,
         Positions(ls, Len(ls))[d] = 0
  PROVE  /\ Append(ls, Envelope(d, Len(ls))) \in Seq(Line)
         /\ Len(Append(ls, Envelope(d, Len(ls)))) = Len(ls) + 1
         /\ WellFormed(Append(ls, Envelope(d, Len(ls))))
         /\ Positions(Append(ls, Envelope(d, Len(ls))), Len(ls) + 1) =
              [Positions(ls, Len(ls)) EXCEPT ![d] = Len(ls)]
<1> DEFINE n == Len(ls)
           e == Envelope(d, n)
           longer == Append(ls, e)
<1>1. n \in Nat \ {0} /\ e \in Line  BY DEF Envelope, Line
<1>2. /\ longer \in Seq(Line) /\ Len(longer) = n + 1 /\ longer[n + 1] = e
      /\ \A i \in 1..n : longer[i] = ls[i]
  BY <1>1
<1>3. \A i \in 2..n : ls[i].ref # d
  BY <1>1, PositionsOf
<1>4. WellFormed(longer)
  <2> SUFFICES ASSUME NEW i \in 1..(n + 1) PROVE Acceptable(longer, i)
    BY <1>2 DEF WellFormed
  <2>1. CASE i = n + 1
    <3>1. i # 1 /\ i - 1 = n /\ longer[i] = e  BY <1>1, <1>2, <2>1
    <3>2. e.kind = "decision" /\ e.position = n /\ e.ref = d  BY DEF Envelope
    <3>3. \A j \in 2..n : longer[j].ref # d  BY <1>1, <1>2, <1>3
    <3> QED  BY <3>1, <3>2, <3>3 DEF Acceptable
  <2>2. CASE i # n + 1
    <3>1. i \in 1..n  BY <1>1, <2>2
    <3>2. Acceptable(ls, i)  BY <3>1 DEF WellFormed
    <3>3. longer[i] = ls[i] /\ \A j \in 2..(i - 1) : longer[j] = ls[j]
      BY <1>1, <1>2, <3>1
    <3> QED  BY <3>2, <3>3 DEF Acceptable
  <2> QED  BY <2>1, <2>2
<1> HIDE DEF longer, e
<1>a. n + 1 \in Nat  BY <1>1
<1>b. Positions(ls, n) \in [Refs -> Nat]  BY <1>1, PositionsTyped
<1>c. Positions(longer, n + 1) \in [Refs -> Nat]  BY <1>2, <1>a, PositionsTyped
<1>5. ASSUME NEW c \in Refs
      PROVE  Positions(longer, n + 1)[c] = [Positions(ls, n) EXCEPT ![d] = n][c]
  <2>2. CASE c = d
    <3>1. n + 1 \in 2..(n + 1) /\ longer[n + 1].ref = d  BY <1>1, <1>2 DEF e, Envelope
    <3>2. Positions(longer, n + 1)[d] = n + 1 - 1  BY <1>2, <1>4, <3>1, PositionsOf
    <3> QED  BY <1>1, <1>b, <2>2, <3>2
  <2>3. CASE c # d
    <3>1. longer[n + 1].ref # c  BY <1>2, <2>3 DEF e, Envelope
    <3>2. \A i \in 2..(n + 1) : longer[i].ref = c <=> (i \in 2..n /\ ls[i].ref = c)
      BY <1>1, <1>2, <3>1
    <3>3. CASE \E i \in 2..n : ls[i].ref = c
      <4>1. PICK i \in 2..n : ls[i].ref = c  BY <3>3
      <4>2. i \in 2..(n + 1) /\ longer[i].ref = c  BY <1>1, <3>2, <4>1
      <4>3. Positions(ls, n)[c] = i - 1  BY <4>1, PositionsOf
      <4>4. Positions(longer, n + 1)[c] = i - 1
        <5>1. i \in 2..Len(longer)  BY <1>2, <4>2
        <5>2. \A j \in 2..Len(longer) :
                longer[j].ref = c => Positions(longer, Len(longer))[c] = j - 1
          BY <1>2, <1>4, PositionsOf
        <5> QED  BY <1>2, <4>2, <5>1, <5>2
      <4> QED  BY <1>b, <2>3, <4>3, <4>4
    <3>4. CASE ~ \E i \in 2..n : ls[i].ref = c
      <4>1. Positions(ls, n)[c] = 0 /\ Positions(longer, n + 1)[c] = 0
        BY <3>2, <3>4 DEF Positions
      <4> QED  BY <1>b, <2>3, <4>1
    <3> QED  BY <3>3, <3>4
  <2> QED  BY <2>2, <2>3
<1>6. Positions(longer, n + 1) = [Positions(ls, n) EXCEPT ![d] = n]
  BY <1>b, <1>c, <1>5
<1> QED  BY <1>2, <1>4, <1>6 DEF longer, e

-----------------------------------------------------------------------------
(* Types, and who is appending.                                            *)

Receipt == [said: Words, position: Nat, doubt: BOOLEAN]
ScopeState == [loaded: BOOLEAN, next: Nat \ {0}, positions: [Refs -> Nat],
               unusable: BOOLEAN, fenced: BOOLEAN]

(* A doubt once told of is never taken back, and only these words tell it. *)
LEMMA ToldTyped ==
  ASSUME NEW b \in Receipt, NEW w \in Words, NEW p \in Nat
  PROVE  /\ Told(b, w, p) \in Receipt
         /\ Told(b, w, p).said = w /\ Told(b, w, p).position = p
         /\ b.doubt => Told(b, w, p).doubt
         /\ w \in {"indeterminate", "lost"} => Told(b, w, p).doubt
BY DEF Told, Receipt

(* An answer goes to the reference being appended and to no other.         *)
LEMMA AnsweredTyped ==
  ASSUME TypeOK, writer.ref \in Refs, NEW w \in Words, NEW p \in Nat, Answered(w, p)
  PROVE  /\ writer' = Idle
         /\ answer' \in [Refs -> Receipt]
         /\ answer'[writer.ref] = Told(answer[writer.ref], w, p)
         /\ answer'[writer.ref].said = w /\ answer'[writer.ref].position = p
         /\ answer[writer.ref].doubt => answer'[writer.ref].doubt
         /\ w \in {"indeterminate", "lost"} => answer'[writer.ref].doubt
         /\ \A d \in Refs : d # writer.ref => answer'[d] = answer[d]
<1>1. answer \in [Refs -> Receipt]  BY DEF TypeOK, Receipt
<1>2. answer' = [answer EXCEPT ![writer.ref] = Told(answer[writer.ref], w, p)]
      /\ writer' = Idle
  BY DEF Answered
<1>3. answer[writer.ref] \in Receipt  BY <1>1
<1>4. Told(answer[writer.ref], w, p) \in Receipt  BY <1>3, ToldTyped
<1>5. answer' \in [Refs -> Receipt]
      /\ answer'[writer.ref] = Told(answer[writer.ref], w, p)
      /\ \A d \in Refs : d # writer.ref => answer'[d] = answer[d]
  BY <1>1, <1>2, <1>4
<1> QED  BY <1>2, <1>3, <1>5, ToldTyped

(* The index appends read is loaded and typed, whatever the file holds.    *)
LEMMA LoadedTyped ==
  ASSUME TypeOK
  PROVE  Loaded \in ScopeState /\ Loaded.loaded
BY RebuiltTyped DEF TypeOK, Loaded, ScopeState

(* What an unfinished write leaves is lines still.                         *)
LEMMA CutShortTyped ==
  ASSUME TypeOK, NEW line \in Line, CutShort(line)
  PROVE  lines' \in Seq(Line) /\ tail' \in BOOLEAN
<1>1. Garbage \in Line  BY DEF Garbage, Line
<1>2. Landed(line) \in Seq(Line)  BY <1>1 DEF TypeOK, Landed
<1> QED  BY <1>2 DEF TypeOK, CutShort

(* Every line a step writes is one.                                        *)
LEMMA LinesTyped ==
  ASSUME TypeOK, writer.ref \in Refs
  PROVE  Header \in Line /\ Garbage \in Line /\ Envelope(writer.ref, state.next) \in Line
BY DEF TypeOK, Header, Garbage, Envelope, Line

(* Every step keeps the types.                                             *)
LEMMA LogTypeStep ==
  ASSUME TypeOK, WriterShape, [LogNext]_vars
  PROVE  TypeOK'
<1> USE DEF ScopeState, Receipt
<1>w. writer.pc \in Appending => writer.ref \in Refs  BY DEF WriterShape
<1>1. ASSUME NEW d \in Refs, AppendBegins(d) PROVE TypeOK'
  <2>1. Loaded \in ScopeState  BY LoadedTyped
  <2>2. "appending" \in Words /\ 0 \in Nat  BY DEF Words
  <2>3. answer[d] \in Receipt  BY DEF TypeOK
  <2>4. Told(answer[d], "appending", 0) \in Receipt  BY <2>2, <2>3, ToldTyped
  <2>5. answer' \in [Refs -> Receipt]  BY <1>1, <2>4 DEF AppendBegins, TypeOK
  <2>6. appends' \in 0..MaxAppends  BY <1>1, DecisionLogAssumption DEF AppendBegins, TypeOK
  <2>7. writer' \in [pc: {"idle", "open", "recover", "header", "record", "synced", "down"},
                     ref: Refs \cup {NoRef}, created: BOOLEAN]
    BY <1>1 DEF AppendBegins, TypeOK
  <2> QED  BY <1>1, <2>1, <2>5, <2>6, <2>7 DEF AppendBegins, TypeOK
<1>m. ASSUME NEW pc \in {"header", "record", "synced", "recover"}, Move(pc)
      PROVE  /\ writer' \in [pc: {"idle", "open", "recover", "header", "record", "synced", "down"},
                             ref: Refs \cup {NoRef}, created: BOOLEAN]
             /\ answer' \in [Refs -> Receipt]
  BY <1>m DEF Move, TypeOK
<1>a. ASSUME NEW w \in Words, NEW p \in Nat, Answered(w, p), writer.pc \in Appending
      PROVE  /\ writer' \in [pc: {"idle", "open", "recover", "header", "record", "synced", "down"},
                             ref: Refs \cup {NoRef}, created: BOOLEAN]
             /\ answer' \in [Refs -> Receipt]
  <2>1. answer' \in [Refs -> Receipt] /\ writer' = Idle  BY <1>a, <1>w, AnsweredTyped
  <2> QED  BY <2>1 DEF Idle
<1> USE DEF Appending, Words
<1>2. ASSUME AppendUnusable PROVE TypeOK'
  BY <1>2, <1>a DEF AppendUnusable, TypeOK
<1>3. ASSUME AppendDuplicate PROVE TypeOK'
  BY <1>3, <1>a DEF AppendDuplicate, TypeOK
<1>4. ASSUME Opens PROVE TypeOK'
  <2>1. PICK pc \in {"header", "record", "synced", "recover"} : Move(pc)
    BY <1>4 DEF Opens
  <2> QED  BY <1>4, <2>1, <1>m DEF Opens, TypeOK
<1>5. ASSUME OpenFails PROVE TypeOK'
  BY <1>5, <1>a DEF OpenFails, TypeOK
<1>6. ASSUME Recovers PROVE TypeOK'
  <2>1. Rebuilt(lines, FALSE) \in ScopeState  BY RebuiltTyped DEF TypeOK
  <2>2. state' \in ScopeState /\ writer.pc \in Appending  BY <1>6, <2>1 DEF Recovers
  <2>3. Answered("exists", 0) \/ Move("header")  BY <1>6 DEF Recovers
  <2> QED  BY <1>6, <2>2, <2>3, <1>a, <1>m DEF Recovers, TypeOK
<1>7. ASSUME RecoveryFails PROVE TypeOK'
  BY <1>7, <1>a DEF RecoveryFails, TypeOK
<1>8. ASSUME HeaderStep PROVE TypeOK'
  <2>1. Header \in Line  BY DEF Header, Line
  <2>2. lines' \in Seq(Line)  BY <1>8, <2>1 DEF HeaderStep, TypeOK
  <2> QED  BY <1>8, <2>2, <1>m DEF HeaderStep, TypeOK
<1>9. ASSUME HeaderFails PROVE TypeOK'
  <2>1. lines' \in Seq(Line) /\ tail' \in BOOLEAN
    BY <1>9, <1>w, CutShortTyped, LinesTyped DEF HeaderFails
  <2> QED  BY <1>9, <2>1, <1>a DEF HeaderFails, TypeOK
<1>10. ASSUME RecordTooLarge PROVE TypeOK'
  BY <1>10, <1>a DEF RecordTooLarge, TypeOK
<1>11. ASSUME RecordWritten PROVE TypeOK'
  <2>1. Envelope(writer.ref, state.next) \in Line /\ Garbage \in Line
    BY <1>11, <1>w, LinesTyped DEF RecordWritten
  <2>2. lines' \in Seq(Line)  BY <1>11, <2>1 DEF RecordWritten, Landed, TypeOK
  <2> QED  BY <1>11, <2>2, <1>m DEF RecordWritten, TypeOK
<1>12. ASSUME RecordFails PROVE TypeOK'
  <2>1. Envelope(writer.ref, state.next) \in Line
    BY <1>12, <1>w, LinesTyped DEF RecordFails
  <2>2. lines' \in Seq(Line) /\ tail' \in BOOLEAN
    BY <1>12, <2>1, CutShortTyped DEF RecordFails
  <2> QED  BY <1>12, <2>2, <1>a DEF RecordFails, TypeOK
<1>13. ASSUME Published PROVE TypeOK'
  <2>2. state.next \in Nat /\ state.next + 1 \in Nat \ {0} /\ state \in ScopeState
    BY DEF TypeOK
  <2>3. [state.positions EXCEPT ![writer.ref] = state.next] \in [Refs -> Nat]
    BY <2>2
  <2>1. state' \in ScopeState  BY <1>13, <2>2, <2>3 DEF Published
  <2> QED  BY <1>13, <2>1, <2>2, <1>a DEF Published, TypeOK
<1>14. ASSUME DirectoryFails PROVE TypeOK'
  BY <1>14, <1>a DEF DirectoryFails, TypeOK
<1>15. ASSUME Crash PROVE TypeOK'
  <2>1. lines' \in Seq(Line) /\ tail' \in BOOLEAN
    <3>1. CASE writer.pc = "header" /\ HeaderNeeded
      <4>1. CutShort(Header)  BY <1>15, <3>1 DEF Crash
      <4> QED  BY <4>1, <3>1, <1>w, CutShortTyped, LinesTyped
    <3>2. CASE writer.pc = "record"
      <4>1. CutShort(Envelope(writer.ref, state.next))  BY <1>15, <3>2 DEF Crash
      <4>2. Envelope(writer.ref, state.next) \in Line  BY <3>2, <1>w, LinesTyped
      <4> QED  BY <4>1, <4>2, CutShortTyped
    <3>3. CASE ~ (writer.pc = "header" /\ HeaderNeeded) /\ writer.pc # "record"
      BY <1>15, <3>3 DEF Crash, TypeOK
    <3> QED  BY <3>1, <3>2, <3>3
  <2>2. ASSUME NEW d \in Refs PROVE answer'[d] \in Receipt
    <3>1. answer[d] \in Receipt /\ "lost" \in Words /\ 0 \in Nat  BY DEF TypeOK, Words
    <3>2. Told(answer[d], "lost", 0) \in Receipt  BY <3>1, ToldTyped
    <3> QED  BY <1>15, <3>1, <3>2 DEF Crash
  <2>3. answer' \in [Refs -> Receipt]  BY <1>15, <2>2 DEF Crash
  <2>4. state' \in ScopeState  BY <1>15 DEF Crash, NotLoaded, NoIndex
  <2>5. writer' \in [pc: {"idle", "open", "recover", "header", "record", "synced", "down"},
                     ref: Refs \cup {NoRef}, created: BOOLEAN]
    BY <1>15 DEF Crash, Idle
  <2>6. crashes' \in 0..MaxCrashes  BY <1>15, DecisionLogAssumption DEF Crash, TypeOK
  <2> QED  BY <1>15, <2>1, <2>3, <2>4, <2>5, <2>6 DEF Crash, TypeOK
<1>16. ASSUME Start PROVE TypeOK'
  <2>1. Rebuilt(lines, FALSE) \in ScopeState  BY RebuiltTyped DEF TypeOK
  <2>2. NotLoaded \in ScopeState  BY DEF NotLoaded, NoIndex
  <2>3. state' \in ScopeState  BY <1>16, <2>1, <2>2 DEF Start
  <2> QED  BY <1>16, <2>3 DEF Start, TypeOK, Idle
<1>17. CASE UNCHANGED vars
  BY <1>17 DEF vars, logVars, TypeOK
<1> QED
  BY <1>1, <1>2, <1>3, <1>4, <1>5, <1>6, <1>7, <1>8, <1>9, <1>10, <1>11, <1>12, <1>13,
     <1>14, <1>15, <1>16, <1>17 DEF LogNext

-----------------------------------------------------------------------------
(* An append that ends leaves nobody appending.                            *)
LEMMA AnsweredShape ==
  ASSUME TypeOK, WriterShape, writer.pc \in Appending,
         NEW w \in Words \ {"appending"}, NEW p \in Nat, Answered(w, p),
         exists => exists',
         exists \/ UNCHANGED <<lines, tail>>
  PROVE  WriterShape'
<1>1. writer.ref \in Refs  BY DEF WriterShape
<1>2. writer' = Idle /\ answer'[writer.ref].said = w
      /\ \A d \in Refs : d # writer.ref => answer'[d] = answer[d]
  BY <1>1, AnsweredTyped
<1>3. writer'.pc = "idle" /\ writer'.ref = NoRef /\ writer'.created = FALSE
  BY <1>2 DEF Idle
<1>4. \A d \in Refs : answer'[d].said # "appending"
  <2> SUFFICES ASSUME NEW d \in Refs PROVE answer'[d].said # "appending"  OBVIOUS
  <2>1. CASE d = writer.ref  BY <1>2, <2>1
  <2>2. CASE d # writer.ref  BY <1>2, <2>2 DEF WriterShape
  <2> QED  BY <2>1, <2>2
<1>5. ~ exists' => lines' = <<>> /\ ~ tail'  BY DEF WriterShape
<1> QED  BY <1>3, <1>4, <1>5 DEF WriterShape, Appending

(* An append that goes on is the same append.                              *)
LEMMA MovedShape ==
  ASSUME TypeOK, WriterShape, writer.pc \in Appending,
         NEW pc \in Appending \ {"open"}, Move(pc), exists', state'.loaded,
         pc \in {"recover", "header"} /\ writer.created => lines' = <<>>
  PROVE  WriterShape'
<1>1. writer.ref \in Refs  BY DEF WriterShape
<1>2. writer'.pc = pc /\ writer'.ref = writer.ref /\ writer'.created = writer.created
  BY DEF Move, TypeOK
<1>3. answer' = answer  BY DEF Move
<1> QED  BY <1>1, <1>2, <1>3 DEF WriterShape, Appending

(* Every step keeps writer, file and answers in agreement.                 *)
LEMMA WriterStep ==
  ASSUME TypeOK, WriterShape, [LogNext]_vars
  PROVE  WriterShape'
<1>w. writer.pc \in Appending => writer.ref \in Refs /\ state.loaded  BY DEF WriterShape
<1>q. "appending" \in Words /\ "lost" \in Words /\ 0 \in Nat  BY DEF Words
<1>r. {"refused", "exists", "indeterminate", "acked"} \subseteq Words \ {"appending"}
  BY DEF Words
<1>1. ASSUME NEW d \in Refs, AppendBegins(d) PROVE WriterShape'
  <2>1. /\ writer.pc = "idle" /\ state' = Loaded
        /\ writer'.pc = "open" /\ writer'.ref = d /\ writer'.created = ~ exists
        /\ answer' = [answer EXCEPT ![d] = Told(answer[d], "appending", 0)]
        /\ UNCHANGED <<exists, lines, tail>>
    BY <1>1 DEF AppendBegins
  <2>2. answer[d] \in Receipt  BY DEF TypeOK, Receipt
  <2>3. /\ Told(answer[d], "appending", 0).said = "appending"
        /\ Told(answer[d], "appending", 0).position = 0
    BY <1>q, <2>2, ToldTyped
  <2>4. \A c \in Refs : answer[c].said # "appending"
    BY <2>1 DEF WriterShape, Appending
  <2>5. \A c \in Refs : /\ answer'[c].said = "appending" <=> c = d
                        /\ c = d => answer'[c].position = 0
    <3> SUFFICES ASSUME NEW c \in Refs
                 PROVE  /\ answer'[c].said = "appending" <=> c = d
                        /\ c = d => answer'[c].position = 0
      OBVIOUS
    <3>1. CASE c = d
      <4>1. answer'[c] = Told(answer[d], "appending", 0)  BY <2>1, <3>1 DEF TypeOK
      <4> QED  BY <2>3, <3>1, <4>1
    <3>2. CASE c # d
      <4>1. answer'[c] = answer[c]  BY <2>1, <3>2 DEF TypeOK
      <4> QED  BY <2>4, <3>2, <4>1
    <3> QED  BY <3>1, <3>2
  <2>6. state'.loaded  BY <2>1, LoadedTyped
  <2>7. writer'.created => lines' = <<>>  BY <2>1 DEF WriterShape
  <2>8. ~ exists' => lines' = <<>> /\ ~ tail'  BY <2>1 DEF WriterShape
  <2> QED  BY <2>1, <2>5, <2>6, <2>7, <2>8 DEF WriterShape, Appending
<1>2. ASSUME AppendUnusable PROVE WriterShape'
  <2>1. writer.pc \in Appending  BY <1>2 DEF AppendUnusable, Appending
  <2> QED  BY <1>2, <2>1, <1>r, AnsweredShape DEF AppendUnusable
<1>3. ASSUME AppendDuplicate PROVE WriterShape'
  <2>1. writer.pc \in Appending  BY <1>3 DEF AppendDuplicate, Appending
  <2> QED  BY <1>3, <2>1, <1>r, AnsweredShape DEF AppendDuplicate
<1>4. ASSUME Opens PROVE WriterShape'
  <2>1. writer.pc \in Appending  BY <1>4 DEF Opens, Appending
  <2>2. PICK pc \in {"recover", "header"} : Move(pc)  BY <1>4 DEF Opens
  <2>3. pc \in Appending \ {"open"}  BY <2>2 DEF Appending
  <2>4. writer.created => lines' = <<>>  BY <1>4 DEF Opens, WriterShape
  <2>5. exists' /\ state'.loaded  BY <1>4, <1>w, <2>1 DEF Opens
  <2> QED  BY <2>1, <2>2, <2>3, <2>4, <2>5, MovedShape
<1>5. ASSUME OpenFails PROVE WriterShape'
  <2>1. writer.pc \in Appending  BY <1>5 DEF OpenFails, Appending
  <2>2. /\ Answered("refused", 0) /\ UNCHANGED <<lines, tail>>
        /\ exists' = exists \/ exists' = TRUE
    BY <1>5 DEF OpenFails
  <2> QED  BY <2>1, <2>2, <1>r, AnsweredShape
<1>6. ASSUME Recovers PROVE WriterShape'
  <2>1. writer.pc \in Appending /\ exists  BY <1>6 DEF Recovers, Appending, WriterShape
  <2>2. CASE Answered("exists", 0)
    BY <1>6, <2>1, <2>2, <1>r, AnsweredShape DEF Recovers
  <2>3. CASE Move("header")
    <3>1. "header" \in Appending \ {"open"}  BY DEF Appending
    <3>2. state'.loaded  BY <1>6, RebuiltTyped DEF Recovers, TypeOK
    <3>3. writer.created => lines' = <<>>  BY <1>6 DEF Recovers, WriterShape
    <3>4. exists'  BY <1>6, <2>1 DEF Recovers
    <3> QED  BY <2>1, <2>3, <3>1, <3>2, <3>3, <3>4, MovedShape
  <2> QED  BY <1>6, <2>2, <2>3 DEF Recovers
<1>7. ASSUME RecoveryFails PROVE WriterShape'
  <2>1. writer.pc \in Appending /\ exists
    BY <1>7 DEF RecoveryFails, Appending, WriterShape
  <2> QED  BY <1>7, <2>1, <1>r, AnsweredShape DEF RecoveryFails
<1>8. ASSUME HeaderStep PROVE WriterShape'
  <2>1. writer.pc \in Appending /\ exists  BY <1>8 DEF HeaderStep, Appending, WriterShape
  <2>2. "record" \in Appending \ {"open"} /\ "record" \notin {"recover", "header"}
    BY DEF Appending
  <2>3. exists' /\ state'.loaded /\ Move("record")  BY <1>8, <1>w, <2>1 DEF HeaderStep
  <2> QED  BY <2>1, <2>2, <2>3, MovedShape
<1>9. ASSUME HeaderFails PROVE WriterShape'
  <2>1. writer.pc \in Appending /\ exists  BY <1>9 DEF HeaderFails, Appending, WriterShape
  <2> QED  BY <1>9, <2>1, <1>r, AnsweredShape DEF HeaderFails
<1>10. ASSUME RecordTooLarge PROVE WriterShape'
  <2>1. writer.pc \in Appending /\ exists
    BY <1>10 DEF RecordTooLarge, Appending, WriterShape
  <2> QED  BY <1>10, <2>1, <1>r, AnsweredShape DEF RecordTooLarge
<1>11. ASSUME RecordWritten PROVE WriterShape'
  <2>1. writer.pc \in Appending /\ exists
    BY <1>11 DEF RecordWritten, Appending, WriterShape
  <2>2. "synced" \in Appending \ {"open"} /\ "synced" \notin {"recover", "header"}
    BY DEF Appending
  <2>3. exists' /\ state'.loaded /\ Move("synced")  BY <1>11, <1>w, <2>1 DEF RecordWritten
  <2> QED  BY <2>1, <2>2, <2>3, MovedShape
<1>12. ASSUME RecordFails PROVE WriterShape'
  <2>1. writer.pc \in Appending /\ exists  BY <1>12 DEF RecordFails, Appending, WriterShape
  <2> QED  BY <1>12, <2>1, <1>r, AnsweredShape DEF RecordFails
<1>13. ASSUME Published PROVE WriterShape'
  <2>1. writer.pc \in Appending /\ exists  BY <1>13 DEF Published, Appending, WriterShape
  <2>2. state.next \in Nat  BY DEF TypeOK
  <2> QED  BY <1>13, <2>1, <2>2, <1>r, AnsweredShape DEF Published
<1>14. ASSUME DirectoryFails PROVE WriterShape'
  <2>1. writer.pc \in Appending /\ exists
    BY <1>14 DEF DirectoryFails, Appending, WriterShape
  <2> QED  BY <1>14, <2>1, <1>r, AnsweredShape DEF DirectoryFails
<1>15. ASSUME Crash PROVE WriterShape'
  <2>1. writer'.pc = "down" /\ writer'.ref = NoRef /\ writer'.created = FALSE
    BY <1>15 DEF Crash, Idle
  <2>2. exists' = exists  BY <1>15 DEF Crash
  <2>3. exists \/ (lines' = lines /\ tail' = tail)
    <3> SUFFICES ASSUME ~ exists PROVE lines' = lines /\ tail' = tail  OBVIOUS
    <3>1. writer.pc \notin {"header", "record", "recover"}  BY DEF WriterShape, Appending
    <3> QED  BY <1>15, <3>1 DEF Crash
  <2>4. \A d \in Refs : answer'[d].said # "appending"
    <3> SUFFICES ASSUME NEW d \in Refs PROVE answer'[d].said # "appending"  OBVIOUS
    <3>1. CASE d = writer.ref
      <4>1. answer[d] \in Receipt  BY DEF TypeOK, Receipt
      <4>2. answer'[d] = Told(answer[d], "lost", 0)  BY <1>15, <3>1 DEF Crash
      <4> QED  BY <1>q, <4>1, <4>2, ToldTyped
    <3>2. CASE d # writer.ref
      <4>1. answer'[d] = answer[d]  BY <1>15, <3>2 DEF Crash
      <4> QED  BY <3>2, <4>1 DEF WriterShape
    <3> QED  BY <3>1, <3>2
  <2>5. ~ exists' => lines' = <<>> /\ ~ tail'  BY <2>2, <2>3 DEF WriterShape
  <2> QED  BY <2>1, <2>4, <2>5 DEF WriterShape, Appending
<1>16. ASSUME Start PROVE WriterShape'
  <2>1. writer'.pc = "idle" /\ writer'.ref = NoRef /\ writer'.created = FALSE
    BY <1>16 DEF Start, Idle
  <2>2. \A d \in Refs : answer'[d].said # "appending"
    BY <1>16 DEF Start, WriterShape, Appending
  <2>3. ~ exists' => lines' = <<>> /\ ~ tail'  BY <1>16 DEF Start, WriterShape
  <2> QED  BY <2>1, <2>2, <2>3 DEF WriterShape, Appending
<1>17. CASE UNCHANGED vars
  BY <1>17 DEF vars, logVars, WriterShape
<1> QED
  BY <1>1, <1>2, <1>3, <1>4, <1>5, <1>6, <1>7, <1>8, <1>9, <1>10, <1>11, <1>12, <1>13,
     <1>14, <1>15, <1>16, <1>17 DEF LogNext

-----------------------------------------------------------------------------
(* What a step leaves on the file.                                         *)

Shapes == FileShape /\ IndexShape /\ AnswerShape

(* The header goes to an empty file, and no reference has a place there    *)
(* before it or after it.                                                  *)
LEMMA HeaderEffect ==
  ASSUME TypeOK, WriterShape, FileShape, writer.pc = "header", HeaderNeeded
  PROVE  /\ lines = <<>> /\ ~ tail
         /\ Landed(Header) = Append(lines, Header) /\ Landed(Header) # <<>>
         /\ WellFormed(Landed(Header))
         /\ Positions(Landed(Header), Len(Landed(Header))) = Positions(lines, Len(lines))
         /\ \A t \in BOOLEAN : Rebuilt(Landed(Header), t) = Rebuilt(lines, t)
<1>1. lines = <<>> /\ tail = FALSE
  BY DEF HeaderNeeded, WriterShape, FileShape, TypeOK
<1>2. Landed(Header) = Append(<<>>, Header)  BY <1>1 DEF Landed
<1>3. Append(<<>>, Header) \in Seq(Line) /\ <<>> \in Seq(Line)
  BY HeaderAppended
<1>4. Append(<<>>, Header) # <<>> /\ Len(Append(<<>>, Header)) = 1 /\ Len(<<>>) = 0
  OBVIOUS
<1>5. Positions(Landed(Header), Len(Landed(Header))) = Positions(lines, Len(lines))
  BY <1>1, <1>2, <1>4, HeaderAppended
<1>6. ASSUME NEW t \in BOOLEAN PROVE Rebuilt(Landed(Header), t) = Rebuilt(lines, t)
  <2>1. Rebuilt(<<>>, t) =
          [loaded |-> TRUE, next |-> 1, positions |-> NoIndex, unusable |-> FALSE,
           fenced |-> t]
    BY <1>3, <1>4, HeaderAppended, RebuiltOfRecords
  <2>2. Rebuilt(Append(<<>>, Header), t) =
          [loaded |-> TRUE, next |-> 1, positions |-> NoIndex, unusable |-> FALSE,
           fenced |-> t]
    BY <1>3, <1>4, HeaderAppended, RebuiltOfRecords
  <2> QED  BY <1>1, <1>2, <2>1, <2>2
<1> QED  BY <1>1, <1>2, <1>4, <1>5, <1>6, HeaderAppended

(* The record goes behind the others, at the position the index gave it.   *)
LEMMA RecordEffect ==
  ASSUME TypeOK, WriterShape, FileShape, IndexShape, writer.pc = "record",
         NEW new, new = Landed(Envelope(writer.ref, state.next))
  PROVE  /\ writer.ref \in Refs /\ ~ tail /\ lines # <<>>
         /\ state.positions = Positions(lines, Len(lines))
         /\ state.next = Len(lines) /\ state.next # 0
         /\ Placed(writer.ref) = 0
         /\ new \in Seq(Line) /\ Len(new) = Len(lines) + 1
         /\ WellFormed(new)
         /\ Positions(new, Len(new)) = [Positions(lines, Len(lines)) EXCEPT ![writer.ref] = Len(lines)]
<1>1. /\ writer.ref \in Refs /\ state.loaded /\ ~ state.fenced /\ tail = FALSE
      /\ lines # <<>> /\ WellFormed(lines) /\ lines \in Seq(Line)
      /\ state = Rebuilt(lines, tail) /\ state.positions[writer.ref] = 0
  BY DEF WriterShape, Appending, FileShape, IndexShape, TypeOK
<1>2. Len(lines) \in Nat /\ Len(lines) # 0  BY <1>1
<1>3. Rebuilt(lines, FALSE) =
        [loaded |-> TRUE, next |-> IF Len(lines) = 0 THEN 1 ELSE Len(lines),
         positions |-> Positions(lines, Len(lines)), unusable |-> FALSE, fenced |-> FALSE]
  BY <1>1, RebuiltOfRecords
<1>s. state = Rebuilt(lines, FALSE)  BY <1>1
<1> DEFINE next == IF Len(lines) = 0 THEN 1 ELSE Len(lines)
<1>n. next = Len(lines)  BY <1>2
<1> HIDE DEF next
<1>4. state.positions = Positions(lines, Len(lines)) /\ state.next = Len(lines)
  <2>1. state = [loaded |-> TRUE, next |-> next, positions |-> Positions(lines, Len(lines)),
                 unusable |-> FALSE, fenced |-> FALSE]
    BY <1>s, <1>3 DEF next
  <2> QED  BY <2>1, <1>n
<1>5. Positions(lines, Len(lines))[writer.ref] = 0  BY <1>1, <1>4
<1>6. new = Append(lines, Envelope(writer.ref, Len(lines)))  BY <1>1, <1>4 DEF Landed
<1>7. /\ new \in Seq(Line) /\ Len(new) = Len(lines) + 1 /\ WellFormed(new)
      /\ Positions(new, Len(lines) + 1) = [Positions(lines, Len(lines)) EXCEPT ![writer.ref] = Len(lines)]
  BY <1>1, <1>5, <1>6, RecordAppended
<1> QED  BY <1>1, <1>2, <1>4, <1>5, <1>7 DEF Placed

(* A rebuild of the file as it stands.                                     *)
LEMMA RebuiltHere ==
  ASSUME TypeOK, FileShape, NEW torn \in BOOLEAN
  PROVE  /\ Rebuilt(lines, torn).loaded /\ ~ Rebuilt(lines, torn).unusable
         /\ Rebuilt(lines, torn).positions = Positions(lines, Len(lines))
         /\ Rebuilt(lines, torn).fenced = torn
<1>1. lines \in Seq(Line) /\ WellFormed(lines)  BY DEF TypeOK, FileShape
<1>2. Rebuilt(lines, torn) =
        [loaded |-> TRUE, next |-> IF Len(lines) = 0 THEN 1 ELSE Len(lines),
         positions |-> Positions(lines, Len(lines)), unusable |-> FALSE, fenced |-> torn]
  BY <1>1, RebuiltOfRecords
<1> QED  BY <1>2

(* An append refused before its record leaves the file's records alone, and*)
(* refuses a reference with a record only where that is in doubt.          *)
LEMMA RefusedStep ==
  ASSUME TypeOK, WriterShape, Shapes,
         writer.pc \in {"open", "recover", "header", "record"},
         state.positions[writer.ref] = 0,
         Answered("refused", 0), state' = state, tail' \in BOOLEAN, tail' => tail,
         WellFormed(lines'),
         Positions(lines', Len(lines')) = Positions(lines, Len(lines)),
         ~ state.fenced => Rebuilt(lines', tail') = Rebuilt(lines, tail)
  PROVE  Shapes'
<1>1. writer.pc \in Appending /\ writer.ref \in Refs /\ state.loaded
  BY DEF WriterShape, Appending
<1>2. "refused" \in Words /\ 0 \in Nat  BY DEF Words
<1>3. /\ writer' = Idle /\ answer'[writer.ref].said = "refused"
      /\ answer[writer.ref].doubt => answer'[writer.ref].doubt
      /\ \A d \in Refs : d # writer.ref => answer'[d] = answer[d]
  BY <1>1, <1>2, AnsweredTyped
<1>4. writer'.pc = "idle"  BY <1>3 DEF Idle
<1>5. FileShape'  BY <1>4 DEF Shapes, FileShape
<1>6. IndexShape'  BY <1>4 DEF Shapes, IndexShape, Placed
<1>7. AnswerShape'
  <2> SUFFICES ASSUME NEW d \in Refs
               PROVE  /\ answer'[d].said = "acked" => Placed(d)' = answer'[d].position /\ Placed(d)' # 0
                      /\ answer'[d].said = "exists" => Placed(d)' # 0
                      /\ answer'[d].said = "refused" /\ ~ answer'[d].doubt => Placed(d)' = 0
                      /\ state'.loaded /\ state'.positions[d] = 0 /\ Placed(d)' # 0
                           => answer'[d].doubt \/ (writer'.pc = "synced" /\ writer'.ref = d)
    BY DEF AnswerShape
  <2>1. Placed(d)' = Placed(d)  BY DEF Placed
  <2>2. CASE d = writer.ref
    <3>1. Placed(d) # 0 => answer[d].doubt  BY <1>1, <2>2 DEF Shapes, AnswerShape
    <3> QED  BY <1>3, <2>1, <2>2, <3>1
  <2>3. CASE d # writer.ref
    BY <1>3, <2>1, <2>3 DEF Shapes, AnswerShape
  <2> QED  BY <2>2, <2>3
<1> QED  BY <1>5, <1>6, <1>7 DEF Shapes

-----------------------------------------------------------------------------
(* What AnswerShape says of one reference after a step.                    *)
TrueOf(d) ==
  /\ answer'[d].said = "acked" => Placed(d)' = answer'[d].position /\ Placed(d)' # 0
  /\ answer'[d].said = "exists" => Placed(d)' # 0
  /\ answer'[d].said = "refused" /\ ~ answer'[d].doubt => Placed(d)' = 0
  /\ state'.loaded /\ state'.positions[d] = 0 /\ Placed(d)' # 0
       => answer'[d].doubt \/ (writer'.pc = "synced" /\ writer'.ref = d)

(* A step that leaves the receipt and the place of a reference alone, and  *)
(* does not take it out of the index, leaves what is true of it alone.     *)
LEMMA TrueStill ==
  ASSUME AnswerShape, NEW d \in Refs, answer'[d] = answer[d], Placed(d)' = Placed(d),
         \/ Placed(d) = 0
         \/ state'.loaded => state'.positions[d] # 0
         \/ state.loaded /\ state'.positions[d] = state.positions[d] /\ writer.pc # "synced"
         \/ state.loaded /\ state'.positions[d] = state.positions[d] /\ writer.ref # d
  PROVE  TrueOf(d)
BY DEF AnswerShape, TrueOf

(* AnswerShape says that of every reference.                               *)
LEMMA TrueOfAll ==
  ASSUME \A d \in Refs : TrueOf(d)  PROVE AnswerShape'
BY DEF AnswerShape, TrueOf

(* An append begins with the index it has, or the one the file gives.      *)
LEMMA BeginsStep ==
  ASSUME TypeOK, WriterShape, Shapes, NEW c \in Refs, AppendBegins(c)
  PROVE  Shapes'
<1>1. /\ writer.pc = "idle" /\ writer'.pc = "open" /\ lines' = lines /\ tail' = tail
      /\ tail \in BOOLEAN
      /\ answer' = [answer EXCEPT ![c] = Told(answer[c], "appending", 0)]
  BY DEF AppendBegins, TypeOK
<1>2. CASE state.loaded
  <2>1. state' = state  BY <1>2 DEF AppendBegins, Loaded
  <2>2. FileShape'  BY <1>1, <2>1 DEF Shapes, FileShape
  <2>3. IndexShape'  BY <1>1, <2>1 DEF Shapes, IndexShape, Placed
  <2>4. ASSUME NEW d \in Refs PROVE TrueOf(d)
    <3>1. Placed(d)' = Placed(d)  BY <1>1 DEF Placed
    <3>2. CASE d = c
      <4>1. answer[c] \in Receipt /\ "appending" \in Words /\ 0 \in Nat
        BY DEF TypeOK, Receipt, Words
      <4>2. answer'[c] = Told(answer[c], "appending", 0)  BY <1>1 DEF TypeOK
      <4>3. answer'[c].said = "appending" /\ (answer[c].doubt => answer'[c].doubt)
        BY <4>1, <4>2, ToldTyped
      <4> QED  BY <1>1, <1>2, <2>1, <3>1, <3>2, <4>3 DEF Shapes, AnswerShape, TrueOf
    <3>3. CASE d # c
      <4>1. answer'[d] = answer[d]  BY <1>1, <3>3 DEF TypeOK
      <4> QED  BY <1>1, <1>2, <2>1, <3>1, <4>1, TrueStill DEF Shapes
    <3> QED  BY <3>2, <3>3
  <2> QED  BY <2>2, <2>3, <2>4, TrueOfAll DEF Shapes
<1>3. CASE ~ state.loaded
  <2>1. state' = Rebuilt(lines, tail)  BY <1>3 DEF AppendBegins, Loaded
  <2>2. /\ state'.positions = Positions(lines, Len(lines))
        /\ state'.loaded /\ ~ state'.unusable /\ state'.fenced = tail
    BY <1>1, <2>1, RebuiltHere DEF Shapes
  <2>3. FileShape'  BY <1>1, <2>2 DEF Shapes, FileShape
  <2>4. IndexShape'  BY <1>1, <2>1, <2>2 DEF Shapes, IndexShape, Placed
  <2>5. ASSUME NEW d \in Refs PROVE TrueOf(d)
    <3>1. Placed(d)' = Placed(d) /\ state'.positions[d] = Placed(d)
      BY <1>1, <2>2 DEF Placed
    <3>2. CASE d = c
      <4>1. answer[c] \in Receipt /\ "appending" \in Words /\ 0 \in Nat
        BY DEF TypeOK, Receipt, Words
      <4>2. answer'[c] = Told(answer[c], "appending", 0)  BY <1>1 DEF TypeOK
      <4>3. answer'[c].said = "appending"  BY <4>1, <4>2, ToldTyped
      <4> QED  BY <3>1, <3>2, <4>3 DEF TrueOf
    <3>3. CASE d # c
      <4>1. answer'[d] = answer[d]  BY <1>1, <3>3 DEF TypeOK
      <4> QED  BY <3>1, <4>1, TrueStill DEF Shapes
    <3> QED  BY <3>2, <3>3
  <2> QED  BY <2>3, <2>4, <2>5, TrueOfAll DEF Shapes
<1> QED  BY <1>2, <1>3

(* A duplicate is refused for a record that is there.                      *)
LEMMA DuplicateStep ==
  ASSUME TypeOK, WriterShape, Shapes, AppendDuplicate
  PROVE  Shapes'
<1>1. /\ writer.pc = "open" /\ writer.ref \in Refs /\ state.loaded
      /\ state.positions[writer.ref] # 0
      /\ lines' = lines /\ tail' = tail /\ state' = state
      /\ Answered("exists", 0) /\ "exists" \in Words /\ 0 \in Nat
  BY DEF AppendDuplicate, WriterShape, Appending, Indexed, Words
<1>2. /\ writer' = Idle /\ answer'[writer.ref].said = "exists"
      /\ \A d \in Refs : d # writer.ref => answer'[d] = answer[d]
  BY <1>1, AnsweredTyped
<1>3. writer'.pc = "idle"  BY <1>2 DEF Idle
<1>4. FileShape'  BY <1>1, <1>3 DEF Shapes, FileShape
<1>5. IndexShape'  BY <1>1, <1>3 DEF Shapes, IndexShape, Placed
<1>6. ASSUME NEW d \in Refs PROVE TrueOf(d)
  <2>1. Placed(d)' = Placed(d)  BY <1>1 DEF Placed
  <2>2. CASE d = writer.ref
    <3>1. Placed(d) # 0  BY <1>1, <2>2 DEF Shapes, IndexShape
    <3> QED  BY <1>1, <1>2, <2>1, <2>2, <3>1 DEF TrueOf
  <2>3. CASE d # writer.ref
    BY <1>1, <1>2, <2>1, <2>3, TrueStill DEF Shapes
  <2> QED  BY <2>2, <2>3
<1> QED  BY <1>4, <1>5, <1>6, TrueOfAll DEF Shapes

(* The file is open: what comes next depends on the fence alone.           *)
LEMMA OpensStep ==
  ASSUME TypeOK, WriterShape, Shapes, Opens
  PROVE  Shapes'
<1>1. /\ writer.pc = "open" /\ state.loaded /\ state.positions[writer.ref] = 0
      /\ lines' = lines /\ tail' = tail /\ state' = state /\ answer' = answer
      /\ writer'.ref = writer.ref
      /\ writer'.pc = IF state.fenced THEN "recover" ELSE "header"
  BY DEF Opens, WriterShape, Appending, Indexed, Move, TypeOK
<1>2. FileShape'  BY <1>1 DEF Shapes, FileShape
<1>3. IndexShape'  BY <1>1 DEF Shapes, IndexShape, Placed
<1>4. ASSUME NEW d \in Refs PROVE TrueOf(d)
  <2>1. Placed(d)' = Placed(d)  BY <1>1 DEF Placed
  <2> QED  BY <1>1, <2>1, TrueStill DEF Shapes
<1> QED  BY <1>2, <1>3, <1>4, TrueOfAll DEF Shapes

(* Recovery reads back a record written and never acknowledged.            *)
LEMMA RecoversStep ==
  ASSUME TypeOK, WriterShape, Shapes, Recovers
  PROVE  Shapes'
<1>1. /\ writer.pc = "recover" /\ writer.ref \in Refs
      /\ lines' = lines /\ tail' = FALSE /\ state' = Rebuilt(lines, FALSE)
  BY DEF Recovers, WriterShape, Appending
<1>2. /\ state'.positions = Positions(lines, Len(lines))
      /\ state'.loaded /\ ~ state'.unusable /\ state'.fenced = FALSE
  BY <1>1, RebuiltHere DEF Shapes
<1>3. \A d \in Refs : Placed(d)' = Placed(d) /\ state'.positions[d] = Placed(d)
  BY <1>1, <1>2 DEF Placed
<1>4. CASE state'.positions[writer.ref] # 0
  <2>1. Answered("exists", 0) /\ "exists" \in Words /\ 0 \in Nat
    BY <1>4 DEF Recovers, Words
  <2>2. /\ writer' = Idle /\ answer'[writer.ref].said = "exists"
        /\ \A d \in Refs : d # writer.ref => answer'[d] = answer[d]
    BY <1>1, <2>1, AnsweredTyped
  <2>3. writer'.pc = "idle"  BY <2>2 DEF Idle
  <2>4. FileShape'  BY <1>1, <2>3 DEF Shapes, FileShape
  <2>5. IndexShape'  BY <1>1, <1>2, <1>3, <2>3 DEF IndexShape
  <2>6. ASSUME NEW d \in Refs PROVE TrueOf(d)
    <3>1. CASE d = writer.ref  BY <1>3, <1>4, <2>2, <3>1 DEF TrueOf
    <3>2. CASE d # writer.ref  BY <1>3, <2>2, <3>2, TrueStill DEF Shapes
    <3> QED  BY <3>1, <3>2
  <2> QED  BY <2>4, <2>5, <2>6, TrueOfAll DEF Shapes
<1>5. CASE state'.positions[writer.ref] = 0
  <2>1. answer' = answer /\ writer'.pc = "header" /\ writer'.ref = writer.ref
    BY <1>5 DEF Recovers, Move, TypeOK
  <2>2. FileShape'  BY <1>1, <1>2, <2>1 DEF Shapes, FileShape
  <2>3. IndexShape'  BY <1>1, <1>2, <1>3, <1>5, <2>1 DEF IndexShape
  <2>4. ASSUME NEW d \in Refs PROVE TrueOf(d)
    BY <1>3, <2>1, TrueStill DEF Shapes
  <2> QED  BY <2>2, <2>3, <2>4, TrueOfAll DEF Shapes
<1> QED  BY <1>4, <1>5

(* The three ways to be refused before anything is written.                *)
LEMMA RefusalsStep ==
  ASSUME TypeOK, WriterShape, Shapes, OpenFails \/ RecoveryFails \/ RecordTooLarge
  PROVE  Shapes'
<1>1. /\ Answered("refused", 0) /\ state' = state /\ lines' = lines
      /\ writer.pc \in {"open", "recover", "header", "record"}
      /\ state.positions[writer.ref] = 0
      /\ tail' = tail \/ tail' = FALSE
      /\ tail \in BOOLEAN
  BY DEF OpenFails, RecoveryFails, RecordTooLarge, Shapes, IndexShape, Indexed, TypeOK
<1>2. WellFormed(lines') /\ Positions(lines', Len(lines')) = Positions(lines, Len(lines))
  BY <1>1 DEF Shapes, FileShape
<1>3. ~ state.fenced => tail' = tail
  BY <1>1 DEF Shapes, FileShape, WriterShape, Appending
<1>4. ~ state.fenced => Rebuilt(lines', tail') = Rebuilt(lines, tail)
  BY <1>1, <1>3
<1>5. tail' \in BOOLEAN /\ (tail' => tail)
  <2>1. CASE tail' = tail  BY <1>1, <2>1
  <2>2. CASE tail' = FALSE  BY <2>2
  <2> QED  BY <1>1, <2>1, <2>2
<1> QED  BY <1>1, <1>2, <1>4, <1>5, RefusedStep

-----------------------------------------------------------------------------
(* The header's write, and what is left of it when it does not return.     *)
LEMMA HeaderShapes ==
  ASSUME TypeOK, WriterShape, Shapes, HeaderStep
  PROVE  Shapes'
<1>1. /\ writer.pc = "header" /\ state.loaded /\ ~ state.fenced /\ tail = FALSE
      /\ state' = state /\ answer' = answer /\ tail' = tail
      /\ writer'.pc = "record" /\ writer'.ref = writer.ref
      /\ lines' = IF HeaderNeeded THEN Append(lines, Header) ELSE lines
  BY DEF HeaderStep, WriterShape, Appending, Shapes, FileShape, Move, TypeOK
<1>2. /\ WellFormed(lines') /\ lines' # <<>>
      /\ Positions(lines', Len(lines')) = Positions(lines, Len(lines))
      /\ Rebuilt(lines', tail') = Rebuilt(lines, tail)
  <2>1. CASE HeaderNeeded
    <3>1. lines' = Landed(Header)  BY <1>1, <2>1 DEF Landed
    <3> QED  BY <1>1, <2>1, <3>1, HeaderEffect DEF Shapes
  <2>2. CASE ~ HeaderNeeded
    BY <1>1, <2>2 DEF HeaderNeeded, Shapes, FileShape
  <2> QED  BY <2>1, <2>2
<1>3. FileShape'  BY <1>1, <1>2 DEF Shapes, FileShape
<1>4. IndexShape'  BY <1>1, <1>2 DEF Shapes, IndexShape, Placed
<1>5. ASSUME NEW d \in Refs PROVE TrueOf(d)
  <2>1. Placed(d)' = Placed(d)  BY <1>2 DEF Placed
  <2> QED  BY <1>1, <2>1, TrueStill DEF Shapes
<1> QED  BY <1>3, <1>4, <1>5, TrueOfAll DEF Shapes

(* A header cut short without an escape left a header or nothing.          *)
LEMMA HeaderFailsStep ==
  ASSUME TypeOK, WriterShape, Shapes, HeaderFails, ~ escaped'
  PROVE  Shapes'
<1>1. /\ writer.pc = "header" /\ HeaderNeeded /\ Answered("refused", 0) /\ state' = state
      /\ tail = FALSE /\ state.positions[writer.ref] = 0
      /\ CutShort(Header) /\ ~ tail'
  BY DEF HeaderFails, Shapes, FileShape, IndexShape, TypeOK
<1>2. tail' = FALSE /\ (lines' = lines \/ lines' = Landed(Header))
  BY <1>1 DEF CutShort
<1>3. /\ WellFormed(lines')
      /\ Positions(lines', Len(lines')) = Positions(lines, Len(lines))
      /\ Rebuilt(lines', tail') = Rebuilt(lines, tail)
  <2>1. CASE lines' = lines  BY <1>1, <1>2, <2>1 DEF Shapes, FileShape
  <2>2. CASE lines' = Landed(Header)  BY <1>1, <1>2, <2>2, HeaderEffect DEF Shapes
  <2> QED  BY <1>2, <2>1, <2>2
<1> QED  BY <1>1, <1>2, <1>3, RefusedStep

(* The record is on the file and nobody has been told of it.               *)
LEMMA RecordShapes ==
  ASSUME TypeOK, TypeOK', WriterShape, WriterShape', Shapes, RecordWritten
  PROVE  Shapes'
<1>1. /\ writer.pc = "record" /\ lines' = Landed(Envelope(writer.ref, state.next))
      /\ tail' = FALSE /\ state' = state /\ answer' = answer
      /\ writer'.pc = "synced" /\ writer'.ref = writer.ref
      /\ ~ state.fenced /\ state.loaded /\ ~ state.unusable
  BY DEF RecordWritten, Move, TypeOK, Shapes, FileShape, IndexShape, WriterShape, Appending
<1>2. /\ writer.ref \in Refs /\ lines # <<>>
      /\ state.positions = Positions(lines, Len(lines))
      /\ state.next = Len(lines) /\ state.next # 0
      /\ Placed(writer.ref) = 0
      /\ Len(lines') = Len(lines) + 1
      /\ WellFormed(lines')
      /\ Positions(lines', Len(lines')) = [Positions(lines, Len(lines)) EXCEPT ![writer.ref] = Len(lines)]
  BY <1>1, RecordEffect DEF Shapes
<1>3. state.positions \in [Refs -> Nat] /\ Len(lines) \in Nat  BY DEF TypeOK
<1>4. \A d \in Refs : Placed(d)' = IF d = writer.ref THEN state.next ELSE Placed(d)
  BY <1>2, <1>3 DEF Placed
<1>5. \A d \in Refs : state.positions[d] = Placed(d)
  BY <1>2 DEF Placed
<1>6. state.positions = [Positions(lines', Len(lines')) EXCEPT ![writer.ref] = 0]
  BY <1>2, <1>3, <1>5
<1>7. FileShape'  BY <1>1, <1>2 DEF FileShape
<1>8. IndexShape'
  <2>1. \A d \in Refs : state'.positions[d] \in {0, Placed(d)'}
    BY <1>1, <1>2, <1>4, <1>5
  <2>2. Len(lines') > 1 /\ state'.next = Len(lines') - 1  BY <1>1, <1>2, <1>3
  <2> QED  BY <1>1, <1>2, <1>4, <1>6, <2>1, <2>2 DEF IndexShape
<1>9. ASSUME NEW d \in Refs PROVE TrueOf(d)
  <2>1. CASE d = writer.ref
    <3>1. answer[d].said = "appending"  BY <1>1, <2>1 DEF WriterShape, Appending
    <3> QED  BY <1>1, <2>1, <3>1 DEF TrueOf
  <2>2. CASE d # writer.ref
    BY <1>1, <1>4, <2>2, TrueStill DEF Shapes
  <2> QED  BY <2>1, <2>2
<1> QED  BY <1>7, <1>8, <1>9, TrueOfAll DEF Shapes

(* Where a record's write does not return, a record may be there or not.   *)
LEMMA RecordCutShort ==
  ASSUME TypeOK, WriterShape, Shapes, writer.pc = "record",
         CutShort(Envelope(writer.ref, state.next))
  PROVE  /\ WellFormed(lines')
         /\ \A d \in Refs : d # writer.ref => Placed(d)' = Placed(d)
         /\ state.positions[writer.ref] = 0
         /\ \A d \in Refs : state.positions[d] \in {0, Placed(d)'}
<1>1. /\ state.loaded /\ state.positions[writer.ref] = 0 /\ state.positions \in [Refs -> Nat]
      /\ \A d \in Refs : state.positions[d] \in {0, Placed(d)}
      /\ WellFormed(lines)
  BY DEF Shapes, IndexShape, FileShape, WriterShape, Appending, TypeOK
<1>2. CASE lines' = lines
  <2>1. \A d \in Refs : Placed(d)' = Placed(d)  BY <1>2 DEF Placed
  <2>2. WellFormed(lines')  BY <1>1, <1>2
  <2>3. \A d \in Refs : state.positions[d] \in {0, Placed(d)'}  BY <1>1, <2>1
  <2> QED  BY <1>1, <2>1, <2>2, <2>3
<1>3. CASE lines' = Landed(Envelope(writer.ref, state.next))
  <2>1. /\ WellFormed(lines') /\ state.positions = Positions(lines, Len(lines))
        /\ Positions(lines', Len(lines')) = [Positions(lines, Len(lines)) EXCEPT ![writer.ref] = Len(lines)]
    BY <1>3, RecordEffect DEF Shapes
  <2>2. \A d \in Refs : d # writer.ref => Placed(d)' = Placed(d)
    BY <1>1, <2>1 DEF Placed
  <2> QED  BY <1>1, <2>1, <2>2
<1> QED  BY <1>2, <1>3 DEF CutShort

(* The write of a record fails: the scope is fenced and the caller in doubt.*)
LEMMA RecordFailsStep ==
  ASSUME TypeOK, WriterShape, Shapes, RecordFails
  PROVE  Shapes'
<1>1. /\ writer.pc = "record" /\ writer.ref \in Refs /\ state.loaded /\ ~ state.unusable
      /\ CutShort(Envelope(writer.ref, state.next))
      /\ state' = [state EXCEPT !.fenced = TRUE]
      /\ Answered("indeterminate", 0) /\ "indeterminate" \in Words /\ 0 \in Nat
  BY DEF RecordFails, WriterShape, Appending, Words, Shapes, IndexShape
<1>2. /\ writer' = Idle /\ answer'[writer.ref].said = "indeterminate"
      /\ answer'[writer.ref].doubt
      /\ \A d \in Refs : d # writer.ref => answer'[d] = answer[d]
  BY <1>1, AnsweredTyped
<1>3. writer'.pc = "idle"  BY <1>2 DEF Idle
<1>4. /\ state'.loaded /\ state'.fenced /\ ~ state'.unusable
      /\ state'.positions = state.positions
  BY <1>1 DEF TypeOK
<1>5. /\ WellFormed(lines')
      /\ \A d \in Refs : d # writer.ref => Placed(d)' = Placed(d)
      /\ \A d \in Refs : state.positions[d] \in {0, Placed(d)'}
  BY <1>1, RecordCutShort
<1>6. FileShape'  BY <1>3, <1>4, <1>5 DEF FileShape
<1>7. IndexShape'  BY <1>3, <1>4, <1>5 DEF IndexShape
<1>8. ASSUME NEW d \in Refs PROVE TrueOf(d)
  <2>1. CASE d = writer.ref  BY <1>2, <2>1 DEF TrueOf
  <2>2. CASE d # writer.ref
    BY <1>1, <1>2, <1>4, <1>5, <2>2, TrueStill DEF Shapes
  <2> QED  BY <2>1, <2>2
<1> QED  BY <1>6, <1>7, <1>8, TrueOfAll DEF Shapes

(* The position answered is the record's, and the index is the file's.     *)
LEMMA PublishedStep ==
  ASSUME TypeOK, WriterShape, Shapes, Published
  PROVE  Shapes'
<1>1. /\ writer.pc = "synced" /\ writer.ref \in Refs /\ lines' = lines /\ tail' = tail
      /\ state.loaded /\ ~ state.unusable /\ ~ state.fenced /\ ~ tail
      /\ Len(lines) > 1 /\ state.next = Len(lines) - 1 /\ Placed(writer.ref) = state.next
      /\ state.positions = [Positions(lines, Len(lines)) EXCEPT ![writer.ref] = 0]
      /\ lines \in Seq(Line) /\ WellFormed(lines)
      /\ Answered("acked", state.next) /\ "acked" \in Words /\ state.next \in Nat
  BY DEF Published, WriterShape, Appending, Words, Shapes, FileShape, IndexShape, TypeOK
<1>2. /\ writer' = Idle /\ answer'[writer.ref].said = "acked"
      /\ answer'[writer.ref].position = state.next
      /\ \A d \in Refs : d # writer.ref => answer'[d] = answer[d]
  BY <1>1, AnsweredTyped
<1>3. writer'.pc = "idle"  BY <1>2 DEF Idle
<1>4. Len(lines) \in Nat /\ Positions(lines, Len(lines)) \in [Refs -> Nat]
  BY <1>1, PositionsTyped
<1>5. [state.positions EXCEPT ![writer.ref] = state.next] = Positions(lines, Len(lines))
  BY <1>1, <1>4 DEF Placed
<1>6. /\ state' = [state EXCEPT !.positions = Positions(lines, Len(lines)),
                                !.next = Len(lines)]
      /\ state \in ScopeState
  <2>1. state.next + 1 = Len(lines)  BY <1>1, <1>4
  <2> QED  BY <1>5, <2>1 DEF Published, TypeOK, ScopeState
<1>7. state' = [loaded |-> TRUE, next |-> Len(lines), positions |-> Positions(lines, Len(lines)),
                unusable |-> FALSE, fenced |-> FALSE]
  BY <1>1, <1>6 DEF ScopeState
<1>8. state' = Rebuilt(lines', tail')
  <2>1. tail' = FALSE /\ lines' = lines  BY <1>1 DEF TypeOK
  <2>2. (IF Len(lines) = 0 THEN 1 ELSE Len(lines)) = Len(lines)  BY <1>1, <1>4
  <2>3. Rebuilt(lines, FALSE) =
          [loaded |-> TRUE, next |-> IF Len(lines) = 0 THEN 1 ELSE Len(lines),
           positions |-> Positions(lines, Len(lines)), unusable |-> FALSE, fenced |-> FALSE]
    BY <1>1, RebuiltOfRecords
  <2> QED  BY <1>7, <2>1, <2>2, <2>3
<1>9. \A d \in Refs : Placed(d)' = Placed(d) /\ state'.positions[d] = Placed(d)
  BY <1>1, <1>7 DEF Placed
<1>10. FileShape'  BY <1>1, <1>3, <1>7 DEF Shapes, FileShape
<1>11. IndexShape'  BY <1>3, <1>7, <1>8, <1>9 DEF IndexShape
<1>12. ASSUME NEW d \in Refs PROVE TrueOf(d)
  <2>1. CASE d = writer.ref
    <3>1. Placed(d) # 0  BY <1>1, <1>4, <2>1
    <3> QED  BY <1>1, <1>2, <1>9, <2>1, <3>1 DEF TrueOf
  <2>2. CASE d # writer.ref
    BY <1>2, <1>9, <2>2, TrueStill DEF Shapes
  <2> QED  BY <2>1, <2>2
<1> QED  BY <1>10, <1>11, <1>12, TrueOfAll DEF Shapes

-----------------------------------------------------------------------------
(* The process ends: whoever was being answered is in doubt.               *)
LEMMA CrashStep ==
  ASSUME TypeOK, WriterShape, Shapes, Crash
  PROVE  Shapes'
<1>1. /\ state' = NotLoaded /\ writer'.pc = "down" /\ writer'.ref = NoRef
      /\ answer' = [d \in Refs |-> IF d = writer.ref THEN Told(answer[d], "lost", 0)
                                   ELSE answer[d]]
  BY DEF Crash, Idle
<1>2. ~ state'.loaded /\ ~ state'.unusable  BY <1>1 DEF NotLoaded
<1>3. /\ WellFormed(lines')
      /\ \A d \in Refs : d # writer.ref => Placed(d)' = Placed(d)
  <2>1. CASE writer.pc = "header" /\ HeaderNeeded
    <3>1. lines' = lines \/ lines' = Landed(Header)  BY <2>1 DEF Crash, CutShort
    <3>2. CASE lines' = lines  BY <3>2 DEF Shapes, FileShape, Placed
    <3>3. CASE lines' = Landed(Header)
      BY <2>1, <3>3, HeaderEffect DEF Shapes, Placed
    <3> QED  BY <3>1, <3>2, <3>3
  <2>2. CASE writer.pc = "record"
    <3>1. CutShort(Envelope(writer.ref, state.next))  BY <2>2 DEF Crash
    <3> QED  BY <2>2, <3>1, RecordCutShort
  <2>3. CASE ~ (writer.pc = "header" /\ HeaderNeeded) /\ writer.pc # "record"
    <3>1. lines' = lines  BY <2>3 DEF Crash
    <3> QED  BY <3>1 DEF Shapes, FileShape, Placed
  <2> QED  BY <2>1, <2>2, <2>3
<1>4. FileShape'  BY <1>1, <1>2, <1>3 DEF FileShape
<1>5. IndexShape'  BY <1>1, <1>2 DEF IndexShape
<1>6. ASSUME NEW d \in Refs PROVE TrueOf(d)
  <2>1. CASE d = writer.ref
    <3>1. answer[d] \in Receipt /\ "lost" \in Words /\ 0 \in Nat
      BY DEF TypeOK, Receipt, Words
    <3>2. answer'[d] = Told(answer[d], "lost", 0)  BY <1>1, <2>1
    <3>3. answer'[d].said = "lost" /\ answer'[d].doubt  BY <3>1, <3>2, ToldTyped
    <3> QED  BY <3>3 DEF TrueOf
  <2>2. CASE d # writer.ref
    <3>1. answer'[d] = answer[d] /\ Placed(d)' = Placed(d)  BY <1>1, <1>3, <2>2
    <3> QED  BY <1>2, <3>1 DEF Shapes, AnswerShape, TrueOf
  <2> QED  BY <2>1, <2>2
<1> QED  BY <1>4, <1>5, <1>6, TrueOfAll DEF Shapes

(* A start reads the index off the file.                                   *)
LEMMA StartStep ==
  ASSUME TypeOK, WriterShape, Shapes, Start
  PROVE  Shapes'
<1>1. /\ lines' = lines /\ tail' = FALSE /\ answer' = answer
      /\ writer'.pc = "idle" /\ writer'.ref = NoRef
      /\ state' = Rebuilt(lines, FALSE) \/ state' = NotLoaded
  BY DEF Start, Idle
<1>2. \A d \in Refs : Placed(d)' = Placed(d)  BY <1>1 DEF Placed
<1>3. CASE state' = Rebuilt(lines, FALSE)
  <2>1. /\ state'.positions = Positions(lines, Len(lines))
        /\ state'.loaded /\ ~ state'.unusable
    BY <1>3, RebuiltHere DEF Shapes
  <2>2. FileShape'  BY <1>1 DEF Shapes, FileShape
  <2>3. \A d \in Refs : state'.positions[d] = Placed(d)  BY <2>1 DEF Placed
  <2>4. IndexShape'  BY <1>1, <1>2, <1>3, <2>1, <2>3 DEF IndexShape
  <2>5. ASSUME NEW d \in Refs PROVE TrueOf(d)
    BY <1>1, <1>2, <2>3, TrueStill DEF Shapes
  <2> QED  BY <2>2, <2>4, <2>5, TrueOfAll DEF Shapes
<1>4. CASE state' = NotLoaded
  <2>1. ~ state'.loaded /\ ~ state'.unusable  BY <1>4 DEF NotLoaded
  <2>2. FileShape'  BY <1>1 DEF Shapes, FileShape
  <2>3. IndexShape'  BY <1>1, <2>1 DEF IndexShape
  <2>4. ASSUME NEW d \in Refs PROVE TrueOf(d)
    BY <1>1, <1>2, <2>1 DEF Shapes, AnswerShape, TrueOf
  <2> QED  BY <2>2, <2>3, <2>4, TrueOfAll DEF Shapes
<1> QED  BY <1>1, <1>3, <1>4

(* An error that escaped is never forgotten.                               *)
LEMMA EscapedStays ==
  ASSUME TypeOK, [LogNext]_vars, ~ escaped'
  PROVE  ~ escaped
BY DEF LogNext, vars, logVars, TypeOK, AppendBegins, AppendUnusable, AppendDuplicate, Opens,
   OpenFails, Recovers, RecoveryFails, HeaderStep, HeaderFails, RecordTooLarge,
   RecordWritten, RecordFails, Published, DirectoryFails, Crash, Start

(* Every step keeps the invariant of the authority.                        *)
LEMMA AuthorityStep ==
  ASSUME AuthorityInv, [LogNext]_vars
  PROVE  AuthorityInv'
<1>1. TypeOK /\ WriterShape /\ TypeOK' /\ WriterShape'
  BY LogTypeStep, WriterStep DEF AuthorityInv
<1>2. ASSUME ~ escaped' PROVE Shapes'
  <2>1. Shapes /\ ~ escaped  BY <1>1, <1>2, EscapedStays DEF AuthorityInv, Shapes
  <2>2. ~ AppendUnusable  BY <2>1 DEF AppendUnusable, Shapes, IndexShape
  <2>3. ~ DirectoryFails  BY <1>2 DEF DirectoryFails
  <2>4. CASE UNCHANGED vars
    BY <2>1, <2>4 DEF vars, logVars, Shapes, FileShape, IndexShape, AnswerShape, Placed
  <2> QED
    BY <1>1, <1>2, <2>1, <2>2, <2>3, <2>4, BeginsStep, DuplicateStep, OpensStep,
       RecoversStep, RefusalsStep, HeaderShapes, HeaderFailsStep, RecordShapes,
       RecordFailsStep, PublishedStep, CrashStep, StartStep DEF LogNext
<1> QED  BY <1>1, <1>2 DEF AuthorityInv, Shapes

(* An empty scope satisfies it.                                            *)
LEMMA AuthorityInit ==
  ASSUME LogInit  PROVE AuthorityInv
<1>1. <<>> \in Seq(Line) /\ Len(<<>>) = 0  OBVIOUS
<1>2. NotLoaded \in ScopeState /\ ~ NotLoaded.loaded /\ ~ NotLoaded.unusable
  BY DEF NotLoaded, NoIndex, ScopeState
<1>3. TypeOK
  <2>1. /\ exists \in BOOLEAN /\ tail \in BOOLEAN /\ escaped \in BOOLEAN
        /\ lines \in Seq(Line)
        /\ state \in ScopeState
    BY <1>1, <1>2 DEF LogInit
  <2>2. writer \in [pc: {"idle", "open", "recover", "header", "record", "synced", "down"},
                    ref: Refs \cup {NoRef}, created: BOOLEAN]
    BY DEF LogInit, Idle
  <2>3. answer \in [Refs -> [said: Words, position: Nat, doubt: BOOLEAN]]
    BY DEF LogInit, Words
  <2>4. appends \in 0..MaxAppends /\ crashes \in 0..MaxCrashes
    BY DecisionLogAssumption DEF LogInit
  <2> QED  BY <2>1, <2>2, <2>3, <2>4 DEF TypeOK, ScopeState
<1>4. WriterShape
  BY DEF LogInit, WriterShape, Idle, Appending
<1>5. FileShape  BY <1>2, HeaderAppended DEF LogInit, FileShape, Idle
<1>6. IndexShape  BY <1>2 DEF LogInit, IndexShape, Idle
<1>7. AnswerShape  BY <1>2 DEF LogInit, AnswerShape
<1> QED  BY <1>3, <1>4, <1>5, <1>6, <1>7 DEF AuthorityInv

-----------------------------------------------------------------------------
(* The chain a file of lines holds.                                        *)
ChainOf(ls) == IF ls = <<>> THEN <<>> ELSE [i \in 1..(Len(ls) - 1) |-> ls[i + 1].ref]

(* What is committed is the chain of the file.                             *)
LEMMA CommittedIsChain ==
  Committed = ChainOf(lines)
BY DEF Committed, ChainOf

(* Position p of the chain is line p + 1 of the file.                      *)
LEMMA ChainShape ==
  ASSUME NEW ls \in Seq(Line)
  PROVE  /\ ChainOf(ls) \in Seq(Refs \cup {NoRef})
         /\ Len(ChainOf(ls)) = IF Len(ls) = 0 THEN 0 ELSE Len(ls) - 1
         /\ \A i \in 1..Len(ChainOf(ls)) : ChainOf(ls)[i] = ls[i + 1].ref
         /\ DOMAIN ChainOf(ls) = 1..Len(ChainOf(ls))
<1>1. Len(ls) \in Nat  OBVIOUS
<1>2. CASE ls = <<>>  BY <1>2 DEF ChainOf
<1>3. CASE ls # <<>>
  <2>1. Len(ls) - 1 \in Nat /\ Len(ls) # 0  BY <1>1, <1>3
  <2>2. ASSUME NEW i \in 1..(Len(ls) - 1) PROVE ls[i + 1].ref \in Refs \cup {NoRef}
    <3>1. i + 1 \in 1..Len(ls)  BY <1>1
    <3>2. ls[i + 1] \in Line  BY <3>1
    <3> QED  BY <3>2 DEF Line
  <2>3. ChainOf(ls) = [i \in 1..(Len(ls) - 1) |-> ls[i + 1].ref]  BY <1>3 DEF ChainOf
  <2>4. ChainOf(ls) \in Seq(Refs \cup {NoRef}) /\ Len(ChainOf(ls)) = Len(ls) - 1
    BY <2>1, <2>2, <2>3
  <2> QED  BY <2>1, <2>3, <2>4
<1> QED  BY <1>2, <1>3

(* A line more is at most one decision more, behind the others.            *)
LEMMA ChainGrows ==
  ASSUME NEW ls \in Seq(Line), NEW l \in Line
  PROVE  ChainOf(Append(ls, l)) = IF ls = <<>> THEN <<>> ELSE Append(ChainOf(ls), l.ref)
<1> DEFINE more == Append(ls, l)
<1>1. /\ more \in Seq(Line) /\ Len(more) = Len(ls) + 1 /\ Len(ls) \in Nat
      /\ more[Len(ls) + 1] = l /\ \A i \in 1..Len(ls) : more[i] = ls[i]
  OBVIOUS
<1>2. l.ref \in Refs \cup {NoRef}  BY DEF Line
<1> HIDE DEF more
<1>3. CASE ls = <<>>
  <2>1. Len(more) = 1  BY <1>1, <1>3
  <2>2. Len(ChainOf(more)) = 0 /\ ChainOf(more) \in Seq(Refs \cup {NoRef})
    BY <1>1, <2>1, ChainShape
  <2>3. ChainOf(more) = <<>>  BY <2>2, EmptySeq
  <2> QED  BY <1>3, <2>3 DEF more
<1>4. CASE ls # <<>>
  <2> DEFINE old == ChainOf(ls)
             new == ChainOf(more)
  <2>1. Len(ls) # 0  BY <1>1, <1>4
  <2>2. /\ old \in Seq(Refs \cup {NoRef}) /\ Len(old) = Len(ls) - 1
        /\ \A i \in 1..(Len(ls) - 1) : old[i] = ls[i + 1].ref
    BY <1>1, <2>1, ChainShape
  <2>3. /\ new \in Seq(Refs \cup {NoRef}) /\ Len(new) = Len(ls)
        /\ \A i \in 1..Len(ls) : new[i] = more[i + 1].ref
    BY <1>1, <2>1, ChainShape
  <2> HIDE DEF old, new
  <2>4. Append(old, l.ref) \in Seq(Refs \cup {NoRef}) /\ Len(Append(old, l.ref)) = Len(ls)
    BY <1>1, <1>2, <2>2
  <2>5. ASSUME NEW i \in 1..Len(ls) PROVE new[i] = Append(old, l.ref)[i]
    <3>1. CASE i = Len(ls)
      <4>1. new[i] = l.ref  BY <1>1, <2>3, <3>1
      <4> QED  BY <1>1, <2>2, <3>1, <4>1
    <3>2. CASE i # Len(ls)
      <4>1. i \in 1..(Len(ls) - 1) /\ i + 1 \in 1..Len(ls)  BY <1>1, <3>2
      <4>2. new[i] = ls[i + 1].ref  BY <1>1, <2>3, <4>1
      <4>3. Append(old, l.ref)[i] = old[i]  BY <1>1, <2>2, <4>1
      <4> QED  BY <2>2, <4>1, <4>2, <4>3
    <3> QED  BY <3>1, <3>2
  <2>6. new = Append(old, l.ref)  BY <1>1, <2>3, <2>4, <2>5, SeqEqual
  <2> QED  BY <1>4, <2>6 DEF old, new, more
<1> QED  BY <1>3, <1>4

(* A chain is a prefix of itself, and of itself with a decision behind it. *)
LEMMA PrefixGrows ==
  ASSUME NEW T, NEW s \in Seq(T), NEW e \in T
  PROVE  IsPrefix(s, s) /\ IsPrefix(s, Append(s, e))
<1>1. Len(s) \in Nat /\ Append(s, e) \in Seq(T) /\ Len(Append(s, e)) = Len(s) + 1
      /\ \A i \in 1..Len(s) : Append(s, e)[i] = s[i]
  OBVIOUS
<1>2. SubSeq(s, 1, Len(s)) \in Seq(T) /\ Len(SubSeq(s, 1, Len(s))) = Len(s)
      /\ \A i \in 1..Len(s) : SubSeq(s, 1, Len(s))[i] = s[i]
  OBVIOUS
<1>3. SubSeq(Append(s, e), 1, Len(s)) \in Seq(T)
      /\ Len(SubSeq(Append(s, e), 1, Len(s))) = Len(s)
      /\ \A i \in 1..Len(s) : SubSeq(Append(s, e), 1, Len(s))[i] = Append(s, e)[i]
  BY <1>1
<1>4. SubSeq(s, 1, Len(s)) = SubSeq(Append(s, e), 1, Len(s))
  BY <1>1, <1>2, <1>3, SeqEqual
<1> QED  BY <1>1, <1>4 DEF IsPrefix

(* A decision is on the chain where, and only where, a rebuild places it.  *)
LEMMA ChainIsPlaced ==
  ASSUME NEW ls \in Seq(Line), WellFormed(ls), NEW d \in Refs
  PROVE  /\ Contains(ChainOf(ls), d) <=> Positions(ls, Len(ls))[d] # 0
         /\ Positions(ls, Len(ls))[d] # 0 =>
              /\ Positions(ls, Len(ls))[d] \in 1..Len(ChainOf(ls))
              /\ ChainOf(ls)[Positions(ls, Len(ls))[d]] = d
<1> DEFINE at == Positions(ls, Len(ls))[d]
           c == ChainOf(ls)
<1>1. Len(ls) \in Nat /\ Len(c) \in Nat  BY ChainShape
<1>2. /\ Len(c) = IF Len(ls) = 0 THEN 0 ELSE Len(ls) - 1
      /\ \A i \in 1..Len(c) : c[i] = ls[i + 1].ref
  BY ChainShape
<1>3. /\ at \in Nat
      /\ at # 0 => at + 1 \in 2..Len(ls) /\ ls[at + 1].ref = d
      /\ \A i \in 2..Len(ls) : ls[i].ref = d => at = i - 1
  BY PositionsOf
<1> HIDE DEF at, c
<1>4. at # 0 => at \in 1..Len(c) /\ c[at] = d
  BY <1>1, <1>2, <1>3
<1>5. Contains(c, d) => at # 0
  <2> SUFFICES ASSUME NEW i \in 1..Len(c), c[i] = d PROVE at # 0
    BY DEF Contains
  <2>1. i + 1 \in 2..Len(ls) /\ ls[i + 1].ref = d  BY <1>1, <1>2
  <2>2. at = i + 1 - 1  BY <1>3, <2>1
  <2> QED  BY <2>2
<1>6. at # 0 => Contains(c, d)
  BY <1>4 DEF Contains
<1> QED  BY <1>4, <1>5, <1>6 DEF at, c

-----------------------------------------------------------------------------
(* The authority.                                                          *)

(* Every reachable state of the log satisfies its inductive invariant.     *)
THEOREM Authority == LogSpec => []AuthorityInv
<1>1. LogInit => AuthorityInv  BY AuthorityInit
<1>2. AuthorityInv /\ [LogNext]_vars => AuthorityInv'  BY AuthorityStep
<1> QED  BY <1>1, <1>2, PTL DEF LogSpec

(* Whatever fails and whenever the process ends, until an error escapes    *)
(* append unfenced: a caller told acked, exists or refused was told the    *)
(* truth of the file, the index is a projection of it, and no line is one  *)
(* a rebuild refuses (FileDecisionStore.append, recover, _rebuild).        *)
THEOREM AuthorityHolds == LogSpec => []FileIsTheAuthority
<1>1. ASSUME AuthorityInv PROVE FileIsTheAuthority
  <2>1. TypeOK /\ WriterShape  BY <1>1 DEF AuthorityInv
  <2>2. ASSUME ~ escaped PROVE Shapes  BY <1>1, <2>2 DEF AuthorityInv, Shapes
  <2>3. AnswersAreTrue
    <3> SUFFICES ASSUME ~ escaped, NEW d \in Refs
                 PROVE  /\ answer[d].said = "acked" =>
                             /\ Rebuilt(lines, tail).positions[d] = answer[d].position
                             /\ Rebuilt(lines, tail).positions[d] # 0
                        /\ answer[d].said = "exists" =>
                             Rebuilt(lines, tail).positions[d] # 0
                        /\ answer[d].said = "refused" /\ ~ answer[d].doubt =>
                             ~ Contains(Committed, d)
      BY DEF AnswersAreTrue
    <3>1. tail \in BOOLEAN /\ lines \in Seq(Line) /\ WellFormed(lines)
      BY <2>1, <2>2 DEF TypeOK, Shapes, FileShape
    <3>2. Rebuilt(lines, tail).positions[d] = Placed(d)
      BY <2>1, <2>2, <3>1, RebuiltHere DEF Shapes, Placed
    <3>3. Contains(Committed, d) <=> Placed(d) # 0
      BY <3>1, ChainIsPlaced, CommittedIsChain DEF Placed
    <3> QED  BY <2>2, <3>2, <3>3 DEF Shapes, AnswerShape
  <2>4. IndexIsProjection
    BY <2>2 DEF IndexIsProjection, Shapes, IndexShape
  <2>5. FileStaysUsable
    <3> SUFFICES ASSUME ~ escaped PROVE UsableLines(lines) = Len(lines)
      BY DEF FileStaysUsable
    <3>1. lines \in Seq(Line) /\ WellFormed(lines)
      BY <2>1, <2>2 DEF TypeOK, Shapes, FileShape
    <3> QED  BY <3>1, WellFormedIsUsable
  <2> QED  BY <2>1, <2>3, <2>4, <2>5 DEF FileIsTheAuthority
<1> QED  BY <1>1, Authority, PTL

-----------------------------------------------------------------------------
(* The promises of the port.                                               *)

(* A step adds one line to the file or none, whatever else it does.        *)
LEMMA LinesGrow ==
  ASSUME TypeOK, WriterShape, [LogNext]_vars
  PROVE  lines' = lines \/ \E l \in Line : lines' = Append(lines, l)
<1>1. Header \in Line /\ Garbage \in Line  BY DEF Header, Garbage, Line
<1>2. ASSUME NEW l \in Line, CutShort(l)
      PROVE  lines' = lines \/ \E k \in Line : lines' = Append(lines, k)
  BY <1>1, <1>2 DEF CutShort, Landed
<1>3. writer.pc = "record" => Envelope(writer.ref, state.next) \in Line
  BY LinesTyped DEF WriterShape, Appending
<1>4. CASE HeaderStep  BY <1>1, <1>4 DEF HeaderStep
<1>5. CASE HeaderFails  BY <1>1, <1>2, <1>5 DEF HeaderFails
<1>6. CASE RecordWritten  BY <1>1, <1>3, <1>6 DEF RecordWritten, Landed
<1>7. CASE RecordFails  BY <1>2, <1>3, <1>7 DEF RecordFails
<1>8. CASE Crash
  <2>1. CASE writer.pc = "header" /\ HeaderNeeded
    <3>1. CutShort(Header)  BY <1>8, <2>1 DEF Crash
    <3> QED  BY <1>1, <1>2, <3>1
  <2>2. CASE writer.pc = "record"
    <3>1. CutShort(Envelope(writer.ref, state.next))  BY <1>8, <2>2 DEF Crash
    <3> QED  BY <1>2, <1>3, <2>2, <3>1
  <2>3. CASE ~ (writer.pc = "header" /\ HeaderNeeded) /\ writer.pc # "record"
    BY <1>8, <2>3 DEF Crash
  <2> QED  BY <2>1, <2>2, <2>3
<1>9. CASE ~ (HeaderStep \/ HeaderFails \/ RecordWritten \/ RecordFails \/ Crash)
  BY <1>9 DEF LogNext, vars, logVars, AppendBegins, AppendUnusable, AppendDuplicate, Opens,
     OpenFails, Recovers, RecoveryFails, RecordTooLarge, Published, DirectoryFails, Start
<1> QED  BY <1>4, <1>5, <1>6, <1>7, <1>8, <1>9

(* The chain a step starts from is a prefix of the one it leaves.          *)
LEMMA CommittedGrows ==
  ASSUME TypeOK, WriterShape, [LogNext]_vars
  PROVE  IsPrefix(Committed, Committed')
<1>1. Committed = ChainOf(lines) /\ Committed' = ChainOf(lines')
  BY CommittedIsChain DEF Committed, ChainOf
<1>2. lines \in Seq(Line) /\ ChainOf(lines) \in Seq(Refs \cup {NoRef})
  BY ChainShape DEF TypeOK
<1>3. CASE lines' = lines  BY <1>1, <1>2, <1>3, PrefixGrows
<1>4. ASSUME NEW l \in Line, lines' = Append(lines, l)
      PROVE  IsPrefix(Committed, Committed')
  <2>1. l.ref \in Refs \cup {NoRef}  BY DEF Line
  <2>2. CASE lines = <<>>
    <3>1. ChainOf(lines') = ChainOf(lines)  BY <1>2, <1>4, <2>2, ChainGrows DEF ChainOf
    <3> QED  BY <1>1, <1>2, <3>1, PrefixGrows
  <2>3. CASE lines # <<>>
    <3>1. ChainOf(lines') = Append(ChainOf(lines), l.ref)  BY <1>2, <1>4, <2>3, ChainGrows
    <3> QED  BY <1>1, <1>2, <2>1, <3>1, PrefixGrows
  <2> QED  BY <2>2, <2>3
<1> QED  BY <1>3, <1>4, LinesGrow

-----------------------------------------------------------------------------
(* A receipt the file bears out is honest of the chain the file holds.     *)
LEMMA BorneOut ==
  ASSUME NEW ls \in Seq(Line), WellFormed(ls), NEW d \in Refs, NEW told \in Receipt,
         told.said = "acked" =>
           /\ Positions(ls, Len(ls))[d] = told.position
           /\ Positions(ls, Len(ls))[d] # 0,
         told.said = "exists" => Positions(ls, Len(ls))[d] # 0,
         told.said = "refused" /\ ~ told.doubt => Positions(ls, Len(ls))[d] = 0
  PROVE  Chain!Honest(d, told, ChainOf(ls))
<1>1. told.said = "acked" => told.position \in DOMAIN ChainOf(ls) /\ ChainOf(ls)[told.position] = d
  BY ChainIsPlaced, ChainShape
<1>2. told.said = "exists" => Contains(ChainOf(ls), d)
  BY ChainIsPlaced
<1>3. told.said = "refused" /\ ~ told.doubt => ~ Contains(ChainOf(ls), d)
  BY ChainIsPlaced
<1> QED  BY <1>1, <1>2, <1>3 DEF Chain!Honest, Chain!Contains, Contains

(* The header commits nothing.                                             *)
LEMMA HeaderCommits ==
  ASSUME TypeOK, WriterShape, Shapes, writer.pc = "header", HeaderNeeded,
         lines' = Landed(Header)
  PROVE  Committed' = Committed
<1>1. lines = <<>> /\ lines' = Append(lines, Header)  BY HeaderEffect DEF Shapes
<1>2. lines \in Seq(Line) /\ Header \in Line  BY HeaderAppended DEF TypeOK
<1>3. ChainOf(lines') = <<>>  BY <1>1, <1>2, ChainGrows
<1> QED  BY <1>1, <1>3 DEF Committed, ChainOf

(* The record commits the decision being appended, which was not there.    *)
LEMMA RecordCommits ==
  ASSUME TypeOK, WriterShape, Shapes, writer.pc = "record",
         lines' = Landed(Envelope(writer.ref, state.next))
  PROVE  /\ ~ Contains(Committed, writer.ref)
         /\ Committed' = Append(Committed, writer.ref)
<1>1. /\ writer.ref \in Refs /\ ~ tail /\ lines # <<>> /\ Placed(writer.ref) = 0
      /\ lines \in Seq(Line) /\ WellFormed(lines)
  BY RecordEffect DEF Shapes, TypeOK, FileShape
<1>2. ~ Contains(ChainOf(lines), writer.ref)
  BY <1>1, ChainIsPlaced DEF Placed
<1>3. lines' = Append(lines, Envelope(writer.ref, state.next))  BY <1>1 DEF Landed
<1>4. Envelope(writer.ref, state.next) \in Line
      /\ Envelope(writer.ref, state.next).ref = writer.ref
  BY <1>1, LinesTyped DEF Envelope
<1>5. ChainOf(lines') = Append(ChainOf(lines), writer.ref)
  BY <1>1, <1>3, <1>4, ChainGrows
<1>6. Committed = ChainOf(lines) /\ Committed' = ChainOf(lines')
  BY CommittedIsChain DEF Committed, ChainOf
<1> QED  BY <1>2, <1>5, <1>6

(* A step of the append in progress that the file bears out is a step of   *)
(* the chain.                                                              *)
LEMMA Progresses ==
  ASSUME TypeOK, TypeOK', WriterShape, Shapes', writer.pc \in Appending,
         NEW word \in Words \ {"nothing"}, NEW position \in 0..Len(Committed'),
         answer' = [answer EXCEPT ![writer.ref] = Told(answer[writer.ref], word, position)],
         \/ Committed' = Committed
         \/ ~ Contains(Committed, writer.ref) /\ Committed' = Append(Committed, writer.ref)
  PROVE  Chain!Next
<1> DEFINE d == writer.ref
<1>1. d \in Refs /\ answer[d].said = "appending"  BY DEF WriterShape
<1>2. /\ lines' \in Seq(Line) /\ WellFormed(lines')
      /\ answer'[d] \in Receipt
      /\ answer'[d].said = "acked" =>
           /\ Positions(lines', Len(lines'))[d] = answer'[d].position
           /\ Positions(lines', Len(lines'))[d] # 0
      /\ answer'[d].said = "exists" => Positions(lines', Len(lines'))[d] # 0
      /\ answer'[d].said = "refused" /\ ~ answer'[d].doubt =>
           Positions(lines', Len(lines'))[d] = 0
  <2> HIDE DEF d
  <2> QED  BY <1>1 DEF Shapes, FileShape, AnswerShape, TypeOK, Receipt, Placed
<1>3. Committed' = ChainOf(lines')  BY DEF Committed, ChainOf
<1> HIDE DEF d
<1>4. Chain!Honest(d, answer'[d], Committed')  BY <1>1, <1>2, <1>3, BorneOut
<1>5. Told(answer[d], word, position) = Chain!Told(answer[d], word, position)
  BY DEF Told, Chain!Told
<1>6. answer' = [answer EXCEPT ![d] = Chain!Told(answer[d], word, position)]
  BY <1>5 DEF d
<1>7. word \in Chain!Words \ {"nothing"}  BY DEF Words, Chain!Words
<1>8. \/ UNCHANGED Committed
      \/ ~ Contains(Committed, d) /\ Committed' = Append(Committed, d)
  BY DEF d
<1>9. Chain!Contains(Committed, d) <=> Contains(Committed, d)
  BY DEF Chain!Contains, Contains
<1>10. Chain!Progress(d)
  BY <1>1, <1>4, <1>6, <1>7, <1>8, <1>9 DEF Chain!Progress
<1> QED  BY <1>1, <1>10 DEF Chain!Next

(* Until an error escapes, every step of the log is one of the chain's.    *)
LEMMA PortStep ==
  ASSUME AuthorityInv, [LogNext]_vars, ~ escaped'
  PROVE  Chain!Next \/ UNCHANGED <<Committed, answer>>
<1>1. TypeOK /\ WriterShape /\ TypeOK' /\ Shapes /\ Shapes'
  BY AuthorityStep, EscapedStays DEF AuthorityInv, Shapes
<1>2. lines' = lines => Committed' = Committed  BY DEF Committed
<1>3. Len(Committed') \in Nat
  BY <1>1, ChainShape DEF Committed, ChainOf, TypeOK
<1>4. ASSUME NEW w \in Words \ {"nothing"}, Answered(w, 0), writer.pc \in Appending,
             Committed' = Committed \/ (~ Contains(Committed, writer.ref)
                                        /\ Committed' = Append(Committed, writer.ref))
      PROVE  Chain!Next
  <2>1. answer' = [answer EXCEPT ![writer.ref] = Told(answer[writer.ref], w, 0)]
    BY <1>4 DEF Answered
  <2>2. 0 \in 0..Len(Committed')  BY <1>3
  <2> QED  BY <1>1, <1>4, <2>1, <2>2, Progresses
<1>5. {"refused", "exists", "indeterminate", "acked", "lost", "appending"} \subseteq Words \ {"nothing"}
  BY DEF Words
<1>6. ASSUME NEW d \in Refs, AppendBegins(d) PROVE Chain!Next
  <2>1. writer.pc = "idle" /\ lines' = lines
        /\ answer' = [answer EXCEPT ![d] = Told(answer[d], "appending", 0)]
    BY <1>6 DEF AppendBegins
  <2>2. answer[d].said # "appending"  BY <1>1, <2>1 DEF WriterShape, Appending
  <2>3. Told(answer[d], "appending", 0) = Chain!Told(answer[d], "appending", 0)
    BY DEF Told, Chain!Told
  <2>4. Chain!Begin(d)  BY <1>2, <2>1, <2>2, <2>3 DEF Chain!Begin
  <2> QED  BY <2>4 DEF Chain!Next
<1>7. ~ AppendUnusable  BY <1>1 DEF AppendUnusable, Shapes, IndexShape
<1>8. CASE AppendDuplicate
  BY <1>2, <1>4, <1>5, <1>8 DEF AppendDuplicate, Appending
<1>9. CASE Opens  BY <1>2, <1>9 DEF Opens, Move
<1>10. CASE OpenFails
  BY <1>2, <1>4, <1>5, <1>10 DEF OpenFails, Appending
<1>11. CASE Recovers
  <2>1. lines' = lines /\ writer.pc \in Appending /\ (Answered("exists", 0) \/ Move("header"))
    BY <1>11 DEF Recovers, Appending
  <2> QED  BY <1>2, <1>4, <1>5, <2>1 DEF Move
<1>12. CASE RecoveryFails
  BY <1>2, <1>4, <1>5, <1>12 DEF RecoveryFails, Appending
<1>13. CASE HeaderStep
  <2>1. writer.pc = "header" /\ answer' = answer
        /\ lines' = IF HeaderNeeded THEN Append(lines, Header) ELSE lines
    BY <1>13 DEF HeaderStep, Move
  <2>2. HeaderNeeded => Landed(Header) = Append(lines, Header)
    BY <1>1, <2>1, HeaderEffect DEF Shapes
  <2>3. Committed' = Committed  BY <1>1, <1>2, <2>1, <2>2, HeaderCommits
  <2> QED  BY <2>1, <2>3
<1>14. CASE HeaderFails
  <2>1. writer.pc = "header" /\ HeaderNeeded /\ Answered("refused", 0)
        /\ (lines' = lines \/ lines' = Landed(Header))
    BY <1>14 DEF HeaderFails, CutShort
  <2>2. Committed' = Committed  BY <1>1, <1>2, <2>1, HeaderCommits
  <2> QED  BY <1>4, <1>5, <2>1, <2>2 DEF Appending
<1>15. CASE RecordTooLarge
  BY <1>2, <1>4, <1>5, <1>15 DEF RecordTooLarge, Appending
<1>16. CASE RecordWritten
  <2>1. writer.pc = "record" /\ writer.pc \in Appending /\ answer' = answer
        /\ lines' = Landed(Envelope(writer.ref, state.next))
    BY <1>16 DEF RecordWritten, Move, Appending
  <2>2. /\ ~ Contains(Committed, writer.ref)
        /\ Committed' = Append(Committed, writer.ref)
    BY <1>1, <2>1, RecordCommits
  <2>3. /\ writer.ref \in Refs /\ answer[writer.ref] \in Receipt
        /\ answer[writer.ref].said = "appending" /\ answer[writer.ref].position = 0
    BY <1>1, <2>1 DEF WriterShape, TypeOK, Receipt
  <2>4. Told(answer[writer.ref], "appending", 0) = answer[writer.ref]
    BY <2>3 DEF Told, Receipt
  <2>5. answer' = [answer EXCEPT ![writer.ref] = Told(answer[writer.ref], "appending", 0)]
    BY <1>1, <2>1, <2>4 DEF TypeOK
  <2>6. 0 \in 0..Len(Committed')  BY <1>3
  <2>7. "appending" \in Words \ {"nothing"}  BY <1>5
  <2> QED  BY <1>1, <2>1, <2>2, <2>5, <2>6, <2>7, Progresses
<1>17. CASE RecordFails
  <2>1. writer.pc = "record" /\ writer.pc \in Appending /\ Answered("indeterminate", 0)
        /\ (lines' = lines \/ lines' = Landed(Envelope(writer.ref, state.next)))
    BY <1>17 DEF RecordFails, CutShort, Appending
  <2> QED  BY <1>1, <1>2, <1>4, <1>5, <2>1, RecordCommits
<1>18. CASE Published
  <2>1. /\ writer.pc = "synced" /\ writer.pc \in Appending /\ lines' = lines
        /\ answer' = [answer EXCEPT ![writer.ref] = Told(answer[writer.ref], "acked", state.next)]
        /\ Len(lines) > 1 /\ state.next = Len(lines) - 1 /\ lines \in Seq(Line)
    BY <1>1, <1>18 DEF Published, Answered, Appending, Shapes, IndexShape, TypeOK
  <2>2. Committed' = ChainOf(lines)  BY <2>1 DEF Committed, ChainOf
  <2>3. Len(lines) \in Nat /\ Len(ChainOf(lines)) = IF Len(lines) = 0 THEN 0 ELSE Len(lines) - 1
    BY <2>1, ChainShape
  <2>4. state.next \in 0..Len(Committed')  BY <2>1, <2>2, <2>3
  <2>5. "acked" \in Words \ {"nothing"}  BY <1>5
  <2> QED  BY <1>1, <1>2, <2>1, <2>4, <2>5, Progresses
<1>19. ~ DirectoryFails  BY DEF DirectoryFails
<1>20. CASE Crash
  <2>1. answer' = [d \in Refs |-> IF d = writer.ref THEN Told(answer[d], "lost", 0)
                                  ELSE answer[d]]
    BY <1>20 DEF Crash
  <2>2. \/ Committed' = Committed
        \/ /\ writer.pc = "record" /\ ~ Contains(Committed, writer.ref)
           /\ Committed' = Append(Committed, writer.ref)
    <3>1. CASE writer.pc = "header" /\ HeaderNeeded
      <4>1. lines' = lines \/ lines' = Landed(Header)  BY <1>20, <3>1 DEF Crash, CutShort
      <4> QED  BY <1>1, <1>2, <3>1, <4>1, HeaderCommits
    <3>2. CASE writer.pc = "record"
      <4>1. lines' = lines \/ lines' = Landed(Envelope(writer.ref, state.next))
        BY <1>20, <3>2 DEF Crash, CutShort
      <4> QED  BY <1>1, <1>2, <3>2, <4>1, RecordCommits
    <3>3. CASE ~ (writer.pc = "header" /\ HeaderNeeded) /\ writer.pc # "record"
      <4>1. lines' = lines  BY <1>20, <3>3 DEF Crash
      <4> QED  BY <1>2, <4>1
    <3> QED  BY <3>1, <3>2, <3>3
  <2>3. CASE writer.pc \in Appending
    <3>1. writer.ref \in Refs /\ answer \in [Refs -> Receipt]
      BY <1>1, <2>3 DEF WriterShape, TypeOK, Receipt
    <3>2. answer' = [answer EXCEPT ![writer.ref] = Told(answer[writer.ref], "lost", 0)]
      BY <2>1, <3>1
    <3>3. 0 \in 0..Len(Committed')  BY <1>3
    <3>4. "lost" \in Words \ {"nothing"}  BY <1>5
    <3> QED  BY <1>1, <2>2, <2>3, <3>2, <3>3, <3>4, Progresses
  <2>4. CASE writer.pc \notin Appending
    <3>1. writer.ref \notin Refs /\ answer \in [Refs -> Receipt]
      BY <1>1, <2>4, DecisionLogAssumption DEF WriterShape, TypeOK, Receipt
    <3>2. answer' = answer  BY <2>1, <3>1
    <3>3. writer.pc # "record"  BY <2>4 DEF Appending
    <3> QED  BY <2>2, <3>2, <3>3
  <2> QED  BY <2>3, <2>4
<1>21. CASE Start  BY <1>2, <1>21 DEF Start
<1>22. CASE UNCHANGED vars  BY <1>2, <1>22 DEF vars, logVars
<1> QED
  BY <1>6, <1>7, <1>8, <1>9, <1>10, <1>11, <1>12, <1>13, <1>14, <1>15, <1>16, <1>17, <1>18,
     <1>19, <1>20, <1>21, <1>22 DEF LogNext

(* The file store implements the authority its port promises: committed    *)
(* decisions are never updated nor deleted, whatever failed, and until an  *)
(* error escapes unfenced every step leaves the chain alone or adds the    *)
(* decision being appended, with an answer true of it.                     *)
THEOREM PortKept == LogSpec => KeepsThePort
<1>1. LogInit => Chain!Init
  BY DEF LogInit, Chain!Init, Committed
<1>2. AuthorityInv /\ [LogNext]_vars =>
        [/\ IsPrefix(Committed, Committed')
         /\ escaped' \/ Chain!Next]_<<Committed, answer>>
  <2> SUFFICES ASSUME AuthorityInv, [LogNext]_vars,
                      ~ (UNCHANGED <<Committed, answer>>)
               PROVE  IsPrefix(Committed, Committed') /\ (escaped' \/ Chain!Next)
    OBVIOUS
  <2>1. IsPrefix(Committed, Committed')  BY CommittedGrows DEF AuthorityInv
  <2>2. escaped' \/ Chain!Next  BY PortStep
  <2> QED  BY <2>1, <2>2
<1> QED  BY <1>1, <1>2, Authority, PTL DEF LogSpec, KeepsThePort

-----------------------------------------------------------------------------
(* The two evaluations of a policy.                                        *)

(***************************************************************************)
(* The rules.                                                              *)
(***************************************************************************)

(* What parse_policy accepted, the recipe accepts.                         *)
LEMMA AcceptedDocument ==
  ASSUME NEW c \in Contents, Accepted(c)
  PROVE  /\ RecordedPolicyAccepted(Document(c))
         /\ \A i \in DOMAIN Document(c).rules : RuleAccepted(Document(c).rules[i])
         /\ Policy(c).rules = [i \in DOMAIN Document(c).rules |-> rule(Document(c).rules[i])]
<1> DEFINE doc == Document(c)
<1> HIDE DEF doc
<1>1. parse_policy(doc).reason = Absent
  BY DEF Accepted, Policy, doc
<1>2. /\ doc.decodes /\ doc.known /\ doc.format = 1 /\ doc.revision
      /\ \A i \in DOMAIN doc.rules : RuleAccepted(doc.rules[i])
      /\ IdsAreUnique(doc.rules)
      /\ parse_policy(doc).rules = [i \in DOMAIN doc.rules |-> rule(doc.rules[i])]
  BY <1>1, PolicyAssumption DEF parse_policy
<1>3. ASSUME NEW raw, RuleAccepted(raw)
      PROVE  RecordedRuleAccepted(raw)
  BY <1>3, RulesAssumption
     DEF RuleAccepted, RecordedRuleAccepted, LifetimeAccepted, review_deadline, DefaultDeadline
<1>4. RecordedPolicyAccepted(doc)
  BY <1>2, <1>3 DEF RecordedPolicyAccepted
<1> QED  BY <1>2, <1>4 DEF Policy, doc

(* The references a record carries name the rules that applied.            *)
LEMMA NamedApplies ==
  ASSUME NEW c \in Contents, Accepted(c), NEW q, NEW i \in DOMAIN Document(c).rules
  PROVE  applies(Policy(c).rules[i], q) <=>
           /\ Document(c).rules[i].capability = q.capability
           /\ ScopeOf(Document(c).rules[i]) = q.scope
           /\ \E reference \in Document(c).rules[i].principals :
                reference \in references_read(Policy(c).rules, q)
           /\ \/ Document(c).rules[i].digest = Absent
              \/ q.digest # Absent /\ Document(c).rules[i].digest = q.digest
<1> DEFINE raw == Document(c).rules[i]
           rules == Policy(c).rules
<1>1. DOMAIN rules = DOMAIN Document(c).rules /\ rules[i] = rule(raw)
  BY AcceptedDocument
<1>2. /\ rules[i].capability = raw.capability /\ rules[i].scope = ScopeOf(raw)
      /\ rules[i].principals = raw.principals /\ rules[i].digest = raw.digest
  BY <1>1 DEF rule
<1>3. rules[i] \in Range(rules)
  BY <1>1 DEF Range
<1>4. ASSUME raw.capability = q.capability, ScopeOf(raw) = q.scope
      PROVE  \A reference \in raw.principals :
               reference \in references_read(rules, q) <=> reference \in Held(q)
  BY <1>2, <1>3, <1>4 DEF references_read
<1> HIDE DEF raw, rules
<1> QED  BY <1>2, <1>4 DEF applies, raw, rules

(* The first rule of the strictest outcome found decides.                  *)
Level(rules, q, level) ==
  {i \in DOMAIN rules : applies(rules[i], q) /\ rules[i].outcome = Strictest[level].outcome}

Decides(rules, q, level, i) ==
  /\ level \in 1..3 /\ i \in Level(rules, q, level)
  /\ \A j \in Level(rules, q, level) : i <= j
  /\ \A k \in 1..3 : k < level => Level(rules, q, k) = {}

LEMMA StrictestDecides ==
  ASSUME NEW n \in Nat, NEW rules, DOMAIN rules = 1..n, NEW q,
         \A i \in DOMAIN rules : rules[i].outcome \in {"allow", "deny", "suspend"}
  PROVE  \/ /\ \A i \in DOMAIN rules : ~ applies(rules[i], q)
            /\ evaluate(rules, q) = [outcome |-> "deny", reason |-> "policy_absent", rule_id |-> Absent]
         \/ \E level \in 1..3, i \in DOMAIN rules :
               /\ Decides(rules, q, level, i)
               /\ evaluate(rules, q) = [outcome |-> Strictest[level].outcome,
                                       reason |-> Strictest[level].reason,
                                       rule_id |-> rules[i].rule_id]
<1> DEFINE with(level) == {i \in DOMAIN rules : /\ applies(rules[i], q)
                                               /\ rules[i].outcome = Strictest[level].outcome}
           Is(k) == with(k) # {} /\ \A j \in 1 .. k - 1 : with(j) = {}
           first == CHOOSE k \in 1..3 : Is(k)
           Found(i) == \A j \in with(first) : i <= j
           found == CHOOSE i \in with(first) : Found(i)
<1>1. CASE \A i \in DOMAIN rules : ~ applies(rules[i], q)
  BY <1>1 DEF evaluate
<1>2. CASE ~ \A i \in DOMAIN rules : ~ applies(rules[i], q)
  <2>1. evaluate(rules, q) = [outcome |-> Strictest[first].outcome, reason |-> Strictest[first].reason,
                              rule_id |-> rules[found].rule_id]
    BY <1>2, Zenon DEF evaluate
  <2>2. \E k \in 1..3 : with(k) # {}
    BY <1>2 DEF Strictest
  <2>3. \E k \in 1..3 : Is(k)
    <3> HIDE DEF with
    <3>1. CASE with(1) # {}  BY <3>1
    <3>2. CASE with(1) = {} /\ with(2) # {}  BY <3>2
    <3>3. CASE with(1) = {} /\ with(2) = {} /\ with(3) # {}  BY <3>3
    <3> QED  BY <2>2, <3>1, <3>2, <3>3
  <2>4. first \in 1..3 /\ Is(first)
    <3> HIDE DEF Is
    <3> QED  BY <2>3
  <2>5. with(first) \in SUBSET Nat
    OBVIOUS
  <2>6. \E i \in with(first) : Found(i)
    <3> HIDE DEF with, first
    <3> QED  BY <2>4, <2>5, LeastNumber
  <2>7. found \in with(first) /\ Found(found)
    <3> HIDE DEF with, first, Found
    <3> QED  BY <2>6
  <2>8. Level(rules, q, first) = with(first) /\ \A k \in 1..3 : Level(rules, q, k) = with(k)
    BY DEF Level
  <2>9. \A k \in 1..3 : k < first => k \in 1..first - 1
    <3> HIDE DEF first
    <3> QED  BY <2>4
  <2>10. Decides(rules, q, first, found)
    <3> HIDE DEF first, found, with
    <3> QED  BY <2>4, <2>7, <2>8, <2>9 DEF Decides
  <2>11. found \in DOMAIN rules
    BY <2>7
  <2> HIDE DEF first, found
  <2> QED  BY <2>1, <2>4, <2>10, <2>11
<1> QED  BY <1>1, <1>2

(* What an accepted policy is made of.                                     *)
LEMMA AcceptedRules ==
  ASSUME NEW c \in Contents, Accepted(c)
  PROVE  /\ Len(Document(c).rules) \in Nat
         /\ DOMAIN Document(c).rules = 1..Len(Document(c).rules)
         /\ DOMAIN Policy(c).rules = 1..Len(Document(c).rules)
         /\ \A i \in DOMAIN Document(c).rules :
               /\ Policy(c).rules[i].outcome = Document(c).rules[i].outcome
               /\ Policy(c).rules[i].rule_id = Document(c).rules[i].id
               /\ Document(c).rules[i].outcome \in {"allow", "deny", "suspend"}
<1>1. Document(c).rules \in Seq(Range(Document(c).rules))
  BY PolicyAssumption
<1>2. Len(Document(c).rules) \in Nat /\ DOMAIN Document(c).rules = 1..Len(Document(c).rules)
  BY <1>1
<1>3. Policy(c).rules = [i \in DOMAIN Document(c).rules |-> rule(Document(c).rules[i])]
  BY AcceptedDocument
<1>4. ASSUME NEW i \in DOMAIN Document(c).rules
      PROVE  /\ Policy(c).rules[i].outcome = Document(c).rules[i].outcome
             /\ Policy(c).rules[i].rule_id = Document(c).rules[i].id
             /\ Document(c).rules[i].outcome \in {"allow", "deny", "suspend"}
  <2>1. Policy(c).rules[i] = rule(Document(c).rules[i])
    BY <1>3
  <2>2. RuleAccepted(Document(c).rules[i])
    BY AcceptedDocument
  <2> QED  BY <2>1, <2>2 DEF rule, RuleAccepted
<1> QED  BY <1>2, <1>3, <1>4

(* The recipe's answer for what a record carries is the live one.          *)
LEMMA EvaluationsAgree ==
  ASSUME NEW c \in Contents, Accepted(c), NEW q, NEW record,
         record.capability = q.capability, record.scope = q.scope, record.digest = q.digest,
         record.references = references_read(Policy(c).rules, q)
  PROVE  evaluate_recorded_inputs(Document(c), record) = evaluate(Policy(c).rules, q)
<1> DEFINE document == Document(c)
           rules == Policy(c).rules
           n == Len(document.rules)
           named(raw) ==
             /\ raw.capability = record.capability
             /\ ScopeOf(raw) = record.scope
             /\ \E reference \in raw.principals : reference \in record.references
             /\ raw.digest = Absent \/ (record.digest # Absent /\ raw.digest = record.digest)
           applying == {i \in DOMAIN document.rules : named(document.rules[i])}
           rank(i) == CASE document.rules[i].outcome = "deny"    -> 1
                        [] document.rules[i].outcome = "suspend" -> 2
                        [] document.rules[i].outcome = "allow"   -> 3
           Chosen(i) == \A j \in applying : rank(i) < rank(j) \/ (rank(i) = rank(j) /\ i <= j)
           chosen == CHOOSE i \in applying : Chosen(i)
<1>1. /\ n \in Nat /\ DOMAIN document.rules = 1..n /\ DOMAIN rules = 1..n
      /\ \A i \in 1..n : /\ rules[i].outcome = document.rules[i].outcome
                         /\ rules[i].rule_id = document.rules[i].id
                         /\ rules[i].outcome \in {"allow", "deny", "suspend"}
  BY AcceptedRules
<1>2. ASSUME NEW i \in 1..n
      PROVE  i \in applying <=> applies(rules[i], q)
  <2>1. i \in applying <=> named(document.rules[i])
    BY <1>1
  <2>2. i \in DOMAIN Document(c).rules
    BY <1>1
  <2>3. applies(Policy(c).rules[i], q) <=>
          /\ Document(c).rules[i].capability = q.capability
          /\ ScopeOf(Document(c).rules[i]) = q.scope
          /\ \E reference \in Document(c).rules[i].principals :
               reference \in references_read(Policy(c).rules, q)
          /\ \/ Document(c).rules[i].digest = Absent
             \/ q.digest # Absent /\ Document(c).rules[i].digest = q.digest
    BY <2>2, NamedApplies
  <2> QED  BY <2>1, <2>3
<1>3. evaluate_recorded_inputs(document, record) =
        IF applying = {}
        THEN [outcome |-> "deny", reason |-> "policy_absent", rule_id |-> Absent]
        ELSE [outcome |-> document.rules[chosen].outcome,
              reason |-> Strictest[rank(chosen)].reason, rule_id |-> document.rules[chosen].id]
  BY Zenon DEF evaluate_recorded_inputs
<1>4. \A i \in 1..n : rank(i) \in 1..3 /\ Strictest[rank(i)].outcome = rules[i].outcome
  BY <1>1 DEF Strictest
<1>5. \A i \in 1..n : \A k \in 1..3 : i \in Level(rules, q, k) <=> i \in applying /\ rank(i) = k
  <2>1. \A k, l \in 1..3 : Strictest[k].outcome = Strictest[l].outcome => k = l
    BY DEF Strictest
  <2> HIDE DEF rank, applying, rules, n
  <2> QED  BY <1>1, <1>2, <1>4, <2>1 DEF Level
<1>6. applying \subseteq 1..n
  BY <1>1
<1> HIDE DEF rank, applying, rules, n, document
<1>7. CASE \A i \in DOMAIN rules : ~ applies(rules[i], q)
  <2>1. applying = {}
    BY <1>1, <1>2, <1>6, <1>7
  <2>2. evaluate(rules, q) = [outcome |-> "deny", reason |-> "policy_absent", rule_id |-> Absent]
    BY <1>7 DEF evaluate
  <2> QED  BY <1>3, <2>1, <2>2 DEF rules, document
<1>8. ASSUME NEW level \in 1..3, NEW found \in DOMAIN rules, Decides(rules, q, level, found),
             evaluate(rules, q) = [outcome |-> Strictest[level].outcome,
                                   reason |-> Strictest[level].reason,
                                   rule_id |-> rules[found].rule_id]
      PROVE  evaluate_recorded_inputs(document, record) = evaluate(rules, q)
  <2>1. found \in applying /\ rank(found) = level
    BY <1>1, <1>5, <1>8 DEF Decides
  <2>2. ASSUME NEW j \in applying
        PROVE  rank(found) < rank(j) \/ (rank(found) = rank(j) /\ found <= j)
    <3>1. j \in 1..n /\ rank(j) \in 1..3 /\ j \in Level(rules, q, rank(j))
      BY <1>4, <1>5, <1>6
    <3>2. ~ (rank(j) < level)
      BY <1>8, <3>1 DEF Decides
    <3>3. rank(j) = level => found <= j
      BY <1>8, <3>1 DEF Decides
    <3> QED  BY <2>1, <3>1, <3>2, <3>3
  <2>3. Chosen(found)
    BY <2>2
  <2>4. ASSUME NEW i \in applying, Chosen(i)
        PROVE  i = found
    <3>1. rank(i) \in 1..3 /\ i \in 1..n /\ found \in 1..n
      BY <1>4, <1>6, <2>1
    <3>2. rank(i) < rank(found) \/ (rank(i) = rank(found) /\ i <= found)
      BY <2>1, <2>4
    <3>3. rank(found) < rank(i) \/ (rank(found) = rank(i) /\ found <= i)
      BY <2>2
    <3> QED  BY <2>1, <3>1, <3>2, <3>3
  <2>5. chosen = found
    <3> HIDE DEF Chosen
    <3> QED  BY <2>1, <2>3, <2>4
  <2>6. found \in 1..n
    BY <1>6, <2>1
  <2>7. document.rules[found].outcome = Strictest[level].outcome
    BY <1>1, <1>4, <2>1, <2>6
  <2>8. document.rules[found].id = rules[found].rule_id
    BY <1>1, <2>6
  <2> QED  BY <1>3, <1>8, <2>1, <2>5, <2>7, <2>8
<1>9. \A i \in DOMAIN rules : rules[i].outcome \in {"allow", "deny", "suspend"}
  BY <1>1
<1> QED  BY <1>1, <1>7, <1>8, <1>9, StrictestDecides DEF rules, document

(* The order of the rules names the rule, not the outcome.                 *)
LEMMA OrderIsNoMatter ==
  ASSUME NEW c \in Contents, Accepted(c), NEW q
  PROVE  LET verdict == evaluate(Policy(c).rules, q)
             other == evaluate(Reverse(Policy(c).rules), q)
         IN  other.outcome = verdict.outcome /\ other.reason = verdict.reason
<1> DEFINE rules == Policy(c).rules
           back == Reverse(rules)
           n == Len(Document(c).rules)
           back_of(i) == n - i + 1
<1>1. /\ n \in Nat /\ DOMAIN rules = 1..n
      /\ \A i \in 1..n : rules[i].outcome \in {"allow", "deny", "suspend"}
  BY AcceptedRules
<1>2. rules = [i \in 1..n |-> rules[i]]
  BY <1>1, AcceptedDocument
<1>3. Len(rules) = n
  BY <1>1, <1>2
<1>4. DOMAIN back = 1..n /\ \A i \in 1..n : back[i] = rules[back_of(i)]
  BY <1>1, <1>3 DEF Reverse
<1>5. \A i \in 1..n : back_of(i) \in 1..n /\ back_of(back_of(i)) = i
  BY <1>1
<1> HIDE DEF rules, back, n, back_of
<1>6. \A i \in 1..n : back[i].outcome \in {"allow", "deny", "suspend"}
  BY <1>1, <1>4, <1>5
<1>7. \A k \in 1..3 : Level(back, q, k) = {} <=> Level(rules, q, k) = {}
  BY <1>1, <1>4, <1>5 DEF Level
<1>8. (\A i \in DOMAIN rules : ~ applies(rules[i], q)) <=> (\A i \in DOMAIN back : ~ applies(back[i], q))
  BY <1>1, <1>4, <1>5
<1>9. ASSUME NEW k \in 1..3, NEW l \in 1..3, NEW i, NEW j,
             Decides(rules, q, k, i), Decides(back, q, l, j)
      PROVE  k = l
  BY <1>7, <1>9 DEF Decides
<1>10. ASSUME NEW k \in 1..3, NEW i, Decides(rules, q, k, i)
       PROVE  applies(rules[i], q) /\ i \in DOMAIN rules
  BY <1>10 DEF Decides, Level
<1>11. ASSUME NEW k \in 1..3, NEW i, Decides(back, q, k, i)
       PROVE  applies(back[i], q) /\ i \in DOMAIN back
  BY <1>11 DEF Decides, Level
<1>12. \/ /\ \A i \in DOMAIN rules : ~ applies(rules[i], q)
          /\ evaluate(rules, q) = [outcome |-> "deny", reason |-> "policy_absent", rule_id |-> Absent]
       \/ \E level \in 1..3, i \in DOMAIN rules :
             /\ Decides(rules, q, level, i)
             /\ evaluate(rules, q) = [outcome |-> Strictest[level].outcome,
                                     reason |-> Strictest[level].reason,
                                     rule_id |-> rules[i].rule_id]
  <2>1. DOMAIN rules = 1..n /\ \A i \in DOMAIN rules : rules[i].outcome \in {"allow", "deny", "suspend"}
    BY <1>1
  <2>2. n \in Nat
    BY <1>1
  <2> QED  BY <2>1, <2>2, StrictestDecides, Zenon
<1>13. \/ /\ \A i \in DOMAIN back : ~ applies(back[i], q)
          /\ evaluate(back, q) = [outcome |-> "deny", reason |-> "policy_absent", rule_id |-> Absent]
       \/ \E level \in 1..3, i \in DOMAIN back :
             /\ Decides(back, q, level, i)
             /\ evaluate(back, q) = [outcome |-> Strictest[level].outcome,
                                     reason |-> Strictest[level].reason,
                                     rule_id |-> back[i].rule_id]
  <2>1. DOMAIN back = 1..n /\ \A i \in DOMAIN back : back[i].outcome \in {"allow", "deny", "suspend"}
    BY <1>4, <1>6
  <2>2. n \in Nat
    BY <1>1
  <2> QED  BY <2>1, <2>2, StrictestDecides, Zenon
<1>14. evaluate(back, q).outcome = evaluate(rules, q).outcome /\ evaluate(back, q).reason = evaluate(rules, q).reason
  BY <1>8, <1>9, <1>10, <1>11, <1>12, <1>13
<1> QED  BY <1>14 DEF rules, back

-----------------------------------------------------------------------------
(* The variables' own types, without what the invariant adds to them.      *)
Fields ==
  /\ name \in Files \cup {NoFile}
  /\ file \in [Files -> Contents]
  /\ archive \in [Contents -> {Absent, Volatile, Durable}]
  /\ orphans \subseteq Contents /\ interrupted \subseteq Contents
  /\ lock \in Threads \cup {NoFile}
  /\ current \in Contents \cup {Absent} /\ projected \in Contents \cup {Absent}
  /\ thread \in [Threads -> Calls]
  /\ life \in Lives
  /\ life.at = "read" => life.raw \in Contents /\ life.held # NoFile
  /\ \A t \in Threads :
       /\ thread[t].at \in {"opened", "read"} => thread[t].opened \in Files
       /\ thread[t].at \notin {"idle", "opened"} => thread[t].raw \in Contents

(* The type invariant is the fields and what relates them.                 *)
LEMMA TypesAre ==
  Types <=> /\ Fields
            /\ lock # NoFile <=> \E t \in Threads : thread[t].at \in Writing
            /\ life.at = "serving" => current # Absent
BY DEF Types, PolicyTypeOK, Fields, Writing

(* The same after a step.                                                  *)
LEMMA TypesAreNext ==
  Types' <=> /\ Fields'
             /\ lock' # NoFile <=> \E t \in Threads : thread'[t].at \in Writing
             /\ life'.at = "serving" => current' # Absent
BY DEF Types, PolicyTypeOK, Fields, Writing

(***************************************************************************)
(* What a step does to a call and to a start, member by member.            *)
(***************************************************************************)
Others(t) == \A u \in Threads : u # t => thread'[u] = thread[u]

SameCall(was, is) ==
  is.question = was.question /\ is.opened = was.opened /\ is.raw = was.raw
  /\ is.seen = was.seen /\ is.moves = was.moves

Fresh(call) ==
  /\ call.at = "idle" /\ call.question = Absent /\ call.raw = Absent
  /\ call.seen = {} /\ call.moves = 0

To(t, at) ==
  /\ thread' \in [Threads -> Calls] /\ Others(t)
  /\ thread'[t].at = at /\ SameCall(thread[t], thread'[t])

Over(t) ==
  thread' \in [Threads -> Calls] /\ Others(t) /\ Fresh(thread'[t])

(* A call goes on to its next place, or ends.                              *)
LEMMA GoingTo ==
  ASSUME Fields, NEW t \in Threads, NEW at \in Asking, Goes(t, at)
  PROVE  To(t, at)
<1>1. thread \in [Threads -> Calls] /\ thread[t] \in Calls
  BY DEF Fields
<1>2. thread' = [thread EXCEPT ![t] = [thread[t] EXCEPT !.at = at]]
  BY DEF Goes
<1> DEFINE next == [thread[t] EXCEPT !.at = at]
<1>3. next \in Calls /\ next.at = at /\ SameCall(thread[t], next)
  BY <1>1 DEF Calls, SameCall
<1> HIDE DEF next
<1>4. thread' \in [Threads -> Calls] /\ thread'[t] = next /\ Others(t)
  BY <1>1, <1>2, <1>3 DEF Others, next
<1> QED  BY <1>3, <1>4 DEF To

(* A thread between calls.                                                 *)
LEMMA NoCallIs == NoCall \in Calls /\ Fresh(NoCall)
BY DEF NoCall, Calls, Asking, Fresh

(* A call that ends is forgotten.                                          *)
LEMMA Ending ==
  ASSUME Fields, NEW t \in Threads, Ends(t)
  PROVE  Over(t)
<1>1. thread \in [Threads -> Calls]
  BY DEF Fields
<1>2. NoCall \in Calls /\ Fresh(NoCall)
  BY NoCallIs
<1>3. thread' \in [Threads -> Calls] /\ thread'[t] = NoCall /\ Others(t)
  BY <1>1, <1>2 DEF Others, Ends
<1> QED  BY <1>2, <1>3 DEF Over

(* A call begins with the file the name reaches.                           *)
LEMMA OpenedFor ==
  ASSUME Fields, NEW t \in Threads, NEW question \in Questions \cup {Absent}, Open(t, question)
  PROVE  /\ life.at = "serving" /\ thread[t].at = "idle"
         /\ \/ thread' = thread
            \/ /\ thread' \in [Threads -> Calls] /\ Others(t)
               /\ name # NoFile
               /\ thread'[t].at = "opened" /\ thread'[t].opened = name
               /\ thread'[t].seen = {file[name]} /\ thread'[t].moves = 0
         /\ UNCHANGED <<name, file, archive, orphans, interrupted, lock, life,
                        current, projected, excused, committed>>
<1>1. thread \in [Threads -> Calls]
  BY DEF Fields
<1> DEFINE call == [NoCall EXCEPT !.at = "opened", !.question = question, !.opened = name, !.seen = Under(name)]
<1>2. name # NoFile => /\ call \in Calls /\ call.at = "opened" /\ call.opened = name
                       /\ call.seen = {file[name]} /\ call.moves = 0
  BY DEF Fields, Calls, Asking, NoCall, Under
<1>3. thread' = IF name = NoFile THEN thread ELSE [thread EXCEPT ![t] = call]
  BY DEF Open
<1> HIDE DEF call
<1>4. CASE name = NoFile  BY <1>3, <1>4 DEF Open, fileVars, archiveVars, serviceVars
<1>5. CASE name # NoFile
  <2>1. thread' \in [Threads -> Calls] /\ thread'[t] = call /\ Others(t)
    BY <1>1, <1>2, <1>3, <1>5 DEF Others
  <2> QED  BY <1>2, <1>5, <2>1 DEF Open, fileVars, archiveVars, serviceVars
<1> QED  BY <1>4, <1>5

(* The read takes the bytes of the file that was opened.                   *)
LEMMA ReadOf ==
  ASSUME Fields, NEW t \in Threads, Read(t)
  PROVE  /\ thread[t].at = "opened"
         /\ thread' \in [Threads -> Calls] /\ Others(t)
         /\ thread'[t].at = "read" /\ thread'[t].raw = file[thread[t].opened]
         /\ thread'[t].question = thread[t].question /\ thread'[t].opened = thread[t].opened
         /\ thread'[t].seen = thread[t].seen /\ thread'[t].moves = thread[t].moves
         /\ UNCHANGED <<name, file, archive, orphans, interrupted, lock, life,
                        current, projected, excused, committed>>
<1>1. thread \in [Threads -> Calls] /\ thread[t] \in Calls /\ thread[t].at = "opened"
  BY DEF Fields, Read
<1> DEFINE call == [thread[t] EXCEPT !.at = "read", !.raw = file[thread[t].opened]]
<1>2. /\ call \in Calls /\ call.at = "read" /\ call.raw = file[thread[t].opened]
      /\ call.question = thread[t].question /\ call.opened = thread[t].opened
      /\ call.seen = thread[t].seen /\ call.moves = thread[t].moves
  <2>1. file[thread[t].opened] \in Contents
    BY <1>1 DEF Fields
  <2> QED  BY <1>1, <2>1 DEF Calls, Asking
<1>3. thread' = [thread EXCEPT ![t] = call]
  BY <1>1 DEF Read
<1> HIDE DEF call
<1>4. thread' \in [Threads -> Calls] /\ thread'[t] = call /\ Others(t)
  BY <1>1, <1>2, <1>3 DEF Others
<1> QED  BY <1>1, <1>2, <1>4 DEF Read, fileVars, archiveVars, serviceVars, bounds

(* An edit is noted by every call in progress.                             *)
LEMMA NotedBy ==
  ASSUME Fields, NEW where \in Files \cup {NoFile}, NEW becomes \in [Files -> Contents], NEW moved \in BOOLEAN,
         thread' = Noted(where, becomes, moved)
  PROVE  /\ thread' \in [Threads -> Calls]
         /\ \A t \in Threads :
              /\ thread'[t].at = thread[t].at /\ thread'[t].question = thread[t].question
              /\ thread'[t].opened = thread[t].opened /\ thread'[t].raw = thread[t].raw
              /\ thread[t].seen \subseteq thread'[t].seen
              /\ thread[t].at # "idle" =>
                   /\ thread'[t].moves = IF moved THEN thread[t].moves + 1 ELSE thread[t].moves
                   /\ where # NoFile => becomes[where] \in thread'[t].seen
<1>1. ASSUME NEW t \in Threads
      PROVE  /\ thread'[t] \in Calls
             /\ thread'[t].at = thread[t].at /\ thread'[t].question = thread[t].question
             /\ thread'[t].opened = thread[t].opened /\ thread'[t].raw = thread[t].raw
             /\ thread[t].seen \subseteq thread'[t].seen
             /\ thread[t].at # "idle" =>
                  /\ thread'[t].moves = IF moved THEN thread[t].moves + 1 ELSE thread[t].moves
                  /\ where # NoFile => becomes[where] \in thread'[t].seen
  <2>1. thread[t] \in Calls
    BY DEF Fields
  <2>2. CASE thread[t].at = "idle"
    BY <2>1, <2>2 DEF Noted
  <2>3. CASE thread[t].at # "idle"
    <3> DEFINE more == IF where = NoFile THEN {} ELSE {becomes[where]}
               seen == thread[t].seen \cup more
               moves == thread[t].moves + (IF moved THEN 1 ELSE 0)
    <3>1. seen \in SUBSET Contents /\ moves \in Nat
      BY <2>1 DEF Calls
    <3>2. thread'[t] = [thread[t] EXCEPT !.seen = seen, !.moves = moves]
      BY <2>3 DEF Noted
    <3>3. /\ thread'[t] \in Calls /\ thread'[t].moves = moves /\ thread'[t].seen = seen
          /\ thread'[t].at = thread[t].at /\ thread'[t].question = thread[t].question
          /\ thread'[t].opened = thread[t].opened /\ thread'[t].raw = thread[t].raw
      <4> HIDE DEF seen, moves
      <4> QED  BY <2>1, <3>1, <3>2 DEF Calls
    <3>4. thread[t].seen \subseteq seen /\ (where # NoFile => becomes[where] \in seen)
      OBVIOUS
    <3>5. moves = IF moved THEN thread[t].moves + 1 ELSE thread[t].moves
      BY <2>1 DEF Calls
    <3> QED  BY <3>3, <3>4, <3>5
  <2> QED  BY <2>2, <2>3
<1>2. DOMAIN thread' = Threads /\ thread' = [t \in Threads |-> thread'[t]]
  BY DEF Noted
<1>3. thread' \in [Threads -> Calls]
  BY <1>1, <1>2
<1> QED  BY <1>1, <1>3

(* A start.                                                                *)
SameLife ==
  life'.held = life.held /\ life'.walked = life.walked /\ life'.raw = life.raw /\ life'.moves = life.moves

DownNow == life' \in Lives /\ life'.at = "down"

(* A daemon that is not there.                                             *)
LEMMA DownIs == Down \in Lives /\ Down.at = "down"
BY DEF Down, Lives

(* A start goes on with what it holds.                                     *)
LEMMA GoingOn ==
  ASSUME Fields, NEW at, at \in {"walked", "judged", "loaded", "recovered", "keeping", "serving"}, StartGoesOn(at)
  PROVE  life' \in Lives /\ life'.at = at /\ SameLife
BY DEF Fields, StartGoesOn, SameLife, Lives

(***************************************************************************)
(* What each action does, member by member.                                *)
(***************************************************************************)
LEMMA RetargetDoes ==
  ASSUME Fields, NEW f \in Files \cup {NoFile}, Retarget(f)
  PROVE  /\ f # name /\ name' = f
         /\ thread' \in [Threads -> Calls]
         /\ \A t \in Threads :
              /\ thread'[t].at = thread[t].at /\ thread'[t].opened = thread[t].opened
              /\ thread'[t].raw = thread[t].raw /\ thread[t].seen \subseteq thread'[t].seen
              /\ thread[t].at # "idle" => thread'[t].moves = thread[t].moves + 1
         /\ life' \in Lives
         /\ life'.at = life.at /\ life'.held = life.held /\ life'.walked = life.walked /\ life'.raw = life.raw
         /\ life'.moves = IF life.at \in {"held", "walked", "judged", "read"} THEN life.moves + 1 ELSE life.moves
         /\ UNCHANGED <<file, archive, orphans, interrupted, lock, current, projected, excused, committed>>
<1>1. file \in [Files -> Contents] /\ thread' = Noted(f, file, TRUE)
  BY DEF Retarget, Fields
<1>2. /\ thread' \in [Threads -> Calls]
      /\ \A t \in Threads :
           /\ thread'[t].at = thread[t].at /\ thread'[t].opened = thread[t].opened
           /\ thread'[t].raw = thread[t].raw /\ thread[t].seen \subseteq thread'[t].seen
           /\ thread[t].at # "idle" => thread'[t].moves = thread[t].moves + 1
  BY <1>1, NotedBy
<1> DEFINE moves == IF life.at \in {"held", "walked", "judged", "read"} THEN life.moves + 1 ELSE life.moves
<1>3. life \in Lives /\ moves \in Nat /\ life' = [life EXCEPT !.moves = moves]
  <2>1. life \in Lives /\ life.moves \in Nat
    BY DEF Fields, Lives
  <2> QED  BY <2>1 DEF Retarget
<1>4. /\ life' \in Lives /\ life'.moves = moves
      /\ life'.at = life.at /\ life'.held = life.held /\ life'.walked = life.walked /\ life'.raw = life.raw
  <2> HIDE DEF moves
  <2> QED  BY <1>3 DEF Lives
<1>5. /\ f # name /\ name' = f
      /\ UNCHANGED <<file, archive, orphans, interrupted, lock, current, projected, excused, committed>>
  BY DEF Retarget, archiveVars, serviceVars
<1> QED  BY <1>2, <1>4, <1>5

(* A file changes in place, and whoever reads has seen what it becomes.    *)
LEMMA RewriteDoes ==
  ASSUME Fields, NEW f \in Files, NEW content \in Contents, Rewrite(f, content)
  PROVE  /\ file' \in [Files -> Contents]
         /\ thread' \in [Threads -> Calls]
         /\ \A t \in Threads :
              /\ thread'[t].at = thread[t].at /\ thread'[t].opened = thread[t].opened
              /\ thread'[t].raw = thread[t].raw /\ thread[t].seen \subseteq thread'[t].seen
              /\ thread[t].at # "idle" =>
                   /\ thread'[t].moves = thread[t].moves
                   /\ name # NoFile => file'[name] \in thread'[t].seen
         /\ UNCHANGED <<name, archive, orphans, interrupted, lock, life, current, projected, excused, committed>>
<1>1. /\ file' \in [Files -> Contents] /\ thread' = Noted(name, file', FALSE)
      /\ name \in Files \cup {NoFile}
  BY DEF Rewrite, Fields
<1>2. UNCHANGED <<name, archive, orphans, interrupted, lock, life, current, projected, excused, committed>>
  BY DEF Rewrite, archiveVars, serviceVars
<1> QED  BY <1>1, <1>2, NotedBy

(* A start holds what the name reaches.                                    *)
LEMMA HoldDoes ==
  ASSUME Fields, HoldAtStart
  PROVE  /\ life.at = "down"
         /\ life' \in Lives /\ life'.at = "held" /\ life'.held = name /\ life'.moves = 0
         /\ UNCHANGED <<name, file, archive, orphans, interrupted, lock, thread, current, projected, excused, committed>>
<1>1. name \in Files \cup {NoFile}
  BY DEF Fields
<1> QED  BY <1>1 DEF HoldAtStart, Down, Lives, fileVars, archiveVars, serviceVars

(* The walk judges what the name reaches now, or refuses the start.        *)
LEMMA WalkDoes ==
  ASSUME Fields, WalkAtStart
  PROVE  /\ life.at = "held"
         /\ \/ DownNow
            \/ /\ life' \in Lives /\ life'.at = "walked" /\ life'.walked = name /\ name # NoFile
               /\ life'.held = life.held /\ life'.moves = life.moves
         /\ UNCHANGED <<name, file, archive, orphans, interrupted, lock, thread, current, projected, excused, committed>>
<1>1. name \in Files \cup {NoFile} /\ life \in Lives
  BY DEF Fields
<1>2. CASE name = NoFile \/ name \in Unprotected
  BY <1>2, DownIs DEF WalkAtStart, StartRefused, DownNow, fileVars, archiveVars, serviceVars
<1>3. CASE ~ (name = NoFile \/ name \in Unprotected)
  <2>1. life' = [life EXCEPT !.at = "walked", !.walked = name]
    BY <1>3 DEF WalkAtStart
  <2>2. /\ life' \in Lives /\ life'.at = "walked" /\ life'.walked = name
        /\ life'.held = life.held /\ life'.moves = life.moves
    BY <1>1, <2>1 DEF Lives
  <2> QED  BY <1>3, <2>2 DEF WalkAtStart, fileVars, archiveVars, serviceVars
<1> QED  BY <1>2, <1>3

(* A start that holds a file holds what the name reaches.                  *)
LEMMA RecheckDoes ==
  ASSUME Fields, RecheckAtStart
  PROVE  /\ life.at = "walked"
         /\ \/ DownNow
            \/ life' \in Lives /\ life'.at = "judged" /\ SameLife /\ (life.held = NoFile \/ name = life.held)
         /\ UNCHANGED <<name, file, archive, orphans, interrupted, lock, thread, current, projected, excused, committed>>
<1>1. \/ StartRefused
      \/ StartGoesOn("judged") /\ (life.held = NoFile \/ name = life.held)
  BY DEF RecheckAtStart, name_still_reaches
<1>2. StartRefused => DownNow
  BY DownIs DEF StartRefused, DownNow
<1>3. StartGoesOn("judged") => life' \in Lives /\ life'.at = "judged" /\ SameLife
  BY GoingOn
<1> QED  BY <1>1, <1>2, <1>3 DEF RecheckAtStart, fileVars, archiveVars, serviceVars

(* A start reads what it holds, or what the name reaches.                  *)
LEMMA ReadAtStartDoes ==
  ASSUME Fields, ReadAtStart
  PROVE  /\ life.at = "judged"
         /\ \/ DownNow
            \/ /\ life' \in Lives /\ life'.at = "read" /\ life'.walked = life.walked /\ life'.moves = life.moves
               /\ life'.held = (IF life.held # NoFile THEN life.held ELSE name)
               /\ life'.held # NoFile /\ life'.raw \in Contents
         /\ UNCHANGED <<name, file, archive, orphans, interrupted, lock, thread, current, projected, excused, committed>>
<1> DEFINE descriptor == IF life.held # NoFile THEN life.held ELSE name
<1>1. life \in Lives /\ descriptor \in Files \cup {NoFile}
  BY DEF Fields, Lives
<1>2. CASE descriptor = NoFile
  BY <1>2, DownIs DEF ReadAtStart, StartRefused, DownNow, fileVars, archiveVars, serviceVars
<1>3. CASE descriptor # NoFile
  <2>1. file[descriptor] \in Contents
    BY <1>1, <1>3 DEF Fields
  <2>2. life' = [life EXCEPT !.at = "read", !.held = descriptor, !.raw = file[descriptor]]
    BY <1>3 DEF ReadAtStart
  <2>3. /\ life' \in Lives /\ life'.at = "read" /\ life'.walked = life.walked /\ life'.moves = life.moves
        /\ life'.held = descriptor /\ life'.raw = file[descriptor]
    <3> HIDE DEF descriptor
    <3> QED  BY <1>1, <2>1, <2>2 DEF Lives
  <2> QED  BY <1>3, <2>1, <2>3 DEF ReadAtStart, fileVars, archiveVars, serviceVars
<1> QED  BY <1>2, <1>3

(* What the store answers a load it is content with.                       *)
LEMMA LoadedFrom ==
  ASSUME NEW descriptor, NEW raw, policy_from(descriptor, raw) = "loaded"
  PROVE  name # NoFile /\ name = descriptor /\ Accepted(raw)
<1>1. name # NoFile /\ name = descriptor
  <2>1. CASE name = NoFile
    <3>1. policy_from(descriptor, raw) = "absent"
      BY <2>1 DEF policy_from
    <3> QED  BY <3>1
  <2>2. CASE name # NoFile /\ name # descriptor
    <3>1. policy_from(descriptor, raw) = "changed_while_read"
      BY <2>2 DEF policy_from, name_still_reaches
    <3> QED  BY <3>1
  <2> QED  BY <2>1, <2>2
<1>2. Policy(raw).reason = Absent
  <2>1. SUFFICES ASSUME Policy(raw).reason # Absent PROVE FALSE
    OBVIOUS
  <2>2. Policy(raw).reason = "loaded"
    BY <1>1, <2>1 DEF policy_from, name_still_reaches
  <2>3. Policy(raw).reason \in {"malformed", "invalid", "format_unsupported", Absent}
    BY DEF Policy, parse_policy
  <2> QED  BY <2>1, <2>2, <2>3
<1> QED  BY <1>1, <1>2 DEF Accepted

(* A policy that was loaded is current and projected.                      *)
LEMMA AnswerAtStartDoes ==
  ASSUME Fields, AnswerAtStart
  PROVE  /\ life.at = "read"
         /\ \/ DownNow /\ UNCHANGED <<current, projected, excused>>
            \/ /\ life' \in Lives /\ life'.at = "loaded" /\ life'.walked = life.walked
               /\ life'.held = life.held /\ life'.moves = life.moves
               /\ current' = projected' /\ current' \in Contents /\ Accepted(current')
         /\ UNCHANGED <<name, file, archive, orphans, interrupted, lock, thread, committed>>
<1>1. CASE policy_from(life.held, life.raw) = "loaded"
  <2>1. Accepted(life.raw)
    BY <1>1, LoadedFrom
  <2>2. life \in Lives /\ life.at = "read" /\ life.raw \in Contents
    BY DEF Fields, AnswerAtStart
  <2>3. /\ life' = [life EXCEPT !.at = "loaded", !.raw = Absent]
        /\ current' = life.raw /\ projected' = life.raw
        /\ UNCHANGED <<name, file, archive, orphans, interrupted, lock, thread, committed>>
    BY <1>1 DEF AnswerAtStart, policy_version, fileVars, archiveVars
  <2>4. /\ life' \in Lives /\ life'.at = "loaded" /\ life'.walked = life.walked
        /\ life'.held = life.held /\ life'.moves = life.moves
    BY <2>2, <2>3 DEF Lives
  <2> QED  BY <2>1, <2>2, <2>3, <2>4
<1>2. CASE policy_from(life.held, life.raw) # "loaded"
  BY <1>2, DownIs DEF AnswerAtStart, StartRefused, DownNow, fileVars, archiveVars, serviceVars
<1> QED  BY <1>1, <1>2

(* The archive after its directory's sync.                                 *)
LEMMA SyncedIs ==
  ASSUME Fields
  PROVE  /\ Synced \in [Contents -> {Absent, Volatile, Durable}]
         /\ \A v \in Contents : Synced[v] = IF archive[v] = Volatile THEN Durable ELSE archive[v]
         /\ LostAlready \subseteq Contents
BY DEF Fields, Synced, LostAlready

(* Recovery removes the temporaries, and syncs when there were any.        *)
LEMMA RecoverDoes ==
  ASSUME Fields, RecoverArchive
  PROVE  /\ life.at = "loaded" /\ life' \in Lives /\ life'.at = "recovered" /\ SameLife
         /\ orphans' = {}
         /\ \/ archive' = archive /\ interrupted' = interrupted
            \/ archive' = Synced /\ interrupted' = LostAlready
         /\ UNCHANGED <<name, file, lock, thread, current, projected, excused, committed>>
<1>1. life' \in Lives /\ life'.at = "recovered" /\ SameLife
  BY GoingOn DEF RecoverArchive
<1> QED  BY <1>1 DEF RecoverArchive, fileVars, serviceVars

(* The start keeps its version by the keep an ask uses.                    *)
LEMMA KeepAtStartDoes ==
  ASSUME Fields, current \in Contents, NEW t \in Threads, KeepAtStart(t)
  PROVE  /\ life.at = "recovered" /\ life' \in Lives /\ life'.at = "keeping" /\ SameLife
         /\ thread' \in [Threads -> Calls] /\ Others(t)
         /\ thread'[t].at = "archive" /\ thread'[t].raw = current
         /\ UNCHANGED <<name, file, archive, orphans, interrupted, lock, current, projected, excused, committed>>
<1>1. life' \in Lives /\ life'.at = "keeping" /\ SameLife
  BY GoingOn DEF KeepAtStart
<1> DEFINE call == [NoCall EXCEPT !.at = "archive", !.raw = current]
<1>2. call \in Calls /\ call.at = "archive" /\ call.raw = current
  BY DEF NoCall, Calls, Asking, Keeping
<1>3. thread' = [thread EXCEPT ![t] = call] /\ thread \in [Threads -> Calls]
  BY DEF KeepAtStart, Fields
<1> HIDE DEF call
<1>4. thread' \in [Threads -> Calls] /\ thread'[t] = call /\ Others(t)
  BY <1>2, <1>3 DEF Others
<1> QED  BY <1>1, <1>2, <1>4 DEF KeepAtStart, fileVars, archiveVars, serviceVars

(* The start's keep is over when the daemon listens.                       *)
LEMMA ListenDoes ==
  ASSUME Fields, NEW t \in Threads, Listen(t)
  PROVE  /\ life.at = "keeping" /\ life' \in Lives /\ life'.at = "serving" /\ SameLife
         /\ thread[t].at = "decide" /\ Over(t)
         /\ UNCHANGED <<name, file, archive, orphans, interrupted, lock, current, projected, excused, committed>>
<1>1. life' \in Lives /\ life'.at = "serving" /\ SameLife
  BY GoingOn DEF Listen
<1>2. Over(t)
  BY Ending DEF Listen, Ends
<1> QED  BY <1>1, <1>2 DEF Listen, fileVars, archiveVars, serviceVars

(* A call goes on only with what the name still reaches.                   *)
LEMMA AnswerDoes ==
  ASSUME Fields, NEW t \in Threads, Answer(t)
  PROVE  /\ thread[t].at = "read"
         /\ \/ /\ To(t, "loaded")
               /\ name # NoFile /\ name = thread[t].opened /\ Accepted(thread[t].raw)
            \/ Over(t)
         /\ UNCHANGED <<name, file, archive, orphans, interrupted, lock, life, current, projected, excused, committed>>
<1>1. \/ Goes(t, "loaded") /\ policy_from(thread[t].opened, thread[t].raw) = "loaded"
      \/ Ends(t)
  BY DEF Answer
<1>2. Goes(t, "loaded") => To(t, "loaded")
  BY GoingTo DEF Asking
<1>3. Ends(t) => Over(t)
  BY Ending
<1>4. policy_from(thread[t].opened, thread[t].raw) = "loaded" =>
        name # NoFile /\ name = thread[t].opened /\ Accepted(thread[t].raw)
  BY LoadedFrom
<1>5. /\ thread[t].at = "read"
      /\ UNCHANGED <<name, file, archive, orphans, interrupted, lock, life, current, projected, excused, committed>>
  BY DEF Answer, fileVars, archiveVars, serviceVars
<1> QED  BY <1>1, <1>2, <1>3, <1>4, <1>5

(* A reload ends after its load, an ask goes on to the archive.            *)
LEMMA AfterLoadDoes ==
  ASSUME Fields, NEW t \in Threads, AfterLoad(t)
  PROVE  To(t, "archive") \/ Over(t)
<1>1. Goes(t, "archive") => To(t, "archive")
  BY GoingTo DEF Asking, Keeping
<1>2. Ends(t) => Over(t)
  BY Ending
<1> QED  BY <1>1, <1>2 DEF AfterLoad

(* A version that moved becomes current before the projection follows.     *)
LEMMA CompareDoes ==
  ASSUME Fields, NEW t \in Threads, Compare(t)
  PROVE  /\ thread[t].at = "loaded"
         /\ \/ current' = thread[t].raw /\ To(t, "rebuild")
            \/ current' = current /\ (To(t, "archive") \/ Over(t))
         /\ UNCHANGED <<name, file, archive, orphans, interrupted, lock, life, projected, excused, committed>>
<1>1. \/ current' = thread[t].raw /\ Goes(t, "rebuild")
      \/ current' = current /\ AfterLoad(t)
  BY DEF Compare, policy_version
<1>2. Goes(t, "rebuild") => To(t, "rebuild")
  BY GoingTo DEF Asking
<1>3. /\ thread[t].at = "loaded"
      /\ UNCHANGED <<name, file, archive, orphans, interrupted, lock, life, projected, excused, committed>>
  BY DEF Compare, fileVars, archiveVars
<1> QED  BY <1>1, <1>2, <1>3, AfterLoadDoes

(* A rebuild leaves the projection current, or is excused.                 *)
LEMMA RebuildDoes ==
  ASSUME Fields, NEW t \in Threads, RebuildStep(t)
  PROVE  /\ thread[t].at = "rebuild"
         /\ projected' \in {projected, thread[t].raw}
         /\ excused' \/ projected' = current
         /\ To(t, "archive") \/ Over(t)
         /\ UNCHANGED <<name, file, archive, orphans, interrupted, lock, life, current, committed>>
<1>1. PICK fails \in BOOLEAN : Rebuild(t, fails)
  BY DEF RebuildStep
<1>2. /\ thread[t].at = "rebuild"
      /\ projected' \in {projected, thread[t].raw}
      /\ excused' \/ projected' = current
      /\ AfterLoad(t)
      /\ UNCHANGED <<name, file, archive, orphans, interrupted, lock, life, current, committed>>
  BY <1>1 DEF Rebuild, policy_version, fileVars, archiveVars
<1> QED  BY <1>2, AfterLoadDoes

(* A refusal ends the call, and the start when it was the start's keep.    *)
Refused(t) == Over(t) /\ (life' = life \/ (life.at = "keeping" /\ DownNow))

(* A refusal ends the call.                                                *)
LEMMA Refusing ==
  ASSUME Fields, NEW t \in Threads, Refuses(t)
  PROVE  Refused(t)
<1>1. Over(t)
  BY Ending DEF Refuses
<1>2. life' = life \/ (life.at = "keeping" /\ life' = Down)
  BY DEF Refuses
<1> QED  BY <1>1, <1>2, DownIs DEF Refused, DownNow

(* A keep finds the version there, refuses, or starts writing it under the *)
(* lock.                                                                   *)
LEMMA KeepDoes ==
  ASSUME Fields, NEW t \in Threads, Keep(t)
  PROVE  /\ thread[t].at = "archive" /\ lock = NoFile
         /\ \/ To(t, "decide") /\ archive[thread[t].raw] # Absent /\ UNCHANGED <<lock, orphans, life>>
            \/ Refused(t) /\ UNCHANGED <<lock, orphans>>
            \/ /\ To(t, "writing") /\ archive[thread[t].raw] = Absent
               /\ lock' = t /\ orphans' \subseteq Contents /\ life' = life
         /\ UNCHANGED <<name, file, archive, interrupted, current, projected, excused, committed>>
<1> DEFINE v == thread[t].raw
<1>1. \/ archive[v] # Absent /\ Goes(t, "decide") /\ UNCHANGED <<lock, orphans, life>>
      \/ Refuses(t) /\ UNCHANGED <<lock, orphans>>
      \/ /\ archive[v] = Absent /\ Goes(t, "writing") /\ lock' = t /\ orphans' = orphans \cup {v} /\ UNCHANGED life
  <2>1. CASE archive[v] # Absent  BY <2>1 DEF Keep, policy_version
  <2>2. CASE archive[v] = Absent /\ v \in orphans  BY <2>2 DEF Keep, policy_version
  <2>3. CASE archive[v] = Absent /\ v \notin orphans  BY <2>3 DEF Keep, policy_version
  <2> QED  BY <2>1, <2>2, <2>3
<1>2. /\ thread[t].at = "archive" /\ lock = NoFile
      /\ UNCHANGED <<name, file, archive, interrupted, current, projected, excused, committed>>
  BY DEF Keep, fileVars, serviceVars
<1>3. v \in Contents /\ orphans \subseteq Contents
  BY <1>2 DEF Fields
<1>4. (Goes(t, "decide") => To(t, "decide")) /\ (Goes(t, "writing") => To(t, "writing"))
  BY GoingTo DEF Asking, Keeping, Writing
<1>5. Refuses(t) => Refused(t)
  BY Refusing
<1>6. orphans' = orphans \cup {v} => orphans' \subseteq Contents
  BY <1>3
<1> QED  BY <1>1, <1>2, <1>4, <1>5, <1>6

(* The temporary is written, or the write fails.                           *)
LEMMA WriteDoes ==
  ASSUME Fields, NEW t \in Threads, WriteTemporary(t)
  PROVE  /\ thread[t].at = "writing"
         /\ \/ To(t, "link") /\ UNCHANGED <<lock, life>>
            \/ Refused(t) /\ lock' = NoFile
         /\ UNCHANGED <<name, file, archive, orphans, interrupted, current, projected, excused, committed>>
<1>1. \/ Goes(t, "link") /\ UNCHANGED <<lock, life>>
      \/ Refuses(t) /\ lock' = NoFile
  BY DEF WriteTemporary
<1>2. /\ thread[t].at = "writing"
      /\ UNCHANGED <<name, file, archive, orphans, interrupted, current, projected, excused, committed>>
  BY DEF WriteTemporary, fileVars, serviceVars
<1>3. Goes(t, "link") => To(t, "link")
  BY GoingTo DEF Asking, Keeping, Writing
<1> QED  BY <1>1, <1>2, <1>3, Refusing

(* The version has its name, and no sync yet.                              *)
LEMMA LinkDoes ==
  ASSUME Fields, NEW t \in Threads, LinkVersion(t)
  PROVE  /\ thread[t].at = "link" /\ To(t, "sync")
         /\ archive' \in [Contents -> {Absent, Volatile, Durable}]
         /\ archive'[thread[t].raw] = Volatile
         /\ \A v \in Contents : v # thread[t].raw => archive'[v] = archive[v]
         /\ orphans' \subseteq Contents
         /\ UNCHANGED <<name, file, interrupted, lock, life, current, projected, excused, committed>>
<1>1. thread[t].at = "link" /\ thread[t].raw \in Contents
  BY DEF LinkVersion, Fields
<1>2. To(t, "sync")
  BY GoingTo DEF LinkVersion, Asking, Keeping, Writing
<1>3. /\ archive' = [archive EXCEPT ![thread[t].raw] = Volatile] /\ orphans' \subseteq orphans
      /\ UNCHANGED <<name, file, interrupted, lock, life, current, projected, excused, committed>>
  BY DEF LinkVersion, policy_version, fileVars, serviceVars
<1>4. archive \in [Contents -> {Absent, Volatile, Durable}] /\ orphans \subseteq Contents
  BY DEF Fields
<1> QED  BY <1>1, <1>2, <1>3, <1>4

(* A keep ends with the directory's sync, or with its failure.             *)
LEMMA SyncDoes ==
  ASSUME Fields, NEW t \in Threads, SyncDirectory(t)
  PROVE  /\ thread[t].at = "sync" /\ lock' = NoFile
         /\ \/ archive' = Synced /\ interrupted' = LostAlready /\ To(t, "decide") /\ life' = life
            \/ Refused(t) /\ interrupted' = interrupted \cup {thread[t].raw} /\ archive' = archive
         /\ UNCHANGED <<name, file, orphans, current, projected, excused, committed>>
<1>1. \/ archive' = Synced /\ interrupted' = LostAlready /\ Goes(t, "decide") /\ life' = life
      \/ Refuses(t) /\ interrupted' = interrupted \cup {thread[t].raw} /\ archive' = archive
  BY DEF SyncDirectory, policy_version
<1>2. /\ thread[t].at = "sync" /\ lock' = NoFile
      /\ UNCHANGED <<name, file, orphans, current, projected, excused, committed>>
  BY DEF SyncDirectory, fileVars, serviceVars
<1>3. Goes(t, "decide") => To(t, "decide")
  BY GoingTo DEF Asking, Keeping
<1> QED  BY <1>1, <1>2, <1>3, Refusing

(* One decision is committed, of a policy that was read for it.            *)
LEMMA DecideDoes ==
  ASSUME Fields, NEW t \in Threads, Decide(t)
  PROVE  /\ life.at = "serving" /\ thread[t].at = "decide" /\ Over(t)
         /\ \E verdict \in Consulted(evaluate(Policy(thread[t].raw).rules, thread[t].question)) :
               committed' = committed \cup
                 {Decision(thread[t].raw, thread[t].question, verdict, InForce(thread[t]))}
         /\ UNCHANGED <<name, file, archive, orphans, interrupted, lock, life, current, projected, excused>>
<1>1. Over(t)
  BY Ending DEF Decide
<1> QED  BY <1>1 DEF Decide, fileVars, archiveVars, serviceVars

(* Nothing in memory outlives the daemon.                                  *)
LEMMA DiesDoes ==
  ASSUME NEW how, Dies(how)
  PROVE  /\ lock' = NoFile /\ DownNow
         /\ current' = Absent /\ projected' = Absent
         /\ thread' \in [Threads -> Calls] /\ \A t \in Threads : Fresh(thread'[t])
         /\ UNCHANGED <<name, file, committed>>
<1>1. thread' = [t \in Threads |-> NoCall]
  BY DEF Dies
<1>2. thread' \in [Threads -> Calls] /\ \A t \in Threads : Fresh(thread'[t])
  BY <1>1, NoCallIs
<1> QED  BY <1>2, DownIs DEF Dies, DownNow, fileVars

(* A killed process leaves the directory as it stands.                     *)
LEMMA KilledDoes ==
  ASSUME Killed
  PROVE  /\ lock' = NoFile /\ DownNow
         /\ current' = Absent /\ projected' = Absent
         /\ thread' \in [Threads -> Calls] /\ \A t \in Threads : Fresh(thread'[t])
         /\ interrupted' = interrupted \cup {v \in Contents : archive[v] = Volatile}
         /\ UNCHANGED <<name, file, archive, orphans, committed>>
BY DiesDoes DEF Killed

(* A host that stops loses only what was not synced.                       *)
LEMMA PowerLostDoes ==
  ASSUME Fields, PowerLost
  PROVE  /\ lock' = NoFile /\ DownNow
         /\ current' = Absent /\ projected' = Absent
         /\ thread' \in [Threads -> Calls] /\ \A t \in Threads : Fresh(thread'[t])
         /\ archive' \in [Contents -> {Absent, Durable}]
         /\ \A v \in Contents : archive[v] # Volatile => archive'[v] = archive[v]
         /\ orphans' \subseteq orphans
         /\ UNCHANGED <<name, file, interrupted, committed>>
<1>1. PICK lost \in SUBSET {v \in Contents : archive[v] = Volatile} :
        archive' = [v \in Contents |-> IF v \in lost THEN Absent ELSE Synced[v]]
  BY DEF PowerLost
<1>2. \A v \in Contents : archive[v] \in {Absent, Volatile, Durable}
                          /\ Synced[v] = IF archive[v] = Volatile THEN Durable ELSE archive[v]
  BY SyncedIs DEF Fields
<1>3. Volatile # Durable
  BY DEF Volatile, Durable
<1>4. archive' \in [Contents -> {Absent, Durable}]
  BY <1>1, <1>2, <1>3
<1>5. \A v \in Contents : archive[v] # Volatile => archive'[v] = archive[v]
  BY <1>1, <1>2
<1> QED  BY <1>4, <1>5, DiesDoes DEF PowerLost

-----------------------------------------------------------------------------
(* Every step keeps the invariant.                                         *)

(* A sync loses nothing that was kept.                                     *)
LEMMA SyncKeeps ==
  ASSUME Fields, NEW v \in Contents, Kept(v), archive' = Synced, interrupted' = LostAlready
  PROVE  Kept(v)'
<1>1. archive[v] \in {Absent, Volatile, Durable}
  BY DEF Fields
<1>2. archive'[v] = IF archive[v] = Volatile THEN Durable ELSE archive[v]
  BY SyncedIs
<1>3. v \in interrupted /\ archive[v] = Absent => v \in interrupted'
  BY DEF LostAlready
<1> QED  BY <1>1, <1>2, <1>3 DEF Kept

(* What relates the fields follows from the other parts.                   *)
LEMMA TypesFollow ==
  Fields' /\ LockShape' /\ ServiceShape' => Types'
<1> SUFFICES ASSUME Fields', LockShape', ServiceShape' PROVE Types'
  OBVIOUS
<1>1. lock' # NoFile <=> \E t \in Threads : thread'[t].at \in Writing
  BY PolicyAssumption DEF LockShape, Fields
<1>2. life'.at = "serving" => current' # Absent
  BY PolicyAssumption DEF ServiceShape
<1> QED  BY <1>1, <1>2, TypesAreNext

LEMMA RetargetKeeps ==
  ASSUME PolicyInv, NEW f \in Files \cup {NoFile}, Retarget(f)
  PROVE  PolicyInv'
<1>F. Fields  BY TypesAre DEF PolicyInv
<1>P. ServiceShape  BY DEF PolicyInv
<1>B. BehindForACause  BY DEF PolicyInv
<1>L. LockShape  BY DEF PolicyInv
<1>S. StartShape /\ StartReadsWhatItJudged  BY DEF PolicyInv
<1>R. \A u \in Threads : ReadShape(thread[u])  BY DEF PolicyInv
<1>A. ArchiveShape  BY DEF PolicyInv
<1>C. CommittedShape  BY DEF PolicyInv
<1>E. /\ f # name /\ name' = f
      /\ thread' \in [Threads -> Calls]
      /\ \A t \in Threads :
           /\ thread'[t].at = thread[t].at /\ thread'[t].opened = thread[t].opened
           /\ thread'[t].raw = thread[t].raw /\ thread[t].seen \subseteq thread'[t].seen
           /\ thread[t].at # "idle" => thread'[t].moves = thread[t].moves + 1
      /\ life' \in Lives
      /\ life'.at = life.at /\ life'.held = life.held /\ life'.walked = life.walked /\ life'.raw = life.raw
      /\ life'.moves = IF life.at \in {"held", "walked", "judged", "read"} THEN life.moves + 1 ELSE life.moves
      /\ UNCHANGED <<file, archive, orphans, interrupted, lock, current, projected, excused, committed>>
  BY <1>F, RetargetDoes
<1>1. Fields'
  BY <1>E, <1>F DEF Fields
<1>2. LockShape'
  BY <1>E, <1>L DEF LockShape
<1>3. StartShape'
  BY <1>E, <1>F, <1>S DEF StartShape, Fields, Lives
<1>4. StartReadsWhatItJudged'
  BY <1>E, <1>S DEF StartReadsWhatItJudged
<1>5. ServiceShape'
  BY <1>E, <1>P DEF ServiceShape
<1>6. BehindForACause'
  BY <1>E, <1>B DEF BehindForACause
<1>7. (\A u \in Threads : ReadShape(thread[u]))'
  BY <1>E, <1>F, <1>P, <1>R DEF Fields, ServiceShape, ReadShape, InForce, Keeping, Writing, policy_version, Calls
<1>8. ArchiveShape'
  BY <1>E, <1>A DEF ArchiveShape, Kept
<1>9. CommittedShape'
  BY <1>E, <1>C DEF CommittedShape
<1> QED  BY <1>1, <1>2, <1>3, <1>4, <1>5, <1>6, <1>7, <1>8, <1>9, TypesFollow DEF PolicyInv

LEMMA RewriteKeeps ==
  ASSUME PolicyInv, NEW f \in Files, NEW content \in Contents, Rewrite(f, content)
  PROVE  PolicyInv'
<1>F. Fields  BY TypesAre DEF PolicyInv
<1>P. ServiceShape  BY DEF PolicyInv
<1>B. BehindForACause  BY DEF PolicyInv
<1>L. LockShape  BY DEF PolicyInv
<1>S. StartShape /\ StartReadsWhatItJudged  BY DEF PolicyInv
<1>R. \A u \in Threads : ReadShape(thread[u])  BY DEF PolicyInv
<1>A. ArchiveShape  BY DEF PolicyInv
<1>C. CommittedShape  BY DEF PolicyInv
<1>E. /\ file' \in [Files -> Contents]
      /\ thread' \in [Threads -> Calls]
      /\ \A t \in Threads :
           /\ thread'[t].at = thread[t].at /\ thread'[t].opened = thread[t].opened
           /\ thread'[t].raw = thread[t].raw /\ thread[t].seen \subseteq thread'[t].seen
           /\ thread[t].at # "idle" =>
                /\ thread'[t].moves = thread[t].moves
                /\ name # NoFile => file'[name] \in thread'[t].seen
      /\ UNCHANGED <<name, archive, orphans, interrupted, lock, life, current, projected, excused, committed>>
  BY <1>F, RewriteDoes
<1>1. Fields'
  BY <1>E, <1>F DEF Fields
<1>2. LockShape'
  BY <1>E, <1>L DEF LockShape
<1>3. StartShape'
  BY <1>E, <1>S DEF StartShape
<1>4. StartReadsWhatItJudged'
  BY <1>E, <1>S DEF StartReadsWhatItJudged
<1>5. ServiceShape'
  BY <1>E, <1>P DEF ServiceShape
<1>6. BehindForACause'
  BY <1>E, <1>B DEF BehindForACause
<1>7. (\A u \in Threads : ReadShape(thread[u]))'
  <2> SUFFICES ASSUME NEW u \in Threads PROVE ReadShape(thread[u])'
    OBVIOUS
  <2>1. /\ thread[u] \in Calls /\ thread'[u] \in Calls
        /\ thread'[u].at = thread[u].at /\ thread'[u].opened = thread[u].opened
        /\ thread'[u].raw = thread[u].raw /\ thread[u].seen \subseteq thread'[u].seen
        /\ thread[u].at # "idle" =>
             /\ thread'[u].moves = thread[u].moves
             /\ name # NoFile => file'[name] \in thread'[u].seen
    BY <1>E, <1>F DEF Fields
  <2>2. ReadShape(thread[u])
    BY <1>R
  <2>3. thread'[u].at \in {"opened", "read"} =>
          /\ thread'[u].moves = 0 => name' = thread'[u].opened /\ file'[thread'[u].opened] \in thread'[u].seen
          /\ thread'[u].moves = 1 => name' # thread'[u].opened
          /\ thread'[u].at = "read" /\ thread'[u].moves = 0 => thread'[u].raw \in thread'[u].seen
    <3>1. thread[u].at \in {"opened", "read"} => thread[u].opened # NoFile
      BY <1>F, PolicyAssumption DEF Fields
    <3> QED  BY <2>1, <2>2, <3>1, <1>E DEF ReadShape
  <2>4. thread'[u].at \in {"loaded", "rebuild"} \cup Keeping =>
          /\ Accepted(thread'[u].raw)
          /\ life'.at # "keeping" => InForce(thread[u])'
    BY <2>1, <2>2, <1>E DEF ReadShape, InForce, policy_version, Keeping, Writing
  <2> QED  BY <2>3, <2>4 DEF ReadShape
<1>8. ArchiveShape'
  <2>1. ASSUME NEW v \in Contents, archive'[v] = Volatile
        PROVE  v \in interrupted' \/ \E u \in Threads : thread'[u].at = "sync" /\ thread'[u].raw = v
    BY <2>1, <1>E, <1>A DEF ArchiveShape
  <2>2. ASSUME NEW u \in Threads
        PROVE  /\ thread'[u].at \in {"writing", "link"} => archive'[thread'[u].raw] = Absent
               /\ thread'[u].at = "sync" => archive'[thread'[u].raw] # Absent
               /\ thread'[u].at = "decide" => Kept(thread[u].raw)'
    BY <1>E, <1>A DEF ArchiveShape, Kept
  <2>3. ASSUME NEW d \in committed'
        PROVE  Kept(d.version)'
    BY <1>E, <1>A DEF ArchiveShape, Kept
  <2> QED  BY <2>1, <2>2, <2>3 DEF ArchiveShape
<1>9. CommittedShape'
  BY <1>E, <1>C DEF CommittedShape
<1> QED  BY <1>1, <1>2, <1>3, <1>4, <1>5, <1>6, <1>7, <1>8, <1>9, TypesFollow DEF PolicyInv

LEMMA HoldAtStartKeeps ==
  ASSUME PolicyInv, HoldAtStart
  PROVE  PolicyInv'
<1>F. Fields  BY TypesAre DEF PolicyInv
<1>P. ServiceShape  BY DEF PolicyInv
<1>B. BehindForACause  BY DEF PolicyInv
<1>L. LockShape  BY DEF PolicyInv
<1>S. StartShape /\ StartReadsWhatItJudged  BY DEF PolicyInv
<1>R. \A u \in Threads : ReadShape(thread[u])  BY DEF PolicyInv
<1>A. ArchiveShape  BY DEF PolicyInv
<1>C. CommittedShape  BY DEF PolicyInv
<1>E. /\ life.at = "down"
      /\ life' \in Lives /\ life'.at = "held" /\ life'.held = name /\ life'.moves = 0
      /\ UNCHANGED <<name, file, archive, orphans, interrupted, lock, thread, current, projected, excused, committed>>
  BY <1>F, HoldDoes
<1>1. Fields'
  BY <1>E, <1>F DEF Fields
<1>2. LockShape'
  BY <1>E, <1>L DEF LockShape
<1>3. StartShape'
  BY <1>E, <1>S DEF StartShape
<1>4. StartReadsWhatItJudged'
  BY <1>E, <1>S DEF StartReadsWhatItJudged
<1>5. ServiceShape'
  BY <1>E, <1>P DEF ServiceShape
<1>6. BehindForACause'
  BY <1>E, <1>B DEF BehindForACause
<1>7. (\A u \in Threads : ReadShape(thread[u]))'
  BY <1>E, <1>R DEF ReadShape, InForce
<1>8. ArchiveShape'
  BY <1>E, <1>A DEF ArchiveShape, Kept
<1>9. CommittedShape'
  BY <1>E, <1>C DEF CommittedShape
<1> QED  BY <1>1, <1>2, <1>3, <1>4, <1>5, <1>6, <1>7, <1>8, <1>9, TypesFollow DEF PolicyInv

LEMMA WalkAtStartKeeps ==
  ASSUME PolicyInv, WalkAtStart
  PROVE  PolicyInv'
<1>F. Fields  BY TypesAre DEF PolicyInv
<1>P. ServiceShape  BY DEF PolicyInv
<1>B. BehindForACause  BY DEF PolicyInv
<1>L. LockShape  BY DEF PolicyInv
<1>S. StartShape /\ StartReadsWhatItJudged  BY DEF PolicyInv
<1>R. \A u \in Threads : ReadShape(thread[u])  BY DEF PolicyInv
<1>A. ArchiveShape  BY DEF PolicyInv
<1>C. CommittedShape  BY DEF PolicyInv
<1>E. /\ life.at = "held"
      /\ \/ DownNow
         \/ /\ life' \in Lives /\ life'.at = "walked" /\ life'.walked = name /\ name # NoFile
            /\ life'.held = life.held /\ life'.moves = life.moves
      /\ UNCHANGED <<name, file, archive, orphans, interrupted, lock, thread, current, projected, excused, committed>>
  BY <1>F, WalkDoes
<1>1. Fields'
  BY <1>E, <1>F DEF Fields, DownNow
<1>2. LockShape'
  BY <1>E, <1>L DEF LockShape
<1>3. StartShape'
  BY <1>E, <1>S DEF StartShape, DownNow
<1>4. StartReadsWhatItJudged'
  BY <1>E, <1>S DEF StartReadsWhatItJudged, DownNow
<1>5. ServiceShape'
  BY <1>E, <1>P DEF ServiceShape, DownNow
<1>6. BehindForACause'
  BY <1>E, <1>B DEF BehindForACause, DownNow
<1>7. (\A u \in Threads : ReadShape(thread[u]))'
  BY <1>E, <1>R DEF ReadShape, InForce
<1>8. ArchiveShape'
  BY <1>E, <1>A DEF ArchiveShape, Kept
<1>9. CommittedShape'
  BY <1>E, <1>C DEF CommittedShape
<1> QED  BY <1>1, <1>2, <1>3, <1>4, <1>5, <1>6, <1>7, <1>8, <1>9, TypesFollow DEF PolicyInv

LEMMA RecheckAtStartKeeps ==
  ASSUME PolicyInv, RecheckAtStart
  PROVE  PolicyInv'
<1>F. Fields  BY TypesAre DEF PolicyInv
<1>P. ServiceShape  BY DEF PolicyInv
<1>B. BehindForACause  BY DEF PolicyInv
<1>L. LockShape  BY DEF PolicyInv
<1>S. StartShape /\ StartReadsWhatItJudged  BY DEF PolicyInv
<1>R. \A u \in Threads : ReadShape(thread[u])  BY DEF PolicyInv
<1>A. ArchiveShape  BY DEF PolicyInv
<1>C. CommittedShape  BY DEF PolicyInv
<1>E. /\ life.at = "walked"
      /\ \/ DownNow
         \/ life' \in Lives /\ life'.at = "judged" /\ SameLife /\ (life.held = NoFile \/ name = life.held)
      /\ UNCHANGED <<name, file, archive, orphans, interrupted, lock, thread, current, projected, excused, committed>>
  BY <1>F, RecheckDoes
<1>1. Fields'
  BY <1>E, <1>F DEF Fields, DownNow, SameLife
<1>2. LockShape'
  BY <1>E, <1>L DEF LockShape
<1>3. StartShape'
  BY <1>E, <1>F, <1>S DEF StartShape, Fields, Lives, DownNow, SameLife
<1>4. StartReadsWhatItJudged'
  BY <1>E, <1>S DEF StartReadsWhatItJudged, DownNow, SameLife
<1>5. ServiceShape'
  BY <1>E, <1>P DEF ServiceShape, DownNow, SameLife
<1>6. BehindForACause'
  BY <1>E, <1>B DEF BehindForACause, DownNow, SameLife
<1>7. (\A u \in Threads : ReadShape(thread[u]))'
  BY <1>E, <1>R DEF ReadShape, InForce
<1>8. ArchiveShape'
  BY <1>E, <1>A DEF ArchiveShape, Kept
<1>9. CommittedShape'
  BY <1>E, <1>C DEF CommittedShape
<1> QED  BY <1>1, <1>2, <1>3, <1>4, <1>5, <1>6, <1>7, <1>8, <1>9, TypesFollow DEF PolicyInv

LEMMA ReadAtStartKeeps ==
  ASSUME PolicyInv, ReadAtStart
  PROVE  PolicyInv'
<1>F. Fields  BY TypesAre DEF PolicyInv
<1>P. ServiceShape  BY DEF PolicyInv
<1>B. BehindForACause  BY DEF PolicyInv
<1>L. LockShape  BY DEF PolicyInv
<1>S. StartShape /\ StartReadsWhatItJudged  BY DEF PolicyInv
<1>R. \A u \in Threads : ReadShape(thread[u])  BY DEF PolicyInv
<1>A. ArchiveShape  BY DEF PolicyInv
<1>C. CommittedShape  BY DEF PolicyInv
<1>E. /\ life.at = "judged"
      /\ \/ DownNow
         \/ /\ life' \in Lives /\ life'.at = "read" /\ life'.walked = life.walked /\ life'.moves = life.moves
            /\ life'.held = (IF life.held # NoFile THEN life.held ELSE name)
            /\ life'.held # NoFile /\ life'.raw \in Contents
      /\ UNCHANGED <<name, file, archive, orphans, interrupted, lock, thread, current, projected, excused, committed>>
  BY <1>F, ReadAtStartDoes
<1>1. Fields'
  BY <1>E, <1>F DEF Fields, DownNow
<1>2. LockShape'
  BY <1>E, <1>L DEF LockShape
<1>3. StartShape'
  BY <1>E, <1>F, <1>S DEF StartShape, Fields, Lives, DownNow
<1>4. StartReadsWhatItJudged'
  BY <1>E, <1>S DEF StartReadsWhatItJudged, DownNow
<1>5. ServiceShape'
  BY <1>E, <1>P DEF ServiceShape, DownNow
<1>6. BehindForACause'
  BY <1>E, <1>B DEF BehindForACause, DownNow
<1>7. (\A u \in Threads : ReadShape(thread[u]))'
  BY <1>E, <1>R DEF ReadShape, InForce
<1>8. ArchiveShape'
  BY <1>E, <1>A DEF ArchiveShape, Kept
<1>9. CommittedShape'
  BY <1>E, <1>C DEF CommittedShape
<1> QED  BY <1>1, <1>2, <1>3, <1>4, <1>5, <1>6, <1>7, <1>8, <1>9, TypesFollow DEF PolicyInv

LEMMA AnswerAtStartKeeps ==
  ASSUME PolicyInv, AnswerAtStart
  PROVE  PolicyInv'
<1>F. Fields  BY TypesAre DEF PolicyInv
<1>P. ServiceShape  BY DEF PolicyInv
<1>B. BehindForACause  BY DEF PolicyInv
<1>L. LockShape  BY DEF PolicyInv
<1>S. StartShape /\ StartReadsWhatItJudged  BY DEF PolicyInv
<1>R. \A u \in Threads : ReadShape(thread[u])  BY DEF PolicyInv
<1>A. ArchiveShape  BY DEF PolicyInv
<1>C. CommittedShape  BY DEF PolicyInv
<1>E. /\ life.at = "read"
      /\ \/ DownNow /\ UNCHANGED <<current, projected, excused>>
         \/ /\ life' \in Lives /\ life'.at = "loaded" /\ life'.walked = life.walked
            /\ life'.held = life.held /\ life'.moves = life.moves
            /\ current' = projected' /\ current' \in Contents /\ Accepted(current')
      /\ UNCHANGED <<name, file, archive, orphans, interrupted, lock, thread, committed>>
  BY <1>F, AnswerAtStartDoes
<1>1. Fields'
  BY <1>E, <1>F DEF Fields, DownNow
<1>2. LockShape'
  BY <1>E, <1>L DEF LockShape
<1>3. StartShape'
  BY <1>E, <1>S DEF StartShape, DownNow
<1>4. StartReadsWhatItJudged'
  BY <1>E, <1>S DEF StartShape, StartReadsWhatItJudged, DownNow
<1>5. ServiceShape'
  BY <1>E, <1>P DEF ServiceShape, DownNow
<1>6. BehindForACause'
  BY <1>E, <1>B DEF BehindForACause, DownNow
<1>7. (\A u \in Threads : ReadShape(thread[u]))'
  BY <1>E, <1>R DEF ReadShape, InForce
<1>8. ArchiveShape'
  BY <1>E, <1>A DEF ArchiveShape, Kept
<1>9. CommittedShape'
  BY <1>E, <1>C DEF CommittedShape
<1> QED  BY <1>1, <1>2, <1>3, <1>4, <1>5, <1>6, <1>7, <1>8, <1>9, TypesFollow DEF PolicyInv

LEMMA RecoverArchiveKeeps ==
  ASSUME PolicyInv, RecoverArchive
  PROVE  PolicyInv'
<1>F. Fields  BY TypesAre DEF PolicyInv
<1>P. ServiceShape  BY DEF PolicyInv
<1>B. BehindForACause  BY DEF PolicyInv
<1>L. LockShape  BY DEF PolicyInv
<1>S. StartShape /\ StartReadsWhatItJudged  BY DEF PolicyInv
<1>R. \A u \in Threads : ReadShape(thread[u])  BY DEF PolicyInv
<1>A. ArchiveShape  BY DEF PolicyInv
<1>C. CommittedShape  BY DEF PolicyInv
<1>E. /\ life.at = "loaded" /\ life' \in Lives /\ life'.at = "recovered" /\ SameLife
      /\ orphans' = {}
      /\ \/ archive' = archive /\ interrupted' = interrupted
         \/ archive' = Synced /\ interrupted' = LostAlready
      /\ UNCHANGED <<name, file, lock, thread, current, projected, excused, committed>>
  BY <1>F, RecoverDoes
<1>1. Fields'
  BY <1>E, <1>F, SyncedIs DEF Fields, SameLife
<1>2. LockShape'
  BY <1>E, <1>L DEF LockShape
<1>3. StartShape'
  BY <1>E, <1>S DEF StartShape
<1>4. StartReadsWhatItJudged'
  BY <1>E, <1>S DEF StartReadsWhatItJudged, SameLife
<1>5. ServiceShape'
  BY <1>E, <1>P DEF ServiceShape
<1>6. BehindForACause'
  BY <1>E, <1>B DEF BehindForACause
<1>7. (\A u \in Threads : ReadShape(thread[u]))'
  BY <1>E, <1>R DEF ReadShape, InForce
<1>8. ArchiveShape'
  <2>1. ASSUME NEW v \in Contents, archive'[v] = Volatile
        PROVE  v \in interrupted' \/ \E u \in Threads : thread'[u].at = "sync" /\ thread'[u].raw = v
    BY <2>1, <1>E, <1>A, <1>F, SyncedIs DEF ArchiveShape, Volatile, Durable
  <2>I. \A u \in Threads : thread[u].at = "idle"
    BY <1>E, <1>P DEF ServiceShape
  <2>2. ASSUME NEW u \in Threads
        PROVE  /\ thread'[u].at \in {"writing", "link"} => archive'[thread'[u].raw] = Absent
               /\ thread'[u].at = "sync" => archive'[thread'[u].raw] # Absent
               /\ thread'[u].at = "decide" => Kept(thread[u].raw)'
    BY <1>E, <1>A, <1>F, <1>P, SyncedIs, <2>I DEF ArchiveShape, Kept, LostAlready
  <2>3. ASSUME NEW d \in committed'
        PROVE  Kept(d.version)'
    <3>1. Kept(d.version) /\ d.version \in Contents
      BY <1>E, <1>A, <1>C DEF ArchiveShape, CommittedShape
    <3> QED  BY <3>1, <1>E, <1>F, SyncKeeps DEF Kept
  <2> QED  BY <2>1, <2>2, <2>3 DEF ArchiveShape
<1>9. CommittedShape'
  BY <1>E, <1>C DEF CommittedShape
<1> QED  BY <1>1, <1>2, <1>3, <1>4, <1>5, <1>6, <1>7, <1>8, <1>9, TypesFollow DEF PolicyInv

LEMMA KeepAtStartKeeps ==
  ASSUME PolicyInv, NEW t \in Threads, KeepAtStart(t)
  PROVE  PolicyInv'
<1>F. Fields  BY TypesAre DEF PolicyInv
<1>P. ServiceShape  BY DEF PolicyInv
<1>B. BehindForACause  BY DEF PolicyInv
<1>L. LockShape  BY DEF PolicyInv
<1>S. StartShape /\ StartReadsWhatItJudged  BY DEF PolicyInv
<1>R. \A u \in Threads : ReadShape(thread[u])  BY DEF PolicyInv
<1>A. ArchiveShape  BY DEF PolicyInv
<1>C. CommittedShape  BY DEF PolicyInv
<1>K. current \in Contents
  BY <1>P DEF ServiceShape, KeepAtStart
<1>E. /\ life.at = "recovered" /\ life' \in Lives /\ life'.at = "keeping" /\ SameLife
      /\ thread' \in [Threads -> Calls] /\ Others(t)
      /\ thread'[t].at = "archive" /\ thread'[t].raw = current
      /\ UNCHANGED <<name, file, archive, orphans, interrupted, lock, current, projected, excused, committed>>
  BY <1>F, KeepAtStartDoes, <1>K
<1>1. Fields'
  BY <1>E, <1>F, <1>K DEF Fields, SameLife, Others
<1>2. LockShape'
  BY <1>E, <1>L, <1>P, PolicyAssumption DEF LockShape, ServiceShape, Writing, Others
<1>3. StartShape'
  BY <1>E, <1>S DEF StartShape
<1>4. StartReadsWhatItJudged'
  BY <1>E, <1>S DEF StartReadsWhatItJudged, SameLife, Others
<1>5. ServiceShape'
  BY <1>E, <1>P DEF ServiceShape, Keeping, SameLife, Others
<1>6. BehindForACause'
  BY <1>E, <1>B DEF BehindForACause
<1>7. (\A u \in Threads : ReadShape(thread[u]))'
  BY <1>E, <1>P, <1>R DEF ServiceShape, ReadShape, InForce, Keeping, Writing, SameLife, Others
<1>8. ArchiveShape'
  <2>I. \A u \in Threads : thread[u].at = "idle"
    BY <1>E, <1>P DEF ServiceShape
  <2>1. ASSUME NEW v \in Contents, archive'[v] = Volatile
        PROVE  v \in interrupted' \/ \E u \in Threads : thread'[u].at = "sync" /\ thread'[u].raw = v
    BY <2>1, <1>E, <1>A, <2>I DEF ArchiveShape, Others
  <2>2. ASSUME NEW u \in Threads
        PROVE  /\ thread'[u].at \in {"writing", "link"} => archive'[thread'[u].raw] = Absent
               /\ thread'[u].at = "sync" => archive'[thread'[u].raw] # Absent
               /\ thread'[u].at = "decide" => Kept(thread[u].raw)'
    BY <1>E, <1>A DEF ArchiveShape, Kept, Others
  <2>3. ASSUME NEW d \in committed'
        PROVE  Kept(d.version)'
    BY <1>E, <1>A DEF ArchiveShape, Kept, Others
  <2> QED  BY <2>1, <2>2, <2>3 DEF ArchiveShape
<1>9. CommittedShape'
  BY <1>E, <1>C DEF CommittedShape
<1> QED  BY <1>1, <1>2, <1>3, <1>4, <1>5, <1>6, <1>7, <1>8, <1>9, TypesFollow DEF PolicyInv

LEMMA ListenKeeps ==
  ASSUME PolicyInv, NEW t \in Threads, Listen(t)
  PROVE  PolicyInv'
<1>F. Fields  BY TypesAre DEF PolicyInv
<1>P. ServiceShape  BY DEF PolicyInv
<1>B. BehindForACause  BY DEF PolicyInv
<1>L. LockShape  BY DEF PolicyInv
<1>S. StartShape /\ StartReadsWhatItJudged  BY DEF PolicyInv
<1>R. \A u \in Threads : ReadShape(thread[u])  BY DEF PolicyInv
<1>A. ArchiveShape  BY DEF PolicyInv
<1>C. CommittedShape  BY DEF PolicyInv
<1>E. /\ life.at = "keeping" /\ life' \in Lives /\ life'.at = "serving" /\ SameLife
      /\ thread[t].at = "decide" /\ Over(t)
      /\ UNCHANGED <<name, file, archive, orphans, interrupted, lock, current, projected, excused, committed>>
  BY <1>F, ListenDoes
<1>1. Fields'
  BY <1>E, <1>F DEF Fields, SameLife, Over, Others, Fresh
<1>2. LockShape'
  BY <1>E, <1>L DEF LockShape, Writing, SameLife, Over, Others, Fresh
<1>3. StartShape'
  BY <1>E, <1>S DEF StartShape
<1>4. StartReadsWhatItJudged'
  BY <1>E, <1>S DEF StartReadsWhatItJudged, SameLife, Over, Others, Fresh
<1>5. ServiceShape'
  BY <1>E, <1>P DEF ServiceShape
<1>6. BehindForACause'
  BY <1>E, <1>P, <1>B DEF ServiceShape, BehindForACause, SameLife, Over, Others, Fresh
<1>7. (\A u \in Threads : ReadShape(thread[u]))'
  BY <1>E, <1>P, <1>R DEF ServiceShape, ReadShape, InForce, Keeping, Writing, SameLife, Over, Others, Fresh
<1>8. ArchiveShape'
  BY <1>E, <1>A DEF ArchiveShape, Kept, SameLife, Over, Others, Fresh
<1>9. CommittedShape'
  BY <1>E, <1>C DEF CommittedShape
<1> QED  BY <1>1, <1>2, <1>3, <1>4, <1>5, <1>6, <1>7, <1>8, <1>9, TypesFollow DEF PolicyInv

LEMMA OpenKeeps ==
  ASSUME PolicyInv, NEW t \in Threads, NEW question \in Questions \cup {Absent}, Open(t, question)
  PROVE  PolicyInv'
<1>F. Fields  BY TypesAre DEF PolicyInv
<1>P. ServiceShape  BY DEF PolicyInv
<1>B. BehindForACause  BY DEF PolicyInv
<1>L. LockShape  BY DEF PolicyInv
<1>S. StartShape /\ StartReadsWhatItJudged  BY DEF PolicyInv
<1>R. \A u \in Threads : ReadShape(thread[u])  BY DEF PolicyInv
<1>A. ArchiveShape  BY DEF PolicyInv
<1>C. CommittedShape  BY DEF PolicyInv
<1>E. /\ life.at = "serving" /\ thread[t].at = "idle"
      /\ \/ thread' = thread
         \/ /\ thread' \in [Threads -> Calls] /\ Others(t)
            /\ name # NoFile
            /\ thread'[t].at = "opened" /\ thread'[t].opened = name
            /\ thread'[t].seen = {file[name]} /\ thread'[t].moves = 0
      /\ UNCHANGED <<name, file, archive, orphans, interrupted, lock, life,
                     current, projected, excused, committed>>
  BY <1>F, OpenedFor
<1>1. Fields'
  BY <1>E, <1>F DEF Fields, Others
<1>2. LockShape'
  BY <1>E, <1>L DEF LockShape, Writing, Others
<1>3. StartShape'
  BY <1>E, <1>S DEF StartShape
<1>4. StartReadsWhatItJudged'
  BY <1>E, <1>S DEF StartReadsWhatItJudged
<1>5. ServiceShape'
  BY <1>E, <1>P DEF ServiceShape
<1>6. BehindForACause'
  BY <1>E, <1>B DEF BehindForACause, Others
<1>7. (\A u \in Threads : ReadShape(thread[u]))'
  BY <1>E, <1>R DEF ReadShape, InForce, Keeping, Writing, Others
<1>8. ArchiveShape'
  BY <1>E, <1>A DEF ArchiveShape, Kept, Others
<1>9. CommittedShape'
  BY <1>E, <1>C DEF CommittedShape
<1> QED  BY <1>1, <1>2, <1>3, <1>4, <1>5, <1>6, <1>7, <1>8, <1>9, TypesFollow DEF PolicyInv

LEMMA ReadKeeps ==
  ASSUME PolicyInv, NEW t \in Threads, Read(t)
  PROVE  PolicyInv'
<1>F. Fields  BY TypesAre DEF PolicyInv
<1>P. ServiceShape  BY DEF PolicyInv
<1>B. BehindForACause  BY DEF PolicyInv
<1>L. LockShape  BY DEF PolicyInv
<1>S. StartShape /\ StartReadsWhatItJudged  BY DEF PolicyInv
<1>R. \A u \in Threads : ReadShape(thread[u])  BY DEF PolicyInv
<1>A. ArchiveShape  BY DEF PolicyInv
<1>C. CommittedShape  BY DEF PolicyInv
<1>E. /\ thread[t].at = "opened"
      /\ thread' \in [Threads -> Calls] /\ Others(t)
      /\ thread'[t].at = "read" /\ thread'[t].raw = file[thread[t].opened]
      /\ thread'[t].question = thread[t].question /\ thread'[t].opened = thread[t].opened
      /\ thread'[t].seen = thread[t].seen /\ thread'[t].moves = thread[t].moves
      /\ UNCHANGED <<name, file, archive, orphans, interrupted, lock, life,
                     current, projected, excused, committed>>
  BY <1>F, ReadOf
<1>1. Fields'
  BY <1>E, <1>F DEF Fields, Others
<1>2. LockShape'
  BY <1>E, <1>L DEF LockShape, Writing, Others
<1>3. StartShape'
  BY <1>E, <1>S DEF StartShape
<1>4. StartReadsWhatItJudged'
  BY <1>E, <1>S DEF StartReadsWhatItJudged
<1>5. ServiceShape'
  BY <1>E, <1>P DEF ServiceShape, Keeping, Writing, Others
<1>6. BehindForACause'
  BY <1>E, <1>B DEF BehindForACause, Others
<1>7. (\A u \in Threads : ReadShape(thread[u]))'
  BY <1>E, <1>R DEF ReadShape, InForce, Keeping, Writing, Others
<1>8. ArchiveShape'
  BY <1>E, <1>A DEF ArchiveShape, Kept, Others
<1>9. CommittedShape'
  BY <1>E, <1>C DEF CommittedShape
<1> QED  BY <1>1, <1>2, <1>3, <1>4, <1>5, <1>6, <1>7, <1>8, <1>9, TypesFollow DEF PolicyInv

LEMMA AnswerKeeps ==
  ASSUME PolicyInv, NEW t \in Threads, Answer(t)
  PROVE  PolicyInv'
<1>F. Fields  BY TypesAre DEF PolicyInv
<1>P. ServiceShape  BY DEF PolicyInv
<1>B. BehindForACause  BY DEF PolicyInv
<1>L. LockShape  BY DEF PolicyInv
<1>S. StartShape /\ StartReadsWhatItJudged  BY DEF PolicyInv
<1>R. \A u \in Threads : ReadShape(thread[u])  BY DEF PolicyInv
<1>A. ArchiveShape  BY DEF PolicyInv
<1>C. CommittedShape  BY DEF PolicyInv
<1>E. /\ thread[t].at = "read"
      /\ \/ /\ To(t, "loaded")
            /\ name # NoFile /\ name = thread[t].opened /\ Accepted(thread[t].raw)
         \/ Over(t)
      /\ UNCHANGED <<name, file, archive, orphans, interrupted, lock, life, current, projected, excused, committed>>
  BY <1>F, AnswerDoes
<1>1. Fields'
  BY <1>E, <1>F DEF Fields, To, Over, Others, SameCall, Fresh
<1>2. LockShape'
  BY <1>E, <1>L DEF LockShape, Writing, To, Over, Others, SameCall, Fresh
<1>3. StartShape'
  BY <1>E, <1>S DEF StartShape
<1>4. StartReadsWhatItJudged'
  BY <1>E, <1>S DEF StartReadsWhatItJudged
<1>5. ServiceShape'
  BY <1>E, <1>P DEF ServiceShape, Keeping, Writing, To, Over, Others, SameCall, Fresh
<1>6. BehindForACause'
  BY <1>E, <1>B DEF BehindForACause, To, Over, Others, SameCall, Fresh
<1>7. (\A u \in Threads : ReadShape(thread[u]))'
  BY <1>E, <1>F, <1>P, <1>R DEF Fields, ServiceShape, ReadShape, InForce, Keeping, Writing, policy_version, Calls, To, Over, Others, SameCall, Fresh
<1>8. ArchiveShape'
  BY <1>E, <1>A DEF ArchiveShape, Kept, To, Over, Others, SameCall, Fresh
<1>9. CommittedShape'
  BY <1>E, <1>C DEF CommittedShape
<1> QED  BY <1>1, <1>2, <1>3, <1>4, <1>5, <1>6, <1>7, <1>8, <1>9, TypesFollow DEF PolicyInv

LEMMA CompareKeeps ==
  ASSUME PolicyInv, NEW t \in Threads, Compare(t)
  PROVE  PolicyInv'
<1>F. Fields  BY TypesAre DEF PolicyInv
<1>P. ServiceShape  BY DEF PolicyInv
<1>B. BehindForACause  BY DEF PolicyInv
<1>L. LockShape  BY DEF PolicyInv
<1>S. StartShape /\ StartReadsWhatItJudged  BY DEF PolicyInv
<1>R. \A u \in Threads : ReadShape(thread[u])  BY DEF PolicyInv
<1>A. ArchiveShape  BY DEF PolicyInv
<1>C. CommittedShape  BY DEF PolicyInv
<1>E. /\ thread[t].at = "loaded"
      /\ \/ current' = thread[t].raw /\ To(t, "rebuild")
         \/ current' = current /\ (To(t, "archive") \/ Over(t))
      /\ UNCHANGED <<name, file, archive, orphans, interrupted, lock, life, projected, excused, committed>>
  BY <1>F, CompareDoes
<1>1. Fields'
  BY <1>E, <1>F DEF Fields, To, Over, Others, SameCall, Fresh
<1>2. LockShape'
  BY <1>E, <1>L DEF LockShape, Writing, To, Over, Others, SameCall, Fresh
<1>3. StartShape'
  BY <1>E, <1>S DEF StartShape
<1>4. StartReadsWhatItJudged'
  BY <1>E, <1>S DEF StartReadsWhatItJudged
<1>5. ServiceShape'
  <2>1. life.at = "serving" /\ Accepted(thread[t].raw) /\ thread[t].raw \in Contents
    BY <1>E, <1>F, <1>P, <1>R DEF ServiceShape, ReadShape, Fields, Lives, Keeping, Writing
  <2> QED  BY <1>E, <1>P, <2>1 DEF ServiceShape
<1>6. BehindForACause'
  BY <1>E, <1>B DEF BehindForACause, To, Over, Others, SameCall, Fresh
<1>7. (\A u \in Threads : ReadShape(thread[u]))'
  BY <1>E, <1>R DEF ReadShape, InForce, Keeping, Writing, To, Over, Others, SameCall, Fresh
<1>8. ArchiveShape'
  BY <1>E, <1>A DEF ArchiveShape, Kept, To, Over, Others, SameCall, Fresh
<1>9. CommittedShape'
  BY <1>E, <1>C DEF CommittedShape
<1> QED  BY <1>1, <1>2, <1>3, <1>4, <1>5, <1>6, <1>7, <1>8, <1>9, TypesFollow DEF PolicyInv

LEMMA RebuildStepKeeps ==
  ASSUME PolicyInv, NEW t \in Threads, RebuildStep(t)
  PROVE  PolicyInv'
<1>F. Fields  BY TypesAre DEF PolicyInv
<1>P. ServiceShape  BY DEF PolicyInv
<1>B. BehindForACause  BY DEF PolicyInv
<1>L. LockShape  BY DEF PolicyInv
<1>S. StartShape /\ StartReadsWhatItJudged  BY DEF PolicyInv
<1>R. \A u \in Threads : ReadShape(thread[u])  BY DEF PolicyInv
<1>A. ArchiveShape  BY DEF PolicyInv
<1>C. CommittedShape  BY DEF PolicyInv
<1>E. /\ thread[t].at = "rebuild"
      /\ projected' \in {projected, thread[t].raw}
      /\ excused' \/ projected' = current
      /\ To(t, "archive") \/ Over(t)
      /\ UNCHANGED <<name, file, archive, orphans, interrupted, lock, life, current, committed>>
  BY <1>F, RebuildDoes
<1>1. Fields'
  BY <1>E, <1>F DEF Fields, To, Over, Others, SameCall, Fresh
<1>2. LockShape'
  BY <1>E, <1>L DEF LockShape, Writing, To, Over, Others, SameCall, Fresh
<1>3. StartShape'
  BY <1>E, <1>S DEF StartShape
<1>4. StartReadsWhatItJudged'
  BY <1>E, <1>S DEF StartReadsWhatItJudged
<1>5. ServiceShape'
  BY <1>E, <1>P DEF ServiceShape, Keeping, Writing, To, Over, Others, SameCall, Fresh
<1>6. BehindForACause'
  BY <1>E, <1>B DEF BehindForACause
<1>7. (\A u \in Threads : ReadShape(thread[u]))'
  BY <1>E, <1>R DEF ReadShape, InForce, Keeping, Writing, To, Over, Others, SameCall, Fresh
<1>8. ArchiveShape'
  BY <1>E, <1>A DEF ArchiveShape, Kept, To, Over, Others, SameCall, Fresh
<1>9. CommittedShape'
  BY <1>E, <1>C DEF CommittedShape
<1> QED  BY <1>1, <1>2, <1>3, <1>4, <1>5, <1>6, <1>7, <1>8, <1>9, TypesFollow DEF PolicyInv

LEMMA KeepKeeps ==
  ASSUME PolicyInv, NEW t \in Threads, Keep(t)
  PROVE  PolicyInv'
<1>F. Fields  BY TypesAre DEF PolicyInv
<1>P. ServiceShape  BY DEF PolicyInv
<1>B. BehindForACause  BY DEF PolicyInv
<1>L. LockShape  BY DEF PolicyInv
<1>S. StartShape /\ StartReadsWhatItJudged  BY DEF PolicyInv
<1>R. \A u \in Threads : ReadShape(thread[u])  BY DEF PolicyInv
<1>A. ArchiveShape  BY DEF PolicyInv
<1>C. CommittedShape  BY DEF PolicyInv
<1>E. /\ thread[t].at = "archive" /\ lock = NoFile
      /\ \/ To(t, "decide") /\ archive[thread[t].raw] # Absent /\ UNCHANGED <<lock, orphans, life>>
         \/ Refused(t) /\ UNCHANGED <<lock, orphans>>
         \/ /\ To(t, "writing") /\ archive[thread[t].raw] = Absent
            /\ lock' = t /\ orphans' \subseteq Contents /\ life' = life
      /\ UNCHANGED <<name, file, archive, interrupted, current, projected, excused, committed>>
  BY <1>F, KeepDoes
<1>1. Fields'
  BY <1>E, <1>F DEF Fields, To, Over, Others, SameCall, Fresh, Refused, DownNow
<1>2. LockShape'
  BY <1>E, <1>L, PolicyAssumption DEF LockShape, Writing, To, Over, Others, SameCall, Fresh, Refused, DownNow
<1>3. StartShape'
  BY <1>E, <1>S DEF StartShape, To, Over, Others, SameCall, Fresh, Refused, DownNow
<1>4. StartReadsWhatItJudged'
  BY <1>E, <1>S DEF StartReadsWhatItJudged, To, Over, Others, SameCall, Fresh, Refused, DownNow
<1>5. ServiceShape'
  BY <1>E, <1>P DEF ServiceShape, Keeping, Writing, To, Over, Others, SameCall, Fresh, Refused, DownNow
<1>6. BehindForACause'
  BY <1>E, <1>B DEF BehindForACause, To, Over, Others, SameCall, Fresh, Refused, DownNow
<1>7. (\A u \in Threads : ReadShape(thread[u]))'
  BY <1>E, <1>P, <1>R DEF ServiceShape, ReadShape, InForce, Keeping, Writing, To, Over, Others, SameCall, Fresh, Refused, DownNow
<1>8. ArchiveShape'
  <2>1. ASSUME NEW v \in Contents, archive'[v] = Volatile
        PROVE  v \in interrupted' \/ \E u \in Threads : thread'[u].at = "sync" /\ thread'[u].raw = v
    BY <2>1, <1>E, <1>A DEF ArchiveShape, To, Over, Others, SameCall, Fresh, Refused
  <2>2. ASSUME NEW u \in Threads
        PROVE  /\ thread'[u].at \in {"writing", "link"} => archive'[thread'[u].raw] = Absent
               /\ thread'[u].at = "sync" => archive'[thread'[u].raw] # Absent
               /\ thread'[u].at = "decide" => Kept(thread[u].raw)'
    <3>1. CASE u # t
      BY <3>1, <1>E, <1>A DEF ArchiveShape, Kept, To, Over, Others, Refused
    <3>2. CASE u = t
      <4>1. thread[t].raw \in Contents /\ archive[thread[t].raw] \in {Absent, Volatile, Durable}
        BY <1>E, <1>F DEF Fields
      <4>2. archive[thread[t].raw] # Absent => Kept(thread[t].raw)
        BY <4>1, <1>E, <1>A, <1>L, PolicyAssumption DEF ArchiveShape, Kept, LockShape, Writing
      <4> QED  BY <3>2, <4>2, <1>E DEF Kept, To, Over, SameCall, Fresh, Refused
    <3> QED  BY <3>1, <3>2
  <2>3. ASSUME NEW d \in committed'
        PROVE  Kept(d.version)'
    BY <1>E, <1>A DEF ArchiveShape, Kept
  <2> QED  BY <2>1, <2>2, <2>3 DEF ArchiveShape
<1>9. CommittedShape'
  BY <1>E, <1>C DEF CommittedShape
<1> QED  BY <1>1, <1>2, <1>3, <1>4, <1>5, <1>6, <1>7, <1>8, <1>9, TypesFollow DEF PolicyInv

LEMMA WriteTemporaryKeeps ==
  ASSUME PolicyInv, NEW t \in Threads, WriteTemporary(t)
  PROVE  PolicyInv'
<1>F. Fields  BY TypesAre DEF PolicyInv
<1>P. ServiceShape  BY DEF PolicyInv
<1>B. BehindForACause  BY DEF PolicyInv
<1>L. LockShape  BY DEF PolicyInv
<1>S. StartShape /\ StartReadsWhatItJudged  BY DEF PolicyInv
<1>R. \A u \in Threads : ReadShape(thread[u])  BY DEF PolicyInv
<1>A. ArchiveShape  BY DEF PolicyInv
<1>C. CommittedShape  BY DEF PolicyInv
<1>E. /\ thread[t].at = "writing"
      /\ \/ To(t, "link") /\ UNCHANGED <<lock, life>>
         \/ Refused(t) /\ lock' = NoFile
      /\ UNCHANGED <<name, file, archive, orphans, interrupted, current, projected, excused, committed>>
  BY <1>F, WriteDoes
<1>1. Fields'
  BY <1>E, <1>F DEF Fields, To, Over, Others, SameCall, Fresh, Refused, DownNow
<1>2. LockShape'
  BY <1>E, <1>L, PolicyAssumption DEF LockShape, Writing, To, Over, Others, SameCall, Fresh, Refused, DownNow
<1>3. StartShape'
  BY <1>E, <1>S DEF StartShape, To, Over, Others, SameCall, Fresh, Refused, DownNow
<1>4. StartReadsWhatItJudged'
  BY <1>E, <1>S DEF StartReadsWhatItJudged, To, Over, Others, SameCall, Fresh, Refused, DownNow
<1>5. ServiceShape'
  BY <1>E, <1>P DEF ServiceShape, Keeping, Writing, To, Over, Others, SameCall, Fresh, Refused, DownNow
<1>6. BehindForACause'
  BY <1>E, <1>B DEF BehindForACause, To, Over, Others, SameCall, Fresh, Refused, DownNow
<1>7. (\A u \in Threads : ReadShape(thread[u]))'
  BY <1>E, <1>P, <1>R DEF ServiceShape, ReadShape, InForce, Keeping, Writing, To, Over, Others, SameCall, Fresh, Refused, DownNow
<1>8. ArchiveShape'
  BY <1>E, <1>A DEF ArchiveShape, Kept, To, Over, Others, SameCall, Fresh, Refused, DownNow
<1>9. CommittedShape'
  BY <1>E, <1>C DEF CommittedShape
<1> QED  BY <1>1, <1>2, <1>3, <1>4, <1>5, <1>6, <1>7, <1>8, <1>9, TypesFollow DEF PolicyInv

LEMMA LinkVersionKeeps ==
  ASSUME PolicyInv, NEW t \in Threads, LinkVersion(t)
  PROVE  PolicyInv'
<1>F. Fields  BY TypesAre DEF PolicyInv
<1>P. ServiceShape  BY DEF PolicyInv
<1>B. BehindForACause  BY DEF PolicyInv
<1>L. LockShape  BY DEF PolicyInv
<1>S. StartShape /\ StartReadsWhatItJudged  BY DEF PolicyInv
<1>R. \A u \in Threads : ReadShape(thread[u])  BY DEF PolicyInv
<1>A. ArchiveShape  BY DEF PolicyInv
<1>C. CommittedShape  BY DEF PolicyInv
<1>E. /\ thread[t].at = "link" /\ To(t, "sync")
      /\ archive' \in [Contents -> {Absent, Volatile, Durable}]
      /\ archive'[thread[t].raw] = Volatile
      /\ \A v \in Contents : v # thread[t].raw => archive'[v] = archive[v]
      /\ orphans' \subseteq Contents
      /\ UNCHANGED <<name, file, interrupted, lock, life, current, projected, excused, committed>>
  BY <1>F, LinkDoes
<1>1. Fields'
  BY <1>E, <1>F DEF Fields, To, Others, SameCall
<1>2. LockShape'
  BY <1>E, <1>L DEF LockShape, Writing, To, Others, SameCall
<1>3. StartShape'
  BY <1>E, <1>S DEF StartShape
<1>4. StartReadsWhatItJudged'
  BY <1>E, <1>S DEF StartReadsWhatItJudged
<1>5. ServiceShape'
  BY <1>E, <1>P DEF ServiceShape, Keeping, Writing, To, Others, SameCall
<1>6. BehindForACause'
  BY <1>E, <1>B DEF BehindForACause, To, Others, SameCall
<1>7. (\A u \in Threads : ReadShape(thread[u]))'
  BY <1>E, <1>R DEF ReadShape, InForce, Keeping, Writing, To, Others, SameCall
<1>8. ArchiveShape'
  <2>K. \A v \in Contents : Kept(v) => Kept(v)'
    <3>1. archive[thread[t].raw] = Absent /\ Absent # Durable
      BY <1>E, <1>A, PolicyAssumption DEF ArchiveShape
    <3> QED  BY <3>1, <1>E DEF Kept
  <2>1. ASSUME NEW v \in Contents, archive'[v] = Volatile
        PROVE  v \in interrupted' \/ \E u \in Threads : thread'[u].at = "sync" /\ thread'[u].raw = v
    BY <2>1, <1>E, <1>A DEF ArchiveShape, To, Others, SameCall
  <2>2. ASSUME NEW u \in Threads
        PROVE  /\ thread'[u].at \in {"writing", "link"} => archive'[thread'[u].raw] = Absent
               /\ thread'[u].at = "sync" => archive'[thread'[u].raw] # Absent
               /\ thread'[u].at = "decide" => Kept(thread[u].raw)'
    <3>1. CASE u # t
      <4>1. thread'[u].at = thread[u].at /\ thread'[u].raw = thread[u].raw /\ thread[u].at \notin Writing
        BY <3>1, <1>E, <1>L DEF To, Others, LockShape, Writing
      <4>2. thread[u].at = "decide" => Kept(thread[u].raw) /\ thread[u].raw \in Contents
        BY <1>A, <1>F DEF ArchiveShape, Fields
      <4> QED  BY <4>1, <4>2, <2>K DEF Writing, Kept
    <3>2. CASE u = t
      BY <3>2, <1>E, PolicyAssumption DEF To, SameCall
    <3> QED  BY <3>1, <3>2
  <2>3. ASSUME NEW d \in committed'
        PROVE  Kept(d.version)'
    <3>1. Kept(d.version) /\ d.version \in Contents
      BY <1>E, <1>A, <1>C DEF ArchiveShape, CommittedShape
    <3> QED  BY <3>1, <2>K DEF Kept
  <2> QED  BY <2>1, <2>2, <2>3 DEF ArchiveShape
<1>9. CommittedShape'
  BY <1>E, <1>C DEF CommittedShape
<1> QED  BY <1>1, <1>2, <1>3, <1>4, <1>5, <1>6, <1>7, <1>8, <1>9, TypesFollow DEF PolicyInv

LEMMA SyncDirectoryKeeps ==
  ASSUME PolicyInv, NEW t \in Threads, SyncDirectory(t)
  PROVE  PolicyInv'
<1>F. Fields  BY TypesAre DEF PolicyInv
<1>P. ServiceShape  BY DEF PolicyInv
<1>B. BehindForACause  BY DEF PolicyInv
<1>L. LockShape  BY DEF PolicyInv
<1>S. StartShape /\ StartReadsWhatItJudged  BY DEF PolicyInv
<1>R. \A u \in Threads : ReadShape(thread[u])  BY DEF PolicyInv
<1>A. ArchiveShape  BY DEF PolicyInv
<1>C. CommittedShape  BY DEF PolicyInv
<1>E. /\ thread[t].at = "sync" /\ lock' = NoFile
      /\ \/ archive' = Synced /\ interrupted' = LostAlready /\ To(t, "decide") /\ life' = life
         \/ Refused(t) /\ interrupted' = interrupted \cup {thread[t].raw} /\ archive' = archive
      /\ UNCHANGED <<name, file, orphans, current, projected, excused, committed>>
  BY <1>F, SyncDoes
<1>1. Fields'
  BY <1>E, <1>F, SyncedIs DEF Fields, To, Over, Others, SameCall, Fresh, Refused, DownNow
<1>2. LockShape'
  BY <1>E, <1>L, PolicyAssumption DEF LockShape, Writing, To, Over, Others, SameCall, Fresh, Refused, DownNow
<1>3. StartShape'
  BY <1>E, <1>S DEF StartShape, To, Over, Others, SameCall, Fresh, Refused, DownNow
<1>4. StartReadsWhatItJudged'
  BY <1>E, <1>S DEF StartReadsWhatItJudged, To, Over, Others, SameCall, Fresh, Refused, DownNow
<1>5. ServiceShape'
  BY <1>E, <1>P DEF ServiceShape, Keeping, To, Over, Others, SameCall, Fresh, Refused, DownNow
<1>6. BehindForACause'
  BY <1>E, <1>B DEF BehindForACause, To, Over, Others, SameCall, Fresh, Refused, DownNow
<1>7. (\A u \in Threads : ReadShape(thread[u]))'
  BY <1>E, <1>P, <1>R DEF ServiceShape, ReadShape, InForce, Keeping, Writing, To, Over, Others, SameCall, Fresh, Refused, DownNow
<1>8. ArchiveShape'
  <2>1. ASSUME NEW v \in Contents, archive'[v] = Volatile
        PROVE  v \in interrupted' \/ \E u \in Threads : thread'[u].at = "sync" /\ thread'[u].raw = v
    BY <2>1, <1>E, <1>A, <1>F, <1>L, SyncedIs DEF ArchiveShape, Volatile, Durable, Fields, LockShape, Writing, To, Over, Others, SameCall, Fresh, Refused
  <2>2. ASSUME NEW u \in Threads
        PROVE  /\ thread'[u].at \in {"writing", "link"} => archive'[thread'[u].raw] = Absent
               /\ thread'[u].at = "sync" => archive'[thread'[u].raw] # Absent
               /\ thread'[u].at = "decide" => Kept(thread[u].raw)'
    BY <1>E, <1>A, <1>F, <1>L, SyncedIs DEF ArchiveShape, Kept, To, Over, Others, SameCall, Fresh, Refused, Fields, LostAlready, LockShape, Writing
  <2>3. ASSUME NEW d \in committed'
        PROVE  Kept(d.version)'
    <3>1. Kept(d.version) /\ d.version \in Contents
      BY <1>E, <1>A, <1>C DEF ArchiveShape, CommittedShape
    <3> QED  BY <3>1, <1>E, <1>F, SyncKeeps DEF Kept
  <2> QED  BY <2>1, <2>2, <2>3 DEF ArchiveShape
<1>9. CommittedShape'
  BY <1>E, <1>C DEF CommittedShape
<1> QED  BY <1>1, <1>2, <1>3, <1>4, <1>5, <1>6, <1>7, <1>8, <1>9, TypesFollow DEF PolicyInv

LEMMA DecideKeeps ==
  ASSUME PolicyInv, NEW t \in Threads, Decide(t)
  PROVE  PolicyInv'
<1>F. Fields  BY TypesAre DEF PolicyInv
<1>P. ServiceShape  BY DEF PolicyInv
<1>B. BehindForACause  BY DEF PolicyInv
<1>L. LockShape  BY DEF PolicyInv
<1>S. StartShape /\ StartReadsWhatItJudged  BY DEF PolicyInv
<1>R. \A u \in Threads : ReadShape(thread[u])  BY DEF PolicyInv
<1>A. ArchiveShape  BY DEF PolicyInv
<1>C. CommittedShape  BY DEF PolicyInv
<1>E. /\ life.at = "serving" /\ thread[t].at = "decide" /\ Over(t)
      /\ \E verdict \in Consulted(evaluate(Policy(thread[t].raw).rules, thread[t].question)) :
            committed' = committed \cup
              {Decision(thread[t].raw, thread[t].question, verdict, InForce(thread[t]))}
      /\ UNCHANGED <<name, file, archive, orphans, interrupted, lock, life, current, projected, excused>>
  BY <1>F, DecideDoes
<1>1. Fields'
  BY <1>E, <1>F DEF Fields, Over, Others, Fresh
<1>2. LockShape'
  BY <1>E, <1>L DEF LockShape, Writing, Over, Others, Fresh
<1>3. StartShape'
  BY <1>E, <1>S DEF StartShape
<1>4. StartReadsWhatItJudged'
  BY <1>E, <1>S DEF StartReadsWhatItJudged
<1>5. ServiceShape'
  BY <1>E, <1>P DEF ServiceShape
<1>6. BehindForACause'
  BY <1>E, <1>B DEF BehindForACause, Over, Others, Fresh
<1>7. (\A u \in Threads : ReadShape(thread[u]))'
  BY <1>E, <1>R DEF ReadShape, InForce, Keeping, Writing, Over, Others, Fresh
<1>8. ArchiveShape'
  <2>1. ASSUME NEW v \in Contents, archive'[v] = Volatile
        PROVE  v \in interrupted' \/ \E u \in Threads : thread'[u].at = "sync" /\ thread'[u].raw = v
    BY <2>1, <1>E, <1>A DEF ArchiveShape, Over, Others, Fresh
  <2>2. ASSUME NEW u \in Threads
        PROVE  /\ thread'[u].at \in {"writing", "link"} => archive'[thread'[u].raw] = Absent
               /\ thread'[u].at = "sync" => archive'[thread'[u].raw] # Absent
               /\ thread'[u].at = "decide" => Kept(thread[u].raw)'
    BY <1>E, <1>A DEF ArchiveShape, Kept, Over, Others, Fresh
  <2>3. ASSUME NEW d \in committed'
        PROVE  Kept(d.version)'
    BY <1>E, <1>A DEF ArchiveShape, Kept, Decision, policy_version
  <2> QED  BY <2>1, <2>2, <2>3 DEF ArchiveShape
<1>9. CommittedShape'
  <2>1. PICK verdict \in Consulted(evaluate(Policy(thread[t].raw).rules, thread[t].question)) :
          committed' = committed \cup {Decision(thread[t].raw, thread[t].question, verdict, InForce(thread[t]))}
    BY <1>E
  <2>2. /\ thread[t].raw \in Contents /\ Accepted(thread[t].raw)
        /\ InForce(thread[t]) = TRUE
    BY <1>E, <1>F, <1>R DEF Fields, ReadShape, Keeping, InForce
  <2> DEFINE new == Decision(thread[t].raw, thread[t].question, verdict, TRUE)
  <2>3. new.version = thread[t].raw /\ new.question = thread[t].question
    BY DEF Decision, policy_version
  <2>4. committed' = committed \cup {new}
    BY <2>1, <2>2
  <2> HIDE DEF new
  <2>5. ASSUME NEW d \in committed'
        PROVE  /\ d.version \in Contents /\ Accepted(d.version)
               /\ \E w \in Consulted(evaluate(Policy(d.version).rules, d.question)) :
                    d = Decision(d.version, d.question, w, TRUE)
    <3>1. CASE d \in committed
      BY <3>1, <1>C DEF CommittedShape
    <3>2. CASE d = new
      BY <3>2, <2>1, <2>2, <2>3 DEF new
    <3> QED  BY <3>1, <3>2, <2>4
  <2> QED  BY <2>5 DEF CommittedShape
<1> QED  BY <1>1, <1>2, <1>3, <1>4, <1>5, <1>6, <1>7, <1>8, <1>9, TypesFollow DEF PolicyInv

LEMMA KilledKeeps ==
  ASSUME PolicyInv, Killed
  PROVE  PolicyInv'
<1>F. Fields  BY TypesAre DEF PolicyInv
<1>P. ServiceShape  BY DEF PolicyInv
<1>B. BehindForACause  BY DEF PolicyInv
<1>L. LockShape  BY DEF PolicyInv
<1>S. StartShape /\ StartReadsWhatItJudged  BY DEF PolicyInv
<1>R. \A u \in Threads : ReadShape(thread[u])  BY DEF PolicyInv
<1>A. ArchiveShape  BY DEF PolicyInv
<1>C. CommittedShape  BY DEF PolicyInv
<1>E. /\ lock' = NoFile /\ DownNow
      /\ current' = Absent /\ projected' = Absent
      /\ thread' \in [Threads -> Calls] /\ \A t \in Threads : Fresh(thread'[t])
      /\ interrupted' = interrupted \cup {v \in Contents : archive[v] = Volatile}
      /\ UNCHANGED <<name, file, archive, orphans, committed>>
  BY KilledDoes
<1>1. Fields'
  BY <1>E, <1>F DEF Fields, DownNow, Fresh
<1>2. LockShape'
  BY <1>E, <1>L, PolicyAssumption DEF LockShape, Writing, DownNow, Fresh
<1>3. StartShape'
  BY <1>E, <1>S DEF StartShape, DownNow, Fresh
<1>4. StartReadsWhatItJudged'
  BY <1>E, <1>S DEF StartReadsWhatItJudged, DownNow, Fresh
<1>5. ServiceShape'
  BY <1>E, <1>P DEF ServiceShape, DownNow, Fresh
<1>6. BehindForACause'
  BY <1>E, <1>B DEF BehindForACause
<1>7. (\A u \in Threads : ReadShape(thread[u]))'
  BY <1>E, <1>R DEF ReadShape, InForce, Keeping, Writing, DownNow, Fresh
<1>8. ArchiveShape'
  BY <1>E, <1>A DEF ArchiveShape, Kept, DownNow, Fresh
<1>9. CommittedShape'
  BY <1>E, <1>C DEF CommittedShape
<1> QED  BY <1>1, <1>2, <1>3, <1>4, <1>5, <1>6, <1>7, <1>8, <1>9, TypesFollow DEF PolicyInv

LEMMA PowerLostKeeps ==
  ASSUME PolicyInv, PowerLost
  PROVE  PolicyInv'
<1>F. Fields  BY TypesAre DEF PolicyInv
<1>P. ServiceShape  BY DEF PolicyInv
<1>B. BehindForACause  BY DEF PolicyInv
<1>L. LockShape  BY DEF PolicyInv
<1>S. StartShape /\ StartReadsWhatItJudged  BY DEF PolicyInv
<1>R. \A u \in Threads : ReadShape(thread[u])  BY DEF PolicyInv
<1>A. ArchiveShape  BY DEF PolicyInv
<1>C. CommittedShape  BY DEF PolicyInv
<1>E. /\ lock' = NoFile /\ DownNow
      /\ current' = Absent /\ projected' = Absent
      /\ thread' \in [Threads -> Calls] /\ \A t \in Threads : Fresh(thread'[t])
      /\ archive' \in [Contents -> {Absent, Durable}]
      /\ \A v \in Contents : archive[v] # Volatile => archive'[v] = archive[v]
      /\ orphans' \subseteq orphans
      /\ UNCHANGED <<name, file, interrupted, committed>>
  BY <1>F, PowerLostDoes
<1>1. Fields'
  BY <1>E, <1>F DEF Fields, DownNow, Fresh
<1>2. LockShape'
  BY <1>E, <1>L, PolicyAssumption DEF LockShape, Writing, DownNow, Fresh
<1>3. StartShape'
  BY <1>E, <1>S DEF StartShape, DownNow, Fresh
<1>4. StartReadsWhatItJudged'
  BY <1>E, <1>S DEF StartReadsWhatItJudged, DownNow, Fresh
<1>5. ServiceShape'
  BY <1>E, <1>P DEF ServiceShape, DownNow, Fresh
<1>6. BehindForACause'
  BY <1>E, <1>B DEF BehindForACause
<1>7. (\A u \in Threads : ReadShape(thread[u]))'
  BY <1>E, <1>R DEF ReadShape, InForce, Keeping, Writing, DownNow, Fresh
<1>8. ArchiveShape'
  <2>1. ASSUME NEW v \in Contents, archive'[v] = Volatile
        PROVE  v \in interrupted' \/ \E u \in Threads : thread'[u].at = "sync" /\ thread'[u].raw = v
    BY <2>1, <1>E, <1>A DEF ArchiveShape, Volatile, Durable
  <2>2. ASSUME NEW u \in Threads
        PROVE  /\ thread'[u].at \in {"writing", "link"} => archive'[thread'[u].raw] = Absent
               /\ thread'[u].at = "sync" => archive'[thread'[u].raw] # Absent
               /\ thread'[u].at = "decide" => Kept(thread[u].raw)'
    BY <1>E, <1>A DEF ArchiveShape, Kept, Fresh
  <2>3. ASSUME NEW d \in committed'
        PROVE  Kept(d.version)'
    BY <1>E, <1>A, <1>C DEF ArchiveShape, Kept, CommittedShape, Volatile, Durable
  <2> QED  BY <2>1, <2>2, <2>3 DEF ArchiveShape
<1>9. CommittedShape'
  BY <1>E, <1>C DEF CommittedShape
<1> QED  BY <1>1, <1>2, <1>3, <1>4, <1>5, <1>6, <1>7, <1>8, <1>9, TypesFollow DEF PolicyInv

-----------------------------------------------------------------------------
(* What it says of every behaviour.                                        *)

(* Initially nothing is read, kept or decided.                             *)
LEMMA PolicyInitially == PolicyInit => PolicyInv
<1> SUFFICES ASSUME PolicyInit PROVE PolicyInv
  OBVIOUS
<1>1. /\ Fresh(NoCall) /\ NoCall \in Calls /\ Down \in Lives /\ Down.at = "down"
      /\ thread = [t \in Threads |-> NoCall] /\ life = Down
  BY NoCallIs, DownIs DEF PolicyInit
<1>2. \A t \in Threads : thread[t].at = "idle" /\ thread[t] \in Calls
  BY <1>1 DEF Fresh
<1>3. Fields
  BY <1>1, <1>2 DEF PolicyInit, Fields
<1>4. Types
  <2>1. lock # NoFile <=> \E t \in Threads : thread[t].at \in Writing
    BY <1>2 DEF PolicyInit, Writing
  <2> QED  BY <1>1, <1>3, <2>1, TypesAre
<1>5. LockShape
  BY <1>2, PolicyAssumption DEF PolicyInit, LockShape, Writing
<1>6. StartShape /\ ServiceShape /\ StartReadsWhatItJudged /\ BehindForACause
  BY <1>1, <1>2 DEF StartShape, ServiceShape, StartReadsWhatItJudged, BehindForACause
<1>7. ArchiveShape
  BY <1>2, PolicyAssumption DEF PolicyInit, ArchiveShape
<1>8. CommittedShape
  BY DEF PolicyInit, CommittedShape
<1>9. \A t \in Threads : ReadShape(thread[t])
  BY <1>2 DEF ReadShape, Keeping, Writing
<1> QED  BY <1>4, <1>5, <1>6, <1>7, <1>8, <1>9 DEF PolicyInv

(* No step breaks it.                                                      *)
LEMMA PolicyKept == PolicyInv /\ [PolicyNext]_policyVars => PolicyInv'
<1> SUFFICES ASSUME PolicyInv, [PolicyNext]_policyVars PROVE PolicyInv'
  OBVIOUS
<1>1. CASE Administrator
  BY <1>1, RetargetKeeps, RewriteKeeps DEF Administrator
<1>2. CASE Startup
  BY <1>2, HoldAtStartKeeps, WalkAtStartKeeps, RecheckAtStartKeeps, ReadAtStartKeeps, AnswerAtStartKeeps,
     RecoverArchiveKeeps, KeepAtStartKeeps, ListenKeeps DEF Startup
<1>3. CASE Killed \/ PowerLost
  BY <1>3, KilledKeeps, PowerLostKeeps
<1>4. ASSUME NEW t \in Threads,
             \/ \E question \in Questions \cup {Absent} : Open(t, question)
             \/ Read(t) \/ Answer(t) \/ Compare(t) \/ RebuildStep(t)
             \/ Keep(t) \/ WriteTemporary(t) \/ LinkVersion(t) \/ SyncDirectory(t) \/ Decide(t)
      PROVE  PolicyInv'
  BY <1>4, OpenKeeps, ReadKeeps, AnswerKeeps, CompareKeeps, RebuildStepKeeps, KeepKeeps,
     WriteTemporaryKeeps, LinkVersionKeeps, SyncDirectoryKeeps, DecideKeeps
<1>5. CASE UNCHANGED policyVars
  <2>1. UNCHANGED <<name, file, archive, orphans, interrupted, lock, life, current, projected, excused, thread, committed>>
    BY <1>5 DEF policyVars, fileVars, archiveVars, serviceVars
  <2>2. Fields'
    BY <2>1, TypesAre DEF PolicyInv, Fields
  <2>3. LockShape' /\ StartShape' /\ StartReadsWhatItJudged'
    BY <2>1 DEF PolicyInv, LockShape, StartShape, StartReadsWhatItJudged
  <2>4. ServiceShape' /\ BehindForACause'
    BY <2>1 DEF PolicyInv, ServiceShape, BehindForACause
  <2>5. ArchiveShape'
    BY <2>1 DEF PolicyInv, ArchiveShape, Kept
  <2>6. CommittedShape'
    BY <2>1 DEF PolicyInv, CommittedShape
  <2>7. (\A t \in Threads : ReadShape(thread[t]))'
    BY <2>1 DEF PolicyInv, ReadShape, InForce
  <2> QED  BY <2>2, <2>3, <2>4, <2>5, <2>6, <2>7, TypesFollow DEF PolicyInv
<1> QED  BY <1>1, <1>2, <1>3, <1>4, <1>5 DEF PolicyNext

(* The inductive invariant of the policy's way from the administrator's    *)
(* file to a committed decision, for every number of threads, every set of *)
(* files and contents, every incident and every bound.                     *)
THEOREM PolicyIsFollowed == PolicySpec => []PolicyInv
BY PolicyInitially, PolicyKept, PTL DEF PolicySpec

(* A committed record, and what it was decided on.                         *)
LEMMA RecordIs ==
  ASSUME CommittedShape, NEW d \in committed
  PROVE  /\ d.version \in Contents /\ Accepted(d.version) /\ d.in_force
         /\ d.capability = d.question.capability /\ d.scope = d.question.scope /\ d.digest = d.question.digest
         /\ d.references = references_read(Policy(d.version).rules, d.question)
         /\ d.reason \in RecipeReasons =>
              [outcome |-> d.outcome, reason |-> d.reason, rule_id |-> d.rule_id]
                = evaluate(Policy(d.version).rules, d.question)
<1> DEFINE verdict == evaluate(Policy(d.version).rules, d.question)
<1>1. /\ d.version \in Contents /\ Accepted(d.version)
      /\ \E w \in Consulted(verdict) : d = Decision(d.version, d.question, w, TRUE)
  BY DEF CommittedShape
<1>2. PICK w \in Consulted(verdict) : d = Decision(d.version, d.question, w, TRUE)
  BY <1>1
<1>3. /\ d.in_force
      /\ d.capability = d.question.capability /\ d.scope = d.question.scope /\ d.digest = d.question.digest
      /\ d.references = references_read(Policy(d.version).rules, d.question)
      /\ d.outcome = w.outcome /\ d.reason = w.reason /\ d.rule_id = w.rule_id
  BY <1>2 DEF Decision
<1>4. \/ \E level \in 1..3, i \in DOMAIN Policy(d.version).rules :
            verdict = [outcome |-> Strictest[level].outcome, reason |-> Strictest[level].reason,
                       rule_id |-> Policy(d.version).rules[i].rule_id]
      \/ verdict = [outcome |-> "deny", reason |-> "policy_absent", rule_id |-> Absent]
  BY <1>1, AcceptedRules, StrictestDecides
<1>5. PICK o, r, id : verdict = [outcome |-> o, reason |-> r, rule_id |-> id]
  BY <1>4
<1> HIDE DEF verdict
<1>6. w.reason \in RecipeReasons => w = verdict
  BY <1>5 DEF Consulted, RecipeReasons
<1>7. d.reason \in RecipeReasons => [outcome |-> d.outcome, reason |-> d.reason, rule_id |-> d.rule_id] = verdict
  BY <1>3, <1>5, <1>6
<1> QED  BY <1>1, <1>3, <1>7 DEF verdict

(* What the plane acts on is the authority that was read: every decision   *)
(* was taken on bytes that stood under the configured name during its ask, *)
(* if the name moved at most once (load); a start reads the file its       *)
(* protection was judged on (protection_at_start); and the projection is   *)
(* behind only for a cause (_change_to).                                   *)
THEOREM ReadsDoFollow == PolicySpec => []ReadsFollowTheAuthority
<1>1. PolicyInv => ReadsFollowTheAuthority
  BY RecordIs DEF PolicyInv, Types, ReadsFollowTheAuthority, InForceWhenRead
<1> QED  BY <1>1, PolicyIsFollowed, PTL

(* The bytes of every version a committed decision names are in the        *)
(* archive, through failed writes and syncs, kills, power losses and       *)
(* restarts, unless the keep that named them was stopped before the        *)
(* directory's sync (_archive, FilePolicyArchive.keep).                    *)
THEOREM VersionsAreKept == PolicySpec => []CommittedVersionsAreKept
<1>1. PolicyInv => CommittedVersionsAreKept
  BY PolicyAssumption DEF PolicyInv, ArchiveShape, Kept, CommittedVersionsAreKept
<1> QED  BY <1>1, PolicyIsFollowed, PTL

(* A committed record explains itself: the contract package's own parser   *)
(* and evaluation, over the archived bytes and the references the record   *)
(* carries, give the recorded answer (rederive_recorded_decision), and the *)
(* order of the file's rules had no part in it (evaluate).                 *)
THEOREM RecordsDoExplain == PolicySpec => []RecordsExplainThemselves
<1>1. ASSUME PolicyInv PROVE RecordsExplainThemselves
  <2>1. CommittedShape
    BY <1>1 DEF PolicyInv
  <2>2. ASSUME NEW d \in committed
        PROVE  rederive_recorded_decision(d, Document(d.version)) =
                 (IF d.reason \in RecipeReasons THEN "confirmed" ELSE "reason_outside_recipe")
    <3>1. CASE d.reason \notin RecipeReasons
      BY <3>1 DEF rederive_recorded_decision
    <3>2. CASE d.reason \in RecipeReasons
      <4>1. RecordedPolicyAccepted(Document(d.version))
        BY <2>1, RecordIs, AcceptedDocument
      <4>2. evaluate_recorded_inputs(Document(d.version), d) = evaluate(Policy(d.version).rules, d.question)
        BY <2>1, RecordIs, EvaluationsAgree
      <4>3. evaluate(Policy(d.version).rules, d.question)
              = [outcome |-> d.outcome, reason |-> d.reason, rule_id |-> d.rule_id]
        BY <2>1, <3>2, RecordIs
      <4> QED  BY <3>2, <4>1, <4>2, <4>3 DEF rederive_recorded_decision
    <3> QED  BY <3>1, <3>2
  <2>3. ASSUME NEW d \in committed, d.reason \in RecipeReasons
        PROVE  LET other == evaluate(Reverse(Policy(d.version).rules), d.question)
               IN  other.outcome = d.outcome /\ other.reason = d.reason
    <3>1. /\ d.version \in Contents /\ Accepted(d.version)
          /\ [outcome |-> d.outcome, reason |-> d.reason, rule_id |-> d.rule_id]
                = evaluate(Policy(d.version).rules, d.question)
      BY <2>1, <2>3, RecordIs
    <3>2. /\ evaluate(Policy(d.version).rules, d.question).outcome = d.outcome
          /\ evaluate(Policy(d.version).rules, d.question).reason = d.reason
      BY <3>1
    <3> QED  BY <3>1, <3>2, OrderIsNoMatter
  <2> QED  BY <2>2, <2>3 DEF RecordsExplainThemselves, ReplayAgrees, OrderDoesNotDecide
<1> QED  BY <1>1, PolicyIsFollowed, PTL
=============================================================================
