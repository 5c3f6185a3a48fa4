----------------------- MODULE BoundaryAndReadsProofs -----------------------
(***************************************************************************)
(* Proofs about the two ends that are told what the daemon decided and     *)
(* recorded: the in-process boundary of a governed program, and a reader   *)
(* of the evidence.                                                        *)
(*                                                                         *)
(* Boundary: BoundaryInv is kept by every step of any number of threads,   *)
(* readers and questions; that no reader is orphaned, that a hit is fresh  *)
(* and that the outcome log declares its gaps follow from it.              *)
(* The log comes first, since a thread in it touches nothing else.  Then   *)
(* what may happen to a reader is said once (Newer, ReadersGoOn), and what *)
(* a thread that does not move keeps (StandsStill); each action has one    *)
(* lemma that says what it owes (Moved).                                   *)
(*                                                                         *)
(* EvidenceReads: ReadsInv is kept by every append, edit and removal.  A   *)
(* stored line is the record of its place but for an edit's marks          *)
(* (StoredAs); a chain that was damaged is not Whole, and stays so when it *)
(* grows.  The verifier is reasoned about over any range of such lines:    *)
(* what it calls intact is unbroken, so it is what was recorded, and the   *)
(* grades it states are those of the records or lower.                     *)
(***************************************************************************)
EXTENDS Boundary, EvidenceReads, WellFoundedInduction, FunctionTheorems, SequenceTheorems, FiniteSetTheorems, TLAPS

LogPlaces == {"outside", "full", "shed", "room", "stamped", "emptying", "popped", "raised"}
Hands == [at : LogPlaces, value : Nat]
Fields ==
  /\ pending \in Seq(Nat \ {0}) /\ sequence \in Nat /\ dropped \in Nat
  /\ emitted \in Seq([sequence: Nat \ {0}, droppedBefore: Nat])
  /\ users \subseteq Threads

(* The type of the log, with the hands apart.                              *)
LEMMA LogGroups == LogTypeOK <=> Fields /\ hand \in [Threads -> Hands]
  BY DEF LogTypeOK, Fields, Hands, LogPlaces

(* The same of the next state.                                             *)
LEMMA LogGroupsNext == LogTypeOK' <=> Fields' /\ hand' \in [Threads -> Hands]
  BY DEF LogTypeOK, Fields, Hands, LogPlaces

(* A thread that goes somewhere is the only one that moves.                *)
LEMMA Going ==
  ASSUME hand \in [Threads -> Hands], NEW t \in Threads,
         NEW at \in LogPlaces, NEW value \in Nat, Goes(t, at, value)
  PROVE  /\ hand' \in [Threads -> Hands]
         /\ hand'[t].at = at /\ hand'[t].value = value
         /\ \A u \in Threads : u # t => hand'[u] = hand[u]
<1>1. Place(at, value) \in Hands
  BY DEF Place, Hands
<1>2. hand' \in [Threads -> Hands] /\ hand'[t] = Place(at, value)
  BY <1>1, Zenon DEF Goes
<1>3. \A u \in Threads : u # t => hand'[u] = hand[u]
  BY Zenon DEF Goes
<1>4. QED
  BY <1>2, <1>3 DEF Place

(* What each step of the log makes of its thread's hand.                   *)
LEMMA Moves ==
  ASSUME LogInv, NEW t \in Threads, RecordBegins(t) \/ FlushBegins(t) \/ LogStep(t)
  PROVE  \E at \in LogPlaces, value \in Nat : Goes(t, at, value)
<1>0. hand[t].value \in Nat /\ sequence \in Nat /\ pending \in Seq(Nat \ {0})
  BY LogGroups DEF LogInv, Fields, Hands
<1>1. CASE RecordBegins(t)
  BY <1>1, Zenon DEF RecordBegins, LogPlaces
<1>2. CASE FlushBegins(t)
  BY <1>2, Zenon DEF FlushBegins, LogPlaces
<1>3. CASE Sheds(t)
  BY <1>3, Zenon DEF Sheds, LogPlaces
<1>4. CASE Stamps(t)
  BY <1>0, <1>4, Zenon DEF Stamps, LogPlaces
<1>5. CASE Keeps(t)
  BY <1>5, Zenon DEF Keeps, LogPlaces
<1>6. CASE Pops(t)
  <2>1. pending # <<>> => Head(pending) \in Nat
    BY <1>0, HeadTailProperties
  <2>2. QED
    BY <1>6, <2>1, Zenon DEF Pops, LogPlaces
<1>7. CASE HandsOut(t)
  BY <1>7, Zenon DEF HandsOut, LogPlaces
<1>8. CASE Raises(t)
  BY <1>8, Zenon DEF Raises, LogPlaces
<1>9. QED
  BY <1>1, <1>2, <1>3, <1>4, <1>5, <1>6, <1>7, <1>8 DEF LogStep

(* Every step of a thread in the log keeps the types.                      *)
LEMMA LogTypes ==
  ASSUME LogInv, NEW t \in Threads, RecordBegins(t) \/ FlushBegins(t) \/ LogStep(t)
  PROVE  LogTypeOK'
<1>1. Fields /\ hand \in [Threads -> Hands]
  BY LogGroups DEF LogInv
<1>2. hand' \in [Threads -> Hands]
  BY <1>1, Moves, Going
<1>3. Fields'
  <2> USE <1>1 DEF Fields
  <2>1. CASE RecordBegins(t) \/ FlushBegins(t)
    BY <2>1 DEF RecordBegins, FlushBegins
  <2>2. CASE Sheds(t) \/ Pops(t)
    <3>1. pending # <<>> => Tail(pending) \in Seq(Nat \ {0})
      BY HeadTailProperties
    <3>2. QED
      BY <2>2, <3>1 DEF Sheds, Pops
  <2>3. CASE Stamps(t) \/ Raises(t)
    BY <2>3 DEF Stamps, Raises
  <2>4. CASE Keeps(t)
    <3>1. hand[t].value \in Nat \ {0}
      BY <2>4, <1>1 DEF Keeps, At, LogInv, HandShape, Hands
    <3>2. Append(pending, hand[t].value) \in Seq(Nat \ {0})
      BY <3>1, AppendProperties
    <3>3. QED
      BY <2>4, <3>2 DEF Keeps
  <2>5. CASE HandsOut(t)
    <3>1. hand[t].value \in Nat \ {0}
      BY <2>5, <1>1 DEF HandsOut, At, LogInv, HandShape, Hands
    <3> DEFINE e == [sequence |-> hand[t].value, droppedBefore |-> dropped]
    <3>2. e \in [sequence: Nat \ {0}, droppedBefore: Nat]
      BY <3>1
    <3>3. Append(emitted, e) \in Seq([sequence: Nat \ {0}, droppedBefore: Nat])
      BY <3>2, AppendProperties
    <3>4. emitted' \in Seq([sequence: Nat \ {0}, droppedBefore: Nat])
      BY <2>5, <3>3, Zenon DEF HandsOut
    <3>5. dropped' \in Nat /\ UNCHANGED <<pending, sequence, users>>
      BY <2>5 DEF HandsOut
    <3>6. QED
      BY <3>4, <3>5
  <2>6. QED
    BY <2>1, <2>2, <2>3, <2>4, <2>5 DEF LogStep
<1>4. QED
  BY <1>2, <1>3, LogGroupsNext

(* Who is in the log has entered it, and carries a number that was given.  *)
LEMMA HandStep ==
  ASSUME LogInv, NEW t \in Threads, RecordBegins(t) \/ FlushBegins(t) \/ LogStep(t)
  PROVE  HandShape' /\ t \in users' /\ IsFiniteSet(users')
<1>1. hand \in [Threads -> Hands] /\ Fields
  BY LogGroups DEF LogInv
<1>2. PICK at \in LogPlaces, value \in Nat : Goes(t, at, value)
  BY Moves
<1>3. hand'[t].at = at /\ hand'[t].value = value /\ \A u \in Threads : u # t => hand'[u] = hand[u]
  BY <1>1, <1>2, Going
<1>4. users' = users \cup {t} /\ t \in users'
  <2>1. CASE RecordBegins(t) \/ FlushBegins(t)
    BY <2>1 DEF RecordBegins, FlushBegins
  <2>2. CASE LogStep(t)
    <3>1. hand[t].at # "outside"
      BY <2>2 DEF LogStep, At, Sheds, Stamps, Keeps, Pops, HandsOut, Raises
    <3>2. t \in users
      BY <3>1 DEF LogInv, HandShape, At
    <3>3. users' = users
      BY <2>2 DEF LogStep, Sheds, Stamps, Keeps, Pops, HandsOut, Raises
    <3>4. QED
      BY <3>2, <3>3
  <2>3. QED
    BY <2>1, <2>2
<1>5. IsFiniteSet(users')
  BY <1>4, FS_AddElement DEF LogInv
<1>6. sequence' \in Nat /\ sequence' >= sequence
  BY <1>1 DEF Fields, RecordBegins, FlushBegins, LogStep, Sheds, Stamps, Keeps, Pops, HandsOut,
              Raises
<1>7. /\ hand'[t].at \in {"full", "shed", "room"} => sequence' # 0
      /\ hand'[t].at \in {"stamped", "popped"} => hand'[t].value # 0
  <2> USE <1>1 DEF Fields
  <2>1. CASE RecordBegins(t)
    BY <2>1 DEF RecordBegins, Goes, Place
  <2>2. CASE FlushBegins(t)
    BY <2>2 DEF FlushBegins, Goes, Place
  <2>3. CASE Sheds(t)
    BY <2>3 DEF Sheds, Goes, Place, LogInv, HandShape, At
  <2>4. CASE Stamps(t)
    BY <2>4 DEF Stamps, Goes, Place, LogInv, HandShape, At
  <2>5. CASE Keeps(t) \/ Raises(t)
    BY <2>5 DEF Keeps, Raises, Goes, Place
  <2>6. CASE Pops(t)
    <3>1. pending # <<>> => Head(pending) \in Nat \ {0}
      BY HeadTailProperties
    <3>2. QED
      BY <2>6, <3>1 DEF Pops, Goes, Place
  <2>7. CASE HandsOut(t)
    BY <2>7 DEF HandsOut, Goes, Place
  <2>8. QED
    BY <2>1, <2>2, <2>3, <2>4, <2>5, <2>6, <2>7 DEF LogStep
<1>8. ASSUME NEW u \in Threads
      PROVE  /\ hand'[u].at \in {"full", "shed", "room"} => sequence' # 0
             /\ hand'[u].at \in {"stamped", "popped"} => hand'[u].value # 0
             /\ ~ At(u, "outside")' => u \in users'
  <2>1. CASE u = t
    BY <1>4, <1>7, <2>1
  <2>2. CASE u # t
    BY <1>1, <1>3, <1>4, <1>6, <2>2 DEF LogInv, HandShape, Fields, At
  <2>3. QED
    BY <2>1, <2>2
<1>9. QED
  BY <1>4, <1>5, <1>8 DEF HandShape

(* One number more has left the log: lost, or handed out.                  *)
LEMMA OneMoreLeft ==
  ASSUME NEW p \in Nat, NEW H \in SUBSET (1..p)
  PROVE  /\ Cardinality((1..(p + 1)) \ H) = Cardinality((1..p) \ H) + 1
         /\ Cardinality((1..(p + 1)) \ (H \cup {p + 1})) = Cardinality((1..p) \ H)
<1>1. (1..(p + 1)) \ (H \cup {p + 1}) = (1..p) \ H
  OBVIOUS
<1>2. (1..(p + 1)) \ H = ((1..p) \ H) \cup {p + 1} /\ p + 1 \notin (1..p) \ H
  OBVIOUS
<1>3. IsFiniteSet((1..p) \ H)
  <2>1. IsFiniteSet(1..p)
    BY FS_Interval
  <2>2. QED
    BY <2>1, FS_Subset
<1>4. QED
  BY <1>1, <1>2, <1>3, FS_AddElement

(* What was handed out, one record later.                                  *)
LEMMA HandedOut ==
  ASSUME Fields, NEW e \in [sequence: Nat \ {0}, droppedBefore: Nat],
         emitted' = Append(emitted, e)
  PROVE  /\ Handed' = Handed \cup {e.sequence}
         /\ DOMAIN emitted' = DOMAIN emitted \cup {Len(emitted) + 1}
         /\ \A i \in DOMAIN emitted : emitted'[i] = emitted[i]
         /\ emitted'[Len(emitted) + 1] = e
<1>1. DOMAIN emitted = 1..Len(emitted) /\ Len(emitted) \in Nat
  BY DEF Fields
<1>2. DOMAIN emitted' = 1..(Len(emitted) + 1)
  BY AppendProperties DEF Fields
<1>3. /\ \A i \in DOMAIN emitted : emitted'[i] = emitted[i]
      /\ emitted'[Len(emitted) + 1] = e
  BY <1>1, AppendProperties DEF Fields
<1>4. Handed' = Handed \cup {e.sequence}
  <2>1. Handed' \subseteq Handed \cup {e.sequence}
    BY <1>1, <1>2, <1>3 DEF Handed
  <2>2. Handed \subseteq Handed'
    BY <1>1, <1>2, <1>3 DEF Handed
  <2>3. e.sequence \in Handed'
    BY <1>1, <1>2, <1>3 DEF Handed
  <2>4. QED
    BY <2>1, <2>2, <2>3
<1>5. QED
  BY <1>1, <1>2, <1>3, <1>4

(* The log used by one thread: what has left it, what is in it, and the    *)
(* number in that thread's hand follow each other.                         *)
LEMMA OneThreadStep ==
  ASSUME LogInv, NEW t \in Threads, OneThread(t),
         \/ At(t, "outside") /\ (RecordBegins(t) \/ FlushBegins(t))
         \/ LogStep(t)
  PROVE  OneThread(t)'
<1>1. hand \in [Threads -> Hands] /\ Fields /\ Capacity \in Nat \ {0}
  BY LogGroups, CapacityAssumption DEF LogInv
<1>3. /\ hand[t] \in Hands /\ DOMAIN pending = 1..Len(pending) /\ Len(pending) \in Nat
      /\ sequence \in Nat /\ dropped \in Nat
      /\ \A i \in DOMAIN pending : pending[i] \in Nat
  BY <1>1 DEF Fields
<1>13. LastIn(t) \in Int /\ Passed(t) \in Nat /\ Handed \in SUBSET (1..Passed(t))
  BY <1>3 DEF LastIn, OneThread
<1>14. /\ hand[t].at = "shed" => Cardinality((1..Passed(t)) \ Handed) = dropped + 1
       /\ hand[t].at # "shed" => Cardinality((1..Passed(t)) \ Handed) = dropped
  <2>1. Cardinality((1..Passed(t)) \ Handed) = dropped + (IF hand[t].at = "shed" THEN 1 ELSE 0)
    BY Zenon DEF OneThread, At
  <2>2. dropped + 0 = dropped
    BY <1>3
  <2>3. CASE hand[t].at = "shed"
    BY <2>1, <2>3, Zenon
  <2>4. CASE hand[t].at # "shed"
    BY <2>1, <2>2, <2>4, Zenon
  <2>5. QED
    BY <2>3, <2>4
<1> USE CapacityAssumption
<1>4. CASE At(t, "outside") /\ RecordBegins(t)
  <2>1. /\ sequence' = sequence + 1 /\ pending' = pending /\ Handed' = Handed /\ dropped' = dropped
        /\ hand'[t].at = (IF Len(pending) = Capacity THEN "full" ELSE "room")
        /\ hand[t].at = "outside"
    BY <1>1, <1>4 DEF RecordBegins, IsFull, Goes, Place, Handed, At
  <2>2. LastIn(t) = sequence /\ Passed(t) = sequence - Len(pending)
    BY <1>3, <2>1 DEF Passed, LastIn, At
  <2>3. LastIn(t)' = LastIn(t) /\ Passed(t)' = Passed(t)
    BY <1>1, <2>1 DEF Passed, LastIn, At, Fields
  <2>4. Passed(t)' \in Nat /\ Handed' \subseteq 1..Passed(t)'
    BY <2>1, <2>3 DEF OneThread
  <2>5. Cardinality((1..Passed(t)') \ Handed') = dropped'
    <3>1. Cardinality((1..Passed(t)) \ Handed) = dropped
      <4>1. hand[t].at # "shed"
        BY <2>1
      <4>2. QED
        BY <1>14, <4>1, Zenon
    <3>2. QED
      BY <2>1, <2>3, <3>1
  <2>6. \A i \in DOMAIN pending' : pending'[i] = LastIn(t)' - Len(pending') + i
    BY <2>1, <2>3, Zenon DEF OneThread
  <2>8. Len(pending') <= Capacity /\ Len(pending') \in Nat
    BY <1>3, <2>1 DEF OneThread
  <2>9. /\ hand'[t].at = "full" => Len(pending') = Capacity
        /\ hand'[t].at = "room" => Len(pending') < Capacity
        /\ hand'[t].at \in {"full", "room"}
    BY <1>3, <2>1, <2>8
  <2>10. (IF hand'[t].at = "shed" THEN 1 ELSE 0) = 0 /\ dropped' + 0 = dropped'
    <3>1. hand'[t].at # "shed"
      BY <2>9
    <3>2. dropped + 0 = dropped
      BY <1>3
    <3>3. dropped' = dropped
      BY <2>1
    <3>4. QED
      BY <3>1, <3>2, <3>3
  <2>11. QED
    BY <2>4, <2>5, <2>6, <2>8, <2>9, <2>10 DEF OneThread, At
<1>5. CASE At(t, "outside") /\ FlushBegins(t)
  <2>1. /\ UNCHANGED <<sequence, pending, dropped>> /\ Handed' = Handed
        /\ hand'[t].at = (IF pending = <<>> THEN "outside" ELSE "emptying")
        /\ hand[t].at = "outside"
    BY <1>1, <1>5 DEF FlushBegins, Goes, Place, Handed, At
  <2>2. LastIn(t)' = LastIn(t) /\ Passed(t)' = Passed(t)
    BY <1>1, <2>1 DEF Passed, LastIn, At, Fields
  <2>3. Cardinality((1..Passed(t)') \ Handed') = dropped'
    BY <1>3, <2>1, <2>2 DEF OneThread, At
  <2>4. QED
    BY <1>1, <1>3, <2>1, <2>2, <2>3 DEF OneThread, At
<1>6. CASE Sheds(t)
  <2>1. pending # <<>> /\ Len(pending) = Capacity
    BY <1>3, <1>6 DEF Sheds, OneThread
  <2>2. /\ UNCHANGED <<sequence, dropped>> /\ Handed' = Handed /\ pending' = Tail(pending)
        /\ hand'[t].at = "shed" /\ hand[t].at = "full"
    BY <1>1, <1>6, <2>1 DEF Sheds, Goes, Place, Handed, At
  <2>3. /\ Len(pending') = Len(pending) - 1 /\ DOMAIN pending' = 1..(Len(pending) - 1)
        /\ \A i \in DOMAIN pending' : pending'[i] = pending[i + 1]
    BY <1>1, <1>3, <2>1, <2>2, HeadTailProperties DEF Fields
  <2>4. LastIn(t)' = LastIn(t) /\ Passed(t)' = Passed(t) + 1 /\ Passed(t) \in Nat
    BY <1>1, <1>3, <2>2, <2>3 DEF Passed, LastIn, At, Fields, OneThread
  <2>5. Cardinality((1..Passed(t)') \ Handed') = dropped' + 1
    <3>1. Cardinality((1..Passed(t)) \ Handed) = dropped /\ Handed \in SUBSET (1..Passed(t))
      BY <1>1, <2>2 DEF OneThread, At, Fields
    <3>2. QED
      BY <2>2, <2>4, <3>1, OneMoreLeft
  <2>6. \A i \in DOMAIN pending' : pending'[i] = LastIn(t)' - Len(pending') + i
    <3>1. TAKE i \in DOMAIN pending'
    <3>2. i \in Nat /\ i + 1 \in DOMAIN pending
      BY <1>3, <2>3
    <3>3. pending[i + 1] = LastIn(t) - Len(pending) + (i + 1)
      BY <3>2 DEF OneThread
    <3>4. QED
      BY <1>3, <1>13, <2>3, <2>4, <3>2, <3>3
  <2>7. Passed(t)' \in Nat /\ Handed' \subseteq 1..Passed(t)'
    BY <2>2, <2>4 DEF OneThread
  <2>8. QED
    BY <1>1, <1>3, <2>1, <2>2, <2>3, <2>5, <2>6, <2>7 DEF OneThread, At
<1>7. CASE Stamps(t)
  <2>1. /\ UNCHANGED <<sequence, pending>> /\ Handed' = Handed
        /\ hand'[t].at = "stamped" /\ hand'[t].value = sequence
        /\ dropped' = IF hand[t].at = "shed" THEN dropped + 1 ELSE dropped
        /\ hand[t].at \in {"shed", "room"}
    BY <1>1, <1>7 DEF Stamps, Goes, Place, Handed, At
  <2>2. LastIn(t)' = LastIn(t) /\ Passed(t)' = Passed(t)
    BY <1>1, <2>1 DEF Passed, LastIn, At, Fields
  <2>3. Cardinality((1..Passed(t)') \ Handed') = dropped'
    BY <1>1, <2>1, <2>2 DEF OneThread, At, Fields
  <2>4. \A i \in DOMAIN pending' : pending'[i] = LastIn(t)' - Len(pending') + i
    BY <2>1, <2>2, Zenon DEF OneThread
  <2>5. Len(pending') < Capacity
    BY <2>1 DEF OneThread
  <2>6. Passed(t)' \in Nat /\ Handed' \subseteq 1..Passed(t)'
    BY <2>1, <2>2 DEF OneThread
  <2>7. hand'[t].at = "stamped" /\ hand'[t].value = sequence' /\ dropped' + 0 = dropped'
    BY <1>3, <2>1
  <2>8. Len(pending') <= Capacity
    BY <1>3, <2>1, <2>5
  <2>9. QED
    BY <2>3, <2>4, <2>5, <2>6, <2>7, <2>8 DEF OneThread, At
<1>8. CASE Keeps(t)
  <2>1. /\ UNCHANGED <<sequence, dropped>> /\ Handed' = Handed
        /\ pending' = Append(pending, sequence)
        /\ hand'[t].at = "outside" /\ hand[t].at = "stamped"
    BY <1>1, <1>8 DEF Keeps, Goes, Place, Handed, At, OneThread
  <2>2. /\ Len(pending') = Len(pending) + 1 /\ DOMAIN pending' = 1..(Len(pending) + 1)
        /\ \A i \in DOMAIN pending : pending'[i] = pending[i]
        /\ pending'[Len(pending) + 1] = sequence
    BY <1>1, <1>3, <2>1 DEF Fields
  <2>3. /\ sequence \in Nat /\ LastIn(t) = sequence - 1 /\ LastIn(t)' = sequence
        /\ Passed(t)' = Passed(t)
    BY <1>1, <1>3, <2>1, <2>2 DEF Passed, LastIn, At, Fields
  <2>4. Cardinality((1..Passed(t)') \ Handed') = dropped'
    BY <1>1, <2>1, <2>3 DEF OneThread, At, Fields
  <2>5. \A i \in DOMAIN pending' : pending'[i] = LastIn(t)' - Len(pending') + i
    <3>1. TAKE i \in DOMAIN pending'
    <3>2. CASE i \in DOMAIN pending
      <4>1. pending[i] = LastIn(t) - Len(pending) + i
        BY <3>2, Zenon DEF OneThread
      <4>3. i \in Nat
        BY <1>3, <3>2
      <4>2. QED
        BY <1>3, <2>2, <2>3, <3>2, <4>1, <4>3
    <3>3. CASE i = Len(pending) + 1
      BY <1>3, <2>2, <2>3, <3>3
    <3>4. QED
      BY <1>3, <2>2, <3>2, <3>3
  <2>6. QED
    BY <1>1, <1>3, <2>1, <2>2, <2>3, <2>4, <2>5 DEF OneThread, At
<1>9. CASE Pops(t)
  <2>1. pending # <<>>
    BY <1>9 DEF Pops, OneThread
  <2>2. /\ UNCHANGED <<sequence, dropped>> /\ Handed' = Handed /\ pending' = Tail(pending)
        /\ hand'[t].at = "popped" /\ hand'[t].value = pending[1] /\ hand[t].at = "emptying"
    BY <1>1, <1>9, <2>1 DEF Pops, Goes, Place, Handed, At
  <2>3. /\ Len(pending') = Len(pending) - 1 /\ DOMAIN pending' = 1..(Len(pending) - 1)
        /\ \A i \in DOMAIN pending' : pending'[i] = pending[i + 1]
        /\ 1 \in DOMAIN pending
    BY <1>1, <1>3, <2>1, <2>2, HeadTailProperties DEF Fields
  <2>4. sequence \in Nat /\ LastIn(t) = sequence /\ LastIn(t)' = sequence /\ Passed(t)' = Passed(t)
    <3>1. sequence \in Nat /\ LastIn(t) = sequence /\ LastIn(t)' = sequence
      BY <1>3, <2>2 DEF LastIn
    <3>2. Passed(t) = sequence - Len(pending) - 0 /\ Passed(t)' = sequence - Len(pending') - 1
      BY <2>2, <3>1 DEF Passed, At
    <3>3. QED
      BY <1>3, <2>3, <3>1, <3>2
  <2>5. pending[1] = Passed(t)' + 1
    BY <1>3, <2>2, <2>3, <2>4 DEF OneThread, Passed, At
  <2>6. Cardinality((1..Passed(t)') \ Handed') = dropped'
    BY <1>1, <2>2, <2>4 DEF OneThread, At, Fields
  <2>7. \A i \in DOMAIN pending' : pending'[i] = LastIn(t)' - Len(pending') + i
    <3>1. TAKE i \in DOMAIN pending'
    <3>2. i \in Nat /\ i + 1 \in DOMAIN pending
      BY <1>3, <2>3
    <3>3. pending[i + 1] = LastIn(t) - Len(pending) + (i + 1)
      BY <3>2 DEF OneThread
    <3>4. QED
      BY <1>3, <1>13, <2>3, <2>4, <3>2, <3>3
  <2>8. QED
    BY <1>1, <1>3, <2>1, <2>2, <2>3, <2>4, <2>5, <2>6, <2>7 DEF OneThread, At
<1>10. CASE HandsOut(t)
  <2> DEFINE v == hand[t].value
             e == [sequence |-> v, droppedBefore |-> dropped]
  <2>1. /\ UNCHANGED <<sequence, pending>>
        /\ hand'[t].at = (IF pending = <<>> THEN "outside" ELSE "emptying")
        /\ hand[t].at = "popped"
        /\ \/ emitted' = Append(emitted, e) /\ dropped' = dropped
           \/ emitted' = emitted /\ dropped' = dropped + 1
    BY <1>1, <1>10 DEF HandsOut, Goes, Place, At
  <2>2. sequence \in Nat /\ LastIn(t)' = LastIn(t) /\ Passed(t)' = Passed(t) + 1
        /\ Passed(t) \in Nat
    BY <1>1, <1>3, <2>1 DEF Passed, LastIn, At, Fields, OneThread
  <2>3. v = Passed(t) + 1 /\ dropped \in Nat
    BY <1>1, <2>1 DEF OneThread, At, Fields
  <2>4. Handed \in SUBSET (1..Passed(t)) /\ Cardinality((1..Passed(t)) \ Handed) = dropped
    BY <1>1, <2>1 DEF OneThread, At, Fields
  <2>5. /\ Cardinality((1..Passed(t)') \ Handed') = dropped'
        /\ Handed' \subseteq 1..Passed(t)'
    <3>1. CASE emitted' = Append(emitted, e) /\ dropped' = dropped
      <4>1. e \in [sequence: Nat \ {0}, droppedBefore: Nat] /\ e.sequence = v
        BY <2>2, <2>3
      <4>2. Handed' = Handed \cup {v}
        <5> HIDE DEF e
        <5>1. Handed' = Handed \cup {e.sequence}
          BY <1>1, <3>1, <4>1, HandedOut
        <5>2. QED
          BY <4>1, <5>1
      <4>3. Cardinality((1..(Passed(t) + 1)) \ (Handed \cup {Passed(t) + 1})) = dropped
        BY <2>2, <2>4, OneMoreLeft
      <4>4. QED
        <5>1. Passed(t)' = Passed(t) + 1 /\ Handed' = Handed \cup {Passed(t) + 1}
          BY <2>2, <2>3, <4>2
        <5>2. Handed' \subseteq 1..Passed(t)'
          <6>1. 1..(Passed(t) + 1) = (1..Passed(t)) \cup {Passed(t) + 1}
            BY <2>2
          <6>2. QED
            BY <2>4, <5>1, <6>1
        <5> HIDE DEF v, e
        <5>3. QED
          BY <3>1, <4>3, <5>1, <5>2
    <3>2. CASE emitted' = emitted /\ dropped' = dropped + 1
      <4>1. Handed' = Handed
        BY <3>2 DEF Handed
      <4>2. Cardinality((1..(Passed(t) + 1)) \ Handed) = dropped + 1
        BY <2>2, <2>4, OneMoreLeft
      <4>3. QED
        BY <2>2, <2>4, <3>2, <4>1, <4>2
    <3>3. QED
      BY <2>1, <3>1, <3>2
  <2>6. QED
    BY <1>1, <1>3, <2>1, <2>2, <2>5 DEF OneThread, At
<1>11. CASE Raises(t)
  BY <1>11 DEF Raises, OneThread
<1>12. QED
  BY <1>4, <1>5, <1>6, <1>7, <1>8, <1>9, <1>10, <1>11 DEF LogStep

(* The numbers a reader never sees below i.                                *)
Unseen(i) == (1..(emitted[i].sequence - 1)) \ Handed

(* A record handed out declares what was lost before it, and changes       *)
(* nothing about the ones handed out earlier.                              *)
LEMMA GapsKept ==
  ASSUME LogInv, NEW t \in Threads, OneThread(t), Cardinality(users) <= 1,
         \/ At(t, "outside") /\ (RecordBegins(t) \/ FlushBegins(t))
         \/ LogStep(t)
  PROVE  \A i \in DOMAIN emitted' : emitted'[i].droppedBefore = Cardinality(Unseen(i)')
<1>1. hand \in [Threads -> Hands] /\ Fields
  BY LogGroups DEF LogInv
<1>2. \A i \in DOMAIN emitted : emitted[i].droppedBefore = Cardinality(Unseen(i))
  BY DEF LogInv, GapsAreDeclared, Unseen, Handed
<1>3. CASE emitted' = emitted
  <2>1. \A i : Unseen(i)' = Unseen(i)
    BY <1>3 DEF Unseen, Handed
  <2>2. QED
    BY <1>2, <1>3, <2>1
<1>4. CASE emitted' # emitted
  <2> DEFINE e == [sequence |-> hand[t].value, droppedBefore |-> dropped]
  <2>1. hand[t].at = "popped" /\ emitted' = Append(emitted, e)
    BY <1>4 DEF RecordBegins, FlushBegins, LogStep, Sheds, Stamps, Keeps, Pops, HandsOut, Raises, At
  <2>2. hand[t].value = Passed(t) + 1 /\ Passed(t) \in Nat /\ Handed \subseteq 1..Passed(t)
    BY <2>1 DEF OneThread, At
  <2>3. Cardinality((1..Passed(t)) \ Handed) = dropped
    <3>1. Cardinality((1..Passed(t)) \ Handed) = dropped + (IF hand[t].at = "shed" THEN 1 ELSE 0)
      BY Zenon DEF OneThread, At
    <3>2. hand[t].at # "shed"
      BY <2>1
    <3>3. dropped + 0 = dropped
      BY <1>1 DEF Fields
    <3>4. QED
      BY <3>1, <3>2, <3>3, Zenon
  <2>4. e \in [sequence: Nat \ {0}, droppedBefore: Nat] /\ e.sequence = Passed(t) + 1
        /\ e.droppedBefore = dropped
    BY <1>1, <2>2 DEF Fields
  <2> HIDE DEF e
  <2>5. /\ Handed' = Handed \cup {Passed(t) + 1}
        /\ DOMAIN emitted' = DOMAIN emitted \cup {Len(emitted) + 1}
        /\ \A i \in DOMAIN emitted : emitted'[i] = emitted[i]
        /\ emitted'[Len(emitted) + 1] = e
    BY <1>1, <2>1, <2>4, HandedOut
  <2>6. ASSUME NEW i \in DOMAIN emitted
        PROVE  emitted'[i].droppedBefore = Cardinality(Unseen(i)')
    <3>1. emitted[i].sequence \in Handed
      BY DEF Handed
    <3>2. emitted[i].sequence \in 1..Passed(t)
      BY <2>2, <3>1
    <3>3. Unseen(i)' = (1..(emitted[i].sequence - 1)) \ (Handed \cup {Passed(t) + 1})
      BY <2>5, Zenon DEF Unseen
    <3>4. Passed(t) + 1 \notin 1..(emitted[i].sequence - 1)
      BY <2>2, <3>2
    <3>5. Unseen(i)' = Unseen(i)
      BY <3>3, <3>4 DEF Unseen
    <3>6. QED
      BY <1>2, <2>5, <3>5
  <2>7. ASSUME NEW k, k = Len(emitted) + 1
        PROVE  emitted'[k].droppedBefore = Cardinality(Unseen(k)')
    <3>1. Unseen(k)' = (1..Passed(t)) \ (Handed \cup {Passed(t) + 1})
      <4>1. emitted'[k].sequence = Passed(t) + 1
        BY <2>4, <2>5, <2>7
      <4>2. 1..(emitted'[k].sequence - 1) = 1..Passed(t)
        BY <2>2, <4>1
      <4>3. Unseen(k)' = (1..(emitted'[k].sequence - 1)) \ Handed'
        BY Zenon DEF Unseen
      <4>4. QED
        BY <2>5, <4>2, <4>3, Zenon
    <3>2. Unseen(k)' = (1..Passed(t)) \ Handed
      BY <2>2, <3>1
    <3>3. QED
      BY <2>3, <2>4, <2>5, <2>7, <3>2
  <2>8. QED
    BY <2>5, <2>6, <2>7
<1>5. QED
  BY <1>3, <1>4

(* Every step of the log keeps what is known of it.                        *)
LEMMA LogKept ==
  ASSUME LogInv, NEW t \in Threads,
         \/ At(t, "outside") /\ (RecordBegins(t) \/ FlushBegins(t))
         \/ LogStep(t)
  PROVE  LogInv'
<1>1. LogTypeOK' /\ HandShape' /\ t \in users' /\ IsFiniteSet(users')
  BY LogTypes, HandStep
<1>2. users \subseteq users'
  BY DEF RecordBegins, FlushBegins, LogStep, Sheds, Stamps, Keeps, Pops, HandsOut, Raises
<1>3. users' \subseteq {t} => OneThread(t)'
  <2>1. users' \subseteq {t} => OneThread(t)
    BY <1>2 DEF LogInv
  <2>2. QED
    BY <2>1, OneThreadStep
<1>4. \A u \in Threads : users' \subseteq {u} => OneThread(u)'
  <2>1. \A u \in Threads : users' \subseteq {u} => u = t
    BY <1>1
  <2>2. QED
    BY <1>3, <2>1
<1>5. GapsAreDeclared'
  <2> SUFFICES ASSUME Cardinality(users') <= 1
               PROVE  /\ Len(pending') <= Capacity
                      /\ \A u \in Threads : ~ At(u, "raised")'
                      /\ \A i \in DOMAIN emitted' :
                           emitted'[i].droppedBefore = Cardinality(Unseen(i)')
    BY DEF GapsAreDeclared, Unseen, Handed
  <2>1. users' \subseteq {t}
    <3>1. Cardinality(users' \ {t}) = Cardinality(users') - 1 /\ IsFiniteSet(users' \ {t})
      BY <1>1, FS_RemoveElement
    <3>2. Cardinality(users') \in Nat /\ Cardinality(users' \ {t}) \in Nat
      BY <1>1, <3>1, FS_CardinalityType
    <3>3. users' \ {t} = {}
      BY <3>1, <3>2, FS_EmptySet
    <3>4. QED
      BY <3>3
  <2>2. OneThread(t) /\ OneThread(t)'
    BY <1>2, <1>3, <2>1 DEF LogInv
  <2>3. Cardinality(users) <= 1
    <3>1. Cardinality(users) <= Cardinality(users') /\ IsFiniteSet(users)
      BY <1>1, <1>2, FS_Subset
    <3>2. Cardinality(users) \in Nat /\ Cardinality(users') \in Nat
      BY <1>1, <3>1, FS_CardinalityType
    <3>3. QED
      BY <3>1, <3>2
  <2>4. ASSUME NEW u \in Threads PROVE ~ At(u, "raised")'
    <3>1. CASE u = t
      BY <2>2, <3>1 DEF OneThread
    <3>2. CASE u # t
      <4>1. At(u, "outside")'
        BY <1>1, <2>1, <3>2 DEF HandShape
      <4>2. QED
        BY <4>1 DEF At
    <3>3. QED
      BY <3>1, <3>2
  <2>5. QED
    BY <2>2, <2>3, <2>4, GapsKept DEF OneThread
<1>6. QED
  BY <1>1, <1>4, <1>5 DEF LogInv

(* What does not touch the log leaves it as it was.                        *)
LEMMA LogUntouched == LogInv /\ UNCHANGED logVars => LogInv'
<1> SUFFICES ASSUME LogInv, UNCHANGED logVars PROVE LogInv'
  OBVIOUS
<1> USE DEF logVars
<1>1. LogTypeOK' /\ HandShape' /\ IsFiniteSet(users')
  BY DEF LogInv, LogTypeOK, HandShape, At
<1>2. Handed' = Handed /\ GapsAreDeclared'
  BY DEF LogInv, GapsAreDeclared, Handed, At
<1>3. ASSUME NEW t \in Threads PROVE LastIn(t)' = LastIn(t) /\ Passed(t)' = Passed(t)
  BY DEF LastIn, Passed, At
<1>4. ASSUME NEW t \in Threads, OneThread(t) PROVE OneThread(t)'
  BY <1>2, <1>3, <1>4 DEF OneThread, At
<1>5. QED
  BY <1>1, <1>2, <1>4 DEF LogInv

(* The empty log.                                                          *)
LEMMA LogStarts == LogInit => LogInv
<1> SUFFICES ASSUME LogInit PROVE LogInv
  OBVIOUS
<1> USE CapacityAssumption DEF LogInit, Outside, Place, At
<1>1. LogTypeOK
  BY DEF LogTypeOK
<1>2. HandShape /\ IsFiniteSet(users)
  BY FS_EmptySet DEF HandShape
<1>3. Handed = {} /\ Len(pending) = 0 /\ DOMAIN pending = {} /\ DOMAIN emitted = {}
  BY DEF Handed
<1>4. ASSUME NEW t \in Threads PROVE OneThread(t)
  <2>1. hand[t].at = "outside" /\ LastIn(t) = 0 /\ Passed(t) = 0
    BY <1>3 DEF LastIn, Passed, At
  <2>2. (1..0) \ Handed = {} /\ dropped + (IF hand[t].at = "shed" THEN 1 ELSE 0) = 0
    BY <2>1
  <2>3. QED
    BY <1>3, <2>1, <2>2, FS_EmptySet DEF OneThread, At
<1>5. GapsAreDeclared
  BY <1>3 DEF GapsAreDeclared, At
<1>6. QED
  BY <1>1, <1>2, <1>4, <1>5 DEF LogInv

Signals == [kind: {"heartbeat", "ended"}, at: 0..Horizon]

(* A reader is never rewritten: it keeps its question and its date, it     *)
(* dies once, and it is dead before its channel is closed.                 *)
Newer(r) ==
  /\ readers'[r].question = readers[r].question /\ readers'[r].issued = readers[r].issued
  /\ readers'[r].live => readers[r].live
  /\ readers'[r].closed => ~ readers'[r].live
  /\ readers'[r].live /\ ~ readers'[r].ended => readers'[r].over = Never
  /\ readers'[r].over = readers[r].over \/ readers'[r].over = now

ReadersGoOn ==
  /\ readers' \in Seq(ReaderType) /\ Len(readers') <= MaxGrants
  /\ DOMAIN readers' = 1..Len(readers') /\ Len(readers') \in Nat
  /\ Len(readers) <= Len(readers')
  /\ \A r \in DOMAIN readers : Newer(r)
  /\ \A r \in DOMAIN readers' \ DOMAIN readers :
       readers'[r].over = Never /\ ~ readers'[r].closed

(* What is known of the readers before any step.                           *)
LEMMA ReadersTyped ==
  ASSUME TypeOK
  PROVE  /\ DOMAIN readers = 1..Len(readers) /\ Len(readers) \in Nat /\ Len(readers) <= MaxGrants
         /\ now \in 0..Horizon /\ Horizon \in Nat /\ MaxGrants \in Nat /\ Lifetime \in Nat \ {0}
         /\ \A r \in DOMAIN readers :
              /\ readers[r] \in ReaderType
              /\ readers[r].question \in Questions /\ readers[r].issued \in 0..Horizon
              /\ readers[r].over \in 0..(Horizon + 1) /\ readers[r].stream \in Seq(Signals)
<1>1. /\ DOMAIN readers = 1..Len(readers) /\ Len(readers) \in Nat /\ Len(readers) <= MaxGrants
      /\ now \in 0..Horizon /\ Horizon \in Nat /\ MaxGrants \in Nat /\ Lifetime \in Nat \ {0}
      /\ readers \in Seq(ReaderType)
  BY BoundaryAssumption DEF TypeOK
<1>2. ASSUME NEW r \in DOMAIN readers
      PROVE  /\ readers[r] \in ReaderType
             /\ readers[r].question \in Questions /\ readers[r].issued \in 0..Horizon
             /\ readers[r].over \in 0..(Horizon + 1) /\ readers[r].stream \in Seq(Signals)
  <2>1. readers[r] \in ReaderType
    BY <1>1, ElementOfSeq
  <2>2. QED
    BY <2>1 DEF ReaderType, Signals
<1>3. QED
  BY <1>1, <1>2

(* One reader changed: the others are as they were.                        *)
LEMMA OneReader ==
  ASSUME TypeOK, ReaderShape, NEW r \in DOMAIN readers, NEW x \in ReaderType,
         readers' = [readers EXCEPT ![r] = x],
         x.question = readers[r].question, x.issued = readers[r].issued,
         x.live => readers[r].live, x.closed => ~ x.live,
         x.live /\ ~ x.ended => x.over = Never,
         x.over = readers[r].over \/ x.over = now
  PROVE  ReadersGoOn
<1>1. /\ readers' \in Seq(ReaderType) /\ Len(readers') = Len(readers)
      /\ DOMAIN readers' = DOMAIN readers
  BY ReadersTyped, ExceptSeq DEF TypeOK
<1>2. readers'[r] = x /\ \A i \in DOMAIN readers : i # r => readers'[i] = readers[i]
  BY Zenon
<1>3. Newer(r)
  BY <1>2 DEF Newer
<1>4. ASSUME NEW i \in DOMAIN readers, i # r PROVE Newer(i)
  BY <1>2, <1>4 DEF Newer, ReaderShape
<1>5. QED
  BY <1>1, <1>3, <1>4, ReadersTyped DEF ReadersGoOn

(* Nothing of it moves.                                                    *)
LEMMA NoReader ==
  ASSUME TypeOK, ReaderShape, UNCHANGED readers
  PROVE  ReadersGoOn
<1>1. \A r \in DOMAIN readers : Newer(r)
  BY DEF Newer, ReaderShape
<1>2. QED
  BY <1>1, ReadersTyped DEF ReadersGoOn, TypeOK

(* GrantStore gives a reader up.                                           *)
LEMMA GivingUp ==
  ASSUME TypeOK, ReaderShape, NEW n \in DOMAIN readers, readers' = Abandoned(n)
  PROVE  ReadersGoOn /\ ~ readers'[n].live
<1> DEFINE o == IF readers[n].over = Never THEN now ELSE readers[n].over
           x == [readers[n] EXCEPT !.live = FALSE, !.closed = TRUE, !.over = o]
<1>1. readers' = [readers EXCEPT ![n] = x]
  BY DEF Abandoned
<1>0. o \in 0..(Horizon + 1) /\ (o = readers[n].over \/ o = now)
  BY ReadersTyped
<1> HIDE DEF o
<1>2. /\ x \in ReaderType
      /\ x.question = readers[n].question /\ x.issued = readers[n].issued
      /\ ~ x.live
      /\ x.over = readers[n].over \/ x.over = now
  BY <1>0, ReadersTyped DEF ReaderType
<1> HIDE DEF x
<1>3. ReadersGoOn
  BY <1>1, <1>2, OneReader
<1>4. readers'[n] = x
  BY <1>1, Zenon
<1>5. QED
  BY <1>2, <1>3, <1>4

(* The other end speaks.                                                   *)
LEMMA Sending ==
  ASSUME TypeOK, ReaderShape, NEW r \in DOMAIN readers, NEW kind \in {"heartbeat", "ended"},
         Sends(r, kind)
  PROVE  ReadersGoOn
<1> DEFINE s == Append(readers[r].stream, [kind |-> kind, at |-> now])
           x == [readers[r] EXCEPT !.stream = s]
<1>1. readers' = [readers EXCEPT ![r] = x]
  BY DEF Sends
<1>2. s \in Seq(Signals)
  BY ReadersTyped, AppendProperties DEF Signals
<1> HIDE DEF s
<1>3. /\ x \in ReaderType
      /\ x.question = readers[r].question /\ x.issued = readers[r].issued
      /\ x.live = readers[r].live /\ x.closed = readers[r].closed /\ x.ended = readers[r].ended
      /\ x.over = readers[r].over
  BY <1>2, ReadersTyped DEF ReaderType, Signals
<1> HIDE DEF x
<1>4. QED
  BY <1>1, <1>3, OneReader DEF ReaderShape

(* A frame is read, or the reading ends.                                   *)
LEMMA Reading ==
  ASSUME TypeOK, ReaderShape, NEW r \in DOMAIN readers, ReadsSignal(r) \/ StopsReading(r)
  PROVE  ReadersGoOn
<1>0. readers[r] \in ReaderType /\ now \in 0..Horizon /\ Horizon \in Nat
  BY ReadersTyped
<1>1. CASE ReadsSignal(r)
  <2> DEFINE h == Head(readers[r].stream)
             a == Applied(readers[r], h)
             s == Tail(a.stream)
             x == [a EXCEPT !.stream = s]
  <2>1. readers' = [readers EXCEPT ![r] = x]
    BY <1>1 DEF ReadsSignal
  <2>7. a.stream = readers[r].stream
    BY <1>0 DEF Applied, ReaderType
  <2>2. h \in Signals /\ s \in Seq(Signals)
    <3>1. readers[r].stream \in Seq(Signals) /\ readers[r].stream # <<>>
      BY <1>1, ReadersTyped DEF ReadsSignal
    <3>2. QED
      BY <2>7, <3>1, HeadTailProperties
  <2>3. h.kind \in {"heartbeat", "ended"} /\ h.at \in 0..Horizon
    BY <2>2 DEF Signals
  <2> HIDE DEF h, s
  <2>4. /\ a \in ReaderType
        /\ a.question = readers[r].question /\ a.issued = readers[r].issued
        /\ a.live = readers[r].live /\ a.closed = readers[r].closed
        /\ readers[r].ended => a.ended
        /\ a.over = readers[r].over \/ a.over = now
        /\ ~ a.ended => a.over = readers[r].over
    <3>1. CASE readers[r].ended
      BY <1>0, <3>1 DEF Applied
    <3>2. CASE ~ readers[r].ended
      <4> DEFINE o == IF h.kind = "ended" /\ readers[r].over = Never THEN now ELSE readers[r].over
      <4>1. a = [readers[r] EXCEPT !.heard = h.at, !.ended = h.kind = "ended", !.over = o]
        BY <3>2 DEF Applied
      <4>2. /\ o \in 0..(Horizon + 1) /\ (o = readers[r].over \/ o = now)
            /\ h.kind # "ended" => o = readers[r].over
        BY ReadersTyped
      <4> HIDE DEF o
      <4>3. QED
        BY <1>0, <2>3, <3>2, <4>1, <4>2 DEF ReaderType
    <3>3. QED
      BY <3>1, <3>2
  <2> HIDE DEF a
  <2>5. /\ x \in ReaderType
        /\ x.question = a.question /\ x.issued = a.issued /\ x.live = a.live
        /\ x.closed = a.closed /\ x.ended = a.ended /\ x.over = a.over
    BY <2>2, <2>4 DEF ReaderType, Signals
  <2> HIDE DEF x
  <2>6. QED
    BY <2>1, <2>4, <2>5, OneReader DEF ReaderShape
<1>2. CASE StopsReading(r)
  <2> DEFINE o == IF readers[r].over = Never THEN now ELSE readers[r].over
             e == <<>>
             x == [readers[r] EXCEPT !.thread = "done", !.live = FALSE, !.stream = e, !.over = o]
  <2>1. readers' = [readers EXCEPT ![r] = x]
    BY <1>2 DEF StopsReading, Ended
  <2>3. o \in 0..(Horizon + 1) /\ (o = readers[r].over \/ o = now)
    BY ReadersTyped
  <2>5. e \in Seq(Signals)
    OBVIOUS
  <2> HIDE DEF o, e
  <2>2. /\ x \in ReaderType
        /\ x.question = readers[r].question /\ x.issued = readers[r].issued
        /\ ~ x.live
        /\ x.over = readers[r].over \/ x.over = now
    BY <1>0, <2>3, <2>5 DEF ReaderType, Signals
  <2> HIDE DEF x
  <2>4. QED
    BY <2>1, <2>2, OneReader
<1>3. QED
  BY <1>1, <1>2

(* A grant comes with a new reader.                                        *)
LEMMA Granting ==
  ASSUME TypeOK, ReaderShape, NEW t \in Threads, AskGrants(t)
  PROVE  /\ ReadersGoOn
         /\ DOMAIN readers' = DOMAIN readers \cup {Len(readers) + 1}
         /\ readers'[Len(readers) + 1] = NewReader(asked[t])
<1>1. NewReader(asked[t]) \in ReaderType
  BY ReadersTyped DEF NewReader, ReaderType, TypeOK, Never
<1>2. readers' = Append(readers, NewReader(asked[t])) /\ Len(readers) < MaxGrants
  BY DEF AskGrants
<1> DEFINE x == NewReader(asked[t])
<1>3. x.over = Never /\ ~ x.closed
  BY DEF NewReader
<1> HIDE DEF x
<1>4. /\ readers' \in Seq(ReaderType) /\ Len(readers') = Len(readers) + 1
      /\ DOMAIN readers' = 1..(Len(readers) + 1)
      /\ readers'[Len(readers) + 1] = x
      /\ \A r \in DOMAIN readers : readers'[r] = readers[r]
  BY <1>1, <1>2, ReadersTyped, AppendProperties DEF TypeOK, x
<1>5. \A r \in DOMAIN readers : Newer(r)
  BY <1>4 DEF Newer, ReaderShape
<1>6. DOMAIN readers' = DOMAIN readers \cup {Len(readers) + 1}
  BY <1>4, ReadersTyped
<1>7. QED
  BY <1>2, <1>3, <1>4, <1>5, <1>6, ReadersTyped DEF ReadersGoOn, x

ThreadPlaces == {"idle", "take", "drop", "ask", "put", "displace", "body", "give"}
Hours == 0..Horizon

(* The types of the threads and of the store, readers and log apart.       *)
Rest ==
  /\ holds \in BOOLEAN /\ now \in Hours
  /\ held \in [Questions -> 0..Len(readers)]
  /\ lock \in Threads \cup {NoThread}
  /\ pc \in [Threads -> ThreadPlaces]
  /\ asked \in [Threads -> Questions] /\ judged \in [Threads -> Hours]
  /\ using \in [Threads -> 0..Len(readers)]
  /\ giving \in [Threads -> SUBSET Numbers]
  /\ requests \in 0..MaxRequests /\ flushes \in 0..MaxFlushes

(* The type of the boundary, by groups.                                    *)
LEMMA BoundaryGroups ==
  TypeOK <=> LogTypeOK /\ readers \in Seq(ReaderType) /\ Len(readers) <= MaxGrants /\ Rest
  BY DEF TypeOK, Rest, ThreadPlaces, Hours

(* The same of the next state.                                             *)
LEMMA BoundaryGroupsNext ==
  TypeOK' <=> LogTypeOK' /\ readers' \in Seq(ReaderType) /\ Len(readers') <= MaxGrants /\ Rest'
  BY DEF TypeOK, Rest, ThreadPlaces, Hours

(* What a step leaves alone: a thread's own place, the clock's direction,  *)
(* and the store unless its lock is free or the thread's own.              *)
Stays(u) ==
  /\ pc'[u] = pc[u] /\ asked'[u] = asked[u] /\ judged'[u] = judged[u]
  /\ using'[u] = using[u] /\ giving'[u] = giving[u] /\ hand'[u] = hand[u]
OutOfTheStore(u) ==
  \/ held' = held /\ lock' = lock
  \/ lock # u /\ lock' # u

(* A thread that does not move keeps what is known of it.                  *)
LEMMA StandsStill ==
  ASSUME BoundaryInv, ReadersGoOn, now' \in Nat, now <= now', NEW u \in Threads,
         Stays(u), OutOfTheStore(u)
  PROVE  InPlace(u)' /\ Fresh(u)'
<1>1. /\ Rest /\ InPlace(u) /\ Fresh(u)
      /\ held[asked[u]] \in 0..Len(readers) /\ using[u] \in 0..Len(readers)
      /\ judged[u] \in Nat /\ now \in Nat /\ asked[u] \in Questions
  BY BoundaryGroups DEF BoundaryInv, Rest, Hours
<1>2. DOMAIN readers = 1..Len(readers) /\ DOMAIN readers \subseteq DOMAIN readers'
  BY ReadersTyped DEF BoundaryInv, ReadersGoOn
<1>3. InPlace(u)'
  <2>1. lock' = u <=> pc'[u] \in {"drop", "displace"}
    BY <1>1 DEF InPlace, Stays, OutOfTheStore
  <2>2. pc'[u] = "displace" => held'[asked'[u]] # 0 /\ ~ readers'[held'[asked'[u]]].live
    <3> SUFFICES ASSUME pc[u] = "displace"
                 PROVE  held'[asked[u]] # 0 /\ ~ readers'[held'[asked[u]]].live
      BY DEF Stays
    <3>1. lock = u /\ held[asked[u]] # 0 /\ ~ readers[held[asked[u]]].live
      BY <1>1 DEF InPlace
    <3>2. held' = held
      BY <3>1 DEF OutOfTheStore
    <3>3. Newer(held[asked[u]])
      BY <1>1, <1>2, <3>1 DEF ReadersGoOn
    <3>4. QED
      BY <3>1, <3>2, <3>3 DEF Newer
  <2>3. judged'[u] <= now'
    BY <1>1 DEF InPlace, Stays
  <2>4. giving'[u] \subseteq DOMAIN readers'
    BY <1>1, <1>2 DEF InPlace, Stays
  <2>5. /\ pc'[u] # "idle" => hand'[u].at = "outside"
        /\ giving'[u] # {} => pc'[u] = "give"
        /\ pc'[u] \in {"take", "ask"} => using'[u] = 0
        /\ pc'[u] \in {"drop", "put", "displace"} => using'[u] # 0
    BY <1>1 DEF InPlace, Stays, At
  <2>6. QED
    BY <2>1, <2>2, <2>3, <2>4, <2>5 DEF InPlace, At
<1>4. Fresh(u)'
  <2> SUFFICES ASSUME pc[u] \in {"put", "displace", "body"}, using[u] # 0
               PROVE  /\ readers'[using[u]].question = asked[u]
                      /\ judged[u] < readers'[using[u]].issued + Lifetime
                      /\ readers'[using[u]].over >= judged[u]
    BY DEF Fresh, Stays
  <2>1. Newer(using[u])
    BY <1>1, <1>2 DEF ReadersGoOn
  <2>2. judged[u] <= now
    BY <1>1 DEF InPlace
  <2>3. QED
    BY <1>1, <2>1, <2>2 DEF Newer, Fresh
<1>5. QED
  BY <1>3, <1>4

(* No reader added is the same number of readers.                          *)
LEMMA SameNumber ==
  ASSUME TypeOK, ReadersGoOn, DOMAIN readers' = DOMAIN readers
  PROVE  Len(readers') = Len(readers)
<1>1. /\ 1..Len(readers') = 1..Len(readers) /\ Len(readers) \in Nat /\ Len(readers') \in Nat
      /\ Len(readers) <= Len(readers')
  BY ReadersTyped DEF ReadersGoOn
<1>2. Len(readers') > Len(readers) => Len(readers') \in 1..Len(readers')
  BY <1>1
<1>3. QED
  BY <1>1, <1>2

(* The readers still in somebody's hands.                                  *)
Kept(r) ==
  \/ \E q \in Questions : held[q] = r
  \/ \E t \in Threads : r \in giving[t] \/ (pc[t] \in {"put", "displace"} /\ using[t] = r)

(* Where nothing is taken out of the store nor of a thread, nothing is     *)
(* orphaned.                                                               *)
LEMMA StillKept ==
  ASSUME BoundaryInv, ReadersGoOn, DOMAIN readers' = DOMAIN readers,
         \A r \in DOMAIN readers : readers'[r].live /\ Kept(r) => Kept(r)'
  PROVE  NoOrphanReader'
<1>1. \A r \in DOMAIN readers : readers[r].live => Kept(r)
  BY DEF BoundaryInv, NoOrphanReader, Kept
<1>2. \A r \in DOMAIN readers' : readers'[r].live => Kept(r)'
  BY <1>1 DEF ReadersGoOn, Newer
<1>3. QED
  BY <1>2 DEF NoOrphanReader, Kept

(* What every step of a thread owes.                                       *)
Moved(t) ==
  /\ ReadersGoOn /\ Rest' /\ now' = now
  /\ InPlace(t)' /\ Fresh(t)'
  /\ \A u \in Threads \ {t} : Stays(u) /\ OutOfTheStore(u)
  /\ NoOrphanReader'

(* Boundary.request begins.                                                *)
LEMMA BeginsMoves ==
  ASSUME BoundaryInv, NEW t \in Threads, NEW q \in Questions, Begins(t, q)
  PROVE  Moved(t)
<1>1. TypeOK /\ ReaderShape /\ Rest /\ InPlace(t)
  BY BoundaryGroups DEF BoundaryInv
<1>2. ReadersGoOn /\ DOMAIN readers' = DOMAIN readers
  BY <1>1, NoReader DEF Begins
<1>3. Rest'
  BY <1>1, BoundaryAssumption DEF Rest, Begins, To, ThreadPlaces
<1>4. /\ pc'[t] \in {"take", "ask"} /\ using'[t] = 0 /\ judged'[t] = now
      /\ giving'[t] = giving[t] /\ hand'[t] = hand[t]
      /\ UNCHANGED <<lock, held, now, readers, giving>>
      /\ pc[t] = "idle" /\ At(t, "outside")
  BY <1>1 DEF Rest, Begins, To, logVars, Free
<1>5. \A u \in Threads \ {t} : Stays(u) /\ OutOfTheStore(u)
  <2>1. held' = held /\ lock' = lock
    BY <1>1 DEF Rest, Begins, To, logVars, Stays, OutOfTheStore
  <2>2. \A u \in Threads \ {t} : Stays(u)
    BY <1>1 DEF Rest, Begins, To, logVars, Stays, OutOfTheStore
  <2>3. QED
    BY <2>1, <2>2 DEF OutOfTheStore
<1>6. InPlace(t)' /\ Fresh(t)'
  BY <1>1, <1>4 DEF InPlace, Fresh, Rest, Hours, At
<1>7. NoOrphanReader'
  <2>1. \A r \in DOMAIN readers : readers'[r].live /\ Kept(r) => Kept(r)'
    BY <1>4, <1>5 DEF Kept, Stays
  <2>2. QED
    BY <1>2, <2>1, StillKept
<1>8. QED
  BY <1>2, <1>3, <1>4, <1>5, <1>6, <1>7 DEF Moved

(* GrantStore.take: none, one that is live, or one that is given up.       *)
LEMMA TakesMoves ==
  ASSUME BoundaryInv, NEW t \in Threads, Takes(t)
  PROVE  Moved(t)
<1> DEFINE n == held[asked[t]]
<1>1. TypeOK /\ ReaderShape /\ Rest /\ InPlace(t)
  BY BoundaryGroups DEF BoundaryInv
<1>2. /\ n \in 0..Len(readers) /\ asked[t] \in Questions /\ Len(readers) \in Nat
      /\ DOMAIN readers = 1..Len(readers) /\ judged[t] \in Nat
  BY <1>1, ReadersTyped DEF Rest, Hours
<1>3. /\ pc[t] = "take" /\ lock = NoThread
      /\ UNCHANGED <<holds, now, asked, judged, giving, requests, flushes, hand>>
  BY DEF Takes, logVars
<1>4. CASE n = 0 /\ To(t, "ask") /\ UNCHANGED <<readers, held, lock, using>>
  <2>1. ReadersGoOn /\ DOMAIN readers' = DOMAIN readers
    BY <1>1, <1>4, NoReader
  <2>2. Rest'
    BY <1>1, <1>3, <1>4 DEF Rest, To, ThreadPlaces
  <2>3. pc'[t] = "ask" /\ \A u \in Threads : u # t => pc'[u] = pc[u]
    BY <1>1, <1>4 DEF Rest, To
  <2>4. \A u \in Threads \ {t} : Stays(u) /\ OutOfTheStore(u)
    <3>1. held' = held /\ lock' = lock
      BY <1>3, <1>4, <2>3 DEF Stays, OutOfTheStore
    <3>2. \A u \in Threads \ {t} : Stays(u)
      BY <1>3, <1>4, <2>3 DEF Stays, OutOfTheStore
    <3>3. QED
      BY <3>1, <3>2 DEF OutOfTheStore
  <2>5. InPlace(t)' /\ Fresh(t)'
    BY <1>1, <1>3, <1>4, <2>3 DEF InPlace, Fresh, At
  <2>6. \A r \in DOMAIN readers : readers'[r].live /\ Kept(r) => Kept(r)'
    BY <1>3, <1>4, <2>3 DEF Kept
  <2>7. QED
    BY <1>3, <2>1, <2>2, <2>4, <2>5, <2>6, StillKept DEF Moved
<1>5. CASE /\ n # 0 /\ Ending(readers[n], asked[t], judged[t]) = "live"
           /\ using' = [using EXCEPT ![t] = n] /\ To(t, "body")
           /\ UNCHANGED <<readers, held, lock>>
  <2>1. ReadersGoOn /\ DOMAIN readers' = DOMAIN readers
    BY <1>1, <1>5, NoReader
  <2>2. Rest'
    BY <1>1, <1>2, <1>3, <1>5 DEF Rest, To, ThreadPlaces
  <2>3. /\ pc'[t] = "body" /\ using'[t] = n
        /\ \A u \in Threads : u # t => pc'[u] = pc[u] /\ using'[u] = using[u]
    BY <1>1, <1>5 DEF Rest, To
  <2>4. \A u \in Threads \ {t} : Stays(u) /\ OutOfTheStore(u)
    <3>1. held' = held /\ lock' = lock
      BY <1>3, <1>5, <2>3 DEF Stays, OutOfTheStore
    <3>2. \A u \in Threads \ {t} : Stays(u)
      BY <1>3, <1>5, <2>3 DEF Stays, OutOfTheStore
    <3>3. QED
      BY <3>1, <3>2 DEF OutOfTheStore
  <2>5. InPlace(t)'
    BY <1>1, <1>3, <1>5, <2>3 DEF InPlace, At
  <2>6. Fresh(t)'
    <3>1. n \in DOMAIN readers /\ readers[n].issued \in Nat /\ Lifetime \in Nat /\ Horizon \in Nat
      BY <1>1, <1>2, <1>5, ReadersTyped
    <3>2. readers[n].question = asked[t] /\ ~ (judged[t] >= readers[n].issued + Lifetime)
          /\ readers[n].live /\ ~ readers[n].ended
      BY <1>5 DEF Ending
    <3>3. readers[n].over = Never
      BY <1>1, <3>1, <3>2 DEF ReaderShape
    <3>4. judged[t] <= Horizon
      BY <1>1 DEF Rest, Hours
    <3>5. readers[n].over >= judged[t] /\ judged[t] < readers[n].issued + Lifetime
      BY <1>2, <3>1, <3>2, <3>3, <3>4 DEF Never
    <3>6. QED
      BY <1>3, <1>5, <2>3, <3>2, <3>5 DEF Fresh
  <2>7. \A r \in DOMAIN readers : readers'[r].live /\ Kept(r) => Kept(r)'
    BY <1>3, <1>5, <2>3 DEF Kept
  <2>8. QED
    BY <1>3, <2>1, <2>2, <2>4, <2>5, <2>6, <2>7, StillKept DEF Moved
<1>6. CASE /\ n # 0
           /\ held' = [held EXCEPT ![asked[t]] = 0] /\ readers' = Abandoned(n)
           /\ using' = [using EXCEPT ![t] = n] /\ lock' = t /\ To(t, "drop")
  <2>1. ReadersGoOn /\ DOMAIN readers' = DOMAIN readers /\ ~ readers'[n].live
    <3>1. n \in DOMAIN readers
      BY <1>2, <1>6
    <3>2. DOMAIN readers' = DOMAIN readers
      BY <1>6 DEF Abandoned
    <3> HIDE DEF n
    <3>3. QED
      BY <1>1, <1>6, <3>1, <3>2, GivingUp
  <2>2. Rest'
    <3>1. Len(readers') = Len(readers)
      BY <1>1, <2>1, SameNumber
    <3>2. QED
      BY <1>1, <1>2, <1>3, <1>6, <3>1 DEF Rest, To, ThreadPlaces
  <2>3. /\ pc'[t] = "drop" /\ using'[t] = n /\ lock' = t
        /\ \A u \in Threads : u # t => pc'[u] = pc[u] /\ using'[u] = using[u]
        /\ \A q \in Questions : held'[q] = held[q] \/ held[q] = n
    BY <1>1, <1>6 DEF Rest, To
  <2>4. \A u \in Threads \ {t} : Stays(u) /\ OutOfTheStore(u)
    BY <1>3, <2>3, BoundaryAssumption DEF Stays, OutOfTheStore
  <2>5. InPlace(t)' /\ Fresh(t)'
    BY <1>1, <1>3, <1>6, <2>1, <2>3 DEF InPlace, Fresh, At
  <2>6. \A r \in DOMAIN readers : readers'[r].live /\ Kept(r) => Kept(r)'
    BY <1>3, <2>1, <2>3 DEF Kept
  <2>7. QED
    BY <1>3, <2>1, <2>2, <2>4, <2>5, <2>6, StillKept DEF Moved
<1>7. QED
  BY <1>4, <1>5, <1>6 DEF Takes

(* The reader taken out is closed: the lock is free again.                 *)
LEMMA DropsMoves ==
  ASSUME BoundaryInv, NEW t \in Threads, Drops(t)
  PROVE  Moved(t)
<1>1. TypeOK /\ ReaderShape /\ Rest /\ InPlace(t)
  BY BoundaryGroups DEF BoundaryInv
<1>2. /\ pc[t] = "drop" /\ lock = t /\ lock' = NoThread
      /\ UNCHANGED <<holds, now, readers, held, asked, judged, giving, requests, flushes, hand>>
  BY <1>1 DEF Drops, logVars, InPlace
<1>3. ReadersGoOn /\ DOMAIN readers' = DOMAIN readers
  BY <1>1, <1>2, NoReader
<1>4. Rest'
  BY <1>1, <1>2, ReadersTyped DEF Rest, Drops, To, ThreadPlaces
<1>5. /\ pc'[t] = "ask" /\ using'[t] = 0
      /\ \A u \in Threads : u # t => pc'[u] = pc[u] /\ using'[u] = using[u]
  BY <1>1 DEF Rest, Drops, To
<1>6. \A u \in Threads \ {t} : Stays(u) /\ OutOfTheStore(u)
  BY <1>2, <1>5, BoundaryAssumption DEF Stays, OutOfTheStore
<1>7. InPlace(t)' /\ Fresh(t)'
  BY <1>1, <1>2, <1>5, BoundaryAssumption DEF InPlace, Fresh, At
<1>8. \A r \in DOMAIN readers : readers'[r].live /\ Kept(r) => Kept(r)'
  BY <1>2, <1>5 DEF Kept
<1>9. QED
  BY <1>2, <1>3, <1>4, <1>6, <1>7, <1>8, StillKept DEF Moved

(* The answer to a request: none to hold, or a grant.                      *)
LEMMA AsksMove ==
  ASSUME BoundaryInv, NEW t \in Threads, AskRaises(t) \/ AskAllows(t)
  PROVE  Moved(t)
<1>1. TypeOK /\ ReaderShape /\ Rest /\ InPlace(t)
  BY BoundaryGroups DEF BoundaryInv
<1>2. /\ pc[t] = "ask"
      /\ UNCHANGED <<holds, now, readers, held, lock, asked, judged, using, giving, requests,
                     flushes, hand>>
  BY DEF AskRaises, AskAllows, logVars
<1>3. ReadersGoOn /\ DOMAIN readers' = DOMAIN readers
  BY <1>1, <1>2, NoReader
<1>4. Rest'
  BY <1>1, <1>2 DEF Rest, AskRaises, AskAllows, To, ThreadPlaces
<1>5. pc'[t] \in {"idle", "body"} /\ \A u \in Threads : u # t => pc'[u] = pc[u]
  BY <1>1 DEF Rest, AskRaises, AskAllows, To
<1>6. \A u \in Threads \ {t} : Stays(u) /\ OutOfTheStore(u)
  <2>1. held' = held /\ lock' = lock
    BY <1>2, <1>5 DEF Stays, OutOfTheStore
  <2>2. \A u \in Threads \ {t} : Stays(u)
    BY <1>2, <1>5 DEF Stays, OutOfTheStore
  <2>3. QED
    BY <2>1, <2>2 DEF OutOfTheStore
<1>7. InPlace(t)' /\ Fresh(t)'
  BY <1>1, <1>2, <1>5 DEF InPlace, Fresh, At
<1>8. \A r \in DOMAIN readers : readers'[r].live /\ Kept(r) => Kept(r)'
  BY <1>2, <1>5 DEF Kept
<1>9. QED
  BY <1>2, <1>3, <1>4, <1>6, <1>7, <1>8, StillKept DEF Moved

(* A grant comes, and with it the thread that reads it.                    *)
LEMMA GrantMoves ==
  ASSUME BoundaryInv, NEW t \in Threads, AskGrants(t)
  PROVE  Moved(t)
<1>0. PICK m : m = Len(readers) + 1
  OBVIOUS
<1>1. TypeOK /\ ReaderShape /\ Rest /\ InPlace(t)
  BY BoundaryGroups DEF BoundaryInv
<1>2. /\ pc[t] = "ask"
      /\ UNCHANGED <<holds, now, held, lock, asked, judged, giving, requests, flushes, hand>>
  BY DEF AskGrants, logVars
<1>3. /\ ReadersGoOn /\ DOMAIN readers' = DOMAIN readers \cup {m}
      /\ readers'[m] = NewReader(asked[t])
  BY <1>0, <1>1, Granting
<1>4. /\ DOMAIN readers = 1..Len(readers) /\ Len(readers) \in Nat /\ Len(readers') = m
      /\ Lifetime \in Nat \ {0} /\ Horizon \in Nat /\ now \in 0..Horizon /\ judged[t] \in Nat
  <2>1. Len(readers') = m
    BY <1>0, <1>1, ReadersTyped DEF AskGrants, TypeOK
  <2>2. QED
    BY <1>0, <1>1, <2>1, ReadersTyped DEF Rest, Hours
<1>5. Rest'
  BY <1>0, <1>1, <1>2, <1>4 DEF Rest, AskGrants, To, ThreadPlaces
<1>6. /\ pc'[t] = "put" /\ using'[t] = m
      /\ \A u \in Threads : u # t => pc'[u] = pc[u] /\ using'[u] = using[u]
  BY <1>0, <1>1 DEF Rest, AskGrants, To
<1>7. \A u \in Threads \ {t} : Stays(u) /\ OutOfTheStore(u)
  <2>1. held' = held /\ lock' = lock
    BY <1>2, <1>6 DEF Stays, OutOfTheStore
  <2>2. \A u \in Threads \ {t} : Stays(u)
    BY <1>2, <1>6 DEF Stays, OutOfTheStore
  <2>3. QED
    BY <2>1, <2>2 DEF OutOfTheStore
<1>8. InPlace(t)'
  BY <1>0, <1>1, <1>2, <1>3, <1>4, <1>6 DEF InPlace, At
<1>9. Fresh(t)'
  <2>1. /\ readers'[m].question = asked[t] /\ readers'[m].issued = now
        /\ readers'[m].over = Horizon + 1
    BY <1>3 DEF NewReader, Never
  <2>2. judged[t] <= now
    BY <1>1 DEF InPlace
  <2>3. judged[t] < now + Lifetime /\ Horizon + 1 >= judged[t]
    BY <1>4, <2>2
  <2>4. QED
    BY <1>2, <1>6, <2>1, <2>3 DEF Fresh
<1>10. NoOrphanReader'
  <2>1. \A r \in DOMAIN readers : Kept(r) => Kept(r)'
    BY <1>2, <1>6 DEF Kept
  <2>2. \A r \in DOMAIN readers : readers'[r].live => Kept(r)'
    BY <1>3, <2>1 DEF ReadersGoOn, Newer, BoundaryInv, NoOrphanReader, Kept
  <2>3. Kept(m)'
    BY <1>0, <1>4, <1>6 DEF Kept
  <2>4. QED
    BY <1>3, <2>2, <2>3 DEF NoOrphanReader, Kept
<1>11. QED
  BY <1>2, <1>3, <1>5, <1>7, <1>8, <1>9, <1>10 DEF Moved

(* GrantStore.put: the place is free, or its reader is given up.           *)
LEMMA PutsMoves ==
  ASSUME BoundaryInv, NEW t \in Threads, Puts(t)
  PROVE  Moved(t)
<1> DEFINE n == held[asked[t]]
<1>1. TypeOK /\ ReaderShape /\ Rest /\ InPlace(t) /\ Fresh(t)
  BY BoundaryGroups DEF BoundaryInv
<1>2. /\ n \in 0..Len(readers) /\ asked[t] \in Questions /\ Len(readers) \in Nat
      /\ DOMAIN readers = 1..Len(readers) /\ using[t] \in 0..Len(readers)
  BY <1>1, ReadersTyped DEF Rest
<1>3. /\ pc[t] = "put" /\ lock = NoThread
      /\ UNCHANGED <<holds, now, asked, judged, using, giving, requests, flushes, hand>>
  BY DEF Puts, logVars
<1>4. CASE /\ n = 0 /\ held' = [held EXCEPT ![asked[t]] = using[t]] /\ To(t, "body")
           /\ UNCHANGED <<readers, lock>>
  <2>1. ReadersGoOn /\ DOMAIN readers' = DOMAIN readers
    BY <1>1, <1>4, NoReader
  <2>2. Rest'
    BY <1>1, <1>2, <1>3, <1>4 DEF Rest, To, ThreadPlaces
  <2>3. /\ pc'[t] = "body" /\ \A u \in Threads : u # t => pc'[u] = pc[u]
        /\ held'[asked[t]] = using[t]
        /\ \A q \in Questions : held'[q] = held[q] \/ held[q] = 0
    BY <1>1, <1>2, <1>4 DEF Rest, To
  <2>4. \A u \in Threads \ {t} : Stays(u) /\ OutOfTheStore(u)
    BY <1>3, <1>4, <2>3, BoundaryAssumption DEF Stays, OutOfTheStore
  <2>5. InPlace(t)' /\ Fresh(t)'
    BY <1>1, <1>3, <1>4, <2>3 DEF InPlace, Fresh, At
  <2>6. \A r \in DOMAIN readers : readers'[r].live /\ Kept(r) => Kept(r)'
    BY <1>2, <1>3, <2>3 DEF Kept
  <2>7. QED
    BY <1>3, <2>1, <2>2, <2>4, <2>5, <2>6, StillKept DEF Moved
<1>5. CASE n # 0 /\ readers' = Abandoned(n) /\ lock' = t /\ To(t, "displace") /\ UNCHANGED held
  <2>1. ReadersGoOn /\ DOMAIN readers' = DOMAIN readers /\ ~ readers'[n].live
    <3>1. n \in DOMAIN readers
      BY <1>2, <1>5
    <3>2. DOMAIN readers' = DOMAIN readers
      BY <1>5 DEF Abandoned
    <3> HIDE DEF n
    <3>3. QED
      BY <1>1, <1>5, <3>1, <3>2, GivingUp
  <2>2. Rest'
    <3>1. Len(readers') = Len(readers)
      BY <1>1, <2>1, SameNumber
    <3>2. QED
      BY <1>1, <1>2, <1>3, <1>5, <3>1 DEF Rest, To, ThreadPlaces
  <2>3. pc'[t] = "displace" /\ lock' = t /\ \A u \in Threads : u # t => pc'[u] = pc[u]
    BY <1>1, <1>5 DEF Rest, To
  <2>4. \A u \in Threads \ {t} : Stays(u) /\ OutOfTheStore(u)
    BY <1>3, <1>5, <2>3, BoundaryAssumption DEF Stays, OutOfTheStore
  <2>5. InPlace(t)'
    BY <1>1, <1>3, <1>5, <2>1, <2>3 DEF InPlace, At
  <2>6. Fresh(t)'
    <3>1. using[t] # 0 /\ using[t] \in DOMAIN readers /\ judged[t] <= now
      BY <1>1, <1>2, <1>3 DEF InPlace
    <3>2. Newer(using[t])
      BY <2>1, <3>1 DEF ReadersGoOn
    <3>3. QED
      BY <1>1, <1>3, <3>1, <3>2 DEF Newer, Fresh
  <2>7. \A r \in DOMAIN readers : readers'[r].live /\ Kept(r) => Kept(r)'
    BY <1>3, <1>5, <2>3 DEF Kept
  <2>8. QED
    BY <1>3, <2>1, <2>2, <2>4, <2>5, <2>6, <2>7, StillKept DEF Moved
<1>6. QED
  BY <1>4, <1>5 DEF Puts

(* The reader displaced is closed, and the new one takes its place.        *)
LEMMA DisplacesMoves ==
  ASSUME BoundaryInv, NEW t \in Threads, Displaces(t)
  PROVE  Moved(t)
<1> DEFINE n == held[asked[t]]
<1>1. TypeOK /\ ReaderShape /\ Rest /\ InPlace(t) /\ Fresh(t)
  BY BoundaryGroups DEF BoundaryInv
<1>2. asked[t] \in Questions /\ using[t] \in 0..Len(readers)
  BY <1>1 DEF Rest
<1>3. /\ pc[t] = "displace" /\ lock = t /\ lock' = NoThread
      /\ ~ readers[n].live
      /\ UNCHANGED <<holds, now, readers, asked, judged, using, giving, requests, flushes, hand>>
  BY <1>1 DEF Displaces, logVars, InPlace
<1>4. ReadersGoOn /\ DOMAIN readers' = DOMAIN readers
  BY <1>1, <1>3, NoReader
<1>5. Rest'
  BY <1>1, <1>2, <1>3 DEF Rest, Displaces, To, ThreadPlaces
<1>6. /\ pc'[t] = "body" /\ \A u \in Threads : u # t => pc'[u] = pc[u]
      /\ held'[asked[t]] = using[t]
      /\ \A q \in Questions : held'[q] = held[q] \/ held[q] = n
  BY <1>1, <1>2 DEF Rest, Displaces, To
<1>7. \A u \in Threads \ {t} : Stays(u) /\ OutOfTheStore(u)
  BY <1>3, <1>6, BoundaryAssumption DEF Stays, OutOfTheStore
<1>8. InPlace(t)' /\ Fresh(t)'
  BY <1>1, <1>3, <1>6, BoundaryAssumption DEF InPlace, Fresh, At
<1>9. \A r \in DOMAIN readers : readers'[r].live /\ Kept(r) => Kept(r)'
  BY <1>2, <1>3, <1>6 DEF Kept
<1>10. QED
  BY <1>3, <1>4, <1>5, <1>7, <1>8, <1>9, StillKept DEF Moved

(* A step inside the log moves one hand.                                   *)
LEMMA HandMoves ==
  ASSUME LogInv, NEW t \in Threads, RecordBegins(t) \/ FlushBegins(t) \/ LogStep(t)
  PROVE  \A u \in Threads \ {t} : hand'[u] = hand[u]
<1>1. hand \in [Threads -> Hands]
  BY LogGroups DEF LogInv
<1>2. PICK at \in LogPlaces, value \in Nat : Goes(t, at, value)
  BY Moves
<1>3. QED
  BY <1>1, <1>2, Going

(* The body has run and its outcome is recorded; or everything a close     *)
(* took out is closed, and the log is flushed.                             *)
LEMMA ActsMoves ==
  ASSUME BoundaryInv, NEW t \in Threads, Acts(t) \/ ClosedAll(t) \/ Flushes(t) \/ Logs(t)
  PROVE  Moved(t)
<1>1. TypeOK /\ ReaderShape /\ Rest /\ InPlace(t) /\ Fresh(t) /\ LogInv
  BY BoundaryGroups DEF BoundaryInv
<1>2. /\ UNCHANGED <<holds, now, readers, held, lock, asked, giving, requests>>
      /\ RecordBegins(t) \/ FlushBegins(t) \/ LogStep(t)
  BY DEF Acts, ClosedAll, Flushes, Logs, cacheVars
<1>3. ReadersGoOn /\ DOMAIN readers' = DOMAIN readers
  BY <1>1, <1>2, NoReader
<1>4. Rest'
  <2>1. pc' \in [Threads -> ThreadPlaces]
    BY <1>1 DEF Rest, Acts, ClosedAll, Flushes, Logs, To, ThreadPlaces, cacheVars
  <2>2. judged' \in [Threads -> Hours] /\ using' \in [Threads -> 0..Len(readers')]
    <3>1. 0 \in Hours /\ 0 \in 0..Len(readers) /\ readers' = readers
      BY <1>1, <1>2, ReadersTyped DEF Hours
    <3>2. CASE Acts(t)
      BY <1>1, <3>1, <3>2 DEF Rest, Acts
    <3>3. CASE ~ Acts(t)
      BY <1>1, <3>1, <3>3 DEF Rest, ClosedAll, Flushes, Logs, cacheVars
    <3>4. QED
      BY <3>2, <3>3
  <2>3. flushes' \in 0..MaxFlushes
    BY <1>1, BoundaryAssumption DEF Rest, Acts, ClosedAll, Flushes, Logs, cacheVars
  <2>4. QED
    BY <1>1, <1>2, <2>1, <2>2, <2>3 DEF Rest
<1>5. /\ \A u \in Threads : u # t => /\ pc'[u] = pc[u] /\ judged'[u] = judged[u]
                                     /\ using'[u] = using[u] /\ hand'[u] = hand[u]
      /\ pc'[t] = "idle" /\ judged'[t] <= judged[t]
      /\ pc[t] \in {"idle", "body", "give"}
  <2>1. \A u \in Threads : u # t => hand'[u] = hand[u]
    BY <1>1, <1>2, HandMoves
  <2>2. CASE Acts(t)
    BY <1>1, <2>1, <2>2 DEF Rest, Acts, To, Hours
  <2>3. CASE ClosedAll(t)
    BY <1>1, <2>1, <2>3 DEF Rest, ClosedAll, To, Hours
  <2>4. CASE Flushes(t)
    BY <1>1, <2>1, <2>4 DEF Rest, Flushes, Free, Hours
  <2>5. CASE Logs(t)
    <3>1. ~ At(t, "outside")
      BY <2>5 DEF Logs, LogStep, At, Sheds, Stamps, Keeps, Pops, HandsOut, Raises
    <3>2. UNCHANGED <<pc, judged, using>> /\ judged[t] \in Hours
      BY <1>1, <2>5 DEF Logs, cacheVars, Rest
    <3>3. QED
      BY <1>1, <2>1, <3>1, <3>2 DEF InPlace, Hours
  <2>6. QED
    BY <2>2, <2>3, <2>4, <2>5
<1>6. \A u \in Threads \ {t} : Stays(u) /\ OutOfTheStore(u)
  BY <1>2, <1>5 DEF Stays, OutOfTheStore
<1>7. giving'[t] = {}
  <2>1. CASE ClosedAll(t)
    BY <1>2, <2>1 DEF ClosedAll
  <2>2. CASE pc[t] # "give"
    BY <1>1, <1>2, <2>2 DEF InPlace
  <2>3. CASE pc[t] = "give"
    <3>1. ~ Acts(t) /\ ~ Flushes(t) /\ ~ Logs(t)
      BY <1>1, <2>3 DEF Acts, Flushes, Free, InPlace, Logs, LogStep, At, Sheds, Stamps, Keeps, Pops,
                        HandsOut, Raises
    <3>2. QED
      BY <2>1, <3>1
  <2>4. QED
    BY <2>2, <2>3
<1>8. InPlace(t)' /\ Fresh(t)'
  <2>1. judged[t] \in Nat /\ judged'[t] \in Nat /\ now \in Nat /\ now' = now
    BY <1>1, <1>2, <1>4 DEF Rest, Hours
  <2>2. judged'[t] <= now'
    BY <1>1, <1>5, <2>1 DEF InPlace
  <2>3. lock' # t
    BY <1>1, <1>2, <1>5 DEF InPlace
  <2>4. QED
    BY <1>5, <1>7, <2>2, <2>3 DEF InPlace, Fresh
<1>9. \A r \in DOMAIN readers : readers'[r].live /\ Kept(r) => Kept(r)'
  BY <1>2, <1>5 DEF Kept
<1>10. QED
  BY <1>2, <1>3, <1>4, <1>6, <1>8, <1>9, StillKept DEF Moved

(* Boundary.close empties the store into the thread's hands.               *)
LEMMA ClosesMoves ==
  ASSUME BoundaryInv, NEW t \in Threads, Closes(t)
  PROVE  Moved(t)
<1>1. TypeOK /\ ReaderShape /\ Rest /\ InPlace(t)
  BY BoundaryGroups DEF BoundaryInv
<1>2. /\ pc[t] = "idle" /\ At(t, "outside") /\ lock = NoThread
      /\ UNCHANGED <<holds, now, readers, lock, asked, judged, using, requests, hand>>
  BY DEF Closes, Free, logVars
<1>3. ReadersGoOn /\ DOMAIN readers' = DOMAIN readers
  BY <1>1, <1>2, NoReader
<1> DEFINE all == {held[q] : q \in Questions} \ {0}
<1>4. all \subseteq DOMAIN readers /\ DOMAIN readers \subseteq Numbers
  BY <1>1, ReadersTyped DEF Rest, Numbers
<1>5. /\ pc' = [pc EXCEPT ![t] = "give"] /\ giving' = [giving EXCEPT ![t] = all]
      /\ held' = [q \in Questions |-> 0] /\ flushes < MaxFlushes /\ flushes' = flushes + 1
  BY DEF Closes, To
<1>6. /\ \A q \in Questions : held[q] # 0 => held[q] \in all
      /\ 0 \notin all
  OBVIOUS
<1> HIDE DEF all
<1>7. Rest'
  BY <1>1, <1>2, <1>4, <1>5, ReadersTyped, BoundaryAssumption DEF Rest, ThreadPlaces
<1>8. /\ pc'[t] = "give" /\ giving'[t] = all
      /\ \A u \in Threads : u # t => pc'[u] = pc[u] /\ giving'[u] = giving[u]
  BY <1>1, <1>5 DEF Rest
<1>9. \A u \in Threads \ {t} : Stays(u) /\ OutOfTheStore(u)
  BY <1>2, <1>8, BoundaryAssumption DEF Stays, OutOfTheStore
<1>10. InPlace(t)' /\ Fresh(t)'
  BY <1>1, <1>2, <1>3, <1>4, <1>8 DEF InPlace, Fresh, At
<1>11. \A r \in DOMAIN readers : readers'[r].live /\ Kept(r) => Kept(r)'
  <2>1. giving[t] = {}
    BY <1>1, <1>2 DEF InPlace
  <2>2. 0 \notin DOMAIN readers
    BY <1>1, ReadersTyped
  <2>3. QED
    BY <1>2, <1>6, <1>8, <2>1, <2>2 DEF Kept
<1>12. QED
  BY <1>2, <1>3, <1>7, <1>9, <1>10, <1>11, StillKept DEF Moved

(* One of the readers a close took out: given up, then closed.             *)
LEMMA GivesUpMoves ==
  ASSUME BoundaryInv, NEW t \in Threads, NEW n \in DOMAIN readers, GivesUp(t, n)
  PROVE  Moved(t)
<1>1. TypeOK /\ ReaderShape /\ Rest /\ InPlace(t)
  BY BoundaryGroups DEF BoundaryInv
<1>2. /\ pc[t] = "give" /\ n \in giving[t]
      /\ UNCHANGED <<holds, now, held, lock, pc, asked, judged, using, requests, flushes, hand>>
  BY DEF GivesUp, logVars
<1>3. ReadersGoOn /\ DOMAIN readers' = DOMAIN readers
  <2>1. CASE readers[n].closed
    BY <1>1, <2>1, NoReader DEF GivesUp
  <2>2. CASE ~ readers[n].closed
    BY <1>1, <2>2, GivingUp DEF GivesUp, Abandoned
  <2>3. QED
    BY <2>1, <2>2
<1>4. /\ giving' \in [Threads -> SUBSET Numbers]
      /\ \A u \in Threads : u # t => giving'[u] = giving[u]
      /\ giving'[t] \subseteq giving[t]
      /\ \A r \in giving[t] : r \in giving'[t] \/ ~ readers[r].live
  BY <1>1 DEF Rest, GivesUp, ReaderShape
<1>5. Rest'
  <2>1. Len(readers') = Len(readers)
    BY <1>1, <1>3, SameNumber
  <2>2. QED
    BY <1>1, <1>2, <1>4, <2>1 DEF Rest
<1>6. \A u \in Threads \ {t} : Stays(u) /\ OutOfTheStore(u)
  BY <1>2, <1>4 DEF Stays, OutOfTheStore
<1>7. InPlace(t)' /\ Fresh(t)'
  BY <1>1, <1>2, <1>3, <1>4 DEF InPlace, Fresh, At
<1>8. \A r \in DOMAIN readers : readers'[r].live /\ Kept(r) => Kept(r)'
  <2>1. \A r \in DOMAIN readers : readers'[r].live => readers[r].live
    BY <1>3 DEF ReadersGoOn, Newer
  <2>2. QED
    BY <1>2, <1>4, <2>1 DEF Kept
<1>9. QED
  BY <1>2, <1>3, <1>5, <1>6, <1>7, <1>8, StillKept DEF Moved

(* A step of one thread keeps the invariant.                               *)
LEMMA ThreadKeeps ==
  ASSUME BoundaryInv, NEW t \in Threads, Thread(t) \/ Calls(t)
  PROVE  BoundaryInv'
<1>1. Moved(t)
  <2>1. \A n \in DOMAIN readers : GivesUp(t, n) => Moved(t)
    BY GivesUpMoves
  <2>2. \A q \in Questions : Begins(t, q) => Moved(t)
    BY BeginsMoves
  <2>3. QED
    BY <2>1, <2>2, TakesMoves, DropsMoves, AsksMove, GrantMoves, PutsMoves, DisplacesMoves,
       ActsMoves, ClosesMoves DEF Thread, Calls
<1>2. LogInv'
  <2>1. CASE UNCHANGED logVars
    BY <2>1, LogUntouched DEF BoundaryInv
  <2>2. CASE Acts(t) \/ ClosedAll(t) \/ Flushes(t)
    <3>1. At(t, "outside")
      BY <2>2 DEF Acts, ClosedAll, Flushes, Free, BoundaryInv, InPlace
    <3>2. RecordBegins(t) \/ FlushBegins(t)
      BY <2>2 DEF Acts, ClosedAll, Flushes
    <3>3. QED
      BY <3>1, <3>2, LogKept DEF BoundaryInv
  <2>3. CASE Logs(t)
    BY <2>3, LogKept DEF BoundaryInv, Logs
  <2>4. QED
    BY <2>1, <2>2, <2>3 DEF Thread, Calls, Takes, Drops, AskRaises, AskAllows, AskGrants, Puts,
                            Displaces, GivesUp, Begins, Closes
<1>3. TypeOK'
  <2>1. LogTypeOK'
    BY <1>2 DEF LogInv
  <2>2. QED
    BY <1>1, <2>1, BoundaryGroupsNext DEF Moved, ReadersGoOn
<1>4. ASSUME NEW u \in Threads PROVE InPlace(u)' /\ Fresh(u)'
  <2>1. CASE u = t
    BY <1>1, <2>1 DEF Moved
  <2>2. CASE u # t
    <3>1. now \in Nat /\ now' = now
      BY <1>1, ReadersTyped DEF Moved, BoundaryInv
    <3>2. QED
      BY <1>1, <2>2, <3>1, StandsStill DEF Moved
  <2>3. QED
    BY <2>1, <2>2
<1>5. ReaderShape'
  BY <1>1 DEF Moved, ReadersGoOn, Newer, ReaderShape
<1>6. QED
  BY <1>1, <1>2, <1>3, <1>4, <1>5 DEF BoundaryInv, Moved

(* The other end, the readers and the clock keep it.                       *)
LEMMA OthersKeep ==
  ASSUME BoundaryInv, Tick \/ UNCHANGED vars
                      \/ \E r \in DOMAIN readers :
                           Heartbeats(r) \/ EndsGrant(r) \/ ReadsSignal(r) \/ StopsReading(r)
  PROVE  BoundaryInv'
<1>1. TypeOK /\ ReaderShape /\ Rest
  BY BoundaryGroups DEF BoundaryInv
<1>2. UNCHANGED <<holds, held, lock, pc, asked, judged, using, giving, requests, flushes, logVars>>
  BY DEF Tick, vars, cacheVars, Heartbeats, EndsGrant, ReadsSignal, StopsReading
<1>3. ReadersGoOn /\ DOMAIN readers' = DOMAIN readers
  <2>1. CASE UNCHANGED readers
    BY <1>1, <2>1, NoReader
  <2>2. ASSUME NEW r \in DOMAIN readers,
               Heartbeats(r) \/ EndsGrant(r) \/ ReadsSignal(r) \/ StopsReading(r)
        PROVE  ReadersGoOn /\ DOMAIN readers' = DOMAIN readers
    BY <1>1, <2>2, Sending, Reading DEF Heartbeats, EndsGrant, Sends, ReadsSignal, StopsReading
  <2>3. QED
    BY <2>1, <2>2 DEF Tick, vars, cacheVars
<1>4. now \in Nat /\ now' \in Hours /\ now <= now'
  BY <1>1, ReadersTyped DEF Rest, Hours, Tick, vars, Heartbeats, EndsGrant, ReadsSignal,
                            StopsReading
<1>5. LogInv'
  BY <1>2, LogUntouched DEF BoundaryInv
<1>6. TypeOK'
  <2>1. Len(readers') = Len(readers)
    BY <1>1, <1>3, SameNumber
  <2>2. Rest'
    BY <1>1, <1>2, <1>4, <2>1 DEF Rest
  <2>3. QED
    BY <1>3, <1>5, <2>2, BoundaryGroupsNext DEF LogInv, ReadersGoOn
<1>7. ASSUME NEW u \in Threads PROVE InPlace(u)' /\ Fresh(u)'
  <2>1. Stays(u) /\ OutOfTheStore(u)
    BY <1>2 DEF Stays, OutOfTheStore, logVars
  <2>2. QED
    BY <1>3, <1>4, <2>1, StandsStill DEF Hours
<1>8. NoOrphanReader'
  <2>1. \A r \in DOMAIN readers : readers'[r].live /\ Kept(r) => Kept(r)'
    BY <1>2 DEF Kept
  <2>2. QED
    BY <1>3, <2>1, StillKept
<1>9. ReaderShape'
  BY <1>3 DEF ReadersGoOn, Newer, ReaderShape
<1>10. QED
  BY <1>5, <1>6, <1>7, <1>8, <1>9 DEF BoundaryInv

(* A program that has not asked for anything yet.                          *)
LEMMA BoundaryStarts == Init => BoundaryInv
<1> SUFFICES ASSUME Init PROVE BoundaryInv
  OBVIOUS
<1>1. LogInv /\ LogTypeOK
  BY LogStarts DEF Init, LogInv
<1>2. DOMAIN readers = {} /\ Len(readers) = 0 /\ readers \in Seq(ReaderType)
  BY DEF Init
<1>3. \A t \in Threads : pc[t] = "idle" /\ giving[t] = {} /\ judged[t] = 0 /\ lock # t
  BY BoundaryAssumption DEF Init
<1>4. Rest
  <2>1. asked \in [Threads -> Questions]
    BY DEF Init
  <2>2. QED
    BY <1>2, <2>1, BoundaryAssumption DEF Init, Rest, Hours, ThreadPlaces
<1>5. TypeOK
  BY <1>1, <1>2, <1>4, BoundaryGroups, BoundaryAssumption
<1>6. \A t \in Threads : InPlace(t) /\ Fresh(t)
  BY <1>3 DEF InPlace, Fresh, Init
<1>7. QED
  BY <1>1, <1>2, <1>5, <1>6 DEF BoundaryInv, ReaderShape, NoOrphanReader

(* BoundaryInv holds whatever the threads, the plane and the clock do:     *)
(* types, who is in the store's lock and behind it, what each reader has   *)
(* said, and the outcome log.                                              *)
THEOREM Boundaries == Spec => []BoundaryInv
<1>1. Init => BoundaryInv
  BY BoundaryStarts
<1>2. BoundaryInv /\ [Next]_vars => BoundaryInv'
  BY ThreadKeeps, OthersKeep DEF Next
<1>3. QED
  BY <1>1, <1>2, PTL DEF Spec

(* No reader thread is left open that neither the store nor a thread about *)
(* to store or close it has: GrantStore's lock is held over each exchange. *)
THEOREM NoReaderIsOrphaned == Spec => []NoOrphanReader
<1>1. BoundaryInv => NoOrphanReader
  BY DEF BoundaryInv
<1>2. QED
  BY <1>1, Boundaries, PTL

(* Whoever acts on a held grant asked its question, within its lifetime    *)
(* and before the reader knew of any ending (GrantStore.take, _ask).       *)
THEOREM EveryHitIsFresh == Spec => []HitsAreFresh
<1>1. BoundaryInv => HitsAreFresh
  BY DEF BoundaryInv, HitsAreFresh, Fresh
<1>2. QED
  BY <1>1, Boundaries, PTL

(* As long as one thread uses the outcome log, it is bounded, never raises *)
(* and every record says exactly how many before it the reader will never  *)
(* see (OutcomeLog.record, flush).                                         *)
THEOREM EveryGapIsDeclared == Spec => []GapsAreDeclared
<1>1. BoundaryInv => GapsAreDeclared
  BY DEF BoundaryInv, LogInv
<1>2. QED
  BY <1>1, Boundaries, PTL

-----------------------------------------------------------------------------
(* A set of numbers that is not empty has a least one.                     *)
LEMMA LeastOf ==
  ASSUME NEW S \in SUBSET Nat, S # {}
  PROVE  Min(S) \in S /\ \A n \in S : Min(S) <= n
<1>1. IsWellFoundedOn(OpToRel(<, Nat), Nat)  BY NatLessThanWellFounded, Zenon
<1>2. PICK m \in S : \A k \in S : ~ (<<k, m>> \in OpToRel(<, Nat))
  BY <1>1, WFMin, Zenon
<1>3. \A k \in S : ~ (<<k, m>> \in OpToRel(<, Nat)) => ~ (k < m)
  BY DEF OpToRel
<1>4. \A k \in S : ~ (k < m) => m <= k
  OBVIOUS
<1>5. \A k \in S : m <= k
  BY <1>2, <1>3, <1>4
<1> QED  BY <1>5 DEF Min

(* One that is bounded has a greatest one: what the bound leaves is least. *)
LEMMA GreatestOf ==
  ASSUME NEW b \in Nat, NEW S \in SUBSET (0..b), S # {}
  PROVE  Max(S) \in S /\ \A n \in S : n <= Max(S)
<1> DEFINE Left == {n \in 0..b : b - n \in S}
<1>1. PICK k \in S : TRUE  OBVIOUS
<1>2. b - k \in Left  BY <1>1
<1>3. Left \in SUBSET Nat /\ Left # {}  BY <1>2
<1> DEFINE m == Min(Left)
<1>4. m \in Left /\ \A n \in Left : m <= n
  <2> HIDE DEF Left
  <2> QED  BY <1>3, LeastOf
<1>5. b - m \in S /\ m \in 0..b  BY <1>4
<1>6. ASSUME NEW n \in S PROVE n <= b - m
  <2>1. b - n \in Left  BY <1>6
  <2>2. m <= b - n  BY <1>4, <2>1
  <2> HIDE DEF m
  <2> QED  BY <1>5, <2>2
<1>7. \E x \in S : \A y \in S : x >= y
  <2> HIDE DEF m
  <2> QED  BY <1>5, <1>6
<1>8. Max(S) \in S /\ \A y \in S : Max(S) >= y
  BY <1>7 DEF Max
<1> QED  BY <1>8

(***************************************************************************)
(* Lines and records.                                                      *)
(***************************************************************************)
LEMMA OwnLines ==
  ASSUME NEW S, NEW lines \in Seq(S)
  PROVE  lines \in Seq(LinesOf(lines)) /\ LinesOf(lines) \subseteq S
<1>1. Len(lines) \in Nat /\ lines \in [1..Len(lines) -> S]
  BY LenProperties
<1>2. lines \in [1..Len(lines) -> LinesOf(lines)]
  BY <1>1 DEF LinesOf
<1>3. LinesOf(lines) \subseteq S
  BY <1>1 DEF LinesOf
<1> QED  BY <1>1, <1>2, <1>3, SeqDef

(* No entry recomputes to the digest of none.                              *)
LEMMA JunkIsNoHash ==
  ASSUME NEW entry
  PROVE  preimage(entry) # Junk
<1>1. DOMAIN preimage(entry) = {"sequence", "kind", "connection", "body", "previous"}
  BY DEF preimage
<1>2. DOMAIN Junk = {"digest"}
  BY DEF Junk
<1> QED  BY <1>1, <1>2

(* A line that recomputes is the record it was stored for.                 *)
LEMMA VerifiedLine ==
  ASSUME NEW records, NEW entry, IsLine(entry, records), entry_verifies(entry)
  PROVE  /\ entry.kind = records[entry.sequence].kind
         /\ entry.connection = records[entry.sequence].connection
         /\ entry.body = records[entry.sequence].body
<1> DEFINE record == records[entry.sequence]
           stored == [sequence |-> entry.sequence, kind |-> record.kind, connection |-> record.connection,
                      body |-> record.body, previous |-> entry.previous]
<1>1. entry.hash = stored
  BY JunkIsNoHash DEF IsLine, entry_verifies
<1>2. preimage(entry) = stored
  BY <1>1 DEF entry_verifies
<1>3. stored.kind = record.kind /\ stored.connection = record.connection /\ stored.body = record.body
  OBVIOUS
<1>4. preimage(entry).kind = entry.kind /\ preimage(entry).connection = entry.connection
      /\ preimage(entry).body = entry.body
  BY DEF preimage
<1> QED  BY <1>2, <1>3, <1>4

LEMMA AppendedProperties ==
  ASSUME NEW S, NEW lines \in Seq(S), NEW e
  PROVE  /\ Append(lines, e) \in Seq(LinesOf(Append(lines, e)))
         /\ Len(Append(lines, e)) = Len(lines) + 1
         /\ \A i \in 1..Len(lines) : Append(lines, e)[i] = lines[i]
         /\ Append(lines, e)[Len(lines) + 1] = e
<1>1. lines \in Seq(S \cup {e})
  BY LenProperties, SeqDef
<1>2. /\ Append(lines, e) \in Seq(S \cup {e})
      /\ Len(Append(lines, e)) = Len(lines) + 1
      /\ \A i \in 1..Len(lines) : Append(lines, e)[i] = lines[i]
      /\ Append(lines, e)[Len(lines) + 1] = e
  BY <1>1, AppendProperties
<1> QED  BY <1>2, OwnLines

(***************************************************************************)
(* What an appended line is.                                               *)
(***************************************************************************)
LEMMA HashedIsLine ==
  ASSUME NEW records, NEW record, NEW s \in 1..Len(records), NEW previous, records[s] = record,
         record = [kind |-> record.kind, connection |-> record.connection, body |-> record.body],
         record.body = [record.body EXCEPT !.says = record.body.says]
  PROVE  /\ IsLine(Hashed(record, s, previous), records)
         /\ Hashed(record, s, previous).sequence = s
         /\ entry_verifies(Hashed(record, s, previous))
<1> DEFINE e == Hashed(record, s, previous)
           stored == [sequence |-> s, kind |-> record.kind, connection |-> record.connection,
                      body |-> record.body, previous |-> previous]
<1>1. /\ e.sequence = s /\ e.kind = record.kind /\ e.connection = record.connection /\ e.body = record.body
      /\ e.previous = previous /\ e.hash = stored /\ e.version = Version
      /\ e = [sequence |-> s, kind |-> record.kind, connection |-> record.connection, body |-> record.body,
              previous |-> previous, hash |-> stored, version |-> Version]
  BY DEF Hashed
<1> HIDE DEF e
<1>2. preimage(e) = stored
  BY <1>1 DEF preimage
<1>3. entry_verifies(e)
  BY <1>1, <1>2 DEF entry_verifies
<1>4. IsLine(e, records)
  BY <1>1 DEF IsLine
<1> QED  BY <1>1, <1>3, <1>4 DEF e

(* A line stays one while records are added.                               *)
LEMMA LineStays ==
  ASSUME NEW records, NEW more, NEW entry, IsLine(entry, records),
         Len(records) \in Nat, Len(more) \in Nat, Len(records) <= Len(more),
         \A s \in 1..Len(records) : more[s] = records[s]
  PROVE  IsLine(entry, more)
<1>1. entry.sequence \in 1..Len(records) /\ entry.sequence \in 1..Len(more)
  BY DEF IsLine
<1>2. more[entry.sequence] = records[entry.sequence]
  BY <1>1
<1> QED  BY <1>1, <1>2 DEF IsLine

LEMMA RecordIsOne ==
  ASSUME NEW record \in Written
  PROVE  /\ record = [kind |-> record.kind, connection |-> record.connection, body |-> record.body]
         /\ record.body = [record.body EXCEPT !.says = record.body.says]
<1>1. record.body \in Bodies
  BY DEF Written
<1>2. record.body = [record.body EXCEPT !.says = record.body.says]
  BY <1>1 DEF Bodies
<1> QED  BY <1>2 DEF Written

(* An append stores the record, and makes no damaged chain whole.          *)
LEMMA AppendedKeeps ==
  ASSUME NEW records \in Seq(Written), NEW lines, StoredAs(lines, records), NEW record \in Written
  PROVE  /\ StoredAs(Appended(lines, record), Append(records, record))
         /\ Whole(Appended(lines, record), Append(records, record)) => Whole(lines, records)
<1> DEFINE more == Append(records, record)
           n == Len(lines)
           s == Len(records) + 1
<1>1. more \in Seq(Written) /\ Len(more) = s /\ more[s] = record /\ s \in 1..Len(more)
      /\ \A i \in 1..Len(records) : more[i] = records[i]
  BY AppendProperties, LenProperties
<1>2. Len(records) \in Nat /\ n \in Nat /\ n <= Len(records) /\ lines \in Seq(LinesOf(lines))
      /\ (lines = <<>> <=> n = 0)
  BY LenProperties, EmptySeq DEF StoredAs
<1>3. PICK previous : placed(lines, record) = Hashed(record, s, previous)
  <2>1. CASE lines = <<>>
    <3>1. records = <<>>
      BY <2>1 DEF StoredAs
    <3>2. s = 1
      BY <3>1
    <3> QED  BY <2>1, <3>2 DEF placed
  <2>2. CASE lines # <<>>
    <3>1. lines[n].sequence = Len(records)
      BY <2>2 DEF StoredAs, LatestOf
    <3> QED  BY <2>2, <3>1 DEF placed
  <2> QED  BY <2>1, <2>2
<1> DEFINE e == Hashed(record, s, previous)
<1>4. IsLine(e, more) /\ e.sequence = s /\ entry_verifies(e)
  <2>1. /\ record = [kind |-> record.kind, connection |-> record.connection, body |-> record.body]
        /\ record.body = [record.body EXCEPT !.says = record.body.says]
    BY RecordIsOne
  <2> HIDE DEF more, s
  <2> QED  BY <1>1, <2>1, HashedIsLine
<1> DEFINE grown == Appended(lines, record)
<1>5. /\ grown \in Seq(LinesOf(grown)) /\ Len(grown) = n + 1
      /\ \A i \in 1..n : grown[i] = lines[i]
      /\ grown[n + 1] = e
  <2>1. grown = Append(lines, e)
    BY <1>3 DEF Appended
  <2> HIDE DEF e, grown
  <2>2. PICK S : lines \in Seq(S)
    BY <1>2
  <2>3. /\ Append(lines, e) \in Seq(LinesOf(Append(lines, e)))
        /\ Len(Append(lines, e)) = Len(lines) + 1
        /\ \A i \in 1..Len(lines) : Append(lines, e)[i] = lines[i]
        /\ Append(lines, e)[Len(lines) + 1] = e
    BY <2>2, AppendedProperties, Zenon
  <2> QED  BY <2>1, <2>3, Zenon
<1>6. \A i \in 1..n : IsLine(lines[i], records) /\ lines[i].sequence \in 1..Len(records)
  BY DEF StoredAs, IsLine
<1> HIDE DEF more, e, grown, s
<1>7. \A i \in 1..n : IsLine(lines[i], more)
  <2>1. Len(more) \in Nat /\ Len(records) <= Len(more)
    BY <1>1, <1>2 DEF s
  <2> QED  BY <1>1, <1>2, <1>6, <2>1, LineStays
<1>8. \A i \in 1..Len(grown) : IsLine(grown[i], more)
  BY <1>2, <1>4, <1>5, <1>7
<1>9. ASSUME NEW i \in 1..Len(grown), NEW j \in 1..Len(grown), i < j
      PROVE  grown[i].sequence < grown[j].sequence
  <2>1. i \in 1..n /\ grown[i] = lines[i]
    BY <1>2, <1>5, <1>9
  <2>2. CASE j = n + 1
    BY <1>2, <1>4, <1>5, <1>6, <2>1, <2>2 DEF s
  <2>3. CASE j \in 1..n
    BY <1>5, <1>9, <2>1, <2>3 DEF StoredAs
  <2> QED  BY <1>2, <1>5, <2>2, <2>3
<1>10. grown # <<>> /\ LatestOf(grown) = Len(more)
  <2>1. grown # <<>>
    BY <1>2, <1>5
  <2> QED  BY <1>1, <1>2, <1>4, <1>5, <2>1 DEF LatestOf
<1>11. Len(grown) <= Len(more)
  BY <1>1, <1>2, <1>5 DEF s
<1>12. StoredAs(grown, more)
  BY <1>5, <1>8, <1>9, <1>10, <1>11 DEF StoredAs
<1>13. ASSUME Whole(grown, more) PROVE Whole(lines, records)
  <2>1. n = Len(records)
    BY <1>1, <1>2, <1>5, <1>13 DEF Whole, s
  <2>2. \A i \in 1..n : entry_verifies(lines[i])
    BY <1>2, <1>5, <1>13 DEF Whole
  <2> QED  BY <2>1, <2>2 DEF Whole
<1> QED  BY <1>12, <1>13 DEF grown, more

(* A unit is stored record by record.                                      *)
LEMMA AppendAllKeeps ==
  ASSUME NEW records \in Seq(Written), NEW lines, StoredAs(lines, records),
         NEW unit \in Seq(Written), Len(unit) <= 3
  PROVE  /\ StoredAs(AppendAll(lines, unit), records \o unit)
         /\ Whole(AppendAll(lines, unit), records \o unit) => Whole(lines, records)
<1>1. Len(unit) \in 0..3 /\ \A i \in 1..Len(unit) : unit[i] \in Written
  <2> DEFINE n == Len(unit)
  <2>1. n \in Nat /\ n <= 3 /\ \A i \in 1..n : unit[i] \in Written
    BY LenProperties, ElementOfSeq
  <2> HIDE DEF n
  <2>2. n \in 0..3
    BY <2>1
  <2> QED  BY <2>1, <2>2 DEF n
<1>2. CASE Len(unit) = 0
  <2>1. unit = <<>>
    BY <1>2, EmptySeq, LenProperties
  <2>2. records \o unit = records
    BY <2>1, ConcatEmptySeq
  <2>3. AppendAll(lines, unit) = lines
    BY <1>2 DEF AppendAll
  <2> QED  BY <2>2, <2>3
<1> DEFINE a == unit[1]
           b == unit[2]
           c == unit[3]
           one == Appended(lines, a)
           two == Appended(one, b)
           three == Appended(two, c)
<1>3. CASE Len(unit) = 1
  <2>1. a \in Written /\ unit = <<a>>
    BY <1>3, LenProperties
  <2>2. records \o unit = Append(records, a)
    BY <2>1, AppendIsConcat
  <2>3. AppendAll(lines, unit) = one
    BY <1>3 DEF AppendAll
  <2> HIDE DEF a
  <2> QED  BY <2>1, <2>2, <2>3, AppendedKeeps
<1>4. CASE Len(unit) = 2
  <2>1. a \in Written /\ b \in Written /\ unit = <<a, b>>
    <3>1. a \in Written /\ b \in Written
      BY <1>1, <1>4
    <3>2. <<a, b>> \in Seq(Written) /\ Len(<<a, b>>) = 2 /\ <<a, b>>[1] = a /\ <<a, b>>[2] = b
      BY <3>1
    <3>3. \A i \in 1..Len(unit) : unit[i] = <<a, b>>[i]
      BY <1>4, <3>2
    <3> QED  BY <1>4, <3>1, <3>2, <3>3, SeqEqual
  <2>2. AppendAll(lines, unit) = two
    BY <1>4 DEF AppendAll
  <2> HIDE DEF a, b
  <2>3. records \o unit = Append(Append(records, a), b) /\ Append(records, a) \in Seq(Written)
    BY <2>1
  <2> HIDE DEF one, two
  <2>4. StoredAs(one, Append(records, a)) /\ (Whole(one, Append(records, a)) => Whole(lines, records))
    BY <2>1, AppendedKeeps DEF one
  <2>5. /\ StoredAs(two, Append(Append(records, a), b))
        /\ Whole(two, Append(Append(records, a), b)) => Whole(one, Append(records, a))
    BY <2>1, <2>3, <2>4, AppendedKeeps DEF two
  <2> QED  BY <2>2, <2>3, <2>4, <2>5
<1>5. CASE Len(unit) = 3
  <2>1. a \in Written /\ b \in Written /\ c \in Written /\ unit = <<a, b, c>>
    <3>1. a \in Written /\ b \in Written /\ c \in Written
      BY <1>1, <1>5
    <3>2. /\ <<a, b, c>> \in Seq(Written) /\ Len(<<a, b, c>>) = 3
          /\ <<a, b, c>>[1] = a /\ <<a, b, c>>[2] = b /\ <<a, b, c>>[3] = c
      BY <3>1
    <3>3. \A i \in 1..Len(unit) : unit[i] = <<a, b, c>>[i]
      BY <1>5, <3>2
    <3> QED  BY <1>5, <3>1, <3>2, <3>3, SeqEqual
  <2>2. AppendAll(lines, unit) = three
    BY <1>5 DEF AppendAll
  <2> HIDE DEF a, b, c
  <2>3. /\ records \o unit = Append(Append(Append(records, a), b), c)
        /\ Append(records, a) \in Seq(Written) /\ Append(Append(records, a), b) \in Seq(Written)
    BY <2>1
  <2> HIDE DEF one, two, three
  <2>4. StoredAs(one, Append(records, a)) /\ (Whole(one, Append(records, a)) => Whole(lines, records))
    BY <2>1, AppendedKeeps DEF one
  <2>5. /\ StoredAs(two, Append(Append(records, a), b))
        /\ Whole(two, Append(Append(records, a), b)) => Whole(one, Append(records, a))
    BY <2>1, <2>3, <2>4, AppendedKeeps DEF two
  <2>6. /\ StoredAs(three, Append(Append(Append(records, a), b), c))
        /\ Whole(three, Append(Append(Append(records, a), b), c)) => Whole(two, Append(Append(records, a), b))
    BY <2>1, <2>3, <2>5, AppendedKeeps DEF three
  <2> QED  BY <2>2, <2>3, <2>4, <2>5, <2>6
<1> QED  BY <1>1, <1>2, <1>3, <1>4, <1>5

(* What a slice of a sequence holds.                                       *)
LEMMA SliceProperties ==
  ASSUME NEW S, NEW s \in Seq(S), NEW n \in Nat, n = Len(s),
         NEW lo \in 1..(n + 1), NEW hi \in 0..n, lo <= hi + 1
  PROVE  /\ SubSeq(s, lo, hi) \in Seq(S)
         /\ Len(SubSeq(s, lo, hi)) = hi - lo + 1
         /\ \A i \in 1..(hi - lo + 1) : SubSeq(s, lo, hi)[i] = s[lo + i - 1]
<1>1. \A i \in 1..n : s[i] \in S
  BY ElementOfSeq
<1>2. lo \in Int /\ hi \in Int /\ \A i \in lo..hi : s[i] \in S
  <2>1. lo \in Int /\ hi \in Int /\ \A i \in lo..hi : i \in 1..n
    OBVIOUS
  <2> QED  BY <1>1, <2>1
<1> DEFINE d == SubSeq(s, lo, hi)
<1>3. /\ d \in Seq(S)
      /\ Len(d) = IF lo <= hi THEN hi - lo + 1 ELSE 0
      /\ \A i \in 1..(hi - lo + 1) : d[i] = s[lo + i - 1]
  BY <1>2, SubSeqProperties
<1> HIDE DEF d
<1>4. d \in Seq(S) /\ Len(d) = hi - lo + 1
  BY <1>3
<1> QED  BY <1>3, <1>4 DEF d

(* An edit leaves a line that does not recompute, in the same place.       *)
LEMMA EditedLine ==
  ASSUME NEW records, NEW old, IsLine(old, records), NEW entry \in Edits(old),
         records[old.sequence] \in Written,
         records[old.sequence].kind = "grade" => records[old.sequence].body.says \in Evaluations,
         records[old.sequence].kind = "effect" => records[old.sequence].body.says \in Policies
  PROVE  IsLine(entry, records) /\ entry.sequence = old.sequence /\ ~entry_verifies(entry)
<1> DEFINE record == records[old.sequence]
           stored == [sequence |-> old.sequence, kind |-> record.kind, connection |-> record.connection,
                      body |-> record.body, previous |-> old.previous]
<1>1. /\ old.sequence \in 1..Len(records)
      /\ old.hash \in {stored, Junk}
      /\ old.body = [record.body EXCEPT !.says = old.body.says]
      /\ old = [sequence |-> old.sequence, kind |-> record.kind, connection |-> record.connection,
                body |-> old.body, previous |-> old.previous, hash |-> old.hash, version |-> old.version]
  BY DEF IsLine
<1>2. record.body \in Bodies /\ record.kind \in {"effect", "grade", "gap", "recovery"}
  BY DEF Written
<1>3. old.kind = record.kind /\ old.connection = record.connection
  BY <1>1
<1>4. CASE entry = [old EXCEPT !.version = "v9"]
  <2>1. /\ entry.sequence = old.sequence /\ entry.body = old.body /\ entry.previous = old.previous
        /\ entry.hash = old.hash /\ entry.version = "v9"
        /\ entry = [sequence |-> old.sequence, kind |-> record.kind, connection |-> record.connection,
                    body |-> old.body, previous |-> old.previous, hash |-> old.hash, version |-> "v9"]
    BY <1>1, <1>4
  <2>2. ~entry_verifies(entry)
    BY <2>1 DEF entry_verifies, Version
  <2>3. IsLine(entry, records)
    BY <1>1, <2>1 DEF IsLine
  <2> QED  BY <2>1, <2>2, <2>3
<1>5. ASSUME NEW says, says # record.body.says, entry = [old EXCEPT !.body.says = says]
      PROVE  IsLine(entry, records) /\ entry.sequence = old.sequence /\ ~entry_verifies(entry)
  <2> DEFINE body == [record.body EXCEPT !.says = says]
  <2>1. body.says = says /\ [old.body EXCEPT !.says = says] = body /\ body = [record.body EXCEPT !.says = body.says]
    BY <1>1, <1>2 DEF Bodies
  <2>2. entry = [old EXCEPT !.body = body]
    BY <1>1, <1>5, <2>1
  <2> HIDE DEF body
  <2>3. /\ entry.sequence = old.sequence /\ entry.body = body /\ entry.previous = old.previous
        /\ entry.hash = old.hash
        /\ entry = [sequence |-> old.sequence, kind |-> record.kind, connection |-> record.connection,
                    body |-> body, previous |-> old.previous, hash |-> old.hash, version |-> old.version]
    BY <1>1, <2>2
  <2>4. IsLine(entry, records)
    <3>1. entry.version = old.version
      BY <2>3
    <3>2. entry = [sequence |-> entry.sequence, kind |-> record.kind, connection |-> record.connection,
                   body |-> entry.body, previous |-> entry.previous, hash |-> entry.hash,
                   version |-> entry.version]
      BY <2>3, <3>1
    <3>3. entry.hash \in {stored, Junk} /\ records[entry.sequence] = record
      BY <1>1, <2>3
    <3>4. entry.body = [record.body EXCEPT !.says = entry.body.says]
      BY <2>1, <2>3
    <3> QED  BY <1>1, <2>3, <3>2, <3>3, <3>4 DEF IsLine
  <2>5. ~entry_verifies(entry)
    <3>1. body # record.body
      BY <1>5, <2>1
    <3> QED  BY <2>3, <2>4, <3>1, VerifiedLine
  <2> QED  BY <2>3, <2>4, <2>5
<1>6. CASE old.kind = "grade" /\ entry = [old EXCEPT !.body.says = "evidence"]
  BY <1>3, <1>5, <1>6 DEF Evaluations
<1>7. CASE old.kind = "effect" /\ entry = [old EXCEPT !.body.says = "edited"]
  BY <1>3, <1>5, <1>7, ReadsAssumption
<1>8. CASE entry = [old EXCEPT !.hash = Junk]
  <2>1. /\ entry.sequence = old.sequence /\ entry.body = old.body /\ entry.previous = old.previous
        /\ entry.hash = Junk /\ entry.version = old.version
        /\ entry = [sequence |-> old.sequence, kind |-> record.kind, connection |-> record.connection,
                    body |-> old.body, previous |-> old.previous, hash |-> Junk, version |-> old.version]
    BY <1>1, <1>8
  <2>2. ~entry_verifies(entry)
    BY <2>1, JunkIsNoHash DEF entry_verifies
  <2>3. IsLine(entry, records)
    BY <1>1, <2>1 DEF IsLine
  <2> QED  BY <2>1, <2>2, <2>3
<1> QED  BY <1>4, <1>6, <1>7, <1>8 DEF Edits

LEMMA EditedKeeps ==
  ASSUME NEW records \in Seq(Written), NEW lines, StoredAs(lines, records), NEW i \in 1..Len(lines),
         \A s \in 1..Len(records) :
            /\ records[s].kind = "grade" => records[s].body.says \in Evaluations
            /\ records[s].kind = "effect" => records[s].body.says \in Policies,
         NEW entry \in Edits(lines[i]), NEW edited, edited = [lines EXCEPT ![i] = entry]
  PROVE  StoredAs(edited, records) /\ ~Whole(edited, records)
<1>1. /\ lines \in Seq(LinesOf(lines)) /\ Len(lines) <= Len(records)
      /\ IF lines = <<>> THEN records = <<>> ELSE LatestOf(lines) = Len(records)
      /\ \A j \in 1..Len(lines) : IsLine(lines[j], records)
      /\ \A j, k \in 1..Len(lines) : j < k => lines[j].sequence < lines[k].sequence
  BY DEF StoredAs
<1> DEFINE n == Len(lines)
<1>2. n \in Nat /\ lines \in [1..n -> LinesOf(lines)]
  BY <1>1, LenProperties
<1>3. lines[i].sequence \in 1..Len(records) /\ IsLine(lines[i], records)
  BY <1>1 DEF IsLine
<1>4. records[lines[i].sequence] \in Written
  BY <1>3, ElementOfSeq
<1>5. IsLine(entry, records) /\ entry.sequence = lines[i].sequence /\ ~entry_verifies(entry)
  BY <1>3, <1>4, EditedLine
<1> DEFINE S == LinesOf(lines) \cup {entry}
<1>6. edited \in [1..n -> S] /\ edited[i] = entry /\ \A j \in 1..n : j # i => edited[j] = lines[j]
  BY <1>2
<1>7. edited \in Seq(S) /\ Len(edited) = n
  <2>1. lines \in Seq(S)
    BY <1>2, SeqDef
  <2> HIDE DEF S
  <2>2. entry \in S
    BY DEF S
  <2> QED  BY <2>1, <2>2, ExceptSeq
<1> HIDE DEF S
<1>8. edited \in Seq(LinesOf(edited))
  BY <1>7, OwnLines
<1>9. n # 0 /\ lines # <<>> /\ edited # <<>>
  BY <1>2, <1>7, EmptySeq
<1>10. \A j \in 1..n : edited[j].sequence = lines[j].sequence /\ IsLine(edited[j], records)
  BY <1>1, <1>5, <1>6
<1>11. LatestOf(edited) = LatestOf(lines)
  <2>1. n \in 1..n /\ n = Len(edited)
    BY <1>2, <1>7, <1>9
  <2>2. LatestOf(edited) = edited[n].sequence /\ LatestOf(lines) = lines[n].sequence
    BY <1>9, <2>1 DEF LatestOf
  <2> HIDE DEF n
  <2> QED  BY <1>10, <2>1, <2>2
<1>12. StoredAs(edited, records)
  BY <1>1, <1>7, <1>8, <1>9, <1>10, <1>11 DEF StoredAs
<1>13. ~Whole(edited, records)
  BY <1>5, <1>6, <1>7 DEF Whole
<1> QED  BY <1>12, <1>13

(* A sequence without its i-th element.                                    *)
LEMMA WithoutOne ==
  ASSUME NEW S, NEW s \in Seq(S), NEW n \in Nat, n = Len(s), NEW i \in 1..n
  PROVE  LET left == SubSeq(s, 1, i - 1) \o SubSeq(s, i + 1, n) IN
         /\ left \in Seq(S) /\ Len(left) = n - 1
         /\ \A j \in 1..(n - 1) : left[j] = IF j < i THEN s[j] ELSE s[j + 1]
<1> DEFINE a == SubSeq(s, 1, i - 1)
           b == SubSeq(s, i + 1, n)
<1>1. a \in Seq(S) /\ Len(a) = i - 1 /\ \A j \in 1..(i - 1) : a[j] = s[j]
  <2>1. 1 \in 1..(n + 1) /\ i - 1 \in 0..n /\ 1 <= (i - 1) + 1
    OBVIOUS
  <2>2. /\ a \in Seq(S) /\ Len(a) = (i - 1) - 1 + 1
        /\ \A j \in 1..((i - 1) - 1 + 1) : a[j] = s[1 + j - 1]
    BY <2>1, SliceProperties
  <2> HIDE DEF a
  <2> QED  BY <2>2
<1>2. b \in Seq(S) /\ Len(b) = n - i /\ \A j \in 1..(n - i) : b[j] = s[i + j]
  <2>1. i + 1 \in 1..(n + 1) /\ n \in 0..n /\ i + 1 <= n + 1
    OBVIOUS
  <2>2. /\ b \in Seq(S) /\ Len(b) = n - (i + 1) + 1
        /\ \A j \in 1..(n - (i + 1) + 1) : b[j] = s[(i + 1) + j - 1]
    BY <2>1, SliceProperties
  <2> HIDE DEF b
  <2> QED  BY <2>2
<1> HIDE DEF a, b
<1>3. /\ a \o b \in Seq(S) /\ Len(a \o b) = Len(a) + Len(b)
      /\ \A j \in 1..(Len(a) + Len(b)) :
           (a \o b)[j] = IF j <= Len(a) THEN a[j] ELSE b[j - Len(a)]
  BY <1>1, <1>2, ConcatProperties
<1> DEFINE left == a \o b
<1> HIDE DEF left
<1>4. /\ left \in Seq(S) /\ Len(left) = n - 1
      /\ \A j \in 1..(n - 1) : left[j] = IF j <= i - 1 THEN a[j] ELSE b[j - (i - 1)]
  <2>1. Len(a) + Len(b) = n - 1
    BY <1>1, <1>2
  <2> QED  BY <1>1, <1>3, <2>1 DEF left
<1>5. ASSUME NEW j \in 1..(n - 1) PROVE left[j] = IF j < i THEN s[j] ELSE s[j + 1]
  <2>1. CASE j < i
    BY <1>1, <1>4, <2>1
  <2>2. CASE ~ (j < i)
    <3>1. j - (i - 1) \in 1..(n - i) /\ i + (j - (i - 1)) = j + 1 /\ ~ (j <= i - 1)
      BY <2>2
    <3>2. left[j] = b[j - (i - 1)] /\ b[j - (i - 1)] = s[i + (j - (i - 1))]
      BY <1>2, <1>4, <3>1
    <3> QED  BY <2>2, <3>1, <3>2
  <2> QED  BY <2>1, <2>2
<1> QED  BY <1>4, <1>5 DEF left, a, b

LEMMA RemovedKeeps ==
  ASSUME NEW records \in Seq(Written), NEW lines, StoredAs(lines, records),
         NEW n \in Nat, n = Len(lines), NEW i \in 1..n, i < n,
         NEW left \in Seq(LinesOf(lines)), Len(left) = n - 1,
         \A j \in 1..(n - 1) : left[j] = IF j < i THEN lines[j] ELSE lines[j + 1]
  PROVE  StoredAs(left, records) /\ ~Whole(left, records)
<1> DEFINE S == LinesOf(lines)
<1>1. /\ lines \in Seq(S) /\ n <= Len(records)
      /\ IF lines = <<>> THEN records = <<>> ELSE LatestOf(lines) = Len(records)
      /\ \A j \in 1..n : IsLine(lines[j], records)
      /\ \A j, k \in 1..n : j < k => lines[j].sequence < lines[k].sequence
  BY DEF StoredAs
<1>2. Len(records) \in Nat
  BY LenProperties
<1>3. lines # <<>>
  BY <1>1, EmptySeq
<1>4. LatestOf(lines) = lines[n].sequence /\ LatestOf(lines) = Len(records)
  BY <1>1, <1>3 DEF LatestOf
<1>5. left \in Seq(S) /\ Len(left) = n - 1 /\ \A j \in 1..(n - 1) : left[j] = IF j < i THEN lines[j] ELSE lines[j + 1]
  BY DEF S
<1>6. left \in Seq(LinesOf(left))
  BY <1>5, OwnLines
<1> HIDE DEF S
<1>7. \A j \in 1..(n - 1) : IsLine(left[j], records)
  BY <1>1, <1>5
<1>8. ASSUME NEW j \in 1..(n - 1), NEW k \in 1..(n - 1), j < k
      PROVE  left[j].sequence < left[k].sequence
  <2> DEFINE jj == IF j < i THEN j ELSE j + 1
             kk == IF k < i THEN k ELSE k + 1
  <2>1. jj \in 1..n /\ kk \in 1..n /\ jj < kk
    BY <1>8
  <2>2. left[j] = lines[jj] /\ left[k] = lines[kk]
    BY <1>5
  <2> HIDE DEF jj, kk
  <2> QED  BY <1>1, <2>1, <2>2
<1>9. left # <<>> /\ LatestOf(left) = Len(records)
  <2>1. left # <<>>
    BY <1>5, EmptySeq
  <2>2. left[n - 1] = lines[n]
    BY <1>5
  <2>3. LatestOf(left) = left[n - 1].sequence
    BY <1>5, <2>1 DEF LatestOf
  <2> QED  BY <1>4, <2>1, <2>2, <2>3
<1>10. Len(left) < Len(records) /\ Len(left) <= Len(records)
  BY <1>1, <1>2, <1>5
<1>11. StoredAs(left, records)
  <2>1. /\ \A j \in 1..Len(left) : IsLine(left[j], records)
        /\ \A j, k \in 1..Len(left) : j < k => left[j].sequence < left[k].sequence
    BY <1>5, <1>7, <1>8
  <2> QED  BY <1>6, <1>9, <1>10, <2>1 DEF StoredAs
<1>12. ~Whole(left, records)
  <2>1. Len(left) # Len(records)
    BY <1>1, <1>2, <1>5
  <2> QED  BY <2>1 DEF Whole
<1> QED  BY <1>11, <1>12

(***************************************************************************)
(* What an evaluation told and not told means, without the position of the *)
(* last grade: it is on the records and no grade of the caller stands      *)
(* after it, or its loss is declared after them.                           *)
(***************************************************************************)
Told(w, d) == {i \in 1..Len(w) : w[i].kind = "grade" /\ w[i].connection = d}

Declared(w, g, l, d) ==
  \/ "grade" \in l
  \/ \E i \in 1..Len(w) : /\ w[i].kind = "gap" /\ "grade" \in w[i].body.kinds
                          /\ \A j \in Told(w, d) : j <= i
  \/ g = "none" /\ Told(w, d) = {}
  \/ \E i \in Told(w, d) : w[i].body.says = g /\ \A j \in Told(w, d) : j <= i

\* LostGradesAreDeclared of one caller.
DeclaredOf(w, g, l, d) ==
  LET told == {i \in 1..Len(w) : w[i].kind = "grade" /\ w[i].connection = d}
      since == IF told = {} THEN 0 ELSE Max(told)
  IN  g = (IF told = {} THEN "none" ELSE w[since].body.says)
      \/ "grade" \in l
      \/ \E i \in (since + 1)..Len(w) : w[i].kind = "gap" /\ "grade" \in w[i].body.kinds

LEMMA DeclaredIs ==
  ASSUME NEW w, NEW n \in Nat, n = Len(w), NEW g, NEW l, NEW d
  PROVE  Declared(w, g, l, d) <=> DeclaredOf(w, g, l, d)
<1> DEFINE told == Told(w, d)
           since == IF told = {} THEN 0 ELSE Max(told)
<1>1. told = {i \in 1..n : w[i].kind = "grade" /\ w[i].connection = d} /\ told \in SUBSET (0..n)
  BY DEF Told
<1>2. told # {} => since \in told /\ \A j \in told : j <= since
  <2> HIDE DEF told
  <2> QED  BY <1>1, GreatestOf
<1>3. since \in 0..n
  BY <1>1, <1>2
<1> DEFINE Gap(i) == w[i].kind = "gap" /\ "grade" \in w[i].body.kinds
           Body == \/ g = (IF told = {} THEN "none" ELSE w[since].body.says)
                   \/ "grade" \in l
                   \/ \E i \in (since + 1)..n : Gap(i)
<1>4. Declared(w, g, l, d) <=> \/ "grade" \in l
                               \/ \E i \in 1..n : Gap(i) /\ \A j \in told : j <= i
                               \/ g = "none" /\ told = {}
                               \/ \E i \in told : w[i].body.says = g /\ \A j \in told : j <= i
  BY DEF Declared
<1>5. \A i \in told : ~Gap(i)
  BY <1>1
<1> HIDE DEF told, since, Gap
<1>6. told = {} => since = 0
  BY DEF since
<1>7. (\E i \in 1..n : Gap(i) /\ \A j \in told : j <= i) <=> (\E i \in (since + 1)..n : Gap(i))
  <2>1. ASSUME NEW i \in 1..n, Gap(i), \A j \in told : j <= i PROVE i \in (since + 1)..n
    <3>1. CASE told = {}
      BY <1>6, <2>1, <3>1
    <3>2. CASE told # {}
      <4>1. i # since /\ since <= i
        BY <1>2, <1>5, <2>1, <3>2
      <4> QED  BY <1>3, <4>1
    <3> QED  BY <3>1, <3>2
  <2>2. ASSUME NEW i \in (since + 1)..n, Gap(i) PROVE i \in 1..n /\ \A j \in told : j <= i
    <3>1. i \in 1..n /\ since <= i
      BY <1>3
    <3>2. \A j \in told : j \in 0..n /\ j <= since
      BY <1>1, <1>2
    <3> QED  BY <1>3, <3>1, <3>2
  <2> QED  BY <2>1, <2>2
<1>8. (\E i \in told : w[i].body.says = g /\ \A j \in told : j <= i)
      <=> (told # {} /\ w[since].body.says = g)
  <2>1. ASSUME NEW i \in told, \A j \in told : j <= i PROVE i = since
    BY <1>1, <1>2, <1>3, <2>1
  <2> QED  BY <1>2, <2>1
<1>9. Declared(w, g, l, d) <=> Body
  BY <1>4, <1>7, <1>8
<1> QED  BY <1>1, <1>9 DEF since, Gap, told, DeclaredOf

(***************************************************************************)
(* What the emitter records.                                               *)
(***************************************************************************)
Owed(l) == IF l = {} THEN <<>> ELSE <<Record("gap", Daemon, [NoBody EXCEPT !.kinds = l])>>

LEMMA GapIsWritten ==
  ASSUME NEW l \in SUBSET {"effect", "grade"}
  PROVE  LET gap == Record("gap", Daemon, [NoBody EXCEPT !.kinds = l])
         IN  gap \in Written /\ gap.kind = "gap" /\ gap.body.kinds = l
<1>1. [NoBody EXCEPT !.kinds = l] \in Bodies /\ [NoBody EXCEPT !.kinds = l].kinds = l
  BY ReadsAssumption DEF NoBody, Bodies
<1> QED  BY <1>1 DEF Record, Written

LEMMA GradeIsWritten ==
  ASSUME NEW c \in Callers, NEW g \in Evaluations
  PROVE  LET grade == Record("grade", c, Says(g))
         IN  /\ grade \in Written /\ grade.kind = "grade" /\ grade.connection = c /\ grade.body.says = g
<1>1. Says(g) \in Bodies /\ Says(g).says = g
  BY ReadsAssumption DEF NoBody, Bodies, Says, Evaluations, Grades
<1> QED  BY <1>1 DEF Record, Written

LEMMA EffectIsWritten ==
  ASSUME NEW c \in Callers, NEW p \in Policies
  PROVE  LET effect == Record("effect", c, Says(p))
         IN  /\ effect \in Written /\ effect.kind = "effect" /\ effect.connection = c /\ effect.body.says = p
<1>1. Says(p) \in Bodies /\ Says(p).says = p
  BY ReadsAssumption DEF NoBody, Bodies, Says
<1> QED  BY <1>1 DEF Record, Written

(* The records of one unit: a new grade of the caller first, then effects. *)
UnitOf(c, g, changed, records) ==
  /\ records \in Seq(Written) /\ Len(records) \in 0..2
  /\ \A i \in 1..Len(records) :
        /\ records[i].kind \in {"grade", "effect"}
        /\ records[i].kind = "grade" => /\ i = 1 /\ changed
                                        /\ records[i].connection = c /\ records[i].body.says = g
        /\ records[i].kind = "effect" => records[i].body.says \in Policies
  /\ changed => Len(records) # 0 /\ records[1].kind = "grade"

LEMMA GradesUnit ==
  ASSUME NEW c \in Callers, NEW g \in Evaluations
  PROVE  UnitOf(c, g, g # graded[c], GradeRecords(c, g))
<1> DEFINE grade == Record("grade", c, Says(g))
<1>1. grade \in Written /\ grade.kind = "grade" /\ grade.connection = c /\ grade.body.says = g
  BY GradeIsWritten
<1> HIDE DEF grade
<1>2. CASE g = graded[c]
  <2>1. GradeRecords(c, g) = <<>>
    BY <1>2 DEF GradeRecords
  <2>2. <<>> \in Seq(Written) /\ Len(<<>>) = 0
    BY EmptySeq
  <2> QED  BY <1>2, <2>1, <2>2 DEF UnitOf
<1>3. CASE g # graded[c]
  <2>1. GradeRecords(c, g) = <<grade>>
    BY <1>3 DEF GradeRecords, grade
  <2>2. <<grade>> \in Seq(Written) /\ Len(<<grade>>) = 1 /\ <<grade>>[1] = grade
    BY <1>1
  <2> QED  BY <1>1, <1>3, <2>1, <2>2 DEF UnitOf
<1> QED  BY <1>2, <1>3

LEMMA EffectsUnit ==
  ASSUME NEW c \in Callers, NEW g \in Evaluations, NEW p \in Policies
  PROVE  UnitOf(c, g, g # graded[c], GradeRecords(c, g) \o <<Record("effect", c, Says(p))>>)
<1> DEFINE grade == Record("grade", c, Says(g))
           effect == Record("effect", c, Says(p))
<1>1. grade \in Written /\ grade.kind = "grade" /\ grade.connection = c /\ grade.body.says = g
  BY GradeIsWritten
<1>2. effect \in Written /\ effect.kind = "effect" /\ effect.body.says = p
  BY EffectIsWritten
<1> HIDE DEF grade, effect
<1>3. CASE g = graded[c]
  <2>1. GradeRecords(c, g) = <<>>
    BY <1>3 DEF GradeRecords
  <2>2. <<effect>> \in Seq(Written) /\ Len(<<effect>>) = 1 /\ <<effect>>[1] = effect
    BY <1>2
  <2>3. GradeRecords(c, g) \o <<effect>> = <<effect>>
    BY <2>1, <2>2, ConcatEmptySeq
  <2>4. UnitOf(c, g, g # graded[c], <<effect>>)
    BY <1>2, <1>3, <2>2 DEF UnitOf
  <2> QED  BY <2>3, <2>4 DEF effect
<1>4. CASE g # graded[c]
  <2>1. GradeRecords(c, g) = <<grade>>
    BY <1>4 DEF GradeRecords, grade
  <2>2. GradeRecords(c, g) \o <<effect>> = <<grade, effect>>
    <3>1. <<grade>> \in Seq(Written)
      BY <1>1
    <3>2. <<grade>> \o <<effect>> = Append(<<grade>>, effect)
      BY <1>2, <3>1, AppendIsConcat
    <3>3. Append(<<grade>>, effect) = <<grade, effect>>
      <4> DEFINE a == Append(<<grade>>, effect)
                 b == <<grade, effect>>
      <4>1. /\ a \in Seq(Written) /\ Len(a) = 2 /\ a[1] = grade /\ a[2] = effect
        BY <1>1, <1>2, <3>1, AppendProperties
      <4>2. b \in Seq(Written) /\ Len(b) = 2 /\ b[1] = grade /\ b[2] = effect
        BY <1>1, <1>2
      <4> HIDE DEF a, b
      <4>3. \A i \in 1..Len(a) : a[i] = b[i]
        BY <4>1, <4>2
      <4>4. a = b
        BY <4>1, <4>2, <4>3, SeqEqual
      <4> QED  BY <4>4 DEF a, b
    <3> QED  BY <2>1, <3>2, <3>3
  <2>3. /\ <<grade, effect>> \in Seq(Written) /\ Len(<<grade, effect>>) = 2
        /\ <<grade, effect>>[1] = grade /\ <<grade, effect>>[2] = effect
    BY <1>1, <1>2
  <2>4. UnitOf(c, g, g # graded[c], <<grade, effect>>)
    <3> DEFINE u == <<grade, effect>>
    <3> HIDE DEF u
    <3>1. u \in Seq(Written) /\ Len(u) = 2 /\ u[1] = grade /\ u[2] = effect
      BY <2>3 DEF u
    <3>2. \A i \in 1..Len(u) : i = 1 \/ i = 2
      BY <3>1
    <3> QED  BY <1>1, <1>2, <1>4, <3>1, <3>2 DEF UnitOf, u
  <2> QED  BY <2>2, <2>4 DEF effect
<1> QED  BY <1>3, <1>4

LEMMA OwedProperties ==
  ASSUME NEW l \in SUBSET {"effect", "grade"}
  PROVE  /\ Owed(l) \in Seq(Written) /\ Len(Owed(l)) \in 0..1
         /\ l = {} => Len(Owed(l)) = 0
         /\ l # {} => Len(Owed(l)) = 1 /\ Owed(l)[1].kind = "gap" /\ Owed(l)[1].body.kinds = l
<1> DEFINE gap == Record("gap", Daemon, [NoBody EXCEPT !.kinds = l])
<1>1. gap \in Written /\ gap.kind = "gap" /\ gap.body.kinds = l
  BY GapIsWritten
<1>2. Owed(l) = IF l = {} THEN <<>> ELSE <<gap>>
  BY DEF Owed
<1> HIDE DEF gap
<1>3. CASE l = {}
  BY <1>2, <1>3, EmptySeq
<1>4. CASE l # {}
  <2>1. <<gap>> \in Seq(Written) /\ Len(<<gap>>) = 1 /\ <<gap>>[1] = gap
    BY <1>1
  <2>2. Owed(l) = <<gap>>
    BY <1>2, <1>4
  <2> DEFINE one == <<gap>>
  <2> HIDE DEF one
  <2>3. one \in Seq(Written) /\ Len(one) = 1 /\ one[1] = gap /\ Owed(l) = one
    BY <2>1, <2>2 DEF one
  <2>4. Owed(l) \in Seq(Written) /\ Len(Owed(l)) = 1 /\ Owed(l)[1] = gap
    BY <2>3
  <2>5. Owed(l)[1].kind = "gap" /\ Owed(l)[1].body.kinds = l
    BY <1>1, <2>4
  <2>6. Len(Owed(l)) \in 0..1
    BY <2>4
  <2> QED  BY <1>4, <2>4, <2>5, <2>6, Zenon
<1> QED  BY <1>3, <1>4

(* What the store takes of a unit, and what is left.                       *)
LEMMA TakenProperties ==
  ASSUME NEW l \in SUBSET {"effect", "grade"}, NEW records \in Seq(Written), NEW m \in Nat, m = Len(records),
         NEW o \in 0..1, o = Len(Owed(l)), NEW taken \in 0..Len(Owed(l) \o records),
         NEW kept, kept = SubSeq(Owed(l) \o records, 1, taken)
  PROVE  /\ taken \in 0..(o + m)
         /\ kept \in Seq(Written) /\ Len(kept) = taken
         /\ \A i \in 1..taken : kept[i] = IF i <= o THEN Owed(l)[i] ELSE records[i - o]
<1> DEFINE owed == Owed(l)
           unit == owed \o records
<1>1. owed \in Seq(Written)
  BY OwedProperties
<1> HIDE DEF owed
<1>2. /\ unit \in Seq(Written) /\ Len(unit) = Len(owed) + Len(records)
      /\ \A i \in 1..(Len(owed) + Len(records)) : unit[i] = IF i <= Len(owed) THEN owed[i] ELSE records[i - Len(owed)]
  BY <1>1, ConcatProperties
<1>3. o = Len(owed) /\ kept = SubSeq(unit, 1, taken) /\ taken \in 0..Len(unit)
  BY DEF owed
<1> HIDE DEF unit
<1>4. /\ Len(unit) = o + m /\ taken \in 0..(o + m)
      /\ \A i \in 1..(o + m) : unit[i] = IF i <= o THEN owed[i] ELSE records[i - o]
  BY <1>2, <1>3
<1>5. SubSeq(unit, 1, taken) \in Seq(Written) /\ Len(SubSeq(unit, 1, taken)) = taken - 1 + 1
      /\ \A i \in 1..(taken - 1 + 1) : SubSeq(unit, 1, taken)[i] = unit[1 + i - 1]
  <2>1. o + m \in Nat /\ 1 \in 1..(o + m + 1) /\ taken \in 0..(o + m) /\ 1 <= taken + 1
    BY <1>4
  <2> QED  BY <1>2, <1>4, <2>1, SliceProperties
<1>6. kept \in Seq(Written) /\ Len(kept) = taken /\ \A i \in 1..taken : kept[i] = unit[i]
  <2>1. kept \in Seq(Written) /\ Len(kept) = taken - 1 + 1 /\ \A i \in 1..(taken - 1 + 1) : kept[i] = unit[1 + i - 1]
    BY <1>3, <1>5
  <2>2. taken - 1 + 1 = taken /\ \A i \in 1..taken : 1 + i - 1 = i
    BY <1>4
  <2> QED  BY <2>1, <2>2
<1>7. \A i \in 1..taken : kept[i] = IF i <= o THEN owed[i] ELSE records[i - o]
  BY <1>4, <1>6
<1> QED  BY <1>4, <1>6, <1>7 DEF owed

LEMMA RefusedProperties ==
  ASSUME NEW records \in Seq(Written), NEW m \in Nat, m = Len(records), NEW o \in 0..1, NEW taken \in o..(o + m)
  PROVE  LET refused == SubSeq(records, taken + 1 - o, m) IN
         /\ Kinds(refused) \subseteq Kinds(records)
         /\ taken = o /\ m # 0 => records[1].kind \in Kinds(refused)
<1> DEFINE refused == SubSeq(records, taken + 1 - o, m)
           lo == taken + 1 - o
<1>1. lo \in 1..(m + 1) /\ m \in 0..m /\ lo <= m + 1
  OBVIOUS
<1>2. refused \in Seq(Written) /\ Len(refused) = m - lo + 1 /\ \A i \in 1..(m - lo + 1) : refused[i] = records[lo + i - 1]
  BY <1>1, SliceProperties
<1> HIDE DEF refused
<1>3. Kinds(refused) = {refused[i].kind : i \in 1..(m - lo + 1)} /\ Kinds(records) = {records[i].kind : i \in 1..m}
  BY <1>2 DEF Kinds
<1>4. ASSUME NEW i \in 1..(m - lo + 1) PROVE refused[i].kind \in Kinds(records)
  <2>1. lo + i - 1 \in 1..m
    BY <1>1
  <2> QED  BY <1>2, <1>3, <2>1
<1>5. ASSUME taken = o, m # 0 PROVE records[1].kind \in Kinds(refused)
  <2>1. lo = 1 /\ 1 \in 1..(m - lo + 1) /\ lo + 1 - 1 = 1
    BY <1>5
  <2>2. refused[1] = records[1]
    BY <1>2, <2>1
  <2> QED  BY <1>3, <2>1, <2>2
<1> QED  BY <1>3, <1>4, <1>5 DEF refused

(***************************************************************************)
(* A grade told or lost stays declared while other records are added, and  *)
(* a loss owed is declared by the gap that is stored first.                *)
(***************************************************************************)
Longer(w, n, more, k) ==
  n = Len(w) /\ Len(more) = n + k /\ \A i \in 1..n : more[i] = w[i]

UntoldIn(more, n, k, d) ==
  \A i \in (n + 1)..(n + k) : ~ (more[i].kind = "grade" /\ more[i].connection = d)

LossGoesOn(more, n, k, l, left) ==
  "grade" \in l => \/ "grade" \in left
                   \/ k > 0 /\ more[n + 1].kind = "gap" /\ "grade" \in more[n + 1].body.kinds

LEMMA DeclaredStays ==
  ASSUME NEW w, NEW n \in Nat, NEW more, NEW k \in Nat, Longer(w, n, more, k),
         NEW g, NEW l, NEW left, NEW d, Declared(w, g, l, d),
         UntoldIn(more, n, k, d), LossGoesOn(more, n, k, l, left)
  PROVE  Declared(more, g, left, d)
<1> USE DEF Longer, UntoldIn, LossGoesOn
<1>1. Told(more, d) = Told(w, d) /\ Told(w, d) \subseteq 1..n
  <2>1. Told(more, d) = {i \in 1..(n + k) : more[i].kind = "grade" /\ more[i].connection = d}
    BY DEF Told
  <2>2. Told(w, d) = {i \in 1..n : w[i].kind = "grade" /\ w[i].connection = d}
    BY DEF Told
  <2>3. \A i \in 1..(n + k) : i \in 1..n \/ i \in (n + 1)..(n + k)
    OBVIOUS
  <2>4. \A i \in 1..n : i \in 1..(n + k)
    OBVIOUS
  <2> QED  BY <2>1, <2>2, <2>3, <2>4
<1>2. \A i \in 1..n : i \in 1..Len(more)
  OBVIOUS
<1>3. CASE "grade" \in l
  <2>1. CASE "grade" \in left
    BY <2>1 DEF Declared
  <2>2. CASE k > 0 /\ more[n + 1].kind = "gap" /\ "grade" \in more[n + 1].body.kinds
    <3>1. n + 1 \in 1..Len(more) /\ \A j \in Told(more, d) : j <= n + 1
      BY <1>1, <2>2
    <3> QED  BY <2>2, <3>1 DEF Declared
  <2> QED  BY <1>3, <2>1, <2>2
<1>4. CASE \E i \in 1..Len(w) : /\ w[i].kind = "gap" /\ "grade" \in w[i].body.kinds
                                /\ \A j \in Told(w, d) : j <= i
  BY <1>1, <1>2, <1>4 DEF Declared
<1>5. CASE g = "none" /\ Told(w, d) = {}
  BY <1>1, <1>5 DEF Declared
<1>6. CASE \E i \in Told(w, d) : w[i].body.says = g /\ \A j \in Told(w, d) : j <= i
  BY <1>1, <1>6 DEF Declared
<1> QED  BY <1>3, <1>4, <1>5, <1>6 DEF Declared

(***************************************************************************)
(* _drain: whatever the store takes, the lines stand as stored, damage     *)
(* stays where it was, and the evaluation is told or its loss is owed.     *)
(***************************************************************************)
LEMMA Recording ==
  ASSUME ReadsInv, NEW c \in Callers, NEW g \in Evaluations, NEW records,
         UnitOf(c, g, g # graded[c], records), Recorded(records),
         graded' = [graded EXCEPT ![c] = g], damage' = damage
  PROVE  /\ WrittenShape' /\ ChainShape' /\ LostGradesAreDeclared'
         /\ Len(written') \in Nat /\ Len(written) <= Len(written') /\ Len(written') <= MaxEntries
         /\ \A i \in 1..Len(written) : written'[i] = written[i]
         /\ graded' \in [Callers -> Grades \cup {"none"}]
         /\ lost' \subseteq {"effect", "grade"}
<1> DEFINE o == Len(Owed(lost))
           m == Len(records)
           n == Len(written)
           owed == Owed(lost)
<1>1. lost \in SUBSET {"effect", "grade"} /\ graded \in [Callers -> Grades \cup {"none"}]
  BY DEF ReadsInv, ReadsTypeOK
<1>2. /\ records \in Seq(Written) /\ m \in 0..2
      /\ \A i \in 1..m : /\ records[i].kind \in {"grade", "effect"}
                         /\ records[i].kind = "grade" => /\ i = 1 /\ g # graded[c]
                                                         /\ records[i].connection = c /\ records[i].body.says = g
                         /\ records[i].kind = "effect" => records[i].body.says \in Policies
      /\ g # graded[c] => m # 0 /\ records[1].kind = "grade"
  BY DEF UnitOf
<1>3. /\ o \in 0..1 /\ owed \in Seq(Written) /\ (lost = {} => o = 0)
      /\ lost # {} => o = 1 /\ owed[1].kind = "gap" /\ owed[1].body.kinds = lost
  BY <1>1, OwedProperties
<1>4. PICK taken \in 0..Len(owed \o records) :
        LET kept == SubSeq(owed \o records, 1, taken)
            refused == SubSeq(records, taken + 1 - o, m)
        IN  /\ n + taken <= MaxEntries
            /\ chain' = AppendAll(chain, kept)
            /\ written' = written \o kept
            /\ lost' = IF taken < o THEN lost \cup Losses(records) ELSE Losses(refused)
  BY Zenon DEF Recorded, Owed
<1> DEFINE kept == SubSeq(owed \o records, 1, taken)
           refused == SubSeq(records, taken + 1 - o, m)
<1>5. /\ n + taken <= MaxEntries
      /\ chain' = AppendAll(chain, kept)
      /\ written' = written \o kept
      /\ lost' = IF taken < o THEN lost \cup Kinds(records) ELSE Kinds(refused)
  BY <1>4, Zenon DEF Losses
<1>6. /\ taken \in 0..(o + m) /\ kept \in Seq(Written) /\ Len(kept) = taken
      /\ \A i \in 1..taken : kept[i] = IF i <= o THEN owed[i] ELSE records[i - o]
  <2> DEFINE u == kept
  <2>1. u = SubSeq(Owed(lost) \o records, 1, taken)
    OBVIOUS
  <2> HIDE DEF u
  <2>2. /\ taken \in 0..(o + m) /\ u \in Seq(Written) /\ Len(u) = taken
        /\ \A i \in 1..taken : u[i] = IF i <= o THEN Owed(lost)[i] ELSE records[i - o]
    BY <1>1, <1>2, <1>3, <1>4, <2>1, TakenProperties
  <2> QED  BY <2>2 DEF u
<1>7. taken >= o => Kinds(refused) \subseteq Kinds(records) /\ (taken = o /\ m # 0 => records[1].kind \in Kinds(refused))
  <2>1. ASSUME taken >= o PROVE taken \in o..(o + m)
    BY <1>3, <1>2, <1>6, <2>1
  <2> HIDE DEF o
  <2> QED  BY <1>2, <1>3, <2>1, RefusedProperties
<1>8. Kinds(records) \subseteq {"effect", "grade"} /\ (g # graded[c] => "grade" \in Kinds(records))
  BY <1>2 DEF Kinds
<1> HIDE DEF o, m, n, owed, kept, refused
<1>8a. o \in 0..1 /\ m \in 0..2 /\ taken \in 0..(o + m) /\ taken \in Nat
  BY <1>2, <1>3, <1>6
<1>9. lost' \subseteq {"effect", "grade"}
  <2>1. CASE taken < o
    BY <1>1, <1>5, <1>8, <2>1
  <2>2. CASE ~ (taken < o)
    <3>1. taken >= o /\ lost' = Kinds(refused)
      BY <1>5, <1>8a, <2>2
    <3> QED  BY <1>7, <1>8, <3>1
  <2> QED  BY <2>1, <2>2
<1>10. written \in Seq(Written) /\ n \in Nat /\ n = Len(written)
       /\ \A i \in 1..n : /\ written[i].kind = "grade" => written[i].body.says \in Evaluations
                          /\ written[i].kind = "effect" => written[i].body.says \in Policies
  BY LenProperties DEF ReadsInv, WrittenShape, n
<1>10a. n \in Nat
  BY <1>10
<1>11. /\ written' \in Seq(Written) /\ Len(written') = n + taken
       /\ \A i \in 1..n : written'[i] = written[i]
       /\ \A i \in 1..taken : written'[n + i] = kept[i]
  <2>1. /\ written \o kept \in Seq(Written) /\ Len(written \o kept) = Len(written) + Len(kept)
        /\ \A i \in 1..(Len(written) + Len(kept)) :
              (written \o kept)[i] = IF i <= Len(written) THEN written[i] ELSE kept[i - Len(written)]
    BY <1>6, <1>10, ConcatProperties
  <2>2. /\ written' \in Seq(Written) /\ Len(written') = n + taken
        /\ \A i \in 1..(n + taken) : written'[i] = IF i <= n THEN written[i] ELSE kept[i - n]
    BY <1>5, <1>6, <1>10, <2>1
  <2>3. \A i \in 1..taken : n + i \in 1..(n + taken) /\ ~ (n + i <= n) /\ n + i - n = i
    BY <1>8a, <1>10a
  <2>4. \A i \in 1..n : i \in 1..(n + taken) /\ i <= n
    BY <1>8a, <1>10a
  <2>5. ASSUME NEW i \in 1..taken PROVE written'[n + i] = kept[i]
    <3> DEFINE j == n + i
    <3>1. j \in 1..(n + taken) /\ ~ (j <= n) /\ j - n = i
      BY <1>8a, <1>10a, <2>5
    <3> HIDE DEF j
    <3>2. written'[j] = kept[i]
      BY <2>2, <3>1
    <3> QED  BY <3>2 DEF j
  <2> QED  BY <2>2, <2>4, <2>5
<1>12. \A i \in 1..taken : \/ i = 1 /\ o = 1 /\ kept[i] = owed[1]
                           \/ i - o \in 1..m /\ kept[i] = records[i - o]
  <2>1. \A i \in 1..taken : (i <= o => i = 1 /\ o = 1) /\ (~ (i <= o) => i - o \in 1..m)
    BY <1>2, <1>3, <1>6
  <2> QED  BY <1>6, <2>1
<1>13. \A i \in 1..taken : /\ kept[i].kind = "grade" => kept[i].body.says \in Evaluations /\ kept[i].connection = c
                           /\ kept[i].kind = "effect" => kept[i].body.says \in Policies
  <2> SUFFICES ASSUME NEW i \in 1..taken
               PROVE  /\ kept[i].kind = "grade" => kept[i].body.says \in Evaluations /\ kept[i].connection = c
                      /\ kept[i].kind = "effect" => kept[i].body.says \in Policies
    OBVIOUS
  <2>1. CASE i = 1 /\ o = 1 /\ kept[i] = owed[1]
    <3>1. kept[i].kind = "gap"
      BY <1>3, <2>1
    <3> QED  BY <3>1
  <2>2. CASE i - o \in 1..m /\ kept[i] = records[i - o]
    <3> DEFINE r == records[i - o]
    <3>1. /\ r.kind = "grade" => r.connection = c /\ r.body.says = g
          /\ r.kind = "effect" => r.body.says \in Policies
      BY <1>2, <2>2
    <3> HIDE DEF r
    <3> QED  BY <2>2, <3>1 DEF r
  <2> QED  BY <1>12, <2>1, <2>2
<1>14. WrittenShape'
  <2>1. ASSUME NEW i \in 1..(n + taken)
        PROVE  /\ written'[i].kind = "grade" => written'[i].body.says \in Evaluations
               /\ written'[i].kind = "effect" => written'[i].body.says \in Policies
    <3>1. CASE i <= n
      BY <1>10, <1>11, <3>1
    <3>2. CASE ~ (i <= n)
      <4>1. i - n \in 1..taken /\ n + (i - n) = i
        BY <1>2, <1>3, <1>6, <1>10, <3>2
      <4>2. written'[i] = kept[i - n]
        BY <1>11, <4>1
      <4> QED  BY <1>13, <4>1, <4>2
    <3> QED  BY <3>1, <3>2
  <2> QED  BY <1>11, <2>1 DEF WrittenShape
<1>15. ChainShape'
  <2>1. StoredAs(chain, written) /\ (damage > 0 => ~Whole(chain, written))
    BY DEF ReadsInv, ChainShape
  <2>2. Len(kept) <= 3
    BY <1>2, <1>3, <1>6
  <2>3. /\ StoredAs(AppendAll(chain, kept), written \o kept)
        /\ Whole(AppendAll(chain, kept), written \o kept) => Whole(chain, written)
    BY <1>6, <1>10, <2>1, <2>2, AppendAllKeeps
  <2>4. StoredAs(chain', written') /\ (Whole(chain', written') => Whole(chain, written))
    BY <1>5, <2>3
  <2> QED  BY <2>1, <2>4 DEF ChainShape
<1>16. Len(written') \in Nat /\ n <= Len(written') /\ Len(written') <= MaxEntries
  BY <1>2, <1>3, <1>5, <1>6, <1>10, <1>11
<1>17. ASSUME NEW d \in Callers PROVE Declared(written, graded[d], lost, d)
  BY <1>10, DeclaredIs DEF ReadsInv, LostGradesAreDeclared, DeclaredOf
<1>18. lost # {} => (taken = 0 /\ lost \subseteq lost') \/ (taken > 0 /\ written'[n + 1] = owed[1])
  <2>1. ASSUME lost # {}, taken # 0 PROVE taken > 0 /\ written'[n + 1] = owed[1]
    <3>1. o = 1 /\ 1 \in 1..taken
      BY <1>2, <1>3, <1>6, <2>1
    <3> QED  BY <1>6, <1>11, <3>1
  <2>2. ASSUME lost # {}, taken = 0 PROVE lost \subseteq lost'
    BY <1>3, <1>5, <2>2
  <2>3. CASE taken = 0
    BY <2>2, <2>3
  <2>4. CASE taken # 0
    BY <2>1, <2>4
  <2> QED  BY <2>3, <2>4
<1>19. ASSUME NEW d \in Callers, d # c \/ g = graded[c]
       PROVE  Declared(written', graded[d], lost', d)
  <2>1. \A i \in 1..taken : ~ (kept[i].kind = "grade" /\ kept[i].connection = d)
    <3> SUFFICES ASSUME NEW i \in 1..taken, kept[i].kind = "grade", kept[i].connection = d
                 PROVE  FALSE
      OBVIOUS
    <3>1. d = c
      BY <1>13
    <3>2. g = graded[c]
      BY <1>19, <3>1
    <3>3. kept[i] # owed[1] \/ lost = {}
      BY <1>3
    <3>4. o = 1 => lost # {}
      BY <1>3
    <3>5. i - o \in 1..m /\ kept[i] = records[i - o]
      BY <1>12, <3>3, <3>4
    <3>6. records[i - o].kind = "grade"
      BY <3>5
    <3> QED  BY <1>2, <3>2, <3>5, <3>6
  <2>2. \A i \in (n + 1)..(n + taken) : ~ (written'[i].kind = "grade" /\ written'[i].connection = d)
    <3>1. \A i \in (n + 1)..(n + taken) : i - n \in 1..taken /\ n + (i - n) = i
      BY <1>2, <1>3, <1>6, <1>10
    <3> QED  BY <1>11, <2>1, <3>1
  <2>3. "grade" \in lost => \/ "grade" \in lost'
                            \/ taken > 0 /\ written'[n + 1].kind = "gap" /\ "grade" \in written'[n + 1].body.kinds
    BY <1>3, <1>18
  <2>4. Declared(written, graded[d], lost, d)
    BY <1>17
  <2>5. Len(written') = n + taken /\ n = Len(written) /\ \A i \in 1..n : written'[i] = written[i]
    BY <1>10, <1>11
  <2>6. Longer(written, n, written', taken) /\ UntoldIn(written', n, taken, d)
    BY <2>2, <2>5 DEF Longer, UntoldIn
  <2>7. LossGoesOn(written', n, taken, lost, lost')
    BY <2>3 DEF LossGoesOn
  <2>8. n \in Nat /\ taken \in Nat
    BY <1>8a, <1>10a
  <2> HIDE DEF Declared
  <2> QED  BY <2>4, <2>6, <2>7, <2>8, DeclaredStays
<1>20. ASSUME g # graded[c] PROVE Declared(written', g, lost', c)
  <2>1. CASE taken <= o
    <3>1. "grade" \in lost'
      <4>1. CASE taken < o
        BY <1>5, <1>8, <1>20, <4>1
      <4>2. CASE taken = o
        BY <1>2, <1>3, <1>5, <1>7, <1>20, <4>2
      <4> QED  BY <1>2, <1>3, <1>6, <2>1, <4>1, <4>2
    <3> QED  BY <3>1 DEF Declared
  <2>2. CASE ~ (taken <= o)
    <3>1. o + 1 \in 1..taken /\ ~ (o + 1 <= o) /\ o + 1 - o = 1 /\ 1 \in 1..m
      BY <1>2, <1>8a, <1>20, <2>2
    <3>2. kept[o + 1] = records[1] /\ written'[n + (o + 1)] = kept[o + 1]
      <4>1. kept[o + 1] = records[1]
        <5> DEFINE k == o + 1
        <5>1. k \in 1..taken /\ ~ (k <= o) /\ k - o = 1
          BY <1>8a, <3>1
        <5> HIDE DEF k
        <5>2. kept[k] = records[k - o]
          BY <1>6, <5>1
        <5>3. kept[k] = records[1]
          BY <5>1, <5>2
        <5> QED  BY <5>3 DEF k
      <4>2. written'[n + (o + 1)] = kept[o + 1]
        BY <1>11, <3>1
      <4> QED  BY <3>1, <4>1, <4>2
    <3> DEFINE at == n + (o + 1)
    <3>3. at \in 1..(n + taken) /\ at \in Nat
      BY <1>3, <1>10, <3>1
    <3>4. written'[at].kind = "grade" /\ written'[at].connection = c /\ written'[at].body.says = g
      BY <1>2, <1>20, <3>1, <3>2
    <3> HIDE DEF at
    <3>5. at \in Told(written', c)
      BY <1>11, <3>3, <3>4 DEF Told
    <3>6. ASSUME NEW j \in Told(written', c) PROVE j <= at
      <4>1. j \in 1..(n + taken) /\ written'[j].kind = "grade"
        BY <1>11 DEF Told
      <4>2. CASE j <= n
        BY <1>3, <1>10, <4>1, <4>2 DEF at
      <4>3. CASE ~ (j <= n)
        <5>1. j - n \in 1..taken /\ n + (j - n) = j
          BY <1>2, <1>3, <1>6, <1>10, <4>1, <4>3
        <5>2. kept[j - n].kind = "grade"
          BY <1>11, <4>1, <5>1
        <5>3. j - n <= o + 1
          <6>1. CASE j - n = 1 /\ o = 1
            BY <6>1
          <6>2. CASE j - n - o \in 1..m /\ kept[j - n] = records[j - n - o]
            <7>1. j - n - o = 1
              BY <1>2, <5>2, <6>2
            <7> QED  BY <1>3, <1>10, <4>1, <7>1
          <6> QED  BY <1>12, <5>1, <6>1, <6>2
        <5> QED  BY <1>3, <1>10, <4>1, <5>3 DEF at
      <4> QED  BY <4>2, <4>3
    <3> QED  BY <3>4, <3>5, <3>6 DEF Declared
  <2> QED  BY <2>1, <2>2
<1>21. ASSUME NEW d \in Callers PROVE Declared(written', graded'[d], lost', d)
  <2>1. CASE d = c /\ g # graded[c]
    BY <1>1, <1>20, <2>1
  <2>2. CASE ~ (d = c /\ g # graded[c])
    <3>1. graded'[d] = graded[d]
      BY <1>1, <2>2
    <3> QED  BY <1>19, <2>2, <3>1
  <2> QED  BY <2>1, <2>2
<1>22. LostGradesAreDeclared'
  <2> DEFINE k == Len(written')
  <2>1. k \in Nat
    BY <1>16
  <2>2. k = Len(written')
    OBVIOUS
  <2> HIDE DEF k
  <2>3. ASSUME NEW d \in Callers
        PROVE  DeclaredOf(written', graded'[d], lost', d)
    <3>1. Declared(written', graded'[d], lost', d)
      BY <1>21
    <3> HIDE DEF Declared
    <3> QED  BY <2>1, <2>2, <3>1, DeclaredIs, Zenon
  <2> QED  BY <2>3 DEF LostGradesAreDeclared, DeclaredOf
<1>23. graded' \in [Callers -> Grades \cup {"none"}]
  BY <1>1 DEF Evaluations, Grades
<1> QED  BY <1>9, <1>11, <1>14, <1>15, <1>16, <1>22, <1>23 DEF n

LEMMA LatestIs ==
  ASSUME NEW records \in Seq(Written), NEW lines, StoredAs(lines, records)
  PROVE  LatestOf(lines) = Len(records) /\ Len(records) \in Nat
<1>1. CASE lines = <<>>
  <2>1. records = <<>>
    BY <1>1 DEF StoredAs
  <2> QED  BY <1>1, <2>1, EmptySeq DEF LatestOf
<1>2. CASE lines # <<>>
  BY <1>2, LenProperties DEF StoredAs
<1> QED  BY <1>1, <1>2

(* The lines of a range are a slice of the chain, and all of them.         *)
LEMMA RangeIs ==
  ASSUME NEW S, NEW lines \in Seq(S), NEW n \in Nat, n = Len(lines),
         \A i \in 1..n : lines[i].sequence \in Nat,
         \A i, j \in 1..n : i < j => lines[i].sequence < lines[j].sequence,
         NEW from \in Int, NEW to \in Int
  PROVE  \E lo \in 1..(n + 1), hi \in 0..n :
            /\ lo <= hi + 1
            /\ InRange(lines, from, to) = SubSeq(lines, lo, hi)
            /\ \A i \in 1..n : (i \in lo..hi) <=> (from <= lines[i].sequence /\ lines[i].sequence <= to)
<1> DEFINE hits == {i \in 1..n : lines[i].sequence >= from /\ lines[i].sequence <= to}
<1>1. InRange(lines, from, to) = IF hits = {} THEN <<>> ELSE SubSeq(lines, Min(hits), Max(hits))
  BY Zenon DEF InRange
<1>2. hits \in SUBSET (0..n) /\ hits \in SUBSET Nat /\ hits \subseteq 1..n
      /\ \A i \in 1..n : i \in hits <=> (lines[i].sequence >= from /\ lines[i].sequence <= to)
  OBVIOUS
<1> HIDE DEF hits
<1>3. CASE hits = {}
  <2>1. SubSeq(lines, 1, 0) = <<>>
    BY SubSeqEmpty
  <2>2. InRange(lines, from, to) = SubSeq(lines, 1, 0)
    BY <1>1, <1>3, <2>1
  <2>3. 1 \in 1..(n + 1) /\ 0 \in 0..n /\ 1 <= 0 + 1
    OBVIOUS
  <2>4. \A i \in 1..n : (i \in 1..0) <=> (from <= lines[i].sequence /\ lines[i].sequence <= to)
    BY <1>2, <1>3
  <2> QED  BY <2>2, <2>3, <2>4
<1>4. CASE hits # {}
  <2> DEFINE lo == Min(hits)
             hi == Max(hits)
  <2>1. lo \in hits /\ \A i \in hits : lo <= i
    BY <1>2, <1>4, LeastOf
  <2>2. hi \in hits /\ \A i \in hits : i <= hi
    BY <1>2, <1>4, GreatestOf
  <2>3. InRange(lines, from, to) = SubSeq(lines, lo, hi)
    BY <1>1, <1>4
  <2> HIDE DEF lo, hi
  <2>4. lo \in 1..n /\ hi \in 1..n /\ lo <= hi
    BY <1>2, <2>1, <2>2
  <2>5. /\ lines[lo].sequence \in Nat /\ lines[hi].sequence \in Nat
        /\ lines[lo].sequence >= from /\ lines[hi].sequence <= to
    BY <1>2, <2>1, <2>2, <2>4
  <2>6. ASSUME NEW i \in 1..n
        PROVE  (i \in lo..hi) <=> (from <= lines[i].sequence /\ lines[i].sequence <= to)
    <3>1. ASSUME i \in lo..hi PROVE from <= lines[i].sequence /\ lines[i].sequence <= to
      <4>1. lines[lo].sequence <= lines[i].sequence /\ lines[i].sequence <= lines[hi].sequence
        <5>1. i = lo \/ lo < i
          BY <2>4, <3>1
        <5>2. i = hi \/ i < hi
          BY <2>4, <3>1
        <5>3. lines[i].sequence \in Nat
          OBVIOUS
        <5>4. lines[lo].sequence <= lines[i].sequence
          BY <2>4, <2>5, <5>1, <5>3
        <5>5. lines[i].sequence <= lines[hi].sequence
          BY <2>4, <2>5, <5>2, <5>3
        <5> QED  BY <5>4, <5>5
      <4>2. lines[i].sequence \in Nat
        OBVIOUS
      <4> QED  BY <2>5, <4>1, <4>2
    <3>2. ASSUME from <= lines[i].sequence, lines[i].sequence <= to PROVE i \in lo..hi
      <4>1. i \in hits
        BY <1>2, <3>2
      <4> QED  BY <2>1, <2>2, <2>4, <4>1
    <3> QED  BY <3>1, <3>2
  <2>7. lo \in 1..(n + 1) /\ hi \in 0..n /\ lo <= hi + 1
    BY <2>4
  <2> QED  BY <2>3, <2>6, <2>7
<1> QED  BY <1>3, <1>4

LEMMA OrderedLines ==
  ASSUME NEW records \in Seq(Written), NEW lines, StoredAs(lines, records)
  PROVE  /\ Len(lines) \in Nat /\ lines \in Seq(LinesOf(lines))
         /\ \A i \in 1..Len(lines) : IsLine(lines[i], records) /\ lines[i].sequence \in 1..Len(records)
                                     /\ lines[i].sequence \in Nat
         /\ \A i, j \in 1..Len(lines) : i < j => lines[i].sequence < lines[j].sequence
<1>1. lines \in Seq(LinesOf(lines)) /\ Len(records) \in Nat
  BY LenProperties DEF StoredAs
<1>2. Len(lines) \in Nat
  BY <1>1, LenProperties
<1>3. \A i \in 1..Len(lines) : IsLine(lines[i], records)
  BY DEF StoredAs
<1>4. \A i \in 1..Len(lines) : lines[i].sequence \in 1..Len(records)
  BY <1>3 DEF IsLine
<1> QED  BY <1>1, <1>2, <1>3, <1>4 DEF StoredAs

(* A read's lines are lines of its range.                                  *)
LEMMA RangeLines ==
  ASSUME NEW records \in Seq(Written), NEW lines, StoredAs(lines, records),
         NEW from \in Int, NEW to \in Int, NEW r, r = InRange(lines, from, to)
  PROVE  /\ r \in Seq(LinesOf(r)) /\ Len(r) \in Nat
         /\ \A i \in 1..Len(r) : /\ IsLine(r[i], records) /\ r[i].sequence \in Nat
                                 /\ from <= r[i].sequence /\ r[i].sequence <= to
         /\ \A i, j \in 1..Len(r) : i < j => r[i].sequence < r[j].sequence
<1>1. PICK n \in Nat : n = Len(lines)
  BY OrderedLines
<1>2. /\ lines \in Seq(LinesOf(lines))
      /\ \A i \in 1..n : IsLine(lines[i], records) /\ lines[i].sequence \in Nat
      /\ \A i, j \in 1..n : i < j => lines[i].sequence < lines[j].sequence
  BY <1>1, OrderedLines
<1>3. PICK lo \in 1..(n + 1), hi \in 0..n :
            /\ lo <= hi + 1
            /\ InRange(lines, from, to) = SubSeq(lines, lo, hi)
            /\ \A i \in 1..n : (i \in lo..hi) <=> (from <= lines[i].sequence /\ lines[i].sequence <= to)
  BY <1>1, <1>2, RangeIs
<1>4. /\ r \in Seq(LinesOf(lines)) /\ Len(r) = hi - lo + 1
      /\ \A i \in 1..(hi - lo + 1) : r[i] = lines[lo + i - 1]
  BY <1>1, <1>2, <1>3, SliceProperties
<1>5. r \in Seq(LinesOf(r))
  BY <1>4, OwnLines
<1>6. \A i \in 1..(hi - lo + 1) : lo + i - 1 \in 1..n /\ lo + i - 1 \in lo..hi
  BY <1>3
<1>7. ASSUME NEW i \in 1..(hi - lo + 1)
      PROVE  /\ IsLine(r[i], records) /\ r[i].sequence \in Nat
             /\ from <= r[i].sequence /\ r[i].sequence <= to
  <2>1. r[i] = lines[lo + i - 1] /\ lo + i - 1 \in 1..n /\ lo + i - 1 \in lo..hi
    BY <1>4, <1>6
  <2> QED  BY <1>2, <1>3, <2>1
<1>8. ASSUME NEW i \in 1..(hi - lo + 1), NEW j \in 1..(hi - lo + 1), i < j
      PROVE  r[i].sequence < r[j].sequence
  <2>0. lo + i - 1 < lo + j - 1
    BY <1>8
  <2>1. r[i] = lines[lo + i - 1] /\ r[j] = lines[lo + j - 1] /\ lo + i - 1 < lo + j - 1
    BY <1>4, <2>0
  <2> QED  BY <1>2, <1>6, <2>1
<1>9. Len(r) = hi - lo + 1 /\ Len(r) \in Nat
  BY <1>3, <1>4
<1> QED  BY <1>5, <1>7, <1>8, <1>9

LEMMA ShapesType ==
  ASSUME NEW records \in Seq(Written), NEW lines, StoredAs(lines, records), Len(records) <= MaxEntries
  PROVE  /\ \A i \in 1..Len(lines) :
               /\ lines[i].sequence \in 1..MaxEntries
               /\ lines[i].kind \in {"effect", "grade", "gap", "recovery"}
               /\ lines[i].connection \in Callers \cup {Daemon}
         /\ Len(lines) <= Len(records)
<1>1. Len(records) \in Nat
  BY LenProperties
<1>2. ASSUME NEW i \in 1..Len(lines)
      PROVE  /\ lines[i].sequence \in 1..MaxEntries
             /\ lines[i].kind \in {"effect", "grade", "gap", "recovery"}
             /\ lines[i].connection \in Callers \cup {Daemon}
  <2> DEFINE e == lines[i]
             record == records[e.sequence]
  <2>1. e.sequence \in 1..Len(records) /\ IsLine(e, records)
    BY OrderedLines
  <2>2. record \in Written
    BY <2>1, ElementOfSeq
  <2>3. e.kind = record.kind /\ e.connection = record.connection
    BY <2>1 DEF IsLine
  <2> HIDE DEF e, record
  <2>4. e.sequence \in 1..MaxEntries
    BY <1>1, <2>1, ReadsAssumption
  <2>5. e.kind \in {"effect", "grade", "gap", "recovery"} /\ e.connection \in Callers \cup {Daemon}
    BY <2>2, <2>3 DEF Written
  <2> QED  BY <2>4, <2>5 DEF e
<1> QED  BY <1>2 DEF StoredAs

LEMMA ReadsInit_Inv ==
  ASSUME ReadsInit
  PROVE  ReadsInv
<1>1. chain = <<>> /\ written = <<>> /\ Len(chain) = 0 /\ Len(written) = 0
  BY DEF ReadsInit
<1>2. ReadsTypeOK
  BY <1>1, ReadsAssumption DEF ReadsInit, ReadsTypeOK, NoRead, Grades
<1>3. WrittenShape
  BY <1>1, EmptySeq DEF WrittenShape
<1>4. ChainShape
  <2>1. chain \in Seq(LinesOf(chain))
    BY <1>1, EmptySeq
  <2> QED  BY <1>1, <2>1 DEF ChainShape, StoredAs, ReadsInit
<1>5. ReadShape
  BY DEF ReadsInit, ReadShape, Answering, NoRead
<1>6. LostGradesAreDeclared
  <2>1. \A c \in Callers : DeclaredOf(written, graded[c], lost, c)
    <3> TAKE c \in Callers
    <3>1. graded[c] = "none"
      BY DEF ReadsInit
    <3>2. Told(written, c) = {}
      BY <1>1 DEF Told
    <3>3. Declared(written, graded[c], lost, c)
      BY <3>1, <3>2 DEF Declared
    <3> DEFINE n == Len(written)
    <3>4. n \in Nat
      BY <1>1
    <3> HIDE DEF Declared
    <3> QED  BY <3>3, <3>4, DeclaredIs
  <2> QED  BY <2>1 DEF LostGradesAreDeclared, DeclaredOf
<1> QED  BY <1>2, <1>3, <1>4, <1>5, <1>6 DEF ReadsInv

(* What a read holds stays lines as they were stored while records are     *)
(* added.                                                                  *)
LEMMA ReadStays ==
  ASSUME ReadShape, read' = read, Len(written) \in Nat, Len(written') \in Nat, Len(written) <= Len(written'),
         \A i \in 1..Len(written) : written'[i] = written[i]
  PROVE  ReadShape'
<1> SUFFICES ASSUME Answering PROVE ReadShape'
  BY DEF ReadShape, Answering
<1>1. /\ read.from \in 1..MaxEntries /\ read.end \in 0..Len(written)
      /\ read.entries \in Seq(LinesOf(read.entries))
      /\ \A i \in 1..Len(read.entries) : IsLine(read.entries[i], written)
                                         /\ read.entries[i].sequence \in read.from..read.end
  BY DEF ReadShape
<1>2. \A i \in 1..Len(read.entries) : IsLine(read.entries[i], written')
  BY <1>1, LineStays
<1>3. read.end \in 0..Len(written')
  BY <1>1
<1> QED  BY <1>1, <1>2, <1>3 DEF ReadShape

(* The conjuncts a step leaves alone, from the shapes of the next state.   *)
LEMMA ReadsTypeFollows ==
  ASSUME WrittenShape', ChainShape', Len(written') <= MaxEntries,
         graded' \in [Callers -> Grades \cup {"none"}], lost' \subseteq {"effect", "grade"},
         damage' \in 0..MaxDamage, read'.at \in {"idle", "range", "before"}
  PROVE  ReadsTypeOK'
<1>1. written' \in Seq(Written) /\ StoredAs(chain', written')
  BY DEF WrittenShape, ChainShape
<1>2. /\ \A i \in 1..Len(chain') :
            /\ chain'[i].sequence \in 1..MaxEntries
            /\ chain'[i].kind \in {"effect", "grade", "gap", "recovery"}
            /\ chain'[i].connection \in Callers \cup {Daemon}
      /\ Len(chain') <= Len(written')
  BY <1>1, ShapesType
<1> QED  BY <1>2 DEF ReadsTypeOK

LEMMA EmitEffectKeeps ==
  ASSUME ReadsInv, NEW c \in Callers, NEW p \in Policies, NEW g \in Evaluations, EmitEffect(c, p, g)
  PROVE  ReadsInv'
<1> DEFINE records == GradeRecords(c, g) \o <<Record("effect", c, Says(p))>>
<1>1. UnitOf(c, g, g # graded[c], records)
  BY EffectsUnit
<1>2. Recorded(records) /\ graded' = [graded EXCEPT ![c] = g] /\ damage' = damage /\ read' = read
  BY Zenon DEF EmitEffect
<1> HIDE DEF records
<1>3. /\ WrittenShape' /\ ChainShape' /\ LostGradesAreDeclared'
      /\ Len(written') \in Nat /\ Len(written) <= Len(written') /\ Len(written') <= MaxEntries
      /\ \A i \in 1..Len(written) : written'[i] = written[i]
      /\ graded' \in [Callers -> Grades \cup {"none"}]
      /\ lost' \subseteq {"effect", "grade"}
  BY <1>1, <1>2, Recording
<1>4. Len(written) \in Nat /\ ReadShape /\ ReadsTypeOK
  BY LenProperties DEF ReadsInv, WrittenShape
<1>5. ReadShape'
  BY <1>2, <1>3, <1>4, ReadStays
<1>6. ReadsTypeOK'
  <2>1. damage' \in 0..MaxDamage /\ read'.at \in {"idle", "range", "before"}
    BY <1>2, <1>4 DEF ReadsTypeOK
  <2> QED  BY <1>3, <2>1, ReadsTypeFollows
<1> QED  BY <1>3, <1>5, <1>6 DEF ReadsInv

LEMMA PrepareKeeps ==
  ASSUME ReadsInv, NEW c \in Callers, NEW g \in Evaluations, Prepare(c, g)
  PROVE  ReadsInv'
<1> DEFINE records == GradeRecords(c, g)
<1>1. UnitOf(c, g, g # graded[c], records)
  BY GradesUnit
<1>2. /\ Recorded(records) /\ graded' = [graded EXCEPT ![c] = g] /\ damage' = damage
      /\ read' = IF lost' = {} THEN [NoRead EXCEPT !.at = "range"] ELSE NoRead
  BY Zenon DEF Prepare
<1> HIDE DEF records
<1>3. /\ WrittenShape' /\ ChainShape' /\ LostGradesAreDeclared'
      /\ Len(written') <= MaxEntries
      /\ graded' \in [Callers -> Grades \cup {"none"}]
      /\ lost' \subseteq {"effect", "grade"}
  BY <1>1, <1>2, Recording
<1>4. read'.at \in {"idle", "range"}
  BY <1>2 DEF NoRead
<1>5. ReadShape'
  BY <1>4 DEF ReadShape, Answering
<1>6. ReadsTypeOK'
  <2>1. damage' \in 0..MaxDamage /\ read'.at \in {"idle", "range", "before"}
    BY <1>2, <1>4 DEF ReadsInv, ReadsTypeOK
  <2> QED  BY <1>3, <2>1, ReadsTypeFollows
<1> QED  BY <1>3, <1>5, <1>6 DEF ReadsInv

LEMMA CloseEpochKeeps ==
  ASSUME ReadsInv, NEW from, CloseEpoch(from)
  PROVE  ReadsInv'
<1> DEFINE marker == Record("recovery", Daemon, [NoBody EXCEPT !.from = from, !.through = Latest])
           n == Len(written)
<1>1. /\ from \in 1..Latest /\ n < MaxEntries
      /\ chain' = Appended(chain, marker) /\ written' = Append(written, marker)
      /\ graded' = graded /\ lost' = lost /\ damage' = damage /\ read' = read
  BY Zenon DEF CloseEpoch
<1>2. /\ written \in Seq(Written) /\ n \in Nat /\ StoredAs(chain, written)
      /\ (damage > 0 => ~Whole(chain, written)) /\ ReadsTypeOK /\ ReadShape
  BY LenProperties DEF ReadsInv, WrittenShape, ChainShape
<1>3. marker \in Written /\ marker.kind = "recovery"
  <2>1. Latest = n
    BY <1>2, LatestIs DEF Latest
  <2>2. from \in 0..MaxEntries /\ Latest \in 0..MaxEntries
    <3> HIDE DEF n
    <3> QED  BY <1>1, <1>2, <2>1, ReadsAssumption
  <2>3. [NoBody EXCEPT !.from = from, !.through = Latest] \in Bodies
    BY <2>2 DEF NoBody, Bodies
  <2> QED  BY <2>3 DEF Record, Written
<1> HIDE DEF marker
<1>4. /\ written' \in Seq(Written) /\ Len(written') = n + 1
      /\ \A i \in 1..n : written'[i] = written[i]
      /\ written'[n + 1] = marker
  BY <1>1, <1>2, <1>3, AppendProperties
<1>5. WrittenShape'
  <2>1. \A i \in 1..n : /\ written[i].kind = "grade" => written[i].body.says \in Evaluations
                        /\ written[i].kind = "effect" => written[i].body.says \in Policies
    BY DEF ReadsInv, WrittenShape
  <2> HIDE DEF n
  <2>2. \A i \in 1..(n + 1) : i \in 1..n \/ i = n + 1
    BY <1>2
  <2>3. \A i \in 1..(n + 1) : /\ written'[i].kind = "grade" => written'[i].body.says \in Evaluations
                              /\ written'[i].kind = "effect" => written'[i].body.says \in Policies
    BY <1>3, <1>4, <2>1, <2>2
  <2> QED  BY <1>4, <2>3 DEF WrittenShape
<1>6. ChainShape'
  <2>1. /\ StoredAs(Appended(chain, marker), Append(written, marker))
        /\ Whole(Appended(chain, marker), Append(written, marker)) => Whole(chain, written)
    BY <1>2, <1>3, AppendedKeeps
  <2>2. StoredAs(chain', written') /\ (Whole(chain', written') => Whole(chain, written))
    BY <1>1, <2>1
  <2> QED  BY <1>1, <1>2, <2>2 DEF ChainShape
<1>7. Len(written') \in Nat /\ n <= Len(written') /\ Len(written') <= MaxEntries
  <2> HIDE DEF n
  <2> QED  BY <1>1, <1>2, <1>4, ReadsAssumption
<1>8. ReadShape'
  BY <1>1, <1>2, <1>4, <1>7, ReadStays
<1>9. ReadsTypeOK'
  <2>1. /\ damage' \in 0..MaxDamage /\ read'.at \in {"idle", "range", "before"}
        /\ graded' \in [Callers -> Grades \cup {"none"}] /\ lost' \subseteq {"effect", "grade"}
    BY <1>1, <1>2 DEF ReadsTypeOK
  <2> QED  BY <1>5, <1>6, <1>7, <2>1, ReadsTypeFollows
<1>10. LostGradesAreDeclared'
  <2> DEFINE k == Len(written')
  <2>1. k \in Nat /\ k = n + 1
    BY <1>4, <1>7
  <2> HIDE DEF k, n
  <2>2. ASSUME NEW d \in Callers PROVE DeclaredOf(written', graded'[d], lost', d)
    <3>1. Declared(written, graded[d], lost, d)
      BY <1>2, DeclaredIs DEF ReadsInv, LostGradesAreDeclared, DeclaredOf, n
    <3>2. \A i \in (n + 1)..(n + 1) : ~ (written'[i].kind = "grade" /\ written'[i].connection = d)
      BY <1>2, <1>3, <1>4
    <3>3. n = Len(written) /\ Len(written') = n + 1 /\ 1 \in Nat
      BY <1>4 DEF n
    <3> HIDE DEF Declared
    <3>4. Declared(written', graded[d], lost', d)
      <4>1. "grade" \in lost => \/ "grade" \in lost'
                                \/ 1 > 0 /\ written'[n + 1].kind = "gap" /\ "grade" \in written'[n + 1].body.kinds
        BY <1>1
      <4>2. n \in Nat /\ \A i \in 1..n : written'[i] = written[i]
        BY <1>2, <1>4
      <4> QED  BY <3>1, <3>2, <3>3, <4>1, <4>2, DeclaredStays DEF Longer, UntoldIn, LossGoesOn
    <3>5. Declared(written', graded'[d], lost', d)
      BY <1>1, <3>4
    <3>6. k = Len(written')
      BY DEF k
    <3> QED  BY <2>1, <3>5, <3>6, DeclaredIs, Zenon
  <2> QED  BY <2>2 DEF LostGradesAreDeclared, DeclaredOf
<1> QED  BY <1>5, <1>6, <1>8, <1>9, <1>10 DEF ReadsInv

(* Damage disturbs the chain only, and shows.                              *)
LEMMA DamageKeeps ==
  ASSUME ReadsInv, damage < MaxDamage, damage' = damage + 1, StoredAs(chain', written), ~Whole(chain', written),
         written' = written, graded' = graded, lost' = lost, read' = read
  PROVE  ReadsInv'
<1>1. WrittenShape' /\ LostGradesAreDeclared'
  BY DEF ReadsInv, WrittenShape, LostGradesAreDeclared
<1>2. ChainShape'
  BY DEF ChainShape
<1>3. ReadShape'
  BY DEF ReadsInv, ReadShape, Answering
<1>4. ReadsTypeOK'
  <2>1. /\ Len(written') <= MaxEntries /\ graded' \in [Callers -> Grades \cup {"none"}]
        /\ lost' \subseteq {"effect", "grade"} /\ read'.at \in {"idle", "range", "before"}
    BY DEF ReadsInv, ReadsTypeOK
  <2>2. damage' \in 0..MaxDamage
    BY ReadsAssumption DEF ReadsInv, ReadsTypeOK
  <2> QED  BY <1>1, <1>2, <2>1, <2>2, ReadsTypeFollows
<1> QED  BY <1>1, <1>2, <1>3, <1>4 DEF ReadsInv

LEMMA EditedKeepsInv ==
  ASSUME ReadsInv, NEW i \in 1..Len(chain), Edited(i)
  PROVE  ReadsInv'
<1>1. /\ damage < MaxDamage /\ damage' = damage + 1
      /\ written' = written /\ graded' = graded /\ lost' = lost /\ read' = read
  BY DEF Edited
<1>2. PICK entry \in Edits(chain[i]) : chain' = [chain EXCEPT ![i] = entry]
  BY DEF Edited
<1>3. /\ written \in Seq(Written) /\ StoredAs(chain, written)
      /\ \A s \in 1..Len(written) :
            /\ written[s].kind = "grade" => written[s].body.says \in Evaluations
            /\ written[s].kind = "effect" => written[s].body.says \in Policies
  BY DEF ReadsInv, WrittenShape, ChainShape
<1>4. StoredAs(chain', written) /\ ~Whole(chain', written)
  BY <1>2, <1>3, EditedKeeps
<1> QED  BY <1>1, <1>4, DamageKeeps

LEMMA RemovedKeepsInv ==
  ASSUME ReadsInv, NEW i \in 1..Len(chain), Removed(i)
  PROVE  ReadsInv'
<1>1. /\ damage < MaxDamage /\ damage' = damage + 1 /\ i < Len(chain)
      /\ chain' = SubSeq(chain, 1, i - 1) \o SubSeq(chain, i + 1, Len(chain))
      /\ written' = written /\ graded' = graded /\ lost' = lost /\ read' = read
  BY DEF Removed
<1>2. written \in Seq(Written) /\ StoredAs(chain, written)
  BY DEF ReadsInv, WrittenShape, ChainShape
<1>3. PICK n \in Nat : n = Len(chain)
  BY <1>2, OrderedLines
<1> DEFINE left == SubSeq(chain, 1, i - 1) \o SubSeq(chain, i + 1, n)
<1>4. /\ left \in Seq(LinesOf(chain)) /\ Len(left) = n - 1
      /\ \A j \in 1..(n - 1) : left[j] = IF j < i THEN chain[j] ELSE chain[j + 1]
  <2>1. chain \in Seq(LinesOf(chain)) /\ i \in 1..n
    BY <1>2, <1>3, OrderedLines
  <2> QED  BY <1>3, <2>1, WithoutOne
<1>5. chain' = left
  BY <1>1, <1>3
<1> HIDE DEF left
<1>6. StoredAs(left, written) /\ ~Whole(left, written)
  BY <1>1, <1>2, <1>3, <1>4, RemovedKeeps
<1> QED  BY <1>1, <1>5, <1>6, DamageKeeps

LEMMA ReadRangeKeeps ==
  ASSUME ReadsInv, NEW from \in 1..MaxEntries, ReadRange(from)
  PROVE  ReadsInv'
<1> DEFINE end == IF from > Latest THEN 0 ELSE Least(Latest, from + PageBound - 1)
           next == IF end # 0 /\ end < Latest THEN end + 1 ELSE 0
           r == InRange(chain, from, end)
<1>1. /\ read' = [at |-> "before", from |-> from, end |-> end, next |-> next, entries |-> r]
      /\ chain' = chain /\ written' = written /\ graded' = graded /\ lost' = lost /\ damage' = damage
  BY Zenon DEF ReadRange
<1>2. written \in Seq(Written) /\ StoredAs(chain, written)
  BY DEF ReadsInv, WrittenShape, ChainShape
<1>3. Latest = Len(written) /\ Len(written) \in Nat
  BY <1>2, LatestIs DEF Latest
<1>4. end \in 0..Len(written)
  BY <1>3, ReadsAssumption DEF Least
<1> HIDE DEF end, next
<1>5. /\ r \in Seq(LinesOf(r)) /\ Len(r) \in Nat
      /\ \A i \in 1..Len(r) : /\ IsLine(r[i], written) /\ r[i].sequence \in Nat
                              /\ from <= r[i].sequence /\ r[i].sequence <= end
  <2>1. from \in Int /\ end \in Int
    BY <1>4, ReadsAssumption
  <2> QED  BY <1>2, <2>1, RangeLines
<1> HIDE DEF r
<1>6. read'.at = "before" /\ read'.from = from /\ read'.end = end /\ read'.entries = r
  BY <1>1
<1>7. ReadShape'
  <2>1. \A i \in 1..Len(r) : IsLine(r[i], written) /\ r[i].sequence \in from..end
    BY <1>4, <1>5, ReadsAssumption
  <2> QED  BY <1>1, <1>4, <1>5, <1>6, <2>1 DEF ReadShape
<1>8. WrittenShape' /\ ChainShape' /\ LostGradesAreDeclared'
  BY <1>1 DEF ReadsInv, WrittenShape, ChainShape, LostGradesAreDeclared
<1>9. ReadsTypeOK'
  BY <1>1, <1>6 DEF ReadsInv, ReadsTypeOK
<1> QED  BY <1>7, <1>8, <1>9 DEF ReadsInv

LEMMA ReadEndsKeeps ==
  ASSUME ReadsInv, ReadEnds
  PROVE  ReadsInv'
<1>1. /\ read' = NoRead
      /\ chain' = chain /\ written' = written /\ graded' = graded /\ lost' = lost /\ damage' = damage
  BY DEF ReadEnds
<1>2. ReadShape'
  BY <1>1 DEF ReadShape, Answering, NoRead
<1>3. WrittenShape' /\ ChainShape' /\ LostGradesAreDeclared'
  BY <1>1 DEF ReadsInv, WrittenShape, ChainShape, LostGradesAreDeclared
<1>4. ReadsTypeOK'
  BY <1>1 DEF ReadsInv, ReadsTypeOK, NoRead
<1> QED  BY <1>2, <1>3, <1>4 DEF ReadsInv

LEMMA ReadsStutterKeeps ==
  ASSUME ReadsInv, UNCHANGED readsVars
  PROVE  ReadsInv'
<1>1. chain' = chain /\ written' = written /\ graded' = graded /\ lost' = lost /\ damage' = damage /\ read' = read
  BY DEF readsVars
<1>2. ReadShape'
  BY <1>1 DEF ReadsInv, ReadShape, Answering
<1>3. WrittenShape' /\ ChainShape' /\ LostGradesAreDeclared'
  BY <1>1 DEF ReadsInv, WrittenShape, ChainShape, LostGradesAreDeclared
<1>4. ReadsTypeOK'
  BY <1>1 DEF ReadsInv, ReadsTypeOK
<1> QED  BY <1>2, <1>3, <1>4 DEF ReadsInv

(***************************************************************************)
(* What is stored is what was recorded but for what damage did to it, and  *)
(* damage shows in a line, whatever is recorded and read meanwhile.        *)
(***************************************************************************)
THEOREM ReadsAreShaped == ReadsSpec => []ReadsInv
<1>1. ReadsInit => ReadsInv
  BY ReadsInit_Inv
<1>2. ReadsInv /\ [ReadsNext]_readsVars => ReadsInv'
  <2> SUFFICES ASSUME ReadsInv, [ReadsNext]_readsVars PROVE ReadsInv'
    OBVIOUS
  <2>1. CASE UNCHANGED readsVars
    BY <2>1, ReadsStutterKeeps
  <2>2. ASSUME NEW c \in Callers, NEW p \in Policies, NEW g \in Evaluations, EmitEffect(c, p, g) PROVE ReadsInv'
    BY <2>2, EmitEffectKeeps
  <2>3. CASE CloseEpoch(1)
    BY <2>3, CloseEpochKeeps
  <2>4. ASSUME NEW i \in 1..Len(chain), Edited(i) PROVE ReadsInv'
    BY <2>4, EditedKeepsInv
  <2>5. ASSUME NEW i \in 1..Len(chain), Removed(i) PROVE ReadsInv'
    BY <2>5, RemovedKeepsInv
  <2>6. ASSUME NEW c \in Callers, NEW g \in Evaluations, Prepare(c, g) PROVE ReadsInv'
    BY <2>6, PrepareKeeps
  <2>7. ASSUME NEW from \in 1..MaxEntries, ReadRange(from) PROVE ReadsInv'
    BY <2>7, ReadRangeKeeps
  <2>8. CASE ReadEnds
    BY <2>8, ReadEndsKeeps
  <2> QED  BY <2>1, <2>2, <2>3, <2>4, <2>5, <2>6, <2>7, <2>8, Zenon DEF ReadsNext
<1> QED  BY <1>1, <1>2, PTL DEF ReadsSpec

(* What an intact verdict says of the entries it was given for.            *)
LEMMA IntactMeans ==
  ASSUME NEW entries, NEW n \in Nat, n = Len(entries), NEW from, NEW to, NEW before,
         verify(entries, from, to, before).condition = "intact"
  PROVE  /\ n # 0 /\ entries[1].sequence = from
         /\ \A i \in 2..n : entries[i].sequence = entries[i - 1].sequence + 1
         /\ to = 0 \/ ~ (entries[n].sequence < to)
         /\ \A i \in 1..n : entry_verifies(entries[i])
         /\ verify(entries, from, to, before).grades = grades_of(SubSeq(entries, 1, n), before)
<1> DEFINE holes == {i \in 2..n : entries[i].sequence # entries[i - 1].sequence + 1}
           unfit == {i \in 1..n : ~entry_verifies(entries[i])}
           unlinked == {i \in 2..n : entries[i].previous # entries[i - 1].hash}
           Finds(condition, place, i) == Verdict(entries, condition, place, SubSeq(entries, 1, i), before)
           v == verify(entries, from, to, before)
<1>1. v = IF n = 0 THEN Finds(IF to = 0 THEN "unverifiable" ELSE "gap_at", from, 0)
          ELSE IF entries[1].sequence # from THEN Finds("gap_at", from, 0)
          ELSE IF holes # {}
          THEN LET i == Min(holes) IN Finds("gap_at", entries[i - 1].sequence + 1, i - 1)
          ELSE IF to # 0 /\ entries[n].sequence < to THEN Finds("gap_at", entries[n].sequence + 1, n)
          ELSE IF unfit # {}
          THEN LET i == Min(unfit)
               IN  Finds(IF entries[i].version # Version THEN "unverifiable" ELSE "broken_at",
                      entries[i].sequence, i - 1)
          ELSE IF unlinked # {}
          THEN LET i == Min(unlinked) IN Finds("broken_at", entries[i].sequence, i - 1)
          ELSE Finds("intact", 0, n)
  BY Zenon DEF verify
<1>2. \A condition, place, i : Finds(condition, place, i).condition = condition
  BY DEF Verdict
<1>3. Finds("intact", 0, n).grades = grades_of(SubSeq(entries, 1, n), before)
  BY DEF Verdict
<1>4. v.condition = "intact"
  OBVIOUS
<1> HIDE DEF v, Finds, holes, unfit, unlinked
<1>5. n # 0
  BY <1>1, <1>2, <1>4
<1>6. entries[1].sequence = from
  BY <1>1, <1>2, <1>4, <1>5
<1>7. holes = {}
  BY <1>1, <1>2, <1>4, <1>5, <1>6
<1>8. ~ (to # 0 /\ entries[n].sequence < to)
  BY <1>1, <1>2, <1>4, <1>5, <1>6, <1>7
<1>9. unfit = {}
  BY <1>1, <1>2, <1>4, <1>5, <1>6, <1>7, <1>8
<1>10. unlinked = {}
  BY <1>1, <1>2, <1>4, <1>5, <1>6, <1>7, <1>8, <1>9
<1>11. v = Finds("intact", 0, n)
  BY <1>1, <1>5, <1>6, <1>7, <1>8, <1>9, <1>10
<1>12. \A i \in 2..n : entries[i].sequence = entries[i - 1].sequence + 1
  BY <1>7 DEF holes
<1>13. \A i \in 1..n : entry_verifies(entries[i])
  BY <1>9 DEF unfit
<1> QED  BY <1>3, <1>5, <1>6, <1>8, <1>11, <1>12, <1>13 DEF v

(* Entries without a hole are numbered from the first one.                 *)
Unbroken(entries, n, from) ==
  /\ n # 0 /\ entries[1].sequence = from
  /\ \A i \in 2..n : entries[i].sequence = entries[i - 1].sequence + 1

LEMMA Consecutive ==
  ASSUME NEW entries, NEW n \in Nat, NEW from \in Nat, Unbroken(entries, n, from)
  PROVE  \A i \in 1..n : entries[i].sequence = from + i - 1
<1>0. /\ n # 0 /\ entries[1].sequence = from
      /\ \A i \in 2..n : entries[i].sequence = entries[i - 1].sequence + 1
  BY DEF Unbroken
<1> DEFINE bad == {i \in 1..n : entries[i].sequence # from + i - 1}
           b == Min(bad)
<1>1. SUFFICES ASSUME bad # {} PROVE FALSE
  OBVIOUS
<1>2. bad \in SUBSET Nat /\ 1 \notin bad
  BY <1>0
<1>3. \A i \in 1..n : i \in bad <=> entries[i].sequence # from + i - 1
  OBVIOUS
<1>4. bad \subseteq 1..n
  OBVIOUS
<1> HIDE DEF bad
<1>5. b \in bad /\ \A i \in bad : b <= i
  BY <1>1, <1>2, LeastOf
<1> HIDE DEF b
<1>6. b \in 2..n /\ b - 1 \in 1..n
  BY <1>2, <1>4, <1>5
<1>7. entries[b - 1].sequence = from + (b - 1) - 1
  <2>1. b - 1 \notin bad
    BY <1>5, <1>6
  <2> QED  BY <1>3, <1>6, <2>1
<1>8. entries[b].sequence = from + b - 1
  BY <1>0, <1>6, <1>7
<1> QED  BY <1>3, <1>5, <1>6, <1>8

(* Lines of a range that verify as intact are all of its records.          *)
LinesIn(lines, records, from, to) ==
  \A i \in 1..Len(lines) : /\ IsLine(lines[i], records) /\ lines[i].sequence \in Nat
                           /\ from <= lines[i].sequence /\ lines[i].sequence <= to

\* The lines are the records from one sequence to another.
AllOf(lines, records, from, to) ==
  /\ Len(lines) # 0 /\ Len(lines) = to - from + 1 /\ from <= to /\ to # 0
  /\ \A i \in 1..Len(lines) : /\ lines[i].sequence = from + i - 1
                               /\ from + i - 1 \in 1..Len(records)
                               /\ entry_verifies(lines[i])
                               /\ RecordOf(lines[i]) = records[from + i - 1]
                               /\ lines[i].kind = records[from + i - 1].kind
                               /\ lines[i].connection = records[from + i - 1].connection
                               /\ lines[i].body = records[from + i - 1].body

LEMMA IntactRange ==
  ASSUME NEW records \in Seq(Written), NEW lines, Len(lines) \in Nat,
         NEW from \in Nat \ {0}, NEW to \in Nat, to <= Len(records), NEW before,
         LinesIn(lines, records, from, to),
         verify(lines, from, to, before).condition = "intact"
  PROVE  /\ AllOf(lines, records, from, to)
         /\ verify(lines, from, to, before).grades = grades_of(SubSeq(lines, 1, Len(lines)), before)
<1>0. PICK n \in Nat : n = Len(lines)
  OBVIOUS
<1>0a. \A i \in 1..n : IsLine(lines[i], records) /\ lines[i].sequence \in Nat
                        /\ from <= lines[i].sequence /\ lines[i].sequence <= to
  BY <1>0 DEF LinesIn
<1>1. /\ n # 0 /\ lines[1].sequence = from
      /\ \A i \in 2..n : lines[i].sequence = lines[i - 1].sequence + 1
      /\ to = 0 \/ ~ (lines[n].sequence < to)
      /\ \A i \in 1..n : entry_verifies(lines[i])
      /\ verify(lines, from, to, before).grades = grades_of(SubSeq(lines, 1, n), before)
  BY <1>0, IntactMeans
<1>2. \A i \in 1..n : lines[i].sequence = from + i - 1
  <2>1. Unbroken(lines, n, from)
    BY <1>1 DEF Unbroken
  <2> QED  BY <2>1, Consecutive
<1>3. Len(records) \in Nat
  BY LenProperties
<1>4. to # 0 /\ from <= to /\ n = to - from + 1
  <2>1. n \in 1..n
    BY <1>1
  <2>2. lines[n].sequence = from + n - 1 /\ lines[n].sequence <= to
    BY <1>0a, <1>2, <2>1
  <2>3. to # 0
    BY <1>1, <2>2
  <2> QED  BY <1>1, <2>2, <2>3
<1>5. \A i \in 1..n : from + i - 1 \in 1..Len(records)
  <2> DEFINE k == Len(records)
  <2>1. k \in Nat /\ to <= k
    BY <1>3
  <2> HIDE DEF k
  <2>2. \A i \in 1..n : from + i - 1 \in 1..k
    BY <1>4, <2>1
  <2> QED  BY <2>2 DEF k
<1>6. ASSUME NEW i \in 1..n
      PROVE  /\ lines[i].kind = records[from + i - 1].kind
             /\ lines[i].connection = records[from + i - 1].connection
             /\ lines[i].body = records[from + i - 1].body
             /\ RecordOf(lines[i]) = records[from + i - 1]
  <2> DEFINE e == lines[i]
             s == from + i - 1
  <2>1. e.sequence = s /\ s \in 1..Len(records) /\ IsLine(e, records) /\ entry_verifies(e)
    BY <1>0a, <1>1, <1>2, <1>5
  <2> HIDE DEF e, s
  <2>2. e.kind = records[s].kind /\ e.connection = records[s].connection /\ e.body = records[s].body
    BY <2>1, VerifiedLine
  <2>3. records[s] \in Written
    BY <2>1, ElementOfSeq
  <2>4. records[s] = [kind |-> records[s].kind, connection |-> records[s].connection, body |-> records[s].body]
    BY <2>3, RecordIsOne
  <2>5. RecordOf(e) = records[s]
    BY <2>2, <2>4 DEF RecordOf, Record
  <2> QED  BY <2>2, <2>5 DEF e, s
<1> QED  BY <1>0, <1>1, <1>2, <1>4, <1>5, <1>6 DEF AllOf

LEMMA IntactPage ==
  ASSUME ReadsInv
  PROVE  IntactIsAsWritten
<1> SUFFICES ASSUME Answering, Page.verdict.condition = "intact"
             PROVE  /\ [i \in 1..Len(Page.entries) |-> RecordOf(Page.entries[i])]
                          = SubSeq(written, Page.from, Page.to)
                    /\ \A i \in 1..Len(Page.entries) : Page.entries[i].sequence = Page.from + i - 1
  BY Zenon DEF IntactIsAsWritten
<1> DEFINE from == read.from
           to == read.end
           entries == read.entries
           before == GradesBefore(chain, from)
<1>1. Page.from = from /\ Page.to = to /\ Page.entries = entries /\ Page.verdict = verify(entries, from, to, before)
  BY DEF Page
<1>2. /\ from \in 1..MaxEntries /\ to \in 0..Len(written) /\ entries \in Seq(LinesOf(entries))
      /\ \A i \in 1..Len(entries) : IsLine(entries[i], written) /\ entries[i].sequence \in from..to
  BY DEF ReadsInv, ReadShape
<1>3. written \in Seq(Written) /\ Len(written) \in Nat
  BY LenProperties DEF ReadsInv, WrittenShape
<1>4. PICK n \in Nat : n = Len(entries)
  BY <1>2, LenProperties
<1> HIDE DEF from, to, entries, before
<1>5. from \in Nat \ {0} /\ to \in Nat /\ to <= Len(written)
  BY <1>2, <1>3, ReadsAssumption
<1>6. \A i \in 1..n : /\ IsLine(entries[i], written) /\ entries[i].sequence \in Nat
                      /\ from <= entries[i].sequence /\ entries[i].sequence <= to
  BY <1>2, <1>4, <1>5
<1>7. verify(entries, from, to, before).condition = "intact"
  BY <1>1
<1>8. /\ n # 0 /\ n = to - from + 1 /\ from <= to
      /\ \A i \in 1..n : /\ entries[i].sequence = from + i - 1
                         /\ from + i - 1 \in 1..Len(written)
                         /\ RecordOf(entries[i]) = written[from + i - 1]
  <2>1. LinesIn(entries, written, from, to)
    BY <1>4, <1>6 DEF LinesIn
  <2>2. AllOf(entries, written, from, to)
    BY <1>3, <1>4, <1>5, <1>7, <2>1, IntactRange
  <2> QED  BY <1>4, <2>2 DEF AllOf
<1> DEFINE f == [i \in 1..n |-> RecordOf(entries[i])]
           w == SubSeq(written, from, to)
<1>9. \A i \in 1..n : RecordOf(entries[i]) \in Written
  BY <1>3, <1>8, ElementOfSeq
<1>10. f \in Seq(Written) /\ Len(f) = n /\ \A i \in 1..n : f[i] = written[from + i - 1]
  <2>1. f \in [1..n -> Written]
    BY <1>9
  <2>2. f \in Seq(Written)
    BY <2>1, SeqDef
  <2>3. DOMAIN f = 1..n
    OBVIOUS
  <2>4. Len(f) = n
    BY <2>2, <2>3, LenProperties
  <2> QED  BY <1>8, <2>2, <2>4
<1>11. w \in Seq(Written) /\ Len(w) = n /\ \A i \in 1..n : w[i] = written[from + i - 1]
  <2> DEFINE k == Len(written)
  <2>1. k \in Nat /\ k = Len(written) /\ to <= k
    BY <1>3, <1>5
  <2> HIDE DEF k
  <2>2. from \in 1..(k + 1) /\ to \in 0..k /\ from <= to + 1
    BY <1>5, <1>8, <2>1
  <2>3. w \in Seq(Written) /\ Len(w) = to - from + 1 /\ \A i \in 1..(to - from + 1) : w[i] = written[from + i - 1]
    BY <1>3, <2>1, <2>2, SliceProperties
  <2> QED  BY <1>8, <2>3
<1> HIDE DEF f, w
<1>12. f = w
  <2>1. \A i \in 1..Len(f) : f[i] = w[i]
    BY <1>10, <1>11
  <2> QED  BY <1>10, <1>11, <2>1, SeqEqual
<1>13. [i \in 1..Len(Page.entries) |-> RecordOf(Page.entries[i])] = f
  BY <1>1, <1>4 DEF f
<1>14. SubSeq(written, Page.from, Page.to) = w
  BY <1>1 DEF w
<1> QED  BY <1>1, <1>4, <1>8, <1>12, <1>13, <1>14

LEMMA VisibleDamage ==
  ASSUME ReadsInv
  PROVE  DamageStaysVisible
<1> SUFFICES ASSUME damage > 0, verify(chain, 1, Latest, <<>>).condition = "intact"
             PROVE  FALSE
  BY Zenon DEF DamageStaysVisible
<1>1. written \in Seq(Written) /\ StoredAs(chain, written) /\ ~Whole(chain, written)
  BY DEF ReadsInv, WrittenShape, ChainShape
<1>2. Latest = Len(written) /\ Len(written) \in Nat
  BY <1>1, LatestIs DEF Latest
<1>3. PICK n \in Nat : n = Len(chain)
  BY <1>1, OrderedLines
<1>4. \A i \in 1..n : IsLine(chain[i], written) /\ chain[i].sequence \in 1..Len(written)
  BY <1>1, <1>3, OrderedLines
<1>5. 1 \in Nat \ {0} /\ Latest \in Nat /\ Latest <= Len(written)
  BY <1>2
<1>6. \A i \in 1..n : IsLine(chain[i], written) /\ chain[i].sequence \in Nat
                      /\ 1 <= chain[i].sequence /\ chain[i].sequence <= Latest
  BY <1>2, <1>4
<1>7. n = Latest - 1 + 1 /\ \A i \in 1..n : entry_verifies(chain[i])
  <2>1. LinesIn(chain, written, 1, Latest)
    BY <1>3, <1>6 DEF LinesIn
  <2>2. AllOf(chain, written, 1, Latest)
    BY <1>1, <1>3, <1>5, <2>1, IntactRange
  <2> QED  BY <1>3, <2>2 DEF AllOf
<1>8. Len(chain) = Len(written)
  BY <1>2, <1>3, <1>7
<1> QED  BY <1>1, <1>3, <1>7, <1>8 DEF Whole

(***************************************************************************)
(* DamageIsSeen: a page or a chain that verifies holds what was recorded.  *)
(***************************************************************************)
THEOREM DamageDoesShow == ReadsSpec => []DamageIsSeen
<1>1. ReadsInv => DamageIsSeen
  BY IntactPage, VisibleDamage DEF DamageIsSeen, ReadsInv
<1> QED  BY <1>1, ReadsAreShaped, PTL

LEMMA RankIs ==
  ASSUME NEW g
  PROVE  Rank(g) \in 0..2 /\ (g = "unverified" => Rank(g) = 0)
BY DEF Rank

(* The weakest of some grades is one of them.                              *)
LEMMA WeakestIs ==
  ASSUME NEW A, A # {}
  PROVE  weakest(A) \in A /\ \A h \in A : Rank(weakest(A)) <= Rank(h)
<1>1. \A g \in A : Rank(g) \in 0..2
  BY RankIs
<1>2. \E g \in A : \A h \in A : Rank(g) <= Rank(h)
  <2>1. CASE \E g \in A : Rank(g) = 0
    BY <1>1, <2>1
  <2>2. CASE (\A g \in A : Rank(g) # 0) /\ \E g \in A : Rank(g) = 1
    <3>1. \A h \in A : 1 <= Rank(h)
      BY <1>1, <2>2
    <3> QED  BY <2>2, <3>1
  <2>3. CASE \A g \in A : Rank(g) # 0 /\ Rank(g) # 1
    <3>1. \A h \in A : Rank(h) = 2
      BY <1>1, <2>3
    <3> QED  BY <3>1
  <2> QED  BY <2>1, <2>2, <2>3
<1> DEFINE P(g) == \A h \in A : Rank(g) <= Rank(h)
<1>3. weakest(A) = CHOOSE g \in A : P(g)
  BY Zenon DEF weakest
<1>4. \E g \in A : P(g)
  BY <1>2
<1> HIDE DEF P
<1>5. weakest(A) \in A /\ P(weakest(A))
  BY <1>3, <1>4, Zenon
<1> QED  BY <1>5 DEF P

(* Lines and records that say the same, hashes aside.                      *)
SaySame(E, W) ==
  /\ Len(E) = Len(W)
  /\ \A i \in 1..Len(E) : E[i].kind = W[i].kind /\ E[i].connection = W[i].connection /\ E[i].body = W[i].body

LEMMA SameStanding ==
  ASSUME NEW E, NEW W, Len(E) \in Nat, SaySame(E, W), NEW before, NEW old, NEW c,
         NEW i \in 0..Len(E),
         Rank(IF c \in DOMAIN before THEN before[c] ELSE "unverified")
           <= Rank(IF c \in DOMAIN old THEN old[c] ELSE "unverified")
  PROVE  Rank(Standing(E, before, c, i)) <= Rank(Standing(W, old, c, i))
<1>1. PICK n \in Nat : n = Len(E)
  OBVIOUS
<1>2. /\ i \in 0..n
      /\ \A j \in 1..n : E[j].kind = W[j].kind /\ E[j].connection = W[j].connection /\ E[j].body = W[j].body
  BY <1>1 DEF SaySame
<1> DEFINE told == {j \in 1..i : E[j].kind = "grade" /\ E[j].connection = c}
           toldW == {j \in 1..i : W[j].kind = "grade" /\ W[j].connection = c}
<1>3. \A j \in 1..i : j \in 1..n
  BY <1>2
<1>4. told = toldW
  BY <1>2, <1>3
<1>5. told \in SUBSET (0..i) /\ told \subseteq 1..n
  BY <1>3
<1>6. Standing(E, before, c, i) = IF told # {} THEN E[Max(told)].body.says
                                  ELSE IF c \in DOMAIN before THEN before[c] ELSE "unverified"
  BY Zenon DEF Standing
<1>7. Standing(W, old, c, i) = IF toldW # {} THEN W[Max(toldW)].body.says
                               ELSE IF c \in DOMAIN old THEN old[c] ELSE "unverified"
  BY Zenon DEF Standing
<1> HIDE DEF told, toldW
<1>8. CASE told # {}
  <2>1. Max(told) \in told
    <3>1. i \in Nat
      BY <1>2
    <3> QED  BY <1>5, <1>8, <3>1, GreatestOf
  <2>2. Max(told) \in 1..n
    BY <1>5, <2>1
  <2>3. E[Max(told)].body = W[Max(told)].body
    BY <1>2, <2>2
  <2>4. Standing(E, before, c, i) = Standing(W, old, c, i)
    BY <1>4, <1>6, <1>7, <1>8, <2>3
  <2>5. Rank(Standing(E, before, c, i)) \in 0..2
    BY RankIs
  <2> QED  BY <2>4, <2>5
<1>9. CASE told = {}
  BY <1>4, <1>6, <1>7, <1>9
<1> QED  BY <1>8, <1>9

LEMMA SameLast ==
  ASSUME NEW E, NEW W, Len(E) \in Nat, SaySame(E, W)
  PROVE  LastGrades(E) = LastGrades(W)
<1>1. PICK n \in Nat : n = Len(E)
  OBVIOUS
<1>2. /\ Len(W) = n
      /\ \A j \in 1..n : E[j].kind = W[j].kind /\ E[j].connection = W[j].connection /\ E[j].body = W[j].body
  BY <1>1 DEF SaySame
<1> DEFINE D == {E[i].connection : i \in {j \in 1..n : E[j].kind = "grade"}}
           DW == {W[i].connection : i \in {j \in 1..n : W[j].kind = "grade"}}
<1>3. D = DW
  BY <1>2
<1>4. ASSUME NEW c \in D PROVE Standing(E, <<>>, c, n) = Standing(W, <<>>, c, n)
  <2> DEFINE told == {j \in 1..n : E[j].kind = "grade" /\ E[j].connection = c}
             toldW == {j \in 1..n : W[j].kind = "grade" /\ W[j].connection = c}
             before == <<>>
  <2>1. told = toldW
    BY <1>2
  <2>2. told \in SUBSET (0..n) /\ told \subseteq 1..n /\ told # {}
    OBVIOUS
  <2>3. /\ Standing(E, before, c, n) = IF told # {} THEN E[Max(told)].body.says
                                       ELSE IF c \in DOMAIN before THEN before[c] ELSE "unverified"
        /\ Standing(W, before, c, n) = IF toldW # {} THEN W[Max(toldW)].body.says
                                       ELSE IF c \in DOMAIN before THEN before[c] ELSE "unverified"
    BY Zenon DEF Standing
  <2> HIDE DEF told, toldW, before
  <2>4. Max(told) \in 1..n
    BY <2>2, GreatestOf
  <2>5. E[Max(told)].body = W[Max(told)].body
    BY <1>2, <2>4
  <2>6. Standing(E, before, c, n) = Standing(W, before, c, n)
    BY <2>1, <2>2, <2>3, <2>5
  <2> QED  BY <2>6 DEF before
<1>5. LastGrades(E) = [c \in D |-> Standing(E, <<>>, c, n)]
  BY <1>1 DEF LastGrades
<1>6. LastGrades(W) = [c \in DW |-> Standing(W, <<>>, c, n)]
  BY <1>2 DEF LastGrades
<1> HIDE DEF D, DW
<1> QED  BY <1>3, <1>4, <1>5, <1>6

(* A page that verifies states no grade above the recorded ones.           *)
LEMMA SameGrades ==
  ASSUME NEW E, NEW W, Len(E) \in Nat, SaySame(E, W), NEW before, NEW old,
         \A c : Rank(IF c \in DOMAIN before THEN before[c] ELSE "unverified")
                  <= Rank(IF c \in DOMAIN old THEN old[c] ELSE "unverified")
  PROVE  \A c \in DOMAIN grades_of(E, before) : Rank(grades_of(E, before)[c]) <= Rank(grades_of(W, old)[c])
<1>1. PICK n \in Nat : n = Len(E)
  OBVIOUS
<1>2. /\ Len(W) = n
      /\ \A j \in 1..n : E[j].kind = W[j].kind /\ E[j].connection = W[j].connection /\ E[j].body = W[j].body
  BY <1>1 DEF SaySame
<1>3. Connections(E) = {E[i].connection : i \in 1..n} /\ Connections(W) = {W[i].connection : i \in 1..n}
  BY <1>1, <1>2 DEF Connections
<1>4. Connections(E) = Connections(W)
  BY <1>2, <1>3
<1> SUFFICES ASSUME NEW c \in Connections(E)
             PROVE  Rank(grades_of(E, before)[c]) <= Rank(grades_of(W, old)[c])
  BY DEF grades_of
<1> DEFINE I == {j \in 1..n : E[j].connection = c}
           A == {Standing(E, before, c, i) : i \in I}
           B == {Standing(W, old, c, i) : i \in I}
<1>5. grades_of(E, before)[c] = weakest(A)
  BY <1>1 DEF grades_of
<1>6. I = {j \in 1..n : W[j].connection = c}
  BY <1>2
<1>7. grades_of(W, old)[c] = weakest(B)
  <2>1. c \in Connections(W)
    BY <1>4
  <2>2. grades_of(W, old)[c] = weakest({Standing(W, old, c, i) : i \in {j \in 1..n : W[j].connection = c}})
    BY <1>2, <2>1 DEF grades_of
  <2> HIDE DEF I
  <2> QED  BY <1>6, <2>2
<1>8. I # {} /\ I \subseteq 0..n
  BY <1>3
<1> HIDE DEF I
<1>9. A # {} /\ B # {}
  BY <1>8
<1>10. ASSUME NEW i \in I PROVE Rank(Standing(E, before, c, i)) <= Rank(Standing(W, old, c, i))
  <2>1. i \in 0..Len(E)
    BY <1>1, <1>8
  <2>2. Rank(IF c \in DOMAIN before THEN before[c] ELSE "unverified")
           <= Rank(IF c \in DOMAIN old THEN old[c] ELSE "unverified")
    OBVIOUS
  <2> QED  BY <2>1, <2>2, SameStanding
<1>11. PICK i \in I : weakest(B) = Standing(W, old, c, i)
  <2>1. weakest(B) \in B
    <3> HIDE DEF B
    <3> QED  BY <1>9, WeakestIs
  <2> QED  BY <2>1
<1>12. Rank(weakest(A)) <= Rank(Standing(E, before, c, i))
  <2>1. Standing(E, before, c, i) \in A
    OBVIOUS
  <2> HIDE DEF A
  <2> QED  BY <1>9, <2>1, WeakestIs
<1>13. Rank(Standing(E, before, c, i)) <= Rank(Standing(W, old, c, i))
  BY <1>10
<1>14. /\ Rank(weakest(A)) \in 0..2 /\ Rank(Standing(E, before, c, i)) \in 0..2
       /\ Rank(Standing(W, old, c, i)) \in 0..2
  BY RankIs
<1> HIDE DEF A, B
<1> QED  BY <1>5, <1>7, <1>11, <1>12, <1>13, <1>14

LEMMA AllSaySame ==
  ASSUME NEW records \in Seq(Written), NEW lines, Len(lines) \in Nat, NEW from \in Nat \ {0}, NEW to \in Nat,
         to <= Len(records), AllOf(lines, records, from, to)
  PROVE  SaySame(lines, SubSeq(records, from, to))
<1>1. PICK k \in Nat : k = Len(records)
  BY LenProperties
<1>2. PICK n \in Nat : n = Len(lines)
  OBVIOUS
<1>3. /\ n = to - from + 1 /\ from <= to /\ to <= k
      /\ \A i \in 1..n : /\ lines[i].kind = records[from + i - 1].kind
                         /\ lines[i].connection = records[from + i - 1].connection
                         /\ lines[i].body = records[from + i - 1].body
  BY <1>1, <1>2 DEF AllOf
<1> DEFINE w == SubSeq(records, from, to)
<1>4. Len(w) = to - from + 1 /\ \A i \in 1..(to - from + 1) : w[i] = records[from + i - 1]
  <2>1. from \in 1..(k + 1) /\ to \in 0..k /\ from <= to + 1
    BY <1>3
  <2> QED  BY <1>1, <2>1, SliceProperties
<1> HIDE DEF w
<1>5. Len(w) = n /\ \A i \in 1..n : w[i] = records[from + i - 1]
  BY <1>3, <1>4
<1>6. SaySame(lines, w)
  BY <1>2, <1>3, <1>5 DEF SaySame
<1> QED  BY <1>6 DEF w

(* The grades believed from before a page are the recorded ones, or none.  *)
LEMMA GradesBeforeAre ==
  ASSUME NEW records \in Seq(Written), NEW lines, StoredAs(lines, records),
         NEW from \in Nat \ {0}, from <= Len(records)
  PROVE  \/ GradesBefore(lines, from) = <<>>
         \/ GradesBefore(lines, from) = LastGrades(SubSeq(records, 1, from - 1))
<1> DEFINE earlier == InRange(lines, 1, from - 1)
           none == <<>>
           to == from - 1
<1>1. GradesBefore(lines, from) = IF from = 1 \/ verify(earlier, 1, to, none).condition # "intact" THEN <<>>
                                  ELSE LastGrades(earlier)
  BY Zenon DEF GradesBefore
<1>2. to \in Nat /\ to \in Int /\ 1 \in Int /\ to <= Len(records)
  BY LenProperties
<1>3. /\ Len(earlier) \in Nat
      /\ \A i \in 1..Len(earlier) : /\ IsLine(earlier[i], records) /\ earlier[i].sequence \in Nat
                                    /\ 1 <= earlier[i].sequence /\ earlier[i].sequence <= to
  <2> DEFINE r == earlier
  <2>1. r = InRange(lines, 1, to)
    OBVIOUS
  <2> HIDE DEF r, to
  <2>2. /\ Len(r) \in Nat
        /\ \A i \in 1..Len(r) : /\ IsLine(r[i], records) /\ r[i].sequence \in Nat
                                /\ 1 <= r[i].sequence /\ r[i].sequence <= to
    BY <1>2, <2>1, RangeLines
  <2> QED  BY <2>2 DEF r
<1> HIDE DEF earlier, none, to
<1>4. CASE from = 1 \/ verify(earlier, 1, to, none).condition # "intact"
  BY <1>1, <1>4
<1>5. CASE ~ (from = 1 \/ verify(earlier, 1, to, none).condition # "intact")
  <2>1. verify(earlier, 1, to, none).condition = "intact" /\ GradesBefore(lines, from) = LastGrades(earlier)
    BY <1>1, <1>5
  <2>2. LinesIn(earlier, records, 1, to)
    BY <1>3 DEF LinesIn
  <2>3. 1 \in Nat \ {0}
    OBVIOUS
  <2>4. AllOf(earlier, records, 1, to)
    BY <1>2, <1>3, <2>1, <2>2, <2>3, IntactRange
  <2>5. SaySame(earlier, SubSeq(records, 1, to))
    BY <1>2, <1>3, <2>3, <2>4, AllSaySame
  <2>6. LastGrades(earlier) = LastGrades(SubSeq(records, 1, to))
    BY <1>3, <2>5, SameLast
  <2> QED  BY <2>1, <2>6 DEF to
<1> QED  BY <1>4, <1>5

LEMMA HonestPage ==
  ASSUME ReadsInv
  PROVE  NoRaisedGrade
<1> DEFINE from == read.from
           to == read.end
           entries == read.entries
           before == GradesBefore(chain, from)
           old == LastGrades(SubSeq(written, 1, from - 1))
           w == SubSeq(written, from, to)
           recorded == grades_of(w, old)
           v == verify(entries, from, to, before)
<1>0. SUFFICES ASSUME Answering, v.condition = "intact"
               PROVE  \A c \in DOMAIN v.grades : Rank(v.grades[c]) <= Rank(recorded[c])
  <2>1. Page.from = from /\ Page.to = to /\ Page.entries = entries /\ Page.verdict = v
    BY DEF Page
  <2> HIDE DEF from, to, entries, v
  <2> QED  BY <2>1 DEF NoRaisedGrade
<1>2. /\ from \in 1..MaxEntries /\ to \in 0..Len(written) /\ entries \in Seq(LinesOf(entries))
      /\ \A i \in 1..Len(entries) : IsLine(entries[i], written) /\ entries[i].sequence \in from..to
  BY <1>0 DEF ReadsInv, ReadShape
<1>3. written \in Seq(Written) /\ Len(written) \in Nat /\ StoredAs(chain, written)
  BY LenProperties DEF ReadsInv, WrittenShape, ChainShape
<1>4. Len(entries) \in Nat
  BY <1>2, LenProperties
<1> HIDE DEF from, to, entries, before, old, w, v
<1>5. from \in Nat \ {0} /\ to \in Nat /\ to <= Len(written)
  BY <1>2, <1>3, ReadsAssumption
<1>6. LinesIn(entries, written, from, to)
  BY <1>2, <1>5 DEF LinesIn
<1>7. verify(entries, from, to, before).condition = "intact"
  BY <1>0 DEF v
<1>8. /\ AllOf(entries, written, from, to)
      /\ verify(entries, from, to, before).grades = grades_of(SubSeq(entries, 1, Len(entries)), before)
  BY <1>3, <1>4, <1>5, <1>6, <1>7, IntactRange
<1>9. v.grades = grades_of(entries, before)
  <2>1. SubSeq(entries, 1, Len(entries)) = entries
    BY <1>2, SubSeqFull
  <2> QED  BY <1>8, <2>1 DEF v
<1>10. SaySame(entries, w)
  BY <1>3, <1>4, <1>5, <1>8, AllSaySame DEF w
<1>11. from <= Len(written)
  <2>1. from <= to
    BY <1>8 DEF AllOf
  <2> QED  BY <1>3, <1>5, <2>1
<1>12. before = <<>> \/ before = old
  BY <1>3, <1>5, <1>11, GradesBeforeAre DEF before, old
<1>13. \A c : Rank(IF c \in DOMAIN before THEN before[c] ELSE "unverified")
                <= Rank(IF c \in DOMAIN old THEN old[c] ELSE "unverified")
  <2> TAKE c
  <2> DEFINE a == IF c \in DOMAIN before THEN before[c] ELSE "unverified"
             b == IF c \in DOMAIN old THEN old[c] ELSE "unverified"
  <2>1. Rank(a) \in 0..2 /\ Rank(b) \in 0..2
    BY RankIs
  <2>2. CASE before = old
    <3>1. a = b
      BY <2>2
    <3> HIDE DEF a, b
    <3>2. Rank(a) <= Rank(b)
      BY <2>1, <3>1
    <3> QED  BY <3>2 DEF a, b
  <2>3. CASE before = <<>>
    <3>1. c \notin DOMAIN before
      BY <2>3
    <3>2. a = "unverified"
      BY <3>1
    <3>3. Rank(a) = 0
      BY <3>2, RankIs
    <3> HIDE DEF a, b
    <3>4. Rank(a) <= Rank(b)
      BY <2>1, <3>3
    <3> QED  BY <3>4 DEF a, b
  <2> QED  BY <1>12, <2>2, <2>3
<1>14. \A c \in DOMAIN grades_of(entries, before) : Rank(grades_of(entries, before)[c]) <= Rank(grades_of(w, old)[c])
  BY <1>4, <1>10, <1>13, SameGrades
<1> QED  BY <1>9, <1>14

(***************************************************************************)
(* GradesAreHonest: none is raised, and one that is not told is declared.  *)
(***************************************************************************)
THEOREM GradesStayHonest == ReadsSpec => []GradesAreHonest
<1>1. ReadsInv => GradesAreHonest
  BY HonestPage DEF GradesAreHonest, ReadsInv
<1> QED  BY <1>1, ReadsAreShaped, PTL

(* A slice is the beginning of a longer one from the same place.           *)
LEMMA SliceBegins ==
  ASSUME NEW S, NEW s \in Seq(S), NEW n \in Nat, n = Len(s), NEW lo \in 1..(n + 1), NEW hi \in 0..n, NEW far \in 0..n,
         lo <= hi + 1, hi <= far
  PROVE  SubSeq(s, lo, hi) = SubSeq(SubSeq(s, lo, far), 1, hi - lo + 1)
<1> DEFINE a == SubSeq(s, lo, hi)
           b == SubSeq(s, lo, far)
           m == hi - lo + 1
           k == far - lo + 1
<1>1. a \in Seq(S) /\ Len(a) = hi - lo + 1 /\ \A i \in 1..(hi - lo + 1) : a[i] = s[lo + i - 1]
  BY SliceProperties
<1>2. b \in Seq(S) /\ Len(b) = far - lo + 1 /\ \A i \in 1..(far - lo + 1) : b[i] = s[lo + i - 1]
  <2>1. lo <= far + 1
    OBVIOUS
  <2> QED  BY <2>1, SliceProperties
<1>3. m \in Nat /\ k \in Nat /\ m <= k
  OBVIOUS
<1>4. Len(a) = m /\ Len(b) = k /\ (\A i \in 1..m : a[i] = s[lo + i - 1]) /\ (\A i \in 1..k : b[i] = s[lo + i - 1])
  BY <1>1, <1>2
<1> HIDE DEF a, b, m, k
<1> DEFINE c == SubSeq(b, 1, m)
<1>5. c \in Seq(S) /\ Len(c) = m - 1 + 1 /\ \A i \in 1..(m - 1 + 1) : c[i] = b[1 + i - 1]
  <2>1. 1 \in 1..(k + 1) /\ m \in 0..k /\ 1 <= m + 1
    BY <1>3
  <2> QED  BY <1>2, <1>3, <1>4, <2>1, SliceProperties
<1> HIDE DEF c
<1>6. Len(c) = m /\ \A i \in 1..m : c[i] = b[i] /\ i \in 1..k
  BY <1>3, <1>5
<1>7. \A i \in 1..Len(a) : a[i] = c[i]
  BY <1>4, <1>6
<1>8. a = c
  BY <1>1, <1>4, <1>5, <1>6, <1>7, SeqEqual
<1> QED  BY <1>8 DEF a, b, c, m

\* Lines in the order of their sequences.
InOrder(lines) ==
  /\ lines \in Seq(LinesOf(lines))
  /\ \A i \in 1..Len(lines) : lines[i].sequence \in Nat
  /\ \A i, j \in 1..Len(lines) : i < j => lines[i].sequence < lines[j].sequence

\* The slice of a range.
SliceOf(lines, from, to, lo, hi) ==
  /\ lo \in 1..(Len(lines) + 1) /\ hi \in 0..Len(lines) /\ lo <= hi + 1
  /\ InRange(lines, from, to) = SubSeq(lines, lo, hi)
  /\ \A i \in 1..Len(lines) : (i \in lo..hi) <=> (from <= lines[i].sequence /\ lines[i].sequence <= to)

LEMMA HasSlice ==
  ASSUME NEW lines, InOrder(lines), NEW from \in Int, NEW to \in Int
  PROVE  \E lo, hi \in Nat : SliceOf(lines, from, to, lo, hi)
<1>1. lines \in Seq(LinesOf(lines))
  BY DEF InOrder
<1>2. PICK n \in Nat : n = Len(lines)
  BY <1>1, LenProperties
<1>3. /\ \A i \in 1..n : lines[i].sequence \in Nat
      /\ \A i, j \in 1..n : i < j => lines[i].sequence < lines[j].sequence
  BY <1>2 DEF InOrder
<1>4. PICK lo \in 1..(n + 1), hi \in 0..n :
            /\ lo <= hi + 1
            /\ InRange(lines, from, to) = SubSeq(lines, lo, hi)
            /\ \A i \in 1..n : (i \in lo..hi) <=> (from <= lines[i].sequence /\ lines[i].sequence <= to)
  BY <1>1, <1>2, <1>3, RangeIs
<1>5. SliceOf(lines, from, to, lo, hi)
  BY <1>2, <1>4 DEF SliceOf
<1> QED  BY <1>4, <1>5

(* A range that ends earlier is the beginning of one that ends later.      *)
LEMMA RangeBegins ==
  ASSUME NEW lines, InOrder(lines), NEW from \in Nat, NEW to \in Nat, NEW far \in Nat, to <= far,
         NEW r, r = InRange(lines, from, to), NEW w, w = InRange(lines, from, far)
  PROVE  /\ Len(r) \in Nat /\ Len(w) \in Nat /\ Len(r) <= Len(w)
         /\ r = SubSeq(w, 1, Len(r))
<1>1. lines \in Seq(LinesOf(lines))
  BY DEF InOrder
<1>2. PICK n \in Nat : n = Len(lines)
  BY <1>1, LenProperties
<1>3. /\ \A i \in 1..n : lines[i].sequence \in Nat
      /\ \A i, j \in 1..n : i < j => lines[i].sequence < lines[j].sequence
  BY <1>2 DEF InOrder
<1>3a. from \in Int /\ to \in Int /\ far \in Int
  OBVIOUS
<1>4. PICK lo \in Nat, hi \in Nat : SliceOf(lines, from, to, lo, hi)
  BY <1>3a, HasSlice
<1>5. PICK lo2 \in Nat, hi2 \in Nat : SliceOf(lines, from, far, lo2, hi2)
  BY <1>3a, HasSlice
<1>6. /\ lo \in 1..(n + 1) /\ hi \in 0..n /\ lo <= hi + 1 /\ r = SubSeq(lines, lo, hi)
      /\ \A i \in 1..n : (i \in lo..hi) <=> (from <= lines[i].sequence /\ lines[i].sequence <= to)
  BY <1>2, <1>4 DEF SliceOf
<1>7. /\ lo2 \in 1..(n + 1) /\ hi2 \in 0..n /\ lo2 <= hi2 + 1 /\ w = SubSeq(lines, lo2, hi2)
      /\ \A i \in 1..n : (i \in lo2..hi2) <=> (from <= lines[i].sequence /\ lines[i].sequence <= far)
  BY <1>2, <1>5 DEF SliceOf
<1>8. Len(r) = hi - lo + 1 /\ Len(w) = hi2 - lo2 + 1
  BY <1>1, <1>2, <1>6, <1>7, SliceProperties
<1>9. CASE hi < lo
  <2>1. r = <<>> /\ Len(r) = 0
    BY <1>6, <1>9, SubSeqEmpty
  <2>2. SubSeq(w, 1, 0) = <<>>
    BY SubSeqEmpty
  <2>3. hi2 - lo2 + 1 \in Nat
    BY <1>7
  <2> QED  BY <1>8, <2>1, <2>2, <2>3
<1>10. CASE lo <= hi
  <2>1. lo \in 1..n /\ hi \in 1..n /\ lo \in lo..hi /\ hi \in lo..hi
    BY <1>6, <1>10
  <2>2. lo \in lo2..hi2 /\ hi \in lo2..hi2
    <3>1. /\ from <= lines[lo].sequence /\ lines[lo].sequence <= to /\ lines[lo].sequence \in Nat
          /\ from <= lines[hi].sequence /\ lines[hi].sequence <= to /\ lines[hi].sequence \in Nat
      BY <1>3, <1>6, <2>1
    <3>2. lines[lo].sequence <= far /\ lines[hi].sequence <= far
      BY <3>1
    <3> QED  BY <1>7, <2>1, <3>1, <3>2
  <2>3. lo2 = lo
    <3>1. lo2 \in 1..n /\ lo2 \in lo2..hi2 /\ lo2 <= lo
      BY <1>7, <2>1, <2>2
    <3>2. from <= lines[lo2].sequence /\ lines[lo2].sequence \in Nat
      BY <1>3, <1>7, <3>1
    <3>3. lines[lo].sequence <= to /\ lines[lo].sequence \in Nat
      BY <1>3, <1>6, <2>1
    <3>4. lines[lo2].sequence <= lines[lo].sequence
      <4>1. CASE lo2 = lo
        BY <3>2, <4>1
      <4>2. CASE lo2 < lo
        BY <1>3, <2>1, <3>1, <3>2, <3>3, <4>2
      <4> QED  BY <3>1, <4>1, <4>2
    <3>5. lines[lo2].sequence <= to
      BY <3>2, <3>3, <3>4
    <3>6. lo2 \in lo..hi
      BY <1>6, <3>1, <3>2, <3>5
    <3> QED  BY <3>1, <3>6
  <2>4. hi <= hi2
    BY <2>2
  <2>5. SubSeq(lines, lo, hi) = SubSeq(SubSeq(lines, lo, hi2), 1, hi - lo + 1)
    BY <1>1, <1>2, <1>6, <1>7, <2>4, SliceBegins
  <2>6. r = SubSeq(w, 1, Len(r))
    BY <1>6, <1>7, <1>8, <2>3, <2>5
  <2>7. hi - lo + 1 \in Nat /\ hi2 - lo2 + 1 \in Nat /\ hi - lo + 1 <= hi2 - lo2 + 1
    BY <1>10, <2>3, <2>4
  <2> QED  BY <1>8, <2>6, <2>7
<1> QED  BY <1>6, <1>9, <1>10

(* The first lines of a range are the range up to the last of them.        *)
LEMMA RangeUpTo ==
  ASSUME NEW lines, InOrder(lines), NEW from \in Nat, NEW far \in Nat, NEW w, w = InRange(lines, from, far),
         NEW k \in 1..Len(w)
  PROVE  /\ w[k].sequence \in Nat
         /\ InRange(lines, from, w[k].sequence) = SubSeq(w, 1, k)
<1>1. lines \in Seq(LinesOf(lines))
  BY DEF InOrder
<1>2. PICK n \in Nat : n = Len(lines)
  BY <1>1, LenProperties
<1>3. /\ \A i \in 1..n : lines[i].sequence \in Nat
      /\ \A i, j \in 1..n : i < j => lines[i].sequence < lines[j].sequence
  BY <1>2 DEF InOrder
<1>3a. from \in Int /\ far \in Int
  OBVIOUS
<1>4. PICK lo \in Nat, hi \in Nat : SliceOf(lines, from, far, lo, hi)
  BY <1>3a, HasSlice
<1>5. /\ lo \in 1..(n + 1) /\ hi \in 0..n /\ lo <= hi + 1 /\ w = SubSeq(lines, lo, hi)
      /\ \A i \in 1..n : (i \in lo..hi) <=> (from <= lines[i].sequence /\ lines[i].sequence <= far)
  BY <1>2, <1>4 DEF SliceOf
<1>6. Len(w) = hi - lo + 1 /\ \A i \in 1..(hi - lo + 1) : w[i] = lines[lo + i - 1]
  BY <1>1, <1>2, <1>5, SliceProperties
<1> DEFINE at == lo + k - 1
<1>7. k \in 1..(hi - lo + 1) /\ at \in lo..hi /\ at \in 1..n /\ lo \in lo..hi /\ at - lo + 1 = k /\ lo \in 1..n
  BY <1>5, <1>6
<1>8. w[k] = lines[at]
  BY <1>6, <1>7
<1> HIDE DEF at
<1> DEFINE s == lines[at].sequence
<1>9. s \in Nat /\ from <= s
  BY <1>3, <1>5, <1>7
<1> HIDE DEF s
<1>9a. s \in Int
  BY <1>9
<1>10. PICK lo2 \in Nat, hi2 \in Nat : SliceOf(lines, from, s, lo2, hi2)
  BY <1>3a, <1>9a, HasSlice
<1>11. /\ lo2 \in 1..(n + 1) /\ hi2 \in 0..n /\ lo2 <= hi2 + 1 /\ InRange(lines, from, s) = SubSeq(lines, lo2, hi2)
       /\ \A i \in 1..n : (i \in lo2..hi2) <=> (from <= lines[i].sequence /\ lines[i].sequence <= s)
  BY <1>2, <1>10 DEF SliceOf
<1>12. at \in lo2..hi2
  BY <1>7, <1>9, <1>11 DEF s
<1>13. hi2 = at
  <2>1. hi2 \in 1..n /\ hi2 \in lo2..hi2 /\ at <= hi2
    BY <1>11, <1>12
  <2>2. lines[hi2].sequence <= s /\ lines[hi2].sequence \in Nat
    BY <1>3, <1>11, <2>1
  <2>3. ~ (at < hi2)
    <3>1. ASSUME at < hi2 PROVE FALSE
      <4>1. s < lines[hi2].sequence
        BY <1>3, <1>7, <2>1, <3>1 DEF s
      <4> QED  BY <1>9, <2>2, <4>1
    <3> QED  BY <3>1
  <2> QED  BY <1>7, <2>1, <2>3
<1>14. lo2 = lo
  <2>1. lo2 \in 1..n /\ lo2 \in lo2..hi2
    BY <1>11, <1>12
  <2>2. from <= lines[lo2].sequence /\ lines[lo2].sequence <= s /\ lines[lo2].sequence \in Nat
    BY <1>3, <1>11, <2>1
  <2>3. s <= far
    BY <1>5, <1>7 DEF s
  <2>4. lines[lo2].sequence <= far
    BY <1>9, <2>2, <2>3
  <2>5. lo2 \in lo..hi
    BY <1>5, <2>1, <2>2, <2>4
  <2>6. lines[lo].sequence \in Nat /\ from <= lines[lo].sequence
    BY <1>3, <1>5, <1>7
  <2>7. lines[lo].sequence <= s
    <3>1. CASE lo = at
      BY <1>9, <3>1 DEF s
    <3>2. CASE lo < at
      BY <1>3, <1>7, <1>9, <2>6, <3>2 DEF s
    <3> QED  BY <1>7, <3>1, <3>2
  <2>8. lo \in lo2..hi2
    BY <1>7, <1>11, <2>6, <2>7
  <2> QED  BY <2>5, <2>8
<1>15. SubSeq(lines, lo, at) = SubSeq(SubSeq(lines, lo, hi), 1, at - lo + 1)
  <2>1. at \in 0..n /\ at <= hi /\ lo <= at + 1
    BY <1>7
  <2> QED  BY <1>1, <1>2, <1>5, <2>1, SliceBegins
<1>16. InRange(lines, from, s) = SubSeq(w, 1, k)
  BY <1>5, <1>7, <1>11, <1>13, <1>14, <1>15
<1> QED  BY <1>8, <1>9, <1>16 DEF s

(* The size of some entries is a number.                                   *)
LEMMA BytesIsNat ==
  ASSUME NEW entries, Len(entries) \in Nat
  PROVE  Bytes(entries, <<>>) \in Nat
<1> DEFINE I == {j \in 1..Len(entries) : entries[j].kind = "effect"}
           T == Attachments(entries)
           f == [i \in I |-> entries[i].body.says]
<1>1. IsFiniteSet(I)
  <2>1. IsFiniteSet(1..Len(entries))
    BY FS_Interval
  <2>2. I \in SUBSET (1..Len(entries))
    OBVIOUS
  <2> QED  BY <2>1, <2>2, FS_Subset
<1>2. T = {entries[i].body.says : i \in I}
  BY DEF Attachments
<1> HIDE DEF I, T
<1>3. f \in Surjection(I, T)
  <2>1. f \in [I -> T] /\ \A t \in T : \E i \in I : f[i] = t
    BY <1>2
  <2> QED  BY <2>1 DEF Surjection
<1>4. IsFiniteSet(T)
  <2> HIDE DEF f
  <2> QED  BY <1>1, <1>3, FS_Surjection
<1>5. Cardinality(T \cap Archived) \in Nat
  BY <1>4, FS_Intersection, FS_CardinalityType
<1>6. Len(<<>>) = 0
  BY EmptySeq
<1>7. Bytes(entries, <<>>) = Len(entries) + Len(<<>>) + Cardinality(T \cap Archived)
  BY DEF Bytes, T
<1> QED  BY <1>5, <1>6, <1>7

(* ExportContinues of one request.                                         *)
GoesOn(lines, from, whole, bundle) ==
  IF bundle = Refusal
  THEN whole # <<>> /\ Bytes(SubSeq(whole, 1, 1), <<>>) > ByteBound
  ELSE /\ bundle.entries = SubSeq(whole, 1, Len(bundle.entries))
       /\ bundle.next # 0 => InRange(lines, from, bundle.next - 1) = bundle.entries
       /\ bundle.next = 0 => Len(bundle.entries) = Len(whole)

\* What is asked for, and what of it is looked at.
Asks(lines, head, from, to, desired, end, entries, whole) ==
  /\ head \in Nat /\ head = LatestOf(lines)
  /\ \A i \in 1..Len(lines) : lines[i].sequence <= head
  /\ from \in Nat \ {0} /\ to \in Nat /\ (to = 0 \/ from <= to)
  /\ desired = (IF to = 0 THEN head ELSE Least(to, head))
  /\ end = (IF head = 0 \/ from > head THEN 0 ELSE Least(desired, from + ExportBound - 1))
  /\ entries = (IF end = 0 THEN <<>> ELSE InRange(lines, from, end))
  /\ whole = InRange(lines, from, desired)

\* It is the beginning of the range, and the range if nothing cut it.
Looks(lines, from, desired, end, entries, whole) ==
  /\ desired \in Nat /\ end \in Nat /\ end <= desired
  /\ Len(entries) \in Nat /\ Len(whole) \in Nat /\ Len(entries) <= Len(whole)
  /\ entries = SubSeq(whole, 1, Len(entries))
  /\ end # 0 => entries = InRange(lines, from, end)
  /\ (end = 0 \/ end = desired) => Len(entries) = Len(whole)

LEMMA ExportLooks ==
  ASSUME NEW lines, InOrder(lines), NEW head, NEW from, NEW to, NEW desired, NEW end, NEW entries, NEW whole,
         Asks(lines, head, from, to, desired, end, entries, whole)
  PROVE  Looks(lines, from, desired, end, entries, whole)
<1>h. /\ head \in Nat /\ head = LatestOf(lines)
      /\ \A i \in 1..Len(lines) : lines[i].sequence <= head
      /\ from \in Nat \ {0} /\ to \in Nat /\ (to = 0 \/ from <= to)
      /\ desired = (IF to = 0 THEN head ELSE Least(to, head))
      /\ end = (IF head = 0 \/ from > head THEN 0 ELSE Least(desired, from + ExportBound - 1))
      /\ entries = (IF end = 0 THEN <<>> ELSE InRange(lines, from, end))
      /\ whole = InRange(lines, from, desired)
  BY DEF Asks
<1> USE <1>h
<1>1. desired \in Nat /\ end \in Nat /\ end <= desired
  BY ReadsAssumption DEF Least
<1>2. CASE end # 0
  <2>1. entries = InRange(lines, from, end) /\ from \in Nat
    BY <1>2
  <2>2. /\ Len(entries) \in Nat /\ Len(whole) \in Nat /\ Len(entries) <= Len(whole)
        /\ entries = SubSeq(whole, 1, Len(entries))
    BY <1>1, <2>1, RangeBegins
  <2>3. end = desired => entries = whole
    BY <2>1
  <2>4. (end = 0 \/ end = desired) => Len(entries) = Len(whole)
    BY <1>2, <2>3
  <2> QED  BY <1>1, <2>1, <2>2, <2>4 DEF Looks
<1>3. CASE end = 0
  <2>1. entries = <<>> /\ Len(entries) = 0
    BY <1>3, EmptySeq
  <2>2. head = 0 \/ from > head
    BY <1>3, ReadsAssumption DEF Least
  <2>3. desired <= head
    BY DEF Least
  <2>4. desired < from
    BY <1>1, <2>2, <2>3
  <2>5. from \in Int /\ desired \in Int
    BY <1>1
  <2>6. PICK lo \in Nat, hi \in Nat : SliceOf(lines, from, desired, lo, hi)
    BY <2>5, HasSlice
  <2>7. PICK n \in Nat : n = Len(lines)
    BY LenProperties DEF InOrder
  <2>8. /\ lo \in 1..(n + 1) /\ hi \in 0..n /\ lo <= hi + 1 /\ whole = SubSeq(lines, lo, hi)
        /\ \A i \in 1..n : (i \in lo..hi) <=> (from <= lines[i].sequence /\ lines[i].sequence <= desired)
    BY <2>6, <2>7 DEF SliceOf
  <2>9. hi < lo
    <3>1. ASSUME lo <= hi PROVE FALSE
      <4>1. lo \in 1..n /\ lo \in lo..hi
        BY <2>8, <3>1
      <4>2. from <= lines[lo].sequence /\ lines[lo].sequence <= desired
        BY <2>8, <4>1
      <4>3. lines[lo].sequence \in Nat
        BY <2>7, <4>1 DEF InOrder
      <4> QED  BY <1>1, <2>4, <4>2, <4>3
    <3> QED  BY <2>8, <3>1
  <2>10. whole = <<>>
    BY <2>8, <2>9, SubSeqEmpty
  <2>11. SubSeq(whole, 1, 0) = <<>>
    BY SubSeqEmpty
  <2>12. Len(whole) = 0
    BY <2>10, EmptySeq
  <2>13. entries = SubSeq(whole, 1, Len(entries))
    BY <2>1, <2>11
  <2> QED  BY <1>1, <1>3, <2>1, <2>12, <2>13 DEF Looks
<1> QED  BY <1>2, <1>3

LEMMA RangeIsSeq ==
  ASSUME NEW lines, InOrder(lines), NEW from \in Nat, NEW to \in Nat
  PROVE  InRange(lines, from, to) \in Seq(LinesOf(lines))
<1>1. PICK n \in Nat : n = Len(lines)
  BY LenProperties DEF InOrder
<1>2. from \in Int /\ to \in Int
  OBVIOUS
<1>3. PICK lo \in Nat, hi \in Nat : SliceOf(lines, from, to, lo, hi)
  BY <1>2, HasSlice
<1>4. lo \in 1..(n + 1) /\ hi \in 0..n /\ lo <= hi + 1 /\ InRange(lines, from, to) = SubSeq(lines, lo, hi)
  BY <1>1, <1>3 DEF SliceOf
<1>5. lines \in Seq(LinesOf(lines))
  BY DEF InOrder
<1>6. SubSeq(lines, lo, hi) \in Seq(LinesOf(lines))
  BY <1>1, <1>4, <1>5, SliceProperties
<1> QED  BY <1>4, <1>6

LEMMA BeginsTwice ==
  ASSUME NEW S, NEW s \in Seq(S), NEW k \in Nat, k = Len(s), NEW m \in 0..k, NEW j \in 0..m
  PROVE  /\ SubSeq(SubSeq(s, 1, m), 1, j) = SubSeq(s, 1, j)
         /\ Len(SubSeq(s, 1, j)) = j
         /\ \A i \in 1..m : SubSeq(s, 1, m)[i] = s[i]
<1>1. 1 \in 1..(k + 1) /\ j \in 0..k /\ 1 <= j + 1 /\ 1 <= m + 1 /\ j <= m
  OBVIOUS
<1>2. SubSeq(s, 1, j) = SubSeq(SubSeq(s, 1, m), 1, j - 1 + 1)
  BY <1>1, SliceBegins
<1>3. j - 1 + 1 = j
  OBVIOUS
<1>4. Len(SubSeq(s, 1, j)) = j - 1 + 1
  BY <1>1, SliceProperties
<1>5. \A i \in 1..(m - 1 + 1) : SubSeq(s, 1, m)[i] = s[1 + i - 1]
  BY <1>1, SliceProperties
<1>6. m - 1 + 1 = m /\ \A i \in 1..m : 1 + i - 1 = i
  OBVIOUS
<1>7. \A i \in 1..m : SubSeq(s, 1, m)[i] = s[i]
  BY <1>5, <1>6
<1> QED  BY <1>2, <1>3, <1>4, <1>7

LEMMA BundleHas ==
  ASSUME NEW e, NEW f, NEW g, NEW x, NEW c, NEW b, NEW bundle, bundle = Bundle(e, f, g, x, c, b)
  PROVE  bundle.entries = e /\ bundle.next = x /\ bundle.from = f
<1> DEFINE bv == verify(e, f, g, b)
           ba == Attachments(e)
<1>1. bundle = [from |-> f, entries |-> e, next |-> x, context |-> c, attachments |-> ba, verdict |-> bv]
  BY DEF Bundle
<1> HIDE DEF ba, bv
<1> QED  BY <1>1

LEMMA FittingContinues ==
  ASSUME NEW lines, InOrder(lines), NEW from \in Nat \ {0}, NEW desired, NEW end, NEW entries, NEW whole,
         whole = InRange(lines, from, desired), Looks(lines, from, desired, end, entries, whole),
         NEW next, next = (IF end # 0 /\ end < desired THEN end + 1 ELSE 0),
         NEW context, NEW before,
         NEW bundle, bundle = Fitting(entries, from, end, next, context, before)
  PROVE  GoesOn(lines, from, whole, bundle)
<1>a. desired \in Nat /\ end \in Nat /\ end <= desired
  BY DEF Looks
<1>b. PICK k \in Nat : k = Len(whole)
  BY DEF Looks
<1>c. PICK m \in Nat : m = Len(entries)
  BY DEF Looks
<1>d. /\ m \in 0..k /\ entries = SubSeq(whole, 1, m)
      /\ end # 0 => entries = InRange(lines, from, end)
      /\ (end = 0 \/ end = desired) => m = k
  <2>1. Len(entries) <= Len(whole) /\ entries = SubSeq(whole, 1, Len(entries))
    BY DEF Looks
  <2>2. m <= k /\ entries = SubSeq(whole, 1, m)
    BY <1>b, <1>c, <2>1, Zenon
  <2>3. /\ end # 0 => entries = InRange(lines, from, end)
        /\ (end = 0 \/ end = desired) => Len(entries) = Len(whole)
    BY DEF Looks
  <2>4. (end = 0 \/ end = desired) => m = k
    BY <1>b, <1>c, <2>3, Zenon
  <2> QED  BY <1>b, <1>c, <2>2, <2>3, <2>4
<1> USE <1>a, <1>b, <1>c, <1>d
<1> DEFINE none == <<>>
           fitting == {n \in 1..m : Bytes(SubSeq(entries, 1, n), none) <= ByteBound}
           most == Max(fitting)
           last == entries[most].sequence
           first == SubSeq(entries, 1, most)
<1>0. whole \in Seq(LinesOf(lines))
  BY RangeIsSeq
<1>1. bundle = IF entries = none \/ Bytes(entries, context) <= ByteBound
               THEN Bundle(entries, from, end, next, context, before)
               ELSE IF fitting = {} THEN Refusal
               ELSE IF most = m THEN Bundle(entries, from, end, next, none, before)
               ELSE Bundle(first, from, last, last + 1, none, before)
  BY Zenon DEF Fitting
<1>2. fitting \in SUBSET (0..m) /\ fitting \subseteq 1..m
  OBVIOUS
<1>3. fitting = {} /\ m # 0 => ~ (Bytes(SubSeq(entries, 1, 1), none) <= ByteBound)
  OBVIOUS
<1>4. \A e, f, g, x, c, b, new : new = Bundle(e, f, g, x, c, b) =>
        /\ new.entries = e /\ new.next = x /\ new.from = f
  BY DEF Bundle
<1>5. Refusal.from = 0
  BY DEF Refusal
<1>6. m # 0 => entries # none
  BY EmptySeq
<1> HIDE DEF fitting, none
<1>7. ASSUME NEW c, bundle = Bundle(entries, from, end, next, c, before)
      PROVE  GoesOn(lines, from, whole, bundle)
  <2>0. bundle = Bundle(entries, from, end, next, c, before)
    BY <1>7
  <2>1. bundle.entries = entries /\ bundle.next = next /\ bundle.from = from
    BY <2>0 DEF Bundle
  <2>2. bundle # Refusal
    BY <1>5, <2>1
  <2>3. next # 0 => next - 1 = end /\ end # 0
    OBVIOUS
  <2>4. next = 0 => m = k
    OBVIOUS
  <2>5. next # 0 => InRange(lines, from, next - 1) = entries
    BY <2>3
  <2> QED  BY <2>1, <2>2, <2>4, <2>5 DEF GoesOn
<1>8. CASE entries = none \/ Bytes(entries, context) <= ByteBound
  <2>1. bundle = Bundle(entries, from, end, next, context, before)
    BY <1>1, <1>8
  <2> QED  BY <1>7, <2>1
<1>9. CASE ~ (entries = none \/ Bytes(entries, context) <= ByteBound) /\ fitting = {}
  <2>1. bundle = Refusal
    BY <1>1, <1>9
  <2>2. m # 0
    <3>1. ASSUME m = 0 PROVE FALSE
      <4>1. entries = SubSeq(whole, 1, 0)
        BY <3>1
      <4>2. entries = none
        BY <4>1, SubSeqEmpty DEF none
      <4> QED  BY <1>9, <4>2
    <3> QED  BY <3>1
  <2>3. SubSeq(entries, 1, 1) = SubSeq(whole, 1, 1) /\ Len(SubSeq(whole, 1, 1)) = 1
    <3>1. 1 \in 0..m
      BY <2>2
    <3> QED  BY <1>0, <3>1, BeginsTwice
  <2>4. ~ (Bytes(SubSeq(whole, 1, 1), none) <= ByteBound)
    BY <1>3, <1>9, <2>2, <2>3
  <2>5. Bytes(SubSeq(whole, 1, 1), none) \in Nat
    BY <2>3, BytesIsNat DEF none
  <2>6. Bytes(SubSeq(whole, 1, 1), none) > ByteBound
    BY <2>4, <2>5, ReadsAssumption
  <2>7. whole # <<>>
    BY <2>2, EmptySeq
  <2> QED  BY <2>1, <2>6, <2>7 DEF none, GoesOn
<1>10. CASE ~ (entries = none \/ Bytes(entries, context) <= ByteBound) /\ fitting # {} /\ most = m
  <2>1. bundle = Bundle(entries, from, end, next, none, before)
    BY <1>1, <1>10
  <2> QED  BY <1>7, <2>1
<1>11. CASE ~ (entries = none \/ Bytes(entries, context) <= ByteBound) /\ fitting # {} /\ most # m
  <2>1. bundle = Bundle(first, from, last, last + 1, none, before)
    BY <1>1, <1>11
  <2>2. most \in 1..m
    <3>0. m \in Nat
      OBVIOUS
    <3>1. most \in fitting
      BY <1>2, <1>11, <3>0, GreatestOf
    <3> HIDE DEF most
    <3> QED  BY <1>2, <3>1
  <2> HIDE DEF most
  <2>3. most \in 1..k /\ most \in 0..m
    BY <2>2
  <2>4. /\ SubSeq(SubSeq(whole, 1, m), 1, most) = SubSeq(whole, 1, most)
        /\ Len(SubSeq(whole, 1, most)) = most
        /\ \A i \in 1..m : SubSeq(whole, 1, m)[i] = whole[i]
    BY <1>0, <2>3, BeginsTwice
  <2>5. first = SubSeq(whole, 1, most) /\ last = whole[most].sequence
    BY <2>2, <2>4
  <2>6. /\ whole[most].sequence \in Nat
        /\ InRange(lines, from, whole[most].sequence) = SubSeq(whole, 1, most)
    <3>1. from \in Nat /\ most \in 1..Len(whole)
      BY <2>3
    <3> QED  BY <3>1, RangeUpTo
  <2> HIDE DEF first, last
  <2>7. bundle.entries = first /\ bundle.next = last + 1 /\ bundle.from = from
    BY <1>4, <2>1
  <2>8. bundle # Refusal
    BY <1>5, <2>7
  <2>9. last \in Nat /\ last + 1 # 0 /\ last + 1 - 1 = last
    BY <2>5, <2>6
  <2>10. bundle.entries = SubSeq(whole, 1, Len(bundle.entries))
    BY <2>4, <2>5, <2>7
  <2>11. InRange(lines, from, bundle.next - 1) = bundle.entries
    <3>1. bundle.next - 1 = last
      BY <2>7, <2>9
    <3> QED  BY <2>5, <2>6, <2>7, <3>1
  <2>12. bundle.next # 0
    BY <2>7, <2>9
  <2> QED  BY <2>8, <2>10, <2>11, <2>12 DEF GoesOn
<1> QED  BY <1>8, <1>9, <1>10, <1>11

LEMMA ExportOf ==
  ASSUME ReadsInv, NEW from \in 1..MaxEntries, NEW to \in 0..MaxEntries, to = 0 \/ from <= to
  PROVE  GoesOn(chain, from, InRange(chain, from, IF to = 0 THEN LatestOf(chain) ELSE Least(to, LatestOf(chain))),
                Export(chain, from, to))
<1> DEFINE head == LatestOf(chain)
           desired == IF to = 0 THEN head ELSE Least(to, head)
           end == IF head = 0 \/ from > head THEN 0 ELSE Least(desired, from + ExportBound - 1)
           entries == IF end = 0 THEN <<>> ELSE InRange(chain, from, end)
           next == IF end # 0 /\ end < desired THEN end + 1 ELSE 0
           context == Context(chain, entries)
           before == GradesBefore(chain, from)
           bundle == Export(chain, from, to)
           whole == InRange(chain, from, desired)
<1>1. bundle = Fitting(entries, from, end, next, context, before)
  BY Zenon DEF Export
<1>2. written \in Seq(Written) /\ StoredAs(chain, written)
  BY DEF ReadsInv, WrittenShape, ChainShape
<1>3. head = Len(written) /\ head \in Nat
  BY <1>2, LatestIs
<1>4. InOrder(chain)
  BY <1>2, OrderedLines DEF InOrder
<1>5. \A i \in 1..Len(chain) : chain[i].sequence <= head
  <2> DEFINE n == Len(written)
  <2>1. n \in Nat /\ head = n /\ \A i \in 1..Len(chain) : chain[i].sequence \in 1..n
    BY <1>2, <1>3, OrderedLines
  <2> HIDE DEF head, n
  <2> QED  BY <2>1
<1>6. from \in Nat \ {0} /\ to \in Nat
  BY ReadsAssumption
<1> HIDE DEF bundle
<1>7. Asks(chain, head, from, to, desired, end, entries, whole)
  <2>1. /\ desired = (IF to = 0 THEN head ELSE Least(to, head))
        /\ end = (IF head = 0 \/ from > head THEN 0 ELSE Least(desired, from + ExportBound - 1))
        /\ entries = (IF end = 0 THEN <<>> ELSE InRange(chain, from, end))
        /\ whole = InRange(chain, from, desired)
        /\ head = LatestOf(chain)
    OBVIOUS
  <2> HIDE DEF head, desired, end, entries, whole
  <2> QED  BY <1>3, <1>5, <1>6, <2>1 DEF Asks
<1>8. next = (IF end # 0 /\ end < desired THEN end + 1 ELSE 0) /\ whole = InRange(chain, from, desired)
  OBVIOUS
<1>9. whole = InRange(chain, from, IF to = 0 THEN LatestOf(chain) ELSE Least(to, LatestOf(chain)))
  OBVIOUS
<1> HIDE DEF head, desired, end, entries, next, context, before, whole
<1>10. Looks(chain, from, desired, end, entries, whole)
  BY <1>4, <1>7, ExportLooks, Zenon
<1>11. GoesOn(chain, from, whole, bundle)
  BY <1>1, <1>4, <1>6, <1>8, <1>10, FittingContinues, Zenon
<1> QED  BY <1>9, <1>11 DEF bundle

(***************************************************************************)
(* ExportContinues: an export can be gone on with until the range is out.  *)
(***************************************************************************)
THEOREM ExportsDoContinue == ReadsSpec => []ExportContinues
<1>1. ASSUME ReadsInv PROVE ExportContinues
  <2>1. \A from \in 1..MaxEntries, to \in 0..MaxEntries : (to = 0 \/ from <= to) =>
        GoesOn(chain, from, InRange(chain, from, IF to = 0 THEN LatestOf(chain) ELSE Least(to, LatestOf(chain))),
               Export(chain, from, to))
    BY <1>1, ExportOf
  <2> QED  BY <2>1, Zenon DEF ExportContinues, GoesOn, Latest
<1> QED  BY <1>1, ReadsAreShaped, PTL
=============================================================================
