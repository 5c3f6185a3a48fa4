----------------------------- MODULE OutcomeLog -----------------------------
(***************************************************************************)
(* The boundary's outcome log (sayfirst_boundary/evidence.py): a deque of  *)
(* bounded length, filled by record and emptied by flush, with a count of  *)
(* what was lost.  It takes no lock, and a boundary is used from several   *)
(* threads: a step here is what runs between two calls the interpreter may *)
(* switch threads at.  An outcome is the number it was made under; only    *)
(* the log's own `sequence` is what a reader sees.                         *)
(***************************************************************************)
EXTENDS Naturals, Sequences, FiniteSets

CONSTANTS
  Threads,
  Capacity     \* OutcomeLog.__init__'s capacity

ASSUME CapacityAssumption == Capacity \in Nat \ {0}

VARIABLES
  pending,     \* OutcomeLog._pending: the sequence numbers, oldest first
  sequence,    \* OutcomeLog._sequence
  dropped,     \* OutcomeLog._dropped
  emitted,     \* what the sink took
  hand,        \* each thread's place in the log and the value it carries
  users        \* the threads that ever entered it

logVars == <<pending, sequence, dropped, emitted, hand, users>>

Place(at, value) == [at |-> at, value |-> value]
Outside == Place("outside", 0)

LogTypeOK ==
  /\ pending \in Seq(Nat \ {0}) /\ sequence \in Nat /\ dropped \in Nat
  /\ emitted \in Seq([sequence: Nat \ {0}, droppedBefore: Nat])
  /\ hand \in [Threads -> [at: {"outside", "full", "shed", "room", "stamped",
                                "emptying", "popped", "raised"}, value: Nat]]
  /\ users \subseteq Threads

LogInit ==
  /\ pending = <<>> /\ sequence = 0 /\ dropped = 0 /\ emitted = <<>>
  /\ hand = [t \in Threads |-> Outside]
  /\ users = {}

Goes(t, at, value) == hand' = [hand EXCEPT ![t] = Place(at, value)]
At(t, at) == hand[t].at = at

(* Mutant: the bound is looked at once the record is in.                   *)
IsFullLate == Len(pending) = Capacity + 1

IsFull == Len(pending) = Capacity

(* record: the number is taken and the room is looked at.                  *)
RecordBegins(t) ==
  /\ sequence' = sequence + 1
  /\ Goes(t, IF IsFull THEN "full" ELSE "room", 0)
  /\ users' = users \cup {t}
  /\ UNCHANGED <<pending, dropped, emitted>>

(* popleft of a deque another thread has emptied raises out of record.     *)
Sheds(t) ==
  /\ At(t, "full")
  /\ IF pending = <<>>
     THEN Goes(t, "raised", 0) /\ UNCHANGED pending
     ELSE pending' = Tail(pending) /\ Goes(t, "shed", 0)
  /\ UNCHANGED <<sequence, dropped, emitted, users>>

(* The number stamped is the log's current one, not the one taken.         *)
Stamps(t) ==
  /\ hand[t].at \in {"shed", "room"}
  /\ dropped' = IF At(t, "shed") THEN dropped + 1 ELSE dropped
  /\ Goes(t, "stamped", sequence)
  /\ UNCHANGED <<pending, sequence, emitted, users>>

Keeps(t) ==
  /\ At(t, "stamped")
  /\ pending' = Append(pending, hand[t].value)
  /\ Goes(t, "outside", 0)
  /\ UNCHANGED <<sequence, dropped, emitted, users>>

(* flush, while there is something to hand out.                            *)
FlushBegins(t) ==
  /\ Goes(t, IF pending = <<>> THEN "outside" ELSE "emptying", 0)
  /\ users' = users \cup {t}
  /\ UNCHANGED <<pending, sequence, dropped, emitted>>

Pops(t) ==
  /\ At(t, "emptying")
  /\ IF pending = <<>>
     THEN Goes(t, "raised", 0) /\ UNCHANGED pending
     ELSE pending' = Tail(pending) /\ Goes(t, "popped", Head(pending))
  /\ UNCHANGED <<sequence, dropped, emitted, users>>

(* The count is read as the record leaves; the sink takes it or raises.    *)
HandsOut(t) ==
  /\ At(t, "popped")
  /\ Goes(t, IF pending = <<>> THEN "outside" ELSE "emptying", 0)
  /\ \/ /\ emitted' = Append(emitted, [sequence |-> hand[t].value, droppedBefore |-> dropped])
        /\ UNCHANGED dropped
     \/ dropped' = dropped + 1 /\ UNCHANGED emitted
  /\ UNCHANGED <<pending, sequence, users>>

(* The exception reaches the caller, and what it carried is nowhere.       *)
Raises(t) ==
  /\ At(t, "raised")
  /\ Goes(t, "outside", 0)
  /\ UNCHANGED <<pending, sequence, dropped, emitted, users>>

LogStep(t) == Sheds(t) \/ Stamps(t) \/ Keeps(t) \/ Pops(t) \/ HandsOut(t) \/ Raises(t)
-----------------------------------------------------------------------------
(* "The count of drops at the moment a record is emitted is exactly the    *)
(* number of lower-sequenced records the reader will never see", and at    *)
(* most `capacity` records are held, and nothing raises: as long as one    *)
(* thread uses the log.  (Two threads break each part of it.)              *)
GapsAreDeclared ==
  Cardinality(users) <= 1 =>
    /\ Len(pending) <= Capacity
    /\ \A t \in Threads : ~ At(t, "raised")
    /\ \A i \in DOMAIN emitted :
         emitted[i].droppedBefore =
           Cardinality((1..(emitted[i].sequence - 1)) \ {emitted[j].sequence : j \in DOMAIN emitted})

-----------------------------------------------------------------------------
(* What makes it inductive.  With one thread, everything up to Passed(t)   *)
(* has left the log, what follows is pending in order, and the last number *)
(* may still be in that thread's hand.                                     *)
Handed == {emitted[j].sequence : j \in DOMAIN emitted}
LastIn(t) == IF hand[t].at \in {"full", "shed", "room", "stamped"} THEN sequence - 1 ELSE sequence
Passed(t) == LastIn(t) - Len(pending) - (IF At(t, "popped") THEN 1 ELSE 0)

OneThread(t) ==
  /\ ~ At(t, "raised")
  /\ Len(pending) <= Capacity
  /\ At(t, "full") => Len(pending) = Capacity
  /\ hand[t].at \in {"shed", "room", "stamped"} => Len(pending) < Capacity
  /\ At(t, "emptying") => pending # <<>>
  /\ At(t, "stamped") => hand[t].value = sequence
  /\ At(t, "popped") => hand[t].value = Passed(t) + 1
  /\ Passed(t) \in Nat /\ Handed \subseteq 1..Passed(t)
  /\ \A i \in DOMAIN pending : pending[i] = LastIn(t) - Len(pending) + i
  /\ Cardinality((1..Passed(t)) \ Handed) = dropped + (IF At(t, "shed") THEN 1 ELSE 0)

HandShape ==
  \A t \in Threads :
    /\ hand[t].at \in {"full", "shed", "room"} => sequence # 0
    /\ hand[t].at \in {"stamped", "popped"} => hand[t].value # 0
    /\ ~ At(t, "outside") => t \in users

LogInv ==
  /\ LogTypeOK /\ HandShape
  /\ IsFiniteSet(users)
  /\ \A t \in Threads : users \subseteq {t} => OneThread(t)
  /\ GapsAreDeclared
=============================================================================
