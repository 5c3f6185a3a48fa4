-------------------------- MODULE DecisionsProofs --------------------------
(***************************************************************************)
(* Proofs about module Decisions, for every set of asks, acts, questions   *)
(* and holders, every wait length and every number of restarts.            *)
(***************************************************************************)
EXTENDS Decisions, TLAPS

(* A record stays a record when a method rewrites some of its members.     *)
LEMMA RecordUpdates ==
  /\ \A w \in Wait : [w EXCEPT !.published = TRUE] \in Wait
  /\ \A w \in Wait : [w EXCEPT !.claimed = TRUE] \in Wait
  /\ \A w \in Wait : [w EXCEPT !.claimed = FALSE] \in Wait
  /\ \A w \in Wait : expired(w) \in Wait
  /\ \A w \in Wait, t \in Nat : [w EXCEPT !.consumed = TRUE, !.consumed_at = t] \in Wait
  /\ \A w \in Wait, s \in ACTED, t \in Nat :
       [w EXCEPT !.state = s, !.resolved_at = t, !.published = TRUE] \in Wait
BY Zenon DEF Wait, KeptStates, GoneStates, ACTED, expired

(* What a question leaves when it is gone is a wait too.                   *)
LEMMA GoneTyped == \A why \in GoneStates : Gone(why) \in Wait
BY DEF Wait, GoneStates, Gone

(* What each store method leaves is a store.                               *)
LEMMA StoreMethodsTyped ==
  ASSUME wait \in [Asks -> Wait], now \in Nat, opened \in Nat
  PROVE  /\ \A r \in Asks : publish(r) \in [Asks -> Wait]
         /\ \A r \in Asks : abandon(r) \in [Asks -> Wait]
         /\ \A r \in Asks : claim(r) \in [Asks -> Wait]
         /\ \A r \in Asks : release_claim(r) \in [Asks -> Wait]
         /\ \A r \in Asks : consume(r) \in [Asks -> Wait]
         /\ \A r \in Asks, t \in Nat : open(r, t) \in [Asks -> Wait]
         /\ \A r \in Asks, s \in ACTED, t \in Nat : resolve(r, s, t) \in [Asks -> Wait]
         /\ \A r \in Asks : [wait EXCEPT ![r] = expired(@)] \in [Asks -> Wait]
         /\ \A t \in Nat : expire_past(t) \in [Asks -> Wait]
         /\ \A t \in Nat : forget_lapsed(t) \in [Asks -> Wait]
         /\ lose_all \in [Asks -> Wait]
<1>1. \A r \in Asks : publish(r) \in [Asks -> Wait]
  BY RecordUpdates DEF publish
<1>2. \A r \in Asks : abandon(r) \in [Asks -> Wait]
  BY GoneTyped DEF abandon, GoneStates
<1>3. \A r \in Asks : claim(r) \in [Asks -> Wait]
  BY RecordUpdates DEF claim
<1>4. \A r \in Asks : release_claim(r) \in [Asks -> Wait]
  BY RecordUpdates DEF release_claim
<1>5. \A r \in Asks : consume(r) \in [Asks -> Wait]
  BY RecordUpdates DEF consume
<1>6. \A r \in Asks, t \in Nat : open(r, t) \in [Asks -> Wait]
  BY WaitLengthAssumption DEF open, Wait, KeptStates
<1>7. \A r \in Asks, s \in ACTED, t \in Nat : resolve(r, s, t) \in [Asks -> Wait]
  BY RecordUpdates DEF resolve
<1>8. \A r \in Asks : [wait EXCEPT ![r] = expired(@)] \in [Asks -> Wait]
  BY RecordUpdates
<1>9. \A t \in Nat : expire_past(t) \in [Asks -> Wait]
  BY RecordUpdates DEF expire_past
<1>10. \A t \in Nat : forget_lapsed(t) \in [Asks -> Wait]
  BY GoneTyped DEF forget_lapsed, GoneStates
<1>11. lose_all \in [Asks -> Wait]
  BY GoneTyped DEF lose_all, GoneStates
<1> QED
  BY <1>1, <1>2, <1>3, <1>4, <1>5, <1>6, <1>7, <1>8, <1>9, <1>10, <1>11

(* The same for an act and for a sweep that move on.                       *)
LEMMA ActUpdates ==
  /\ \A x \in Act, c \in ActSteps : [x EXCEPT !.pc = c] \in Act
  /\ \A x \in Act, c \in ActSteps, t \in Nat : [x EXCEPT !.pc = c, !.at = t] \in Act
  /\ \A c \in ActSteps : NoAct(c) \in Act
  /\ \A x \in Sweep : [x EXCEPT !.pc = "forget"] \in Sweep
<1>1. \A x \in Act, c \in ActSteps : [x EXCEPT !.pc = c] \in Act  BY Zenon DEF Act
<1>2. \A x \in Act, c \in ActSteps, t \in Nat : [x EXCEPT !.pc = c, !.at = t] \in Act
  BY Zenon DEF Act
<1>3. \A c \in ActSteps : NoAct(c) \in Act  BY DEF NoAct, Act
<1>4. \A x \in Sweep : [x EXCEPT !.pc = "forget"] \in Sweep  BY Zenon DEF Sweep
<1> QED  BY <1>1, <1>2, <1>3, <1>4

(* A consultation that looks again, or gives up, keeps the types.          *)
LEMMA RetryTyped ==
  ASSUME TypeOK, NEW a \in Asks, NEW from, Retry(a, from)
  PROVE  TypeOK'
<1> USE DEF TypeOK, StoreTypeOK
<1>1. consulted' \in [Asks -> [outcome: Outcomes, ref: Asks \cup {NoRef}]]
  BY DEF Retry, NotConsulted, Outcomes
<1>2. pc' \in [Asks -> AskSteps] /\ asked_at' \in [Asks -> Nat] /\ attempt' \in [Asks -> Nat]
  <2>1. CASE attempt[a] + 1 < ClaimTries
    <3>1. pc' = [pc EXCEPT ![a] = "consult"] /\ UNCHANGED asked_at
      BY <2>1, DecisionsAssumption DEF Retry, Goto
    <3>2. attempt' = [attempt EXCEPT ![a] = @ + 1]
      BY <2>1, DecisionsAssumption DEF Retry, Goto
    <3> QED  BY <3>1, <3>2 DEF AskSteps
  <2>2. CASE attempt[a] + 1 >= ClaimTries
    <3>1. Finish(a, from)  BY <2>2, DecisionsAssumption DEF Retry
    <3> QED  BY <3>1 DEF Finish, Goto, AskSteps
  <2> QED  BY <2>1, <2>2, DecisionsAssumption
<1> QED  BY <1>1, <1>2 DEF Retry, storeVars

(* Every step keeps the types, given that consultations and acts have the  *)
(* shape their program counters say.                                       *)
LEMMA TypeStep ==
  ASSUME TypeOK, ConsultationShape, ActShape, [Next]_vars
  PROVE  TypeOK'
<1> USE DecisionsAssumption DEF TypeOK, StoreTypeOK, storeVars, askVars,
      AskSteps, ActSteps, Outcomes, Appends, ACTED, NotConsulted,
      ConsultationShape, ActShape, Spends, Opened
<1>1. ASSUME NEW a \in Asks, Begin(a) PROVE TypeOK'
  BY <1>1 DEF Begin, Goto
<1>2. ASSUME NEW a \in Asks, AskExpires(a) PROVE TypeOK'
  BY <1>2, StoreMethodsTyped DEF AskExpires, Goto
<1>3. ASSUME NEW a \in Asks, AskForgets(a) PROVE TypeOK'
  <2>1. wait' \in [Asks -> Wait]  BY <1>3, StoreMethodsTyped DEF AskForgets
  <2>2. pc' \in [Asks -> AskSteps] /\ asked_at' \in [Asks -> Nat] /\ attempt' \in [Asks -> Nat]
    BY <1>3 DEF AskForgets, Goto, Finish
  <2> QED  BY <1>3, <2>1, <2>2 DEF AskForgets
<1>4. ASSUME NEW a \in Asks, OpenWait(a) PROVE TypeOK'
  BY <1>4, StoreMethodsTyped DEF OpenWait, Goto
<1>5. ASSUME NEW a \in Asks, FindPublished(a) PROVE TypeOK'
  BY <1>5 DEF FindPublished, Goto
<1>6. ASSUME NEW a \in Asks, FindRejected(a) PROVE TypeOK'
  BY <1>6 DEF FindRejected, Goto
<1>7. ASSUME NEW a \in Asks, FindApproved(a) PROVE TypeOK'
  BY <1>7 DEF FindApproved, Goto
<1>8. ASSUME NEW a \in Asks, FindInFlight(a) PROVE TypeOK'
  BY <1>8, RetryTyped DEF FindInFlight
<1>9. ASSUME NEW a \in Asks, Claim(a) PROVE TypeOK'
  BY <1>9, StoreMethodsTyped DEF Claim, Goto
<1>10. ASSUME NEW a \in Asks, LoseClaim(a) PROVE TypeOK'
  BY <1>10, RetryTyped DEF LoseClaim
<1>11. ASSUME NEW a \in Asks, ProviderTakes(a) PROVE TypeOK'
  BY <1>11 DEF ProviderTakes, Goto
<1>12. ASSUME NEW a \in Asks, ProviderRefuses(a) PROVE TypeOK'
  BY <1>12 DEF ProviderRefuses, Goto
<1>13. ASSUME NEW a \in Asks, AppendRefused(a) PROVE TypeOK'
  BY <1>13 DEF AppendRefused, Goto
<1>14. ASSUME NEW a \in Asks, AppendBegan(a) PROVE TypeOK'
  BY <1>14 DEF AppendBegan, Goto
<1>15. ASSUME NEW a \in Asks, Settle(a) PROVE TypeOK'
  BY <1>15, StoreMethodsTyped DEF Settle, Finish, Goto
<1>16. ASSUME NEW a \in Asks, Unwind(a) PROVE TypeOK'
  BY <1>16, StoreMethodsTyped DEF Unwind, Finish, Goto
<1>17. ASSUME NEW p \in Acts, ActBegins(p) PROVE TypeOK'
  <2>1. PICK r \in Asks, s \in ACTED :
          act' = [act EXCEPT ![p] = [pc |-> "judge", ref |-> r, resolution |-> s, at |-> 0]]
    BY <1>17 DEF ActBegins
  <2>2. [pc |-> "judge", ref |-> r, resolution |-> s, at |-> 0] \in Act  BY DEF Act
  <2>3. act' \in [Acts -> Act]  BY <2>1, <2>2
  <2> QED  BY <1>17, <2>3 DEF ActBegins
<1>18. ASSUME NEW p \in Acts, ActUnanswered(p) PROVE TypeOK'
  BY <1>18, ActUpdates DEF ActUnanswered
<1>19. ASSUME NEW p \in Acts, ActDated(p) PROVE TypeOK'
  <2>1. act[p] \in Act /\ now \in Nat /\ "write" \in ActSteps  OBVIOUS
  <2>2. [act[p] EXCEPT !.pc = "write", !.at = now] \in Act
    BY ONLY <2>1, ActUpdates, Zenon
  <2>3. act' = [act EXCEPT ![p] = [act[p] EXCEPT !.pc = "write", !.at = now]]
    BY <1>19 DEF ActDated
  <2>4. act' \in [Acts -> Act]  BY <2>2, <2>3
  <2> QED  BY <1>19, <2>4 DEF ActDated
<1>20. ASSUME NEW p \in Acts, ActApplied(p) PROVE TypeOK'
  <2>1. act[p].ref \in Asks /\ act[p].resolution \in ACTED /\ act[p].at \in Nat
    BY <1>20 DEF ActApplied, Act
  <2>2. wait' \in [Asks -> Wait]  BY <1>20, <2>1, StoreMethodsTyped DEF ActApplied
  <2>3. act' \in [Acts -> Act]  BY <1>20, ActUpdates DEF ActApplied
  <2> QED  BY <1>20, <2>2, <2>3 DEF ActApplied
<1>21. ASSUME NEW p \in Acts, ActLate(p) PROVE TypeOK'
  <2>1. act[p].ref \in Asks  BY <1>21 DEF ActLate
  <2>2. wait' \in [Asks -> Wait]  BY <1>21, <2>1, StoreMethodsTyped DEF ActLate
  <2>3. act' \in [Acts -> Act]  BY <1>21, ActUpdates DEF ActLate
  <2> QED  BY <1>21, <2>2, <2>3 DEF ActLate
<1>22. ASSUME NEW p \in Acts, ActRefused(p) PROVE TypeOK'
  BY <1>22, ActUpdates DEF ActRefused
<1>23. ASSUME NEW p \in Acts, ActRecorded(p) PROVE TypeOK'
  <2>1. PICK c \in {"recorded", "unrecorded"} : act' = [act EXCEPT ![p].pc = c]
    BY <1>23 DEF ActRecorded
  <2>2. act' \in [Acts -> Act]  BY <2>1, ActUpdates
  <2> QED  BY <1>23, <2>2 DEF ActRecorded
<1>24. ASSUME NEW h \in Holders, HolderWakes(h) PROVE TypeOK'
  BY <1>24, ActUpdates DEF HolderWakes, Sweep
<1>25. ASSUME NEW h \in Holders, HolderExpires(h) PROVE TypeOK'
  <2>1. sweep[h].at \in Nat  BY DEF Sweep
  <2>2. wait' \in [Asks -> Wait]  BY <1>25, <2>1, StoreMethodsTyped DEF HolderExpires
  <2>3. sweep' \in [Holders -> Sweep]  BY <1>25, ActUpdates DEF HolderExpires
  <2> QED  BY <1>25, <2>2, <2>3 DEF HolderExpires
<1>26. ASSUME NEW h \in Holders, HolderForgets(h) PROVE TypeOK'
  BY <1>26, StoreMethodsTyped, ActUpdates DEF HolderForgets, Sweep
<1>27. ASSUME Tick PROVE TypeOK'
  BY <1>27 DEF Tick
<1>28. ASSUME Restart PROVE TypeOK'
  <2>1. wait' \in [Asks -> Wait]  BY <1>28, StoreMethodsTyped DEF Restart
  <2>2. act' \in [Acts -> Act]  BY <1>28, ActUpdates DEF Restart
  <2>3. sweep' \in [Holders -> Sweep]  BY <1>28 DEF Restart, Sweep
  <2>4. pc' \in [Asks -> AskSteps]  BY <1>28 DEF Restart
  <2> QED  BY <1>28, <2>1, <2>2, <2>3, <2>4 DEF Restart
<1>29. ASSUME UNCHANGED vars PROVE TypeOK'
  BY <1>29 DEF vars
<1> QED
  BY <1>1, <1>2, <1>3, <1>4, <1>5, <1>6, <1>7, <1>8, <1>9, <1>10, <1>11,
     <1>12, <1>13, <1>14, <1>15, <1>16, <1>17, <1>18, <1>19, <1>20, <1>21,
     <1>22, <1>23, <1>24, <1>25, <1>26, <1>27, <1>28, <1>29
  DEF Next, AskStep, ActStep, HolderStep

(* Every step keeps the shapes.                                            *)
LEMMA ShapeStep ==
  ASSUME TypeOK, ConsultationShape, ActShape, [Next]_vars
  PROVE  ConsultationShape' /\ ActShape'
<1> USE DecisionsAssumption DEF TypeOK, StoreTypeOK, Wait, KeptStates, GoneStates,
      storeVars, askVars, BeforeOpening, NotConsulted, Act,
      ConsultationShape, ActShape, Spends, Opened, Began, NoAct, ACTED
<1>1. ASSUME NEW a \in Asks, Begin(a) PROVE ConsultationShape' /\ ActShape'
  BY <1>1 DEF Begin, Goto
<1>2. ASSUME NEW a \in Asks, AskExpires(a) PROVE ConsultationShape' /\ ActShape'
  BY <1>2 DEF AskExpires, Goto, expire_past, expired
<1>3. ASSUME NEW a \in Asks, AskForgets(a) PROVE ConsultationShape' /\ ActShape'
  BY <1>3 DEF AskForgets, Goto, Finish, forget_lapsed, Gone, Lapses
<1>4. ASSUME NEW a \in Asks, OpenWait(a) PROVE ConsultationShape' /\ ActShape'
  BY <1>4 DEF OpenWait, Goto, open
<1>5. ASSUME NEW a \in Asks, FindPublished(a) PROVE ConsultationShape' /\ ActShape'
  BY <1>5 DEF FindPublished, Goto
<1>6. ASSUME NEW a \in Asks, FindRejected(a) PROVE ConsultationShape' /\ ActShape'
  BY <1>6 DEF FindRejected, Goto
<1>7. ASSUME NEW a \in Asks, FindApproved(a) PROVE ConsultationShape' /\ ActShape'
  BY <1>7 DEF FindApproved, Goto
<1>8. ASSUME NEW a \in Asks, FindInFlight(a) PROVE ConsultationShape' /\ ActShape'
  BY <1>8 DEF FindInFlight, Retry, Goto, Finish
<1>9. ASSUME NEW a \in Asks, Claim(a) PROVE ConsultationShape' /\ ActShape'
  BY <1>9 DEF Claim, Goto, claim
<1>10. ASSUME NEW a \in Asks, LoseClaim(a) PROVE ConsultationShape' /\ ActShape'
  BY <1>10 DEF LoseClaim, Retry, Goto, Finish
<1>11. ASSUME NEW a \in Asks, ProviderTakes(a) PROVE ConsultationShape' /\ ActShape'
  BY <1>11 DEF ProviderTakes, Goto
<1>12. ASSUME NEW a \in Asks, ProviderRefuses(a) PROVE ConsultationShape' /\ ActShape'
  BY <1>12 DEF ProviderRefuses, Goto
<1>13. ASSUME NEW a \in Asks, AppendRefused(a) PROVE ConsultationShape' /\ ActShape'
  BY <1>13 DEF AppendRefused, Goto
<1>14. ASSUME NEW a \in Asks, AppendBegan(a) PROVE ConsultationShape' /\ ActShape'
  BY <1>14 DEF AppendBegan, Goto
<1>15. ASSUME NEW a \in Asks, Settle(a) PROVE ConsultationShape' /\ ActShape'
  BY <1>15 DEF Settle, Finish, Goto, publish, consume
<1>16. ASSUME NEW a \in Asks, Unwind(a) PROVE ConsultationShape' /\ ActShape'
  BY <1>16 DEF Unwind, Finish, Goto, release_claim, abandon, Gone
<1>17. ASSUME NEW p \in Acts, ActBegins(p) PROVE ConsultationShape' /\ ActShape'
  BY <1>17 DEF ActBegins
<1>18. ASSUME NEW p \in Acts, ActUnanswered(p) PROVE ConsultationShape' /\ ActShape'
  BY <1>18 DEF ActUnanswered
<1>19. ASSUME NEW p \in Acts, ActDated(p) PROVE ConsultationShape' /\ ActShape'
  BY <1>19 DEF ActDated
<1>20. ASSUME NEW p \in Acts, ActApplied(p) PROVE ConsultationShape' /\ ActShape'
  BY <1>20 DEF ActApplied, resolve, Resolvable
<1>21. ASSUME NEW p \in Acts, ActLate(p) PROVE ConsultationShape' /\ ActShape'
  BY <1>21 DEF ActLate, expired, Resolvable
<1>22. ASSUME NEW p \in Acts, ActRefused(p) PROVE ConsultationShape' /\ ActShape'
  BY <1>22 DEF ActRefused
<1>23. ASSUME NEW p \in Acts, ActRecorded(p) PROVE ConsultationShape' /\ ActShape'
  BY <1>23 DEF ActRecorded
<1>24. ASSUME NEW h \in Holders, HolderWakes(h) PROVE ConsultationShape' /\ ActShape'
  BY <1>24 DEF HolderWakes
<1>25. ASSUME NEW h \in Holders, HolderExpires(h) PROVE ConsultationShape' /\ ActShape'
  BY <1>25 DEF HolderExpires, expire_past, expired
<1>26. ASSUME NEW h \in Holders, HolderForgets(h) PROVE ConsultationShape' /\ ActShape'
  BY <1>26 DEF HolderForgets, forget_lapsed, Gone, Lapses
<1>27. ASSUME Tick PROVE ConsultationShape' /\ ActShape'
  BY <1>27 DEF Tick
<1>28. ASSUME Restart PROVE ConsultationShape' /\ ActShape'
  BY <1>28 DEF Restart, lose_all, Gone, Kept
<1>29. ASSUME UNCHANGED vars PROVE ConsultationShape' /\ ActShape'
  BY <1>29 DEF vars
<1> QED
  BY <1>1, <1>2, <1>3, <1>4, <1>5, <1>6, <1>7, <1>8, <1>9, <1>10, <1>11,
     <1>12, <1>13, <1>14, <1>15, <1>16, <1>17, <1>18, <1>19, <1>20, <1>21,
     <1>22, <1>23, <1>24, <1>25, <1>26, <1>27, <1>28, <1>29
  DEF Next, AskStep, ActStep, HolderStep

(* Both hold of the state the daemon starts in.                            *)
LEMMA InitShape == Init => TypeOK /\ ConsultationShape /\ ActShape
BY DecisionsAssumption DEF Init, StoreInit, TypeOK, StoreTypeOK, Wait, GoneStates, Gone,
   AskSteps, Outcomes, Appends, NotConsulted, Act, ActSteps, NoAct, Sweep,
   ConsultationShape, ActShape, Spends, Opened, Began

(* Every value the daemon's asks, acts and sweeps leave in memory has the  *)
(* type the code's records give it (TypeOK).                               *)
THEOREM TypeCorrect == Spec => []TypeOK
<1> DEFINE Inv == TypeOK /\ ConsultationShape /\ ActShape
<1>1. Init => Inv  BY InitShape DEF Inv
<1>2. Inv /\ [Next]_vars => Inv'
  BY TypeStep, ShapeStep DEF Inv
<1> QED
  BY <1>1, <1>2, PTL DEF Spec, Inv

-----------------------------------------------------------------------------
(* What the two halves of a sweep, and the end of the process, do to a     *)
(* record.                                                                 *)
LEMMA ExpiryEffect ==
  ASSUME wait \in [Asks -> Wait], NEW t \in Nat, wait' = expire_past(t), NEW r \in Asks
  PROVE  /\ wait'[r].claimed = wait[r].claimed
         /\ wait'[r].consumed = wait[r].consumed
         /\ wait'[r].published = wait[r].published
         /\ wait'[r].requested_at = wait[r].requested_at
         /\ wait'[r].deadline = wait[r].deadline
         /\ \/ wait'[r] = wait[r]
            \/ wait[r].state = "pending" /\ wait'[r].state = "expired"
<1>1. CASE wait[r].state = "pending" /\ wait[r].deadline <= t
  <2>1. wait'[r] = expired(wait[r])  BY <1>1 DEF expire_past
  <2>2. wait[r] \in Wait  OBVIOUS
  <2> QED  BY <1>1, <2>1, <2>2 DEF expired, Wait
<1>2. CASE ~ (wait[r].state = "pending" /\ wait[r].deadline <= t)
  BY <1>2 DEF expire_past
<1> QED  BY <1>1, <1>2

(* Forgetting leaves a question alone, or drops one that lapsed.           *)
LEMMA ForgettingEffect ==
  ASSUME wait \in [Asks -> Wait], NEW t \in Nat, wait' = forget_lapsed(t), NEW r \in Asks
  PROVE  \/ wait'[r] = wait[r]
         \/ wait'[r] = Gone("forgotten") /\ Lapses(wait[r])
BY DEF forget_lapsed

(* A loss leaves what is gone alone and takes what is kept.                *)
LEMMA LossEffect ==
  ASSUME wait \in [Asks -> Wait], wait' = lose_all, NEW r \in Asks
  PROVE  \/ wait'[r] = wait[r] /\ wait[r].state \in GoneStates
         \/ wait'[r] = Gone("lost") /\ wait[r].state \in KeptStates
BY DEF lose_all, Kept, Wait

(* Only an approved record is claimed and only a claimed one spent.        *)
LEMMA SpendShapeStep ==
  ASSUME TypeOK, ConsultationShape, ActShape, SpendShape,
         [Next]_vars
  PROVE  SpendShape'
<1> USE DecisionsAssumption DEF TypeOK, StoreTypeOK
<1>1. ASSUME NEW a \in Asks, Begin(a) PROVE SpendShape'
  BY <1>1 DEF Begin, Goto, storeVars, SpendShape
<1>2. ASSUME NEW a \in Asks, AskExpires(a) PROVE SpendShape'
  BY <1>2, ExpiryEffect DEF AskExpires, SpendShape
<1>3. ASSUME NEW a \in Asks, AskForgets(a) PROVE SpendShape'
  BY <1>3 DEF AskForgets, Goto, Finish, forget_lapsed, Gone, Lapses, SpendShape
<1>4. ASSUME NEW a \in Asks, OpenWait(a) PROVE SpendShape'
  BY <1>4 DEF OpenWait, Goto, open, SpendShape
<1>5. ASSUME NEW a \in Asks, FindPublished(a) PROVE SpendShape'
  BY <1>5 DEF FindPublished, Goto, storeVars, SpendShape
<1>6. ASSUME NEW a \in Asks, FindRejected(a) PROVE SpendShape'
  BY <1>6 DEF FindRejected, Goto, storeVars, SpendShape
<1>7. ASSUME NEW a \in Asks, FindApproved(a) PROVE SpendShape'
  BY <1>7 DEF FindApproved, Goto, storeVars, SpendShape
<1>8. ASSUME NEW a \in Asks, FindInFlight(a) PROVE SpendShape'
  BY <1>8 DEF FindInFlight, Retry, Goto, Finish, storeVars, SpendShape
<1>9. ASSUME NEW a \in Asks, Claim(a) PROVE SpendShape'
  BY <1>9 DEF Claim, Goto, claim, Claimable, SpendShape
<1>10. ASSUME NEW a \in Asks, LoseClaim(a) PROVE SpendShape'
  BY <1>10 DEF LoseClaim, Retry, Goto, Finish, storeVars, SpendShape
<1>11. ASSUME NEW a \in Asks, ProviderTakes(a) PROVE SpendShape'
  BY <1>11 DEF ProviderTakes, Goto, storeVars, SpendShape
<1>12. ASSUME NEW a \in Asks, ProviderRefuses(a) PROVE SpendShape'
  BY <1>12 DEF ProviderRefuses, Goto, storeVars, SpendShape
<1>13. ASSUME NEW a \in Asks, AppendRefused(a) PROVE SpendShape'
  BY <1>13 DEF AppendRefused, Goto, storeVars, SpendShape
<1>14. ASSUME NEW a \in Asks, AppendBegan(a) PROVE SpendShape'
  BY <1>14 DEF AppendBegan, Goto, storeVars, SpendShape
<1>15. ASSUME NEW a \in Asks, Settle(a) PROVE SpendShape'
  BY <1>15 DEF Settle, Finish, Goto, publish, consume, SpendShape
<1>16. ASSUME NEW a \in Asks, Unwind(a) PROVE SpendShape'
  BY <1>16 DEF Unwind, Finish, Goto, release_claim, abandon, Gone, SpendShape
<1>17. ASSUME NEW p \in Acts, ActBegins(p) PROVE SpendShape'
  BY <1>17 DEF ActBegins, storeVars, askVars, SpendShape
<1>18. ASSUME NEW p \in Acts, ActUnanswered(p) PROVE SpendShape'
  BY <1>18 DEF ActUnanswered, storeVars, askVars, SpendShape
<1>19. ASSUME NEW p \in Acts, ActDated(p) PROVE SpendShape'
  BY <1>19 DEF ActDated, storeVars, askVars, SpendShape
<1>20. ASSUME NEW p \in Acts, ActApplied(p) PROVE SpendShape'
  BY <1>20 DEF ActApplied, resolve, Resolvable, askVars, SpendShape
<1>21. ASSUME NEW p \in Acts, ActLate(p) PROVE SpendShape'
  BY <1>21 DEF ActLate, expired, Resolvable, askVars, SpendShape
<1>22. ASSUME NEW p \in Acts, ActRefused(p) PROVE SpendShape'
  BY <1>22 DEF ActRefused, storeVars, askVars, SpendShape
<1>23. ASSUME NEW p \in Acts, ActRecorded(p) PROVE SpendShape'
  BY <1>23 DEF ActRecorded, storeVars, askVars, SpendShape
<1>24. ASSUME NEW h \in Holders, HolderWakes(h) PROVE SpendShape'
  BY <1>24 DEF HolderWakes, storeVars, askVars, SpendShape
<1>25. ASSUME NEW h \in Holders, HolderExpires(h) PROVE SpendShape'
  <2>1. sweep[h].at \in Nat  BY DEF Sweep
  <2> QED  BY <1>25, <2>1, ExpiryEffect DEF HolderExpires, SpendShape
<1>26. ASSUME NEW h \in Holders, HolderForgets(h) PROVE SpendShape'
  BY <1>26 DEF HolderForgets, forget_lapsed, Gone, Lapses, storeVars, askVars, SpendShape
<1>27. ASSUME Tick PROVE SpendShape'
  BY <1>27 DEF Tick, askVars, SpendShape
<1>28. ASSUME Restart PROVE SpendShape'
  BY <1>28 DEF Restart, lose_all, Gone, Kept, SpendShape
<1>29. ASSUME UNCHANGED vars PROVE SpendShape'
  BY <1>29 DEF vars, storeVars, askVars, SpendShape
<1> QED
  BY <1>1, <1>2, <1>3, <1>4, <1>5, <1>6, <1>7, <1>8, <1>9, <1>10, <1>11,
     <1>12, <1>13, <1>14, <1>15, <1>16, <1>17, <1>18, <1>19, <1>20, <1>21,
     <1>22, <1>23, <1>24, <1>25, <1>26, <1>27, <1>28, <1>29
  DEF Next, AskStep, ActStep, HolderStep

(* Whoever holds an execution holds it alone.                              *)
LEMMA HeldStep ==
  ASSUME TypeOK, ConsultationShape, ActShape, SpendShape, HeldExecution,
         [Next]_vars
  PROVE  HeldExecution'
<1> USE DecisionsAssumption DEF TypeOK, StoreTypeOK, Holds, Holding, Spends
<1>1. ASSUME NEW a \in Asks, Begin(a) PROVE HeldExecution'
  BY <1>1 DEF Begin, Goto, storeVars, HeldExecution
<1>2. ASSUME NEW a \in Asks, AskExpires(a) PROVE HeldExecution'
  BY <1>2, ExpiryEffect DEF AskExpires, Goto, HeldExecution
<1>3. ASSUME NEW a \in Asks, AskForgets(a) PROVE HeldExecution'
  <2>1. pc' = [pc EXCEPT ![a] = "consult"] \/ pc' = [pc EXCEPT ![a] = "done"]
    BY <1>3 DEF AskForgets, Goto, Finish
  <2>2. \A r \in Asks : wait'[r] = wait[r] \/ Lapses(wait[r])
    BY <1>3, ForgettingEffect DEF AskForgets
  <2>3. UNCHANGED consulted BY <1>3 DEF AskForgets
  <2> QED  BY <2>1, <2>2, <2>3 DEF HeldExecution, Lapses
<1>4. ASSUME NEW a \in Asks, OpenWait(a) PROVE HeldExecution'
  <2>1. \A r \in Asks : r # a => wait'[r] = wait[r]  BY <1>4 DEF OpenWait, open
  <2>2. wait[a].state = "none"  BY <1>4 DEF OpenWait, Goto, ConsultationShape, BeforeOpening
  <2>3. \A b \in Asks, r \in Asks : Holds(b, r)' => Holds(b, r) /\ b # a
    BY <1>4 DEF OpenWait, Goto
  <2> QED  BY <2>1, <2>2, <2>3 DEF HeldExecution
<1>5. ASSUME NEW a \in Asks, FindPublished(a) PROVE HeldExecution'
  BY <1>5 DEF FindPublished, Goto, storeVars, HeldExecution
<1>6. ASSUME NEW a \in Asks, FindRejected(a) PROVE HeldExecution'
  BY <1>6 DEF FindRejected, Goto, storeVars, HeldExecution
<1>7. ASSUME NEW a \in Asks, FindApproved(a) PROVE HeldExecution'
  BY <1>7 DEF FindApproved, Goto, storeVars, HeldExecution
<1>8. ASSUME NEW a \in Asks, FindInFlight(a) PROVE HeldExecution'
  BY <1>8 DEF FindInFlight, Retry, Goto, Finish, storeVars, HeldExecution
<1>9. ASSUME NEW a \in Asks, Claim(a) PROVE HeldExecution'
  <2>1. PICK ref \in Asks : ref = consulted[a].ref  BY <1>9 DEF Claim, Goto, ConsultationShape
  <2>2. wait[ref].state = "approved" /\ ~ wait[ref].claimed /\ ~ wait[ref].consumed
    BY <1>9, <2>1 DEF Claim, Claimable
  <2>3. \A b \in Asks : ~ Holds(b, ref)  BY <2>1, <2>2 DEF HeldExecution
  <2>4. \A r \in Asks : /\ wait'[r].state = wait[r].state
                        /\ wait'[r].consumed = wait[r].consumed
                        /\ wait'[r].claimed = (IF r = ref THEN TRUE ELSE wait[r].claimed)
    BY <1>9, <2>1 DEF Claim, claim, Wait
  <2>5. \A b \in Asks, r \in Asks : Holds(b, r)' => (Holds(b, r) /\ b # a) \/ (b = a /\ r = ref)
    BY <1>9, <2>1 DEF Claim, Goto
  <2>6. \A b \in Asks : Holds(b, ref)' => b = a  BY <2>1, <2>3, <2>5
  <2>7. \A b \in Asks, r \in Asks : r # ref /\ Holds(b, r)' => Holds(b, r)  BY <2>5
  <2>8. \A r \in Asks : r # ref => wait'[r].claimed = wait[r].claimed  BY <2>4
  <2> SUFFICES ASSUME NEW b \in Asks, NEW r \in Asks, Holds(b, r)'
               PROVE  /\ wait'[r].state = "approved" /\ wait'[r].claimed /\ ~ wait'[r].consumed
                      /\ \A c \in Asks : Holds(c, r)' => b = c
    BY DEF HeldExecution
  <2>9. CASE r = ref  BY <2>2, <2>4, <2>6, <2>9
  <2>10. CASE r # ref
    <3>1. Holds(b, r) /\ \A c \in Asks : Holds(c, r)' => Holds(c, r)  BY <2>7, <2>10
    <3>2. \A c \in Asks : Holds(c, r) => b = c  BY <3>1 DEF HeldExecution
    <3>3. wait[r].state = "approved" /\ wait[r].claimed /\ ~ wait[r].consumed
      BY <3>1 DEF HeldExecution
    <3> QED  BY <3>1, <3>2, <3>3, <2>4, <2>8, <2>10
  <2> QED  BY <2>9, <2>10
<1>10. ASSUME NEW a \in Asks, LoseClaim(a) PROVE HeldExecution'
  BY <1>10 DEF LoseClaim, Retry, Goto, Finish, storeVars, HeldExecution
<1>11. ASSUME NEW a \in Asks, ProviderTakes(a) PROVE HeldExecution'
  BY <1>11 DEF ProviderTakes, Goto, storeVars, HeldExecution, ConsultationShape, ActShape,
     NotConsulted, SpendShape
<1>12. ASSUME NEW a \in Asks, ProviderRefuses(a) PROVE HeldExecution'
  BY <1>12 DEF ProviderRefuses, Goto, storeVars, HeldExecution, ConsultationShape, ActShape,
     NotConsulted, SpendShape
<1>13. ASSUME NEW a \in Asks, AppendRefused(a) PROVE HeldExecution'
  BY <1>13 DEF AppendRefused, Goto, storeVars, HeldExecution
<1>14. ASSUME NEW a \in Asks, AppendBegan(a) PROVE HeldExecution'
  BY <1>14 DEF AppendBegan, Goto, storeVars, HeldExecution
<1>15. ASSUME NEW a \in Asks, Settle(a) PROVE HeldExecution'
  BY <1>15 DEF Settle, Finish, Goto, publish, consume, HeldExecution
<1>16. ASSUME NEW a \in Asks, Unwind(a) PROVE HeldExecution'
  BY <1>16 DEF Unwind, Finish, Goto, release_claim, abandon, Gone, HeldExecution
<1>17. ASSUME NEW p \in Acts, ActBegins(p) PROVE HeldExecution'
  BY <1>17 DEF ActBegins, storeVars, askVars, HeldExecution
<1>18. ASSUME NEW p \in Acts, ActUnanswered(p) PROVE HeldExecution'
  BY <1>18 DEF ActUnanswered, storeVars, askVars, HeldExecution
<1>19. ASSUME NEW p \in Acts, ActDated(p) PROVE HeldExecution'
  BY <1>19 DEF ActDated, storeVars, askVars, HeldExecution
<1>20. ASSUME NEW p \in Acts, ActApplied(p) PROVE HeldExecution'
  BY <1>20 DEF ActApplied, resolve, Resolvable, askVars, HeldExecution
<1>21. ASSUME NEW p \in Acts, ActLate(p) PROVE HeldExecution'
  BY <1>21 DEF ActLate, expired, Resolvable, askVars, HeldExecution
<1>22. ASSUME NEW p \in Acts, ActRefused(p) PROVE HeldExecution'
  BY <1>22 DEF ActRefused, storeVars, askVars, HeldExecution
<1>23. ASSUME NEW p \in Acts, ActRecorded(p) PROVE HeldExecution'
  BY <1>23 DEF ActRecorded, storeVars, askVars, HeldExecution
<1>24. ASSUME NEW h \in Holders, HolderWakes(h) PROVE HeldExecution'
  BY <1>24 DEF HolderWakes, storeVars, askVars, HeldExecution
<1>25. ASSUME NEW h \in Holders, HolderExpires(h) PROVE HeldExecution'
  <2>1. sweep[h].at \in Nat  BY DEF Sweep
  <2> QED  BY <1>25, <2>1, ExpiryEffect DEF HolderExpires, HeldExecution, askVars
<1>26. ASSUME NEW h \in Holders, HolderForgets(h) PROVE HeldExecution'
  BY <1>26 DEF HolderForgets, forget_lapsed, Gone, Lapses, storeVars, askVars, HeldExecution
<1>27. ASSUME Tick PROVE HeldExecution'
  BY <1>27 DEF Tick, askVars, HeldExecution
<1>28. ASSUME Restart PROVE HeldExecution'
  BY <1>28 DEF Restart, lose_all, Gone, Kept, HeldExecution
<1>29. ASSUME UNCHANGED vars PROVE HeldExecution'
  BY <1>29 DEF vars, storeVars, askVars, HeldExecution
<1> QED
  BY <1>1, <1>2, <1>3, <1>4, <1>5, <1>6, <1>7, <1>8, <1>9, <1>10, <1>11,
     <1>12, <1>13, <1>14, <1>15, <1>16, <1>17, <1>18, <1>19, <1>20, <1>21,
     <1>22, <1>23, <1>24, <1>25, <1>26, <1>27, <1>28, <1>29
  DEF Next, AskStep, ActStep, HolderStep

(* An execution behind an append that began stays out of reach.            *)
LEMMA SpentStep ==
  ASSUME TypeOK, ConsultationShape, ActShape, SpendShape, HeldExecution, SpentForGood,
         [Next]_vars
  PROVE  SpentForGood'
<1> USE DecisionsAssumption DEF TypeOK, StoreTypeOK, Spends, OutOfReach, Began
<1>1. ASSUME NEW a \in Asks, Begin(a) PROVE SpentForGood'
  BY <1>1 DEF Begin, Goto, storeVars, SpentForGood
<1>2. ASSUME NEW a \in Asks, AskExpires(a) PROVE SpentForGood'
  <2>1. \A r \in Asks : OutOfReach(r) => OutOfReach(r)'  BY <1>2, ExpiryEffect DEF AskExpires
  <2>2. UNCHANGED <<consulted,
     appended>> /\ \A b \in Asks : pc[b] = "settle" => pc'[b] = "settle"
    BY <1>2 DEF AskExpires, Goto
  <2> QED  BY <2>1, <2>2 DEF SpentForGood
<1>3. ASSUME NEW a \in Asks, AskForgets(a) PROVE SpentForGood'
  BY <1>3 DEF AskForgets, Goto, Finish, forget_lapsed, Gone, Lapses, SpentForGood
<1>4. ASSUME NEW a \in Asks, OpenWait(a) PROVE SpentForGood'
  <2>1. \A r \in Asks : r # a => wait'[r] = wait[r]  BY <1>4 DEF OpenWait, open
  <2>2. ~ OutOfReach(a)
    BY <1>4 DEF OpenWait, Goto, ConsultationShape, BeforeOpening, SpendShape
  <2>3. consulted' = [consulted EXCEPT ![a] = [outcome |-> "suspend", ref |-> a]]
    BY <1>4 DEF OpenWait
  <2>4. UNCHANGED appended /\ \A b \in Asks : b # a => pc'[b] = pc[b]  BY <1>4 DEF OpenWait,
     Goto
  <2>5. \A b \in Asks : Began(b) /\ Spends(b) /\ consulted[b].ref = a => pc[b] = "settle"
    BY <2>2 DEF SpentForGood
  <2>6. \A b \in Asks : pc[b] = "settle" /\ Spends(b) => consulted[b].ref # a
    BY <1>4 DEF OpenWait, Goto, ConsultationShape, BeforeOpening, HeldExecution, Holds, Holding
  <2> QED  BY <2>1, <2>2, <2>3, <2>4, <2>5, <2>6 DEF SpentForGood
<1>5. ASSUME NEW a \in Asks, FindPublished(a) PROVE SpentForGood'
  BY <1>5 DEF FindPublished, Goto, storeVars, SpentForGood
<1>6. ASSUME NEW a \in Asks, FindRejected(a) PROVE SpentForGood'
  BY <1>6 DEF FindRejected, Goto, storeVars, SpentForGood
<1>7. ASSUME NEW a \in Asks, FindApproved(a) PROVE SpentForGood'
  BY <1>7 DEF FindApproved, Goto, storeVars, SpentForGood
<1>8. ASSUME NEW a \in Asks, FindInFlight(a) PROVE SpentForGood'
  <2>1. UNCHANGED <<wait, appended>>  BY <1>8 DEF FindInFlight, Retry, storeVars
  <2>2. consulted' = [consulted EXCEPT ![a] = NotConsulted]  BY <1>8 DEF FindInFlight, Retry
  <2>3. \A b \in Asks : b # a => pc'[b] = pc[b]  BY <1>8 DEF FindInFlight, Retry, Goto, Finish
  <2> QED  BY <2>1, <2>2, <2>3 DEF SpentForGood, NotConsulted
<1>9. ASSUME NEW a \in Asks, Claim(a) PROVE SpentForGood'
  BY <1>9 DEF Claim, Goto, claim, Claimable, SpentForGood, ConsultationShape, NotConsulted,
     HeldExecution, Holds, Holding, Opened
<1>10. ASSUME NEW a \in Asks, LoseClaim(a) PROVE SpentForGood'
  BY <1>10 DEF LoseClaim, Retry, Goto, Finish, storeVars, SpentForGood, ConsultationShape,
     NotConsulted, HeldExecution, Holds, Holding, Opened
<1>11. ASSUME NEW a \in Asks, ProviderTakes(a) PROVE SpentForGood'
  BY <1>11 DEF ProviderTakes, Goto, storeVars, SpentForGood
<1>12. ASSUME NEW a \in Asks, ProviderRefuses(a) PROVE SpentForGood'
  BY <1>12 DEF ProviderRefuses, Goto, storeVars, SpentForGood
<1>13. ASSUME NEW a \in Asks, AppendRefused(a) PROVE SpentForGood'
  BY <1>13 DEF AppendRefused, Goto, storeVars, SpentForGood
<1>14. ASSUME NEW a \in Asks, AppendBegan(a) PROVE SpentForGood'
  <2>1. \A r \in Asks, b \in Asks : Spends(a) /\ consulted[a].ref = r
          => ~ (Began(b) /\ Spends(b) /\ consulted[b].ref = r)
    BY <1>14 DEF AppendBegan, Goto, HeldExecution, Holds, Holding, SpentForGood
  <2>2. UNCHANGED <<wait, consulted>> /\ pc' = [pc EXCEPT ![a] = "settle"]
    BY <1>14 DEF AppendBegan, Goto, storeVars
  <2>3. \A b \in Asks : b # a => appended'[b] = appended[b]  BY <1>14 DEF AppendBegan
  <2> QED  BY <2>1, <2>2, <2>3 DEF SpentForGood
<1>15. ASSUME NEW a \in Asks, Settle(a) PROVE SpentForGood'
  BY <1>15 DEF Settle, Finish, Goto, publish, consume, SpentForGood, ConsultationShape,
     NotConsulted, HeldExecution, Holds, Holding, Opened
<1>16. ASSUME NEW a \in Asks, Unwind(a) PROVE SpentForGood'
  <2>1. \A r \in Asks : OutOfReach(r) => OutOfReach(r)'
    BY <1>16 DEF Unwind, release_claim, abandon, Gone, Wait
  <2>2. UNCHANGED <<consulted,
     appended>> /\ \A b \in Asks : pc'[b] = "settle" <=> pc[b] = "settle"
    BY <1>16 DEF Unwind, Finish, Goto
  <2> QED  BY <2>1, <2>2 DEF SpentForGood
<1>17. ASSUME NEW p \in Acts, ActBegins(p) PROVE SpentForGood'
  <2>1. UNCHANGED <<wait, pc, consulted, appended>>  BY <1>17 DEF ActBegins, storeVars, askVars
  <2> QED  BY <2>1 DEF SpentForGood
<1>18. ASSUME NEW p \in Acts, ActUnanswered(p) PROVE SpentForGood'
  BY <1>18 DEF ActUnanswered, storeVars, askVars, SpentForGood
<1>19. ASSUME NEW p \in Acts, ActDated(p) PROVE SpentForGood'
  BY <1>19 DEF ActDated, storeVars, askVars, SpentForGood
<1>20. ASSUME NEW p \in Acts, ActApplied(p) PROVE SpentForGood'
  <2>1. act[p].ref \in Asks  BY <1>20 DEF ActApplied, ActShape
  <2>2. ~ OutOfReach(act[p].ref)
    BY <1>20, <2>1 DEF ActApplied, Resolvable, SpendShape
  <2>3. \A r \in Asks : r # act[p].ref => wait'[r] = wait[r]  BY <1>20, <2>1 DEF ActApplied,
     resolve
  <2> QED  BY <1>20, <2>2, <2>3 DEF SpentForGood, ActApplied, askVars
<1>21. ASSUME NEW p \in Acts, ActLate(p) PROVE SpentForGood'
  BY <1>21 DEF ActLate, expired, Resolvable, askVars, SpentForGood
<1>22. ASSUME NEW p \in Acts, ActRefused(p) PROVE SpentForGood'
  BY <1>22 DEF ActRefused, storeVars, askVars, SpentForGood
<1>23. ASSUME NEW p \in Acts, ActRecorded(p) PROVE SpentForGood'
  BY <1>23 DEF ActRecorded, storeVars, askVars, SpentForGood
<1>24. ASSUME NEW h \in Holders, HolderWakes(h) PROVE SpentForGood'
  BY <1>24 DEF HolderWakes, storeVars, askVars, SpentForGood
<1>25. ASSUME NEW h \in Holders, HolderExpires(h) PROVE SpentForGood'
  <2>1. sweep[h].at \in Nat  BY DEF Sweep
  <2>2. \A r \in Asks : OutOfReach(r) => OutOfReach(r)'  BY <1>25, <2>1,
     ExpiryEffect DEF HolderExpires
  <2> QED  BY <1>25, <2>2 DEF SpentForGood, HolderExpires, askVars
<1>26. ASSUME NEW h \in Holders, HolderForgets(h) PROVE SpentForGood'
  BY <1>26 DEF HolderForgets, forget_lapsed, Gone, Lapses, storeVars, askVars, SpentForGood
<1>27. ASSUME Tick PROVE SpentForGood'
  BY <1>27 DEF Tick, askVars, SpentForGood
<1>28. ASSUME Restart PROVE SpentForGood'
  <2>1. \A r \in Asks : (OutOfReach(r) \/ wait[r].state \in KeptStates) => OutOfReach(r)'
    BY <1>28, LossEffect DEF Restart, Gone, KeptStates, GoneStates, Wait
  <2>2. \A a \in Asks, r \in Asks : pc[a] = "settle" /\ Spends(a) /\ consulted[a].ref = r
          => wait[r].state \in KeptStates
    BY DEF HeldExecution, Holds, Holding, KeptStates
  <2>3. UNCHANGED <<consulted, appended>>  BY <1>28 DEF Restart
  <2> QED  BY <2>1, <2>2, <2>3 DEF SpentForGood
<1>29. ASSUME UNCHANGED vars PROVE SpentForGood'
  BY <1>29 DEF vars, storeVars, askVars, SpentForGood
<1> QED
  BY <1>1, <1>2, <1>3, <1>4, <1>5, <1>6, <1>7, <1>8, <1>9, <1>10, <1>11,
     <1>12, <1>13, <1>14, <1>15, <1>16, <1>17, <1>18, <1>19, <1>20, <1>21,
     <1>22, <1>23, <1>24, <1>25, <1>26, <1>27, <1>28, <1>29
  DEF Next, AskStep, ActStep, HolderStep

(* What the theorems below rest on, together.                              *)
LEMMA Executions == Spec => [](TypeOK /\ ActShape /\ ExecutionInv)
<1> DEFINE Inv == TypeOK /\ ActShape /\ ExecutionInv
<1>1. Init => Inv
  <2>1. Init => TypeOK /\ ConsultationShape /\ ActShape  BY InitShape
  <2>2. ASSUME Init PROVE SpendShape
    <3>1. \A r \in Asks : wait[r] = Gone("none")  BY <2>2 DEF Init, StoreInit
    <3>2. ~ Gone("none").claimed /\ ~ Gone("none").consumed  BY DEF Gone
    <3> QED  BY <3>1, <3>2 DEF SpendShape
  <2>3. Init => HeldExecution  BY DEF Init, HeldExecution, Holds, Holding
  <2>4. Init => SpentForGood  BY DEF Init, SpentForGood, Began
  <2> QED  BY <2>1, <2>2, <2>3, <2>4 DEF Inv, ExecutionInv
<1>2. Inv /\ [Next]_vars => Inv'
  BY TypeStep, ShapeStep, SpendShapeStep, HeldStep, SpentStep DEF Inv, ExecutionInv
<1> QED  BY <1>1, <1>2, PTL DEF Spec, Inv

(* One resolution authorises one execution: whatever asks, failed and      *)
(* indeterminate appends, sweeps and restarts do, two allows on the chain  *)
(* never name the same wait (OneExecutionPerAct; claim, release_claim and  *)
(* consume of the approval store).                                         *)
THEOREM OneExecution == Spec => []OneExecutionPerAct
<1> DEFINE Inv == TypeOK /\ ActShape /\ ExecutionInv
<1>1. Spec => []Inv  BY Executions DEF Inv
<1>2. Inv => OneExecutionPerAct
  <2> SUFFICES ASSUME Inv, NEW a \in Asks, NEW b \in Asks,
                      Committed(a), consulted[a].outcome = "allow",
                      Committed(b), consulted[b].outcome = "allow",
                      consulted[a].ref = consulted[b].ref
               PROVE  a = b
    BY DEF OneExecutionPerAct
  <2>1. Began(a) /\ Spends(a) /\ Began(b) /\ Spends(b)  BY DEF Committed, Began, Spends
  <2>2. PICK r \in Asks : consulted[a].ref = r
    BY <2>1 DEF Inv, ExecutionInv, ConsultationShape
  <2> QED  BY <2>1, <2>2 DEF Inv, ExecutionInv, SpentForGood
<1> QED
  BY <1>1, <1>2, PTL

-----------------------------------------------------------------------------
(* People's acts: what stands on them and how long they stand.             *)

(* Asks, acts and sweeps each leave alone what belongs to the others.      *)
LEMMA Frames ==
  /\ \A a \in Asks : Begin(a) \/ AskStep(a)
       => UNCHANGED <<question, now, act, sweep, restarts>>
  /\ \A p \in Acts : ActBegins(p) \/ ActStep(p)
       => UNCHANGED <<question, now, opened, askVars, sweep, restarts>>
  /\ \A h \in Holders : HolderStep(h)
       => UNCHANGED <<question, now, opened, askVars, act, restarts>>
<1>1. ASSUME NEW a \in Asks, Begin(a) \/ AskStep(a)
      PROVE  UNCHANGED <<question, now, act, sweep, restarts>>
  BY <1>1 DEF AskStep, Begin, AskExpires, AskForgets, OpenWait, FindPublished, FindRejected,
     FindApproved, FindInFlight, Retry, Claim, LoseClaim, ProviderTakes, ProviderRefuses,
     AppendRefused, AppendBegan, Settle, Unwind, storeVars
<1>2. ASSUME NEW p \in Acts, ActBegins(p) \/ ActStep(p)
      PROVE  UNCHANGED <<question, now, opened, askVars, sweep, restarts>>
  BY <1>2 DEF ActStep, ActBegins, ActUnanswered, ActDated, ActApplied, ActLate, ActRefused,
     ActRecorded, storeVars
<1>3. ASSUME NEW h \in Holders, HolderStep(h)
      PROVE  UNCHANGED <<question, now, opened, askVars, act, restarts>>
  BY <1>3 DEF HolderStep, HolderWakes, HolderExpires, HolderForgets, storeVars
<1> QED  BY <1>1, <1>2, <1>3

(* An act that was applied is never taken back.                            *)
LEMMA ApprovalsStay ==
  ASSUME TypeOK, [Next]_vars, NEW r \in Asks, Approved(r)
  PROVE  Approved(r)'
<1> DEFINE AppliedTo(p) ==
      /\ act[p].pc \in {"applied", "recorded", "unrecorded"}
      /\ act[p].ref = r
      /\ act[p].resolution = "approved"
<1>1. PICK p \in Acts : AppliedTo(p)  BY DEF Approved
<1>2. act \in [Acts -> Act]  BY DEF TypeOK
<1>3. ASSUME UNCHANGED act PROVE AppliedTo(p)'  BY <1>1, <1>3
<1>4. ASSUME NEW q \in Acts, ActBegins(q) \/ ActStep(q) PROVE AppliedTo(p)'
  <2>1. CASE q = p
    <3>1. PICK c \in {"recorded", "unrecorded"} : act' = [act EXCEPT ![p].pc = c]
      BY <1>1, <1>4, <2>1 DEF ActBegins, ActStep, ActUnanswered, ActDated, ActApplied,
         ActLate, ActRefused, ActRecorded
    <3> QED  BY <1>1, <1>2, <3>1 DEF Act
  <2>2. CASE q # p
    <3>1. act'[p] = act[p]
      BY <1>2, <1>4, <2>2 DEF ActBegins, ActStep, ActUnanswered, ActDated, ActApplied,
         ActLate, ActRefused, ActRecorded
    <3> QED  BY <1>1, <3>1
  <2> QED  BY <2>1, <2>2
<1>5. ASSUME Restart PROVE AppliedTo(p)'
  <2>1. act'[p] = act[p] \/ act'[p] = [act[p] EXCEPT !.pc = "unrecorded"]
    BY <1>1, <1>5 DEF Restart
  <2> QED  BY <1>1, <1>2, <2>1 DEF Act
<1>6. AppliedTo(p)'
  BY <1>3, <1>4, <1>5, Frames DEF Next, Tick, vars
<1> QED  BY <1>6 DEF Approved

(* Whatever is spent stands on an act.                                     *)
LEMMA ApprovalStep ==
  ASSUME TypeOK, ConsultationShape, ActShape, ApprovalInv,
         [Next]_vars
  PROVE  ApprovalInv'
<1> USE DecisionsAssumption DEF TypeOK, StoreTypeOK, Spends
<1>0. \A r \in Asks : Approved(r) => Approved(r)'  BY ApprovalsStay
<1>1. ASSUME NEW a \in Asks, Begin(a) PROVE ApprovalInv'
  BY <1>1, <1>0 DEF Begin, Goto, storeVars, askVars, ApprovalInv
<1>2. ASSUME NEW a \in Asks, AskExpires(a) PROVE ApprovalInv'
  <2>1. \A r \in Asks : wait'[r].state = "approved" => wait[r].state = "approved"
    BY <1>2, ExpiryEffect DEF AskExpires
  <2>2. UNCHANGED consulted /\ pc' = [pc EXCEPT ![a] = "forget"]  BY <1>2 DEF
     AskExpires, Goto
  <2> QED  BY <1>0, <2>1, <2>2 DEF ApprovalInv
<1>3. ASSUME NEW a \in Asks, AskForgets(a) PROVE ApprovalInv'
  BY <1>3, <1>0 DEF AskForgets, Goto, Finish, forget_lapsed, Gone, Lapses, storeVars,
     askVars, ApprovalInv
<1>4. ASSUME NEW a \in Asks, OpenWait(a) PROVE ApprovalInv'
  BY <1>4, <1>0 DEF OpenWait, Goto, open, storeVars, askVars, ApprovalInv
<1>5. ASSUME NEW a \in Asks, FindPublished(a) PROVE ApprovalInv'
  BY <1>5, <1>0 DEF FindPublished, Goto, storeVars, askVars, ApprovalInv
<1>6. ASSUME NEW a \in Asks, FindRejected(a) PROVE ApprovalInv'
  BY <1>6, <1>0 DEF FindRejected, Goto, storeVars, askVars, ApprovalInv
<1>7. ASSUME NEW a \in Asks, FindApproved(a) PROVE ApprovalInv'
  BY <1>7, <1>0 DEF FindApproved, Goto, storeVars, askVars, ApprovalInv
<1>8. ASSUME NEW a \in Asks, FindInFlight(a) PROVE ApprovalInv'
  <2>1. UNCHANGED wait  BY <1>8 DEF FindInFlight, Retry, storeVars
  <2>2. consulted' = [consulted EXCEPT ![a] = NotConsulted]  BY <1>8 DEF
     FindInFlight, Retry
  <2>3. \A b \in Asks : pc'[b] = "claim" => b # a /\ pc[b] = "claim"
    BY <1>8 DEF FindInFlight, Retry, Goto, Finish
  <2> QED  BY <1>0, <2>1, <2>2, <2>3 DEF ApprovalInv, NotConsulted
<1>9. ASSUME NEW a \in Asks, Claim(a) PROVE ApprovalInv'
  BY <1>9, <1>0 DEF Claim, Goto, claim, Claimable, storeVars, askVars, ApprovalInv
<1>10. ASSUME NEW a \in Asks, LoseClaim(a) PROVE ApprovalInv'
  <2>1. UNCHANGED wait  BY <1>10 DEF LoseClaim, Retry, storeVars
  <2>2. consulted' = [consulted EXCEPT ![a] = NotConsulted]  BY <1>10 DEF LoseClaim,
     Retry
  <2>3. \A b \in Asks : pc'[b] = "claim" => b # a /\ pc[b] = "claim"
    BY <1>10 DEF LoseClaim, Retry, Goto, Finish
  <2> QED  BY <1>0, <2>1, <2>2, <2>3 DEF ApprovalInv, NotConsulted
<1>11. ASSUME NEW a \in Asks, ProviderTakes(a) PROVE ApprovalInv'
  BY <1>11, <1>0 DEF ProviderTakes, Goto, storeVars, askVars, ApprovalInv
<1>12. ASSUME NEW a \in Asks, ProviderRefuses(a) PROVE ApprovalInv'
  BY <1>12, <1>0 DEF ProviderRefuses, Goto, storeVars, askVars, ApprovalInv
<1>13. ASSUME NEW a \in Asks, AppendRefused(a) PROVE ApprovalInv'
  BY <1>13, <1>0 DEF AppendRefused, Goto, storeVars, askVars, ApprovalInv
<1>14. ASSUME NEW a \in Asks, AppendBegan(a) PROVE ApprovalInv'
  BY <1>14, <1>0 DEF AppendBegan, Goto, storeVars, askVars, ApprovalInv
<1>15. ASSUME NEW a \in Asks, Settle(a) PROVE ApprovalInv'
  BY <1>15, <1>0 DEF Settle, Finish, Goto, publish, consume, storeVars, askVars,
     ApprovalInv
<1>16. ASSUME NEW a \in Asks, Unwind(a) PROVE ApprovalInv'
  BY <1>16, <1>0 DEF Unwind, Finish, Goto, release_claim, abandon, Gone, Kept,
     storeVars, askVars, ApprovalInv
<1>17. ASSUME NEW p \in Acts, ActBegins(p) PROVE ApprovalInv'
  BY <1>17, <1>0 DEF ActBegins, storeVars, askVars, ApprovalInv
<1>18. ASSUME NEW p \in Acts, ActUnanswered(p) PROVE ApprovalInv'
  BY <1>18, <1>0 DEF ActUnanswered, storeVars, askVars, ApprovalInv
<1>19. ASSUME NEW p \in Acts, ActDated(p) PROVE ApprovalInv'
  BY <1>19, <1>0 DEF ActDated, storeVars, askVars, ApprovalInv
<1>20. ASSUME NEW p \in Acts, ActApplied(p) PROVE ApprovalInv'
  <2>1. act[p].ref \in Asks /\ act[p] \in Act  BY <1>20 DEF ActApplied, ActShape
  <2>2. \A r \in Asks : r # act[p].ref => wait'[r] = wait[r]
    BY <1>20, <2>1 DEF ActApplied, resolve
  <2>3. wait'[act[p].ref].state = act[p].resolution
    BY <1>20, <2>1 DEF ActApplied, resolve, Wait
  <2>4. act'[p].pc = "applied" /\ act'[p].ref = act[p].ref
          /\ act'[p].resolution = act[p].resolution
    BY <1>20, <2>1 DEF ActApplied, Act
  <2>5. \A r \in Asks : r = act[p].ref /\ wait'[r].state = "approved" => Approved(r)'
    BY <2>3, <2>4 DEF Approved
  <2>6. \A r \in Asks : wait'[r].state = "approved" => Approved(r)'
    BY <1>0, <2>2, <2>5 DEF ApprovalInv
  <2>7. UNCHANGED <<pc, consulted>>  BY <1>20 DEF ActApplied, askVars
  <2> QED  BY <1>0, <2>6, <2>7 DEF ApprovalInv
<1>21. ASSUME NEW p \in Acts, ActLate(p) PROVE ApprovalInv'
  BY <1>21, <1>0 DEF ActLate, expired, Resolvable, storeVars, askVars, ApprovalInv
<1>22. ASSUME NEW p \in Acts, ActRefused(p) PROVE ApprovalInv'
  BY <1>22, <1>0 DEF ActRefused, storeVars, askVars, ApprovalInv
<1>23. ASSUME NEW p \in Acts, ActRecorded(p) PROVE ApprovalInv'
  BY <1>23, <1>0 DEF ActRecorded, storeVars, askVars, ApprovalInv
<1>24. ASSUME NEW h \in Holders, HolderWakes(h) PROVE ApprovalInv'
  BY <1>24, <1>0 DEF HolderWakes, storeVars, askVars, ApprovalInv
<1>25. ASSUME NEW h \in Holders, HolderExpires(h) PROVE ApprovalInv'
  <2>1. sweep[h].at \in Nat  BY DEF Sweep
  <2>2. \A r \in Asks : wait'[r].state = "approved" => wait[r].state = "approved"
    BY <1>25, <2>1, ExpiryEffect DEF HolderExpires
  <2>3. UNCHANGED <<pc, consulted>>  BY <1>25 DEF HolderExpires, askVars
  <2> QED  BY <1>0, <2>2, <2>3 DEF ApprovalInv
<1>26. ASSUME NEW h \in Holders, HolderForgets(h) PROVE ApprovalInv'
  BY <1>26, <1>0 DEF HolderForgets, forget_lapsed, Gone, Lapses, storeVars, askVars,
     ApprovalInv
<1>27. ASSUME Tick PROVE ApprovalInv'
  BY <1>27, <1>0 DEF Tick, storeVars, askVars, ApprovalInv
<1>28. ASSUME Restart PROVE ApprovalInv'
  BY <1>28, <1>0 DEF Restart, lose_all, Gone, Kept, storeVars, askVars, ApprovalInv
<1>29. ASSUME UNCHANGED vars PROVE ApprovalInv'
  BY <1>29, <1>0 DEF vars, storeVars, askVars, ApprovalInv
<1> QED
  BY <1>1, <1>2, <1>3, <1>4, <1>5, <1>6, <1>7, <1>8, <1>9, <1>10, <1>11,
     <1>12, <1>13, <1>14, <1>15, <1>16, <1>17, <1>18, <1>19, <1>20, <1>21,
     <1>22, <1>23, <1>24, <1>25, <1>26, <1>27, <1>28, <1>29
  DEF Next, AskStep, ActStep, HolderStep

(* A reference somebody was told about stays told; one behind a decision   *)
(* stays.                                                                  *)
LEMMA PromiseStep ==
  ASSUME TypeOK, ConsultationShape, ActShape, PromiseInv,
         [Next]_vars
  PROVE  PromiseInv'
<1> USE DecisionsAssumption DEF TypeOK, StoreTypeOK, Told, Opened, Began
<1>1. ASSUME NEW a \in Asks, Begin(a) PROVE PromiseInv'
  BY <1>1 DEF Begin, Goto, storeVars, askVars, PromiseInv
<1>2. ASSUME NEW a \in Asks, AskExpires(a) PROVE PromiseInv'
  <2>1. \A r \in Asks : /\ Told(r) => Told(r)'
                        /\ wait'[r].state = "abandoned" => wait[r].state = "abandoned"
    BY <1>2, ExpiryEffect DEF AskExpires
  <2>2. UNCHANGED <<consulted, appended>>
          /\ \A b \in Asks : pc'[b] = pc[b] \/ pc'[b] = "forget"
    BY <1>2 DEF AskExpires, Goto, askVars
  <2> QED  BY <2>1, <2>2 DEF PromiseInv
<1>3. ASSUME NEW a \in Asks, AskForgets(a) PROVE PromiseInv'
  BY <1>3 DEF AskForgets, Goto, Finish, forget_lapsed, Gone, Lapses, storeVars,
     askVars, PromiseInv
<1>4. ASSUME NEW a \in Asks, OpenWait(a) PROVE PromiseInv'
  <2>1. \A r \in Asks : r # a => wait'[r] = wait[r]  BY <1>4 DEF OpenWait, open
  <2>2. wait[a].state = "none" /\ pc[a] = "consult"
    BY <1>4 DEF OpenWait, Goto, ConsultationShape, BeforeOpening
  <2>3. wait'[a].state = "pending"  BY <1>4 DEF OpenWait, open
  <2>4. consulted' = [consulted EXCEPT ![a] = [outcome |-> "suspend", ref |-> a]]
    BY <1>4 DEF OpenWait
  <2>5. UNCHANGED appended /\ \A b \in Asks : b # a => pc'[b] = pc[b]
    BY <1>4 DEF OpenWait, Goto
  <2>6. \A b \in Asks : b # a => consulted[b].ref # a  BY <2>2 DEF PromiseInv
  <2> QED  BY <2>1, <2>3, <2>4, <2>5, <2>6 DEF PromiseInv
<1>5. ASSUME NEW a \in Asks, FindPublished(a) PROVE PromiseInv'
  BY <1>5 DEF FindPublished, Goto, storeVars, askVars, PromiseInv
<1>6. ASSUME NEW a \in Asks, FindRejected(a) PROVE PromiseInv'
  BY <1>6 DEF FindRejected, Goto, storeVars, askVars, PromiseInv
<1>7. ASSUME NEW a \in Asks, FindApproved(a) PROVE PromiseInv'
  BY <1>7 DEF FindApproved, Goto, storeVars, askVars, PromiseInv
<1>8. ASSUME NEW a \in Asks, FindInFlight(a) PROVE PromiseInv'
  <2>1. UNCHANGED <<wait, appended>>  BY <1>8 DEF FindInFlight, Retry, storeVars
  <2>2. consulted' = [consulted EXCEPT ![a] = NotConsulted]  BY <1>8 DEF
     FindInFlight, Retry
  <2>3. \A b \in Asks : b # a => pc'[b] = pc[b]  BY <1>8 DEF FindInFlight, Retry,
     Goto, Finish
  <2> QED  BY <2>1, <2>2, <2>3 DEF PromiseInv, NotConsulted
<1>9. ASSUME NEW a \in Asks, Claim(a) PROVE PromiseInv'
  BY <1>9 DEF Claim, Goto, claim, Claimable, storeVars, askVars, PromiseInv
<1>10. ASSUME NEW a \in Asks, LoseClaim(a) PROVE PromiseInv'
  <2>1. UNCHANGED <<wait, appended>>  BY <1>10 DEF LoseClaim, Retry, storeVars
  <2>2. consulted' = [consulted EXCEPT ![a] = NotConsulted]  BY <1>10 DEF LoseClaim,
     Retry
  <2>3. \A b \in Asks : b # a => pc'[b] = pc[b]  BY <1>10 DEF LoseClaim, Retry, Goto,
     Finish
  <2> QED  BY <2>1, <2>2, <2>3 DEF PromiseInv, NotConsulted
<1>11. ASSUME NEW a \in Asks, ProviderTakes(a) PROVE PromiseInv'
  BY <1>11 DEF ProviderTakes, Goto, storeVars, askVars, PromiseInv
<1>12. ASSUME NEW a \in Asks, ProviderRefuses(a) PROVE PromiseInv'
  BY <1>12 DEF ProviderRefuses, Goto, storeVars, askVars, PromiseInv
<1>13. ASSUME NEW a \in Asks, AppendRefused(a) PROVE PromiseInv'
  BY <1>13 DEF AppendRefused, Goto, storeVars, askVars, PromiseInv
<1>14. ASSUME NEW a \in Asks, AppendBegan(a) PROVE PromiseInv'
  BY <1>14 DEF AppendBegan, Goto, storeVars, askVars, PromiseInv
<1>15. ASSUME NEW a \in Asks, Settle(a) PROVE PromiseInv'
  <2>1. \A r \in Asks : /\ Told(r) => Told(r)'
                        /\ wait'[r].state = "abandoned" => wait[r].state = "abandoned"
    BY <1>15 DEF Settle, publish, consume, Wait
  <2>2. UNCHANGED <<consulted, appended>> /\ pc' = [pc EXCEPT ![a] = "done"]
    BY <1>15 DEF Settle, Finish, Goto
  <2> QED  BY <2>1, <2>2 DEF PromiseInv
<1>16. ASSUME NEW a \in Asks, Unwind(a) PROVE PromiseInv'
  <2>1. \A r \in Asks : \/ wait'[r].state = wait[r].state
                           /\ wait'[r].published = wait[r].published
                        \/ Opened(a) /\ r = a /\ ~ Told(a)
    BY <1>16 DEF Unwind, release_claim, abandon, Gone, Wait, Kept, KeptStates
  <2>2. UNCHANGED <<consulted, appended>> /\ pc' = [pc EXCEPT ![a] = "done"]
    BY <1>16 DEF Unwind, Finish, Goto
  <2>3. ~ Began(a)  BY <1>16 DEF Unwind, Finish, Goto, ConsultationShape
  <2>4. \A b \in Asks : b # a => pc'[b] = pc[b]  BY <2>2
  <2>5. pc'[a] = "done"  BY <2>2
  <2> SUFFICES ASSUME NEW b \in Asks, NEW r \in Asks, consulted[b].ref = r
               PROVE  /\ ~ Opened(b) => Told(r)'
                      /\ Opened(b) /\ pc'[b] \in {"provider", "append", "settle"}
                           => wait'[r].state # "abandoned"
                      /\ Opened(b) /\ Began(b) => wait'[r].state # "abandoned"
    BY <2>2 DEF PromiseInv
  <2>6. CASE r = a  BY <2>1, <2>3, <2>4, <2>5, <2>6 DEF PromiseInv
  <2>7. CASE r # a  BY <2>1, <2>3, <2>4, <2>5, <2>7 DEF PromiseInv
  <2> QED  BY <2>6, <2>7
<1>17. ASSUME NEW p \in Acts, ActBegins(p) PROVE PromiseInv'
  BY <1>17 DEF ActBegins, storeVars, askVars, PromiseInv
<1>18. ASSUME NEW p \in Acts, ActUnanswered(p) PROVE PromiseInv'
  BY <1>18 DEF ActUnanswered, storeVars, askVars, PromiseInv
<1>19. ASSUME NEW p \in Acts, ActDated(p) PROVE PromiseInv'
  BY <1>19 DEF ActDated, storeVars, askVars, PromiseInv
<1>20. ASSUME NEW p \in Acts, ActApplied(p) PROVE PromiseInv'
  <2>1. act[p].ref \in Asks /\ act[p].resolution \in ACTED  BY <1>20 DEF ActApplied,
     ActShape
  <2>2. wait'[act[p].ref].state \in ACTED  BY <1>20, <2>1 DEF ActApplied, resolve, Wait
  <2>3. \A r \in Asks : r # act[p].ref => wait'[r] = wait[r]
    BY <1>20, <2>1 DEF ActApplied, resolve
  <2>4. \A r \in Asks : \/ wait'[r] = wait[r]
                        \/ Told(r)' /\ wait'[r].state # "abandoned"
    BY <2>2, <2>3 DEF ACTED
  <2>5. UNCHANGED <<pc, consulted, appended>>  BY <1>20 DEF ActApplied, askVars
  <2> QED  BY <2>4, <2>5 DEF PromiseInv
<1>21. ASSUME NEW p \in Acts, ActLate(p) PROVE PromiseInv'
  BY <1>21 DEF ActLate, expired, Resolvable, storeVars, askVars, PromiseInv
<1>22. ASSUME NEW p \in Acts, ActRefused(p) PROVE PromiseInv'
  BY <1>22 DEF ActRefused, storeVars, askVars, PromiseInv
<1>23. ASSUME NEW p \in Acts, ActRecorded(p) PROVE PromiseInv'
  BY <1>23 DEF ActRecorded, storeVars, askVars, PromiseInv
<1>24. ASSUME NEW h \in Holders, HolderWakes(h) PROVE PromiseInv'
  BY <1>24 DEF HolderWakes, storeVars, askVars, PromiseInv
<1>25. ASSUME NEW h \in Holders, HolderExpires(h) PROVE PromiseInv'
  <2>1. sweep[h].at \in Nat  BY DEF Sweep
  <2>2. \A r \in Asks : /\ Told(r) => Told(r)'
                        /\ wait'[r].state = "abandoned" => wait[r].state = "abandoned"
    BY <1>25, <2>1, ExpiryEffect DEF HolderExpires
  <2>3. UNCHANGED <<consulted, appended>>
          /\ \A b \in Asks : pc'[b] = pc[b] \/ pc'[b] = "forget"
    BY <1>25 DEF HolderExpires, Goto, askVars
  <2> QED  BY <2>2, <2>3 DEF PromiseInv
<1>26. ASSUME NEW h \in Holders, HolderForgets(h) PROVE PromiseInv'
  BY <1>26 DEF HolderForgets, forget_lapsed, Gone, Lapses, storeVars, askVars,
     PromiseInv
<1>27. ASSUME Tick PROVE PromiseInv'
  BY <1>27 DEF Tick, storeVars, askVars, PromiseInv
<1>28. ASSUME Restart PROVE PromiseInv'
  BY <1>28 DEF Restart, lose_all, Gone, Kept, storeVars, askVars, PromiseInv
<1>29. ASSUME UNCHANGED vars PROVE PromiseInv'
  BY <1>29 DEF vars, storeVars, askVars, PromiseInv
<1> QED
  BY <1>1, <1>2, <1>3, <1>4, <1>5, <1>6, <1>7, <1>8, <1>9, <1>10, <1>11,
     <1>12, <1>13, <1>14, <1>15, <1>16, <1>17, <1>18, <1>19, <1>20, <1>21,
     <1>22, <1>23, <1>24, <1>25, <1>26, <1>27, <1>28, <1>29
  DEF Next, AskStep, ActStep, HolderStep

(* A question that still has a wait opens none.                            *)
LEMMA OpenWaitStep ==
  ASSUME TypeOK, ConsultationShape, ActShape, SpendShape, OneOpenWait,
         [Next]_vars
  PROVE  OneOpenWait'
<1> USE DecisionsAssumption DEF TypeOK, StoreTypeOK
<1>1. ASSUME NEW a \in Asks, Begin(a) PROVE OneOpenWait'
  BY <1>1 DEF Begin, Goto, storeVars, askVars, OneOpenWait
<1>2. ASSUME NEW a \in Asks, AskExpires(a) PROVE OneOpenWait'
  <2>1. \A r \in Asks : wait'[r].state = "pending" => wait'[r] = wait[r]
    BY <1>2, ExpiryEffect DEF AskExpires
  <2>2. UNCHANGED <<question, now>>
    BY <1>2 DEF AskExpires, Goto, askVars
  <2> QED  BY <2>1, <2>2 DEF OneOpenWait
<1>3. ASSUME NEW a \in Asks, AskForgets(a) PROVE OneOpenWait'
  BY <1>3 DEF AskForgets, Goto, Finish, forget_lapsed, Gone, Lapses, storeVars,
     askVars, OneOpenWait
<1>4. ASSUME NEW a \in Asks, OpenWait(a) PROVE OneOpenWait'
  <2>1. \A r \in Asks : r # a => wait'[r] = wait[r]  BY <1>4 DEF OpenWait, open
  <2>2. \A r \in Asks : wait[r].state = "pending" /\ now < wait[r].deadline
          => question[r] # question[a]
    <3> SUFFICES ASSUME NEW r \in Asks, wait[r].state = "pending",
                        now < wait[r].deadline, question[r] = question[a]
                 PROVE  FALSE
      OBVIOUS
    <3>1. Live(question[a]) = {}  BY <1>4 DEF OpenWait
    <3>2. wait[r].deadline \in Nat  BY DEF Wait
    <3>3. StillAnswers(r, question[a])
      BY <3>2 DEF StillAnswers, Kept, KeptStates, state_at, SpendShape
    <3> QED  BY <3>1, <3>3 DEF Live
  <2>3. UNCHANGED <<question, now>>  BY <1>4 DEF OpenWait
  <2> SUFFICES ASSUME NEW r \in Asks, NEW s \in Asks, r # s,
                      wait'[r].state = "pending", now < wait'[r].deadline,
                      wait'[s].state = "pending", now < wait'[s].deadline
               PROVE  question[r] # question[s]
    BY <2>3 DEF OneOpenWait
  <2>4. CASE r = a  BY <2>1, <2>2, <2>4
  <2>5. CASE s = a  BY <2>1, <2>2, <2>5
  <2>6. CASE r # a /\ s # a  BY <2>1, <2>6 DEF OneOpenWait
  <2> QED  BY <2>4, <2>5, <2>6
<1>5. ASSUME NEW a \in Asks, FindPublished(a) PROVE OneOpenWait'
  BY <1>5 DEF FindPublished, Goto, storeVars, askVars, OneOpenWait
<1>6. ASSUME NEW a \in Asks, FindRejected(a) PROVE OneOpenWait'
  BY <1>6 DEF FindRejected, Goto, storeVars, askVars, OneOpenWait
<1>7. ASSUME NEW a \in Asks, FindApproved(a) PROVE OneOpenWait'
  BY <1>7 DEF FindApproved, Goto, storeVars, askVars, OneOpenWait
<1>8. ASSUME NEW a \in Asks, FindInFlight(a) PROVE OneOpenWait'
  BY <1>8 DEF FindInFlight, Retry, Goto, Finish, storeVars, askVars, OneOpenWait
<1>9. ASSUME NEW a \in Asks, Claim(a) PROVE OneOpenWait'
  BY <1>9 DEF Claim, Goto, claim, Claimable, storeVars, askVars, OneOpenWait
<1>10. ASSUME NEW a \in Asks, LoseClaim(a) PROVE OneOpenWait'
  BY <1>10 DEF LoseClaim, Retry, Goto, Finish, Claimable, storeVars, askVars,
     OneOpenWait
<1>11. ASSUME NEW a \in Asks, ProviderTakes(a) PROVE OneOpenWait'
  BY <1>11 DEF ProviderTakes, Goto, storeVars, askVars, OneOpenWait
<1>12. ASSUME NEW a \in Asks, ProviderRefuses(a) PROVE OneOpenWait'
  BY <1>12 DEF ProviderRefuses, Goto, storeVars, askVars, OneOpenWait
<1>13. ASSUME NEW a \in Asks, AppendRefused(a) PROVE OneOpenWait'
  BY <1>13 DEF AppendRefused, Goto, storeVars, askVars, OneOpenWait
<1>14. ASSUME NEW a \in Asks, AppendBegan(a) PROVE OneOpenWait'
  BY <1>14 DEF AppendBegan, Goto, storeVars, askVars, OneOpenWait
<1>15. ASSUME NEW a \in Asks, Settle(a) PROVE OneOpenWait'
  BY <1>15 DEF Settle, Finish, Goto, publish, consume, storeVars, askVars, OneOpenWait
<1>16. ASSUME NEW a \in Asks, Unwind(a) PROVE OneOpenWait'
  BY <1>16 DEF Unwind, Finish, Goto, release_claim, abandon, Gone, Kept, storeVars,
     askVars, OneOpenWait
<1>17. ASSUME NEW p \in Acts, ActBegins(p) PROVE OneOpenWait'
  BY <1>17 DEF ActBegins, storeVars, askVars, OneOpenWait
<1>18. ASSUME NEW p \in Acts, ActUnanswered(p) PROVE OneOpenWait'
  BY <1>18 DEF ActUnanswered, storeVars, askVars, OneOpenWait
<1>19. ASSUME NEW p \in Acts, ActDated(p) PROVE OneOpenWait'
  BY <1>19 DEF ActDated, storeVars, askVars, OneOpenWait
<1>20. ASSUME NEW p \in Acts, ActApplied(p) PROVE OneOpenWait'
  BY <1>20 DEF ActApplied, resolve, Resolvable, storeVars, askVars, OneOpenWait
<1>21. ASSUME NEW p \in Acts, ActLate(p) PROVE OneOpenWait'
  BY <1>21 DEF ActLate, expired, Resolvable, storeVars, askVars, OneOpenWait
<1>22. ASSUME NEW p \in Acts, ActRefused(p) PROVE OneOpenWait'
  BY <1>22 DEF ActRefused, storeVars, askVars, OneOpenWait
<1>23. ASSUME NEW p \in Acts, ActRecorded(p) PROVE OneOpenWait'
  BY <1>23 DEF ActRecorded, storeVars, askVars, OneOpenWait
<1>24. ASSUME NEW h \in Holders, HolderWakes(h) PROVE OneOpenWait'
  BY <1>24 DEF HolderWakes, storeVars, askVars, OneOpenWait
<1>25. ASSUME NEW h \in Holders, HolderExpires(h) PROVE OneOpenWait'
  <2>1. sweep[h].at \in Nat  BY DEF Sweep
  <2>2. \A r \in Asks : wait'[r].state = "pending" => wait'[r] = wait[r]
    BY <1>25, <2>1, ExpiryEffect DEF HolderExpires
  <2>3. UNCHANGED <<question, now>>
    BY <1>25 DEF HolderExpires, Goto, askVars
  <2> QED  BY <2>2, <2>3 DEF OneOpenWait
<1>26. ASSUME NEW h \in Holders, HolderForgets(h) PROVE OneOpenWait'
  BY <1>26 DEF HolderForgets, forget_lapsed, Gone, Lapses, storeVars, askVars,
     OneOpenWait
<1>27. ASSUME Tick PROVE OneOpenWait'
  <2>1. \A r \in Asks : wait[r].deadline \in Nat  BY DEF Wait
  <2>2. UNCHANGED <<question, wait>> /\ now' = now + 1  BY <1>27 DEF Tick
  <2>3. \A r \in Asks : now' < wait[r].deadline => now < wait[r].deadline  BY <2>1, <2>2
  <2> QED  BY <2>2, <2>3 DEF OneOpenWait
<1>28. ASSUME Restart PROVE OneOpenWait'
  BY <1>28 DEF Restart, lose_all, Gone, Kept, storeVars, askVars, OneOpenWait
<1>29. ASSUME UNCHANGED vars PROVE OneOpenWait'
  BY <1>29 DEF vars, storeVars, askVars, OneOpenWait
<1> QED
  BY <1>1, <1>2, <1>3, <1>4, <1>5, <1>6, <1>7, <1>8, <1>9, <1>10, <1>11,
     <1>12, <1>13, <1>14, <1>15, <1>16, <1>17, <1>18, <1>19, <1>20, <1>21,
     <1>22, <1>23, <1>24, <1>25, <1>26, <1>27, <1>28, <1>29
  DEF Next, AskStep, ActStep, HolderStep

(* A claim nobody has spent stays held until it is spent or released.      *)
LEMMA ClaimsHeldStep ==
  ASSUME TypeOK, ConsultationShape, ActShape, SpendShape, HeldExecution, ClaimsAreHeld,
         [Next]_vars
  PROVE  ClaimsAreHeld'
<1> USE DecisionsAssumption DEF TypeOK, StoreTypeOK, Holds, Holding, Spends
<1>1. ASSUME NEW a \in Asks, Begin(a) PROVE ClaimsAreHeld'
  BY <1>1 DEF Begin, Goto, storeVars, askVars, ClaimsAreHeld
<1>2. ASSUME NEW a \in Asks, AskExpires(a) PROVE ClaimsAreHeld'
  <2>1. \A r \in Asks : wait'[r].claimed = wait[r].claimed /\ wait'[r].consumed =
     wait[r].consumed
    BY <1>2, ExpiryEffect DEF AskExpires
  <2>2. \A b \in Asks, r \in Asks : Holds(b, r) => Holds(b, r)'
    BY <1>2 DEF AskExpires, Goto, askVars
  <2> QED  BY <2>1, <2>2 DEF ClaimsAreHeld
<1>3. ASSUME NEW a \in Asks, AskForgets(a) PROVE ClaimsAreHeld'
  BY <1>3 DEF AskForgets, Goto, Finish, forget_lapsed, Gone, Lapses, storeVars,
     askVars, ClaimsAreHeld
<1>4. ASSUME NEW a \in Asks, OpenWait(a) PROVE ClaimsAreHeld'
  BY <1>4 DEF OpenWait, Goto, open, storeVars, askVars, ClaimsAreHeld
<1>5. ASSUME NEW a \in Asks, FindPublished(a) PROVE ClaimsAreHeld'
  BY <1>5 DEF FindPublished, Goto, storeVars, askVars, ClaimsAreHeld
<1>6. ASSUME NEW a \in Asks, FindRejected(a) PROVE ClaimsAreHeld'
  BY <1>6 DEF FindRejected, Goto, storeVars, askVars, ClaimsAreHeld
<1>7. ASSUME NEW a \in Asks, FindApproved(a) PROVE ClaimsAreHeld'
  BY <1>7 DEF FindApproved, Goto, storeVars, askVars, ClaimsAreHeld
<1>8. ASSUME NEW a \in Asks, FindInFlight(a) PROVE ClaimsAreHeld'
  BY <1>8 DEF FindInFlight, Retry, Goto, Finish, storeVars, askVars, ClaimsAreHeld
<1>9. ASSUME NEW a \in Asks, Claim(a) PROVE ClaimsAreHeld'
  BY <1>9 DEF Claim, Goto, claim, Claimable, storeVars, askVars, ClaimsAreHeld
<1>10. ASSUME NEW a \in Asks, LoseClaim(a) PROVE ClaimsAreHeld'
  BY <1>10 DEF LoseClaim, Retry, Goto, Finish, Claimable, storeVars, askVars,
     ClaimsAreHeld
<1>11. ASSUME NEW a \in Asks, ProviderTakes(a) PROVE ClaimsAreHeld'
  BY <1>11 DEF ProviderTakes, Goto, storeVars, askVars, ClaimsAreHeld
<1>12. ASSUME NEW a \in Asks, ProviderRefuses(a) PROVE ClaimsAreHeld'
  BY <1>12 DEF ProviderRefuses, Goto, storeVars, askVars, ClaimsAreHeld
<1>13. ASSUME NEW a \in Asks, AppendRefused(a) PROVE ClaimsAreHeld'
  BY <1>13 DEF AppendRefused, Goto, storeVars, askVars, ClaimsAreHeld
<1>14. ASSUME NEW a \in Asks, AppendBegan(a) PROVE ClaimsAreHeld'
  BY <1>14 DEF AppendBegan, Goto, storeVars, askVars, ClaimsAreHeld
<1>15. ASSUME NEW a \in Asks, Settle(a) PROVE ClaimsAreHeld'
  <2>1. \A r \in Asks : wait'[r].claimed /\ ~ wait'[r].consumed
          => wait[r].claimed /\ ~ wait[r].consumed /\ ~ Holds(a, r)
    <3>1. CASE Opened(a)
      <4>1. \A r \in Asks : /\ wait'[r].claimed = wait[r].claimed
                            /\ wait'[r].consumed = wait[r].consumed
        BY <1>15, <3>1 DEF Settle, publish, Wait
      <4> QED  BY <3>1, <4>1 DEF ConsultationShape
    <3>2. CASE ~ Opened(a) /\ Spends(a)
      <4>1. PICK r \in Asks : consulted[a].ref = r  BY <3>2 DEF ConsultationShape
      <4>2. wait[r].state = "approved" /\ wait[r].claimed /\ ~ wait[r].consumed
        BY <1>15, <3>2, <4>1 DEF Settle, Finish, Goto, HeldExecution
      <4>3. wait'[r].consumed /\ \A s \in Asks : s # r => wait'[s] = wait[s]
        BY <1>15, <3>2, <4>1, <4>2 DEF Settle, consume, Wait
      <4> QED  BY <4>1, <4>3
    <3>3. CASE ~ Opened(a) /\ ~ Spends(a)
      BY <1>15, <3>3 DEF Settle
    <3> QED  BY <3>1, <3>2, <3>3
  <2>2. \A b \in Asks, r \in Asks : b # a /\ Holds(b, r) => Holds(b, r)'
    BY <1>15 DEF Settle, Finish, Goto
  <2> QED  BY <2>1, <2>2 DEF ClaimsAreHeld
<1>16. ASSUME NEW a \in Asks, Unwind(a) PROVE ClaimsAreHeld'
  <2>1. \A r \in Asks : wait'[r].claimed /\ ~ wait'[r].consumed
          => wait[r].claimed /\ ~ wait[r].consumed /\ ~ Holds(a, r)
    <3>1. CASE Spends(a)
      <4>1. PICK r \in Asks : consulted[a].ref = r  BY <3>1 DEF ConsultationShape
      <4>2. wait[r].state = "approved" /\ wait[r].claimed /\ ~ wait[r].consumed
        BY <1>16, <3>1, <4>1 DEF Unwind, Finish, Goto, HeldExecution
      <4>3. ~ wait'[r].claimed /\ \A s \in Asks : s # r => wait'[s] = wait[s]
        BY <1>16, <3>1, <4>1, <4>2 DEF Unwind, release_claim, Kept, KeptStates, Wait
      <4> QED  BY <4>1, <4>3
    <3>2. CASE ~ Spends(a)
      BY <1>16, <3>2 DEF Unwind, abandon, Gone
    <3> QED  BY <3>1, <3>2
  <2>2. \A b \in Asks, r \in Asks : b # a /\ Holds(b, r) => Holds(b, r)'
    BY <1>16 DEF Unwind, Finish, Goto
  <2> QED  BY <2>1, <2>2 DEF ClaimsAreHeld
<1>17. ASSUME NEW p \in Acts, ActBegins(p) PROVE ClaimsAreHeld'
  BY <1>17 DEF ActBegins, storeVars, askVars, ClaimsAreHeld
<1>18. ASSUME NEW p \in Acts, ActUnanswered(p) PROVE ClaimsAreHeld'
  BY <1>18 DEF ActUnanswered, storeVars, askVars, ClaimsAreHeld
<1>19. ASSUME NEW p \in Acts, ActDated(p) PROVE ClaimsAreHeld'
  BY <1>19 DEF ActDated, storeVars, askVars, ClaimsAreHeld
<1>20. ASSUME NEW p \in Acts, ActApplied(p) PROVE ClaimsAreHeld'
  BY <1>20 DEF ActApplied, resolve, Resolvable, storeVars, askVars, ClaimsAreHeld
<1>21. ASSUME NEW p \in Acts, ActLate(p) PROVE ClaimsAreHeld'
  BY <1>21 DEF ActLate, expired, Resolvable, storeVars, askVars, ClaimsAreHeld
<1>22. ASSUME NEW p \in Acts, ActRefused(p) PROVE ClaimsAreHeld'
  BY <1>22 DEF ActRefused, storeVars, askVars, ClaimsAreHeld
<1>23. ASSUME NEW p \in Acts, ActRecorded(p) PROVE ClaimsAreHeld'
  BY <1>23 DEF ActRecorded, storeVars, askVars, ClaimsAreHeld
<1>24. ASSUME NEW h \in Holders, HolderWakes(h) PROVE ClaimsAreHeld'
  BY <1>24 DEF HolderWakes, storeVars, askVars, ClaimsAreHeld
<1>25. ASSUME NEW h \in Holders, HolderExpires(h) PROVE ClaimsAreHeld'
  <2>1. sweep[h].at \in Nat  BY DEF Sweep
  <2>2. \A r \in Asks : wait'[r].claimed = wait[r].claimed /\ wait'[r].consumed =
     wait[r].consumed
    BY <1>25, <2>1, ExpiryEffect DEF HolderExpires
  <2>3. \A b \in Asks, r \in Asks : Holds(b, r) => Holds(b, r)'
    BY <1>25 DEF HolderExpires, Goto, askVars
  <2> QED  BY <2>2, <2>3 DEF ClaimsAreHeld
<1>26. ASSUME NEW h \in Holders, HolderForgets(h) PROVE ClaimsAreHeld'
  BY <1>26 DEF HolderForgets, forget_lapsed, Gone, Lapses, storeVars, askVars,
     ClaimsAreHeld
<1>27. ASSUME Tick PROVE ClaimsAreHeld'
  BY <1>27 DEF Tick, storeVars, askVars, ClaimsAreHeld
<1>28. ASSUME Restart PROVE ClaimsAreHeld'
  <2>1. \A r \in Asks : ~ wait'[r].claimed
    BY <1>28, LossEffect DEF Restart, Gone, GoneStates, SpendShape
  <2> QED  BY <2>1 DEF ClaimsAreHeld
<1>29. ASSUME UNCHANGED vars PROVE ClaimsAreHeld'
  BY <1>29 DEF vars, storeVars, askVars, ClaimsAreHeld
<1> QED
  BY <1>1, <1>2, <1>3, <1>4, <1>5, <1>6, <1>7, <1>8, <1>9, <1>10, <1>11,
     <1>12, <1>13, <1>14, <1>15, <1>16, <1>17, <1>18, <1>19, <1>20, <1>21,
     <1>22, <1>23, <1>24, <1>25, <1>26, <1>27, <1>28, <1>29
  DEF Next, AskStep, ActStep, HolderStep

(* What was spent was spent behind a record, and stays so.                *)
LEMMA RecordBehindStep ==
  ASSUME TypeOK, ConsultationShape, ActShape, SpentBehindARecord,
         [Next]_vars
  PROVE  SpentBehindARecord'
<1> USE DecisionsAssumption DEF TypeOK, StoreTypeOK, Spends, Began
<1>1. ASSUME NEW a \in Asks, Begin(a) PROVE SpentBehindARecord'
  BY <1>1 DEF Begin, Goto, storeVars, askVars, SpentBehindARecord
<1>2. ASSUME NEW a \in Asks, AskExpires(a) PROVE SpentBehindARecord'
  <2>1. \A r \in Asks : wait'[r].consumed = wait[r].consumed
    BY <1>2, ExpiryEffect DEF AskExpires
  <2>2. UNCHANGED <<consulted, appended>>  BY <1>2 DEF AskExpires, askVars
  <2> QED  BY <2>1, <2>2 DEF SpentBehindARecord
<1>3. ASSUME NEW a \in Asks, AskForgets(a) PROVE SpentBehindARecord'
  BY <1>3 DEF AskForgets, Goto, Finish, forget_lapsed, Gone, Lapses, storeVars,
     askVars, SpentBehindARecord
<1>4. ASSUME NEW a \in Asks, OpenWait(a) PROVE SpentBehindARecord'
  BY <1>4 DEF OpenWait, Goto, open, ConsultationShape, storeVars, askVars,
     SpentBehindARecord
<1>5. ASSUME NEW a \in Asks, FindPublished(a) PROVE SpentBehindARecord'
  BY <1>5 DEF FindPublished, Goto, ConsultationShape, storeVars, askVars,
     SpentBehindARecord
<1>6. ASSUME NEW a \in Asks, FindRejected(a) PROVE SpentBehindARecord'
  BY <1>6 DEF FindRejected, Goto, ConsultationShape, storeVars, askVars,
     SpentBehindARecord
<1>7. ASSUME NEW a \in Asks, FindApproved(a) PROVE SpentBehindARecord'
  BY <1>7 DEF FindApproved, Goto, ConsultationShape, storeVars, askVars,
     SpentBehindARecord
<1>8. ASSUME NEW a \in Asks, FindInFlight(a) PROVE SpentBehindARecord'
  BY <1>8 DEF FindInFlight, Retry, Goto, Finish, ConsultationShape, storeVars,
     askVars, SpentBehindARecord
<1>9. ASSUME NEW a \in Asks, Claim(a) PROVE SpentBehindARecord'
  BY <1>9 DEF Claim, Goto, claim, Claimable, ConsultationShape, storeVars, askVars,
     SpentBehindARecord
<1>10. ASSUME NEW a \in Asks, LoseClaim(a) PROVE SpentBehindARecord'
  BY <1>10 DEF LoseClaim, Retry, Goto, Finish, Claimable, ConsultationShape,
     storeVars, askVars, SpentBehindARecord
<1>11. ASSUME NEW a \in Asks, ProviderTakes(a) PROVE SpentBehindARecord'
  BY <1>11 DEF ProviderTakes, Goto, storeVars, askVars, SpentBehindARecord
<1>12. ASSUME NEW a \in Asks, ProviderRefuses(a) PROVE SpentBehindARecord'
  BY <1>12 DEF ProviderRefuses, Goto, storeVars, askVars, SpentBehindARecord
<1>13. ASSUME NEW a \in Asks, AppendRefused(a) PROVE SpentBehindARecord'
  BY <1>13 DEF AppendRefused, Goto, storeVars, askVars, SpentBehindARecord
<1>14. ASSUME NEW a \in Asks, AppendBegan(a) PROVE SpentBehindARecord'
  BY <1>14 DEF AppendBegan, Goto, storeVars, askVars, SpentBehindARecord
<1>15. ASSUME NEW a \in Asks, Settle(a) PROVE SpentBehindARecord'
  <2>1. \A r \in Asks : wait'[r].consumed
          => wait[r].consumed \/ (Spends(a) /\ consulted[a].ref = r)
    <3>1. CASE Opened(a)  BY <1>15, <3>1 DEF Settle, publish, Wait
    <3>2. CASE ~ Opened(a) /\ Spends(a)  BY <1>15, <3>2 DEF Settle, consume, Wait
    <3>3. CASE ~ Opened(a) /\ ~ Spends(a)  BY <1>15, <3>3 DEF Settle
    <3> QED  BY <3>1, <3>2, <3>3
  <2>2. Began(a)  BY <1>15 DEF Settle, Finish, Goto, ConsultationShape
  <2>3. UNCHANGED <<consulted, appended>>  BY <1>15 DEF Settle
  <2> QED  BY <2>1, <2>2, <2>3 DEF SpentBehindARecord
<1>16. ASSUME NEW a \in Asks, Unwind(a) PROVE SpentBehindARecord'
  BY <1>16 DEF Unwind, Finish, Goto, release_claim, abandon, Gone, Kept, storeVars,
     askVars, SpentBehindARecord
<1>17. ASSUME NEW p \in Acts, ActBegins(p) PROVE SpentBehindARecord'
  BY <1>17 DEF ActBegins, storeVars, askVars, SpentBehindARecord
<1>18. ASSUME NEW p \in Acts, ActUnanswered(p) PROVE SpentBehindARecord'
  BY <1>18 DEF ActUnanswered, storeVars, askVars, SpentBehindARecord
<1>19. ASSUME NEW p \in Acts, ActDated(p) PROVE SpentBehindARecord'
  BY <1>19 DEF ActDated, storeVars, askVars, SpentBehindARecord
<1>20. ASSUME NEW p \in Acts, ActApplied(p) PROVE SpentBehindARecord'
  BY <1>20 DEF ActApplied, resolve, Resolvable, storeVars, askVars, SpentBehindARecord
<1>21. ASSUME NEW p \in Acts, ActLate(p) PROVE SpentBehindARecord'
  BY <1>21 DEF ActLate, expired, Resolvable, storeVars, askVars, SpentBehindARecord
<1>22. ASSUME NEW p \in Acts, ActRefused(p) PROVE SpentBehindARecord'
  BY <1>22 DEF ActRefused, storeVars, askVars, SpentBehindARecord
<1>23. ASSUME NEW p \in Acts, ActRecorded(p) PROVE SpentBehindARecord'
  BY <1>23 DEF ActRecorded, storeVars, askVars, SpentBehindARecord
<1>24. ASSUME NEW h \in Holders, HolderWakes(h) PROVE SpentBehindARecord'
  BY <1>24 DEF HolderWakes, storeVars, askVars, SpentBehindARecord
<1>25. ASSUME NEW h \in Holders, HolderExpires(h) PROVE SpentBehindARecord'
  <2>0. sweep[h].at \in Nat  BY DEF Sweep
  <2>1. \A r \in Asks : wait'[r].consumed = wait[r].consumed
    BY <1>25, <2>0, ExpiryEffect DEF HolderExpires
  <2>2. UNCHANGED <<consulted, appended>>  BY <1>25 DEF HolderExpires, askVars
  <2> QED  BY <2>1, <2>2 DEF SpentBehindARecord
<1>26. ASSUME NEW h \in Holders, HolderForgets(h) PROVE SpentBehindARecord'
  BY <1>26 DEF HolderForgets, forget_lapsed, Gone, Lapses, storeVars, askVars,
     SpentBehindARecord
<1>27. ASSUME Tick PROVE SpentBehindARecord'
  BY <1>27 DEF Tick, storeVars, askVars, SpentBehindARecord
<1>28. ASSUME Restart PROVE SpentBehindARecord'
  BY <1>28 DEF Restart, lose_all, Gone, Kept, storeVars, askVars, SpentBehindARecord
<1>29. ASSUME UNCHANGED vars PROVE SpentBehindARecord'
  BY <1>29 DEF vars, storeVars, askVars, SpentBehindARecord
<1> QED
  BY <1>1, <1>2, <1>3, <1>4, <1>5, <1>6, <1>7, <1>8, <1>9, <1>10, <1>11,
     <1>12, <1>13, <1>14, <1>15, <1>16, <1>17, <1>18, <1>19, <1>20, <1>21,
     <1>22, <1>23, <1>24, <1>25, <1>26, <1>27, <1>28, <1>29
  DEF Next, AskStep, ActStep, HolderStep

(* A step that opens no wait and applies no act, and leaves a record as it *)
(* was, ended by the clock, or gone, leaves it dated.                      *)
Undisturbed(r) ==
  /\ wait'[r].state = "none" => wait[r].state = "none"
  /\ wait'[r].state \in KeptStates =>
       /\ wait[r].state \in KeptStates
       /\ wait'[r].requested_at = wait[r].requested_at
       /\ wait'[r].deadline = wait[r].deadline
       /\ wait'[r].state = "rejected" =>
            /\ wait[r].state = "rejected"
            /\ wait'[r].resolved_at = wait[r].resolved_at

(* A step that leaves every question undisturbed leaves the dates in order.*)
LEMMA UndisturbedDates ==
  ASSUME TypeOK, DatedInOrder, \A r \in Asks : Undisturbed(r), UNCHANGED now,
         \A q \in Acts : act'[q].pc \in {"judge", "write"} => act'[q] = act[q]
  PROVE  WaitsDated' /\ ActsDated'
<1>1. WaitsDated'  BY DEF DatedInOrder, WaitsDated, Kept, Undisturbed
<1>2. ActsDated'  BY DEF DatedInOrder, ActsDated, Kept, Undisturbed
<1> QED  BY <1>1, <1>2

(* Instants stay in order.                                                *)
LEMMA DatedStep ==
  ASSUME TypeOK, ConsultationShape, ActShape, SpendShape, DatedInOrder,
         [Next]_vars
  PROVE  DatedInOrder'
<1> USE DecisionsAssumption, WaitLengthAssumption DEF TypeOK, StoreTypeOK
<1>1. ASSUME NEW a \in Asks, Begin(a) PROVE DatedInOrder'
  <2>1. UNCHANGED <<now, wait, act>> /\ ClocksBehind'
    BY <1>1 DEF Begin, Goto, storeVars, askVars, DatedInOrder, ClocksBehind
  <2> QED  BY <2>1 DEF DatedInOrder, WaitsDated, ActsDated, Kept
<1>2. ASSUME NEW a \in Asks, AskExpires(a) PROVE DatedInOrder'
  <2>1. \A r \in Asks : Undisturbed(r)
    BY <1>2, ExpiryEffect DEF Undisturbed, Wait, KeptStates, GoneStates, AskExpires
  <2>2. UNCHANGED <<now, act>> /\ ClocksBehind'
    BY <1>2 DEF AskExpires, Goto, Finish, DatedInOrder, ClocksBehind
  <2>3. WaitsDated' /\ ActsDated'
    BY <2>1, <2>2, UndisturbedDates
  <2> QED  BY <2>2, <2>3 DEF DatedInOrder, ClocksBehind
<1>3. ASSUME NEW a \in Asks, AskForgets(a) PROVE DatedInOrder'
  <2>1. \A r \in Asks : wait'[r] = wait[r] \/ wait'[r] = Gone("forgotten")
    BY <1>3, ForgettingEffect DEF AskForgets
  <2>2. Gone("forgotten").state = "forgotten"  BY DEF Gone
  <2>3. \A r \in Asks : Undisturbed(r)  BY <2>1, <2>2 DEF Undisturbed, KeptStates
  <2>4. UNCHANGED <<now, act>> /\ ClocksBehind'
    BY <1>3 DEF AskForgets, Goto, Finish, DatedInOrder, ClocksBehind
  <2>5. WaitsDated' /\ ActsDated'  BY <2>3, <2>4, UndisturbedDates
  <2> QED  BY <2>4, <2>5 DEF DatedInOrder, ClocksBehind
<1>4. ASSUME NEW a \in Asks, OpenWait(a) PROVE DatedInOrder'
  <2>1. wait[a].state = "none" /\ asked_at[a] \in Nat
    BY <1>4 DEF OpenWait, Goto, ConsultationShape, BeforeOpening
  <2>2. \A r \in Asks : r # a => wait'[r] = wait[r]  BY <1>4 DEF OpenWait, open
  <2>3. /\ wait'[a].state = "pending"
        /\ wait'[a].requested_at = asked_at[a]
        /\ wait'[a].deadline = asked_at[a] + WaitLength
    BY <1>4 DEF OpenWait, open
  <2>4. UNCHANGED <<now, asked_at, sweep, act>>  BY <1>4 DEF OpenWait
  <2>5. WaitsDated'
    BY <2>2, <2>3, <2>4 DEF DatedInOrder, ClocksBehind, WaitsDated, Kept
  <2>6. \A p \in Acts : act[p].pc \in {"judge", "write"} => act[p].ref # a
    BY <2>1 DEF DatedInOrder, ActsDated
  <2>7. ActsDated'  BY <2>2, <2>4, <2>6 DEF DatedInOrder, ActsDated, Kept
  <2> QED  BY <2>4, <2>5, <2>7 DEF DatedInOrder, ClocksBehind
<1>5. ASSUME NEW a \in Asks, FindPublished(a) PROVE DatedInOrder'
  <2>1. UNCHANGED <<now, wait, act>> /\ ClocksBehind'
    BY <1>5 DEF FindPublished, Goto, storeVars, askVars, DatedInOrder, ClocksBehind
  <2> QED  BY <2>1 DEF DatedInOrder, WaitsDated, ActsDated, Kept
<1>6. ASSUME NEW a \in Asks, FindRejected(a) PROVE DatedInOrder'
  <2>1. UNCHANGED <<now, wait, act>> /\ ClocksBehind'
    BY <1>6 DEF FindRejected, Goto, storeVars, askVars, DatedInOrder, ClocksBehind
  <2> QED  BY <2>1 DEF DatedInOrder, WaitsDated, ActsDated, Kept
<1>7. ASSUME NEW a \in Asks, FindApproved(a) PROVE DatedInOrder'
  <2>1. UNCHANGED <<now, wait, act>> /\ ClocksBehind'
    BY <1>7 DEF FindApproved, Goto, storeVars, askVars, DatedInOrder, ClocksBehind
  <2> QED  BY <2>1 DEF DatedInOrder, WaitsDated, ActsDated, Kept
<1>8. ASSUME NEW a \in Asks, FindInFlight(a) PROVE DatedInOrder'
  <2>1. UNCHANGED <<now, wait, act>> /\ ClocksBehind'
    BY <1>8 DEF FindInFlight, Retry, Goto, Finish, storeVars, askVars, DatedInOrder,
     ClocksBehind
  <2> QED  BY <2>1 DEF DatedInOrder, WaitsDated, ActsDated, Kept
<1>9. ASSUME NEW a \in Asks, Claim(a) PROVE DatedInOrder'
  <2>1. \A r \in Asks : Undisturbed(r)
    BY <1>9 DEF Undisturbed, Wait, KeptStates, GoneStates, Claim, Goto, claim,
     ConsultationShape
  <2>2. UNCHANGED <<now, act>> /\ ClocksBehind'
    BY <1>9 DEF Claim, Goto, Finish, DatedInOrder, ClocksBehind
  <2>3. WaitsDated' /\ ActsDated'
    BY <2>1, <2>2, UndisturbedDates
  <2> QED  BY <2>2, <2>3 DEF DatedInOrder, ClocksBehind
<1>10. ASSUME NEW a \in Asks, LoseClaim(a) PROVE DatedInOrder'
  <2>1. UNCHANGED <<now, wait, act>> /\ ClocksBehind'
    BY <1>10 DEF LoseClaim, Retry, Goto, Finish, storeVars, askVars, DatedInOrder,
     ClocksBehind
  <2> QED  BY <2>1 DEF DatedInOrder, WaitsDated, ActsDated, Kept
<1>11. ASSUME NEW a \in Asks, ProviderTakes(a) PROVE DatedInOrder'
  <2>1. UNCHANGED <<now, wait, act>> /\ ClocksBehind'
    BY <1>11 DEF ProviderTakes, Goto, storeVars, askVars, DatedInOrder, ClocksBehind
  <2> QED  BY <2>1 DEF DatedInOrder, WaitsDated, ActsDated, Kept
<1>12. ASSUME NEW a \in Asks, ProviderRefuses(a) PROVE DatedInOrder'
  <2>1. UNCHANGED <<now, wait, act>> /\ ClocksBehind'
    BY <1>12 DEF ProviderRefuses, Goto, storeVars, askVars, DatedInOrder, ClocksBehind
  <2> QED  BY <2>1 DEF DatedInOrder, WaitsDated, ActsDated, Kept
<1>13. ASSUME NEW a \in Asks, AppendRefused(a) PROVE DatedInOrder'
  <2>1. UNCHANGED <<now, wait, act>> /\ ClocksBehind'
    BY <1>13 DEF AppendRefused, Goto, storeVars, askVars, DatedInOrder, ClocksBehind
  <2> QED  BY <2>1 DEF DatedInOrder, WaitsDated, ActsDated, Kept
<1>14. ASSUME NEW a \in Asks, AppendBegan(a) PROVE DatedInOrder'
  <2>1. UNCHANGED <<now, wait, act>> /\ ClocksBehind'
    BY <1>14 DEF AppendBegan, Goto, storeVars, askVars, DatedInOrder, ClocksBehind
  <2> QED  BY <2>1 DEF DatedInOrder, WaitsDated, ActsDated, Kept
<1>15. ASSUME NEW a \in Asks, Settle(a) PROVE DatedInOrder'
  <2>1. \A r \in Asks : Undisturbed(r)
    BY <1>15 DEF Undisturbed, Wait, KeptStates, GoneStates, Settle, publish, consume
  <2>2. UNCHANGED <<now, act>> /\ ClocksBehind'
    BY <1>15 DEF Settle, Goto, Finish, DatedInOrder, ClocksBehind
  <2>3. WaitsDated' /\ ActsDated'
    BY <2>1, <2>2, UndisturbedDates
  <2> QED  BY <2>2, <2>3 DEF DatedInOrder, ClocksBehind
<1>16. ASSUME NEW a \in Asks, Unwind(a) PROVE DatedInOrder'
  <2>1. \A r \in Asks : Undisturbed(r)
    BY <1>16 DEF Undisturbed, Wait, KeptStates, GoneStates, Unwind, release_claim,
     abandon, Gone, Kept
  <2>2. UNCHANGED <<now, act>> /\ ClocksBehind'
    BY <1>16 DEF Unwind, Goto, Finish, DatedInOrder, ClocksBehind
  <2>3. WaitsDated' /\ ActsDated'
    BY <2>1, <2>2, UndisturbedDates
  <2> QED  BY <2>2, <2>3 DEF DatedInOrder, ClocksBehind
<1>17. ASSUME NEW p \in Acts, ActBegins(p) PROVE DatedInOrder'
  <2>1. UNCHANGED <<now, wait, asked_at, sweep>>  BY <1>17 DEF ActBegins, storeVars,
     askVars
  <2>2. ClocksBehind' /\ WaitsDated'  BY <2>1 DEF DatedInOrder, ClocksBehind,
     WaitsDated, Kept
  <2>3. PICK r \in Asks, resolution \in ACTED :
          /\ Kept(r)
          /\ act' = [act EXCEPT ![p] = [pc |-> "judge", ref |-> r,
                                       resolution |-> resolution, at |-> 0]]
    BY <1>17 DEF ActBegins
  <2>4. ActsDated'
    BY <2>1, <2>3 DEF DatedInOrder, ActsDated, Kept, KeptStates
  <2> QED  BY <2>2, <2>4 DEF DatedInOrder
<1>18. ASSUME NEW p \in Acts, ActUnanswered(p) PROVE DatedInOrder'
  <2>1. UNCHANGED <<now, wait, asked_at, sweep>>  BY <1>18 DEF ActUnanswered,
     storeVars, askVars
  <2>2. ClocksBehind' /\ WaitsDated'  BY <2>1 DEF DatedInOrder, ClocksBehind,
     WaitsDated, Kept
  <2>3. ActsDated'
    BY <1>18, <2>1 DEF ActUnanswered, DatedInOrder, WaitsDated, ActsDated, Kept,
     KeptStates, Act, NoAct
  <2> QED  BY <2>2, <2>3 DEF DatedInOrder
<1>19. ASSUME NEW p \in Acts, ActDated(p) PROVE DatedInOrder'
  <2>1. UNCHANGED <<now, wait, asked_at, sweep>>  BY <1>19 DEF ActDated, storeVars,
     askVars
  <2>2. ClocksBehind' /\ WaitsDated'  BY <2>1 DEF DatedInOrder, ClocksBehind,
     WaitsDated, Kept
  <2>3. /\ act[p].pc = "judge" /\ act'[p].pc = "write"
        /\ act'[p].ref = act[p].ref /\ act'[p].at = now
        /\ \A q \in Acts : q # p => act'[q] = act[q]
    BY <1>19 DEF ActDated, Act
  <2>4. ActsDated'
    BY <2>1, <2>3 DEF DatedInOrder, WaitsDated, ActsDated, Kept
  <2> QED  BY <2>2, <2>4 DEF DatedInOrder
<1>20. ASSUME NEW p \in Acts, ActApplied(p) PROVE DatedInOrder'
  <2> DEFINE r == act[p].ref
  <2>1. r \in Asks /\ act[p].at \in Nat /\ act[p].pc = "write"
    BY <1>20 DEF ActApplied, ActShape, Act
  <2>2. /\ wait[r].state = "pending" /\ wait'[r].state \in ACTED
        /\ wait'[r].requested_at = wait[r].requested_at
        /\ wait'[r].deadline = wait[r].deadline
        /\ wait'[r].resolved_at = act[p].at
    BY <1>20, <2>1 DEF ActApplied, ActShape, resolve, Resolvable, Wait
  <2>3. \A s \in Asks : s # r => wait'[s] = wait[s]  BY <1>20, <2>1 DEF ActApplied,
     resolve
  <2>4. wait[r].requested_at <= act[p].at
    BY <2>1, <2>2 DEF DatedInOrder, ActsDated, Kept, KeptStates
  <2>5. UNCHANGED <<now, asked_at, sweep>>  BY <1>20 DEF ActApplied, askVars
  <2>6. /\ act'[p].pc = "applied"
        /\ \A q \in Acts : q # p => act'[q] = act[q]
    BY <1>20 DEF ActApplied, Act
  <2> HIDE DEF r
  <2>7. WaitsDated'
    BY <2>1, <2>2, <2>3, <2>4, <2>5 DEF DatedInOrder, WaitsDated, Kept, KeptStates,
     ACTED
  <2>8. ActsDated'
    BY <2>1, <2>2, <2>3, <2>6 DEF DatedInOrder, ActsDated, Kept, KeptStates, ACTED
  <2> QED  BY <2>5, <2>7, <2>8 DEF DatedInOrder, ClocksBehind
<1>21. ASSUME NEW p \in Acts, ActLate(p) PROVE DatedInOrder'
  <2>1. act[p].ref \in Asks  BY <1>21 DEF ActLate, ActShape
  <2>2. \A r \in Asks : Undisturbed(r)
    BY <1>21, <2>1 DEF ActLate, Resolvable, expired, Undisturbed, Wait, KeptStates
  <2>3. UNCHANGED <<now, asked_at, sweep>> /\ act' = [act EXCEPT ![p] = NoAct("done")]
    BY <1>21 DEF ActLate, askVars
  <2>4. \A q \in Acts : act'[q].pc \in {"judge", "write"} => act'[q] = act[q]
    BY <2>3 DEF NoAct
  <2>5. WaitsDated' /\ ActsDated'  BY <2>2, <2>3, <2>4, UndisturbedDates
  <2> QED  BY <2>3, <2>5 DEF DatedInOrder, ClocksBehind
<1>22. ASSUME NEW p \in Acts, ActRefused(p) PROVE DatedInOrder'
  <2>1. UNCHANGED <<now, wait, asked_at, sweep>>  BY <1>22 DEF ActRefused, storeVars,
     askVars
  <2>2. ClocksBehind' /\ WaitsDated'  BY <2>1 DEF DatedInOrder, ClocksBehind,
     WaitsDated, Kept
  <2>3. ActsDated'
    BY <1>22, <2>1 DEF ActRefused, DatedInOrder, WaitsDated, ActsDated, Kept,
     KeptStates, Act, NoAct
  <2> QED  BY <2>2, <2>3 DEF DatedInOrder
<1>23. ASSUME NEW p \in Acts, ActRecorded(p) PROVE DatedInOrder'
  <2>1. UNCHANGED <<now, wait, asked_at, sweep>>  BY <1>23 DEF ActRecorded,
     storeVars, askVars
  <2>2. ClocksBehind' /\ WaitsDated'  BY <2>1 DEF DatedInOrder, ClocksBehind,
     WaitsDated, Kept
  <2>3. ActsDated'
    BY <1>23, <2>1 DEF ActRecorded, DatedInOrder, WaitsDated, ActsDated, Kept,
     KeptStates, Act, NoAct
  <2> QED  BY <2>2, <2>3 DEF DatedInOrder
<1>24. ASSUME NEW h \in Holders, HolderWakes(h) PROVE DatedInOrder'
  <2>1. UNCHANGED <<now, wait, act>> /\ ClocksBehind'
    BY <1>24 DEF HolderWakes, storeVars, askVars, DatedInOrder, ClocksBehind, Sweep
  <2> QED  BY <2>1 DEF DatedInOrder, WaitsDated, ActsDated, Kept
<1>25. ASSUME NEW h \in Holders, HolderExpires(h) PROVE DatedInOrder'
  <2>1. sweep[h].at \in Nat  BY DEF Sweep
  <2>2. \A r \in Asks : Undisturbed(r)
    BY <1>25, <2>1, ExpiryEffect DEF Undisturbed, Wait, KeptStates, GoneStates,
     HolderExpires
  <2>3. UNCHANGED <<now, act>> /\ ClocksBehind'
    BY <1>25 DEF HolderExpires, DatedInOrder, ClocksBehind, askVars, Sweep
  <2>4. WaitsDated' /\ ActsDated'
    BY <2>2, <2>3, UndisturbedDates
  <2> QED  BY <2>3, <2>4 DEF DatedInOrder, ClocksBehind
<1>26. ASSUME NEW h \in Holders, HolderForgets(h) PROVE DatedInOrder'
  <2>0. sweep[h].at \in Nat  BY DEF Sweep
  <2>1. \A r \in Asks : wait'[r] = wait[r] \/ wait'[r] = Gone("forgotten")
    BY <1>26, <2>0, ForgettingEffect DEF HolderForgets
  <2>2. Gone("forgotten").state = "forgotten"  BY DEF Gone
  <2>3. \A r \in Asks : Undisturbed(r)  BY <2>1, <2>2 DEF Undisturbed, KeptStates
  <2>4. UNCHANGED <<now, act>> /\ ClocksBehind'
    BY <1>26 DEF HolderForgets, askVars, Sweep, DatedInOrder, ClocksBehind
  <2>5. WaitsDated' /\ ActsDated'  BY <2>3, <2>4, UndisturbedDates
  <2> QED  BY <2>4, <2>5 DEF DatedInOrder, ClocksBehind
<1>27. ASSUME Tick PROVE DatedInOrder'
  <2>1. UNCHANGED <<wait, asked_at, sweep, act>> /\ now' = now + 1  BY <1>27 DEF
     Tick, askVars
  <2>2. /\ \A r \in Asks : wait[r].requested_at \in Nat
        /\ \A h \in Holders : sweep[h].at \in Nat
    BY DEF Wait, Sweep
  <2>3. ClocksBehind'  BY <2>1, <2>2 DEF DatedInOrder, ClocksBehind
  <2>4. WaitsDated'  BY <2>1, <2>2 DEF DatedInOrder, WaitsDated, Kept
  <2>5. ActsDated'  BY <2>1 DEF DatedInOrder, ActsDated, Kept
  <2> QED  BY <2>3, <2>4, <2>5 DEF DatedInOrder
<1>28. ASSUME Restart PROVE DatedInOrder'
  <2>1. \A r \in Asks : Undisturbed(r)
    BY <1>28, LossEffect DEF Restart, Undisturbed, Gone, KeptStates, GoneStates
  <2>2. UNCHANGED <<now, asked_at>>  BY <1>28 DEF Restart
  <2>3. \A h \in Holders : sweep'[h].at = 0  BY <1>28 DEF Restart
  <2>4. \A q \in Acts : act'[q].pc \notin {"judge", "write"}  BY <1>28 DEF Restart,
     NoAct, Act
  <2>5. WaitsDated' /\ ActsDated'  BY <2>1, <2>2, <2>4, UndisturbedDates
  <2> QED  BY <2>2, <2>3, <2>5 DEF DatedInOrder, ClocksBehind
<1>29. ASSUME UNCHANGED vars PROVE DatedInOrder'
  <2>1. UNCHANGED <<now, wait, asked_at, sweep, act>>  BY <1>29 DEF vars, storeVars,
     askVars
  <2> QED  BY <2>1 DEF DatedInOrder, ClocksBehind, WaitsDated, ActsDated, Kept
<1> QED
  BY <1>1, <1>2, <1>3, <1>4, <1>5, <1>6, <1>7, <1>8, <1>9, <1>10, <1>11,
     <1>12, <1>13, <1>14, <1>15, <1>16, <1>17, <1>18, <1>19, <1>20, <1>21,
     <1>22, <1>23, <1>24, <1>25, <1>26, <1>27, <1>28, <1>29
  DEF Next, AskStep, ActStep, HolderStep

(* How a record people answered may end, and how one may begin: the       *)
(* process loses it, or a sweep forgets it once its lapse instant passed;  *)
(* only the ask that mints the reference opens it.                         *)
EndsInOrder(r) ==
  /\ wait[r].state \in ACTED =>
       \/ wait'[r].state \in {wait[r].state, "lost"}
       \/ /\ wait'[r].state = "forgotten"
          /\ Lapses(wait[r]) /\ LapseInstant(wait[r]) <= now
  /\ wait[r].state = "none" => wait'[r].state = "none" \/ OpenWait(r)

(* The members of a record, as numbers and flags.                          *)
LEMMA LapseTyped ==
  ASSUME wait \in [Asks -> Wait], NEW r \in Asks
  PROVE  /\ LapseInstant(wait[r]) \in Int
         /\ wait[r].requested_at \in Nat /\ wait[r].resolved_at \in Nat
         /\ wait[r].consumed_at \in Nat /\ wait[r].deadline \in Nat
BY DEF LapseInstant, Wait

(* No step ends an answered record otherwise.                              *)
LEMMA EndsStep ==
  ASSUME TypeOK, ConsultationShape, ActShape, DatedInOrder, NEW r \in Asks,
         [Next]_vars
  PROVE  EndsInOrder(r)
<1> USE DecisionsAssumption DEF TypeOK, StoreTypeOK, EndsInOrder
<1>1. ASSUME NEW a \in Asks, Begin(a) PROVE EndsInOrder(r)
  BY <1>1 DEF Begin, Goto, storeVars, askVars
<1>2. ASSUME NEW a \in Asks, AskExpires(a) PROVE EndsInOrder(r)
  BY <1>2, ExpiryEffect DEF AskExpires, ACTED
<1>3. ASSUME NEW a \in Asks, AskForgets(a) PROVE EndsInOrder(r)
  <2>1. \/ wait'[r] = wait[r]
        \/ /\ wait'[r] = Gone("forgotten")
           /\ Lapses(wait[r]) /\ LapseInstant(wait[r]) <= asked_at[a]
    BY <1>3 DEF AskForgets, forget_lapsed
  <2>2. asked_at[a] \in Nat /\ asked_at[a] <= now  BY <1>3 DEF DatedInOrder,
     ClocksBehind
  <2>3. LapseInstant(wait[r]) <= asked_at[a] => LapseInstant(wait[r]) <= now
    BY <2>2, LapseTyped
  <2>4. Gone("forgotten").state = "forgotten"  BY DEF Gone
  <2> QED  BY <2>1, <2>3, <2>4 DEF Lapses, ACTED
<1>4. ASSUME NEW a \in Asks, OpenWait(a) PROVE EndsInOrder(r)
  <2>1. CASE r = a  BY <1>4, <2>1 DEF OpenWait, Goto, ConsultationShape,
     BeforeOpening, ACTED
  <2>2. CASE r # a  BY <1>4, <2>2 DEF OpenWait, open
  <2> QED  BY <2>1, <2>2
<1>5. ASSUME NEW a \in Asks, FindPublished(a) PROVE EndsInOrder(r)
  BY <1>5 DEF FindPublished, Goto, storeVars, askVars
<1>6. ASSUME NEW a \in Asks, FindRejected(a) PROVE EndsInOrder(r)
  BY <1>6 DEF FindRejected, Goto, storeVars, askVars
<1>7. ASSUME NEW a \in Asks, FindApproved(a) PROVE EndsInOrder(r)
  BY <1>7 DEF FindApproved, Goto, storeVars, askVars
<1>8. ASSUME NEW a \in Asks, FindInFlight(a) PROVE EndsInOrder(r)
  BY <1>8 DEF FindInFlight, Retry, Goto, Finish, storeVars, askVars
<1>9. ASSUME NEW a \in Asks, Claim(a) PROVE EndsInOrder(r)
  BY <1>9 DEF Claim, Goto, claim, ConsultationShape, Wait
<1>10. ASSUME NEW a \in Asks, LoseClaim(a) PROVE EndsInOrder(r)
  BY <1>10 DEF LoseClaim, Retry, Goto, Finish, Claimable, storeVars, askVars
<1>11. ASSUME NEW a \in Asks, ProviderTakes(a) PROVE EndsInOrder(r)
  BY <1>11 DEF ProviderTakes, Goto, storeVars, askVars
<1>12. ASSUME NEW a \in Asks, ProviderRefuses(a) PROVE EndsInOrder(r)
  BY <1>12 DEF ProviderRefuses, Goto, storeVars, askVars
<1>13. ASSUME NEW a \in Asks, AppendRefused(a) PROVE EndsInOrder(r)
  BY <1>13 DEF AppendRefused, Goto, storeVars, askVars
<1>14. ASSUME NEW a \in Asks, AppendBegan(a) PROVE EndsInOrder(r)
  BY <1>14 DEF AppendBegan, Goto, storeVars, askVars
<1>15. ASSUME NEW a \in Asks, Settle(a) PROVE EndsInOrder(r)
  BY <1>15 DEF Settle, publish, consume, Wait, ACTED
<1>16. ASSUME NEW a \in Asks, Unwind(a) PROVE EndsInOrder(r)
  BY <1>16 DEF Unwind, release_claim, abandon, Gone, Wait, ACTED, Kept, KeptStates
<1>17. ASSUME NEW p \in Acts, ActBegins(p) PROVE EndsInOrder(r)
  BY <1>17 DEF ActBegins, storeVars, askVars
<1>18. ASSUME NEW p \in Acts, ActUnanswered(p) PROVE EndsInOrder(r)
  BY <1>18 DEF ActUnanswered, storeVars, askVars
<1>19. ASSUME NEW p \in Acts, ActDated(p) PROVE EndsInOrder(r)
  BY <1>19 DEF ActDated, storeVars, askVars
<1>20. ASSUME NEW p \in Acts, ActApplied(p) PROVE EndsInOrder(r)
  <2>1. act[p].ref \in Asks /\ wait[act[p].ref].state = "pending"
    BY <1>20 DEF ActApplied, ActShape, Resolvable
  <2>2. r # act[p].ref => wait'[r] = wait[r]  BY <1>20, <2>1 DEF ActApplied, resolve
  <2> QED  BY <2>1, <2>2 DEF ACTED
<1>21. ASSUME NEW p \in Acts, ActLate(p) PROVE EndsInOrder(r)
  <2>1. act[p].ref \in Asks /\ wait[act[p].ref].state = "pending"
    BY <1>21 DEF ActLate, ActShape, Resolvable
  <2>2. r # act[p].ref => wait'[r] = wait[r]  BY <1>21, <2>1 DEF ActLate
  <2> QED  BY <2>1, <2>2 DEF ACTED
<1>22. ASSUME NEW p \in Acts, ActRefused(p) PROVE EndsInOrder(r)
  BY <1>22 DEF ActRefused, storeVars, askVars
<1>23. ASSUME NEW p \in Acts, ActRecorded(p) PROVE EndsInOrder(r)
  BY <1>23 DEF ActRecorded, storeVars, askVars
<1>24. ASSUME NEW h \in Holders, HolderWakes(h) PROVE EndsInOrder(r)
  BY <1>24 DEF HolderWakes, storeVars, askVars
<1>25. ASSUME NEW h \in Holders, HolderExpires(h) PROVE EndsInOrder(r)
  <2>1. sweep[h].at \in Nat  BY DEF Sweep
  <2> QED  BY <1>25, <2>1, ExpiryEffect DEF HolderExpires, ACTED
<1>26. ASSUME NEW h \in Holders, HolderForgets(h) PROVE EndsInOrder(r)
  <2>1. \/ wait'[r] = wait[r]
        \/ /\ wait'[r] = Gone("forgotten")
           /\ Lapses(wait[r]) /\ LapseInstant(wait[r]) <= sweep[h].at
    BY <1>26 DEF HolderForgets, forget_lapsed
  <2>2. sweep[h].at \in Nat /\ sweep[h].at <= now  BY <1>26 DEF DatedInOrder,
     ClocksBehind, Sweep
  <2>3. LapseInstant(wait[r]) <= sweep[h].at => LapseInstant(wait[r]) <= now
    BY <2>2, LapseTyped
  <2>4. Gone("forgotten").state = "forgotten"  BY DEF Gone
  <2> QED  BY <2>1, <2>3, <2>4 DEF Lapses, ACTED
<1>27. ASSUME Tick PROVE EndsInOrder(r)
  BY <1>27 DEF Tick, storeVars, askVars
<1>28. ASSUME Restart PROVE EndsInOrder(r)
  <2>1. wait' = lose_all  BY <1>28 DEF Restart
  <2>2. Gone("lost").state = "lost"  BY DEF Gone
  <2>3. \/ wait'[r] = wait[r]
        \/ wait[r].state \in KeptStates /\ wait'[r].state = "lost"
    BY <2>1, <2>2, LossEffect
  <2> QED  BY <2>3 DEF ACTED, KeptStates
<1>29. ASSUME UNCHANGED vars PROVE EndsInOrder(r)
  BY <1>29 DEF vars, storeVars, askVars
<1> QED
  BY <1>1, <1>2, <1>3, <1>4, <1>5, <1>6, <1>7, <1>8, <1>9, <1>10, <1>11,
     <1>12, <1>13, <1>14, <1>15, <1>16, <1>17, <1>18, <1>19, <1>20, <1>21,
     <1>22, <1>23, <1>24, <1>25, <1>26, <1>27, <1>28, <1>29
  DEF Next, AskStep, ActStep, HolderStep

(* A person's act survives every step but the one that loses the process's *)
(* memory.                                                                 *)
LEMMA ActsStandStep ==
  ASSUME TypeOK, ConsultationShape, ActShape, SpendShape, DatedInOrder,
         [Next]_vars, NEW r \in Asks
  PROVE  KeptUntilSpent(r) /\ SpentStaysReadable(r) /\ RejectionStands(r)
<1> USE WaitLengthAssumption DEF TypeOK, StoreTypeOK
<1>1. wait \in [Asks -> Wait] /\ now \in Nat  OBVIOUS
<1>2. KeptUntilSpent(r)
  BY EndsStep DEF KeptUntilSpent, EndsInOrder, Lapses, ACTED
<1>3. Kept(r) => LapseInstant(wait[r])
                   = (IF wait[r].consumed THEN wait[r].consumed_at ELSE wait[r].resolved_at)
                     + WaitLength
  BY <1>1, LapseTyped DEF DatedInOrder, WaitsDated, LapseInstant
<1>4. SpentStaysReadable(r)
  <2> SUFFICES ASSUME wait[r].consumed, now < wait[r].consumed_at + WaitLength
               PROVE  wait'[r].state \in {"approved", "lost"}
    BY DEF SpentStaysReadable
  <2>1. wait[r].state = "approved"  BY DEF SpendShape
  <2>2. ~ (LapseInstant(wait[r]) <= now)
    BY <1>1, <1>3, <2>1, LapseTyped DEF Kept, KeptStates
  <2> QED  BY <2>1, <2>2, EndsStep DEF EndsInOrder, ACTED
<1>5. RejectionStands(r)
  <2> SUFFICES ASSUME wait[r].state = "rejected", now < wait[r].deadline
               PROVE  /\ wait'[r].state \in {"rejected", "lost"}
                      /\ \A s \in Asks : question[s] = question[r] /\ wait[s].state = "none"
                                         => wait'[s].state = "none"
    BY DEF RejectionStands
  <2>1. ~ wait[r].consumed  BY DEF SpendShape
  <2>2. /\ wait[r].requested_at <= wait[r].resolved_at
        /\ wait[r].deadline = wait[r].requested_at + WaitLength
    BY DEF DatedInOrder, WaitsDated, Kept, KeptStates
  <2>3. ~ (LapseInstant(wait[r]) <= now)
    BY <1>1, <1>3, <2>1, <2>2, LapseTyped DEF Kept, KeptStates
  <2>4. wait'[r].state \in {"rejected", "lost"}
    BY <2>3, EndsStep DEF EndsInOrder, ACTED
  <2>5. ASSUME NEW s \in Asks, question[s] = question[r], OpenWait(s) PROVE FALSE
    <3>1. Live(question[r]) = {}  BY <2>5 DEF OpenWait
    <3>2. ~ (now >= wait[r].deadline)  BY <1>1, LapseTyped
    <3>3. StillAnswers(r, question[r])
      BY <2>1, <3>2 DEF StillAnswers, Kept, KeptStates, state_at
    <3> QED  BY <3>1, <3>3 DEF Live
  <2>6. \A s \in Asks : question[s] = question[r] /\ wait[s].state = "none"
                         => wait'[s].state = "none"
    BY <2>5, EndsStep DEF EndsInOrder
  <2> QED  BY <2>4, <2>6
<1> QED  BY <1>2, <1>4, <1>5

-----------------------------------------------------------------------------
(* Every allow on the chain stands on a person's act applied to the very   *)
(* wait it names (AllowStandsOnAnAct; ask, resolve and claim).             *)
THEOREM AllowsStandOnActs == Spec => []AllowStandsOnAnAct
<1> DEFINE Base == TypeOK /\ ActShape /\ ExecutionInv
<1>1. Init => ApprovalInv
  <2> SUFFICES ASSUME Init PROVE ApprovalInv  OBVIOUS
  <2>1. \A r \in Asks : wait[r].state = "none"  BY DEF Init, StoreInit, Gone
  <2>2. \A a \in Asks : pc[a] = "idle" /\ ~ Spends(a)
    BY DEF Init, Spends, NotConsulted
  <2> QED  BY <2>1, <2>2 DEF ApprovalInv
<1>2. Base /\ ApprovalInv /\ [Next]_vars => ApprovalInv'
  BY ApprovalStep DEF Base, ExecutionInv
<1>3. Base /\ ApprovalInv => AllowStandsOnAnAct
  <2> SUFFICES ASSUME Base, ApprovalInv, NEW a \in Asks, Committed(a), Spends(a)
               PROVE  Approved(consulted[a].ref)
    BY DEF AllowStandsOnAnAct, Spends, Approved
  <2>1. consulted[a].ref \in Asks  BY DEF Base, ExecutionInv, ConsultationShape
  <2> QED  BY <2>1 DEF ApprovalInv
<1>4. Spec => []Base  BY Executions DEF Base
<1> QED  BY <1>1, <1>2, <1>3, <1>4, PTL DEF Spec

(* A reference a decision names, that is or may be on the chain, is never  *)
(* withdrawn (NoWithdrawnPromise; publish, abandon and _withdraw_opened).  *)
THEOREM PromisesAreKept == Spec => []NoWithdrawnPromise
<1> DEFINE Base == TypeOK /\ ActShape /\ ExecutionInv
<1>1. Init => PromiseInv
  BY DecisionsAssumption DEF Init, PromiseInv, NotConsulted, Opened, Began
<1>2. Base /\ PromiseInv /\ [Next]_vars => PromiseInv'
  BY PromiseStep DEF Base, ExecutionInv
<1>3. PromiseInv => NoWithdrawnPromise
  BY DEF PromiseInv, NoWithdrawnPromise, Told
<1>4. Spec => []Base  BY Executions DEF Base
<1> QED  BY <1>1, <1>2, <1>3, <1>4, PTL DEF Spec

(* A question never has two waits still open for an answer (OneOpenWait;   *)
(* open_if_absent looks and opens under one lock).                         *)
THEOREM OneWaitPerQuestion == Spec => []OneOpenWait
<1> DEFINE Base == TypeOK /\ ActShape /\ ExecutionInv
<1>1. Init => OneOpenWait
  <2> SUFFICES ASSUME Init PROVE \A r \in Asks : wait[r].state # "pending"
    BY DEF OneOpenWait
  <2> QED  BY DEF Init, StoreInit, Gone
<1>2. Base /\ OneOpenWait /\ [Next]_vars => OneOpenWait'
  BY OpenWaitStep DEF Base, ExecutionInv
<1>3. Spec => []Base  BY Executions DEF Base
<1> QED  BY <1>1, <1>2, <1>3, PTL DEF Spec

(* An execution that is taken is backed: a claim by exactly one ask still  *)
(* running, a spend by a record that exists or may exist (ClaimsAreBacked; *)
(* claim, _release_claim, _consume_claimed).                               *)
THEOREM ClaimsBacked == Spec => []ClaimsAreBacked
<1> DEFINE Base == TypeOK /\ ActShape /\ ExecutionInv
           Inv == ClaimsAreHeld /\ SpentBehindARecord
<1>1. Init => Inv
  <2> SUFFICES ASSUME Init PROVE \A r \in Asks : ~ wait[r].claimed /\ ~ wait[r].consumed
    BY DEF Inv, ClaimsAreHeld, SpentBehindARecord
  <2> QED  BY DEF Init, StoreInit, Gone
<1>2. Base /\ Inv /\ [Next]_vars => Inv'
  BY ClaimsHeldStep, RecordBehindStep DEF Base, Inv, ExecutionInv
<1>3. Base /\ Inv => ClaimsAreBacked
  <2> SUFFICES ASSUME Base, Inv, NEW r \in Asks, wait[r].claimed, ~ wait[r].consumed
               PROVE  \E a \in Asks : Holds(a, r) /\ \A b \in Asks \ {a} : ~ Holds(b, r)
    BY DEF ClaimsAreBacked, ClaimHasOneHolder, Inv, Holds, Holding
  <2>1. PICK a \in Asks : Holds(a, r)  BY DEF Inv, ClaimsAreHeld
  <2> QED  BY <2>1 DEF Base, ExecutionInv, HeldExecution
<1>4. Spec => []Base  BY Executions DEF Base
<1> QED  BY <1>1, <1>2, <1>3, <1>4, PTL DEF Spec

(* No step takes a person's act back: an approval nobody spent is never    *)
(* forgotten, a spent one is readable for a wait-length, a rejection holds *)
(* its question until its deadline (ActsStand; forget_lapsed,              *)
(* _lapse_instant, _newest_live).                                          *)
THEOREM ActsAreNeverTakenBack == Spec => ActsStand
<1> DEFINE Base == TypeOK /\ ActShape /\ ExecutionInv
           Step == \A r \in Asks :
                     KeptUntilSpent(r) /\ SpentStaysReadable(r) /\ RejectionStands(r)
<1>1. Init => DatedInOrder
  BY DEF Init, StoreInit, Gone, NoAct, DatedInOrder, ClocksBehind, WaitsDated, ActsDated,
     Kept, KeptStates
<1>2. Base /\ DatedInOrder /\ [Next]_vars => DatedInOrder'
  BY DatedStep DEF Base, ExecutionInv
<1>3. Base /\ DatedInOrder /\ [Next]_vars => Step
  BY ActsStandStep DEF Base, Step, ExecutionInv
<1>4. Spec => []Base  BY Executions DEF Base
<1> QED  BY <1>1, <1>2, <1>3, <1>4, PTL DEF Spec, ActsStand, Step
=============================================================================
