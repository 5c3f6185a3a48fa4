--------------------------- MODULE DecisionChain ---------------------------
(***************************************************************************)
(* What the decision authority promises its callers (ports/                *)
(* decision_store.py): a chain of decisions that only grows, and answers   *)
(* that are true of it.  An acknowledged decision is on the chain at the   *)
(* position it was given; an append that is refused committed nothing; of  *)
(* an append that began and failed, or was never answered, nothing is said *)
(* and the decision stays in doubt.                                        *)
(***************************************************************************)
EXTENDS Naturals, Sequences, SequencesExt

CONSTANT Refs         \* decision references, minted once each

VARIABLES
  chain,              \* the committed references, in position order
  answer              \* what the last append of each reference was told

Words == {"nothing", "appending", "acked", "exists", "refused", "indeterminate", "lost"}
Answer == [said: Words, position: Nat, doubt: BOOLEAN]

(* Told `word` after what it was told before: a doubt outlives the answers.*)
Told(before, word, position) ==
  [said |-> word, position |-> position,
   doubt |-> before.doubt \/ word \in {"indeterminate", "lost"}]

Honest(d, said, c) ==
  /\ said.said = "acked" => said.position \in DOMAIN c /\ c[said.position] = d
  /\ said.said = "exists" => Contains(c, d)
  /\ said.said = "refused" /\ ~ said.doubt => ~ Contains(c, d)

Init ==
  /\ chain = <<>>
  /\ answer = [d \in Refs |-> [said |-> "nothing", position |-> 0, doubt |-> FALSE]]

Begin(d) ==
  /\ answer[d].said # "appending"
  /\ answer' = [answer EXCEPT ![d] = Told(@, "appending", 0)]
  /\ UNCHANGED chain

(* An append in progress may commit, may be answered, or both.             *)
Progress(d) ==
  /\ answer[d].said = "appending"
  /\ \/ UNCHANGED chain
     \/ ~ Contains(chain, d) /\ chain' = Append(chain, d)
  /\ \E word \in Words \ {"nothing"}, position \in 0..Len(chain') :
       /\ answer' = [answer EXCEPT ![d] = Told(@, word, position)]
       /\ Honest(d, answer'[d], chain')

Next == \E d \in Refs : Begin(d) \/ Progress(d)

Spec == Init /\ [][Next]_<<chain, answer>>
=============================================================================
