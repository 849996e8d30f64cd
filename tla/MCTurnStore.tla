----------------------------- MODULE MCTurnStore -----------------------------
(* Instances of TurnStore for TLC. *)
EXTENDS TurnStore

OneIdentity == [k \in Keys |-> 1]
AllAnswers == {"done", "oversize", "charged", "infra"}
\* Not between the response of an attempt and its manifest.
SafePoints == {"idle", "calling", "raised", "posting"}
Sym == Permutations(Turns) \cup Permutations(Keys)
=============================================================================
