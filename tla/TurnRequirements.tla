-------------------------- MODULE TurnRequirements --------------------------
(***************************************************************************)
(* What a slot may rely on when it asks for a model turn: once an answer   *)
(* of the turn is settled it is the answer of the turn for good, and every *)
(* later request is told that answer.  Nothing is said of how often the    *)
(* provider fails first, nor of the process that asks.                     *)
(***************************************************************************)
CONSTANTS
    Turns,   \* the turns of a search: a slot and a phase
    Ids,     \* identities of provider answers
    None     \* no answer

VARIABLES
    settled, \* the answer each turn is settled with
    told     \* the answer last given to the one who asked

Init ==
    /\ settled = [t \in Turns |-> None]
    /\ told = [t \in Turns |-> None]

Settle(t) ==
    /\ settled[t] = None
    /\ \E a \in Ids : settled' = [settled EXCEPT ![t] = a]
    /\ UNCHANGED told

Tell(t) ==
    /\ settled[t] # None
    /\ told' = [told EXCEPT ![t] = settled[t]]
    /\ UNCHANGED settled

Forget(t) == told' = [told EXCEPT ![t] = None] /\ UNCHANGED settled

ForgetAll == told' = [t \in Turns |-> None] /\ UNCHANGED settled

Next == ForgetAll \/ \E t \in Turns : Settle(t) \/ Tell(t) \/ Forget(t)

Spec == Init /\ [][Next]_<<settled, told>>

=============================================================================
