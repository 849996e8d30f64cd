------------------------- MODULE ExclusiveWorkspace -------------------------
(***************************************************************************)
(* What the ownership row promises (experiment/state.py acquire_owner,     *)
(* release_owner): the durable contents of a workspace change only while   *)
(* one client holds it, and a client takes it only when nobody does.       *)
(***************************************************************************)

CONSTANTS Clients, Nobody

VARIABLES
    holder,   \* the client that holds the workspace, or Nobody
    contents  \* everything a client may write: left abstract

Init == holder = Nobody

\* Taking the workspace may repair what a dead holder left.
Take(c) == holder = Nobody /\ holder' = c

Write(c) == holder = c /\ UNCHANGED holder

\* A holder leaves, or dies; its last write was an earlier step.
Leave(c) == holder = c /\ holder' = Nobody /\ UNCHANGED contents

Next == \E c \in Clients : Take(c) \/ Write(c) \/ Leave(c)

Spec == Init /\ [][Next]_<<holder, contents>>

=============================================================================
