------------------------- MODULE MCScientificSearch -------------------------
(* Two slots, the first a child after the first generation, over two lanes. *)
EXTENDS ScientificSearch

MCSlots == 1..2
MCLanes == 1..2
MCChildren == {1}
MCUntold == {1}

=============================================================================
