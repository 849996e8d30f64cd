-------------------------- MODULE MCProviderLanes --------------------------
(* Two slots over two lanes.  The first slot of the second generation is a child
   of either: with the answer of the second slot as its parent, both share a
   lane.                                                                      *)
EXTENDS ProviderLanes

MCSlots == 1..2
MCChildren == {1}
MCLanes == 1..2

=============================================================================
