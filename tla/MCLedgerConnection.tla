-------------------------- MODULE MCLedgerConnection --------------------------
(* Instances of LedgerConnection for TLC. *)
EXTENDS LedgerConnection, TLC

Sym == Permutations(Workers) \cup Permutations(StorageKeys)
=============================================================================
