------------------------------ MODULE MCCcbUtil ------------------------------
(* Instance of CcbUtil for TLC: two CCBs, one short and one long name, room  *)
(* for three operations and for two copied names, so that a leaked name can  *)
(* be told from one that is still held.                                      *)
EXTENDS CcbUtil, TLC

Addresses ==
  Permutations(ItemId) \cup Permutations(OpId) \cup Permutations(NameMem)
    \cup Permutations(CcbId)
=============================================================================
