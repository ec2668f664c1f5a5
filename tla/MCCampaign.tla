----------------------------- MODULE MCCampaign -----------------------------
(***************************************************************************)
(* Campaign for TLC.                                                       *)
(***************************************************************************)
EXTENDS Campaign, TLC

Symmetry ==
  Permutations(Contacts) \cup Permutations(Requests)
    \cup Permutations(Executors)
=============================================================================
