-------------------------- MODULE MCCommunityNet ---------------------------
(***************************************************************************)
(* Instances of CommunityNet: users are numbers in the order of their ids;  *)
(* groups are alike, as are the slots of calls.                             *)
(***************************************************************************)
EXTENDS CommunityNet, TLC

Symmetry == Permutations(Groups) \cup Permutations(Slots)

=============================================================================
