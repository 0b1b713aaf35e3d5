-------------------------- MODULE MCFairnessSeeds --------------------------
(***************************************************************************)
(* A small instance of FairnessSeeds for TLC.                              *)
(***************************************************************************)
EXTENDS FairnessSeeds, TLC

\* Less than an HMAC, one HMAC read past its end, more than one HMAC.
MCRequests ==
  {[byte_count |-> 1, reads |-> 1], [byte_count |-> 2, reads |-> 4],
   [byte_count |-> 3, reads |-> 3]}

MCSymmetry == Permutations(Users) \cup Permutations(Drawers)

=============================================================================
