-------------------------- MODULE MCOpenBankingSync ---------------------------
(* Instances of OpenBankingSync for TLC: replicas may be exchanged in the  *)
(* runs that look for one bad state.                                       *)
EXTENDS OpenBankingSync, TLC

Replicas == Permutations(Workers)
==============================================================================
