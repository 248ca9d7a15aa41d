---------------------- MODULE MCOpenBankingAuthorization -----------------------
(* Instances of OpenBankingAuthorization for TLC: authorizations and       *)
(* callbacks may be exchanged in the run that looks for one bad state.     *)
EXTENDS OpenBankingAuthorization, TLC

Exchangeable == Permutations(Auths) \cup Permutations(Callbacks)
==============================================================================
