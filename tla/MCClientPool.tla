---------------------------- MODULE MCClientPool ----------------------------
(***************************************************************************)
(* ClientPool for TLC.                                                     *)
(***************************************************************************)
EXTENDS ClientPool, TLC

\* No property tells one call from another.
Symmetry == Permutations(Calls)
=============================================================================
