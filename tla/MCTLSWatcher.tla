---------------------------- MODULE MCTLSWatcher ----------------------------
(***************************************************************************)
(* TLSWatcher for TLC.                                                     *)
(***************************************************************************)
EXTENDS TLSWatcher

AllFiles == {"ca", "cert", "key"}
PairOnly == {"cert", "key"}

\* The CA bundle is mounted apart from the client's key pair.
TwoDirs == [f \in AllFiles |-> IF f = "ca" THEN "ca-dir" ELSE "client-dir"]
=============================================================================
