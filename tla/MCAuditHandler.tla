--------------------------- MODULE MCAuditHandler ---------------------------
(***************************************************************************)
(* AuditHandler for TLC.                                                   *)
(***************************************************************************)
EXTENDS AuditHandler, TLC

\* Requests and outputs of one kind are interchangeable; used without
\* liveness only.
Symmetry == Permutations(Requests) \cup Permutations(Guaranteed)
=============================================================================
