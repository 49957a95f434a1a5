----------------------------- MODULE MCHTTPSend -----------------------------
(***************************************************************************)
(* HTTPSend for TLC.                                                       *)
(***************************************************************************)
EXTENDS HTTPSend

\* Both sides of every comparison that Send makes on a status code.
BoundaryCodes == {200, 299, 300, 428, 429, 430, 499, 500, 599, 600, 999}

\* One representative of every outcome.
OutcomeCodes == {200, 404, 429, 503}

\* Calls share no state, so each is explored while the others have not begun.
OneCall == \A c, d \in Calls : c = d \/ pc[c] = "off" \/ pc[d] = "off"
=============================================================================
