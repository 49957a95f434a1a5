----------------------------- MODULE Forwarding -----------------------------
(***************************************************************************)
(* What the forwarder promises a client of POST /audit, as types.go:97-98  *)
(* and handler.go state it: the abstract specification that AuditHandler   *)
(* implements.                                                             *)
(*                                                                         *)
(*   - a request is acknowledged only when every Guaranteed output has its *)
(*     events;                                                             *)
(*   - its events reach a BestEffort output only when every Guaranteed     *)
(*     output has them, and never when the request is rejected;            *)
(*   - a rejection says nothing of the Guaranteed outputs: some, or all of *)
(*     them, may have the events, or get them after the rejection, from a  *)
(*     request whose answer the forwarder no longer waits for;             *)
(*   - nothing is delivered of a request that was not received.            *)
(***************************************************************************)
CONSTANTS Requests, Guaranteed, BestEffort

VARIABLES
  status,       \* status[r]: what the client knows of its request
  delivered     \* the pairs of a request and an output that has its events

vars == <<status, delivered>>

Init ==
  /\ status = [r \in Requests |-> "new"]
  /\ delivered = {}

\* Every Guaranteed output has the events of r.
Secured(r) == {r} \X Guaranteed \subseteq delivered

SetStatus(r, from, to) == status[r] = from /\ status' = [status EXCEPT ![r] = to]

Receive(r) ==
  /\ SetStatus(r, "new", "pending")
  /\ UNCHANGED delivered

DeliverGuaranteed(r, g) ==
  /\ status[r] # "new"
  /\ delivered' = delivered \union {<<r, g>>}
  /\ UNCHANGED status

DeliverBestEffort(r, b) ==
  /\ status[r] \in {"pending", "acked"}
  /\ Secured(r)
  /\ delivered' = delivered \union {<<r, b>>}
  /\ UNCHANGED status

Ack(r) ==
  /\ Secured(r)
  /\ SetStatus(r, "pending", "acked")
  /\ UNCHANGED delivered

Reject(r) ==
  /\ \A b \in BestEffort : <<r, b>> \notin delivered
  /\ SetStatus(r, "pending", "rejected")
  /\ UNCHANGED delivered

Next ==
  \E r \in Requests :
    \/ Receive(r) \/ Ack(r) \/ Reject(r)
    \/ \E g \in Guaranteed : DeliverGuaranteed(r, g)
    \/ \E b \in BestEffort : DeliverBestEffort(r, b)

Spec == Init /\ [][Next]_vars
=============================================================================
