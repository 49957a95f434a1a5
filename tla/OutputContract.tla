--------------------------- MODULE OutputContract ---------------------------
(***************************************************************************)
(* What output.Output promises its caller (internal/output/output.go).     *)
(*                                                                         *)
(* A call of Send(ctx, data) is one element of Calls.  While the call is   *)
(* in progress it is either trying (a request is on its way to the         *)
(* backend) or idle (before, between or after such requests).  It ends     *)
(* with nil ("ok") or with an error ("err").  The contract is one of       *)
(* at-least-once delivery:                                                 *)
(*   - "ok" is returned only when the backend has accepted the data;       *)
(*   - "err" says nothing: the backend may have accepted the data, and may *)
(*     still accept it later, when a request that Send gave up arrives;    *)
(*   - no request is issued under a context that is already cancelled.     *)
(*                                                                         *)
(* HTTPSend is shown to implement this module; AuditHandler is composed    *)
(* with it.                                                                *)
(***************************************************************************)

CONSTANT Calls          \* the calls of Send

VARIABLES
  phase,                \* phase[c]: where call c is
  sent,                 \* the calls of which a request has left for the backend
  accepted,             \* the calls whose data the backend has accepted
  cancelled             \* the calls whose context has been cancelled

outVars == <<phase, sent, accepted, cancelled>>

InProgress == {"idle", "trying"}
Returned   == {"ok", "err"}

TypeOK ==
  /\ phase \in [Calls -> {"off"} \cup InProgress \cup Returned]
  /\ sent \subseteq Calls
  /\ accepted \subseteq Calls
  /\ cancelled \subseteq Calls

Init ==
  /\ phase = [c \in Calls |-> "off"]
  /\ sent = {}
  /\ accepted = {}
  /\ cancelled = {}

Move(c, from, to) ==
  /\ phase[c] \in from
  /\ phase' = [phase EXCEPT ![c] = to]

\* The caller invokes Send.
Call(c) ==
  /\ Move(c, {"off"}, "idle")
  /\ UNCHANGED <<sent, accepted, cancelled>>

\* A request leaves for the backend.
Try(c) ==
  /\ c \notin cancelled
  /\ Move(c, {"idle"}, "trying")
  /\ sent' = sent \cup {c}
  /\ UNCHANGED <<accepted, cancelled>>

\* The request failed and Send will try again.
Pause(c) ==
  /\ Move(c, {"trying"}, "idle")
  /\ UNCHANGED <<sent, accepted, cancelled>>

ReturnOk(c) ==
  /\ c \in accepted
  /\ Move(c, {"trying"}, "ok")
  /\ UNCHANGED <<sent, accepted, cancelled>>

ReturnErr(c) ==
  /\ Move(c, InProgress, "err")
  /\ UNCHANGED <<sent, accepted, cancelled>>

\* The contexts of the calls in C are cancelled.
Cancel(C) ==
  /\ cancelled' = cancelled \cup C
  /\ UNCHANGED <<phase, sent, accepted>>

\* The backend accepts the data of a request that has left, at any time: also
\* when Send no longer waits for the answer or has returned.
Accept(c) ==
  /\ c \in sent
  /\ accepted' = accepted \cup {c}
  /\ UNCHANGED <<phase, sent, cancelled>>

\* A step inside Send: those of the caller, the context and the backend are
\* left out.
SendStep(c) == Try(c) \/ Pause(c) \/ ReturnOk(c) \/ ReturnErr(c)

Next ==
  \/ \E c \in Calls : Call(c) \/ SendStep(c) \/ Accept(c)
  \/ \E C \in SUBSET Calls : Cancel(C)

Spec == Init /\ [][Next]_outVars

\* Every call of Send returns.
Returns == \A c \in Calls : phase[c] \in InProgress ~> phase[c] \in Returned
=============================================================================
