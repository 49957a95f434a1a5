--------------------------- MODULE ForwarderProofs ---------------------------
(***************************************************************************)
(* Proofs about Forwarder: the order in which the process ends, for any    *)
(* number of requests.                                                     *)
(***************************************************************************)
EXTENDS Forwarder, TLAPS

\* What is known of a server by where its goroutine is: the listener is closed
\* before connections are drained, and a result exists once runServer returned.
\* A result of nil comes from a drain that found no request being served.
ServerInv ==
  /\ runServer["audit"] = "draining" => serve["audit"] # "listening"
  /\ result["audit"] = "nil" =>
       /\ serve["audit"] # "listening"
       /\ runServer["audit"] \in {"returned", "sent", "done"}
       /\ \A r \in Requests : req[r] # "serving"
  /\ \A s \in Servers : runServer[s] \in {"returned", "sent", "done"} => result[s] # "none"

\* run counts the results it has received.
ResultInv ==
  /\ main = "second" => \E s \in Servers : runServer[s] \in {"sent", "done"}
  /\ main \in {"closing", "exited"} => \A s \in Servers : runServer[s] \in {"sent", "done"}

\* The hook and the fan-outs: one that was in flight when the hook was called
\* runs to its end unless the hook returns without it, and has run to its end
\* once the wait group was seen empty.
HookInv ==
  /\ \A r \in Requests : fanOut[r] # "none" => req[r] = "answered"
  /\ runServer["audit"] = "select" => hook = "none"
  /\ runServer["audit"] = "hook" => hook \in {"none", "released"}
  /\ runServer["audit"] \in {"shutdown", "draining"} => hook \in {"ok", "timeout"}
  /\ result["audit"] = "nil" => hook \in {"ok", "timeout"}
  /\ hook = "none" => \A r \in atHook : fanOut[r] \in {"running", "done"}
  /\ hook \in {"released", "ok"} => \A r \in atHook : fanOut[r] = "done"

IInv == TypeOK /\ ServerInv /\ ResultInv /\ HookInv

\* IInv holds before run starts.
LEMMA InitIInv == Init => IInv
BY DEF Init, IInv, TypeOK, ServerInv, ResultInv, HookInv, Servers

\* The actions of Next, one by one.
LEMMA NextCases ==
  ASSUME Next
  PROVE  \/ Signal
         \/ \E s \in Servers :
              \/ ServeFails(s) \/ ServeErr(s) \/ CtxDone(s) \/ StopListening(s)
              \/ Drained(s) \/ DrainTimeout(s) \/ SendResult(s) \/ CancelOther(s)
         \/ \E r \in Requests :
              Accept(r) \/ FanOutEnds(r) \/ \E fan \in {"none", "running"} : Answer(r, fan)
         \/ WaitReturns \/ HookDone \/ HookTimeout \/ CloseOutputs
BY DEF Next, ServerStep, HookStep

\* IInv is inductive.
LEMMA NextIInv ==
  ASSUME IInv, Next
  PROVE  IInv'
<1> USE DEF IInv, TypeOK, ServerInv, ResultInv, HookInv, Servers, Alive
<1>1. CASE Signal
  BY <1>1 DEF Signal
<1>2. ASSUME NEW s \in Servers, ServeFails(s) PROVE IInv'
  BY <1>2 DEF ServeFails
<1>3. ASSUME NEW s \in Servers, ServeErr(s) PROVE IInv'
  BY <1>3 DEF ServeErr, Move
<1>4. ASSUME NEW s \in Servers, CtxDone(s) PROVE IInv'
  BY <1>4 DEF CtxDone, Move, PreShutdown, InFlight
<1>5. ASSUME NEW s \in Servers, StopListening(s) PROVE IInv'
  BY <1>5 DEF StopListening, Move, Closed
<1>6. ASSUME NEW s \in Servers, Drained(s) PROVE IInv'
  BY <1>6 DEF Drained, Return, Move
<1>7. ASSUME NEW s \in Servers, DrainTimeout(s) PROVE IInv'
  BY <1>7 DEF DrainTimeout, Return, Move
<1>8. ASSUME NEW s \in Servers, SendResult(s) PROVE IInv'
  BY <1>8 DEF SendResult, Move, Received
<1>9. ASSUME NEW s \in Servers, CancelOther(s) PROVE IInv'
  BY <1>9 DEF CancelOther, Move, Other
<1>10. ASSUME NEW r \in Requests, Accept(r) PROVE IInv'
  BY <1>10 DEF Accept
<1>11. ASSUME NEW r \in Requests, FanOutEnds(r) PROVE IInv'
  BY <1>11 DEF FanOutEnds
<1>12. ASSUME NEW r \in Requests, NEW fan \in {"none", "running"}, Answer(r, fan) PROVE IInv'
  BY <1>12 DEF Answer
<1>13. CASE HookDone
  BY <1>13 DEF HookDone, HookReturns, Move, InFlight
<1>14. CASE HookTimeout
  BY <1>14 DEF HookTimeout, HookReturns, Move
<1>15. CASE CloseOutputs
  BY <1>15 DEF CloseOutputs
<1>16. CASE WaitReturns
  BY <1>16 DEF WaitReturns, InFlight
<1> HIDE DEF IInv, TypeOK, ServerInv, ResultInv, HookInv, Servers, Alive
<1> QED
  BY <1>1, <1>2, <1>3, <1>4, <1>5, <1>6, <1>7, <1>8, <1>9, <1>10, <1>11, <1>12,
     <1>13, <1>14, <1>15, <1>16, NextCases

\* The inductive invariant holds in every reachable state of the process.
THEOREM Invariance == Spec => []IInv
<1>1. IInv /\ UNCHANGED vars => IInv'
  BY DEF IInv, TypeOK, ServerInv, ResultInv, HookInv, vars
<1> QED
  BY InitIInv, NextIInv, <1>1, PTL DEF Spec

\* The state of the process stays within its types (app.go:79-206).
THEOREM TypeCorrect == Spec => []TypeOK
BY Invariance, PTL DEF IInv

\* The audit server reports a clean stop only when every request it accepted is
\* answered, and accepts none afterwards (app.go:197-204): the drain that finds
\* no request being served starts after the listener is closed.
THEOREM CleanStopAnswersAllCorrect == Spec => []CleanStopAnswersAll
<1>1. IInv => CleanStopAnswersAll
  BY DEF IInv, ServerInv, CleanStopAnswersAll
<1> QED
  BY <1>1, Invariance, PTL

\* Outputs are closed, and the process ends, only after both servers have
\* returned, whichever is the first to hand over its result (app.go:135-142).
THEOREM OutputsClosedLastCorrect == Spec => []OutputsClosedLast
<1>1. IInv => OutputsClosedLast
  BY DEF IInv, ServerInv, ResultInv, OutputsClosedLast
<1> QED
  BY <1>1, Invariance, PTL

\* After a clean stop whose hook did not time out, the fan-outs that were in
\* flight when the hook was called have run to their end (app.go:120-127,
\* 190-195).
THEOREM ShutdownKeepsFanOutsCorrect == Spec => []ShutdownKeepsFanOuts
<1>1. IInv => ShutdownKeepsFanOuts
  BY DEF IInv, TypeOK, HookInv, ShutdownKeepsFanOuts
<1> QED
  BY <1>1, Invariance, PTL
=============================================================================
