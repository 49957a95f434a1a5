---------------------------- MODULE AuditHandler ----------------------------
(***************************************************************************)
(* Handler.ServeHTTP and Handler.Shutdown of                               *)
(* internal/handler/audit/handler.go, composed with the contract of the    *)
(* outputs (OutputContract).                                               *)
(*                                                                         *)
(* A request r of Requests is one POST of an event list.  The call of      *)
(* Send for output o on behalf of r is the pair <<r, o>>.  Every pair of a *)
(* Guaranteed output runs under the context of the request, every pair of  *)
(* a BestEffort output under the handler's shutdownCtx.  Goroutines are    *)
(* the per-pair actions; with a single Guaranteed output the code calls    *)
(* Send in place (handler.go:158-165), which takes the same steps.  A      *)
(* definition whose name ends in _bug is a plausible mistake in the one    *)
(* that follows it; the properties are shown to notice it.                 *)
(***************************************************************************)
EXTENDS Integers, FiniteSets

CONSTANTS
  Requests,       \* the requests the server hands to ServeHTTP
  Guaranteed,     \* h.guaranteedOutputs
  BestEffort,     \* h.bestEffortOutputs
  NumProcessors   \* len(h.processors)

\* NewHandler rejects an empty list of Guaranteed outputs.
ASSUME HandlerAssumption ==
  /\ Guaranteed # {}
  /\ Guaranteed \cap BestEffort = {}
  /\ NumProcessors \in Nat

Outputs == Guaranteed \cup BestEffort

VARIABLES
  req,            \* req[r]: where ServeHTTP is
  processed,      \* processed[r]: how many processors have run
  errCh,          \* errCh[r]: the Guaranteed outputs whose error is in errCh
  settled,        \* the pairs whose goroutine has ended
  fanOut,         \* fanOut[r]: the goroutine of forwardToBestEffortOutputs
  bestEffortWg,   \* the requests counted by h.bestEffortWg
  shutdown,       \* where Shutdown is: its return value at the end
  waiter,         \* the goroutine of Shutdown that waits on bestEffortWg
  panicked,       \* a goroutine panicked outside net/http: the process is gone
  atShutdown,     \* history: the fan-outs running at the call of Shutdown
  received, succeeded, failed,   \* the Audit* counters
  outSucceeded, outFailed,       \* the Output* counters, by output
  phase, sent, accepted, cancelled   \* the state of the outputs

Out == INSTANCE OutputContract WITH Calls <- Requests \X Outputs

reqVars      == <<req, processed, errCh, settled, fanOut>>
shutdownVars == <<shutdown, waiter, panicked, atShutdown>>
metricVars   == <<received, succeeded, failed, outSucceeded, outFailed>>
outVars      == <<phase, sent, accepted, cancelled>>
vars == <<reqVars, bestEffortWg, shutdownVars, metricVars, outVars>>

Init ==
  /\ req = [r \in Requests |-> "idle"]
  /\ processed = [r \in Requests |-> 0]
  /\ errCh = [r \in Requests |-> {}]
  /\ settled = {}
  /\ fanOut = [r \in Requests |-> "none"]
  /\ bestEffortWg = {}
  /\ shutdown = "none"
  /\ waiter = "none"
  /\ panicked = FALSE
  /\ atShutdown = {}
  /\ received = 0 /\ succeeded = 0 /\ failed = 0
  /\ outSucceeded = [o \in Outputs |-> 0]
  /\ outFailed = [o \in Outputs |-> 0]
  /\ Out!Init

Goto(r, from, to) == req[r] = from /\ req' = [req EXCEPT ![r] = to]

\* The pairs whose context ends with the request's.
CtxOfRequest_bug(r) == {r} \X Outputs
CtxOfRequest(r) == {r} \X Guaranteed

-----------------------------------------------------------------------------
(* ServeHTTP.                                                              *)

Receive(r) ==
  /\ Goto(r, "idle", "reading")
  /\ received' = received + 1
  /\ UNCHANGED <<processed, errCh, settled, fanOut, bestEffortWg, shutdownVars,
                 succeeded, failed, outSucceeded, outFailed, outVars>>

ReadBody(r) ==
  /\ Goto(r, "reading", "processing")
  /\ UNCHANGED <<processed, errCh, settled, fanOut, bestEffortWg, shutdownVars,
                 metricVars, outVars>>

\* The response is 500 and ServeHTTP returns, which ends the request's context.
Fail(r, from) ==
  /\ Goto(r, from, "500")
  /\ failed' = failed + 1
  /\ Out!Cancel(CtxOfRequest(r))
  /\ UNCHANGED <<processed, errCh, settled, fanOut, bestEffortWg, shutdownVars,
                 received, succeeded, outSucceeded, outFailed>>

\* The error is answered but not counted.
ReadBodyFails_bug(r) ==
  /\ Goto(r, "reading", "500")
  /\ Out!Cancel(CtxOfRequest(r))
  /\ UNCHANGED <<processed, errCh, settled, fanOut, bestEffortWg, shutdownVars, metricVars>>

ReadBodyFails(r) == Fail(r, "reading")

\* One processor too many is called.
ToProcess_bug(r) == processed[r] <= NumProcessors

ToProcess(r) == processed[r] < NumProcessors

Process(r) ==
  /\ req[r] = "processing"
  /\ ToProcess(r)
  /\ processed' = [processed EXCEPT ![r] = @ + 1]
  /\ UNCHANGED <<req, errCh, settled, fanOut, bestEffortWg, shutdownVars, metricVars, outVars>>

ProcessFails(r) ==
  /\ ToProcess(r)
  /\ Fail(r, "processing")

\* forwardToGuaranteedOutputs starts one goroutine per output.
ForwardToGuaranteed(r) ==
  /\ processed[r] = NumProcessors
  /\ Goto(r, "processing", "forwarding")
  /\ UNCHANGED <<processed, errCh, settled, fanOut, bestEffortWg, shutdownVars,
                 metricVars, outVars>>

SendGuaranteed(r, g) ==
  /\ req[r] = "forwarding"
  /\ Out!Call(<<r, g>>)
  /\ UNCHANGED <<reqVars, bestEffortWg, shutdownVars, metricVars>>

\* The capacity errCh is made with.
ErrChCapacity_bug == 1
ErrChCapacity == Cardinality(Guaranteed)

\* A goroutine ends after Send returned nil, ...
GuaranteedSucceeded(r, g) ==
  /\ phase[<<r, g>>] = "ok"
  /\ <<r, g>> \notin settled
  /\ settled' = settled \cup {<<r, g>>}
  /\ outSucceeded' = [outSucceeded EXCEPT ![g] = @ + 1]
  /\ UNCHANGED <<req, processed, errCh, fanOut, bestEffortWg, shutdownVars,
                 received, succeeded, failed, outFailed, outVars>>

\* ... or after Send returned an error and errCh took it.
GuaranteedFailed(r, g) ==
  /\ phase[<<r, g>>] = "err"
  /\ <<r, g>> \notin settled
  /\ Cardinality(errCh[r]) < ErrChCapacity
  /\ errCh' = [errCh EXCEPT ![r] = @ \cup {g}]
  /\ settled' = settled \cup {<<r, g>>}
  /\ outFailed' = [outFailed EXCEPT ![g] = @ + 1]
  /\ UNCHANGED <<req, processed, fanOut, bestEffortWg, shutdownVars,
                 received, succeeded, failed, outSucceeded, outVars>>

\* The first goroutine to end releases the handler.
Joined_bug(r) == {r} \X Guaranteed \cap settled # {}

\* wg.Wait of forwardToGuaranteedOutputs returns.
Joined(r) == {r} \X Guaranteed \subseteq settled

ForwardFails(r) ==
  /\ Joined(r)
  /\ errCh[r] # {}
  /\ Fail(r, "forwarding")

\* The goroutine itself adds to the wait group.
Counted_bug(r) == bestEffortWg

Counted(r) == bestEffortWg \cup {r}

\* Every Guaranteed output has the events: bestEffortWg.Go counts and starts
\* the goroutine that serves the BestEffort outputs.
StartBestEffort(r) ==
  /\ Joined(r)
  /\ errCh[r] = {}
  /\ Goto(r, "forwarding", "answering")
  /\ IF BestEffort = {}
     THEN UNCHANGED <<fanOut, bestEffortWg>>
     ELSE /\ fanOut' = [fanOut EXCEPT ![r] = "running"]
          /\ bestEffortWg' = Counted(r)
  /\ UNCHANGED <<processed, errCh, settled, shutdownVars, metricVars, outVars>>

\* The response is 200 and ServeHTTP returns.
Answer(r) ==
  /\ Goto(r, "answering", "200")
  /\ succeeded' = succeeded + 1
  /\ Out!Cancel(CtxOfRequest(r))
  /\ UNCHANGED <<processed, errCh, settled, fanOut, bestEffortWg, shutdownVars,
                 received, failed, outSucceeded, outFailed>>

\* The client closes the connection while ServeHTTP runs.
ClientDisconnect(r) ==
  /\ req[r] \in {"reading", "processing", "forwarding", "answering"}
  /\ ~(CtxOfRequest(r) \subseteq cancelled)
  /\ Out!Cancel(CtxOfRequest(r))
  /\ UNCHANGED <<reqVars, bestEffortWg, shutdownVars, metricVars>>

-----------------------------------------------------------------------------
(* forwardToBestEffortOutputs, in the goroutine of bestEffortWg.Go.        *)

SendBestEffort(r, b) ==
  /\ fanOut[r] = "running"
  /\ Out!Call(<<r, b>>)
  /\ UNCHANGED <<reqVars, bestEffortWg, shutdownVars, metricVars>>

BestEffortReturned(r, b) ==
  /\ phase[<<r, b>>] \in {"ok", "err"}
  /\ <<r, b>> \notin settled
  /\ settled' = settled \cup {<<r, b>>}
  /\ \/ /\ phase[<<r, b>>] = "ok"
        /\ outSucceeded' = [outSucceeded EXCEPT ![b] = @ + 1]
        /\ UNCHANGED outFailed
     \/ /\ phase[<<r, b>>] = "err"
        /\ outFailed' = [outFailed EXCEPT ![b] = @ + 1]
        /\ UNCHANGED outSucceeded
  /\ UNCHANGED <<req, processed, errCh, fanOut, bestEffortWg, shutdownVars,
                 received, succeeded, failed, outVars>>

\* The inner wg.Wait returns and the goroutine ends: bestEffortWg.Done wakes
\* the waiter when it was the last one.
FinishBestEffort(r) ==
  /\ fanOut[r] = "running"
  /\ {r} \X BestEffort \subseteq settled
  /\ fanOut' = [fanOut EXCEPT ![r] = "done"]
  /\ bestEffortWg' = bestEffortWg \ {r}
  /\ waiter' = IF waiter = "blocked" /\ bestEffortWg' = {} THEN "released" ELSE waiter
  /\ UNCHANGED <<req, processed, errCh, settled, shutdown, panicked, atShutdown,
                 metricVars, outVars>>

-----------------------------------------------------------------------------
(* Shutdown.                                                               *)

Shutdown ==
  /\ shutdown = "none"
  /\ shutdown' = "waiting"
  /\ waiter' = "started"
  /\ atShutdown' = {r \in Requests : fanOut[r] = "running"}
  /\ UNCHANGED <<reqVars, bestEffortWg, panicked, metricVars, outVars>>

\* The waiter calls bestEffortWg.Wait: it returns at once when nothing is
\* counted.
Wait ==
  /\ waiter = "started"
  /\ waiter' = IF bestEffortWg = {} THEN "done" ELSE "blocked"
  /\ UNCHANGED <<reqVars, bestEffortWg, shutdown, panicked, atShutdown, metricVars, outVars>>

\* The woken waiter runs again.  sync.WaitGroup panics when something has been
\* added in the meantime ("WaitGroup is reused before previous Wait has
\* returned"), and nothing recovers from it.
WaitReturns ==
  /\ waiter = "released"
  /\ \/ bestEffortWg = {} /\ waiter' = "done" /\ UNCHANGED panicked
     \/ bestEffortWg # {} /\ panicked' = TRUE /\ UNCHANGED waiter
  /\ UNCHANGED <<reqVars, bestEffortWg, shutdown, atShutdown, metricVars, outVars>>

\* Shutdown returns value v after shutdownCancel.
Return(v) ==
  /\ shutdown = "waiting"
  /\ shutdown' = v
  /\ Out!Cancel(Requests \X BestEffort)
  /\ UNCHANGED <<reqVars, bestEffortWg, waiter, panicked, atShutdown, metricVars>>

ShutdownDone == waiter = "done" /\ Return("ok")

\* There is no timeout: Shutdown returns when the waiter is done.
ShutdownTimeout_bug == waiter = "done" /\ Return("timeout")

ShutdownTimeout == Return("timeout")

-----------------------------------------------------------------------------
\* What runs on behalf of request r up to its answer.
Serve(r) ==
  \/ ReadBody(r) \/ ReadBodyFails(r) \/ Process(r) \/ ProcessFails(r)
  \/ ForwardToGuaranteed(r) \/ ForwardFails(r) \/ StartBestEffort(r) \/ Answer(r)

GuaranteedGoroutine(r, g) ==
  SendGuaranteed(r, g) \/ GuaranteedSucceeded(r, g) \/ GuaranteedFailed(r, g)

BestEffortGoroutine(r) ==
  \/ FinishBestEffort(r)
  \/ \E b \in BestEffort : SendBestEffort(r, b) \/ BestEffortReturned(r, b)

OutputStep(r, o) ==
  /\ Out!SendStep(<<r, o>>)
  /\ UNCHANGED <<reqVars, bestEffortWg, shutdownVars, metricVars>>

\* The backend of output o accepts events sent on behalf of r: it is no part of
\* the process, so it may do so after the answer and after a panic.
BackendAccepts(r, o) ==
  /\ Out!Accept(<<r, o>>)
  /\ UNCHANGED <<reqVars, bestEffortWg, shutdownVars, metricVars>>

ShutdownStep == Wait \/ WaitReturns \/ ShutdownDone \/ ShutdownTimeout

ProcessStep ==
  \/ \E r \in Requests :
       \/ Receive(r) \/ Serve(r) \/ ClientDisconnect(r) \/ BestEffortGoroutine(r)
       \/ \E g \in Guaranteed : GuaranteedGoroutine(r, g)
       \/ \E o \in Outputs : OutputStep(r, o)
  \/ Shutdown
  \/ ShutdownStep

Next ==
  \/ ~panicked /\ ProcessStep
  \/ \E r \in Requests, o \in Outputs : BackendAccepts(r, o)

Spec == Init /\ [][Next]_vars

\* Send returns (OutputContract, EveryCallReturns of HTTPSend).
SendReturns(r, o) ==
  /\ ~panicked
  /\ Out!ReturnOk(<<r, o>>) \/ Out!ReturnErr(<<r, o>>)
  /\ UNCHANGED <<reqVars, bestEffortWg, shutdownVars, metricVars>>

\* Goroutines run, the sends to Guaranteed outputs return and the timer of
\* Shutdown fires.  Nothing is assumed of BestEffort outputs, which must block
\* neither an answer nor Shutdown.
FairSpec ==
  /\ Spec
  /\ \A r \in Requests :
       /\ WF_vars(~panicked /\ Serve(r))
       /\ \A g \in Guaranteed :
            WF_vars(~panicked /\ GuaranteedGoroutine(r, g)) /\ WF_vars(SendReturns(r, g))
  /\ WF_vars(~panicked /\ ShutdownStep)

-----------------------------------------------------------------------------
(* Properties.                                                             *)

Active == {"reading", "processing", "forwarding", "answering"}

\* What the client knows of its request.
Status(r) ==
  CASE req[r] = "idle" -> "new"
    [] req[r] = "200" -> "acked"
    [] req[r] = "500" -> "rejected"
    [] OTHER -> "pending"

Abstract == INSTANCE Forwarding WITH
              status <- [r \in Requests |-> Status(r)], delivered <- accepted

\* The handler keeps the promise of Forwarding: what a client is told of its
\* request, and where the events are by then, agree in every state
\* (handler.go:91-111).  In particular the events of a request that was
\* answered 500 never reach a BestEffort output.
ImplementsForwarding == Abstract!Spec

\* Types of the state.
TypeOK ==
  /\ req \in [Requests -> {"idle", "200", "500"} \cup Active]
  /\ processed \in [Requests -> 0 .. NumProcessors]
  /\ errCh \in [Requests -> SUBSET Guaranteed]
  /\ settled \subseteq Requests \X Outputs
  /\ fanOut \in [Requests -> {"none", "running", "done"}]
  /\ bestEffortWg \subseteq Requests
  /\ shutdown \in {"none", "waiting", "ok", "timeout"}
  /\ waiter \in {"none", "started", "blocked", "released", "done"}
  /\ panicked \in BOOLEAN
  /\ atShutdown \subseteq Requests
  /\ received \in Nat /\ succeeded \in Nat /\ failed \in Nat
  /\ outSucceeded \in [Outputs -> Nat]
  /\ outFailed \in [Outputs -> Nat]
  /\ Out!TypeOK

\* When the client reads 200, and already when the events are first handed to
\* a BestEffort output, every Guaranteed output has accepted them
\* (handler.go:91-109): no goroutine's error is lost on the way to the answer.
AckedMeansDelivered ==
  \A r \in Requests :
    (req[r] = "200" \/ \E b \in BestEffort : phase[<<r, b>>] # "off")
      => \A g \in Guaranteed : <<r, g>> \in accepted

\* A BestEffort send is interrupted by Shutdown alone: not by the client
\* closing the connection, and not by ServeHTTP returning (handler.go:103-105).
OnlyShutdownInterrupts ==
  \A r \in Requests, b \in BestEffort :
    <<r, b>> \in cancelled => shutdown \in {"ok", "timeout"}

\* When Shutdown returns nil, every BestEffort fan-out that was in flight when
\* it was called has run to its end (handler.go:113-130), and each of its
\* sends has returned.
ShutdownDrains ==
  shutdown = "ok" =>
    \A r \in atShutdown :
      /\ fanOut[r] = "done"
      /\ \A b \in BestEffort : phase[<<r, b>>] \in {"ok", "err"}

\* The counters tell the truth in every state a scrape may see: what is
\* received is answered or being served, and an answer 200 has been counted
\* as a delivery by every Guaranteed output (handler.go:62-110, 151-178).
MetricsAddUp ==
  /\ received = succeeded + failed + Cardinality({r \in Requests : req[r] \in Active})
  /\ \A g \in Guaranteed : succeeded <= outSucceeded[g]

\* Every request is answered, however slow the BestEffort outputs are
\* (handler.go:101-109, 167-189).
EveryRequestAnswered ==
  \A r \in Requests : req[r] \in Active ~> (req[r] \in {"200", "500"} \/ panicked)

\* Shutdown returns even when a BestEffort output never does
\* (handler.go:126-135).
ShutdownReturns == shutdown = "waiting" ~> (shutdown \in {"ok", "timeout"} \/ panicked)

-----------------------------------------------------------------------------
(* What the documentation says and the code does not do.                   *)

\* handler.go:115-116: Shutdown is "canceling the shutdown context only after
\* timeout to stop any remaining work".  It also cancels it when the wait
\* group was empty for a moment (handler.go:129), under fan-outs of requests
\* served meanwhile.
CancelOnlyAfterTimeout ==
  \A r \in Requests, b \in BestEffort :
    fanOut[r] = "running" /\ <<r, b>> \in cancelled => shutdown = "timeout"

\* handler.go:113-114: Shutdown waits "for in-flight BestEffort outputs to
\* complete within the given timeout".  A request that starts a fan-out
\* between the wake-up of the waiter and its return makes bestEffortWg.Wait
\* panic instead (handler.go:103, 122).
ShutdownNeverPanics == ~panicked
=============================================================================
