------------------------------ MODULE Forwarder ------------------------------
(***************************************************************************)
(* The life of the process: run, runServer and closeOutputs of             *)
(* cmd/auditlog-forwarder/app/app.go.                                      *)
(*                                                                         *)
(* The audit and the metrics server run side by side; a server that ends   *)
(* cancels the context of the other.  The audit handler is reduced to what *)
(* the servers see of it: a request is being served, then answered, and    *)
(* may leave a BestEffort fan-out behind (AuditHandler has the detail).    *)
(* Requests to the metrics server are not modelled, nor are the two other  *)
(* ends of the process: a second signal, on which the signal handler that  *)
(* main installs exits at once, and the panic of AuditHandler.  A          *)
(* definition whose name ends in _bug is a plausible mistake in the one    *)
(* that follows it.                                                        *)
(***************************************************************************)
CONSTANT Requests         \* the requests to the audit server

Servers == {"audit", "metrics"}
Other(s) == IF s = "audit" THEN "metrics" ELSE "audit"

VARIABLES
  signalled,    \* ctx of run is cancelled (SIGTERM, SIGINT)
  cancelled,    \* the servers whose own context has been cancelled
  serve,        \* serve[s]: the goroutine in ListenAndServe
  runServer,    \* runServer[s]: the goroutine in runServer
  result,       \* result[s]: what runServer returned
  main,         \* where run is
  hook,         \* the preShutdownHook: what Handler.Shutdown has seen, how it ended
  req,          \* req[r]: the request
  fanOut,       \* fanOut[r]: its BestEffort fan-out
  atHook        \* history: the fan-outs in flight when the hook was called

vars == <<signalled, cancelled, serve, runServer, result, main, hook, req, fanOut, atHook>>

Init ==
  /\ signalled = FALSE
  /\ cancelled = {}
  /\ serve = [s \in Servers |-> "listening"]
  /\ runServer = [s \in Servers |-> "select"]
  /\ result = [s \in Servers |-> "none"]
  /\ main = "first"
  /\ hook = "none"
  /\ req = [r \in Requests |-> "none"]
  /\ fanOut = [r \in Requests |-> "none"]
  /\ atHook = {}

Alive == main # "exited"
InFlight == {r \in Requests : fanOut[r] = "running"}

Move(s, from, to) ==
  /\ Alive
  /\ runServer[s] = from
  /\ runServer' = [runServer EXCEPT ![s] = to]

-----------------------------------------------------------------------------
(* The world outside: signals, listeners, requests.                        *)

Signal ==
  /\ Alive
  /\ ~signalled
  /\ signalled' = TRUE
  /\ UNCHANGED <<cancelled, serve, runServer, result, main, hook, req, fanOut, atHook>>

\* ListenAndServe returns an error other than ErrServerClosed: the goroutine
\* offers it on errCh, which is not buffered.
ServeFails(s) ==
  /\ Alive
  /\ serve[s] = "listening"
  /\ serve' = [serve EXCEPT ![s] = "failed"]
  /\ UNCHANGED <<signalled, cancelled, runServer, result, main, hook, req, fanOut, atHook>>

\* A request arrives on a new connection, or on one that was opened before the
\* listener failed or was closed: only a srv.Shutdown that returns nil has seen
\* all of them closed.
Accept(r) ==
  /\ Alive
  /\ serve["audit"] = "listening" \/ result["audit"] # "nil"
  /\ req[r] = "none"
  /\ req' = [req EXCEPT ![r] = "serving"]
  /\ UNCHANGED <<signalled, cancelled, serve, runServer, result, main, hook, fanOut, atHook>>

\* ServeHTTP returns, with a fan-out left behind when the answer was 200.
Answer(r, fan) ==
  /\ Alive
  /\ req[r] = "serving"
  /\ req' = [req EXCEPT ![r] = "answered"]
  /\ fanOut' = [fanOut EXCEPT ![r] = fan]
  /\ UNCHANGED <<signalled, cancelled, serve, runServer, result, main, hook, atHook>>

\* A fan-out ends: by itself, or cut short once the hook has cancelled the
\* handler's shutdownCtx.
FanOutEnds(r) ==
  /\ Alive
  /\ fanOut[r] = "running"
  /\ fanOut' = [fanOut EXCEPT ![r] = IF hook \in {"none", "released"} THEN "done" ELSE "cut"]
  /\ UNCHANGED <<signalled, cancelled, serve, runServer, result, main, hook, req, atHook>>

-----------------------------------------------------------------------------
(* runServer.                                                              *)

\* select receives the error of the listener: runServer returns it at once,
\* without the hook and without srv.Shutdown.
ServeErr(s) ==
  /\ serve[s] = "failed"
  /\ Move(s, "select", "returned")
  /\ serve' = [serve EXCEPT ![s] = "stopped"]
  /\ result' = [result EXCEPT ![s] = "err"]
  /\ UNCHANGED <<signalled, cancelled, main, hook, req, fanOut, atHook>>

\* The hook is skipped.
PreShutdown_bug(s) == "shutdown"

\* The check for a missing hook is forgotten: the metrics server calls nil.
PreShutdown_bug2(s) == "hook"

\* The audit server has a hook.
PreShutdown(s) == IF s = "audit" THEN "hook" ELSE "shutdown"

\* select sees the context done.
CtxDone(s) ==
  /\ signalled \/ s \in cancelled
  /\ Move(s, "select", PreShutdown(s))
  /\ atHook' = IF s = "audit" THEN InFlight ELSE atHook
  /\ UNCHANGED <<signalled, cancelled, serve, result, main, hook, req, fanOut>>

\* Handler.Shutdown: bestEffortWg.Wait finds no fan-out in flight, once; others
\* may start before Handler.Shutdown returns.
WaitReturns ==
  /\ Alive
  /\ runServer["audit"] = "hook" /\ hook = "none"
  /\ InFlight = {}
  /\ hook' = "released"
  /\ UNCHANGED <<signalled, cancelled, serve, runServer, result, main, req, fanOut, atHook>>

\* It returns after that, or when 30 seconds have passed.
HookReturns(v) ==
  /\ Move("audit", "hook", "shutdown")
  /\ hook' = v
  /\ UNCHANGED <<signalled, cancelled, serve, result, main, req, fanOut, atHook>>

HookDone == hook = "released" /\ HookReturns("ok")

HookTimeout == HookReturns("timeout")

\* srv.Shutdown waits for the connections and leaves the listener open.
Closed_bug(listener) == listener

Closed(listener) == IF listener = "listening" THEN "stopped" ELSE listener

\* srv.Shutdown closes the listener, ListenAndServe returns ErrServerClosed, ...
StopListening(s) ==
  /\ Move(s, "shutdown", "draining")
  /\ serve' = [serve EXCEPT ![s] = Closed(@)]
  /\ UNCHANGED <<signalled, cancelled, result, main, hook, req, fanOut, atHook>>

\* ... and waits for the connections in use, for 15 seconds.
Return(s, v) ==
  /\ Move(s, "draining", "returned")
  /\ result' = [result EXCEPT ![s] = v]
  /\ UNCHANGED <<signalled, cancelled, serve, main, hook, req, fanOut, atHook>>

Drained(s) ==
  /\ s = "audit" => \A r \in Requests : req[r] # "serving"
  /\ Return(s, "nil")

DrainTimeout(s) == Return(s, "err")

-----------------------------------------------------------------------------
(* run.                                                                    *)

\* One result is taken to be enough.
Received_bug == "closing"

Received == IF main = "first" THEN "second" ELSE "closing"

\* The result goes over the unbuffered channel to run, which receives from
\* either server first.
SendResult(s) ==
  /\ main \in {"first", "second"}
  /\ Move(s, "returned", "sent")
  /\ main' = Received
  /\ UNCHANGED <<signalled, cancelled, serve, result, hook, req, fanOut, atHook>>

\* The other server is left running.
CancelOther_bug(s) ==
  /\ Move(s, "sent", "done")
  /\ UNCHANGED <<signalled, cancelled, serve, result, main, hook, req, fanOut, atHook>>

\* The deferred cancel runs after the result has been received.
CancelOther(s) ==
  /\ Move(s, "sent", "done")
  /\ cancelled' = cancelled \cup {Other(s)}
  /\ UNCHANGED <<signalled, serve, result, main, hook, req, fanOut, atHook>>

\* closeOutputs, run returns and the process ends with all its goroutines.
CloseOutputs ==
  /\ main = "closing"
  /\ main' = "exited"
  /\ UNCHANGED <<signalled, cancelled, serve, runServer, result, hook, req, fanOut, atHook>>

-----------------------------------------------------------------------------
ServerStep(s) ==
  \/ ServeErr(s) \/ CtxDone(s) \/ StopListening(s) \/ Drained(s) \/ DrainTimeout(s)
  \/ SendResult(s) \/ CancelOther(s)

HookStep == WaitReturns \/ HookDone \/ HookTimeout

Next ==
  \/ Signal
  \/ \E s \in Servers : ServeFails(s) \/ ServerStep(s)
  \/ \E r \in Requests :
       \/ Accept(r)
       \/ \E fan \in {"none", "running"} : Answer(r, fan)
       \/ FanOutEnds(r)
  \/ HookStep
  \/ CloseOutputs

Spec == Init /\ [][Next]_vars

\* The goroutines of run and runServer go on and their timeouts expire.
\* Nothing is assumed of clients, listeners or outputs.
FairSpec ==
  /\ Spec
  /\ \A s \in Servers : WF_vars(ServerStep(s))
  /\ WF_vars(HookStep)
  /\ WF_vars(CloseOutputs)

-----------------------------------------------------------------------------
(* Properties.                                                             *)

\* Types of the state; only the audit server has a hook to run.
TypeOK ==
  /\ signalled \in BOOLEAN
  /\ cancelled \subseteq Servers
  /\ serve \in [Servers -> {"listening", "failed", "stopped"}]
  /\ runServer \in [Servers -> {"select", "hook", "shutdown", "draining", "returned",
                                "sent", "done"}]
  /\ runServer["metrics"] # "hook"
  /\ result \in [Servers -> {"none", "nil", "err"}]
  /\ main \in {"first", "second", "closing", "exited"}
  /\ hook \in {"none", "released", "ok", "timeout"}
  /\ req \in [Requests -> {"none", "serving", "answered"}]
  /\ fanOut \in [Requests -> {"none", "running", "done", "cut"}]
  /\ atHook \subseteq Requests

\* The audit server is reported to have shut down without an error only when
\* every request it has accepted is answered, and none comes in afterwards
\* (app.go:197-204).
CleanStopAnswersAll ==
  result["audit"] = "nil" => \A r \in Requests : req[r] # "serving"

\* closeOutputs, and the end of the process, wait for the result of both
\* runServers, whichever hands over its own first (app.go:135-142).  That is
\* all they wait for: after a failed listener, or a drain that ran out of time,
\* requests may still be in service then.
OutputsClosedLast ==
  main \in {"closing", "exited"} => \A s \in Servers : result[s] # "none"

\* When the process ends after a shutdown that nothing cut short, the fan-outs
\* that were in flight when it began have all run to their end
\* (app.go:120-127, 190-195).
ShutdownKeepsFanOuts ==
  main = "exited" /\ result["audit"] = "nil" /\ hook # "timeout" =>
    \A r \in atHook : fanOut[r] = "done"

\* After a signal, or when one of the listeners fails, the process ends,
\* whatever clients and outputs do (app.go:112-142, 184-205).
RunReturns ==
  (signalled \/ \E s \in Servers : serve[s] = "failed") ~> main = "exited"
=============================================================================
