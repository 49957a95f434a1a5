# auditlog-forwarder: TLA+ verification project

The auditlog-forwarder receives audit events from a Kubernetes API server over
HTTPS, passes them through processors (an annotation injector) and forwards them
to HTTP backends. An output is *Guaranteed* (the request succeeds only if this
output took the events) or *BestEffort* (served in the background, after the
Guaranteed ones). This directory holds TLA+ modules translated from the Go source,
the TLC configurations that check them, and TLAPS proofs of every safety property and
refinement that the runs check.

Contents: 1 inventory, 2 modules, 3 runs, 4 bounds, 5 fairness, 6 proofs, 7 only
model-checked, 8 findings, 9 not modelled, 10 plan.

## 1. Inventory

| Component | State | Operations | Interacts with |
|---|---|---|---|
| HTTP output, `Output.Send` (`internal/output/http/http.go`) | attempt, last error, request reader, response | retry loop with classes of failure, capped exponential backoff with jitter, cancellation | called by the handler; the client it uses is swapped by the TLS watcher |
| HTTP output, TLS credentials (same file) | atomic client, fsnotify watcher, debounce timer, `closeOnce`, wait group | `New`, `watchTLSFiles`, `reloadTLSClient`, `Close` | credential files replaced by others, application context, `closeOutputs` |
| Audit handler (`internal/handler/audit`) | `shutdownCtx`, `bestEffortWg`, counters; per request a fan-out of goroutines and `errCh` | `ServeHTTP`, both fan-outs, `Shutdown` | outputs, processors, HTTP server, pre-shutdown hook |
| Servers and process (`cmd/auditlog-forwarder`) | contexts of the two servers, unbuffered result channels | `run`, `runServer`, hook, draining, `closeOutputs` | signals, handler, outputs |
| Start-up (`options.go`, `factory.go`, `pkg/apis/config/v1alpha1`) | the configuration, the outputs built so far | defaults, validation, `ApplyTo`, `NewHTTPOutputsWithOptions`, clean-up after a failure | creates outputs and handler |
| Annotation injector (`internal/processor/annotation`, `internal/helper`) | one map of annotations, shared by all requests | decode, add annotations, encode | created by `run`, called by the handler |
| Logging, echo server, generated code | - | - | - |

What is hard here, and what it must not break (PROJECT.json lists it line by line):

* **Concurrency.** BestEffort goroutines outlive their request and race `Shutdown`;
  the waiter of the wait group races requests that are still being served; the
  reload of credentials races the rotation of the files, its own debounce timer,
  `Close` and the sends that use the client it replaces; all requests share one
  injector; two servers cancel each other and hand over results on unbuffered
  channels.
* **Failure.** Answers are lost after the backend accepted; a body cannot be read;
  one of several Guaranteed outputs fails; credential files are read while they are
  half replaced; file events are dropped; a listener fails; one output of several
  cannot be created.
* **Ordering and timeouts.** The hook drains the handler before the listener is
  closed; both drains have a timeout; the retries run against the timeouts of the
  server and of `Shutdown`.

## 2. Modules

| Module | Models |
|---|---|
| `OutputContract` | what `output.Output.Send` promises: several tries, a pause between them, nil only after an acceptance; a request that has left may be accepted at any time, also after `Send` has returned an error (abstract) |
| `HTTPSend` | `Output.Send` in full; `ImplementsContract` is its refinement of `OutputContract` |
| `Forwarding` | what the forwarder promises a client of `POST /audit`: acknowledged means every Guaranteed output has the events, a BestEffort output gets them only then, and never those of a rejected request; a Guaranteed one may, even after the rejection (abstract) |
| `AuditHandler` | `Handler.ServeHTTP`, `forwardToGuaranteedOutputs`, `forwardToBestEffortOutputs`, `Shutdown`; composed with `OutputContract` through `INSTANCE`, one abstract call for each pair of request and output; `ImplementsForwarding` is its refinement of `Forwarding` |
| `TLSWatcher` | `New`, `startTLSWatcher`, `watchTLSFiles`, `reloadTLSClient`, `createHTTPClient`, `Close` |
| `ClientPool` | the attempts of concurrent `Send`s against the swap of `reloadTLSClient`: which client an attempt uses, and the idle connections of the retired ones |
| `Forwarder` | `run`, `runServer` and `closeOutputs` of `app.go`; the handler is reduced to what the servers see of it |
| `Startup` | `RunE` up to a running handler: defaults, validation, logging, `ApplyTo`, the factory, `NewHandler` |
| `Annotation` | concurrent calls of `Injector.Process`, decoding and encoding |
| `Pipeline` | `Startup` composed with `Annotation`: the injector gets the annotations of the configuration and then processes requests |
| `MC*` | instances for TLC: status codes, file layouts, configurations, symmetry |
| `HTTPSendProofs`, `AuditHandlerProofs`, `TLSWatcherProofs`, `ForwarderProofs`, `ClientPoolProofs`, `StartupProofs`, `PipelineProofs` | TLAPS proofs about the module they extend (section 6) |

Variables carry the names of the code where it has one (`attempt`, `lastErr`,
`errCh`, `bestEffortWg`, `debounceC`, `closeOnce` as `once`); an action is one
operation or the stretch of a goroutine between two points where another one can
run. PROJECT.json maps every definition to its lines. Choices worth knowing:

* `HTTPSend`: the payload is whether the reader of the current request still holds
  it; the backend accepts only a full one, may do so without its answer ever
  arriving, and may do so late: a request that `client.Timeout` or the context has
  ended can still be on its way when `Send` has returned. Status codes go up to 999,
  which `net/http` passes on. gzip writes to memory and cannot fail. A body that cannot
  be read ends `Send` at once, whatever the status, as in `http.go:156`. The jitter is
  added after
  the cap, so a delay may exceed `maxBackoff` by up to a twentieth. A `Redirecting`
  backend answers the POST with 301, 302 or 303, which `net/http` follows with a GET.
* `AuditHandler`: with one Guaranteed output the code calls `Send` in place, with
  several it starts goroutines; both are the same steps here. `Wait` has two steps,
  the wake-up of the waiter and its return, because `sync.WaitGroup` panics if the
  counter leaves zero in between. That the counter reaches zero and the waiter is
  released is one step, as in `sync`. The backends are no part of the process: they
  accept what was sent to them after the answer to the client and after a panic too.
* `TLSWatcher`: the contents of a file are a version number or `Bad`; files of one
  key pair fit together when their versions are equal. Changes and chmod
  events share one queue. An event without a place in it is dropped and an error put in
  its stead. When the queue holds the event of another change, the reload that follows
  still sees the dropped one; when it holds chmod events alone, the code learns nothing
  of the change, which the history variable `unseen` records.
* `ClientPool`: the pool follows `net/http.Transport` as `createHTTPClient` configures
  it: HTTP/1 (a transport with its own `TLSClientConfig` does not negotiate HTTP/2),
  two idle connections per host, no idle timeout. `CloseIdleConnections` closes what
  is idle and marks the pool so that connections in use are closed when they come
  back; the next request on that transport clears the mark, which is where the late
  call of finding 5 gets through. Which client holds which credentials is the matter
  of `TLSWatcher`, why an attempt fails that of `HTTPSend`.
* `Annotation`: of an event only its annotations are kept, nil, empty or not. One
  iteration of the loop is one step, so the iterations of concurrent requests
  interleave on the shared map of the injector. The error of `EncodeEventList`
  (`annotation.go:47`) is left out: what was decoded from JSON can be encoded again.
* `Startup`: a string is the class the code can tell apart (empty, blank, good, good
  with blanks around it, bad), and `TrimSpace` acts on these classes. The padded URL
  that validation accepts is the `Malformed` call of `HTTPSend`. The limit of 256 KiB on
  all annotations together (`validation.go:251`) is left out.
* `Forwarder`: the metrics server has no requests; the answer of a request and the
  end of its fan-out are steps of the environment, justified by `AuditHandler`. A
  connection that is already open carries requests until a `srv.Shutdown` has returned
  nil, also when the listener has failed. `Handler.Shutdown` finds the wait group empty
  in one step and returns in a later one, so a fan-out may start in between.
* A definition whose name ends in `_bug` or `_bug2` is a plausible mistake in the definition
  that follows it. PROJECT.json lists under `mutants` which property notices it.

## 3. Runs

Run one with `tlc -workers 2 -config X.cfg M`.

| Run (cfg) | Checks | Shows |
|---|---|---|
| `send` (`MCHTTPSend`) | `TypeOK`, `SendOkMeansAccepted`, `BackoffInRange`, `GivesUpOnlyForCause`, `RetryDiscipline`, `ImplementsContract`, `EveryCallReturns` | six attempts of a BestEffort output, both sides of every status comparison, a plain and a redirecting backend, a URL no request can be built from: nil means the backend accepted the full payload, no early surrender without a cause, no repetition of what was answered for good, none under a cancelled context, the refinement holds whenever the backend accepts, `Send` always returns |
| `send_redirect` | `OkAlwaysDelivered` | **violated**, finding 1 |
| `handler` (`MCAuditHandler`) | `TypeOK`, `AckedMeansDelivered`, `OnlyShutdownInterrupts`, `ShutdownDrains`, `MetricsAddUp`, `ImplementsForwarding` | two requests, two Guaranteed outputs and a BestEffort one, disconnecting clients, failing processors and outputs, backends that accept late, `Shutdown` at any point |
| `handler_live` | `EveryRequestAnswered`, `ShutdownReturns` | a hanging BestEffort output holds up neither the answer nor `Shutdown` |
| `handler_cancel`, `handler_panic` | `CancelOnlyAfterTimeout`, `ShutdownNeverPanics` | **violated**, findings 2 and 3 |
| `tls` (`MCTLSWatcher`) | `TypeOK`, `DrainNeverBlocks`, `ClientUsable`, `NoLostRotation`, `NoReloadAfterClose`, `EventuallyFresh`, `CloseReturns` | changes of a CA and a key pair in two directories, torn reads, failed reloads, events dropped behind others and behind chmod events, two callers of `Close`: files that settle in a loadable state end up in use; `Close` returns and nothing is reloaded after it |
| `tls_startup` | `RotationNoticed` | **violated**, finding 4 |
| `forwarder` (`Forwarder`) | `TypeOK`, `CleanStopAnswersAll`, `OutputsClosedLast`, `ShutdownKeepsFanOuts`, `RunReturns` | signals, failing listeners, requests and fan-outs at any time: the process ends, and in the right order |
| `startup` (`MCPipeline`) | `PipelineTypeOK`, `NothingLeaks`, `OutputsAsConfigured`, `DocumentedIsAccepted`, `AcceptedIsUsable`, `ValidatedIsUsed`, `ForwardedAsConfigured` | a failure at any step of the start-up leaves no watcher behind; a file that keeps to `types.go` with plain values is never rejected; an accepted one has ports, endpoints and delivery modes that can be used, and is what is used, padded strings apart; every configured output is served, exactly one as Guaranteed, the others with the longer retries; two requests processed at the same time get the configured annotations and keep their own |
| `pool` (`MCClientPool`) | `TypeOK`, `OnlyLateCallsLinger`, `RetryUsesNewest` | three calls with two attempts each and two reloads: a retired pool keeps a connection only of a call that took it after the swap; an attempt never uses older credentials than there were at its start |
| `pool_linger` | `RetiredPoolsDrain` | **violated**, finding 5 |

Deadlock is not checked: every one of these systems really stops (a call returns,
a process ends). That nothing stops too early is what the liveness properties say.

`Documented`, the premise of `DocumentedIsAccepted`, is written from the comments of
`types.go` (what is optional, the listed values, the delivery modes) and shares no
operator with the validation. Where `types.go` is silent it asks for a value nobody
would refuse: a TCP port, a path without blanks, an `https` URL of host and path. It
says that validation is not too strict; `AcceptedIsUsable` says that it is strict enough
for the parts behind it, again without the operators of the validation. Neither says
that validation accepts exactly what is documented: `types.go` does not mention, for
example, that a URL must not have a query.

## 4. Bounds

* `Calls` of `HTTPSend`: calls of `Send` share nothing but the client, so one at a time
  shows all there is (`OneCall` constrains the run to states with one call under way or
  returned); there is one call of each kind. The attempts and the backoff are those of
  the code. `BoundaryCodes` has both sides of each comparison, `OutcomeCodes` one code
  for each outcome. `HTTPSendProofs` covers any number of calls.
* `ClientPool`: two reloads make two retired pools, one of which may be retired while
  the other is being swapped; three calls are one more than `MaxIdle`, so the pool is
  filled to its limit; the second of two attempts is a retry after a rotation.
* `Requests`, `Guaranteed`, `BestEffort`: two requests are needed for the races of
  `Shutdown` (one in flight at its call, one later), two Guaranteed outputs for a
  partial failure. Requests, and outputs of one kind, are interchangeable: the
  symmetry of `handler`, and that of the calls in `pool`, is sound since no property
  tells them apart and these runs check no liveness.
* `MaxWrites` bounds the changes of the credential files: two are a change and another
  one during the reload it causes, or the two halves of a key pair. `TLSWatcherProofs`
  covers any number for the safety properties. `QueueLimit` is the length of the event
  queue; one makes every second event overflow, of either kind.
* `Configs`: all lists of up to three outputs with and without credentials (two
  outputs on one side of a failing one), every form of a single output, and the other
  fields, with the ports at their boundaries, one part at a time; the validation of
  one part does not look at another.
* `Bodies`: lists of up to two events without annotations, with an empty map, with a
  key of their own and with one the configuration overrides, and the two kinds of data
  that do not decode to a list. Two requests interleave.

## 5. Fairness

* `HTTPSend`: weak fairness of the steps of a call. An attempt ends because the
  client has a timeout of 15 seconds, and a sleep ends by itself.
* `AuditHandler`: the goroutine of a request, the goroutines of its Guaranteed
  outputs and `Shutdown` with its timer go on. The sends to Guaranteed outputs return,
  which `EveryCallReturns` shows for `HTTPSend`. Nothing is assumed of BestEffort
  outputs.
* `TLSWatcher`: the goroutine goes on, the timer fires, a stop request is taken, a
  `Close` that can return does. Nothing is assumed of who writes the files.
* `Forwarder`: the goroutines of the servers go on, the hook returns (within its 30
  seconds) and `run` goes on. Neither a signal, nor a failing listener, nor the end of
  a request is assumed: the drain of a server has a timeout.

## 6. Proofs

Run with `tlapm XProofs.tla`. The theorems hold for every value of the constants that
satisfies the named assumptions of the module. `SendAssumption`, `HandlerAssumption`,
`WatcherAssumption` and `PoolAssumption` ask for positive attempts and backoffs, at least
one Guaranteed output, kinds of output that do not overlap, and so on;
`ConfigsAssumption` that a file decodes to a value of the types of `types.go`;
`BodiesAssumption` that the items of a body are a sequence. Nothing is assumed to be
finite. Each inductive invariant was also checked by TLC on the instance of its run.

* **`HTTPSendProofs`**: `TypeCorrect`, `SendOkMeansAcceptedCorrect`,
  `GivesUpOnlyForCauseCorrect`, `RetryDisciplineCorrect`, `ImplementsContractCorrect`,
  `BackoffInRangeCorrect`.
  `SendOkMeansAccepted` is not inductive: the acceptance happens between the request
  and the answer. `LoopInv` says for each place in the loop what is known there (what
  the reader holds, that a success status in hand was preceded by an acceptance, what
  kind of error is held). `CountInv` relates the number of requests sent to the loop
  variable, which bounds the repetitions. A request that has left stays `sent`, which
  is all the acceptance depends on. For the refinement every action is shown
  to be a step of the contract or a stutter, for the calls of backends that do not
  redirect. For the backoff, `SleepInv` says that a sleeping call sleeps for the backoff
  of the attempt that has just failed. `1 << n` is the recursive function `Shift`; that
  it at least doubles is an induction over `n`, done in terms of sets: the numbers at
  which it fails would have a least one (`LeastNumber`, from the well-foundedness of
  `<`). The numbers are unbounded, so the theorem speaks of settings whose shifted
  backoff fits a `time.Duration`; those of the code shift one second by at most five.
* **`AuditHandlerProofs`**: `TypeCorrect`, `AckedMeansDeliveredCorrect`,
  `OnlyShutdownInterruptsCorrect`, `ShutdownDrainsCorrect`, `MetricsAddUpCorrect`,
  `ImplementsForwardingCorrect`. `DeliveryInv` carries the
  outcome of a send to its goroutine, to `errCh`, to the join and to the answer: a
  settled failure is in `errCh`, so a request that passed the join has none.
  `DrainInv` ties `bestEffortWg` to the running fan-outs and says that once the waiter
  is released none of those in flight at the call of `Shutdown` is left. `MetricInv`
  gives every counter a set of which it is the cardinality: the requests in service, the
  acknowledged ones, and for each Guaranteed output those it has delivered. These sets
  are finite in every reachable state although `Requests` need not be. That
  acknowledgements are outnumbered by the deliveries of every Guaranteed output is then
  an inclusion of sets: past the join every goroutine has ended, and with success. For the
  refinement, the abstract status of a request is read off its place in `ServeHTTP`,
  and the delivered pairs are the abstract calls whose payload was accepted.
  Three conjuncts of `DeliveryInv` are there for it: a Guaranteed call has begun only when
  its request has been processed, only a call that has begun has sent something, and
  only what was sent is accepted. With those, and since a fan-out exists only past the
  join, an acceptance is an abstract delivery whenever it comes, a rejected request has
  reached no BestEffort output and never will, the answers are `Ack`
  and `Reject`, and every other step stutters (`StepSimulation`).
* **`TLSWatcherProofs`**: `TypeCorrect`, `DrainNeverBlocksCorrect`,
  `ClientUsableCorrect`, `NoLostRotationCorrect`, `NoReloadAfterCloseCorrect`.
  `TimerInv` (the channel variable is set exactly when the timer is armed or has fired)
  is why `<-debounceTimer.C` never blocks. `CloseInv` orders `closeOnce`, the wait
  group and the goroutine. `FreshInv` says, for each place of the goroutine, where a
  change that is not yet in the client is remembered: in the queue, in the timer, or
  in `unseen`, the flag of changes the code cannot learn of.
* **`ForwarderProofs`**: `TypeCorrect`, `CleanStopAnswersAllCorrect`,
  `OutputsClosedLastCorrect`, `ShutdownKeepsFanOutsCorrect`. `ServerInv` says what is
  known at each place of `runServer`: the listener is closed before the drain, and a
  result of nil comes from a drain that found nothing being served. `ResultInv` relates
  the place of `run` to the results it has received, `HookInv` the hook to the fan-outs
  in flight at its call.
* **`ClientPoolProofs`**: `TypeCorrect`, `OnlyLateCallsLingerCorrect`,
  `RetryUsesNewestCorrect`. `PoolInv`: a retired pool that no late call has touched is
  empty and marked, so that what is in use is closed when it comes back. `LoadInv`: an
  attempt loads its client after it has begun, and clients are only replaced by newer
  ones.
* **`StartupProofs`**: `TypeCorrect`, `NothingLeaksCorrect`, `OutputsAsConfiguredCorrect`,
  `DocumentedIsAcceptedCorrect`, `AcceptedIsUsableCorrect`, `ValidatedIsUsedCorrect`,
  for any number of outputs. `InputInv` ties configuration, logger and client
  authentication to the file; `BuildInv` says that the lists of the factory are the
  outputs of their delivery mode among those looked at, in order, and that the open
  watchers are exactly theirs; `ProfileInv` that each has the retry settings of its
  mode. The heart of the rest is `AcceptedPasses`, about the operators alone:
  validation after the defaults is equivalent to a condition on the file itself, which
  for the delivery modes comes down to the cardinality of the Guaranteed outputs
  (`OutputsValid`, `OneGuaranteed`). `DocumentedPasses` derives that condition from
  `Documented`; `AcceptedIsUsable` and `ValidatedIsUsed` follow from it.
* **`PipelineProofs`**: `ImplementsStartup` (a pipeline behaves as start-up does, a
  processed request being a stutter), which carries the theorems of `StartupProofs` over
  (`StartupWithinPipeline`); `PipelineTypeCorrect` and `ForwardedAsConfiguredCorrect`.
  `RequestInv` is the invariant of the loop of `Injector.Process`: the events before the
  index are annotated, the others as in the body. It speaks of one request only, and
  `OneRequest` shows that a step of one keeps it for all, because nothing writes to the
  shared map.

## 7. Only model-checked

Liveness under fairness is outside the prover's reach and stays with TLC:
`EveryCallReturns`, `EveryRequestAnswered`, `ShutdownReturns`, `EventuallyFresh`,
`CloseReturns`, `RunReturns`. So do the violated properties of section 8, which are
counterexamples and need no proof. Every other property of a run is a theorem.

## 8. Findings

1. *A redirected POST counts as delivered* (`send_redirect`). The client follows 301,
   302 and 303 with a GET without a body, and its 2xx makes `Send` return nil.
   `types.go:97` says a request succeeds only if the Guaranteed output succeeds.
2. *A `Shutdown` in time cancels as well* (`handler_cancel`). `handler.go:115` says the
   context is cancelled "only after timeout"; it is cancelled when the wait group was
   empty too, while the server still takes requests, whose BestEffort sends then run
   under a cancelled context.
3. *`Shutdown` may panic* (`handler_panic`). Requests call `bestEffortWg.Go` while
   `bestEffortWg.Wait` returns, which `sync.WaitGroup` reports as a misuse.
4. *A rotation during start-up goes unnoticed* (`tls_startup`). `New` reads the
   credentials before it watches their directories and does not read them again. The
   same holds of a change whose event is dropped from a queue full of chmod events.
5. *A late call leaves a connection behind* (`pool_linger`). `http.go:314-318` says idle
   connections of the previous client are closed so that they do not linger. A call that
   has loaded the client but has no connection yet when `CloseIdleConnections` runs takes
   one from the retired transport and leaves it idle in its pool.
   `OnlyLateCallsLinger` says that this is the only way.

Observed and not counted as findings: validation trims URL and compression, `Send`
uses them as written (`validation.go:189`, `219`; `http.go:121`, `141`), so a padded
URL passes validation and fails every send, and a padded `gzip` sends uncompressed;
nothing rejects equal ports for the two servers, which ends the process when the
second listener fails.

## 9. Not modelled

* The echo server: a dummy backend for local development with stateless handlers that
  log and answer; `HTTPSend` leaves the backend open and covers what it answers.
* The metrics endpoint (the counters are in `AuditHandler`), the logger in the context
  and what is logged (the level and format chosen are in `Startup`), flags and version.
* Generated deep copies and defaults, scheme registration.
* Real time: a timeout is a step that may come at any moment. A steady stream of file
  events that postpones the reload for ever (`http.go:292`) needs infinitely many writes,
  and the models bound them. Whether the retries fit the timeouts around them (the
  `WriteTimeout` of 15 seconds of the audit server, the 30 seconds of `Handler.Shutdown`)
  is not a property here: each attempt may take the client's 15 seconds
  (`http.go:346`), so in the worst case they do not. An answer that comes too late shows
  as a disconnecting client in `AuditHandler`, a `Shutdown` that stops waiting as its
  timeout.
* In `Forwarder`: the panic of finding 3 (it is in `AuditHandler`), and a second signal,
  which ends the process at once (`main.go:21`). `OutputsClosedLast` says that `runServer`
  of both servers has returned, not that no request is served any more: after a failed
  listener or a drain that timed out, requests may outlive the outputs. Only a clean
  stop excludes that (`CleanStopAnswersAll`).
* Rotations during a shutdown: the watcher ends with the application's context
  (`http.go:269`); `NoLostRotation` claims nothing afterwards.

## 10. Plan

All modules of section 2 are written and checked, and all safety properties of the
runs are proved. Worth doing next:

1. Safety lemmas towards the liveness properties: in every state of `AuditHandler` in
   which a request is being served, some step of its own, of its Guaranteed goroutines
   or of their sends is possible (a disjunction of guards instead of `ENABLED`).
2. The environment steps of `Forwarder` (answers, ends of fan-outs, the hook) derived
   from `AuditHandler` by a refinement, where the README now argues in words.
3. A theorem that joins `ImplementsContract` and `ImplementsForwarding`: the handler over
   `HTTPSend` itself.
