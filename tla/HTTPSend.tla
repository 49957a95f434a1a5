------------------------------ MODULE HTTPSend ------------------------------
(***************************************************************************)
(* Output.Send, the retry loop of internal/output/http/http.go.            *)
(*                                                                         *)
(* One element of Calls is one call of Send on an HTTP output.  The        *)
(* payload is abstracted to whether the reader handed to a request still   *)
(* holds it; gzip only changes its encoding and writes to an in-memory     *)
(* buffer, which cannot fail, and is part of the call's first step.        *)
(* Durations are in milliseconds.                                          *)
(***************************************************************************)
EXTENDS Integers

CONSTANTS
  Calls,            \* the calls of Send
  MaxSendAttempts,  \* maxSendAttempts of the output: 4, or 6 for BestEffort
  BaseBackoff,      \* baseBackoff: 500, or 1000 for BestEffort
  MaxBackoff,       \* maxBackoff: 3000, or 6000 for BestEffort
  StatusCodes,      \* the final status codes a backend may answer with
  Malformed,        \* calls on an output whose URL http.NewRequest rejects
  Redirecting       \* calls whose backend answers a POST with 301, 302 or 303

ASSUME SendAssumption ==
  /\ MaxSendAttempts \in Nat \ {0}
  /\ BaseBackoff \in Nat \ {0}
  /\ MaxBackoff \in Nat \ {0}
  /\ StatusCodes \subseteq 200..999
  /\ Malformed \subseteq Calls
  /\ Redirecting \subseteq Calls

VARIABLES
  pc,         \* pc[c]: where the call is in Send
  attempt,    \* attempt[c]: the loop variable
  lastErr,    \* lastErr[c]: the kind of the error Send holds or has returned
  body,       \* body[c]: what the reader of the current request still holds
  status,     \* status[c]: resp.StatusCode of the last response, 0 before any
  delay,      \* delay[c]: the backoff the call sleeps for, 0 when it does not
  posts,      \* posts[c]: how many requests client.Do has issued
  accepted,   \* the calls whose payload the backend has accepted
  cancelled   \* the calls whose context has been cancelled

vars == <<pc, attempt, lastErr, body, status, delay, posts, accepted, cancelled>>

-----------------------------------------------------------------------------
(* Pure helpers of http.go.  A definition whose name ends in _bug is a     *)
(* plausible mistake in the definition that follows it; the properties     *)
(* are shown to notice it.                                                 *)

isSuccess_bug(s) == 200 <= s /\ s < 400

isSuccess(s) == 200 <= s /\ s < 300

isRetryableStatus_bug(s) == s >= 500

isRetryableStatus_bug2(s) == s >= 400

isRetryableStatus(s) == s = 429 \/ s >= 500

Least(a, b) == IF a <= b THEN a ELSE b

\* 1 << n.  It does not wrap: with at most 6 attempts n is at most 5, and a
\* second shifted by 5 is far below the 2^63 nanoseconds of a time.Duration.
Shift[n \in Nat] == IF n = 0 THEN 1 ELSE 2 * Shift[n - 1]

\* wait.Jitter(d, 0.05) adds a random part below 5%: its two extremes.
Jitter(d) == {d, d + (5 * d - 1) \div 100}

backoffDuration_bug(n) ==
  IF n <= 1 THEN {BaseBackoff} ELSE Jitter(BaseBackoff * Shift[n - 1])

backoffDuration(n) ==
  IF n <= 1
  THEN {BaseBackoff}
  ELSE Jitter(Least(BaseBackoff * Shift[n - 1], MaxBackoff))

-----------------------------------------------------------------------------
Init ==
  /\ pc = [c \in Calls |-> "off"]
  /\ attempt = [c \in Calls |-> 0]
  /\ lastErr = [c \in Calls |-> "nil"]
  /\ body = [c \in Calls |-> "drained"]
  /\ status = [c \in Calls |-> 0]
  /\ delay = [c \in Calls |-> 0]
  /\ posts = [c \in Calls |-> 0]
  /\ accepted = {}
  /\ cancelled = {}

Goto(c, from, to) == pc[c] = from /\ pc' = [pc EXCEPT ![c] = to]

\* Send is called: the payload is prepared and the loop entered.
Send(c) ==
  /\ Goto(c, "off", "loop")
  /\ attempt' = [attempt EXCEPT ![c] = 1]
  /\ UNCHANGED <<lastErr, body, status, delay, posts, accepted, cancelled>>

\* The loop has no limit.
LoopCondition_bug(c) == TRUE

LoopCondition(c) == attempt[c] <= MaxSendAttempts

\* The reader is created once, before the loop.
NewReader_bug(c) == IF attempt[c] = 1 THEN "full" ELSE body[c]

\* Every attempt reads the payload from its start.
NewReader(c) == "full"

\* An iteration starts: a fresh reader over the payload and a new request.
NewRequest(c) ==
  /\ LoopCondition(c)
  /\ c \notin Malformed
  /\ Goto(c, "loop", "do")
  /\ body' = [body EXCEPT ![c] = NewReader(c)]
  /\ UNCHANGED <<attempt, lastErr, status, delay, posts, accepted, cancelled>>

\* Goes round the loop again without counting the attempt.
NewRequestFails_bug(c) ==
  /\ LoopCondition(c)
  /\ c \in Malformed
  /\ pc[c] = "loop"
  /\ lastErr' = [lastErr EXCEPT ![c] = "request"]
  /\ UNCHANGED <<pc, attempt, body, status, delay, posts, accepted, cancelled>>

\* http.NewRequestWithContext rejects the URL: Send returns at once.
NewRequestFails(c) ==
  /\ LoopCondition(c)
  /\ c \in Malformed
  /\ Goto(c, "loop", "err")
  /\ lastErr' = [lastErr EXCEPT ![c] = "request"]
  /\ UNCHANGED <<attempt, body, status, delay, posts, accepted, cancelled>>

\* The loop condition fails: Send returns lastErr.
LoopExit(c) ==
  /\ ~LoopCondition(c)
  /\ Goto(c, "loop", IF lastErr[c] = "nil" THEN "ok" ELSE "err")
  /\ UNCHANGED <<attempt, lastErr, body, status, delay, posts, accepted, cancelled>>

\* The tail of an iteration that failed with error kind e: sleep before the
\* next attempt, or go round to the loop condition after the last one.
Failed(c, from, e) ==
  /\ lastErr' = [lastErr EXCEPT ![c] = e]
  /\ \/ /\ attempt[c] < MaxSendAttempts
        /\ Goto(c, from, "sleep")
        /\ \E d \in backoffDuration(attempt[c]) : delay' = [delay EXCEPT ![c] = d]
        /\ UNCHANGED attempt
     \/ /\ attempt[c] >= MaxSendAttempts
        /\ Goto(c, from, "loop")
        /\ attempt' = [attempt EXCEPT ![c] = @ + 1]
        /\ UNCHANGED delay

\* client.Do under a cancelled context fails before anything is sent.
DoCancelled(c) ==
  /\ c \in cancelled
  /\ Failed(c, "do", "transport")
  /\ UNCHANGED <<body, status, posts, accepted, cancelled>>

\* client.Do puts the request on the wire.
Post(c) ==
  /\ c \notin cancelled
  /\ Goto(c, "do", "wire")
  /\ posts' = [posts EXCEPT ![c] = @ + 1]
  /\ UNCHANGED <<attempt, lastErr, body, status, delay, accepted, cancelled>>

\* The backend accepts the payload of a request that has left.  What it
\* answers is its own affair, and it may be late: Send may have gone on to the
\* next attempt or have returned, on client.Timeout, a cancelled context or
\* the answer of a proxy.  The first request always carries the payload.
BackendAccepts(c) ==
  /\ posts[c] > 0
  /\ c \notin accepted
  /\ accepted' = accepted \cup {c}
  /\ UNCHANGED <<pc, attempt, lastErr, body, status, delay, posts, cancelled>>

\* The backend answers the POST.  With a 2xx it has accepted what the request
\* carried.
Respond(c, s) ==
  /\ c \notin Redirecting
  /\ Goto(c, "wire", "body")
  /\ status' = [status EXCEPT ![c] = s]
  /\ accepted' = IF s \in 200 .. 299 /\ body[c] = "full" THEN accepted \cup {c} ELSE accepted
  /\ body' = [body EXCEPT ![c] = "drained"]
  /\ UNCHANGED <<attempt, lastErr, delay, posts, cancelled>>

\* The backend answers the POST with 301, 302 or 303, having accepted the
\* payload (BackendAccepts) or not: the http.Client, which has no
\* CheckRedirect, follows with a GET that has no body, and the status of that
\* GET is the one Send sees.
RespondRedirected(c, s) ==
  /\ c \in Redirecting
  /\ Goto(c, "wire", "body")
  /\ status' = [status EXCEPT ![c] = s]
  /\ body' = [body EXCEPT ![c] = "drained"]
  /\ UNCHANGED <<attempt, lastErr, delay, posts, accepted, cancelled>>

\* Connection error, client.Timeout, or the context cancelled in flight; the
\* backend may have accepted the payload and its answer is lost.
TransportError(c) ==
  /\ Failed(c, "wire", "transport")
  /\ body' = [body EXCEPT ![c] = "drained"]
  /\ UNCHANGED <<status, posts, accepted, cancelled>>

\* readAndCloseBody fails: Send returns its error whatever the status was.
BodyReadFails(c) ==
  /\ Goto(c, "body", "err")
  /\ lastErr' = [lastErr EXCEPT ![c] = "body"]
  /\ UNCHANGED <<attempt, body, status, delay, posts, accepted, cancelled>>

\* The body is read and the status looked at.
Success(c) ==
  /\ isSuccess(status[c])
  /\ Goto(c, "body", "ok")
  /\ UNCHANGED <<attempt, lastErr, body, status, delay, posts, accepted, cancelled>>

PermanentStatus(c) ==
  /\ ~isSuccess(status[c])
  /\ ~isRetryableStatus(status[c])
  /\ Goto(c, "body", "err")
  /\ lastErr' = [lastErr EXCEPT ![c] = "status"]
  /\ UNCHANGED <<attempt, body, status, delay, posts, accepted, cancelled>>

RetryableStatus(c) ==
  /\ ~isSuccess(status[c])
  /\ isRetryableStatus(status[c])
  /\ Failed(c, "body", "status")
  /\ UNCHANGED <<body, status, posts, accepted, cancelled>>

\* sleepWithContext: the timer fires, or the context is done.
SleepElapsed(c) ==
  /\ Goto(c, "sleep", "loop")
  /\ delay' = [delay EXCEPT ![c] = 0]
  /\ attempt' = [attempt EXCEPT ![c] = @ + 1]
  /\ UNCHANGED <<lastErr, body, status, posts, accepted, cancelled>>

SleepCancelled(c) ==
  /\ c \in cancelled
  /\ Goto(c, "sleep", "err")
  /\ delay' = [delay EXCEPT ![c] = 0]
  /\ lastErr' = [lastErr EXCEPT ![c] = "canceled"]
  /\ UNCHANGED <<attempt, body, status, posts, accepted, cancelled>>

\* The caller's context is cancelled.
CancelContext(c) ==
  /\ c \notin cancelled
  /\ cancelled' = cancelled \cup {c}
  /\ UNCHANGED <<pc, attempt, lastErr, body, status, delay, posts, accepted>>

Step(c) ==
  \/ NewRequest(c) \/ NewRequestFails(c) \/ LoopExit(c)
  \/ DoCancelled(c) \/ Post(c)
  \/ \E s \in StatusCodes : Respond(c, s) \/ RespondRedirected(c, s)
  \/ TransportError(c)
  \/ BodyReadFails(c) \/ Success(c) \/ PermanentStatus(c) \/ RetryableStatus(c)
  \/ SleepElapsed(c) \/ SleepCancelled(c)

Next == \E c \in Calls : Send(c) \/ Step(c) \/ BackendAccepts(c) \/ CancelContext(c)

Spec == Init /\ [][Next]_vars

\* The goroutine keeps running; client.Timeout bounds the time a request and
\* the reading of its response take, and timers fire.
FairSpec == Spec /\ \A c \in Calls : WF_vars(Step(c))

-----------------------------------------------------------------------------
(* Properties.                                                             *)

Delays == {0} \cup UNION {backoffDuration(n) : n \in 1 .. MaxSendAttempts}

\* Types of the state: the loop variable runs at most one past the limit and
\* a sleeping call sleeps for a value of backoffDuration.
TypeOK ==
  /\ pc \in [Calls -> {"off", "loop", "do", "wire", "body", "sleep", "ok", "err"}]
  /\ attempt \in [Calls -> 0 .. MaxSendAttempts + 1]
  /\ lastErr \in [Calls -> {"nil", "transport", "status", "body", "request", "canceled"}]
  /\ body \in [Calls -> {"full", "drained"}]
  /\ status \in [Calls -> {0} \cup StatusCodes]
  /\ delay \in [Calls -> Delays]
  /\ posts \in [Calls -> Nat]
  /\ accepted \subseteq Calls
  /\ cancelled \subseteq Calls

\* When Send returns nil the backend has accepted the payload, whichever of
\* the attempts got the 2xx and whatever happened to the earlier ones.  It
\* rests on the reader being rebuilt in every iteration (http.go:140), on the
\* 2xx range (http.go:160) and on lastErr being set whenever the loop runs out
\* (http.go:178).  Backends that redirect are excluded: see OkAlwaysDelivered.
SendOkMeansAccepted ==
  \A c \in Calls \ Redirecting : pc[c] = "ok" => c \in accepted

\* A failure that a later attempt may not meet: no answer at all, 429, or a
\* code of the server's, 500 and above.
Transient(c) == lastErr[c] = "transport" \/ status[c] = 429 \/ status[c] >= 500

\* Send gives up early only for a cause: the context, a request that cannot be
\* built, a response body that cannot be read, or a status that is no
\* transient failure.  Otherwise it has issued every one of its
\* MaxSendAttempts requests (http.go:139, 165-176).
GivesUpOnlyForCause ==
  \A c \in Calls :
    pc[c] = "err" =>
      \/ c \in cancelled
      \/ lastErr[c] \in {"request", "body"}
      \/ lastErr[c] = "status" /\ ~Transient(c)
      \/ posts[c] = MaxSendAttempts

\* A request is repeated only after a transient failure of the previous one,
\* never under a cancelled context and never beyond MaxSendAttempts
\* (http.go:139, 160-168): what the backend has answered for good, with a 2xx
\* or a 4xx, is not sent again.
RetryDiscipline ==
  [][\A c \in Calls :
       posts'[c] # posts[c] =>
         /\ c \notin cancelled
         /\ posts[c] < MaxSendAttempts
         /\ posts[c] > 0 => Transient(c)]_vars

\* A sleeping call waits for at least the base backoff, twice that from the
\* second failure on as far as maxBackoff allows, and never for more than the
\* larger of the two plus the 5% of jitter (http.go:412-418): no hot loop and
\* no runaway doubling.
BackoffInRange ==
  \A c \in Calls :
    pc[c] = "sleep" =>
      /\ delay[c] >= Least(IF attempt[c] = 1 THEN BaseBackoff ELSE 2 * BaseBackoff, MaxBackoff)
      /\ \/ delay[c] <= BaseBackoff
         \/ 100 * delay[c] < 105 * MaxBackoff

\* Send implements the contract of output.Output for backends that do not
\* redirect: a call is trying while its request or the response is under way.
Plain == Calls \ Redirecting

Phase == [c \in Plain |->
            CASE pc[c] \in {"loop", "do", "sleep"} -> "idle"
              [] pc[c] \in {"wire", "body"} -> "trying"
              [] OTHER -> pc[c]]

PlainSent      == {c \in Plain : posts[c] > 0}
PlainAccepted  == accepted \ Redirecting
PlainCancelled == cancelled \ Redirecting

Contract == INSTANCE OutputContract WITH
  Calls <- Plain, phase <- Phase, sent <- PlainSent,
  accepted <- PlainAccepted, cancelled <- PlainCancelled

\* Every behaviour of Send is one the contract allows (output.go, Send): ok
\* only out of an accepted request, and no request under a cancelled context.
ImplementsContract == Contract!Spec

\* Every call of Send returns, whatever the backend answers and whether or not
\* the context is cancelled (http.go:139-178).
EveryCallReturns ==
  \A c \in Calls : pc[c] # "off" ~> pc[c] \in {"ok", "err"}

-----------------------------------------------------------------------------
(* What the documentation says and the code does not do.                   *)

\* types.go:97: an output is "considered successful only if this output
\* succeeds".  A 2xx answer to the body-less GET of a followed redirect is
\* taken for that success (http.go:160, 345).
OkAlwaysDelivered ==
  \A c \in Calls : pc[c] = "ok" => c \in accepted
=============================================================================
