--------------------------- MODULE HTTPSendProofs ---------------------------
(***************************************************************************)
(* Theorems about HTTPSend, for every number of calls and of attempts.     *)
(***************************************************************************)
EXTENDS HTTPSend, TLAPS, NaturalsInduction, WellFoundedInduction

USE DEF LoopCondition, NewReader

Steps(c) ==
  \/ Send(c) \/ NewRequest(c) \/ NewRequestFails(c) \/ LoopExit(c)
  \/ DoCancelled(c) \/ Post(c) \/ BackendAccepts(c)
  \/ (\E s \in StatusCodes : Respond(c, s))
  \/ (\E s \in StatusCodes : RespondRedirected(c, s))
  \/ TransportError(c)
  \/ BodyReadFails(c) \/ Success(c) \/ PermanentStatus(c) \/ RetryableStatus(c)
  \/ SleepElapsed(c) \/ SleepCancelled(c) \/ CancelContext(c)

\* The backoff of an attempt is one of the delays a call may sleep for.
LEMMA BackoffIsDelay ==
  ASSUME NEW n \in 1 .. MaxSendAttempts
  PROVE  backoffDuration(n) \subseteq Delays
BY DEF Delays

\* The common tail of a failed iteration keeps the types of what it changes.
LEMMA FailedType ==
  ASSUME TypeOK, NEW c \in Calls, NEW from,
         NEW e \in {"transport", "status"},
         attempt[c] \in 1 .. MaxSendAttempts,
         Failed(c, from, e)
  PROVE  /\ pc' \in [Calls -> {"off", "loop", "do", "wire", "body", "sleep", "ok", "err"}]
         /\ attempt' \in [Calls -> 0 .. MaxSendAttempts + 1]
         /\ lastErr' \in [Calls -> {"nil", "transport", "status", "body", "request", "canceled"}]
         /\ delay' \in [Calls -> Delays]
<1>1. pc' \in [Calls -> {"off", "loop", "do", "wire", "body", "sleep", "ok", "err"}]
  BY DEF TypeOK, Failed, Goto
<1>2. attempt' \in [Calls -> 0 .. MaxSendAttempts + 1]
  <2>1. attempt[c] + 1 \in 0 .. MaxSendAttempts + 1
    BY SendAssumption
  <2> QED
    BY <2>1 DEF TypeOK, Failed
<1>3. lastErr' \in [Calls -> {"nil", "transport", "status", "body", "request", "canceled"}]
  BY DEF TypeOK, Failed
<1>4. delay' \in [Calls -> Delays]
  BY BackoffIsDelay DEF TypeOK, Failed
<1> QED
  BY <1>1, <1>2, <1>3, <1>4

\* What the loop knows at each place: the loop variable stays within the limit
\* inside an iteration, an error is held from the second iteration on, a
\* request that is about to go out carries the payload, one on its way has been
\* counted, and a 2xx answer means that the payload was accepted.
LoopInv(c) ==
  /\ pc[c] \in {"do", "wire", "body", "sleep"} => attempt[c] \in 1 .. MaxSendAttempts
  /\ pc[c] = "sleep" => attempt[c] < MaxSendAttempts /\ lastErr[c] # "nil"
  /\ pc[c] = "loop" => attempt[c] >= 1
  /\ pc[c] = "loop" /\ attempt[c] > 1 => lastErr[c] # "nil"
  /\ pc[c] \in {"do", "wire"} => body[c] = "full"
  /\ pc[c] = "wire" => posts[c] > 0
  /\ pc[c] = "body" /\ isSuccess(status[c]) /\ c \notin Redirecting => c \in accepted
  /\ pc[c] = "ok" /\ c \notin Redirecting => c \in accepted

IInv == TypeOK /\ \A c \in Calls : LoopInv(c)

LEMMA InitIInv == Init => IInv
BY SendAssumption DEF Init, IInv, TypeOK, LoopInv, Delays

LEMMA NextSteps == Next <=> \E c \in Calls : Steps(c)
BY DEF Next, Step, Steps

\* A step of a call leaves the other calls alone.
LEMMA TypePreserved ==
  ASSUME IInv, NEW c \in Calls, Steps(c)
  PROVE  TypeOK'
<1> USE SendAssumption
<1>0. TypeOK /\ LoopInv(c)
  BY DEF IInv
<1>1. CASE Send(c)
  BY <1>0, <1>1 DEF TypeOK, Send, Goto
<1>2. CASE NewRequest(c)
  BY <1>0, <1>2 DEF TypeOK, NewRequest, Goto
<1>3. CASE NewRequestFails(c)
  BY <1>0, <1>3 DEF TypeOK, NewRequestFails, Goto
<1>4. CASE LoopExit(c)
  BY <1>0, <1>4 DEF TypeOK, LoopExit, Goto
<1>5. CASE DoCancelled(c)
  <2>1. attempt[c] \in 1 .. MaxSendAttempts
    BY <1>0, <1>5 DEF LoopInv, DoCancelled, Failed, Goto
  <2> QED
    BY <1>0, <1>5, <2>1, FailedType DEF TypeOK, DoCancelled
<1>6. CASE Post(c)
  BY <1>0, <1>6 DEF TypeOK, Post, Goto
<1>7. CASE BackendAccepts(c)
  BY <1>0, <1>7 DEF TypeOK, BackendAccepts
<1>8. ASSUME NEW s \in StatusCodes, Respond(c, s) PROVE TypeOK'
  BY <1>0, <1>8 DEF TypeOK, Respond, Goto
<1>9. ASSUME NEW s \in StatusCodes, RespondRedirected(c, s) PROVE TypeOK'
  BY <1>0, <1>9 DEF TypeOK, RespondRedirected, Goto
<1>10. CASE TransportError(c)
  <2>1. attempt[c] \in 1 .. MaxSendAttempts
    BY <1>0, <1>10 DEF LoopInv, TransportError, Failed, Goto
  <2> QED
    BY <1>0, <1>10, <2>1, FailedType DEF TypeOK, TransportError
<1>11. CASE BodyReadFails(c)
  BY <1>0, <1>11 DEF TypeOK, BodyReadFails, Goto
<1>12. CASE Success(c)
  BY <1>0, <1>12 DEF TypeOK, Success, Goto
<1>13. CASE PermanentStatus(c)
  BY <1>0, <1>13 DEF TypeOK, PermanentStatus, Goto
<1>14. CASE RetryableStatus(c)
  <2>1. attempt[c] \in 1 .. MaxSendAttempts
    BY <1>0, <1>14 DEF LoopInv, RetryableStatus, Failed, Goto
  <2> QED
    BY <1>0, <1>14, <2>1, FailedType DEF TypeOK, RetryableStatus
<1>15. CASE SleepElapsed(c)
  BY <1>0, <1>15 DEF TypeOK, LoopInv, SleepElapsed, Goto, Delays
<1>16. CASE SleepCancelled(c)
  BY <1>0, <1>16 DEF TypeOK, SleepCancelled, Goto, Delays
<1>17. CASE CancelContext(c)
  BY <1>0, <1>17 DEF TypeOK, CancelContext
<1> QED
  BY <1>1, <1>2, <1>3, <1>4, <1>5, <1>6, <1>7, <1>8, <1>9, <1>10, <1>11, <1>12,
     <1>13, <1>14, <1>15, <1>16, <1>17 DEF Steps

\* A step of a call keeps what its loop knows; it does not touch the others.
LEMMA LoopInvPreserved ==
  ASSUME IInv, NEW c \in Calls, Steps(c), NEW d \in Calls
  PROVE  LoopInv(d)'
<1> USE SendAssumption
<1>0. TypeOK /\ LoopInv(c) /\ LoopInv(d)
  BY DEF IInv
<1>1. CASE Send(c)
  BY <1>0, <1>1 DEF TypeOK, LoopInv, Send, Goto
<1>2. CASE NewRequest(c)
  BY <1>0, <1>2 DEF TypeOK, LoopInv, NewRequest, Goto
<1>3. CASE NewRequestFails(c)
  BY <1>0, <1>3 DEF TypeOK, LoopInv, NewRequestFails, Goto
<1>4. CASE LoopExit(c)
  BY <1>0, <1>4 DEF TypeOK, LoopInv, LoopExit, Goto
<1>5. CASE DoCancelled(c)
  BY <1>0, <1>5 DEF TypeOK, LoopInv, DoCancelled, Failed, Goto
<1>6. CASE Post(c)
  BY <1>0, <1>6 DEF TypeOK, LoopInv, Post, Goto
<1>7. CASE BackendAccepts(c)
  BY <1>0, <1>7 DEF TypeOK, LoopInv, BackendAccepts
<1>8. ASSUME NEW s \in StatusCodes, Respond(c, s) PROVE LoopInv(d)'
  BY <1>0, <1>8 DEF TypeOK, LoopInv, Respond, Goto, isSuccess
<1>9. ASSUME NEW s \in StatusCodes, RespondRedirected(c, s) PROVE LoopInv(d)'
  BY <1>0, <1>9 DEF TypeOK, LoopInv, RespondRedirected, Goto
<1>10. CASE TransportError(c)
  BY <1>0, <1>10 DEF TypeOK, LoopInv, TransportError, Failed, Goto
<1>11. CASE BodyReadFails(c)
  BY <1>0, <1>11 DEF TypeOK, LoopInv, BodyReadFails, Goto
<1>12. CASE Success(c)
  BY <1>0, <1>12 DEF TypeOK, LoopInv, Success, Goto
<1>13. CASE PermanentStatus(c)
  BY <1>0, <1>13 DEF TypeOK, LoopInv, PermanentStatus, Goto
<1>14. CASE RetryableStatus(c)
  BY <1>0, <1>14 DEF TypeOK, LoopInv, RetryableStatus, Failed, Goto
<1>15. CASE SleepElapsed(c)
  BY <1>0, <1>15 DEF TypeOK, LoopInv, SleepElapsed, Goto
<1>16. CASE SleepCancelled(c)
  BY <1>0, <1>16 DEF TypeOK, LoopInv, SleepCancelled, Goto
<1>17. CASE CancelContext(c)
  BY <1>0, <1>17 DEF TypeOK, LoopInv, CancelContext
<1> QED
  BY <1>1, <1>2, <1>3, <1>4, <1>5, <1>6, <1>7, <1>8, <1>9, <1>10, <1>11, <1>12,
     <1>13, <1>14, <1>15, <1>16, <1>17 DEF Steps

LEMMA NextIInv == IInv /\ [Next]_vars => IInv'
<1> SUFFICES ASSUME IInv, [Next]_vars PROVE IInv'
  OBVIOUS
<1>1. CASE Next
  BY <1>1, NextSteps, TypePreserved, LoopInvPreserved DEF IInv
<1>2. CASE UNCHANGED vars
  BY <1>2 DEF vars, IInv, TypeOK, LoopInv
<1> QED
  BY <1>1, <1>2

\* The inductive invariant holds in every reachable state of Send.
THEOREM Invariance == Spec => []IInv
BY InitIInv, NextIInv, PTL DEF Spec

\* Type correctness of the model of Send.
THEOREM TypeCorrect == Spec => []TypeOK
<1>1. IInv => TypeOK
  BY DEF IInv
<1> QED
  BY <1>1, Invariance, PTL

\* When Send returns nil (http.go:161) the backend has accepted the payload,
\* however many attempts it took and whatever became of the earlier ones.
THEOREM SendOkMeansAcceptedCorrect == Spec => []SendOkMeansAccepted
<1>1. IInv => SendOkMeansAccepted
  BY DEF IInv, LoopInv, SendOkMeansAccepted
<1> QED
  BY <1>1, Invariance, PTL

-----------------------------------------------------------------------------
(* Counting requests.                                                      *)

\* Every iteration that was not cancelled has issued one request, a call that
\* goes round again has met a transient failure, and a call that has given up
\* had a cause.
CountInv(c) ==
  /\ pc[c] = "off" => posts[c] = 0
  /\ pc[c] \in {"loop", "do"} =>
       /\ attempt[c] >= 1
       /\ posts[c] <= attempt[c] - 1
       /\ c \notin cancelled => posts[c] = attempt[c] - 1
       /\ attempt[c] > 1 => Transient(c)
  /\ pc[c] \in {"wire", "body", "sleep"} =>
       /\ posts[c] <= attempt[c]
       /\ c \notin cancelled => posts[c] = attempt[c]
  /\ pc[c] = "sleep" => Transient(c)
  /\ pc[c] = "err" =>
       \/ c \in cancelled
       \/ lastErr[c] \in {"request", "body"}
       \/ lastErr[c] = "status" /\ ~Transient(c)
       \/ posts[c] = MaxSendAttempts

\* A step of one call keeps the counts of all calls.
LEMMA CountInvPreserved ==
  ASSUME IInv, NEW c \in Calls, Steps(c), NEW d \in Calls, CountInv(c), CountInv(d)
  PROVE  CountInv(d)'
<1> USE SendAssumption
<1>0. TypeOK /\ LoopInv(c) /\ LoopInv(d)
  BY DEF IInv
<1>1. CASE Send(c)
  BY <1>0, <1>1 DEF TypeOK, LoopInv, CountInv, Transient, Send, Goto
<1>2. CASE NewRequest(c)
  BY <1>0, <1>2 DEF TypeOK, LoopInv, CountInv, Transient, NewRequest, Goto
<1>3. CASE NewRequestFails(c)
  BY <1>0, <1>3 DEF TypeOK, LoopInv, CountInv, Transient, NewRequestFails, Goto
<1>4. CASE LoopExit(c)
  BY <1>0, <1>4 DEF TypeOK, LoopInv, CountInv, Transient, LoopExit, Goto
<1>5. CASE DoCancelled(c)
  BY <1>0, <1>5 DEF TypeOK, LoopInv, CountInv, Transient, DoCancelled, Goto, Failed
<1>6. CASE Post(c)
  BY <1>0, <1>6 DEF TypeOK, LoopInv, CountInv, Transient, Post, Goto
<1>7. CASE BackendAccepts(c)
  BY <1>0, <1>7 DEF TypeOK, LoopInv, CountInv, Transient, BackendAccepts
<1>8. ASSUME NEW s \in StatusCodes, Respond(c, s) PROVE CountInv(d)'
  BY <1>0, <1>8 DEF TypeOK, LoopInv, CountInv, Transient, Respond, Goto
<1>9. ASSUME NEW s \in StatusCodes, RespondRedirected(c, s) PROVE CountInv(d)'
  BY <1>0, <1>9 DEF TypeOK, LoopInv, CountInv, Transient, RespondRedirected, Goto
<1>10. CASE TransportError(c)
  BY <1>0, <1>10 DEF TypeOK, LoopInv, CountInv, Transient, TransportError, Goto, Failed
<1>11. CASE BodyReadFails(c)
  BY <1>0, <1>11 DEF TypeOK, LoopInv, CountInv, Transient, BodyReadFails, Goto
<1>12. CASE Success(c)
  BY <1>0, <1>12 DEF TypeOK, LoopInv, CountInv, Transient, Success, Goto
<1>13. CASE PermanentStatus(c)
  BY <1>0, <1>13 DEF TypeOK, LoopInv, CountInv, Transient, PermanentStatus, Goto, isSuccess, isRetryableStatus
<1>14. CASE RetryableStatus(c)
  <2>1. status[c] = 429 \/ status[c] >= 500
    BY <1>14 DEF RetryableStatus, isRetryableStatus
  <2>2. status' = status /\ posts' = posts /\ cancelled' = cancelled
    BY <1>14 DEF RetryableStatus
  <2>3. Failed(c, "body", "status")
    BY <1>14 DEF RetryableStatus
  <2>4. CASE c = d
    BY <1>0, <2>1, <2>2, <2>3, <2>4 DEF TypeOK, LoopInv, CountInv, Transient, Failed, Goto
  <2>5. CASE c # d
    BY <1>0, <2>2, <2>3, <2>5 DEF TypeOK, CountInv, Transient, Failed, Goto
  <2> QED
    BY <2>4, <2>5
<1>15. CASE SleepElapsed(c)
  BY <1>0, <1>15 DEF TypeOK, LoopInv, CountInv, Transient, SleepElapsed, Goto
<1>16. CASE SleepCancelled(c)
  BY <1>0, <1>16 DEF TypeOK, LoopInv, CountInv, Transient, SleepCancelled, Goto
<1>17. CASE CancelContext(c)
  BY <1>0, <1>17 DEF TypeOK, LoopInv, CountInv, Transient, CancelContext
<1> QED
  BY <1>1, <1>2, <1>3, <1>4, <1>5, <1>6, <1>7, <1>8, <1>9, <1>10, <1>11, <1>12,
     <1>13, <1>14, <1>15, <1>16, <1>17 DEF Steps

CInv == \A c \in Calls : CountInv(c)

\* The count of requests is right in every reachable state of Send.
THEOREM Counting == Spec => []CInv
<1>1. Init => CInv
  BY DEF Init, CInv, CountInv
<1>2. IInv /\ CInv /\ [Next]_vars => CInv'
  <2> SUFFICES ASSUME IInv, CInv, [Next]_vars PROVE CInv'
    OBVIOUS
  <2>1. CASE Next
    BY <2>1, NextSteps, CountInvPreserved DEF CInv
  <2>2. CASE UNCHANGED vars
    BY <2>2 DEF vars, CInv, CountInv, Transient
  <2> QED
    BY <2>1, <2>2
<1> QED
  BY <1>1, <1>2, Invariance, PTL DEF Spec

\* Send gives up before its last attempt only for a cause (http.go:139-178):
\* the context, the request, the response body or a permanent status.
THEOREM GivesUpOnlyForCauseCorrect == Spec => []GivesUpOnlyForCause
<1>1. CInv => GivesUpOnlyForCause
  BY DEF CInv, CountInv, GivesUpOnlyForCause
<1> QED
  BY <1>1, Counting, PTL

\* Send repeats a request only after a transient failure, never under a
\* cancelled context and never more than MaxSendAttempts times in all.
THEOREM RetryDisciplineCorrect == Spec => RetryDiscipline
<1>1. IInv /\ CInv /\ [Next]_vars =>
        [\A c \in Calls :
           posts'[c] # posts[c] =>
             /\ c \notin cancelled
             /\ posts[c] < MaxSendAttempts
             /\ posts[c] > 0 => Transient(c)]_vars
  <2> SUFFICES ASSUME IInv, CInv, Next, NEW d \in Calls, posts'[d] # posts[d]
               PROVE  /\ d \notin cancelled
                      /\ posts[d] < MaxSendAttempts
                      /\ posts[d] > 0 => Transient(d)
    OBVIOUS
  <2>1. PICK c \in Calls : Steps(c)
    BY NextSteps
  <2>2. Post(c)
    BY <2>1 DEF Steps, Send, NewRequest, NewRequestFails, LoopExit, DoCancelled,
       BackendAccepts, Respond, RespondRedirected, TransportError, BodyReadFails,
       Success, PermanentStatus, RetryableStatus, SleepElapsed, SleepCancelled,
       CancelContext
  <2>3. c = d
    BY <2>2 DEF IInv, TypeOK, Post
  <2> QED
    BY <2>2, <2>3, SendAssumption DEF IInv, TypeOK, LoopInv, CInv, CountInv, Post, Goto
<1> QED
  BY <1>1, Invariance, Counting, PTL DEF Spec, RetryDiscipline

-----------------------------------------------------------------------------
(* Send implements OutputContract.                                         *)

\* The abstract phase changes exactly where pc does.
LEMMA PhaseMove ==
  ASSUME TypeOK, NEW c \in Plain, NEW to,
         pc' = [pc EXCEPT ![c] = to]
  PROVE  Phase' = [Phase EXCEPT ![c] =
                     CASE to \in {"loop", "do", "sleep"} -> "idle"
                       [] to \in {"wire", "body"} -> "trying"
                       [] OTHER -> to]
BY DEF Phase, Plain, TypeOK

LEMMA PhaseSame ==
  ASSUME TypeOK, pc' = pc
  PROVE  Phase' = Phase
BY DEF Phase

\* The steps of a call on a redirecting backend are not seen.
LEMMA RedirectingInvisible ==
  ASSUME TypeOK, NEW c \in Redirecting, Steps(c), c \in Calls
  PROVE  UNCHANGED <<Phase, PlainSent, PlainAccepted, PlainCancelled>>
<1>1. \E to : pc' = [pc EXCEPT ![c] = to]
  <2>1. pc = [pc EXCEPT ![c] = pc[c]]
    BY DEF TypeOK
  <2> QED
    BY <2>1 DEF Steps, Send, NewRequest, NewRequestFails, LoopExit, DoCancelled, Post,
       BackendAccepts, Respond, RespondRedirected, TransportError, BodyReadFails,
       Success, PermanentStatus, RetryableStatus, SleepElapsed, SleepCancelled,
       CancelContext, Failed, Goto
<1>2. \A d \in Plain : pc'[d] = pc[d]
  BY <1>1 DEF TypeOK, Plain
<1>3. Phase' = Phase
  BY <1>2 DEF Phase
<1>4. accepted' = accepted \/ accepted' = accepted \cup {c}
  BY DEF Steps, Send, NewRequest, NewRequestFails, LoopExit, DoCancelled, Post,
     BackendAccepts, Respond, RespondRedirected, TransportError, BodyReadFails,
     Success, PermanentStatus, RetryableStatus, SleepElapsed, SleepCancelled,
     CancelContext
<1>5. cancelled' = cancelled \/ cancelled' = cancelled \cup {c}
  BY DEF Steps, Send, NewRequest, NewRequestFails, LoopExit, DoCancelled, Post,
     BackendAccepts, Respond, RespondRedirected, TransportError, BodyReadFails,
     Success, PermanentStatus, RetryableStatus, SleepElapsed, SleepCancelled,
     CancelContext
<1>6. posts' = posts \/ posts' = [posts EXCEPT ![c] = @ + 1]
  BY DEF Steps, Send, NewRequest, NewRequestFails, LoopExit, DoCancelled, Post,
     BackendAccepts, Respond, RespondRedirected, TransportError, BodyReadFails,
     Success, PermanentStatus, RetryableStatus, SleepElapsed, SleepCancelled,
     CancelContext
<1>7. PlainSent' = PlainSent
  BY <1>6 DEF PlainSent, Plain, TypeOK
<1> QED
  BY <1>3, <1>4, <1>5, <1>7 DEF PlainAccepted, PlainCancelled

\* A failed iteration is a pause when a request was under way and nothing
\* otherwise.
LEMMA FailedPhase ==
  ASSUME TypeOK, NEW c \in Plain, NEW from, NEW e, Failed(c, from, e)
  PROVE  /\ pc[c] = from
         /\ Phase' = [Phase EXCEPT ![c] = "idle"]
<1>1. PICK to \in {"sleep", "loop"} : pc' = [pc EXCEPT ![c] = to]
  BY DEF Failed, Goto
<1>2. pc[c] = from
  BY DEF Failed, Goto
<1> QED
  BY <1>1, <1>2, PhaseMove

LEMMA StepSimulation ==
  ASSUME IInv, NEW c \in Plain, Steps(c)
  PROVE  [Contract!Next]_(Contract!outVars)
<1> USE DEF Contract!outVars, Contract!Move
<1>0. TypeOK /\ LoopInv(c) /\ c \in Calls /\ c \notin Redirecting
  BY DEF IInv, Plain
<1>a. /\ pc[c] \in {"loop", "do", "sleep"} => Phase[c] = "idle"
      /\ pc[c] \in {"wire", "body"} => Phase[c] = "trying"
      /\ pc[c] = "off" => Phase[c] = "off"
  BY DEF Phase
<1>b. /\ accepted' = accepted => PlainAccepted' = PlainAccepted
      /\ cancelled' = cancelled => PlainCancelled' = PlainCancelled
      /\ accepted' = accepted \cup {c} => PlainAccepted' = PlainAccepted \cup {c}
      /\ cancelled' = cancelled \cup {c} => PlainCancelled' = PlainCancelled \cup {c}
      /\ c \in accepted => c \in PlainAccepted
      /\ c \notin cancelled => c \notin PlainCancelled
      /\ posts' = posts => PlainSent' = PlainSent
      /\ posts[c] > 0 => c \in PlainSent
  BY <1>0 DEF PlainAccepted, PlainCancelled, PlainSent
<1>c. /\ Contract!Call(c) => Contract!Next
      /\ Contract!SendStep(c) => Contract!Next
      /\ Contract!Accept(c) => Contract!Next
  BY DEF Contract!Next
<1>1. CASE Send(c)
  <2>1. Phase' = [Phase EXCEPT ![c] = "idle"]
    BY <1>0, <1>1, PhaseMove DEF Send, Goto
  <2>2. Contract!Call(c)
    BY <1>1, <1>a, <1>b, <2>1 DEF Send, Goto, Contract!Call
  <2> QED
    BY <2>2, <1>c
<1>2. CASE NewRequest(c)
  <2>1. Phase' = [Phase EXCEPT ![c] = "idle"]
    BY <1>0, <1>2, PhaseMove DEF NewRequest, Goto
  <2>2. Phase' = Phase
    BY <1>2, <1>a, <2>1 DEF NewRequest, Goto, Phase
  <2> QED
    BY <1>2, <1>b, <2>2 DEF NewRequest
<1>3. CASE NewRequestFails(c)
  <2>1. Phase' = [Phase EXCEPT ![c] = "err"]
    BY <1>0, <1>3, PhaseMove DEF NewRequestFails, Goto
  <2>2. Contract!ReturnErr(c)
    BY <1>3, <1>a, <1>b, <2>1
    DEF NewRequestFails, Goto, Contract!ReturnErr, Contract!InProgress
  <2> QED
    BY <2>2, <1>c DEF Contract!SendStep
<1>4. CASE LoopExit(c)
  <2>1. lastErr[c] # "nil"
    BY <1>0, <1>4, SendAssumption DEF LoopInv, TypeOK, LoopExit, Goto
  <2>2. Phase' = [Phase EXCEPT ![c] = "err"]
    BY <1>0, <1>4, <2>1, PhaseMove DEF LoopExit, Goto
  <2>3. Contract!ReturnErr(c)
    BY <1>4, <1>a, <1>b, <2>2 DEF LoopExit, Goto, Contract!ReturnErr, Contract!InProgress
  <2> QED
    BY <2>3, <1>c DEF Contract!SendStep
<1>5. CASE DoCancelled(c)
  <2>1. pc[c] = "do" /\ Phase' = [Phase EXCEPT ![c] = "idle"]
    BY <1>0, <1>5, FailedPhase DEF DoCancelled
  <2>2. Phase' = Phase
    BY <1>a, <2>1 DEF Phase
  <2> QED
    BY <1>5, <1>b, <2>2 DEF DoCancelled
<1>6. CASE Post(c)
  <2>1. Phase' = [Phase EXCEPT ![c] = "trying"]
    BY <1>0, <1>6, PhaseMove DEF Post, Goto
  <2>2. Contract!Try(c)
    <3>1. PlainSent' = PlainSent \cup {c}
      BY <1>0, <1>6 DEF Post, PlainSent, Plain, TypeOK
    <3> QED
      BY <1>6, <1>a, <1>b, <2>1, <3>1 DEF Post, Goto, Contract!Try
  <2> QED
    BY <2>2, <1>c DEF Contract!SendStep
<1>7. CASE BackendAccepts(c)
  <2>1. Phase' = Phase
    BY <1>0, <1>7, PhaseSame DEF BackendAccepts
  <2>2. Contract!Accept(c)
    BY <1>7, <1>a, <1>b, <2>1 DEF BackendAccepts, Contract!Accept
  <2> QED
    BY <2>2, <1>c
<1>8. ASSUME NEW s \in StatusCodes, Respond(c, s)
      PROVE  [Contract!Next]_(Contract!outVars)
  <2>1. Phase' = [Phase EXCEPT ![c] = "trying"]
    BY <1>0, <1>8, PhaseMove DEF Respond, Goto
  <2>2. Phase[c] = "trying" /\ Phase' = Phase
    BY <1>8, <1>a, <2>1 DEF Respond, Goto, Phase
  <2>3. CASE accepted' = accepted
    BY <1>8, <1>b, <2>2, <2>3 DEF Respond
  <2>4. CASE accepted' = accepted \cup {c}
    <3>1. Contract!Accept(c)
      BY <1>0, <1>8, <1>b, <2>2, <2>4 DEF Respond, Goto, LoopInv, Contract!Accept
    <3> QED
      BY <3>1, <1>c
  <2> QED
    BY <1>8, <2>3, <2>4 DEF Respond
<1>9. ASSUME NEW s \in StatusCodes, RespondRedirected(c, s)
      PROVE  [Contract!Next]_(Contract!outVars)
  BY <1>0, <1>9 DEF RespondRedirected
<1>10. CASE TransportError(c)
  <2>1. pc[c] = "wire" /\ Phase' = [Phase EXCEPT ![c] = "idle"]
    BY <1>0, <1>10, FailedPhase DEF TransportError
  <2>2. Contract!Pause(c)
    BY <1>10, <1>a, <1>b, <2>1 DEF TransportError, Contract!Pause
  <2> QED
    BY <2>2, <1>c DEF Contract!SendStep
<1>11. CASE BodyReadFails(c)
  <2>1. Phase' = [Phase EXCEPT ![c] = "err"]
    BY <1>0, <1>11, PhaseMove DEF BodyReadFails, Goto
  <2>2. Contract!ReturnErr(c)
    BY <1>11, <1>a, <1>b, <2>1
    DEF BodyReadFails, Goto, Contract!ReturnErr, Contract!InProgress
  <2> QED
    BY <2>2, <1>c DEF Contract!SendStep
<1>12. CASE Success(c)
  <2>1. Phase' = [Phase EXCEPT ![c] = "ok"]
    BY <1>0, <1>12, PhaseMove DEF Success, Goto
  <2>2. c \in accepted
    BY <1>0, <1>12 DEF Success, Goto, LoopInv
  <2>3. Contract!ReturnOk(c)
    BY <1>12, <1>a, <1>b, <2>1, <2>2 DEF Success, Goto, Contract!ReturnOk
  <2> QED
    BY <2>3, <1>c DEF Contract!SendStep
<1>13. CASE PermanentStatus(c)
  <2>1. Phase' = [Phase EXCEPT ![c] = "err"]
    BY <1>0, <1>13, PhaseMove DEF PermanentStatus, Goto
  <2>2. Contract!ReturnErr(c)
    BY <1>13, <1>a, <1>b, <2>1
    DEF PermanentStatus, Goto, Contract!ReturnErr, Contract!InProgress
  <2> QED
    BY <2>2, <1>c DEF Contract!SendStep
<1>14. CASE RetryableStatus(c)
  <2>1. pc[c] = "body" /\ Phase' = [Phase EXCEPT ![c] = "idle"]
    BY <1>0, <1>14, FailedPhase DEF RetryableStatus
  <2>2. Contract!Pause(c)
    BY <1>14, <1>a, <1>b, <2>1 DEF RetryableStatus, Contract!Pause
  <2> QED
    BY <2>2, <1>c DEF Contract!SendStep
<1>15. CASE SleepElapsed(c)
  <2>1. Phase' = [Phase EXCEPT ![c] = "idle"]
    BY <1>0, <1>15, PhaseMove DEF SleepElapsed, Goto
  <2>2. Phase' = Phase
    BY <1>15, <1>a, <2>1 DEF SleepElapsed, Goto, Phase
  <2> QED
    BY <1>15, <1>b, <2>2 DEF SleepElapsed
<1>16. CASE SleepCancelled(c)
  <2>1. Phase' = [Phase EXCEPT ![c] = "err"]
    BY <1>0, <1>16, PhaseMove DEF SleepCancelled, Goto
  <2>2. Contract!ReturnErr(c)
    BY <1>16, <1>a, <1>b, <2>1
    DEF SleepCancelled, Goto, Contract!ReturnErr, Contract!InProgress
  <2> QED
    BY <2>2, <1>c DEF Contract!SendStep
<1>17. CASE CancelContext(c)
  <2>1. Phase' = Phase
    BY <1>0, <1>17, PhaseSame DEF CancelContext
  <2>2. Contract!Cancel({c})
    BY <1>17, <1>b, <2>1 DEF CancelContext, Contract!Cancel
  <2>3. {c} \in SUBSET Plain
    OBVIOUS
  <2> QED
    BY <2>2, <2>3 DEF Contract!Next
<1> QED
  BY <1>1, <1>2, <1>3, <1>4, <1>5, <1>6, <1>7, <1>8, <1>9, <1>10, <1>11, <1>12,
     <1>13, <1>14, <1>15, <1>16, <1>17 DEF Steps

\* Send implements the contract of output.Output (output.go): the handler may
\* be composed with the contract in its place.
THEOREM ImplementsContractCorrect == Spec => ImplementsContract
<1>1. Init => Contract!Init
  BY DEF Init, Contract!Init, Phase, PlainSent, PlainAccepted, PlainCancelled, Plain
<1>2. IInv /\ [Next]_vars => [Contract!Next]_(Contract!outVars)
  <2> SUFFICES ASSUME IInv, [Next]_vars PROVE [Contract!Next]_(Contract!outVars)
    OBVIOUS
  <2>1. CASE UNCHANGED vars
    BY <2>1 DEF vars, Contract!outVars, Phase, PlainSent, PlainAccepted, PlainCancelled
  <2>2. ASSUME NEW c \in Calls, Steps(c)
        PROVE  [Contract!Next]_(Contract!outVars)
    <3>1. CASE c \in Redirecting
      BY <2>2, <3>1, RedirectingInvisible DEF IInv, Contract!outVars
    <3>2. CASE c \notin Redirecting
      BY <2>2, <3>2, StepSimulation DEF Plain
    <3> QED
      BY <3>1, <3>2
  <2> QED
    BY <2>1, <2>2, NextSteps
<1> QED
  BY <1>1, <1>2, Invariance, PTL DEF Spec, ImplementsContract, Contract!Spec

-----------------------------------------------------------------------------
(* The backoff.                                                            *)

\* Every non-empty set of naturals has a least element: what an argument by
\* induction over n rests on.
LEMMA LeastNumber ==
  ASSUME NEW T, T \subseteq Nat, T # {}
  PROVE  \E m \in T : \A k \in T : m <= k
<1> DEFINE R == OpToRel(<, Nat)
<1>1. R = {p \in Nat \X Nat : p[1] < p[2]}
  BY Zenon DEF OpToRel
<1>2. \E x \in T : \A y \in T : <<y, x>> \notin R
  BY NatLessThanWellFounded, WFMin
<1> HIDE DEF R
<1>3. \A x, y \in Nat : <<y, x>> \notin R => x <= y
  BY <1>1
<1> QED
  BY <1>2, <1>3

\* Shift is defined by its recursion.
LEMMA ShiftDef == \A n \in Nat : Shift[n] = IF n = 0 THEN 1 ELSE 2 * Shift[n - 1]
<1>1. NatInductiveDefHypothesis(Shift, 1, LAMBDA v, n : 2 * v)
  BY DEF NatInductiveDefHypothesis, Shift
<1>2. NatInductiveDefConclusion(Shift, 1, LAMBDA v, n : 2 * v)
  BY <1>1, NatInductiveDef
<1> QED
  BY <1>2 DEF NatInductiveDefConclusion

\* However often 1 is shifted, it is at least doubled.
LEMMA ShiftDoubles == \A n \in Nat : Shift[n] \in Nat /\ Shift[n] >= 1 /\ (n >= 1 => Shift[n] >= 2)
<1> DEFINE T == {n \in Nat : ~(Shift[n] \in Nat /\ Shift[n] >= 1)}
<1>1. T = {}
  <2> SUFFICES ASSUME T # {} PROVE FALSE
    OBVIOUS
  <2>1. PICK m \in T : \A k \in T : m <= k
    BY LeastNumber
  <2>2. m # 0
    BY ShiftDef
  <2>3. m - 1 \in Nat /\ m - 1 \notin T
    BY <2>1, <2>2
  <2>4. Shift[m - 1] \in Nat /\ Shift[m - 1] >= 1
    BY <2>3
  <2>5. Shift[m] = 2 * Shift[m - 1]
    BY <2>2, ShiftDef
  <2> QED
    BY <2>4, <2>5
<1>2. \A n \in Nat : Shift[n] \in Nat /\ Shift[n] >= 1
  BY <1>1
<1>3. ASSUME NEW n \in Nat, n >= 1 PROVE Shift[n] >= 2
  <2>1. Shift[n] = 2 * Shift[n - 1] /\ n - 1 \in Nat
    BY <1>3, ShiftDef
  <2> QED
    BY <1>2, <2>1
<1> QED
  BY <1>2, <1>3

\* Jitter never shortens a wait and adds less than a twentieth to it.
LEMMA JitterBounds ==
  ASSUME NEW w \in Nat, w >= 1, NEW d \in Jitter(w)
  PROVE  d \in Nat /\ d >= w /\ 100 * d < 105 * w
<1>1. d = w \/ d = w + (5 * w - 1) \div 100
  BY DEF Jitter
<1> QED
  BY <1>1

\* The wait that backoffDuration computes, before its jitter.
LEMMA WaitBounds ==
  ASSUME NEW n \in Nat, n > 1
  PROVE  LET w == Least(BaseBackoff * Shift[n - 1], MaxBackoff)
         IN  w \in Nat /\ w >= Least(2 * BaseBackoff, MaxBackoff) /\ w >= 1 /\ w <= MaxBackoff
<1>1. n - 1 \in Nat /\ Shift[n - 1] \in Nat /\ Shift[n - 1] >= 2
  BY ShiftDoubles
<1>2. \A s \in Nat : s >= 2 => BaseBackoff * s \in Nat /\ BaseBackoff * s >= 2 * BaseBackoff
  BY SendAssumption
<1>3. PICK b \in Nat : b = BaseBackoff * Shift[n - 1] /\ b >= 2 * BaseBackoff
  BY <1>1, <1>2
<1> QED
  BY <1>3, SendAssumption DEF Least

\* backoffDuration keeps its promise at every attempt.
LEMMA BackoffBounds ==
  ASSUME NEW n \in Nat, NEW d \in backoffDuration(n)
  PROVE  /\ d >= Least(IF n <= 1 THEN BaseBackoff ELSE 2 * BaseBackoff, MaxBackoff)
         /\ d <= BaseBackoff \/ 100 * d < 105 * MaxBackoff
<1>1. CASE n <= 1
  BY <1>1, SendAssumption DEF backoffDuration, Least
<1>2. CASE n > 1
  <2> DEFINE w == Least(BaseBackoff * Shift[n - 1], MaxBackoff)
  <2>1. w \in Nat /\ w >= Least(2 * BaseBackoff, MaxBackoff) /\ w >= 1 /\ w <= MaxBackoff
    BY <1>2, WaitBounds
  <2>2. d \in Jitter(w)
    BY <1>2 DEF backoffDuration
  <2> HIDE DEF w
  <2>3. d \in Nat /\ d >= w /\ 100 * d < 105 * w
    BY <2>1, <2>2, JitterBounds
  <2>4. Least(2 * BaseBackoff, MaxBackoff) \in Nat
    BY SendAssumption DEF Least
  <2>5. ~(n <= 1)
    BY <1>2
  <2> QED
    BY <2>1, <2>3, <2>4, <2>5, SendAssumption
<1> QED
  BY <1>1, <1>2

\* A sleeping call sleeps for the backoff of the attempt that has just failed.
SleepInv(c) == pc[c] = "sleep" => delay[c] \in backoffDuration(attempt[c])

SInv == \A c \in Calls : SleepInv(c)

\* A failed iteration that goes to sleep has computed its backoff.
LEMMA FailedSleeps ==
  ASSUME TypeOK, NEW c \in Calls, NEW d \in Calls, NEW from, NEW e,
         Failed(c, from, e), SleepInv(d)
  PROVE  SleepInv(d)'
<1> USE DEF TypeOK, SleepInv, Goto
<1>1. CASE pc' = [pc EXCEPT ![c] = "loop"]
  BY <1>1 DEF Failed
<1>2. CASE pc' = [pc EXCEPT ![c] = "sleep"]
  <2>1. pc'[c] = "sleep"
    BY <1>2
  <2>2. attempt' = attempt /\ \E x \in backoffDuration(attempt[c]) : delay' = [delay EXCEPT ![c] = x]
    BY <2>1 DEF Failed
  <2> QED
    BY <1>2, <2>2
<1> QED
  BY <1>1, <1>2 DEF Failed

\* Every step of a call keeps what all calls sleep for.
LEMMA SleepPreserved ==
  ASSUME TypeOK, NEW c \in Calls, Steps(c), NEW d \in Calls, SleepInv(d)
  PROVE  SleepInv(d)'
<1>1. CASE Send(c)
  BY <1>1 DEF TypeOK, SleepInv, Send, Goto
<1>2. CASE NewRequest(c)
  BY <1>2 DEF TypeOK, SleepInv, NewRequest, Goto
<1>3. CASE NewRequestFails(c)
  BY <1>3 DEF TypeOK, SleepInv, NewRequestFails, Goto
<1>4. CASE LoopExit(c)
  BY <1>4 DEF TypeOK, SleepInv, LoopExit, Goto
<1>5. CASE DoCancelled(c)
  BY <1>5, FailedSleeps DEF DoCancelled
<1>6. CASE Post(c)
  BY <1>6 DEF TypeOK, SleepInv, Post, Goto
<1>7. CASE BackendAccepts(c)
  BY <1>7 DEF SleepInv, BackendAccepts
<1>8. ASSUME NEW s \in StatusCodes, Respond(c, s) PROVE SleepInv(d)'
  BY <1>8 DEF TypeOK, SleepInv, Respond, Goto
<1>9. ASSUME NEW s \in StatusCodes, RespondRedirected(c, s) PROVE SleepInv(d)'
  BY <1>9 DEF TypeOK, SleepInv, RespondRedirected, Goto
<1>10. CASE TransportError(c)
  BY <1>10, FailedSleeps DEF TransportError
<1>11. CASE BodyReadFails(c)
  BY <1>11 DEF TypeOK, SleepInv, BodyReadFails, Goto
<1>12. CASE Success(c)
  BY <1>12 DEF TypeOK, SleepInv, Success, Goto
<1>13. CASE PermanentStatus(c)
  BY <1>13 DEF TypeOK, SleepInv, PermanentStatus, Goto
<1>14. CASE RetryableStatus(c)
  BY <1>14, FailedSleeps DEF RetryableStatus
<1>15. CASE SleepElapsed(c)
  BY <1>15 DEF TypeOK, SleepInv, SleepElapsed, Goto
<1>16. CASE SleepCancelled(c)
  BY <1>16 DEF TypeOK, SleepInv, SleepCancelled, Goto
<1>17. CASE CancelContext(c)
  BY <1>17 DEF SleepInv, CancelContext
<1> QED
  BY <1>1, <1>2, <1>3, <1>4, <1>5, <1>6, <1>7, <1>8, <1>9, <1>10, <1>11, <1>12,
     <1>13, <1>14, <1>15, <1>16, <1>17 DEF Steps

\* Every wait between two attempts is in range (http.go:412-418), for every
\* number of attempts and all settings of the backoff as long as the shifted
\* backoff fits a time.Duration, as it does with the settings of the code.
THEOREM BackoffInRangeCorrect == Spec => []BackoffInRange
<1>1. Init => SInv
  BY DEF Init, SInv, SleepInv
<1>2. TypeOK /\ SInv /\ [Next]_vars => SInv'
  <2> SUFFICES ASSUME TypeOK, SInv, [Next]_vars PROVE SInv'
    OBVIOUS
  <2>1. CASE Next
    BY <2>1, NextSteps, SleepPreserved DEF SInv
  <2>2. CASE UNCHANGED vars
    BY <2>2 DEF vars, SInv, SleepInv
  <2> QED
    BY <2>1, <2>2
<1>3. IInv /\ SInv => BackoffInRange
  <2> SUFFICES ASSUME IInv, SInv, NEW c \in Calls, pc[c] = "sleep"
               PROVE  /\ delay[c] >= Least(IF attempt[c] = 1 THEN BaseBackoff ELSE 2 * BaseBackoff, MaxBackoff)
                      /\ delay[c] <= BaseBackoff \/ 100 * delay[c] < 105 * MaxBackoff
    BY DEF BackoffInRange
  <2>1. attempt[c] \in Nat /\ (attempt[c] <= 1 <=> attempt[c] = 1)
    BY DEF IInv, LoopInv
  <2>2. delay[c] \in backoffDuration(attempt[c])
    BY DEF SInv, SleepInv
  <2> QED
    BY <2>1, <2>2, BackoffBounds
<1> QED
  BY <1>1, <1>2, <1>3, Invariance, TypeCorrect, PTL DEF Spec
=============================================================================
