------------------------- MODULE AuditHandlerProofs -------------------------
(***************************************************************************)
(* Theorems about AuditHandler, for every set of requests and outputs.     *)
(***************************************************************************)
EXTENDS AuditHandler, FiniteSetTheorems, TLAPS

USE DEF ToProcess, Counted

OutputAction(A) == A /\ UNCHANGED <<reqVars, bestEffortWg, shutdownVars, metricVars>>

\* The next-state relation, one disjunct per action.
Cases ==
  \/ \E r \in Requests :
       \/ Receive(r) \/ ReadBody(r) \/ ReadBodyFails(r) \/ Process(r) \/ ProcessFails(r)
       \/ ForwardToGuaranteed(r) \/ ForwardFails(r) \/ StartBestEffort(r) \/ Answer(r)
       \/ ClientDisconnect(r) \/ FinishBestEffort(r)
       \/ \E g \in Guaranteed :
            SendGuaranteed(r, g) \/ GuaranteedSucceeded(r, g) \/ GuaranteedFailed(r, g)
       \/ \E b \in BestEffort : SendBestEffort(r, b) \/ BestEffortReturned(r, b)
       \/ \E o \in Outputs :
            \/ OutputAction(Out!Try(<<r, o>>)) \/ OutputAction(Out!Accept(<<r, o>>))
            \/ OutputAction(Out!Pause(<<r, o>>)) \/ OutputAction(Out!ReturnOk(<<r, o>>))
            \/ OutputAction(Out!ReturnErr(<<r, o>>))
  \/ Shutdown \/ Wait \/ WaitReturns \/ ShutdownDone \/ ShutdownTimeout

LEMMA NextCases == Next => Cases
BY DEF Next, Cases, ProcessStep, Serve, BestEffortGoroutine, GuaranteedGoroutine, OutputStep,
   Out!SendStep, BackendAccepts, ShutdownStep, OutputAction

\* What the outputs and the goroutines of a request have told each other: a
\* call that returned nil was accepted, a goroutine ends after its call, the
\* error of an ended goroutine is in errCh, and past the join every call to a
\* Guaranteed output has returned nil.  A call to a Guaranteed output is in
\* progress only while the request is being forwarded and has not begun before,
\* and nothing is sent or accepted of a call that has not begun.
DeliveryInv ==
  /\ \A c \in Requests \X Outputs : phase[c] = "ok" => c \in accepted
  /\ \A c \in settled : phase[c] \in {"ok", "err"}
  /\ \A r \in Requests, g \in Guaranteed :
       <<r, g>> \in settled /\ phase[<<r, g>>] = "err" => g \in errCh[r]
  /\ \A r \in Requests, g \in Guaranteed :
       req[r] \in {"answering", "200"} => phase[<<r, g>>] = "ok"
  /\ \A r \in Requests : fanOut[r] # "none" => req[r] \in {"answering", "200"}
  /\ \A r \in Requests, b \in BestEffort : phase[<<r, b>>] # "off" => fanOut[r] # "none"
  /\ \A r \in Requests, g \in Guaranteed :
       phase[<<r, g>>] \in {"idle", "trying"} => req[r] = "forwarding"
  /\ \A r \in Requests, g \in Guaranteed :
       phase[<<r, g>>] # "off" => req[r] \notin {"idle", "reading", "processing"}
  /\ \A c \in sent : phase[c] # "off"
  /\ accepted \subseteq sent

\* What Shutdown and the fan-outs know of each other: bestEffortWg counts the
\* running ones, and once the waiter is on its way back none of those that
\* were in flight at the call of Shutdown is left.
DrainInv ==
  /\ bestEffortWg = {r \in Requests : fanOut[r] = "running"}
  /\ \A r \in Requests : fanOut[r] = "done" => {r} \X BestEffort \subseteq settled
  /\ \A r \in atShutdown : fanOut[r] # "none"
  /\ waiter \in {"released", "done"} => bestEffortWg \cap atShutdown = {}
  /\ waiter = "none" => shutdown = "none"
  /\ shutdown = "none" => waiter = "none" /\ atShutdown = {}
  /\ shutdown = "ok" => waiter = "done"

IInv == TypeOK /\ DeliveryInv /\ DrainInv /\ OnlyShutdownInterrupts

LEMMA InitIInv == Init => IInv
<1> SUFFICES ASSUME Init PROVE IInv
  OBVIOUS
<1> USE HandlerAssumption DEF Init, Outputs, Out!Init
<1>1. TypeOK
  <2>1. Out!TypeOK
    BY DEF Out!TypeOK
  <2>2. /\ req \in [Requests -> {"idle", "200", "500"} \cup Active]
        /\ processed \in [Requests -> 0 .. NumProcessors]
        /\ errCh \in [Requests -> SUBSET Guaranteed]
    OBVIOUS
  <2>3. outSucceeded \in [Outputs -> Nat] /\ outFailed \in [Outputs -> Nat]
    OBVIOUS
  <2> QED
    BY <2>1, <2>2, <2>3 DEF TypeOK
<1>2. DeliveryInv
  BY DEF DeliveryInv
<1>3. DrainInv
  BY DEF DrainInv
<1>4. OnlyShutdownInterrupts
  BY DEF OnlyShutdownInterrupts
<1> QED
  BY <1>1, <1>2, <1>3, <1>4 DEF IInv

\* Every action keeps the types.
LEMMA TypePreserved ==
  ASSUME IInv, Next
  PROVE  TypeOK'
<1> USE HandlerAssumption DEF Outputs
<1>0. IInv
  OBVIOUS
<1>1. ASSUME NEW r \in Requests, Receive(r) PROVE TypeOK'
  BY <1>0, <1>1 DEF IInv, TypeOK, Active, Out!TypeOK, Out!InProgress, Out!Returned,
     Receive, Goto, reqVars, shutdownVars, metricVars, outVars
<1>2. ASSUME NEW r \in Requests, ReadBody(r) PROVE TypeOK'
  BY <1>0, <1>2 DEF IInv, TypeOK, Active, Out!TypeOK, Out!InProgress, Out!Returned,
     ReadBody, Goto, reqVars, shutdownVars, metricVars, outVars
<1>3. ASSUME NEW r \in Requests, ReadBodyFails(r) PROVE TypeOK'
  BY <1>0, <1>3 DEF IInv, TypeOK, Active, Out!TypeOK, Out!InProgress, Out!Returned,
     ReadBodyFails, Goto, Fail, CtxOfRequest, Out!Cancel, reqVars, shutdownVars,
     metricVars, outVars
<1>4. ASSUME NEW r \in Requests, Process(r) PROVE TypeOK'
  BY <1>0, <1>4 DEF IInv, TypeOK, Active, Out!TypeOK, Out!InProgress, Out!Returned,
     Process, Goto, reqVars, shutdownVars, metricVars, outVars
<1>5. ASSUME NEW r \in Requests, ProcessFails(r) PROVE TypeOK'
  BY <1>0, <1>5 DEF IInv, TypeOK, Active, Out!TypeOK, Out!InProgress, Out!Returned,
     ProcessFails, Goto, Fail, CtxOfRequest, Out!Cancel, reqVars, shutdownVars,
     metricVars, outVars
<1>6. ASSUME NEW r \in Requests, ForwardToGuaranteed(r) PROVE TypeOK'
  BY <1>0, <1>6 DEF IInv, TypeOK, Active, Out!TypeOK, Out!InProgress, Out!Returned,
     ForwardToGuaranteed, Goto, reqVars, shutdownVars, metricVars, outVars
<1>7. ASSUME NEW r \in Requests, ForwardFails(r) PROVE TypeOK'
  BY <1>0, <1>7 DEF IInv, TypeOK, Active, Out!TypeOK, Out!InProgress, Out!Returned,
     ForwardFails, Goto, Fail, CtxOfRequest, Out!Cancel, Joined, reqVars,
     shutdownVars, metricVars, outVars
<1>8. ASSUME NEW r \in Requests, StartBestEffort(r) PROVE TypeOK'
  BY <1>0, <1>8 DEF IInv, TypeOK, Active, Out!TypeOK, Out!InProgress, Out!Returned,
     StartBestEffort, Goto, Joined, reqVars, shutdownVars, metricVars, outVars
<1>9. ASSUME NEW r \in Requests, Answer(r) PROVE TypeOK'
  BY <1>0, <1>9 DEF IInv, TypeOK, Active, Out!TypeOK, Out!InProgress, Out!Returned,
     Answer, Goto, CtxOfRequest, Out!Cancel, reqVars, shutdownVars, metricVars,
     outVars
<1>10. ASSUME NEW r \in Requests, ClientDisconnect(r) PROVE TypeOK'
  BY <1>0, <1>10 DEF IInv, TypeOK, Active, Out!TypeOK, Out!InProgress,
     Out!Returned, ClientDisconnect, Goto, CtxOfRequest, Out!Cancel, reqVars,
     shutdownVars, metricVars, outVars
<1>11. ASSUME NEW r \in Requests, FinishBestEffort(r) PROVE TypeOK'
  BY <1>0, <1>11 DEF IInv, TypeOK, Active, Out!TypeOK, Out!InProgress,
     Out!Returned, FinishBestEffort, Goto, reqVars, shutdownVars, metricVars,
     outVars
<1>12. ASSUME NEW r \in Requests, NEW g \in Guaranteed, SendGuaranteed(r, g) PROVE TypeOK'
  BY <1>0, <1>12 DEF IInv, TypeOK, Active, Out!TypeOK, Out!InProgress,
     Out!Returned, SendGuaranteed, Out!Call, Out!Move, reqVars, shutdownVars,
     metricVars, outVars
<1>13. ASSUME NEW r \in Requests, NEW g \in Guaranteed, GuaranteedSucceeded(r, g) PROVE TypeOK'
  BY <1>0, <1>13 DEF IInv, TypeOK, Active, Out!TypeOK, Out!InProgress,
     Out!Returned, GuaranteedSucceeded, reqVars, shutdownVars, metricVars, outVars
<1>14. ASSUME NEW r \in Requests, NEW g \in Guaranteed, GuaranteedFailed(r, g) PROVE TypeOK'
  BY <1>0, <1>14 DEF IInv, TypeOK, Active, Out!TypeOK, Out!InProgress,
     Out!Returned, GuaranteedFailed, reqVars, shutdownVars, metricVars, outVars
<1>15. ASSUME NEW r \in Requests, NEW b \in BestEffort, SendBestEffort(r, b) PROVE TypeOK'
  BY <1>0, <1>15 DEF IInv, TypeOK, Active, Out!TypeOK, Out!InProgress,
     Out!Returned, SendBestEffort, Out!Call, Out!Move, reqVars, shutdownVars,
     metricVars, outVars
<1>16. ASSUME NEW r \in Requests, NEW b \in BestEffort, BestEffortReturned(r, b) PROVE TypeOK'
  BY <1>0, <1>16 DEF IInv, TypeOK, Active, Out!TypeOK, Out!InProgress,
     Out!Returned, BestEffortReturned, reqVars, shutdownVars, metricVars, outVars
<1>17. ASSUME NEW r \in Requests, NEW o \in Outputs, OutputAction(Out!Try(<<r, o>>))
      PROVE  TypeOK'
  BY <1>0, <1>17 DEF IInv, TypeOK, Active, Out!TypeOK, Out!InProgress,
     Out!Returned, OutputAction, Out!Try, Out!Move, reqVars, shutdownVars,
     metricVars, outVars
<1>18. ASSUME NEW r \in Requests, NEW o \in Outputs, OutputAction(Out!Accept(<<r, o>>))
      PROVE  TypeOK'
  BY <1>0, <1>18 DEF IInv, TypeOK, Active, Out!TypeOK, Out!InProgress,
     Out!Returned, OutputAction, Out!Accept, Out!Move, reqVars, shutdownVars,
     metricVars, outVars
<1>19. ASSUME NEW r \in Requests, NEW o \in Outputs, OutputAction(Out!Pause(<<r, o>>))
      PROVE  TypeOK'
  BY <1>0, <1>19 DEF IInv, TypeOK, Active, Out!TypeOK, Out!InProgress,
     Out!Returned, OutputAction, Out!Pause, Out!Move, reqVars, shutdownVars,
     metricVars, outVars
<1>20. ASSUME NEW r \in Requests, NEW o \in Outputs, OutputAction(Out!ReturnOk(<<r, o>>))
      PROVE  TypeOK'
  BY <1>0, <1>20 DEF IInv, TypeOK, Active, Out!TypeOK, Out!InProgress,
     Out!Returned, OutputAction, Out!ReturnOk, Out!Move, reqVars, shutdownVars,
     metricVars, outVars
<1>21. ASSUME NEW r \in Requests, NEW o \in Outputs, OutputAction(Out!ReturnErr(<<r, o>>))
      PROVE  TypeOK'
  BY <1>0, <1>21 DEF IInv, TypeOK, Active, Out!TypeOK, Out!InProgress,
     Out!Returned, OutputAction, Out!ReturnErr, Out!Move, Out!InProgress, reqVars,
     shutdownVars, metricVars, outVars
<1>22. CASE Shutdown
  BY <1>0, <1>22 DEF IInv, TypeOK, Active, Out!TypeOK, Out!InProgress,
     Out!Returned, Shutdown, reqVars, shutdownVars, metricVars, outVars
<1>23. CASE Wait
  BY <1>0, <1>23 DEF IInv, TypeOK, Active, Out!TypeOK, Out!InProgress,
     Out!Returned, Wait, reqVars, shutdownVars, metricVars, outVars
<1>24. CASE WaitReturns
  BY <1>0, <1>24 DEF IInv, TypeOK, Active, Out!TypeOK, Out!InProgress,
     Out!Returned, WaitReturns, reqVars, shutdownVars, metricVars, outVars
<1>25. CASE ShutdownDone
  BY <1>0, <1>25 DEF IInv, TypeOK, Active, Out!TypeOK, Out!InProgress,
     Out!Returned, ShutdownDone, Return, Out!Cancel, reqVars, shutdownVars,
     metricVars, outVars
<1>26. CASE ShutdownTimeout
  BY <1>0, <1>26 DEF IInv, TypeOK, Active, Out!TypeOK, Out!InProgress,
     Out!Returned, ShutdownTimeout, Return, Out!Cancel, reqVars, shutdownVars,
     metricVars, outVars
<1> QED
  BY <1>1, <1>2, <1>3, <1>4, <1>5, <1>6, <1>7, <1>8, <1>9, <1>10, <1>11, <1>12,
     <1>13, <1>14, <1>15, <1>16, <1>17, <1>18, <1>19, <1>20, <1>21, <1>22, <1>23,
     <1>24, <1>25, <1>26,
     NextCases DEF Cases

\* A call of Send, and a step inside it, keeps DeliveryInv: it has not returned
\* yet, its request is where such a call may be made, and it returns nil only
\* when it has been accepted.
LEMMA SendStepDelivery ==
  ASSUME IInv, NEW r \in Requests, NEW o \in Outputs, NEW to \in {"idle", "trying", "ok", "err"},
         phase[<<r, o>>] \in {"off", "idle", "trying"},
         o \in Guaranteed => req[r] = "forwarding",
         o \in BestEffort => fanOut[r] # "none",
         phase' = [phase EXCEPT ![<<r, o>>] = to],
         to = "ok" => <<r, o>> \in accepted,
         sent' = sent \/ sent' = sent \cup {<<r, o>>},
         UNCHANGED <<accepted, req, errCh, fanOut, settled>>
  PROVE  DeliveryInv'
<1> DEFINE c0 == <<r, o>>
<1> USE HandlerAssumption DEF Outputs
<1>1. \A c \in Requests \X Outputs : phase'[c] = IF c = c0 THEN to ELSE phase[c]
  BY DEF IInv, TypeOK, Out!TypeOK
<1>2. settled \subseteq Requests \X Outputs /\ sent \subseteq Requests \X Outputs
  BY DEF IInv, TypeOK, Out!TypeOK
<1>3. c0 \notin settled
  BY DEF IInv, DeliveryInv
<1>4. \A c \in Requests \X Outputs : phase'[c] = "ok" => c \in accepted
  BY <1>1 DEF IInv, DeliveryInv
<1>5. \A c \in settled : phase'[c] \in {"ok", "err"}
  BY <1>1, <1>2, <1>3 DEF IInv, DeliveryInv
<1>6. \A q \in Requests, g \in Guaranteed :
        <<q, g>> \in settled /\ phase'[<<q, g>>] = "err" => g \in errCh[q]
  BY <1>1, <1>3 DEF IInv, DeliveryInv
<1>7. \A q \in Requests, g \in Guaranteed :
        req[q] \in {"answering", "200"} => phase'[<<q, g>>] = "ok"
  BY <1>1 DEF IInv, DeliveryInv
<1>8. \A q \in Requests, b \in BestEffort : phase'[<<q, b>>] # "off" => fanOut[q] # "none"
  BY <1>1 DEF IInv, DeliveryInv
<1>9. \A q \in Requests, g \in Guaranteed :
        phase'[<<q, g>>] \in {"idle", "trying"} => req[q] = "forwarding"
  BY <1>1 DEF IInv, DeliveryInv
<1>10. \A c \in sent' : phase'[c] # "off"
  BY <1>1, <1>2 DEF IInv, DeliveryInv
<1>11. \A q \in Requests, g \in Guaranteed :
         phase'[<<q, g>>] # "off" => req[q] \notin {"idle", "reading", "processing"}
  BY <1>1 DEF IInv, DeliveryInv
<1>12. accepted \subseteq sent'
  BY DEF IInv, DeliveryInv
<1> QED
  BY <1>4, <1>5, <1>6, <1>7, <1>8, <1>9, <1>10, <1>11, <1>12 DEF IInv, DeliveryInv

\* Every action keeps DeliveryInv.
LEMMA DeliveryPreserved ==
  ASSUME IInv, Next
  PROVE  DeliveryInv'
<1> USE HandlerAssumption DEF Outputs
<1>0. IInv
  OBVIOUS
<1>1. ASSUME NEW r \in Requests, Receive(r) PROVE DeliveryInv'
  BY <1>0, <1>1 DEF IInv, TypeOK, DeliveryInv, Out!TypeOK, Receive, Goto, reqVars,
     shutdownVars, metricVars, outVars
<1>2. ASSUME NEW r \in Requests, ReadBody(r) PROVE DeliveryInv'
  BY <1>0, <1>2 DEF IInv, TypeOK, DeliveryInv, Out!TypeOK, ReadBody, Goto, reqVars,
     shutdownVars, metricVars, outVars
<1>3. ASSUME NEW r \in Requests, ReadBodyFails(r) PROVE DeliveryInv'
  BY <1>0, <1>3 DEF IInv, TypeOK, DeliveryInv, Out!TypeOK, ReadBodyFails, Goto,
     Fail, CtxOfRequest, Out!Cancel, reqVars, shutdownVars, metricVars, outVars
<1>4. ASSUME NEW r \in Requests, Process(r) PROVE DeliveryInv'
  BY <1>0, <1>4 DEF IInv, TypeOK, DeliveryInv, Out!TypeOK, Process, Goto, reqVars,
     shutdownVars, metricVars, outVars
<1>5. ASSUME NEW r \in Requests, ProcessFails(r) PROVE DeliveryInv'
  BY <1>0, <1>5 DEF IInv, TypeOK, DeliveryInv, Out!TypeOK, ProcessFails, Goto,
     Fail, CtxOfRequest, Out!Cancel, reqVars, shutdownVars, metricVars, outVars
<1>6. ASSUME NEW r \in Requests, ForwardToGuaranteed(r) PROVE DeliveryInv'
  BY <1>0, <1>6 DEF IInv, TypeOK, DeliveryInv, Out!TypeOK, ForwardToGuaranteed,
     Goto, reqVars, shutdownVars, metricVars, outVars
<1>7. ASSUME NEW r \in Requests, ForwardFails(r) PROVE DeliveryInv'
  BY <1>0, <1>7 DEF IInv, TypeOK, DeliveryInv, Out!TypeOK, ForwardFails, Goto,
     Fail, CtxOfRequest, Out!Cancel, Joined, reqVars, shutdownVars, metricVars,
     outVars
<1>8. ASSUME NEW r \in Requests, StartBestEffort(r) PROVE DeliveryInv'
  BY <1>0, <1>8 DEF IInv, TypeOK, DeliveryInv, Out!TypeOK, StartBestEffort, Goto,
     Joined, reqVars, shutdownVars, metricVars, outVars
<1>9. ASSUME NEW r \in Requests, Answer(r) PROVE DeliveryInv'
  BY <1>0, <1>9 DEF IInv, TypeOK, DeliveryInv, Out!TypeOK, Answer, Goto,
     CtxOfRequest, Out!Cancel, reqVars, shutdownVars, metricVars, outVars
<1>10. ASSUME NEW r \in Requests, ClientDisconnect(r) PROVE DeliveryInv'
  BY <1>0, <1>10 DEF IInv, TypeOK, DeliveryInv, Out!TypeOK, ClientDisconnect, Goto,
     CtxOfRequest, Out!Cancel, reqVars, shutdownVars, metricVars, outVars
<1>11. ASSUME NEW r \in Requests, FinishBestEffort(r) PROVE DeliveryInv'
  BY <1>0, <1>11 DEF IInv, TypeOK, DeliveryInv, Out!TypeOK, FinishBestEffort, Goto,
     reqVars, shutdownVars, metricVars, outVars
<1>12. ASSUME NEW r \in Requests, NEW g \in Guaranteed, SendGuaranteed(r, g) PROVE DeliveryInv'
  BY <1>0, <1>12, SendStepDelivery DEF SendGuaranteed, Out!Call, Out!Move, reqVars
<1>13. ASSUME NEW r \in Requests, NEW g \in Guaranteed, GuaranteedSucceeded(r, g) PROVE DeliveryInv'
  BY <1>0, <1>13 DEF IInv, TypeOK, DeliveryInv, Out!TypeOK, GuaranteedSucceeded,
     reqVars, shutdownVars, metricVars, outVars
<1>14. ASSUME NEW r \in Requests, NEW g \in Guaranteed, GuaranteedFailed(r, g) PROVE DeliveryInv'
  <2>1. /\ UNCHANGED <<phase, sent, accepted, req, fanOut>>
        /\ settled' = settled \union {<<r, g>>}
        /\ errCh' = [errCh EXCEPT ![r] = @ \union {g}]
        /\ phase[<<r, g>>] \in {"ok", "err"}
    BY <1>14 DEF GuaranteedFailed, outVars
  <2>2. g \in errCh'[r] /\ \A q \in Requests : errCh[q] \subseteq errCh'[q]
    BY <1>0, <2>1 DEF IInv, TypeOK
  <2>3. \A c \in settled' : phase'[c] \in {"ok", "err"}
    BY <1>0, <2>1 DEF IInv, DeliveryInv
  <2>4. \A q \in Requests, h \in Guaranteed :
          <<q, h>> \in settled' /\ phase'[<<q, h>>] = "err" => h \in errCh'[q]
    BY <1>0, <2>1, <2>2 DEF IInv, DeliveryInv
  <2> QED
    BY <1>0, <2>1, <2>3, <2>4 DEF IInv, DeliveryInv
<1>15. ASSUME NEW r \in Requests, NEW b \in BestEffort, SendBestEffort(r, b) PROVE DeliveryInv'
  BY <1>0, <1>15, SendStepDelivery DEF SendBestEffort, Out!Call, Out!Move, reqVars
<1>16. ASSUME NEW r \in Requests, NEW b \in BestEffort, BestEffortReturned(r, b) PROVE DeliveryInv'
  <2>1. /\ UNCHANGED <<phase, sent, accepted, req, errCh, fanOut>>
        /\ settled' = settled \union {<<r, b>>}
        /\ phase[<<r, b>>] \in {"ok", "err"}
    BY <1>16 DEF BestEffortReturned, outVars
  <2> QED
    BY <1>0, <2>1 DEF IInv, DeliveryInv
<1>17. ASSUME NEW r \in Requests, NEW o \in Outputs, OutputAction(Out!Try(<<r, o>>))
      PROVE  DeliveryInv'
  <2>1. phase[<<r, o>>] \in {"idle", "trying"}
    BY <1>17 DEF OutputAction, Out!Try, Out!Move, Out!InProgress
  <2> QED
    BY <1>0, <1>17, <2>1, SendStepDelivery
    DEF IInv, DeliveryInv, OutputAction, Out!Try, Out!Move, Out!InProgress, reqVars
<1>18. ASSUME NEW r \in Requests, NEW o \in Outputs, OutputAction(Out!Accept(<<r, o>>))
      PROVE  DeliveryInv'
  BY <1>0, <1>18 DEF IInv, TypeOK, DeliveryInv, Out!TypeOK, OutputAction,
     Out!Accept, Out!Move, reqVars, shutdownVars, metricVars, outVars
<1>19. ASSUME NEW r \in Requests, NEW o \in Outputs, OutputAction(Out!Pause(<<r, o>>))
      PROVE  DeliveryInv'
  <2>1. phase[<<r, o>>] \in {"idle", "trying"}
    BY <1>19 DEF OutputAction, Out!Pause, Out!Move, Out!InProgress
  <2> QED
    BY <1>0, <1>19, <2>1, SendStepDelivery
    DEF IInv, DeliveryInv, OutputAction, Out!Pause, Out!Move, Out!InProgress, reqVars
<1>20. ASSUME NEW r \in Requests, NEW o \in Outputs, OutputAction(Out!ReturnOk(<<r, o>>))
      PROVE  DeliveryInv'
  <2>1. phase[<<r, o>>] \in {"idle", "trying"}
    BY <1>20 DEF OutputAction, Out!ReturnOk, Out!Move, Out!InProgress
  <2> QED
    BY <1>0, <1>20, <2>1, SendStepDelivery
    DEF IInv, DeliveryInv, OutputAction, Out!ReturnOk, Out!Move, Out!InProgress, reqVars
<1>21. ASSUME NEW r \in Requests, NEW o \in Outputs, OutputAction(Out!ReturnErr(<<r, o>>))
      PROVE  DeliveryInv'
  <2>1. phase[<<r, o>>] \in {"idle", "trying"}
    BY <1>21 DEF OutputAction, Out!ReturnErr, Out!Move, Out!InProgress
  <2> QED
    BY <1>0, <1>21, <2>1, SendStepDelivery
    DEF IInv, DeliveryInv, OutputAction, Out!ReturnErr, Out!Move, Out!InProgress, reqVars
<1>22. CASE Shutdown
  BY <1>0, <1>22 DEF IInv, TypeOK, DeliveryInv, Out!TypeOK, Shutdown, reqVars,
     shutdownVars, metricVars, outVars
<1>23. CASE Wait
  BY <1>0, <1>23 DEF IInv, TypeOK, DeliveryInv, Out!TypeOK, Wait, reqVars,
     shutdownVars, metricVars, outVars
<1>24. CASE WaitReturns
  BY <1>0, <1>24 DEF IInv, TypeOK, DeliveryInv, Out!TypeOK, WaitReturns, reqVars,
     shutdownVars, metricVars, outVars
<1>25. CASE ShutdownDone
  BY <1>0, <1>25 DEF IInv, TypeOK, DeliveryInv, Out!TypeOK, ShutdownDone, Return,
     Out!Cancel, reqVars, shutdownVars, metricVars, outVars
<1>26. CASE ShutdownTimeout
  BY <1>0, <1>26 DEF IInv, TypeOK, DeliveryInv, Out!TypeOK, ShutdownTimeout,
     Return, Out!Cancel, reqVars, shutdownVars, metricVars, outVars
<1> QED
  BY <1>1, <1>2, <1>3, <1>4, <1>5, <1>6, <1>7, <1>8, <1>9, <1>10, <1>11, <1>12,
     <1>13, <1>14, <1>15, <1>16, <1>17, <1>18, <1>19, <1>20, <1>21, <1>22, <1>23,
     <1>24, <1>25, <1>26,
     NextCases DEF Cases

\* Every action keeps DrainInv.
LEMMA DrainPreserved ==
  ASSUME IInv, Next
  PROVE  DrainInv'
<1> USE HandlerAssumption DEF Outputs
<1>0. IInv
  OBVIOUS
<1>1. ASSUME NEW r \in Requests, Receive(r) PROVE DrainInv'
  BY <1>0, <1>1 DEF IInv, TypeOK, DeliveryInv, DrainInv, Receive, Goto, reqVars,
     shutdownVars, metricVars, outVars
<1>2. ASSUME NEW r \in Requests, ReadBody(r) PROVE DrainInv'
  BY <1>0, <1>2 DEF IInv, TypeOK, DeliveryInv, DrainInv, ReadBody, Goto, reqVars,
     shutdownVars, metricVars, outVars
<1>3. ASSUME NEW r \in Requests, ReadBodyFails(r) PROVE DrainInv'
  BY <1>0, <1>3 DEF IInv, TypeOK, DeliveryInv, DrainInv, ReadBodyFails, Goto, Fail,
     CtxOfRequest, Out!Cancel, reqVars, shutdownVars, metricVars, outVars
<1>4. ASSUME NEW r \in Requests, Process(r) PROVE DrainInv'
  BY <1>0, <1>4 DEF IInv, TypeOK, DeliveryInv, DrainInv, Process, Goto, reqVars,
     shutdownVars, metricVars, outVars
<1>5. ASSUME NEW r \in Requests, ProcessFails(r) PROVE DrainInv'
  BY <1>0, <1>5 DEF IInv, TypeOK, DeliveryInv, DrainInv, ProcessFails, Goto, Fail,
     CtxOfRequest, Out!Cancel, reqVars, shutdownVars, metricVars, outVars
<1>6. ASSUME NEW r \in Requests, ForwardToGuaranteed(r) PROVE DrainInv'
  BY <1>0, <1>6 DEF IInv, TypeOK, DeliveryInv, DrainInv, ForwardToGuaranteed, Goto,
     reqVars, shutdownVars, metricVars, outVars
<1>7. ASSUME NEW r \in Requests, ForwardFails(r) PROVE DrainInv'
  BY <1>0, <1>7 DEF IInv, TypeOK, DeliveryInv, DrainInv, ForwardFails, Goto, Fail,
     CtxOfRequest, Out!Cancel, Joined, reqVars, shutdownVars, metricVars, outVars
<1>8. ASSUME NEW r \in Requests, StartBestEffort(r) PROVE DrainInv'
  BY <1>0, <1>8 DEF IInv, TypeOK, DeliveryInv, DrainInv, StartBestEffort, Goto,
     Joined, reqVars, shutdownVars, metricVars, outVars
<1>9. ASSUME NEW r \in Requests, Answer(r) PROVE DrainInv'
  BY <1>0, <1>9 DEF IInv, TypeOK, DeliveryInv, DrainInv, Answer, Goto,
     CtxOfRequest, Out!Cancel, reqVars, shutdownVars, metricVars, outVars
<1>10. ASSUME NEW r \in Requests, ClientDisconnect(r) PROVE DrainInv'
  BY <1>0, <1>10 DEF IInv, TypeOK, DeliveryInv, DrainInv, ClientDisconnect, Goto,
     CtxOfRequest, Out!Cancel, reqVars, shutdownVars, metricVars, outVars
<1>11. ASSUME NEW r \in Requests, FinishBestEffort(r) PROVE DrainInv'
  BY <1>0, <1>11 DEF IInv, TypeOK, DeliveryInv, DrainInv, FinishBestEffort, Goto,
     reqVars, shutdownVars, metricVars, outVars
<1>12. ASSUME NEW r \in Requests, NEW g \in Guaranteed, SendGuaranteed(r, g) PROVE DrainInv'
  BY <1>0, <1>12 DEF IInv, TypeOK, DeliveryInv, DrainInv, SendGuaranteed, Out!Call,
     Out!Move, reqVars, shutdownVars, metricVars, outVars
<1>13. ASSUME NEW r \in Requests, NEW g \in Guaranteed, GuaranteedSucceeded(r, g) PROVE DrainInv'
  BY <1>0, <1>13 DEF IInv, TypeOK, DeliveryInv, DrainInv, GuaranteedSucceeded,
     reqVars, shutdownVars, metricVars, outVars
<1>14. ASSUME NEW r \in Requests, NEW g \in Guaranteed, GuaranteedFailed(r, g) PROVE DrainInv'
  BY <1>0, <1>14 DEF IInv, TypeOK, DeliveryInv, DrainInv, GuaranteedFailed,
     reqVars, shutdownVars, metricVars, outVars
<1>15. ASSUME NEW r \in Requests, NEW b \in BestEffort, SendBestEffort(r, b) PROVE DrainInv'
  BY <1>0, <1>15 DEF IInv, TypeOK, DeliveryInv, DrainInv, SendBestEffort, Out!Call,
     Out!Move, reqVars, shutdownVars, metricVars, outVars
<1>16. ASSUME NEW r \in Requests, NEW b \in BestEffort, BestEffortReturned(r, b) PROVE DrainInv'
  BY <1>0, <1>16 DEF IInv, TypeOK, DeliveryInv, DrainInv, BestEffortReturned,
     reqVars, shutdownVars, metricVars, outVars
<1>17. ASSUME NEW r \in Requests, NEW o \in Outputs, OutputAction(Out!Try(<<r, o>>))
      PROVE  DrainInv'
  BY <1>0, <1>17 DEF IInv, TypeOK, DeliveryInv, DrainInv, OutputAction, Out!Try,
     Out!Move, reqVars, shutdownVars, metricVars, outVars
<1>18. ASSUME NEW r \in Requests, NEW o \in Outputs, OutputAction(Out!Accept(<<r, o>>))
      PROVE  DrainInv'
  BY <1>0, <1>18 DEF IInv, TypeOK, DeliveryInv, DrainInv, OutputAction, Out!Accept,
     Out!Move, reqVars, shutdownVars, metricVars, outVars
<1>19. ASSUME NEW r \in Requests, NEW o \in Outputs, OutputAction(Out!Pause(<<r, o>>))
      PROVE  DrainInv'
  BY <1>0, <1>19 DEF IInv, TypeOK, DeliveryInv, DrainInv, OutputAction, Out!Pause,
     Out!Move, reqVars, shutdownVars, metricVars, outVars
<1>20. ASSUME NEW r \in Requests, NEW o \in Outputs, OutputAction(Out!ReturnOk(<<r, o>>))
      PROVE  DrainInv'
  BY <1>0, <1>20 DEF IInv, TypeOK, DeliveryInv, DrainInv, OutputAction,
     Out!ReturnOk, Out!Move, reqVars, shutdownVars, metricVars, outVars
<1>21. ASSUME NEW r \in Requests, NEW o \in Outputs, OutputAction(Out!ReturnErr(<<r, o>>))
      PROVE  DrainInv'
  BY <1>0, <1>21 DEF IInv, TypeOK, DeliveryInv, DrainInv, OutputAction,
     Out!ReturnErr, Out!Move, Out!InProgress, reqVars, shutdownVars, metricVars,
     outVars
<1>22. CASE Shutdown
  BY <1>0, <1>22 DEF IInv, TypeOK, DeliveryInv, DrainInv, Shutdown, reqVars,
     shutdownVars, metricVars, outVars
<1>23. CASE Wait
  BY <1>0, <1>23 DEF IInv, TypeOK, DeliveryInv, DrainInv, Wait, reqVars,
     shutdownVars, metricVars, outVars
<1>24. CASE WaitReturns
  BY <1>0, <1>24 DEF IInv, TypeOK, DeliveryInv, DrainInv, WaitReturns, reqVars,
     shutdownVars, metricVars, outVars
<1>25. CASE ShutdownDone
  BY <1>0, <1>25 DEF IInv, TypeOK, DeliveryInv, DrainInv, ShutdownDone, Return,
     Out!Cancel, reqVars, shutdownVars, metricVars, outVars
<1>26. CASE ShutdownTimeout
  BY <1>0, <1>26 DEF IInv, TypeOK, DeliveryInv, DrainInv, ShutdownTimeout, Return,
     Out!Cancel, reqVars, shutdownVars, metricVars, outVars
<1> QED
  BY <1>1, <1>2, <1>3, <1>4, <1>5, <1>6, <1>7, <1>8, <1>9, <1>10, <1>11, <1>12,
     <1>13, <1>14, <1>15, <1>16, <1>17, <1>18, <1>19, <1>20, <1>21, <1>22, <1>23,
     <1>24, <1>25, <1>26,
     NextCases DEF Cases

\* Every action keeps OnlyShutdownInterrupts.
LEMMA InterruptsPreserved ==
  ASSUME IInv, Next
  PROVE  OnlyShutdownInterrupts'
<1> USE HandlerAssumption DEF Outputs
<1>0. IInv
  OBVIOUS
<1>1. ASSUME NEW r \in Requests, Receive(r) PROVE OnlyShutdownInterrupts'
  BY <1>0, <1>1 DEF IInv, TypeOK, DrainInv, OnlyShutdownInterrupts, Receive, Goto,
     reqVars, shutdownVars, metricVars, outVars
<1>2. ASSUME NEW r \in Requests, ReadBody(r) PROVE OnlyShutdownInterrupts'
  BY <1>0, <1>2 DEF IInv, TypeOK, DrainInv, OnlyShutdownInterrupts, ReadBody, Goto,
     reqVars, shutdownVars, metricVars, outVars
<1>3. ASSUME NEW r \in Requests, ReadBodyFails(r) PROVE OnlyShutdownInterrupts'
  BY <1>0, <1>3 DEF IInv, TypeOK, DrainInv, OnlyShutdownInterrupts, ReadBodyFails,
     Goto, Fail, CtxOfRequest, Out!Cancel, reqVars, shutdownVars, metricVars,
     outVars
<1>4. ASSUME NEW r \in Requests, Process(r) PROVE OnlyShutdownInterrupts'
  BY <1>0, <1>4 DEF IInv, TypeOK, DrainInv, OnlyShutdownInterrupts, Process, Goto,
     reqVars, shutdownVars, metricVars, outVars
<1>5. ASSUME NEW r \in Requests, ProcessFails(r) PROVE OnlyShutdownInterrupts'
  BY <1>0, <1>5 DEF IInv, TypeOK, DrainInv, OnlyShutdownInterrupts, ProcessFails,
     Goto, Fail, CtxOfRequest, Out!Cancel, reqVars, shutdownVars, metricVars,
     outVars
<1>6. ASSUME NEW r \in Requests, ForwardToGuaranteed(r) PROVE OnlyShutdownInterrupts'
  BY <1>0, <1>6 DEF IInv, TypeOK, DrainInv, OnlyShutdownInterrupts,
     ForwardToGuaranteed, Goto, reqVars, shutdownVars, metricVars, outVars
<1>7. ASSUME NEW r \in Requests, ForwardFails(r) PROVE OnlyShutdownInterrupts'
  BY <1>0, <1>7 DEF IInv, TypeOK, DrainInv, OnlyShutdownInterrupts, ForwardFails,
     Goto, Fail, CtxOfRequest, Out!Cancel, Joined, reqVars, shutdownVars,
     metricVars, outVars
<1>8. ASSUME NEW r \in Requests, StartBestEffort(r) PROVE OnlyShutdownInterrupts'
  BY <1>0, <1>8 DEF IInv, TypeOK, DrainInv, OnlyShutdownInterrupts,
     StartBestEffort, Goto, Joined, reqVars, shutdownVars, metricVars, outVars
<1>9. ASSUME NEW r \in Requests, Answer(r) PROVE OnlyShutdownInterrupts'
  BY <1>0, <1>9 DEF IInv, TypeOK, DrainInv, OnlyShutdownInterrupts, Answer, Goto,
     CtxOfRequest, Out!Cancel, reqVars, shutdownVars, metricVars, outVars
<1>10. ASSUME NEW r \in Requests, ClientDisconnect(r) PROVE OnlyShutdownInterrupts'
  BY <1>0, <1>10 DEF IInv, TypeOK, DrainInv, OnlyShutdownInterrupts,
     ClientDisconnect, Goto, CtxOfRequest, Out!Cancel, reqVars, shutdownVars,
     metricVars, outVars
<1>11. ASSUME NEW r \in Requests, FinishBestEffort(r) PROVE OnlyShutdownInterrupts'
  BY <1>0, <1>11 DEF IInv, TypeOK, DrainInv, OnlyShutdownInterrupts,
     FinishBestEffort, Goto, reqVars, shutdownVars, metricVars, outVars
<1>12. ASSUME NEW r \in Requests, NEW g \in Guaranteed, SendGuaranteed(r, g) PROVE OnlyShutdownInterrupts'
  BY <1>0, <1>12 DEF IInv, TypeOK, DrainInv, OnlyShutdownInterrupts,
     SendGuaranteed, Out!Call, Out!Move, reqVars, shutdownVars, metricVars, outVars
<1>13. ASSUME NEW r \in Requests, NEW g \in Guaranteed, GuaranteedSucceeded(r, g) PROVE OnlyShutdownInterrupts'
  BY <1>0, <1>13 DEF IInv, TypeOK, DrainInv, OnlyShutdownInterrupts,
     GuaranteedSucceeded, reqVars, shutdownVars, metricVars, outVars
<1>14. ASSUME NEW r \in Requests, NEW g \in Guaranteed, GuaranteedFailed(r, g) PROVE OnlyShutdownInterrupts'
  BY <1>0, <1>14 DEF IInv, TypeOK, DrainInv, OnlyShutdownInterrupts,
     GuaranteedFailed, reqVars, shutdownVars, metricVars, outVars
<1>15. ASSUME NEW r \in Requests, NEW b \in BestEffort, SendBestEffort(r, b) PROVE OnlyShutdownInterrupts'
  BY <1>0, <1>15 DEF IInv, TypeOK, DrainInv, OnlyShutdownInterrupts,
     SendBestEffort, Out!Call, Out!Move, reqVars, shutdownVars, metricVars, outVars
<1>16. ASSUME NEW r \in Requests, NEW b \in BestEffort, BestEffortReturned(r, b) PROVE OnlyShutdownInterrupts'
  BY <1>0, <1>16 DEF IInv, TypeOK, DrainInv, OnlyShutdownInterrupts,
     BestEffortReturned, reqVars, shutdownVars, metricVars, outVars
<1>17. ASSUME NEW r \in Requests, NEW o \in Outputs, OutputAction(Out!Try(<<r, o>>))
      PROVE  OnlyShutdownInterrupts'
  BY <1>0, <1>17 DEF IInv, TypeOK, DrainInv, OnlyShutdownInterrupts, OutputAction,
     Out!Try, Out!Move, reqVars, shutdownVars, metricVars, outVars
<1>18. ASSUME NEW r \in Requests, NEW o \in Outputs, OutputAction(Out!Accept(<<r, o>>))
      PROVE  OnlyShutdownInterrupts'
  BY <1>0, <1>18 DEF IInv, TypeOK, DrainInv, OnlyShutdownInterrupts, OutputAction,
     Out!Accept, Out!Move, reqVars, shutdownVars, metricVars, outVars
<1>19. ASSUME NEW r \in Requests, NEW o \in Outputs, OutputAction(Out!Pause(<<r, o>>))
      PROVE  OnlyShutdownInterrupts'
  BY <1>0, <1>19 DEF IInv, TypeOK, DrainInv, OnlyShutdownInterrupts, OutputAction,
     Out!Pause, Out!Move, reqVars, shutdownVars, metricVars, outVars
<1>20. ASSUME NEW r \in Requests, NEW o \in Outputs, OutputAction(Out!ReturnOk(<<r, o>>))
      PROVE  OnlyShutdownInterrupts'
  BY <1>0, <1>20 DEF IInv, TypeOK, DrainInv, OnlyShutdownInterrupts, OutputAction,
     Out!ReturnOk, Out!Move, reqVars, shutdownVars, metricVars, outVars
<1>21. ASSUME NEW r \in Requests, NEW o \in Outputs, OutputAction(Out!ReturnErr(<<r, o>>))
      PROVE  OnlyShutdownInterrupts'
  BY <1>0, <1>21 DEF IInv, TypeOK, DrainInv, OnlyShutdownInterrupts, OutputAction,
     Out!ReturnErr, Out!Move, Out!InProgress, reqVars, shutdownVars, metricVars,
     outVars
<1>22. CASE Shutdown
  BY <1>0, <1>22 DEF IInv, TypeOK, DrainInv, OnlyShutdownInterrupts, Shutdown,
     reqVars, shutdownVars, metricVars, outVars
<1>23. CASE Wait
  BY <1>0, <1>23 DEF IInv, TypeOK, DrainInv, OnlyShutdownInterrupts, Wait, reqVars,
     shutdownVars, metricVars, outVars
<1>24. CASE WaitReturns
  BY <1>0, <1>24 DEF IInv, TypeOK, DrainInv, OnlyShutdownInterrupts, WaitReturns,
     reqVars, shutdownVars, metricVars, outVars
<1>25. CASE ShutdownDone
  BY <1>0, <1>25 DEF IInv, TypeOK, DrainInv, OnlyShutdownInterrupts, ShutdownDone,
     Return, Out!Cancel, reqVars, shutdownVars, metricVars, outVars
<1>26. CASE ShutdownTimeout
  BY <1>0, <1>26 DEF IInv, TypeOK, DrainInv, OnlyShutdownInterrupts,
     ShutdownTimeout, Return, Out!Cancel, reqVars, shutdownVars, metricVars,
     outVars
<1> QED
  BY <1>1, <1>2, <1>3, <1>4, <1>5, <1>6, <1>7, <1>8, <1>9, <1>10, <1>11, <1>12,
     <1>13, <1>14, <1>15, <1>16, <1>17, <1>18, <1>19, <1>20, <1>21, <1>22, <1>23,
     <1>24, <1>25, <1>26,
     NextCases DEF Cases

LEMMA NextIInv == IInv /\ [Next]_vars => IInv'
<1> SUFFICES ASSUME IInv, [Next]_vars PROVE IInv'
  OBVIOUS
<1>1. CASE Next
  BY <1>1, TypePreserved, DeliveryPreserved, DrainPreserved, InterruptsPreserved DEF IInv
<1>2. CASE UNCHANGED vars
  BY <1>2 DEF vars, reqVars, shutdownVars, metricVars, outVars, IInv, TypeOK, DeliveryInv,
     DrainInv, OnlyShutdownInterrupts, Out!TypeOK
<1> QED
  BY <1>1, <1>2

\* The inductive invariant holds in every reachable state of the handler.
THEOREM Invariance == Spec => []IInv
BY InitIInv, NextIInv, PTL DEF Spec

\* Type correctness of the model of the handler.
THEOREM TypeCorrect == Spec => []TypeOK
<1>1. IInv => TypeOK
  BY DEF IInv
<1> QED
  BY <1>1, Invariance, PTL

\* An answer 200, and any hand-over to a BestEffort output, comes after every
\* Guaranteed output has accepted the events (handler.go:91-109).
THEOREM AckedMeansDeliveredCorrect == Spec => []AckedMeansDelivered
<1>1. IInv => AckedMeansDelivered
  BY DEF IInv, DeliveryInv, AckedMeansDelivered, Outputs
<1> QED
  BY <1>1, Invariance, PTL

\* A BestEffort send is interrupted by Shutdown alone (handler.go:103-105).
THEOREM OnlyShutdownInterruptsCorrect == Spec => []OnlyShutdownInterrupts
<1>1. IInv => OnlyShutdownInterrupts
  BY DEF IInv
<1> QED
  BY <1>1, Invariance, PTL

\* When Shutdown returns nil, the fan-outs that were in flight at its call
\* have run to their end (handler.go:113-130).
THEOREM ShutdownDrainsCorrect == Spec => []ShutdownDrains
<1>1. IInv => ShutdownDrains
  BY DEF IInv, TypeOK, DeliveryInv, DrainInv, ShutdownDrains
<1> QED
  BY <1>1, Invariance, PTL

-----------------------------------------------------------------------------
(* The counters.                                                           *)

InService == {r \in Requests : req[r] \in Active}
Acked == {r \in Requests : req[r] = "200"}
DeliveredBy(g) == {r \in Requests : <<r, g>> \in settled /\ phase[<<r, g>>] = "ok"}

\* What is received is answered or in service, whatever the number of requests.
ServiceInv ==
  /\ IsFiniteSet(InService)
  /\ received = succeeded + failed + Cardinality(InService)

\* A counter of successes is the number of the requests it stands for.
AckInv == IsFiniteSet(Acked) /\ succeeded = Cardinality(Acked)

DeliveredInv ==
  \A g \in Guaranteed :
    IsFiniteSet(DeliveredBy(g)) /\ outSucceeded[g] = Cardinality(DeliveredBy(g))

\* Past the join the goroutine of every Guaranteed output has ended.
JoinInv ==
  \A r \in Requests, g \in Guaranteed :
    req[r] \in {"answering", "200"} => <<r, g>> \in settled

MetricInv == ServiceInv /\ AckInv /\ DeliveredInv /\ JoinInv

\* Nothing is counted at first.
LEMMA InitMetricInv == Init => MetricInv
<1> SUFFICES ASSUME Init PROVE MetricInv
  OBVIOUS
<1>1. InService = {} /\ Acked = {} /\ \A g \in Guaranteed : DeliveredBy(g) = {}
  BY DEF Init, InService, Acked, DeliveredBy, Active
<1>2. ServiceInv
  BY <1>1, FS_EmptySet DEF ServiceInv, Init
<1>3. AckInv
  BY <1>1, FS_EmptySet DEF AckInv, Init
<1>4. DeliveredInv
  BY <1>1, FS_EmptySet DEF DeliveredInv, Init, Outputs
<1>5. JoinInv
  BY DEF JoinInv, Init
<1> QED
  BY <1>2, <1>3, <1>4, <1>5 DEF MetricInv

\* A request that is received enters service.
LEMMA EnterService ==
  ASSUME IInv, MetricInv, NEW r \in Requests, Goto(r, "idle", "reading"),
         received' = received + 1, UNCHANGED <<succeeded, failed>>
  PROVE  ServiceInv' /\ AckInv'
<1>1. InService' = InService \cup {r} /\ r \notin InService /\ Acked' = Acked
  BY DEF IInv, TypeOK, Goto, InService, Acked, Active
<1>2. IsFiniteSet(InService') /\ Cardinality(InService') = Cardinality(InService) + 1
  BY <1>1, FS_AddElement DEF MetricInv, ServiceInv
<1>3. Cardinality(InService) \in Nat /\ received \in Nat /\ succeeded \in Nat /\ failed \in Nat
  BY FS_CardinalityType DEF MetricInv, ServiceInv, IInv, TypeOK
<1>4. ServiceInv'
  BY <1>2, <1>3 DEF MetricInv, ServiceInv
<1> QED
  BY <1>1, <1>4 DEF MetricInv, AckInv

\* A step of a request in service that does not answer it.
LEMMA StayInService ==
  ASSUME IInv, MetricInv, NEW r \in Requests, NEW from \in Active, NEW to \in Active,
         Goto(r, from, to), UNCHANGED <<received, succeeded, failed>>
  PROVE  ServiceInv' /\ AckInv'
<1>1. InService' = InService /\ Acked' = Acked
  BY DEF IInv, TypeOK, Goto, InService, Acked, Active
<1> QED
  BY <1>1 DEF MetricInv, ServiceInv, AckInv

\* A request leaves service with its answer.
LEMMA LeaveService ==
  ASSUME IInv, MetricInv, NEW r \in Requests, NEW from \in Active, NEW to \in {"200", "500"},
         Goto(r, from, to), UNCHANGED received,
         IF to = "200" THEN succeeded' = succeeded + 1 /\ failed' = failed
                       ELSE failed' = failed + 1 /\ succeeded' = succeeded
  PROVE  ServiceInv' /\ AckInv'
<1>1. InService' = InService \ {r} /\ r \in InService
  BY DEF IInv, TypeOK, Goto, InService, Active
<1>2. IsFiniteSet(InService') /\ Cardinality(InService') = Cardinality(InService) - 1
  BY <1>1, FS_RemoveElement DEF MetricInv, ServiceInv
<1>3. Cardinality(InService) \in Nat /\ received \in Nat /\ succeeded \in Nat /\ failed \in Nat
  BY FS_CardinalityType DEF MetricInv, ServiceInv, IInv, TypeOK
<1>4. succeeded' + failed' = succeeded + failed + 1
  BY <1>3
<1>5. succeeded' \in Nat /\ failed' \in Nat
  BY <1>3
<1>6. ServiceInv'
  BY <1>2, <1>3, <1>4, <1>5 DEF MetricInv, ServiceInv
<1>7. CASE to = "200"
  <2>1. Acked' = Acked \cup {r} /\ r \notin Acked
    BY <1>7 DEF IInv, TypeOK, Goto, Acked, Active
  <2>2. IsFiniteSet(Acked') /\ Cardinality(Acked') = Cardinality(Acked) + 1
    BY <2>1, FS_AddElement DEF MetricInv, AckInv
  <2>3. AckInv'
    BY <1>7, <2>2 DEF MetricInv, AckInv
  <2> QED
    BY <1>6, <2>3
<1>8. CASE to = "500"
  <2>1. Acked' = Acked
    BY <1>8 DEF IInv, TypeOK, Goto, Acked, Active
  <2> QED
    BY <1>6, <1>8, <2>1 DEF MetricInv, AckInv
<1> QED
  BY <1>7, <1>8

\* No counter of requests moves.
LEMMA RequestsRest ==
  ASSUME MetricInv, UNCHANGED <<req, received, succeeded, failed>>
  PROVE  ServiceInv' /\ AckInv'
BY DEF MetricInv, ServiceInv, AckInv, InService, Acked

\* No counter of outputs moves.
LEMMA OutputsRest ==
  ASSUME MetricInv, UNCHANGED <<settled, phase, outSucceeded>>
  PROVE  DeliveredInv'
BY DEF MetricInv, DeliveredInv, DeliveredBy

\* A step of a call in progress: no goroutine that has ended waits for it.
LEMMA CallMoves ==
  ASSUME IInv, MetricInv, NEW c \in Requests \X Outputs, NEW to,
         phase[c] \notin {"ok", "err"}, phase' = [phase EXCEPT ![c] = to],
         UNCHANGED <<settled, outSucceeded>>
  PROVE  DeliveredInv'
<1>1. c \notin settled
  BY DEF IInv, DeliveryInv
<1>2. \A q \in Requests, g \in Guaranteed : <<q, g>> \in settled => phase'[<<q, g>>] = phase[<<q, g>>]
  BY <1>1 DEF IInv, TypeOK, Out!TypeOK, Outputs
<1>3. \A g \in Guaranteed : DeliveredBy(g)' = DeliveredBy(g)
  BY <1>2 DEF DeliveredBy
<1> QED
  BY <1>3 DEF MetricInv, DeliveredInv

\* Every action keeps the counters of requests true.
LEMMA RequestCountersPreserved ==
  ASSUME IInv, MetricInv, Next
  PROVE  ServiceInv' /\ AckInv'
<1>0. IInv /\ MetricInv
  OBVIOUS
<1>1. ASSUME NEW r \in Requests, Receive(r) PROVE ServiceInv' /\ AckInv'
  BY <1>0, <1>1, EnterService DEF Receive
<1>2. ASSUME NEW r \in Requests, ReadBody(r) PROVE ServiceInv' /\ AckInv'
  BY <1>0, <1>2, StayInService DEF ReadBody, metricVars, Active
<1>3. ASSUME NEW r \in Requests, NEW from \in Active, Fail(r, from) PROVE ServiceInv' /\ AckInv'
  BY <1>0, <1>3, LeaveService DEF Fail
<1>4. ASSUME NEW r \in Requests, ReadBodyFails(r) \/ ProcessFails(r) \/ ForwardFails(r)
      PROVE  ServiceInv' /\ AckInv'
  BY <1>3, <1>4 DEF ReadBodyFails, ProcessFails, ForwardFails, Active
<1>5. ASSUME NEW r \in Requests, ForwardToGuaranteed(r) PROVE ServiceInv' /\ AckInv'
  BY <1>0, <1>5, StayInService DEF ForwardToGuaranteed, metricVars, Active
<1>6. ASSUME NEW r \in Requests, StartBestEffort(r) PROVE ServiceInv' /\ AckInv'
  BY <1>0, <1>6, StayInService DEF StartBestEffort, metricVars, Active
<1>7. ASSUME NEW r \in Requests, Answer(r) PROVE ServiceInv' /\ AckInv'
  BY <1>0, <1>7, LeaveService DEF Answer, Active
<1>8. ASSUME NEW r \in Requests, Process(r) \/ ClientDisconnect(r) \/ FinishBestEffort(r)
      PROVE  ServiceInv' /\ AckInv'
  BY <1>0, <1>8, RequestsRest
  DEF Process, ClientDisconnect, FinishBestEffort, metricVars, reqVars
<1>9. ASSUME NEW r \in Requests, NEW g \in Guaranteed,
             SendGuaranteed(r, g) \/ GuaranteedSucceeded(r, g) \/ GuaranteedFailed(r, g)
      PROVE  ServiceInv' /\ AckInv'
  BY <1>0, <1>9, RequestsRest
  DEF SendGuaranteed, GuaranteedSucceeded, GuaranteedFailed, metricVars, reqVars
<1>10. ASSUME NEW r \in Requests, NEW b \in BestEffort,
              SendBestEffort(r, b) \/ BestEffortReturned(r, b)
       PROVE  ServiceInv' /\ AckInv'
  BY <1>0, <1>10, RequestsRest DEF SendBestEffort, BestEffortReturned, metricVars, reqVars
<1>11. ASSUME UNCHANGED <<reqVars, metricVars>> PROVE ServiceInv' /\ AckInv'
  BY <1>0, <1>11, RequestsRest DEF reqVars, metricVars
<1>12. CASE Shutdown \/ Wait \/ WaitReturns \/ ShutdownDone \/ ShutdownTimeout
  BY <1>11, <1>12 DEF Shutdown, Wait, WaitReturns, ShutdownDone, ShutdownTimeout, Return
<1>13. ASSUME NEW r \in Requests, NEW o \in Outputs,
              \/ OutputAction(Out!Try(<<r, o>>)) \/ OutputAction(Out!Accept(<<r, o>>))
              \/ OutputAction(Out!Pause(<<r, o>>)) \/ OutputAction(Out!ReturnOk(<<r, o>>))
              \/ OutputAction(Out!ReturnErr(<<r, o>>))
       PROVE  ServiceInv' /\ AckInv'
  BY <1>11, <1>13 DEF OutputAction
<1> QED
  BY <1>1, <1>2, <1>4, <1>5, <1>6, <1>7, <1>8, <1>9, <1>10, <1>12, <1>13, NextCases DEF Cases

\* Every action keeps the counters of the Guaranteed outputs true.
LEMMA OutputCountersPreserved ==
  ASSUME IInv, MetricInv, Next
  PROVE  DeliveredInv'
<1>0. IInv /\ MetricInv
  OBVIOUS
<1>1. ASSUME NEW r \in Requests,
             \/ Receive(r) \/ ReadBody(r) \/ ReadBodyFails(r) \/ Process(r) \/ ProcessFails(r)
             \/ ForwardToGuaranteed(r) \/ ForwardFails(r) \/ StartBestEffort(r) \/ Answer(r)
             \/ ClientDisconnect(r) \/ FinishBestEffort(r)
      PROVE  DeliveredInv'
  <2>1. UNCHANGED <<settled, phase, outSucceeded>>
    BY <1>1 DEF Receive, ReadBody, ReadBodyFails, Process, ProcessFails, Fail,
       ForwardToGuaranteed, ForwardFails, StartBestEffort, Answer, ClientDisconnect,
       FinishBestEffort, Out!Cancel, reqVars, metricVars, outVars
  <2> QED
    BY <1>0, <2>1, OutputsRest
<1>2. ASSUME NEW r \in Requests, NEW o \in Outputs, NEW from, NEW to,
             Out!Move(<<r, o>>, from, to), from \cap {"ok", "err"} = {},
             UNCHANGED <<settled, outSucceeded>>
      PROVE  DeliveredInv'
  BY <1>0, <1>2, CallMoves DEF Out!Move
<1>3. ASSUME NEW r \in Requests, NEW g \in Guaranteed, SendGuaranteed(r, g) PROVE DeliveredInv'
  BY <1>2, <1>3 DEF SendGuaranteed, Out!Call, Outputs, reqVars, metricVars
<1>4. ASSUME NEW r \in Requests, NEW g \in Guaranteed, GuaranteedSucceeded(r, g)
      PROVE  DeliveredInv'
  <2>1. r \notin DeliveredBy(g) /\ DeliveredBy(g)' = DeliveredBy(g) \cup {r}
    BY <1>4 DEF GuaranteedSucceeded, DeliveredBy, outVars
  <2>2. outSucceeded'[g] = outSucceeded[g] + 1
    BY <1>0, <1>4 DEF GuaranteedSucceeded, IInv, TypeOK, Outputs
  <2>3. IsFiniteSet(DeliveredBy(g)') /\ outSucceeded'[g] = Cardinality(DeliveredBy(g)')
    BY <1>0, <2>1, <2>2, FS_AddElement DEF MetricInv, DeliveredInv
  <2>4. ASSUME NEW h \in Guaranteed, h # g
        PROVE  DeliveredBy(h)' = DeliveredBy(h) /\ outSucceeded'[h] = outSucceeded[h]
    BY <1>0, <1>4, <2>4 DEF GuaranteedSucceeded, DeliveredBy, outVars, IInv, TypeOK, Outputs
  <2> QED
    BY <1>0, <2>3, <2>4 DEF MetricInv, DeliveredInv
<1>5. ASSUME NEW r \in Requests, NEW g \in Guaranteed, GuaranteedFailed(r, g)
      PROVE  DeliveredInv'
  <2>1. /\ phase[<<r, g>>] = "err" /\ settled' = settled \cup {<<r, g>>}
        /\ UNCHANGED <<phase, outSucceeded>>
    BY <1>5 DEF GuaranteedFailed, outVars
  <2>2. \A h \in Guaranteed : DeliveredBy(h)' = DeliveredBy(h)
    BY <2>1 DEF DeliveredBy
  <2> QED
    BY <1>0, <2>1, <2>2 DEF MetricInv, DeliveredInv
<1>6. ASSUME NEW r \in Requests, NEW b \in BestEffort, SendBestEffort(r, b) PROVE DeliveredInv'
  BY <1>2, <1>6 DEF SendBestEffort, Out!Call, Outputs, reqVars, metricVars
<1>7. ASSUME NEW r \in Requests, NEW b \in BestEffort, BestEffortReturned(r, b)
      PROVE  DeliveredInv'
  <2>1. /\ settled' = settled \cup {<<r, b>>} /\ UNCHANGED phase
        /\ outSucceeded' = outSucceeded
           \/ outSucceeded' = [outSucceeded EXCEPT ![b] = @ + 1]
    BY <1>7 DEF BestEffortReturned, outVars
  <2>2. \A g \in Guaranteed : g # b
    BY HandlerAssumption
  <2>3. \A g \in Guaranteed : DeliveredBy(g)' = DeliveredBy(g)
    BY <2>1, <2>2 DEF DeliveredBy
  <2>4. \A g \in Guaranteed : outSucceeded'[g] = outSucceeded[g]
    BY <1>0, <2>1, <2>2 DEF IInv, TypeOK, Outputs
  <2> QED
    BY <1>0, <2>3, <2>4 DEF MetricInv, DeliveredInv
<1>8. ASSUME NEW r \in Requests, NEW o \in Outputs,
             \/ OutputAction(Out!Try(<<r, o>>)) \/ OutputAction(Out!Pause(<<r, o>>))
             \/ OutputAction(Out!ReturnOk(<<r, o>>)) \/ OutputAction(Out!ReturnErr(<<r, o>>))
      PROVE  DeliveredInv'
  <2>1. UNCHANGED <<settled, outSucceeded>>
    BY <1>8 DEF OutputAction, reqVars, metricVars
  <2> QED
    BY <1>2, <1>8, <2>1
    DEF OutputAction, Out!Try, Out!Pause, Out!ReturnOk, Out!ReturnErr, Out!InProgress
<1>9. ASSUME NEW r \in Requests, NEW o \in Outputs, OutputAction(Out!Accept(<<r, o>>))
      PROVE  DeliveredInv'
  BY <1>0, <1>9, OutputsRest DEF OutputAction, Out!Accept, reqVars, metricVars
<1>10. CASE Shutdown \/ Wait \/ WaitReturns \/ ShutdownDone \/ ShutdownTimeout
  <2>1. UNCHANGED <<settled, phase, outSucceeded>>
    BY <1>10 DEF Shutdown, Wait, WaitReturns, ShutdownDone, ShutdownTimeout, Return,
       Out!Cancel, reqVars, metricVars, outVars
  <2> QED
    BY <1>0, <2>1, OutputsRest
<1> QED
  BY <1>1, <1>3, <1>4, <1>5, <1>6, <1>7, <1>8, <1>9, <1>10, NextCases DEF Cases

\* Every action keeps JoinInv: goroutines do not come back, and only the join
\* lets a request go on to its answer.
LEMMA JoinPreserved ==
  ASSUME IInv, MetricInv, Next
  PROVE  JoinInv'
<1>1. settled \subseteq settled'
  BY NextCases DEF Cases, Receive, ReadBody, ReadBodyFails, Process, ProcessFails, Fail,
     ForwardToGuaranteed, ForwardFails, StartBestEffort, Answer, ClientDisconnect,
     FinishBestEffort, SendGuaranteed, GuaranteedSucceeded, GuaranteedFailed, SendBestEffort,
     BestEffortReturned, OutputAction, Shutdown, Wait, WaitReturns, ShutdownDone,
     ShutdownTimeout, Return, reqVars
<1>2. ASSUME NEW q \in Requests, req'[q] \in {"answering", "200"}
      PROVE  req[q] \in {"answering", "200"} \/ Joined(q)
  BY <1>2, NextCases DEF Cases, Receive, ReadBody, ReadBodyFails, Process, ProcessFails, Fail,
     ForwardToGuaranteed, ForwardFails, StartBestEffort, Answer, ClientDisconnect,
     FinishBestEffort, SendGuaranteed, GuaranteedSucceeded, GuaranteedFailed, SendBestEffort,
     BestEffortReturned, OutputAction, Shutdown, Wait, WaitReturns, ShutdownDone,
     ShutdownTimeout, Return, reqVars, Goto, IInv, TypeOK
<1>3. ASSUME NEW q \in Requests, NEW g \in Guaranteed, req'[q] \in {"answering", "200"}
      PROVE  <<q, g>> \in settled
  BY <1>2, <1>3 DEF MetricInv, JoinInv, Joined
<1> QED
  BY <1>1, <1>3 DEF JoinInv

\* The counters tell the truth in every state a scrape may see, for every
\* number of requests and outputs (handler.go:62-110, 151-178).
THEOREM MetricsAddUpCorrect == Spec => []MetricsAddUp
<1>1. IInv /\ MetricInv /\ [Next]_vars => MetricInv'
  <2> SUFFICES ASSUME IInv, MetricInv, [Next]_vars PROVE MetricInv'
    OBVIOUS
  <2>1. CASE Next
    BY <2>1, RequestCountersPreserved, OutputCountersPreserved, JoinPreserved DEF MetricInv
  <2>2. CASE UNCHANGED vars
    <3>1. ServiceInv' /\ AckInv'
      BY <2>2, RequestsRest DEF vars, reqVars, metricVars
    <3>2. DeliveredInv'
      BY <2>2, OutputsRest DEF vars, reqVars, metricVars, outVars
    <3>3. JoinInv'
      BY <2>2 DEF vars, reqVars, MetricInv, JoinInv
    <3> QED
      BY <3>1, <3>2, <3>3 DEF MetricInv
  <2> QED
    BY <2>1, <2>2
<1>2. IInv /\ MetricInv => MetricsAddUp
  <2> SUFFICES ASSUME IInv, MetricInv, NEW g \in Guaranteed
               PROVE  succeeded <= outSucceeded[g]
    BY DEF MetricsAddUp, MetricInv, ServiceInv, InService
  <2>1. Acked \subseteq DeliveredBy(g)
    BY DEF Acked, DeliveredBy, MetricInv, JoinInv, IInv, DeliveryInv
  <2>2. Cardinality(Acked) <= Cardinality(DeliveredBy(g))
    BY <2>1, FS_Subset DEF MetricInv, DeliveredInv
  <2> QED
    BY <2>2 DEF MetricInv, AckInv, DeliveredInv
<1> QED
  BY <1>1, <1>2, InitMetricInv, Invariance, PTL DEF Spec

-----------------------------------------------------------------------------
(* AuditHandler implements Forwarding.                                     *)

\* A step that moves request r, from one status to another or within one, and
\* accepts nothing.
LEMMA StatusStep ==
  ASSUME TypeOK, NEW r \in Requests, NEW v, req' = [req EXCEPT ![r] = v]
  PROVE  [q \in Requests |-> Status(q)]' =
           [[q \in Requests |-> Status(q)] EXCEPT ![r] = Status(r)']
BY DEF TypeOK, Status

\* A rejected request has reached no BestEffort output.
LEMMA FailRejects ==
  ASSUME IInv, NEW r \in Requests, NEW from \in {"reading", "processing", "forwarding"},
         Fail(r, from)
  PROVE  Abstract!Reject(r)
<1>1. Status(r) = "pending" /\ Status(r)' = "rejected" /\ UNCHANGED accepted
  BY DEF Fail, Goto, Out!Cancel, Status, IInv, TypeOK
<1>2. \A b \in BestEffort : <<r, b>> \notin accepted
  BY DEF Fail, Goto, IInv, DeliveryInv
<1>3. [q \in Requests |-> Status(q)]' =
        [[q \in Requests |-> Status(q)] EXCEPT ![r] = "rejected"]
  BY <1>1, StatusStep DEF Fail, Goto, IInv
<1> QED
  BY <1>1, <1>2, <1>3 DEF Abstract!Reject, Abstract!SetStatus

\* The backend of an output accepts the events of a request, in time or late.
LEMMA AcceptDelivers ==
  ASSUME IInv, NEW r \in Requests, NEW o \in Outputs, OutputAction(Out!Accept(<<r, o>>))
  PROVE  Abstract!Next
<1> DEFINE status == [q \in Requests |-> Status(q)]
<1>1. accepted' = accepted \union {<<r, o>>} /\ status' = status /\ phase[<<r, o>>] # "off"
  BY DEF OutputAction, Out!Accept, reqVars, Status, IInv, DeliveryInv
<1>2. CASE o \in Guaranteed
  <2>1. Status(r) # "new"
    BY <1>1, <1>2 DEF IInv, DeliveryInv, Status
  <2> QED
    BY <1>1, <1>2, <2>1 DEF Abstract!Next, Abstract!DeliverGuaranteed
<1>3. CASE o \in BestEffort
  <2>1. req[r] \in {"answering", "200"}
    BY <1>1, <1>3 DEF IInv, DeliveryInv
  <2>2. Abstract!Secured(r)
    BY <2>1 DEF IInv, DeliveryInv, Abstract!Secured, Outputs
  <2>3. Status(r) \in {"pending", "acked"}
    BY <2>1 DEF Status
  <2> QED
    BY <1>1, <1>3, <2>2, <2>3 DEF Abstract!Next, Abstract!DeliverBestEffort
<1> QED
  BY <1>2, <1>3 DEF Outputs

\* What the mapping of AuditHandler to Forwarding looks at.
mapped == <<req, accepted>>

\* The steps of ServeHTTP between two statuses of its request leave its status
\* as it is.
LEMMA ActiveInvisible ==
  ASSUME TypeOK, NEW r \in Requests, NEW from \in Active, NEW to \in Active,
         Goto(r, from, to), UNCHANGED accepted
  PROVE  UNCHANGED Abstract!vars
<1>1. Status(r)' = Status(r)
  BY DEF TypeOK, Goto, Active, Status
<1> QED
  BY <1>1, StatusStep DEF Goto, Abstract!vars

\* Steps that change neither a request nor what was accepted are invisible.
LEMMA Invisible ==
  ASSUME UNCHANGED mapped
  PROVE  UNCHANGED Abstract!vars
BY DEF mapped, Abstract!vars, Status

\* Every step of the handler is a step of Forwarding or changes nothing there.
LEMMA StepSimulation ==
  ASSUME IInv, Next
  PROVE  [Abstract!Next]_(Abstract!vars)
<1> DEFINE status == [q \in Requests |-> Status(q)]
<1>0. IInv /\ TypeOK
  BY DEF IInv
<1>1. ASSUME NEW r \in Requests, Receive(r) PROVE Abstract!Next
  <2>1. Status(r) = "new" /\ Status(r)' = "pending" /\ UNCHANGED accepted
    BY <1>0, <1>1 DEF Receive, Goto, Status, TypeOK, outVars
  <2>2. status' = [status EXCEPT ![r] = "pending"]
    BY <1>0, <1>1, <2>1, StatusStep DEF Receive, Goto
  <2> QED
    BY <2>1, <2>2 DEF Abstract!Next, Abstract!Receive, Abstract!SetStatus
<1>2. ASSUME NEW r \in Requests, Answer(r) PROVE Abstract!Next
  <2>1. Status(r) = "pending" /\ Status(r)' = "acked" /\ UNCHANGED accepted
    BY <1>0, <1>2 DEF Answer, Goto, Status, TypeOK, Out!Cancel
  <2>2. status' = [status EXCEPT ![r] = "acked"]
    BY <1>0, <1>2, <2>1, StatusStep DEF Answer, Goto
  <2>3. Abstract!Secured(r)
    BY <1>0, <1>2 DEF IInv, DeliveryInv, Answer, Goto, Abstract!Secured, Outputs
  <2> QED
    BY <2>1, <2>2, <2>3 DEF Abstract!Next, Abstract!Ack, Abstract!SetStatus
<1>3. ASSUME NEW r \in Requests, ReadBodyFails(r) \/ ProcessFails(r) \/ ForwardFails(r)
      PROVE  Abstract!Next
  BY <1>0, <1>3, FailRejects DEF ReadBodyFails, ProcessFails, ForwardFails, Abstract!Next
<1>4. ASSUME NEW r \in Requests, ReadBody(r) \/ ForwardToGuaranteed(r) \/ StartBestEffort(r)
      PROVE  UNCHANGED Abstract!vars
  BY <1>0, <1>4, ActiveInvisible
     DEF ReadBody, ForwardToGuaranteed, StartBestEffort, Active, outVars
<1>5. ASSUME NEW r \in Requests, NEW o \in Outputs, OutputAction(Out!Accept(<<r, o>>))
      PROVE  Abstract!Next
  BY <1>0, <1>5, AcceptDelivers
<1>6. ASSUME NEW r \in Requests, Process(r) \/ ClientDisconnect(r) \/ FinishBestEffort(r)
      PROVE  UNCHANGED mapped
  BY <1>6 DEF Process, ClientDisconnect, FinishBestEffort, mapped, outVars, reqVars, Out!Cancel
<1>7. ASSUME NEW r \in Requests, NEW g \in Guaranteed,
             SendGuaranteed(r, g) \/ GuaranteedSucceeded(r, g) \/ GuaranteedFailed(r, g)
      PROVE  UNCHANGED mapped
  BY <1>7 DEF SendGuaranteed, GuaranteedSucceeded, GuaranteedFailed, mapped, outVars, reqVars,
     Out!Call
<1>8. ASSUME NEW r \in Requests, NEW b \in BestEffort,
             SendBestEffort(r, b) \/ BestEffortReturned(r, b)
      PROVE  UNCHANGED mapped
  BY <1>8 DEF SendBestEffort, BestEffortReturned, mapped, outVars, reqVars, Out!Call
<1>9. ASSUME NEW r \in Requests, NEW o \in Outputs,
             \/ OutputAction(Out!Try(<<r, o>>)) \/ OutputAction(Out!Pause(<<r, o>>))
             \/ OutputAction(Out!ReturnOk(<<r, o>>)) \/ OutputAction(Out!ReturnErr(<<r, o>>))
      PROVE  UNCHANGED mapped
  BY <1>9 DEF OutputAction, Out!Try, Out!Pause, Out!ReturnOk, Out!ReturnErr, mapped, reqVars
<1>10. CASE Shutdown \/ Wait \/ WaitReturns \/ ShutdownDone \/ ShutdownTimeout
  <2>1. UNCHANGED mapped
    BY <1>10 DEF Shutdown, Wait, WaitReturns, ShutdownDone, ShutdownTimeout, Return, mapped,
       outVars, reqVars, Out!Cancel
  <2> QED
    BY <2>1, Invisible
<1> QED
  BY <1>1, <1>2, <1>3, <1>4, <1>5, <1>6, <1>7, <1>8, <1>9, <1>10, Invisible, NextCases DEF Cases

\* The handler implements Forwarding: what a client is told of its request
\* agrees with where its events are (handler.go:91-111).
THEOREM ImplementsForwardingCorrect == Spec => ImplementsForwarding
<1>1. Init => Abstract!Init
  BY DEF Init, Abstract!Init, Status, Out!Init
<1>2. IInv /\ [Next]_vars => [Abstract!Next]_(Abstract!vars)
  <2>1. CASE UNCHANGED vars
    BY <2>1, Invisible DEF vars, reqVars, outVars, mapped
  <2> QED
    BY <2>1, StepSimulation
<1> QED
  BY <1>1, <1>2, Invariance, PTL DEF Spec, ImplementsForwarding, Abstract!Spec
=============================================================================
