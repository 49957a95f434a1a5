---------------------------- MODULE PipelineProofs ----------------------------
(***************************************************************************)
(* Proofs about Pipeline, for every set of configuration files, of         *)
(* requests and of bodies: what was proved of start-up holds of the whole, *)
(* and every event is forwarded with the annotations of the file.          *)
(***************************************************************************)
EXTENDS Pipeline, StartupProofs

-----------------------------------------------------------------------------
(* Start-up within the pipeline.                                           *)

\* The pipeline implements the specification of start-up: a request that is
\* processed is a stuttering step of it.
THEOREM ImplementsStartup == PipelineSpec => Spec
<1>1. PipelineInit => Init
  BY DEF PipelineInit
<1>2. [PipelineNext]_pipelineVars => [Next]_vars
  BY DEF PipelineNext, pipelineVars, Run, Serve, Next
<1> QED
  BY <1>1, <1>2, PTL DEF PipelineSpec, Spec

\* What start-up guarantees (app.go, options.go, factory.go, validation.go) it
\* still guarantees while requests are processed.
THEOREM StartupWithinPipeline ==
  PipelineSpec => [](/\ NothingLeaks /\ OutputsAsConfigured /\ DocumentedIsAccepted
                     /\ AcceptedIsUsable /\ ValidatedIsUsed)
BY ImplementsStartup, NothingLeaksCorrect, OutputsAsConfiguredCorrect,
   DocumentedIsAcceptedCorrect, AcceptedIsUsableCorrect, ValidatedIsUsedCorrect, PTL

-----------------------------------------------------------------------------
(* Lists of events.                                                        *)

\* s is a sequence, whatever its elements are.
IsList(s) == Len(s) \in Nat /\ s = [n \in 1..Len(s) |-> s[n]]

\* A sequence is a list.
LEMMA SeqIsList ==
  ASSUME NEW S, NEW s \in Seq(S)
  PROVE  IsList(s)
BY LenProperties DEF IsList

\* A function on 1..n is a list of n elements.
LEMMA FunctionIsList ==
  ASSUME NEW n \in Nat, NEW s, s = [k \in 1..n |-> s[k]]
  PROVE  IsList(s) /\ Len(s) = n
<1>1. s \in [1..n -> {s[k] : k \in 1..n}]
  OBVIOUS
<1>2. Len(s) = n
  BY <1>1, FunctionIsSeq
<1> QED
  BY <1>2 DEF IsList

\* So is a list in which one element was replaced.
LEMMA ExceptIsList ==
  ASSUME NEW s, IsList(s), NEW m \in 1..Len(s), NEW e
  PROVE  LET t == [s EXCEPT ![m] = e] IN
         /\ IsList(t) /\ Len(t) = Len(s)
         /\ \A n \in 1..Len(s) : t[n] = IF n = m THEN e ELSE s[n]
<1> DEFINE t == [s EXCEPT ![m] = e]
<1>1. Len(s) \in Nat /\ s = [n \in 1..Len(s) |-> s[n]]
  BY DEF IsList
<1>2. t = [n \in 1..Len(s) |-> t[n]]
  BY <1>1
<1>3. \A n \in 1..Len(s) : t[n] = IF n = m THEN e ELSE s[n]
  BY <1>1
<1>4. IsList(t) /\ Len(t) = Len(s)
  BY <1>1, <1>2, FunctionIsList
<1> QED
  BY <1>3, <1>4

-----------------------------------------------------------------------------
(* The injector.                                                           *)

\* The event e with the annotations as of the configuration file.
Annotated(as, e) == Injector!Insert(IF e = Nil THEN Injector!Empty ELSE e, as)

\* Of a request in state st with body d: its list of events its, of which the
\* ones before k have been annotated, and the data res that is forwarded.
RequestInv(as, st, d, its, k, res) ==
  /\ IsList(d.items) /\ IsList(its) /\ Len(its) = Len(d.items)
  /\ k \in 1..Len(its) + 1
  /\ st = "off" => k = 1
  /\ st = "injecting" =>
       /\ d.kind = "EventList"
       /\ \A n \in 1..Len(its) :
            its[n] = IF n < k THEN Annotated(as, d.items[n]) ELSE d.items[n]
  /\ st = "returned" =>
       /\ d.kind = "EventList" /\ res.kind = "EventList"
       /\ res.items = [n \in 1..Len(d.items) |-> Annotated(as, d.items[n])]
  /\ st = "error" => d.kind # "EventList"

InjectorInv ==
  /\ state \in [Requests -> {"off", "injecting", "returned", "error"}]
  /\ data = [r \in Requests |-> data[r]]
  /\ items = [r \in Requests |-> items[r]]
  /\ i = [r \in Requests |-> i[r]]
  /\ result = [r \in Requests |-> result[r]]
  /\ \A r \in Requests :
       RequestInv(file.annotations, state[r], data[r], items[r], i[r], result[r])
  /\ pc = "serving" /\ processors = 1 =>
       annotations = file.annotations /\ DOMAIN file.annotations # {}

\* InjectorInv holds before the injector exists.
LEMMA InitInjectorInv == PipelineInit => InjectorInv
<1> SUFFICES ASSUME PipelineInit PROVE InjectorInv
  OBVIOUS
<1>1. IsList(<<>>) /\ Len(<<>>) = 0
  BY SeqIsList, EmptySeq
<1>2. RequestInv(file.annotations, "off", Injector!NoData, <<>>, 1, Injector!NoData)
  BY <1>1 DEF RequestInv, Injector!NoData
<1>3. \A r \in Requests :
        RequestInv(file.annotations, state[r], data[r], items[r], i[r], result[r])
  BY <1>2 DEF PipelineInit, Injector!Init
<1> QED
  BY <1>3 DEF PipelineInit, Init, Injector!Init, InjectorInv

\* Nothing changes the file.
LEMMA FileStays == ASSUME Next PROVE file' = file
<1>1. CASE Prepare
  BY <1>1 DEF Prepare, Complete, CompleteFails, Validate, ValidateFails, ApplyServing,
     ApplyServingFails, Skip, New, NewFails, GuaranteedBuilt, BestEffortBuilt,
     ApplyToFails, given
<1>2. CASE NewHandler
  BY <1>2 DEF NewHandler, given
<1> QED
  BY <1>1, <1>2 DEF Next

\* Only NewHandler starts to serve.
LEMMA PrepareServesNothing == ASSUME Prepare PROVE pc' # "serving"
BY DEF Prepare, Complete, CompleteFails, Validate, ValidateFails, ApplyServing,
   ApplyServingFails, Skip, New, NewFails, GuaranteedBuilt, BestEffortBuilt,
   ApplyToFails, Goto, InFactory, FactoryDone

\* A step that changes nothing of the requests.
LEMMA RequestsStay ==
  ASSUME InjectorInv, file' = file, UNCHANGED <<state, data, items, i, result>>,
         (pc = "serving" /\ processors = 1)' =>
           annotations' = file.annotations /\ DOMAIN file.annotations # {}
  PROVE  InjectorInv'
<1>1. \A r \in Requests :
        RequestInv(file'.annotations, state'[r], data'[r], items'[r], i'[r], result'[r])
  BY Zenon DEF InjectorInv
<1> QED
  BY <1>1 DEF InjectorInv

\* A step of one request that leaves the others alone.
Becomes(r, st, d, its, k, res) ==
  /\ state' = [state EXCEPT ![r] = st]
  /\ data' = [data EXCEPT ![r] = d]
  /\ items' = [items EXCEPT ![r] = its]
  /\ i' = [i EXCEPT ![r] = k]
  /\ result' = [result EXCEPT ![r] = res]
  /\ UNCHANGED annotations

\* Such a step keeps InjectorInv if it keeps RequestInv of its request.
LEMMA OneRequest ==
  ASSUME InjectorInv, UNCHANGED vars,
         NEW r \in Requests, NEW st \in {"off", "injecting", "returned", "error"},
         NEW d, NEW its, NEW k, NEW res,
         Becomes(r, st, d, its, k, res),
         RequestInv(file.annotations, st, d, its, k, res)
  PROVE  InjectorInv'
<1> USE DEF Becomes
<1>1. file' = file /\ pc' = pc /\ processors' = processors
  BY DEF vars
<1>2. /\ state' \in [Requests -> {"off", "injecting", "returned", "error"}]
      /\ data' = [q \in Requests |-> data'[q]]
      /\ items' = [q \in Requests |-> items'[q]]
      /\ i' = [q \in Requests |-> i'[q]]
      /\ result' = [q \in Requests |-> result'[q]]
  BY DEF InjectorInv
<1>3. ASSUME NEW q \in Requests
      PROVE  RequestInv(file'.annotations, state'[q], data'[q], items'[q], i'[q], result'[q])
  <2>1. CASE q = r
    <3>1. /\ state'[r] = st /\ data'[r] = d /\ items'[r] = its /\ i'[r] = k
          /\ result'[r] = res
      BY DEF InjectorInv
    <3> QED
      BY <1>1, <2>1, <3>1, Zenon
  <2>2. CASE q # r
    <3>1. /\ state'[q] = state[q] /\ data'[q] = data[q] /\ items'[q] = items[q]
          /\ i'[q] = i[q] /\ result'[q] = result[q]
      BY <2>2 DEF InjectorInv
    <3>2. RequestInv(file.annotations, state[q], data[q], items[q], i[q], result[q])
      BY DEF InjectorInv
    <3> QED
      BY <1>1, <3>1, <3>2, Zenon
  <2> QED
    BY <2>1, <2>2
<1>4. (pc = "serving" /\ processors = 1)' =>
        annotations' = file'.annotations /\ DOMAIN file'.annotations # {}
  BY <1>1 DEF InjectorInv
<1> QED
  BY <1>2, <1>3, <1>4 DEF InjectorInv

\* Process starts with a list of events or refuses the body: there is
\* something to inject.
LEMMA NextProcess ==
  ASSUME InjectorInv, pc = "serving", processors = 1, UNCHANGED vars,
         NEW r \in Requests, NEW body \in Bodies, Injector!Process(r, body)
  PROVE  InjectorInv'
<1>1. annotations # Injector!Empty
  BY DEF InjectorInv, Injector!Empty
<1>2. IsList(body.items)
  BY BodiesAssumption, SeqIsList
<1> DEFINE st == IF Injector!Decodes(body) THEN "injecting" ELSE "error"
<1>3. /\ state[r] = "off"
      /\ state' = [state EXCEPT ![r] = st]
      /\ data' = [data EXCEPT ![r] = body]
      /\ items' = [items EXCEPT ![r] = body.items]
      /\ UNCHANGED <<annotations, i, result>>
  BY <1>1 DEF Injector!Process, Injector!Goto
<1>4. i[r] = 1
  BY <1>3 DEF InjectorInv, RequestInv
<1>5. RequestInv(file.annotations, st, body, body.items, i[r], result[r])
  BY <1>2, <1>4 DEF RequestInv, IsList, Injector!Decodes
<1>6. i' = [i EXCEPT ![r] = i[r]] /\ result' = [result EXCEPT ![r] = result[r]]
  BY <1>3 DEF InjectorInv
<1>7. st \in {"off", "injecting", "returned", "error"}
  OBVIOUS
<1> HIDE DEF st
<1>8. Becomes(r, st, body, body.items, i[r], result[r])
  BY <1>3, <1>6 DEF Becomes
<1> QED
  BY <1>5, <1>7, <1>8, OneRequest

\* The loop annotates the event it looks at.
LEMMA NextInjectEvent ==
  ASSUME InjectorInv, pc = "serving", processors = 1, UNCHANGED vars,
         NEW r \in Requests, Injector!InjectEvent(r)
  PROVE  InjectorInv'
<1> DEFINE d == data[r]
           its == items[r]
           k == i[r]
           e == Injector!Insert(Injector!Own(r), annotations)
           new == [its EXCEPT ![k] = e]
<1>1. /\ state[r] = "injecting" /\ k <= Len(its)
      /\ items' = [items EXCEPT ![r] = new]
      /\ i' = [i EXCEPT ![r] = k + 1]
      /\ UNCHANGED <<annotations, state, data, result>>
  BY DEF Injector!InjectEvent, InjectorInv
<1>2. RequestInv(file.annotations, "injecting", d, its, k, result[r])
      /\ annotations = file.annotations
  BY <1>1 DEF InjectorInv
<1>3. Len(its) \in Nat /\ k \in 1..Len(its)
  BY <1>1, <1>2 DEF RequestInv, IsList
<1>4. e = Annotated(file.annotations, d.items[k])
  <2>1. its[k] = d.items[k]
    BY <1>2, <1>3 DEF RequestInv
  <2> QED
    BY <1>2, <2>1 DEF Annotated, Injector!Own
<1>5. /\ IsList(new) /\ Len(new) = Len(its)
      /\ \A n \in 1..Len(its) : new[n] = IF n = k THEN e ELSE its[n]
  <2>1. IsList(its)
    BY <1>2 DEF RequestInv
  <2> HIDE DEF its, k, e
  <2> QED
    BY <1>3, <2>1, ExceptIsList
<1>6. RequestInv(file.annotations, "injecting", d, new, k + 1, result[r])
  <2> HIDE DEF d, its, k, e, new
  <2>1. \A n \in 1..Len(new) :
          new[n] = IF n < k + 1 THEN Annotated(file.annotations, d.items[n]) ELSE d.items[n]
    BY <1>2, <1>3, <1>4, <1>5 DEF RequestInv
  <2>2. k + 1 \in 1..Len(new) + 1
    BY <1>3, <1>5
  <2> QED
    BY <1>2, <1>5, <2>1, <2>2 DEF RequestInv
<1>7. /\ state' = [state EXCEPT ![r] = "injecting"]
      /\ data' = [data EXCEPT ![r] = d]
      /\ result' = [result EXCEPT ![r] = result[r]]
  BY <1>1 DEF InjectorInv
<1> HIDE DEF d, its, k, e, new
<1>8. Becomes(r, "injecting", d, new, k + 1, result[r])
  BY <1>1, <1>7 DEF Becomes
<1> QED
  BY <1>6, <1>8, OneRequest

\* An annotated event has annotations.
LEMMA AnnotatedNotEmpty ==
  ASSUME DOMAIN file.annotations # {}
  PROVE  \A e : Annotated(file.annotations, e) # Injector!Empty
BY DEF Annotated, Injector!Insert, Injector!Empty

\* Process returns the list in which every event was annotated.
LEMMA NextReturn ==
  ASSUME InjectorInv, pc = "serving", processors = 1, UNCHANGED vars,
         NEW r \in Requests, Injector!Return(r)
  PROVE  InjectorInv'
<1> DEFINE d == data[r]
           its == items[r]
           k == i[r]
           res == Injector!EncodeEventList(its)
<1>1. /\ state[r] = "injecting" /\ k > Len(its)
      /\ state' = [state EXCEPT ![r] = "returned"]
      /\ result' = [result EXCEPT ![r] = res]
      /\ UNCHANGED <<annotations, data, items, i>>
  BY DEF Injector!Return, Injector!Goto
<1>2. RequestInv(file.annotations, "injecting", d, its, k, result[r])
      /\ DOMAIN file.annotations # {}
  BY <1>1 DEF InjectorInv
<1>3. RequestInv(file.annotations, "returned", d, its, k, res)
  <2> HIDE DEF d, its, k
  <2>1. /\ IsList(its) /\ IsList(d.items) /\ Len(its) = Len(d.items) /\ d.kind = "EventList"
        /\ Len(its) \in Nat /\ k \in 1..Len(its) + 1
    BY <1>2 DEF RequestInv, IsList
  <2>2. \A n \in 1..Len(its) : n < k
    BY <1>1, <2>1
  <2>3. \A n \in 1..Len(its) : its[n] = Annotated(file.annotations, d.items[n])
    BY <1>2, <2>2 DEF RequestInv
  <2>4. DOMAIN its = 1..Len(its)
    BY <2>1 DEF IsList
  <2>5. res.kind = "EventList" /\
        res.items = [n \in 1..Len(its) |-> IF its[n] = Injector!Empty THEN Nil ELSE its[n]]
    BY <2>4 DEF Injector!EncodeEventList
  <2>6. res.items = [n \in 1..Len(d.items) |-> Annotated(file.annotations, d.items[n])]
    BY <1>2, <2>1, <2>3, <2>5, AnnotatedNotEmpty
  <2> QED
    BY <2>1, <2>5, <2>6 DEF RequestInv
<1>4. /\ data' = [data EXCEPT ![r] = d]
      /\ items' = [items EXCEPT ![r] = its]
      /\ i' = [i EXCEPT ![r] = k]
  BY <1>1 DEF InjectorInv
<1> HIDE DEF d, its, k, res
<1>5. Becomes(r, "returned", d, its, k, res)
  BY <1>1, <1>4 DEF Becomes
<1> QED
  BY <1>3, <1>5, OneRequest

\* The invariant of the pipeline.
PipelineIInv == IInv /\ InjectorInv

\* run hands the annotations of the file to the injector.
LEMMA NextRun ==
  ASSUME IInv, InjectorInv, Run
  PROVE  InjectorInv'
<1>1. file' = file /\ UNCHANGED <<state, data, items, i, result>>
  BY DEF Run, NewHandler, given, Injector!New, injectorVars
<1>2. config.annotations = file.annotations
  <2>1. file \in Config /\ config = SetDefaults(file)
    BY DEF Run, NewHandler, Goto, IInv, InputInv
  <2> QED
    BY <2>1, DefaultAnnotations
<1>3. ASSUME processors' = 1
      PROVE  annotations' = file.annotations /\ DOMAIN file.annotations # {}
  <2>1. annotations' = config.annotations
    BY <1>3 DEF Run, Injector!New
  <2>2. DOMAIN config.annotations # {}
    BY <1>3 DEF Run, NewHandler
  <2> QED
    BY <1>2, <2>1, <2>2
<1> QED
  BY <1>1, <1>3, RequestsStay

\* The invariant is inductive.
LEMMA NextPipelineIInv == PipelineIInv /\ [PipelineNext]_pipelineVars => PipelineIInv'
<1> SUFFICES ASSUME IInv, InjectorInv, [PipelineNext]_pipelineVars PROVE PipelineIInv'
  BY DEF PipelineIInv
<1>1. IInv'
  <2>1. [Next]_vars
    BY DEF PipelineNext, pipelineVars, Run, Serve, Next
  <2> QED
    BY <2>1, NextIInv
<1>2. CASE Prepare /\ UNCHANGED injectorVars
  <2>1. file' = file /\ pc' # "serving"
    BY <1>2, FileStays, PrepareServesNothing DEF Next
  <2>2. InjectorInv'
    BY <1>2, <2>1, RequestsStay DEF injectorVars
  <2> QED
    BY <1>1, <2>2 DEF PipelineIInv
<1>3. CASE Run
  BY <1>1, <1>3, NextRun DEF PipelineIInv
<1>4. ASSUME NEW r \in Requests, Serve(r) PROVE InjectorInv'
  <2>1. pc = "serving" /\ processors = 1 /\ UNCHANGED vars
    BY <1>4 DEF Serve
  <2>2. (\E body \in Bodies : Injector!Process(r, body))
        \/ Injector!InjectEvent(r) \/ Injector!Return(r)
    BY <1>4 DEF Serve, Injector!Step
  <2> QED
    BY <2>1, <2>2, NextProcess, NextInjectEvent, NextReturn
<1>5. CASE UNCHANGED pipelineVars
  <2>1. InjectorInv'
    BY <1>5, RequestsStay DEF pipelineVars, vars, injectorVars, InjectorInv
  <2> QED
    BY <1>1, <2>1 DEF PipelineIInv
<1> QED
  BY <1>1, <1>2, <1>3, <1>4, <1>5 DEF PipelineNext, PipelineIInv

\* The invariant holds in every reachable state of the pipeline.
THEOREM PipelineInvariance == PipelineSpec => []PipelineIInv
<1>1. PipelineInit => PipelineIInv
  BY InitIInv, InitInjectorInv DEF PipelineInit, PipelineIInv
<1> QED
  BY <1>1, NextPipelineIInv, PTL DEF PipelineSpec

\* Type correctness of both parts.
THEOREM PipelineTypeCorrect == PipelineSpec => []PipelineTypeOK
<1>1. InjectorInv => Injector!TypeOK
  BY DEF InjectorInv, RequestInv, Injector!TypeOK
<1> QED
  BY <1>1, PipelineInvariance, ImplementsStartup, TypeCorrect, PTL
     DEF PipelineIInv, PipelineTypeOK

\* new has the annotations as and those of the event e that as does not set.
Carries(new, as, e) ==
  LET own == IF e = Nil THEN <<>> ELSE e
  IN  /\ DOMAIN new = DOMAIN as \union DOMAIN own
      /\ \A k \in DOMAIN new : new[k] = IF k \in DOMAIN as THEN as[k] ELSE own[k]

\* What InjectEvent makes of an event is what the property asks for.
LEMMA AnnotatedCarries == ASSUME NEW as, NEW e PROVE Carries(Annotated(as, e), as, e)
<1> DEFINE own == IF e = Nil THEN Injector!Empty ELSE e
<1>1. Carries(Injector!Insert(own, as), as, e)
  <2>1. CASE e = Nil
    <3>1. DOMAIN own = {} /\ DOMAIN <<>> = {}
      BY <2>1 DEF Injector!Empty
    <3> HIDE DEF own
    <3> QED
      BY <2>1, <3>1 DEF Carries, Injector!Insert
  <2>2. CASE e # Nil
    BY <2>2 DEF Carries, Injector!Insert
  <2> QED
    BY <2>1, <2>2
<1> QED
  BY <1>1, Zenon DEF Annotated

\* Whatever is processed at the same time, every event is forwarded with its
\* own annotations and those of the file, and with nothing of another event
\* (annotation.go).
THEOREM ForwardedAsConfiguredCorrect == PipelineSpec => []ForwardedAsConfigured
<1>1. InjectorInv => ForwardedAsConfigured
  <2> SUFFICES ASSUME InjectorInv, NEW r \in Requests
               PROVE  LET configured == file.annotations
                          own(n) == IF data[r].items[n] = Nil THEN <<>> ELSE data[r].items[n]
                      IN  /\ state[r] = "error" => data[r].kind # "EventList"
                          /\ state[r] = "returned" =>
                               /\ result[r].kind = "EventList" /\ data[r].kind = "EventList"
                               /\ DOMAIN result[r].items = DOMAIN data[r].items
                               /\ \A n \in DOMAIN result[r].items :
                                    LET new == result[r].items[n] IN
                                    /\ DOMAIN new = DOMAIN configured \union DOMAIN own(n)
                                    /\ \A k \in DOMAIN new :
                                         new[k] = IF k \in DOMAIN configured
                                                  THEN configured[k] ELSE own(n)[k]
    BY DEF ForwardedAsConfigured
  <2>1. RequestInv(file.annotations, state[r], data[r], items[r], i[r], result[r])
    BY DEF InjectorInv
  <2>2. state[r] = "error" => data[r].kind # "EventList"
    BY <2>1 DEF RequestInv
  <2>3. CASE state[r] # "returned"
    BY <2>2, <2>3
  <2>4. CASE state[r] = "returned"
    <3>1. /\ result[r].kind = "EventList" /\ data[r].kind = "EventList"
          /\ DOMAIN data[r].items = 1..Len(data[r].items)
          /\ DOMAIN result[r].items = 1..Len(data[r].items)
          /\ \A n \in 1..Len(data[r].items) :
               result[r].items[n] = Annotated(file.annotations, data[r].items[n])
      BY <2>1, <2>4 DEF RequestInv, IsList
    <3>2. ASSUME NEW n \in DOMAIN result[r].items
          PROVE  Carries(result[r].items[n], file.annotations, data[r].items[n])
      <4>1. result[r].items[n] = Annotated(file.annotations, data[r].items[n])
        BY <3>1
      <4> QED
        BY <4>1, AnnotatedCarries, Zenon
    <3>3. DOMAIN result[r].items = DOMAIN data[r].items
      BY <3>1
    <3> QED
      BY <2>2, <3>1, <3>2, <3>3 DEF Carries
  <2> QED
    BY <2>3, <2>4
<1> QED
  BY <1>1, PipelineInvariance, PTL DEF PipelineIInv
==============================================================================
