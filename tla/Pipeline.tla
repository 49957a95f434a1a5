------------------------------ MODULE Pipeline ------------------------------
(***************************************************************************)
(* Startup composed with Annotation: run hands the annotations of the      *)
(* configuration to an injector (app.go:80-84), which then processes the   *)
(* data of every request the handler receives.                             *)
(***************************************************************************)
EXTENDS Startup

CONSTANTS
  Requests,       \* the requests the handler receives
  Bodies          \* what their bodies hold

\* The items of a body are a sequence, whatever annotations its events have.
ASSUME BodiesAssumption == \A body \in Bodies : body.items \in Seq(Range(body.items))

VARIABLES annotations, state, data, items, i, result

Injector == INSTANCE Annotation

injectorVars == <<annotations, state, data, items, i, result>>
pipelineVars == <<vars, injectorVars>>

PipelineInit == Init /\ Injector!Init

\* run creates an injector if there is something to inject.
Run ==
  /\ NewHandler
  /\ IF processors' = 1
     THEN Injector!New(config.annotations)
     ELSE UNCHANGED injectorVars

Serve(r) ==
  /\ pc = "serving"
  /\ processors = 1
  /\ (\E body \in Bodies : Injector!Process(r, body)) \/ Injector!Step(r)
  /\ UNCHANGED vars

PipelineNext ==
  \/ Prepare /\ UNCHANGED injectorVars
  \/ Run
  \/ \E r \in Requests : Serve(r)

PipelineSpec == PipelineInit /\ [][PipelineNext]_pipelineVars

-----------------------------------------------------------------------------
(* Properties.                                                             *)

\* Types of the state of both parts.
PipelineTypeOK == TypeOK /\ Injector!TypeOK

\* Whatever is processed at the same time, the data forwarded for a request
\* holds the events of its body, in their order, each with the annotations of
\* the configuration file and with its own where these do not say otherwise
\* (annotation.go:33-48): nothing of another event or request.  Only what is
\* not a list of events is refused.
ForwardedAsConfigured ==
  \A r \in Requests :
    LET configured == file.annotations
        own(n) == IF data[r].items[n] = Nil THEN <<>> ELSE data[r].items[n]
    IN  /\ state[r] = "error" => data[r].kind # "EventList"
        /\ state[r] = "returned" =>
             /\ result[r].kind = "EventList" /\ data[r].kind = "EventList"
             /\ DOMAIN result[r].items = DOMAIN data[r].items
             /\ \A n \in DOMAIN result[r].items :
                  LET new == result[r].items[n] IN
                  /\ DOMAIN new = DOMAIN configured \union DOMAIN own(n)
                  /\ \A k \in DOMAIN new :
                       new[k] = IF k \in DOMAIN configured THEN configured[k] ELSE own(n)[k]
=============================================================================
