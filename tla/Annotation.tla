----------------------------- MODULE Annotation -----------------------------
(***************************************************************************)
(* Concurrent calls of Injector.Process (internal/processor/annotation)    *)
(* with the decoding and encoding of internal/helper.                      *)
(*                                                                         *)
(* A map of annotations is a function from keys to values.  One injector,  *)
(* and with it the map annotations, is shared by all requests.  Of an      *)
(* audit event only its annotations are kept: Nil when it has none.  The   *)
(* data is [kind, items]: a list of events, another audit object, or       *)
(* nothing that decodes.  A definition whose name ends in _bug is a        *)
(* plausible mistake in the one that follows it.                           *)
(***************************************************************************)
EXTENDS Integers, Sequences

CONSTANTS
  Requests,       \* the requests; Process is called once for each
  Nil             \* a nil map

VARIABLES
  annotations,    \* a.annotations
  state,          \* state[r]: where Process is
  data,           \* data[r]: the argument of Process
  items,          \* items[r]: eventList.Items
  i,              \* i[r]: the event the loop looks at next
  result          \* result[r]: the data Process returned

vars == <<annotations, state, data, items, i, result>>

Empty == [k \in {} |-> ""]
NoData == [kind |-> "none", items |-> <<>>]

Init ==
  /\ annotations = Empty
  /\ state = [r \in Requests |-> "off"]
  /\ data = [r \in Requests |-> NoData]
  /\ items = [r \in Requests |-> <<>>]
  /\ i = [r \in Requests |-> 1]
  /\ result = data

\* The injector keeps the map it is given.
New(configured) ==
  /\ annotations' = configured
  /\ UNCHANGED <<state, data, items, i, result>>

Goto(r, from, to) == state[r] = from /\ state' = [state EXCEPT ![r] = to]

\* DecodeEventList fails for other audit objects and for what does not decode.
Decodes(body) == body.kind = "EventList"

\* Nothing to inject: the data is returned as it is.  Otherwise it is decoded.
Process(r, body) ==
  /\ Goto(r, "off", CASE annotations = Empty -> "returned"
                      [] annotations # Empty /\ Decodes(body) -> "injecting"
                      [] OTHER -> "error")
  /\ data' = [data EXCEPT ![r] = body]
  /\ items' = [items EXCEPT ![r] = body.items]
  /\ result' = IF annotations = Empty THEN [result EXCEPT ![r] = body] ELSE result
  /\ UNCHANGED <<annotations, i>>

\* The annotations of the event, in a fresh map if there are none.
Own(r) == IF items[r][i[r]] = Nil THEN Empty ELSE items[r][i[r]]

\* maps.Insert: the pairs of the map new are added to the map m.
Insert(m, new) ==
  [k \in DOMAIN m \union DOMAIN new |-> IF k \in DOMAIN new THEN new[k] ELSE m[k]]

\* The map of the injector collects the annotations of the events.
InjectEvent_bug(r) ==
  /\ state[r] = "injecting" /\ i[r] <= Len(items[r])
  /\ annotations' = Insert(Own(r), annotations)
  /\ items' = [items EXCEPT ![r][i[r]] = annotations']
  /\ i' = [i EXCEPT ![r] = @ + 1]
  /\ UNCHANGED <<state, data, result>>

\* What the injector has replaces what the event has.
InjectEvent(r) ==
  /\ state[r] = "injecting" /\ i[r] <= Len(items[r])
  /\ items' = [items EXCEPT ![r][i[r]] = Insert(Own(r), annotations)]
  /\ i' = [i EXCEPT ![r] = @ + 1]
  /\ UNCHANGED <<annotations, state, data, result>>

\* An empty map is left out of the encoded event.
EncodeEventList(is) ==
  [kind |-> "EventList", items |-> [k \in DOMAIN is |-> IF is[k] = Empty THEN Nil ELSE is[k]]]

Return(r) ==
  /\ i[r] > Len(items[r])
  /\ Goto(r, "injecting", "returned")
  /\ result' = [result EXCEPT ![r] = EncodeEventList(items[r])]
  /\ UNCHANGED <<annotations, data, items, i>>

Step(r) == InjectEvent(r) \/ Return(r)

\* Types of the state.
TypeOK ==
  /\ state \in [Requests -> {"off", "injecting", "returned", "error"}]
  /\ \A r \in Requests : i[r] \in 1 .. Len(items[r]) + 1
=============================================================================
