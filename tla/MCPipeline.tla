----------------------------- MODULE MCPipeline -----------------------------
(***************************************************************************)
(* Pipeline for TLC: configurations that differ from a good one in the     *)
(* fields of one part at a time, and small lists of events.                *)
(***************************************************************************)
EXTENDS Pipeline

Plain == [url |-> "https", tls |-> Nil, compression |-> ""]
WithTLS == [Plain EXCEPT !.tls = [ca |-> "path", cert |-> "", key |-> ""]]
Good ==
  [level |-> "", format |-> "", port |-> 0, metricsPort |-> 0,
   tls |-> [cert |-> "path", key |-> "path", clientCA |-> ""],
   outputs |-> <<[mode |-> "", http |-> Plain]>>, annotations |-> <<>>]

\* Up to three outputs in all delivery modes, with, without and of no type.
SomeOutputs == [mode : Modes, http : {Nil, Plain, WithTLS}]
OutputLists ==
  {[Good EXCEPT !.outputs = os] :
     os \in UNION {[1..n -> SomeOutputs] : n \in 0..2}
            \union [1..3 -> [mode : Modes, http : {Plain, WithTLS}]]}

\* One output in every form.
SingleOutputs ==
  {[Good EXCEPT !.outputs = <<[mode |-> "", http |-> h]>>] : h \in OutputHTTP}

\* The boundaries of the port numbers.
Ports == {-1, 0, 1, 65535, 65536}

\* The fields outside the list of outputs.
OtherFields ==
  {[Good EXCEPT !.level = l, !.format = f] :
     l \in Levels, f \in Formats}
  \union {[Good EXCEPT !.port = p, !.metricsPort = m] : p, m \in Ports}
  \union {[Good EXCEPT !.tls = t] : t \in [cert : Paths, key : Paths, clientCA : Paths]}
  \union {[Good EXCEPT !.annotations = as] : as \in Annotations}

\* Events without annotations, with an empty map of them, with one of their own
\* and with one that the configuration may override.
SomeEvents == {Nil, <<>>, [verb |-> "get"], [team |-> "blue"]}
SmallBodies ==
  {[kind |-> k, items |-> <<>>] : k \in {"Event", "garbage"}}
  \union {[kind |-> "EventList", items |-> es] : es \in UNION {[1..n -> SomeEvents] : n \in 0..2}}

SmallConfigs == OutputLists \union SingleOutputs \union OtherFields
=============================================================================
