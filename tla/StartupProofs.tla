---------------------------- MODULE StartupProofs ----------------------------
(***************************************************************************)
(* Proofs about Startup, for every configuration file: any number of       *)
(* outputs, with any delivery modes and credentials.                       *)
(***************************************************************************)
EXTENDS Startup, FiniteSetTheorems, SequenceTheorems, TLAPS

-----------------------------------------------------------------------------
(* Defaults.                                                               *)

\* A function on 1..n is a sequence of length n.
LEMMA FunctionIsSeq ==
  ASSUME NEW S, NEW n \in Nat, NEW f \in [1..n -> S]
  PROVE  f \in Seq(S) /\ Len(f) = n
<1>1. f \in Seq(S)
  BY SeqDef
<1>2. DOMAIN f = 1..n /\ DOMAIN f = 1..Len(f) /\ Len(f) \in Nat
  BY <1>1, LenProperties
<1> QED
  BY <1>1, <1>2

\* The defaults of the outputs: only an empty delivery mode is filled in.
LEMMA DefaultOutputs ==
  ASSUME NEW os \in Seq(Output)
  PROVE  LET ds == SetDefaults_Outputs(os) IN
         /\ ds \in Seq(Output)
         /\ Len(ds) = Len(os)
         /\ DOMAIN ds = DOMAIN os
         /\ \A k \in DOMAIN os :
              /\ ds[k].http = os[k].http
              /\ ds[k].mode =
                   IF os[k].mode = "" THEN IF Len(os) = 1 THEN "Guaranteed" ELSE "BestEffort"
                                      ELSE os[k].mode
<1> DEFINE default == IF Len(os) = 1 THEN "Guaranteed" ELSE "BestEffort"
           ds == SetDefaults_Outputs(os)
<1>1. DOMAIN ds = DOMAIN os /\ DOMAIN os = 1 .. Len(os) /\ Len(os) \in Nat
  BY LenProperties DEF SetDefaults_Outputs
<1>2. ASSUME NEW k \in DOMAIN os
      PROVE  /\ ds[k] \in Output
             /\ ds[k].http = os[k].http
             /\ ds[k].mode = IF os[k].mode = "" THEN default ELSE os[k].mode
  <2>1. os[k] \in Output
    BY <1>1, ElementOfSeq
  <2>2. ds[k] = [os[k] EXCEPT !.mode = IF os[k].mode = "" THEN default ELSE os[k].mode]
    BY <2>1 DEF SetDefaults_Outputs, Output
  <2>3. default \in Modes
    BY DEF Modes
  <2> QED
    BY <2>1, <2>2, <2>3 DEF Output
<1>3. ds \in [1 .. Len(os) -> Output]
  BY <1>1, <1>2 DEF SetDefaults_Outputs
<1>4. ds \in Seq(Output) /\ Len(ds) = Len(os)
  BY <1>1, <1>3, FunctionIsSeq
<1> QED
  BY <1>1, <1>2, <1>4

Fields == {"level", "format", "port", "metricsPort", "tls", "outputs", "annotations"}

\* A configuration is a function on its fields.
LEMMA ConfigFields ==
  ASSUME NEW c \in Config
  PROVE  DOMAIN c = Fields /\ c = [f \in Fields |-> c[f]]
BY DEF Config, Fields

\* The types of the fields.
LEMMA FieldTypes ==
  ASSUME NEW c \in Config
  PROVE  /\ c.level \in Levels /\ c.format \in Formats
         /\ c.port \in Int /\ c.metricsPort \in Int
         /\ c.tls \in [cert : Paths, key : Paths, clientCA : Paths]
         /\ c.outputs \in Seq(Output)
         /\ c.annotations \in Annotations
BY DEF Config

\* The converse.
LEMMA FieldsConfig ==
  ASSUME NEW c, c = [f \in Fields |-> c[f]],
         c.level \in Levels, c.format \in Formats,
         c.port \in Int, c.metricsPort \in Int,
         c.tls \in [cert : Paths, key : Paths, clientCA : Paths],
         c.outputs \in Seq(Output),
         c.annotations \in Annotations
  PROVE  c \in Config
BY DEF Config, Fields

\* The defaults of a configuration, field by field.
LEMMA DefaultTLS ==
  ASSUME NEW c \in Config PROVE SetDefaults(c).tls = c.tls
BY ConfigFields DEF SetDefaults, Fields

\* Annotations have no default.
LEMMA DefaultAnnotations ==
  ASSUME NEW c \in Config PROVE SetDefaults(c).annotations = c.annotations
BY ConfigFields DEF SetDefaults, Fields

\* Outputs have those of SetDefaults_Outputs.
LEMMA DefaultOutputList ==
  ASSUME NEW c \in Config PROVE SetDefaults(c).outputs = SetDefaults_Outputs(c.outputs)
BY ConfigFields DEF SetDefaults, Fields

\* The default log level is info.
LEMMA DefaultLevel ==
  ASSUME NEW c \in Config
  PROVE  SetDefaults(c).level = IF c.level = "" THEN "info" ELSE c.level
BY ConfigFields DEF SetDefaults, Fields

\* The default log format is JSON.
LEMMA DefaultFormat ==
  ASSUME NEW c \in Config
  PROVE  SetDefaults(c).format = IF c.format = "" THEN "json" ELSE c.format
BY ConfigFields DEF SetDefaults, Fields

\* The default port of the audit server.
LEMMA DefaultPort ==
  ASSUME NEW c \in Config
  PROVE  SetDefaults(c).port = IF c.port = 0 THEN 10443 ELSE c.port
BY ConfigFields DEF SetDefaults, Fields

\* The default port of the metrics server.
LEMMA DefaultMetricsPort ==
  ASSUME NEW c \in Config
  PROVE  SetDefaults(c).metricsPort = IF c.metricsPort = 0 THEN 8080 ELSE c.metricsPort
BY ConfigFields DEF SetDefaults, Fields

\* A function with one value replaced is a function on the same set.
LEMMA ExceptIsFunction ==
  ASSUME NEW D, NEW x, NEW f, NEW e, x = [y \in D |-> x[y]]
  PROVE  [x EXCEPT ![f] = e] = [y \in D |-> [x EXCEPT ![f] = e][y]]
OBVIOUS

\* With its defaults a configuration is a configuration.
LEMMA DefaultsType ==
  ASSUME NEW c \in Config
  PROVE  SetDefaults(c) \in Config
<1>1. SetDefaults(c) = [f \in Fields |-> SetDefaults(c)[f]]
  <2> DEFINE l == [c EXCEPT !.level = IF c.level = "" THEN "info" ELSE c.level]
             f == [l EXCEPT !.format = IF c.format = "" THEN "json" ELSE c.format]
             p == [f EXCEPT !.port = IF c.port = 0 THEN 10443 ELSE c.port]
             m == [p EXCEPT !.metricsPort = IF c.metricsPort = 0 THEN 8080 ELSE c.metricsPort]
             o == [m EXCEPT !.outputs = SetDefaults_Outputs(c.outputs)]
  <2>1. SetDefaults(c) = o
    BY ConfigFields DEF SetDefaults
  <2>2. l = [y \in Fields |-> l[y]]
    BY ConfigFields, ExceptIsFunction
  <2> HIDE DEF l
  <2>3. f = [y \in Fields |-> f[y]]
    BY <2>2, ExceptIsFunction
  <2> HIDE DEF f
  <2>4. p = [y \in Fields |-> p[y]]
    BY <2>3, ExceptIsFunction
  <2> HIDE DEF p
  <2>5. m = [y \in Fields |-> m[y]]
    BY <2>4, ExceptIsFunction
  <2> HIDE DEF m
  <2>6. o = [y \in Fields |-> o[y]]
    BY <2>5, ExceptIsFunction
  <2> HIDE DEF o
  <2> QED
    BY <2>1, <2>6
<1>2. SetDefaults(c).level \in Levels
  BY DefaultLevel, FieldTypes DEF Levels
<1>3. SetDefaults(c).format \in Formats
  BY DefaultFormat, FieldTypes DEF Formats
<1>4. SetDefaults(c).port \in Int
  BY DefaultPort, FieldTypes
<1>5. SetDefaults(c).metricsPort \in Int
  BY DefaultMetricsPort, FieldTypes
<1>6. SetDefaults(c).outputs \in Seq(Output)
  BY DefaultOutputList, DefaultOutputs, FieldTypes
<1>7. /\ SetDefaults(c).tls \in [cert : Paths, key : Paths, clientCA : Paths]
      /\ SetDefaults(c).annotations \in Annotations
  BY DefaultTLS, DefaultAnnotations, FieldTypes
<1> QED
  BY <1>1, <1>2, <1>3, <1>4, <1>5, <1>6, <1>7, FieldsConfig

-----------------------------------------------------------------------------
(* Validation.                                                             *)

\* Every output has an HTTP section that passes.
HTTPOk(os) == \A k \in DOMAIN os : os[k].http # Nil /\ validateOutputHTTP(os[k].http)

\* What the defaults and the checks leave of the fields outside the outputs.
FieldsOk(c) ==
  /\ c.level # "loud" /\ c.format # "xml"
  /\ InPortRange(c.port) /\ InPortRange(c.metricsPort)
  /\ c.tls.cert = "path" /\ c.tls.key = "path" /\ c.tls.clientCA # " "
  /\ \A k \in DOMAIN c.annotations :
       k \in {"team", "region"} /\ c.annotations[k] \notin {"", " "}

\* The files that pass, in terms of what is written in them.
Passes(c) == FieldsOk(c) /\ DocumentedModes(c.outputs) /\ HTTPOk(c.outputs)

\* The delivery modes: the defaults followed by the validation of the list
\* accept exactly what is documented.
LEMMA OutputsValid ==
  ASSUME NEW os \in Seq(Output), NEW ds, ds = SetDefaults_Outputs(os)
  PROVE  validateOutputs(ds) <=> DocumentedModes(os) /\ HTTPOk(os)
<1> DEFINE default == IF Len(os) = 1 THEN "Guaranteed" ELSE "BestEffort"
<1>1. \A k \in DOMAIN os :
         /\ ds[k].http = os[k].http
         /\ ds[k].mode = IF os[k].mode = "" THEN default ELSE os[k].mode
  BY DefaultOutputs
<1>2. /\ Len(ds) = Len(os) /\ Len(os) \in Nat /\ ds \in Seq(Output)
      /\ DOMAIN ds = DOMAIN os /\ DOMAIN os = 1 .. Len(os)
  BY DefaultOutputs, LenProperties
<1>0. ds # <<>> <=> Len(os) # 0
  BY <1>2
<1> DEFINE Ok(k) == os[k].mode \in {"", "Guaranteed", "BestEffort"}
<1>3. (\A k \in DOMAIN ds : validateOutput(ds[k])) <=> HTTPOk(os) /\ \A k \in DOMAIN os : Ok(k)
  <2>1. ASSUME NEW k \in DOMAIN os
        PROVE  validateOutput(ds[k]) <=>
                 (os[k].http # Nil /\ validateOutputHTTP(os[k].http)) /\ Ok(k)
    <3>1. ds[k].mode \in {"Guaranteed", "BestEffort"} <=> Ok(k)
      BY <1>1
    <3>2. ds[k].mode # ""
      BY <1>1
    <3>3. ds[k].http = os[k].http
      BY <1>1
    <3> QED
      BY <3>1, <3>2, <3>3 DEF validateOutput
  <2> QED
    BY <1>2, <2>1 DEF HTTPOk
<1>4. CASE Len(os) = 0
  <2>1. ~validateOutputs(ds)
    BY <1>0, <1>4 DEF validateOutputs
  <2>2. ~DocumentedModes(os)
    BY <1>2, <1>4 DEF DocumentedModes
  <2> QED
    BY <2>1, <2>2
<1>5. CASE Len(os) = 1
  <2>1. DOMAIN os = {1} /\ Len(ds) = 1 /\ ds # <<>>
    BY <1>0, <1>2, <1>5
  <2>2. ds[1].mode = "Guaranteed" <=> os[1].mode \in {"", "Guaranteed"}
    BY <1>1, <1>5, <2>1
  <2>3. DocumentedModes(os) <=> os[1].mode \in {"", "Guaranteed"}
    BY <1>5 DEF DocumentedModes
  <2>4. validateOutputs(ds) <=> HTTPOk(os) /\ Ok(1) /\ ds[1].mode = "Guaranteed"
    BY <1>2, <1>3, <2>1 DEF validateOutputs
  <2> QED
    BY <2>2, <2>3, <2>4
<1>6. CASE Len(os) > 1
  <2>0. Len(os) # 1 /\ Len(ds) # 1 /\ ds # <<>> /\ default = "BestEffort"
    BY <1>0, <1>2, <1>6
  <2> DEFINE G == {k \in DOMAIN ds : ds[k].mode = "Guaranteed"}
  <2>1. IsFiniteSet(G)
    <3>1. IsFiniteSet(DOMAIN ds)
      BY <1>2, FS_Interval
    <3> QED
      BY <3>1, FS_Subset
  <2>2. GuaranteedCount(ds) = 1 <=> \E k : G = {k}
    BY <2>1, FS_Singleton DEF GuaranteedCount
  <2>3. G = {k \in DOMAIN os : os[k].mode = "Guaranteed"}
    <3>1. ASSUME NEW k \in DOMAIN os
          PROVE  ds[k].mode = "Guaranteed" <=> os[k].mode = "Guaranteed"
      <4>1. ds[k].mode = IF os[k].mode = "" THEN "BestEffort" ELSE os[k].mode
        BY <1>1, <2>0, Zenon
      <4> QED
        BY <4>1
    <3> QED
      BY <1>2, <3>1, Zenon
  <2>4. DocumentedModes(os) <=> (\E k : G = {k}) /\ \A k \in DOMAIN os : Ok(k)
    <3>1. ASSUME DocumentedModes(os)
          PROVE  (\E k : G = {k}) /\ \A k \in DOMAIN os : Ok(k)
      <4>1. PICK k \in DOMAIN os : /\ os[k].mode = "Guaranteed"
                                   /\ \A j \in DOMAIN os \ {k} : os[j].mode \in {"", "BestEffort"}
        BY <2>0, <3>1, Zenon DEF DocumentedModes
      <4>2. G = {k}
        BY <2>3, <4>1
      <4> QED
        BY <4>1, <4>2
    <3>2. ASSUME NEW k, G = {k}, \A j \in DOMAIN os : Ok(j)
          PROVE  DocumentedModes(os)
      <4>1. k \in DOMAIN os /\ os[k].mode = "Guaranteed"
        BY <2>3, <3>2
      <4>2. \A j \in DOMAIN os \ {k} : os[j].mode \in {"", "BestEffort"}
        BY <2>3, <3>2
      <4> QED
        BY <1>6, <4>1, <4>2 DEF DocumentedModes
    <3> QED
      BY <3>1, <3>2
  <2>5. validateOutputs(ds) <=>
          HTTPOk(os) /\ (\A k \in DOMAIN os : Ok(k)) /\ GuaranteedCount(ds) = 1
    BY <1>3, <2>0, Zenon DEF validateOutputs
  <2> QED
    BY <2>2, <2>4, <2>5
<1> QED
  BY <1>2, <1>4, <1>5, <1>6

\* The trimmed strings that validation looks at.
LEMMA Trimmed ==
  /\ \A t \in Paths : TrimSpace(t) # "" <=> t = "path"
  /\ \A t \in {"", " ", "red", " red "} : TrimSpace(t) # "" <=> t \notin {"", " "}
BY DEF TrimSpace, Paths

\* After the defaults only an unknown level or format is rejected.
LEMMA LogValid ==
  ASSUME NEW c \in Config
  PROVE  validateLogConfiguration(SetDefaults(c)) <=> c.level # "loud" /\ c.format # "xml"
<1>1. \A l \in Levels : (IF l = "" THEN "info" ELSE l) \in Levels \ {"loud"} <=> l # "loud"
  BY DEF Levels
<1>2. \A f \in Formats : (IF f = "" THEN "json" ELSE f) \in Formats \ {"xml"} <=> f # "xml"
  BY DEF Formats
<1>3. SetDefaults(c).level \in Levels \ {"loud"} <=> c.level # "loud"
  BY <1>1, DefaultLevel, FieldTypes, Zenon
<1>4. SetDefaults(c).format \in Formats \ {"xml"} <=> c.format # "xml"
  BY <1>2, DefaultFormat, FieldTypes, Zenon
<1> QED
  BY <1>3, <1>4, Zenon DEF validateLogConfiguration

\* The key pair of the server is required, its client CA is not.
LEMMA TLSValid ==
  ASSUME NEW t \in [cert : Paths, key : Paths, clientCA : Paths]
  PROVE  validateTLS(t) <=> t.cert = "path" /\ t.key = "path" /\ t.clientCA # " "
<1>1. t.cert \in Paths /\ t.key \in Paths /\ t.clientCA \in Paths
  OBVIOUS
<1>2. t.clientCA = "" \/ t.clientCA = "path" <=> t.clientCA # " "
  BY <1>1 DEF Paths
<1> QED
  BY <1>1, <1>2, Trimmed, Zenon DEF validateTLS

\* After the defaults a port is rejected only when it is out of range.
LEMMA ServerValid ==
  ASSUME NEW c \in Config
  PROVE  validateServer(SetDefaults(c)) <=>
           /\ InPortRange(c.port) /\ InPortRange(c.metricsPort)
           /\ c.tls.cert = "path" /\ c.tls.key = "path" /\ c.tls.clientCA # " "
<1>1. c.port \in Int /\ c.metricsPort \in Int
  BY FieldTypes
<1>2. SetDefaults(c).port # 0 /\ InPortRange(SetDefaults(c).port) <=> InPortRange(c.port)
  BY <1>1, DefaultPort DEF InPortRange
<1>3. SetDefaults(c).metricsPort # 0 /\ InPortRange(SetDefaults(c).metricsPort)
        <=> InPortRange(c.metricsPort)
  BY <1>1, DefaultMetricsPort DEF InPortRange
<1>4. validateTLS(c.tls) <=> c.tls.cert = "path" /\ c.tls.key = "path" /\ c.tls.clientCA # " "
  BY TLSValid, FieldTypes, Zenon
<1>5. validateServer(SetDefaults(c)) <=>
        /\ SetDefaults(c).port # 0 /\ InPortRange(SetDefaults(c).port)
        /\ SetDefaults(c).metricsPort # 0 /\ InPortRange(SetDefaults(c).metricsPort)
        /\ validateTLS(c.tls)
  BY DefaultTLS, Zenon DEF validateServer
<1> QED
  BY <1>2, <1>3, <1>4, <1>5, Zenon

\* Annotations need a valid key and a value.
LEMMA AnnotationsValid ==
  ASSUME NEW as \in Annotations
  PROVE  validateInjectAnnotations(as) <=>
           \A k \in DOMAIN as : k \in {"team", "region"} /\ as[k] \notin {"", " "}
<1>1. ASSUME NEW k \in DOMAIN as
      PROVE  k # "bad key" /\ TrimSpace(as[k]) # "" <=>
               k \in {"team", "region"} /\ as[k] \notin {"", " "}
  <2>1. k \in Keys /\ as[k] \in {"", " ", "red", " red "}
    BY DEF Annotations
  <2>2. k # "bad key" <=> k \in {"team", "region"}
    BY <2>1 DEF Keys
  <2>3. TrimSpace(as[k]) # "" <=> as[k] \notin {"", " "}
    BY <2>1, Trimmed, Zenon
  <2> QED
    BY <2>2, <2>3, Zenon
<1> QED
  BY <1>1, Zenon DEF validateInjectAnnotations

\* Defaults and validation together accept exactly the files that pass.
LEMMA AcceptedPasses ==
  ASSUME NEW c \in Config
  PROVE  ValidateAuditlogForwarder(SetDefaults(c)) <=> Passes(c)
<1>1. validateOutputs(SetDefaults(c).outputs) <=> DocumentedModes(c.outputs) /\ HTTPOk(c.outputs)
  BY DefaultOutputList, OutputsValid, FieldTypes, Zenon
<1>2. validateInjectAnnotations(SetDefaults(c).annotations) <=>
        \A k \in DOMAIN c.annotations :
          k \in {"team", "region"} /\ c.annotations[k] \notin {"", " "}
  BY DefaultAnnotations, AnnotationsValid, FieldTypes, Zenon
<1>3. FieldsOk(c) <=>
        /\ validateLogConfiguration(SetDefaults(c))
        /\ validateServer(SetDefaults(c))
        /\ validateInjectAnnotations(SetDefaults(c).annotations)
  BY <1>2, LogValid, ServerValid, Zenon DEF FieldsOk
<1> QED
  BY <1>1, <1>3, Zenon DEF ValidateAuditlogForwarder, Passes

-----------------------------------------------------------------------------
(* What RunE knows of the configuration.                                   *)

\* From Complete on the configuration is the file with its defaults; it was
\* rejected because it is invalid, and accepted because it is valid; logging
\* and client authentication have been set up as it says.
InputInv ==
  /\ file \in Config
  /\ config \in {file, SetDefaults(file)}
  /\ pc \notin {"complete", "exit"} => config = SetDefaults(file)
  /\ pc = "invalid" => ~ValidateAuditlogForwarder(config)
  /\ Accepted => /\ ValidateAuditlogForwarder(config)
                 /\ logger = setupLogging(config.level, config.format)
  /\ pc \in {"factory", "factoryErr", "newHandler", "serving"} =>
       clientAuth = (config.tls.clientCA # "")

\* The actions of Next, one by one.
LEMMA NextCases ==
  ASSUME Next
  PROVE  \/ Complete \/ CompleteFails \/ Validate \/ ValidateFails
         \/ ApplyServing \/ ApplyServingFails \/ Skip \/ New \/ NewFails
         \/ GuaranteedBuilt \/ BestEffortBuilt \/ ApplyToFails \/ NewHandler
BY DEF Next, Prepare

\* Every action keeps InputInv.
LEMMA NextInputInv ==
  ASSUME InputInv, Next
  PROVE  InputInv'
<1>1. CASE Complete
  BY <1>1 DEF InputInv, Accepted, Complete, Goto, built
<1>2. CASE CompleteFails
  BY <1>2 DEF InputInv, Accepted, CompleteFails, Goto, given, built
<1>3. CASE Validate
  BY <1>3 DEF InputInv, Accepted, Validate, Goto, built
<1>4. CASE ValidateFails
  BY <1>4 DEF InputInv, Accepted, ValidateFails, Goto, given, built
<1>5. CASE ApplyServing
  BY <1>5 DEF InputInv, Accepted, ApplyServing, Goto, given, built
<1>6. CASE ApplyServingFails
  BY <1>6 DEF InputInv, Accepted, ApplyServingFails, Goto, given, built
<1>7. CASE Skip
  BY <1>7 DEF InputInv, Accepted, Skip, InFactory, given
<1>8. CASE New
  BY <1>8 DEF InputInv, Accepted, New, InFactory, given
<1>9. CASE NewFails
  BY <1>9 DEF InputInv, Accepted, NewFails, InFactory, given
<1>10. CASE GuaranteedBuilt
  BY <1>10 DEF InputInv, Accepted, GuaranteedBuilt, FactoryDone, FactoryCall, given
<1>11. CASE BestEffortBuilt
  BY <1>11 DEF InputInv, Accepted, BestEffortBuilt, FactoryDone, given
<1>12. CASE ApplyToFails
  BY <1>12 DEF InputInv, Accepted, ApplyToFails, Goto, given
<1>13. CASE NewHandler
  BY <1>13 DEF InputInv, Accepted, NewHandler, Goto, given, built
<1> QED
  BY <1>1, <1>2, <1>3, <1>4, <1>5, <1>6, <1>7,
     <1>8, <1>9, <1>10, <1>11, <1>12, <1>13, NextCases

-----------------------------------------------------------------------------
(* Types.                                                                  *)

\* Neither the defaults nor anything else changes how many outputs there are.
LEMMA SameOutputs ==
  ASSUME InputInv
  PROVE  /\ config \in Config
         /\ config.outputs \in Seq(Output)
         /\ Len(config.outputs) = Len(file.outputs)
         /\ Len(file.outputs) \in Nat
<1>1. file \in Config /\ file.outputs \in Seq(Output) /\ Len(file.outputs) \in Nat
  BY FieldTypes, LenProperties DEF InputInv
<1>2. CASE config = file
  BY <1>1, <1>2
<1>3. CASE config = SetDefaults(file)
  <2>1. config \in Config
    BY <1>1, <1>3, DefaultsType
  <2>2. config.outputs = SetDefaults_Outputs(file.outputs)
    BY <1>1, <1>3, DefaultOutputList
  <2>3. SetDefaults_Outputs(file.outputs) \in Seq(Output)
        /\ Len(SetDefaults_Outputs(file.outputs)) = Len(file.outputs)
    BY <1>1, DefaultOutputs
  <2> QED
    BY <1>1, <2>1, <2>2, <2>3
<1> QED
  BY <1>2, <1>3 DEF InputInv

\* What the factory and ApplyTo have built so far.
BuildTypes ==
  /\ mode \in {"Guaranteed", "BestEffort"}
  /\ next \in 1..Len(file.outputs) + 1
  /\ outputs \in Seq(Indices)
  /\ guaranteed \in Seq(Indices)
  /\ bestEffort \in Seq(Indices)
  /\ DOMAIN profile \subseteq Indices
  /\ open \subseteq Indices

\* Every action keeps the types of what is built.
LEMMA NextBuildTypes ==
  ASSUME InputInv, BuildTypes, Next
  PROVE  BuildTypes'
<1>0. Len(config.outputs) = Len(file.outputs) /\ Len(file.outputs) \in Nat
  BY SameOutputs
<1>1. CASE Complete
  BY <1>1 DEF BuildTypes, Indices, Complete, Goto, built
<1>2. CASE CompleteFails
  BY <1>2 DEF BuildTypes, Indices, CompleteFails, Goto, given, built
<1>3. CASE Validate
  BY <1>3 DEF BuildTypes, Indices, Validate, Goto, built
<1>4. CASE ValidateFails
  BY <1>4 DEF BuildTypes, Indices, ValidateFails, Goto, given, built
<1>5. CASE ApplyServing
  BY <1>5 DEF BuildTypes, Indices, ApplyServing, Goto, given, built
<1>6. CASE ApplyServingFails
  BY <1>6 DEF BuildTypes, Indices, ApplyServingFails, Goto, given, built
<1>7. CASE Skip
  <2>1. next + 1 \in 1..Len(file.outputs) + 1
    BY <1>7, <1>0 DEF BuildTypes, Skip, InFactory
  <2> QED
    BY <1>7, <2>1 DEF BuildTypes, Skip, given, Indices
<1>8. CASE New
  <2>1. next \in Indices /\ next + 1 \in 1..Len(file.outputs) + 1
    BY <1>8, <1>0 DEF BuildTypes, New, InFactory, Indices
  <2>2. Indices' = Indices
    BY <1>8 DEF New, given, Indices
  <2>3. Append(outputs, next) \in Seq(Indices)
    BY <2>1 DEF BuildTypes
  <2>4. DOMAIN profile' \subseteq Indices /\ open' \subseteq Indices
    BY <1>8, <2>1 DEF BuildTypes, New
  <2> QED
    BY <1>8, <2>1, <2>2, <2>3, <2>4 DEF BuildTypes, New, given
<1>9. CASE NewFails
  BY <1>9 DEF BuildTypes, Indices, NewFails, InFactory, given
<1>10. CASE GuaranteedBuilt
  <2>1. 1 \in 1..Len(file.outputs) + 1
    BY <1>0
  <2> QED
    BY <1>10, <2>1 DEF BuildTypes, GuaranteedBuilt, FactoryCall, given, Indices
<1>11. CASE BestEffortBuilt
  BY <1>11 DEF BuildTypes, Indices, BestEffortBuilt, FactoryDone, given
<1>12. CASE ApplyToFails
  BY <1>12 DEF BuildTypes, Indices, ApplyToFails, Goto, given
<1>13. CASE NewHandler
  BY <1>13 DEF BuildTypes, Indices, NewHandler, Goto, given, built
<1> QED
  BY <1>1, <1>2, <1>3, <1>4, <1>5, <1>6, <1>7,
     <1>8, <1>9, <1>10, <1>11, <1>12, <1>13, NextCases

-----------------------------------------------------------------------------
(* The loop of the factory.                                                *)

\* The outputs of delivery mode m among the first n - 1 of os.
Chosen(os, m, n) == {k \in 1..(n - 1) : os[k].http # Nil /\ os[k].mode = m}

\* The ones of S that have credential files to watch.
WatchedIn(os, S) == {o \in S : Watched(os[o].http)}

\* The sequence s has the elements of S, each one once, in increasing order.
Lists(s, S) ==
  /\ Range(s) = S
  /\ \A x, y \in DOMAIN s : x < y => s[x] < s[y]
  /\ IsFiniteSet(S) /\ Len(s) = Cardinality(S)

\* The empty list is the list of no outputs.
LEMMA ListsNothing == Lists(<<>>, {})
BY FS_EmptySet DEF Lists, Range

\* An empty list has no elements.
LEMMA RangeEmpty == Range(<<>>) = {}
BY DEF Range

\* A number above all in the list goes to its end.
LEMMA ListsAppend ==
  ASSUME NEW s \in Seq(Nat), NEW S, Lists(s, S), NEW n \in Nat, \A k \in S : k < n
  PROVE  Lists(Append(s, n), S \union {n})
<1> DEFINE t == Append(s, n)
<1>1. /\ Len(s) \in Nat /\ DOMAIN s = 1..Len(s)
      /\ DOMAIN t = 1..(Len(s) + 1) /\ Len(t) = Len(s) + 1
      /\ \A x \in 1..Len(s) : t[x] = s[x]
      /\ t[Len(s) + 1] = n
  OBVIOUS
<1>2. n \notin S
  OBVIOUS
<1>3. \A x \in DOMAIN s : s[x] \in S /\ s[x] \in Nat
  BY <1>1 DEF Lists, Range
<1> HIDE DEF t
<1>4. Range(t) = S \union {n}
  <2>1. Range(s) = S
    BY DEF Lists
  <2>2. ASSUME NEW v \in Range(t) PROVE v \in S \union {n}
    <3>1. PICK x \in DOMAIN t : v = t[x]
      BY DEF Range
    <3>2. CASE x = Len(s) + 1
      BY <1>1, <3>1, <3>2
    <3>3. CASE x # Len(s) + 1
      <4>1. x \in 1..Len(s)
        BY <1>1, <3>3
      <4> QED
        BY <1>1, <1>3, <3>1, <4>1
    <3> QED
      BY <3>2, <3>3
  <2>3. ASSUME NEW v \in S PROVE v \in Range(t)
    <3>1. PICK x \in DOMAIN s : v = s[x]
      BY <2>1 DEF Range
    <3>2. x \in DOMAIN t /\ v = t[x]
      BY <1>1, <3>1
    <3> QED
      BY <3>2 DEF Range
  <2>4. n \in Range(t)
    <3>1. Len(s) + 1 \in DOMAIN t
      BY <1>1
    <3> QED
      BY <1>1, <3>1 DEF Range
  <2> QED
    BY <2>2, <2>3, <2>4
<1>5. ASSUME NEW x \in DOMAIN t, NEW y \in DOMAIN t, x < y PROVE t[x] < t[y]
  <2>1. x \in 1..Len(s) /\ t[x] = s[x]
    BY <1>1, <1>5
  <2>2. CASE y = Len(s) + 1
    BY <1>1, <1>3, <2>1, <2>2
  <2>3. CASE y # Len(s) + 1
    <3>1. y \in 1..Len(s) /\ t[y] = s[y]
      BY <1>1, <2>3
    <3> QED
      BY <1>1, <1>5, <2>1, <3>1 DEF Lists
  <2> QED
    BY <2>2, <2>3
<1>6. IsFiniteSet(S \union {n}) /\ Cardinality(S \union {n}) = Cardinality(S) + 1
  BY <1>2, FS_AddElement DEF Lists
<1> QED
  BY <1>1, <1>4, <1>5, <1>6 DEF Lists, t

\* What the loop has chosen before it starts, and after an output it passes
\* over or takes.
LEMMA ChosenFirst == \A os, m : Chosen(os, m, 1) = {}
BY DEF Chosen

\* One more output is looked at: it is chosen or passed over.
LEMMA ChosenNext ==
  ASSUME NEW os, NEW m, NEW n \in Nat \ {0}
  PROVE  Chosen(os, m, n + 1) =
           IF os[n].http # Nil /\ os[n].mode = m
           THEN Chosen(os, m, n) \union {n} ELSE Chosen(os, m, n)
<1> DEFINE Sel(k) == os[k].http # Nil /\ os[k].mode = m
<1>1. 1..n = 1..(n - 1) \union {n} /\ n = (n + 1) - 1
  OBVIOUS
<1>2. \A i, j : j = i - 1 => Chosen(os, m, i) = {k \in 1..j : Sel(k)}
  BY Zenon DEF Chosen
<1>3. Chosen(os, m, n + 1) = IF Sel(n) THEN Chosen(os, m, n) \union {n} ELSE Chosen(os, m, n)
  <2> DEFINE A == 1..(n - 1)
             B == 1..n
  <2>1. Chosen(os, m, n) = {k \in A : Sel(k)} /\ Chosen(os, m, n + 1) = {k \in B : Sel(k)}
    BY <1>1, <1>2, Zenon
  <2>2. B = A \union {n}
    BY <1>1
  <2> HIDE DEF A, B, Sel
  <2>3. {k \in A \union {n} : Sel(k)} =
          IF Sel(n) THEN {k \in A : Sel(k)} \union {n} ELSE {k \in A : Sel(k)}
    OBVIOUS
  <2> QED
    BY <2>1, <2>2, <2>3, Zenon
<1> QED
  BY <1>3

\* The outputs chosen so far come before the next one.
LEMMA ChosenBelow ==
  ASSUME NEW os, NEW m, NEW n \in Nat \ {0}, NEW k \in Chosen(os, m, n)
  PROVE  k \in Nat /\ k < n
BY DEF Chosen

-----------------------------------------------------------------------------
(* What has been built.                                                    *)

Last == Len(config.outputs) + 1

\* Before the factory there is nothing.  The loop has built the outputs of its
\* delivery mode among those it has looked at, the first call all the
\* Guaranteed ones, and exactly what was built and has credential files is
\* open.  When a call failed only what the first call built is open, and when
\* start-up has failed nothing is.
BuildInv ==
  /\ pc \in {"complete", "validate", "invalid", "applyServing"} =>
       /\ mode = "Guaranteed" /\ next = 1
       /\ outputs = <<>> /\ guaranteed = <<>> /\ bestEffort = <<>>
       /\ open = {}
  /\ pc = "factory" =>
       /\ Lists(outputs, Chosen(config.outputs, mode, next))
       /\ Lists(guaranteed, IF mode = "Guaranteed" THEN {}
                            ELSE Chosen(config.outputs, "Guaranteed", Last))
       /\ bestEffort = <<>>
       /\ open = WatchedIn(config.outputs, Range(outputs) \union Range(guaranteed))
  /\ pc = "factoryErr" =>
       /\ outputs = <<>> /\ bestEffort = <<>>
       /\ open \subseteq Range(guaranteed)
  /\ pc \in {"newHandler", "serving"} =>
       /\ Lists(guaranteed, Chosen(config.outputs, "Guaranteed", Last))
       /\ Lists(bestEffort, Chosen(config.outputs, "BestEffort", Last))
       /\ outputs = <<>>
       /\ open = WatchedIn(config.outputs, Range(guaranteed) \union Range(bestEffort))
  /\ pc \in {"invalid", "exit"} => open = {}
  /\ pc # "noHandler"

\* Arithmetic that the provers need as a fact of its own.
LEMMA PredSucc == \A n \in Nat : n = (n + 1) - 1
OBVIOUS

\* There are n numbers from 1 to n.
LEMMA FirstNumbers == \A n \in Nat : IsFiniteSet(1..n) /\ Cardinality(1..n) = n
<1> SUFFICES ASSUME NEW n \in Nat PROVE IsFiniteSet(1..n) /\ Cardinality(1..n) = n
  OBVIOUS
<1>1. IsFiniteSet(1..n) /\ Cardinality(1..n) = IF 1 > n THEN 0 ELSE n - 1 + 1
  BY FS_Interval
<1> QED
  BY <1>1

\* There is one number from 1 to 1.
LEMMA OnlyOne == 1..1 = {1}
OBVIOUS

\* A list that validation accepts has one Guaranteed output, and the others
\* are BestEffort.
LEMMA OneGuaranteed ==
  ASSUME NEW os \in Seq(Output), validateOutputs(os), \A k \in DOMAIN os : os[k].mode # ""
  PROVE  /\ Cardinality(Chosen(os, "Guaranteed", Len(os) + 1)) = 1
         /\ Chosen(os, "BestEffort", Len(os) + 1) =
              (1..Len(os)) \ Chosen(os, "Guaranteed", Len(os) + 1)
         /\ Chosen(os, "Guaranteed", Len(os) + 1) \subseteq 1..Len(os)
<1>1. Len(os) \in Nat /\ DOMAIN os = 1..Len(os)
  BY LenProperties
<1>2. ASSUME NEW k \in DOMAIN os
      PROVE  os[k].http # Nil /\ os[k].mode \in {"Guaranteed", "BestEffort"}
  BY DEF validateOutputs, validateOutput
<1>3. \A m : Chosen(os, m, Len(os) + 1) = {k \in DOMAIN os : os[k].mode = m}
  <2>1. \A m, i, j : j = i - 1 =>
          Chosen(os, m, i) = {k \in 1..j : os[k].http # Nil /\ os[k].mode = m}
    BY Zenon DEF Chosen
  <2>3. \A m : Chosen(os, m, Len(os) + 1) = {k \in DOMAIN os : os[k].http # Nil /\ os[k].mode = m}
    BY <1>1, <2>1, PredSucc, Zenon
  <2> QED
    BY <1>2, <2>3, Zenon
<1> DEFINE G == {k \in DOMAIN os : os[k].mode = "Guaranteed"}
<1>4. Cardinality(G) = 1
  <2>1. CASE Len(os) = 1
    <3>1. os[1].mode = "Guaranteed"
      BY <2>1 DEF validateOutputs
    <3>2. DOMAIN os = {1}
      BY <1>1, <2>1, OnlyOne, Zenon
    <3>3. G = {1}
      BY <3>1, <3>2, Zenon
    <3> QED
      BY <3>3, FS_Singleton
  <2>2. CASE Len(os) # 1
    BY <2>2 DEF validateOutputs, GuaranteedCount
  <2> QED
    BY <2>1, <2>2
<1>5. {k \in DOMAIN os : os[k].mode = "BestEffort"} = DOMAIN os \ G
  BY <1>2
<1> QED
  BY <1>1, <1>3, <1>4, <1>5, Zenon

\* The defaults leave no delivery mode empty.
LEMMA AcceptedOutputs ==
  ASSUME InputInv, Accepted
  PROVE  /\ config.outputs \in Seq(Output) /\ validateOutputs(config.outputs)
         /\ \A k \in DOMAIN config.outputs : config.outputs[k].mode # ""
<1>1. config = SetDefaults(file) /\ file \in Config
  BY DEF InputInv, Accepted
<1>2. config.outputs = SetDefaults_Outputs(file.outputs) /\ file.outputs \in Seq(Output)
  BY <1>1, DefaultOutputList, FieldTypes
<1>3. validateOutputs(config.outputs)
  BY DEF InputInv, ValidateAuditlogForwarder
<1>4. \A k \in DOMAIN SetDefaults_Outputs(file.outputs) :
        SetDefaults_Outputs(file.outputs)[k].mode # ""
  <2> DEFINE fs == file.outputs
  <2>1. fs \in Seq(Output)
    BY <1>2
  <2> HIDE DEF fs
  <2>2. DOMAIN SetDefaults_Outputs(fs) = DOMAIN fs
    BY <2>1, DefaultOutputs
  <2>3. ASSUME NEW k \in DOMAIN fs PROVE SetDefaults_Outputs(fs)[k].mode # ""
    <3>1. SetDefaults_Outputs(fs)[k].mode =
            IF fs[k].mode = "" THEN IF Len(fs) = 1 THEN "Guaranteed" ELSE "BestEffort"
                               ELSE fs[k].mode
      BY <2>1, DefaultOutputs
    <3> QED
      BY <3>1
  <2> QED
    BY <2>2, <2>3 DEF fs
<1> QED
  BY <1>2, <1>3, <1>4, SameOutputs

\* The types and the loop invariants together keep the loop invariants.
LEMMA NextBuildInv ==
  ASSUME InputInv, BuildTypes, BuildInv, Next
  PROVE  BuildInv'
<1> DEFINE os == config.outputs
<1>0. /\ Len(os) = Len(file.outputs) /\ Len(os) \in Nat
      /\ next \in Nat \ {0} /\ next <= Len(os) + 1
  BY SameOutputs DEF BuildTypes
<1>1. CASE Complete
  BY <1>1 DEF BuildInv, Complete, Goto, built
<1>2. CASE CompleteFails
  BY <1>2 DEF BuildInv, CompleteFails, Goto, given, built
<1>3. CASE Validate
  BY <1>3 DEF BuildInv, Validate, Goto, built
<1>4. CASE ValidateFails
  BY <1>4 DEF BuildInv, ValidateFails, Goto, given, built
<1>5. CASE ApplyServing
  <2>1. /\ pc' = "factory" /\ mode' = "Guaranteed" /\ next' = 1 /\ config' = config
        /\ outputs' = <<>> /\ guaranteed' = <<>> /\ bestEffort' = <<>> /\ open' = {}
    BY <1>5 DEF ApplyServing, BuildInv, Goto, given, built
  <2>2. Chosen(config'.outputs, mode', next') = {}
    BY <2>1, ChosenFirst
  <2>3. WatchedIn(config'.outputs, Range(outputs') \union Range(guaranteed')) = {}
    BY <2>1, RangeEmpty DEF WatchedIn
  <2> QED
    BY <2>1, <2>2, <2>3, ListsNothing DEF BuildInv
<1>6. CASE ApplyServingFails
  BY <1>6 DEF BuildInv, ApplyServingFails, Goto, given, built
<1>7. CASE Skip
  <2>1. Chosen(os, mode, next + 1) = Chosen(os, mode, next)
    BY <1>7, <1>0, ChosenNext DEF Skip, Selected
  <2>2. /\ pc = "factory" /\ pc' = pc /\ config' = config /\ mode' = mode /\ next' = next + 1
        /\ outputs' = outputs /\ guaranteed' = guaranteed /\ bestEffort' = bestEffort
        /\ open' = open
    BY <1>7 DEF Skip, InFactory, given
  <2> QED
    BY <2>1, <2>2 DEF BuildInv, Last
<1>8. CASE New
  <2>1. Chosen(os, mode, next + 1) = Chosen(os, mode, next) \union {next}
    BY <1>8, <1>0, ChosenNext DEF New, Selected
  <2>2. /\ pc = "factory" /\ pc' = pc /\ config' = config /\ mode' = mode /\ next' = next + 1
        /\ outputs' = Append(outputs, next) /\ guaranteed' = guaranteed
        /\ bestEffort' = bestEffort
        /\ open' = IF Watched(os[next].http) THEN open \union {next} ELSE open
    BY <1>8 DEF New, InFactory, given
  <2>3. Lists(outputs, Chosen(os, mode, next))
    BY <2>2 DEF BuildInv
  <2>4. outputs \in Seq(Nat)
    BY <1>0, SeqMonotonic DEF BuildTypes, Indices
  <2>5. \A k \in Chosen(os, mode, next) : k < next
    BY <1>0, ChosenBelow
  <2>6. Lists(outputs', Chosen(os, mode, next) \union {next})
    BY <1>0, <2>2, <2>3, <2>4, <2>5, ListsAppend
  <2>7. Range(outputs') = Range(outputs) \union {next}
    BY <2>3, <2>6 DEF Lists
  <2>8. open = WatchedIn(os, Range(outputs) \union Range(guaranteed))
    BY <2>2 DEF BuildInv
  <2>9. open' = WatchedIn(os, Range(outputs') \union Range(guaranteed'))
    BY <2>2, <2>7, <2>8 DEF WatchedIn
  <2> QED
    BY <2>1, <2>2, <2>6, <2>9 DEF BuildInv, Last
<1>9. CASE NewFails
  <2>1. open \subseteq Range(outputs) \union Range(guaranteed)
    BY <1>9 DEF NewFails, InFactory, BuildInv, WatchedIn
  <2> QED
    BY <1>9, <2>1 DEF NewFails, InFactory, BuildInv, given
<1>10. CASE GuaranteedBuilt
  <2>1. /\ pc = "factory" /\ pc' = pc /\ mode = "Guaranteed" /\ mode' = "BestEffort"
        /\ next > Len(os) /\ next' = 1 /\ config' = config
        /\ guaranteed' = outputs /\ outputs' = <<>> /\ bestEffort' = bestEffort
        /\ open' = open
    BY <1>10 DEF GuaranteedBuilt, FactoryDone, FactoryCall, given
  <2>2. next = Last /\ Last' = Last
    BY <1>0, <2>1 DEF Last
  <2>3. Lists(guaranteed', Chosen(config'.outputs, "Guaranteed", Last'))
    BY <2>1, <2>2 DEF BuildInv
  <2>4. Chosen(config'.outputs, mode', next') = {}
    BY <2>1, ChosenFirst
  <2>5. Range(guaranteed) = {} /\ Range(outputs') = {}
    BY <2>1, RangeEmpty DEF BuildInv, Lists
  <2>6. open' = WatchedIn(config'.outputs, Range(outputs') \union Range(guaranteed'))
    BY <2>1, <2>5 DEF BuildInv
  <2> QED
    BY <2>1, <2>3, <2>4, <2>6, ListsNothing DEF BuildInv
<1>11. CASE BestEffortBuilt
  <2>1. /\ pc = "factory" /\ pc' = "newHandler" /\ mode = "BestEffort"
        /\ next > Len(os) /\ config' = config
        /\ guaranteed' = guaranteed /\ outputs' = <<>> /\ bestEffort' = outputs
        /\ open' = open
    BY <1>11 DEF BestEffortBuilt, FactoryDone, given
  <2>2. next = Last /\ Last' = Last
    BY <1>0, <2>1 DEF Last
  <2>3. /\ Lists(guaranteed', Chosen(config'.outputs, "Guaranteed", Last'))
        /\ Lists(bestEffort', Chosen(config'.outputs, "BestEffort", Last'))
    BY <2>1, <2>2 DEF BuildInv
  <2>4. open' = WatchedIn(config'.outputs, Range(guaranteed') \union Range(bestEffort'))
    <3>1. open = WatchedIn(os, Range(outputs) \union Range(guaranteed))
      BY <2>1 DEF BuildInv
    <3>2. Range(outputs) \union Range(guaranteed) = Range(guaranteed) \union Range(outputs)
      OBVIOUS
    <3> QED
      BY <2>1, <3>1, <3>2
  <2> QED
    BY <2>1, <2>3, <2>4 DEF BuildInv
<1>12. CASE ApplyToFails
  BY <1>12 DEF BuildInv, ApplyToFails, Goto, given
<1>13. CASE NewHandler
  <2>1. /\ pc = "newHandler" /\ config' = config /\ guaranteed' = guaranteed
        /\ bestEffort' = bestEffort /\ outputs' = outputs /\ open' = open
    BY <1>13 DEF NewHandler, Goto, given, built
  <2>2. Lists(guaranteed, Chosen(os, "Guaranteed", Len(os) + 1))
    BY <2>1 DEF BuildInv, Last
  <2>3. os \in Seq(Output) /\ validateOutputs(os) /\ \A k \in DOMAIN os : os[k].mode # ""
    BY <2>1, AcceptedOutputs DEF Accepted
  <2>4. Len(guaranteed) = 1
    BY <2>2, <2>3, OneGuaranteed DEF Lists
  <2>5. pc' = "serving"
    BY <1>13, <2>4 DEF NewHandler, Goto
  <2> QED
    BY <2>1, <2>5 DEF BuildInv, Last
<1> QED
  BY <1>1, <1>2, <1>3, <1>4, <1>5, <1>6, <1>7,
     <1>8, <1>9, <1>10, <1>11, <1>12, <1>13, NextCases

\* Every output that was built has the retry settings of its delivery mode.
Settings(s, m) == \A o \in Range(s) : o \in DOMAIN profile /\ profile[o] = Profile(m)

ProfileInv ==
  /\ pc = "factory" => Settings(outputs, mode) /\ Settings(guaranteed, "Guaranteed")
  /\ pc \in {"newHandler", "serving"} =>
       Settings(guaranteed, "Guaranteed") /\ Settings(bestEffort, "BestEffort")

\* Every action keeps ProfileInv.
LEMMA NextProfileInv ==
  ASSUME InputInv, BuildTypes, BuildInv, ProfileInv, Next
  PROVE  ProfileInv'
<1>1. CASE Complete
  BY <1>1 DEF ProfileInv, Settings, Complete, Goto, built
<1>2. CASE CompleteFails
  BY <1>2 DEF ProfileInv, Settings, CompleteFails, Goto, given, built
<1>3. CASE Validate
  BY <1>3 DEF ProfileInv, Settings, Validate, Goto, built
<1>4. CASE ValidateFails
  BY <1>4 DEF ProfileInv, Settings, ValidateFails, Goto, given, built
<1>5. CASE ApplyServing
  BY <1>5, RangeEmpty DEF ProfileInv, Settings, BuildInv, ApplyServing, Goto, given, built
<1>6. CASE ApplyServingFails
  BY <1>6 DEF ProfileInv, Settings, ApplyServingFails, Goto, given, built
<1>7. CASE Skip
  BY <1>7 DEF ProfileInv, Settings, Skip, InFactory, given
<1>8. CASE New
  <2>1. /\ pc = "factory" /\ pc' = pc /\ mode' = mode /\ config' = config
        /\ outputs' = Append(outputs, next) /\ guaranteed' = guaranteed
        /\ profile' = [o \in DOMAIN profile \union {next} |->
                         IF o = next THEN Profile(mode) ELSE profile[o]]
    BY <1>8 DEF New, InFactory, given
  <2>2. Range(outputs') \subseteq Range(outputs) \union {next}
    <3>1. outputs \in Seq(Indices)
      BY DEF BuildTypes
    <3> QED
      BY <2>1, <3>1 DEF Range
  <2>3. Settings(outputs, mode)'
    BY <2>1, <2>2 DEF ProfileInv, Settings
  <2>4. next \notin Range(guaranteed)
    <3>1. CASE mode = "Guaranteed"
      BY <2>1, <3>1 DEF BuildInv, Lists
    <3>2. CASE mode # "Guaranteed"
      <4>1. Range(guaranteed) = Chosen(config.outputs, "Guaranteed", Last)
        BY <2>1, <3>2 DEF BuildInv, Lists
      <4>2. config.outputs[next].mode # "Guaranteed"
        BY <1>8, <3>2 DEF New, Selected
      <4> QED
        BY <4>1, <4>2, Zenon DEF Chosen
    <3> QED
      BY <3>1, <3>2
  <2>5. Settings(guaranteed, "Guaranteed")'
    BY <2>1, <2>4 DEF ProfileInv, Settings
  <2> QED
    BY <2>1, <2>3, <2>5 DEF ProfileInv
<1>9. CASE NewFails
  BY <1>9 DEF ProfileInv, Settings, NewFails, InFactory, given
<1>10. CASE GuaranteedBuilt
  BY <1>10, RangeEmpty DEF ProfileInv, Settings, GuaranteedBuilt, FactoryDone, FactoryCall, given
<1>11. CASE BestEffortBuilt
  BY <1>11 DEF ProfileInv, Settings, BestEffortBuilt, FactoryDone, given
<1>12. CASE ApplyToFails
  BY <1>12 DEF ProfileInv, Settings, ApplyToFails, Goto, given
<1>13. CASE NewHandler
  BY <1>13 DEF ProfileInv, Settings, NewHandler, Goto, given, built
<1> QED
  BY <1>1, <1>2, <1>3, <1>4, <1>5, <1>6, <1>7,
     <1>8, <1>9, <1>10, <1>11, <1>12, <1>13, NextCases

-----------------------------------------------------------------------------
(* The invariant of start-up.                                              *)

StepTypes ==
  /\ logger \in [level : Levels, format : Formats]
  /\ pc \in {"complete", "validate", "invalid", "applyServing", "factory",
             "factoryErr", "newHandler", "noHandler", "serving", "exit"}
  /\ clientAuth \in BOOLEAN
  /\ processors \in {0, 1}

\* The logger has a level and a format.
LEMMA LoggerType ==
  ASSUME NEW l \in Levels, NEW f
  PROVE  setupLogging(l, f) \in [level : Levels, format : Formats]
BY DEF setupLogging, Levels, Formats

\* Every action keeps the types of the other variables.
LEMMA NextStepTypes ==
  ASSUME InputInv, StepTypes, Next
  PROVE  StepTypes'
<1>1. CASE Complete
  BY <1>1 DEF StepTypes, Complete, Goto, built
<1>2. CASE CompleteFails
  BY <1>2 DEF StepTypes, CompleteFails, Goto, given, built
<1>3. CASE Validate
  <2>1. config.level \in Levels
    BY SameOutputs, FieldTypes
  <2> QED
    BY <1>3, <2>1, LoggerType DEF StepTypes, Validate, Goto, built
<1>4. CASE ValidateFails
  BY <1>4 DEF StepTypes, ValidateFails, Goto, given, built
<1>5. CASE ApplyServing
  BY <1>5 DEF StepTypes, ApplyServing, Goto, given, built
<1>6. CASE ApplyServingFails
  BY <1>6 DEF StepTypes, ApplyServingFails, Goto, given, built
<1>7. CASE Skip
  BY <1>7 DEF StepTypes, Skip, InFactory, given
<1>8. CASE New
  BY <1>8 DEF StepTypes, New, InFactory, given
<1>9. CASE NewFails
  BY <1>9 DEF StepTypes, NewFails, InFactory, given
<1>10. CASE GuaranteedBuilt
  BY <1>10 DEF StepTypes, GuaranteedBuilt, FactoryDone, FactoryCall, given
<1>11. CASE BestEffortBuilt
  BY <1>11 DEF StepTypes, BestEffortBuilt, FactoryDone, given
<1>12. CASE ApplyToFails
  BY <1>12 DEF StepTypes, ApplyToFails, Goto, given
<1>13. CASE NewHandler
  BY <1>13 DEF StepTypes, NewHandler, Goto, given, built
<1> QED
  BY <1>1, <1>2, <1>3, <1>4, <1>5, <1>6, <1>7,
     <1>8, <1>9, <1>10, <1>11, <1>12, <1>13, NextCases

IInv == InputInv /\ BuildTypes /\ BuildInv /\ ProfileInv /\ StepTypes

\* IInv holds before the file is read.
LEMMA InitIInv == Init => IInv
<1> SUFFICES ASSUME Init PROVE IInv
  OBVIOUS
<1>1. file \in Config
  BY ConfigsAssumption, Zenon DEF Init
<1>2. InputInv
  BY <1>1 DEF Init, InputInv, Accepted
<1>3. Len(file.outputs) \in Nat
  BY <1>2, SameOutputs
<1>4. BuildTypes
  <2>1. 1 \in 1..Len(file.outputs) + 1
    BY <1>3
  <2>2. <<>> \in Seq(Indices) /\ DOMAIN [o \in {} |-> 0] \subseteq Indices /\ {} \subseteq Indices
    OBVIOUS
  <2> QED
    BY <2>1, <2>2, Zenon DEF Init, BuildTypes
<1>5. BuildInv
  BY DEF Init, BuildInv
<1>6. ProfileInv
  BY DEF Init, ProfileInv
<1>7. StepTypes
  BY DEF Init, StepTypes, Levels, Formats
<1> QED
  BY <1>2, <1>4, <1>5, <1>6, <1>7 DEF IInv

\* IInv is inductive.
LEMMA NextIInv == IInv /\ [Next]_vars => IInv'
<1> SUFFICES ASSUME IInv, [Next]_vars PROVE IInv'
  OBVIOUS
<1>1. CASE Next
  BY <1>1, NextInputInv, NextBuildTypes, NextBuildInv, NextProfileInv, NextStepTypes DEF IInv
<1>2. CASE UNCHANGED vars
  <2>1. InputInv'
    BY <1>2 DEF vars, IInv, InputInv, Accepted
  <2>2. BuildTypes' /\ StepTypes'
    BY <1>2 DEF vars, IInv, BuildTypes, Indices, StepTypes
  <2>3. BuildInv'
    BY <1>2 DEF vars, IInv, BuildInv, Last
  <2>4. ProfileInv'
    BY <1>2 DEF vars, IInv, ProfileInv, Settings
  <2> QED
    BY <2>1, <2>2, <2>3, <2>4 DEF IInv
<1> QED
  BY <1>1, <1>2

\* The invariant that the properties of start-up rest on holds in every
\* reachable state, for every set of configuration files.
THEOREM Invariance == Spec => []IInv
BY InitIInv, NextIInv, PTL DEF Spec

\* Type correctness of the start-up path.
THEOREM TypeCorrect == Spec => []TypeOK
<1>1. IInv => TypeOK
  BY SameOutputs DEF IInv, InputInv, BuildTypes, StepTypes, TypeOK
<1> QED
  BY <1>1, Invariance, PTL

\* However start-up fails, no watcher is left that nobody can close
\* (factory.go, options.go).
THEOREM NothingLeaksCorrect == Spec => []NothingLeaks
<1>1. IInv => NothingLeaks
  <2> SUFFICES ASSUME IInv PROVE open \subseteq Held
    BY DEF NothingLeaks
  <2>1. CASE pc \in {"complete", "validate", "applyServing", "invalid", "exit"}
    BY <2>1 DEF IInv, BuildInv
  <2>2. CASE pc = "factory"
    BY <2>2 DEF IInv, BuildInv, WatchedIn, Held
  <2>3. CASE pc = "factoryErr"
    BY <2>3 DEF IInv, BuildInv, Held
  <2>4. CASE pc \in {"newHandler", "serving"}
    BY <2>4 DEF IInv, BuildInv, WatchedIn, Held
  <2> QED
    BY <2>1, <2>2, <2>3, <2>4 DEF IInv, StepTypes, BuildInv
<1> QED
  BY <1>1, Invariance, PTL

-----------------------------------------------------------------------------
(* What is accepted, and what becomes of it.                               *)

\* An HTTP section with plain values passes.
LEMMA PlainHTTP ==
  ASSUME NEW h, DocumentedHTTP(h)
  PROVE  h # Nil /\ validateOutputHTTP(h)
<1>1. TrimSpace("https") = "https" /\ TrimSpace("gzip") = "gzip" /\ TrimSpace("") = ""
      /\ TrimSpace("path") # ""
  BY DEF TrimSpace
<1>2. ASSUME h.tls # Nil PROVE validateClientTLS(h.tls)
  <2>1. (h.tls.cert = "" /\ h.tls.key = "") \/ (h.tls.cert = "path" /\ h.tls.key = "path")
    BY <1>2 DEF DocumentedHTTP, DocumentedTLS
  <2> QED
    BY <1>1, <2>1, Zenon DEF validateClientTLS
<1> QED
  BY <1>1, <1>2 DEF DocumentedHTTP, validateOutputHTTP

\* A file that keeps to types.go passes.
LEMMA DocumentedPasses ==
  ASSUME NEW c \in Config, Documented(c)
  PROVE  Passes(c)
<1>1. c.level # "loud" /\ c.format # "xml" /\ c.tls.clientCA # " "
  BY DEF Documented
<1>2. InPortRange(c.port) /\ InPortRange(c.metricsPort)
  <2>1. c.port \in Int /\ c.metricsPort \in Int
    BY FieldTypes
  <2>2. /\ c.port = 0 \/ TCPPort(c.port)
        /\ c.metricsPort = 0 \/ TCPPort(c.metricsPort)
    BY Zenon DEF Documented
  <2> QED
    BY <2>1, <2>2 DEF TCPPort, InPortRange
<1>3. \A k \in DOMAIN c.annotations :
        k \in {"team", "region"} /\ c.annotations[k] \notin {"", " "}
  BY DEF Documented
<1>4. FieldsOk(c)
  BY <1>1, <1>2, <1>3, Zenon DEF FieldsOk, Documented
<1>5. HTTPOk(c.outputs)
  <2>1. \A k \in DOMAIN c.outputs : DocumentedHTTP(c.outputs[k].http)
    BY Zenon DEF Documented
  <2> QED
    BY <2>1, PlainHTTP, Zenon DEF HTTPOk
<1> QED
  BY <1>4, <1>5, Zenon DEF Passes, Documented

\* A file that keeps to types.go is never rejected (defaults.go,
\* validation.go), however many outputs and annotations it has.
THEOREM DocumentedIsAcceptedCorrect == Spec => []DocumentedIsAccepted
<1>1. InputInv => DocumentedIsAccepted
  <2> SUFFICES ASSUME InputInv, pc = "invalid", Documented(file) PROVE FALSE
    BY DEF DocumentedIsAccepted
  <2>1. file \in Config /\ ~ValidateAuditlogForwarder(SetDefaults(file))
    BY DEF InputInv
  <2> QED
    BY <2>1, DocumentedPasses, AcceptedPasses, Zenon
<1> QED
  BY <1>1, Invariance, PTL DEF IInv

\* A port that was accepted is the one of the file or its default, and within
\* range.
LEMMA PortPasses ==
  ASSUME NEW f \in Int, InPortRange(f), NEW default \in Int, TCPPort(default)
  PROVE  PortUsed(IF f = 0 THEN default ELSE f, f, default)
BY DEF PortUsed, InPortRange, TCPPort

\* An accepted file gives the servers their ports and the outputs their
\* endpoints, and has documented delivery modes (defaults.go, validation.go).
THEOREM AcceptedIsUsableCorrect == Spec => []AcceptedIsUsable
<1>1. InputInv => AcceptedIsUsable
  <2> SUFFICES ASSUME InputInv, Accepted PROVE AcceptedIsUsable
    BY Zenon DEF AcceptedIsUsable
  <2>1. /\ file \in Config /\ config = SetDefaults(file)
        /\ ValidateAuditlogForwarder(SetDefaults(file))
    BY DEF InputInv, Accepted
  <2>2. FieldsOk(file) /\ DocumentedModes(file.outputs) /\ HTTPOk(file.outputs)
    BY <2>1, AcceptedPasses, Zenon DEF Passes
  <2>3. /\ InPortRange(file.port) /\ InPortRange(file.metricsPort)
        /\ file.tls.cert = "path" /\ file.tls.key = "path"
    BY <2>2, Zenon DEF FieldsOk
  <2>4. file.port \in Int /\ file.metricsPort \in Int
    BY <2>1, FieldTypes
  <2>5. PortUsed(config.port, file.port, 10443)
    <3>1. config.port = IF file.port = 0 THEN 10443 ELSE file.port
      BY <2>1, DefaultPort
    <3> QED
      BY <2>3, <2>4, <3>1, PortPasses DEF TCPPort
  <2>6. PortUsed(config.metricsPort, file.metricsPort, 8080)
    <3>1. config.metricsPort = IF file.metricsPort = 0 THEN 8080 ELSE file.metricsPort
      BY <2>1, DefaultMetricsPort
    <3> QED
      BY <2>3, <2>4, <3>1, PortPasses DEF TCPPort
  <2>7. BothPortsUsed
    BY <2>5, <2>6 DEF BothPortsUsed
  <2>8. ASSUME NEW k \in Indices
        PROVE  file.outputs[k].http # Nil /\ file.outputs[k].http.url \notin {"", " "}
    <3>1. k \in DOMAIN file.outputs
      BY <2>1, FieldTypes, LenProperties DEF Indices
    <3>2. file.outputs[k].http # Nil /\ TrimSpace(file.outputs[k].http.url) = "https"
      BY <2>2, <3>1, Zenon DEF HTTPOk, validateOutputHTTP
    <3>3. TrimSpace("") # "https" /\ TrimSpace(" ") # "https"
      BY DEF TrimSpace
    <3> QED
      BY <3>2, <3>3, Zenon
  <2> QED
    BY <2>2, <2>3, <2>7, <2>8, Zenon DEF AcceptedIsUsable
<1> QED
  BY <1>1, Invariance, PTL DEF IInv

\* An output keeps its HTTP section, and only an empty delivery mode changes.
LEMMA ConfigOutput ==
  ASSUME InputInv, Accepted, NEW o \in Indices
  PROVE  /\ config.outputs[o].http = file.outputs[o].http
         /\ config.outputs[o].mode = "Guaranteed" => file.outputs[o].mode \in {"", "Guaranteed"}
<1>1. config.outputs = SetDefaults_Outputs(file.outputs) /\ file.outputs \in Seq(Output)
  BY DefaultOutputList, FieldTypes DEF InputInv, Accepted
<1>2. o \in DOMAIN file.outputs
  BY <1>1, LenProperties DEF Indices
<1> DEFINE fs == file.outputs
<1>3. fs \in Seq(Output) /\ o \in DOMAIN fs
  BY <1>1, <1>2
<1>4. config.outputs = SetDefaults_Outputs(fs)
  BY <1>1
<1> HIDE DEF fs
<1>5. /\ SetDefaults_Outputs(fs)[o].http = fs[o].http
      /\ SetDefaults_Outputs(fs)[o].mode =
           IF fs[o].mode = "" THEN IF Len(fs) = 1 THEN "Guaranteed" ELSE "BestEffort"
                              ELSE fs[o].mode
  BY <1>3, DefaultOutputs
<1>6. SetDefaults_Outputs(fs)[o].mode = "Guaranteed" => fs[o].mode \in {"", "Guaranteed"}
  BY <1>5
<1> QED
  BY <1>4, <1>5, <1>6, Zenon DEF fs

\* Once the handler exists it forwards to every output of the file, once, in
\* order and with one Guaranteed output, and every watcher runs
\* (factory.go, options.go, validation.go, handler.go).
THEOREM OutputsAsConfiguredCorrect == Spec => []OutputsAsConfigured
<1>1. IInv => OutputsAsConfigured
  <2> SUFFICES ASSUME IInv, pc = "serving"
               PROVE  /\ Len(guaranteed) = 1
                      /\ file.outputs[guaranteed[1]].mode \in {"", "Guaranteed"}
                      /\ Range(guaranteed) \union Range(bestEffort) = Indices
                      /\ Len(bestEffort) = Len(file.outputs) - 1
                      /\ \A x, y \in DOMAIN bestEffort : x < y => bestEffort[x] < bestEffort[y]
                      /\ open = {o \in Indices : Watched(file.outputs[o].http)}
                      /\ {o \in Indices : profile[o] = WithOptions} = Range(bestEffort)
    BY Zenon DEF OutputsAsConfigured, IInv, BuildInv
  <2> DEFINE os == config.outputs
             G == Chosen(os, "Guaranteed", Len(os) + 1)
             B == Chosen(os, "BestEffort", Len(os) + 1)
  <2>1. InputInv /\ Accepted /\ BuildTypes
    BY DEF IInv, Accepted
  <2>2. /\ Lists(guaranteed, G) /\ Lists(bestEffort, B)
        /\ open = WatchedIn(os, Range(guaranteed) \union Range(bestEffort))
    BY DEF IInv, BuildInv, Last
  <2>3. Len(os) = Len(file.outputs) /\ Len(os) \in Nat /\ Indices = 1..Len(os)
    BY <2>1, SameOutputs DEF Indices
  <2>4. Cardinality(G) = 1 /\ B = (1..Len(os)) \ G /\ G \subseteq 1..Len(os)
    <3>1. os \in Seq(Output) /\ validateOutputs(os) /\ \A k \in DOMAIN os : os[k].mode # ""
      BY <2>1, AcceptedOutputs, Zenon
    <3> HIDE DEF os
    <3> QED
      BY <3>1, OneGuaranteed, Zenon
  <2>5. \A k \in G : os[k].mode = "Guaranteed"
    BY Zenon DEF Chosen
  <2> HIDE DEF os, G, B
  <2>6. PICK g : G = {g}
    BY <2>2, <2>4, FS_Singleton DEF Lists
  <2>7. Len(guaranteed) = 1
    BY <2>2, <2>4 DEF Lists
  <2>8. guaranteed[1] = g
    <3>1. DOMAIN guaranteed = 1..Len(guaranteed)
      BY <2>1, LenProperties DEF BuildTypes
    <3>2. 1 \in DOMAIN guaranteed
      BY <2>7, <3>1
    <3> QED
      BY <2>2, <2>6, <3>2 DEF Lists, Range
  <2>9. g \in Indices /\ os[g].mode = "Guaranteed"
    BY <2>3, <2>4, <2>5, <2>6
  <2>10. file.outputs[guaranteed[1]].mode \in {"", "Guaranteed"}
    BY <2>1, <2>8, <2>9, ConfigOutput DEF os
  <2>11. Range(guaranteed) \union Range(bestEffort) = Indices
    BY <2>2, <2>3, <2>4 DEF Lists
  <2>12. Len(bestEffort) = Len(file.outputs) - 1
    <3>1. IsFiniteSet(1..Len(os)) /\ Cardinality(1..Len(os)) = Len(os)
      BY <2>3, FirstNumbers, Zenon
    <3>2. B = (1..Len(os)) \ {g} /\ g \in 1..Len(os)
      BY <2>4, <2>6
    <3>3. Cardinality(B) = Len(os) - 1
      BY <3>1, <3>2, FS_RemoveElement
    <3> QED
      BY <2>2, <2>3, <3>3 DEF Lists
  <2>13. open = {o \in Indices : Watched(file.outputs[o].http)}
    <3>1. open = {o \in Indices : Watched(os[o].http)}
      BY <2>2, <2>11, Zenon DEF WatchedIn
    <3>2. \A o \in Indices : os[o].http = file.outputs[o].http
      BY <2>1, ConfigOutput DEF os
    <3> QED
      BY <3>1, <3>2
  <2>14. {o \in Indices : profile[o] = WithOptions} = Range(bestEffort)
    <3>1. /\ \A o \in Range(guaranteed) : profile[o] = Profile("Guaranteed")
          /\ \A o \in Range(bestEffort) : profile[o] = Profile("BestEffort")
      BY DEF IInv, ProfileInv, Settings
    <3>2. Profile("BestEffort") = WithOptions /\ Profile("Guaranteed") # WithOptions
      BY DEF Profile, WithOptions
    <3>3. \A o : profile[o] = WithOptions /\ o \in Indices <=> o \in Range(bestEffort)
      BY <2>11, <3>1, <3>2, Zenon
    <3> QED
      BY <3>3, Zenon
  <2> QED
    BY <2>2, <2>7, <2>10, <2>11, <2>12, <2>13, <2>14 DEF Lists
<1> QED
  BY <1>1, Invariance, PTL

-----------------------------------------------------------------------------
(* What was validated is what is used.                                     *)

\* Without blanks around it, a URL that was accepted makes a request.
LEMMA UsedUrl ==
  ASSUME NEW h, h.url \in Urls, TrimSpace(h.url) = "https"
  PROVE  Padded(h.url) \/ RequestBuilds(h)
BY DEF Padded, RequestBuilds, TrimSpace, Urls

\* Without blanks around it, compression is used as it was validated.
LEMMA UsedCompression ==
  ASSUME NEW h, h.compression \in Compressions, TrimSpace(h.compression) \in {"", "gzip"}
  PROVE  Padded(h.compression) \/ Compresses(h) = (h.compression # "")
BY DEF Padded, Compresses, TrimSpace, Compressions

\* Without blanks around them, a certificate and a key are loaded together.
LEMMA UsedPair ==
  ASSUME NEW t \in ClientTLS, validateClientTLS(t), ~Padded(t.cert), ~Padded(t.key)
  PROVE  LoadsPair(t) = (t.cert # "" \/ t.key # "")
BY DEF ClientTLS, validateClientTLS, Padded, LoadsPair

\* Logging is what the file says, or the default.
LEMMA UsedLog ==
  ASSUME NEW c \in Config, c.level # "loud", c.format # "xml"
  PROVE  LET l == setupLogging(SetDefaults(c).level, SetDefaults(c).format)
         IN  c.level \in {"", l.level} /\ c.format \in {"", l.format}
<1> DEFINE level == SetDefaults(c).level
           format == SetDefaults(c).format
<1>1. level = IF c.level = "" THEN "info" ELSE c.level
  BY DefaultLevel
<1>2. format = IF c.format = "" THEN "json" ELSE c.format
  BY DefaultFormat
<1>3. c.level \in Levels /\ c.format \in Formats
  BY FieldTypes
<1> HIDE DEF level, format
<1>4. /\ setupLogging(level, format).level = IF level \in {"debug", "error"} THEN level ELSE "info"
      /\ setupLogging(level, format).format = IF format = "text" THEN "text" ELSE "json"
  BY DEF setupLogging
<1>5. c.level \in {"", setupLogging(level, format).level}
  BY <1>1, <1>3, <1>4 DEF Levels
<1>6. c.format \in {"", setupLogging(level, format).format}
  BY <1>2, <1>3, <1>4 DEF Formats
<1> QED
  BY <1>5, <1>6, Zenon DEF level, format

\* What validation accepts is what the logger, the server and the outputs use,
\* but for strings with blanks around them (validation.go, app.go, http.go).
THEOREM ValidatedIsUsedCorrect == Spec => []ValidatedIsUsed
<1>1. InputInv => ValidatedIsUsed
  <2> SUFFICES ASSUME InputInv, pc = "serving" PROVE ValidatedIsUsed
    BY DEF ValidatedIsUsed
  <2>1. /\ file \in Config /\ config = SetDefaults(file)
        /\ ValidateAuditlogForwarder(SetDefaults(file))
        /\ logger = setupLogging(SetDefaults(file).level, SetDefaults(file).format)
        /\ clientAuth = (SetDefaults(file).tls.clientCA # "")
    BY DEF InputInv, Accepted
  <2>2. FieldsOk(file) /\ HTTPOk(file.outputs)
    BY <2>1, AcceptedPasses, Zenon DEF Passes
  <2>3. file.level \in {"", logger.level} /\ file.format \in {"", logger.format}
    <3>1. file.level # "loud" /\ file.format # "xml"
      BY <2>2, Zenon DEF FieldsOk
    <3> QED
      BY <2>1, <3>1, UsedLog, Zenon
  <2>4. clientAuth = (TrimSpace(file.tls.clientCA) # "")
    <3>1. file.tls.clientCA \in Paths /\ file.tls.clientCA # " "
      <4>1. file.tls \in [cert : Paths, key : Paths, clientCA : Paths]
        BY <2>1, FieldTypes
      <4>2. file.tls.clientCA # " "
        BY <2>2, Zenon DEF FieldsOk
      <4> QED
        BY <4>1, <4>2
    <3>2. \A p \in Paths : p # " " => (p # "") = (TrimSpace(p) # "")
      BY DEF Paths, TrimSpace
    <3>3. clientAuth = (file.tls.clientCA # "")
      BY <2>1, DefaultTLS, Zenon
    <3> QED
      BY <3>1, <3>2, <3>3, Zenon
  <2>5. ASSUME NEW o \in Indices
        PROVE  LET h == file.outputs[o].http IN
               /\ Padded(h.url) \/ RequestBuilds(h)
               /\ Padded(h.compression) \/ Compresses(h) = (h.compression # "")
               /\ h.tls # Nil /\ ~Padded(h.tls.cert) /\ ~Padded(h.tls.key) =>
                    LoadsPair(h.tls) = (h.tls.cert # "" \/ h.tls.key # "")
    <3> DEFINE h == file.outputs[o].http
    <3>1. file.outputs \in Seq(Output)
      BY <2>1, FieldTypes
    <3>2. DOMAIN file.outputs = 1..Len(file.outputs)
      BY <3>1, LenProperties
    <3>3. o \in DOMAIN file.outputs
      BY <3>2 DEF Indices
    <3>4. file.outputs[o] \in Output
      <4> DEFINE os == file.outputs
      <4>1. os \in Seq(Output) /\ o \in DOMAIN os
        BY <3>1, <3>3
      <4> HIDE DEF os
      <4>2. os[o] \in Output
        BY <4>1
      <4> QED
        BY <4>2 DEF os
    <3>5. h # Nil /\ validateOutputHTTP(h)
      BY <2>2, <3>3, Zenon DEF HTTPOk
    <3>6. h \in OutputHTTP
      BY <3>4, <3>5 DEF Output
    <3> HIDE DEF h
    <3>7. h.url \in Urls /\ h.tls \in ClientTLS \union {Nil} /\ h.compression \in Compressions
      BY <3>6 DEF OutputHTTP
    <3>8. /\ TrimSpace(h.url) = "https" /\ TrimSpace(h.compression) \in {"", "gzip"}
          /\ h.tls # Nil => validateClientTLS(h.tls)
      BY <3>5, Zenon DEF validateOutputHTTP
    <3>9. Padded(h.url) \/ RequestBuilds(h)
      BY <3>7, <3>8, UsedUrl, Zenon
    <3>10. Padded(h.compression) \/ Compresses(h) = (h.compression # "")
      BY <3>7, <3>8, UsedCompression, Zenon
    <3>11. h.tls # Nil /\ ~Padded(h.tls.cert) /\ ~Padded(h.tls.key) =>
             LoadsPair(h.tls) = (h.tls.cert # "" \/ h.tls.key # "")
      BY <3>7, <3>8, UsedPair, Zenon
    <3> QED
      BY <3>9, <3>10, <3>11, Zenon DEF h
  <2> QED
    BY <2>3, <2>4, <2>5, Zenon DEF ValidatedIsUsed
<1> QED
  BY <1>1, Invariance, PTL DEF IInv
==============================================================================
