------------------------------- MODULE Startup -------------------------------
(***************************************************************************)
(* From the configuration file to a running handler: RunE of app.go,       *)
(* Options.Complete, Validate and ApplyTo of options.go, the defaults and  *)
(* the validation of pkg/apis/config/v1alpha1, the output factory and      *)
(* audit.NewHandler.                                                       *)
(*                                                                         *)
(* A string of the configuration is abstracted to the class the code can   *)
(* tell apart: empty, blank, a good value, a good value with blanks around *)
(* it, a bad value.  Outputs are named by their index in the               *)
(* configuration.  Durations are in milliseconds.  A definition whose name *)
(* ends in _bug is a plausible mistake in the one that follows it.         *)
(***************************************************************************)
EXTENDS Integers, Sequences, FiniteSetsExt

CONSTANTS
  Configs,      \* the configurations the file may decode to
  Nil           \* a pointer of the configuration that is nil

Modes == {"", "Guaranteed", "BestEffort", "Sometimes"}
Paths == {"", " ", "path"}
Urls == {"", " ", "https", " https ", "malformed", "http", "query", "fragment", "user"}
Compressions == {"", " ", "gzip", " gzip ", "zstd"}
Levels == {"", "debug", "info", "error", "loud"}
Formats == {"", "json", "text", "xml"}
Keys == {"team", "region", "bad key"}
Annotations == UNION {[K -> {"", " ", "red", " red "}] : K \in SUBSET Keys}

ClientTLS == [ca : Paths, cert : Paths, key : Paths]
OutputHTTP == [url : Urls, tls : ClientTLS \union {Nil}, compression : Compressions]
Output == [mode : Modes, http : OutputHTTP \union {Nil}]
Config ==
  [level : Levels, format : Formats,
   port : Int, metricsPort : Int,
   tls : [cert : Paths, key : Paths, clientCA : Paths],
   outputs : Seq(Output), annotations : Annotations]

ASSUME ConfigsAssumption == Configs \subseteq Config

VARIABLES
  file,         \* what the configuration file holds
  config,       \* opt.Config
  logger,       \* the level and the format of log
  pc,           \* where RunE is
  mode,         \* deliveryMode of the factory call in progress
  next,         \* the output its loop looks at next
  outputs,      \* outputs of the factory call
  guaranteed,   \* guaranteedOutputs of ApplyTo, then conf.OutputsGuaranteed
  bestEffort,   \* conf.OutputsBestEffort
  profile,      \* profile[o]: the retry settings http.New gave to output o
  open,         \* the outputs that hold a file watcher and its goroutine
  clientAuth,   \* tlsConfig.ClientAuth is RequireAndVerifyClientCert
  processors    \* the processors handed to NewHandler

vars == <<file, config, logger, pc, mode, next, outputs, guaranteed, bestEffort,
          profile, open, clientAuth, processors>>

-----------------------------------------------------------------------------
(* Defaults: defaults.go.                                                  *)

\* A single output is not treated specially.
SetDefaults_Outputs_bug(os) ==
  [k \in DOMAIN os |->
     [os[k] EXCEPT !.mode = IF @ = "" THEN "BestEffort" ELSE @]]

\* A single output is Guaranteed, one of several BestEffort.
SetDefaults_Outputs(os) ==
  LET default == IF Len(os) = 1 THEN "Guaranteed" ELSE "BestEffort"
  IN  [k \in DOMAIN os |-> [os[k] EXCEPT !.mode = IF @ = "" THEN default ELSE @]]

SetDefaults(c) ==
  [c EXCEPT !.level = IF @ = "" THEN "info" ELSE @,
            !.format = IF @ = "" THEN "json" ELSE @,
            !.port = IF @ = 0 THEN 10443 ELSE @,
            !.metricsPort = IF @ = 0 THEN 8080 ELSE @,
            !.outputs = SetDefaults_Outputs(@)]

-----------------------------------------------------------------------------
(* Validation: validation.go.  Each operator is true when the list of      *)
(* errors of the function it is named after is empty.                      *)

TrimSpace(s) ==
  CASE s = " " -> ""
    [] s = " https " -> "https"
    [] s = " gzip " -> "gzip"
    [] s = " red " -> "red"
    [] OTHER -> s

validateLogConfiguration(c) ==
  /\ c.level \in Levels \ {"loud"}
  /\ c.format \in Formats \ {"xml"}

validateTLS(t) ==
  /\ TrimSpace(t.cert) # ""
  /\ TrimSpace(t.key) # ""
  /\ t.clientCA = "" \/ TrimSpace(t.clientCA) # ""

\* One too many.
InPortRange_bug(p) == 0 <= p /\ p <= 65536

InPortRange(p) == 0 <= p /\ p <= 65535

validateServer(c) ==
  /\ c.port # 0 /\ InPortRange(c.port)
  /\ c.metricsPort # 0 /\ InPortRange(c.metricsPort)
  /\ validateTLS(c.tls)

\* Only one of the two directions is checked.
validateClientTLS_bug(t) == TrimSpace(t.cert) # "" => TrimSpace(t.key) # ""

validateClientTLS(t) == (TrimSpace(t.cert) # "") = (TrimSpace(t.key) # "")

validateOutputHTTP(h) ==
  /\ TrimSpace(h.url) = "https"
  /\ h.tls # Nil => validateClientTLS(h.tls)
  /\ TrimSpace(h.compression) \in {"", "gzip"}

\* Any delivery mode passes.
validateOutput_bug(o) ==
  /\ o.http # Nil
  /\ validateOutputHTTP(o.http)

validateOutput(o) ==
  /\ o.mode # "" => o.mode \in {"Guaranteed", "BestEffort"}
  /\ o.http # Nil
  /\ validateOutputHTTP(o.http)

GuaranteedCount(os) == Cardinality({k \in DOMAIN os : os[k].mode = "Guaranteed"})

validateOutputs(os) ==
  /\ os # <<>>
  /\ \A k \in DOMAIN os : validateOutput(os[k])
  /\ IF Len(os) = 1 THEN os[1].mode = "Guaranteed" ELSE GuaranteedCount(os) = 1

validateInjectAnnotations(as) ==
  \A k \in DOMAIN as : k # "bad key" /\ TrimSpace(as[k]) # ""

ValidateAuditlogForwarder(c) ==
  /\ validateLogConfiguration(c)
  /\ validateServer(c)
  /\ validateOutputs(c.outputs)
  /\ validateInjectAnnotations(c.annotations)

\* setupLogging of app.go: what is not one of the other values is the default.
setupLogging(level, format) ==
  [level |-> IF level \in {"debug", "error"} THEN level ELSE "info",
   format |-> IF format = "text" THEN "text" ELSE "json"]

-----------------------------------------------------------------------------
Init ==
  /\ file \in Configs
  /\ config = file
  /\ logger = [level |-> "", format |-> ""]
  /\ pc = "complete"
  /\ mode = "Guaranteed"
  /\ next = 1
  /\ outputs = <<>>
  /\ guaranteed = <<>>
  /\ bestEffort = <<>>
  /\ profile = [o \in {} |-> 0]
  /\ open = {}
  /\ clientAuth = FALSE
  /\ processors = 0

Goto(from, to) == pc = from /\ pc' = to

given == <<file, config, logger>>
built == <<mode, next, outputs, guaranteed, bestEffort, profile, open>>

\* The file is read and decoded, and the decoder applies the defaults.
Complete ==
  /\ Goto("complete", "validate")
  /\ config' = SetDefaults(file)
  /\ UNCHANGED <<file, logger, built, clientAuth, processors>>

\* There is no file, or it cannot be read or decoded.
CompleteFails ==
  /\ Goto("complete", "exit")
  /\ UNCHANGED <<given, built, clientAuth, processors>>

\* The configuration is valid, and logging is set up as it says.
Validate ==
  /\ ValidateAuditlogForwarder(config)
  /\ Goto("validate", "applyServing")
  /\ logger' = setupLogging(config.level, config.format)
  /\ UNCHANGED <<file, config, built, clientAuth, processors>>

ValidateFails ==
  /\ ~ValidateAuditlogForwarder(config)
  /\ Goto("validate", "invalid")
  /\ UNCHANGED <<given, built, clientAuth, processors>>

\* The server's key pair and, when one is configured, the client CA load.
ApplyServing ==
  /\ Goto("applyServing", "factory")
  /\ clientAuth' = (config.tls.clientCA # "")
  /\ UNCHANGED <<given, built, processors>>

\* A file is missing or does not hold what it should.
ApplyServingFails ==
  /\ Goto("applyServing", "exit")
  /\ UNCHANGED <<given, built, clientAuth, processors>>

-----------------------------------------------------------------------------
(* The factory, called once for each delivery mode, and http.New.          *)

\* The options ApplyTo passes for BestEffort outputs.
WithOptions == [maxSendAttempts |-> 6, baseBackoff |-> 1000, maxBackoff |-> 6000]

\* The settings of New, overridden by the options.
Profile(m) ==
  IF m = "BestEffort"
  THEN WithOptions
  ELSE [maxSendAttempts |-> 4, baseBackoff |-> 500, maxBackoff |-> 3000]

\* The files startTLSWatcher finds; with none it starts no watcher.
Watched(h) == h.tls # Nil /\ \E f \in {"ca", "cert", "key"} : h.tls[f] # ""

InFactory == pc = "factory" /\ next <= Len(config.outputs)

Selected(o) == config.outputs[o].http # Nil /\ config.outputs[o].mode = mode

\* An output of the other delivery mode is passed over.
Skip ==
  /\ InFactory
  /\ ~Selected(next)
  /\ next' = next + 1
  /\ UNCHANGED <<given, pc, mode, outputs, guaranteed, bestEffort,
                 profile, open, clientAuth, processors>>

New ==
  /\ InFactory
  /\ Selected(next)
  /\ outputs' = Append(outputs, next)
  /\ profile' = [o \in DOMAIN profile \union {next} |->
                   IF o = next THEN Profile(mode) ELSE profile[o]]
  /\ open' = IF Watched(config.outputs[next].http) THEN open \union {next} ELSE open
  /\ next' = next + 1
  /\ UNCHANGED <<given, pc, mode, guaranteed, bestEffort, clientAuth, processors>>

\* A credential file does not load, or its directory cannot be watched: the
\* factory closes the outputs it has built and returns none.
NewFails ==
  /\ InFactory
  /\ Selected(next)
  /\ Watched(config.outputs[next].http)
  /\ pc' = "factoryErr"
  /\ open' = open \ Range(outputs)
  /\ outputs' = <<>>
  /\ UNCHANGED <<given, mode, next, guaranteed, bestEffort, profile,
                 clientAuth, processors>>

FactoryDone == pc = "factory" /\ next > Len(config.outputs)

\* The loop starts one too early.
FactoryCall_bug(m) == mode' = m /\ next' = 0 /\ outputs' = <<>>

FactoryCall(m) == mode' = m /\ next' = 1 /\ outputs' = <<>>

\* The first call returned: the outputs of the second are made.
GuaranteedBuilt ==
  /\ FactoryDone
  /\ mode = "Guaranteed"
  /\ guaranteed' = outputs
  /\ FactoryCall("BestEffort")
  /\ UNCHANGED <<given, pc, bestEffort, profile, open, clientAuth, processors>>

\* The second call returned, and ApplyTo with it.
BestEffortBuilt ==
  /\ FactoryDone
  /\ mode = "BestEffort"
  /\ bestEffort' = outputs
  /\ outputs' = <<>>
  /\ pc' = "newHandler"
  /\ UNCHANGED <<given, mode, next, guaranteed, profile, open, clientAuth, processors>>

\* ApplyTo returns the error of the second call as it does that of the first.
ApplyToFails_bug ==
  /\ Goto("factoryErr", "exit")
  /\ UNCHANGED <<given, built, clientAuth, processors>>

\* A factory call failed; ApplyTo closes the outputs of the first call, none
\* when it is the first that failed, and returns the error.
ApplyToFails ==
  /\ Goto("factoryErr", "exit")
  /\ open' = open \ Range(guaranteed)
  /\ UNCHANGED <<given, mode, next, outputs, guaranteed, bestEffort,
                 profile, clientAuth, processors>>

\* run starts: it adds the injector if there are annotations to inject and
\* creates the handler.  Without a Guaranteed output NewHandler fails, and run
\* returns before it has deferred closeOutputs.
NewHandler ==
  /\ Goto("newHandler", IF guaranteed = <<>> THEN "noHandler" ELSE "serving")
  /\ processors' = IF DOMAIN config.annotations = {} THEN 0 ELSE 1
  /\ UNCHANGED <<given, built, clientAuth>>

\* Everything RunE does before it calls run.
Prepare ==
  \/ Complete \/ CompleteFails
  \/ Validate \/ ValidateFails
  \/ ApplyServing \/ ApplyServingFails
  \/ Skip \/ New \/ NewFails
  \/ GuaranteedBuilt \/ BestEffortBuilt
  \/ ApplyToFails

Next == Prepare \/ NewHandler

Spec == Init /\ [][Next]_vars

-----------------------------------------------------------------------------
(* Properties.                                                             *)

Indices == 1..Len(file.outputs)

\* Every variable of the start-up path has the type the code gives it.
TypeOK ==
  /\ file \in Config /\ config \in Config
  /\ logger \in [level : Levels, format : Formats]
  /\ pc \in {"complete", "validate", "invalid", "applyServing", "factory",
             "factoryErr", "newHandler", "noHandler", "serving", "exit"}
  /\ mode \in {"Guaranteed", "BestEffort"}
  /\ next \in 1..Len(file.outputs) + 1
  /\ outputs \in Seq(Indices)
  /\ guaranteed \in Seq(Indices)
  /\ bestEffort \in Seq(Indices)
  /\ DOMAIN profile \subseteq Indices
  /\ open \subseteq Indices
  /\ clientAuth \in BOOLEAN
  /\ processors \in {0, 1}

\* The outputs some variable in scope still refers to; none once RunE returned.
Held ==
  IF pc \in {"invalid", "exit", "noHandler"}
  THEN {}
  ELSE Range(outputs) \union Range(guaranteed) \union Range(bestEffort)

\* However start-up fails (factory.go, ApplyTo), no file watcher and no
\* watcher goroutine is left that nobody can close any more: the outputs that
\* were built before the one that failed, in this factory call and in the
\* earlier one, are closed.
NothingLeaks == open \subseteq Held

\* Once the handler exists it forwards to every output of the configuration
\* file, to each one once and in the order of the file, to exactly one of them
\* as Guaranteed, each one with credential files has its watcher, and the
\* BestEffort ones alone have the longer retries of options.go:110-118; a
\* configuration that was accepted never leaves NewHandler without a
\* Guaranteed output, an error path on which run closes nothing.
OutputsAsConfigured ==
  /\ pc # "noHandler"
  /\ pc = "serving" =>
       /\ Len(guaranteed) = 1
       /\ file.outputs[guaranteed[1]].mode \in {"", "Guaranteed"}
       /\ Range(guaranteed) \union Range(bestEffort) = Indices
       /\ Len(bestEffort) = Len(file.outputs) - 1
       /\ \A i, j \in DOMAIN bestEffort : i < j => bestEffort[i] < bestEffort[j]
       /\ open = {o \in Indices : Watched(file.outputs[o].http)}
       /\ {o \in Indices : profile[o] = WithOptions} = Range(bestEffort)

\* The delivery modes types.go documents for the outputs of a file.
DocumentedModes(os) ==
  \/ Len(os) = 1 /\ os[1].mode \in {"", "Guaranteed"}
  \/ \E k \in DOMAIN os :
       /\ Len(os) > 1
       /\ os[k].mode = "Guaranteed"
       /\ \A j \in DOMAIN os \ {k} : os[j].mode \in {"", "BestEffort"}

\* The credential files of an output: all are optional, a client certificate
\* and its key come together.
DocumentedTLS(t) ==
  t # Nil => <<t.cert, t.key>> \in {<<"", "">>, <<"path", "path">>}

\* The HTTP section of an output: the endpoint is required.
DocumentedHTTP(h) ==
  /\ h # Nil
  /\ h.url = "https" /\ h.compression \in {"", "gzip"} /\ DocumentedTLS(h.tls)

\* A number a TCP socket can be bound to.
TCPPort(p) == 0 < p /\ p < 65536

\* A file that keeps to types.go with plain values.  What types.go calls
\* optional may be left out, what it lists ("must be one of") is one of the
\* list, the rest is given: a TCP port, a path, an https endpoint that is
\* nothing but host and path, an annotation with a name and a value.
Documented(c) ==
  /\ c.level \in {"", "debug", "info", "error"}
  /\ c.format \in {"", "json", "text"}
  /\ c.port = 0 \/ TCPPort(c.port)
  /\ c.metricsPort = 0 \/ TCPPort(c.metricsPort)
  /\ c.tls.cert = "path" /\ c.tls.key = "path" /\ c.tls.clientCA \in {"", "path"}
  /\ DocumentedModes(c.outputs)
  /\ \A k \in DOMAIN c.outputs : DocumentedHTTP(c.outputs[k].http)
  /\ \A k \in DOMAIN c.annotations :
       k \in {"team", "region"} /\ c.annotations[k] = "red"

\* Defaults and validation together (defaults.go, validation.go) never reject
\* a file that keeps to types.go: a value that was left out is not taken for
\* a wrong one, and no delivery mode that types.go allows is refused.  This
\* does not say what else is accepted.
DocumentedIsAccepted == pc = "invalid" => ~Documented(file)

\* The configuration was accepted, and RunE has not returned yet.
Accepted ==
  pc \in {"applyServing", "factory", "factoryErr", "newHandler", "noHandler", "serving"}

\* p is the port a server gets when the file says f: the number in the file,
\* the default when there is none, and one a TCP socket can be bound to.
PortUsed(p, f, default) == TCPPort(p) /\ p = IF f = 0 THEN default ELSE f

BothPortsUsed ==
  /\ PortUsed(config.port, file.port, 10443)
  /\ PortUsed(config.metricsPort, file.metricsPort, 8080)

\* The converse, as far as the parts that use the configuration depend on it:
\* once a file was accepted both servers have a port, the one of the file or
\* the default of types.go, the files and endpoints types.go does not call
\* optional were given, and the delivery modes are those it allows.
AcceptedIsUsable ==
  Accepted =>
    /\ BothPortsUsed
    /\ file.tls.cert = "path" /\ file.tls.key = "path"
    /\ DocumentedModes(file.outputs)
    /\ \A k \in Indices :
         file.outputs[k].http # Nil /\ file.outputs[k].http.url \notin {"", " "}

-----------------------------------------------------------------------------
(* What New and Send make of an output (http.go).                          *)

\* http.NewRequestWithContext parses the URL as it was written.
RequestBuilds(h) == h.url \notin {" https ", "malformed"}

Compresses(h) == h.compression = "gzip"

LoadsPair(t) == t.cert # "" /\ t.key # ""

Padded(s) == TrimSpace(s) # s

\* What validation accepts is what is used, in all but one case: a string with
\* blanks around it, which validation trims (validation.go:89-106, 189, 219,
\* 233) and the code that uses it does not.  Without such strings every output
\* can build its requests, compresses exactly when it was told to and loads
\* the whole key pair when a part of one is configured; a client CA is
\* enforced, and logs have the configured level and format.
ValidatedIsUsed ==
  pc = "serving" =>
    /\ file.level \in {"", logger.level} /\ file.format \in {"", logger.format}
    /\ clientAuth = (TrimSpace(file.tls.clientCA) # "")
    /\ \A o \in Indices :
         LET h == file.outputs[o].http IN
         /\ Padded(h.url) \/ RequestBuilds(h)
         /\ Padded(h.compression) \/ Compresses(h) = (h.compression # "")
         /\ h.tls # Nil /\ ~Padded(h.tls.cert) /\ ~Padded(h.tls.key) =>
              LoadsPair(h.tls) = (h.tls.cert # "" \/ h.tls.key # "")
=============================================================================
