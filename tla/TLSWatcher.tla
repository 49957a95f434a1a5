----------------------------- MODULE TLSWatcher -----------------------------
(***************************************************************************)
(* The TLS credentials of an HTTP output, internal/output/http/http.go:    *)
(* New loads them and starts the file watcher, watchTLSFiles debounces the *)
(* events and rebuilds the client, Close stops the watcher.                *)
(*                                                                         *)
(* The content of a credential file is the generation of the key material  *)
(* it belongs to, or Bad (missing, truncated, unparsable).  Every          *)
(* generation has its own key pair, so a certificate and a key match       *)
(* exactly when their generations are equal.  A client is the function of  *)
(* the contents it was built from.  A definition whose name ends in _bug   *)
(* is a plausible mistake in the one that follows it; the properties are   *)
(* shown to notice it.                                                     *)
(***************************************************************************)
EXTENDS Integers, FiniteSets

CONSTANTS
  Configured,   \* the files of {"ca", "cert", "key"} that the ClientTLS names
  DirOf,        \* DirOf[f]: the parent directory of file f
  Closers,      \* the callers of Close
  QueueLimit,   \* bound: events the kernel queues before it drops one
  MaxWrites     \* bound: how often the files are changed

Files == {"ca", "cert", "key"}
Bad   == -1

ASSUME WatcherAssumption ==
  /\ Configured \subseteq Files
  /\ DirOf \in [Files -> STRING]
  /\ QueueLimit \in Nat \ {0}
  /\ MaxWrites \in Nat

\* tlsDirectories.
tlsDirectories == {DirOf[f] : f \in Configured}

\* The files createHTTPClient loads: the pair only when both are named.
Loaded == (Configured \cap {"ca"})
            \cup (IF {"cert", "key"} \subseteq Configured THEN {"cert", "key"} ELSE {})

Contents == {Bad} \cup 0 .. MaxWrites

VARIABLES
  disk,       \* disk[f]: the content of file f
  writes,     \* how often the files have been changed
  client,     \* what o.client was built from
  read,       \* what createHTTPClient has read so far
  left,       \* the files createHTTPClient has still to read
  loop,       \* where New and then the watcher goroutine is
  watched,    \* the directories added to the watcher
  events,     \* queued events that indicate changed content
  noise,      \* queued events that do not (chmod)
  watchErr,   \* a queued error of the watcher
  timer,      \* debounceTimer: "stopped", "running", or "fired" and not received
  debounceC,  \* debounceC # nil
  stopping,   \* of {"ctx", "closed"}: ctx cancelled, watcher closed
  once,       \* o.closeOnce
  closer,     \* closer[k]: where caller k of Close is
  unseen      \* history: a file changed between New's reading it and watching
              \* its directory, or with the queue full of chmod events, and
              \* nothing was reloaded since

diskVars  == <<disk, writes, unseen>>
queueVars == <<events, noise, watchErr>>
timerVars == <<timer, debounceC>>
closeVars == <<stopping, once, closer>>
loadVars  == <<client, read, left>>
vars == <<diskVars, queueVars, timerVars, closeVars, loadVars, loop, watched>>

Init ==
  /\ disk = [f \in Files |-> 0]
  /\ writes = 0
  /\ client = disk /\ read = disk
  /\ left = Loaded
  /\ loop = "creating"
  /\ watched = {}
  /\ events = 0 /\ noise = 0 /\ watchErr = FALSE
  /\ timer = "stopped" /\ debounceC = FALSE
  /\ stopping = {}
  /\ once = "new"
  /\ closer = [k \in Closers |-> "no"]
  /\ unseen = FALSE

-----------------------------------------------------------------------------
(* The files change: several at once (an atomic symlink swap) or one by    *)
(* one, to a new generation, to one that another file has, or to something *)
(* unusable.                                                               *)

Versions == {Bad, writes + 1} \cup {disk[f] : f \in Files}

\* Is anybody reading the queue of the watcher?
Queueing == watched # {} /\ "closed" \notin stopping /\ loop # "failed"

\* The kernel drops an event for which its queue has no room, and says so.
Full == events + noise = QueueLimit

Write(F, v) ==
  /\ writes < MaxWrites
  /\ \E f \in F : disk[f] # v
  /\ writes' = writes + 1
  /\ disk' = [f \in Files |-> IF f \in F THEN v ELSE disk[f]]
  /\ LET seen == Queueing /\ \E f \in F : DirOf[f] \in watched
     IN /\ events' = IF seen /\ ~Full THEN events + 1 ELSE events
        /\ watchErr' = (watchErr \/ (seen /\ Full))
        /\ unseen' = \/ unseen
                     \/ seen /\ Full /\ events = 0
                     \/ /\ loop \in {"creating", "adding"}
                        /\ \E f \in F \ left : DirOf[f] \notin watched
  /\ UNCHANGED <<noise, timerVars, closeVars, loadVars, loop, watched>>

Chmod ==
  /\ Queueing
  /\ \/ ~Full /\ noise' = noise + 1 /\ UNCHANGED watchErr
     \/ Full /\ watchErr' = TRUE /\ UNCHANGED noise
  /\ UNCHANGED <<diskVars, events, timerVars, closeVars, loadVars, loop, watched>>

-----------------------------------------------------------------------------
(* createHTTPClient, called by New ("creating") and reloadTLSClient.       *)

NextFile == CASE "ca" \in left -> "ca" [] "cert" \in left -> "cert" [] OTHER -> "key"

Loading == loop \in {"creating", "reloading"}

\* Nothing is made of a file that cannot be read or parsed.
Readable_bug(f) == TRUE

Readable(f) == disk[f] # Bad

ReadFile ==
  /\ Loading
  /\ left # {}
  /\ Readable(NextFile)
  /\ read' = [read EXCEPT ![NextFile] = disk[NextFile]]
  /\ left' = left \ {NextFile}
  /\ UNCHANGED <<diskVars, queueVars, timerVars, closeVars, client, loop, watched>>

\* tls.LoadX509KeyPair rejects a key that does not belong to the certificate.
Mismatch(m) == {"cert", "key"} \subseteq Loaded /\ m["cert"] # m["key"]

\* Swaps in whatever was read, also after a failure.
LoadFails_bug ==
  /\ Loading
  /\ (left # {} /\ ~Readable(NextFile)) \/ (left = {} /\ Mismatch(read))
  /\ loop' = IF loop = "creating" THEN "failed" ELSE "select"
  /\ client' = read
  /\ UNCHANGED <<diskVars, queueVars, timerVars, closeVars, read, left, watched>>

\* New returns the error; reloadTLSClient logs it and keeps the client.
LoadFails ==
  /\ Loading
  /\ (left # {} /\ ~Readable(NextFile)) \/ (left = {} /\ Mismatch(read))
  /\ loop' = IF loop = "creating" THEN "failed" ELSE "select"
  /\ UNCHANGED <<diskVars, queueVars, timerVars, closeVars, loadVars, watched>>

\* The new client is stored.  New goes on to startTLSWatcher, which does
\* nothing when there is no directory to watch.
LoadSucceeds ==
  /\ Loading
  /\ left = {}
  /\ ~Mismatch(read)
  /\ client' = read
  /\ loop' = IF loop = "reloading" THEN "select"
             ELSE IF tlsDirectories = {} THEN "none" ELSE "adding"
  /\ UNCHANGED <<diskVars, queueVars, timerVars, closeVars, read, left, watched>>

-----------------------------------------------------------------------------
(* startTLSWatcher.                                                        *)

AddWatch(d) ==
  /\ loop = "adding"
  /\ d \notin watched
  /\ watched' = watched \cup {d}
  /\ UNCHANGED <<diskVars, queueVars, timerVars, closeVars, loadVars, loop>>

\* fsnotify.NewWatcher or watcher.Add fails: New returns the error.
StartFails ==
  /\ loop = "adding"
  /\ watched # tlsDirectories
  /\ loop' = "failed"
  /\ UNCHANGED <<diskVars, queueVars, timerVars, closeVars, loadVars, watched>>

\* New returns and the goroutine enters its loop, the timer stopped.
StartLoop ==
  /\ loop = "adding"
  /\ watched = tlsDirectories
  /\ loop' = "select"
  /\ UNCHANGED <<diskVars, queueVars, timerVars, closeVars, loadVars, watched>>

-----------------------------------------------------------------------------
(* watchTLSFiles.  Stop returns true for a timer that runs or has fired    *)
(* without being received; otherwise the receive that follows it blocks    *)
(* for ever ("blocked").                                                   *)

StopBlocks == debounceC /\ timer = "stopped"

\* The filter does not know the kind of event that a rotation raises.
TakeEvent_bug ==
  /\ loop = "select"
  /\ events > 0
  /\ events' = events - 1
  /\ UNCHANGED <<diskVars, noise, watchErr, timerVars, closeVars, loadVars, loop, watched>>

\* A qualifying event (re)arms the debounce timer.
TakeEvent ==
  /\ loop = "select"
  /\ events > 0
  /\ events' = events - 1
  /\ IF StopBlocks
     THEN loop' = "blocked" /\ UNCHANGED timerVars
     ELSE timer' = "running" /\ debounceC' = TRUE /\ UNCHANGED loop
  /\ UNCHANGED <<diskVars, noise, watchErr, closeVars, loadVars, watched>>

TakeNoise ==
  /\ loop = "select"
  /\ noise > 0
  /\ noise' = noise - 1
  /\ UNCHANGED <<diskVars, events, watchErr, timerVars, closeVars, loadVars, loop, watched>>

\* An error of the watcher is logged.
TakeError ==
  /\ loop = "select"
  /\ watchErr
  /\ watchErr' = FALSE
  /\ UNCHANGED <<diskVars, events, noise, timerVars, closeVars, loadVars, loop, watched>>

TimerFires ==
  /\ timer = "running"
  /\ timer' = "fired"
  /\ UNCHANGED <<diskVars, queueVars, debounceC, closeVars, loadVars, loop, watched>>

\* debounceC stays set after the receive.
TakeDebounce_bug ==
  /\ loop = "select"
  /\ debounceC
  /\ timer = "fired"
  /\ timer' = "stopped"
  /\ loop' = "reloading"
  /\ left' = Loaded
  /\ unseen' = FALSE
  /\ UNCHANGED <<disk, writes, queueVars, debounceC, closeVars, client, read, watched>>

\* The debounce fires: reloadTLSClient starts.
TakeDebounce ==
  /\ loop = "select"
  /\ debounceC
  /\ timer = "fired"
  /\ timer' = "stopped"
  /\ debounceC' = FALSE
  /\ loop' = "reloading"
  /\ left' = Loaded
  /\ unseen' = FALSE
  /\ UNCHANGED <<disk, writes, queueVars, closeVars, client, read, watched>>

\* The closed channels of the watcher are not noticed.
StopRequested_bug == "ctx" \in stopping

StopRequested == stopping # {}

\* ctx is done or the channels of the watcher are closed: the goroutine ends
\* and its deferred function stops the timer.
Exit ==
  /\ loop = "select"
  /\ StopRequested
  /\ IF StopBlocks
     THEN loop' = "blocked" /\ UNCHANGED timerVars
     ELSE loop' = "exited" /\ timer' = "stopped" /\ UNCHANGED debounceC
  /\ UNCHANGED <<diskVars, queueVars, closeVars, loadVars, watched>>

CancelContext ==
  /\ "ctx" \notin stopping
  /\ stopping' = stopping \cup {"ctx"}
  /\ UNCHANGED <<diskVars, queueVars, timerVars, once, closer, loadVars, loop, watched>>

-----------------------------------------------------------------------------
(* Close.                                                                  *)

NewReturned == loop \notin {"creating", "adding", "failed"}

\* Only the first call runs the function of closeOnce; a call that finds it
\* running waits for it.
Close(k) ==
  /\ NewReturned
  /\ closer[k] = "no"
  /\ \/ /\ once = "new"
        /\ once' = "running"
        /\ stopping' = stopping \cup {"closed"}
        /\ closer' = [closer EXCEPT ![k] = "first"]
     \/ /\ once # "new"
        /\ closer' = [closer EXCEPT ![k] = "later"]
        /\ UNCHANGED <<stopping, once>>
  /\ UNCHANGED <<diskVars, queueVars, timerVars, loadVars, loop, watched>>

\* Close does not wait for the goroutine.
WaitReturns_bug == TRUE

\* wg.Wait returns when there is no goroutine (any more).
WaitReturns == loop \in {"none", "exited"}

FirstCloseReturns(k) ==
  /\ closer[k] = "first"
  /\ WaitReturns
  /\ once' = "done"
  /\ closer' = [closer EXCEPT ![k] = "done"]
  /\ UNCHANGED <<diskVars, queueVars, timerVars, stopping, loadVars, loop, watched>>

LaterCloseReturns(k) ==
  /\ closer[k] = "later"
  /\ once = "done"
  /\ closer' = [closer EXCEPT ![k] = "done"]
  /\ UNCHANGED <<diskVars, queueVars, timerVars, stopping, once, loadVars, loop, watched>>

-----------------------------------------------------------------------------
Load == ReadFile \/ LoadFails \/ LoadSucceeds
Goroutine == Load \/ StartLoop \/ (\E d \in tlsDirectories : AddWatch(d))
               \/ TakeEvent \/ TakeDebounce
Returns(k) == FirstCloseReturns(k) \/ LaterCloseReturns(k)

Next ==
  \/ \E F \in (SUBSET Configured) \ {{}}, v \in Versions : Write(F, v)
  \/ Chmod
  \/ Goroutine
  \/ StartFails
  \/ TakeNoise \/ TakeError
  \/ TimerFires
  \/ Exit
  \/ CancelContext
  \/ \E k \in Closers : Close(k) \/ Returns(k)

Spec == Init /\ [][Next]_vars

\* The goroutine runs, a running timer fires, and select does not pass over a
\* closed channel for ever.
FairSpec ==
  /\ Spec
  /\ WF_vars(Goroutine)
  /\ WF_vars(TimerFires)
  /\ WF_vars(Exit)
  /\ \A k \in Closers : WF_vars(Returns(k))

-----------------------------------------------------------------------------
(* Properties.                                                             *)

\* Types of the state.
TypeOK ==
  /\ disk \in [Files -> Contents]
  /\ writes \in 0 .. MaxWrites
  /\ client \in [Files -> 0 .. MaxWrites]
  /\ read \in [Files -> 0 .. MaxWrites]
  /\ left \subseteq Loaded
  /\ loop \in {"creating", "failed", "none", "adding", "select", "reloading", "blocked", "exited"}
  /\ watched \subseteq tlsDirectories
  /\ events \in Nat /\ noise \in Nat /\ events + noise <= QueueLimit
  /\ watchErr \in BOOLEAN
  /\ timer \in {"stopped", "running", "fired"}
  /\ debounceC \in BOOLEAN
  /\ stopping \subseteq {"ctx", "closed"}
  /\ once \in {"new", "running", "done"}
  /\ closer \in [Closers -> {"no", "first", "later", "done"}]
  /\ unseen \in BOOLEAN

\* The goroutine never waits for a timer that cannot fire: debounceC is set
\* exactly as long as there is something to stop or to receive
\* (http.go:240-265, 272-274).
DrainNeverBlocks == loop # "blocked"

\* A certificate is never used with the key of another rotation, whatever the
\* files looked like while they were read and whichever reloads failed
\* (http.go:305-312, 367-372).
ClientUsable == loop # "failed" => ~Mismatch(client)

Fresh(m) == \A f \in Loaded : m[f] = disk[f]
Loadable == ~Mismatch(disk) /\ \A f \in Loaded : disk[f] # Bad
Serving  == loop \in {"select", "reloading"} /\ stopping = {}

\* A reload of what is on disk now is queued, armed or under way with nothing
\* outdated read so far.
Pending ==
  \/ events > 0
  \/ debounceC
  \/ loop = "reloading" /\ \A f \in Loaded \ left : read[f] = disk[f]

\* No rotation is lost: as long as the client is older than usable files on
\* disk a reload is pending, also when files change between two reads of a
\* reload, when a reload fails half-way and when the kernel drops the event of
\* a change behind the event of another (http.go:267-300).  Two changes are
\* excluded, of which the code learns nothing: one after New has read the file
\* and before New watches its directory, and one whose event is dropped from a
\* queue that holds only chmod events.  See RotationNoticed.
NoLostRotation ==
  Serving /\ Loadable /\ ~Fresh(client) /\ ~unseen => Pending

\* Once a Close has returned the client is never replaced (http.go:186-189).
NoReloadAfterClose ==
  [][(\E k \in Closers : closer[k] = "done") => UNCHANGED client]_vars

\* When the files have settled in a usable state, the client that is in use
\* ends up built from them (http.go:201-202), unless the output is stopped.
EventuallyFresh ==
  <>[](Serving /\ Loadable /\ ~unseen => Fresh(client))

\* Every call of Close returns (http.go:190-199).
CloseReturns == \A k \in Closers : closer[k] # "no" ~> closer[k] = "done"

-----------------------------------------------------------------------------
(* What the documentation says and the code does not do.                   *)

\* http.go:201-202: "When files change, the HTTP client is rebuilt with
\* freshly-loaded credentials."  A change between the reading of the files in
\* New (http.go:85) and the watch of their directory (http.go:222) is not
\* noticed, and the old credentials are used until the next one.  Nor is one
\* whose event the kernel drops behind chmod events: the error of the watcher
\* is only logged (http.go:294-299).
RotationNoticed ==
  Serving /\ Loadable /\ ~Fresh(client) => Pending
=============================================================================
