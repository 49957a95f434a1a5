-------------------------- MODULE TLSWatcherProofs --------------------------
(***************************************************************************)
(* Theorems about TLSWatcher, for every set of configured files, layout of *)
(* directories, number of callers of Close, queue and number of changes.   *)
(***************************************************************************)
EXTENDS TLSWatcher, TLAPS

USE DEF Readable, StopRequested, WaitReturns

\* The next file to read is one of those left.
LEMMA NextFileLeft ==
  ASSUME left \subseteq Loaded, left # {}
  PROVE  NextFile \in left /\ NextFile \in Loaded
BY DEF NextFile, Loaded

LEMMA LoadedFiles == Loaded \subseteq Configured /\ Loaded \subseteq Files
BY WatcherAssumption DEF Loaded, Files

\* debounceC is set exactly as long as the timer can be stopped or received
\* from; before the loop neither is.
TimerInv ==
  /\ loop # "blocked"
  /\ loop # "exited" => (debounceC <=> timer # "stopped")
  /\ loop \in {"creating", "adding", "none", "failed", "reloading"} => ~debounceC

\* Directories and stop requests: the loop runs with every directory watched,
\* nothing is closed before New has returned, and a Close that has returned
\* has seen the goroutine end.
CloseInv ==
  /\ loop = "creating" => watched = {}
  /\ loop \in {"select", "reloading"} => watched = tlsDirectories
  /\ loop \in {"creating", "adding", "failed"} => "closed" \notin stopping /\ once = "new"
  /\ once = "done" => loop \in {"none", "exited"}
  /\ \A k \in Closers : closer[k] = "done" => once = "done"

\* What the client in use and the one being built owe to the disk: whatever is
\* outdated is announced by an event, by the armed timer or by unseen.
FreshInv ==
  /\ loop = "creating" => unseen \/ \A f \in Loaded \ left : read[f] = disk[f]
  /\ loop = "adding" => left = {} /\ (unseen \/ events > 0 \/ Fresh(client))
  /\ loop = "reloading" /\ "closed" \notin stopping =>
       unseen \/ events > 0 \/ \A f \in Loaded \ left : read[f] = disk[f]
  /\ loop = "select" /\ "closed" \notin stopping =>
       unseen \/ events > 0 \/ debounceC \/ Fresh(client) \/ ~Loadable

IInv == TypeOK /\ TimerInv /\ CloseInv /\ FreshInv /\ ~Mismatch(client)

LEMMA InitIInv == Init => IInv
<1> SUFFICES ASSUME Init PROVE IInv
  OBVIOUS
<1> USE WatcherAssumption DEF Init
<1>1. TypeOK
  <2>1. disk \in [Files -> Contents] /\ client \in [Files -> 0 .. MaxWrites]
        /\ read \in [Files -> 0 .. MaxWrites]
    BY DEF Contents
  <2>2. writes \in 0 .. MaxWrites /\ events \in Nat /\ noise \in Nat /\ events + noise <= QueueLimit
    OBVIOUS
  <2> QED
    BY <2>1, <2>2 DEF TypeOK
<1>2. TimerInv /\ CloseInv
  BY DEF TimerInv, CloseInv
<1>3. FreshInv
  BY DEF FreshInv
<1>4. ~Mismatch(client)
  BY DEF Mismatch, Files
<1> QED
  BY <1>1, <1>2, <1>3, <1>4 DEF IInv

\* Every action keeps the types.
LEMMA TypePreserved ==
  ASSUME IInv, Next
  PROVE  TypeOK'
<1> USE WatcherAssumption
<1>0. IInv
  OBVIOUS
<1>1. ASSUME NEW F \in (SUBSET Configured) \ {{}}, NEW v \in Versions, Write(F, v)
      PROVE  TypeOK'
  <2>1. v \in Contents
    BY <1>0, <1>1 DEF IInv, TypeOK, Versions, Contents, Bad, Write
  <2>2. disk' \in [Files -> Contents] /\ writes' \in 0 .. MaxWrites
    BY <1>0, <1>1, <2>1 DEF IInv, TypeOK, Write
  <2>3. /\ events' \in Nat /\ noise' \in Nat /\ events' + noise' <= QueueLimit
        /\ watchErr' \in BOOLEAN /\ unseen' \in BOOLEAN
    BY <1>0, <1>1 DEF IInv, TypeOK, Write, Full
  <2> QED
    BY <1>0, <1>1, <2>2, <2>3 DEF IInv, TypeOK, Write, timerVars, closeVars, loadVars
<1>2. CASE Chmod
  <2>1. noise' \in Nat /\ events + noise' <= QueueLimit
    BY <1>0, <1>2 DEF IInv, TypeOK, Chmod, Full
  <2>2. watchErr' \in {watchErr, TRUE}
    BY <1>2 DEF Chmod
  <2>3. UNCHANGED <<disk, writes, unseen, events, timer, debounceC, stopping, once, closer,
                    client, read, left, loop, watched>>
    BY <1>2 DEF Chmod, diskVars, timerVars, closeVars, loadVars
  <2>4. watchErr' \in BOOLEAN
    BY <1>0, <2>2 DEF IInv, TypeOK
  <2> QED
    BY <1>0, <2>1, <2>3, <2>4, Zenon DEF IInv, TypeOK
<1>3. CASE ReadFile
  <2>1. NextFile \in Loaded /\ NextFile \in Files
    BY <1>0, <1>3, NextFileLeft, LoadedFiles DEF IInv, TypeOK, ReadFile
  <2>2. disk[NextFile] \in 0 .. MaxWrites
    BY <1>0, <1>3, <2>1 DEF IInv, TypeOK, ReadFile, Contents
  <2> QED
    BY <1>0, <1>3, <2>1, <2>2 DEF IInv, TypeOK, ReadFile, diskVars, queueVars, timerVars,
       closeVars
<1>4. CASE LoadFails
  BY <1>0, <1>4 DEF IInv, TypeOK, LoadFails, Loading, diskVars, queueVars,
     timerVars, closeVars, loadVars
<1>5. CASE LoadSucceeds
  BY <1>0, <1>5 DEF IInv, TypeOK, LoadSucceeds, Loading, diskVars, queueVars,
     timerVars, closeVars, loadVars
<1>6. CASE StartFails
  BY <1>0, <1>6 DEF IInv, TypeOK, StartFails, diskVars, queueVars, timerVars,
     closeVars, loadVars
<1>7. CASE StartLoop
  BY <1>0, <1>7 DEF IInv, TypeOK, StartLoop, diskVars, queueVars, timerVars,
     closeVars, loadVars
<1>8. CASE TakeEvent
  <2>1. events' \in Nat /\ events' + noise <= QueueLimit
    BY <1>0, <1>8 DEF IInv, TypeOK, TakeEvent
  <2>2. /\ loop' \in {loop, "blocked"}
        /\ timer' \in {timer, "running"}
        /\ debounceC' \in {debounceC, TRUE}
    BY <1>8 DEF TakeEvent, timerVars
  <2>3. UNCHANGED <<diskVars, noise, watchErr, closeVars, loadVars, watched>>
    BY <1>8 DEF TakeEvent
  <2>4. loop' \in {"creating", "failed", "none", "adding", "select", "reloading",
                    "blocked", "exited"}
    BY <1>0, <2>2 DEF IInv, TypeOK
  <2>5. timer' \in {"stopped", "running", "fired"} /\ debounceC' \in BOOLEAN
    BY <1>0, <2>2 DEF IInv, TypeOK
  <2>6. UNCHANGED <<disk, writes, client, read, left, watched, noise, watchErr, stopping,
                    once, closer, unseen>>
    BY <2>3 DEF diskVars, closeVars, loadVars
  <2> QED
    BY <1>0, <2>1, <2>4, <2>5, <2>6, Zenon DEF IInv, TypeOK
<1>9. CASE TakeNoise
  BY <1>0, <1>9 DEF IInv, TypeOK, TakeNoise, diskVars, queueVars, timerVars,
     closeVars, loadVars
<1>10. CASE TakeError
  BY <1>0, <1>10 DEF IInv, TypeOK, TakeError, diskVars, queueVars, timerVars,
     closeVars, loadVars
<1>11. CASE TimerFires
  BY <1>0, <1>11 DEF IInv, TypeOK, TimerFires, diskVars, queueVars, timerVars,
     closeVars, loadVars
<1>12. CASE TakeDebounce
  BY <1>0, <1>12 DEF IInv, TypeOK, TakeDebounce, diskVars, queueVars, timerVars,
     closeVars, loadVars
<1>13. CASE Exit
  BY <1>0, <1>13 DEF IInv, TypeOK, Exit, StopBlocks, diskVars, queueVars,
     timerVars, closeVars, loadVars
<1>14. CASE CancelContext
  BY <1>0, <1>14 DEF IInv, TypeOK, CancelContext, diskVars, queueVars, timerVars,
     closeVars, loadVars
<1>15. ASSUME NEW d \in tlsDirectories, AddWatch(d) PROVE TypeOK'
  BY <1>0, <1>15 DEF IInv, TypeOK, AddWatch, diskVars, queueVars, timerVars,
     closeVars, loadVars
<1>16. ASSUME NEW k \in Closers, Close(k) PROVE TypeOK'
  BY <1>0, <1>16 DEF IInv, TypeOK, Close, NewReturned, diskVars, queueVars,
     timerVars, closeVars, loadVars
<1>17. ASSUME NEW k \in Closers, FirstCloseReturns(k) PROVE TypeOK'
  BY <1>0, <1>17 DEF IInv, TypeOK, FirstCloseReturns, diskVars, queueVars,
     timerVars, closeVars, loadVars
<1>18. ASSUME NEW k \in Closers, LaterCloseReturns(k) PROVE TypeOK'
  BY <1>0, <1>18 DEF IInv, TypeOK, LaterCloseReturns, diskVars, queueVars,
     timerVars, closeVars, loadVars
<1> QED
  BY <1>1, <1>2, <1>3, <1>4, <1>5, <1>6, <1>7, <1>8, <1>9, <1>10, <1>11, <1>12,
     <1>13, <1>14, <1>15, <1>16, <1>17, <1>18 DEF Next, Goroutine, Load, Returns

\* Every action keeps TimerInv.
LEMMA TimerPreserved ==
  ASSUME IInv, Next
  PROVE  TimerInv'
<1> USE WatcherAssumption
<1>0. IInv
  OBVIOUS
<1>1. ASSUME NEW F \in (SUBSET Configured) \ {{}}, NEW v \in Versions, Write(F, v)
      PROVE  TimerInv'
  BY <1>0, <1>1 DEF IInv, TypeOK, TimerInv, Write, Queueing, diskVars, queueVars,
     timerVars, closeVars, loadVars
<1>2. CASE Chmod
  BY <1>0, <1>2 DEF IInv, TypeOK, TimerInv, Chmod, Full, Queueing, diskVars, queueVars,
     timerVars, closeVars, loadVars
<1>3. CASE ReadFile
  BY <1>0, <1>3 DEF IInv, TypeOK, TimerInv, ReadFile, Loading, diskVars, queueVars,
     timerVars, closeVars, loadVars
<1>4. CASE LoadFails
  BY <1>0, <1>4 DEF IInv, TypeOK, TimerInv, LoadFails, Loading, diskVars,
     queueVars, timerVars, closeVars, loadVars
<1>5. CASE LoadSucceeds
  BY <1>0, <1>5 DEF IInv, TypeOK, TimerInv, LoadSucceeds, Loading, diskVars,
     queueVars, timerVars, closeVars, loadVars
<1>6. CASE StartFails
  BY <1>0, <1>6 DEF IInv, TypeOK, TimerInv, StartFails, diskVars, queueVars,
     timerVars, closeVars, loadVars
<1>7. CASE StartLoop
  BY <1>0, <1>7 DEF IInv, TypeOK, TimerInv, StartLoop, diskVars, queueVars,
     timerVars, closeVars, loadVars
<1>8. CASE TakeEvent
  BY <1>0, <1>8 DEF IInv, TypeOK, TimerInv, TakeEvent, StopBlocks, diskVars,
     queueVars, timerVars, closeVars, loadVars
<1>9. CASE TakeNoise
  BY <1>0, <1>9 DEF IInv, TypeOK, TimerInv, TakeNoise, diskVars, queueVars,
     timerVars, closeVars, loadVars
<1>10. CASE TakeError
  BY <1>0, <1>10 DEF IInv, TypeOK, TimerInv, TakeError, diskVars, queueVars,
     timerVars, closeVars, loadVars
<1>11. CASE TimerFires
  BY <1>0, <1>11 DEF IInv, TypeOK, TimerInv, TimerFires, diskVars, queueVars,
     timerVars, closeVars, loadVars
<1>12. CASE TakeDebounce
  BY <1>0, <1>12 DEF IInv, TypeOK, TimerInv, TakeDebounce, diskVars, queueVars,
     timerVars, closeVars, loadVars
<1>13. CASE Exit
  BY <1>0, <1>13 DEF IInv, TypeOK, TimerInv, Exit, StopBlocks, diskVars, queueVars,
     timerVars, closeVars, loadVars
<1>14. CASE CancelContext
  BY <1>0, <1>14 DEF IInv, TypeOK, TimerInv, CancelContext, diskVars, queueVars,
     timerVars, closeVars, loadVars
<1>15. ASSUME NEW d \in tlsDirectories, AddWatch(d) PROVE TimerInv'
  BY <1>0, <1>15 DEF IInv, TypeOK, TimerInv, AddWatch, diskVars, queueVars,
     timerVars, closeVars, loadVars
<1>16. ASSUME NEW k \in Closers, Close(k) PROVE TimerInv'
  BY <1>0, <1>16 DEF IInv, TypeOK, TimerInv, Close, NewReturned, diskVars,
     queueVars, timerVars, closeVars, loadVars
<1>17. ASSUME NEW k \in Closers, FirstCloseReturns(k) PROVE TimerInv'
  BY <1>0, <1>17 DEF IInv, TypeOK, TimerInv, FirstCloseReturns, diskVars,
     queueVars, timerVars, closeVars, loadVars
<1>18. ASSUME NEW k \in Closers, LaterCloseReturns(k) PROVE TimerInv'
  BY <1>0, <1>18 DEF IInv, TypeOK, TimerInv, LaterCloseReturns, diskVars,
     queueVars, timerVars, closeVars, loadVars
<1> QED
  BY <1>1, <1>2, <1>3, <1>4, <1>5, <1>6, <1>7, <1>8, <1>9, <1>10, <1>11, <1>12,
     <1>13, <1>14, <1>15, <1>16, <1>17, <1>18 DEF Next, Goroutine, Load, Returns

\* Every action keeps CloseInv.
LEMMA ClosePreserved ==
  ASSUME IInv, Next
  PROVE  CloseInv'
<1> USE WatcherAssumption
<1>0. IInv
  OBVIOUS
<1>1. ASSUME NEW F \in (SUBSET Configured) \ {{}}, NEW v \in Versions, Write(F, v)
      PROVE  CloseInv'
  BY <1>0, <1>1 DEF IInv, TypeOK, CloseInv, Write, Queueing, diskVars, queueVars,
     timerVars, closeVars, loadVars
<1>2. CASE Chmod
  BY <1>0, <1>2 DEF IInv, TypeOK, CloseInv, Chmod, Full, Queueing, diskVars, queueVars,
     timerVars, closeVars, loadVars
<1>3. CASE ReadFile
  BY <1>0, <1>3 DEF IInv, TypeOK, CloseInv, ReadFile, Loading, diskVars, queueVars,
     timerVars, closeVars, loadVars
<1>4. CASE LoadFails
  BY <1>0, <1>4 DEF IInv, TypeOK, CloseInv, LoadFails, Loading, diskVars,
     queueVars, timerVars, closeVars, loadVars
<1>5. CASE LoadSucceeds
  BY <1>0, <1>5 DEF IInv, TypeOK, CloseInv, LoadSucceeds, Loading, diskVars,
     queueVars, timerVars, closeVars, loadVars
<1>6. CASE StartFails
  BY <1>0, <1>6 DEF IInv, TypeOK, CloseInv, StartFails, diskVars, queueVars,
     timerVars, closeVars, loadVars
<1>7. CASE StartLoop
  BY <1>0, <1>7 DEF IInv, TypeOK, CloseInv, StartLoop, diskVars, queueVars,
     timerVars, closeVars, loadVars
<1>8. CASE TakeEvent
  BY <1>0, <1>8 DEF IInv, TypeOK, CloseInv, TakeEvent, StopBlocks, diskVars,
     queueVars, timerVars, closeVars, loadVars
<1>9. CASE TakeNoise
  BY <1>0, <1>9 DEF IInv, TypeOK, CloseInv, TakeNoise, diskVars, queueVars,
     timerVars, closeVars, loadVars
<1>10. CASE TakeError
  BY <1>0, <1>10 DEF IInv, TypeOK, CloseInv, TakeError, diskVars, queueVars,
     timerVars, closeVars, loadVars
<1>11. CASE TimerFires
  BY <1>0, <1>11 DEF IInv, TypeOK, CloseInv, TimerFires, diskVars, queueVars,
     timerVars, closeVars, loadVars
<1>12. CASE TakeDebounce
  BY <1>0, <1>12 DEF IInv, TypeOK, CloseInv, TakeDebounce, diskVars, queueVars,
     timerVars, closeVars, loadVars
<1>13. CASE Exit
  BY <1>0, <1>13 DEF IInv, TypeOK, CloseInv, Exit, StopBlocks, diskVars, queueVars,
     timerVars, closeVars, loadVars
<1>14. CASE CancelContext
  BY <1>0, <1>14 DEF IInv, TypeOK, CloseInv, CancelContext, diskVars, queueVars,
     timerVars, closeVars, loadVars
<1>15. ASSUME NEW d \in tlsDirectories, AddWatch(d) PROVE CloseInv'
  BY <1>0, <1>15 DEF IInv, TypeOK, CloseInv, AddWatch, diskVars, queueVars,
     timerVars, closeVars, loadVars
<1>16. ASSUME NEW k \in Closers, Close(k) PROVE CloseInv'
  BY <1>0, <1>16 DEF IInv, TypeOK, CloseInv, Close, NewReturned, diskVars,
     queueVars, timerVars, closeVars, loadVars
<1>17. ASSUME NEW k \in Closers, FirstCloseReturns(k) PROVE CloseInv'
  BY <1>0, <1>17 DEF IInv, TypeOK, CloseInv, FirstCloseReturns, diskVars,
     queueVars, timerVars, closeVars, loadVars
<1>18. ASSUME NEW k \in Closers, LaterCloseReturns(k) PROVE CloseInv'
  BY <1>0, <1>18 DEF IInv, TypeOK, CloseInv, LaterCloseReturns, diskVars,
     queueVars, timerVars, closeVars, loadVars
<1> QED
  BY <1>1, <1>2, <1>3, <1>4, <1>5, <1>6, <1>7, <1>8, <1>9, <1>10, <1>11, <1>12,
     <1>13, <1>14, <1>15, <1>16, <1>17, <1>18 DEF Next, Goroutine, Load, Returns

\* Every action keeps FreshInv.
LEMMA FreshPreserved ==
  ASSUME IInv, Next
  PROVE  FreshInv'
<1> USE WatcherAssumption
<1>0. IInv
  OBVIOUS
<1>1. ASSUME NEW F \in (SUBSET Configured) \ {{}}, NEW v \in Versions, Write(F, v)
      PROVE  FreshInv'
  <2>1. /\ loop' = loop /\ left' = left /\ read' = read /\ client' = client
        /\ stopping' = stopping /\ debounceC' = debounceC
    BY <1>1 DEF Write, loadVars, closeVars, timerVars
  <2>2. \A f \in F : DirOf[f] \in tlsDirectories
    BY DEF tlsDirectories
  <2>3. events > 0 => events' > 0
    BY <1>0, <1>1 DEF IInv, TypeOK, Write
  <2>4. unseen => unseen'
    BY <1>1 DEF Write
  <2>5. \A f \in Files : f \notin F => disk'[f] = disk[f]
    BY <1>1 DEF Write
  <2>6. CASE loop = "creating"
    <3>1. unseen' \/ F \subseteq left \/ watched # {}
      BY <2>6, <1>1 DEF Write
    <3>2. CASE F \subseteq left
      BY <1>0, <2>1, <2>4, <2>5, <2>6, <3>2, LoadedFiles DEF IInv, FreshInv
    <3>3. CASE unseen'
      BY <2>1, <2>6, <3>3 DEF FreshInv
    <3>4. watched = {}
      BY <1>0, <2>6 DEF IInv, CloseInv
    <3> QED
      BY <3>1, <3>2, <3>3, <3>4
  <2>7. CASE loop = "adding"
    <3>1. CASE \E f \in F : DirOf[f] \notin watched
      BY <1>0, <1>1, <2>1, <2>7, <3>1 DEF IInv, FreshInv, Write
    <3>2. CASE \A f \in F : DirOf[f] \in watched
      <4>1. Queueing
        BY <1>0, <2>7, <3>2 DEF IInv, CloseInv, Queueing
      <4>2. events' > 0 \/ unseen'
        BY <1>0, <1>1, <3>2, <4>1 DEF IInv, TypeOK, Write, Full
      <4> QED
        BY <1>0, <2>1, <2>7, <4>2 DEF IInv, FreshInv
    <3> QED
      BY <3>1, <3>2
  <2>8. CASE loop \in {"select", "reloading"} /\ "closed" \notin stopping
    <3>1. Queueing /\ \E f \in F : DirOf[f] \in watched
      BY <1>0, <2>2, <2>8 DEF IInv, CloseInv, Queueing
    <3>2. events' > 0 \/ unseen'
      BY <1>0, <1>1, <3>1 DEF IInv, TypeOK, Write, Full
    <3> QED
      BY <2>1, <2>8, <3>2 DEF FreshInv
  <2> QED
    BY <2>1, <2>6, <2>7, <2>8 DEF FreshInv
<1>2. CASE Chmod
  BY <1>0, <1>2 DEF IInv, TypeOK, TimerInv, CloseInv, FreshInv, Chmod, Full, Queueing,
     Fresh, Loadable, Mismatch, diskVars, queueVars, timerVars, closeVars, loadVars
<1>3. CASE ReadFile
  <2>1. NextFile \in left /\ NextFile \in Files
    BY <1>0, <1>3, NextFileLeft, LoadedFiles DEF IInv, TypeOK, ReadFile
  <2>2. read'[NextFile] = disk[NextFile] /\ \A f \in Files : f # NextFile => read'[f] = read[f]
    BY <1>0, <1>3, <2>1 DEF IInv, TypeOK, ReadFile
  <2>3. (\A f \in Loaded \ left : read[f] = disk[f]) => \A f \in Loaded \ left' : read'[f] = disk[f]
    BY <1>3, <2>2, LoadedFiles DEF ReadFile
  <2> QED
    BY <1>0, <1>3, <2>3 DEF IInv, FreshInv, ReadFile, Loading, diskVars, queueVars, timerVars,
       closeVars
<1>4. CASE LoadFails
  <2>1. /\ loop' = IF loop = "creating" THEN "failed" ELSE "select"
        /\ UNCHANGED <<disk, unseen, events, debounceC, stopping, client>>
    BY <1>4 DEF LoadFails, diskVars, queueVars, timerVars, closeVars, loadVars
  <2>2. CASE loop = "creating"
    BY <2>1, <2>2 DEF FreshInv
  <2>3. CASE loop = "reloading"
    <3>1. CASE left # {} /\ disk[NextFile] = Bad
      <4>1. NextFile \in Loaded
        BY <1>0, <3>1, NextFileLeft DEF IInv, TypeOK
      <4>2. ~Loadable'
        BY <2>1, <3>1, <4>1 DEF Loadable
      <4> QED
        BY <2>1, <2>3, <4>2 DEF FreshInv
    <3>2. CASE left = {} /\ Mismatch(read)
      <4>1. CASE \A f \in Loaded : read[f] = disk[f]
        <5>1. ~Loadable'
          BY <2>1, <3>2, <4>1 DEF Loadable, Mismatch
        <5> QED
          BY <2>1, <2>3, <5>1 DEF FreshInv
      <4>2. CASE unseen \/ events > 0 \/ "closed" \in stopping
        BY <2>1, <2>3, <4>2 DEF FreshInv
      <4> QED
        BY <1>0, <2>3, <3>2, <4>1, <4>2 DEF IInv, FreshInv
    <3> QED
      BY <1>4, <3>1, <3>2 DEF LoadFails
  <2> QED
    BY <1>4, <2>2, <2>3 DEF LoadFails, Loading
<1>5. CASE LoadSucceeds
  BY <1>0, <1>5 DEF IInv, TypeOK, TimerInv, CloseInv, FreshInv, LoadSucceeds,
     Loading, Fresh, Loadable, Mismatch, diskVars, queueVars, timerVars, closeVars,
     loadVars
<1>6. CASE StartFails
  BY <1>0, <1>6 DEF IInv, TypeOK, TimerInv, CloseInv, FreshInv, StartFails, Fresh,
     Loadable, Mismatch, diskVars, queueVars, timerVars, closeVars, loadVars
<1>7. CASE StartLoop
  BY <1>0, <1>7 DEF IInv, TypeOK, TimerInv, CloseInv, FreshInv, StartLoop, Fresh,
     Loadable, Mismatch, diskVars, queueVars, timerVars, closeVars, loadVars
<1>8. CASE TakeEvent
  BY <1>0, <1>8 DEF IInv, TypeOK, TimerInv, CloseInv, FreshInv, TakeEvent,
     StopBlocks, Fresh, Loadable, Mismatch, diskVars, queueVars, timerVars,
     closeVars, loadVars
<1>9. CASE TakeNoise
  BY <1>0, <1>9 DEF IInv, TypeOK, TimerInv, CloseInv, FreshInv, TakeNoise, Fresh,
     Loadable, Mismatch, diskVars, queueVars, timerVars, closeVars, loadVars
<1>10. CASE TakeError
  BY <1>0, <1>10 DEF IInv, TypeOK, TimerInv, CloseInv, FreshInv, TakeError, Fresh,
     Loadable, Mismatch, diskVars, queueVars, timerVars, closeVars, loadVars
<1>11. CASE TimerFires
  BY <1>0, <1>11 DEF IInv, TypeOK, TimerInv, CloseInv, FreshInv, TimerFires, Fresh,
     Loadable, Mismatch, diskVars, queueVars, timerVars, closeVars, loadVars
<1>12. CASE TakeDebounce
  BY <1>0, <1>12 DEF IInv, TypeOK, TimerInv, CloseInv, FreshInv, TakeDebounce,
     Fresh, Loadable, Mismatch, diskVars, queueVars, timerVars, closeVars, loadVars
<1>13. CASE Exit
  BY <1>0, <1>13 DEF IInv, TypeOK, TimerInv, CloseInv, FreshInv, Exit, StopBlocks,
     Fresh, Loadable, Mismatch, diskVars, queueVars, timerVars, closeVars, loadVars
<1>14. CASE CancelContext
  BY <1>0, <1>14 DEF IInv, TypeOK, TimerInv, CloseInv, FreshInv, CancelContext,
     Fresh, Loadable, Mismatch, diskVars, queueVars, timerVars, closeVars, loadVars
<1>15. ASSUME NEW d \in tlsDirectories, AddWatch(d) PROVE FreshInv'
  BY <1>0, <1>15 DEF IInv, TypeOK, TimerInv, CloseInv, FreshInv, AddWatch, Fresh,
     Loadable, Mismatch, diskVars, queueVars, timerVars, closeVars, loadVars
<1>16. ASSUME NEW k \in Closers, Close(k) PROVE FreshInv'
  BY <1>0, <1>16 DEF IInv, TypeOK, TimerInv, CloseInv, FreshInv, Close,
     NewReturned, Fresh, Loadable, Mismatch, diskVars, queueVars, timerVars,
     closeVars, loadVars
<1>17. ASSUME NEW k \in Closers, FirstCloseReturns(k) PROVE FreshInv'
  BY <1>0, <1>17 DEF IInv, TypeOK, TimerInv, CloseInv, FreshInv, FirstCloseReturns,
     Fresh, Loadable, Mismatch, diskVars, queueVars, timerVars, closeVars, loadVars
<1>18. ASSUME NEW k \in Closers, LaterCloseReturns(k) PROVE FreshInv'
  BY <1>0, <1>18 DEF IInv, TypeOK, TimerInv, CloseInv, FreshInv, LaterCloseReturns,
     Fresh, Loadable, Mismatch, diskVars, queueVars, timerVars, closeVars, loadVars
<1> QED
  BY <1>1, <1>2, <1>3, <1>4, <1>5, <1>6, <1>7, <1>8, <1>9, <1>10, <1>11, <1>12,
     <1>13, <1>14, <1>15, <1>16, <1>17, <1>18 DEF Next, Goroutine, Load, Returns

\* Every action keeps the pair of the client matched.
LEMMA PairPreserved ==
  ASSUME IInv, Next
  PROVE  ~Mismatch(client)'
<1> USE WatcherAssumption
<1>0. IInv
  OBVIOUS
<1>1. ASSUME NEW F \in (SUBSET Configured) \ {{}}, NEW v \in Versions, Write(F, v)
      PROVE  ~Mismatch(client)'
  BY <1>0, <1>1 DEF IInv, TypeOK, Write, Queueing, Mismatch, diskVars, queueVars,
     timerVars, closeVars, loadVars
<1>2. CASE Chmod
  BY <1>0, <1>2 DEF IInv, TypeOK, Chmod, Full, Queueing, Mismatch, diskVars, queueVars,
     timerVars, closeVars, loadVars
<1>3. CASE ReadFile
  BY <1>0, <1>3 DEF IInv, TypeOK, ReadFile, Loading, Mismatch, diskVars, queueVars,
     timerVars, closeVars, loadVars
<1>4. CASE LoadFails
  BY <1>0, <1>4 DEF IInv, TypeOK, LoadFails, Loading, Mismatch, diskVars,
     queueVars, timerVars, closeVars, loadVars
<1>5. CASE LoadSucceeds
  BY <1>0, <1>5 DEF IInv, TypeOK, LoadSucceeds, Loading, Mismatch, diskVars,
     queueVars, timerVars, closeVars, loadVars
<1>6. CASE StartFails
  BY <1>0, <1>6 DEF IInv, TypeOK, StartFails, Mismatch, diskVars, queueVars,
     timerVars, closeVars, loadVars
<1>7. CASE StartLoop
  BY <1>0, <1>7 DEF IInv, TypeOK, StartLoop, Mismatch, diskVars, queueVars,
     timerVars, closeVars, loadVars
<1>8. CASE TakeEvent
  BY <1>0, <1>8 DEF IInv, TypeOK, TakeEvent, StopBlocks, Mismatch, diskVars,
     queueVars, timerVars, closeVars, loadVars
<1>9. CASE TakeNoise
  BY <1>0, <1>9 DEF IInv, TypeOK, TakeNoise, Mismatch, diskVars, queueVars,
     timerVars, closeVars, loadVars
<1>10. CASE TakeError
  BY <1>0, <1>10 DEF IInv, TypeOK, TakeError, Mismatch, diskVars, queueVars,
     timerVars, closeVars, loadVars
<1>11. CASE TimerFires
  BY <1>0, <1>11 DEF IInv, TypeOK, TimerFires, Mismatch, diskVars, queueVars,
     timerVars, closeVars, loadVars
<1>12. CASE TakeDebounce
  BY <1>0, <1>12 DEF IInv, TypeOK, TakeDebounce, Mismatch, diskVars, queueVars,
     timerVars, closeVars, loadVars
<1>13. CASE Exit
  BY <1>0, <1>13 DEF IInv, TypeOK, Exit, StopBlocks, Mismatch, diskVars, queueVars,
     timerVars, closeVars, loadVars
<1>14. CASE CancelContext
  BY <1>0, <1>14 DEF IInv, TypeOK, CancelContext, Mismatch, diskVars, queueVars,
     timerVars, closeVars, loadVars
<1>15. ASSUME NEW d \in tlsDirectories, AddWatch(d) PROVE ~Mismatch(client)'
  BY <1>0, <1>15 DEF IInv, TypeOK, AddWatch, Mismatch, diskVars, queueVars,
     timerVars, closeVars, loadVars
<1>16. ASSUME NEW k \in Closers, Close(k) PROVE ~Mismatch(client)'
  BY <1>0, <1>16 DEF IInv, TypeOK, Close, NewReturned, Mismatch, diskVars,
     queueVars, timerVars, closeVars, loadVars
<1>17. ASSUME NEW k \in Closers, FirstCloseReturns(k) PROVE ~Mismatch(client)'
  BY <1>0, <1>17 DEF IInv, TypeOK, FirstCloseReturns, Mismatch, diskVars,
     queueVars, timerVars, closeVars, loadVars
<1>18. ASSUME NEW k \in Closers, LaterCloseReturns(k) PROVE ~Mismatch(client)'
  BY <1>0, <1>18 DEF IInv, TypeOK, LaterCloseReturns, Mismatch, diskVars,
     queueVars, timerVars, closeVars, loadVars
<1> QED
  BY <1>1, <1>2, <1>3, <1>4, <1>5, <1>6, <1>7, <1>8, <1>9, <1>10, <1>11, <1>12,
     <1>13, <1>14, <1>15, <1>16, <1>17, <1>18 DEF Next, Goroutine, Load, Returns

LEMMA NextIInv == IInv /\ [Next]_vars => IInv'
<1> SUFFICES ASSUME IInv, [Next]_vars PROVE IInv'
  OBVIOUS
<1>1. CASE Next
  BY <1>1, TypePreserved, TimerPreserved, ClosePreserved, FreshPreserved, PairPreserved
  DEF IInv
<1>2. CASE UNCHANGED vars
  BY <1>2 DEF vars, diskVars, queueVars, timerVars, closeVars, loadVars, IInv, TypeOK,
     TimerInv, CloseInv, FreshInv, Fresh, Loadable, Mismatch
<1> QED
  BY <1>1, <1>2

\* The inductive invariant holds in every reachable state of the watcher.
THEOREM Invariance == Spec => []IInv
BY InitIInv, NextIInv, PTL DEF Spec

\* Type correctness of the model of the watcher.
THEOREM TypeCorrect == Spec => []TypeOK
<1>1. IInv => TypeOK
  BY DEF IInv
<1> QED
  BY <1>1, Invariance, PTL

\* The goroutine never waits for a timer that cannot fire (http.go:240-265).
THEOREM DrainNeverBlocksCorrect == Spec => []DrainNeverBlocks
<1>1. IInv => DrainNeverBlocks
  BY DEF IInv, TimerInv, DrainNeverBlocks
<1> QED
  BY <1>1, Invariance, PTL

\* A certificate is never used with the key of another rotation
\* (http.go:305-312, 367-372).
THEOREM ClientUsableCorrect == Spec => []ClientUsable
<1>1. IInv => ClientUsable
  BY DEF IInv, ClientUsable
<1> QED
  BY <1>1, Invariance, PTL

\* No rotation is lost, however the changes interleave with reloads
\* (http.go:267-300).
THEOREM NoLostRotationCorrect == Spec => []NoLostRotation
<1>1. IInv => NoLostRotation
  BY DEF IInv, FreshInv, NoLostRotation, Serving, Pending
<1> QED
  BY <1>1, Invariance, PTL

\* Once a Close has returned the client is never replaced (http.go:186-189).
THEOREM NoReloadAfterCloseCorrect == Spec => NoReloadAfterClose
<1>1. IInv /\ [Next]_vars =>
        [(\E k \in Closers : closer[k] = "done") => UNCHANGED client]_vars
  <2> SUFFICES ASSUME IInv, Next, NEW k \in Closers, closer[k] = "done"
               PROVE  UNCHANGED client
    OBVIOUS
  <2>1. loop \notin {"creating", "reloading"}
    BY DEF IInv, CloseInv
  <2>2. ~LoadSucceeds
    BY <2>1 DEF LoadSucceeds, Loading
  <2> QED
    BY <2>2 DEF Next, Goroutine, Load, Returns, Write, Chmod, ReadFile, LoadFails, StartFails,
       StartLoop, AddWatch, TakeEvent, TakeNoise, TakeError, TimerFires, TakeDebounce, Exit,
       CancelContext, Close, FirstCloseReturns, LaterCloseReturns, loadVars
<1> QED
  BY <1>1, Invariance, PTL DEF Spec, NoReloadAfterClose
=============================================================================
