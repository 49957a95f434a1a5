-------------------------- MODULE ClientPoolProofs --------------------------
(***************************************************************************)
(* Proofs about ClientPool, for any number of calls, attempts, reloads and *)
(* idle connections.                                                       *)
(***************************************************************************)
EXTENDS ClientPool, TLAPS

\* No call knows of a client that does not exist yet, and an attempt that has
\* loaded one did so after its request was built.
LoadInv ==
  /\ reload = "swapped" => client > 0
  /\ \A c \in Calls : using[c] <= client /\ begun[c] <= client
  /\ \A c \in Calls : pc[c] \in {"loaded", "sending"} => begun[c] <= using[c]

\* A retired pool is empty and closes what is returned to it, unless a call
\* took a connection from it after the swap, which makes it keep connections
\* again.
PoolInv == \A g \in Retired : g \in late \/ (idle[g] = 0 /\ closeIdle[g])

IInv == TypeOK /\ LoadInv /\ PoolInv

USE PoolAssumption DEF Clients

\* IInv holds before the first attempt.
LEMMA InitIInv == Init => IInv
BY DEF Init, IInv, TypeOK, LoadInv, PoolInv, Retired

\* The actions of Next, one by one.
LEMMA NextCases ==
  ASSUME Next
  PROVE  \/ \E c \in Calls :
              \/ NewRequest(c) \/ Load(c) \/ TakeConn(c) \/ Responded(c)
              \/ Redirected(c) \/ ConnLost(c) \/ GiveUp(c)
         \/ \E g \in Clients : BackendCloses(g)
         \/ Swap \/ CloseIdleConnections
BY DEF Next, Attempt

\* A pool that a connection is returned to stays within its limit.
LEMMA PutIdleType ==
  ASSUME TypeOK, NEW g \in Clients, PutIdleConn(g)
  PROVE  idle' \in [Clients -> 0 .. MaxIdle]
<1>1. idle[g] \in 0 .. MaxIdle /\ (idle[g] # MaxIdle => idle[g] + 1 \in 0 .. MaxIdle)
  BY DEF TypeOK
<1> QED
  BY <1>1 DEF TypeOK, PutIdleConn

\* Every action keeps the types, and the attempts and pools their limits.
LEMMA NextTypeOK ==
  ASSUME IInv, Next
  PROVE  TypeOK'
<1> USE DEF IInv, TypeOK, LoadInv
<1>1. ASSUME NEW c \in Calls, NewRequest(c) PROVE TypeOK'
  <2>1. pc' \in [Calls -> {"off", "built", "loaded", "sending", "failed", "returned"}]
    BY <1>1 DEF NewRequest, Goto
  <2>2. attempt[c] + 1 \in 0 .. MaxSendAttempts
    <3>1. attempt[c] \in 0 .. MaxSendAttempts /\ AttemptsLeft(c)
      BY <1>1 DEF NewRequest
    <3> QED
      BY ONLY <3>1, PoolAssumption DEF AttemptsLeft
  <2>3. attempt' \in [Calls -> 0 .. MaxSendAttempts]
    BY <1>1, <2>2 DEF NewRequest
  <2>4. begun' \in [Calls -> Clients]
    BY <1>1 DEF NewRequest
  <2> QED
    BY <1>1, <2>1, <2>3, <2>4 DEF NewRequest, poolVars
<1>2. ASSUME NEW c \in Calls, Load(c) PROVE TypeOK'
  BY <1>2 DEF Load, Loaded, Goto, poolVars
<1>3. ASSUME NEW c \in Calls, TakeConn(c) PROVE TypeOK'
  <2>1. pc' \in [Calls -> {"off", "built", "loaded", "sending", "failed", "returned"}]
    BY <1>3 DEF TakeConn, Goto
  <2>2. idle' \in [Clients -> 0 .. MaxIdle]
    <3>1. using[c] \in Clients /\ idle[using[c]] \in 0 .. MaxIdle
      OBVIOUS
    <3>2. \A n \in 0 .. MaxIdle : (IF n > 0 THEN n - 1 ELSE 0) \in 0 .. MaxIdle
      OBVIOUS
    <3>3. PICK m \in 0 .. MaxIdle : idle' = [idle EXCEPT ![using[c]] = m]
      BY <1>3, <3>1, <3>2 DEF TakeConn
    <3> QED
      BY <3>1, <3>3
  <2>3. closeIdle' \in [Clients -> BOOLEAN] /\ late' \subseteq Clients
    BY <1>3 DEF TakeConn
  <2> QED
    BY <1>3, <2>1, <2>2, <2>3 DEF TakeConn
<1>4. ASSUME NEW c \in Calls, Responded(c) PROVE TypeOK'
  <2>1. pc' \in [Calls -> {"off", "built", "loaded", "sending", "failed", "returned"}]
    BY <1>4 DEF Responded, Goto
  <2>2. idle' \in [Clients -> 0 .. MaxIdle]
    BY <1>4, PutIdleType DEF Responded
  <2> QED
    BY <1>4, <2>1, <2>2 DEF Responded, PutIdleConn
<1>5. ASSUME NEW c \in Calls, Redirected(c) PROVE TypeOK'
  <2>1. pc' \in [Calls -> {"off", "built", "loaded", "sending", "failed", "returned"}]
    BY <1>5 DEF Redirected, Goto
  <2>2. idle' \in [Clients -> 0 .. MaxIdle]
    BY <1>5, PutIdleType DEF Redirected
  <2> QED
    BY <1>5, <2>1, <2>2 DEF Redirected, PutIdleConn
<1>6. ASSUME NEW c \in Calls, ConnLost(c) PROVE TypeOK'
  BY <1>6 DEF ConnLost, Goto, poolVars
<1>7. ASSUME NEW c \in Calls, GiveUp(c) PROVE TypeOK'
  BY <1>7 DEF GiveUp, Goto, poolVars
<1>8. ASSUME NEW g \in Clients, BackendCloses(g) PROVE TypeOK'
  BY <1>8 DEF BackendCloses, callVars
<1>9. CASE Swap
  BY <1>9 DEF Swap, callVars, poolVars
<1>10. CASE CloseIdleConnections
  BY <1>10 DEF CloseIdleConnections, Old, callVars
<1> HIDE DEF IInv, TypeOK, LoadInv
<1> QED
  BY <1>1, <1>2, <1>3, <1>4, <1>5, <1>6, <1>7, <1>8, <1>9, <1>10, NextCases

\* Every action keeps LoadInv: only Load changes what a call uses, and only
\* NewRequest what it has to be compared with.
LEMMA NextLoadInv ==
  ASSUME IInv, Next
  PROVE  LoadInv'
<1> USE DEF IInv, TypeOK, LoadInv
<1>1. ASSUME NEW c \in Calls, NewRequest(c) PROVE LoadInv'
  BY <1>1 DEF NewRequest, Goto, poolVars
<1>2. ASSUME NEW c \in Calls, Load(c) PROVE LoadInv'
  BY <1>2 DEF Load, Loaded, Goto, poolVars
<1>3. ASSUME NEW c \in Calls, TakeConn(c) PROVE LoadInv'
  BY <1>3 DEF TakeConn, Goto
<1>4. ASSUME NEW c \in Calls, Responded(c) PROVE LoadInv'
  BY <1>4 DEF Responded, Goto
<1>5. ASSUME NEW c \in Calls, Redirected(c) PROVE LoadInv'
  BY <1>5 DEF Redirected, Goto
<1>6. ASSUME NEW c \in Calls, ConnLost(c) PROVE LoadInv'
  BY <1>6 DEF ConnLost, Goto, poolVars
<1>7. ASSUME NEW c \in Calls, GiveUp(c) PROVE LoadInv'
  BY <1>7 DEF GiveUp, Goto, poolVars
<1>8. ASSUME NEW g \in Clients, BackendCloses(g) PROVE LoadInv'
  BY <1>8 DEF BackendCloses, callVars
<1>9. CASE Swap
  BY <1>9 DEF Swap, callVars, poolVars
<1>10. CASE CloseIdleConnections
  BY <1>10 DEF CloseIdleConnections, callVars
<1> HIDE DEF IInv, TypeOK, LoadInv
<1> QED
  BY <1>1, <1>2, <1>3, <1>4, <1>5, <1>6, <1>7, <1>8, <1>9, <1>10, NextCases

\* Every action keeps PoolInv.
LEMMA NextPoolInv ==
  ASSUME IInv, Next
  PROVE  PoolInv'
<1> USE DEF IInv, TypeOK, LoadInv, PoolInv, Retired
<1>1. ASSUME NEW c \in Calls, NewRequest(c) \/ Load(c) \/ ConnLost(c) \/ GiveUp(c) PROVE PoolInv'
  BY <1>1 DEF NewRequest, Load, ConnLost, GiveUp, poolVars
<1>2. ASSUME NEW c \in Calls, TakeConn(c) PROVE PoolInv'
  BY <1>2 DEF TakeConn, Goto
<1>3. ASSUME NEW c \in Calls, Responded(c) PROVE PoolInv'
  BY <1>3 DEF Responded, PutIdleConn
<1>4. ASSUME NEW c \in Calls, Redirected(c) PROVE PoolInv'
  BY <1>4 DEF Redirected, PutIdleConn
<1>5. ASSUME NEW g \in Clients, BackendCloses(g) PROVE PoolInv'
  BY <1>5 DEF BackendCloses
<1>6. CASE Swap
  BY <1>6 DEF Swap, poolVars
<1>7. CASE CloseIdleConnections
  BY <1>7 DEF CloseIdleConnections, Old
<1> HIDE DEF IInv, TypeOK, LoadInv, PoolInv, Retired
<1> QED
  BY <1>1, <1>2, <1>3, <1>4, <1>5, <1>6, <1>7, NextCases

\* The inductive invariant holds in every reachable state.
THEOREM Invariance == Spec => []IInv
<1>1. IInv /\ UNCHANGED vars => IInv'
  BY DEF IInv, TypeOK, LoadInv, PoolInv, Retired, vars, callVars, poolVars
<1>2. IInv /\ Next => IInv'
  BY NextTypeOK, NextLoadInv, NextPoolInv DEF IInv
<1> QED
  BY InitIInv, <1>1, <1>2, PTL DEF Spec

\* The state stays within its types: no call makes more than MaxSendAttempts
\* attempts, no pool holds more than MaxIdle connections.
THEOREM TypeCorrect == Spec => []TypeOK
BY Invariance, PTL DEF IInv

\* A retired client keeps an idle connection only of a call that took one from
\* it after it was replaced (http.go:151, 312-319).
THEOREM OnlyLateCallsLingerCorrect == Spec => []OnlyLateCallsLinger
<1>1. IInv => OnlyLateCallsLinger
  BY DEF IInv, PoolInv, OnlyLateCallsLinger
<1> QED
  BY <1>1, Invariance, PTL

\* No attempt, a retry after a rotation included, uses older credentials than
\* those in use when it began (http.go:139-151).
THEOREM RetryUsesNewestCorrect == Spec => []RetryUsesNewest
<1>1. IInv => RetryUsesNewest
  BY DEF IInv, TypeOK, LoadInv, RetryUsesNewest
<1> QED
  BY <1>1, Invariance, PTL
=============================================================================
