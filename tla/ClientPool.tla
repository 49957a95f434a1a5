----------------------------- MODULE ClientPool -----------------------------
(***************************************************************************)
(* The HTTP client of an output and its pool of idle connections: the      *)
(* attempts of concurrent calls of Send (http.go:139-176) against          *)
(* reloadTLSClient, which swaps the client and closes the idle connections *)
(* of the old one (http.go:304-322).                                       *)
(*                                                                         *)
(* Clients are numbered in the order in which reloads create them.  The    *)
(* rules of the pool are those of net/http.Transport as createHTTPClient   *)
(* configures it: HTTP/1, two idle connections per host, no idle timeout,  *)
(* one host.  Credentials and the causes of a reload are in TLSWatcher,    *)
(* the classes of failure in HTTPSend.  A definition whose name ends in    *)
(* _bug is a plausible mistake in the one that follows it.                 *)
(***************************************************************************)
EXTENDS Integers

CONSTANTS
  Calls,            \* the calls of Send
  MaxSendAttempts,  \* o.maxSendAttempts
  MaxReloads,       \* bound: how often the credentials are reloaded
  MaxIdle           \* http.DefaultMaxIdleConnsPerHost

ASSUME PoolAssumption ==
  MaxSendAttempts \in Nat \ {0} /\ MaxReloads \in Nat /\ MaxIdle \in Nat \ {0}

Clients == 0 .. MaxReloads

VARIABLES
  client,       \* o.client
  reload,       \* "swapped": between Swap and CloseIdleConnections
  pc,           \* pc[c]: where the attempt of call c is
  attempt,      \* attempt[c]: the loop variable of Send
  using,        \* using[c]: the client the attempt has loaded
  begun,        \* history: o.client when the request of the attempt was built
  idle,         \* idle[g]: the idle connections in the pool of client g
  closeIdle,    \* closeIdle[g]: the pool closes what is returned to it
  late          \* history: the clients that gave a connection after their swap

callVars == <<pc, attempt, using, begun>>
poolVars == <<idle, closeIdle, late>>
vars == <<client, reload, callVars, poolVars>>

Init ==
  /\ client = 0
  /\ reload = "none"
  /\ pc = [c \in Calls |-> "off"]
  /\ attempt = [c \in Calls |-> 0]
  /\ using = [c \in Calls |-> 0]
  /\ begun = [c \in Calls |-> 0]
  /\ idle = [g \in Clients |-> 0]
  /\ closeIdle = [g \in Clients |-> FALSE]
  /\ late = {}

Goto(c, from, to) == pc[c] = from /\ pc' = [pc EXCEPT ![c] = to]

-----------------------------------------------------------------------------
(* The attempts of Send.                                                   *)

\* One attempt too many.
AttemptsLeft_bug(c) == attempt[c] <= MaxSendAttempts

AttemptsLeft(c) == attempt[c] < MaxSendAttempts

\* The next turn of the loop builds its request.
NewRequest(c) ==
  /\ AttemptsLeft(c)
  /\ \E from \in {"off", "failed"} : Goto(c, from, "built")
  /\ attempt' = [attempt EXCEPT ![c] = @ + 1]
  /\ begun' = [begun EXCEPT ![c] = client]
  /\ UNCHANGED <<client, reload, using, poolVars>>

\* The client is looked up once for all attempts.
Loaded_bug(c) == IF attempt[c] = 1 THEN client ELSE using[c]

\* What o.client.Load() returns.
Loaded(c) == client

Load(c) ==
  /\ Goto(c, "built", "loaded")
  /\ using' = [using EXCEPT ![c] = Loaded(c)]
  /\ UNCHANGED <<client, reload, attempt, begun, poolVars>>

\* Do takes an idle connection or dials one.  Either way the pool stops
\* closing what is returned to it.
TakeConn(c) ==
  LET g == using[c] IN
  /\ Goto(c, "loaded", "sending")
  /\ closeIdle' = [closeIdle EXCEPT ![g] = FALSE]
  /\ idle' = [idle EXCEPT ![g] = IF @ > 0 THEN @ - 1 ELSE 0]
  /\ late' = IF g < client THEN late \union {g} ELSE late
  /\ UNCHANGED <<client, reload, attempt, using, begun>>

\* The transport is handed a connection whose response has been read.
PutIdleConn(g) ==
  /\ idle' = [idle EXCEPT ![g] = IF closeIdle[g] \/ @ = MaxIdle THEN @ ELSE @ + 1]
  /\ UNCHANGED <<closeIdle, late>>

\* The response is read to its end: Send returns, or the attempt has failed.
Responded(c) ==
  /\ \E to \in {"returned", "failed"} : Goto(c, "sending", to)
  /\ PutIdleConn(using[c])
  /\ UNCHANGED <<client, reload, attempt, using, begun>>

\* A redirect is followed by the same client.
Redirected(c) ==
  /\ Goto(c, "sending", "loaded")
  /\ PutIdleConn(using[c])
  /\ UNCHANGED <<client, reload, attempt, using, begun>>

\* The connection breaks: Do fails, the body cannot be read and Send returns,
\* or Do takes another connection because the backend had closed an idle one
\* before anything was written to it.
ConnLost(c) ==
  /\ \E to \in {"failed", "returned", "loaded"} : Goto(c, "sending", to)
  /\ UNCHANGED <<client, reload, attempt, using, begun, poolVars>>

\* The last attempt has failed, or the context ends during the backoff.
GiveUp(c) ==
  /\ Goto(c, "failed", "returned")
  /\ UNCHANGED <<client, reload, attempt, using, begun, poolVars>>

\* The backend closes an idle connection.
BackendCloses(g) ==
  /\ idle[g] > 0
  /\ idle' = [idle EXCEPT ![g] = @ - 1]
  /\ UNCHANGED <<client, reload, callVars, closeIdle, late>>

-----------------------------------------------------------------------------
(* reloadTLSClient, in the one goroutine that watches the files.           *)

Swap ==
  /\ reload = "none"
  /\ client < MaxReloads
  /\ client' = client + 1
  /\ reload' = "swapped"
  /\ UNCHANGED <<callVars, poolVars>>

\* The new client, not the one it replaced.
Old_bug == client

\* The client that Swap returned.
Old == client - 1

\* The idle connections of the old client are closed, and those in use will be.
CloseIdleConnections ==
  /\ reload = "swapped"
  /\ reload' = "none"
  /\ idle' = [idle EXCEPT ![Old] = 0]
  /\ closeIdle' = [closeIdle EXCEPT ![Old] = TRUE]
  /\ UNCHANGED <<client, callVars, late>>

-----------------------------------------------------------------------------
Attempt(c) ==
  \/ NewRequest(c) \/ Load(c) \/ TakeConn(c)
  \/ Responded(c) \/ Redirected(c) \/ ConnLost(c) \/ GiveUp(c)

Next ==
  \/ \E c \in Calls : Attempt(c)
  \/ \E g \in Clients : BackendCloses(g)
  \/ Swap
  \/ CloseIdleConnections

Spec == Init /\ [][Next]_vars

-----------------------------------------------------------------------------
(* Properties.                                                             *)

\* Types of the state; the attempts and the pools stay within their limits.
TypeOK ==
  /\ client \in Clients
  /\ reload \in {"none", "swapped"}
  /\ pc \in [Calls -> {"off", "built", "loaded", "sending", "failed", "returned"}]
  /\ attempt \in [Calls -> 0 .. MaxSendAttempts]
  /\ using \in [Calls -> Clients]
  /\ begun \in [Calls -> Clients]
  /\ idle \in [Clients -> 0 .. MaxIdle]
  /\ closeIdle \in [Clients -> BOOLEAN]
  /\ late \subseteq Clients

\* The clients that a finished reload has replaced.
Retired == {g \in Clients : g < client /\ ~(reload = "swapped" /\ g = client - 1)}

\* A retired client keeps an idle connection only if a call that had loaded it
\* took a connection from it after the swap (http.go:151, 312-319): neither
\* the connections that were idle when it was replaced nor those in use then
\* outlive their response.
OnlyLateCallsLinger == \A g \in Retired : idle[g] > 0 => g \in late

\* No request goes out with credentials older than those in use when its
\* attempt began, a retry after a rotation included (http.go:139-151).
RetryUsesNewest ==
  \A c \in Calls : pc[c] \in {"loaded", "sending"} => using[c] >= begun[c]

-----------------------------------------------------------------------------
(* What the documentation says and the code does not do.                   *)

\* http.go:314-318: "idle keepalive connections on the previous client's
\* transport are closed explicitly.  Otherwise they linger in the old
\* transport's pool".  A call that loads the client before the swap and takes
\* its connection after CloseIdleConnections leaves one in the old pool, where
\* nothing closes it any more.
RetiredPoolsDrain ==
  \A g \in Retired :
    (\A c \in Calls : using[c] = g => pc[c] \in {"off", "failed", "returned"}) => idle[g] = 0
=============================================================================
