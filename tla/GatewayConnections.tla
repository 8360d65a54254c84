------------------------- MODULE GatewayConnections -------------------------
(***************************************************************************)
(* The connections of the gateway broker for one route:                    *)
(* GatewayConnectionManager with its map of clients, idle timers and       *)
(* circuit breaker, and OpenClawOperatorClient with its socket, connect    *)
(* attempt, pending requests and assistant streams.                        *)
(*                                                                         *)
(* The broker is one event loop: an action is one callback (a frame, a     *)
(* close event, a timer, a new call) with everything it resolves before    *)
(* the next one.  The gateway and the network answer in any order, late,   *)
(* twice or never.  Text deltas are left out; a terminal event is known by *)
(* the run it names, which is the call that started the run, or names      *)
(* none.  The gateway answers sessions.send without a session key (its     *)
(* ackPayload), so the stream stays under the key it was registered with.  *)
(***************************************************************************)
EXTENDS Naturals, FiniteSets

CONSTANTS
  Clients,     \* OpenClawOperatorClient objects alive at once
  NoClient,
  Sockets,     \* sockets alive at once
  NoSocket,
  Asleep,      \* a connect attempt that waits before its next socket
  Streams,     \* calls of startAssistantStream
  Queries,     \* calls of getEffectiveTools and auditActivityList
  Keys,        \* session keys
  KeyOf,       \* the session key of each stream
  MaxTries     \* sockets one connect attempt opens within its budget

Calls == Streams \union Queries

ASSUME BrokerAssumption ==
  /\ NoClient \notin Clients
  /\ {NoSocket, Asleep} \intersect Sockets = {} /\ NoSocket # Asleep
  /\ Streams \intersect Queries = {}
  /\ KeyOf \in [Streams -> Keys]
  /\ MaxTries \in Nat \ {0}

VARIABLES
  inMap,     \* GatewayConnectionManager.clients: the client of the route
  armed,     \* idleTimer of each client is set
  circuit,   \* circuits: the route is refused for now
  cur,       \* socket of each client; connected says that there is one
  attempt,   \* reconnectInFlight: the socket it waits for
  tries,     \* sockets the attempt has opened
  shutdown,
  created,   \* createdSessionKeys
  sock,      \* state of each socket
  owner,     \* the client that opened it
  phase,     \* what each call waits for
  client,    \* the client each call was given
  active,    \* activeStreams
  queue,     \* how the turn ended: "final" and "unnamed" are final events with
             \* and without a runId
  early,     \* pendingStreamEvents: runs whose terminal event came early
  pending,   \* requests that wait for a response
  wire,      \* requests the gateway has not answered, with their socket
  run        \* the run of each stream at the gateway

mgrVars == <<inMap, armed, circuit>>
connVars == <<cur, attempt, tries, shutdown, created, sock, owner>>
callVars == <<phase, client, active, queue, early>>
reqVars == <<pending, wire>>
vars == <<mgrVars, connVars, callVars, reqVars, run>>

-----------------------------------------------------------------------------
Stages == {"create", "send", "recreate", "resend", "query", "subscribe"}
Awaiting == Stages \ {"subscribe"}      \* stages a call waits in
InFlight == Awaiting \union {"connect"}

Request(t, stage) == [call |-> t, stage |-> stage]

CallsOf(c) == {t \in Calls : client[t] = c}
ActiveOf(c) == {t \in active : client[t] = c}
Waiting(c) == {t \in CallsOf(c) : phase[t] = "connect"}
Busy(c) == {t \in CallsOf(c) : phase[t] \in InFlight}

\* Frames still arrive while a socket is closing.
Live(k) == sock[k] \in {"open", "closing"}
Free(k) == sock[k] = "free"

Init ==
  /\ inMap = NoClient /\ circuit = FALSE
  /\ armed = [c \in Clients |-> FALSE]
  /\ cur = [c \in Clients |-> NoSocket]
  /\ attempt = [c \in Clients |-> NoSocket]
  /\ tries = [c \in Clients |-> 0]
  /\ shutdown = [c \in Clients |-> FALSE]
  /\ created = [c \in Clients |-> {}]
  /\ sock = [k \in Sockets |-> "free"]
  /\ owner = [k \in Sockets |-> NoClient]
  /\ phase = [t \in Calls |-> "new"]
  /\ client = [t \in Calls |-> NoClient]
  /\ active = {}
  /\ queue = [t \in Streams |-> "open"]
  /\ early = [t \in Streams |-> {}]
  /\ pending = {} /\ wire = {}
  /\ run = [t \in Streams |-> "none"]

-----------------------------------------------------------------------------
(* Pieces of the handlers.                                                 *)

\* scheduleIdleDisconnect: only without active streams.
Arm(cs, act) == [c \in Clients |-> \/ armed[c]
                                   \/ c \in cs /\ ~\E t \in act : client[t] = c]

\* Mutant: the end of the last stream does not arm the timer.
Drained_Never(c, S, act) == {}

\* onActiveStreamDrained arms the timer of the client now in the map: when the
\* last stream leaves, and when one of S is closed though it had left before.
Drained(c, S, act) ==
  IF ActiveOf(c) \union (S \intersect Streams) # {} /\ ~(\E t \in act : client[t] = c)
    THEN {inMap} ELSE {}

\* The calls S of c return an error: recordResult, then the idle timer.
Returned(c, S, act) ==
  /\ phase' = [t \in Calls |-> IF t \in S THEN "over" ELSE phase[t]]
  /\ circuit' = (circuit \/ S # {})
  /\ armed' = Arm(Drained(c, S, act) \union (IF S = {} THEN {} ELSE {c}), act)

\* The calls of c that wait for a response.
Asking(c) == {t \in CallsOf(c) : phase[t] \in Awaiting}

\* How turns ended after those of S failed.
Failed(S) == [t \in Streams |-> IF t \in S THEN "failed" ELSE queue[t]]

\* Mutant: the streams of a lost connection are left to end by themselves.
FailAll_KeepStreams(c) ==
  /\ pending' = {r \in pending : client[r.call] # c}
  /\ active' = active \ Asking(c)
  /\ queue' = Failed(Asking(c))
  /\ Returned(c, Asking(c), active')

\* Mutant: the pending requests are forgotten instead of rejected.
FailAll_ForgetsCalls(c) ==
  /\ pending' = {r \in pending : client[r.call] # c}
  /\ active' = active \ ActiveOf(c)
  /\ queue' = Failed(ActiveOf(c))
  /\ Returned(c, {}, active')

\* rejectPending and failActiveStreams: every awaited request fails its call,
\* every registered stream gets a failed event and is closed.
FailAll(c) ==
  /\ pending' = {r \in pending : client[r.call] # c}
  /\ active' = active \ ActiveOf(c)
  /\ queue' = Failed(ActiveOf(c) \union Asking(c))
  /\ Returned(c, Asking(c), active')

\* connectOnce: a fresh socket for the attempt of c.
OpenSocket(c, k, from) ==
  /\ sock' = [from EXCEPT ![k] = "handshake"]
  /\ owner' = [n \in Sockets |-> IF n = k THEN c ELSE IF from[n] = "free" THEN NoClient ELSE owner[n]]
  /\ attempt' = [attempt EXCEPT ![c] = k]

\* The first request of a call that has a connection.
FirstStage(t, c) ==
  IF t \in Queries THEN "query" ELSE IF KeyOf[t] \in created[c] THEN "send" ELSE "create"

\* request: the requests R go out on socket k.
SendOn(k, R) ==
  /\ pending' = pending \union R
  /\ wire' = wire \union ({k} \X R)

-----------------------------------------------------------------------------
(* New calls.                                                              *)

\* getOrCreateClient with clearIdleTimer; a client slot is free once nothing
\* refers to the old object.
Acquire(c) ==
  /\ ~circuit
  /\ \/ inMap = c
     \/ /\ inMap = NoClient
        /\ Busy(c) = {} /\ attempt[c] = NoSocket /\ ~armed[c]
        /\ \A k \in Sockets : ~Free(k) => owner[k] # c
  /\ inMap' = c
  /\ shutdown' = [shutdown EXCEPT ![c] = IF inMap = c THEN @ ELSE FALSE]

\* activeStreams has the stream's session key.
SessionBusy(c, t) == t \in Streams /\ \E u \in ActiveOf(c) : KeyOf[u] = KeyOf[t]

\* startAssistantStream, getEffectiveTools or auditActivityList begins.  The
\* stream is registered before the connection is there.
Start(t, c) ==
  /\ phase[t] = "new"
  /\ Acquire(c)
  /\ ~SessionBusy(c, t)
  /\ armed' = [armed EXCEPT ![c] = FALSE]
  /\ client' = [client EXCEPT ![t] = c]
  /\ active' = IF t \in Streams THEN active \union {t} ELSE active
  /\ \/ \* connected: the first request goes out
        /\ cur[c] # NoSocket /\ sock[cur[c]] = "open"
        /\ phase' = [phase EXCEPT ![t] = FirstStage(t, c)]
        /\ SendOn(cur[c], {Request(t, FirstStage(t, c))})
        /\ UNCHANGED <<attempt, tries, sock, owner>>
     \/ \* join the attempt in flight
        /\ cur[c] = NoSocket /\ attempt[c] # NoSocket
        /\ phase' = [phase EXCEPT ![t] = "connect"]
        /\ UNCHANGED <<attempt, tries, sock, owner, pending, wire>>
     \/ \* begin an attempt
        /\ cur[c] = NoSocket /\ attempt[c] = NoSocket
        /\ \E k \in Sockets : Free(k) /\ OpenSocket(c, k, sock)
        /\ tries' = [tries EXCEPT ![c] = 1]
        /\ phase' = [phase EXCEPT ![t] = "connect"]
        /\ UNCHANGED <<pending, wire>>
  /\ UNCHANGED <<circuit, cur, created, queue, early, run>>

\* The call is refused: sessionBusy, or the socket is closing and the send
\* fails.  The first is no failure of the route.
StartRefused(t, c) ==
  /\ phase[t] = "new"
  /\ Acquire(c)
  /\ \/ SessionBusy(c, t) /\ UNCHANGED circuit
     \/ /\ ~SessionBusy(c, t)
        /\ cur[c] # NoSocket /\ sock[cur[c]] = "closing"
        /\ circuit' = TRUE
  /\ armed' = [armed EXCEPT ![c] = ActiveOf(c) = {}]
  /\ phase' = [phase EXCEPT ![t] = "over"]
  /\ UNCHANGED <<cur, attempt, tries, created, sock, owner, client, active, queue, early,
                 reqVars, run>>

-----------------------------------------------------------------------------
(* Connecting.                                                             *)

\* hello-ok: the socket becomes the client's, and every call that waited for
\* the attempt sends its first request.
HandshakeDone(k) ==
  /\ sock[k] = "handshake"
  /\ LET c == owner[k] IN
       /\ sock' = [sock EXCEPT ![k] = "open"]
       /\ cur' = [cur EXCEPT ![c] = k]
       /\ attempt' = [attempt EXCEPT ![c] = NoSocket]
       /\ tries' = [tries EXCEPT ![c] = 0]
       /\ phase' = [t \in Calls |-> IF t \in Waiting(c) THEN FirstStage(t, c) ELSE phase[t]]
       /\ SendOn(k, {Request(t, FirstStage(t, c)) : t \in Waiting(c)})
  /\ UNCHANGED <<mgrVars, shutdown, created, owner, client, active, queue, early, run>>

\* hello-ok on a socket whose attempt was given up: settle ignores it, but the
\* closing socket has become the client's.
LateHandshake(k) ==
  /\ sock[k] = "aborted"
  /\ sock' = [sock EXCEPT ![k] = "closing"]
  /\ cur' = [cur EXCEPT ![owner[k]] = k]
  /\ UNCHANGED <<mgrVars, attempt, tries, shutdown, created, owner, callVars, reqVars, run>>

\* The attempt of c fails: so do the calls that wait for it.
AttemptFails(c) ==
  /\ attempt' = [attempt EXCEPT ![c] = NoSocket]
  /\ tries' = [tries EXCEPT ![c] = 0]
  /\ active' = active \ Waiting(c)
  /\ queue' = Failed(Waiting(c))
  /\ Returned(c, Waiting(c), active')

\* The challenge timer: the socket is told to close and the attempt is over.
HandshakeTimeout(k) ==
  /\ sock[k] = "handshake"
  /\ sock' = [sock EXCEPT ![k] = "aborted"]
  /\ AttemptFails(owner[k])
  /\ UNCHANGED <<inMap, cur, shutdown, created, owner, client, early, reqVars, run>>

\* The gateway is still starting and says when to try again.
HandshakeRetry(k) ==
  /\ sock[k] = "handshake"
  /\ tries[owner[k]] < MaxTries /\ ~shutdown[owner[k]]
  /\ sock' = [sock EXCEPT ![k] = "free"]
  /\ owner' = [owner EXCEPT ![k] = NoClient]
  /\ attempt' = [attempt EXCEPT ![owner[k]] = Asleep]
  /\ UNCHANGED <<mgrVars, cur, tries, shutdown, created, callVars, reqVars, run>>

\* The wait is over: another socket, unless the client was shut down meanwhile
\* or the budget is spent.
SleepEnds(c) ==
  /\ attempt[c] = Asleep
  /\ \/ /\ ~shutdown[c]
        /\ \E k \in Sockets : Free(k) /\ OpenSocket(c, k, sock)
        /\ tries' = [tries EXCEPT ![c] = @ + 1]
        /\ UNCHANGED <<armed, circuit, phase, active, queue>>
     \/ /\ AttemptFails(c)
        /\ UNCHANGED <<sock, owner>>
  /\ UNCHANGED <<inMap, cur, shutdown, created, client, early, reqVars, run>>

\* The handshake is refused or the socket fails, or an aborted one has closed.
CloseUnused(k) ==
  /\ \/ /\ sock[k] = "handshake"
        /\ AttemptFails(owner[k])
     \/ /\ sock[k] = "aborted"
        /\ UNCHANGED <<armed, circuit, attempt, tries, phase, active, queue>>
  /\ sock' = [sock EXCEPT ![k] = "free"]
  /\ owner' = [owner EXCEPT ![k] = NoClient]
  /\ UNCHANGED <<inMap, cur, shutdown, created, client, early, reqVars, run>>

\* handleSocketClosed: it does not ask which socket closed.  Everything of the
\* client fails, and a client that was not shut down connects again.
SocketClosed(k) ==
  /\ Live(k)
  /\ LET c == owner[k]
         from == [sock EXCEPT ![k] = "free"] IN
       /\ cur' = [cur EXCEPT ![c] = NoSocket]
       /\ created' = [created EXCEPT ![c] = {}]
       /\ FailAll(c)
       /\ IF shutdown[c] \/ attempt[c] # NoSocket
            THEN /\ sock' = from
                 /\ owner' = [owner EXCEPT ![k] = NoClient]
                 /\ UNCHANGED <<attempt, tries>>
            ELSE /\ \E n \in Sockets : from[n] = "free" /\ OpenSocket(c, n, from)
                 /\ tries' = [tries EXCEPT ![c] = 1]
  /\ wire' = {x \in wire : x[1] # k}
  /\ UNCHANGED <<inMap, shutdown, client, early, run>>

-----------------------------------------------------------------------------
(* Responses and timeouts.                                                 *)

\* failConnection: the client's socket is closed, whichever socket the frame
\* came from; the new connection is left to the next call or close event.
FailConnection(c) ==
  /\ FailAll(c)
  /\ cur' = [cur EXCEPT ![c] = NoSocket]
  /\ created' = [created EXCEPT ![c] = {}]
  /\ sock' = [k \in Sockets |-> IF k = cur[c] THEN "closing" ELSE sock[k]]

\* A response nobody waits for any more, because its request timed out or was
\* rejected with a connection that was given up.
UnknownResponse(k, r) ==
  /\ Live(k) /\ <<k, r>> \in wire /\ r \notin pending
  /\ FailConnection(owner[k])
  /\ wire' = wire \ {<<k, r>>}
  /\ UNCHANGED <<inMap, attempt, tries, shutdown, owner, client, early, run>>

\* A second response to a request that was answered.
DuplicateResponse(k) ==
  /\ Live(k)
  /\ \E t \in CallsOf(owner[k]) : phase[t] \in {"send", "streaming", "over"}
  /\ FailConnection(owner[k])
  /\ UNCHANGED <<inMap, attempt, tries, shutdown, owner, client, early, wire, run>>

\* The call of r returns an error, and its stream is closed.
CallFails(r) ==
  /\ pending' = pending \ {r}
  /\ active' = active \ {r.call}
  /\ queue' = Failed({r.call})
  /\ Returned(client[r.call], {r.call}, active')

\* The gateway refuses a request, or its answer cannot be used.
ErrorResponse(k, r) ==
  /\ Live(k) /\ <<k, r>> \in wire /\ r \in pending
  /\ r.stage \in {"send", "resend"} => run[r.call] = "none"
  /\ IF r.stage = "subscribe"
       THEN pending' = pending \ {r} /\ UNCHANGED <<armed, circuit, phase, active, queue>>
       ELSE CallFails(r)
  /\ wire' = wire \ {<<k, r>>}
  /\ UNCHANGED <<inMap, connVars, client, early, run>>

\* The call sends its next request, on whatever socket the client has now.
Continues(k, r, stage) ==
  LET c == owner[k]  next == Request(r.call, stage) IN
  \/ /\ cur[c] # NoSocket /\ sock[cur[c]] = "open"
     /\ phase' = [phase EXCEPT ![r.call] = stage]
     /\ pending' = (pending \ {r}) \union {next}
     /\ wire' = (wire \ {<<k, r>>}) \union {<<cur[c], next>>}
     /\ UNCHANGED <<armed, circuit, active, queue>>
  \/ /\ cur[c] = NoSocket \/ sock[cur[c]] # "open"
     /\ CallFails(r)
     /\ wire' = wire \ {<<k, r>>}

\* sessions.create succeeded, or the session exists already.
SessionCreated(k, r) ==
  /\ Live(k) /\ <<k, r>> \in wire /\ r \in pending
  /\ r.stage \in {"create", "recreate"}
  /\ created' = [created EXCEPT ![owner[k]] = @ \union {KeyOf[r.call]}]
  /\ Continues(k, r, IF r.stage = "create" THEN "send" ELSE "resend")
  /\ UNCHANGED <<inMap, cur, attempt, tries, shutdown, sock, owner, client, early, run>>

\* sessions.send: "session not found".  Create it again and send again.
SessionNotFound(k, r) ==
  /\ Live(k) /\ <<k, r>> \in wire /\ r \in pending
  /\ r.stage = "send" /\ run[r.call] = "none"
  /\ created' = [created EXCEPT ![owner[k]] = @ \ {KeyOf[r.call]}]
  /\ Continues(k, r, "recreate")
  /\ UNCHANGED <<inMap, cur, attempt, tries, shutdown, sock, owner, client, early, run>>

\* Mutant: an event is taken for the session's turn whatever run it names.
Belongs_AnyRun(t, u) == TRUE

\* The runId test of handleStreamEvent.
Belongs(t, u) == t = u

\* How the terminal event of a run ends its turn: state final, or one of
\* aborted, error and the unknown ones.
Outcomes == {"final", "failed"}

\* sessions.send is accepted: the run is known, events that came early are
\* looked at, the receipt is returned and the subscription requested.  The early
\* events of a turn that was ended meanwhile are of no later turn's run.
Accepted(k, r) ==
  LET t == r.call  c == owner[k]
      ends == t \in active /\ \E u \in early[t] : Belongs(t, u)
      sub == Request(t, "subscribe")
      open == cur[c] # NoSocket /\ sock[cur[c]] = "open" IN
  /\ Live(k) /\ <<k, r>> \in wire /\ r \in pending
  /\ r.stage \in {"send", "resend"} /\ run[t] # "none"
  /\ phase' = [phase EXCEPT ![t] = "streaming"]
  /\ early' = [early EXCEPT ![t] = {}]
  /\ active' = IF ends THEN active \ {t} ELSE active
  /\ IF ends THEN \E how \in Outcomes : queue' = [queue EXCEPT ![t] = how]
             ELSE UNCHANGED queue
  /\ circuit' = FALSE
  /\ armed' = Arm({c} \union Drained(c, {}, active'), active')
  /\ pending' = (pending \ {r}) \union (IF open THEN {sub} ELSE {})
  /\ wire' = (wire \ {<<k, r>>}) \union (IF open THEN {<<cur[c], sub>>} ELSE {})
  /\ UNCHANGED <<inMap, connVars, client, run>>

\* The answer to a query, or to a subscription.
Answered(k, r) ==
  /\ Live(k) /\ <<k, r>> \in wire /\ r \in pending
  /\ r.stage \in {"query", "subscribe"}
  /\ pending' = pending \ {r}
  /\ wire' = wire \ {<<k, r>>}
  /\ IF r.stage = "query"
       THEN /\ phase' = [phase EXCEPT ![r.call] = "over"]
            /\ circuit' = FALSE
            /\ armed' = Arm({owner[k]}, active)
       ELSE UNCHANGED <<phase, circuit, armed>>
  /\ UNCHANGED <<inMap, connVars, client, active, queue, early, run>>

\* requestTimeoutMs passes without a response.
RequestTimeout(r) ==
  /\ r \in pending
  /\ IF r.stage = "subscribe"
       THEN pending' = pending \ {r} /\ UNCHANGED <<armed, circuit, phase, active, queue>>
       ELSE CallFails(r)
  /\ UNCHANGED <<inMap, connVars, client, early, wire, run>>

-----------------------------------------------------------------------------
(* The gateway, streams, and the manager's timers.                         *)

\* The gateway takes the message and runs it, answered or not.
RunBegins(t) ==
  /\ run[t] = "none"
  /\ \E k \in Sockets, stage \in {"send", "resend"} :
       Live(k) /\ <<k, Request(t, stage)>> \in wire
  /\ run' = [run EXCEPT ![t] = "running"]
  /\ UNCHANGED <<mgrVars, connVars, callVars, reqVars>>

RunEnds(t) ==
  /\ run[t] = "running"
  /\ run' = [run EXCEPT ![t] = "ended"]
  /\ UNCHANGED <<mgrVars, connVars, callVars, reqVars>>

\* closeActiveStream of a registered stream.
CloseStream(c, t, how) ==
  /\ active' = active \ {t}
  /\ queue' = [queue EXCEPT ![t] = how]
  /\ armed' = Arm(Drained(c, {}, active'), active')

\* The terminal event of run u reaches the stream t of its session: kept while
\* t does not know its run, dropped if it is another's, else the end of t.
TerminalEvent(k, u, t) ==
  /\ Live(k) /\ run[u] = "ended"
  /\ t \in ActiveOf(owner[k]) /\ KeyOf[t] = KeyOf[u]
  /\ \/ /\ phase[t] # "streaming" /\ u \notin early[t]
        /\ early' = [early EXCEPT ![t] = @ \union {u}]
        /\ UNCHANGED <<armed, active, queue>>
     \/ /\ phase[t] = "streaming" /\ Belongs(t, u)
        /\ \E how \in Outcomes : CloseStream(owner[k], t, how)
        /\ UNCHANGED early
  /\ UNCHANGED <<inMap, circuit, connVars, phase, client, reqVars, run>>

\* A terminal event without runId ends whichever turn of its session is
\* registered, also one whose call is still under way.
UnnamedEvent(k, t) ==
  /\ Live(k) /\ t \in ActiveOf(owner[k])
  /\ \E how \in {"unnamed", "failed"} : CloseStream(owner[k], t, how)
  /\ UNCHANGED <<inMap, circuit, connVars, phase, client, early, reqVars, run>>

\* The idle timer of c: disconnect, and the route's client leaves the map,
\* whether it is c or a later one.  A call that still waits for a response is
\* rejected, and its return sets the timer of c again.
IdleTimeout(c) ==
  /\ armed[c]
  /\ IF ActiveOf(c) # {}
       THEN /\ armed' = [armed EXCEPT ![c] = FALSE]
            /\ UNCHANGED <<inMap, circuit, cur, shutdown, created, sock, phase, queue, pending>>
       ELSE /\ armed' = [armed EXCEPT ![c] = Asking(c) # {}]
            /\ circuit' = (circuit \/ Asking(c) # {})
            /\ phase' = [t \in Calls |-> IF t \in Asking(c) THEN "over" ELSE phase[t]]
            /\ queue' = Failed(Asking(c))
            /\ inMap' = NoClient
            /\ shutdown' = [shutdown EXCEPT ![c] = TRUE]
            /\ created' = [created EXCEPT ![c] = {}]
            /\ pending' = {r \in pending : client[r.call] # c}
            /\ cur' = [cur EXCEPT ![c] = NoSocket]
            /\ sock' = [k \in Sockets |-> IF k = cur[c] THEN "closing" ELSE sock[k]]
  /\ UNCHANGED <<attempt, tries, owner, client, active, early, wire, run>>

\* The backoff or the open time of the circuit is over.
CircuitCloses ==
  /\ circuit
  /\ circuit' = FALSE
  /\ UNCHANGED <<inMap, armed, connVars, callVars, reqVars, run>>

Responses(k, r) ==
  \/ UnknownResponse(k, r) \/ ErrorResponse(k, r) \/ SessionCreated(k, r)
  \/ SessionNotFound(k, r) \/ Accepted(k, r) \/ Answered(k, r)

Next ==
  \/ \E t \in Calls, c \in Clients : Start(t, c) \/ StartRefused(t, c)
  \/ \E k \in Sockets :
       \/ HandshakeDone(k) \/ LateHandshake(k)
       \/ HandshakeTimeout(k) \/ HandshakeRetry(k)
       \/ CloseUnused(k) \/ SocketClosed(k) \/ DuplicateResponse(k)
       \/ \E t \in Streams : UnnamedEvent(k, t)
  \/ \E x \in wire : Responses(x[1], x[2])
  \/ \E r \in pending : RequestTimeout(r)
  \/ \E t \in Streams : RunBegins(t) \/ RunEnds(t)
  \/ \E k \in Sockets, u, t \in Streams : TerminalEvent(k, u, t)
  \/ \E c \in Clients : SleepEnds(c) \/ IdleTimeout(c)
  \/ CircuitCloses

Spec == Init /\ [][Next]_vars

\* The timers of connect attempts and requests fire.
Fairness ==
  /\ \A k \in Sockets : WF_vars(HandshakeTimeout(k))
  /\ \A c \in Clients : WF_vars(SleepEnds(c))
  /\ \A t \in Calls : WF_vars(\E stage \in Awaiting : RequestTimeout(Request(t, stage)))

-----------------------------------------------------------------------------
TypeOK ==
  /\ inMap \in Clients \union {NoClient}
  /\ armed \in [Clients -> BOOLEAN]
  /\ circuit \in BOOLEAN
  /\ cur \in [Clients -> Sockets \union {NoSocket}]
  /\ attempt \in [Clients -> Sockets \union {NoSocket, Asleep}]
  /\ tries \in [Clients -> 0..MaxTries]
  /\ shutdown \in [Clients -> BOOLEAN]
  /\ created \in [Clients -> SUBSET Keys]
  /\ sock \in [Sockets -> {"free", "handshake", "open", "closing", "aborted"}]
  /\ owner \in [Sockets -> Clients \union {NoClient}]
  /\ phase \in [Calls -> InFlight \union {"new", "streaming", "over"}]
  /\ client \in [Calls -> Clients \union {NoClient}]
  /\ active \subseteq Streams
  /\ queue \in [Streams -> {"open", "final", "unnamed", "failed"}]
  /\ early \in [Streams -> SUBSET Streams]
  /\ pending \subseteq [call : Calls, stage : Stages]
  /\ wire \subseteq (Sockets \X [call : Calls, stage : Stages])
  /\ run \in [Streams -> {"none", "running", "ended"}]

(* A stream that waits for its end has a connection whose end will be      *)
(* noticed: there is no timer for streams, so one that survived its socket *)
(* would never end and would block its session for good.                   *)
StreamHasSocket ==
  \A t \in active : phase[t] = "streaming"
                      => \E k \in Sockets : Live(k) /\ owner[k] = client[t]

(* A final event that names a run ends a turn only at the end of the       *)
(* turn's own run, also when the event came before the response that named *)
(* the run, and when an earlier turn of the session failed with its        *)
(* connection and its run goes on at the gateway.  Of a final event        *)
(* without runId handleStreamEvent promises nothing.                       *)
FinalIsOwn == \A t \in Streams : queue[t] = "final" => run[t] = "ended"

(* A client of the map that nothing uses has its idle timer set: otherwise *)
(* its connection would be kept for ever.                                  *)
IdleTimerSet ==
  \A c \in Clients : inMap = c /\ Busy(c) = {} /\ ActiveOf(c) = {} => armed[c]

(* Every call returns, whatever the gateway and the network do: each of    *)
(* its waits ends by an answer, by the end of the connection, or by a      *)
(* timer.                                                                  *)
EveryCallReturns ==
  \A t \in Calls : phase[t] \in InFlight ~> phase[t] \in {"streaming", "over"}

(* "so we never open two sockets for one route"                            *)
OneSocketPerRoute == Cardinality({k \in Sockets : sock[k] \in {"handshake", "open"}}) <= 1
=============================================================================
