-------------------------- MODULE AssistantProofs --------------------------
(***************************************************************************)
(* Proofs about the two halves of an assistant's answer: the broker's      *)
(* connections to the gateway (GatewayConnections, for any number of       *)
(* clients, sockets, streams, queries and session keys) and the turns of   *)
(* the route that reads from them (AssistantTurns, for any number of       *)
(* requests, keys and tool calls).  The two share no variable.             *)
(***************************************************************************)
EXTENDS GatewayConnections, AssistantTurns, TLAPS

-----------------------------------------------------------------------------
(* A connect attempt sleeps only while its budget lasts. *)
BudgetLeft == \A c \in Clients : attempt[c] = Asleep => tries[c] < MaxTries

(* Only queries ask without a session. *)
StagesFit == \A r \in pending : r.stage # "query" => r.call \in Streams

(* A client's socket is alive and its own. *)
CurrentIsLive == \A c \in Clients : cur[c] # NoSocket => Live(cur[c]) /\ owner[cur[c]] = c

(* An unanswered request is of a call that has begun, on a live socket of  *)
(* the client the call was given.                                          *)
WireIsLive ==
  \A x \in wire : /\ Live(x[1]) /\ owner[x[1]] = client[x[2].call]
                  /\ phase[x[2].call] # "new"

(* Terminal events that were kept are of runs that ended. *)
EarlyEnded == \A t \in Streams : \A u \in early[t] : run[u] = "ended"

IInv ==
  /\ TypeOK
  /\ BudgetLeft
  /\ StagesFit
  /\ CurrentIsLive
  /\ WireIsLive
  /\ StreamHasSocket
  /\ FinalIsOwn
  /\ EarlyEnded
  /\ IdleTimerSet

Req == [call : Calls, stage : Stages]

-----------------------------------------------------------------------------
(* Frames: what has to be shown of a step for each part of the invariant.  *)

LEMMA SocketFrame ==
  ASSUME IInv, UNCHANGED <<cur, sock, owner, client>>, wire' \subseteq wire,
         \A t \in Calls : phase'[t] = "new" => phase[t] = "new"
  PROVE  CurrentIsLive' /\ WireIsLive'
<1>1. CurrentIsLive'
  BY DEF IInv, CurrentIsLive, Live
<1>2. \A x \in wire : x[2].call \in Calls
  BY DEF IInv, TypeOK
<1> QED
  BY <1>1, <1>2 DEF IInv, WireIsLive, Live

LEMMA StreamFrame ==
  ASSUME IInv, client' = client,
         \A t \in active' : phase'[t] = "streaming" => t \in active /\ phase[t] = "streaming",
         \A k \in Sockets : Live(k) => sock'[k] \in {"open", "closing"} /\ owner'[k] = owner[k]
  PROVE  StreamHasSocket'
  BY DEF IInv, StreamHasSocket, Live

LEMMA FinalFrame ==
  ASSUME IInv, UNCHANGED <<early, run>>,
         \A t \in Streams : queue'[t] = "final" => queue[t] = "final"
  PROVE  FinalIsOwn' /\ EarlyEnded'
  BY DEF IInv, FinalIsOwn, EarlyEnded

LEMMA TimerFrame ==
  ASSUME IInv, UNCHANGED <<inMap, armed, client, active>>,
         \A t \in Calls : phase'[t] \in InFlight <=> phase[t] \in InFlight
  PROVE  IdleTimerSet'
  BY DEF IInv, IdleTimerSet, Busy, ActiveOf, CallsOf

(* Calls S of client c return, streams of c leave the map: the idle timer  *)
(* of whichever client is in the map is set if nothing uses it any more.   *)
LEMMA ReturnedSetsTimer ==
  ASSUME IInv, NEW c, NEW S, S \subseteq CallsOf(c),
         UNCHANGED <<inMap, client>>,
         active' \subseteq active, active \ active' \subseteq ActiveOf(c),
         phase' = [t \in Calls |-> IF t \in S THEN "over" ELSE phase[t]],
         armed' = Arm(Drained(c, S, active') \union (IF S = {} THEN {} ELSE {c}), active')
  PROVE  IdleTimerSet'
<1> SUFFICES ASSUME NEW d \in Clients, inMap = d,
                    \A t \in Calls : client[t] = d => phase'[t] \notin InFlight,
                    \A t \in active' : client[t] # d
             PROVE  armed'[d]
  BY DEF IdleTimerSet, Busy, ActiveOf, CallsOf
<1>1. armed'[d] <=> \/ armed[d]
                    \/ d \in Drained(c, S, active') \union (IF S = {} THEN {} ELSE {c})
  BY DEF Arm
<1>2. CASE armed[d]
  BY <1>1, <1>2
<1>3. CASE Busy(d) # {}
  <2>1. PICK t \in Calls : client[t] = d /\ phase[t] \in InFlight
    BY <1>3 DEF Busy, CallsOf
  <2>2. t \in S
    BY <2>1
  <2>3. c = d
    BY <2>1, <2>2 DEF CallsOf
  <2> QED
    BY <1>1, <2>2, <2>3
<1>4. CASE ActiveOf(d) # {}
  <2>1. PICK t \in active : client[t] = d
    BY <1>4 DEF ActiveOf
  <2>2. c = d
    BY <2>1 DEF ActiveOf
  <2>3. d \in Drained(c, S, active')
    BY <1>4, <2>2 DEF Drained
  <2> QED
    BY <1>1, <2>3
<1>5. Busy(d) = {} /\ ActiveOf(d) = {} => armed[d]
  BY DEF IInv, IdleTimerSet
<1> QED
  BY <1>2, <1>3, <1>4, <1>5

(* The types of what Returned writes. *)
LEMMA ReturnedTypes ==
  ASSUME TypeOK, NEW c, NEW S, NEW act, Returned(c, S, act)
  PROVE  /\ phase' \in [Calls -> InFlight \union {"new", "streaming", "over"}]
         /\ armed' \in [Clients -> BOOLEAN] /\ circuit' \in BOOLEAN
         /\ \A t \in Calls : phase'[t] = "over" \/ phase'[t] = phase[t]
<1>1. phase' = [t \in Calls |-> IF t \in S THEN "over" ELSE phase[t]]
  BY DEF Returned
<1>2. phase' \in [Calls -> InFlight \union {"new", "streaming", "over"}]
  BY <1>1 DEF TypeOK
<1>3. armed' \in [Clients -> BOOLEAN]
  BY DEF Returned, Arm
<1>4. circuit' \in BOOLEAN
  BY DEF Returned
<1> QED
  BY <1>1, <1>2, <1>3, <1>4

(* The end of a connection: rejectPending and failActiveStreams. *)
LEMMA FailAllFacts ==
  ASSUME IInv, NEW c, FailAll(c), UNCHANGED <<inMap, client, early, run>>
  PROVE  /\ pending' \subseteq pending /\ active' \subseteq active
         /\ \A t \in active' : client[t] # c
         /\ queue' \in [Streams -> {"open", "final", "unnamed", "failed"}]
         /\ phase' \in [Calls -> InFlight \union {"new", "streaming", "over"}]
         /\ armed' \in [Clients -> BOOLEAN] /\ circuit' \in BOOLEAN
         /\ \A t \in Calls : phase'[t] = "over" \/ phase'[t] = phase[t]
         /\ FinalIsOwn' /\ EarlyEnded' /\ IdleTimerSet' /\ StagesFit'
<1> DEFINE S == Asking(c)
<1>1. /\ pending' = {r \in pending : client[r.call] # c}
      /\ active' = active \ ActiveOf(c)
      /\ queue' = [t \in Streams |-> IF t \in ActiveOf(c) \union S THEN "failed" ELSE queue[t]]
      /\ Returned(c, S, active')
  BY DEF FailAll, Failed
<1>2. TypeOK
  BY DEF IInv
<1>3. queue' \in [Streams -> {"open", "final", "unnamed", "failed"}]
  BY <1>1, <1>2 DEF TypeOK
<1>4. FinalIsOwn' /\ EarlyEnded'
  BY <1>1, FinalFrame
<1>5. IdleTimerSet'
  <2>1. S \subseteq CallsOf(c) /\ active \ active' \subseteq ActiveOf(c)
    BY <1>1 DEF Asking
  <2>2. /\ phase' = [t \in Calls |-> IF t \in S THEN "over" ELSE phase[t]]
        /\ armed' = Arm(Drained(c, S, active') \union (IF S = {} THEN {} ELSE {c}), active')
    BY <1>1 DEF Returned
  <2> HIDE DEF S
  <2> QED
    BY <1>1, <2>1, <2>2, ReturnedSetsTimer
<1>6. StagesFit'
  BY <1>1 DEF IInv, StagesFit
<1>7. \A t \in active' : client[t] # c
  BY <1>1 DEF ActiveOf
<1> HIDE DEF S
<1> QED
  BY <1>1, <1>2, <1>3, <1>4, <1>5, <1>6, <1>7, ReturnedTypes

(* One call returns an error and its stream is closed. *)
LEMMA CallFailsFacts ==
  ASSUME IInv, NEW r \in pending, CallFails(r), UNCHANGED <<inMap, client, early, run>>
  PROVE  /\ pending' \subseteq pending /\ active' \subseteq active
         /\ queue' \in [Streams -> {"open", "final", "unnamed", "failed"}]
         /\ phase' \in [Calls -> InFlight \union {"new", "streaming", "over"}]
         /\ armed' \in [Clients -> BOOLEAN] /\ circuit' \in BOOLEAN
         /\ \A t \in Calls : phase'[t] = "over" \/ phase'[t] = phase[t]
         /\ FinalIsOwn' /\ EarlyEnded' /\ IdleTimerSet' /\ StagesFit'
<1> DEFINE c == client[r.call]
           S == {r.call}
<1>1. /\ pending' = pending \ {r}
      /\ active' = active \ {r.call}
      /\ queue' = [t \in Streams |-> IF t \in S THEN "failed" ELSE queue[t]]
      /\ Returned(c, S, active')
  BY DEF CallFails, Failed
<1>2. TypeOK /\ r.call \in Calls
  BY DEF IInv, TypeOK
<1>3. queue' \in [Streams -> {"open", "final", "unnamed", "failed"}]
  BY <1>1, <1>2 DEF TypeOK
<1>4. FinalIsOwn' /\ EarlyEnded'
  BY <1>1, FinalFrame
<1>5. IdleTimerSet'
  <2>1. S \subseteq CallsOf(c) /\ active \ active' \subseteq ActiveOf(c)
    BY <1>1, <1>2 DEF CallsOf, ActiveOf
  <2>2. /\ phase' = [t \in Calls |-> IF t \in S THEN "over" ELSE phase[t]]
        /\ armed' = Arm(Drained(c, S, active') \union (IF S = {} THEN {} ELSE {c}), active')
    BY <1>1 DEF Returned
  <2> HIDE DEF S, c
  <2> QED
    BY <1>1, <2>1, <2>2, ReturnedSetsTimer
<1>6. StagesFit'
  BY <1>1 DEF IInv, StagesFit
<1> HIDE DEF S, c
<1> QED
  BY <1>1, <1>2, <1>3, <1>4, <1>5, <1>6, ReturnedTypes

(* A connect attempt fails with the calls that wait for it. *)
LEMMA AttemptFailsFacts ==
  ASSUME IInv, NEW c, AttemptFails(c), UNCHANGED <<inMap, client, early, run>>
  PROVE  /\ active' \subseteq active
         /\ attempt' \in [Clients -> Sockets \union {NoSocket, Asleep}]
         /\ tries' \in [Clients -> 0..MaxTries] /\ BudgetLeft'
         /\ queue' \in [Streams -> {"open", "final", "unnamed", "failed"}]
         /\ phase' \in [Calls -> InFlight \union {"new", "streaming", "over"}]
         /\ armed' \in [Clients -> BOOLEAN] /\ circuit' \in BOOLEAN
         /\ \A t \in Calls : phase'[t] = "over" \/ phase'[t] = phase[t]
         /\ FinalIsOwn' /\ EarlyEnded' /\ IdleTimerSet'
<1> DEFINE S == Waiting(c)
<1>1. /\ attempt' = [attempt EXCEPT ![c] = NoSocket]
      /\ tries' = [tries EXCEPT ![c] = 0]
      /\ active' = active \ S
      /\ queue' = [t \in Streams |-> IF t \in S THEN "failed" ELSE queue[t]]
      /\ Returned(c, S, active')
  BY DEF AttemptFails, Failed
<1>2. TypeOK
  BY DEF IInv
<1>3. queue' \in [Streams -> {"open", "final", "unnamed", "failed"}]
  BY <1>1, <1>2 DEF TypeOK
<1>4. FinalIsOwn' /\ EarlyEnded'
  BY <1>1, FinalFrame
<1>5. /\ attempt' \in [Clients -> Sockets \union {NoSocket, Asleep}]
      /\ tries' \in [Clients -> 0..MaxTries] /\ BudgetLeft'
  <2>1. 0 \in 0..MaxTries /\ NoSocket # Asleep
    BY BrokerAssumption
  <2>2. /\ attempt' \in [Clients -> Sockets \union {NoSocket, Asleep}]
        /\ tries' \in [Clients -> 0..MaxTries]
    BY <1>1, <1>2, <2>1 DEF TypeOK
  <2>3. \A d \in Clients : attempt'[d] = Asleep => attempt[d] = Asleep /\ tries'[d] = tries[d]
    BY <1>1, <1>2, <2>1 DEF TypeOK
  <2> QED
    BY <2>2, <2>3 DEF IInv, BudgetLeft
<1>6. IdleTimerSet'
  <2>1. S \subseteq CallsOf(c) /\ active \ active' \subseteq ActiveOf(c)
    BY <1>1 DEF CallsOf, ActiveOf, Waiting
  <2>2. /\ phase' = [t \in Calls |-> IF t \in S THEN "over" ELSE phase[t]]
        /\ armed' = Arm(Drained(c, S, active') \union (IF S = {} THEN {} ELSE {c}), active')
    BY <1>1 DEF Returned
  <2> HIDE DEF S
  <2> QED
    BY <1>1, <2>1, <2>2, ReturnedSetsTimer
<1> HIDE DEF S
<1> QED
  BY <1>1, <1>2, <1>3, <1>4, <1>5, <1>6, ReturnedTypes

(* A fresh socket for the attempt of c. *)
LEMMA OpenSocketFacts ==
  ASSUME TypeOK, BudgetLeft, NEW c \in Clients, NEW k \in Sockets, NEW from,
         from \in [Sockets -> {"free", "handshake", "open", "closing", "aborted"}],
         from[k] = "free", OpenSocket(c, k, from),
         tries' \in [Clients -> 0..MaxTries],
         \A d \in Clients : d # c => tries'[d] = tries[d]
  PROVE  /\ sock' \in [Sockets -> {"free", "handshake", "open", "closing", "aborted"}]
         /\ owner' \in [Sockets -> Clients \union {NoClient}]
         /\ attempt' \in [Clients -> Sockets \union {NoSocket, Asleep}]
         /\ BudgetLeft'
         /\ \A n \in Sockets : from[n] # "free" => sock'[n] = from[n] /\ owner'[n] = owner[n]
<1>1. sock' = [from EXCEPT ![k] = "handshake"]
  BY DEF OpenSocket
<1>2. owner' = [n \in Sockets |-> IF n = k THEN c ELSE IF from[n] = "free" THEN NoClient ELSE owner[n]]
  BY DEF OpenSocket
<1>3. attempt' = [attempt EXCEPT ![c] = k]
  BY DEF OpenSocket
<1>4. owner' \in [Sockets -> Clients \union {NoClient}]
  BY <1>2 DEF TypeOK
<1>5. attempt' \in [Clients -> Sockets \union {NoSocket, Asleep}] /\ attempt'[c] = k
  BY <1>3 DEF TypeOK
<1>6. \A d \in Clients : d # c => attempt'[d] = attempt[d]
  BY <1>3 DEF TypeOK
<1>7. k # Asleep
  BY BrokerAssumption
<1>8. BudgetLeft'
  BY <1>5, <1>6, <1>7 DEF BudgetLeft
<1>9. \A n \in Sockets : from[n] # "free" => sock'[n] = from[n] /\ owner'[n] = owner[n]
  BY <1>1, <1>2
<1> QED
  BY <1>1, <1>4, <1>5, <1>8, <1>9

(* The first request of a call. *)
LEMMA FirstStageFacts ==
  ASSUME NEW t \in Calls, NEW c
  PROVE  /\ FirstStage(t, c) \in {"query", "send", "create"}
         /\ FirstStage(t, c) # "query" => t \in Streams
         /\ Request(t, FirstStage(t, c)) \in Req
         /\ Request(t, FirstStage(t, c)).call = t
         /\ Request(t, FirstStage(t, c)).stage = FirstStage(t, c)
<1>1. FirstStage(t, c) \in {"query", "send", "create"} /\ (FirstStage(t, c) # "query" => t \in Streams)
  BY DEF FirstStage, Calls
<1> QED
  BY <1>1 DEF Request, Req, Stages

-----------------------------------------------------------------------------
(* New calls. *)

LEMMA AcquireFacts ==
  ASSUME TypeOK, NEW c \in Clients, Acquire(c)
  PROVE  inMap' = c /\ shutdown' \in [Clients -> BOOLEAN]
<1>1. shutdown' = [shutdown EXCEPT ![c] = IF inMap = c THEN @ ELSE FALSE]
  BY DEF Acquire
<1>2. shutdown' \in [Clients -> BOOLEAN]
  BY <1>1 DEF TypeOK
<1> QED
  BY <1>2 DEF Acquire

LEMMA StartKeeps ==
  ASSUME IInv, NEW t \in Calls, NEW c \in Clients, Start(t, c)
  PROVE  IInv'
<1>1. TypeOK /\ BudgetLeft
  BY DEF IInv
<1>2. /\ phase[t] = "new" /\ inMap' = c /\ shutdown' \in [Clients -> BOOLEAN]
      /\ armed' = [armed EXCEPT ![c] = FALSE]
      /\ client' = [client EXCEPT ![t] = c]
      /\ active' = IF t \in Streams THEN active \union {t} ELSE active
      /\ UNCHANGED <<circuit, cur, created, queue, early, run>>
  BY <1>1, AcquireFacts DEF Start
<1>3. /\ armed' \in [Clients -> BOOLEAN] /\ active' \subseteq Streams
      /\ client' \in [Calls -> Clients \union {NoClient}] /\ client'[t] = c
      /\ \A u \in Calls : u # t => client'[u] = client[u]
  BY <1>1, <1>2 DEF TypeOK
<1>4. /\ phase' \in [Calls -> InFlight \union {"new", "streaming", "over"}]
      /\ phase'[t] \in InFlight
      /\ \A u \in Calls : u # t => phase'[u] = phase[u]
      /\ pending' \subseteq Req /\ StagesFit'
      /\ wire' \subseteq (Sockets \X Req)
      /\ \A x \in wire' \ wire : x[1] = cur[c] /\ x[2].call = t /\ cur[c] # NoSocket
      /\ attempt' \in [Clients -> Sockets \union {NoSocket, Asleep}]
      /\ tries' \in [Clients -> 0..MaxTries] /\ BudgetLeft'
      /\ sock' \in [Sockets -> {"free", "handshake", "open", "closing", "aborted"}]
      /\ owner' \in [Sockets -> Clients \union {NoClient}]
      /\ \A k \in Sockets : sock[k] # "free" => sock'[k] = sock[k] /\ owner'[k] = owner[k]
  <2>1. CASE /\ cur[c] # NoSocket /\ sock[cur[c]] = "open"
             /\ phase' = [phase EXCEPT ![t] = FirstStage(t, c)]
             /\ SendOn(cur[c], {Request(t, FirstStage(t, c))})
             /\ UNCHANGED <<attempt, tries, sock, owner>>
    <3> DEFINE q == Request(t, FirstStage(t, c))
    <3>1. q \in Req /\ q.call = t /\ q.stage = FirstStage(t, c)
          /\ FirstStage(t, c) \in {"query", "send", "create"}
          /\ (FirstStage(t, c) # "query" => t \in Streams)
      BY FirstStageFacts
    <3>2. pending' = pending \union {q} /\ wire' = wire \union ({cur[c]} \X {q})
      BY <2>1 DEF SendOn
    <3>3. cur[c] \in Sockets
      BY <1>1, <2>1 DEF TypeOK
    <3> HIDE DEF q
    <3>4. StagesFit'
      BY <3>1, <3>2 DEF IInv, StagesFit
    <3>5. pending' \subseteq Req /\ wire' \subseteq (Sockets \X Req)
      BY <1>1, <3>1, <3>2, <3>3 DEF TypeOK, Req
    <3>6. \A x \in wire' \ wire : x[1] = cur[c] /\ x[2].call = t
      BY <3>1, <3>2
    <3>7. /\ phase' \in [Calls -> InFlight \union {"new", "streaming", "over"}]
          /\ phase'[t] \in InFlight
          /\ \A u \in Calls : u # t => phase'[u] = phase[u]
      BY <1>1, <2>1, <3>1 DEF TypeOK, InFlight, Awaiting, Stages
    <3>8. BudgetLeft'
      BY <1>1, <2>1 DEF BudgetLeft
    <3> QED
      BY <1>1, <2>1, <3>4, <3>5, <3>6, <3>7, <3>8 DEF TypeOK
  <2>2. CASE /\ phase' = [phase EXCEPT ![t] = "connect"]
             /\ UNCHANGED <<attempt, tries, sock, owner, pending, wire>>
    BY <1>1, <2>2 DEF IInv, TypeOK, InFlight, StagesFit, BudgetLeft, Req
  <2>3. CASE /\ \E k \in Sockets : Free(k) /\ OpenSocket(c, k, sock)
             /\ tries' = [tries EXCEPT ![c] = 1]
             /\ phase' = [phase EXCEPT ![t] = "connect"]
             /\ UNCHANGED <<pending, wire>>
    <3>1. /\ tries' \in [Clients -> 0..MaxTries]
          /\ \A d \in Clients : d # c => tries'[d] = tries[d]
      BY <1>1, <2>3, BrokerAssumption DEF TypeOK
    <3>2. PICK k \in Sockets : Free(k) /\ OpenSocket(c, k, sock)
      BY <2>3
    <3>3. /\ sock' \in [Sockets -> {"free", "handshake", "open", "closing", "aborted"}]
          /\ owner' \in [Sockets -> Clients \union {NoClient}]
          /\ attempt' \in [Clients -> Sockets \union {NoSocket, Asleep}]
          /\ BudgetLeft'
          /\ \A n \in Sockets : sock[n] # "free" => sock'[n] = sock[n] /\ owner'[n] = owner[n]
      <4>1. sock \in [Sockets -> {"free", "handshake", "open", "closing", "aborted"}] /\ sock[k] = "free"
        BY <1>1, <3>2 DEF TypeOK, Free
      <4> QED
        BY <1>1, <3>1, <3>2, <4>1, OpenSocketFacts
    <3>4. /\ phase' \in [Calls -> InFlight \union {"new", "streaming", "over"}]
          /\ phase'[t] \in InFlight
          /\ \A u \in Calls : u # t => phase'[u] = phase[u]
      BY <1>1, <2>3 DEF TypeOK, InFlight
    <3>5. StagesFit' /\ pending' \subseteq Req /\ wire' \subseteq (Sockets \X Req) /\ wire' = wire
      BY <1>1, <2>3 DEF IInv, StagesFit, TypeOK, Req
    <3> QED
      BY <3>1, <3>3, <3>4, <3>5
  <2> QED
    BY <2>1, <2>2, <2>3 DEF Start
<1>5. TypeOK'
  BY <1>1, <1>2, <1>3, <1>4 DEF TypeOK, Req
<1>6. CurrentIsLive'
  <2>1. \A d \in Clients : cur[d] # NoSocket => cur[d] \in Sockets /\ sock[cur[d]] # "free"
    BY DEF IInv, TypeOK, CurrentIsLive, Live
  <2> QED
    BY <1>2, <1>4, <2>1 DEF IInv, CurrentIsLive, Live
<1>7. WireIsLive'
  <2> SUFFICES ASSUME NEW x \in wire'
               PROVE  /\ Live(x[1])' /\ owner'[x[1]] = client'[x[2].call]
                      /\ phase'[x[2].call] # "new"
    BY DEF WireIsLive
  <2>1. x[1] \in Sockets /\ x[2].call \in Calls
    BY <1>4 DEF Req
  <2>2. CASE x \in wire
    <3>1. Live(x[1]) /\ owner[x[1]] = client[x[2].call] /\ phase[x[2].call] # "new"
      BY <2>2 DEF IInv, WireIsLive
    <3>2. x[2].call # t
      BY <1>2, <3>1
    <3> QED
      BY <1>3, <1>4, <2>1, <3>1, <3>2 DEF Live
  <2>3. CASE x \notin wire
    <3>1. x[1] = cur[c] /\ x[2].call = t /\ cur[c] # NoSocket
      BY <1>4, <2>3
    <3>2. Live(cur[c]) /\ owner[cur[c]] = c
      BY <3>1 DEF IInv, CurrentIsLive
    <3>3. phase'[t] # "new"
      BY <1>4 DEF InFlight, Awaiting, Stages
    <3> QED
      BY <1>3, <1>4, <2>1, <3>1, <3>2, <3>3 DEF Live
  <2> QED
    BY <2>2, <2>3
<1>8. StreamHasSocket'
  <2> SUFFICES ASSUME NEW u \in active', phase'[u] = "streaming"
               PROVE  \E k \in Sockets : Live(k)' /\ owner'[k] = client'[u]
    BY DEF StreamHasSocket
  <2>1. u # t
    BY <1>4 DEF InFlight, Awaiting, Stages
  <2>2. u \in active /\ u \in Calls
    BY <1>1, <1>2, <2>1 DEF TypeOK, Calls
  <2>3. PICK k \in Sockets : Live(k) /\ owner[k] = client[u]
    BY <1>4, <2>1, <2>2 DEF IInv, StreamHasSocket
  <2> QED
    BY <1>3, <1>4, <2>1, <2>2, <2>3 DEF Live
<1>9. FinalIsOwn' /\ EarlyEnded'
  BY <1>2, FinalFrame
<1>10. IdleTimerSet'
  BY <1>2, <1>3, <1>4 DEF IdleTimerSet, Busy, CallsOf
<1> QED
  BY <1>4, <1>5, <1>6, <1>7, <1>8, <1>9, <1>10 DEF IInv

LEMMA StartRefusedKeeps ==
  ASSUME IInv, NEW t \in Calls, NEW c \in Clients, StartRefused(t, c)
  PROVE  IInv'
<1>1. TypeOK
  BY DEF IInv
<1>2. /\ inMap' = c /\ shutdown' \in [Clients -> BOOLEAN]
      /\ armed' = [armed EXCEPT ![c] = ActiveOf(c) = {}]
      /\ phase' = [phase EXCEPT ![t] = "over"]
      /\ UNCHANGED <<cur, attempt, tries, created, sock, owner, client, active, queue, early,
                     pending, wire, run>>
  BY <1>1, AcquireFacts DEF StartRefused, reqVars
<1>3. circuit' \in BOOLEAN
  BY <1>1 DEF StartRefused, TypeOK
<1>4. /\ armed' \in [Clients -> BOOLEAN] /\ armed'[c] = (ActiveOf(c) = {})
      /\ phase' \in [Calls -> InFlight \union {"new", "streaming", "over"}]
      /\ \A u \in Calls : phase'[u] = "over" \/ phase'[u] = phase[u]
  BY <1>1, <1>2 DEF TypeOK
<1>5. TypeOK'
  BY <1>1, <1>2, <1>3, <1>4 DEF TypeOK
<1>6. CurrentIsLive' /\ WireIsLive'
  BY <1>2, <1>4, SocketFrame
<1>7. StreamHasSocket'
  <2>1. \A u \in active' : phase'[u] = "streaming" => u \in active /\ phase[u] = "streaming"
    BY <1>1, <1>2, <1>4 DEF TypeOK, Calls
  <2> QED
    BY <1>2, <2>1, StreamFrame DEF Live
<1>8. FinalIsOwn' /\ EarlyEnded'
  BY <1>2, FinalFrame
<1>9. IdleTimerSet'
  BY <1>2, <1>4 DEF IdleTimerSet, ActiveOf
<1>10. BudgetLeft' /\ StagesFit'
  BY <1>2 DEF IInv, BudgetLeft, StagesFit
<1> QED
  BY <1>5, <1>6, <1>7, <1>8, <1>9, <1>10 DEF IInv

-----------------------------------------------------------------------------
(* Connecting. *)

LEMMA HandshakeDoneKeeps ==
  ASSUME IInv, NEW k \in Sockets, HandshakeDone(k)
  PROVE  IInv'
<1> DEFINE c == owner[k]
           R == {Request(t, FirstStage(t, c)) : t \in Waiting(c)}
<1>1. TypeOK
  BY DEF IInv
<1>2. /\ sock[k] = "handshake"
      /\ sock' = [sock EXCEPT ![k] = "open"]
      /\ cur' = [cur EXCEPT ![c] = k]
      /\ attempt' = [attempt EXCEPT ![c] = NoSocket]
      /\ tries' = [tries EXCEPT ![c] = 0]
      /\ phase' = [t \in Calls |-> IF t \in Waiting(c) THEN FirstStage(t, c) ELSE phase[t]]
      /\ pending' = pending \union R
      /\ wire' = wire \union ({k} \X R)
      /\ UNCHANGED <<inMap, armed, circuit, shutdown, created, owner, client, active, queue, early, run>>
  BY DEF HandshakeDone, SendOn, mgrVars
<1>3. \A q \in R : /\ q \in Req /\ q.call \in Calls /\ client[q.call] = c
                   /\ q.call \in Waiting(c)
                   /\ (q.stage # "query" => q.call \in Streams)
  BY FirstStageFacts DEF Waiting, CallsOf
<1>4. \A t \in Calls : t \in Waiting(c) => FirstStage(t, c) \in {"query", "send", "create"}
  BY FirstStageFacts
<1>5. /\ phase' \in [Calls -> InFlight \union {"new", "streaming", "over"}]
      /\ \A t \in Calls : phase'[t] \in InFlight <=> phase[t] \in InFlight
      /\ \A t \in Calls : phase'[t] # phase[t] => phase'[t] \in {"query", "send", "create"}
      /\ \A t \in Waiting(c) : phase'[t] \in {"query", "send", "create"}
  BY <1>1, <1>2, <1>4 DEF TypeOK, Waiting, CallsOf, InFlight, Awaiting, Stages
<1> HIDE DEF R
<1>6. /\ attempt' \in [Clients -> Sockets \union {NoSocket, Asleep}]
      /\ tries' \in [Clients -> 0..MaxTries] /\ BudgetLeft'
  <2>1. 0 \in 0..MaxTries /\ NoSocket # Asleep
    BY BrokerAssumption
  <2>2. /\ attempt' \in [Clients -> Sockets \union {NoSocket, Asleep}]
        /\ tries' \in [Clients -> 0..MaxTries]
    BY <1>1, <1>2, <2>1 DEF TypeOK
  <2>3. \A d \in Clients : attempt'[d] = Asleep => attempt[d] = Asleep /\ tries'[d] = tries[d]
    BY <1>1, <1>2, <2>1 DEF TypeOK
  <2> QED
    BY <2>2, <2>3 DEF IInv, BudgetLeft
<1>7. TypeOK'
  <2>1. pending' \subseteq Req /\ wire' \subseteq (Sockets \X Req)
    BY <1>1, <1>2, <1>3 DEF TypeOK, Req
  <2>2. /\ sock' \in [Sockets -> {"free", "handshake", "open", "closing", "aborted"}]
        /\ cur' \in [Clients -> Sockets \union {NoSocket}]
    BY <1>1, <1>2 DEF TypeOK
  <2> QED
    BY <1>1, <1>2, <1>5, <1>6, <2>1, <2>2 DEF TypeOK, Req
<1>8. \A n \in Sockets : Live(n) => sock'[n] = sock[n] /\ n # k
  BY <1>1, <1>2 DEF TypeOK, Live
<1>9. CurrentIsLive'
  <2> SUFFICES ASSUME NEW d \in Clients, cur'[d] # NoSocket
               PROVE  sock'[cur'[d]] \in {"open", "closing"} /\ owner'[cur'[d]] = d
    BY DEF CurrentIsLive, Live
  <2>1. CASE d = c
    BY <1>1, <1>2, <2>1 DEF TypeOK, Live
  <2>2. CASE d # c
    <3>1. cur'[d] = cur[d] /\ cur[d] \in Sockets
      BY <1>1, <1>2, <2>2 DEF TypeOK
    <3>2. Live(cur[d]) /\ owner[cur[d]] = d
      BY <3>1 DEF IInv, CurrentIsLive
    <3> QED
      BY <1>2, <1>8, <3>1, <3>2 DEF Live
  <2> QED
    BY <2>1, <2>2
<1>10. WireIsLive'
  <2> SUFFICES ASSUME NEW x \in wire'
               PROVE  /\ Live(x[1])' /\ owner'[x[1]] = client'[x[2].call]
                      /\ phase'[x[2].call] # "new"
    BY DEF WireIsLive
  <2>1. CASE x \in wire
    <3>1. x[1] \in Sockets /\ x[2].call \in Calls
      BY <1>1, <2>1 DEF TypeOK
    <3>2. Live(x[1]) /\ owner[x[1]] = client[x[2].call] /\ phase[x[2].call] # "new"
      BY <2>1 DEF IInv, WireIsLive
    <3> QED
      BY <1>2, <1>5, <1>8, <3>1, <3>2 DEF Live
  <2>2. CASE x \in {k} \X R
    <3>1. x[1] = k /\ x[2] \in R
      BY <2>2
    <3>2. sock'[k] = "open"
      BY <1>1, <1>2 DEF TypeOK
    <3> QED
      BY <1>2, <1>3, <1>5, <3>1, <3>2 DEF Live
  <2> QED
    BY <1>2, <2>1, <2>2
<1>11. StreamHasSocket'
  <2>1. \A t \in active' : phase'[t] = "streaming" => t \in active /\ phase[t] = "streaming"
    BY <1>1, <1>2, <1>5 DEF TypeOK, Calls
  <2>2. \A n \in Sockets : Live(n) => sock'[n] \in {"open", "closing"} /\ owner'[n] = owner[n]
    BY <1>2, <1>8 DEF Live
  <2> QED
    BY <1>2, <2>1, <2>2, StreamFrame
<1>12. FinalIsOwn' /\ EarlyEnded'
  BY <1>2, FinalFrame
<1>13. IdleTimerSet'
  BY <1>2, <1>5, TimerFrame
<1>14. StagesFit'
  BY <1>2, <1>3 DEF IInv, StagesFit
<1> QED
  BY <1>6, <1>7, <1>9, <1>10, <1>11, <1>12, <1>13, <1>14 DEF IInv

LEMMA LateHandshakeKeeps ==
  ASSUME IInv, NEW k \in Sockets, LateHandshake(k)
  PROVE  IInv'
<1>1. TypeOK
  BY DEF IInv
<1>2. /\ sock[k] = "aborted"
      /\ sock' = [sock EXCEPT ![k] = "closing"]
      /\ cur' = [cur EXCEPT ![owner[k]] = k]
      /\ UNCHANGED <<inMap, armed, circuit, attempt, tries, shutdown, created, owner,
                     phase, client, active, queue, early, pending, wire, run>>
  BY DEF LateHandshake, mgrVars, callVars, reqVars
<1>3. TypeOK'
  <2>1. /\ sock' \in [Sockets -> {"free", "handshake", "open", "closing", "aborted"}]
        /\ cur' \in [Clients -> Sockets \union {NoSocket}]
    BY <1>1, <1>2 DEF TypeOK
  <2> QED
    BY <1>1, <1>2, <2>1 DEF TypeOK
<1>4. \A n \in Sockets : Live(n) => sock'[n] = sock[n] /\ n # k
  BY <1>1, <1>2 DEF TypeOK, Live
<1>5. CurrentIsLive'
  <2> SUFFICES ASSUME NEW d \in Clients, cur'[d] # NoSocket
               PROVE  sock'[cur'[d]] \in {"open", "closing"} /\ owner'[cur'[d]] = d
    BY DEF CurrentIsLive, Live
  <2>1. CASE d = owner[k]
    BY <1>1, <1>2, <2>1 DEF TypeOK, Live
  <2>2. CASE d # owner[k]
    <3>1. cur'[d] = cur[d] /\ cur[d] \in Sockets
      BY <1>1, <1>2, <2>2 DEF TypeOK
    <3>2. Live(cur[d]) /\ owner[cur[d]] = d
      BY <3>1 DEF IInv, CurrentIsLive
    <3> QED
      BY <1>2, <1>4, <3>1, <3>2 DEF Live
  <2> QED
    BY <2>1, <2>2
<1>6. WireIsLive'
  <2>1. \A x \in wire : x[1] \in Sockets
    BY <1>1 DEF TypeOK
  <2> QED
    BY <1>2, <1>4, <2>1 DEF IInv, WireIsLive, Live
<1>7. StreamHasSocket'
  BY <1>2, <1>4, StreamFrame DEF Live
<1>8. FinalIsOwn' /\ EarlyEnded' /\ IdleTimerSet' /\ BudgetLeft' /\ StagesFit'
  BY <1>2, FinalFrame, TimerFrame DEF IInv, BudgetLeft, StagesFit
<1> QED
  BY <1>3, <1>5, <1>6, <1>7, <1>8 DEF IInv

(* Sockets that are not live change, and calls fail: nothing else does. *)
LEMMA DeadSocketFrame ==
  ASSUME IInv, UNCHANGED <<inMap, cur, shutdown, created, client, early, pending, wire, run>>,
         sock' \in [Sockets -> {"free", "handshake", "open", "closing", "aborted"}],
         owner' \in [Sockets -> Clients \union {NoClient}],
         attempt' \in [Clients -> Sockets \union {NoSocket, Asleep}],
         tries' \in [Clients -> 0..MaxTries],
         phase' \in [Calls -> InFlight \union {"new", "streaming", "over"}],
         armed' \in [Clients -> BOOLEAN], circuit' \in BOOLEAN,
         queue' \in [Streams -> {"open", "final", "unnamed", "failed"}],
         active' \subseteq active,
         \A t \in Calls : phase'[t] = "over" \/ phase'[t] = phase[t],
         \A n \in Sockets : Live(n) => sock'[n] = sock[n] /\ owner'[n] = owner[n],
         BudgetLeft', FinalIsOwn', EarlyEnded', IdleTimerSet'
  PROVE  IInv'
<1>1. TypeOK
  BY DEF IInv
<1>2. TypeOK'
  BY <1>1 DEF TypeOK
<1>3. CurrentIsLive'
  <2>1. \A d \in Clients : cur[d] # NoSocket => cur[d] \in Sockets
    BY <1>1 DEF TypeOK
  <2> QED
    BY <2>1 DEF IInv, CurrentIsLive, Live
<1>4. WireIsLive'
  <2>1. \A x \in wire : x[1] \in Sockets /\ x[2].call \in Calls
    BY <1>1 DEF TypeOK
  <2> QED
    BY <2>1 DEF IInv, WireIsLive, Live
<1>5. StreamHasSocket'
  <2>1. \A t \in active' : phase'[t] = "streaming" => t \in active /\ phase[t] = "streaming"
    BY <1>1 DEF TypeOK, Calls
  <2> QED
    BY <2>1, StreamFrame DEF Live
<1>6. StagesFit'
  BY DEF IInv, StagesFit
<1> QED
  BY <1>2, <1>3, <1>4, <1>5, <1>6 DEF IInv

LEMMA HandshakeTimeoutKeeps ==
  ASSUME IInv, NEW k \in Sockets, HandshakeTimeout(k)
  PROVE  IInv'
<1>1. TypeOK
  BY DEF IInv
<1>2. /\ sock[k] = "handshake" /\ sock' = [sock EXCEPT ![k] = "aborted"]
      /\ AttemptFails(owner[k])
      /\ UNCHANGED <<inMap, cur, shutdown, created, owner, client, early, pending, wire, run>>
  BY DEF HandshakeTimeout, reqVars
<1>3. /\ sock' \in [Sockets -> {"free", "handshake", "open", "closing", "aborted"}]
      /\ owner' \in [Sockets -> Clients \union {NoClient}]
      /\ \A n \in Sockets : Live(n) => sock'[n] = sock[n] /\ owner'[n] = owner[n]
  BY <1>1, <1>2 DEF TypeOK, Live
<1> QED
  BY <1>2, <1>3, AttemptFailsFacts, DeadSocketFrame

LEMMA HandshakeRetryKeeps ==
  ASSUME IInv, NEW k \in Sockets, HandshakeRetry(k)
  PROVE  IInv'
<1>1. TypeOK
  BY DEF IInv
<1>2. /\ sock[k] = "handshake" /\ tries[owner[k]] < MaxTries
      /\ sock' = [sock EXCEPT ![k] = "free"]
      /\ owner' = [owner EXCEPT ![k] = NoClient]
      /\ attempt' = [attempt EXCEPT ![owner[k]] = Asleep]
      /\ UNCHANGED <<inMap, armed, circuit, cur, tries, shutdown, created,
                     phase, client, active, queue, early, pending, wire, run>>
  BY DEF HandshakeRetry, mgrVars, callVars, reqVars
<1>3. /\ sock' \in [Sockets -> {"free", "handshake", "open", "closing", "aborted"}]
      /\ owner' \in [Sockets -> Clients \union {NoClient}]
      /\ attempt' \in [Clients -> Sockets \union {NoSocket, Asleep}]
      /\ \A n \in Sockets : Live(n) => sock'[n] = sock[n] /\ owner'[n] = owner[n]
  BY <1>1, <1>2 DEF TypeOK, Live
<1>4. BudgetLeft'
  BY <1>1, <1>2 DEF TypeOK, IInv, BudgetLeft
<1>5. FinalIsOwn' /\ EarlyEnded' /\ IdleTimerSet'
  BY <1>2, FinalFrame, TimerFrame
<1>6. /\ tries' \in [Clients -> 0..MaxTries]
      /\ phase' \in [Calls -> InFlight \union {"new", "streaming", "over"}]
      /\ armed' \in [Clients -> BOOLEAN] /\ circuit' \in BOOLEAN
      /\ queue' \in [Streams -> {"open", "final", "unnamed", "failed"}]
  BY <1>1, <1>2 DEF TypeOK
<1> QED
  BY <1>2, <1>3, <1>4, <1>5, <1>6, DeadSocketFrame

LEMMA CloseUnusedKeeps ==
  ASSUME IInv, NEW k \in Sockets, CloseUnused(k)
  PROVE  IInv'
<1>1. TypeOK
  BY DEF IInv
<1>2. /\ sock[k] \in {"handshake", "aborted"}
      /\ sock' = [sock EXCEPT ![k] = "free"]
      /\ owner' = [owner EXCEPT ![k] = NoClient]
      /\ UNCHANGED <<inMap, cur, shutdown, created, client, early, pending, wire, run>>
  BY DEF CloseUnused, reqVars
<1>3. /\ sock' \in [Sockets -> {"free", "handshake", "open", "closing", "aborted"}]
      /\ owner' \in [Sockets -> Clients \union {NoClient}]
      /\ \A n \in Sockets : Live(n) => sock'[n] = sock[n] /\ owner'[n] = owner[n]
  BY <1>1, <1>2 DEF TypeOK, Live
<1>4. CASE AttemptFails(owner[k])
  BY <1>2, <1>3, <1>4, AttemptFailsFacts, DeadSocketFrame
<1>5. CASE UNCHANGED <<armed, circuit, attempt, tries, phase, active, queue>>
  <2>1. BudgetLeft' /\ FinalIsOwn' /\ EarlyEnded' /\ IdleTimerSet'
    BY <1>2, <1>5, FinalFrame, TimerFrame DEF IInv, BudgetLeft
  <2>2. /\ tries' \in [Clients -> 0..MaxTries]
        /\ attempt' \in [Clients -> Sockets \union {NoSocket, Asleep}]
        /\ phase' \in [Calls -> InFlight \union {"new", "streaming", "over"}]
        /\ armed' \in [Clients -> BOOLEAN] /\ circuit' \in BOOLEAN
        /\ queue' \in [Streams -> {"open", "final", "unnamed", "failed"}]
    BY <1>1, <1>5 DEF TypeOK
  <2> QED
    BY <1>2, <1>3, <1>5, <2>1, <2>2, DeadSocketFrame
<1> QED
  BY <1>4, <1>5 DEF CloseUnused

LEMMA SleepEndsKeeps ==
  ASSUME IInv, NEW c \in Clients, SleepEnds(c)
  PROVE  IInv'
<1>1. TypeOK /\ BudgetLeft
  BY DEF IInv
<1>2. /\ attempt[c] = Asleep
      /\ UNCHANGED <<inMap, cur, shutdown, created, client, early, pending, wire, run>>
  BY DEF SleepEnds, reqVars
<1>3. CASE /\ \E k \in Sockets : Free(k) /\ OpenSocket(c, k, sock)
           /\ tries' = [tries EXCEPT ![c] = @ + 1]
           /\ UNCHANGED <<armed, circuit, phase, active, queue>>
  <2>1. PICK k \in Sockets : Free(k) /\ OpenSocket(c, k, sock)
    BY <1>3
  <2>2. tries[c] + 1 \in 0..MaxTries
    BY <1>1, <1>2, BrokerAssumption DEF TypeOK, BudgetLeft
  <2>3. /\ tries' \in [Clients -> 0..MaxTries]
        /\ \A d \in Clients : d # c => tries'[d] = tries[d]
    BY <1>1, <1>3, <2>2 DEF TypeOK
  <2>4. /\ sock \in [Sockets -> {"free", "handshake", "open", "closing", "aborted"}]
        /\ sock[k] = "free"
    BY <1>1, <2>1 DEF TypeOK, Free
  <2>5. /\ sock' \in [Sockets -> {"free", "handshake", "open", "closing", "aborted"}]
        /\ owner' \in [Sockets -> Clients \union {NoClient}]
        /\ attempt' \in [Clients -> Sockets \union {NoSocket, Asleep}]
        /\ BudgetLeft'
        /\ \A n \in Sockets : sock[n] # "free" => sock'[n] = sock[n] /\ owner'[n] = owner[n]
    BY <1>1, <2>1, <2>3, <2>4, OpenSocketFacts
  <2>6. \A n \in Sockets : Live(n) => sock'[n] = sock[n] /\ owner'[n] = owner[n]
    BY <2>5 DEF Live
  <2>7. FinalIsOwn' /\ EarlyEnded' /\ IdleTimerSet'
    BY <1>2, <1>3, FinalFrame, TimerFrame
  <2>8. /\ phase' \in [Calls -> InFlight \union {"new", "streaming", "over"}]
        /\ armed' \in [Clients -> BOOLEAN] /\ circuit' \in BOOLEAN
        /\ queue' \in [Streams -> {"open", "final", "unnamed", "failed"}]
    BY <1>1, <1>3 DEF TypeOK
  <2> QED
    BY <1>2, <1>3, <2>3, <2>5, <2>6, <2>7, <2>8, DeadSocketFrame
<1>4. CASE AttemptFails(c) /\ UNCHANGED <<sock, owner>>
  <2>1. /\ sock' \in [Sockets -> {"free", "handshake", "open", "closing", "aborted"}]
        /\ owner' \in [Sockets -> Clients \union {NoClient}]
    BY <1>1, <1>4 DEF TypeOK
  <2> QED
    BY <1>2, <1>4, <2>1, AttemptFailsFacts, DeadSocketFrame
<1> QED
  BY <1>3, <1>4 DEF SleepEnds

-----------------------------------------------------------------------------
(* The owners of sockets. *)

(* A socket that exists was opened by a client. *)
SocketsOwned == \A k \in Sockets : sock[k] # "free" => owner[k] \in Clients

LEMMA OwnedFrame ==
  ASSUME SocketsOwned,
         \A n \in Sockets : sock'[n] # "free" => sock[n] # "free" /\ owner'[n] = owner[n]
  PROVE  SocketsOwned'
  BY DEF SocketsOwned

LEMMA OpenSocketOwned ==
  ASSUME SocketsOwned, NEW c \in Clients, NEW k \in Sockets, NEW from,
         from \in [Sockets -> {"free", "handshake", "open", "closing", "aborted"}],
         \A n \in Sockets : from[n] # "free" => sock[n] # "free",
         OpenSocket(c, k, from)
  PROVE  SocketsOwned'
<1>1. /\ sock' = [from EXCEPT ![k] = "handshake"]
      /\ owner' = [n \in Sockets |-> IF n = k THEN c ELSE IF from[n] = "free" THEN NoClient ELSE owner[n]]
  BY DEF OpenSocket
<1> SUFFICES ASSUME NEW n \in Sockets, sock'[n] # "free"
             PROVE  owner'[n] \in Clients
  BY DEF SocketsOwned
<1>2. CASE n = k
  BY <1>1, <1>2
<1>3. CASE n # k
  <2>1. from[n] # "free"
    BY <1>1, <1>3
  <2> QED
    BY <1>1, <1>3, <2>1 DEF SocketsOwned
<1> QED
  BY <1>2, <1>3

(* The socket a client gives up was its own. *)
LEMMA ClosingOwned ==
  ASSUME IInv, SocketsOwned, NEW c \in Clients, owner' = owner,
         sock' = [k \in Sockets |-> IF k = cur[c] THEN "closing" ELSE sock[k]]
  PROVE  SocketsOwned'
<1>1. \A n \in Sockets : n = cur[c] => sock[n] # "free"
  <2> SUFFICES ASSUME NEW n \in Sockets, n = cur[c]
               PROVE  sock[n] # "free"
    OBVIOUS
  <2>1. cur[c] # NoSocket
    BY BrokerAssumption
  <2> QED
    BY <2>1 DEF IInv, CurrentIsLive, Live
<1> QED
  BY <1>1, OwnedFrame

LEMMA SocketClosedOwned ==
  ASSUME IInv, SocketsOwned, NEW k \in Sockets, SocketClosed(k)
  PROVE  SocketsOwned'
<1> DEFINE c == owner[k]
           from == [sock EXCEPT ![k] = "free"]
<1>1. /\ Live(k)
      /\ \/ /\ sock' = from /\ owner' = [owner EXCEPT ![k] = NoClient]
         \/ \E n \in Sockets : from[n] = "free" /\ OpenSocket(c, n, from)
  BY DEF SocketClosed
<1>2. TypeOK /\ c \in Clients
  BY <1>1 DEF IInv, SocketsOwned, Live
<1>3. /\ from \in [Sockets -> {"free", "handshake", "open", "closing", "aborted"}]
      /\ \A n \in Sockets : from[n] # "free" => sock[n] # "free"
  BY <1>2 DEF TypeOK
<1>4. CASE sock' = from /\ owner' = [owner EXCEPT ![k] = NoClient]
  BY <1>2, <1>4, OwnedFrame DEF TypeOK
<1>5. ASSUME NEW n \in Sockets, OpenSocket(c, n, from)
      PROVE  SocketsOwned'
  <2> HIDE DEF from, c
  <2> QED
    BY <1>2, <1>3, <1>5, OpenSocketOwned
<1> QED
  BY <1>1, <1>4, <1>5

LEMMA OwnedKeeps ==
  ASSUME IInv, SocketsOwned, Next
  PROVE  SocketsOwned'
<1>1. TypeOK
  BY DEF IInv
<1>2. sock \in [Sockets -> {"free", "handshake", "open", "closing", "aborted"}]
  BY <1>1 DEF TypeOK
<1>3. ASSUME UNCHANGED <<sock, owner>>
      PROVE  SocketsOwned'
  BY <1>3, OwnedFrame
<1>4. ASSUME NEW t \in Calls, NEW c \in Clients, Start(t, c)
      PROVE  SocketsOwned'
  <2>1. UNCHANGED <<sock, owner>> \/ \E k \in Sockets : OpenSocket(c, k, sock)
    BY <1>4 DEF Start
  <2> QED
    BY <1>2, <1>3, <2>1, OpenSocketOwned
<1>5. ASSUME NEW t \in Calls, NEW c \in Clients, StartRefused(t, c)
      PROVE  SocketsOwned'
  BY <1>3, <1>5 DEF StartRefused
<1>6. ASSUME NEW k \in Sockets,
             HandshakeDone(k) \/ LateHandshake(k) \/ HandshakeTimeout(k)
      PROVE  SocketsOwned'
  <2>1. /\ owner' = owner /\ sock[k] # "free"
        /\ \E s : sock' = [sock EXCEPT ![k] = s]
    BY <1>6 DEF HandshakeDone, LateHandshake, HandshakeTimeout
  <2> QED
    BY <1>2, <2>1, OwnedFrame
<1>7. ASSUME NEW k \in Sockets, HandshakeRetry(k) \/ CloseUnused(k)
      PROVE  SocketsOwned'
  <2>1. sock' = [sock EXCEPT ![k] = "free"] /\ owner' = [owner EXCEPT ![k] = NoClient]
    BY <1>7 DEF HandshakeRetry, CloseUnused
  <2> QED
    BY <1>1, <2>1, OwnedFrame DEF TypeOK
<1>8. ASSUME NEW k \in Sockets, SocketClosed(k)
      PROVE  SocketsOwned'
  BY <1>8, SocketClosedOwned
<1>9. ASSUME NEW k \in Sockets, Live(k), FailConnection(owner[k]), owner' = owner
      PROVE  SocketsOwned'
  <2>1. owner[k] \in Clients
    BY <1>9 DEF SocketsOwned, Live
  <2> QED
    BY <1>9, <2>1, ClosingOwned DEF FailConnection
<1>10. ASSUME NEW k \in Sockets, DuplicateResponse(k)
      PROVE  SocketsOwned'
  BY <1>9, <1>10 DEF DuplicateResponse
<1>11. ASSUME NEW k \in Sockets, NEW t \in Streams, UnnamedEvent(k, t)
      PROVE  SocketsOwned'
  BY <1>3, <1>11 DEF UnnamedEvent, connVars
<1>12. ASSUME NEW x \in wire, Responses(x[1], x[2])
      PROVE  SocketsOwned'
  <2>1. CASE UnknownResponse(x[1], x[2])
    <3>1. x[1] \in Sockets
      BY <1>1, <1>12 DEF TypeOK
    <3> QED
      BY <1>9, <2>1, <3>1 DEF UnknownResponse
  <2>2. CASE UNCHANGED <<sock, owner>>
    BY <1>3, <2>2
  <2> QED
    BY <1>12, <2>1, <2>2
       DEF Responses, ErrorResponse, SessionCreated, SessionNotFound, Accepted, Answered, connVars
<1>13. ASSUME NEW r \in pending, RequestTimeout(r)
       PROVE  SocketsOwned'
  BY <1>3, <1>13 DEF RequestTimeout, connVars
<1>14. ASSUME NEW t \in Streams, RunBegins(t) \/ RunEnds(t)
       PROVE  SocketsOwned'
  BY <1>3, <1>14 DEF RunBegins, RunEnds, connVars
<1>15. ASSUME NEW k \in Sockets, NEW u \in Streams, NEW t \in Streams, TerminalEvent(k, u, t)
       PROVE  SocketsOwned'
  BY <1>3, <1>15 DEF TerminalEvent, connVars
<1>16. ASSUME NEW c \in Clients, SleepEnds(c)
       PROVE  SocketsOwned'
  <2>1. UNCHANGED <<sock, owner>> \/ \E k \in Sockets : OpenSocket(c, k, sock)
    BY <1>16 DEF SleepEnds
  <2> QED
    BY <1>2, <1>3, <2>1, OpenSocketOwned
<1>17. ASSUME NEW c \in Clients, IdleTimeout(c)
       PROVE  SocketsOwned'
  <2>1. /\ owner' = owner
        /\ sock' = sock \/ sock' = [k \in Sockets |-> IF k = cur[c] THEN "closing" ELSE sock[k]]
    BY <1>17 DEF IdleTimeout
  <2> QED
    BY <1>3, <2>1, ClosingOwned
<1>18. ASSUME CircuitCloses
       PROVE  SocketsOwned'
  BY <1>3, <1>18 DEF CircuitCloses, connVars
<1> QED
  BY <1>4, <1>5, <1>6, <1>7, <1>8, <1>10, <1>11, <1>12, <1>13, <1>14, <1>15,
     <1>16, <1>17, <1>18 DEF Next

-----------------------------------------------------------------------------
(* Lost connections, responses and timeouts. *)

(* No live socket is lost, and what is new on the wire goes to a socket of *)
(* the client that sends it.                                               *)
LEMMA LiveFrame ==
  ASSUME IInv, client' = client,
         \A n \in Sockets : Live(n) => sock'[n] \in {"open", "closing"} /\ owner'[n] = owner[n],
         \A d \in Clients : cur'[d] # NoSocket => cur'[d] = cur[d],
         \A x \in wire' : \/ x \in wire
                          \/ /\ x[1] \in Sockets /\ Live(x[1])
                             /\ owner[x[1]] = client[x[2].call]
                             /\ phase'[x[2].call] # "new",
         \A t \in Calls : phase'[t] = "new" => phase[t] = "new"
  PROVE  CurrentIsLive' /\ WireIsLive'
<1>1. TypeOK
  BY DEF IInv
<1>2. CurrentIsLive'
  <2> SUFFICES ASSUME NEW d \in Clients, cur'[d] # NoSocket
               PROVE  sock'[cur'[d]] \in {"open", "closing"} /\ owner'[cur'[d]] = d
    BY DEF CurrentIsLive, Live
  <2>1. cur'[d] = cur[d] /\ cur[d] \in Sockets /\ Live(cur[d]) /\ owner[cur[d]] = d
    BY <1>1 DEF TypeOK, IInv, CurrentIsLive
  <2> QED
    BY <2>1
<1>3. WireIsLive'
  <2> SUFFICES ASSUME NEW x \in wire'
               PROVE  /\ sock'[x[1]] \in {"open", "closing"}
                      /\ owner'[x[1]] = client'[x[2].call]
                      /\ phase'[x[2].call] # "new"
    BY DEF WireIsLive, Live
  <2>1. CASE x \in wire
    <3>1. x[1] \in Sockets /\ x[2].call \in Calls
      BY <1>1, <2>1 DEF TypeOK
    <3>2. Live(x[1]) /\ owner[x[1]] = client[x[2].call] /\ phase[x[2].call] # "new"
      BY <2>1 DEF IInv, WireIsLive
    <3> QED
      BY <3>1, <3>2
  <2>2. CASE x \notin wire
    BY <2>2
  <2> QED
    BY <2>1, <2>2
<1> QED
  BY <1>2, <1>3

LEMMA SocketClosedKeeps ==
  ASSUME IInv, SocketsOwned, NEW k \in Sockets, SocketClosed(k)
  PROVE  IInv'
<1> DEFINE c == owner[k]
           from == [sock EXCEPT ![k] = "free"]
<1>1. TypeOK /\ BudgetLeft
  BY DEF IInv
<1>2. /\ Live(k) /\ FailAll(c)
      /\ cur' = [cur EXCEPT ![c] = NoSocket]
      /\ created' = [created EXCEPT ![c] = {}]
      /\ wire' = {x \in wire : x[1] # k}
      /\ UNCHANGED <<inMap, shutdown, client, early, run>>
  BY DEF SocketClosed
<1>3. c \in Clients
  BY <1>2 DEF SocketsOwned, Live
<1>4. /\ from \in [Sockets -> {"free", "handshake", "open", "closing", "aborted"}]
      /\ \A n \in Sockets : n # k => from[n] = sock[n]
      /\ from[k] = "free"
  BY <1>1 DEF TypeOK
<1>5. /\ sock' \in [Sockets -> {"free", "handshake", "open", "closing", "aborted"}]
      /\ owner' \in [Sockets -> Clients \union {NoClient}]
      /\ attempt' \in [Clients -> Sockets \union {NoSocket, Asleep}]
      /\ tries' \in [Clients -> 0..MaxTries] /\ BudgetLeft'
      /\ \A n \in Sockets : n # k /\ Live(n) => sock'[n] = sock[n] /\ owner'[n] = owner[n]
  <2>1. CASE sock' = from /\ owner' = [owner EXCEPT ![k] = NoClient] /\ UNCHANGED <<attempt, tries>>
    <3>1. /\ owner' \in [Sockets -> Clients \union {NoClient}]
          /\ \A n \in Sockets : n # k => owner'[n] = owner[n]
      BY <1>1, <2>1 DEF TypeOK
    <3> HIDE DEF from
    <3>2. BudgetLeft'
      BY <1>1, <2>1 DEF BudgetLeft
    <3> QED
      BY <1>1, <1>4, <2>1, <3>1, <3>2 DEF TypeOK
  <2>2. CASE /\ \E n \in Sockets : from[n] = "free" /\ OpenSocket(c, n, from)
             /\ tries' = [tries EXCEPT ![c] = 1]
    <3>1. PICK n \in Sockets : from[n] = "free" /\ OpenSocket(c, n, from)
      BY <2>2
    <3>2. 1 \in 0..MaxTries
      BY BrokerAssumption
    <3>3. /\ tries' \in [Clients -> 0..MaxTries]
          /\ \A d \in Clients : d # c => tries'[d] = tries[d]
      BY <1>1, <2>2, <3>2 DEF TypeOK
    <3> HIDE DEF from, c
    <3>4. /\ sock' \in [Sockets -> {"free", "handshake", "open", "closing", "aborted"}]
          /\ owner' \in [Sockets -> Clients \union {NoClient}]
          /\ attempt' \in [Clients -> Sockets \union {NoSocket, Asleep}]
          /\ BudgetLeft'
          /\ \A m \in Sockets : from[m] # "free" => sock'[m] = from[m] /\ owner'[m] = owner[m]
      BY <1>1, <1>3, <1>4, <3>1, <3>3, OpenSocketFacts
    <3> QED
      BY <1>4, <3>3, <3>4 DEF Live
  <2> QED
    BY <2>1, <2>2 DEF SocketClosed
<1> HIDE DEF c, from
<1>6. /\ pending' \subseteq pending /\ active' \subseteq active
      /\ \A t \in active' : client[t] # c
      /\ queue' \in [Streams -> {"open", "final", "unnamed", "failed"}]
      /\ phase' \in [Calls -> InFlight \union {"new", "streaming", "over"}]
      /\ armed' \in [Clients -> BOOLEAN] /\ circuit' \in BOOLEAN
      /\ \A t \in Calls : phase'[t] = "over" \/ phase'[t] = phase[t]
      /\ FinalIsOwn' /\ EarlyEnded' /\ IdleTimerSet' /\ StagesFit'
  BY <1>2, FailAllFacts
<1>7. TypeOK'
  <2>1. /\ cur' \in [Clients -> Sockets \union {NoSocket}]
        /\ created' \in [Clients -> SUBSET Keys]
    BY <1>1, <1>2 DEF TypeOK
  <2>2. wire' \subseteq (Sockets \X [call : Calls, stage : Stages])
    BY <1>1, <1>2 DEF TypeOK
  <2> QED
    BY <1>1, <1>2, <1>5, <1>6, <2>1, <2>2 DEF TypeOK
<1>8. CurrentIsLive'
  <2> SUFFICES ASSUME NEW d \in Clients, cur'[d] # NoSocket
               PROVE  sock'[cur'[d]] \in {"open", "closing"} /\ owner'[cur'[d]] = d
    BY DEF CurrentIsLive, Live
  <2>1. d # c /\ cur'[d] = cur[d] /\ cur[d] \in Sockets
    BY <1>1, <1>2, <1>3 DEF TypeOK
  <2>2. Live(cur[d]) /\ owner[cur[d]] = d
    BY <2>1 DEF IInv, CurrentIsLive
  <2>3. cur[d] # k
    BY <2>1, <2>2 DEF c
  <2> QED
    BY <1>5, <2>1, <2>2, <2>3 DEF Live
<1>9. WireIsLive'
  <2> SUFFICES ASSUME NEW x \in wire'
               PROVE  /\ sock'[x[1]] \in {"open", "closing"}
                      /\ owner'[x[1]] = client'[x[2].call]
                      /\ phase'[x[2].call] # "new"
    BY DEF WireIsLive, Live
  <2>1. x \in wire /\ x[1] # k /\ x[1] \in Sockets /\ x[2].call \in Calls
    BY <1>1, <1>2 DEF TypeOK
  <2>2. Live(x[1]) /\ owner[x[1]] = client[x[2].call] /\ phase[x[2].call] # "new"
    BY <2>1 DEF IInv, WireIsLive
  <2> QED
    BY <1>2, <1>5, <1>6, <2>1, <2>2 DEF Live
<1>10. StreamHasSocket'
  <2> SUFFICES ASSUME NEW t \in active', phase'[t] = "streaming"
               PROVE  \E n \in Sockets : sock'[n] \in {"open", "closing"} /\ owner'[n] = client'[t]
    BY DEF StreamHasSocket, Live
  <2>1. t \in active /\ t \in Calls /\ client[t] # c
    BY <1>1, <1>6 DEF TypeOK, Calls
  <2>2. phase[t] = "streaming"
    BY <1>6, <2>1
  <2>3. PICK n \in Sockets : Live(n) /\ owner[n] = client[t]
    BY <2>1, <2>2 DEF IInv, StreamHasSocket
  <2>4. n # k
    BY <2>1, <2>3 DEF c
  <2> QED
    BY <1>2, <1>5, <2>3, <2>4 DEF Live
<1> QED
  BY <1>5, <1>6, <1>7, <1>8, <1>9, <1>10 DEF IInv

(* A client gives up its connection. *)
LEMMA FailConnectionKeeps ==
  ASSUME IInv, NEW c, FailConnection(c), wire' \subseteq wire,
         UNCHANGED <<inMap, attempt, tries, shutdown, owner, client, early, run>>
  PROVE  IInv'
<1>1. TypeOK
  BY DEF IInv
<1>2. /\ FailAll(c)
      /\ cur' = [cur EXCEPT ![c] = NoSocket]
      /\ created' = [created EXCEPT ![c] = {}]
      /\ sock' = [n \in Sockets |-> IF n = cur[c] THEN "closing" ELSE sock[n]]
      /\ wire' \subseteq wire
      /\ UNCHANGED <<inMap, attempt, tries, shutdown, owner, client, early, run>>
  BY DEF FailConnection
<1>3. /\ pending' \subseteq pending /\ active' \subseteq active
      /\ queue' \in [Streams -> {"open", "final", "unnamed", "failed"}]
      /\ phase' \in [Calls -> InFlight \union {"new", "streaming", "over"}]
      /\ armed' \in [Clients -> BOOLEAN] /\ circuit' \in BOOLEAN
      /\ \A t \in Calls : phase'[t] = "over" \/ phase'[t] = phase[t]
      /\ FinalIsOwn' /\ EarlyEnded' /\ IdleTimerSet' /\ StagesFit'
  BY <1>2, FailAllFacts
<1>4. TypeOK'
  <2>1. /\ cur' \in [Clients -> Sockets \union {NoSocket}]
        /\ created' \in [Clients -> SUBSET Keys]
        /\ sock' \in [Sockets -> {"free", "handshake", "open", "closing", "aborted"}]
    BY <1>1, <1>2 DEF TypeOK
  <2> QED
    BY <1>1, <1>2, <1>3, <2>1 DEF TypeOK
<1>5. \A n \in Sockets : Live(n) => sock'[n] \in {"open", "closing"} /\ owner'[n] = owner[n]
  BY <1>2 DEF Live
<1>6. CurrentIsLive' /\ WireIsLive'
  <2>1. \A d \in Clients : cur'[d] # NoSocket => cur'[d] = cur[d]
    BY <1>1, <1>2 DEF TypeOK
  <2> QED
    BY <1>2, <1>3, <1>5, <2>1, LiveFrame
<1>7. StreamHasSocket'
  <2>1. \A t \in active' : phase'[t] = "streaming" => t \in active /\ phase[t] = "streaming"
    BY <1>1, <1>3 DEF TypeOK, Calls
  <2> QED
    BY <1>2, <1>5, <2>1, StreamFrame
<1>8. BudgetLeft'
  BY <1>2 DEF IInv, BudgetLeft
<1> QED
  BY <1>3, <1>4, <1>6, <1>7, <1>8 DEF IInv

LEMMA UnknownResponseKeeps ==
  ASSUME IInv, NEW k \in Sockets, NEW r, UnknownResponse(k, r)
  PROVE  IInv'
  BY FailConnectionKeeps DEF UnknownResponse

LEMMA DuplicateResponseKeeps ==
  ASSUME IInv, NEW k \in Sockets, DuplicateResponse(k)
  PROVE  IInv'
  BY FailConnectionKeeps DEF DuplicateResponse

(* The call of a request fails; the connection stays. *)
LEMMA CallFailsKeeps ==
  ASSUME IInv, NEW r \in pending, CallFails(r), wire' \subseteq wire,
         created' \in [Clients -> SUBSET Keys],
         UNCHANGED <<inMap, cur, attempt, tries, shutdown, sock, owner, client, early, run>>
  PROVE  IInv'
<1>1. TypeOK
  BY DEF IInv
<1>2. /\ pending' \subseteq pending /\ active' \subseteq active
      /\ queue' \in [Streams -> {"open", "final", "unnamed", "failed"}]
      /\ phase' \in [Calls -> InFlight \union {"new", "streaming", "over"}]
      /\ armed' \in [Clients -> BOOLEAN] /\ circuit' \in BOOLEAN
      /\ \A t \in Calls : phase'[t] = "over" \/ phase'[t] = phase[t]
      /\ FinalIsOwn' /\ EarlyEnded' /\ IdleTimerSet' /\ StagesFit'
  BY CallFailsFacts
<1>3. TypeOK'
  BY <1>1, <1>2 DEF TypeOK
<1>4. CurrentIsLive' /\ WireIsLive'
  BY <1>2, SocketFrame
<1>5. StreamHasSocket'
  <2>1. \A t \in active' : phase'[t] = "streaming" => t \in active /\ phase[t] = "streaming"
    BY <1>1, <1>2 DEF TypeOK, Calls
  <2> QED
    BY <2>1, StreamFrame DEF Live
<1>6. BudgetLeft'
  BY DEF IInv, BudgetLeft
<1> QED
  BY <1>2, <1>3, <1>4, <1>5, <1>6 DEF IInv

(* A request is forgotten, and nothing else happens. *)
LEMMA ForgetKeeps ==
  ASSUME IInv, pending' \subseteq pending, wire' \subseteq wire,
         UNCHANGED <<mgrVars, connVars, callVars, run>>
  PROVE  IInv'
<1>1. TypeOK
  BY DEF IInv
<1>2. UNCHANGED <<inMap, armed, circuit, cur, attempt, tries, shutdown, created, sock, owner,
                  phase, client, active, queue, early, run>>
  BY DEF mgrVars, connVars, callVars
<1>3. TypeOK'
  BY <1>1, <1>2 DEF TypeOK
<1>4. CurrentIsLive' /\ WireIsLive'
  BY <1>2, SocketFrame
<1>5. StreamHasSocket'
  BY <1>2, StreamFrame DEF Live
<1>6. FinalIsOwn' /\ EarlyEnded' /\ IdleTimerSet' /\ BudgetLeft' /\ StagesFit'
  BY <1>2, FinalFrame, TimerFrame DEF IInv, BudgetLeft, StagesFit
<1> QED
  BY <1>3, <1>4, <1>5, <1>6 DEF IInv

LEMMA ErrorResponseKeeps ==
  ASSUME IInv, NEW k \in Sockets, NEW r, ErrorResponse(k, r)
  PROVE  IInv'
<1>1. /\ r \in pending /\ wire' \subseteq wire
      /\ UNCHANGED <<inMap, connVars, client, early, run>>
  BY DEF ErrorResponse
<1>2. CASE pending' = pending \ {r} /\ UNCHANGED <<armed, circuit, phase, active, queue>>
  BY <1>1, <1>2, ForgetKeeps DEF mgrVars, callVars
<1>3. CASE CallFails(r)
  <2>1. created' \in [Clients -> SUBSET Keys]
    BY <1>1 DEF IInv, TypeOK, connVars
  <2> QED
    BY <1>1, <1>3, <2>1, CallFailsKeeps DEF connVars
<1> QED
  BY <1>2, <1>3 DEF ErrorResponse

LEMMA RequestTimeoutKeeps ==
  ASSUME IInv, NEW r \in pending, RequestTimeout(r)
  PROVE  IInv'
<1>1. UNCHANGED <<inMap, connVars, client, early, wire, run>>
  BY DEF RequestTimeout
<1>2. CASE pending' = pending \ {r} /\ UNCHANGED <<armed, circuit, phase, active, queue>>
  BY <1>1, <1>2, ForgetKeeps DEF mgrVars, callVars
<1>3. CASE CallFails(r)
  <2>1. created' \in [Clients -> SUBSET Keys]
    BY <1>1 DEF IInv, TypeOK, connVars
  <2> QED
    BY <1>1, <1>3, <2>1, CallFailsKeeps DEF connVars
<1> QED
  BY <1>2, <1>3 DEF RequestTimeout

(* A call goes on to its next request, or fails. *)
LEMMA ContinuesKeeps ==
  ASSUME IInv, SocketsOwned, NEW k \in Sockets, NEW r \in pending, NEW stage \in {"send", "resend", "recreate"},
         Live(k), <<k, r>> \in wire, r.stage # "query",
         Continues(k, r, stage), created' \in [Clients -> SUBSET Keys],
         UNCHANGED <<inMap, cur, attempt, tries, shutdown, sock, owner, client, early, run>>
  PROVE  IInv'
<1> DEFINE c == owner[k]
           next == Request(r.call, stage)
<1>1. TypeOK
  BY DEF IInv
<1>2. r.call \in Streams /\ r.call \in Calls
  BY DEF IInv, StagesFit, Calls
<1>3. c \in Clients /\ c = client[r.call]
  <2>1. c \in Clients
    BY DEF SocketsOwned, Live
  <2>2. owner[<<k, r>>[1]] = client[<<k, r>>[2].call]
    BY DEF IInv, WireIsLive
  <2> QED
    BY <2>1, <2>2
<1>4. next \in Req /\ next.call = r.call /\ next.stage = stage /\ stage \in InFlight
  BY <1>2 DEF Request, Req, Stages, InFlight, Awaiting
<1>5. CASE /\ cur[c] # NoSocket /\ sock[cur[c]] = "open"
           /\ phase' = [phase EXCEPT ![r.call] = stage]
           /\ pending' = (pending \ {r}) \union {next}
           /\ wire' = (wire \ {<<k, r>>}) \union {<<cur[c], next>>}
           /\ UNCHANGED <<armed, circuit, active, queue>>
  <2> HIDE DEF next, c
  <2>1. cur[c] \in Sockets /\ Live(cur[c]) /\ owner[cur[c]] = c
    BY <1>1, <1>3, <1>5 DEF TypeOK, IInv, CurrentIsLive
  <2>2. /\ phase' \in [Calls -> InFlight \union {"new", "streaming", "over"}]
        /\ phase'[r.call] = stage
        /\ \A t \in Calls : t # r.call => phase'[t] = phase[t]
    BY <1>1, <1>2, <1>4, <1>5 DEF TypeOK
  <2>3. pending' \subseteq Req /\ wire' \subseteq (Sockets \X Req)
    BY <1>1, <1>4, <1>5, <2>1 DEF TypeOK, Req
  <2>4. TypeOK'
    BY <1>1, <1>5, <2>2, <2>3 DEF TypeOK, Req
  <2>5. CurrentIsLive' /\ WireIsLive'
    <3>1. \A x \in wire' : \/ x \in wire
                           \/ /\ x[1] \in Sockets /\ Live(x[1])
                              /\ owner[x[1]] = client[x[2].call]
                              /\ phase'[x[2].call] # "new"
      BY <1>3, <1>4, <1>5, <2>1, <2>2
    <3>2. \A t \in Calls : phase'[t] = "new" => phase[t] = "new"
      BY <2>2
    <3> QED
      BY <3>1, <3>2, LiveFrame DEF Live
  <2>6. StreamHasSocket'
    <3>1. \A t \in active' : phase'[t] = "streaming" => t \in active /\ phase[t] = "streaming"
      BY <1>1, <1>5, <2>2 DEF TypeOK, Calls
    <3> QED
      BY <3>1, StreamFrame DEF Live
  <2>7. IdleTimerSet'
    <3>1. \A t \in Calls : phase[t] \in InFlight => phase'[t] \in InFlight
      BY <1>4, <2>2
    <3> QED
      BY <1>5, <3>1 DEF IInv, IdleTimerSet, Busy, ActiveOf, CallsOf
  <2>8. FinalIsOwn' /\ EarlyEnded' /\ BudgetLeft'
    BY <1>5, FinalFrame DEF IInv, BudgetLeft
  <2>9. StagesFit'
    BY <1>2, <1>4, <1>5 DEF IInv, StagesFit
  <2> QED
    BY <2>4, <2>5, <2>6, <2>7, <2>8, <2>9 DEF IInv
<1>6. CASE CallFails(r) /\ wire' = wire \ {<<k, r>>}
  BY <1>6, CallFailsKeeps
<1> QED
  BY <1>5, <1>6 DEF Continues

LEMMA SessionCreatedKeeps ==
  ASSUME IInv, SocketsOwned, NEW k \in Sockets, NEW r, SessionCreated(k, r)
  PROVE  IInv'
<1> DEFINE stage == IF r.stage = "create" THEN "send" ELSE "resend"
<1>1. /\ Live(k) /\ <<k, r>> \in wire /\ r \in pending
      /\ r.stage \in {"create", "recreate"}
      /\ created' = [created EXCEPT ![owner[k]] = @ \union {KeyOf[r.call]}]
      /\ Continues(k, r, stage)
      /\ UNCHANGED <<inMap, cur, attempt, tries, shutdown, sock, owner, client, early, run>>
  BY DEF SessionCreated
<1>2. stage \in {"send", "resend", "recreate"} /\ r.stage # "query"
  BY <1>1
<1>3. r.call \in Streams
  BY <1>1, <1>2 DEF IInv, StagesFit
<1>4. created' \in [Clients -> SUBSET Keys]
  <2>1. KeyOf[r.call] \in Keys
    BY <1>3, BrokerAssumption
  <2>2. created \in [Clients -> SUBSET Keys]
    BY DEF IInv, TypeOK
  <2>3. \A d \in Clients : created[d] \union {KeyOf[r.call]} \in SUBSET Keys
    BY <2>1, <2>2
  <2> QED
    BY <1>1, <2>2, <2>3
<1> HIDE DEF stage
<1> QED
  BY <1>1, <1>2, <1>4, ContinuesKeeps

LEMMA SessionNotFoundKeeps ==
  ASSUME IInv, SocketsOwned, NEW k \in Sockets, NEW r, SessionNotFound(k, r)
  PROVE  IInv'
<1>1. /\ Live(k) /\ <<k, r>> \in wire /\ r \in pending
      /\ r.stage # "query"
      /\ created' = [created EXCEPT ![owner[k]] = @ \ {KeyOf[r.call]}]
      /\ Continues(k, r, "recreate")
      /\ UNCHANGED <<inMap, cur, attempt, tries, shutdown, sock, owner, client, early, run>>
  BY DEF SessionNotFound
<1>2. created' \in [Clients -> SUBSET Keys]
  BY <1>1 DEF IInv, TypeOK
<1> QED
  BY <1>1, <1>2, ContinuesKeeps

(* The timers of the clients cs are armed where no stream is left; the     *)
(* other clients see no change.                                            *)
LEMMA ArmFrame ==
  ASSUME IInv, NEW c, NEW cs, c \in cs, UNCHANGED <<inMap, client>>,
         armed' = Arm(cs, active'),
         \A t \in active : client[t] # c => t \in active',
         \A t \in Calls : client[t] # c => phase'[t] = phase[t]
  PROVE  IdleTimerSet'
<1> SUFFICES ASSUME NEW d \in Clients, inMap = d,
                    \A t \in Calls : client[t] = d => phase'[t] \notin InFlight,
                    \A t \in active' : client[t] # d
             PROVE  armed'[d]
  BY DEF IdleTimerSet, Busy, ActiveOf, CallsOf
<1>1. armed'[d] <=> armed[d] \/ d \in cs
  BY DEF Arm
<1>2. CASE d = c
  BY <1>1, <1>2
<1>3. CASE d # c
  <2>1. Busy(d) = {} /\ ActiveOf(d) = {}
    BY <1>3 DEF Busy, ActiveOf, CallsOf
  <2> QED
    BY <1>1, <2>1 DEF IInv, IdleTimerSet
<1> QED
  BY <1>2, <1>3

LEMMA AcceptedKeeps ==
  ASSUME IInv, SocketsOwned, NEW k \in Sockets, NEW r, Accepted(k, r)
  PROVE  IInv'
<1> DEFINE t == r.call
           c == owner[k]
           ends == t \in active /\ \E u \in early[t] : Belongs(t, u)
           sub == Request(t, "subscribe")
           open == cur[c] # NoSocket /\ sock[cur[c]] = "open"
<1>1. TypeOK
  BY DEF IInv
<1>2. /\ Live(k) /\ <<k, r>> \in wire /\ r \in pending
      /\ r.stage # "query"
      /\ phase' = [phase EXCEPT ![t] = "streaming"]
      /\ early' = [early EXCEPT ![t] = {}]
      /\ active' = IF ends THEN active \ {t} ELSE active
      /\ \/ ends /\ \E how \in Outcomes : queue' = [queue EXCEPT ![t] = how]
         \/ queue' = queue
      /\ circuit' = FALSE
      /\ armed' = Arm({c} \union Drained(c, {}, active'), active')
      /\ pending' = (pending \ {r}) \union (IF open THEN {sub} ELSE {})
      /\ wire' = (wire \ {<<k, r>>}) \union (IF open THEN {<<cur[c], sub>>} ELSE {})
      /\ UNCHANGED <<inMap, cur, attempt, tries, shutdown, created, sock, owner, client, run>>
  BY DEF Accepted, connVars
<1>3. t \in Streams /\ t \in Calls
  BY <1>2 DEF IInv, StagesFit, Calls
<1>4. c \in Clients /\ c = client[t]
  <2>1. c \in Clients
    BY <1>2 DEF SocketsOwned, Live
  <2>2. owner[<<k, r>>[1]] = client[<<k, r>>[2].call]
    BY <1>2 DEF IInv, WireIsLive
  <2> QED
    BY <2>1, <2>2
<1>5. sub \in Req /\ sub.call = t /\ sub.stage = "subscribe"
  BY <1>3 DEF Request, Req, Stages
<1>6. open => cur[c] \in Sockets /\ Live(cur[c]) /\ owner[cur[c]] = c
  BY <1>1, <1>4 DEF TypeOK, IInv, CurrentIsLive
<1> HIDE DEF t, c, sub
<1>7. /\ phase' \in [Calls -> InFlight \union {"new", "streaming", "over"}]
      /\ phase'[t] = "streaming"
      /\ \A u \in Calls : u # t => phase'[u] = phase[u]
  BY <1>1, <1>2, <1>3 DEF TypeOK
<1>8. /\ early' \in [Streams -> SUBSET Streams]
      /\ queue' \in [Streams -> {"open", "final", "unnamed", "failed"}]
      /\ active' \subseteq active
  BY <1>1, <1>2, <1>3 DEF TypeOK, Outcomes
<1>9. TypeOK'
  <2>1. pending' \subseteq Req
    BY <1>1, <1>2, <1>5 DEF TypeOK, Req
  <2>2. wire' \subseteq (Sockets \X Req)
    BY <1>1, <1>2, <1>5, <1>6 DEF TypeOK, Req
  <2>3. armed' \in [Clients -> BOOLEAN] /\ circuit' \in BOOLEAN
    BY <1>2 DEF Arm
  <2> QED
    BY <1>1, <1>2, <1>7, <1>8, <2>1, <2>2, <2>3 DEF TypeOK, Req
<1>10. CurrentIsLive' /\ WireIsLive'
  <2>1. \A x \in wire' : \/ x \in wire
                         \/ /\ x[1] \in Sockets /\ Live(x[1])
                            /\ owner[x[1]] = client[x[2].call]
                            /\ phase'[x[2].call] # "new"
    BY <1>2, <1>4, <1>5, <1>6, <1>7
  <2>2. \A u \in Calls : phase'[u] = "new" => phase[u] = "new"
    BY <1>7
  <2> QED
    BY <1>2, <2>1, <2>2, LiveFrame DEF Live
<1>11. StreamHasSocket'
  <2> SUFFICES ASSUME NEW u \in active', phase'[u] = "streaming"
               PROVE  \E n \in Sockets : Live(n) /\ owner[n] = client[u]
    BY <1>2 DEF StreamHasSocket, Live
  <2>1. CASE u = t
    BY <1>2, <1>4, <2>1 DEF c
  <2>2. CASE u # t
    <3>1. u \in active /\ phase[u] = "streaming"
      BY <1>1, <1>7, <1>8, <2>2 DEF TypeOK, Calls
    <3> QED
      BY <3>1 DEF IInv, StreamHasSocket
  <2> QED
    BY <2>1, <2>2
<1>12. FinalIsOwn' /\ EarlyEnded'
  <2>1. ends => run[t] = "ended"
    BY <1>3 DEF IInv, EarlyEnded, Belongs
  <2>2. \A u \in Streams : queue'[u] = "final" => queue[u] = "final" \/ (u = t /\ ends)
    BY <1>1, <1>2 DEF TypeOK
  <2>3. \A u \in Streams : early'[u] \subseteq early[u]
    BY <1>1, <1>2 DEF TypeOK
  <2> QED
    BY <1>2, <2>1, <2>2, <2>3 DEF IInv, FinalIsOwn, EarlyEnded
<1>13. IdleTimerSet'
  <2>1. \A u \in active : client[u] # c => u \in active'
    BY <1>2, <1>4
  <2>2. \A u \in Calls : client[u] # c => phase'[u] = phase[u]
    BY <1>4, <1>7
  <2> QED
    BY <1>2, <2>1, <2>2, ArmFrame
<1>14. BudgetLeft'
  BY <1>2 DEF IInv, BudgetLeft
<1>15. StagesFit'
  BY <1>2, <1>3, <1>5 DEF IInv, StagesFit
<1> QED
  BY <1>9, <1>10, <1>11, <1>12, <1>13, <1>14, <1>15 DEF IInv

LEMMA AnsweredKeeps ==
  ASSUME IInv, NEW k \in Sockets, NEW r, Answered(k, r)
  PROVE  IInv'
<1>1. TypeOK
  BY DEF IInv
<1>2. /\ Live(k) /\ <<k, r>> \in wire /\ r \in pending
      /\ pending' \subseteq pending /\ wire' \subseteq wire
      /\ UNCHANGED <<inMap, connVars, client, active, queue, early, run>>
  BY DEF Answered
<1>3. CASE /\ phase' = [phase EXCEPT ![r.call] = "over"]
           /\ circuit' = FALSE
           /\ armed' = Arm({owner[k]}, active)
  <2>1. UNCHANGED <<inMap, cur, attempt, tries, shutdown, created, sock, owner, client, active, queue, early, run>>
    BY <1>2 DEF connVars
  <2>2. /\ phase' \in [Calls -> InFlight \union {"new", "streaming", "over"}]
        /\ \A t \in Calls : phase'[t] = "over" \/ phase'[t] = phase[t]
        /\ \A t \in Calls : t # r.call => phase'[t] = phase[t]
    BY <1>1, <1>3 DEF TypeOK
  <2>3. armed' \in [Clients -> BOOLEAN] /\ circuit' \in BOOLEAN
    BY <1>3 DEF Arm
  <2>4. TypeOK'
    BY <1>1, <1>2, <2>1, <2>2, <2>3 DEF TypeOK
  <2>5. CurrentIsLive' /\ WireIsLive'
    BY <1>2, <2>1, <2>2, SocketFrame
  <2>6. StreamHasSocket'
    <3>1. \A t \in active' : phase'[t] = "streaming" => t \in active /\ phase[t] = "streaming"
      BY <1>1, <2>1, <2>2 DEF TypeOK, Calls
    <3> QED
      BY <2>1, <3>1, StreamFrame DEF Live
  <2>7. IdleTimerSet'
    <3>1. owner[<<k, r>>[1]] = client[<<k, r>>[2].call]
      BY <1>2 DEF IInv, WireIsLive
    <3>2. \A t \in Calls : client[t] # owner[k] => phase'[t] = phase[t]
      BY <2>2, <3>1
    <3> QED
      BY <1>3, <2>1, <3>2, ArmFrame
  <2>8. FinalIsOwn' /\ EarlyEnded' /\ BudgetLeft' /\ StagesFit'
    BY <1>2, <2>1, FinalFrame DEF IInv, BudgetLeft, StagesFit
  <2> QED
    BY <2>4, <2>5, <2>6, <2>7, <2>8 DEF IInv
<1>4. CASE UNCHANGED <<phase, circuit, armed>>
  BY <1>2, <1>4, ForgetKeeps DEF mgrVars, callVars
<1> QED
  BY <1>3, <1>4 DEF Answered

-----------------------------------------------------------------------------
(* The gateway, streams, and the manager's timers. *)

LEMMA RunKeeps ==
  ASSUME IInv, NEW t \in Streams, RunBegins(t) \/ RunEnds(t)
  PROVE  IInv'
<1>1. TypeOK
  BY DEF IInv
<1>2. UNCHANGED <<inMap, armed, circuit, cur, attempt, tries, shutdown, created, sock, owner,
                  phase, client, active, queue, early, pending, wire>>
  BY DEF RunBegins, RunEnds, mgrVars, connVars, callVars, reqVars
<1>3. /\ run' \in [Streams -> {"none", "running", "ended"}]
      /\ \A u \in Streams : run[u] = "ended" => run'[u] = "ended"
  BY <1>1 DEF RunBegins, RunEnds, TypeOK
<1>4. TypeOK'
  BY <1>1, <1>2, <1>3 DEF TypeOK
<1>5. CurrentIsLive' /\ WireIsLive'
  BY <1>2, SocketFrame
<1>6. StreamHasSocket' /\ IdleTimerSet'
  BY <1>2, StreamFrame, TimerFrame DEF Live
<1>7. FinalIsOwn' /\ EarlyEnded'
  BY <1>1, <1>2, <1>3 DEF TypeOK, IInv, FinalIsOwn, EarlyEnded
<1>8. BudgetLeft' /\ StagesFit'
  BY <1>2 DEF IInv, BudgetLeft, StagesFit
<1> QED
  BY <1>4, <1>5, <1>6, <1>7, <1>8 DEF IInv

(* A registered stream is closed; it ended well only if its run ended. *)
LEMMA CloseStreamKeeps ==
  ASSUME IInv, NEW c, NEW t \in Streams, t \in ActiveOf(c),
         NEW how \in {"final", "unnamed", "failed"}, how = "final" => run[t] = "ended",
         CloseStream(c, t, how),
         UNCHANGED <<inMap, circuit, cur, attempt, tries, shutdown, created, sock, owner,
                     phase, client, early, pending, wire, run>>
  PROVE  IInv'
<1>1. TypeOK
  BY DEF IInv
<1>2. /\ active' = active \ {t}
      /\ queue' = [queue EXCEPT ![t] = how]
      /\ armed' = Arm(Drained(c, {}, active'), active')
  BY DEF CloseStream
<1>3. CurrentIsLive' /\ WireIsLive' /\ BudgetLeft' /\ StagesFit'
  BY SocketFrame DEF IInv, BudgetLeft, StagesFit
<1>4. /\ queue' \in [Streams -> {"open", "final", "unnamed", "failed"}]
      /\ \A v \in Streams : queue'[v] = "final" => queue[v] = "final" \/ (v = t /\ how = "final")
  BY <1>1, <1>2 DEF TypeOK
<1>5. armed' \in [Clients -> BOOLEAN] /\ active' \subseteq active
  BY <1>2 DEF Arm
<1>6. TypeOK'
  BY <1>1, <1>4, <1>5 DEF TypeOK
<1>7. StreamHasSocket'
  BY <1>5, StreamFrame DEF Live
<1>8. FinalIsOwn' /\ EarlyEnded'
  BY <1>4 DEF IInv, FinalIsOwn, EarlyEnded
<1>9. IdleTimerSet'
  <2> DEFINE S == {}
  <2>1. active \ active' \subseteq ActiveOf(c) /\ S \subseteq CallsOf(c)
    BY <1>2
  <2>2. phase' = [v \in Calls |-> IF v \in S THEN "over" ELSE phase[v]]
    BY <1>1 DEF TypeOK
  <2>3. armed' = Arm(Drained(c, S, active') \union (IF S = {} THEN {} ELSE {c}), active')
    <3>1. Drained(c, S, active') \union (IF S = {} THEN {} ELSE {c}) = Drained(c, S, active')
      OBVIOUS
    <3> QED
      BY <1>2, <3>1
  <2> HIDE DEF S
  <2> QED
    BY <1>5, <2>1, <2>2, <2>3, ReturnedSetsTimer
<1> QED
  BY <1>3, <1>6, <1>7, <1>8, <1>9 DEF IInv

LEMMA TerminalEventKeeps ==
  ASSUME IInv, NEW k \in Sockets, NEW u \in Streams, NEW t \in Streams, TerminalEvent(k, u, t)
  PROVE  IInv'
<1> DEFINE c == owner[k]
<1>1. TypeOK
  BY DEF IInv
<1>2. /\ run[u] = "ended" /\ t \in ActiveOf(c)
      /\ UNCHANGED <<inMap, circuit, cur, attempt, tries, shutdown, created, sock, owner,
                     phase, client, pending, wire, run>>
  BY DEF TerminalEvent, connVars, reqVars
<1>3. CASE /\ early' = [early EXCEPT ![t] = @ \union {u}]
           /\ UNCHANGED <<armed, active, queue>>
  <2>1. /\ early' \in [Streams -> SUBSET Streams]
        /\ \A v \in Streams : \A w \in early'[v] : w = u \/ w \in early[v]
    BY <1>1, <1>3 DEF TypeOK
  <2>2. TypeOK'
    BY <1>1, <1>2, <1>3, <2>1 DEF TypeOK
  <2>3. StreamHasSocket' /\ IdleTimerSet'
    BY <1>2, <1>3, StreamFrame, TimerFrame DEF Live
  <2>4. FinalIsOwn' /\ EarlyEnded'
    BY <1>2, <1>3, <2>1 DEF IInv, FinalIsOwn, EarlyEnded
  <2>5. CurrentIsLive' /\ WireIsLive' /\ BudgetLeft' /\ StagesFit'
    BY <1>2, SocketFrame DEF IInv, BudgetLeft, StagesFit
  <2> QED
    BY <2>2, <2>3, <2>4, <2>5 DEF IInv
<1>4. CASE /\ Belongs(t, u)
           /\ \E how \in Outcomes : CloseStream(c, t, how)
           /\ UNCHANGED early
  <2>1. PICK how \in {"final", "unnamed", "failed"} : CloseStream(c, t, how)
    BY <1>4 DEF Outcomes
  <2>2. run[t] = "ended"
    BY <1>2, <1>4 DEF Belongs
  <2> HIDE DEF c
  <2> QED
    BY <1>2, <1>4, <2>1, <2>2, CloseStreamKeeps
<1> QED
  BY <1>3, <1>4 DEF TerminalEvent

LEMMA UnnamedEventKeeps ==
  ASSUME IInv, NEW k \in Sockets, NEW t \in Streams, UnnamedEvent(k, t)
  PROVE  IInv'
<1> DEFINE c == owner[k]
<1>1. /\ t \in ActiveOf(c)
      /\ \E how \in {"unnamed", "failed"} : CloseStream(c, t, how)
      /\ UNCHANGED <<inMap, circuit, cur, attempt, tries, shutdown, created, sock, owner,
                     phase, client, early, pending, wire, run>>
  BY DEF UnnamedEvent, connVars, reqVars
<1>2. PICK how \in {"final", "unnamed", "failed"} : CloseStream(c, t, how) /\ how # "final"
  BY <1>1
<1> HIDE DEF c
<1> QED
  BY <1>1, <1>2, CloseStreamKeeps

LEMMA IdleTimeoutKeeps ==
  ASSUME IInv, NEW c \in Clients, IdleTimeout(c)
  PROVE  IInv'
<1>1. TypeOK
  BY DEF IInv
<1>2. UNCHANGED <<attempt, tries, owner, client, active, early, wire, run>>
  BY DEF IdleTimeout
<1>3. CASE /\ ActiveOf(c) # {} /\ armed' = [armed EXCEPT ![c] = FALSE]
           /\ UNCHANGED <<inMap, circuit, cur, shutdown, created, sock, phase, queue, pending>>
  <2>1. /\ armed' \in [Clients -> BOOLEAN]
        /\ \A d \in Clients : d # c => armed'[d] = armed[d]
    BY <1>1, <1>3 DEF TypeOK
  <2>2. TypeOK'
    BY <1>1, <1>2, <1>3, <2>1 DEF TypeOK
  <2>3. CurrentIsLive' /\ WireIsLive' /\ StreamHasSocket'
    BY <1>2, <1>3, SocketFrame, StreamFrame DEF Live
  <2>4. IdleTimerSet'
    BY <1>2, <1>3, <2>1 DEF IInv, IdleTimerSet, ActiveOf, Busy, CallsOf
  <2>5. FinalIsOwn' /\ EarlyEnded' /\ BudgetLeft' /\ StagesFit'
    BY <1>2, <1>3, FinalFrame DEF IInv, BudgetLeft, StagesFit
  <2> QED
    BY <2>2, <2>3, <2>4, <2>5 DEF IInv
<1>4. CASE /\ armed' = [armed EXCEPT ![c] = Asking(c) # {}]
           /\ circuit' = (circuit \/ Asking(c) # {})
           /\ phase' = [t \in Calls |-> IF t \in Asking(c) THEN "over" ELSE phase[t]]
           /\ queue' = Failed(Asking(c))
           /\ inMap' = NoClient
           /\ shutdown' = [shutdown EXCEPT ![c] = TRUE]
           /\ created' = [created EXCEPT ![c] = {}]
           /\ pending' = {r \in pending : client[r.call] # c}
           /\ cur' = [cur EXCEPT ![c] = NoSocket]
           /\ sock' = [k \in Sockets |-> IF k = cur[c] THEN "closing" ELSE sock[k]]
  <2>1. /\ cur' \in [Clients -> Sockets \union {NoSocket}]
        /\ created' \in [Clients -> SUBSET Keys]
        /\ sock' \in [Sockets -> {"free", "handshake", "open", "closing", "aborted"}]
        /\ \A d \in Clients : cur'[d] # NoSocket => cur'[d] = cur[d]
    BY <1>1, <1>4 DEF TypeOK
  <2>2. shutdown' \in [Clients -> BOOLEAN] /\ armed' \in [Clients -> BOOLEAN] /\ circuit' \in BOOLEAN
    BY <1>1, <1>4 DEF TypeOK
  <2>3. /\ phase' \in [Calls -> InFlight \union {"new", "streaming", "over"}]
        /\ \A t \in Calls : phase'[t] = "over" \/ phase'[t] = phase[t]
    BY <1>1, <1>4 DEF TypeOK
  <2>4. /\ queue' \in [Streams -> {"open", "final", "unnamed", "failed"}]
        /\ \A t \in Streams : queue'[t] = "final" => queue[t] = "final"
    BY <1>1, <1>4 DEF TypeOK, Failed
  <2>5. pending' \subseteq pending
    BY <1>4
  <2>6. TypeOK'
    BY <1>1, <1>2, <1>4, <2>1, <2>2, <2>3, <2>4, <2>5 DEF TypeOK
  <2>7. \A n \in Sockets : Live(n) => sock'[n] \in {"open", "closing"} /\ owner'[n] = owner[n]
    BY <1>2, <1>4 DEF Live
  <2>8. CurrentIsLive' /\ WireIsLive'
    BY <1>2, <2>1, <2>3, <2>7, LiveFrame
  <2>9. StreamHasSocket'
    <3>1. \A t \in active' : phase'[t] = "streaming" => t \in active /\ phase[t] = "streaming"
      BY <1>1, <1>2, <2>3 DEF TypeOK, Calls
    <3> QED
      BY <1>2, <2>7, <3>1, StreamFrame
  <2>10. IdleTimerSet'
    BY <1>4, BrokerAssumption DEF IdleTimerSet
  <2>11. FinalIsOwn' /\ EarlyEnded' /\ BudgetLeft' /\ StagesFit'
    BY <1>2, <2>4, <2>5, FinalFrame DEF IInv, BudgetLeft, StagesFit
  <2> QED
    BY <2>6, <2>8, <2>9, <2>10, <2>11 DEF IInv
<1> QED
  BY <1>3, <1>4 DEF IdleTimeout

LEMMA CircuitClosesKeeps ==
  ASSUME IInv, CircuitCloses
  PROVE  IInv'
<1>1. TypeOK
  BY DEF IInv
<1>2. circuit' = FALSE /\ UNCHANGED <<inMap, armed, cur, attempt, tries, shutdown, created, sock,
                  owner, phase, client, active, queue, early, pending, wire, run>>
  BY DEF CircuitCloses, connVars, callVars, reqVars
<1>3. TypeOK'
  BY <1>1, <1>2 DEF TypeOK
<1>4. CurrentIsLive' /\ WireIsLive' /\ StreamHasSocket'
  BY <1>2, SocketFrame, StreamFrame DEF Live
<1>5. FinalIsOwn' /\ EarlyEnded' /\ IdleTimerSet' /\ BudgetLeft' /\ StagesFit'
  BY <1>2, FinalFrame, TimerFrame DEF IInv, BudgetLeft, StagesFit
<1> QED
  BY <1>3, <1>4, <1>5 DEF IInv

-----------------------------------------------------------------------------
(* The invariant of the connections. *)

BrokerInv == IInv /\ SocketsOwned

LEMMA InitHolds ==
  ASSUME Init
  PROVE  BrokerInv
<1>1. NoClient \notin Clients /\ 0 \in 0..MaxTries /\ NoSocket # Asleep
  BY BrokerAssumption
<1>2. TypeOK
  BY <1>1 DEF Init, TypeOK
<1>3. BudgetLeft /\ CurrentIsLive /\ StagesFit /\ WireIsLive
  BY <1>1 DEF Init, BudgetLeft, CurrentIsLive, StagesFit, WireIsLive
<1>4. StreamHasSocket /\ FinalIsOwn /\ EarlyEnded
  BY DEF Init, StreamHasSocket, FinalIsOwn, EarlyEnded
<1>5. IdleTimerSet /\ SocketsOwned
  BY <1>1 DEF Init, IdleTimerSet, SocketsOwned
<1> QED
  BY <1>2, <1>3, <1>4, <1>5 DEF BrokerInv, IInv

LEMMA NextKeeps ==
  ASSUME BrokerInv, Next
  PROVE  BrokerInv'
<1>1. IInv /\ SocketsOwned
  BY DEF BrokerInv
<1>2. ASSUME NEW t \in Calls, NEW c \in Clients, Start(t, c) \/ StartRefused(t, c)
      PROVE  IInv'
  BY <1>1, <1>2, StartKeeps, StartRefusedKeeps
<1>3. ASSUME NEW k \in Sockets,
             \/ HandshakeDone(k) \/ LateHandshake(k)
             \/ HandshakeTimeout(k) \/ HandshakeRetry(k)
             \/ CloseUnused(k) \/ SocketClosed(k) \/ DuplicateResponse(k)
             \/ \E t \in Streams : UnnamedEvent(k, t)
      PROVE  IInv'
  BY <1>1, <1>3, HandshakeDoneKeeps, LateHandshakeKeeps, HandshakeTimeoutKeeps,
     HandshakeRetryKeeps, CloseUnusedKeeps, SocketClosedKeeps, DuplicateResponseKeeps,
     UnnamedEventKeeps
<1>4. ASSUME NEW x \in wire, Responses(x[1], x[2])
      PROVE  IInv'
  <2>1. x[1] \in Sockets
    BY <1>1 DEF IInv, TypeOK
  <2> QED
    BY <1>1, <1>4, <2>1, UnknownResponseKeeps, ErrorResponseKeeps, SessionCreatedKeeps,
       SessionNotFoundKeeps, AcceptedKeeps, AnsweredKeeps DEF Responses
<1>5. ASSUME NEW r \in pending, RequestTimeout(r)
      PROVE  IInv'
  BY <1>1, <1>5, RequestTimeoutKeeps
<1>6. ASSUME NEW t \in Streams, RunBegins(t) \/ RunEnds(t)
      PROVE  IInv'
  BY <1>1, <1>6, RunKeeps
<1>7. ASSUME NEW k \in Sockets, NEW u \in Streams, NEW t \in Streams, TerminalEvent(k, u, t)
      PROVE  IInv'
  BY <1>1, <1>7, TerminalEventKeeps
<1>8. ASSUME NEW c \in Clients, SleepEnds(c) \/ IdleTimeout(c)
      PROVE  IInv'
  BY <1>1, <1>8, SleepEndsKeeps, IdleTimeoutKeeps
<1>9. ASSUME CircuitCloses
      PROVE  IInv'
  BY <1>1, <1>9, CircuitClosesKeeps
<1>10. IInv'
  BY <1>2, <1>3, <1>4, <1>5, <1>6, <1>7, <1>8, <1>9 DEF Next
<1> QED
  BY <1>1, <1>10, OwnedKeeps DEF BrokerInv

LEMMA StutterKeeps ==
  ASSUME BrokerInv, UNCHANGED vars
  PROVE  BrokerInv'
<1>1. UNCHANGED <<mgrVars, connVars, callVars, reqVars, run>>
  BY DEF vars
<1>2. IInv'
  BY <1>1, ForgetKeeps DEF BrokerInv, reqVars
<1>3. SocketsOwned'
  BY <1>1, OwnedFrame DEF BrokerInv, connVars
<1> QED
  BY <1>2, <1>3 DEF BrokerInv

(* The inductive invariant: with it every theorem below.  It ties the      *)
(* sockets to the clients that opened them and the requests and streams to *)
(* the sockets they depend on, through every callback of the client and of *)
(* the manager.                                                            *)
THEOREM BrokerInvariant == Spec => []BrokerInv
<1>1. Init => BrokerInv
  BY InitHolds
<1>2. BrokerInv /\ [Next]_vars => BrokerInv'
  BY NextKeeps, StutterKeeps
<1> QED
  BY <1>1, <1>2, PTL DEF Spec

(* The types of the manager's and the clients' state. *)
THEOREM BrokerTypeCorrect == Spec => []TypeOK
<1>1. BrokerInv => TypeOK
  BY DEF BrokerInv, IInv
<1> QED
  BY <1>1, BrokerInvariant, PTL

(* A stream that waits for its end always has a live socket of its client, *)
(* whose close event (handleSocketClosed) would end it.                    *)
THEOREM StreamsAlwaysHaveSockets == Spec => []StreamHasSocket
<1>1. BrokerInv => StreamHasSocket
  BY DEF BrokerInv, IInv
<1> QED
  BY <1>1, BrokerInvariant, PTL

(* A final event that names a run ends a turn in handleStreamEvent only at *)
(* the end of the turn's own run, however many turns of the session were   *)
(* lost before it.  Nothing is said of events without a runId, which end   *)
(* whichever turn is registered.                                           *)
THEOREM FinalAlwaysOwn == Spec => []FinalIsOwn
<1>1. BrokerInv => FinalIsOwn
  BY DEF BrokerInv, IInv
<1> QED
  BY <1>1, BrokerInvariant, PTL

(* scheduleIdleDisconnect is never missed: the client of the map has its   *)
(* timer set whenever no call and no stream uses it.                       *)
THEOREM IdleTimerAlwaysSet == Spec => []IdleTimerSet
<1>1. BrokerInv => IdleTimerSet
  BY DEF BrokerInv, IInv
<1> QED
  BY <1>1, BrokerInvariant, PTL

-----------------------------------------------------------------------------
(* AssistantTurns.                                                         *)

WorksOn(r, k, c) == req[r].at \in {"perform", "record"} /\ req[r].key = k /\ req[r].tool = c

(* A request in the middle of its work has a key and a prompt, one with a  *)
(* tool in hand has the tool.                                              *)
RequestsFit ==
  \A r \in Requests :
    /\ ~At(r, "over") => req[r].key \in TurnKeys /\ req[r].prompt \in Prompts
    /\ req[r].at \in {"perform", "record"} => req[r].tool \in Tools

(* A tool call in hand is recorded as started, by this request and no      *)
(* other, and it has run exactly when the request says so.                 *)
ToolsInHand ==
  \A r \in Requests, k \in TurnKeys, c \in Tools :
    WorksOn(r, k, c) =>
      /\ outcome[k][c] = "started"
      /\ At(r, "perform") => ran[k][c] = 0
      /\ req[r].ok /\ At(r, "record") => ran[k][c] = 1
      /\ \A q \in Requests : WorksOn(q, k, c) => q = r

(* A call without a receipt has not run. *)
ReceiptFirst ==
  \A k \in TurnKeys, c \in Tools : outcome[k][c] = "none" => ran[k][c] = 0

(* A browser that was given the answer belongs to a request that is over. *)
ToldAtEnd ==
  \A r \in Requests :
    told[r].what = "completed" => At(r, "over") /\ req[r].key \in TurnKeys

TurnInv ==
  /\ TurnTypeOK
  /\ RequestsFit
  /\ TextFitsStatus
  /\ ToolsInHand
  /\ ReceiptFirst
  /\ ToolRunsOnce
  /\ ToldAtEnd
  /\ ToldWhatIsStored

-----------------------------------------------------------------------------
LEMMA TurnInitHolds == TurnInit => TurnInv
<1> SUFFICES ASSUME TurnInit PROVE TurnInv
  OBVIOUS
<1>1. /\ Idle \in RequestState /\ Idle.at = "over"
      /\ Nothing \in Reply /\ Nothing.what = "nothing"
      /\ NoTurn \in TurnRow /\ TextFits(NoTurn)
  BY DEF Idle, Nothing, NoTurn, RequestState, Reply, TurnRow, Texts, Places, TextFits
<1>2. TurnTypeOK
  BY <1>1 DEF TurnInit, TurnTypeOK
<1>3. TextFitsStatus
  BY <1>1 DEF TurnInit, TextFitsStatus
<1>4. \A r \in Requests : req[r].at = "over" /\ told[r].what = "nothing"
  BY <1>1 DEF TurnInit
<1>5. ReceiptFirst /\ ToolRunsOnce
  BY DEF TurnInit, ReceiptFirst, ToolRunsOnce
<1> QED
  BY <1>2, <1>3, <1>4, <1>5
  DEF TurnInv, RequestsFit, ToolsInHand, WorksOn, ToldAtEnd, ToldWhatIsStored, At

(* A step of a request that has no tool in hand afterwards and touches no  *)
(* receipt: it may write a turn that is not final, and may tell its        *)
(* browser an answer that is stored.                                       *)
LEMMA PlainStepKeeps ==
  ASSUME TurnInv, NEW r \in Requests, NEW x \in RequestState, NEW y \in Reply,
         user' \in [TurnKeys -> Prompts \union {NoPrompt}],
         outcome' = outcome, ran' = ran,
         req' = [req EXCEPT ![r] = x], told' = [told EXCEPT ![r] = y],
         x.at \notin {"perform", "record"},
         x.at # "over" => x.key \in TurnKeys /\ x.prompt \in Prompts,
         \/ turn' = turn
         \/ \E k \in TurnKeys, row \in TurnRow :
              turn[k].status # "final" /\ TextFits(row) /\ turn' = [turn EXCEPT ![k] = row],
         y.what = "completed" =>
           x.at = "over" /\ x.key \in TurnKeys /\ turn'[x.key] = [status |-> "final", text |-> y.text]
  PROVE  TurnInv'
<1>0. TurnTypeOK
  BY DEF TurnInv
<1>1. /\ req'[r] = x /\ told'[r] = y
      /\ \A q \in Requests \ {r} : req'[q] = req[q] /\ told'[q] = told[q]
  BY <1>0 DEF TurnTypeOK
<1>2. /\ turn' \in [TurnKeys -> TurnRow]
      /\ \A k \in TurnKeys : turn[k].status = "final" => turn'[k] = turn[k]
      /\ \A k \in TurnKeys : turn'[k] = turn[k] \/ TextFits(turn'[k])
  BY <1>0 DEF TurnTypeOK
<1>3. TurnTypeOK'
  BY <1>0, <1>2 DEF TurnTypeOK
<1>4. RequestsFit'
  BY <1>1 DEF TurnInv, RequestsFit, At
<1>5. TextFitsStatus'
  <2> SUFFICES ASSUME NEW k \in TurnKeys PROVE TextFits(turn'[k])
    BY DEF TextFitsStatus, TextFits
  <2> QED  BY <1>2 DEF TurnInv, TextFitsStatus
<1>6. ToolsInHand'
  <2>1. \A q \in Requests, k \in TurnKeys, c \in Tools :
          WorksOn(q, k, c)' => q # r /\ WorksOn(q, k, c)
    BY <1>1 DEF WorksOn
  <2> QED  BY <1>1, <2>1 DEF TurnInv, ToolsInHand, At
<1>7. ReceiptFirst' /\ ToolRunsOnce'
  BY DEF TurnInv, ReceiptFirst, ToolRunsOnce
<1>8. ToldAtEnd'
  BY <1>1 DEF TurnInv, ToldAtEnd, At
<1>9. ToldWhatIsStored'
  <2> SUFFICES ASSUME NEW q \in Requests, told'[q].what = "completed"
               PROVE  turn'[req'[q].key] = [status |-> "final", text |-> told'[q].text]
    BY DEF ToldWhatIsStored
  <2>1. CASE q = r
    BY <1>1, <2>1
  <2>2. CASE q # r
    <3>1. req'[q] = req[q] /\ told'[q] = told[q]
      BY <1>1, <2>2
    <3>2. req[q].key \in TurnKeys
      BY <3>1 DEF TurnInv, ToldAtEnd
    <3>3. turn[req[q].key] = [status |-> "final", text |-> told[q].text]
      BY <3>1 DEF TurnInv, ToldWhatIsStored
    <3> QED  BY <1>2, <3>1, <3>2, <3>3
  <2> QED  BY <2>1, <2>2
<1> QED
  BY <1>3, <1>4, <1>5, <1>6, <1>7, <1>8, <1>9 DEF TurnInv

(* The place of a request changes, or its end is told; the rest of it stays. *)
LEMMA GoesFacts ==
  ASSUME TurnInv, NEW r \in Requests, NEW place \in Places
  PROVE  /\ [req[r] EXCEPT !.at = place] \in RequestState
         /\ [req[r] EXCEPT !.at = place].at = place
         /\ [req[r] EXCEPT !.at = place].key = req[r].key
         /\ [req[r] EXCEPT !.at = place].prompt = req[r].prompt
         /\ Goes(r, place) => req' = [req EXCEPT ![r] = [req[r] EXCEPT !.at = place]]
  BY DEF TurnInv, TurnTypeOK, RequestState, Goes

LEMMA RepliesFit ==
  /\ Nothing \in Reply /\ Nothing.what = "nothing"
  /\ Failure \in Reply /\ Failure.what = "failed"
  /\ \A x \in Texts : Completed(x) \in Reply /\ Completed(x).what = "completed" /\ Completed(x).text = x
  BY DEF Nothing, Failure, Completed, Reply, Texts

(* A request goes on and its browser hears nothing. *)
LEMMA GoesKeeps ==
  ASSUME TurnInv, NEW r \in Requests, NEW place \in Places \ {"perform", "record"},
         ~At(r, "over"), Goes(r, place), told' = told, UNCHANGED <<outcome, ran>>,
         user' \in [TurnKeys -> Prompts \union {NoPrompt}],
         \/ turn' = turn
         \/ \E k \in TurnKeys, row \in TurnRow :
              turn[k].status # "final" /\ TextFits(row) /\ turn' = [turn EXCEPT ![k] = row]
  PROVE  TurnInv'
<1> DEFINE x == [req[r] EXCEPT !.at = place]
<1>1. /\ x \in RequestState /\ x.at = place /\ x.key = req[r].key /\ x.prompt = req[r].prompt
      /\ req' = [req EXCEPT ![r] = x]
  BY GoesFacts
<1>2. told[r] \in Reply /\ told' = [told EXCEPT ![r] = told[r]]
  BY DEF TurnInv, TurnTypeOK
<1>3. told[r].what # "completed"
  BY DEF TurnInv, ToldAtEnd
<1>4. req[r].key \in TurnKeys /\ req[r].prompt \in Prompts
  BY DEF TurnInv, RequestsFit
<1> HIDE DEF x
<1> QED
  BY <1>1, <1>2, <1>3, <1>4, PlainStepKeeps

(* A request ends with a failure. *)
LEMMA FailureKeeps ==
  ASSUME TurnInv, NEW r \in Requests, Ends(r, Failure), UNCHANGED <<outcome, ran>>,
         user' \in [TurnKeys -> Prompts \union {NoPrompt}],
         \/ turn' = turn
         \/ \E k \in TurnKeys, row \in TurnRow :
              turn[k].status # "final" /\ TextFits(row) /\ turn' = [turn EXCEPT ![k] = row]
  PROVE  TurnInv'
<1> DEFINE x == [req[r] EXCEPT !.at = "over"]
<1>1. /\ x \in RequestState /\ x.at = "over"
      /\ req' = [req EXCEPT ![r] = x]
  <2>1. "over" \in Places
    BY DEF Places
  <2> QED  BY <2>1, GoesFacts DEF Ends, Goes
<1>2. Failure \in Reply /\ Failure.what # "completed" /\ told' = [told EXCEPT ![r] = Failure]
  BY RepliesFit DEF Ends
<1> HIDE DEF x
<1> QED
  BY <1>1, <1>2, PlainStepKeeps

(* A request ends with an answer that is stored. *)
LEMMA CompletedKeeps ==
  ASSUME TurnInv, NEW r \in Requests, NEW a \in Texts, Ends(r, Completed(a)),
         req[r].key \in TurnKeys, UNCHANGED <<user, outcome, ran>>,
         \/ turn' = turn
         \/ \E k \in TurnKeys, row \in TurnRow :
              turn[k].status # "final" /\ TextFits(row) /\ turn' = [turn EXCEPT ![k] = row],
         turn'[req[r].key] = [status |-> "final", text |-> a]
  PROVE  TurnInv'
<1> DEFINE x == [req[r] EXCEPT !.at = "over"]
           y == Completed(a)
<1>1. /\ x \in RequestState /\ x.at = "over" /\ x.key = req[r].key
      /\ req' = [req EXCEPT ![r] = x]
  <2>1. "over" \in Places
    BY DEF Places
  <2> QED  BY <2>1, GoesFacts DEF Ends, Goes
<1>2. y \in Reply /\ y.text = a /\ told' = [told EXCEPT ![r] = y]
  BY RepliesFit DEF Ends
<1>3. user' \in [TurnKeys -> Prompts \union {NoPrompt}]
  BY DEF TurnInv, TurnTypeOK
<1> HIDE DEF x, y
<1> QED
  BY <1>1, <1>2, <1>3, PlainStepKeeps

-----------------------------------------------------------------------------
(* One lemma per action. *)

LEMMA PostKeeps ==
  ASSUME TurnInv, NEW r \in Requests, NEW k \in TurnKeys, NEW p \in Prompts, Post(r, k, p)
  PROVE  TurnInv'
<1> DEFINE x == [Idle EXCEPT !.at = "user", !.key = k, !.prompt = p]
<1>1. /\ x \in RequestState /\ x.at = "user" /\ x.key = k /\ x.prompt = p
  BY DEF Idle, RequestState, Places
<1>2. req' = [req EXCEPT ![r] = x] /\ told' = [told EXCEPT ![r] = Nothing]
  BY DEF Post
<1>3. user' = user /\ turn' = turn /\ outcome' = outcome /\ ran' = ran
  BY DEF Post, dbVars
<1>4. user \in [TurnKeys -> Prompts \union {NoPrompt}]
  BY DEF TurnInv, TurnTypeOK
<1> HIDE DEF x
<1> QED
  BY <1>1, <1>2, <1>3, <1>4, RepliesFit, PlainStepKeeps

(* A request that is at work has its key. *)
LEMMA AtWork ==
  ASSUME TurnInv, NEW r \in Requests, ~At(r, "over")
  PROVE  /\ req[r].key \in TurnKeys /\ req[r].prompt \in Prompts
         /\ turn[req[r].key] \in TurnRow /\ TextFits(turn[req[r].key])
  BY DEF TurnInv, TurnTypeOK, RequestsFit, TextFitsStatus

LEMMA AppendUserKeeps ==
  ASSUME TurnInv, NEW r \in Requests, AppendUser(r)
  PROVE  TurnInv'
<1>1. ~At(r, "over") /\ turn' = turn /\ outcome' = outcome /\ ran' = ran
  BY DEF AppendUser, At
<1>2. user' \in [TurnKeys -> Prompts \union {NoPrompt}]
  BY <1>1, AtWork DEF AppendUser, TurnInv, TurnTypeOK
<1>3. CASE Goes(r, "start") /\ told' = told
  <2>1. "start" \in Places \ {"perform", "record"}
    BY DEF Places
  <2> QED  BY <1>1, <1>2, <1>3, <2>1, GoesKeeps
<1>4. CASE Ends(r, Failure)
  BY <1>1, <1>2, <1>4, FailureKeeps
<1> QED
  BY <1>3, <1>4 DEF AppendUser

LEMMA StartTurnKeeps ==
  ASSUME TurnInv, NEW r \in Requests, StartTurn(r)
  PROVE  TurnInv'
<1> DEFINE k == req[r].key
<1>1. ~At(r, "over") /\ user' = user /\ outcome' = outcome /\ ran' = ran
  BY DEF StartTurn, At
<1>2. k \in TurnKeys /\ turn[k] \in TurnRow /\ TextFits(turn[k])
  BY <1>1, AtWork
<1>3. user' \in [TurnKeys -> Prompts \union {NoPrompt}] /\ turn \in [TurnKeys -> TurnRow]
  BY <1>1 DEF TurnInv, TurnTypeOK
<1>4. "gateway" \in Places \ {"perform", "record"}
  BY DEF Places
<1>5. CASE /\ turn[k].status = "none" /\ turn' = [turn EXCEPT ![k].status = "queued"]
           /\ Goes(r, "gateway") /\ told' = told
  <2> DEFINE row == [turn[k] EXCEPT !.status = "queued"]
  <2>1. row \in TurnRow /\ TextFits(row)
    BY <1>2, <1>5 DEF TurnRow, TextFits
  <2>2. turn' = [turn EXCEPT ![k] = row] /\ turn[k].status # "final"
    BY <1>5
  <2> HIDE DEF row, k
  <2> QED  BY <1>1, <1>2, <1>3, <1>4, <1>5, <2>1, <2>2, GoesKeeps
<1>6. CASE Goes(r, "gateway") /\ turn' = turn /\ told' = told
  BY <1>1, <1>3, <1>4, <1>6, GoesKeeps
<1>7. CASE /\ turn[k].status = "final" /\ turn[k].text = Empty
           /\ Ends(r, Completed(Empty)) /\ turn' = turn
  <2>1. turn[k] = [status |-> "final", text |-> Empty]
    BY <1>2, <1>7 DEF TurnRow
  <2> QED  BY <1>1, <1>2, <1>7, <2>1, CompletedKeeps DEF Texts
<1>8. CASE Ends(r, Failure) /\ turn' = turn
  BY <1>1, <1>3, <1>8, FailureKeeps
<1> QED
  BY <1>5, <1>6, <1>7, <1>8 DEF StartTurn

LEMMA StreamMovesKeep ==
  ASSUME TurnInv, NEW r \in Requests, StartStream(r) \/ StreamFails(r)
  PROVE  TurnInv'
<1>1. /\ ~At(r, "over") /\ user' = user /\ turn' = turn /\ outcome' = outcome /\ ran' = ran
      /\ told' = told /\ (Goes(r, "stream") \/ Goes(r, "fail"))
  BY DEF StartStream, StreamFails, At, dbVars
<1>2. "stream" \in Places \ {"perform", "record"} /\ "fail" \in Places \ {"perform", "record"}
  BY DEF Places
<1>3. user' \in [TurnKeys -> Prompts \union {NoPrompt}]
  BY <1>1 DEF TurnInv, TurnTypeOK
<1> QED
  BY <1>1, <1>2, <1>3, GoesKeeps

LEMMA DeltaKeeps ==
  ASSUME TurnInv, NEW r \in Requests, Delta(r)
  PROVE  TurnInv'
<1> DEFINE k == req[r].key
           row == [status |-> "streaming", text |-> "partial"]
<1>1. /\ At(r, "stream") /\ ~At(r, "over")
      /\ user' = user /\ outcome' = outcome /\ ran' = ran /\ told' = told
  BY DEF Delta, At
<1>2. k \in TurnKeys
  BY <1>1, AtWork
<1>3. user' \in [TurnKeys -> Prompts \union {NoPrompt}] /\ req \in [Requests -> RequestState]
  BY <1>1 DEF TurnInv, TurnTypeOK
<1>4. "stream" \in Places \ {"perform", "record"} /\ "fail" \in Places \ {"perform", "record"}
  BY DEF Places
<1>5. CASE Unsettled(k) /\ turn' = [turn EXCEPT ![k] = row] /\ req' = req
  <2>1. Goes(r, "stream")
    BY <1>1, <1>3, <1>5 DEF Goes, At, RequestState
  <2>2. row \in TurnRow /\ TextFits(row) /\ turn[k].status # "final"
    BY <1>5 DEF TurnRow, TextFits, Texts, Unsettled
  <2> HIDE DEF row, k
  <2> QED  BY <1>1, <1>2, <1>3, <1>4, <1>5, <2>1, <2>2, GoesKeeps
<1>6. CASE Goes(r, "fail") /\ turn' = turn
  BY <1>1, <1>3, <1>4, <1>6, GoesKeeps
<1> QED
  BY <1>5, <1>6 DEF Delta

LEMMA FinalEventKeeps ==
  ASSUME TurnInv, NEW r \in Requests, FinalEvent(r)
  PROVE  TurnInv'
<1> DEFINE k == req[r].key
<1>1. ~At(r, "over") /\ user' = user /\ outcome' = outcome /\ ran' = ran
  BY DEF FinalEvent, At
<1>2. k \in TurnKeys /\ turn[k] \in TurnRow
  BY <1>1, AtWork
<1>3. user' \in [TurnKeys -> Prompts \union {NoPrompt}] /\ turn \in [TurnKeys -> TurnRow]
  BY <1>1 DEF TurnInv, TurnTypeOK
<1>4. ASSUME Finalizable(k), NEW a \in Answers \union {Empty},
             turn' = [turn EXCEPT ![k] = [status |-> "final", text |-> a]],
             Ends(r, Completed(a))
      PROVE  TurnInv'
  <2> DEFINE row == [status |-> "final", text |-> a]
  <2>1. row \in TurnRow /\ TextFits(row) /\ a \in Texts /\ turn[k].status # "final"
    BY <1>4 DEF TurnRow, TextFits, Texts, Finalizable, Unsettled
  <2>2. turn' = [turn EXCEPT ![k] = row] /\ turn'[k] = row
    BY <1>2, <1>3, <1>4
  <2>3. \E j \in TurnKeys, w \in TurnRow :
          turn[j].status # "final" /\ TextFits(w) /\ turn' = [turn EXCEPT ![j] = w]
    <3> HIDE DEF row, k
    <3> QED  BY <1>2, <2>1, <2>2
  <2> QED  BY <1>1, <1>2, <1>4, <2>1, <2>2, <2>3, CompletedKeeps
<1>5. CASE turn[k].status = "final" /\ Ends(r, Completed(turn[k].text)) /\ turn' = turn
  <2> DEFINE a == turn[k].text
  <2>1. turn[k] = [status |-> "final", text |-> a] /\ a \in Texts
    BY <1>2, <1>5 DEF TurnRow
  <2> HIDE DEF a
  <2>2. Ends(r, Completed(a)) /\ turn'[req[r].key] = [status |-> "final", text |-> a]
    BY <1>5, <2>1 DEF a
  <2> QED  BY <1>1, <1>2, <1>5, <2>1, <2>2, CompletedKeeps
<1>6. CASE Ends(r, Failure) /\ turn' = turn
  BY <1>1, <1>3, <1>6, FailureKeeps
<1> QED
  BY <1>4, <1>5, <1>6 DEF FinalEvent

LEMMA FailTurnKeeps ==
  ASSUME TurnInv, NEW r \in Requests, FailTurn(r)
  PROVE  TurnInv'
<1> DEFINE k == req[r].key
<1>1. ~At(r, "over") /\ user' = user /\ outcome' = outcome /\ ran' = ran /\ Ends(r, Failure)
  BY DEF FailTurn, At
<1>2. k \in TurnKeys
  BY <1>1, AtWork
<1>3. user' \in [TurnKeys -> Prompts \union {NoPrompt}]
  BY <1>1 DEF TurnInv, TurnTypeOK
<1>4. CASE Unsettled(k)
  <2>1. FailedTurn(k) \in TurnRow /\ TextFits(FailedTurn(k)) /\ turn[k].status # "final"
    BY <1>4 DEF FailedTurn, TurnRow, TextFits, Texts, Unsettled
  <2>2. turn' = [turn EXCEPT ![k] = FailedTurn(k)]
    BY <1>4 DEF FailTurn
  <2> HIDE DEF k
  <2> QED  BY <1>1, <1>2, <1>3, <2>1, <2>2, FailureKeeps
<1>5. CASE ~Unsettled(k)
  BY <1>1, <1>3, <1>5, FailureKeeps DEF FailTurn
<1> QED
  BY <1>4, <1>5

(* A request lets go of its tool, the receipt as it is: the result could   *)
(* not be recorded, or the process died.                                   *)
LEMMA LetGoKeeps ==
  ASSUME TurnInv, NEW r \in Requests, NEW place \in {"stream", "over"}, ~At(r, "over"),
         req' = [req EXCEPT ![r].at = place, ![r].tool = NoTool, ![r].ok = FALSE],
         UNCHANGED <<dbVars, told>>
  PROVE  TurnInv'
<1> DEFINE x == [req[r] EXCEPT !.at = place, !.tool = NoTool, !.ok = FALSE]
<1>1. /\ x \in RequestState /\ x.at = place /\ x.key = req[r].key /\ x.prompt = req[r].prompt
  BY DEF TurnInv, TurnTypeOK, RequestState, Places
<1>2. req' = [req EXCEPT ![r] = x]
  BY DEF TurnInv, TurnTypeOK
<1>3. /\ user' = user /\ turn' = turn /\ outcome' = outcome /\ ran' = ran
      /\ user \in [TurnKeys -> Prompts \union {NoPrompt}]
  BY DEF TurnInv, TurnTypeOK, dbVars
<1>4. told[r] \in Reply /\ told' = [told EXCEPT ![r] = told[r]] /\ told[r].what # "completed"
  BY DEF TurnInv, TurnTypeOK, ToldAtEnd
<1>5. x.key \in TurnKeys /\ x.prompt \in Prompts /\ x.at \notin {"perform", "record"}
  BY <1>1, AtWork
<1>6. /\ user' \in [TurnKeys -> Prompts \union {NoPrompt}]
      /\ turn' = turn /\ outcome' = outcome /\ ran' = ran /\ x \in RequestState
  BY <1>1, <1>3
<1>7. TurnInv
  OBVIOUS
<1> HIDE DEF x
<1> QED
  BY ONLY <1>2, <1>4, <1>5, <1>6, <1>7, PlainStepKeeps

LEMMA DatabaseErrorKeeps ==
  ASSUME TurnInv, NEW r \in Requests, DatabaseError(r)
  PROVE  TurnInv'
<1>1. CASE Ends(r, Failure)
  <2>1. user' = user /\ turn' = turn /\ outcome' = outcome /\ ran' = ran
    BY DEF DatabaseError, dbVars
  <2>2. user \in [TurnKeys -> Prompts \union {NoPrompt}]
    BY DEF TurnInv, TurnTypeOK
  <2> QED  BY <1>1, <2>1, <2>2, FailureKeeps
<1>2. CASE /\ At(r, "record") /\ told' = told
           /\ req' = [req EXCEPT ![r].at = "stream", ![r].tool = NoTool, ![r].ok = FALSE]
  <2>1. ~At(r, "over") /\ UNCHANGED <<dbVars, told>>
    BY <1>2 DEF DatabaseError, At
  <2> QED  BY <1>2, <2>1, LetGoKeeps
<1> QED
  BY <1>1, <1>2 DEF DatabaseError

LEMMA DiesKeeps ==
  ASSUME TurnInv, NEW r \in Requests, Dies(r)
  PROVE  TurnInv'
<1>1. /\ ~At(r, "over") /\ UNCHANGED <<dbVars, told>>
      /\ req' = [req EXCEPT ![r].at = "over", ![r].tool = NoTool, ![r].ok = FALSE]
  BY DEF Dies
<1> QED
  BY <1>1, LetGoKeeps

-----------------------------------------------------------------------------
(* The three steps of a tool call.  What they share: the turns and what    *)
(* the browsers were told stay, and only this request and its tool change. *)
LEMMA ToolStepFrame ==
  ASSUME TurnInv, NEW r \in Requests, ~At(r, "over"),
         NEW x \in RequestState, req' = [req EXCEPT ![r] = x],
         x.at \in {"stream", "perform", "record"}, x.key = req[r].key, x.prompt = req[r].prompt,
         x.at \in {"perform", "record"} => x.tool \in Tools,
         UNCHANGED <<user, turn, told>>,
         outcome' \in [TurnKeys -> [Tools -> {"none", "started", "succeeded", "failed"}]],
         ran' \in [TurnKeys -> [Tools -> Nat]]
  PROVE  TurnTypeOK' /\ RequestsFit' /\ TextFitsStatus' /\ ToldAtEnd' /\ ToldWhatIsStored'
<1>1. /\ req'[r] = x /\ \A q \in Requests \ {r} : req'[q] = req[q]
      /\ req' \in [Requests -> RequestState]
  BY DEF TurnInv, TurnTypeOK
<1>2. TurnTypeOK'
  BY <1>1 DEF TurnInv, TurnTypeOK
<1>3. x.key \in TurnKeys /\ x.prompt \in Prompts
  BY AtWork
<1>4. RequestsFit'
  BY <1>1, <1>3 DEF TurnInv, RequestsFit, At
<1>5. TextFitsStatus'
  BY DEF TurnInv, TextFitsStatus, TextFits
<1>6. told[r].what # "completed"
  BY DEF TurnInv, ToldAtEnd
<1>7. ToldAtEnd'
  BY <1>1, <1>6 DEF TurnInv, ToldAtEnd, At
<1>8. ToldWhatIsStored'
  BY <1>1, <1>6 DEF TurnInv, ToldWhatIsStored
<1> QED
  BY <1>2, <1>4, <1>5, <1>7, <1>8

(* The receipt is written before the tool is performed, and nobody holds a *)
(* call that has none.                                                     *)
LEMMA ToolCallKeeps ==
  ASSUME TurnInv, NEW r \in Requests, NEW c \in Tools, ToolCall(r, c)
  PROVE  TurnInv'
<1> DEFINE k == req[r].key
<1>1. PICK place \in {"perform", "record"} :
        req' = [req EXCEPT ![r].at = place, ![r].tool = c, ![r].ok = FALSE]
  BY DEF ToolCall
<1> DEFINE x == [req[r] EXCEPT !.at = place, !.tool = c, !.ok = FALSE]
<1>2. /\ x \in RequestState /\ x.at = place /\ x.key = k /\ x.prompt = req[r].prompt
      /\ x.tool = c /\ x.ok = FALSE
  BY DEF TurnInv, TurnTypeOK, RequestState, Places
<1>3. req' = [req EXCEPT ![r] = x]
  BY <1>1 DEF TurnInv, TurnTypeOK
<1>4. ~At(r, "over") /\ UNCHANGED <<user, turn, told>> /\ ran' = ran /\ outcome[k][c] = "none"
  BY DEF ToolCall, At, Recorded
<1>5. k \in TurnKeys
  BY <1>4, AtWork
<1>6. /\ outcome' \in [TurnKeys -> [Tools -> {"none", "started", "succeeded", "failed"}]]
      /\ ran' \in [TurnKeys -> [Tools -> Nat]]
      /\ outcome'[k][c] = "started"
      /\ \A j \in TurnKeys, d \in Tools : ~(j = k /\ d = c) => outcome'[j][d] = outcome[j][d]
  BY <1>4, <1>5 DEF ToolCall, TurnInv, TurnTypeOK
<1>7. req'[r] = x /\ \A q \in Requests \ {r} : req'[q] = req[q]
  BY <1>3 DEF TurnInv, TurnTypeOK
<1> HIDE DEF x
<1>8. TurnTypeOK' /\ RequestsFit' /\ TextFitsStatus' /\ ToldAtEnd' /\ ToldWhatIsStored'
  BY <1>2, <1>3, <1>4, <1>6, ToolStepFrame
<1>9. ran[k][c] = 0
  BY <1>4, <1>5 DEF TurnInv, ReceiptFirst
<1>10. ReceiptFirst' /\ ToolRunsOnce'
  BY <1>4, <1>6, <1>9 DEF TurnInv, ReceiptFirst, ToolRunsOnce
<1>11. ToolsInHand'
  <2>1. \A q \in Requests : ~WorksOn(q, k, c)
    BY <1>4, <1>5 DEF TurnInv, ToolsInHand
  <2>2. \A q \in Requests \ {r}, j \in TurnKeys, d \in Tools : WorksOn(q, j, d)' <=> WorksOn(q, j, d)
    BY <1>7 DEF WorksOn
  <2>3. \A j \in TurnKeys, d \in Tools : WorksOn(r, j, d)' <=> j = k /\ d = c
    BY <1>2, <1>7 DEF WorksOn
  <2> SUFFICES ASSUME NEW q \in Requests, NEW j \in TurnKeys, NEW d \in Tools, WorksOn(q, j, d)'
               PROVE  /\ outcome'[j][d] = "started"
                      /\ req'[q].at = "perform" => ran'[j][d] = 0
                      /\ req'[q].ok /\ req'[q].at = "record" => ran'[j][d] = 1
                      /\ \A p \in Requests : WorksOn(p, j, d)' => p = q
    BY DEF ToolsInHand, At
  <2>4. CASE q = r
    <3>1. j = k /\ d = c
      BY <2>3, <2>4
    <3>2. \A p \in Requests : WorksOn(p, j, d)' => p = q
      BY <2>1, <2>2, <2>4, <3>1
    <3> QED  BY <1>2, <1>4, <1>6, <1>7, <1>9, <2>4, <3>1, <3>2
  <2>5. CASE q # r
    <3>1. WorksOn(q, j, d) /\ ~(j = k /\ d = c) /\ req'[q] = req[q]
      BY <1>7, <2>1, <2>2, <2>5
    <3>2. /\ outcome[j][d] = "started"
          /\ req[q].at = "perform" => ran[j][d] = 0
          /\ req[q].ok /\ req[q].at = "record" => ran[j][d] = 1
          /\ \A p \in Requests : WorksOn(p, j, d) => p = q
      BY <3>1 DEF TurnInv, ToolsInHand, At
    <3>3. \A p \in Requests : WorksOn(p, j, d)' => p = q
      BY <2>2, <2>3, <3>1, <3>2
    <3> QED  BY <1>4, <1>6, <3>1, <3>2, <3>3
  <2> QED  BY <2>4, <2>5
<1> QED
  BY <1>8, <1>10, <1>11 DEF TurnInv

(* A tool in hand and not performed has not run; only its holder performs. *)
LEMMA PerformToolKeeps ==
  ASSUME TurnInv, NEW r \in Requests, PerformTool(r)
  PROVE  TurnInv'
<1> DEFINE k == req[r].key
           c == req[r].tool
<1>1. PICK ok \in BOOLEAN : req' = [req EXCEPT ![r].at = "record", ![r].ok = ok]
  BY DEF PerformTool
<1> DEFINE x == [req[r] EXCEPT !.at = "record", !.ok = ok]
<1>2. /\ x \in RequestState /\ x.at = "record" /\ x.key = k /\ x.prompt = req[r].prompt
      /\ x.tool = c
  BY DEF TurnInv, TurnTypeOK, RequestState, Places
<1>3. req' = [req EXCEPT ![r] = x]
  BY <1>1 DEF TurnInv, TurnTypeOK
<1>4. /\ At(r, "perform") /\ ~At(r, "over") /\ UNCHANGED <<user, turn, told>> /\ outcome' = outcome
      /\ ran' = [ran EXCEPT ![k][c] = @ + 1]
  BY DEF PerformTool, At
<1>5. k \in TurnKeys /\ c \in Tools /\ WorksOn(r, k, c)
  BY <1>4, AtWork DEF TurnInv, RequestsFit, WorksOn, At
<1>6. /\ outcome[k][c] = "started" /\ ran[k][c] = 0
      /\ \A q \in Requests : WorksOn(q, k, c) => q = r
  BY <1>4, <1>5 DEF TurnInv, ToolsInHand
<1>7. /\ outcome' \in [TurnKeys -> [Tools -> {"none", "started", "succeeded", "failed"}]]
      /\ ran' \in [TurnKeys -> [Tools -> Nat]]
      /\ ran'[k][c] = 1
      /\ \A j \in TurnKeys, d \in Tools : ~(j = k /\ d = c) => ran'[j][d] = ran[j][d]
  BY <1>4, <1>5, <1>6 DEF TurnInv, TurnTypeOK
<1>8. req'[r] = x /\ \A q \in Requests \ {r} : req'[q] = req[q]
  BY <1>3 DEF TurnInv, TurnTypeOK
<1> HIDE DEF x
<1>9. TurnTypeOK' /\ RequestsFit' /\ TextFitsStatus' /\ ToldAtEnd' /\ ToldWhatIsStored'
  BY <1>2, <1>3, <1>4, <1>5, <1>7, ToolStepFrame
<1>10. ReceiptFirst' /\ ToolRunsOnce'
  BY <1>4, <1>6, <1>7 DEF TurnInv, ReceiptFirst, ToolRunsOnce
<1>11. ToolsInHand'
  <2>1. \A q \in Requests, j \in TurnKeys, d \in Tools : WorksOn(q, j, d)' <=> WorksOn(q, j, d)
    BY <1>2, <1>4, <1>8 DEF WorksOn, At
  <2> SUFFICES ASSUME NEW q \in Requests, NEW j \in TurnKeys, NEW d \in Tools, WorksOn(q, j, d)
               PROVE  /\ outcome'[j][d] = "started"
                      /\ req'[q].at = "perform" => ran'[j][d] = 0
                      /\ req'[q].ok /\ req'[q].at = "record" => ran'[j][d] = 1
                      /\ \A p \in Requests : WorksOn(p, j, d) => p = q
    BY <2>1 DEF ToolsInHand, At
  <2>2. /\ outcome[j][d] = "started"
        /\ req[q].at = "perform" => ran[j][d] = 0
        /\ req[q].ok /\ req[q].at = "record" => ran[j][d] = 1
        /\ \A p \in Requests : WorksOn(p, j, d) => p = q
    BY DEF TurnInv, ToolsInHand, At
  <2>3. CASE q = r
    <3>1. j = k /\ d = c
      BY <2>3 DEF WorksOn
    <3> QED  BY <1>2, <1>4, <1>7, <1>8, <2>2, <2>3, <3>1
  <2>4. CASE q # r
    <3>1. ~(j = k /\ d = c)
      BY <1>6, <2>4
    <3> QED  BY <1>4, <1>7, <1>8, <2>2, <2>4, <3>1
  <2> QED  BY <2>3, <2>4
<1> QED
  BY <1>9, <1>10, <1>11 DEF TurnInv

(* The holder of a call records its result, and only it does. *)
LEMMA RecordToolKeeps ==
  ASSUME TurnInv, NEW r \in Requests, RecordTool(r)
  PROVE  TurnInv'
<1> DEFINE k == req[r].key
           c == req[r].tool
           x == [req[r] EXCEPT !.at = "stream", !.tool = NoTool, !.ok = FALSE]
<1>1. /\ x \in RequestState /\ x.at = "stream" /\ x.key = k /\ x.prompt = req[r].prompt
  BY DEF TurnInv, TurnTypeOK, RequestState, Places
<1>2. req' = [req EXCEPT ![r] = x]
  BY DEF RecordTool, TurnInv, TurnTypeOK
<1>3. /\ At(r, "record") /\ ~At(r, "over") /\ UNCHANGED <<user, turn, told>> /\ ran' = ran
  BY DEF RecordTool, At
<1>4. k \in TurnKeys /\ c \in Tools /\ WorksOn(r, k, c)
  BY <1>3, AtWork DEF TurnInv, RequestsFit, WorksOn, At
<1>5. /\ outcome[k][c] = "started"
      /\ req[r].ok => ran[k][c] = 1
      /\ \A q \in Requests : WorksOn(q, k, c) => q = r
  BY <1>3, <1>4 DEF TurnInv, ToolsInHand
<1>6. outcome' = [outcome EXCEPT ![k][c] = IF req[r].ok THEN "succeeded" ELSE "failed"]
  BY <1>4, <1>5 DEF RecordTool, TurnInv, TurnTypeOK
<1>7. /\ outcome' \in [TurnKeys -> [Tools -> {"none", "started", "succeeded", "failed"}]]
      /\ ran' \in [TurnKeys -> [Tools -> Nat]]
      /\ outcome'[k][c] = (IF req[r].ok THEN "succeeded" ELSE "failed")
      /\ \A j \in TurnKeys, d \in Tools : ~(j = k /\ d = c) => outcome'[j][d] = outcome[j][d]
  BY <1>3, <1>4, <1>6 DEF TurnInv, TurnTypeOK
<1>8. req'[r] = x /\ \A q \in Requests \ {r} : req'[q] = req[q]
  BY <1>2 DEF TurnInv, TurnTypeOK
<1> HIDE DEF x
<1>9. TurnTypeOK' /\ RequestsFit' /\ TextFitsStatus' /\ ToldAtEnd' /\ ToldWhatIsStored'
  BY <1>1, <1>2, <1>3, <1>7, ToolStepFrame
<1>10. ReceiptFirst' /\ ToolRunsOnce'
  <2>1. outcome'[k][c] # "none" /\ (outcome'[k][c] = "succeeded" => ran[k][c] = 1)
    BY <1>5, <1>7
  <2>2. ReceiptFirst'
    BY <1>3, <1>7, <2>1 DEF TurnInv, ReceiptFirst
  <2>3. ToolRunsOnce'
    BY <1>3, <1>7, <2>1 DEF TurnInv, ToolRunsOnce
  <2> QED  BY <2>2, <2>3
<1>11. ToolsInHand'
  <2>1. \A q \in Requests, j \in TurnKeys, d \in Tools :
          WorksOn(q, j, d)' => q # r /\ WorksOn(q, j, d) /\ ~(j = k /\ d = c)
    BY <1>1, <1>5, <1>8 DEF WorksOn
  <2> QED  BY <1>3, <1>7, <1>8, <2>1 DEF TurnInv, ToolsInHand, At
<1> QED
  BY <1>9, <1>10, <1>11 DEF TurnInv

-----------------------------------------------------------------------------
LEMMA TurnStepKeeps ==
  ASSUME TurnInv, TurnNext
  PROVE  TurnInv'
<1>1. PICK r \in Requests :
        \/ \E k \in TurnKeys, p \in Prompts : Post(r, k, p)
        \/ AppendUser(r) \/ StartTurn(r) \/ StartStream(r)
        \/ Delta(r) \/ FinalEvent(r) \/ StreamFails(r) \/ FailTurn(r)
        \/ \E c \in Tools : ToolCall(r, c)
        \/ PerformTool(r) \/ RecordTool(r)
        \/ DatabaseError(r) \/ Dies(r)
  BY DEF TurnNext
<1>2. CASE \E k \in TurnKeys, p \in Prompts : Post(r, k, p)
  BY <1>2, PostKeeps
<1>3. CASE AppendUser(r) \/ StartTurn(r)
  BY <1>3, AppendUserKeeps, StartTurnKeeps
<1>4. CASE StartStream(r) \/ StreamFails(r)
  BY <1>4, StreamMovesKeep
<1>5. CASE Delta(r) \/ FinalEvent(r) \/ FailTurn(r)
  BY <1>5, DeltaKeeps, FinalEventKeeps, FailTurnKeeps
<1>6. CASE \E c \in Tools : ToolCall(r, c)
  BY <1>6, ToolCallKeeps
<1>7. CASE PerformTool(r) \/ RecordTool(r)
  BY <1>7, PerformToolKeeps, RecordToolKeeps
<1>8. CASE DatabaseError(r) \/ Dies(r)
  BY <1>8, DatabaseErrorKeeps, DiesKeeps
<1> QED
  BY <1>1, <1>2, <1>3, <1>4, <1>5, <1>6, <1>7, <1>8

LEMMA TurnStutterKeeps ==
  ASSUME TurnInv, UNCHANGED turnVars
  PROVE  TurnInv'
<1>1. UNCHANGED <<user, turn, outcome, ran, req, told>>
  BY DEF turnVars, dbVars
<1>2. TurnTypeOK' /\ RequestsFit' /\ TextFitsStatus'
  BY <1>1 DEF TurnInv, TurnTypeOK, RequestsFit, TextFitsStatus, TextFits, At
<1>3. ToolsInHand'
  BY <1>1 DEF TurnInv, ToolsInHand, WorksOn, At
<1>4. ReceiptFirst' /\ ToolRunsOnce' /\ ToldAtEnd' /\ ToldWhatIsStored'
  BY <1>1 DEF TurnInv, ReceiptFirst, ToolRunsOnce, ToldAtEnd, ToldWhatIsStored, At
<1> QED
  BY <1>2, <1>3, <1>4 DEF TurnInv

(* The inductive invariant of the turns, for any number of requests, keys  *)
(* and tool calls.                                                         *)
THEOREM TurnInvariant == TurnSpec => []TurnInv
  BY TurnInitHolds, TurnStepKeeps, TurnStutterKeeps, PTL DEF TurnSpec

(* Turns, receipts and requests keep their types. *)
THEOREM TurnsTypeCorrect == TurnSpec => []TurnTypeOK
<1>1. TurnInv => TurnTypeOK
  BY DEF TurnInv
<1> QED  BY <1>1, TurnInvariant, PTL

(* Whatever order deltas, final events and failures of the requests for    *)
(* one turn come in, its text is of the kind its status says.              *)
THEOREM TextAlwaysFits == TurnSpec => []TextFitsStatus
<1>1. TurnInv => TextFitsStatus
  BY DEF TurnInv
<1> QED  BY <1>1, TurnInvariant, PTL

(* insertStartedToolOutcome before performTool is enough: no repetition of *)
(* a request, second stream or crash performs a tool call twice, and none  *)
(* is recorded as succeeded that did not run.                              *)
THEOREM ToolsRunOnce == TurnSpec => []ToolRunsOnce
<1>1. TurnInv => ToolRunsOnce
  BY DEF TurnInv
<1> QED  BY <1>1, TurnInvariant, PTL

(* Every browser that was given a final answer was given the stored one,   *)
(* and it stays stored.                                                    *)
THEOREM AnswersAreStored == TurnSpec => []ToldWhatIsStored
<1>1. TurnInv => ToldWhatIsStored
  BY DEF TurnInv
<1> QED  BY <1>1, TurnInvariant, PTL

(* What is settled stays: a final or failed turn keeps status and text,    *)
(* and a receipt with a result keeps it.                                   *)
SettledStays ==
  [][\A k \in TurnKeys :
       /\ turn[k].status \in {"final", "failed"} => turn'[k] = turn[k]
       /\ \A c \in Tools : outcome[k][c] \in {"succeeded", "failed"}
                             => outcome'[k][c] = outcome[k][c]]_turnVars

(* No handler of the turn route or of the tools writes to what is settled. *)
THEOREM SettledAlwaysStays == TurnSpec => SettledStays
<1>1. ASSUME TurnInv, [TurnNext]_turnVars, NEW k \in TurnKeys,
             turn[k].status \in {"final", "failed"}
      PROVE  turn'[k] = turn[k]
  <2>1. turn \in [TurnKeys -> TurnRow]
    BY <1>1 DEF TurnInv, TurnTypeOK
  <2> QED
    BY <1>1, <2>1 DEF TurnNext, turnVars, dbVars, Post, AppendUser, StartTurn, StartStream, Delta,
           FinalEvent, Finalizable, StreamFails, FailTurn, Unsettled, ToolCall, PerformTool,
           RecordTool, DatabaseError, Dies
<1>2. ASSUME TurnInv, [TurnNext]_turnVars, NEW k \in TurnKeys, NEW c \in Tools,
             outcome[k][c] \in {"succeeded", "failed"}
      PROVE  outcome'[k][c] = outcome[k][c]
  <2>1. outcome \in [TurnKeys -> [Tools -> {"none", "started", "succeeded", "failed"}]]
    BY <1>2 DEF TurnInv, TurnTypeOK
  <2>2. ASSUME NEW r \in Requests, NEW d \in Tools, ToolCall(r, d)
        PROVE  outcome'[k][c] = outcome[k][c]
    BY <1>2, <2>1, <2>2 DEF ToolCall, Recorded
  <2>3. ASSUME NEW r \in Requests, RecordTool(r)
        PROVE  outcome'[k][c] = outcome[k][c]
    BY <1>2, <2>1, <2>3 DEF RecordTool
  <2>4. \/ outcome' = outcome
        \/ \E r \in Requests : RecordTool(r) \/ \E d \in Tools : ToolCall(r, d)
    BY <1>2 DEF TurnNext, turnVars, dbVars, Post, AppendUser, StartTurn, StartStream, Delta,
           FinalEvent, StreamFails, FailTurn, PerformTool, DatabaseError, Dies
  <2> QED  BY <2>2, <2>3, <2>4
<1>3. TurnInv /\ [TurnNext]_turnVars =>
        [\A k \in TurnKeys :
           /\ turn[k].status \in {"final", "failed"} => turn'[k] = turn[k]
           /\ \A c \in Tools : outcome[k][c] \in {"succeeded", "failed"}
                                 => outcome'[k][c] = outcome[k][c]]_turnVars
  BY <1>1, <1>2
<1> QED  BY <1>3, TurnInvariant, PTL DEF TurnSpec, SettledStays

=============================================================================
