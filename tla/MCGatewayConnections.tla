------------------------ MODULE MCGatewayConnections ------------------------
(* Instances of GatewayConnections: two turns of one session and a query.  *)
EXTENDS GatewayConnections

CONSTANTS t1, t2, key

MCStreams == {t1, t2}
MCKeys == {key}
MCKeyOf == [t \in MCStreams |-> key]

\* Bounds: the turns are alike, so t1 comes first, and only t1 is ended while its
\* call is under way (by an event without runId or a stale close) or by a final
\* event without runId.
InTurn ==
  /\ phase'[t2] # "new" => phase[t1] # "new"
  /\ phase'[t2] \in InFlight => t2 \in active'
  /\ queue'[t2] # "unnamed"

MCSpec == Init /\ [][Next /\ InTurn]_vars /\ Fairness
=============================================================================
