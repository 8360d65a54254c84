--------------------------- MODULE MCCommandSpine ---------------------------
\* CommandSpine with three calls over four keys and two rows.
EXTENDS CommandSpine

CONSTANTS t1, t2, t3

Call(op, key, hash, id, target, expected, work, wellFormed) ==
  [op |-> op, key |-> key, hash |-> hash, commandId |-> id, target |-> target,
   expected |-> expected, work |-> work, wellFormed |-> wellFormed]

MCTx == {t1, t2, t3}
MCEnvelope == {
  Call("command", "k1", "h1", "c1", "r1", 1, "decide", TRUE),   \* a command
  Call("command", "k1", "h1", "c2", "r1", 1, "decide", TRUE),   \* its retry under a new command id
  Call("reserve", "k1", "h1", "c1", "r1", 1, "decide", TRUE),   \* its reservation ahead of time
  Call("command", "k1", "h2", "c3", "r1", 1, "submit", FALSE),  \* another under its key, which does not parse
  Call("command", "k2", "h3", "c4", "r1", 1, "accept", TRUE),   \* a rival for the same version
  Call("command", "k3", "h4", "c5", "r1", 2, "link", TRUE),     \* one for the next version
  Call("command", "k4", "h5", "c6", "r1", 1, "unlink", TRUE),   \* one for whatever version
  Call("command", "k3", "h6", "c7", "r2", 1, "draft", TRUE),    \* one that inserts a row
  Call("command", "k4", "h7", "c8", "r2", 1, "submit", TRUE) }  \* one for that row

\* Transactions are interchangeable, so one order of their calls stands for all
\* (a symmetry set would do for safety, not for liveness).
Ids == <<"c1", "c2", "c3", "c4", "c5", "c6", "c7", "c8">>
Later(e) == CHOOSE n \in 1..8 : e.commandId = Ids[n]
InOrder == Later(env[t1]) <= Later(env[t2]) /\ Later(env[t2]) <= Later(env[t3])

\* One row is there from the start, the other is not.
MCInit == Init /\ InOrder /\ version = [r \in Record |-> IF r = "r1" THEN 1 ELSE 0]
MCSpec == MCInit /\ [][Next]_vars /\ Fairness
=============================================================================
