-------------------------- MODULE MCAssistantTurns --------------------------
(* Instances of AssistantTurns: one key that three requests may use at      *)
(* once, again and again.  Requests and answers are interchangeable.        *)
EXTENDS AssistantTurns, TLC

CONSTANTS r1, r2, r3, a1, a2

MCRequests == {r1, r2, r3}
MCAnswers == {a1, a2}
Symmetric == Permutations(MCRequests) \union Permutations(MCAnswers)
=============================================================================
