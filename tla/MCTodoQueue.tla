----------------------------- MODULE MCTodoQueue -----------------------------
\* TodoQueue with a small stride and maximum, so that gaps close, the head runs
\* into zero, the tail into the maximum, and the band into its capacity.
EXTENDS TodoQueue
=============================================================================
