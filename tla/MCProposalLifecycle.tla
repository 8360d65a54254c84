------------------------- MODULE MCProposalLifecycle -------------------------
(* ProposalLifecycle for TLC: two sessions, an admin and an agent.         *)
EXTENDS ProposalLifecycle

CONSTANTS s1, s2, admin, agent

MCSession == {s1, s2}
MCActor == {admin, agent}
MCAdmin == {admin}

\* Only archive and restore look at the actor, so the agent sends nothing else;
\* sessions are interchangeable, so the agent uses the second one and the first
\* drafts.  The condition is on commands under way and leaves their end free.
\* The target of a merge is archived and restored once.
Sends(s) ==
  tx[s].pc # "idle" =>
    /\ tx[s].actor = agent => s = s2 /\ tx[s].op \in {"archive", "restore"}
    /\ tx[s].op = "draft" => s = s1

\* Clients may stop sending (as they do at the bounds); any other state in which
\* nothing can happen is a deadlock.
Rest == (\A s \in Session : tx[s].pc = "idle") /\ UNCHANGED vars

MCSpec ==
  /\ Init /\ \A s \in Session : tx[s].actor = admin
  /\ [][Rest \/ (Next /\ (target.version <= 3 /\ \A s \in Session : Sends(s))')]_vars
  /\ Fairness
=============================================================================
