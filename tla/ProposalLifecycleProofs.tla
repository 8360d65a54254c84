----------------------- MODULE ProposalLifecycleProofs -----------------------
(***************************************************************************)
(* The theorems about ProposalLifecycle, for every number of proposals and *)
(* sessions.  The invariant that carries them says what a row lock is      *)
(* worth: from the locked read to the commit, the row a session read is    *)
(* the committed row.                                                      *)
(***************************************************************************)
EXTENDS ProposalLifecycle, TLAPS

Holding == {"locked", "decided", "inserted", "updated"}

\* A session that has read its proposal holds its lock, and what it read is
\* still the committed row.
ReadIsCurrent ==
    \A s \in Session : tx[s].pc \in Holding =>
        /\ lock[tx[s].proposal] = s
        /\ tx[s].row = proposal[tx[s].proposal]

\* What was decided still holds: the versions agree, the lifecycle admits the
\* command, and the target of a merge is locked and active.
DecisionStands ==
    \A s \in Session : tx[s].pc \in Holding \ {"locked"} =>
        /\ tx[s].row.version = tx[s].version
        /\ tx[s].row.version < MaxVersion
        /\ tx[s].op = "draft" => tx[s].row.version = 0
        /\ tx[s].op # "draft" => tx[s].row.version # 0
        /\ tx[s].op = "submit" => tx[s].row.state = "draft"
        /\ tx[s].op \in {"accept", "merge", "reject"} => tx[s].row.state = "awaiting_decision"
        /\ tx[s].op = "merge" => targetLock = s /\ ~target.archived

\* A session has inserted a ticket exactly while it is accepting.
InsertedByAccept ==
    \A s \in Session :
        tx[s].inserted <=> (tx[s].op = "accept" /\ tx[s].pc \in {"inserted", "updated"})

\* A command is sent below the version bound, and only drafting names a proposal
\* that does not exist.
VersionsBounded ==
    /\ \A s \in Session : tx[s].version < MaxVersion /\ (tx[s].op = "draft" <=> tx[s].version = 0)
    /\ \A p \in Proposal : proposal[p].version = 0 => proposal[p] = NoRow

ProposalInv ==
    /\ TypeOK
    /\ ReadIsCurrent
    /\ DecisionStands
    /\ InsertedByAccept
    /\ VersionsBounded
    /\ AcceptedMeansTicket

USE DEF Holding

-----------------------------------------------------------------------------
\* The initial state satisfies the invariant.
LEMMA InitProposalInv == Init => ProposalInv
  <1> SUFFICES ASSUME Init PROVE ProposalInv
    OBVIOUS
  <1>1. NoRow \in Row /\ NoRow.state = "draft" /\ NoRow.version = 0
    BY ProposalAssumption DEF NoRow, Row, LifecycleState
  <1>2. ASSUME NEW s \in Session
        PROVE  tx[s] \in Tx /\ tx[s].pc = "idle" /\ tx[s].op = "draft" /\ tx[s].inserted = FALSE
               /\ tx[s].version = 0
    <2>1. PICK p \in Proposal, a \in Actor :
            tx[s] = [pc |-> "idle", op |-> "draft", proposal |-> p, actor |-> a,
                     version |-> 0, targetVersion |-> 1, row |-> NoRow, inserted |-> FALSE]
      BY DEF Init
    <2>2. 0 \in 0..MaxVersion /\ 1 \in 1..MaxVersion
      BY ProposalAssumption
    <2> QED  BY <2>1, <2>2, <1>1 DEF Tx, Op
  <1>3. tx \in [Session -> Tx]
    BY <1>2 DEF Init
  <1>4. TypeOK
    <2>1. 1 \in 1..MaxVersion
      BY ProposalAssumption
    <2> QED  BY <1>1, <1>3, <2>1 DEF Init, TypeOK
  <1>5. ReadIsCurrent /\ DecisionStands /\ InsertedByAccept
    BY <1>2 DEF ReadIsCurrent, DecisionStands, InsertedByAccept
  <1>6. VersionsBounded
    BY <1>2, ProposalAssumption DEF VersionsBounded, Init
  <1>7. AcceptedMeansTicket
    BY <1>1 DEF AcceptedMeansTicket, Init
  <1> QED  BY <1>4, <1>5, <1>6, <1>7 DEF ProposalInv

\* The end of a transaction: the session is idle, owns no lock, and the other
\* sessions keep theirs.
LEMMA ReleaseEffect ==
    ASSUME TypeOK, NEW s \in Session, Release(s)
    PROVE  /\ tx' \in [Session -> Tx]
           /\ tx'[s].pc = "idle" /\ tx'[s].inserted = FALSE /\ tx'[s].version = 0 /\ tx'[s].op = "draft"
           /\ \A r \in Session \ {s} : tx'[r] = tx[r]
           /\ lock' \in [Proposal -> Session \cup {NoSession}]
           /\ \A p \in Proposal : lock[p] # s => lock'[p] = lock[p]
           /\ targetLock' \in Session \cup {NoSession}
           /\ targetLock # s => targetLock' = targetLock
  <1>1. tx[s] \in Tx /\ tx \in [Session -> Tx]
    BY DEF TypeOK
  <1>2. NoRow \in Row
    BY ProposalAssumption DEF NoRow, Row, LifecycleState
  <1>3. 0 \in 0..MaxVersion /\ 1 \in 1..MaxVersion
    BY ProposalAssumption
  <1>4. /\ Idle(tx[s]) \in Tx /\ Idle(tx[s]).pc = "idle" /\ Idle(tx[s]).inserted = FALSE
        /\ Idle(tx[s]).version = 0 /\ Idle(tx[s]).op = "draft"
    BY <1>1, <1>2, <1>3 DEF Idle, Tx, Op
  <1>5. tx' = [tx EXCEPT ![s] = Idle(tx[s])]
    BY DEF Release
  <1>6. tx' \in [Session -> Tx] /\ tx'[s] = Idle(tx[s]) /\ \A r \in Session \ {s} : tx'[r] = tx[r]
    BY <1>1, <1>4, <1>5
  <1>7. /\ lock' \in [Proposal -> Session \cup {NoSession}]
        /\ \A p \in Proposal : lock[p] # s => lock'[p] = lock[p]
        /\ targetLock' \in Session \cup {NoSession}
        /\ targetLock # s => targetLock' = targetLock
    BY DEF Release, TypeOK
  <1> QED  BY <1>4, <1>6, <1>7

\* A transaction that ends without changing the proposals, the tickets or the
\* target preserves the invariant.
LEMMA EndPreserves ==
    ASSUME ProposalInv, NEW s \in Session, Release(s),
           proposal' = proposal, ticket' = ticket, target' = target, event' = event
    PROVE  ProposalInv'
  <1>1. TypeOK
    BY DEF ProposalInv
  <1>2. /\ tx' \in [Session -> Tx]
        /\ tx'[s].pc = "idle" /\ tx'[s].inserted = FALSE /\ tx'[s].version = 0 /\ tx'[s].op = "draft"
        /\ \A r \in Session \ {s} : tx'[r] = tx[r]
        /\ lock' \in [Proposal -> Session \cup {NoSession}]
        /\ \A p \in Proposal : lock[p] # s => lock'[p] = lock[p]
        /\ targetLock' \in Session \cup {NoSession}
        /\ targetLock # s => targetLock' = targetLock
    BY <1>1, ReleaseEffect
  <1>3. TypeOK'
    BY <1>1, <1>2 DEF TypeOK
  <1>4. \A r \in Session : tx[r].proposal \in Proposal
    BY <1>1 DEF TypeOK, Tx
  <1>5. ReadIsCurrent'
    BY <1>2, <1>4 DEF ProposalInv, ReadIsCurrent
  <1>6. DecisionStands'
    BY <1>2 DEF ProposalInv, DecisionStands
  <1>7. InsertedByAccept'
    BY <1>2 DEF ProposalInv, InsertedByAccept
  <1>8. VersionsBounded'
    BY <1>2, ProposalAssumption DEF ProposalInv, VersionsBounded
  <1>9. AcceptedMeansTicket'
    BY DEF ProposalInv, AcceptedMeansTicket
  <1> QED  BY <1>3, <1>5, <1>6, <1>7, <1>8, <1>9 DEF ProposalInv

-----------------------------------------------------------------------------
\* Sending a command preserves the invariant.
LEMMA SendPreserves ==
    ASSUME ProposalInv, NEW s \in Session, NEW op \in Op, NEW p \in Proposal, NEW a \in Actor,
           Send(s, op, p, a)
    PROVE  ProposalInv'
  <1> DEFINE v == IF op = "draft" THEN 0 ELSE proposal[p].version
             t == [pc |-> "sent", op |-> op, proposal |-> p, actor |-> a, version |-> v,
                   targetVersion |-> target.version, row |-> NoRow, inserted |-> FALSE]
  <1>1. TypeOK /\ tx \in [Session -> Tx]
    BY DEF ProposalInv, TypeOK
  <1>2. NoRow \in Row
    BY ProposalAssumption DEF NoRow, Row, LifecycleState
  <1>3. v \in 0..MaxVersion /\ v < MaxVersion /\ target.version \in 1..MaxVersion
    BY <1>1, ProposalAssumption DEF TypeOK, Row, Send
  <1>4. t \in Tx
    BY <1>2, <1>3 DEF Tx
  <1>5. /\ tx' = [tx EXCEPT ![s] = t]
        /\ proposal' = proposal /\ ticket' = ticket /\ target' = target /\ event' = event
        /\ lock' = lock /\ targetLock' = targetLock
    BY DEF Send
  <1>6. tx' \in [Session -> Tx] /\ tx'[s] = t /\ \A r \in Session \ {s} : tx'[r] = tx[r]
    BY <1>1, <1>4, <1>5
  <1>7. t.pc = "sent" /\ t.inserted = FALSE /\ t.version = v /\ t.op = op
    OBVIOUS
  <1>13. op = "draft" <=> v = 0
    BY DEF Send
  <1> HIDE DEF t, v
  <1>8. TypeOK'
    BY <1>1, <1>5, <1>6 DEF TypeOK
  <1>9. ReadIsCurrent' /\ InsertedByAccept'
    BY <1>5, <1>6, <1>7 DEF ProposalInv, ReadIsCurrent, InsertedByAccept
  <1>10. DecisionStands'
    BY <1>5, <1>6, <1>7 DEF ProposalInv, DecisionStands
  <1>11. VersionsBounded'
    BY <1>3, <1>5, <1>6, <1>7, <1>13 DEF ProposalInv, VersionsBounded
  <1>12. AcceptedMeansTicket'
    BY <1>5 DEF ProposalInv, AcceptedMeansTicket
  <1> QED  BY <1>8, <1>9, <1>10, <1>11, <1>12 DEF ProposalInv

\* The locked read preserves the invariant: it takes a free lock and returns the
\* committed row.
LEMMA SelectPreserves ==
    ASSUME ProposalInv, NEW s \in Session, SelectProposalForUpdate(s)
    PROVE  ProposalInv'
  <1> DEFINE p == tx[s].proposal
             t == [tx[s] EXCEPT !.pc = "locked", !.row = proposal[p]]
  <1>1. TypeOK /\ tx \in [Session -> Tx] /\ tx[s] \in Tx /\ p \in Proposal
    BY DEF ProposalInv, TypeOK, Tx
  <1>2. proposal[p] \in Row
    BY <1>1 DEF TypeOK
  <1>3. t \in Tx
    BY <1>1, <1>2 DEF Tx
  <1>4. /\ tx[s].pc = "sent" /\ lock[p] = NoSession
        /\ lock' = [lock EXCEPT ![p] = s]
        /\ tx' = [tx EXCEPT ![s] = t]
        /\ proposal' = proposal /\ ticket' = ticket /\ target' = target /\ event' = event
        /\ targetLock' = targetLock
    BY <1>1 DEF SelectProposalForUpdate
  <1>5. tx' \in [Session -> Tx] /\ tx'[s] = t /\ \A r \in Session \ {s} : tx'[r] = tx[r]
    BY <1>1, <1>3, <1>4
  <1>6. /\ t.pc = "locked" /\ t.row = proposal[p] /\ t.proposal = p
        /\ t.op = tx[s].op /\ t.inserted = tx[s].inserted /\ t.version = tx[s].version
    BY <1>1 DEF Tx
  <1> HIDE DEF t
  <1>7. TypeOK'
    BY <1>1, <1>4, <1>5 DEF TypeOK
  <1>8. ReadIsCurrent'
    <2> SUFFICES ASSUME NEW r \in Session, tx'[r].pc \in Holding
                 PROVE  lock'[tx'[r].proposal] = r /\ tx'[r].row = proposal'[tx'[r].proposal]
      BY DEF ReadIsCurrent
    <2>1. CASE r = s
      BY <1>1, <1>4, <1>5, <1>6, <2>1 DEF TypeOK
    <2>2. CASE r # s
      <3>1. tx'[r] = tx[r] /\ tx[r].proposal \in Proposal
        BY <1>1, <1>5, <2>2 DEF Tx
      <3>2. lock[tx[r].proposal] = r /\ tx[r].row = proposal[tx[r].proposal]
        BY <3>1 DEF ProposalInv, ReadIsCurrent
      <3>3. tx[r].proposal # p
        BY <1>4, <3>2, ProposalAssumption
      <3> QED  BY <1>1, <1>4, <3>1, <3>2, <3>3 DEF TypeOK
    <2> QED  BY <2>1, <2>2
  <1>9. DecisionStands'
    BY <1>4, <1>5, <1>6 DEF ProposalInv, DecisionStands
  <1>10. InsertedByAccept'
    BY <1>4, <1>5, <1>6 DEF ProposalInv, InsertedByAccept
  <1>11. VersionsBounded'
    BY <1>4, <1>5, <1>6 DEF ProposalInv, VersionsBounded
  <1>12. AcceptedMeansTicket'
    BY <1>4 DEF ProposalInv, AcceptedMeansTicket
  <1> QED  BY <1>7, <1>8, <1>9, <1>10, <1>11, <1>12 DEF ProposalInv

\* A step that only moves the session on, keeping its command and what it read,
\* preserves the invariant if what it claims about the decision holds.
LEMMA AdvancePreserves ==
    ASSUME ProposalInv, NEW s \in Session, NEW t \in Tx,
           tx' = [tx EXCEPT ![s] = t],
           proposal' = proposal, ticket' = ticket, target' = target, event' = event,
           lock' = lock,
           targetLock' \in Session \cup {NoSession},
           \A r \in Session \ {s} : targetLock = r => targetLock' = r,
           tx[s].pc \in Holding, t.pc \in Holding \ {"locked"},
           t.op = tx[s].op, t.proposal = tx[s].proposal, t.row = tx[s].row,
           t.version = tx[s].version,
           t.inserted <=> (t.op = "accept" /\ t.pc \in {"inserted", "updated"}),
           t.row.version = t.version,
           t.op = "draft" => t.row.version = 0,
           t.op # "draft" => t.row.version # 0,
           t.op = "submit" => t.row.state = "draft",
           t.op \in {"accept", "merge", "reject"} => t.row.state = "awaiting_decision",
           t.op = "merge" => targetLock' = s /\ ~target.archived
    PROVE  ProposalInv'
  <1>1. TypeOK /\ tx \in [Session -> Tx]
    BY DEF ProposalInv, TypeOK
  <1>2. tx' \in [Session -> Tx] /\ tx'[s] = t /\ \A r \in Session \ {s} : tx'[r] = tx[r]
    BY <1>1
  <1>3. TypeOK'
    BY <1>1, <1>2 DEF TypeOK
  <1>4. ReadIsCurrent'
    BY <1>2 DEF ProposalInv, ReadIsCurrent
  <1>5. tx[s].version < MaxVersion
    BY DEF ProposalInv, VersionsBounded
  <1>6. DecisionStands'
    <2> SUFFICES ASSUME NEW r \in Session, tx'[r].pc \in Holding \ {"locked"}
                 PROVE  /\ tx'[r].row.version = tx'[r].version
                        /\ tx'[r].row.version < MaxVersion
                        /\ tx'[r].op = "draft" => tx'[r].row.version = 0
                        /\ tx'[r].op # "draft" => tx'[r].row.version # 0
                        /\ tx'[r].op = "submit" => tx'[r].row.state = "draft"
                        /\ tx'[r].op \in {"accept", "merge", "reject"}
                             => tx'[r].row.state = "awaiting_decision"
                        /\ tx'[r].op = "merge" => targetLock' = r /\ ~target'.archived
      BY DEF DecisionStands
    <2>1. CASE r = s
      BY <1>2, <1>5, <2>1
    <2>2. CASE r # s
      BY <1>2, <2>2 DEF ProposalInv, DecisionStands
    <2> QED  BY <2>1, <2>2
  <1>7. InsertedByAccept'
    BY <1>2 DEF ProposalInv, InsertedByAccept
  <1>8. VersionsBounded'
    BY <1>2 DEF ProposalInv, VersionsBounded
  <1>9. AcceptedMeansTicket'
    BY DEF ProposalInv, AcceptedMeansTicket
  <1> QED  BY <1>3, <1>4, <1>6, <1>7, <1>8, <1>9 DEF ProposalInv

\* The admission of a command preserves the invariant.
LEMMA AdmitPreserves ==
    ASSUME ProposalInv, NEW s \in Session, Admit(s)
    PROVE  ProposalInv'
  <1> DEFINE t == [tx[s] EXCEPT !.pc = "decided"]
  <1>1. tx \in [Session -> Tx] /\ tx[s] \in Tx
    BY DEF ProposalInv, TypeOK
  <1>2. /\ t \in Tx /\ t.pc = "decided"
        /\ t.op = tx[s].op /\ t.proposal = tx[s].proposal /\ t.row = tx[s].row
        /\ t.version = tx[s].version /\ t.inserted = tx[s].inserted
    BY <1>1 DEF Tx
  <1>3. /\ tx[s].pc = "locked" /\ tx' = [tx EXCEPT ![s] = t]
        /\ proposal' = proposal /\ ticket' = ticket /\ target' = target /\ event' = event
        /\ lock' = lock
        /\ Admitted(tx[s])
    BY <1>1 DEF Admit
  <1>4. /\ targetLock' \in Session \cup {NoSession}
        /\ \A r \in Session \ {s} : targetLock = r => targetLock' = r
        /\ tx[s].op = "merge" => targetLock' = s
    BY ProposalAssumption DEF Admit, TargetLockable, ProposalInv, TypeOK
  <1>5. tx[s].inserted = FALSE
    BY <1>1, <1>3 DEF ProposalInv, InsertedByAccept, Tx
  <1>6. tx[s].op = "draft" <=> tx[s].version = 0
    BY DEF ProposalInv, VersionsBounded
  <1>7. /\ tx[s].row.version = tx[s].version
        /\ tx[s].op = "draft" => tx[s].row.version = 0
        /\ tx[s].op # "draft" => tx[s].row.version # 0
        /\ tx[s].op = "submit" => tx[s].row.state = "draft"
        /\ tx[s].op \in {"accept", "merge", "reject"} => tx[s].row.state = "awaiting_decision"
        /\ tx[s].op = "merge" => ~target.archived
    BY <1>3, <1>6 DEF Admitted, AwaitingDecision
  <1> HIDE DEF t
  <1> QED  BY <1>2, <1>3, <1>4, <1>5, <1>7, AdvancePreserves

\* The insert of an accept preserves the invariant.
LEMMA InsertPreserves ==
    ASSUME ProposalInv, NEW s \in Session, InsertDevTicket(s)
    PROVE  ProposalInv'
  <1>1. CASE tx[s].proposal \in ticket
    BY <1>1, EndPreserves DEF InsertDevTicket
  <1>2. CASE tx[s].proposal \notin ticket
    <2> DEFINE t == [tx[s] EXCEPT !.pc = "inserted", !.inserted = TRUE]
    <2>1. tx \in [Session -> Tx] /\ tx[s] \in Tx
      BY DEF ProposalInv, TypeOK
    <2>2. /\ t \in Tx /\ t.pc = "inserted"
          /\ t.op = tx[s].op /\ t.proposal = tx[s].proposal /\ t.row = tx[s].row
          /\ t.version = tx[s].version /\ t.inserted = TRUE
      BY <2>1 DEF Tx
    <2>3. /\ tx[s].pc = "decided" /\ tx[s].op = "accept" /\ tx' = [tx EXCEPT ![s] = t]
          /\ proposal' = proposal /\ ticket' = ticket /\ target' = target /\ event' = event
          /\ lock' = lock /\ targetLock' = targetLock
      BY <1>2, <2>1 DEF InsertDevTicket
    <2>4. targetLock \in Session \cup {NoSession}
      BY DEF ProposalInv, TypeOK
    <2>5. /\ tx[s].row.version = tx[s].version /\ tx[s].row.version # 0
          /\ tx[s].row.state = "awaiting_decision"
      BY <2>3 DEF ProposalInv, DecisionStands
    <2> HIDE DEF t
    <2> QED  BY <2>2, <2>3, <2>4, <2>5, AdvancePreserves
  <1> QED  BY <1>1, <1>2

\* The guarded update preserves the invariant.  Its row is the one that was read,
\* so it matches: the branch that would keep an orphan ticket is never taken.
LEMMA UpdatePreserves ==
    ASSUME ProposalInv, NEW s \in Session, UpdateProposal(s)
    PROVE  ProposalInv'
  <1> DEFINE t == [tx[s] EXCEPT !.pc = "updated"]
  <1>1. tx \in [Session -> Tx] /\ tx[s] \in Tx /\ tx[s].proposal \in Proposal
    BY DEF ProposalInv, TypeOK, Tx
  <1>2. tx[s].pc \in {"decided", "inserted"} /\ (tx[s].op = "accept" => tx[s].pc = "inserted")
    BY DEF UpdateProposal, ReadyToUpdate
  <1>3. /\ lock[tx[s].proposal] = s /\ tx[s].row = proposal[tx[s].proposal]
        /\ tx[s].row.version = tx[s].version
        /\ tx[s].op = "draft" => tx[s].row.version = 0
        /\ tx[s].op # "draft" => tx[s].row.version # 0
        /\ tx[s].op = "submit" => tx[s].row.state = "draft"
        /\ tx[s].op \in {"accept", "merge", "reject"} => tx[s].row.state = "awaiting_decision"
        /\ tx[s].op = "merge" => targetLock = s /\ ~target.archived
    BY <1>2 DEF ProposalInv, ReadIsCurrent, DecisionStands
  <1>4. proposal[tx[s].proposal].version = tx[s].version
    BY <1>3
  <1>5. /\ tx' = [tx EXCEPT ![s] = t]
        /\ proposal' = proposal /\ ticket' = ticket /\ target' = target /\ event' = event
        /\ lock' = [lock EXCEPT ![tx[s].proposal] = s] /\ targetLock' = targetLock
    BY <1>1, <1>4 DEF UpdateProposal
  <1>6. lock' = lock
    BY <1>1, <1>3, <1>5 DEF ProposalInv, TypeOK
  <1>7. /\ t \in Tx /\ t.pc = "updated"
        /\ t.op = tx[s].op /\ t.proposal = tx[s].proposal /\ t.row = tx[s].row
        /\ t.version = tx[s].version /\ t.inserted = tx[s].inserted
    BY <1>1 DEF Tx
  <1>8. t.inserted <=> (t.op = "accept" /\ t.pc \in {"inserted", "updated"})
    BY <1>2, <1>7 DEF ProposalInv, InsertedByAccept
  <1>9. targetLock \in Session \cup {NoSession}
    BY DEF ProposalInv, TypeOK
  <1> HIDE DEF t
  <1> QED  BY <1>2, <1>3, <1>5, <1>6, <1>7, <1>8, <1>9, AdvancePreserves

\* The row a command leaves, given what was decided about the row it read.
LEMMA RowAfterFacts ==
    ASSUME NEW t \in Tx, t.row.version < MaxVersion
    PROVE  /\ RowAfter(t) \in Row
           /\ RowAfter(t).version = t.row.version + 1
           /\ t.op \in {"archive", "restore"} => RowAfter(t).state = t.row.state
           /\ t.op = "accept" <=> (RowAfter(t).state = "accepted" /\ t.op \notin {"archive", "restore"})
           /\ t.op = "merge" => RowAfter(t).state = "merged"
           /\ t.op \notin {"archive", "restore", "merge"} => RowAfter(t).state # "merged"
  <1>1. /\ t.row \in Row /\ t.op \in Op
        /\ t.row.state \in LifecycleState /\ t.row.archived \in BOOLEAN
    BY DEF Tx, Row
  <1>2. t.row.version + 1 \in 0..MaxVersion
    BY <1>1, ProposalAssumption DEF Row
  <1>3. RowAfter(t).archived \in BOOLEAN
    BY <1>1 DEF RowAfter
  <1>4. RowAfter(t).state \in LifecycleState
    BY <1>1 DEF RowAfter, LifecycleState, Decision
  <1>5. RowAfter(t) = [version |-> t.row.version + 1, state |-> RowAfter(t).state,
                       archived |-> RowAfter(t).archived]
    BY DEF RowAfter
  <1>6. RowAfter(t) \in Row
    BY <1>2, <1>3, <1>4, <1>5 DEF Row
  <1>7. RowAfter(t).version = t.row.version + 1
    BY DEF RowAfter
  <1>8. /\ t.op \in {"archive", "restore"} => RowAfter(t).state = t.row.state
        /\ t.op = "accept" <=> (RowAfter(t).state = "accepted" /\ t.op \notin {"archive", "restore"})
        /\ t.op = "merge" => RowAfter(t).state = "merged"
        /\ t.op \notin {"archive", "restore", "merge"} => RowAfter(t).state # "merged"
    BY <1>1 DEF RowAfter, Op
  <1> QED  BY <1>6, <1>7, <1>8

\* What a commit writes: only the locked row changes, by its own command.
LEMMA CommitEffect ==
    ASSUME ProposalInv, NEW s \in Session, Commit(s)
    PROVE  /\ tx[s] \in Tx /\ tx[s].proposal \in Proposal /\ tx[s].pc = "updated"
           /\ tx[s].row = proposal[tx[s].proposal] /\ lock[tx[s].proposal] = s
           /\ tx[s].row.version < MaxVersion
           /\ RowAfter(tx[s]) \in Row
           /\ proposal'[tx[s].proposal] = RowAfter(tx[s])
           /\ \A p \in Proposal \ {tx[s].proposal} : proposal'[p] = proposal[p]
           /\ proposal' \in [Proposal -> Row]
  <1>1. /\ tx[s] \in Tx /\ tx[s].proposal \in Proposal /\ tx[s].pc = "updated"
        /\ proposal \in [Proposal -> Row]
    BY DEF ProposalInv, TypeOK, Tx, Commit
  <1>2. /\ tx[s].row = proposal[tx[s].proposal] /\ lock[tx[s].proposal] = s
        /\ tx[s].row.version < MaxVersion
    BY <1>1 DEF ProposalInv, ReadIsCurrent, DecisionStands
  <1>3. RowAfter(tx[s]) \in Row
    BY <1>1, <1>2, RowAfterFacts
  <1>4. proposal' = [proposal EXCEPT ![tx[s].proposal] = RowAfter(tx[s])]
    BY DEF Commit
  <1> QED  BY <1>1, <1>2, <1>3, <1>4

\* The state of a row after the commit of its command: an accept leaves the
\* accepted state, and no other command enters or leaves it.
LEMMA CommitState ==
    ASSUME ProposalInv, NEW s \in Session, Commit(s)
    PROVE  /\ tx[s].op = "accept" => RowAfter(tx[s]).state = "accepted" /\ tx[s].inserted
           /\ tx[s].op # "accept" => ~tx[s].inserted
           /\ tx[s].op # "accept" => (RowAfter(tx[s]).state = "accepted"
                                       <=> tx[s].row.state = "accepted")
           /\ tx[s].row.state \in Decision => RowAfter(tx[s]).state = tx[s].row.state
           /\ RowAfter(tx[s]).state = "merged" /\ tx[s].row.state # "merged"
                => tx[s].op = "merge" /\ ~target.archived
  <1>1. /\ tx[s] \in Tx /\ tx[s].pc = "updated" /\ tx[s].proposal \in Proposal
        /\ tx[s].row.version < MaxVersion
        /\ tx[s].row = proposal[tx[s].proposal]
    BY CommitEffect
  <1>2. tx[s].inserted <=> tx[s].op = "accept"
    BY <1>1 DEF ProposalInv, InsertedByAccept
  <1>3. tx[s].op \in Op /\ tx[s].row \in Row
    BY <1>1 DEF Tx
  <1>4. /\ tx[s].op = "draft" => tx[s].row.version = 0
        /\ tx[s].op = "submit" => tx[s].row.state = "draft"
        /\ tx[s].op \in {"accept", "merge", "reject"} => tx[s].row.state = "awaiting_decision"
        /\ tx[s].op = "merge" => ~target.archived
    BY <1>1 DEF ProposalInv, DecisionStands
  <1>5. tx[s].op = "draft" => tx[s].row.state = "draft"
    BY <1>1, <1>4 DEF ProposalInv, VersionsBounded, NoRow
  <1>6. /\ tx[s].op \in {"archive", "restore"} => RowAfter(tx[s]).state = tx[s].row.state
        /\ tx[s].op = "accept"
             <=> (RowAfter(tx[s]).state = "accepted" /\ tx[s].op \notin {"archive", "restore"})
        /\ tx[s].op \notin {"archive", "restore", "merge"} => RowAfter(tx[s]).state # "merged"
    BY <1>1, RowAfterFacts
  <1>7. tx[s].op \notin {"archive", "restore"} => tx[s].row.state \in {"draft", "awaiting_decision"}
    BY <1>3, <1>4, <1>5 DEF Op
  <1>8. tx[s].row.state \in Decision => RowAfter(tx[s]).state = tx[s].row.state
    BY <1>6, <1>7 DEF Decision
  <1>9. tx[s].op # "accept" => (RowAfter(tx[s]).state = "accepted" <=> tx[s].row.state = "accepted")
    BY <1>6, <1>7
  <1>10. RowAfter(tx[s]).state = "merged" /\ tx[s].row.state # "merged" => tx[s].op = "merge"
    BY <1>6
  <1> QED  BY <1>2, <1>4, <1>6, <1>8, <1>9, <1>10

\* The commit preserves the invariant.
LEMMA CommitPreserves ==
    ASSUME ProposalInv, NEW s \in Session, Commit(s)
    PROVE  ProposalInv'
  <1> DEFINE p == tx[s].proposal
  <1>1. TypeOK /\ Release(s)
    BY DEF ProposalInv, Commit
  <1>2. /\ tx' \in [Session -> Tx]
        /\ tx'[s].pc = "idle" /\ tx'[s].inserted = FALSE /\ tx'[s].version = 0 /\ tx'[s].op = "draft"
        /\ \A r \in Session \ {s} : tx'[r] = tx[r]
        /\ lock' \in [Proposal -> Session \cup {NoSession}]
        /\ \A q \in Proposal : lock[q] # s => lock'[q] = lock[q]
        /\ targetLock' \in Session \cup {NoSession}
        /\ targetLock # s => targetLock' = targetLock
    BY <1>1, ReleaseEffect
  <1>3. /\ tx[s] \in Tx /\ p \in Proposal /\ tx[s].pc = "updated"
        /\ tx[s].row = proposal[p] /\ lock[p] = s
        /\ tx[s].row.version < MaxVersion
        /\ RowAfter(tx[s]) \in Row
        /\ proposal'[p] = RowAfter(tx[s])
        /\ \A q \in Proposal \ {p} : proposal'[q] = proposal[q]
        /\ proposal' \in [Proposal -> Row]
    BY CommitEffect
  <1>4. TypeOK'
    <2>1. tx[s].row.version + 1 \in 1..MaxVersion
      BY <1>3, ProposalAssumption DEF Row, Tx
    <2>2. tx[s].op \in Op /\ tx[s].actor \in Actor
      BY <1>3 DEF Tx
    <2>3. ActivityOf(tx[s]) \subseteq
             [proposal : Proposal, version : 1..MaxVersion, op : Op, actor : Actor]
      BY <1>3, <2>1, <2>2 DEF ActivityOf
    <2>4. event' = event \cup ActivityOf(tx[s])
      BY DEF Commit
    <2>5. event' \subseteq [proposal : Proposal, version : 1..MaxVersion, op : Op, actor : Actor]
      BY <1>1, <2>3, <2>4 DEF TypeOK
    <2>6. ticket' \subseteq Proposal /\ target' = target
      BY <1>1, <1>3 DEF Commit, TypeOK
    <2> QED  BY <1>1, <1>2, <1>3, <2>5, <2>6 DEF TypeOK
  <1>5. ReadIsCurrent'
    <2> SUFFICES ASSUME NEW r \in Session, tx'[r].pc \in Holding
                 PROVE  lock'[tx'[r].proposal] = r /\ tx'[r].row = proposal'[tx'[r].proposal]
      BY DEF ReadIsCurrent
    <2>1. r # s /\ tx'[r] = tx[r] /\ tx[r].proposal \in Proposal
      BY <1>1, <1>2 DEF TypeOK, Tx
    <2>2. lock[tx[r].proposal] = r /\ tx[r].row = proposal[tx[r].proposal]
      BY <2>1 DEF ProposalInv, ReadIsCurrent
    <2>3. tx[r].proposal # p
      BY <1>3, <2>1, <2>2
    <2> QED  BY <1>2, <1>3, <2>1, <2>2, <2>3
  <1>6. DecisionStands'
    BY <1>2 DEF ProposalInv, DecisionStands, Commit
  <1>7. InsertedByAccept'
    BY <1>2 DEF ProposalInv, InsertedByAccept
  <1>8. VersionsBounded'
    <2>1. RowAfter(tx[s]).version # 0
      BY <1>3, RowAfterFacts DEF Tx, Row
    <2> QED  BY <1>2, <1>3, <2>1, ProposalAssumption DEF ProposalInv, VersionsBounded
  <1>9. AcceptedMeansTicket'
    <2>1. /\ tx[s].op = "accept" => RowAfter(tx[s]).state = "accepted" /\ tx[s].inserted
          /\ tx[s].op # "accept" => ~tx[s].inserted
          /\ tx[s].op # "accept" => (RowAfter(tx[s]).state = "accepted"
                                      <=> tx[s].row.state = "accepted")
      BY CommitState
    <2>2. ticket = {q \in Proposal : proposal[q].state = "accepted"}
      BY DEF ProposalInv, AcceptedMeansTicket
    <2>3. CASE tx[s].op = "accept"
      <3>1. ticket' = ticket \cup {p}
        BY <2>1, <2>3 DEF Commit
      <3> QED  BY <1>3, <2>1, <2>2, <2>3, <3>1 DEF AcceptedMeansTicket
    <2>4. CASE tx[s].op # "accept"
      <3>1. ticket' = ticket
        BY <2>1, <2>4 DEF Commit
      <3>2. \A q \in Proposal : proposal'[q].state = "accepted" <=> proposal[q].state = "accepted"
        BY <1>3, <2>1, <2>4
      <3> QED  BY <2>2, <3>1, <3>2 DEF AcceptedMeansTicket
    <2> QED  BY <2>3, <2>4
  <1> QED  BY <1>4, <1>5, <1>6, <1>7, <1>8, <1>9 DEF ProposalInv

\* Archiving or restoring the target needs its row lock, so no merge has decided
\* on it: the invariant is preserved.
LEMMA TogglePreserves ==
    ASSUME ProposalInv, ToggleTarget
    PROVE  ProposalInv'
  <1>1. target' \in [version : 1..MaxVersion, archived : BOOLEAN]
    <2>1. target.version + 1 \in 1..MaxVersion
      BY ProposalAssumption DEF ProposalInv, TypeOK, ToggleTarget
    <2> QED  BY <2>1 DEF ToggleTarget
  <1>2. \A s \in Session : targetLock # s
    BY ProposalAssumption DEF ToggleTarget
  <1>3. DecisionStands'
    BY <1>2 DEF ProposalInv, DecisionStands, ToggleTarget
  <1>4. TypeOK'
    BY <1>1 DEF ProposalInv, TypeOK, ToggleTarget
  <1>5. ReadIsCurrent' /\ InsertedByAccept' /\ VersionsBounded' /\ AcceptedMeansTicket'
    BY DEF ProposalInv, ReadIsCurrent, InsertedByAccept, VersionsBounded, AcceptedMeansTicket,
           ToggleTarget
  <1> QED  BY <1>3, <1>4, <1>5 DEF ProposalInv

\* Every step preserves the invariant.
LEMMA NextPreservesProposalInv == ProposalInv /\ [Next]_vars => ProposalInv'
  <1> SUFFICES ASSUME ProposalInv, [Next]_vars PROVE ProposalInv'
    OBVIOUS
  <1>1. ASSUME NEW s \in Session, NEW op \in Op, NEW p \in Proposal, NEW a \in Actor,
               Send(s, op, p, a)
        PROVE  ProposalInv'
    BY <1>1, SendPreserves
  <1>2. ASSUME NEW s \in Session, Step(s) PROVE ProposalInv'
    <2>1. CASE SelectProposalForUpdate(s)
      BY <2>1, SelectPreserves
    <2>2. CASE Admit(s)
      BY <2>2, AdmitPreserves
    <2>3. CASE Reject(s)
      BY <2>3, EndPreserves DEF Reject
    <2>4. CASE InsertDevTicket(s)
      BY <2>4, InsertPreserves
    <2>5. CASE UpdateProposal(s)
      BY <2>5, UpdatePreserves
    <2>6. CASE Commit(s)
      BY <2>6, CommitPreserves
    <2> QED  BY <1>2, <2>1, <2>2, <2>3, <2>4, <2>5, <2>6 DEF Step
  <1>3. ASSUME NEW s \in Session, Abort(s) PROVE ProposalInv'
    BY <1>3, EndPreserves DEF Abort
  <1>4. CASE ToggleTarget
    BY <1>4, TogglePreserves
  <1>5. CASE UNCHANGED vars
    BY <1>5 DEF vars, ProposalInv, TypeOK, ReadIsCurrent, DecisionStands, InsertedByAccept,
                VersionsBounded, AcceptedMeansTicket
  <1> QED  BY <1>1, <1>2, <1>3, <1>4, <1>5 DEF Next

-----------------------------------------------------------------------------
\* The inductive invariant holds in every reachable state, for any number of
\* sessions and proposals.
THEOREM ProposalInvariant == Spec => []ProposalInv
  BY InitProposalInv, NextPreservesProposalInv, PTL DEF Spec

\* The rows, locks and transactions keep their types, so the lifecycle state of a
\* proposal is always one the database accepts.
THEOREM ProposalTypeCorrect == Spec => []TypeOK
  <1>1. ProposalInv => TypeOK
    BY DEF ProposalInv
  <1> QED  BY <1>1, ProposalInvariant, PTL

\* acceptProposal leaves no orphan ticket and no accepted proposal without its
\* ticket, however the sessions interleave and wherever a connection breaks.
THEOREM AcceptedAlwaysHasTicket == Spec => []AcceptedMeansTicket
  <1>1. ProposalInv => AcceptedMeansTicket
    BY DEF ProposalInv
  <1> QED  BY <1>1, ProposalInvariant, PTL

\* Only a commit changes a proposal.
LEMMA OnlyCommitWrites ==
    ASSUME ProposalInv, [Next]_vars
    PROVE  proposal' = proposal \/ \E s \in Session : Commit(s)
  BY DEF Next, Step, vars, Send, SelectProposalForUpdate, Admit, Reject, InsertDevTicket,
         UpdateProposal, Abort, ToggleTarget

\* No order of the racing accept, merge, reject, archive and restore commands
\* undoes or replaces a decision.
THEOREM DecisionsStayFinal == Spec => DecisionIsFinal
  <1>1. ASSUME ProposalInv, [Next]_vars, NEW p \in Proposal, proposal[p].state \in Decision
        PROVE  proposal'[p].state = proposal[p].state
    <2>1. ASSUME NEW s \in Session, Commit(s) PROVE proposal'[p].state = proposal[p].state
      BY <1>1, <2>1, CommitEffect, CommitState
    <2> QED  BY <1>1, <2>1, OnlyCommitWrites
  <1>2. ProposalInv /\ [Next]_vars =>
          [\A p \in Proposal :
              proposal[p].state \in Decision => proposal'[p].state = proposal[p].state]_vars
    BY <1>1
  <1> QED  BY <1>2, ProposalInvariant, PTL DEF Spec, DecisionIsFinal

\* When mergeProposal commits, the ticket it merges into is active: the target's
\* row lock holds from the check to the commit.
THEOREM MergesHitActiveTickets == Spec => MergedIntoActiveTicket
  <1>1. ASSUME ProposalInv, [Next]_vars, NEW p \in Proposal,
               proposal'[p].state = "merged", proposal[p].state # "merged"
        PROVE  ~target'.archived
    <2>1. PICK s \in Session : Commit(s)
      BY <1>1, OnlyCommitWrites
    <2>2. p = tx[s].proposal
      BY <1>1, <2>1, CommitEffect
    <2>3. ~target.archived
      BY <1>1, <2>1, <2>2, CommitEffect, CommitState
    <2> QED  BY <2>1, <2>3 DEF Commit
  <1>2. ProposalInv /\ [Next]_vars =>
          [\A p \in Proposal :
              proposal'[p].state = "merged" /\ proposal[p].state # "merged"
              => ~target'.archived]_vars
    BY <1>1
  <1> QED  BY <1>2, ProposalInvariant, PTL DEF Spec, MergedIntoActiveTicket

-----------------------------------------------------------------------------
\* What a commit appends to the activity ledger: nothing for a draft, whose row
\* had version 0; else the one event of the version it creates.
LEMMA CommitActivity ==
    ASSUME ProposalInv, NEW s \in Session, Commit(s)
    PROVE  /\ proposal[tx[s].proposal].version \in Nat
           /\ proposal'[tx[s].proposal].version = proposal[tx[s].proposal].version + 1
           /\ tx[s].op = "draft" => /\ event' = event
                                    /\ proposal[tx[s].proposal].version = 0
           /\ tx[s].op # "draft" =>
                /\ proposal[tx[s].proposal].version # 0
                /\ \E e : /\ e.proposal = tx[s].proposal
                          /\ e.version = proposal[tx[s].proposal].version + 1
                          /\ event' = event \cup {e}
  <1>1. /\ tx[s] \in Tx /\ tx[s].pc = "updated" /\ tx[s].row = proposal[tx[s].proposal]
        /\ tx[s].row.version < MaxVersion
        /\ proposal'[tx[s].proposal] = RowAfter(tx[s])
    BY CommitEffect
  <1>2. /\ tx[s].op = "draft" => tx[s].row.version = 0
        /\ tx[s].op # "draft" => tx[s].row.version # 0
    BY <1>1 DEF ProposalInv, DecisionStands
  <1>3. tx[s].row.version \in Nat
    BY <1>1, ProposalAssumption DEF Tx, Row
  <1>4. RowAfter(tx[s]).version = tx[s].row.version + 1
    BY <1>1, RowAfterFacts
  <1>5. tx[s].op = "draft" => event' = event
    BY DEF Commit, ActivityOf
  <1>6. ASSUME tx[s].op # "draft"
        PROVE  \E e : /\ e.proposal = tx[s].proposal /\ e.version = tx[s].row.version + 1
                      /\ event' = event \cup {e}
    <2> DEFINE e == [proposal |-> tx[s].proposal, version |-> tx[s].row.version + 1,
                     op |-> tx[s].op, actor |-> tx[s].actor]
    <2>1. event' = event \cup {e}
      BY <1>6 DEF Commit, ActivityOf
    <2>2. e.proposal = tx[s].proposal /\ e.version = tx[s].row.version + 1
      OBVIOUS
    <2> HIDE DEF e
    <2> QED  BY <2>1, <2>2
  <1> QED  BY <1>1, <1>2, <1>3, <1>4, <1>5, <1>6

\* The ledger as two halves: no event lies outside the versions 2..v of its
\* proposal and each of them has one; no two events share a version.
LEMMA LedgerHalves ==
    ActivityCoversVersions
    <=> \A p \in Proposal :
          /\ \A e \in event : e.proposal = p => e.version \in 2..proposal[p].version
          /\ \A v \in 2..proposal[p].version : \E e \in event : e.proposal = p /\ e.version = v
          /\ \A e, f \in event : e.proposal = f.proposal /\ e.version = f.version => e = f
  BY DEF ActivityCoversVersions

\* The same of the state after a step.
LEMMA LedgerHalvesAfter ==
    ActivityCoversVersions'
    <=> \A p \in Proposal :
          /\ \A e \in event' : e.proposal = p => e.version \in 2..proposal'[p].version
          /\ \A v \in 2..proposal'[p].version : \E e \in event' : e.proposal = p /\ e.version = v
          /\ \A e, f \in event' : e.proposal = f.proposal /\ e.version = f.version => e = f
  BY DEF ActivityCoversVersions

\* A commit extends the versions of its proposal and the ledger by the same one.
LEMMA CommitKeepsLedger ==
    ASSUME ProposalInv, ActivityCoversVersions, NEW s \in Session, Commit(s)
    PROVE  ActivityCoversVersions'
  <1> DEFINE q == tx[s].proposal
             v0 == proposal[q].version
  <1>1. q \in Proposal /\ \A p \in Proposal \ {q} : proposal'[p] = proposal[p]
    BY CommitEffect
  <1>2. v0 \in Nat /\ proposal'[q].version = v0 + 1
    BY CommitActivity
  <1>3. \A p \in Proposal :
          /\ \A e \in event : e.proposal = p => e.version \in 2..proposal[p].version
          /\ \A v \in 2..proposal[p].version : \E e \in event : e.proposal = p /\ e.version = v
          /\ \A e, f \in event : e.proposal = f.proposal /\ e.version = f.version => e = f
    BY LedgerHalves
  <1>4. CASE tx[s].op = "draft"
    <2>1. event' = event /\ v0 = 0
      BY <1>4, CommitActivity
    <2>2. 2..v0 = {} /\ 2..(v0 + 1) = {}
      BY <2>1
    <2>3. \A p \in Proposal : 2..proposal'[p].version = 2..proposal[p].version
      BY <1>1, <1>2, <2>2
    <2> QED  BY <1>3, <2>1, <2>3, LedgerHalvesAfter
  <1>5. CASE tx[s].op # "draft"
    <2>1. v0 # 0
      BY <1>5, CommitActivity
    <2>2. PICK x : x.proposal = q /\ x.version = v0 + 1 /\ event' = event \cup {x}
      BY <1>5, CommitActivity
    <2>3. 2..(v0 + 1) = (2..v0) \cup {v0 + 1}
      BY <1>2, <2>1
    <2>4. \A e \in event : e.proposal = q => e.version # v0 + 1
      BY <1>1, <1>2, <1>3
    <2> HIDE DEF q, v0
    <2>5. ASSUME NEW p \in Proposal, NEW e \in event', e.proposal = p
          PROVE  e.version \in 2..proposal'[p].version
      <3>1. CASE e = x
        BY <1>2, <2>2, <2>3, <2>5, <3>1
      <3>2. CASE e \in event
        <4>1. e.version \in 2..proposal[p].version
          BY <1>3, <2>5, <3>2
        <4>2. p = q => e.version \in 2..v0
          BY <4>1 DEF v0
        <4> QED  BY <1>1, <1>2, <2>3, <4>1, <4>2
      <3> QED  BY <2>2, <2>5, <3>1, <3>2
    <2>6. ASSUME NEW p \in Proposal, NEW v \in 2..proposal'[p].version
          PROVE  \E e \in event' : e.proposal = p /\ e.version = v
      <3>1. CASE p = q /\ v = v0 + 1
        BY <2>2, <3>1
      <3>2. CASE ~(p = q /\ v = v0 + 1)
        <4>1. v \in 2..proposal[p].version
          BY <1>1, <1>2, <2>3, <3>2 DEF v0
        <4> QED  BY <1>3, <2>2, <4>1
      <3> QED  BY <3>1, <3>2
    <2>7. ASSUME NEW e \in event', NEW f \in event',
                 e.proposal = f.proposal, e.version = f.version
          PROVE  e = f
      BY <1>1, <1>3, <2>2, <2>4, <2>7
    <2> QED  BY <2>5, <2>6, <2>7, LedgerHalvesAfter
  <1> QED  BY <1>4, <1>5

\* The activity ledger is complete and has no duplicate: whichever commands race
\* for a proposal, and wherever a connection breaks, each version after the first
\* has exactly one event.
THEOREM LedgerIsComplete == Spec => []ActivityCoversVersions
  <1>1. Init => ActivityCoversVersions
    <2> SUFFICES ASSUME Init PROVE ActivityCoversVersions
      OBVIOUS
    <2>1. event = {} /\ \A p \in Proposal : proposal[p].version = 0
      BY DEF Init, NoRow
    <2> QED  BY <2>1, LedgerHalves
  <1>2. ASSUME ProposalInv, ActivityCoversVersions, [Next]_vars PROVE ActivityCoversVersions'
    <2>1. ASSUME NEW s \in Session, Commit(s) PROVE ActivityCoversVersions'
      BY <1>2, <2>1, CommitKeepsLedger
    <2>2. CASE proposal' = proposal /\ event' = event
      BY <1>2, <2>2 DEF ActivityCoversVersions
    <2>3. (proposal' = proposal /\ event' = event) \/ \E s \in Session : Commit(s)
      BY <1>2 DEF Next, Step, vars, Send, SelectProposalForUpdate, Admit, Reject,
                  InsertDevTicket, UpdateProposal, Abort, ToggleTarget
    <2> QED  BY <2>1, <2>2, <2>3
  <1> QED  BY <1>1, <1>2, ProposalInvariant, PTL DEF Spec

=============================================================================
