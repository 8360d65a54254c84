----------------------- MODULE DevTicketPlanningProofs -----------------------
(***************************************************************************)
(* The theorems about DevTicketPlanning, for every set of tickets, users   *)
(* and classifications.  The inductive invariant is the conjunction of the *)
(* checked invariants; acyclicity is the one that needs an argument.       *)
(***************************************************************************)
EXTENDS DevTicketPlanning, TLAPS

PlanningInv ==
    /\ TypeOK
    /\ NoDependencyCycle
    /\ ArchivedBlocksNothing
    /\ TodoContractCurrent
    /\ TodoApprovedByAuthority

-----------------------------------------------------------------------------
\* The policy floor is one of the four levels, whatever the inputs.
LEMMA RiskType ==
    ASSUME NEW cls \in Classification, NEW deps \in BOOLEAN
    PROVE  EvaluateChangeRisk(cls, deps) \in ChangeRisk
  BY DEF EvaluateChangeRisk, ChangeRisk

\* The updates of the store keep a row a row, as long as the version bound and
\* the inputs allow.
LEMMA UpdatesKeepRow ==
    ASSUME NEW row \in Row, row.version < MaxVersion
    PROVE  /\ Bumped(row) \in Row
           /\ ApplyDependencyChange(row) \in Row
           /\ Archived(row) \in Row
           /\ Restored(row) \in Row
  <1>1. row.version + 1 \in 1..MaxVersion
    BY PlanningAssumption DEF Row
  <1>2. Bumped(row) \in Row
    BY <1>1 DEF Bumped, Row
  <1>3. ApplyDependencyChange(row) \in Row
    BY <1>1 DEF ApplyDependencyChange, Row, Lane
  <1>4. Archived(row) \in Row
    BY <1>1 DEF Archived, Row, Lane
  <1>5. Restored(row) \in Row
    BY <1>1 DEF Restored, Row, Lane
  <1> QED  BY <1>2, <1>3, <1>4, <1>5

\* A classification by an active member keeps a row a row.
LEMMA ClassifiedKeepsRow ==
    ASSUME NEW row \in Row, row.version < MaxVersion,
           NEW owner \in Member, NEW cls \in Classification, NEW deps \in BOOLEAN
    PROVE  Classified(row, owner, cls, deps) \in Row
  <1>1. row.version + 1 \in 1..MaxVersion
    BY PlanningAssumption DEF Row
  <1>2. EvaluateChangeRisk(cls, deps) \in ChangeRisk \cup {NoRisk}
    BY RiskType
  <1>3. [owner |-> owner, cls |-> cls, deps |-> deps] \in Content
    BY DEF Content
  <1>4. row.contract + 1 \in Nat \ {0}
    BY DEF Row
  <1> QED  BY <1>1, <1>2, <1>3, <1>4 DEF Classified, Row

\* An approval keeps a row a row.
LEMMA ApprovedKeepsRow ==
    ASSUME NEW row \in Row, row.version < MaxVersion,
           NEW actor \in User, NEW content \in Content
    PROVE  Approved(row, actor, content) \in Row
  <1>1. row.version + 1 \in 1..MaxVersion
    BY PlanningAssumption DEF Row
  <1>2. row.contract + 1 \in Nat \ {0} /\ row.contract + 1 \in Nat
    BY DEF Row
  <1> QED  BY <1>1, <1>2 DEF Approved, Row, Lane

-----------------------------------------------------------------------------
\* Fewer edges close no cycle.
LEMMA RemoveKeepsAcyclic ==
    ASSUME NoDependencyCycle, edge' \subseteq edge
    PROVE  NoDependencyCycle'
  <1> SUFFICES ASSUME NEW S \in SUBSET Ticket,
                      \A t \in S : {b \in Ticket : <<t, b>> \in edge'} \cap S # {}
               PROVE  S = {}
    BY DEF NoDependencyCycle, Blockers
  <1>1. \A t \in S : {b \in Ticket : <<t, b>> \in edge} \cap S # {}
    OBVIOUS
  <1> QED  BY <1>1 DEF NoDependencyCycle, Blockers

\* An edge that the query lets through closes no cycle.  The query gives a set
\* of tickets that holds the blocker, is closed under edges and misses the
\* dependent.  Take a set in which everyone is blocked by a member.  If it holds
\* the blocker, its part inside the closed set has the same property without the
\* new edge; if it does not, the new edge plays no role in it.
LEMMA AddKeepsAcyclic ==
    ASSUME TypeOK, NoDependencyCycle,
           NEW dependent \in Ticket, NEW blocker \in Ticket,
           ~DependencyCreatesCycle(dependent, blocker),
           edge' = edge \cup {<<dependent, blocker>>}
    PROVE  NoDependencyCycle'
  <1>1. PICK C \in SUBSET Ticket :
            blocker \in C /\ ClosedUnderBlockers(C) /\ dependent \notin C
    BY DEF DependencyCreatesCycle
  <1> SUFFICES ASSUME NEW S \in SUBSET Ticket,
                      \A t \in S : {b \in Ticket : <<t, b>> \in edge'} \cap S # {}
               PROVE  S = {}
    BY DEF NoDependencyCycle, Blockers
  <1>2. \A t \in S : \E b \in S : <<t, b>> \in edge \/ (t = dependent /\ b = blocker)
    OBVIOUS
  <1>3. CASE blocker \in S
    <2>1. \A t \in S \cap C : \E b \in S \cap C : <<t, b>> \in edge
      <3> SUFFICES ASSUME NEW t \in S \cap C
                   PROVE  \E b \in S \cap C : <<t, b>> \in edge
        OBVIOUS
      <3>1. PICK b \in S : <<t, b>> \in edge \/ (t = dependent /\ b = blocker)
        BY <1>2
      <3>2. <<t, b>> \in edge
        BY <3>1, <1>1
      <3>3. b \in C
        BY <3>2, <1>1 DEF ClosedUnderBlockers
      <3> QED  BY <3>2, <3>3
    <2>2. \A t \in S \cap C : {b \in Ticket : <<t, b>> \in edge} \cap (S \cap C) # {}
      BY <2>1
    <2>3. S \cap C \in SUBSET Ticket
      OBVIOUS
    <2>4. S \cap C = {}
      BY <2>2, <2>3 DEF NoDependencyCycle, Blockers
    <2> QED  BY <2>4, <1>3, <1>1
  <1>4. CASE blocker \notin S
    <2>1. \A t \in S : {b \in Ticket : <<t, b>> \in edge} \cap S # {}
      BY <1>2, <1>4
    <2> QED  BY <2>1 DEF NoDependencyCycle, Blockers
  <1> QED  BY <1>3, <1>4

-----------------------------------------------------------------------------
\* What the invariant says of one ticket, given whether it is queued and whether
\* it has active dependencies.
RowOk(row, inQueue, deps) ==
    /\ (row.lane = "todo") = (row.ready = "approved")
    /\ (row.lane = "todo") = inQueue
    /\ (row.lane = "todo") = (row.approvedContract # 0)
    /\ row.lane = "todo" =>
         /\ ~row.archived
         /\ row.cls # NoClassification
         /\ row.approvedContract = row.contract
         /\ row.content = [owner |-> row.owner, cls |-> row.cls, deps |-> deps]
         /\ row.minimum = EvaluateChangeRisk(row.cls, deps)
         /\ row.cls.declared >= EvaluateChangeRisk(row.cls, deps)
         /\ row.approvedBy \in {row.owner} \cup Admin

\* The two invariants about Todo are RowOk of every ticket.
LEMMA TodoIsRowOk ==
    (TodoContractCurrent /\ TodoApprovedByAuthority) <=>
        \A t \in Ticket : RowOk(ticket[t], t \in queued, HasActiveDependencies(t))
  BY DEF TodoContractCurrent, TodoApprovedByAuthority, RowOk, CurrentMinimum

\* The same after a step.
LEMMA TodoIsRowOkNext ==
    (TodoContractCurrent /\ TodoApprovedByAuthority)' <=>
        \A t \in Ticket : RowOk(ticket'[t], t \in queued', HasActiveDependencies(t)')
  BY DEF TodoContractCurrent, TodoApprovedByAuthority, RowOk, CurrentMinimum,
         HasActiveDependencies, Blockers


\* A command replaces the row of one ticket: the other tickets keep their row,
\* their place in the queue and their blockers, so only the row it writes has
\* to be examined.
LEMMA OneRowStep ==
    ASSUME PlanningInv,
           NEW t \in Ticket, NEW row \in Row,
           ticket' = [ticket EXCEPT ![t] = row],
           \A u \in Ticket \ {t} : (u \in queued') = (u \in queued),
           \A u \in Ticket \ {t} : HasActiveDependencies(u)' = HasActiveDependencies(u),
           RowOk(row, t \in queued', HasActiveDependencies(t)')
    PROVE  /\ ticket' \in [Ticket -> Row]
           /\ (TodoContractCurrent /\ TodoApprovedByAuthority)'
  <1>1. ticket \in [Ticket -> Row]
    BY DEF PlanningInv, TypeOK
  <1>2. ticket' \in [Ticket -> Row]
    BY <1>1
  <1>3. \A u \in Ticket : RowOk(ticket[u], u \in queued, HasActiveDependencies(u))
    BY TodoIsRowOk DEF PlanningInv
  <1>4. ASSUME NEW u \in Ticket
        PROVE  RowOk(ticket'[u], u \in queued', HasActiveDependencies(u)')
    <2>1. CASE u = t
      <3>1. ticket'[u] = row
        BY <2>1, <1>1
      <3> QED  BY <3>1, <2>1
    <2>2. CASE u # t
      <3>1. ticket'[u] = ticket[u]
        BY <2>2, <1>1
      <3>2. (u \in queued') = (u \in queued)
        BY <2>2
      <3>3. HasActiveDependencies(u)' = HasActiveDependencies(u)
        BY <2>2
      <3>4. RowOk(ticket[u], u \in queued, HasActiveDependencies(u))
        BY <1>3
      <3> QED  BY <3>1, <3>2, <3>3, <3>4
    <2> QED  BY <2>1, <2>2
  <1> QED  BY <1>2, <1>4, TodoIsRowOkNext

\* A Backlog draft that is not queued satisfies RowOk under any dependencies.
LEMMA DraftIsRowOk ==
    ASSUME NEW row, row.lane = "backlog", row.ready = "draft", row.approvedContract = 0,
           NEW inQueue, inQueue = FALSE, NEW deps
    PROVE  RowOk(row, inQueue, deps)
  BY DEF RowOk

\* The archive flag of the blockers decides ArchivedBlocksNothing: it survives a
\* step that archives none of them and adds no edge to an archived one.
LEMMA ArchivedStep ==
    ASSUME PlanningInv,
           NEW t \in Ticket, NEW row \in Row,
           ticket' = [ticket EXCEPT ![t] = row],
           edge' \subseteq edge,
           row.archived => (ticket[t].archived \/ ~HasActiveDependents(t))
    PROVE  ArchivedBlocksNothing'
  <1>1. ticket \in [Ticket -> Row] /\ edge \subseteq Ticket \X Ticket
    BY DEF PlanningInv, TypeOK
  <1> SUFFICES ASSUME NEW p \in edge', ticket'[p[2]].archived
               PROVE  FALSE
    BY DEF ArchivedBlocksNothing
  <1>2. p \in edge /\ p[1] \in Ticket /\ p[2] \in Ticket /\ p = <<p[1], p[2]>>
    BY <1>1
  <1>3. ~ticket[p[2]].archived
    BY <1>2 DEF PlanningInv, ArchivedBlocksNothing
  <1>4. p[2] = t
    BY <1>1, <1>2, <1>3
  <1>5. row.archived
    BY <1>1, <1>4
  <1>6. ~HasActiveDependents(t)
    BY <1>3, <1>4, <1>5
  <1> QED  BY <1>2, <1>4, <1>6 DEF HasActiveDependents

-----------------------------------------------------------------------------
\* setDevTicketClassification preserves the invariant: it touches Backlog only.
LEMMA ClassificationPreserves ==
    ASSUME PlanningInv, NEW t \in Ticket, NEW owner \in User, NEW cls \in Classification,
           SetDevTicketClassification(t, owner, cls)
    PROVE  PlanningInv'
  <1> DEFINE row == Classified(ticket[t], owner, cls, HasActiveDependencies(t))
  <1>1. ticket[t] \in Row /\ ticket[t].owner \in Member
    BY DEF PlanningInv, TypeOK, Row
  <1>2. owner \in Member
    BY <1>1 DEF SetDevTicketClassification, MaySetClassification
  <1>3. HasActiveDependencies(t) \in BOOLEAN
    BY DEF HasActiveDependencies
  <1>4. row \in Row
    BY <1>1, <1>2, <1>3, ClassifiedKeepsRow DEF SetDevTicketClassification
  <1>5. /\ ticket[t].lane = "backlog" /\ ticket' = [ticket EXCEPT ![t] = row]
        /\ edge' = edge /\ queued' = queued
    BY DEF SetDevTicketClassification, MaySetClassification
  <1>6. \A u \in Ticket : HasActiveDependencies(u)' = HasActiveDependencies(u)
    BY <1>5 DEF HasActiveDependencies, Blockers
  <1>7. RowOk(ticket[t], t \in queued, HasActiveDependencies(t))
    BY TodoIsRowOk DEF PlanningInv
  <1>8. /\ row.lane = ticket[t].lane /\ row.ready = ticket[t].ready
        /\ row.approvedContract = ticket[t].approvedContract
        /\ row.archived = ticket[t].archived
    BY <1>1 DEF Classified, Row
  <1>9. RowOk(row, t \in queued', HasActiveDependencies(t)')
    BY <1>5, <1>7, <1>8 DEF RowOk
  <1> HIDE DEF row
  <1>10. ticket' \in [Ticket -> Row] /\ (TodoContractCurrent /\ TodoApprovedByAuthority)'
    BY <1>4, <1>5, <1>6, <1>9, OneRowStep
  <1>11. ArchivedBlocksNothing'
    BY <1>4, <1>5, <1>8, ArchivedStep
  <1>12. NoDependencyCycle'
    BY <1>5, RemoveKeepsAcyclic DEF PlanningInv
  <1> QED  BY <1>5, <1>10, <1>11, <1>12 DEF PlanningInv, TypeOK

\* approveReadyToTodo preserves the invariant: what it checks is what Todo promises.
LEMMA ApprovePreserves ==
    ASSUME PlanningInv, NEW t \in Ticket, NEW actor \in User, NEW content \in Content,
           ApproveReadyToTodo(t, actor, content)
    PROVE  PlanningInv'
  <1> DEFINE row == Approved(ticket[t], actor, content)
  <1>1. ticket[t] \in Row
    BY DEF PlanningInv, TypeOK
  <1>2. row \in Row
    BY <1>1, ApprovedKeepsRow DEF ApproveReadyToTodo
  <1>3. /\ ticket' = [ticket EXCEPT ![t] = row]
        /\ edge' = edge /\ queued' = queued \cup {t}
        /\ MayApprove(t, actor, content)
    BY DEF ApproveReadyToTodo
  <1>4. \A u \in Ticket : HasActiveDependencies(u)' = HasActiveDependencies(u)
    BY <1>3 DEF HasActiveDependencies, Blockers
  <1>5. /\ row.lane = "todo" /\ row.ready = "approved"
        /\ row.approvedContract = ticket[t].contract + 1
        /\ row.contract = ticket[t].contract + 1
        /\ row.archived = ticket[t].archived
        /\ row.owner = ticket[t].owner /\ row.cls = ticket[t].cls
        /\ row.minimum = ticket[t].minimum /\ row.content = content
        /\ row.approvedBy = actor
    BY <1>1 DEF Approved, Row
  <1>6. ticket[t].contract + 1 # 0
    BY <1>1 DEF Row
  <1>7. content = [owner |-> content.owner, cls |-> content.cls, deps |-> content.deps]
    BY DEF Content
  <1> HIDE DEF row
  <1>8. RowOk(row, TRUE, HasActiveDependencies(t))
    BY <1>3, <1>5, <1>6, <1>7 DEF RowOk, MayApprove, CurrentMinimum, Authorized
  <1>9. RowOk(row, t \in queued', HasActiveDependencies(t)')
    BY <1>3, <1>4, <1>8 DEF RowOk
  <1>10. ticket' \in [Ticket -> Row] /\ (TodoContractCurrent /\ TodoApprovedByAuthority)'
    <2>1. \A u \in Ticket \ {t} : (u \in queued') = (u \in queued)
      BY <1>3
    <2> QED  BY <1>2, <1>3, <1>4, <1>9, <2>1, OneRowStep
  <1>11. ArchivedBlocksNothing'
    BY <1>2, <1>3, <1>5, ArchivedStep
  <1>12. NoDependencyCycle'
    BY <1>3, RemoveKeepsAcyclic DEF PlanningInv
  <1>13. queued' \subseteq Ticket
    BY <1>3 DEF PlanningInv, TypeOK
  <1> QED  BY <1>3, <1>10, <1>11, <1>12, <1>13 DEF PlanningInv, TypeOK

\* reorderTodo changes a version number and nothing the invariant reads.
LEMMA ReorderPreserves ==
    ASSUME PlanningInv, NEW t \in Ticket, ReorderTodo(t)
    PROVE  PlanningInv'
  <1> DEFINE row == Bumped(ticket[t])
  <1>1. ticket[t] \in Row
    BY DEF PlanningInv, TypeOK
  <1>2. row \in Row
    BY <1>1, UpdatesKeepRow DEF ReorderTodo
  <1>3. /\ ticket' = [ticket EXCEPT ![t] = row]
        /\ edge' = edge /\ queued' = queued
    BY DEF ReorderTodo
  <1>4. \A u \in Ticket : HasActiveDependencies(u)' = HasActiveDependencies(u)
    BY <1>3 DEF HasActiveDependencies, Blockers
  <1>5. /\ row.lane = ticket[t].lane /\ row.ready = ticket[t].ready
        /\ row.approvedContract = ticket[t].approvedContract
        /\ row.contract = ticket[t].contract
        /\ row.archived = ticket[t].archived
        /\ row.owner = ticket[t].owner /\ row.cls = ticket[t].cls
        /\ row.minimum = ticket[t].minimum /\ row.content = ticket[t].content
        /\ row.approvedBy = ticket[t].approvedBy
    BY <1>1 DEF Bumped, Row
  <1>6. RowOk(ticket[t], t \in queued, HasActiveDependencies(t))
    BY TodoIsRowOk DEF PlanningInv
  <1> HIDE DEF row
  <1>7. RowOk(row, t \in queued', HasActiveDependencies(t)')
    BY <1>3, <1>4, <1>5, <1>6 DEF RowOk
  <1>8. ticket' \in [Ticket -> Row] /\ (TodoContractCurrent /\ TodoApprovedByAuthority)'
    BY <1>2, <1>3, <1>4, <1>7, OneRowStep
  <1>9. ArchivedBlocksNothing'
    BY <1>2, <1>3, <1>5, ArchivedStep
  <1>10. NoDependencyCycle'
    BY <1>3, RemoveKeepsAcyclic DEF PlanningInv
  <1> QED  BY <1>3, <1>8, <1>9, <1>10 DEF PlanningInv, TypeOK

\* The part addDependency and removeDependency share: whatever happens to the
\* edges of the dependent, it ends as a draft outside the queue or as the draft
\* it was, and every other ticket keeps its blockers.
LEMMA DependencyChangePreserves ==
    ASSUME PlanningInv, NEW t \in Ticket, ticket[t].version < MaxVersion,
           ticket' = [ticket EXCEPT ![t] = ApplyDependencyChange(ticket[t])],
           queued' = queued \ {t},
           \A u \in Ticket \ {t} : HasActiveDependencies(u)' = HasActiveDependencies(u)
    PROVE  /\ ticket' \in [Ticket -> Row]
           /\ (TodoContractCurrent /\ TodoApprovedByAuthority)'
           /\ ApplyDependencyChange(ticket[t]) \in Row
           /\ ApplyDependencyChange(ticket[t]).archived = ticket[t].archived
  <1> DEFINE row == ApplyDependencyChange(ticket[t])
  <1>1. ticket[t] \in Row
    BY DEF PlanningInv, TypeOK
  <1>2. row \in Row
    BY <1>1, UpdatesKeepRow
  <1>3. RowOk(ticket[t], t \in queued, HasActiveDependencies(t))
    BY TodoIsRowOk DEF PlanningInv
  <1>4. ticket[t].lane \in {"backlog", "todo"} /\ ticket[t].ready \in {"draft", "approved"}
    BY <1>1 DEF Row, Lane
  <1>5. /\ row.lane = "backlog" /\ row.ready = "draft" /\ row.approvedContract = 0
        /\ row.archived = ticket[t].archived
    <2>1. CASE ticket[t].lane = "todo"
      BY <1>1, <2>1 DEF ApplyDependencyChange, Row
    <2>2. CASE ticket[t].lane # "todo"
      <3>1. /\ ticket[t].lane = "backlog" /\ ticket[t].ready = "draft"
            /\ ticket[t].approvedContract = 0
        BY <1>3, <1>4, <2>2 DEF RowOk
      <3> QED  BY <1>1, <2>2, <3>1 DEF ApplyDependencyChange, Row
    <2> QED  BY <2>1, <2>2
  <1> HIDE DEF row
  <1>6. RowOk(row, t \in queued', HasActiveDependencies(t)')
    <2>1. (t \in queued') = FALSE
      OBVIOUS
    <2> QED  BY <1>5, <2>1, DraftIsRowOk
  <1>7. \A u \in Ticket \ {t} : (u \in queued') = (u \in queued)
    OBVIOUS
  <1>8. ticket' = [ticket EXCEPT ![t] = row]
    BY DEF row
  <1>9. ticket' \in [Ticket -> Row] /\ (TodoContractCurrent /\ TodoApprovedByAuthority)'
    BY <1>2, <1>6, <1>7, <1>8, OneRowStep
  <1> QED  BY <1>2, <1>5, <1>9 DEF row

\* addDependency preserves the invariant.
LEMMA AddDependencyPreserves ==
    ASSUME PlanningInv, NEW dependent \in Ticket, NEW blocker \in Ticket,
           AddDependency(dependent, blocker)
    PROVE  PlanningInv'
  <1>1. /\ ticket[dependent].version < MaxVersion
        /\ ticket' = [ticket EXCEPT ![dependent] = ApplyDependencyChange(ticket[dependent])]
        /\ queued' = queued \ {dependent}
        /\ edge' = edge \cup {<<dependent, blocker>>}
        /\ ~DependencyCreatesCycle(dependent, blocker)
        /\ ~ticket[dependent].archived /\ ~ticket[blocker].archived
    BY DEF AddDependency, DependencyEndpointOk
  <1>2. \A u \in Ticket \ {dependent} : HasActiveDependencies(u)' = HasActiveDependencies(u)
    <2> SUFFICES ASSUME NEW u \in Ticket \ {dependent}
                 PROVE  Blockers(u)' = Blockers(u)
      BY DEF HasActiveDependencies
    <2>1. \A b \in Ticket : <<u, b>> \in edge' <=> <<u, b>> \in edge
      BY <1>1
    <2> QED  BY <2>1 DEF Blockers
  <1>3. /\ ticket' \in [Ticket -> Row]
        /\ (TodoContractCurrent /\ TodoApprovedByAuthority)'
        /\ ApplyDependencyChange(ticket[dependent]) \in Row
        /\ ApplyDependencyChange(ticket[dependent]).archived = ticket[dependent].archived
    BY <1>1, <1>2, DependencyChangePreserves
  <1>4. NoDependencyCycle'
    BY <1>1, AddKeepsAcyclic DEF PlanningInv
  <1>5. ticket \in [Ticket -> Row] /\ edge \subseteq Ticket \X Ticket /\ queued \subseteq Ticket
    BY DEF PlanningInv, TypeOK
  <1>6. ArchivedBlocksNothing'
    <2> SUFFICES ASSUME NEW p \in edge'
                 PROVE  ~ticket'[p[2]].archived
      BY DEF ArchivedBlocksNothing
    <2>1. p \in edge \/ p = <<dependent, blocker>>
      BY <1>1
    <2>2. p[2] \in Ticket
      BY <2>1, <1>5
    <2>3. ~ticket[p[2]].archived
      BY <2>1, <1>1 DEF PlanningInv, ArchivedBlocksNothing
    <2>4. CASE p[2] = dependent
      BY <2>3, <2>4, <1>1, <1>3, <1>5
    <2>5. CASE p[2] # dependent
      BY <2>2, <2>3, <2>5, <1>1, <1>5
    <2> QED  BY <2>4, <2>5
  <1>7. edge' \subseteq Ticket \X Ticket /\ queued' \subseteq Ticket
    BY <1>1, <1>5
  <1> QED  BY <1>3, <1>4, <1>6, <1>7 DEF PlanningInv, TypeOK

\* removeDependency preserves the invariant.
LEMMA RemoveDependencyPreserves ==
    ASSUME PlanningInv, NEW dependent \in Ticket, NEW blocker \in Ticket,
           RemoveDependency(dependent, blocker)
    PROVE  PlanningInv'
  <1>1. /\ ticket[dependent].version < MaxVersion
        /\ ticket' = [ticket EXCEPT ![dependent] = ApplyDependencyChange(ticket[dependent])]
        /\ queued' = queued \ {dependent}
        /\ edge' = edge \ {<<dependent, blocker>>}
    BY DEF RemoveDependency
  <1>2. \A u \in Ticket \ {dependent} : HasActiveDependencies(u)' = HasActiveDependencies(u)
    <2> SUFFICES ASSUME NEW u \in Ticket \ {dependent}
                 PROVE  Blockers(u)' = Blockers(u)
      BY DEF HasActiveDependencies
    <2>1. \A b \in Ticket : <<u, b>> \in edge' <=> <<u, b>> \in edge
      BY <1>1
    <2> QED  BY <2>1 DEF Blockers
  <1>3. /\ ticket' \in [Ticket -> Row]
        /\ (TodoContractCurrent /\ TodoApprovedByAuthority)'
        /\ ApplyDependencyChange(ticket[dependent]) \in Row
        /\ ApplyDependencyChange(ticket[dependent]).archived = ticket[dependent].archived
    BY <1>1, <1>2, DependencyChangePreserves
  <1>4. edge' \subseteq edge
    BY <1>1
  <1>5. NoDependencyCycle'
    BY <1>4, RemoveKeepsAcyclic DEF PlanningInv
  <1>6. ArchivedBlocksNothing'
    BY <1>1, <1>3, <1>4, ArchivedStep
  <1>7. edge' \subseteq Ticket \X Ticket /\ queued' \subseteq Ticket
    BY <1>1 DEF PlanningInv, TypeOK
  <1> QED  BY <1>3, <1>5, <1>6, <1>7 DEF PlanningInv, TypeOK

\* archiveDevTicket preserves the invariant: it refuses a ticket with dependents.
LEMMA ArchivePreserves ==
    ASSUME PlanningInv, NEW t \in Ticket, NEW actor \in User, ArchiveDevTicket(t, actor)
    PROVE  PlanningInv'
  <1> DEFINE row == Archived(ticket[t])
  <1>1. ticket[t] \in Row
    BY DEF PlanningInv, TypeOK
  <1>2. row \in Row
    BY <1>1, UpdatesKeepRow DEF ArchiveDevTicket
  <1>3. /\ ticket' = [ticket EXCEPT ![t] = row]
        /\ edge' = edge /\ queued' = queued \ {t}
        /\ ~HasActiveDependents(t)
    BY DEF ArchiveDevTicket
  <1>4. \A u \in Ticket : HasActiveDependencies(u)' = HasActiveDependencies(u)
    BY <1>3 DEF HasActiveDependencies, Blockers
  <1>5. row.lane = "backlog" /\ row.ready = "draft" /\ row.approvedContract = 0
    BY <1>1 DEF Archived, Row
  <1> HIDE DEF row
  <1>6. (t \in queued') = FALSE /\ \A u \in Ticket \ {t} : (u \in queued') = (u \in queued)
    BY <1>3
  <1>7. RowOk(row, t \in queued', HasActiveDependencies(t)')
    BY <1>5, <1>6, DraftIsRowOk
  <1>8. ticket' \in [Ticket -> Row] /\ (TodoContractCurrent /\ TodoApprovedByAuthority)'
    BY <1>2, <1>3, <1>4, <1>6, <1>7, OneRowStep
  <1>9. ArchivedBlocksNothing'
    BY <1>2, <1>3, ArchivedStep
  <1>10. NoDependencyCycle'
    BY <1>3, RemoveKeepsAcyclic DEF PlanningInv
  <1>11. edge' \subseteq Ticket \X Ticket /\ queued' \subseteq Ticket
    BY <1>3 DEF PlanningInv, TypeOK
  <1> QED  BY <1>8, <1>9, <1>10, <1>11 DEF PlanningInv, TypeOK

\* restoreDevTicket preserves the invariant: an archived ticket is not queued.
LEMMA RestorePreserves ==
    ASSUME PlanningInv, NEW t \in Ticket, NEW actor \in User, RestoreDevTicket(t, actor)
    PROVE  PlanningInv'
  <1> DEFINE row == Restored(ticket[t])
  <1>1. ticket[t] \in Row
    BY DEF PlanningInv, TypeOK
  <1>2. row \in Row
    BY <1>1, UpdatesKeepRow DEF RestoreDevTicket
  <1>3. /\ ticket' = [ticket EXCEPT ![t] = row]
        /\ edge' = edge /\ queued' = queued
        /\ ticket[t].archived
    BY DEF RestoreDevTicket
  <1>4. \A u \in Ticket : HasActiveDependencies(u)' = HasActiveDependencies(u)
    BY <1>3 DEF HasActiveDependencies, Blockers
  <1>5. /\ row.lane = "backlog" /\ row.ready = "draft" /\ row.approvedContract = 0
        /\ row.archived = FALSE
    BY <1>1 DEF Restored, Row
  <1> HIDE DEF row
  <1>6. RowOk(ticket[t], t \in queued, HasActiveDependencies(t))
    BY TodoIsRowOk DEF PlanningInv
  <1>7. (t \in queued') = FALSE
    BY <1>3, <1>6 DEF RowOk
  <1>8. RowOk(row, t \in queued', HasActiveDependencies(t)')
    BY <1>5, <1>7, DraftIsRowOk
  <1>9. ticket' \in [Ticket -> Row] /\ (TodoContractCurrent /\ TodoApprovedByAuthority)'
    BY <1>2, <1>3, <1>4, <1>8, OneRowStep
  <1>10. ArchivedBlocksNothing'
    BY <1>2, <1>3, <1>5, ArchivedStep
  <1>11. NoDependencyCycle'
    BY <1>3, RemoveKeepsAcyclic DEF PlanningInv
  <1> QED  BY <1>3, <1>9, <1>10, <1>11 DEF PlanningInv, TypeOK

-----------------------------------------------------------------------------
\* The rows insertDevTicket creates satisfy the invariant.
LEMMA InitPlanningInv == Init => PlanningInv
  <1> SUFFICES ASSUME Init PROVE PlanningInv
    OBVIOUS
  <1>1. ASSUME NEW owner \in Member
        PROVE  /\ NewRow(owner) \in Row
               /\ NewRow(owner).lane = "backlog" /\ NewRow(owner).ready = "draft"
               /\ NewRow(owner).approvedContract = 0
    <2>1. [owner |-> owner, cls |-> NoClassification, deps |-> FALSE] \in Content
      BY DEF Content
    <2>2. 1 \in 1..MaxVersion /\ owner \in User
      BY PlanningAssumption
    <2> QED  BY <2>1, <2>2 DEF NewRow, Row, Lane
  <1>2. ticket \in [Ticket -> {NewRow(owner) : owner \in Member}]
    BY DEF Init
  <1>3. \A t \in Ticket : /\ ticket[t] \in Row
                          /\ ticket[t].lane = "backlog" /\ ticket[t].ready = "draft"
                          /\ ticket[t].approvedContract = 0
    <2> SUFFICES ASSUME NEW t \in Ticket
                 PROVE  /\ ticket[t] \in Row
                        /\ ticket[t].lane = "backlog" /\ ticket[t].ready = "draft"
                        /\ ticket[t].approvedContract = 0
      OBVIOUS
    <2>1. PICK owner \in Member : ticket[t] = NewRow(owner)
      BY <1>2
    <2> QED  BY <2>1, <1>1
  <1>4. TypeOK
    <2>1. ticket \in [Ticket -> Row]
      BY <1>2, <1>3
    <2> QED  BY <2>1 DEF TypeOK, Init
  <1>5. edge = {} /\ queued = {}
    BY DEF Init
  <1>6. NoDependencyCycle
    <2>1. \A t \in Ticket : Blockers(t) = {}
      BY <1>5 DEF Blockers
    <2> QED  BY <2>1 DEF NoDependencyCycle
  <1>7. ArchivedBlocksNothing
    BY <1>5 DEF ArchivedBlocksNothing
  <1>8. ASSUME NEW t \in Ticket
        PROVE  RowOk(ticket[t], t \in queued, HasActiveDependencies(t))
    <2>1. (t \in queued) = FALSE
      BY <1>5
    <2> QED  BY <1>3, <2>1, DraftIsRowOk
  <1>9. TodoContractCurrent /\ TodoApprovedByAuthority
    BY <1>8, TodoIsRowOk
  <1> QED  BY <1>4, <1>6, <1>7, <1>9 DEF PlanningInv

\* Every command preserves the invariant.
LEMMA NextPreservesPlanning == PlanningInv /\ [Next]_vars => PlanningInv'
  <1> SUFFICES ASSUME PlanningInv, [Next]_vars PROVE PlanningInv'
    OBVIOUS
  <1>1. CASE UNCHANGED vars
    <2>1. ticket' = ticket /\ edge' = edge /\ queued' = queued
      BY <1>1 DEF vars
    <2>2. \A t \in Ticket : HasActiveDependencies(t)' = HasActiveDependencies(t)
      BY <2>1 DEF HasActiveDependencies, Blockers
    <2>3. TypeOK' /\ ArchivedBlocksNothing'
      BY <2>1 DEF PlanningInv, TypeOK, ArchivedBlocksNothing
    <2>4. NoDependencyCycle'
      BY <2>1, RemoveKeepsAcyclic DEF PlanningInv
    <2>5. \A t \in Ticket : RowOk(ticket'[t], t \in queued', HasActiveDependencies(t)')
      BY <2>1, <2>2, TodoIsRowOk DEF PlanningInv
    <2>6. (TodoContractCurrent /\ TodoApprovedByAuthority)'
      BY <2>5, TodoIsRowOkNext
    <2> QED  BY <2>3, <2>4, <2>6 DEF PlanningInv
  <1>2. ASSUME NEW t \in Ticket, NEW owner \in User, NEW cls \in Classification,
               SetDevTicketClassification(t, owner, cls)
        PROVE  PlanningInv'
    BY <1>2, ClassificationPreserves
  <1>3. ASSUME NEW t \in Ticket, NEW actor \in User, NEW content \in Content,
               ApproveReadyToTodo(t, actor, content)
        PROVE  PlanningInv'
    BY <1>3, ApprovePreserves
  <1>4. ASSUME NEW t \in Ticket, ReorderTodo(t)
        PROVE  PlanningInv'
    BY <1>4, ReorderPreserves
  <1>5. ASSUME NEW dependent \in Ticket, NEW blocker \in Ticket,
               AddDependency(dependent, blocker)
        PROVE  PlanningInv'
    BY <1>5, AddDependencyPreserves
  <1>6. ASSUME NEW dependent \in Ticket, NEW blocker \in Ticket,
               RemoveDependency(dependent, blocker)
        PROVE  PlanningInv'
    BY <1>6, RemoveDependencyPreserves
  <1>7. ASSUME NEW t \in Ticket, NEW actor \in User, ArchiveDevTicket(t, actor)
        PROVE  PlanningInv'
    BY <1>7, ArchivePreserves
  <1>8. ASSUME NEW t \in Ticket, NEW actor \in User, RestoreDevTicket(t, actor)
        PROVE  PlanningInv'
    BY <1>8, RestorePreserves
  <1> QED  BY <1>1, <1>2, <1>3, <1>4, <1>5, <1>6, <1>7, <1>8 DEF Next

\* The inductive invariant of the planning commands.
THEOREM PlanningInvariant == Spec => []PlanningInv
  BY InitPlanningInv, NextPreservesPlanning, PTL DEF Spec

\* Rows, edges and queue always have the type the code and the schema give them.
THEOREM PlanningTypeCorrect == Spec => []TypeOK
  <1>1. PlanningInv => TypeOK
    BY DEF PlanningInv
  <1> QED  BY <1>1, PlanningInvariant, PTL

\* The dependency graph of any number of tickets is always acyclic.
THEOREM GraphStaysAcyclic == Spec => []NoDependencyCycle
  <1>1. PlanningInv => NoDependencyCycle
    BY DEF PlanningInv
  <1> QED  BY <1>1, PlanningInvariant, PTL

\* An archived ticket never blocks another one.
THEOREM ArchivedNeverBlocks == Spec => []ArchivedBlocksNothing
  <1>1. PlanningInv => ArchivedBlocksNothing
    BY DEF PlanningInv
  <1> QED  BY <1>1, PlanningInvariant, PTL

\* Whatever is in Todo is approved under the contract, the classification, the
\* dependencies and the policy floor it has now.
THEOREM TodoStaysCurrent == Spec => []TodoContractCurrent
  <1>1. PlanningInv => TodoContractCurrent
    BY DEF PlanningInv
  <1> QED  BY <1>1, PlanningInvariant, PTL

\* Whatever is in Todo was approved by its present owner or by an admin.
THEOREM TodoStaysAuthorized == Spec => []TodoApprovedByAuthority
  <1>1. PlanningInv => TodoApprovedByAuthority
    BY DEF PlanningInv
  <1> QED  BY <1>1, PlanningInvariant, PTL

\* No classified ticket is stuck between classification and approval.
THEOREM NeverStuckBeforeTodo == Spec => []Reapprovable
  <1>1. PlanningInv => Reapprovable
    <2> SUFFICES ASSUME PlanningInv, NEW t \in Ticket,
                        ticket[t].lane = "backlog", ~ticket[t].archived,
                        ticket[t].cls # NoClassification,
                        ticket[t].cls.declared >= CurrentMinimum(t),
                        ~MaySetClassification(t, ticket[t].owner, ticket[t].cls)
                 PROVE  MayApprove(t, ticket[t].owner,
                            [owner |-> ticket[t].owner, cls |-> ticket[t].cls,
                             deps |-> HasActiveDependencies(t)])
      BY DEF Reapprovable
    <2>1. ticket[t] \in Row
      BY DEF PlanningInv, TypeOK
    <2>2. ticket[t].minimum = CurrentMinimum(t)
      BY DEF MaySetClassification, ClassificationUnchanged, CurrentMinimum
    <2>3. ticket[t].cls \in Classification /\ HasActiveDependencies(t) \in BOOLEAN
      BY <2>1 DEF Row, HasActiveDependencies
    <2>4. CurrentMinimum(t) \in ChangeRisk
      BY <2>3, RiskType DEF CurrentMinimum
    <2>5. ticket[t].minimum # NoRisk
      BY <2>2, <2>4 DEF ChangeRisk, NoRisk
    <2>6. ticket[t].ready = "draft"
      BY <2>1 DEF PlanningInv, TodoContractCurrent, Row
    <2> QED  BY <2>2, <2>5, <2>6 DEF MayApprove, Authorized
  <1> QED  BY <1>1, PlanningInvariant, PTL

-----------------------------------------------------------------------------
\* Each command writes one row, with a higher version, and changes the blockers
\* of that ticket only.
LEMMA StepRaisesVersion ==
    ASSUME PlanningInv, Next
    PROVE  \E t \in Ticket :
               /\ ticket'[t].version > ticket[t].version
               /\ \A u \in Ticket \ {t} : /\ ticket'[u] = ticket[u]
                                          /\ Blockers(u)' = Blockers(u)
  <1>1. ticket \in [Ticket -> Row]
    BY DEF PlanningInv, TypeOK
  <1>2. \A t \in Ticket : ticket[t].version \in Int
    BY <1>1 DEF Row
  <1>3. ASSUME NEW t \in Ticket, NEW row, ticket' = [ticket EXCEPT ![t] = row],
               row.version = ticket[t].version + 1,
               \A u \in Ticket \ {t} : Blockers(u)' = Blockers(u)
        PROVE  \E v \in Ticket :
                   /\ ticket'[v].version > ticket[v].version
                   /\ \A u \in Ticket \ {v} : ticket'[u] = ticket[u] /\ Blockers(u)' = Blockers(u)
    <2>1. ticket'[t] = row /\ \A u \in Ticket \ {t} : ticket'[u] = ticket[u]
      BY <1>1, <1>3
    <2>2. ticket'[t].version > ticket[t].version
      BY <2>1, <1>2, <1>3
    <2> QED  BY <2>1, <2>2, <1>3
  <1>4. edge' = edge => \A u \in Ticket : Blockers(u)' = Blockers(u)
    BY DEF Blockers
  <1>5. ASSUME NEW t \in Ticket
        PROVE  /\ \A owner, cls, deps :
                     Classified(ticket[t], owner, cls, deps).version = ticket[t].version + 1
               /\ \A actor, content :
                     Approved(ticket[t], actor, content).version = ticket[t].version + 1
               /\ Bumped(ticket[t]).version = ticket[t].version + 1
               /\ ApplyDependencyChange(ticket[t]).version = ticket[t].version + 1
               /\ Archived(ticket[t]).version = ticket[t].version + 1
               /\ Restored(ticket[t]).version = ticket[t].version + 1
    <2>1. ticket[t] \in Row
      BY <1>1
    <2> QED  BY <2>1 DEF Row, Classified, Approved, Bumped, ApplyDependencyChange,
                         Archived, Restored
  <1>6. ASSUME NEW t \in Ticket, NEW owner \in User, NEW cls \in Classification,
               SetDevTicketClassification(t, owner, cls)
        PROVE  \E v \in Ticket :
                   /\ ticket'[v].version > ticket[v].version
                   /\ \A u \in Ticket \ {v} : ticket'[u] = ticket[u] /\ Blockers(u)' = Blockers(u)
    <2>1. /\ ticket' = [ticket EXCEPT ![t] =
                            Classified(ticket[t], owner, cls, HasActiveDependencies(t))]
          /\ edge' = edge
      BY <1>6 DEF SetDevTicketClassification
    <2>2. Classified(ticket[t], owner, cls, HasActiveDependencies(t)).version
            = ticket[t].version + 1
      BY <1>5
    <2>3. \A u \in Ticket \ {t} : Blockers(u)' = Blockers(u)
      BY <1>4, <2>1
    <2> QED  BY <1>3, <2>1, <2>2, <2>3
  <1>7. ASSUME NEW t \in Ticket, NEW actor \in User, NEW content \in Content,
               ApproveReadyToTodo(t, actor, content)
        PROVE  \E v \in Ticket :
                   /\ ticket'[v].version > ticket[v].version
                   /\ \A u \in Ticket \ {v} : ticket'[u] = ticket[u] /\ Blockers(u)' = Blockers(u)
    BY <1>3, <1>4, <1>5, <1>7 DEF ApproveReadyToTodo
  <1>8. ASSUME NEW t \in Ticket, ReorderTodo(t)
        PROVE  \E v \in Ticket :
                   /\ ticket'[v].version > ticket[v].version
                   /\ \A u \in Ticket \ {v} : ticket'[u] = ticket[u] /\ Blockers(u)' = Blockers(u)
    BY <1>3, <1>4, <1>5, <1>8 DEF ReorderTodo
  <1>9. ASSUME NEW t \in Ticket, NEW blocker \in Ticket,
               AddDependency(t, blocker) \/ RemoveDependency(t, blocker)
        PROVE  \E v \in Ticket :
                   /\ ticket'[v].version > ticket[v].version
                   /\ \A u \in Ticket \ {v} : ticket'[u] = ticket[u] /\ Blockers(u)' = Blockers(u)
    <2>1. \A u \in Ticket \ {t} : \A b \in Ticket : <<u, b>> \in edge' <=> <<u, b>> \in edge
      BY <1>9 DEF AddDependency, RemoveDependency
    <2>2. \A u \in Ticket \ {t} : Blockers(u)' = Blockers(u)
      BY <2>1 DEF Blockers
    <2>3. ticket' = [ticket EXCEPT ![t] = ApplyDependencyChange(ticket[t])]
      BY <1>9 DEF AddDependency, RemoveDependency
    <2> QED  BY <2>2, <2>3, <1>3, <1>5
  <1>10. ASSUME NEW t \in Ticket, NEW actor \in User,
                ArchiveDevTicket(t, actor) \/ RestoreDevTicket(t, actor)
         PROVE  \E v \in Ticket :
                   /\ ticket'[v].version > ticket[v].version
                   /\ \A u \in Ticket \ {v} : ticket'[u] = ticket[u] /\ Blockers(u)' = Blockers(u)
    <2>1. CASE ArchiveDevTicket(t, actor)
      BY <2>1, <1>3, <1>4, <1>5 DEF ArchiveDevTicket
    <2>2. CASE RestoreDevTicket(t, actor)
      BY <2>2, <1>3, <1>4, <1>5 DEF RestoreDevTicket
    <2> QED  BY <2>1, <2>2, <1>10
  <1> QED  BY <1>6, <1>7, <1>8, <1>9, <1>10 DEF Next

\* Equal versions mean an equal row and equal blockers, in every execution.
THEOREM VersionsCoverRows == Spec => VersionCoversRow
  <1> DEFINE Step == \A t \in Ticket :
                         (ticket'[t] # ticket[t] \/ Blockers(t)' # Blockers(t))
                         => ticket'[t].version > ticket[t].version
  <1>1. PlanningInv /\ [Next]_vars => [Step]_vars
    <2>1. CASE UNCHANGED vars
      BY <2>1
    <2>2. ASSUME PlanningInv, Next PROVE Step
      BY <2>2, StepRaisesVersion
    <2> QED  BY <2>1, <2>2
  <1> QED  BY <1>1, PlanningInvariant, PTL DEF Spec, VersionCoversRow


\* No step revives an approval: a new one always names a new contract version.
THEOREM ApprovalsStayFresh == Spec => ApprovalIsFresh
  <1> DEFINE Fresh(t) == ticket'[t].approvedContract # ticket[t].approvedContract
                         => \/ ticket'[t].approvedContract = 0
                            \/ ticket'[t].approvedContract > ticket[t].contract
             Step == \A t \in Ticket : Fresh(t)
  <1>1. PlanningInv /\ [Next]_vars => [Step]_vars
    <2>1. CASE UNCHANGED vars
      BY <2>1
    <2>2. ASSUME PlanningInv, Next PROVE Step
      <3>1. ticket \in [Ticket -> Row]
        BY <2>2 DEF PlanningInv, TypeOK
      <3>2. ASSUME NEW t \in Ticket, NEW row, ticket' = [ticket EXCEPT ![t] = row],
                   \/ row.approvedContract = ticket[t].approvedContract
                   \/ row.approvedContract = 0
                   \/ row.approvedContract = ticket[t].contract + 1
            PROVE  Step
        <4> SUFFICES ASSUME NEW u \in Ticket PROVE Fresh(u)
          OBVIOUS
        <4>1. ticket[u].contract \in Nat
          BY <3>1 DEF Row
        <4>2. CASE u = t
          <5>1. ticket'[u] = row
            BY <3>1, <3>2, <4>2
          <5> QED  BY <4>1, <4>2, <5>1, <3>2
        <4>3. CASE u # t
          BY <3>1, <3>2, <4>3
        <4> QED  BY <4>2, <4>3
      <3> HIDE DEF Step
      <3>3. ASSUME NEW t \in Ticket
            PROVE  /\ \A owner, cls, deps : Classified(ticket[t], owner, cls, deps).approvedContract
                                              = ticket[t].approvedContract
                   /\ \A actor, content : Approved(ticket[t], actor, content).approvedContract
                                              = ticket[t].contract + 1
                   /\ Bumped(ticket[t]).approvedContract = ticket[t].approvedContract
                   /\ ApplyDependencyChange(ticket[t]).approvedContract
                        \in {0, ticket[t].approvedContract}
                   /\ Archived(ticket[t]).approvedContract = 0
                   /\ Restored(ticket[t]).approvedContract = 0
        <4>1. ticket[t] \in Row
          BY <3>1
        <4> QED  BY <4>1 DEF Row, Classified, Approved, Bumped, ApplyDependencyChange,
                             Archived, Restored
      <3>4. ASSUME NEW t \in Ticket, NEW owner \in User, NEW cls \in Classification,
                   SetDevTicketClassification(t, owner, cls)
            PROVE  Step
        <4>1. Classified(ticket[t], owner, cls, HasActiveDependencies(t)).approvedContract
                = ticket[t].approvedContract
          BY <3>3
        <4>2. ticket' = [ticket EXCEPT ![t] =
                            Classified(ticket[t], owner, cls, HasActiveDependencies(t))]
          BY <3>4 DEF SetDevTicketClassification
        <4> QED  BY <3>2, <4>1, <4>2
      <3>5. ASSUME NEW t \in Ticket, NEW actor \in User, NEW content \in Content,
                   ApproveReadyToTodo(t, actor, content)
            PROVE  Step
        <4>1. Approved(ticket[t], actor, content).approvedContract = ticket[t].contract + 1
          BY <3>3
        <4>2. ticket' = [ticket EXCEPT ![t] = Approved(ticket[t], actor, content)]
          BY <3>5 DEF ApproveReadyToTodo
        <4> QED  BY <3>2, <4>1, <4>2
      <3>6. ASSUME NEW t \in Ticket, ReorderTodo(t)
            PROVE  Step
        BY <3>2, <3>3, <3>6 DEF ReorderTodo
      <3>7. ASSUME NEW t \in Ticket, NEW blocker \in Ticket,
                   AddDependency(t, blocker) \/ RemoveDependency(t, blocker)
            PROVE  Step
        <4>1. ticket' = [ticket EXCEPT ![t] = ApplyDependencyChange(ticket[t])]
          BY <3>7 DEF AddDependency, RemoveDependency
        <4>2. ApplyDependencyChange(ticket[t]).approvedContract \in {0, ticket[t].approvedContract}
          BY <3>3
        <4> QED  BY <3>2, <4>1, <4>2
      <3>8. ASSUME NEW t \in Ticket, NEW actor \in User,
                   ArchiveDevTicket(t, actor) \/ RestoreDevTicket(t, actor)
            PROVE  Step
        <4>1. CASE ArchiveDevTicket(t, actor)
          BY <3>2, <3>3, <4>1 DEF ArchiveDevTicket
        <4>2. CASE RestoreDevTicket(t, actor)
          BY <3>2, <3>3, <4>2 DEF RestoreDevTicket
        <4> QED  BY <3>8, <4>1, <4>2
      <3> QED  BY <2>2, <3>4, <3>5, <3>6, <3>7, <3>8 DEF Next
    <2> QED  BY <2>1, <2>2
  <1> QED  BY <1>1, PlanningInvariant, PTL DEF Spec, ApprovalIsFresh

-----------------------------------------------------------------------------
\* A step that writes one row without touching its archive overlay leaves the
\* set of archived tickets alone.
LEMMA ArchivedUnchanged ==
    ASSUME TypeOK, NEW t \in Ticket, NEW row,
           ticket' = [ticket EXCEPT ![t] = row], row.archived = ticket[t].archived
    PROVE  {x \in Ticket : ticket[x].archived}' = {x \in Ticket : ticket[x].archived}
  <1>1. ticket \in [Ticket -> Row]
    BY DEF TypeOK
  <1>2. \A x \in Ticket : ticket'[x].archived = ticket[x].archived
    BY <1>1
  <1> QED  BY <1>2

\* What the updates without a parameter do to the archive overlay.
LEMMA UpdatesAndOverlay ==
    ASSUME NEW row \in Row
    PROVE  /\ Bumped(row).archived = row.archived
           /\ ApplyDependencyChange(row).archived = row.archived
           /\ Archived(row).archived = TRUE
           /\ Restored(row).archived = FALSE
  BY DEF Bumped, ApplyDependencyChange, Archived, Restored, Row

\* Acyclicity of the graph as the abstract specification states it.
LEMMA AcyclicNext == NoDependencyCycle' => Graph!Acyclic(edge')
  <1> SUFFICES ASSUME NoDependencyCycle', NEW S \in SUBSET Ticket,
                      \A t \in S : \E u \in S : <<t, u>> \in edge'
               PROVE  S = {}
    BY DEF Graph!Acyclic
  <1>1. \A t \in S : (Blockers(t))' \cap S # {}
    BY DEF Blockers
  <1> QED  BY <1>1 DEF NoDependencyCycle

\* Every command, as DevTicketPlanning states it, is a change that the abstract
\* dependency graph allows, or leaves the graph alone.
THEOREM PlanningImplementsGraph == Spec => ImplementsDependencyGraph
  <1> DEFINE A == {t \in Ticket : ticket[t].archived}
  <1>1. Init => Graph!Init
    <2> SUFFICES ASSUME Init PROVE edge = {} /\ A = {}
      BY DEF Graph!Init
    <2>1. \A t \in Ticket : \E owner \in Member : ticket[t] = NewRow(owner)
      BY DEF Init
    <2>2. \A owner \in Member : NewRow(owner).archived = FALSE
      BY DEF NewRow
    <2>3. \A t \in Ticket : ticket[t].archived = FALSE
      BY <2>1, <2>2
    <2> QED  BY <2>3 DEF Init
  <1>2. PlanningInv /\ PlanningInv' /\ [Next]_vars => [Graph!Next]_(Graph!vars)
    <2> SUFFICES ASSUME PlanningInv, PlanningInv', [Next]_vars
                 PROVE  [Graph!Next]_(Graph!vars)
      OBVIOUS
    <2>0. TypeOK /\ ticket \in [Ticket -> Row]
      BY DEF PlanningInv, TypeOK
    <2>1. ASSUME NEW t \in Ticket, NEW owner \in User, NEW cls \in Classification,
                 SetDevTicketClassification(t, owner, cls)
          PROVE  A' = A /\ edge' = edge
      <3> DEFINE row == Classified(ticket[t], owner, cls, HasActiveDependencies(t))
      <3>1. ticket' = [ticket EXCEPT ![t] = row] /\ edge' = edge
        BY <2>1 DEF SetDevTicketClassification
      <3>2. row.archived = ticket[t].archived
        BY <2>0 DEF Classified, Row
      <3> HIDE DEF row
      <3> QED  BY <2>0, <3>1, <3>2, ArchivedUnchanged
    <2>2. ASSUME NEW t \in Ticket, NEW actor \in User, NEW content \in Content,
                 ApproveReadyToTodo(t, actor, content)
          PROVE  A' = A /\ edge' = edge
      <3> DEFINE row == Approved(ticket[t], actor, content)
      <3>1. ticket' = [ticket EXCEPT ![t] = row] /\ edge' = edge
        BY <2>2 DEF ApproveReadyToTodo
      <3>2. row.archived = ticket[t].archived
        BY <2>0 DEF Approved, Row
      <3> HIDE DEF row
      <3> QED  BY <2>0, <3>1, <3>2, ArchivedUnchanged
    <2>3. ASSUME NEW t \in Ticket, ReorderTodo(t)
          PROVE  A' = A /\ edge' = edge
      BY <2>0, <2>3, ArchivedUnchanged, UpdatesAndOverlay DEF ReorderTodo
    <2>4. ASSUME NEW dependent \in Ticket, NEW blocker \in Ticket,
                 AddDependency(dependent, blocker)
          PROVE  Graph!Add(dependent, blocker)
      <3>1. A' = A
        BY <2>0, <2>4, ArchivedUnchanged, UpdatesAndOverlay DEF AddDependency
      <3>2. edge' = edge \cup {<<dependent, blocker>>}
        BY <2>4 DEF AddDependency
      <3>3. Graph!Acyclic(edge \cup {<<dependent, blocker>>})
        BY <3>2, AcyclicNext DEF PlanningInv
      <3>4. {dependent, blocker} \cap A = {}
        BY <2>4 DEF AddDependency, DependencyEndpointOk
      <3> QED  BY <3>1, <3>2, <3>3, <3>4 DEF Graph!Add
    <2>5. ASSUME NEW dependent \in Ticket, NEW blocker \in Ticket,
                 RemoveDependency(dependent, blocker)
          PROVE  Graph!Remove(dependent, blocker)
      <3>1. A' = A
        BY <2>0, <2>5, ArchivedUnchanged, UpdatesAndOverlay DEF RemoveDependency
      <3>2. {dependent, blocker} \cap A = {}
        BY <2>5 DEF RemoveDependency, DependencyEndpointOk
      <3> QED  BY <2>5, <3>1, <3>2 DEF Graph!Remove, RemoveDependency
    <2>6. ASSUME NEW t \in Ticket, NEW actor \in User, ArchiveDevTicket(t, actor)
          PROVE  Graph!Archive(t)
      <3>1. ticket' = [ticket EXCEPT ![t] = Archived(ticket[t])] /\ edge' = edge
        BY <2>6 DEF ArchiveDevTicket
      <3>2. \A x \in Ticket : ticket'[x].archived = IF x = t THEN TRUE ELSE ticket[x].archived
        BY <2>0, <3>1, UpdatesAndOverlay
      <3>3. A' = A \cup {t}
        BY <3>2
      <3> QED  BY <2>6, <3>1, <3>3 DEF Graph!Archive, ArchiveDevTicket, HasActiveDependents
    <2>7. ASSUME NEW t \in Ticket, NEW actor \in User, RestoreDevTicket(t, actor)
          PROVE  Graph!Restore(t)
      <3>1. ticket' = [ticket EXCEPT ![t] = Restored(ticket[t])] /\ edge' = edge
        BY <2>7 DEF RestoreDevTicket
      <3>2. \A x \in Ticket : ticket'[x].archived = IF x = t THEN FALSE ELSE ticket[x].archived
        BY <2>0, <3>1, UpdatesAndOverlay
      <3>3. A' = A \ {t}
        BY <3>2
      <3> QED  BY <3>1, <3>3 DEF Graph!Restore
    <2>8. CASE UNCHANGED vars
      BY <2>8 DEF vars, Graph!vars
    <2> QED  BY <2>1, <2>2, <2>3, <2>4, <2>5, <2>6, <2>7, <2>8 DEF Next, Graph!Next, Graph!vars
  <1> QED  BY <1>1, <1>2, PlanningInvariant, PTL DEF Spec, ImplementsDependencyGraph, Graph!Spec

=============================================================================
