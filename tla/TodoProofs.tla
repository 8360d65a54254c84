----------------------------- MODULE TodoProofs -----------------------------
(***************************************************************************)
(* Proofs about the two modules behind a ticket's place in Todo.           *)
(*                                                                         *)
(* TodoQueue, for every set of tickets, stride, column maximum and version *)
(* bound: the ranks stay distinct, the queue version names the order, and  *)
(* the stored ranks implement the abstract order of TodoOrder.             *)
(*                                                                         *)
(* DependencyLocks, for every set of tickets, sessions and commands and    *)
(* every bound: Todo matches the graph, no sessions wait for each other,   *)
(* and the commands, statement by statement, implement the atomic ones of  *)
(* DependencyGraph.                                                        *)
(***************************************************************************)
EXTENDS TodoQueue, DependencyLocks, FiniteSetTheorems, WellFoundedInduction, TLAPS

\* R orders the elements of S strictly and totally.
StrictTotal(R, S) ==
  /\ R \subseteq S \X S
  /\ \A a \in S : <<a, a>> \notin R
  /\ \A a, b, c \in S : <<a, b>> \in R /\ <<b, c>> \in R => <<a, c>> \in R
  /\ \A a, b \in S : a # b => <<a, b>> \in R \/ <<b, a>> \in R

\* What every client knows is no newer than the header, and a version that is
\* current comes with the current order.
ViewsCurrent ==
  \A c \in Client : /\ view[c].version <= queueVersion
                    /\ view[c].version = queueVersion => view[c].precedes = Precedes

QueueInv == TypeOK /\ RanksDistinct /\ ViewsCurrent

-----------------------------------------------------------------------------
(***************************************************************************)
(* Indices of a finite total order                                         *)
(***************************************************************************)

\* Multiplication by a positive stride preserves and reflects the order.
LEMMA MulMono ==
  ASSUME NEW a \in Nat, NEW b \in Nat, NEW s \in Nat \ {0}
  PROVE  /\ a * s \in Nat
         /\ a < b => a * s < b * s
         /\ a <= b => a * s <= b * s
  BY SMT

\* The index of a ticket is the number of tickets ahead of it; indices follow
\* the order and stay below the size of the band.
LEMMA IndexOrder ==
  ASSUME NEW S, IsFiniteSet(S), NEW R, StrictTotal(R, S)
  PROVE  /\ \A a \in S : Index(a, S, R) \in Nat /\ Index(a, S, R) < Cardinality(S)
         /\ \A a, b \in S : <<a, b>> \in R <=> Index(a, S, R) < Index(b, S, R)
<1> DEFINE Pred(x) == {y \in S : <<y, x>> \in R}
<1>0. \A x : IsFiniteSet(Pred(x)) /\ Cardinality(Pred(x)) \in Nat
  BY FS_Subset, FS_CardinalityType
<1>1. Cardinality(S) \in Nat
  BY FS_CardinalityType
<1>2. ASSUME NEW a \in S PROVE Cardinality(Pred(a)) < Cardinality(S)
  <2>1. Pred(a) \subseteq S \ {a}
    BY DEF StrictTotal
  <2>2. IsFiniteSet(S \ {a}) /\ Cardinality(S \ {a}) = Cardinality(S) - 1
    BY FS_RemoveElement
  <2>3. Cardinality(Pred(a)) <= Cardinality(S \ {a})
    BY <2>1, <2>2, FS_Subset
  <2> HIDE DEF Pred
  <2> QED BY <2>2, <2>3, <1>0, <1>1
<1>3. ASSUME NEW a \in S, NEW b \in S, <<a, b>> \in R
      PROVE  Cardinality(Pred(a)) < Cardinality(Pred(b))
  <2>1. a \in Pred(b)
    BY <1>3
  <2>2. Pred(a) \subseteq Pred(b) \ {a}
    BY <1>3 DEF StrictTotal
  <2>3. IsFiniteSet(Pred(b) \ {a}) /\ Cardinality(Pred(b) \ {a}) = Cardinality(Pred(b)) - 1
    <3> HIDE DEF Pred
    <3> QED BY <2>1, <1>0, FS_RemoveElement
  <2>4. Cardinality(Pred(a)) <= Cardinality(Pred(b) \ {a})
    <3> HIDE DEF Pred
    <3> QED BY <2>2, <2>3, FS_Subset
  <2> HIDE DEF Pred
  <2> QED BY <2>3, <2>4, <1>0
<1>4. \A x : Index(x, S, R) = Cardinality(Pred(x))
  BY DEF Index
<1> HIDE DEF Pred
<1>5. ASSUME NEW a \in S, NEW b \in S, Index(a, S, R) < Index(b, S, R) PROVE <<a, b>> \in R
  <2>1. CASE a = b
    BY <2>1, <1>5, <1>4, <1>0
  <2>2. CASE <<b, a>> \in R
    BY <2>2, <1>5, <1>3, <1>4, <1>0
  <2> QED BY <2>1, <2>2 DEF StrictTotal
<1> QED BY <1>0, <1>2, <1>3, <1>4, <1>5

\* rebalanceTodoBand: when the band fits, renumbering gives every member a rank
\* of the column, in the order asked for.
LEMMA RebalancedRanks ==
  ASSUME TypeOK, NEW S \in SUBSET Ticket, NEW R, StrictTotal(R, S)
  PROVE  /\ IsFiniteSet(S) /\ Cardinality(S) \in Nat
         /\ \A x \in S : /\ Rebalanced(S, R)[x] \in Nat \ {0}
                         /\ Rebalanced(S, R)[x] <= (Cardinality(S) + 1) * Stride
         /\ \A x \in Ticket \ S : Rebalanced(S, R)[x] = rank[x]
         /\ \A a, b \in S : <<a, b>> \in R <=> Rebalanced(S, R)[a] < Rebalanced(S, R)[b]
<1>1. IsFiniteSet(S) /\ Cardinality(S) \in Nat
  BY FS_Subset, FS_CardinalityType, QueueAssumption
<1>2. /\ \A a \in S : Index(a, S, R) \in Nat /\ Index(a, S, R) < Cardinality(S)
      /\ \A a, b \in S : <<a, b>> \in R <=> Index(a, S, R) < Index(b, S, R)
  BY <1>1, IndexOrder
<1>3. \A x \in S : Rebalanced(S, R)[x] = (Index(x, S, R) + 2) * Stride
  BY DEF Rebalanced
<1>4. \A x \in Ticket \ S : Rebalanced(S, R)[x] = rank[x]
  BY DEF Rebalanced
<1>5. Stride \in Nat \ {0}
  BY QueueAssumption
<1>6. ASSUME NEW x \in S
      PROVE  /\ Rebalanced(S, R)[x] \in Nat \ {0}
             /\ Rebalanced(S, R)[x] <= (Cardinality(S) + 1) * Stride
  <2>1. Index(x, S, R) \in Nat /\ Index(x, S, R) + 2 <= Cardinality(S) + 1
    BY <1>1, <1>2
  <2>2. (Index(x, S, R) + 2) * Stride <= (Cardinality(S) + 1) * Stride
    BY <2>1, <1>1, <1>5, MulMono
  <2>3. (Index(x, S, R) + 2) * Stride \in Nat /\ 0 * Stride < (Index(x, S, R) + 2) * Stride
    BY <2>1, <1>5, MulMono
  <2> QED BY <2>2, <2>3, <1>3, <1>5
<1>7. ASSUME NEW a \in S, NEW b \in S
      PROVE  <<a, b>> \in R <=> Rebalanced(S, R)[a] < Rebalanced(S, R)[b]
  <2> DEFINE i == Index(a, S, R)  j == Index(b, S, R)
  <2>1. i \in Nat /\ j \in Nat
    BY <1>2
  <2>2. <<a, b>> \in R <=> i < j
    BY <1>2
  <2>3. Rebalanced(S, R)[a] = (i + 2) * Stride /\ Rebalanced(S, R)[b] = (j + 2) * Stride
    BY <1>3
  <2> HIDE DEF i, j
  <2>4. i < j => (i + 2) * Stride < (j + 2) * Stride
    BY <2>1, <1>5, MulMono
  <2>5. j <= i => (j + 2) * Stride <= (i + 2) * Stride
    BY <2>1, <1>5, MulMono
  <2>6. (i + 2) * Stride \in Nat /\ (j + 2) * Stride \in Nat
    BY <2>1, <1>5, MulMono
  <2> QED BY <2>1, <2>2, <2>3, <2>4, <2>5, <2>6
<1> QED BY <1>1, <1>4, <1>6, <1>7

-----------------------------------------------------------------------------
(***************************************************************************)
(* The order in the store                                                  *)
(***************************************************************************)

\* With distinct ranks the listing order is the order of the ranks.
LEMMA PrecedesIsRankOrder ==
  ASSUME TypeOK, RanksDistinct
  PROVE  /\ Members \subseteq Ticket
         /\ \A a, b : <<a, b>> \in Precedes <=> a \in Members /\ b \in Members /\ rank[a] < rank[b]
         /\ StrictTotal(Precedes, Members)
<1>1. Members \subseteq Ticket /\ \A t \in Members : t \in Nat /\ rank[t] \in Nat
  BY QueueAssumption DEF Members, TypeOK
<1>2. \A a, b : <<a, b>> \in Precedes <=> a \in Members /\ b \in Members /\ Ahead(a, b)
  BY DEF Precedes
<1>3. \A a, b \in Members : Ahead(a, b) <=> rank[a] < rank[b]
  BY <1>1 DEF Ahead, RanksDistinct
<1>4. \A a, b : <<a, b>> \in Precedes <=> a \in Members /\ b \in Members /\ rank[a] < rank[b]
  BY <1>2, <1>3
<1>5. Precedes \subseteq Members \X Members
  BY DEF Precedes
<1>6. StrictTotal(Precedes, Members)
  BY <1>1, <1>4, <1>5 DEF StrictTotal, RanksDistinct
<1> QED BY <1>1, <1>4, <1>6

\* The slot of an insertion splits the other members: those up to p lie below
\* the rank the code computes, the rest above it.
LEMMA SlotRankFits ==
  ASSUME TypeOK, RanksDistinct, NEW t \in Ticket, NEW p, NEW n, Slot(t, p, n),
         SlotRank(p, n) \in Nat \ {0}
  PROVE  \A x \in Others(t) : IF x \in UpTo(t, p) THEN rank[x] < SlotRank(p, n)
                                                  ELSE SlotRank(p, n) < rank[x]
<1>0. Stride \in Nat \ {0, 1}
  BY QueueAssumption
<1>1. /\ NoTicket \notin Members
      /\ \A x \in Members : x \in Ticket /\ x \in Nat /\ rank[x] \in Nat \ {0}
  BY QueueAssumption DEF Members, TypeOK, NoTicket
<1>2. Others(t) \subseteq Members
  BY DEF Others
<1>3. \A a, b \in Members : Ahead(a, b) <=> rank[a] < rank[b]
  BY <1>1 DEF Ahead, RanksDistinct
<1>4. /\ p \in Others(t) \cup {NoTicket} /\ n \in Others(t) \cup {NoTicket}
      /\ p # NoTicket /\ n # NoTicket => rank[p] < rank[n]
      /\ \A x \in Others(t) :
           \/ p # NoTicket /\ (x = p \/ rank[x] < rank[p])
           \/ n # NoTicket /\ (x = n \/ rank[n] < rank[x])
  <2> HIDE DEF NoTicket
  <2> QED BY <1>2, <1>3 DEF Slot
<1>5. \A x \in Others(t) : x \in UpTo(t, p) <=> p # NoTicket /\ (x = p \/ rank[x] < rank[p])
  <2> HIDE DEF NoTicket
  <2> QED BY <1>2, <1>3, <1>4 DEF UpTo
<1> SUFFICES ASSUME NEW x \in Others(t)
             PROVE  IF x \in UpTo(t, p) THEN rank[x] < SlotRank(p, n)
                                        ELSE SlotRank(p, n) < rank[x]
  OBVIOUS
<1>6. CASE p = NoTicket /\ n = NoTicket
  BY <1>6, <1>4
<1>7. CASE p = NoTicket /\ n # NoTicket
  <2>1. SlotRank(p, n) = rank[n] - Stride
    BY <1>7 DEF SlotRank
  <2>2. x \notin UpTo(t, p) /\ (x = n \/ rank[n] < rank[x])
    BY <1>7, <1>4, <1>5
  <2> QED BY <1>0, <1>1, <1>2, <1>4, <1>7, <2>1, <2>2
<1>8. CASE p # NoTicket /\ n = NoTicket
  <2>1. SlotRank(p, n) = rank[p] + Stride
    BY <1>8 DEF SlotRank
  <2>2. x \in UpTo(t, p) /\ (x = p \/ rank[x] < rank[p])
    BY <1>8, <1>4, <1>5
  <2> QED BY <1>0, <1>1, <1>2, <1>4, <1>8, <2>1, <2>2
<1>9. CASE p # NoTicket /\ n # NoTicket
  <2>1. SlotRank(p, n) = IF rank[n] - rank[p] >= 2
                         THEN rank[p] + (rank[n] - rank[p]) \div 2 ELSE 0
    BY <1>9 DEF SlotRank
  <2>2. rank[p] \in Nat /\ rank[n] \in Nat /\ rank[x] \in Nat
    BY <1>1, <1>2, <1>4, <1>9
  <2>3. rank[p] < SlotRank(p, n) /\ SlotRank(p, n) < rank[n]
    BY <2>1, <2>2
  <2>4. CASE x \in UpTo(t, p)
    BY <2>2, <2>3, <2>4, <1>5
  <2>5. CASE x \notin UpTo(t, p)
    <3>1. x = n \/ rank[n] < rank[x]
      BY <2>5, <1>4, <1>5, <1>9
    <3> QED BY <2>2, <2>3, <2>5, <3>1
  <2> QED BY <2>4, <2>5
<1> QED BY <1>6, <1>7, <1>8, <1>9

\* Splicing a member into a slot of the others gives a strict total order.
LEMMA SplicedOrder ==
  ASSUME TypeOK, RanksDistinct, NEW t \in Members, NEW p, NEW n, Slot(t, p, n)
  PROVE  /\ \A a, b : <<a, b>> \in Spliced(t, p) <=>
              \/ <<a, b>> \in Precedes /\ a # t /\ b # t
              \/ a \in UpTo(t, p) /\ b = t
              \/ a = t /\ b \in Others(t) \ UpTo(t, p)
         /\ StrictTotal(Spliced(t, p), Members)
<1>1. \A a, b : <<a, b>> \in Spliced(t, p) <=>
              \/ <<a, b>> \in Precedes /\ a # t /\ b # t
              \/ a \in UpTo(t, p) /\ b = t
              \/ a = t /\ b \in Others(t) \ UpTo(t, p)
  BY DEF Spliced
<1>2. /\ \A a, b : <<a, b>> \in Precedes <=> a \in Members /\ b \in Members /\ rank[a] < rank[b]
      /\ StrictTotal(Precedes, Members)
      /\ \A x \in Members : rank[x] \in Nat
  BY PrecedesIsRankOrder DEF TypeOK, Members
<1>3. UpTo(t, p) \subseteq Others(t) /\ Others(t) = Members \ {t}
  BY DEF UpTo, Others
<1>4. \A a, b \in Others(t) : rank[a] < rank[b] /\ b \in UpTo(t, p) => a \in UpTo(t, p)
  <2>1. \A a, b \in Members : Ahead(a, b) <=> rank[a] < rank[b]
    BY QueueAssumption DEF Ahead, RanksDistinct, Members, TypeOK
  <2>2. p # NoTicket => p \in Members
    BY DEF Slot, Others
  <2> HIDE DEF NoTicket
  <2>3. \A x \in Others(t) : x \in UpTo(t, p) <=> p # NoTicket /\ (x = p \/ rank[x] < rank[p])
    BY <2>1, <2>2, <1>3 DEF UpTo
  <2> QED BY <2>2, <2>3, <1>2, <1>3
<1>5. Spliced(t, p) \subseteq Members \X Members
  <2>1. Precedes \subseteq Members \X Members
    BY <1>2 DEF StrictTotal
  <2> QED BY <2>1, <1>3 DEF Spliced
<1>6. \A a \in Members : <<a, a>> \notin Spliced(t, p)
  BY <1>1, <1>2, <1>3 DEF StrictTotal
<1>7. ASSUME NEW a \in Members, NEW b \in Members, a # b
      PROVE  <<a, b>> \in Spliced(t, p) \/ <<b, a>> \in Spliced(t, p)
  <2>1. CASE a = t
    BY <2>1, <1>7, <1>1, <1>3
  <2>2. CASE b = t
    BY <2>2, <1>7, <1>1, <1>3
  <2>3. CASE a # t /\ b # t
    <3>1. <<a, b>> \in Precedes \/ <<b, a>> \in Precedes
      BY <1>2, <1>7 DEF StrictTotal
    <3> QED BY <2>3, <3>1, <1>1
  <2> QED BY <2>1, <2>2, <2>3
<1>8. ASSUME NEW a \in Members, NEW b \in Members, NEW c \in Members,
             <<a, b>> \in Spliced(t, p), <<b, c>> \in Spliced(t, p)
      PROVE  <<a, c>> \in Spliced(t, p)
  <2>1. CASE b = t
    <3>1. a \in UpTo(t, p) /\ c \in Others(t) \ UpTo(t, p)
      BY <2>1, <1>8, <1>1, <1>3
    <3>2. a # t /\ c # t /\ a # c
      BY <3>1, <1>3
    <3>3. <<a, c>> \in Precedes \/ <<c, a>> \in Precedes
      BY <3>2, <1>2 DEF StrictTotal
    <3>4. <<c, a>> \notin Precedes
      BY <3>1, <1>2, <1>3, <1>4
    <3> QED BY <3>2, <3>3, <3>4, <1>1
  <2>2. CASE b # t /\ a = t
    BY <2>2, <1>8, <1>1, <1>2, <1>3, <1>4
  <2>3. CASE b # t /\ a # t /\ c = t
    BY <2>3, <1>8, <1>1, <1>2, <1>3, <1>4
  <2>4. CASE a # t /\ b # t /\ c # t
    BY <2>4, <1>8, <1>1, <1>2, <1>3
  <2> QED BY <2>1, <2>2, <2>3, <2>4
<1> QED BY <1>1, <1>5, <1>6, <1>7, <1>8 DEF StrictTotal

-----------------------------------------------------------------------------
(***************************************************************************)
(* What the steps do to the order                                          *)
(***************************************************************************)

\* t ends up in the slot behind p, and nothing else moves.
Placed(t, p) ==
  /\ rank' \in [Ticket -> 0..MaxRank]
  /\ RanksDistinct'
  /\ Members' = Members \cup {t}
  /\ \A a, b : <<a, b>> \in Precedes' <=>
       \/ <<a, b>> \in Precedes /\ a # t /\ b # t
       \/ a \in UpTo(t, p) /\ b = t
       \/ a = t /\ b \in Others(t) \ UpTo(t, p)

\* The order after a step is read off the new ranks.
LEMMA NextPrecedes ==
  ASSUME rank' \in [Ticket -> 0..MaxRank], RanksDistinct'
  PROVE  \A a, b : <<a, b>> \in Precedes' <=> a \in Members' /\ b \in Members' /\ rank'[a] < rank'[b]
<1>1. \A t \in Members' : t \in Ticket /\ t \in Nat /\ rank'[t] \in Nat
  BY QueueAssumption DEF Members
<1>2. \A a, b : <<a, b>> \in Precedes' <=> a \in Members' /\ b \in Members' /\ Ahead(a, b)'
  BY DEF Precedes
<1>3. \A a, b \in Members' : Ahead(a, b)' <=> rank'[a] < rank'[b]
  BY <1>1 DEF Ahead, RanksDistinct
<1> QED BY <1>2, <1>3

\* Writing the computed rank puts the ticket in its slot.
LEMMA InsertPlaces ==
  ASSUME TypeOK, RanksDistinct, NEW t \in Ticket, NEW p, NEW n, Slot(t, p, n),
         SlotRank(p, n) \in 1..MaxRank, rank' = [rank EXCEPT ![t] = SlotRank(p, n)]
  PROVE  Placed(t, p)
<1> DEFINE r == SlotRank(p, n)
<1>0. MaxRank \in Nat /\ r \in Nat \ {0} /\ r <= MaxRank
  BY QueueAssumption
<1>1. \A x \in Others(t) : IF x \in UpTo(t, p) THEN rank[x] < r ELSE r < rank[x]
  BY <1>0, SlotRankFits
<1> HIDE DEF r
<1>2. rank' \in [Ticket -> 0..MaxRank]
  BY <1>0 DEF TypeOK, r
<1>3. rank'[t] = r /\ \A x \in Ticket \ {t} : rank'[x] = rank[x]
  BY DEF TypeOK, r
<1>4. Members' = Members \cup {t}
  BY <1>0, <1>3 DEF Members
<1>5. /\ Others(t) = Members \ {t} /\ UpTo(t, p) \subseteq Others(t)
      /\ Members \subseteq Ticket /\ \A x \in Members : rank[x] \in Nat
  BY DEF Others, UpTo, Members, TypeOK
<1>6. RanksDistinct'
  <2> SUFFICES ASSUME NEW a \in Members', NEW b \in Members', a # b
               PROVE  rank'[a] # rank'[b]
    BY DEF RanksDistinct
  <2>1. CASE a = t
    BY <2>1, <1>0, <1>1, <1>3, <1>4, <1>5
  <2>2. CASE b = t
    BY <2>2, <1>0, <1>1, <1>3, <1>4, <1>5
  <2>3. CASE a # t /\ b # t
    BY <2>3, <1>3, <1>4, <1>5 DEF RanksDistinct
  <2> QED BY <2>1, <2>2, <2>3
<1>7. \A a, b : <<a, b>> \in Precedes' <=> a \in Members' /\ b \in Members' /\ rank'[a] < rank'[b]
  BY <1>2, <1>6, NextPrecedes
<1>8. \A a, b : <<a, b>> \in Precedes <=> a \in Members /\ b \in Members /\ rank[a] < rank[b]
  BY PrecedesIsRankOrder
<1>9. ASSUME NEW a, NEW b
      PROVE  <<a, b>> \in Precedes' <=>
               \/ <<a, b>> \in Precedes /\ a # t /\ b # t
               \/ a \in UpTo(t, p) /\ b = t
               \/ a = t /\ b \in Others(t) \ UpTo(t, p)
  <2>1. CASE a = t /\ b = t
    BY <2>1, <1>0, <1>3, <1>5, <1>7
  <2>2. CASE a = t /\ b # t
    BY <2>2, <1>0, <1>1, <1>3, <1>4, <1>5, <1>7
  <2>3. CASE a # t /\ b = t
    BY <2>3, <1>0, <1>1, <1>3, <1>4, <1>5, <1>7
  <2>4. CASE a # t /\ b # t
    BY <2>4, <1>3, <1>4, <1>5, <1>7, <1>8
  <2> QED BY <2>1, <2>2, <2>3, <2>4
<1> QED BY <1>2, <1>4, <1>6, <1>9 DEF Placed

\* Renumbering the band along the spliced order puts the ticket in its slot too.
LEMMA RebalancePlaces ==
  ASSUME TypeOK, RanksDistinct, NEW t \in Members, NEW p, NEW n, Slot(t, p, n),
         (Cardinality(Members) + 1) * Stride <= MaxRank,
         rank' = Rebalanced(Members, Spliced(t, p))
  PROVE  Placed(t, p)
<1> DEFINE R == Spliced(t, p)
<1>1. StrictTotal(R, Members) /\ Members \in SUBSET Ticket
  BY SplicedOrder DEF Members
<1>2. /\ \A x \in Members : rank'[x] \in Nat \ {0} /\ rank'[x] <= (Cardinality(Members) + 1) * Stride
      /\ \A x \in Ticket \ Members : rank'[x] = rank[x]
      /\ \A a, b \in Members : <<a, b>> \in R <=> rank'[a] < rank'[b]
      /\ Cardinality(Members) \in Nat
  BY <1>1, RebalancedRanks
<1>3. \A a, b : <<a, b>> \in R <=>
              \/ <<a, b>> \in Precedes /\ a # t /\ b # t
              \/ a \in UpTo(t, p) /\ b = t
              \/ a = t /\ b \in Others(t) \ UpTo(t, p)
  BY SplicedOrder
<1> HIDE DEF R
<1>4. (Cardinality(Members) + 1) * Stride \in Nat /\ MaxRank \in Nat
  BY <1>2, QueueAssumption, MulMono
<1>5. rank' \in [Ticket -> 0..MaxRank]
  <2>1. rank' = [x \in Ticket |-> rank'[x]]
    BY DEF Rebalanced
  <2>2. \A x \in Ticket : rank'[x] \in 0..MaxRank
    BY <1>2, <1>4 DEF TypeOK
  <2> QED BY <2>1, <2>2
<1>6. Members' = Members
  BY <1>1, <1>2 DEF Members
<1>7. RanksDistinct'
  BY <1>1, <1>2, <1>6 DEF RanksDistinct, StrictTotal
<1>8. \A a, b : <<a, b>> \in Precedes' <=> a \in Members' /\ b \in Members' /\ rank'[a] < rank'[b]
  BY <1>5, <1>7, NextPrecedes
<1>9. \A a, b : <<a, b>> \in Precedes' <=> <<a, b>> \in R
  BY <1>1, <1>2, <1>6, <1>8 DEF StrictTotal
<1> QED BY <1>3, <1>5, <1>6, <1>7, <1>9 DEF Placed

\* Renumbering the band before an append puts the ticket behind all others.
LEMMA AppendRebalancePlaces ==
  ASSUME TypeOK, RanksDistinct, NEW t \in Ticket \ Members, NEW p, Slot(t, p, NoTicket),
         (Cardinality(Members) + 2) * Stride <= MaxRank,
         rank' = [Rebalanced(Members, Precedes) EXCEPT ![t] = (Cardinality(Members) + 2) * Stride]
  PROVE  Placed(t, p)
<1> DEFINE top == (Cardinality(Members) + 2) * Stride
           below == (Cardinality(Members) + 1) * Stride
           f == Rebalanced(Members, Precedes)
<1>1. StrictTotal(Precedes, Members) /\ Members \in SUBSET Ticket
  BY PrecedesIsRankOrder
<1>2. /\ \A x \in Members : f[x] \in Nat \ {0} /\ f[x] <= below
      /\ \A x \in Ticket \ Members : f[x] = rank[x]
      /\ \A a, b \in Members : <<a, b>> \in Precedes <=> f[a] < f[b]
      /\ Cardinality(Members) \in Nat
  BY <1>1, RebalancedRanks
<1>3. below \in Nat /\ top \in Nat /\ below < top /\ MaxRank \in Nat /\ top <= MaxRank
  BY <1>2, QueueAssumption, MulMono
<1>4. rank' = [x \in Ticket |-> IF x = t THEN top ELSE f[x]]
  BY DEF Rebalanced
<1>5. rank'[t] = top /\ \A x \in Members : rank'[x] = f[x]
  BY <1>1, <1>4
<1>6. \A x \in Ticket : x \notin Members /\ x # t => rank'[x] = rank[x]
  BY <1>2, <1>4
<1> HIDE DEF top, below, f
<1>7. rank' \in [Ticket -> 0..MaxRank]
  <2>1. \A x \in Ticket : (IF x = t THEN top ELSE f[x]) \in 0..MaxRank
    BY <1>2, <1>3 DEF TypeOK
  <2> QED BY <1>4, <2>1
<1>8. Members' = Members \cup {t}
  <2>1. top # 0
    BY <1>3
  <2>2. \A x \in Ticket : rank'[x] # 0 <=> x \in Members \/ x = t
    BY <2>1, <1>2, <1>5, <1>6 DEF Members
  <2>3. Members' = {x \in Ticket : rank'[x] # 0}
    BY DEF Members
  <2> QED BY <2>2, <2>3, <1>1
<1>9. RanksDistinct'
  <2> SUFFICES ASSUME NEW a \in Members', NEW b \in Members', a # b
               PROVE  rank'[a] # rank'[b]
    BY DEF RanksDistinct
  <2>1. CASE a = t \/ b = t
    BY <2>1, <1>2, <1>3, <1>5, <1>8
  <2>2. CASE a # t /\ b # t
    <3>1. a \in Members /\ b \in Members /\ (<<a, b>> \in Precedes \/ <<b, a>> \in Precedes)
      BY <2>2, <1>1, <1>8 DEF StrictTotal
    <3> QED BY <3>1, <1>2, <1>5
  <2> QED BY <2>1, <2>2
<1>10. \A a, b : <<a, b>> \in Precedes' <=> a \in Members' /\ b \in Members' /\ rank'[a] < rank'[b]
  BY <1>7, <1>9, NextPrecedes
<1>11. Others(t) = Members /\ UpTo(t, p) = Members
  BY DEF Slot, UpTo, Others
<1>12. ASSUME NEW a, NEW b
      PROVE  <<a, b>> \in Precedes' <=>
               \/ <<a, b>> \in Precedes /\ a # t /\ b # t
               \/ a \in UpTo(t, p) /\ b = t
               \/ a = t /\ b \in Others(t) \ UpTo(t, p)
  <2>1. CASE a = t
    BY <2>1, <1>2, <1>3, <1>5, <1>8, <1>10, <1>11
  <2>2. CASE a # t /\ b = t
    BY <2>2, <1>2, <1>3, <1>5, <1>8, <1>10, <1>11
  <2>3. CASE a # t /\ b # t
    BY <2>3, <1>1, <1>2, <1>5, <1>8, <1>10, <1>11 DEF StrictTotal
  <2> QED BY <2>1, <2>2, <2>3
<1> QED BY <1>7, <1>8, <1>9, <1>12 DEF Placed

\* A ticket that leaves takes its pairs with it; the others keep their order.
LEMMA RemoveLeaves ==
  ASSUME TypeOK, RanksDistinct, NEW t \in Members, rank' = [rank EXCEPT ![t] = 0]
  PROVE  /\ rank' \in [Ticket -> 0..MaxRank]
         /\ RanksDistinct'
         /\ Members' = Members \ {t}
         /\ \A a, b : <<a, b>> \in Precedes' <=> <<a, b>> \in Precedes /\ a # t /\ b # t
<1>1. rank' \in [Ticket -> 0..MaxRank]
  <2>1. 0 \in 0..MaxRank
    BY QueueAssumption
  <2> QED BY <2>1 DEF TypeOK
<1>2. t \in Ticket /\ rank'[t] = 0 /\ \A x \in Ticket \ {t} : rank'[x] = rank[x]
  BY DEF TypeOK, Members
<1>3. Members' = Members \ {t}
  <2>1. Members' = {x \in Ticket : rank'[x] # 0}
    BY DEF Members
  <2>2. Members = {x \in Ticket : rank[x] # 0}
    BY DEF Members
  <2> QED BY <1>2, <2>1, <2>2
<1>4. RanksDistinct'
  BY <1>2, <1>3 DEF RanksDistinct, Members
<1>5. \A a, b : <<a, b>> \in Precedes' <=> a \in Members' /\ b \in Members' /\ rank'[a] < rank'[b]
  BY <1>1, <1>4, NextPrecedes
<1>6. \A a, b : <<a, b>> \in Precedes <=> a \in Members /\ b \in Members /\ rank[a] < rank[b]
  BY PrecedesIsRankOrder
<1>7. Members \subseteq Ticket
  BY DEF Members
<1> QED BY <1>1, <1>2, <1>3, <1>4, <1>5, <1>6, <1>7

\* approveReadyToTodo places the ticket behind every member.
LEMMA ApprovePlaces ==
  ASSUME QueueInv, NEW c \in Client, NEW t \in Ticket, ApproveReadyToTodo(c, t)
  PROVE  /\ t \notin Members
         /\ \E p : Placed(t, p) /\ UpTo(t, p) = Members /\ Others(t) = Members
<1>1. PICK p \in Ticket \cup {NoTicket} :
        /\ Slot(t, p, NoTicket)
        /\ \/ /\ SlotRank(p, NoTicket) <= MaxRank
              /\ rank' = [rank EXCEPT ![t] = SlotRank(p, NoTicket)]
           \/ /\ SlotRank(p, NoTicket) > MaxRank
              /\ (Cardinality(Members) + 2) * Stride <= MaxRank
              /\ rank' = [Rebalanced(Members, Precedes) EXCEPT
                            ![t] = (Cardinality(Members) + 2) * Stride]
  BY DEF ApproveReadyToTodo
<1>2. t \notin Members
  BY DEF ApproveReadyToTodo
<1>3. UpTo(t, p) = Members /\ Others(t) = Members
  BY <1>1, <1>2 DEF Slot, UpTo, Others
<1>4. SlotRank(p, NoTicket) \in Nat \ {0}
  <2>1. p # NoTicket => rank[p] \in Nat
    BY <1>1 DEF Slot, Others, Members, QueueInv, TypeOK
  <2>2. SlotRank(p, NoTicket) = IF p = NoTicket THEN 2 * Stride ELSE rank[p] + Stride
    BY DEF SlotRank
  <2> QED BY <2>1, <2>2, QueueAssumption
<1>5. CASE SlotRank(p, NoTicket) <= MaxRank /\ rank' = [rank EXCEPT ![t] = SlotRank(p, NoTicket)]
  <2>1. SlotRank(p, NoTicket) \in 1..MaxRank
    BY <1>4, <1>5, QueueAssumption
  <2>2. Placed(t, p)
    BY <1>1, <1>5, <2>1, InsertPlaces DEF QueueInv
  <2> QED BY <1>2, <1>3, <2>2
<1>6. CASE /\ (Cardinality(Members) + 2) * Stride <= MaxRank
           /\ rank' = [Rebalanced(Members, Precedes) EXCEPT
                         ![t] = (Cardinality(Members) + 2) * Stride]
  <2>1. Placed(t, p)
    BY <1>1, <1>2, <1>6, AppendRebalancePlaces DEF QueueInv
  <2> QED BY <1>2, <1>3, <2>1
<1> QED BY <1>1, <1>5, <1>6

\* reorderTodo places the ticket in the slot the anchor names.
LEMMA ReorderPlaces ==
  ASSUME QueueInv, NEW c \in Client, NEW t \in Ticket, NEW anchor \in Anchor,
         ReorderTodo(c, t, anchor)
  PROVE  t \in Members /\ \E p, n : AnchorSlot(anchor, t, p, n) /\ Placed(t, p)
<1>1. PICK p \in Ticket \cup {NoTicket}, n \in Ticket \cup {NoTicket} :
        /\ AnchorSlot(anchor, t, p, n)
        /\ \/ /\ SlotRank(p, n) \in 1..MaxRank
              /\ rank' = [rank EXCEPT ![t] = SlotRank(p, n)]
           \/ /\ SlotRank(p, n) \notin 1..MaxRank
              /\ (Cardinality(Members) + 1) * Stride <= MaxRank
              /\ rank' = Rebalanced(Members, Spliced(t, p))
  BY DEF ReorderTodo, RankFits
<1>2. t \in Members
  BY DEF ReorderTodo
<1>3. Slot(t, p, n)
  BY <1>1 DEF AnchorSlot
<1>4. Placed(t, p)
  BY <1>1, <1>2, <1>3, InsertPlaces, RebalancePlaces DEF QueueInv
<1> QED BY <1>1, <1>2, <1>4

-----------------------------------------------------------------------------
(***************************************************************************)
(* The invariant                                                           *)
(***************************************************************************)

\* The empty queue satisfies the invariant.
LEMMA InitQueueInv == Init => QueueInv
<1> SUFFICES ASSUME Init PROVE QueueInv
  OBVIOUS
<1>1. Members = {} /\ Precedes = {}
  BY DEF Init, Members, Precedes
<1>2. TypeOK
  BY QueueAssumption DEF Init, TypeOK
<1> QED BY <1>1, <1>2 DEF Init, QueueInv, RanksDistinct, ViewsCurrent

\* Every step that writes ranks bumps the version, so no view becomes wrong.
LEMMA BumpKeepsViews ==
  ASSUME QueueInv, rank' \in [Ticket -> 0..MaxRank], RanksDistinct', BumpQueueVersion,
         UNCHANGED view
  PROVE  QueueInv'
<1>1. queueVersion \in Nat \ {0} /\ queueVersion' = queueVersion + 1
  BY DEF QueueInv, TypeOK, BumpQueueVersion
<1>2. TypeOK'
  BY <1>1 DEF QueueInv, TypeOK
<1>3. ViewsCurrent'
  BY <1>1 DEF QueueInv, ViewsCurrent, TypeOK
<1> QED BY <1>2, <1>3 DEF QueueInv

\* Every step preserves the invariant.
LEMMA NextQueueInv == QueueInv /\ [Next]_vars => QueueInv'
<1> SUFFICES ASSUME QueueInv, [Next]_vars PROVE QueueInv'
  OBVIOUS
<1>1. CASE UNCHANGED vars
  BY <1>1 DEF vars, QueueInv, TypeOK, RanksDistinct, ViewsCurrent, Precedes, Members, Ahead
<1>2. ASSUME NEW c \in Client, ReadBoard(c) PROVE QueueInv'
  <2>1. Members' = Members /\ Precedes' = Precedes
    BY <1>2 DEF ReadBoard, Members, Precedes, Ahead
  <2>2. RanksDistinct'
    BY <1>2, <2>1 DEF ReadBoard, QueueInv, RanksDistinct
  <2>3. Precedes \in SUBSET (Ticket \X Ticket)
    BY DEF Precedes, Members
  <2>4. TypeOK'
    BY <1>2, <2>3 DEF ReadBoard, QueueInv, TypeOK
  <2>5. ViewsCurrent'
    <3> SUFFICES ASSUME NEW d \in Client
                 PROVE  /\ view'[d].version <= queueVersion
                        /\ view'[d].version = queueVersion => view'[d].precedes = Precedes
      BY <1>2, <2>1 DEF ReadBoard, ViewsCurrent
    <3>1. CASE d = c
      BY <1>2, <3>1 DEF ReadBoard, QueueInv, TypeOK
    <3>2. CASE d # c
      BY <1>2, <3>2 DEF ReadBoard, QueueInv, TypeOK, ViewsCurrent
    <3> QED BY <3>1, <3>2
  <2> QED BY <2>2, <2>4, <2>5 DEF QueueInv
<1>3. ASSUME NEW c \in Client, NEW t \in Ticket, ApproveReadyToTodo(c, t) PROVE QueueInv'
  <2>1. rank' \in [Ticket -> 0..MaxRank] /\ RanksDistinct'
    BY <1>3, ApprovePlaces DEF Placed
  <2> QED BY <1>3, <2>1, BumpKeepsViews DEF ApproveReadyToTodo
<1>4. ASSUME NEW c \in Client, NEW t \in Ticket, RemoveFromTodo(c, t) PROVE QueueInv'
  <2>1. rank' \in [Ticket -> 0..MaxRank] /\ RanksDistinct'
    BY <1>4, RemoveLeaves DEF RemoveFromTodo, QueueInv
  <2> QED BY <1>4, <2>1, BumpKeepsViews DEF RemoveFromTodo
<1>5. ASSUME NEW c \in Client, NEW t \in Ticket, NEW anchor \in Anchor, ReorderTodo(c, t, anchor)
      PROVE  QueueInv'
  <2>1. rank' \in [Ticket -> 0..MaxRank] /\ RanksDistinct'
    BY <1>5, ReorderPlaces DEF Placed
  <2> QED BY <1>5, <2>1, BumpKeepsViews DEF ReorderTodo
<1> QED BY <1>1, <1>2, <1>3, <1>4, <1>5 DEF Next

\* The inductive invariant holds in every reachable state.
THEOREM QueueInvariant == Spec => []QueueInv
  BY InitQueueInv, NextQueueInv, PTL DEF Spec

\* Ranks stay inside the bigint column and versions stay positive.
THEOREM QueueTypeCorrect == Spec => []TypeOK
<1>1. QueueInv => TypeOK
  BY DEF QueueInv
<1> QED BY <1>1, QueueInvariant, PTL

\* Two Todo members never share a rank, however the gaps have been used up.
THEOREM RanksStayDistinct == Spec => []RanksDistinct
<1>1. QueueInv => RanksDistinct
  BY DEF QueueInv
<1> QED BY <1>1, QueueInvariant, PTL

\* A command that passes the drift check was decided on the current order.
THEOREM VersionIsOrder == Spec => []VersionNamesOrder
<1>1. QueueInv => VersionNamesOrder
  BY DEF QueueInv, VersionNamesOrder, ViewsCurrent, Undrifted
<1> QED BY <1>1, QueueInvariant, PTL

-----------------------------------------------------------------------------
(***************************************************************************)
(* The ranks implement the abstract order                                  *)
(***************************************************************************)

\* Two sets of pairs of members with the same pairs are equal.
LEMMA SamePairs ==
  ASSUME NEW S, NEW A, NEW B, A \subseteq S \X S, B \subseteq S \X S,
         \A a, b : <<a, b>> \in A <=> <<a, b>> \in B
  PROVE  A = B
  OBVIOUS

\* Appending a ticket is Enter.
LEMMA ApproveEnters ==
  ASSUME QueueInv, NEW c \in Client, NEW t \in Ticket, ApproveReadyToTodo(c, t)
  PROVE  Order!Enter(t)
<1>1. t \notin Members
  BY ApprovePlaces
<1>2. PICK p : Placed(t, p) /\ UpTo(t, p) = Members /\ Others(t) = Members
  BY ApprovePlaces
<1>3. Members' = Members \cup {t}
  BY <1>2 DEF Placed
<1>4. Precedes' = Precedes \cup (Members \X {t})
  <2>1. Precedes' \subseteq Members' \X Members' /\ Precedes \subseteq Members \X Members
    BY DEF Precedes
  <2>2. Precedes \cup (Members \X {t}) \subseteq Members' \X Members'
    BY <1>3, <2>1
  <2>3. \A a, b : <<a, b>> \in Precedes' <=> <<a, b>> \in Precedes \cup (Members \X {t})
    BY <1>1, <1>2, <2>1 DEF Placed
  <2> QED BY <2>1, <2>2, <2>3, SamePairs
<1> QED BY <1>1, <1>3, <1>4 DEF Order!Enter

\* Taking a ticket out of Todo is Leave.
LEMMA RemoveIsLeave ==
  ASSUME QueueInv, NEW c \in Client, NEW t \in Ticket, RemoveFromTodo(c, t)
  PROVE  Order!Leave(t)
<1>1. t \in Members /\ rank' = [rank EXCEPT ![t] = 0]
  BY DEF RemoveFromTodo
<1>2. /\ Members' = Members \ {t}
      /\ \A a, b : <<a, b>> \in Precedes' <=> <<a, b>> \in Precedes /\ a # t /\ b # t
  BY <1>1, RemoveLeaves DEF QueueInv
<1>3. Precedes' = Order!Without(t)
  <2>1. Precedes' \subseteq Members' \X Members' /\ Precedes \subseteq Members \X Members
    BY DEF Precedes
  <2>2. Order!Without(t) \subseteq Members \X Members /\ Precedes' \subseteq Members \X Members
    BY <1>2, <2>1 DEF Order!Without
  <2>3. \A a, b : <<a, b>> \in Precedes' <=> <<a, b>> \in Order!Without(t)
    BY <1>2 DEF Order!Without
  <2> QED BY <2>2, <2>3, SamePairs
<1> QED BY <1>1, <1>2, <1>3 DEF Order!Leave

\* A reorder moves the ticket next to the anchor's neighbour, or, in a band of
\* one, changes nothing that shows.
LEMMA ReorderMoves ==
  ASSUME QueueInv, NEW c \in Client, NEW t \in Ticket, NEW anchor \in Anchor,
         ReorderTodo(c, t, anchor)
  PROVE  \/ \E n \in Ticket : Order!MoveBefore(t, n) \/ Order!MoveAfter(t, n)
         \/ UNCHANGED <<Members, Precedes>>
<1>0. t \in Members
  BY ReorderPlaces
<1>1. PICK p, n : AnchorSlot(anchor, t, p, n) /\ Placed(t, p)
  BY ReorderPlaces
<1>2. Members' = Members
  BY <1>0, <1>1 DEF Placed
<1>3. \A a, b : <<a, b>> \in Precedes' <=>
        \/ <<a, b>> \in Order!Without(t)
        \/ a \in UpTo(t, p) /\ b = t
        \/ a = t /\ b \in Others(t) \ UpTo(t, p)
  BY <1>1 DEF Placed, Order!Without
<1>4. /\ Precedes' \subseteq Members \X Members
      /\ Order!Without(t) \subseteq Members \X Members
      /\ Others(t) = Members \ {t} /\ UpTo(t, p) \subseteq Others(t)
  BY <1>2 DEF Precedes, Order!Without, Others, UpTo
<1>5. /\ \A a, b \in Members : <<a, b>> \in Precedes <=> rank[a] < rank[b]
      /\ \A a, b \in Members : Ahead(a, b) <=> rank[a] < rank[b]
      /\ \A x \in Members : x \in Ticket /\ x \in Nat /\ rank[x] \in Nat
      /\ \A a, b \in Members : a # b => rank[a] # rank[b]
  <2>1. \A a, b \in Members : <<a, b>> \in Precedes <=> rank[a] < rank[b]
    BY PrecedesIsRankOrder DEF QueueInv
  <2>2. \A x \in Members : x \in Ticket /\ x \in Nat /\ rank[x] \in Nat
    BY QueueAssumption DEF QueueInv, TypeOK, Members
  <2> QED BY <2>1, <2>2 DEF Ahead, QueueInv, RanksDistinct
<1>6. NoTicket \notin Ticket
  BY QueueAssumption DEF NoTicket
<1>7. /\ p \in Others(t) \cup {NoTicket} /\ n \in Others(t) \cup {NoTicket}
      /\ p # NoTicket /\ n # NoTicket => rank[p] < rank[n]
      /\ \A x \in Others(t) :
           \/ p # NoTicket /\ (x = p \/ rank[x] < rank[p])
           \/ n # NoTicket /\ (x = n \/ rank[n] < rank[x])
  <2> HIDE DEF NoTicket
  <2> QED BY <1>1, <1>4, <1>5 DEF AnchorSlot, Slot
<1>8. \A x \in Others(t) : x \in UpTo(t, p) <=> p # NoTicket /\ (x = p \/ rank[x] < rank[p])
  <2> HIDE DEF NoTicket
  <2> QED BY <1>4, <1>5, <1>7 DEF UpTo
<1> HIDE DEF NoTicket
<1>9. CASE anchor.kind = "empty_band"
  <2>1. p = NoTicket /\ n = NoTicket
    BY <1>1, <1>9 DEF AnchorSlot
  <2>2. Others(t) = {}
    BY <2>1, <1>7
  <2>3. Members = {t}
    BY <2>2, <1>0, <1>4
  <2>4. Precedes \subseteq Members \X Members /\ \A a, b : <<a, b>> \in Precedes' <=> <<a, b>> \in Precedes
    <3>1. Precedes \subseteq Members \X Members
      BY DEF Precedes
    <3>2. <<t, t>> \notin Precedes
      BY <1>0, <1>5
    <3>3. \A a, b : <<a, b>> \notin Precedes
      BY <3>1, <3>2, <2>3
    <3>4. \A a, b : <<a, b>> \notin Precedes'
      BY <3>3, <2>2, <1>3, <1>4 DEF Order!Without
    <3> QED BY <3>1, <3>3, <3>4
  <2>5. Precedes' = Precedes
    BY <2>4, <1>4, SamePairs
  <2> QED BY <2>5, <1>2
<1>10. CASE anchor.kind = "before"
  <2>1. n = anchor.neighbor /\ n \in Ticket
    BY <1>1, <1>10 DEF AnchorSlot, Anchor
  <2>2. n \in Members /\ n # t
    BY <2>1, <1>4, <1>6, <1>7
  <2>3. \A x \in Others(t) : x \in UpTo(t, p) <=> <<x, n>> \in Precedes
    BY <2>1, <2>2, <1>4, <1>5, <1>6, <1>7, <1>8
  <2>4. ASSUME NEW x \in Others(t)
        PROVE  x \notin UpTo(t, p) <=> x = n \/ <<n, x>> \in Precedes
    <3>1. x \in Members /\ (x \in UpTo(t, p) <=> rank[x] < rank[n])
      BY <2>2, <2>3, <1>4, <1>5
    <3>2. <<n, x>> \in Precedes <=> rank[n] < rank[x]
      BY <2>2, <3>1, <1>5
    <3> QED BY <2>2, <3>1, <3>2, <1>5
  <2> DEFINE M == Order!Without(t)
                 \cup ({y \in Members \ {t} : <<y, n>> \in Precedes} \X {t})
                 \cup ({t} \X {y \in Members \ {t} : y = n \/ <<n, y>> \in Precedes})
  <2>5. M \subseteq Members \X Members
    <3>1. \A S \in SUBSET Members : S \X {t} \subseteq Members \X Members
                                    /\ {t} \X S \subseteq Members \X Members
      BY <1>0
    <3>2. \A A, B, C : /\ A \subseteq Members \X Members
                       /\ B \subseteq Members \X Members
                       /\ C \subseteq Members \X Members
                       => A \cup B \cup C \subseteq Members \X Members
      OBVIOUS
    <3>3. /\ {y \in Members \ {t} : <<y, n>> \in Precedes} \X {t} \subseteq Members \X Members
          /\ {t} \X {y \in Members \ {t} : y = n \/ <<n, y>> \in Precedes} \subseteq Members \X Members
      BY <3>1
    <3> QED BY <1>4, <3>2, <3>3
  <2>6. \A a, b : <<a, b>> \in M <=>
          \/ <<a, b>> \in Order!Without(t)
          \/ b = t /\ a \in Members \ {t} /\ <<a, n>> \in Precedes
          \/ a = t /\ b \in Members \ {t} /\ (b = n \/ <<n, b>> \in Precedes)
    OBVIOUS
  <2> HIDE DEF M
  <2>7. \A a, b : <<a, b>> \in Precedes' <=> <<a, b>> \in M
    BY <2>3, <2>4, <2>6, <1>3, <1>4
  <2>8. Precedes' = M
    BY <2>5, <2>7, <1>4, SamePairs
  <2> QED BY <2>1, <2>2, <2>8, <1>0, <1>2 DEF Order!MoveBefore, M
<1>11. CASE anchor.kind = "after"
  <2>1. p = anchor.neighbor /\ p \in Ticket
    BY <1>1, <1>11 DEF AnchorSlot, Anchor
  <2>2. p \in Members /\ p # t
    BY <2>1, <1>4, <1>6, <1>7
  <2>3. \A x \in Others(t) : x \in UpTo(t, p) <=> x = p \/ <<x, p>> \in Precedes
    BY <2>1, <2>2, <1>4, <1>5, <1>6, <1>8
  <2>4. ASSUME NEW x \in Others(t)
        PROVE  x \notin UpTo(t, p) <=> <<p, x>> \in Precedes
    <3>1. x \in Members /\ (x \in UpTo(t, p) <=> x = p \/ rank[x] < rank[p])
      BY <2>2, <2>3, <1>4, <1>5
    <3>2. <<p, x>> \in Precedes <=> rank[p] < rank[x]
      BY <2>2, <3>1, <1>5
    <3> QED BY <2>2, <3>1, <3>2, <1>5
  <2> DEFINE M == Order!Without(t)
                 \cup ({y \in Members \ {t} : y = p \/ <<y, p>> \in Precedes} \X {t})
                 \cup ({t} \X {y \in Members \ {t} : <<p, y>> \in Precedes})
  <2>5. M \subseteq Members \X Members
    <3>1. \A S \in SUBSET Members : S \X {t} \subseteq Members \X Members
                                    /\ {t} \X S \subseteq Members \X Members
      BY <1>0
    <3>2. \A A, B, C : /\ A \subseteq Members \X Members
                       /\ B \subseteq Members \X Members
                       /\ C \subseteq Members \X Members
                       => A \cup B \cup C \subseteq Members \X Members
      OBVIOUS
    <3>3. /\ {y \in Members \ {t} : y = p \/ <<y, p>> \in Precedes} \X {t} \subseteq Members \X Members
          /\ {t} \X {y \in Members \ {t} : <<p, y>> \in Precedes} \subseteq Members \X Members
      BY <3>1
    <3> QED BY <1>4, <3>2, <3>3
  <2>6. \A a, b : <<a, b>> \in M <=>
          \/ <<a, b>> \in Order!Without(t)
          \/ b = t /\ a \in Members \ {t} /\ (a = p \/ <<a, p>> \in Precedes)
          \/ a = t /\ b \in Members \ {t} /\ <<p, b>> \in Precedes
    OBVIOUS
  <2> HIDE DEF M
  <2>7. \A a, b : <<a, b>> \in Precedes' <=> <<a, b>> \in M
    BY <2>3, <2>4, <2>6, <1>3, <1>4
  <2>8. Precedes' = M
    BY <2>5, <2>7, <1>4, SamePairs
  <2> QED BY <2>1, <2>2, <2>8, <1>0, <1>2 DEF Order!MoveAfter, M
<1> QED BY <1>9, <1>10, <1>11 DEF Anchor

\* Every step of the stored queue is a step of the abstract order or hides it.
THEOREM RanksImplementOrder == Spec => ImplementsOrder
<1>1. Init => Order!Init
  <2> SUFFICES ASSUME Init PROVE Members = {} /\ Precedes = {}
    BY DEF Order!Init
  <2>1. Members = {}
    BY DEF Init, Members
  <2> QED BY <2>1 DEF Precedes
<1>2. QueueInv /\ [Next]_vars => [Order!Next]_(Order!vars)
  <2> SUFFICES ASSUME QueueInv, [Next]_vars
               PROVE  Order!Next \/ UNCHANGED <<Members, Precedes>>
    BY DEF Order!vars
  <2>1. CASE UNCHANGED vars
    BY <2>1 DEF vars, Members, Precedes, Ahead
  <2>2. ASSUME NEW c \in Client, ReadBoard(c) PROVE UNCHANGED <<Members, Precedes>>
    BY <2>2 DEF ReadBoard, Members, Precedes, Ahead
  <2>3. ASSUME NEW c \in Client, NEW t \in Ticket, ApproveReadyToTodo(c, t) PROVE Order!Next
    BY <2>3, ApproveEnters DEF Order!Next
  <2>4. ASSUME NEW c \in Client, NEW t \in Ticket, RemoveFromTodo(c, t) PROVE Order!Next
    BY <2>4, RemoveIsLeave DEF Order!Next
  <2>5. ASSUME NEW c \in Client, NEW t \in Ticket, NEW anchor \in Anchor, ReorderTodo(c, t, anchor)
        PROVE  Order!Next \/ UNCHANGED <<Members, Precedes>>
    BY <2>5, ReorderMoves DEF Order!Next
  <2> QED BY <2>1, <2>2, <2>3, <2>4, <2>5 DEF Next
<1> QED BY <1>1, <1>2, QueueInvariant, PTL DEF Spec, ImplementsOrder, Order!Spec

-----------------------------------------------------------------------------
(***************************************************************************)
(* DependencyLocks                                                         *)
(***************************************************************************)

\* The command has decided, under the locks of its plan, to write.
Decided == {"admitted", "ready"}

USE DEF Decided

(* A session holds the locks of its plan that it has taken, and a session  *)
(* that decided has taken them all; an idle session holds none.            *)
LocksHeldBy(s) ==
    /\ tx[s].pc = "idle" => \A r \in Resource : lock[r] # s
    /\ tx[s].pc # "idle" =>
         /\ tx[s].taken \in 0..Len(Plan(tx[s]))
         /\ \A i \in 1..tx[s].taken : lock[Plan(tx[s])[i]] = s
    /\ tx[s].pc \in Decided => tx[s].taken = Len(Plan(tx[s]))

(* A row that a session has read under its lock is the committed row, but  *)
(* for the floor that a classification has evaluated and not yet written.  *)
RowsCurrentFor(s) ==
    tx[s].pc # "idle" =>
      /\ lock[TicketRow(tx[s].ticket)] = s =>
           /\ tx[s].row.version = ticket[tx[s].ticket].version
           /\ tx[s].row.lane = ticket[tx[s].ticket].lane
           /\ tx[s].row.archived = ticket[tx[s].ticket].archived
           /\ tx[s].op # "classify" => tx[s].row.floor = ticket[tx[s].ticket].floor
      /\ lock[TicketRow(tx[s].blocker)] = s =>
           tx[s].blockerRow = ticket[tx[s].blocker]

(* A removal names a row of the edge table, and that row's endpoints.      *)
EdgeNamedBy(s) ==
    tx[s].pc # "idle" /\ tx[s].op = "remove" =>
      /\ tx[s].edge \in DOMAIN edge /\ tx[s].edge \in 1..MaxEdge
      /\ edge[tx[s].edge].dependent = tx[s].ticket
      /\ edge[tx[s].edge].blocker = tx[s].blocker

(* What a command decided under its locks stays true until it commits. *)
AdmissionStandsFor(s) ==
    tx[s].pc \in Decided =>
      /\ tx[s].op = "add" =>
           /\ <<tx[s].ticket, tx[s].blocker>> \notin ActiveEdges
           /\ ~tx[s].row.archived /\ ~tx[s].blockerRow.archived
           /\ ~DependencyCreatesCycle(tx[s].ticket, tx[s].blocker)
      /\ tx[s].op = "remove" => ~tx[s].row.archived /\ ~tx[s].blockerRow.archived
      /\ tx[s].op = "archive" => \A d \in TicketId : <<d, tx[s].ticket>> \notin ActiveEdges
      /\ tx[s].op = "restore" => tx[s].row.archived
      /\ tx[s].op = "classify" => tx[s].row.lane = "backlog"
      /\ tx[s].op = "approve" =>
           ~tx[s].row.archived /\ tx[s].row.floor = FloorNow(tx[s].ticket)
      /\ tx[s].op = "reorder" => tx[s].row.lane = "todo"

(* Two active rows are of different dependencies. *)
UniqueActive ==
    \A i, j \in DOMAIN edge :
        /\ edge[i].active /\ edge[j].active
        /\ edge[i].dependent = edge[j].dependent /\ edge[i].blocker = edge[j].blocker
        => i = j

(* The inductive invariant. *)
LocksInv ==
    /\ LocksTypeOK
    /\ \A s \in Session :
         LocksHeldBy(s) /\ RowsCurrentFor(s) /\ EdgeNamedBy(s) /\ AdmissionStandsFor(s)
    /\ UniqueActive
    /\ Abstract!Acyclic(ActiveEdges)
    /\ TodoMatchesGraph

-----------------------------------------------------------------------------
(* Operators. *)

(* The names of the locks do not collide. *)
LEMMA LockNames ==
    /\ \A t, u \in TicketId : TicketRow(t) = TicketRow(u) => t = u
    /\ \A t \in TicketId : TicketRow(t) \in Resource /\ TicketRow(t) # Graph /\ TicketRow(t) # Header
    /\ \A e \in 1..MaxEdge : EdgeRowLock(e) \in Resource
    /\ Graph \in Resource /\ Header \in Resource /\ Graph # Header
  BY DEF TicketRow, EdgeRowLock, Graph, Header, Resource

(* A plan: at least one lock and at most four, the ticket's row among      *)
(* them, and what else its command reads.                                  *)
LEMMA PlanFacts ==
    ASSUME NEW t \in Tx
    PROVE  /\ Len(Plan(t)) \in 1..4
           /\ t.op = "remove" => Len(Plan(t)) = 4
           /\ \E i \in 1..Len(Plan(t)) : Plan(t)[i] = TicketRow(t.ticket)
           /\ t.op \in {"add", "remove"} =>
                \E i \in 1..Len(Plan(t)) : Plan(t)[i] = TicketRow(t.blocker)
           /\ t.op \in {"add", "remove", "archive"} =>
                \E i \in 1..Len(Plan(t)) : Plan(t)[i] = Graph
           /\ (t.op = "remove" => t.edge \in 1..MaxEdge) =>
                \A i \in 1..Len(Plan(t)) : Plan(t)[i] \in Resource
<1>1. t.op \in Op /\ t.ticket \in TicketId /\ t.blocker \in TicketId
  BY DEF Tx
<1>2. PICK a, b : /\ EndpointRows(t) = <<a, b>> /\ a \in Resource /\ b \in Resource
                  /\ {a, b} = {TicketRow(t.ticket), TicketRow(t.blocker)}
  <2>1. CASE t.ticket < t.blocker
    BY <1>1, <2>1, LockNames DEF EndpointRows
  <2>2. CASE ~(t.ticket < t.blocker)
    BY <1>1, <2>2, LockNames DEF EndpointRows
  <2> QED  BY <2>1, <2>2
<1>3. EndpointRows(t)[1] = a /\ EndpointRows(t)[2] = b
  BY <1>2
<1>4. CASE t.op = "add"
  <2>1. Plan(t) = <<a, b, Graph>>
    BY <1>3, <1>4 DEF Plan
  <2>2. Len(Plan(t)) = 3 /\ Plan(t)[1] = a /\ Plan(t)[2] = b /\ Plan(t)[3] = Graph
    BY <2>1
  <2>3. \A i \in 1..3 : i = 1 \/ i = 2 \/ i = 3
    OBVIOUS
  <2> HIDE DEF Plan
  <2>4. /\ \E i \in 1..3 : Plan(t)[i] = TicketRow(t.ticket)
        /\ \E i \in 1..3 : Plan(t)[i] = TicketRow(t.blocker)
        /\ \E i \in 1..3 : Plan(t)[i] = Graph
        /\ \A i \in 1..3 : Plan(t)[i] \in Resource
    BY <1>2, <2>2, <2>3, LockNames
  <2> QED  BY <1>4, <2>2, <2>4
<1>5. CASE t.op = "remove"
  <2>1. Plan(t) = <<EdgeRowLock(t.edge), a, b, Graph>>
    BY <1>3, <1>5 DEF Plan
  <2>2. /\ Len(Plan(t)) = 4 /\ Plan(t)[1] = EdgeRowLock(t.edge)
        /\ Plan(t)[2] = a /\ Plan(t)[3] = b /\ Plan(t)[4] = Graph
    BY <2>1
  <2>3. \A i \in 1..4 : i = 1 \/ i = 2 \/ i = 3 \/ i = 4
    OBVIOUS
  <2> HIDE DEF Plan
  <2>4. /\ \E i \in 1..4 : Plan(t)[i] = TicketRow(t.ticket)
        /\ \E i \in 1..4 : Plan(t)[i] = TicketRow(t.blocker)
        /\ \E i \in 1..4 : Plan(t)[i] = Graph
    BY <1>2, <2>2
  <2>5. t.edge \in 1..MaxEdge => \A i \in 1..4 : Plan(t)[i] \in Resource
    BY <1>2, <2>2, <2>3, LockNames
  <2> QED  BY <1>5, <2>2, <2>4, <2>5
<1>6. CASE t.op = "archive"
  <2>1. Plan(t) = <<TicketRow(t.ticket), Graph>>
    BY <1>6 DEF Plan
  <2>2. Len(Plan(t)) = 2 /\ Plan(t)[1] = TicketRow(t.ticket) /\ Plan(t)[2] = Graph
    BY <2>1
  <2> HIDE DEF Plan
  <2> QED  BY <1>1, <1>6, <2>2, LockNames
<1>7. CASE t.op \notin {"add", "remove", "archive"}
  <2>1. Plan(t) = <<TicketRow(t.ticket)>>
    BY <1>7 DEF Plan
  <2>2. Len(Plan(t)) = 1 /\ Plan(t)[1] = TicketRow(t.ticket)
    BY <2>1
  <2> HIDE DEF Plan
  <2> QED  BY <1>1, <1>7, <2>2, LockNames
<1> QED
  BY <1>4, <1>5, <1>6, <1>7

(* A plan depends on the command and what it names. *)
LEMMA PlanSame ==
    ASSUME NEW t, NEW u, t.op = u.op, t.ticket = u.ticket, t.blocker = u.blocker, t.edge = u.edge
    PROVE  Plan(t) = Plan(u)
  BY DEF Plan, EndpointRows

(* The active dependencies are those of the active rows. *)
LEMMA ActiveMeans ==
    ASSUME LocksTypeOK
    PROVE  /\ \A d, b : <<d, b>> \in ActiveEdges <=>
                \E i \in DOMAIN edge : edge[i].active /\ edge[i].dependent = d /\ edge[i].blocker = b
           /\ ActiveEdges \subseteq TicketId \X TicketId
<1>1. \A i \in DOMAIN edge : edge[i] \in EdgeRow
  BY DEF LocksTypeOK
<1>2. \A d, b : <<d, b>> \in ActiveEdges <=>
                \E i \in DOMAIN edge : edge[i].active /\ edge[i].dependent = d /\ edge[i].blocker = b
  BY DEF ActiveEdges
<1>3. ActiveEdges \subseteq TicketId \X TicketId
  BY <1>1 DEF ActiveEdges, EdgeRow
<1> QED
  BY <1>2, <1>3

(* The same after a step. *)
LEMMA ActiveMeansAfter ==
    ASSUME LocksTypeOK'
    PROVE  /\ \A d, b : <<d, b>> \in ActiveEdges' <=>
                \E i \in DOMAIN edge' : edge'[i].active /\ edge'[i].dependent = d /\ edge'[i].blocker = b
           /\ ActiveEdges' \subseteq TicketId \X TicketId
<1>1. \A i \in DOMAIN edge' : edge'[i] \in EdgeRow
  BY DEF LocksTypeOK
<1>2. \A d, b : <<d, b>> \in ActiveEdges' <=>
                \E i \in DOMAIN edge' : edge'[i].active /\ edge'[i].dependent = d /\ edge'[i].blocker = b
  BY DEF ActiveEdges
<1>3. ActiveEdges' \subseteq TicketId \X TicketId
  BY <1>1 DEF ActiveEdges, EdgeRow
<1> QED
  BY <1>2, <1>3

(* An edge whose blocker cannot reach its dependent closes no cycle. *)
LEMMA AddKeepsAcyclic ==
    ASSUME NEW E, Abstract!Acyclic(E),
           NEW d \in TicketId, NEW b \in TicketId, NEW C \in SUBSET TicketId,
           b \in C, d \notin C, \A t, u \in TicketId : <<t, u>> \in E /\ t \in C => u \in C
    PROVE  Abstract!Acyclic(E \cup {<<d, b>>})
<1> SUFFICES ASSUME NEW S \in SUBSET TicketId,
                    \A t \in S : \E u \in S : <<t, u>> \in E \cup {<<d, b>>}
             PROVE  S = {}
  BY DEF Abstract!Acyclic
<1>1. \A t \in S : \E u \in S : <<t, u>> \in E \/ (t = d /\ u = b)
  OBVIOUS
<1>2. \A t \in S \cap C : \E u \in S \cap C : <<t, u>> \in E
  BY <1>1
<1>3. S \cap C = {}
  <2>1. S \cap C \in SUBSET TicketId
    OBVIOUS
  <2> QED  BY <1>2, <2>1 DEF Abstract!Acyclic
<1>4. \A t \in S : \E u \in S : <<t, u>> \in E
  BY <1>1, <1>3
<1> QED
  BY <1>4 DEF Abstract!Acyclic

(* Fewer edges close no cycle either. *)
LEMMA FewerKeepAcyclic ==
    ASSUME NEW E, NEW F, F \subseteq E, Abstract!Acyclic(E)
    PROVE  Abstract!Acyclic(F)
  BY DEF Abstract!Acyclic
-----------------------------------------------------------------------------
(* A command in flight waits for and holds resources; one that decided     *)
(* holds what its decision rests on.                                       *)
LEMMA InFlightFacts ==
    ASSUME LocksInv, NEW s \in Session, tx[s].pc # "idle"
    PROVE  /\ tx[s] \in Tx
           /\ \A i \in 1..Len(Plan(tx[s])) : Plan(tx[s])[i] \in Resource
           /\ tx[s].pc \in Decided => tx[s].taken = Len(Plan(tx[s]))
           /\ tx[s].taken = Len(Plan(tx[s])) =>
                /\ lock[TicketRow(tx[s].ticket)] = s
                /\ tx[s].op \in {"add", "remove"} => lock[TicketRow(tx[s].blocker)] = s
                /\ tx[s].op \in {"add", "remove", "archive"} => lock[Graph] = s
<1>1. tx[s] \in Tx /\ LocksHeldBy(s) /\ EdgeNamedBy(s)
  BY DEF LocksInv, LocksTypeOK
<1>2. \A i \in 1..Len(Plan(tx[s])) : Plan(tx[s])[i] \in Resource
  BY <1>1, PlanFacts DEF EdgeNamedBy
<1>3. ASSUME tx[s].taken = Len(Plan(tx[s]))
      PROVE  /\ lock[TicketRow(tx[s].ticket)] = s
             /\ tx[s].op \in {"add", "remove"} => lock[TicketRow(tx[s].blocker)] = s
             /\ tx[s].op \in {"add", "remove", "archive"} => lock[Graph] = s
  <2>1. \A i \in 1..Len(Plan(tx[s])) : lock[Plan(tx[s])[i]] = s
    BY <1>1, <1>3 DEF LocksHeldBy
  <2> QED  BY <1>1, <2>1, PlanFacts
<1> QED
  BY <1>1, <1>2, <1>3 DEF LocksHeldBy

(* Another session keeps the locks it has: they change hands only when     *)
(* their holder gives them back.                                           *)
LEMMA OthersHoldOn ==
    ASSUME LocksInv, NEW s \in Session, NEW q \in Session, q # s, tx'[q] = tx[q],
           \A r \in Resource : lock'[r] = q <=> lock[r] = q
    PROVE  LocksHeldBy(q)'
<1>1. LocksHeldBy(q) /\ tx[q] \in Tx
  BY DEF LocksInv, LocksTypeOK
<1>2. CASE tx[q].pc = "idle"
  BY <1>1, <1>2 DEF LocksHeldBy, Decided
<1>3. CASE tx[q].pc # "idle"
  <2>1. \A i \in 1..Len(Plan(tx[q])) : Plan(tx[q])[i] \in Resource
    BY <1>3, InFlightFacts
  <2>2. tx[q].taken \in 0..Len(Plan(tx[q])) /\ \A i \in 1..tx[q].taken : lock[Plan(tx[q])[i]] = q
    BY <1>1, <1>3 DEF LocksHeldBy
  <2>3. \A i \in 1..tx[q].taken : i \in 1..Len(Plan(tx[q]))
    BY <1>1, <2>2, PlanFacts
  <2>4. \A i \in 1..tx[q].taken : lock'[Plan(tx[q])[i]] = q
    BY <2>1, <2>2, <2>3
  <2> QED  BY <1>1, <1>3, <2>2, <2>4 DEF LocksHeldBy, Plan, EndpointRows
<1> QED
  BY <1>2, <1>3

(* A step of one session that writes nothing: what has to be shown of that *)
(* session.                                                                *)
LEMMA ReadOnlyKeeps ==
    ASSUME LocksInv, NEW s \in Session, NEW x \in Tx,
           tx' = [tx EXCEPT ![s] = x], UNCHANGED <<ticket, edge, queue>>,
           lock' \in [Resource -> Session \cup {NoSession}],
           \A r \in Resource : \A q \in Session \ {s} : lock'[r] = q <=> lock[r] = q,
           LocksHeldBy(s)', RowsCurrentFor(s)', EdgeNamedBy(s)', AdmissionStandsFor(s)'
    PROVE  LocksInv'
<1>1. /\ tx \in [Session -> Tx] /\ tx'[s] = x /\ tx' \in [Session -> Tx]
      /\ \A q \in Session \ {s} : tx'[q] = tx[q]
  BY DEF LocksInv, LocksTypeOK
<1>2. LocksTypeOK'
  BY <1>1 DEF LocksInv, LocksTypeOK
<1>3. ActiveEdges' = ActiveEdges
  BY DEF ActiveEdges
<1>4. ASSUME NEW q \in Session, q # s
      PROVE  LocksHeldBy(q)' /\ RowsCurrentFor(q)' /\ EdgeNamedBy(q)' /\ AdmissionStandsFor(q)'
  <2>1. /\ tx'[q] = tx[q] /\ tx[q] \in Tx
        /\ LocksHeldBy(q) /\ RowsCurrentFor(q) /\ EdgeNamedBy(q) /\ AdmissionStandsFor(q)
    BY <1>1, <1>4 DEF LocksInv
  <2>2. LocksHeldBy(q)'
    BY <1>4, <2>1, OthersHoldOn
  <2>3. RowsCurrentFor(q)'
    <3>1. TicketRow(tx[q].ticket) \in Resource /\ TicketRow(tx[q].blocker) \in Resource
      BY <2>1, LockNames DEF Tx
    <3> QED  BY <1>4, <2>1, <3>1 DEF RowsCurrentFor, TicketRow
  <2>4. EdgeNamedBy(q)'
    BY <2>1 DEF EdgeNamedBy
  <2>5. AdmissionStandsFor(q)'
    BY <1>3, <2>1 DEF AdmissionStandsFor, DependencyCreatesCycle, ClosedUnderBlockers, FloorNow
  <2> QED  BY <2>2, <2>3, <2>4, <2>5
<1>5. \A q \in Session :
        LocksHeldBy(q)' /\ RowsCurrentFor(q)' /\ EdgeNamedBy(q)' /\ AdmissionStandsFor(q)'
  BY <1>4
<1>6. UniqueActive' /\ Abstract!Acyclic(ActiveEdges)'
  BY <1>3 DEF LocksInv, UniqueActive, Abstract!Acyclic
<1>7. TodoMatchesGraph'
  BY <1>3 DEF LocksInv, TodoMatchesGraph, FloorNow
<1> QED
  BY <1>2, <1>5, <1>6, <1>7 DEF LocksInv

(* What the end of a transaction does to the locks and the session. *)
LEMMA ReleaseFacts ==
    ASSUME LocksInv, NEW s \in Session, Release(s)
    PROVE  /\ IdleTx(tx[s].ticket) \in Tx
           /\ tx' = [tx EXCEPT ![s] = IdleTx(tx[s].ticket)]
           /\ tx'[s].pc = "idle" /\ \A q \in Session \ {s} : tx'[q] = tx[q]
           /\ tx' \in [Session -> Tx]
           /\ lock' \in [Resource -> Session \cup {NoSession}]
           /\ \A r \in Resource : lock'[r] # s
           /\ \A r \in Resource : \A q \in Session \ {s} : lock'[r] = q <=> lock[r] = q
<1>1. tx \in [Session -> Tx] /\ lock \in [Resource -> Session \cup {NoSession}]
  BY DEF LocksInv, LocksTypeOK
<1>2. NewRow \in Row
  BY DEF NewRow, Row, Floor
<1>3. IdleTx(tx[s].ticket) \in Tx /\ IdleTx(tx[s].ticket).pc = "idle"
  BY <1>1, <1>2, LocksAssumption DEF IdleTx, Tx, Op
<1>4. tx' = [tx EXCEPT ![s] = IdleTx(tx[s].ticket)]
  BY <1>1 DEF Release
<1>5. lock' = [r \in Resource |-> IF lock[r] = s THEN NoSession ELSE lock[r]]
  BY DEF Release
<1>6. \A r \in Resource : lock'[r] = IF lock[r] = s THEN NoSession ELSE lock[r]
  BY <1>5
<1>7. lock' \in [Resource -> Session \cup {NoSession}]
  BY <1>1, <1>5
<1>8. \A r \in Resource : lock'[r] # s
  BY <1>6, LocksAssumption
<1>9. \A r \in Resource : \A q \in Session \ {s} : lock'[r] = q <=> lock[r] = q
  BY <1>6, LocksAssumption
<1>10. tx'[s].pc = "idle" /\ tx' \in [Session -> Tx] /\ \A q \in Session \ {s} : tx'[q] = tx[q]
  BY <1>1, <1>3, <1>4
<1> QED
  BY <1>3, <1>4, <1>7, <1>8, <1>9, <1>10

(* A session that is idle afterwards and holds nothing. *)
LEMMA IdleFits ==
    ASSUME NEW s \in Session, tx'[s].pc = "idle", \A r \in Resource : lock'[r] # s
    PROVE  LocksHeldBy(s)' /\ RowsCurrentFor(s)' /\ EdgeNamedBy(s)' /\ AdmissionStandsFor(s)'
  BY DEF LocksHeldBy, RowsCurrentFor, EdgeNamedBy, AdmissionStandsFor, Decided

(* A transaction that ends without writing: a rejection or a rollback. *)
LEMMA EndKeeps ==
    ASSUME LocksInv, NEW s \in Session, Release(s), UNCHANGED <<ticket, edge, queue>>
    PROVE  LocksInv'
  BY ReleaseFacts, IdleFits, ReadOnlyKeeps

(* A client sends a command: the session holds nothing yet. *)
LEMMA SendKeeps ==
    ASSUME LocksInv, NEW s \in Session, NEW c \in Command, NEW e \in 0..MaxEdge, Send(s, c, e)
    PROVE  LocksInv'
<1> DEFINE x == [IdleTx(c.ticket) EXCEPT !.pc = "locking", !.op = c.op, !.blocker = c.blocker,
                    !.edge = e, !.version = ticket[c.ticket].version,
                    !.blockerVersion = ticket[c.blocker].version,
                    !.queueVersion = queue.version]
<1>1. c.op \in Op /\ c.ticket \in TicketId /\ c.blocker \in TicketId
  BY LocksAssumption
<1>2. /\ NewRow \in Row /\ ticket[c.ticket].version \in Nat /\ ticket[c.blocker].version \in Nat
      /\ queue.version \in Nat
  BY <1>1 DEF LocksInv, LocksTypeOK, NewRow, Row, Floor
<1>3. /\ x \in Tx /\ x.pc = "locking" /\ x.op = c.op /\ x.ticket = c.ticket
      /\ x.blocker = c.blocker /\ x.edge = e /\ x.taken = 0
  BY <1>1, <1>2 DEF IdleTx, Tx
<1>4. tx' = [tx EXCEPT ![s] = x] /\ lock' = lock /\ UNCHANGED <<ticket, edge, queue>>
  BY DEF Send
<1> HIDE DEF x
<1>5. /\ tx'[s] = x /\ lock' \in [Resource -> Session \cup {NoSession}]
      /\ \A r \in Resource : lock'[r] # s
  BY <1>4 DEF LocksInv, LocksTypeOK, LocksHeldBy, Send
<1>6. LocksHeldBy(s)'
  <2>1. Len(Plan(x)) \in Nat
    BY <1>3, PlanFacts
  <2>2. Plan(tx[s])' = Plan(x)
    BY <1>5 DEF Plan, EndpointRows
  <2> QED  BY <1>3, <1>5, <2>1, <2>2 DEF LocksHeldBy, Decided
<1>7. RowsCurrentFor(s)'
  <2>1. TicketRow(x.ticket) \in Resource /\ TicketRow(x.blocker) \in Resource
    BY <1>1, <1>3, LockNames
  <2> QED  BY <1>5, <2>1 DEF RowsCurrentFor, TicketRow
<1>8. EdgeNamedBy(s)'
  <2>1. c.op = "remove" => /\ e \in DOMAIN edge
                           /\ edge[e].dependent = c.ticket /\ edge[e].blocker = c.blocker
    BY DEF Send
  <2>2. c.op = "remove" => e \in 1..MaxEdge
    <3>1. edge \in Seq(EdgeRow)
      BY DEF LocksInv, LocksTypeOK
    <3> QED  BY <2>1, <3>1, LocksAssumption
  <2> QED  BY <1>3, <1>4, <1>5, <2>1, <2>2 DEF EdgeNamedBy
<1>9. AdmissionStandsFor(s)'
  BY <1>3, <1>5 DEF AdmissionStandsFor, Decided
<1> QED
  BY <1>3, <1>4, <1>5, <1>6, <1>7, <1>8, <1>9, ReadOnlyKeeps

(* A lock that is free is taken, and the row behind it read. *)
LEMMA TakeLockKeeps ==
    ASSUME LocksInv, NEW s \in Session, TakeLock(s)
    PROVE  LocksInv'
<1> DEFINE t == tx[s]
           r == Plan(t)[t.taken + 1]
           x == [t EXCEPT !.taken = @ + 1,
                          !.row = IF r = TicketRow(t.ticket) THEN ticket[t.ticket] ELSE @,
                          !.blockerRow = IF r = TicketRow(t.blocker) THEN ticket[t.blocker] ELSE @]
<1>1. /\ t.pc = "locking" /\ t.taken < Len(Plan(t)) /\ lock[r] = NoSession
      /\ lock' = [lock EXCEPT ![r] = s] /\ tx' = [tx EXCEPT ![s] = x]
      /\ UNCHANGED <<ticket, edge, queue>>
  BY DEF TakeLock, Lockable, LocksInv, LocksTypeOK
<1>2. /\ t \in Tx /\ LocksHeldBy(s) /\ RowsCurrentFor(s) /\ EdgeNamedBy(s)
      /\ ticket \in [TicketId -> Row] /\ lock \in [Resource -> Session \cup {NoSession}]
      /\ tx \in [Session -> Tx]
  BY DEF LocksInv, LocksTypeOK
<1>3. /\ Len(Plan(t)) \in 1..4 /\ t.taken \in 0..Len(Plan(t))
      /\ \A i \in 1..t.taken : lock[Plan(t)[i]] = s
      /\ \A i \in 1..Len(Plan(t)) : Plan(t)[i] \in Resource
  BY <1>1, <1>2, PlanFacts, InFlightFacts DEF LocksHeldBy
<1>4. r \in Resource
  <2>1. t.taken + 1 \in 1..Len(Plan(t))
    BY <1>1, <1>3
  <2> QED  BY <1>3, <2>1
<1>5. t.ticket \in TicketId /\ t.blocker \in TicketId /\ t.row \in Row /\ t.blockerRow \in Row
  BY <1>2 DEF Tx
<1>6. /\ x \in Tx /\ x.pc = "locking" /\ x.op = t.op /\ x.ticket = t.ticket
      /\ x.blocker = t.blocker /\ x.edge = t.edge /\ x.taken = t.taken + 1
      /\ x.row = (IF r = TicketRow(t.ticket) THEN ticket[t.ticket] ELSE t.row)
      /\ x.blockerRow = (IF r = TicketRow(t.blocker) THEN ticket[t.blocker] ELSE t.blockerRow)
  <2> DEFINE row == IF r = TicketRow(t.ticket) THEN ticket[t.ticket] ELSE t.row
             blockerRow == IF r = TicketRow(t.blocker) THEN ticket[t.blocker] ELSE t.blockerRow
  <2>1. row \in Row /\ blockerRow \in Row
    BY <1>2, <1>5
  <2>2. x = [t EXCEPT !.taken = t.taken + 1, !.row = row, !.blockerRow = blockerRow]
    OBVIOUS
  <2>3. t.taken + 1 \in Nat
    BY <1>3
  <2> HIDE DEF row, blockerRow, x, t
  <2>4. x = [pc |-> t.pc, op |-> t.op, ticket |-> t.ticket, blocker |-> t.blocker,
             edge |-> t.edge, version |-> t.version, blockerVersion |-> t.blockerVersion,
             queueVersion |-> t.queueVersion, taken |-> t.taken + 1,
             row |-> row, blockerRow |-> blockerRow]
    BY <1>2, <2>2 DEF Tx
  <2>5. /\ t.pc \in {"idle", "locking", "admitted", "ready"} /\ t.op \in Op
        /\ t.ticket \in TicketId /\ t.blocker \in TicketId /\ t.edge \in 0..MaxEdge
        /\ t.version \in Nat /\ t.blockerVersion \in Nat /\ t.queueVersion \in Nat
    BY <1>2 DEF Tx
  <2>6. x \in Tx
    BY <2>1, <2>3, <2>4, <2>5 DEF Tx
  <2> QED  BY <1>1, <2>4, <2>6 DEF row, blockerRow
<1> HIDE DEF x
<1>7. Plan(x) = Plan(t)
  BY <1>6, PlanSame
<1>8. /\ tx'[s] = x /\ lock' \in [Resource -> Session \cup {NoSession}]
      /\ lock'[r] = s /\ \A q \in Resource \ {r} : lock'[q] = lock[q]
  BY <1>1, <1>2, <1>4
<1>9. \A q \in Resource : \A p \in Session \ {s} : lock'[q] = p <=> lock[q] = p
  BY <1>1, <1>8, LocksAssumption
<1>10. LocksHeldBy(s)'
  <2>1. Plan(tx[s])' = Plan(t)
    BY <1>7, <1>8 DEF Plan, EndpointRows
  <2>2. \A i \in 1..(t.taken + 1) : lock'[Plan(t)[i]] = s
    <3> SUFFICES ASSUME NEW i \in 1..(t.taken + 1) PROVE lock'[Plan(t)[i]] = s
      OBVIOUS
    <3>1. CASE i = t.taken + 1
      BY <1>8, <3>1
    <3>2. CASE i # t.taken + 1
      <4>1. i \in 1..t.taken /\ i \in 1..Len(Plan(t))
        BY <1>3, <3>2
      <4>2. lock[Plan(t)[i]] = s /\ Plan(t)[i] \in Resource
        BY <1>3, <4>1
      <4> QED  BY <1>8, <4>2
    <3> QED  BY <3>1, <3>2
  <2>3. t.taken + 1 \in 0..Len(Plan(t))
    BY <1>1, <1>3
  <2> QED  BY <1>6, <1>8, <2>1, <2>2, <2>3 DEF LocksHeldBy, Decided
<1>11. RowsCurrentFor(s)'
  <2>1. TicketRow(t.ticket) \in Resource /\ TicketRow(t.blocker) \in Resource
    BY <1>5, LockNames
  <2> SUFFICES
        /\ lock'[TicketRow(t.ticket)] = s =>
             /\ x.row.version = ticket[t.ticket].version
             /\ x.row.lane = ticket[t.ticket].lane
             /\ x.row.archived = ticket[t.ticket].archived
             /\ t.op # "classify" => x.row.floor = ticket[t.ticket].floor
        /\ lock'[TicketRow(t.blocker)] = s => x.blockerRow = ticket[t.blocker]
    BY <1>1, <1>6, <1>8 DEF RowsCurrentFor, TicketRow
  <2>2. r = TicketRow(t.ticket) => x.row = ticket[t.ticket]
    BY <1>6
  <2>3. r # TicketRow(t.ticket) =>
          x.row = t.row /\ lock'[TicketRow(t.ticket)] = lock[TicketRow(t.ticket)]
    BY <1>6, <1>8, <2>1
  <2>4. r = TicketRow(t.blocker) => x.blockerRow = ticket[t.blocker]
    BY <1>6
  <2>5. r # TicketRow(t.blocker) =>
          x.blockerRow = t.blockerRow /\ lock'[TicketRow(t.blocker)] = lock[TicketRow(t.blocker)]
    BY <1>6, <1>8, <2>1
  <2>6. /\ lock[TicketRow(t.ticket)] = s =>
             /\ t.row.version = ticket[t.ticket].version
             /\ t.row.lane = ticket[t.ticket].lane
             /\ t.row.archived = ticket[t.ticket].archived
             /\ t.op # "classify" => t.row.floor = ticket[t.ticket].floor
        /\ lock[TicketRow(t.blocker)] = s => t.blockerRow = ticket[t.blocker]
    BY <1>1, <1>2 DEF RowsCurrentFor
  <2> HIDE DEF r, t
  <2> QED  BY <2>2, <2>3, <2>4, <2>5, <2>6
<1>12. EdgeNamedBy(s)'
  BY <1>1, <1>2, <1>6, <1>8 DEF EdgeNamedBy
<1>13. AdmissionStandsFor(s)'
  BY <1>6, <1>8 DEF AdmissionStandsFor, Decided
<1> QED
  BY <1>1, <1>6, <1>8, <1>9, <1>10, <1>11, <1>12, <1>13, ReadOnlyKeeps

(* A decision is taken with every lock of the plan in hand. *)
LEMMA AdmitKeeps ==
    ASSUME LocksInv, NEW s \in Session, Admit(s)
    PROVE  LocksInv'
<1> DEFINE t == tx[s]
           place == IF NeedsHeader(t) THEN "admitted" ELSE "ready"
           floor == IF t.op = "classify" THEN FloorNow(t.ticket) ELSE t.row.floor
           row == [t.row EXCEPT !.floor = floor]
           x == [t EXCEPT !.pc = place, !.row = row]
<1>1. /\ t.pc = "locking" /\ t.taken = Len(Plan(t)) /\ ~RefusedEarly(t) /\ Admitted(t)
      /\ UNCHANGED <<ticket, edge, queue>> /\ lock' = lock
  BY DEF Admit, AllTaken
<1>2. /\ t \in Tx /\ t.row \in Row /\ LocksHeldBy(s) /\ RowsCurrentFor(s) /\ EdgeNamedBy(s)
      /\ lock \in [Resource -> Session \cup {NoSession}] /\ tx \in [Session -> Tx]
  BY DEF LocksInv, LocksTypeOK, Tx
<1>3. tx' = [tx EXCEPT ![s] = x]
  BY <1>2 DEF Admit
<1>4. place \in {"admitted", "ready"}
  OBVIOUS
<1>5. floor \in Floor
  BY <1>2 DEF Row, Floor, FloorNow
<1> HIDE DEF place, floor
<1>6. /\ row \in Row /\ row.version = t.row.version /\ row.lane = t.row.lane
      /\ row.archived = t.row.archived /\ row.floor = floor
  BY <1>2, <1>5 DEF Row
<1>7. t.op # "classify" => row.floor = t.row.floor
  BY <1>6 DEF floor
<1> HIDE DEF row, t
<1>8. /\ x \in Tx /\ x.pc = place /\ x.op = t.op /\ x.ticket = t.ticket /\ x.blocker = t.blocker
      /\ x.edge = t.edge /\ x.taken = t.taken /\ x.row = row /\ x.blockerRow = t.blockerRow
  <2>1. x = [pc |-> place, op |-> t.op, ticket |-> t.ticket, blocker |-> t.blocker,
             edge |-> t.edge, version |-> t.version, blockerVersion |-> t.blockerVersion,
             queueVersion |-> t.queueVersion, taken |-> t.taken,
             row |-> row, blockerRow |-> t.blockerRow]
    <3>1. t \in Tx
      BY <1>2
    <3>2. x = [t EXCEPT !.pc = place, !.row = row]
      OBVIOUS
    <3> HIDE DEF x
    <3> QED  BY ONLY <3>1, <3>2 DEF Tx
  <2> HIDE DEF x
  <2>2. /\ t.op \in Op /\ t.ticket \in TicketId /\ t.blocker \in TicketId /\ t.edge \in 0..MaxEdge
        /\ t.version \in Nat /\ t.blockerVersion \in Nat /\ t.queueVersion \in Nat
        /\ t.taken \in Nat /\ t.blockerRow \in Row
    BY <1>2 DEF Tx
  <2>3. x \in Tx
    BY <1>4, <1>6, <2>1, <2>2 DEF Tx
  <2> QED  BY <2>1, <2>3
<1> HIDE DEF x
<1>9. tx'[s] = x /\ Plan(x) = Plan(t) /\ Len(Plan(t)) \in 1..4
  BY <1>2, <1>3, <1>8, PlanSame, PlanFacts
<1>10. LocksHeldBy(s)'
  <2>1. Plan(tx[s])' = Plan(t)
    BY <1>9 DEF Plan, EndpointRows
  <2>2. t.taken \in 0..Len(Plan(t)) /\ \A i \in 1..t.taken : lock[Plan(t)[i]] = s
    BY <1>1, <1>2 DEF LocksHeldBy, t
  <2> QED  BY <1>1, <1>4, <1>8, <1>9, <2>1, <2>2 DEF LocksHeldBy
<1>11. /\ lock[TicketRow(t.ticket)] = s
       /\ t.op \in {"add", "remove"} => lock[TicketRow(t.blocker)] = s
  BY <1>1, InFlightFacts DEF t
<1>12. RowsCurrentFor(s)'
  <2>1. /\ t.row.version = ticket[t.ticket].version
        /\ t.row.lane = ticket[t.ticket].lane
        /\ t.row.archived = ticket[t.ticket].archived
        /\ t.op # "classify" => t.row.floor = ticket[t.ticket].floor
        /\ lock[TicketRow(t.blocker)] = s => t.blockerRow = ticket[t.blocker]
    BY <1>1, <1>2, <1>11 DEF RowsCurrentFor, t
  <2> QED  BY <1>1, <1>6, <1>7, <1>8, <1>9, <2>1 DEF RowsCurrentFor, TicketRow
<1>13. EdgeNamedBy(s)'
  BY <1>1, <1>2, <1>8, <1>9 DEF EdgeNamedBy, t
<1>14. AdmissionStandsFor(s)'
  <2>1. ActiveEdges' = ActiveEdges
    BY <1>1 DEF ActiveEdges
  <2>2. t.op = "remove" => ~t.row.archived /\ ~t.blockerRow.archived
    <3> SUFFICES ASSUME t.op = "remove" PROVE ~t.row.archived /\ ~t.blockerRow.archived
      OBVIOUS
    <3>1. t.taken = 4
      BY <1>1, <1>2, PlanFacts
    <3> QED  BY <1>1, <3>1 DEF RefusedEarly
  <2>3. /\ t.op = "add" =>
             /\ <<t.ticket, t.blocker>> \notin ActiveEdges
             /\ ~t.row.archived /\ ~t.blockerRow.archived
             /\ ~DependencyCreatesCycle(t.ticket, t.blocker)
        /\ t.op = "archive" => \A d \in TicketId : <<d, t.ticket>> \notin ActiveEdges
        /\ t.op = "restore" => t.row.archived
        /\ t.op = "classify" => t.row.lane = "backlog"
        /\ t.op = "approve" => ~t.row.archived /\ t.row.floor = FloorNow(t.ticket)
        /\ t.op = "reorder" => t.row.lane = "todo"
    BY <1>1 DEF Admitted
  <2>4. t.op = "approve" => row.floor = t.row.floor
    BY <1>7
  <2> QED  BY <1>6, <1>8, <1>9, <2>1, <2>2, <2>3, <2>4
           DEF AdmissionStandsFor, DependencyCreatesCycle, ClosedUnderBlockers, FloorNow
<1>15. \A r \in Resource : \A q \in Session \ {s} : lock'[r] = q <=> lock[r] = q
  BY <1>1
<1> QED
  BY <1>1, <1>2, <1>3, <1>8, <1>10, <1>12, <1>13, <1>14, <1>15, ReadOnlyKeeps

(* The queue's header is no lock of a plan. *)
LEMMA LockHeaderKeeps ==
    ASSUME LocksInv, NEW s \in Session, LockHeader(s)
    PROVE  LocksInv'
<1> DEFINE t == tx[s]
           x == [t EXCEPT !.pc = "ready"]
<1>1. /\ t.pc = "admitted" /\ lock[Header] = NoSession
      /\ UNCHANGED <<ticket, edge, queue>> /\ lock' = [lock EXCEPT ![Header] = s]
  BY DEF LockHeader, Lockable
<1>2. /\ t \in Tx /\ LocksHeldBy(s) /\ RowsCurrentFor(s) /\ EdgeNamedBy(s) /\ AdmissionStandsFor(s)
      /\ lock \in [Resource -> Session \cup {NoSession}] /\ tx \in [Session -> Tx]
  BY DEF LocksInv, LocksTypeOK
<1>3. tx' = [tx EXCEPT ![s] = x]
  BY <1>2 DEF LockHeader
<1>4. /\ lock'[Header] = s /\ \A r \in Resource \ {Header} : lock'[r] = lock[r]
      /\ lock' \in [Resource -> Session \cup {NoSession}]
  BY <1>1, <1>2, LockNames
<1> HIDE DEF t
<1>5. /\ x \in Tx /\ x.pc = "ready" /\ x.op = t.op /\ x.ticket = t.ticket /\ x.blocker = t.blocker
      /\ x.edge = t.edge /\ x.taken = t.taken /\ x.row = t.row /\ x.blockerRow = t.blockerRow
  BY <1>2 DEF Tx
<1> HIDE DEF x
<1>6. tx'[s] = x /\ Plan(x) = Plan(t)
  BY <1>2, <1>3, <1>5, PlanSame
<1>7. LocksHeldBy(s)'
  <2>1. Plan(tx[s])' = Plan(t)
    BY <1>6 DEF Plan, EndpointRows
  <2>2. /\ t.taken \in 0..Len(Plan(t)) /\ t.taken = Len(Plan(t))
        /\ \A i \in 1..t.taken : lock[Plan(t)[i]] = s
    BY <1>1, <1>2 DEF LocksHeldBy, t, Decided
  <2>3. \A i \in 1..t.taken : Plan(t)[i] \in Resource
    BY <1>1, <2>2, InFlightFacts DEF t
  <2>4. \A i \in 1..t.taken : lock'[Plan(t)[i]] = s
    BY <1>4, <2>2, <2>3
  <2> QED  BY <1>5, <1>6, <2>1, <2>2, <2>4 DEF LocksHeldBy
<1>8. RowsCurrentFor(s)'
  <2>1. /\ TicketRow(t.ticket) \in Resource \ {Header} /\ TicketRow(t.blocker) \in Resource \ {Header}
    BY <1>2, LockNames DEF Tx
  <2>2. /\ lock[TicketRow(t.ticket)] = s =>
             /\ t.row.version = ticket[t.ticket].version
             /\ t.row.lane = ticket[t.ticket].lane
             /\ t.row.archived = ticket[t.ticket].archived
             /\ t.op # "classify" => t.row.floor = ticket[t.ticket].floor
        /\ lock[TicketRow(t.blocker)] = s => t.blockerRow = ticket[t.blocker]
    BY <1>1, <1>2 DEF RowsCurrentFor, t
  <2> QED  BY <1>1, <1>4, <1>5, <1>6, <2>1, <2>2 DEF RowsCurrentFor, TicketRow
<1>9. EdgeNamedBy(s)'
  BY <1>1, <1>2, <1>5, <1>6 DEF EdgeNamedBy, t
<1>10. AdmissionStandsFor(s)'
  <2>1. ActiveEdges' = ActiveEdges
    BY <1>1 DEF ActiveEdges
  <2> QED  BY <1>1, <1>2, <1>5, <1>6, <2>1
           DEF AdmissionStandsFor, DependencyCreatesCycle, ClosedUnderBlockers, FloorNow, Decided, t
<1>11. \A r \in Resource : \A q \in Session \ {s} : lock'[r] = q <=> lock[r] = q
  BY <1>1, <1>4, LocksAssumption
<1> QED
  BY <1>1, <1>3, <1>4, <1>5, <1>7, <1>8, <1>9, <1>10, <1>11, ReadOnlyKeeps
-----------------------------------------------------------------------------
(* The commit. *)

(* The row a command leaves. *)
LEMMA RowAfterFacts ==
    ASSUME NEW t \in Tx
    PROVE  /\ RowAfter(t) \in Row
           /\ RowAfter(t).floor = t.row.floor
           /\ t.op = "archive" => RowAfter(t).archived = TRUE
           /\ t.op = "restore" => RowAfter(t).archived = FALSE
           /\ t.op \notin {"archive", "restore"} => RowAfter(t).archived = t.row.archived
           /\ t.op \in {"add", "remove", "archive", "restore"} => RowAfter(t).lane = "backlog"
           /\ t.op = "approve" => RowAfter(t).lane = "todo"
           /\ t.op \in {"classify", "reorder"} => RowAfter(t).lane = t.row.lane
<1> DEFINE row == [t.row EXCEPT !.version = @ + 1]
<1>1. t.row \in Row /\ t.op \in Op
  BY DEF Tx
<1>2. /\ row \in Row /\ row.floor = t.row.floor /\ row.archived = t.row.archived
      /\ row.lane = t.row.lane
  BY <1>1 DEF Row
<1> HIDE DEF row
<1>3. CASE t.op \in {"add", "remove"}
  <2>1. RowAfter(t) = [row EXCEPT !.lane = "backlog"]
    BY <1>3 DEF RowAfter, row
  <2> QED  BY <1>2, <1>3, <2>1 DEF Row
<1>4. CASE t.op = "archive"
  <2>1. RowAfter(t) = [row EXCEPT !.archived = TRUE, !.lane = "backlog"]
    BY <1>4 DEF RowAfter, row
  <2> QED  BY <1>2, <1>4, <2>1 DEF Row
<1>5. CASE t.op = "restore"
  <2>1. RowAfter(t) = [row EXCEPT !.archived = FALSE, !.lane = "backlog"]
    BY <1>5 DEF RowAfter, row
  <2> QED  BY <1>2, <1>5, <2>1 DEF Row
<1>6. CASE t.op = "approve"
  <2>1. RowAfter(t) = [row EXCEPT !.lane = "todo"]
    BY <1>6 DEF RowAfter, row
  <2> QED  BY <1>2, <1>6, <2>1 DEF Row
<1>7. CASE t.op \in {"classify", "reorder"}
  <2>1. RowAfter(t) = row
    BY <1>7 DEF RowAfter, row
  <2> QED  BY <1>2, <1>7, <2>1
<1> QED
  BY <1>1, <1>3, <1>4, <1>5, <1>6, <1>7 DEF Op

(* What a commit may rely on: its locks, its reads and its decision. *)
LEMMA CommitRests ==
    ASSUME LocksInv, NEW s \in Session, tx[s].pc = "ready"
    PROVE  /\ tx[s] \in Tx /\ tx[s].ticket \in TicketId /\ tx[s].blocker \in TicketId
           /\ tx[s].op \in Op
           /\ lock[TicketRow(tx[s].ticket)] = s
           /\ tx[s].op \in {"add", "remove", "archive"} => lock[Graph] = s
           /\ tx[s].row.lane = ticket[tx[s].ticket].lane
           /\ tx[s].row.archived = ticket[tx[s].ticket].archived
           /\ tx[s].op # "classify" => tx[s].row.floor = ticket[tx[s].ticket].floor
           /\ tx[s].op \in {"add", "remove"} => ticket[tx[s].blocker].archived = tx[s].blockerRow.archived
<1>1. /\ tx[s] \in Tx /\ tx[s].ticket \in TicketId /\ tx[s].blocker \in TicketId
      /\ tx[s].op \in Op /\ RowsCurrentFor(s)
  BY DEF LocksInv, LocksTypeOK, Tx
<1>2. /\ lock[TicketRow(tx[s].ticket)] = s
      /\ tx[s].op \in {"add", "remove"} => lock[TicketRow(tx[s].blocker)] = s
      /\ tx[s].op \in {"add", "remove", "archive"} => lock[Graph] = s
  BY InFlightFacts
<1> QED
  BY <1>1, <1>2 DEF RowsCurrentFor

(* The edge table after a commit: only an add and a removal change it, one *)
(* row each, and the set of active dependencies by one pair.               *)
LEMMA CommitEdges ==
    ASSUME LocksInv, NEW s \in Session, tx[s].pc = "ready", edge' = EdgesAfter(tx[s]),
           WritesMatch(tx[s])
    PROVE  /\ edge' \in Seq(EdgeRow)
           /\ DOMAIN edge \subseteq DOMAIN edge'
           /\ \A i \in DOMAIN edge : /\ edge'[i].dependent = edge[i].dependent
                                     /\ edge'[i].blocker = edge[i].blocker
           /\ UniqueActive'
           /\ tx[s].op \notin {"add", "remove"} => edge' = edge
           /\ tx[s].op = "add" =>
                ActiveEdges' = ActiveEdges \cup {<<tx[s].ticket, tx[s].blocker>>}
           /\ tx[s].op = "remove" =>
                ActiveEdges' = ActiveEdges \ {<<tx[s].ticket, tx[s].blocker>>}
<1> DEFINE d == tx[s].ticket
           b == tx[s].blocker
<1>1. /\ edge \in Seq(EdgeRow) /\ d \in TicketId /\ b \in TicketId /\ tx[s].op \in Op
      /\ UniqueActive /\ LocksTypeOK
  BY DEF LocksInv, LocksTypeOK, Tx
<1>2. \A x, y : <<x, y>> \in ActiveEdges <=>
          \E i \in DOMAIN edge : edge[i].active /\ edge[i].dependent = x /\ edge[i].blocker = y
  BY <1>1, ActiveMeans
<1>3. \A x, y : <<x, y>> \in ActiveEdges' <=>
          \E i \in DOMAIN edge' : edge'[i].active /\ edge'[i].dependent = x /\ edge'[i].blocker = y
  BY DEF ActiveEdges
<1>4. ASSUME tx[s].op = "add"
      PROVE  /\ edge' \in Seq(EdgeRow) /\ DOMAIN edge \subseteq DOMAIN edge'
             /\ \A i \in DOMAIN edge : edge'[i] = edge[i]
             /\ UniqueActive'
             /\ ActiveEdges' = ActiveEdges \cup {<<d, b>>}
  <2> DEFINE n == Len(edge)
             new == [dependent |-> d, blocker |-> b, active |-> TRUE]
  <2>1. edge' = Append(edge, new) /\ new \in EdgeRow
    BY <1>1, <1>4 DEF EdgesAfter, EdgeRow
  <2>2. new.dependent = d /\ new.blocker = b /\ new.active = TRUE
    OBVIOUS
  <2>3. n \in Nat /\ DOMAIN edge = 1..n
    BY <1>1
  <2> HIDE DEF new
  <2>4. /\ edge' \in Seq(EdgeRow) /\ DOMAIN edge' = 1..(n + 1)
        /\ edge'[n + 1] = new /\ \A i \in 1..n : edge'[i] = edge[i]
    BY <1>1, <2>1
  <2> HIDE DEF n
  <2>5. <<d, b>> \notin ActiveEdges
    BY <1>4 DEF LocksInv, AdmissionStandsFor
  <2>6. \A i \in 1..n : ~(edge[i].active /\ edge[i].dependent = d /\ edge[i].blocker = b)
    BY <1>2, <2>3, <2>5
  <2>7. \A i \in 1..(n + 1) : i \in 1..n \/ i = n + 1
    BY <2>3
  <2>8. UniqueActive'
    <3> SUFFICES ASSUME NEW i \in DOMAIN edge', NEW j \in DOMAIN edge',
                        edge'[i].active, edge'[j].active,
                        edge'[i].dependent = edge'[j].dependent,
                        edge'[i].blocker = edge'[j].blocker
                 PROVE  i = j
      BY DEF UniqueActive
    <3>1. (i \in 1..n \/ i = n + 1) /\ (j \in 1..n \/ j = n + 1)
      BY <2>4, <2>7
    <3>2. i \in 1..n /\ j \in 1..n => i = j
      BY <1>1, <2>3, <2>4 DEF UniqueActive
    <3>3. ~(i \in 1..n /\ j = n + 1) /\ ~(i = n + 1 /\ j \in 1..n)
      BY <2>2, <2>4, <2>6
    <3> QED  BY <3>1, <3>2, <3>3
  <2>9. \A x, y : <<x, y>> \in ActiveEdges' <=> <<x, y>> \in ActiveEdges \/ (x = d /\ y = b)
    <3> TAKE x, y
    <3>6. <<x, y>> \in ActiveEdges <=>
            \E i \in 1..n : edge[i].active /\ edge[i].dependent = x /\ edge[i].blocker = y
      BY <1>2, <2>3
    <3>7. <<x, y>> \in ActiveEdges' <=>
            \E i \in 1..(n + 1) : edge'[i].active /\ edge'[i].dependent = x /\ edge'[i].blocker = y
      BY <1>3, <2>4
    <3>1. \A i \in 1..n : i \in 1..(n + 1)
      BY <2>3
    <3>2. n + 1 \in 1..(n + 1)
      BY <2>3
    <3> HIDE DEF d, b
    <3>3. ASSUME NEW i \in 1..(n + 1), edge'[i].active, edge'[i].dependent = x, edge'[i].blocker = y
          PROVE  \/ \E j \in 1..n : edge[j].active /\ edge[j].dependent = x /\ edge[j].blocker = y
                 \/ x = d /\ y = b
      <4>1. CASE i \in 1..n
        <5>1. edge[i].active /\ edge[i].dependent = x /\ edge[i].blocker = y
          BY <2>4, <3>3, <4>1
        <5> QED  BY <4>1, <5>1
      <4>2. CASE i = n + 1
        BY <2>2, <2>4, <3>3, <4>2
      <4> QED  BY <2>7, <4>1, <4>2
    <3>4. ASSUME NEW i \in 1..n, edge[i].active, edge[i].dependent = x, edge[i].blocker = y
          PROVE  i \in 1..(n + 1) /\ edge'[i].active /\ edge'[i].dependent = x /\ edge'[i].blocker = y
      BY <2>4, <3>1, <3>4
    <3>5. ASSUME x = d, y = b
          PROVE  edge'[n + 1].active /\ edge'[n + 1].dependent = x /\ edge'[n + 1].blocker = y
      BY <2>2, <2>4, <3>5
    <3> QED  BY <3>2, <3>3, <3>4, <3>5, <3>6, <3>7
  <2>10. \A p \in ActiveEdges' \cup ActiveEdges : \E x, y : p = <<x, y>>
    BY DEF ActiveEdges
  <2>11. ActiveEdges' = ActiveEdges \cup {<<d, b>>}
    BY <2>9, <2>10
  <2> QED  BY <2>3, <2>4, <2>7, <2>8, <2>11
<1>5. ASSUME tx[s].op = "remove"
      PROVE  /\ edge' \in Seq(EdgeRow) /\ DOMAIN edge' = DOMAIN edge
             /\ \A i \in DOMAIN edge : /\ edge'[i].dependent = edge[i].dependent
                                       /\ edge'[i].blocker = edge[i].blocker
             /\ UniqueActive'
             /\ ActiveEdges' = ActiveEdges \ {<<d, b>>}
  <2> DEFINE e == tx[s].edge
             gone == [edge[e] EXCEPT !.active = FALSE]
  <2>1. /\ e \in DOMAIN edge /\ edge[e].dependent = d /\ edge[e].blocker = b /\ edge[e].active
    BY <1>5 DEF LocksInv, EdgeNamedBy, WritesMatch
  <2>2. edge' = [edge EXCEPT ![e] = gone]
    BY <1>5 DEF EdgesAfter
  <2>3. edge[e] \in EdgeRow
    BY <1>1, <2>1
  <2>4. gone \in EdgeRow /\ gone.dependent = d /\ gone.blocker = b /\ gone.active = FALSE
    BY <2>1, <2>3 DEF EdgeRow
  <2> HIDE DEF gone, e, d, b
  <2>5. /\ edge' \in Seq(EdgeRow) /\ DOMAIN edge' = DOMAIN edge
        /\ edge'[e].dependent = d /\ edge'[e].blocker = b /\ edge'[e].active = FALSE
        /\ \A i \in DOMAIN edge \ {e} : edge'[i] = edge[i]
    <3>1. DOMAIN edge' = DOMAIN edge /\ edge'[e] = gone /\ \A i \in DOMAIN edge \ {e} : edge'[i] = edge[i]
      BY <1>1, <2>1, <2>2
    <3>2. edge' \in Seq(EdgeRow)
      BY <1>1, <2>1, <2>2, <2>4
    <3> QED  BY <2>4, <3>1, <3>2
  <2>6. UniqueActive'
    BY <1>1, <2>5 DEF UniqueActive
  <2>7. \A i \in DOMAIN edge : edge[i].active /\ edge[i].dependent = d /\ edge[i].blocker = b => i = e
    BY <1>1, <2>1 DEF UniqueActive
  <2>8. \A x, y : <<x, y>> \in ActiveEdges' <=> <<x, y>> \in ActiveEdges /\ ~(x = d /\ y = b)
    <3> TAKE x, y
    <3>3. <<x, y>> \in ActiveEdges <=>
            \E i \in DOMAIN edge : edge[i].active /\ edge[i].dependent = x /\ edge[i].blocker = y
      BY <1>2
    <3>4. <<x, y>> \in ActiveEdges' <=>
            \E i \in DOMAIN edge : edge'[i].active /\ edge'[i].dependent = x /\ edge'[i].blocker = y
      BY <1>3, <2>5
    <3>1. ASSUME NEW i \in DOMAIN edge, edge'[i].active, edge'[i].dependent = x, edge'[i].blocker = y
          PROVE  edge[i].active /\ edge[i].dependent = x /\ edge[i].blocker = y /\ ~(x = d /\ y = b)
      <4>1. i # e
        BY <2>5, <3>1
      <4>2. edge'[i] = edge[i]
        BY <2>5, <4>1
      <4> QED  BY <2>7, <3>1, <4>1, <4>2
    <3>2. ASSUME NEW i \in DOMAIN edge, edge[i].active, edge[i].dependent = x, edge[i].blocker = y,
                 ~(x = d /\ y = b)
          PROVE  edge'[i].active /\ edge'[i].dependent = x /\ edge'[i].blocker = y
      <4>1. i # e
        BY <2>1, <3>2
      <4> QED  BY <2>5, <3>2, <4>1
    <3> QED  BY <3>1, <3>2, <3>3, <3>4
  <2>9. \A p \in ActiveEdges' \cup ActiveEdges : \E x, y : p = <<x, y>>
    BY DEF ActiveEdges
  <2>10. ActiveEdges' = ActiveEdges \ {<<d, b>>}
    BY <2>8, <2>9
  <2> QED  BY <2>1, <2>5, <2>6, <2>10
<1>6. ASSUME tx[s].op \notin {"add", "remove"} PROVE edge' = edge
  BY <1>6 DEF EdgesAfter
<1>7. CASE tx[s].op = "add"
  BY <1>4, <1>7
<1>8. CASE tx[s].op = "remove"
  BY <1>5, <1>8
<1>9. CASE tx[s].op \notin {"add", "remove"}
  BY <1>1, <1>6, <1>9 DEF UniqueActive
<1> QED
  BY <1>7, <1>8, <1>9

(* A commit changes the dependencies of its own ticket only. *)
LEMMA FloorsOfOthers ==
    ASSUME LocksInv, NEW s \in Session, tx[s].pc = "ready", edge' = EdgesAfter(tx[s]),
           WritesMatch(tx[s]), NEW u \in TicketId, u # tx[s].ticket
    PROVE  FloorNow(u)' = FloorNow(u)
<1>1. \A b \in TicketId : <<u, b>> \in ActiveEdges' <=> <<u, b>> \in ActiveEdges
  <2>1. CASE tx[s].op \in {"add", "remove"}
    BY <2>1, CommitEdges
  <2>2. CASE tx[s].op \notin {"add", "remove"}
    BY <2>2, CommitEdges DEF ActiveEdges
  <2> QED  BY <2>1, <2>2
<1> QED
  BY <1>1 DEF FloorNow

(* The queue a command leaves: its own ticket joins, leaves or stays. *)
LEMMA QueueAfterFacts ==
    ASSUME LocksTypeOK, NEW t \in Tx
    PROVE  /\ QueueAfter(t) \in [version : Nat \ {0}, members : SUBSET TicketId]
           /\ \A u \in TicketId : u # t.ticket =>
                (u \in QueueAfter(t).members <=> u \in queue.members)
           /\ t.op \in {"approve", "reorder"} => t.ticket \in QueueAfter(t).members
           /\ t.op \in {"add", "remove", "archive"} /\ t.row.lane = "todo" =>
                t.ticket \notin QueueAfter(t).members
           /\ t.op \in {"add", "remove", "archive"} /\ t.row.lane # "todo" => QueueAfter(t) = queue
           /\ t.op \in {"restore", "classify"} => QueueAfter(t) = queue
<1>1. t.ticket \in TicketId /\ queue \in [version : Nat \ {0}, members : SUBSET TicketId]
  BY DEF Tx, LocksTypeOK
<1>2. CASE t.op \in {"approve", "reorder"}
  <2>1. QueueAfter(t) = [version |-> queue.version + 1, members |-> queue.members \cup {t.ticket}]
    BY <1>2 DEF QueueAfter, NeedsHeader
  <2> QED  BY <1>1, <1>2, <2>1
<1>3. CASE t.op \in {"add", "remove", "archive"} /\ t.row.lane = "todo"
  <2>1. QueueAfter(t) = [version |-> queue.version + 1, members |-> queue.members \ {t.ticket}]
    BY <1>3 DEF QueueAfter, NeedsHeader
  <2> QED  BY <1>1, <1>3, <2>1
<1>4. CASE ~(t.op \in {"approve", "reorder"}) /\ ~(t.op \in {"add", "remove", "archive"} /\ t.row.lane = "todo")
  <2>1. QueueAfter(t) = queue
    BY <1>4 DEF QueueAfter, NeedsHeader
  <2> QED  BY <1>1, <1>4, <2>1
<1> QED
  BY <1>2, <1>3, <1>4

(* The writes of a commit keep the graph acyclic: what an add found under  *)
(* the lock of the graph still holds when it writes.                       *)
LEMMA CommitKeepsAcyclic ==
    ASSUME LocksInv, NEW s \in Session, tx[s].pc = "ready", edge' = EdgesAfter(tx[s]),
           WritesMatch(tx[s])
    PROVE  Abstract!Acyclic(ActiveEdges')
<1>1. Abstract!Acyclic(ActiveEdges) /\ LocksTypeOK /\ AdmissionStandsFor(s)
  BY DEF LocksInv
<1>2. CASE tx[s].op = "add"
  <2>1. ~DependencyCreatesCycle(tx[s].ticket, tx[s].blocker)
    BY <1>1, <1>2 DEF AdmissionStandsFor
  <2>2. PICK C \in SUBSET TicketId :
          tx[s].blocker \in C /\ ClosedUnderBlockers(C) /\ tx[s].ticket \notin C
    BY <2>1 DEF DependencyCreatesCycle
  <2>3. \A t, u \in TicketId : <<t, u>> \in ActiveEdges /\ t \in C => u \in C
    BY <2>2 DEF ClosedUnderBlockers
  <2>4. tx[s].ticket \in TicketId /\ tx[s].blocker \in TicketId
    BY CommitRests
  <2>5. Abstract!Acyclic(ActiveEdges \cup {<<tx[s].ticket, tx[s].blocker>>})
    BY <1>1, <2>2, <2>3, <2>4, AddKeepsAcyclic
  <2> QED  BY <1>2, <2>5, CommitEdges
<1>3. CASE tx[s].op = "remove"
  <2>1. ActiveEdges' \subseteq ActiveEdges
    BY <1>3, CommitEdges
  <2> QED  BY <1>1, <2>1, FewerKeepAcyclic
<1>4. CASE tx[s].op \notin {"add", "remove"}
  <2>1. ActiveEdges' = ActiveEdges
    BY <1>4, CommitEdges DEF ActiveEdges
  <2> QED  BY <1>1, <2>1
<1> QED
  BY <1>2, <1>3, <1>4

(* They keep Todo in step with the graph. *)
LEMMA CommitKeepsTodo ==
    ASSUME LocksInv, NEW s \in Session, tx[s].pc = "ready", WritesMatch(tx[s]),
           ticket' = [ticket EXCEPT ![tx[s].ticket] = RowAfter(tx[s])],
           edge' = EdgesAfter(tx[s]), queue' = QueueAfter(tx[s])
    PROVE  TodoMatchesGraph'
<1> DEFINE t == tx[s]
<1>0. PICK own \in TicketId : own = t.ticket
  BY CommitRests
<1>1. /\ t \in Tx /\ own \in TicketId /\ t.op \in Op
      /\ LocksTypeOK /\ AdmissionStandsFor(s) /\ TodoMatchesGraph
      /\ t.row.lane = ticket[own].lane /\ t.row.archived = ticket[own].archived
      /\ t.op # "classify" => t.row.floor = ticket[own].floor
  BY <1>0, CommitRests DEF LocksInv
<1>2. ticket'[own] = RowAfter(t) /\ \A u \in TicketId \ {own} : ticket'[u] = ticket[u]
  BY <1>0, <1>1 DEF LocksTypeOK
<1>3. ASSUME NEW u \in TicketId, u # own
      PROVE  /\ (ticket'[u].lane = "todo") = (u \in queue'.members)
             /\ ticket'[u].lane = "todo" => ~ticket'[u].archived /\ ticket'[u].floor = FloorNow(u)'
  <2>1. u \in queue'.members <=> u \in queue.members
    BY <1>0, <1>1, <1>3, QueueAfterFacts
  <2>2. FloorNow(u)' = FloorNow(u)
    BY <1>0, <1>3, FloorsOfOthers
  <2>3. ticket'[u] = ticket[u]
    BY <1>2, <1>3
  <2> QED  BY <1>1, <2>1, <2>2, <2>3 DEF TodoMatchesGraph
<1>4. /\ (ticket'[own].lane = "todo") = (own \in queue'.members)
      /\ ticket'[own].lane = "todo" => ~ticket'[own].archived /\ ticket'[own].floor = FloorNow(own)'
  <2>1. /\ (ticket[own].lane = "todo") = (own \in queue.members)
        /\ ticket[own].lane = "todo" => ~ticket[own].archived /\ ticket[own].floor = FloorNow(own)
    BY <1>1 DEF TodoMatchesGraph
  <2>2. t.op \notin {"add", "remove"} => FloorNow(own)' = FloorNow(own)
    BY CommitEdges DEF FloorNow, ActiveEdges
  <2> HIDE DEF t
  <2>3. CASE t.op \in {"add", "remove", "archive"}
    <3>1. ticket'[own].lane = "backlog"
      BY <1>1, <1>2, <2>3, RowAfterFacts
    <3>2. own \notin queue'.members
      BY <1>0, <1>1, <2>1, <2>3, QueueAfterFacts DEF t
    <3> QED  BY <3>1, <3>2
  <2>4. CASE t.op = "restore"
    <3>1. ticket'[own].lane = "backlog"
      BY <1>1, <1>2, <2>4, RowAfterFacts
    <3>2. ticket[own].archived
      BY <1>1, <2>4 DEF AdmissionStandsFor, t
    <3>3. own \notin queue'.members
      BY <1>0, <1>1, <2>1, <2>4, <3>2, QueueAfterFacts DEF t
    <3> QED  BY <3>1, <3>3
  <2>5. CASE t.op = "classify"
    <3>1. t.row.lane = "backlog"
      BY <1>1, <2>5 DEF AdmissionStandsFor, t
    <3>2. ticket'[own].lane = "backlog" /\ own \notin queue.members
      BY <1>1, <1>2, <2>1, <2>5, <3>1, RowAfterFacts
    <3>3. own \notin queue'.members
      BY <1>1, <2>5, <3>2, QueueAfterFacts DEF t
    <3> QED  BY <3>2, <3>3
  <2>6. CASE t.op = "approve"
    <3>1. /\ ticket'[own].lane = "todo" /\ ticket'[own].archived = t.row.archived
          /\ ticket'[own].floor = t.row.floor
      BY <1>1, <1>2, <2>6, RowAfterFacts
    <3>2. ~t.row.archived /\ t.row.floor = FloorNow(own)
      BY <1>0, <1>1, <2>6 DEF AdmissionStandsFor, t
    <3>3. own \in queue'.members
      BY <1>0, <1>1, <2>6, QueueAfterFacts DEF t
    <3> QED  BY <2>2, <2>6, <3>1, <3>2, <3>3
  <2>7. CASE t.op = "reorder"
    <3>1. t.row.lane = "todo"
      BY <1>1, <2>7 DEF AdmissionStandsFor, t
    <3>2. /\ ticket'[own].lane = "todo" /\ ticket'[own].archived = t.row.archived
          /\ ticket'[own].floor = t.row.floor
      BY <1>1, <1>2, <2>7, <3>1, RowAfterFacts
    <3>3. own \in queue'.members
      BY <1>0, <1>1, <2>7, QueueAfterFacts DEF t
    <3> QED  BY <1>1, <2>1, <2>2, <2>7, <3>1, <3>2, <3>3
  <2> QED  BY <1>1, <2>3, <2>4, <2>5, <2>6, <2>7 DEF Op
<1> QED
  BY <1>3, <1>4 DEF TodoMatchesGraph

(* What another session decided stands: it holds its own ticket row, and   *)
(* the lock of the graph if its decision rests on the graph.               *)
LEMMA CommitKeepsOthers ==
    ASSUME LocksInv, NEW s \in Session, tx[s].pc = "ready", WritesMatch(tx[s]),
           ticket' = [ticket EXCEPT ![tx[s].ticket] = RowAfter(tx[s])],
           edge' = EdgesAfter(tx[s]), NEW q \in Session, q # s, tx'[q] = tx[q],
           \A r \in Resource : lock'[r] = q <=> lock[r] = q
    PROVE  LocksHeldBy(q)' /\ RowsCurrentFor(q)' /\ EdgeNamedBy(q)' /\ AdmissionStandsFor(q)'
<1>1. /\ tx[q] \in Tx /\ tx[q].ticket \in TicketId /\ tx[q].blocker \in TicketId
      /\ LocksTypeOK /\ RowsCurrentFor(q) /\ EdgeNamedBy(q) /\ AdmissionStandsFor(q)
  BY DEF LocksInv, LocksTypeOK, Tx
<1>2. /\ tx[s].ticket \in TicketId /\ lock[TicketRow(tx[s].ticket)] = s
      /\ tx[s].op \in {"add", "remove", "archive"} => lock[Graph] = s
  BY CommitRests
<1>3. \A u \in TicketId : lock[TicketRow(u)] = q => ticket'[u] = ticket[u]
  BY <1>1, <1>2 DEF LocksTypeOK
<1>4. LocksHeldBy(q)'
  BY OthersHoldOn
<1>5. RowsCurrentFor(q)'
  <2>1. TicketRow(tx[q].ticket) \in Resource /\ TicketRow(tx[q].blocker) \in Resource
    BY <1>1, LockNames
  <2> QED  BY <1>1, <1>3, <2>1 DEF RowsCurrentFor, TicketRow
<1>6. EdgeNamedBy(q)'
  BY <1>1, CommitEdges DEF EdgeNamedBy
<1>7. AdmissionStandsFor(q)'
  <2>1. CASE tx[q].pc \notin Decided
    BY <2>1 DEF AdmissionStandsFor, Decided
  <2>2. CASE tx[q].pc \in Decided
    <3>1. /\ lock[TicketRow(tx[q].ticket)] = q
          /\ tx[q].op \in {"add", "remove", "archive"} => lock[Graph] = q
      BY <2>2, InFlightFacts DEF Decided
    <3>2. tx[q].ticket # tx[s].ticket
      BY <1>2, <3>1
    <3>3. FloorNow(tx[q].ticket)' = FloorNow(tx[q].ticket)
      <4>1. \A u \in TicketId : u # tx[s].ticket => FloorNow(u)' = FloorNow(u)
        BY FloorsOfOthers
      <4> QED  BY <1>1, <3>2, <4>1 DEF FloorNow
    <3>4. tx[q].op \in {"add", "remove", "archive"} => ActiveEdges' = ActiveEdges
      BY <1>2, <3>1, CommitEdges DEF ActiveEdges
    <3> QED  BY <1>1, <2>2, <3>3, <3>4
             DEF AdmissionStandsFor, DependencyCreatesCycle, ClosedUnderBlockers
  <2> QED  BY <2>1, <2>2
<1> QED
  BY <1>4, <1>5, <1>6, <1>7

(* A commit, whether its writes match or not. *)
LEMMA CommitKeeps ==
    ASSUME LocksInv, NEW s \in Session, Commit(s)
    PROVE  LocksInv'
<1>1. Release(s) /\ tx[s].pc = "ready"
  BY DEF Commit
<1>2. CASE ~WritesMatch(tx[s])
  BY <1>1, <1>2, EndKeeps DEF Commit
<1>3. CASE WritesMatch(tx[s])
  <2>1. /\ ticket' = [ticket EXCEPT ![tx[s].ticket] = RowAfter(tx[s])]
        /\ edge' = EdgesAfter(tx[s]) /\ queue' = QueueAfter(tx[s])
    BY <1>3 DEF Commit
  <2>2. /\ tx'[s].pc = "idle" /\ \A q \in Session \ {s} : tx'[q] = tx[q]
        /\ tx' \in [Session -> Tx]
        /\ lock' \in [Resource -> Session \cup {NoSession}]
        /\ \A r \in Resource : lock'[r] # s
        /\ \A r \in Resource : \A q \in Session \ {s} : lock'[r] = q <=> lock[r] = q
    BY <1>1, ReleaseFacts
  <2>3. LocksTypeOK'
    <3>1. LocksTypeOK /\ tx[s] \in Tx /\ tx[s].ticket \in TicketId
      BY <1>1, CommitRests DEF LocksInv
    <3>2. ticket' \in [TicketId -> Row]
      BY <2>1, <3>1, RowAfterFacts DEF LocksTypeOK
    <3>3. edge' \in Seq(EdgeRow)
      BY <1>1, <1>3, <2>1, CommitEdges
    <3>4. queue' \in [version : Nat \ {0}, members : SUBSET TicketId]
      BY <2>1, <3>1, QueueAfterFacts
    <3> QED  BY <2>2, <3>2, <3>3, <3>4 DEF LocksTypeOK
  <2>4. ASSUME NEW q \in Session
        PROVE  LocksHeldBy(q)' /\ RowsCurrentFor(q)' /\ EdgeNamedBy(q)' /\ AdmissionStandsFor(q)'
    <3>1. CASE q = s
      <4>1. LocksHeldBy(s)' /\ RowsCurrentFor(s)' /\ EdgeNamedBy(s)' /\ AdmissionStandsFor(s)'
        BY <2>2, IdleFits
      <4> QED  BY <3>1, <4>1
    <3>2. CASE q # s
      <4>1. tx'[q] = tx[q] /\ \A r \in Resource : lock'[r] = q <=> lock[r] = q
        BY <2>2, <3>2
      <4> QED  BY <1>1, <1>3, <2>1, <3>2, <4>1, CommitKeepsOthers
    <3> QED  BY <3>1, <3>2
  <2>5. UniqueActive'
    BY <1>1, <1>3, <2>1, CommitEdges
  <2>6. Abstract!Acyclic(ActiveEdges)'
    <3>1. Abstract!Acyclic(ActiveEdges')
      BY <1>1, <1>3, <2>1, CommitKeepsAcyclic
    <3> QED  BY <3>1 DEF Abstract!Acyclic
  <2>7. TodoMatchesGraph'
    BY <1>1, <1>3, <2>1, CommitKeepsTodo
  <2> QED  BY <2>3, <2>4, <2>5, <2>6, <2>7 DEF LocksInv
<1> QED
  BY <1>2, <1>3
-----------------------------------------------------------------------------
(* The empty board. *)
LEMMA LocksInitHolds == LocksInit => LocksInv
<1> SUFFICES ASSUME LocksInit PROVE LocksInv
  OBVIOUS
<1> DEFINE first == CHOOSE t \in TicketId : TRUE
<1>1. first \in TicketId
  BY LocksAssumption
<1>2. NewRow \in Row /\ NewRow.lane = "backlog"
  BY DEF NewRow, Row, Floor
<1>3. IdleTx(first) \in Tx /\ IdleTx(first).pc = "idle"
  BY <1>1, <1>2, LocksAssumption DEF IdleTx, Tx, Op
<1>4. tx = [s \in Session |-> IdleTx(first)]
  BY DEF LocksInit
<1> HIDE DEF first
<1>5. LocksTypeOK
  <2>1. edge \in Seq(EdgeRow)
    BY DEF LocksInit
  <2> QED  BY <1>2, <1>3, <1>4, <2>1 DEF LocksInit, LocksTypeOK
<1>6. ASSUME NEW s \in Session
      PROVE  LocksHeldBy(s) /\ RowsCurrentFor(s) /\ EdgeNamedBy(s) /\ AdmissionStandsFor(s)
  <2>1. tx[s].pc = "idle"
    BY <1>3, <1>4
  <2>2. \A r \in Resource : lock[r] # s
    BY LocksAssumption DEF LocksInit
  <2> QED
    BY <2>1, <2>2 DEF LocksHeldBy, RowsCurrentFor, EdgeNamedBy, AdmissionStandsFor, Decided
<1>7. DOMAIN edge = {} /\ ActiveEdges = {}
  BY DEF LocksInit, ActiveEdges
<1>8. UniqueActive /\ Abstract!Acyclic(ActiveEdges)
  BY <1>7 DEF UniqueActive, Abstract!Acyclic
<1>9. TodoMatchesGraph
  BY <1>2 DEF LocksInit, TodoMatchesGraph
<1> QED
  BY <1>5, <1>6, <1>8, <1>9 DEF LocksInv

(* Every step keeps the invariant. *)
LEMMA LocksStepKeeps ==
    ASSUME LocksInv, [LocksNext]_locksVars
    PROVE  LocksInv'
<1>1. ASSUME NEW s \in Session, NEW c \in Command, NEW e \in 0..MaxEdge, Send(s, c, e)
      PROVE  LocksInv'
  BY <1>1, SendKeeps
<1>2. ASSUME NEW s \in Session, Step(s)
      PROVE  LocksInv'
  <2>1. CASE TakeLock(s)
    BY <2>1, TakeLockKeeps
  <2>2. CASE Admit(s)
    BY <2>2, AdmitKeeps
  <2>3. CASE LockHeader(s)
    BY <2>3, LockHeaderKeeps
  <2>4. CASE Reject(s)
    BY <2>4, EndKeeps DEF Reject
  <2>5. CASE Commit(s)
    BY <2>5, CommitKeeps
  <2> QED  BY <1>2, <2>1, <2>2, <2>3, <2>4, <2>5 DEF Step
<1>3. ASSUME NEW s \in Session, Abort(s)
      PROVE  LocksInv'
  BY <1>3, EndKeeps DEF Abort
<1>4. CASE UNCHANGED locksVars
  <2>1. UNCHANGED <<ticket, edge, queue, lock, tx>>
    BY <1>4 DEF locksVars
  <2>2. LocksTypeOK' /\ UniqueActive'
    BY <2>1 DEF LocksInv, LocksTypeOK, UniqueActive
  <2>3. ActiveEdges' = ActiveEdges
    BY <2>1 DEF ActiveEdges
  <2>4. ASSUME NEW s \in Session
        PROVE  LocksHeldBy(s)' /\ RowsCurrentFor(s)' /\ EdgeNamedBy(s)' /\ AdmissionStandsFor(s)'
    <3>1. LocksHeldBy(s) /\ RowsCurrentFor(s) /\ EdgeNamedBy(s) /\ AdmissionStandsFor(s)
      BY DEF LocksInv
    <3>2. LocksHeldBy(s)'
      BY <2>1, <3>1 DEF LocksHeldBy, Plan, EndpointRows, Decided
    <3>3. RowsCurrentFor(s)' /\ EdgeNamedBy(s)'
      BY <2>1, <3>1 DEF RowsCurrentFor, EdgeNamedBy, TicketRow
    <3>4. AdmissionStandsFor(s)'
      BY <2>1, <2>3, <3>1
      DEF AdmissionStandsFor, DependencyCreatesCycle, ClosedUnderBlockers, FloorNow, Decided
    <3> QED  BY <3>2, <3>3, <3>4
  <2>5. TodoMatchesGraph' /\ Abstract!Acyclic(ActiveEdges)'
    BY <2>1, <2>3 DEF LocksInv, TodoMatchesGraph, FloorNow, Abstract!Acyclic
  <2> QED  BY <2>2, <2>4, <2>5 DEF LocksInv
<1> QED
  BY <1>1, <1>2, <1>3, <1>4 DEF LocksNext

(* The inductive invariant: the locks a session has and the rows it read   *)
(* under them, the edge it names, and its decision, which stands until it  *)
(* commits; with them the graph stays free of cycles and Todo follows it.  *)
THEOREM LocksInvariant == LocksSpec => []LocksInv
<1>1. LocksInit => LocksInv
  BY LocksInitHolds
<1>2. LocksInv /\ [LocksNext]_locksVars => LocksInv'
  BY LocksStepKeeps
<1> QED
  BY <1>1, <1>2, PTL DEF LocksSpec

(* Rows, locks and commands keep their types. *)
THEOREM LocksTypeCorrect == LocksSpec => []LocksTypeOK
<1>1. LocksInv => LocksTypeOK
  BY DEF LocksInv
<1> QED
  BY <1>1, LocksInvariant, PTL

(* Although approveReadyToTodo reads the dependencies without the lock of  *)
(* the graph, a ticket is in Todo only under the risk floor that its       *)
(* dependencies give it now, and exactly the tickets in Todo are queued.   *)
THEOREM TodoAlwaysMatchesGraph == LocksSpec => []TodoMatchesGraph
<1>1. LocksInv => TodoMatchesGraph
  BY DEF LocksInv
<1> QED
  BY <1>1, LocksInvariant, PTL
-----------------------------------------------------------------------------
(* What the refinement maps to the archived tickets. *)
ArchivedTickets == {t \in TicketId : ticket[t].archived}

(* What a commit does to the graph: what one of the atomic commands does,  *)
(* or nothing.                                                             *)
LEMMA CommitActsOnGraph ==
    ASSUME LocksInv, LocksInv', NEW s \in Session, Commit(s)
    PROVE  Abstract!Next \/ UNCHANGED Abstract!vars
<1>1. tx[s].pc = "ready"
  BY DEF Commit
<1>2. CASE ~WritesMatch(tx[s])
  BY <1>2 DEF Commit, Abstract!vars, ActiveEdges
<1>3. CASE WritesMatch(tx[s])
  <2>0. PICK d \in TicketId, b \in TicketId, op \in Op :
          d = tx[s].ticket /\ b = tx[s].blocker /\ op = tx[s].op
    BY <1>1, CommitRests
  <2>1. /\ ticket' = [ticket EXCEPT ![d] = RowAfter(tx[s])] /\ edge' = EdgesAfter(tx[s])
        /\ ticket \in [TicketId -> Row] /\ tx[s] \in Tx /\ AdmissionStandsFor(s)
        /\ tx[s].row.archived = ticket[d].archived
        /\ op \in {"add", "remove"} => tx[s].blockerRow.archived = ticket[b].archived
    BY <1>1, <1>3, <2>0, CommitRests DEF Commit, LocksInv, LocksTypeOK
  <2>2. /\ \A u \in TicketId \ {d} : ticket'[u].archived = ticket[u].archived
        /\ ticket'[d].archived = RowAfter(tx[s]).archived
    BY <2>1
  <2>3. op \notin {"archive", "restore"} => ArchivedTickets' = ArchivedTickets
    <3>1. op \notin {"archive", "restore"} => ticket'[d].archived = ticket[d].archived
      BY <2>0, <2>1, <2>2, RowAfterFacts
    <3>2. op \notin {"archive", "restore"} =>
            \A u \in TicketId : ticket'[u].archived = ticket[u].archived
      BY <2>2, <3>1
    <3> QED  BY <3>2 DEF ArchivedTickets
  <2>4. op \notin {"add", "remove"} => ActiveEdges' = ActiveEdges
    BY <1>1, <1>3, <2>0, <2>1, CommitEdges DEF ActiveEdges
  <2>5. CASE op = "add"
    <3>1. ActiveEdges' = ActiveEdges \cup {<<d, b>>}
      BY <1>1, <1>3, <2>0, <2>1, <2>5, CommitEdges
    <3>2. Abstract!Acyclic(ActiveEdges \cup {<<d, b>>})
      <4>1. Abstract!Acyclic(ActiveEdges')
        BY <1>1, <1>3, <2>1, CommitKeepsAcyclic
      <4> QED  BY <3>1, <4>1
    <3>3. {d, b} \cap ArchivedTickets = {}
      BY <1>1, <2>0, <2>1, <2>5 DEF AdmissionStandsFor, ArchivedTickets
    <3>4. Abstract!Add(d, b)
      BY <2>3, <2>5, <3>1, <3>2, <3>3 DEF Abstract!Add, ArchivedTickets
    <3> QED  BY <3>4 DEF Abstract!Next
  <2>6. CASE op = "remove"
    <3>1. ActiveEdges' = ActiveEdges \ {<<d, b>>}
      BY <1>1, <1>3, <2>0, <2>1, <2>6, CommitEdges
    <3>2. {d, b} \cap ArchivedTickets = {}
      BY <1>1, <2>0, <2>1, <2>6 DEF AdmissionStandsFor, ArchivedTickets
    <3>3. Abstract!Remove(d, b)
      BY <2>3, <2>6, <3>1, <3>2 DEF Abstract!Remove, ArchivedTickets
    <3> QED  BY <3>3 DEF Abstract!Next
  <2>7. CASE op = "archive"
    <3>1. \A x \in TicketId : <<x, d>> \notin ActiveEdges
      BY <1>1, <2>0, <2>1, <2>7 DEF AdmissionStandsFor
    <3>2. ticket'[d].archived = TRUE
      BY <2>0, <2>1, <2>2, <2>7, RowAfterFacts
    <3>3. ArchivedTickets' = ArchivedTickets \cup {d}
      BY <2>2, <3>2 DEF ArchivedTickets
    <3>4. Abstract!Archive(d)
      BY <2>4, <2>7, <3>1, <3>3 DEF Abstract!Archive, ArchivedTickets
    <3> QED  BY <3>4 DEF Abstract!Next
  <2>8. CASE op = "restore"
    <3>1. ticket'[d].archived = FALSE
      BY <2>0, <2>1, <2>2, <2>8, RowAfterFacts
    <3>2. ArchivedTickets' = ArchivedTickets \ {d}
      BY <2>2, <3>1 DEF ArchivedTickets
    <3>3. Abstract!Restore(d)
      BY <2>4, <2>8, <3>2 DEF Abstract!Restore, ArchivedTickets
    <3> QED  BY <3>3 DEF Abstract!Next
  <2>9. CASE op \notin {"add", "remove", "archive", "restore"}
    BY <2>3, <2>4, <2>9 DEF Abstract!vars, ArchivedTickets
  <2> QED  BY <2>5, <2>6, <2>7, <2>8, <2>9
<1> QED
  BY <1>2, <1>3

(* The commands, interleaved statement by statement under their locks, do  *)
(* to the graph what atomic commands would: two adds that do not see each  *)
(* other close no cycle, and no dependency is left on an archived ticket.  *)
THEOREM LocksImplementGraph == LocksSpec => ImplementsDependencyGraph
<1>1. LocksInit => Abstract!Init
  <2> SUFFICES ASSUME LocksInit PROVE Abstract!Init
    OBVIOUS
  <2>1. ActiveEdges = {}
    BY DEF LocksInit, ActiveEdges
  <2>2. \A t \in TicketId : ~ticket[t].archived
    BY DEF LocksInit, NewRow
  <2> QED  BY <2>1, <2>2 DEF Abstract!Init
<1>2. LocksInv /\ LocksInv' /\ [LocksNext]_locksVars => [Abstract!Next]_(Abstract!vars)
  <2> SUFFICES ASSUME LocksInv, LocksInv', [LocksNext]_locksVars
               PROVE  Abstract!Next \/ UNCHANGED Abstract!vars
    OBVIOUS
  <2>1. ASSUME UNCHANGED <<ticket, edge>> PROVE UNCHANGED Abstract!vars
    BY <2>1 DEF Abstract!vars, ActiveEdges
  <2>2. CASE \E s \in Session, c \in Command, e \in 0..MaxEdge : Send(s, c, e)
    BY <2>1, <2>2 DEF Send
  <2>3. ASSUME NEW s \in Session, Step(s) PROVE Abstract!Next \/ UNCHANGED Abstract!vars
    <3>1. CASE Commit(s)
      BY <3>1, CommitActsOnGraph
    <3>2. CASE ~Commit(s)
      BY <2>1, <2>3, <3>2 DEF Step, TakeLock, Admit, LockHeader, Reject
    <3> QED  BY <3>1, <3>2
  <2>4. CASE \E s \in Session : Abort(s)
    BY <2>1, <2>4 DEF Abort
  <2>5. CASE UNCHANGED locksVars
    BY <2>1, <2>5 DEF locksVars
  <2> QED  BY <2>2, <2>3, <2>4, <2>5 DEF LocksNext
<1> QED
  BY <1>1, <1>2, LocksInvariant, PTL DEF LocksSpec, ImplementsDependencyGraph, Abstract!Spec
-----------------------------------------------------------------------------
(***************************************************************************)
(* Deadlock                                                                *)
(***************************************************************************)

(* The lock a session waits for. *)
WantsLock(s, r) ==
    \/ /\ tx[s].pc = "locking" /\ tx[s].taken < Len(Plan(tx[s])) /\ ~RefusedEarly(tx[s])
       /\ r = Plan(tx[s])[tx[s].taken + 1]
    \/ tx[s].pc = "admitted" /\ r = Header

(* Session s waits for a lock that session q has. *)
WaitsFor(s, q) == \E r \in Resource : WantsLock(s, r) /\ lock[r] = q

(* No sessions wait for each other in a ring: every set of sessions that   *)
(* each wait for one of the set is empty.                                  *)
NoDeadlock ==
    \A W \in SUBSET Session : (\A s \in W : \E q \in W : WaitsFor(s, q)) => W = {}

(* The order of the locks: edge rows, ticket rows by id, the graph, the    *)
(* header.                                                                 *)
Class(r) ==
    CASE r[1] = "edge" -> 1 [] r[1] = "ticket" -> 2 [] r[1] = "graph" -> 3 [] OTHER -> 4

Before(p, r) == Class(p) < Class(r) \/ (Class(p) = Class(r) /\ p[2] < r[2])

(* A session holds no other locks than those of its plan that it took, and *)
(* the header when it is ready to write.                                   *)
HoldsOnly(s) ==
    \A r \in Resource : lock[r] = s =>
        \/ tx[s].pc # "idle" /\ \E i \in 1..tx[s].taken : Plan(tx[s])[i] = r
        \/ tx[s].pc = "ready" /\ r = Header

(* No row of the edge table makes a ticket wait for itself. *)
NoSelfEdge == \A i \in DOMAIN edge : edge[i].dependent # edge[i].blocker

(* What the order of the waits rests on. *)
WaitInv == LocksInv /\ NoSelfEdge /\ \A s \in Session : HoldsOnly(s)

(* A nonempty set of numbers has a least one. *)
LEMMA LeastNatural ==
    ASSUME NEW T \in SUBSET Nat, T # {}
    PROVE  \E m \in T : \A n \in T : m <= n
<1>1. PICK m \in T : \A n \in T : ~(<<n, m>> \in OpToRel(<, Nat))
  BY NatLessThanWellFounded, WFMin, Zenon
<1>2. \A n \in T : ~(n < m)
  BY <1>1 DEF OpToRel
<1> QED
  BY <1>2

(* In a finite set, a strict order has an element with none above it. *)
LEMMA MaximalElement ==
    ASSUME NEW W, IsFiniteSet(W), W # {}, NEW R,
           \A x \in W : <<x, x>> \notin R,
           \A x, y, z \in W : <<x, y>> \in R /\ <<y, z>> \in R => <<x, z>> \in R
    PROVE  \E x \in W : \A y \in W : <<x, y>> \notin R
<1> DEFINE Above(x) == {y \in W : <<x, y>> \in R}
           size(x) == Cardinality(Above(x))
           Sizes == {size(x) : x \in W}
<1>1. \A x \in W : IsFiniteSet(Above(x)) /\ Cardinality(Above(x)) \in Nat
  BY FS_Subset, FS_CardinalityType
<1>2. ASSUME NEW x \in W, NEW y \in W, <<x, y>> \in R
      PROVE  Cardinality(Above(y)) < Cardinality(Above(x))
  <2>1. Above(y) \in SUBSET Above(x) /\ y \in Above(x) /\ y \notin Above(y)
    BY <1>2
  <2>2. Cardinality(Above(y)) <= Cardinality(Above(x)) /\ Cardinality(Above(y)) # Cardinality(Above(x))
    <3> HIDE DEF Above
    <3> QED  BY <1>1, <2>1, FS_Subset
  <2> QED  BY <1>1, <2>2
<1> HIDE DEF Above, size
<1>3. PICK m \in Sizes : \A n \in Sizes : m <= n
  <2>1. \A x \in W : size(x) \in Nat
    BY <1>1 DEF size
  <2>2. Sizes \in SUBSET Nat /\ Sizes # {}
    BY <2>1
  <2> HIDE DEF Sizes
  <2> QED  BY <2>2, LeastNatural
<1>4. PICK x \in W : m = size(x)
  BY <1>3
<1>5. \A y \in W : size(x) <= size(y)
  BY <1>3, <1>4
<1>6. ASSUME NEW y \in W, <<x, y>> \in R PROVE FALSE
  BY <1>1, <1>2, <1>5, <1>6 DEF size
<1> QED
  BY <1>6

(* The order of the locks is one. *)
LEMMA LockOrder ==
    /\ \A r \in Resource : ~Before(r, r)
    /\ \A p, q, r \in Resource : Before(p, q) /\ Before(q, r) => Before(p, r)
<1>1. \A r \in Resource : Class(r) \in 1..4 /\ r[2] \in Int
  BY LocksAssumption DEF Resource, TicketRow, EdgeRowLock, Graph, Header, Class
<1>2. \A r \in Resource : ~Before(r, r)
  BY <1>1 DEF Before
<1>3. ASSUME NEW p \in Resource, NEW q \in Resource, NEW r \in Resource, Before(p, q), Before(q, r)
      PROVE  Before(p, r)
  <2>1. /\ Class(p) \in Int /\ Class(q) \in Int /\ Class(r) \in Int
        /\ p[2] \in Int /\ q[2] \in Int /\ r[2] \in Int
    BY <1>1
  <2> QED  BY <1>3, <2>1 DEF Before
<1> QED
  BY <1>2, <1>3

(* A plan takes its locks in that order, and the header comes after them.  *)
LEMMA PlanOrdered ==
    ASSUME NEW t \in Tx, t.op \in {"add", "remove"} => t.ticket # t.blocker
    PROVE  /\ \A i, j \in 1..Len(Plan(t)) : i < j => Before(Plan(t)[i], Plan(t)[j])
           /\ \A i \in 1..Len(Plan(t)) : Before(Plan(t)[i], Header)
<1>1. t.op \in Op /\ t.ticket \in TicketId /\ t.blocker \in TicketId
  BY DEF Tx
<1>2. \A u, v \in TicketId : \A e :
        /\ u < v => Before(TicketRow(u), TicketRow(v))
        /\ Before(TicketRow(u), Graph) /\ Before(TicketRow(u), Header)
        /\ Before(EdgeRowLock(e), TicketRow(u))
        /\ Before(EdgeRowLock(e), Graph) /\ Before(EdgeRowLock(e), Header)
        /\ Before(Graph, Header)
  BY DEF Before, Class, TicketRow, EdgeRowLock, Graph, Header
<1>3. t.op \in {"add", "remove"} =>
        \E u, v \in TicketId : u < v /\ EndpointRows(t) = <<TicketRow(u), TicketRow(v)>>
  <2> SUFFICES ASSUME t.ticket # t.blocker
               PROVE  \E u, v \in TicketId : u < v /\ EndpointRows(t) = <<TicketRow(u), TicketRow(v)>>
    OBVIOUS
  <2>0. PICK d \in TicketId, b \in TicketId : d = t.ticket /\ b = t.blocker
    BY <1>1
  <2>1. CASE d < b
    BY <2>0, <2>1 DEF EndpointRows
  <2>2. CASE ~(d < b)
    <3>1. d \in Nat /\ b \in Nat
      BY LocksAssumption
    <3>2. b < d
      BY <2>0, <2>2, <3>1
    <3> QED  BY <2>0, <2>2, <3>2 DEF EndpointRows
  <2> QED  BY <2>1, <2>2
<1>4. CASE t.op = "add"
  <2>1. PICK u, v \in TicketId : u < v /\ EndpointRows(t) = <<TicketRow(u), TicketRow(v)>>
    BY <1>3, <1>4
  <2>2. Plan(t) = <<TicketRow(u), TicketRow(v), Graph>>
    BY <1>4, <2>1 DEF Plan
  <2>3. /\ Len(Plan(t)) = 3 /\ Plan(t)[1] = TicketRow(u) /\ Plan(t)[2] = TicketRow(v)
        /\ Plan(t)[3] = Graph
    BY <2>2
  <2>4. \A i \in 1..3 : i = 1 \/ i = 2 \/ i = 3
    OBVIOUS
  <2> QED  BY <1>2, <2>1, <2>3, <2>4
<1>5. CASE t.op = "remove"
  <2>1. PICK u, v \in TicketId : u < v /\ EndpointRows(t) = <<TicketRow(u), TicketRow(v)>>
    BY <1>3, <1>5
  <2>2. Plan(t) = <<EdgeRowLock(t.edge), TicketRow(u), TicketRow(v), Graph>>
    BY <1>5, <2>1 DEF Plan
  <2>3. /\ Len(Plan(t)) = 4 /\ Plan(t)[1] = EdgeRowLock(t.edge)
        /\ Plan(t)[2] = TicketRow(u) /\ Plan(t)[3] = TicketRow(v) /\ Plan(t)[4] = Graph
    BY <2>2
  <2>4. \A i \in 1..4 : i = 1 \/ i = 2 \/ i = 3 \/ i = 4
    OBVIOUS
  <2> QED  BY <1>2, <2>1, <2>3, <2>4
<1>6. CASE t.op = "archive"
  <2>1. Plan(t) = <<TicketRow(t.ticket), Graph>>
    BY <1>6 DEF Plan
  <2>2. Len(Plan(t)) = 2 /\ Plan(t)[1] = TicketRow(t.ticket) /\ Plan(t)[2] = Graph
    BY <2>1
  <2>3. \A i \in 1..2 : i = 1 \/ i = 2
    OBVIOUS
  <2> QED  BY <1>1, <1>2, <2>2, <2>3
<1>7. CASE t.op \notin {"add", "remove", "archive"}
  <2>1. Plan(t) = <<TicketRow(t.ticket)>>
    BY <1>7 DEF Plan
  <2>2. Len(Plan(t)) = 1 /\ Plan(t)[1] = TicketRow(t.ticket)
    BY <2>1
  <2>3. \A i \in 1..1 : i = 1
    OBVIOUS
  <2> QED  BY <1>1, <1>2, <2>2, <2>3
<1> QED
  BY <1>4, <1>5, <1>6, <1>7

(* A session that takes no step holds what it held. *)
LEMMA OthersHoldOnly ==
    ASSUME NEW q \in Session, HoldsOnly(q), tx'[q] = tx[q],
           \A r \in Resource : lock'[r] = q => lock[r] = q
    PROVE  HoldsOnly(q)'
<1>1. Plan(tx[q])' = Plan(tx[q])
  BY DEF Plan, EndpointRows
<1> QED
  BY <1>1 DEF HoldsOnly, Resource, Header

(* A session that goes on with its command holds, besides, what it took.   *)
LEMMA OwnHoldOnly ==
    ASSUME NEW s \in Session, HoldsOnly(s), tx[s].pc # "ready", tx'[s].pc # "idle",
           Plan(tx'[s]) = Plan(tx[s]),
           \A i \in 1..tx[s].taken : i \in 1..tx'[s].taken,
           \A r \in Resource : lock'[r] = s =>
              \/ lock[r] = s
              \/ tx'[s].pc = "ready" /\ r = Header
              \/ \E i \in 1..tx'[s].taken : Plan(tx[s])[i] = r
    PROVE  HoldsOnly(s)'
<1>1. Plan(tx[s])' = Plan(tx[s])
  BY DEF Plan, EndpointRows
<1> SUFFICES ASSUME NEW r \in Resource, lock'[r] = s
             PROVE  \/ \E i \in 1..tx'[s].taken : Plan(tx[s])[i] = r
                    \/ tx'[s].pc = "ready" /\ r = Header
  BY <1>1 DEF HoldsOnly, Resource, Header
<1> QED
  BY DEF HoldsOnly

(* What each step changes of its session's command and of the locks. *)
LEMMA HoldsOnlyKept ==
    ASSUME LocksInv, \A q \in Session : HoldsOnly(q), LocksNext
    PROVE  \A q \in Session : HoldsOnly(q)'
<1>0. tx \in [Session -> Tx] /\ lock \in [Resource -> Session \cup {NoSession}]
  BY DEF LocksInv, LocksTypeOK
<1>1. ASSUME NEW s \in Session, HoldsOnly(s)',
             \A q \in Session \ {s} : tx'[q] = tx[q],
             \A r \in Resource : \A q \in Session \ {s} : lock'[r] = q => lock[r] = q
      PROVE  \A q \in Session : HoldsOnly(q)'
  BY <1>1, OthersHoldOnly
<1>2. ASSUME NEW s \in Session, NEW c \in Command, NEW e \in 0..MaxEdge, Send(s, c, e)
      PROVE  \A q \in Session : HoldsOnly(q)'
  <2>1. lock' = lock /\ \A r \in Resource : lock[r] # s
    BY <1>2 DEF Send, LocksInv, LocksHeldBy
  <2>2. HoldsOnly(s)'
    BY <2>1 DEF HoldsOnly
  <2>3. \A q \in Session \ {s} : tx'[q] = tx[q]
    BY <1>0, <1>2 DEF Send
  <2> QED  BY <1>1, <2>1, <2>2, <2>3
<1>3. ASSUME NEW s \in Session, TakeLock(s)
      PROVE  \A q \in Session : HoldsOnly(q)'
  <2> DEFINE t == tx[s]
             r == Plan(t)[t.taken + 1]
  <2>1. PICK row, blockerRow :
          /\ tx' = [tx EXCEPT ![s] = [t EXCEPT !.taken = t.taken + 1, !.row = row, !.blockerRow = blockerRow]]
          /\ lock' = [lock EXCEPT ![r] = s] /\ t.pc = "locking"
    BY <1>3 DEF TakeLock
  <2>2. t \in Tx /\ t.taken \in Nat
    BY <1>0 DEF Tx
  <2>3. /\ tx'[s].pc = "locking" /\ tx'[s].taken = t.taken + 1 /\ tx'[s].op = t.op
        /\ tx'[s].ticket = t.ticket /\ tx'[s].blocker = t.blocker /\ tx'[s].edge = t.edge
    <3>1. tx'[s] = [t EXCEPT !.taken = t.taken + 1, !.row = row, !.blockerRow = blockerRow]
      BY <1>0, <2>1
    <3>2. t.pc = "locking"
      BY <2>1
    <3> HIDE DEF t
    <3> QED  BY <2>2, <3>1, <3>2 DEF Tx
  <2>4. Plan(tx'[s]) = Plan(t)
    BY <2>3, PlanSame
  <2>5. \A i \in 1..t.taken : i \in 1..tx'[s].taken
    BY <2>2, <2>3
  <2>6. t.taken + 1 \in 1..tx'[s].taken
    BY <2>2, <2>3
  <2>7. \A p \in Resource : lock'[p] = lock[p] \/ (p = r /\ lock'[p] = s)
    BY <1>0, <2>1
  <2>8. HoldsOnly(s)'
    BY <2>1, <2>3, <2>4, <2>5, <2>6, <2>7, OwnHoldOnly
  <2>9. \A q \in Session \ {s} : tx'[q] = tx[q]
    BY <1>0, <2>1
  <2> QED  BY <1>1, <2>7, <2>8, <2>9
<1>4. ASSUME NEW s \in Session, Admit(s)
      PROVE  \A q \in Session : HoldsOnly(q)'
  <2> DEFINE t == tx[s]
  <2> DEFINE pc == IF NeedsHeader(t) THEN "admitted" ELSE "ready"
             row == [t.row EXCEPT !.floor = IF t.op = "classify" THEN FloorNow(t.ticket) ELSE t.row.floor]
  <2>1. /\ pc \in {"admitted", "ready"}
        /\ tx' = [tx EXCEPT ![s] = [t EXCEPT !.pc = pc, !.row = row]]
    BY <1>0, <1>4 DEF Admit
  <2> HIDE DEF pc, row
  <2>2. t \in Tx /\ t.pc = "locking" /\ lock' = lock
    BY <1>0, <1>4 DEF Admit, AllTaken
  <2>3. /\ tx'[s].pc = pc /\ tx'[s].taken = t.taken /\ tx'[s].op = t.op
        /\ tx'[s].ticket = t.ticket /\ tx'[s].blocker = t.blocker /\ tx'[s].edge = t.edge
    <3>1. tx'[s] = [t EXCEPT !.pc = pc, !.row = row]
      BY <1>0, <2>1
    <3> HIDE DEF t
    <3> QED  BY <2>2, <3>1 DEF Tx
  <2>4. Plan(tx'[s]) = Plan(t)
    BY <2>3, PlanSame
  <2>5. HoldsOnly(s)'
    BY <2>1, <2>2, <2>3, <2>4, OwnHoldOnly
  <2>6. \A q \in Session \ {s} : tx'[q] = tx[q]
    BY <1>0, <2>1
  <2> QED  BY <1>1, <2>2, <2>5, <2>6
<1>5. ASSUME NEW s \in Session, LockHeader(s)
      PROVE  \A q \in Session : HoldsOnly(q)'
  <2> DEFINE t == tx[s]
  <2>1. /\ t \in Tx /\ t.pc = "admitted" /\ lock' = [lock EXCEPT ![Header] = s]
        /\ tx' = [tx EXCEPT ![s] = [t EXCEPT !.pc = "ready"]]
    BY <1>0, <1>5 DEF LockHeader
  <2>2. /\ tx'[s].pc = "ready" /\ tx'[s].taken = t.taken /\ tx'[s].op = t.op
        /\ tx'[s].ticket = t.ticket /\ tx'[s].blocker = t.blocker /\ tx'[s].edge = t.edge
    <3>1. tx'[s] = [t EXCEPT !.pc = "ready"]
      BY <1>0, <2>1
    <3> HIDE DEF t
    <3> QED  BY <2>1, <3>1 DEF Tx
  <2>3. Plan(tx'[s]) = Plan(t)
    BY <2>2, PlanSame
  <2>4. \A p \in Resource : lock'[p] = lock[p] \/ (p = Header /\ lock'[p] = s)
    BY <1>0, <2>1
  <2>5. HoldsOnly(s)'
    BY <2>1, <2>2, <2>3, <2>4, OwnHoldOnly
  <2>6. \A q \in Session \ {s} : tx'[q] = tx[q]
    BY <1>0, <2>1
  <2> QED  BY <1>1, <2>4, <2>5, <2>6
<1>6. ASSUME NEW s \in Session, Release(s)
      PROVE  \A q \in Session : HoldsOnly(q)'
  <2>1. /\ \A q \in Session \ {s} : tx'[q] = tx[q]
        /\ \A r \in Resource : lock'[r] # s
        /\ \A r \in Resource : \A q \in Session \ {s} : lock'[r] = q <=> lock[r] = q
    BY <1>6, ReleaseFacts
  <2>2. HoldsOnly(s)'
    BY <2>1 DEF HoldsOnly, Resource, Header
  <2> QED  BY <1>1, <2>1, <2>2
<1> QED
  BY <1>2, <1>3, <1>4, <1>5, <1>6 DEF LocksNext, Step, Reject, Commit, Abort

(* A ticket never comes to wait for itself, in any row of the table. *)
LEMMA NoSelfEdgeKept ==
    ASSUME LocksInv, NoSelfEdge, LocksNext
    PROVE  NoSelfEdge'
<1>1. CASE edge' = edge
  BY <1>1 DEF NoSelfEdge
<1>2. ASSUME NEW s \in Session, Commit(s), edge' # edge
      PROVE  NoSelfEdge'
  <2>1. tx[s].pc = "ready" /\ WritesMatch(tx[s]) /\ edge' = EdgesAfter(tx[s])
    BY <1>2 DEF Commit
  <2>2. edge \in Seq(EdgeRow) /\ AdmissionStandsFor(s)
    BY DEF LocksInv, LocksTypeOK
  <2>3. CASE tx[s].op = "add"
    <3> DEFINE new == [dependent |-> tx[s].ticket, blocker |-> tx[s].blocker, active |-> TRUE]
    <3>1. edge' = Append(edge, new)
      BY <2>1, <2>3 DEF EdgesAfter
    <3>2. new.dependent # new.blocker
      BY <2>1, <2>2, <2>3 DEF AdmissionStandsFor, DependencyCreatesCycle
    <3> HIDE DEF new
    <3>3. \A i \in DOMAIN edge' : (i \in DOMAIN edge /\ edge'[i] = edge[i]) \/ edge'[i] = new
      BY <2>2, <3>1
    <3> QED  BY <3>2, <3>3 DEF NoSelfEdge
  <2>4. CASE tx[s].op = "remove"
    <3>1. DOMAIN edge' = DOMAIN edge
      BY <2>1, <2>4 DEF EdgesAfter
    <3>2. \A i \in DOMAIN edge : /\ edge'[i].dependent = edge[i].dependent
                                 /\ edge'[i].blocker = edge[i].blocker
      BY <2>1, CommitEdges
    <3> QED  BY <3>1, <3>2 DEF NoSelfEdge
  <2>5. CASE tx[s].op \notin {"add", "remove"}
    BY <1>2, <2>1, <2>5 DEF EdgesAfter
  <2> QED  BY <2>3, <2>4, <2>5
<1> QED
  BY <1>1, <1>2 DEF LocksNext, Send, Step, TakeLock, Admit, LockHeader, Reject, Abort

(* A session waits for a lock that comes after all that it holds. *)
LEMMA WaitsInOrder ==
    ASSUME WaitInv, NEW s \in Session, NEW r, WantsLock(s, r)
    PROVE  /\ r \in Resource
           /\ \A p \in Resource : lock[p] = s => Before(p, r)
<1> DEFINE t == tx[s]
<1>1. /\ t \in Tx /\ t.pc # "idle" /\ t.pc # "ready"
      /\ t.taken \in 0..Len(Plan(t)) /\ Len(Plan(t)) \in 1..4
      /\ \A i \in 1..Len(Plan(t)) : Plan(t)[i] \in Resource
      /\ EdgeNamedBy(s) /\ AdmissionStandsFor(s) /\ HoldsOnly(s)
  BY InFlightFacts, PlanFacts DEF WaitInv, LocksInv, LocksHeldBy, WantsLock
<1>2. t.op \in {"add", "remove"} => t.ticket # t.blocker
  <2>1. CASE t.op = "remove"
    BY <1>1, <2>1 DEF EdgeNamedBy, NoSelfEdge, WaitInv
  <2>2. CASE t.op = "add" /\ t.pc = "locking"
    BY <2>2 DEF WantsLock, RefusedEarly
  <2>3. CASE t.op = "add" /\ t.pc # "locking"
    BY <1>1, <2>3 DEF WantsLock, AdmissionStandsFor, DependencyCreatesCycle
  <2> QED  BY <2>1, <2>2, <2>3
<1>3. /\ \A i, j \in 1..Len(Plan(t)) : i < j => Before(Plan(t)[i], Plan(t)[j])
      /\ \A i \in 1..Len(Plan(t)) : Before(Plan(t)[i], Header)
  BY <1>1, <1>2, PlanOrdered
<1>4. \A p \in Resource : lock[p] = s => \E i \in 1..t.taken : Plan(t)[i] = p
  BY <1>1 DEF HoldsOnly
<1>5. CASE t.pc = "locking"
  <2>1. t.taken < Len(Plan(t)) /\ r = Plan(t)[t.taken + 1]
    BY <1>5 DEF WantsLock
  <2>2. t.taken + 1 \in 1..Len(Plan(t)) /\ \A i \in 1..t.taken : i \in 1..Len(Plan(t)) /\ i < t.taken + 1
    BY <1>1, <2>1
  <2> HIDE DEF t
  <2> QED  BY <1>1, <1>3, <1>4, <2>1, <2>2
<1>6. CASE t.pc # "locking"
  <2>1. r = Header
    BY <1>6 DEF WantsLock
  <2>2. \A i \in 1..t.taken : i \in 1..Len(Plan(t))
    BY <1>1
  <2> HIDE DEF t
  <2> QED  BY <1>3, <1>4, <2>1, <2>2, LockNames
<1> QED
  BY <1>5, <1>6

(* So no set of sessions waits for itself: among finitely many waiting     *)
(* sessions one waits for a lock that comes last, and whoever holds that   *)
(* lock does not wait.                                                     *)
LEMMA OrderedWaitsEnd == WaitInv => NoDeadlock
<1> SUFFICES ASSUME WaitInv, NEW W \in SUBSET Session, W # {},
                    \A s \in W : \E q \in W : WaitsFor(s, q)
             PROVE  FALSE
  BY DEF NoDeadlock
<1> DEFINE Earlier(s, q) == \E p, r \in Resource : WantsLock(s, p) /\ WantsLock(q, r) /\ Before(p, r)
           R == {x \in W \X W : Earlier(x[1], x[2])}
<1>1. \A s \in W, q \in W : <<s, q>> \in R <=> Earlier(s, q)
  OBVIOUS
<1>2. \A s \in Session : \A p, r : WantsLock(s, p) /\ WantsLock(s, r) => p = r
  BY DEF WantsLock
<1>3. \A s \in W : ~Earlier(s, s)
  BY <1>2, LockOrder
<1>4. \A s, q, v \in W : Earlier(s, q) /\ Earlier(q, v) => Earlier(s, v)
  BY <1>2, LockOrder
<1>5. PICK s \in W : \A q \in W : ~Earlier(s, q)
  <2>1. IsFiniteSet(W)
    BY LocksAssumption, FS_Subset
  <2> HIDE DEF Earlier, R
  <2>2. \E s \in W : \A q \in W : <<s, q>> \notin R
    BY <1>1, <1>3, <1>4, <2>1, MaximalElement
  <2> QED  BY <1>1, <2>2
<1>6. PICK q \in W, p \in Resource : WantsLock(s, p) /\ lock[p] = q
  BY DEF WaitsFor
<1>7. PICK r \in Resource : WantsLock(q, r)
  BY DEF WaitsFor
<1>8. Before(p, r)
  BY <1>6, <1>7, WaitsInOrder
<1> QED
  BY <1>5, <1>6, <1>7, <1>8

(* The edge row, the ticket rows by id, the lock of the graph and last the *)
(* header: taken in that order, the locks never make sessions wait for     *)
(* each other in a ring, whatever the commands and however many sessions.  *)
THEOREM LocksNeverDeadlock == LocksSpec => []NoDeadlock
<1>1. LocksInit => NoSelfEdge /\ \A s \in Session : HoldsOnly(s)
  BY LocksAssumption DEF LocksInit, NoSelfEdge, HoldsOnly
<1>2. LocksInv /\ NoSelfEdge /\ (\A s \in Session : HoldsOnly(s)) /\ [LocksNext]_locksVars
        => NoSelfEdge' /\ (\A s \in Session : HoldsOnly(s))'
  <2> SUFFICES ASSUME LocksInv, NoSelfEdge, \A s \in Session : HoldsOnly(s), [LocksNext]_locksVars
               PROVE  NoSelfEdge' /\ \A s \in Session : HoldsOnly(s)'
    OBVIOUS
  <2>1. CASE LocksNext
    BY <2>1, NoSelfEdgeKept, HoldsOnlyKept
  <2>2. CASE UNCHANGED locksVars
    BY <2>2, OthersHoldOnly DEF locksVars, NoSelfEdge
  <2> QED  BY <2>1, <2>2
<1>3. LocksInv /\ NoSelfEdge /\ (\A s \in Session : HoldsOnly(s)) => NoDeadlock
  BY OrderedWaitsEnd DEF WaitInv
<1> QED
  BY <1>1, <1>2, <1>3, LocksInvariant, PTL DEF LocksSpec
=============================================================================
