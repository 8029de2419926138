--------------------- MODULE SubscriptionLifecycleProofs ---------------------
(***************************************************************************)
(* Theorems about SubscriptionLifecycle, for any number of operations,     *)
(* subscriptions and cycles.                                               *)
(*                                                                         *)
(* Types come first: they need that no operation walks an empty list       *)
(* (ShapeInv).  The safety properties follow from what a caller may rely   *)
(* on at each stage while nobody has changed a subscription since it read  *)
(* (Knows): that there is no active subscription when it is about to make  *)
(* one, that the row it is about to end is still active or queued, that    *)
(* the period it expires is over.  A write by somebody else takes this     *)
(* knowledge away, and a caller that writes without it makes `stale` true. *)
(***************************************************************************)
EXTENDS SubscriptionLifecycle, FiniteSetTheorems, SequenceTheorems,
        WellFoundedInduction, TLAPS

-----------------------------------------------------------------------------
(* Sets of subscriptions and the lists made of them.                       *)

\* A non-empty set of naturals has a least element.
LEMMA Least ==
    ASSUME NEW S \in SUBSET Nat, S # {}
    PROVE  \E m \in S : \A k \in S : m <= k
<1>. DEFINE Upto(m) == 0..m
            T == {Upto(m) : m \in S}
<1>1. T \subseteq FiniteSubsetsOf(Nat) /\ T # {}
  <2>1. \A m \in S : IsFiniteSet(Upto(m)) /\ Upto(m) \in SUBSET Nat
    BY FS_Interval
  <2>. HIDE DEF Upto
  <2>2. \A m \in S : Upto(m) \in FiniteSubsetsOf(Nat)
    BY <2>1 DEF FiniteSubsetsOf
  <2>. QED BY <2>2
<1>2. PICK t \in T : \A u \in T : <<u, t>> \notin StrictSubsetOrdering(Nat)
  <2>. HIDE DEF T
  <2>. QED BY <1>1, FS_StrictSubsetOrderingWellFounded, WFMin
<1>3. PICK m \in S : t = Upto(m)
  BY <1>2
<1>4. ASSUME NEW k \in S, k < m PROVE FALSE
  <2>1. Upto(k) \in T /\ Upto(k) \subseteq t /\ Upto(k) # t /\ t \in SUBSET Nat
    BY <1>3, <1>4
  <2>2. <<Upto(k), t>> \in StrictSubsetOrdering(Nat)
    <3>. HIDE DEF Upto, T
    <3>. QED BY <2>1 DEF StrictSubsetOrdering
  <2>. HIDE DEF Upto, T
  <2>. QED BY <1>2, <2>1, <2>2
<1>. QED BY <1>4

\* First and Latest are members of the sets they are taken of.
LEMMA ChosenIsMember ==
    ASSUME NEW S, S \subseteq Subs, S # {}
    PROVE  First(S) \in S /\ Latest(S) \in S
<1>. S \in SUBSET Nat
  BY LifecycleAssumption DEF Subs
<1>1. \E m \in S : \A k \in S : m <= k
  BY Least
<1>2. First(S) \in S
  BY <1>1 DEF First
<1>. DEFINE T == {n \in Nat : MaxSubs - n \in S}
<1>3. T \in SUBSET Nat /\ \A s \in S : MaxSubs - s \in T
  BY LifecycleAssumption DEF Subs
<1>4. PICK t \in T : \A k \in T : t <= k
  BY <1>3, Least
<1>5. MaxSubs - t \in S /\ \A k \in S : k <= MaxSubs - t
  BY <1>3, <1>4, LifecycleAssumption DEF Subs
<1>6. Latest(S) \in S
  BY <1>5 DEF Latest
<1>. QED BY <1>2, <1>6

\* The type of a caller's registers.
RegType == [sub : Subs \cup {0}, prio : Nat, date : Nat, list : Seq(Subs)]

\* What the steps put in a caller's registers.
LEMMA RegTyped ==
    /\ NoReg \in RegType
    /\ \A s \in Subs \cup {0} : [NoReg EXCEPT !.sub = s] \in RegType
    /\ \A s \in Subs \cup {0}, d \in Nat : [NoReg EXCEPT !.sub = s, !.date = d] \in RegType
    /\ \A d \in Nat : [NoReg EXCEPT !.date = d] \in RegType
    /\ \A n, d \in Nat : [NoReg EXCEPT !.prio = n, !.date = d] \in RegType
    /\ \A n, d \in Nat, l \in Seq(Subs) :
          /\ [NoReg EXCEPT !.prio = n, !.date = d, !.list = l] \in RegType
          /\ [NoReg EXCEPT !.prio = n, !.date = d, !.list = l].prio = n
    /\ \A l \in Seq(Subs) : [NoReg EXCEPT !.list = l] \in RegType
    /\ \A l \in Seq(Subs), d \in Nat :
          /\ [NoReg EXCEPT !.list = l, !.date = d] \in RegType
          /\ [NoReg EXCEPT !.list = l, !.date = d].list = l
    /\ \A r \in RegType, d \in Nat : [r EXCEPT !.date = d] \in RegType
    /\ \A r \in RegType, l \in Seq(Subs) :
          /\ [r EXCEPT !.list = l] \in RegType
          /\ [r EXCEPT !.list = l].list = l
    /\ \A r \in RegType, l \in Seq(Subs), d \in Nat :
          /\ [r EXCEPT !.list = l, !.date = d] \in RegType
          /\ [r EXCEPT !.list = l, !.date = d].list = l
<1>1. <<>> \in Seq(Subs)
  BY EmptySeq
<1>2. NoReg \in RegType
  BY <1>1 DEF NoReg, RegType
<1>. QED BY <1>1, <1>2 DEF NoReg, RegType

\* A row's position in a list is where the list has it.
LEMMA PositionTyped ==
    ASSUME NEW list \in Seq(Subs), NEW s \in Listed(list)
    PROVE  Position(list, s) \in 1..Len(list) /\ list[Position(list, s)] = s
<1>1. \E i \in DOMAIN list : list[i] = s
  BY DEF Listed
<1>2. DOMAIN list = 1..Len(list)
  BY LenProperties
<1>. QED BY <1>1, <1>2 DEF Position

\* A bulkWrite of positions leaves numbers.
LEMMA PackTyped ==
    ASSUME NEW list \in Seq(Subs), NEW offset \in Nat, priority \in [Subs -> Nat],
           Pack(list, offset)
    PROVE  priority' \in [Subs -> Nat]
<1>1. \A s \in Listed(list) : Position(list, s) + offset \in Nat
  BY PositionTyped, LenProperties
<1>. QED BY <1>1 DEF Pack

\* Walking down a list.
LEMMA ListTail ==
    ASSUME NEW l \in Seq(Subs), l # <<>>
    PROVE  /\ Head(l) \in Subs /\ Tail(l) \in Seq(Subs)
           /\ Len(l) # 1 => Tail(l) # <<>>
<1>1. Head(l) \in Subs /\ Tail(l) \in Seq(Subs) /\ Len(Tail(l)) = Len(l) - 1
  BY HeadTailProperties
<1>2. Len(<<>>) = 0 /\ Len(l) \in Nat
  BY EmptySeq, LenProperties
<1>3. Len(l) # 1 => Len(Tail(l)) # 0
  BY <1>1, <1>2
<1>. QED BY <1>1, <1>2, <1>3

\* The rest of a list lists no more than the list.
LEMMA TailListed ==
    ASSUME NEW l \in Seq(Subs), l # <<>>
    PROVE  Listed(Tail(l)) \subseteq Listed(l)
<1>1. /\ Tail(l) \in Seq(Subs) /\ Len(Tail(l)) = Len(l) - 1
      /\ \A i \in 1..Len(Tail(l)) : Tail(l)[i] = l[i + 1]
  BY HeadTailProperties
<1>2. DOMAIN l = 1..Len(l) /\ DOMAIN Tail(l) = 1..Len(Tail(l)) /\ Len(l) \in Nat
  BY <1>1, LenProperties
<1>3. \A i \in DOMAIN Tail(l) : i + 1 \in DOMAIN l /\ Tail(l)[i] = l[i + 1]
  BY <1>1, <1>2
<1>. QED BY <1>3 DEF Listed

\* The lists a query or a reorder request gives are sequences of subscriptions.
LEMMA OrdersAreLists ==
    ASSUME NEW S, S \subseteq Subs
    PROVE  /\ IsFiniteSet(S) /\ Cardinality(S) \in Nat
           /\ \A q \in [1..Cardinality(S) -> S] :
                 q \in Seq(Subs) /\ Len(q) = Cardinality(S) /\ DOMAIN q = 1..Len(q)
                 /\ \A i \in 1..Len(q) : q[i] \in S
<1>1. IsFiniteSet(S) /\ Cardinality(S) \in Nat
  <2>1. IsFiniteSet(Subs)
    BY FS_Interval, LifecycleAssumption DEF Subs
  <2>. QED BY <2>1, FS_Subset, FS_CardinalityType
<1>2. ASSUME NEW q \in [1..Cardinality(S) -> S]
      PROVE  /\ q \in Seq(Subs) /\ Len(q) = Cardinality(S) /\ DOMAIN q = 1..Len(q)
             /\ \A i \in 1..Len(q) : q[i] \in S
  <2>1. q \in Seq(S)
    BY <1>1
  <2>2. q \in Seq(Subs) /\ DOMAIN q = 1..Cardinality(S)
    BY <2>1, SeqMonotonic
  <2>3. Len(q) = Cardinality(S)
    BY <2>1, <2>2, <1>1, LenProperties
  <2>. QED BY <2>2, <2>3
<1>. QED BY <1>1, <1>2

-----------------------------------------------------------------------------
(* Types, in the four parts the steps change.                              *)

RowsTyped == /\ status \in [Subs -> Statuses]
             /\ priority \in [Subs -> Nat]
             /\ ends \in [Subs -> Nat]

BackingTyped == usages \in [Subs -> Nat] /\ cached \in Subs \cup {0}

CallersTyped == /\ op \in [Callers -> Ops \cup {"none"}]
                /\ pc \in [Callers -> Stages]
                /\ reg \in [Callers -> RegType]

HistoryTyped == /\ fresh \in [Callers -> BOOLEAN]
                /\ stale \in BOOLEAN
                /\ crashed \in BOOLEAN

\* The parts make up TypeOK.
LEMMA TypeParts ==
    TypeOK <=> RowsTyped /\ BackingTyped /\ now \in 0..MaxTime /\ CallersTyped /\ HistoryTyped
<1>. QED BY Zenon DEF TypeOK, RowsTyped, BackingTyped, CallersTyped, HistoryTyped, RegType

\* A caller moves to a stage with typed registers.
LEMMA GoTyped ==
    ASSUME CallersTyped, NEW p \in Callers, NEW o \in Ops \cup {"none"},
           NEW stage \in Stages, NEW r \in RegType, GoAs(p, o, stage, r)
    PROVE  CallersTyped'
<1>1. NoReg \in RegType
  BY RegTyped
<1>2. op' \in [Callers -> Ops \cup {"none"}] /\ pc' \in [Callers -> Stages]
  BY DEF GoAs, CallersTyped
<1>3. reg' \in [Callers -> RegType]
  <2>. HIDE DEF RegType, NoReg
  <2>. QED BY <1>1 DEF GoAs, CallersTyped
<1>4. RegType' = RegType
  BY DEF RegType, Subs
<1>. QED BY <1>2, <1>3, <1>4 DEF CallersTyped

\* The history variables stay Boolean whichever way a step is classed.
LEMMA HistoryOfReads ==
    ASSUME HistoryTyped, NEW p \in Callers, Reads(p)
    PROVE  HistoryTyped'
<1>. QED BY DEF HistoryTyped, Reads

\* ... by a step that decides nothing new ...
LEMMA HistoryOfProceeds ==
    ASSUME HistoryTyped, NEW p \in Callers, Proceeds(p),
           stale' \in BOOLEAN, crashed' \in BOOLEAN
    PROVE  HistoryTyped'
<1>. QED BY DEF HistoryTyped, Proceeds

\* ... and by a write.
LEMMA HistoryOfWrites ==
    ASSUME HistoryTyped, NEW p \in Callers, Writes(p)
    PROVE  HistoryTyped'
<1>1. fresh' \in [Callers -> BOOLEAN]
  BY DEF HistoryTyped, Writes
<1>2. stale' \in BOOLEAN /\ crashed' = crashed
  BY DEF HistoryTyped, Writes
<1>. QED BY <1>1, <1>2 DEF HistoryTyped

-----------------------------------------------------------------------------
(* The inductive invariant.                                                *)

\* What a caller's registers hold at a stage, whoever else runs.
Shape(p) ==
    /\ pc[p] \in {"redate", "expireDrop", "expireSave"} => reg[p].list # <<>>
    /\ pc[p] = "shift" => reg[p].prio = 1

\* What a caller may rely on at a stage, as long as nobody has changed a
\* subscription since it read.
Knows(p) ==
    /\ pc[p] \in {"purgeUsage", "retire", "extend"} => Active = {reg[p].sub}
    /\ pc[p] \in {"dropCache", "earliest", "activate"} => Active = {}
    /\ pc[p] = "insert" /\ reg[p].prio = 0 => Active = {}
    /\ pc[p] = "readQueue" /\ op[p] # "continue" /\ reg[p].sub = 0 => Active = {}
    /\ pc[p] \in {"activate", "dequeue"} => reg[p].sub \in Queue
    /\ pc[p] \in {"expireDrop", "expireSave"} =>
           \E s \in Active : reg[p].list = <<s>> /\ ends[s] <= now
    /\ pc[p] = "redate" => Listed(reg[p].list) \subseteq Queue

\* At most one subscription is active.
AtMostOne == \A s, t \in Active : s = t

\* Until somebody acts on an old read, every caller whose read is not old knows.
KnowInv == ~stale => /\ AtMostOne
                     /\ \A p \in Callers : fresh[p] => Knows(p)
ShapeInv == \A p \in Callers : Shape(p)

StageInv == TypeOK /\ ShapeInv

-----------------------------------------------------------------------------
(* Every step keeps StageInv.                                              *)

\* Nobody has started.
LEMMA StageInit == Init => StageInv
<1>. SUFFICES ASSUME Init PROVE TypeOK /\ ShapeInv
  BY DEF StageInv
<1>1. RowsTyped /\ BackingTyped /\ now \in 0..MaxTime
  BY LifecycleAssumption DEF Init, RowsTyped, BackingTyped, Statuses
<1>2. CallersTyped
  <2>. HIDE DEF RegType, NoReg
  <2>. QED BY RegTyped DEF Init, CallersTyped, Stages
<1>3. HistoryTyped
  BY DEF Init, HistoryTyped
<1>4. ShapeInv
  BY DEF Init, ShapeInv, Shape
<1>. QED BY <1>1, <1>2, <1>3, <1>4, TypeParts

\* Only the stages that walk a list or shift the queue ask for a shape.
LEMMA GoShaped ==
    ASSUME CallersTyped, ShapeInv, NEW p \in Callers, NEW o, NEW stage, NEW r \in RegType,
           GoAs(p, o, stage, r),
           stage \in {"redate", "expireDrop", "expireSave"} => r.list # <<>>,
           stage = "shift" => r.prio = 1
    PROVE  ShapeInv'
<1>1. \A q \in Callers : q # p => pc'[q] = pc[q] /\ reg'[q] = reg[q]
  BY DEF GoAs, CallersTyped
<1>2. pc'[p] = stage /\ (stage # "idle" => reg'[p] = r)
  BY DEF GoAs, CallersTyped
<1>. QED BY <1>1, <1>2 DEF ShapeInv, Shape

\* A caller moves on, with the registers its stage asks for.
Moves(p) ==
    \E o \in Ops \cup {"none"}, stage \in Stages, r \in RegType :
        /\ GoAs(p, o, stage, r)
        /\ stage \in {"redate", "expireDrop", "expireSave"} => r.list # <<>>
        /\ stage = "shift" => r.prio = 1

\* A step that moves its caller and keeps the other parts typed keeps StageInv.
LEMMA StepKeepsStage ==
    ASSUME StageInv, NEW p \in Callers, Moves(p), RowsTyped', BackingTyped', now' = now,
           Reads(p) \/ Writes(p) \/ (Proceeds(p) /\ stale' \in BOOLEAN /\ crashed' \in BOOLEAN)
    PROVE  StageInv'
<1>1. CallersTyped /\ HistoryTyped /\ now \in 0..MaxTime /\ ShapeInv
  BY TypeParts DEF StageInv
<1>2. CallersTyped'
  BY <1>1, GoTyped DEF Moves
<1>3. HistoryTyped'
  BY <1>1, HistoryOfReads, HistoryOfProceeds, HistoryOfWrites
<1>4. ShapeInv'
  BY <1>1, GoShaped DEF Moves
<1>5. TypeOK'
  BY <1>1, <1>2, <1>3, Zenon DEF TypeOK, RowsTyped, BackingTyped, CallersTyped, HistoryTyped, RegType
<1>. QED BY <1>1, <1>2, <1>3, <1>4, <1>5 DEF StageInv

\* A subscription out of a typed set, a queue order, a register.
LEMMA ReadTyped ==
    ASSUME TypeOK
    PROVE  /\ Active \subseteq Subs /\ Queue \subseteq Subs /\ Unused \subseteq Subs
           /\ Active # {} => Latest(Active) \in Active /\ ends[Latest(Active)] \in Nat
           /\ Unused # {} => First(Unused) \in Unused
           /\ now \in Nat
           /\ \A q \in QueueOrders : /\ q \in Seq(Subs)
                                     /\ Len(q) = Cardinality(Queue)
                                     /\ \A i \in 1..Len(q) : q[i] \in Queue
                                     /\ q # <<>> => Len(q) \in 1..Len(q) /\ 1 \in 1..Len(q)
           /\ Queue # {} => \A q \in QueueOrders : q # <<>>
           /\ \A p \in Callers : /\ reg[p] \in RegType
                                 /\ reg[p].sub \in Subs \cup {0}
                                 /\ reg[p].prio \in Nat
                                 /\ reg[p].date \in Nat /\ reg[p].date + 1 \in Nat
                                 /\ reg[p].list \in Seq(Subs)
                                 /\ op[p] \in Ops \cup {"none"}
<1>1. Active \subseteq Subs /\ Queue \subseteq Subs /\ Unused \subseteq Subs
  BY DEF Active, Queue, Unused
<1>2. Active # {} => Latest(Active) \in Active
  BY <1>1, ChosenIsMember
<1>3. Unused # {} => First(Unused) \in Unused
  BY <1>1, ChosenIsMember
<1>4. \A q \in QueueOrders : q \in [1..Cardinality(Queue) -> Queue]
  BY DEF QueueOrders
<1>5. Cardinality(Queue) \in Nat /\ IsFiniteSet(Queue)
  BY <1>1, OrdersAreLists
<1>6. ASSUME NEW q \in QueueOrders
      PROVE  /\ q \in Seq(Subs) /\ Len(q) = Cardinality(Queue)
             /\ \A i \in 1..Len(q) : q[i] \in Queue
             /\ q # <<>> => Len(q) \in 1..Len(q) /\ 1 \in 1..Len(q)
             /\ Queue # {} => q # <<>>
  <2>1. q \in Seq(Subs) /\ Len(q) = Cardinality(Queue) /\ \A i \in 1..Len(q) : q[i] \in Queue
    BY <1>1, <1>4, OrdersAreLists
  <2>2. q # <<>> => Len(q) \in Nat \ {0}
    BY <2>1, EmptySeq
  <2>3. Queue # {} => q # <<>>
    BY <2>1, <1>5, EmptySeq, FS_EmptySet
  <2>. QED BY <2>1, <2>2, <2>3
<1>7. \A p \in Callers : reg[p] \in RegType /\ op[p] \in Ops \cup {"none"}
  BY DEF TypeOK, RegType
<1>8. Active # {} => ends[Latest(Active)] \in Nat
  BY <1>1, <1>2 DEF TypeOK
<1>9. \A p \in Callers : /\ reg[p].sub \in Subs \cup {0}
                         /\ reg[p].prio \in Nat
                         /\ reg[p].date \in Nat /\ reg[p].date + 1 \in Nat
                         /\ reg[p].list \in Seq(Subs)
  BY <1>7 DEF RegType
<1>10. now \in Nat
  BY LifecycleAssumption DEF TypeOK
<1>. QED BY <1>1, <1>2, <1>3, <1>6, <1>7, <1>8, <1>9, <1>10

\* The state and date an insertion decides.
LEMMA DecideTyped ==
    ASSUME TypeOK, NEW p \in Callers, NEW q \in QueueOrders
    PROVE  DecideBy(p, q) \in RegType
<1>1. CASE q = <<>>
  BY <1>1, ReadTyped, RegTyped DEF DecideBy
<1>2. CASE q # <<>>
  <2>1. q[Len(q)] \in Subs
    BY <1>2, ReadTyped
  <2>2. priority[q[Len(q)]] + 1 \in Nat /\ ends[q[Len(q)]] \in Nat
    BY <2>1 DEF TypeOK
  <2>. QED BY <1>2, <2>2, RegTyped DEF DecideBy
<1>. QED BY <1>1, <1>2

\* Every step of an operation moves its caller ...
LEMMA StepMoves ==
    ASSUME StageInv, NEW p \in Callers, Step(p)
    PROVE  Moves(p)
<1>. DEFINE o == op[p]
            l == reg[p].list
<1>0. o \in Ops \cup {"none"} /\ reg[p] \in RegType /\ NoReg \in RegType
  BY ReadTyped, RegTyped DEF StageInv
<1>. HIDE DEF o
<1>a. ASSUME NEW stage \in Stages \ {"redate", "expireDrop", "expireSave", "shift"},
             NEW r \in RegType, Go(p, stage, r)
      PROVE  Moves(p)
  BY <1>0, <1>a DEF Go, Moves, o
<1>b. ASSUME NEW stage \in Stages \ {"redate", "expireDrop", "expireSave", "shift"},
             NEW r \in RegType, NEW any \in Ops, GoAs(p, any, stage, r)
      PROVE  Moves(p)
  BY <1>b DEF Moves
<1>c. ASSUME NEW r \in RegType, r.list # <<>>,
             \/ \E stage \in {"idle", "redate", "checkActive", "expireDrop", "expireSave"} :
                    Go(p, stage, r)
             \/ GoAs(p, "expire", "expireDrop", r)
      PROVE  Moves(p)
  <2>1. CASE GoAs(p, "expire", "expireDrop", r)
    BY <1>c, <2>1 DEF Moves, Stages, Ops
  <2>2. ASSUME NEW stage \in {"idle", "redate", "checkActive", "expireDrop", "expireSave"},
               Go(p, stage, r)
        PROVE  Moves(p)
    BY <1>0, <1>c, <2>2 DEF Go, Moves, Stages, o
  <2>. QED BY <1>c, <2>1, <2>2
<1>d. ASSUME NEW r \in RegType, r.prio = 1, Go(p, "shift", r)
      PROVE  Moves(p)
  BY <1>0, <1>d DEF Go, Moves, Stages, o
<1>1. CASE FindActive(p)
  <2>1. PICK any \in {"cancel", "continue", "promote", "recreate", "force"} :
            IF Active = {}
            THEN GoAs(p, any, IF any = "force" THEN "insert" ELSE "idle",
                      [NoReg EXCEPT !.date = now])
            ELSE LET a == Latest(Active) IN
                 GoAs(p, any, CASE any = "continue" -> "extend"
                                [] any = "promote"  -> "findHead"
                                [] any = "force"    -> "purgeUsage"
                                [] OTHER            -> "retire",
                      [NoReg EXCEPT !.sub = a, !.date = IF any = "continue" THEN ends[a] ELSE 0])
    BY <1>1 DEF FindActive
  <2>2. CASE Active = {}
    <3>. DEFINE r == [NoReg EXCEPT !.date = now]
    <3>1. r \in RegType
      BY ReadTyped, RegTyped DEF StageInv
    <3>2. \E stage \in {"insert", "idle"} : GoAs(p, any, stage, r)
      BY <2>1, <2>2
    <3>. HIDE DEF r
    <3>. QED BY <3>1, <3>2, <1>b DEF Stages, Ops
  <2>3. CASE Active # {}
    <3>. DEFINE a == Latest(Active)
                d == IF any = "continue" THEN ends[a] ELSE 0
                r == [NoReg EXCEPT !.sub = a, !.date = d]
    <3>1. a \in Subs /\ d \in Nat
      BY <2>3, ReadTyped DEF StageInv
    <3>2. r \in RegType
      <4>. HIDE DEF a, d
      <4>. QED BY <3>1, RegTyped
    <3>3. \E stage \in {"extend", "findHead", "purgeUsage", "retire"} : GoAs(p, any, stage, r)
      BY <2>1, <2>3
    <3>. HIDE DEF r
    <3>. QED BY <3>2, <3>3, <1>b DEF Stages, Ops
  <2>. QED BY <2>2, <2>3
<1>2. CASE FindHead(p)
  BY <1>0, <1>2, <1>b DEF FindHead, Stages, Ops
<1>3. CASE PurgeUsage(p)
  BY <1>0, <1>3, <1>a DEF PurgeUsage, Stages
<1>4. CASE Retire(p)
  BY <1>0, <1>4, <1>a DEF Retire, Stages
<1>5. CASE DropCache(p)
  <2>. DEFINE d == IF op[p] = "force" THEN now ELSE 0
              r == [NoReg EXCEPT !.date = d]
  <2>1. r \in RegType
    <3>1. d \in Nat
      BY ReadTyped DEF StageInv
    <3>. HIDE DEF d
    <3>. QED BY <3>1, RegTyped
  <2>2. \E stage \in {"readActive", "insert", "earliest"} : Go(p, stage, r)
    BY <1>5 DEF DropCache
  <2>. HIDE DEF r
  <2>. QED BY <2>1, <2>2, <1>a DEF Stages
<1>6. CASE Earliest(p)
  <2>1. CASE Queue = {}
    <3>1. \E stage \in {"idle", "normRead"} : Go(p, stage, NoReg)
      BY <1>6, <2>1 DEF Earliest
    <3>. QED BY <1>0, <3>1, <1>a DEF Stages
  <2>2. CASE Queue # {}
    <3>1. PICK q \in QueueOrders : Go(p, "activate", [NoReg EXCEPT !.sub = q[1]])
      BY <1>6, <2>2 DEF Earliest
    <3>. DEFINE r == [NoReg EXCEPT !.sub = q[1]]
    <3>2. q[1] \in Subs
      BY <2>2, ReadTyped DEF StageInv
    <3>3. r \in RegType
      BY <3>2, RegTyped
    <3>4. Go(p, "activate", r)
      BY <3>1
    <3>. HIDE DEF r
    <3>. QED BY <3>3, <3>4, <1>a DEF Stages
  <2>. QED BY <2>1, <2>2
<1>7. CASE Activate(p)
  BY <1>0, <1>7, <1>a DEF Activate, Stages
<1>8. CASE MakeUsage(p)
  BY <1>0, <1>8, <1>a DEF MakeUsage, Stages
<1>9. CASE WriteCache(p)
  <2>. DEFINE r == [NoReg EXCEPT !.date = reg[p].date]
  <2>1. r \in RegType
    BY ReadTyped, RegTyped DEF StageInv
  <2>2. \E stage \in {"promRead", "normRead", "readQueue", "idle"} : Go(p, stage, r)
    BY <1>9 DEF WriteCache
  <2>. HIDE DEF r
  <2>. QED BY <2>1, <2>2, <1>a DEF Stages
<1>10. CASE NormRead(p)
  <2>1. PICK q \in QueueOrders :
            Go(p, CASE q = <<>>          -> AfterNorm(p)
                    [] At(p, "promRead") -> "promWrite"
                    [] OTHER             -> "normWrite", [NoReg EXCEPT !.list = q])
    BY <1>10 DEF NormRead
  <2>. DEFINE r == [NoReg EXCEPT !.list = q]
  <2>2. r \in RegType
    BY ReadTyped, RegTyped DEF StageInv
  <2>3. \E stage \in {"normRead", "redateRead", "idle", "promWrite", "normWrite"} : Go(p, stage, r)
    BY <2>1 DEF AfterNorm
  <2>. HIDE DEF r
  <2>. QED BY <2>2, <2>3, <1>a DEF Stages
<1>11. CASE NormWrite(p)
  <2>1. \E stage \in {"normRead", "redateRead", "idle"} : Go(p, stage, NoReg)
    BY <1>11 DEF NormWrite, AfterNorm
  <2>. QED BY <1>0, <2>1, <1>a DEF Stages
<1>12. CASE ReadActive(p)
  <2>. DEFINE a == Latest(Active)
              r == IF Active = {} THEN [NoReg EXCEPT !.date = now]
                   ELSE [NoReg EXCEPT !.sub = a, !.date = ends[a]]
  <2>1. r \in RegType
    <3>1. CASE Active = {}
      BY <3>1, ReadTyped, RegTyped DEF StageInv
    <3>2. CASE Active # {}
      <4>1. a \in Subs /\ ends[a] \in Nat
        BY <3>2, ReadTyped DEF StageInv
      <4>. HIDE DEF a
      <4>. QED BY <3>2, <4>1, RegTyped
    <3>. QED BY <3>1, <3>2
  <2>2. GoAs(p, IF At(p, "idle") THEN "grant" ELSE o, "readQueue", r)
    BY <1>12 DEF ReadActive, o
  <2>. HIDE DEF r
  <2>. QED BY <1>0, <2>1, <2>2 DEF Moves, Stages, Ops
<1>13. CASE ReadQueue(p)
  <2>1. PICK q \in QueueOrders :
            IF op[p] # "continue" THEN Go(p, "insert", DecideBy(p, q))
            ELSE IF q = <<>> THEN Go(p, "normRead", NoReg)
            ELSE Go(p, "shift", [NoReg EXCEPT !.prio = 1, !.date = reg[p].date, !.list = q])
    BY <1>13 DEF ReadQueue
  <2>2. DecideBy(p, q) \in RegType
    BY DecideTyped DEF StageInv
  <2>. DEFINE r == [NoReg EXCEPT !.prio = 1, !.date = reg[p].date, !.list = q]
  <2>3. r \in RegType /\ r.prio = 1
    <3>1. reg[p].date \in Nat /\ q \in Seq(Subs)
      BY ReadTyped DEF StageInv
    <3>. QED BY <3>1, <1>0 DEF RegType, NoReg
  <2>4. Go(p, "insert", DecideBy(p, q)) \/ Go(p, "normRead", NoReg) \/ Go(p, "shift", r)
    BY <2>1
  <2>. HIDE DEF r
  <2>. QED BY <1>0, <2>2, <2>3, <2>4, <1>a, <1>d DEF Stages
<1>14. CASE Insert(p)
  <2>. DEFINE new == First(Unused)
              r == [NoReg EXCEPT !.sub = new]
  <2>1. r \in RegType
    <3>1. new \in Subs
      BY <1>14, ReadTyped DEF StageInv, Insert
    <3>. HIDE DEF new
    <3>. QED BY <3>1, RegTyped
  <2>2. \E stage \in {"usage", "idle", "normRead"} : Go(p, stage, r)
    BY <1>14 DEF Insert
  <2>. HIDE DEF r
  <2>. QED BY <2>1, <2>2, <1>a DEF Stages
<1>15. CASE Extend(p)
  <2>. DEFINE r == [reg[p] EXCEPT !.date = @ + 1]
  <2>1. r \in RegType
    BY <1>0, ReadTyped DEF RegType, StageInv
  <2>2. Go(p, "cache", r)
    BY <1>15 DEF Extend
  <2>. HIDE DEF r
  <2>. QED BY <2>1, <2>2, <1>a DEF Stages
<1>16. CASE Shift(p)
  BY <1>0, <1>16, <1>a DEF Shift, Stages
<1>17. CASE FindQueued(p)
  <2>1. PICK s \in Queue : GoAs(p, "cancelQueued", "dequeue", [NoReg EXCEPT !.sub = s])
    BY <1>17 DEF FindQueued
  <2>. DEFINE r == [NoReg EXCEPT !.sub = s]
  <2>2. r \in RegType
    BY ReadTyped, RegTyped DEF StageInv
  <2>. HIDE DEF r
  <2>3. GoAs(p, "cancelQueued", "dequeue", r)
    BY <2>1 DEF r
  <2>. QED BY <2>2, <2>3, <1>b DEF Stages, Ops
<1>18. CASE Dequeue(p)
  BY <1>0, <1>18, <1>a DEF Dequeue, Stages
<1>19. CASE Arrange(p)
  <2>1. PICK q \in [1..Cardinality(Queue) -> Queue] :
            GoAs(p, "reorder", "rearrange", [NoReg EXCEPT !.list = q])
    BY <1>19 DEF Arrange
  <2>. DEFINE r == [NoReg EXCEPT !.list = q]
  <2>2. q \in Seq(Subs)
    BY ReadTyped, OrdersAreLists DEF StageInv
  <2>3. r \in RegType
    BY <2>2, RegTyped
  <2>4. GoAs(p, "reorder", "rearrange", r)
    BY <2>1
  <2>. HIDE DEF r
  <2>. QED BY <2>3, <2>4, <1>b DEF Stages, Ops
<1>20. CASE Rearrange(p)
  BY <1>0, <1>20, <1>a DEF Rearrange, Stages
<1>21. CASE RedateRead(p)
  <2>1. PICK q \in QueueOrders :
            Go(p, IF q = <<>> THEN "idle" ELSE "redate",
               [NoReg EXCEPT !.list = q,
                             !.date = IF Active = {} THEN now ELSE ends[Latest(Active)]])
    BY <1>21 DEF RedateRead
  <2>. DEFINE d == IF Active = {} THEN now ELSE ends[Latest(Active)]
              r == [NoReg EXCEPT !.list = q, !.date = d]
  <2>2. r \in RegType /\ r.list = q
    <3>1. d \in Nat /\ q \in Seq(Subs)
      BY ReadTyped DEF StageInv
    <3>. HIDE DEF d
    <3>. QED BY <3>1, <1>0 DEF RegType, NoReg
  <2>3. Go(p, IF q = <<>> THEN "idle" ELSE "redate", r)
    BY <2>1
  <2>. HIDE DEF r
  <2>4. CASE q = <<>>
    BY <2>2, <2>3, <2>4, <1>a DEF Stages
  <2>5. CASE q # <<>>
    BY <2>2, <2>3, <2>5, <1>c
  <2>. QED BY <2>4, <2>5
<1>22. CASE Redate(p)
  <2>. DEFINE r == [reg[p] EXCEPT !.list = Tail(@), !.date = @ + 1]
  <2>1. l \in Seq(Subs) /\ l # <<>> /\ reg[p].date + 1 \in Nat
    BY <1>22, ReadTyped DEF Redate, At, ShapeInv, Shape, StageInv
  <2>2. Tail(l) \in Seq(Subs) /\ (Len(l) # 1 => Tail(l) # <<>>)
    BY <2>1, ListTail
  <2>3. r \in RegType /\ r.list = Tail(l)
    BY <1>0, <2>1, <2>2 DEF RegType
  <2>4. Go(p, IF Len(l) = 1 THEN "idle" ELSE "redate", r)
    BY <1>22 DEF Redate
  <2>. HIDE DEF l, r
  <2>5. CASE Len(l) = 1
    BY <2>3, <2>4, <2>5, <1>a DEF Stages
  <2>6. CASE Len(l) # 1
    BY <2>2, <2>3, <2>4, <2>6, <1>c
  <2>. QED BY <2>5, <2>6
<1>23. CASE ListOverdue(p)
  <2>1. PICK q \in [1..Cardinality(Overdue(now)) -> Overdue(now)] :
            GoAs(p, "expire", IF q = <<>> THEN "dueFutures" ELSE "expireDrop",
                 [NoReg EXCEPT !.list = q, !.date = now])
    BY <1>23 DEF ListOverdue
  <2>. DEFINE r == [NoReg EXCEPT !.list = q, !.date = now]
  <2>2. r \in RegType /\ r.list = q
    <3>1. Overdue(now) \subseteq Subs
      BY ReadTyped DEF Overdue, StageInv
    <3>2. q \in Seq(Subs) /\ now \in Nat
      BY <3>1, ReadTyped, OrdersAreLists DEF StageInv
    <3>. QED BY <3>2, <1>0 DEF RegType, NoReg
  <2>3. GoAs(p, "expire", IF q = <<>> THEN "dueFutures" ELSE "expireDrop", r)
    BY <2>1
  <2>. HIDE DEF r
  <2>4. CASE q = <<>>
    BY <2>2, <2>3, <2>4, <1>b DEF Stages, Ops
  <2>5. CASE q # <<>>
    BY <2>2, <2>3, <2>5, <1>c
  <2>. QED BY <2>4, <2>5
<1>24. CASE ExpireDrop(p)
  <2>1. Go(p, "expireSave", reg[p]) /\ reg[p].list # <<>>
    BY <1>24 DEF ExpireDrop, At, ShapeInv, Shape, StageInv
  <2>. QED BY <1>0, <2>1, <1>c
<1>25. CASE ExpireSave(p)
  <2>. DEFINE r == [reg[p] EXCEPT !.list = Tail(@)]
  <2>1. l \in Seq(Subs) /\ l # <<>>
    BY <1>25, ReadTyped DEF ExpireSave, At, ShapeInv, Shape, StageInv
  <2>2. Tail(l) \in Seq(Subs) /\ (Len(l) # 1 => Tail(l) # <<>>)
    BY <2>1, ListTail
  <2>3. r \in RegType /\ r.list = Tail(l)
    BY <1>0, <2>1, <2>2 DEF RegType
  <2>4. Go(p, IF Len(l) = 1 THEN "checkActive" ELSE "expireDrop", r)
    BY <1>25 DEF ExpireSave
  <2>. HIDE DEF l, r
  <2>5. CASE Len(l) = 1
    BY <2>3, <2>4, <2>5, <1>a DEF Stages
  <2>6. CASE Len(l) # 1
    BY <2>2, <2>3, <2>4, <2>6, <1>c
  <2>. QED BY <2>5, <2>6
<1>26. CASE DueFutures(p)
  <2>1. \E stage \in {"checkActive", "idle"} : Go(p, stage, NoReg)
    BY <1>26 DEF DueFutures
  <2>. QED BY <1>0, <2>1, <1>a DEF Stages
<1>27. CASE CheckActive(p)
  <2>1. \E stage \in {"earliest", "idle"} : Go(p, stage, NoReg)
    BY <1>27 DEF CheckActive
  <2>. QED BY <1>0, <2>1, <1>a DEF Stages
<1>. QED BY <1>1, <1>2, <1>3, <1>4, <1>5, <1>6, <1>7, <1>8, <1>9, <1>10, <1>11,
            <1>12, <1>13, <1>14, <1>15, <1>16, <1>17, <1>18, <1>19, <1>20, <1>21,
            <1>22, <1>23, <1>24, <1>25, <1>26, <1>27 DEF Step

\* ... is classed as a read, a write or neither ...
LEMMA StepClassed ==
    ASSUME StageInv, NEW p \in Callers, Step(p)
    PROVE  Reads(p) \/ Writes(p) \/ (Proceeds(p) /\ stale' \in BOOLEAN /\ crashed' \in BOOLEAN)
<1>0. HistoryTyped
  BY TypeParts DEF StageInv
<1>1. CASE FindActive(p)
  BY <1>1 DEF FindActive
<1>2. CASE FindHead(p)
  BY <1>2 DEF FindHead
<1>3. CASE PurgeUsage(p)
  BY <1>0, <1>3 DEF PurgeUsage, HistoryTyped
<1>4. CASE Retire(p)
  BY <1>4 DEF Retire
<1>5. CASE DropCache(p)
  BY <1>0, <1>5 DEF DropCache, HistoryTyped, CacheTo
<1>6. CASE Earliest(p)
  BY <1>0, <1>6 DEF Earliest, HistoryTyped
<1>7. CASE Activate(p)
  BY <1>7 DEF Activate
<1>8. CASE MakeUsage(p)
  BY <1>0, <1>8 DEF MakeUsage, HistoryTyped
<1>9. CASE WriteCache(p)
  BY <1>0, <1>9 DEF WriteCache, HistoryTyped, CacheTo
<1>10. CASE NormRead(p)
  BY <1>10 DEF NormRead
<1>11. CASE NormWrite(p)
  BY <1>11 DEF NormWrite
<1>12. CASE ReadActive(p)
  BY <1>12 DEF ReadActive
<1>13. CASE ReadQueue(p)
  BY <1>0, <1>13 DEF ReadQueue, HistoryTyped
<1>14. CASE Insert(p)
  BY <1>14 DEF Insert
<1>15. CASE Extend(p)
  BY <1>15 DEF Extend
<1>16. CASE Shift(p)
  BY <1>16 DEF Shift
<1>17. CASE FindQueued(p)
  BY <1>17 DEF FindQueued
<1>18. CASE Dequeue(p)
  BY <1>18 DEF Dequeue
<1>19. CASE Arrange(p)
  BY <1>19 DEF Arrange
<1>20. CASE Rearrange(p)
  BY <1>20 DEF Rearrange
<1>21. CASE RedateRead(p)
  BY <1>21 DEF RedateRead
<1>22. CASE Redate(p)
  BY <1>22 DEF Redate
<1>23. CASE ListOverdue(p)
  BY <1>23 DEF ListOverdue
<1>24. CASE ExpireDrop(p)
  BY <1>0, <1>24 DEF ExpireDrop, HistoryTyped, CacheTo
<1>25. CASE ExpireSave(p)
  BY <1>25 DEF ExpireSave
<1>26. CASE DueFutures(p)
  BY <1>0, <1>26 DEF DueFutures, HistoryTyped
<1>27. CASE CheckActive(p)
  BY <1>27 DEF CheckActive
<1>. QED BY <1>1, <1>2, <1>3, <1>4, <1>5, <1>6, <1>7, <1>8, <1>9, <1>10, <1>11,
              <1>12, <1>13, <1>14, <1>15, <1>16, <1>17, <1>18, <1>19,
              <1>20, <1>21, <1>22, <1>23, <1>24, <1>25, <1>26, <1>27 DEF Step

\* ... and keeps the rows and what hangs on them typed.
LEMMA StepTyped ==
    ASSUME StageInv, NEW p \in Callers, Step(p)
    PROVE  RowsTyped' /\ BackingTyped' /\ now' = now
<1>0. RowsTyped /\ BackingTyped
  BY TypeParts DEF StageInv
<1>. USE ReadTyped DEF StageInv, RowsTyped, BackingTyped, Statuses
<1>1. CASE FindActive(p)
  BY <1>0, <1>1 DEF FindActive, Reads, rows, backing
<1>2. CASE FindHead(p)
  BY <1>0, <1>2 DEF FindHead, Reads, rows, backing
<1>3. CASE PurgeUsage(p)
  BY <1>0, <1>3 DEF PurgeUsage, Proceeds, rows, backing
<1>4. CASE Retire(p)
  BY <1>0, <1>4 DEF Retire, Writes, backing
<1>5. CASE DropCache(p)
  BY <1>0, <1>5 DEF DropCache, CacheTo, Proceeds, rows, backing
<1>6. CASE Earliest(p)
  BY <1>0, <1>6 DEF Earliest, Proceeds, rows, backing
<1>7. CASE Activate(p)
  BY <1>0, <1>7 DEF Activate, Writes, backing
<1>8. CASE MakeUsage(p)
  <2>1. \A s \in Subs : usages[s] + 1 \in Nat
    BY <1>0
  <2>. QED BY <1>0, <1>8, <2>1 DEF MakeUsage, Proceeds, rows
<1>9. CASE WriteCache(p)
  BY <1>0, <1>9 DEF WriteCache, CacheTo, Proceeds, rows, backing
<1>10. CASE NormRead(p)
  BY <1>0, <1>10 DEF NormRead, Reads, rows, backing
<1>11. CASE NormWrite(p)
  <2>1. Pack(reg[p].list, 0) /\ reg[p].list \in Seq(Subs)
    BY <1>11 DEF NormWrite
  <2>2. priority' \in [Subs -> Nat]
    BY <1>0, <2>1, PackTyped
  <2>. QED BY <1>0, <1>11, <2>2 DEF NormWrite, Writes, backing
<1>12. CASE ReadActive(p)
  BY <1>0, <1>12 DEF ReadActive, Reads, rows, backing
<1>13. CASE ReadQueue(p)
  BY <1>0, <1>13 DEF ReadQueue, Proceeds, rows, backing
<1>14. CASE Insert(p)
  BY <1>0, <1>14 DEF Insert, Writes, backing
<1>15. CASE Extend(p)
  <2>1. reg[p].date + 1 \in Nat
    OBVIOUS
  <2>2. \E s : ends' = [ends EXCEPT ![s] = reg[p].date + 1]
    BY <1>15 DEF Extend
  <2>. QED BY <1>0, <1>15, <2>1, <2>2 DEF Extend, Writes, backing
<1>16. CASE Shift(p)
  <2>1. Pack(reg[p].list, 1) /\ reg[p].list \in Seq(Subs)
    BY <1>16 DEF Shift
  <2>2. priority' \in [Subs -> Nat]
    BY <1>0, <2>1, PackTyped
  <2>. QED BY <1>0, <1>16, <2>2 DEF Shift, Writes, backing
<1>17. CASE FindQueued(p)
  BY <1>0, <1>17 DEF FindQueued, Reads, rows, backing
<1>18. CASE Dequeue(p)
  BY <1>0, <1>18 DEF Dequeue, Writes, backing
<1>19. CASE Arrange(p)
  BY <1>0, <1>19 DEF Arrange, Reads, rows, backing
<1>20. CASE Rearrange(p)
  <2>1. reg[p].list \in Seq(Subs)
    OBVIOUS
  <2>2. \A s \in Listed(reg[p].list) : Position(reg[p].list, s) \in Nat
    BY <2>1, PositionTyped, LenProperties
  <2>. QED BY <1>0, <1>20, <2>2 DEF Rearrange, Writes, backing
<1>21. CASE RedateRead(p)
  BY <1>0, <1>21 DEF RedateRead, Reads, rows, backing
<1>22. CASE Redate(p)
  <2>1. reg[p].date + 1 \in Nat
    OBVIOUS
  <2>2. \E s : ends' = [ends EXCEPT ![s] = reg[p].date + 1]
    BY <1>22 DEF Redate
  <2>. QED BY <1>0, <1>22, <2>1, <2>2 DEF Redate, Writes, backing
<1>23. CASE ListOverdue(p)
  BY <1>0, <1>23 DEF ListOverdue, Reads, rows, backing
<1>24. CASE ExpireDrop(p)
  BY <1>0, <1>24 DEF ExpireDrop, CacheTo, Proceeds, rows, backing
<1>25. CASE ExpireSave(p)
  BY <1>0, <1>25 DEF ExpireSave, Writes, backing
<1>26. CASE DueFutures(p)
  BY <1>0, <1>26 DEF DueFutures, Proceeds, rows, backing
<1>27. CASE CheckActive(p)
  BY <1>0, <1>27 DEF CheckActive, Reads, rows, backing
<1>. QED BY <1>1, <1>2, <1>3, <1>4, <1>5, <1>6, <1>7, <1>8, <1>9, <1>10, <1>11,
              <1>12, <1>13, <1>14, <1>15, <1>16, <1>17, <1>18, <1>19,
              <1>20, <1>21, <1>22, <1>23, <1>24, <1>25, <1>26, <1>27 DEF Step

\* So every step keeps StageInv.
LEMMA StageNext == StageInv /\ [Next]_vars => StageInv'
<1>. SUFFICES ASSUME StageInv, [Next]_vars PROVE StageInv'
  OBVIOUS
<1>0. /\ RowsTyped /\ BackingTyped /\ CallersTyped /\ HistoryTyped /\ now \in 0..MaxTime
      /\ ShapeInv
  BY TypeParts DEF StageInv
<1>1. CASE UNCHANGED vars
  BY <1>1 DEF vars, rows, backing, history, StageInv, TypeOK, ShapeInv, Shape
<1>2. ASSUME NEW p \in Callers, Step(p) PROVE StageInv'
  <2>1. Reads(p) \/ Writes(p) \/ (Proceeds(p) /\ stale' \in BOOLEAN /\ crashed' \in BOOLEAN)
    BY <1>2, StepClassed
  <2>. QED BY <1>2, <2>1, StepMoves, StepTyped, StepKeepsStage
<1>3. ASSUME NEW p \in Callers, Crash(p) PROVE StageInv'
  <2>1. CallersTyped' /\ ShapeInv'
    <3>1. op[p] \in Ops \cup {"none"} /\ "idle" \in Stages /\ NoReg \in RegType
      BY <1>0, RegTyped DEF CallersTyped, Stages
    <3>2. GoAs(p, op[p], "idle", NoReg)
      BY <1>3 DEF Crash, Go
    <3>. QED BY <1>0, <3>1, <3>2, GoTyped, GoShaped
  <2>2. RowsTyped' /\ BackingTyped' /\ now' \in 0..MaxTime
    BY <1>0, <1>3 DEF Crash, rows, backing, RowsTyped, BackingTyped
  <2>3. HistoryTyped'
    BY <1>0, <1>3 DEF Crash, HistoryTyped
  <2>. QED BY <2>1, <2>2, <2>3, Zenon DEF StageInv, TypeOK, RowsTyped, BackingTyped,
                                          CallersTyped, HistoryTyped, RegType
<1>4. CASE Tick
  <2>1. now' \in 0..MaxTime
    BY <1>0, <1>4, LifecycleAssumption DEF Tick
  <2>. QED BY <1>4, <2>1 DEF Tick, rows, backing, history, StageInv, TypeOK, ShapeInv, Shape
<1>. QED BY <1>1, <1>2, <1>3, <1>4 DEF Next

\* Every reachable state has the declared types, whatever queue an operation
\* carries: positions stay positive and every list names subscriptions.
THEOREM TypeCorrect == Spec => []TypeOK
<1>1. StageInv => TypeOK
  BY DEF StageInv
<1>. QED BY <1>1, StageInit, StageNext, PTL DEF Spec

-----------------------------------------------------------------------------
(* Every step keeps what callers know.                                     *)

\* Where a caller stands after a step, and that the others stay where they are.
LEMMA Gone ==
    ASSUME StageInv, NEW p \in Callers, NEW o, NEW stage, NEW r, GoAs(p, o, stage, r)
    PROVE  /\ pc'[p] = stage
           /\ stage # "idle" => op'[p] = o /\ reg'[p] = r
           /\ \A q \in Callers : q # p => pc'[q] = pc[q] /\ op'[q] = op[q] /\ reg'[q] = reg[q]
<1>. QED BY DEF GoAs, StageInv, TypeOK

\* The stages at which a caller knows something.
KnowStages == {"purgeUsage", "retire", "extend", "dropCache", "earliest", "activate", "insert",
               "readQueue", "dequeue", "expireDrop", "expireSave", "redate"}

\* Elsewhere nothing is claimed of what a caller knows.
LEMMA NothingToKnow ==
    ASSUME NEW p \in Callers, pc'[p] \notin KnowStages
    PROVE  Knows(p)'
<1>. QED BY DEF Knows, KnowStages

\* A step that changes no row leaves the others what they know; one that does
\* leaves them nothing to rely on.
LEMMA OthersKnow ==
    ASSUME StageInv, KnowInv, NEW p \in Callers, Moves(p), now' = now,
           Reads(p) \/ Writes(p) \/ Proceeds(p),
           ~stale, ~stale', AtMostOne', fresh'[p] => Knows(p)'
    PROVE  KnowInv'
<1>1. ASSUME NEW q \in Callers, q # p, fresh'[q] PROVE Knows(q)'
  <2>1. pc'[q] = pc[q] /\ op'[q] = op[q] /\ reg'[q] = reg[q]
    BY <1>1, Gone DEF Moves
  <2>2. CASE pc'[q] = "idle"
    BY <2>2, NothingToKnow DEF KnowStages
  <2>3. CASE pc'[q] # "idle"
    <3>1. fresh[q] /\ status' = status /\ ends' = ends
      BY <1>1, <2>3 DEF Reads, Writes, Proceeds, rows, StageInv, TypeOK
    <3>2. Active' = Active /\ Queue' = Queue
      BY <3>1 DEF Active, Queue
    <3>3. Knows(q)
      BY <3>1 DEF KnowInv
    <3>. QED BY <2>1, <3>1, <3>2, <3>3 DEF Knows, Listed
  <2>. QED BY <2>2, <2>3
<1>. QED BY <1>1 DEF KnowInv

\* A step never forgets that somebody acted on an old read.
LEMMA StaleStays ==
    ASSUME StageInv, NEW p \in Callers, Step(p), ~stale'
    PROVE  ~stale
<1>1. CASE Reads(p) \/ Writes(p)
  BY <1>1 DEF Reads, Writes
<1>2. CASE ~(Reads(p) \/ Writes(p))
  BY <1>2 DEF Step, FindActive, FindHead, PurgeUsage, Retire, DropCache, Earliest, Activate,
              MakeUsage, WriteCache, NormRead, NormWrite, ReadActive, ReadQueue, Insert, Extend,
              Shift, FindQueued, Dequeue, Arrange, Rearrange, RedateRead, Redate, ListOverdue,
              ExpireDrop, ExpireSave, DueFutures, CheckActive
<1>. QED BY <1>1, <1>2

\* A step either changes no row or is one of the writes.
LEMMA StepKinds ==
    ASSUME NEW p \in Callers, Step(p)
    PROVE  \/ Reads(p) \/ Proceeds(p)
           \/ Retire(p) \/ Activate(p) \/ NormWrite(p) \/ Insert(p) \/ Extend(p) \/ Shift(p)
           \/ Dequeue(p) \/ Rearrange(p) \/ Redate(p) \/ ExpireSave(p)
<1>. QED BY DEF Step, FindActive, FindHead, PurgeUsage, DropCache, Earliest, MakeUsage,
                WriteCache, NormRead, ReadActive, ReadQueue, FindQueued, Arrange, RedateRead,
                ListOverdue, ExpireDrop, DueFutures, CheckActive

\* With at most one subscription active there is at most one to expire.
LEMMA OneOverdue ==
    ASSUME StageInv, AtMostOne,
           NEW q \in [1..Cardinality(Overdue(now)) -> Overdue(now)],
           Listed(q) = Overdue(now), q # <<>>
    PROVE  \E s \in Active : q = <<s>> /\ ends[s] <= now
<1>. DEFINE S == Overdue(now)
<1>1. S \subseteq Active /\ S \subseteq Subs /\ \A s \in S : ends[s] <= now
  BY DEF Overdue, Active
<1>2. /\ q \in Seq(Subs) /\ DOMAIN q = 1..Len(q) /\ Len(q) = Cardinality(S)
      /\ \A i \in 1..Len(q) : q[i] \in S
  BY <1>1, OrdersAreLists
<1>3. Len(q) \in Nat \ {0}
  BY <1>2, EmptySeq
<1>4. PICK s \in S : TRUE
  BY <1>2, <1>3
<1>5. S = {s}
  BY <1>1, <1>4 DEF AtMostOne
<1>6. Len(q) = 1
  BY <1>2, <1>5, FS_Singleton
<1>. HIDE DEF S
<1>7. q[1] = s
  <2>1. 1 \in 1..Len(q)
    BY <1>6
  <2>2. q[1] \in S
    BY <1>2, <2>1
  <2>. QED BY <1>5, <2>2
<1>8. q = <<s>>
  <2>1. <<s>> \in Seq(Subs) /\ Len(<<s>>) = 1 /\ <<s>>[1] = s
    BY <1>1, <1>4
  <2>2. Len(q) = Len(<<s>>) /\ \A i \in 1..Len(q) : q[i] = <<s>>[i]
    BY <1>6, <1>7, <2>1
  <2>. QED BY <1>2, <2>1, <2>2, SeqEqual
<1>. QED BY <1>1, <1>4, <1>8

\* What the caller of a step knows after it, and that it leaves at most one
\* subscription active.
LEMMA CallerKnows ==
    ASSUME StageInv, KnowInv, NEW p \in Callers, Step(p), ~stale'
    PROVE  AtMostOne' /\ (fresh'[p] => Knows(p)')
<1>0. ~stale /\ AtMostOne /\ (fresh[p] => Knows(p)) /\ TypeOK /\ ShapeInv
  BY StaleStays DEF KnowInv, StageInv
<1>1. ASSUME status' = status, NEW stage, stage \notin KnowStages, NEW o, NEW r, GoAs(p, o, stage, r)
      PROVE  AtMostOne' /\ (fresh'[p] => Knows(p)')
  <2>1. pc'[p] \notin KnowStages
    BY <1>1, Gone
  <2>. QED BY <1>0, <1>1, <2>1, NothingToKnow DEF AtMostOne, Active
<1>2. ASSUME Writes(p) PROVE fresh[p] /\ Knows(p)
  BY <1>0, <1>2 DEF Writes, StageInv, TypeOK
<1>3. ASSUME Proceeds(p), fresh'[p], pc'[p] # "idle" PROVE fresh[p] /\ Knows(p)
  BY <1>0, <1>3 DEF Proceeds, StageInv, TypeOK
<1>4. ASSUME status' = status PROVE AtMostOne' /\ Active' = Active /\ Queue' = Queue
  BY <1>0, <1>4 DEF AtMostOne, Active, Queue
<1>. USE DEF KnowStages
<1>5. CASE FindActive(p)
  <2>1. PICK o \in {"cancel", "continue", "promote", "recreate", "force"} :
            IF Active = {}
            THEN GoAs(p, o, IF o = "force" THEN "insert" ELSE "idle", [NoReg EXCEPT !.date = now])
            ELSE LET a == Latest(Active) IN
                 GoAs(p, o, CASE o = "continue" -> "extend"
                              [] o = "promote"  -> "findHead"
                              [] o = "force"    -> "purgeUsage"
                              [] OTHER          -> "retire",
                      [NoReg EXCEPT !.sub = a, !.date = IF o = "continue" THEN ends[a] ELSE 0])
    BY <1>5 DEF FindActive
  <2>2. status' = status
    BY <1>5 DEF FindActive, Reads, rows
  <2>3. CASE Active = {}
    <3>1. pc'[p] \in {"insert", "idle"}
      BY <2>1, <2>3, Gone
    <3>. QED BY <1>4, <2>2, <2>3, <3>1 DEF Knows
  <2>4. CASE Active # {}
    <3>. DEFINE a == Latest(Active)
                r == [NoReg EXCEPT !.sub = a, !.date = IF o = "continue" THEN ends[a] ELSE 0]
    <3>1. PICK stage \in {"extend", "findHead", "purgeUsage", "retire"} : GoAs(p, o, stage, r)
      BY <2>1, <2>4
    <3>2. r.sub = a
      BY DEF NoReg
    <3>3. a \in Active
      BY <1>0, <2>4, ReadTyped
    <3>4. Active = {a}
      BY <1>0, <3>3 DEF AtMostOne
    <3>. HIDE DEF a, r
    <3>5. pc'[p] = stage /\ reg'[p] = r
      BY <3>1, Gone
    <3>. QED BY <1>4, <2>2, <3>1, <3>2, <3>4, <3>5 DEF Knows
  <2>. QED BY <2>3, <2>4
<1>6. CASE FindHead(p)
  BY <1>1, <1>6 DEF FindHead, Reads, rows
<1>7. CASE PurgeUsage(p)
  <2>1. pc'[p] = "retire" /\ reg'[p] = reg[p] /\ status' = status /\ pc[p] = "purgeUsage"
    BY <1>7, Gone DEF PurgeUsage, Go, Proceeds, rows, At
  <2>. QED BY <1>3, <1>4, <1>7, <2>1 DEF PurgeUsage, Knows
<1>8. CASE Retire(p)
  <2>1. fresh[p] /\ Knows(p) /\ pc[p] = "retire"
    BY <1>2, <1>8 DEF Retire, At
  <2>2. Active = {reg[p].sub}
    BY <2>1 DEF Knows
  <2>3. Active' = {}
    BY <1>0, <1>8, <2>2 DEF Retire, Active, TypeOK
  <2>4. pc'[p] = "dropCache"
    BY <1>8, Gone DEF Retire, Go
  <2>. QED BY <2>3, <2>4 DEF AtMostOne, Knows
<1>9. CASE DropCache(p)
  <2>1. pc'[p] \in {"readActive", "insert", "earliest"} /\ status' = status /\ pc[p] = "dropCache"
    BY <1>9, Gone DEF DropCache, Go, Proceeds, rows, At
  <2>2. fresh'[p] => Active' = {}
    BY <1>3, <1>4, <1>9, <2>1 DEF DropCache, Knows
  <2>. QED BY <1>4, <2>1, <2>2 DEF Knows
<1>10. CASE Earliest(p)
  <2>1. status' = status /\ pc[p] = "earliest" /\ Proceeds(p)
    BY <1>10 DEF Earliest, Proceeds, rows, At
  <2>2. CASE Queue = {}
    <3>1. \E stage \in {"idle", "normRead"} : GoAs(p, op[p], stage, NoReg)
      BY <1>10, <2>2 DEF Earliest, Go
    <3>. QED BY <1>1, <2>1, <3>1
  <2>3. CASE Queue # {}
    <3>1. PICK q \in QueueOrders : GoAs(p, op[p], "activate", [NoReg EXCEPT !.sub = q[1]])
      BY <1>10, <2>3 DEF Earliest, Go
    <3>. DEFINE r == [NoReg EXCEPT !.sub = q[1]]
    <3>2. r.sub = q[1] /\ q[1] \in Queue
      <4>1. q[1] \in Queue
        BY <1>0, <2>3, ReadTyped
      <4>. QED BY <4>1 DEF NoReg
    <3>3. GoAs(p, op[p], "activate", r)
      BY <3>1
    <3>. HIDE DEF r
    <3>4. pc'[p] = "activate" /\ reg'[p] = r
      BY <3>3, Gone
    <3>5. fresh'[p] => Active = {}
      BY <1>3, <2>1, <3>4 DEF Knows
    <3>. QED BY <1>4, <2>1, <3>2, <3>4, <3>5 DEF Knows
  <2>. QED BY <2>2, <2>3
<1>11. CASE Activate(p)
  <2>1. Knows(p) /\ pc[p] = "activate"
    BY <1>2, <1>11 DEF Activate, At
  <2>2. Active = {} /\ reg[p].sub \in Queue
    BY <2>1 DEF Knows
  <2>3. Active' = {reg[p].sub}
    BY <1>0, <1>11, <2>2 DEF Activate, Active, Queue, TypeOK
  <2>4. pc'[p] = "usage"
    BY <1>11, Gone DEF Activate, Go
  <2>. QED BY <2>3, <2>4, NothingToKnow DEF AtMostOne
<1>12. CASE MakeUsage(p)
  BY <1>1, <1>12 DEF MakeUsage, Go, Proceeds, rows
<1>13. CASE WriteCache(p)
  <2>. DEFINE r == [NoReg EXCEPT !.date = reg[p].date]
  <2>1. PICK stage \in {"promRead", "normRead", "readQueue", "idle"} :
            GoAs(p, op[p], stage, r) /\ (stage = "readQueue" => op[p] = "continue")
    BY <1>13 DEF WriteCache, Go
  <2>. HIDE DEF r
  <2>2. status' = status
    BY <1>13 DEF WriteCache, Proceeds, rows
  <2>3. pc'[p] = stage /\ (stage = "readQueue" => op'[p] = "continue")
    BY <2>1, Gone
  <2>. QED BY <1>4, <2>1, <2>2, <2>3 DEF Knows
<1>14. CASE NormRead(p)
  <2>1. \E r : \E stage \in {"normRead", "redateRead", "idle", "promWrite", "normWrite"} :
            GoAs(p, op[p], stage, r)
    BY <1>14 DEF NormRead, Go, AfterNorm
  <2>. QED BY <1>1, <1>14, <2>1 DEF NormRead, Reads, rows
<1>15. CASE NormWrite(p)
  <2>1. \E stage \in {"normRead", "redateRead", "idle"} : GoAs(p, op[p], stage, NoReg)
    BY <1>15 DEF NormWrite, Go, AfterNorm
  <2>. QED BY <1>1, <1>15, <2>1 DEF NormWrite
<1>16. CASE ReadActive(p)
  <2>. DEFINE a == Latest(Active)
              r == IF Active = {} THEN [NoReg EXCEPT !.date = now]
                   ELSE [NoReg EXCEPT !.sub = a, !.date = ends[a]]
  <2>1. \E o : GoAs(p, o, "readQueue", r)
    BY <1>16 DEF ReadActive
  <2>2. r.sub = 0 => Active = {}
    <3>1. Active # {} => a # 0
      BY <1>0, ReadTyped, LifecycleAssumption DEF Subs
    <3>. HIDE DEF a
    <3>. QED BY <3>1 DEF NoReg
  <2>. HIDE DEF r
  <2>3. pc'[p] = "readQueue" /\ reg'[p] = r /\ status' = status
    BY <1>16, <2>1, Gone DEF ReadActive, Reads, rows
  <2>. QED BY <1>4, <2>2, <2>3 DEF Knows
<1>17. CASE ReadQueue(p)
  <2>1. PICK q \in QueueOrders :
            IF op[p] # "continue" THEN Go(p, "insert", DecideBy(p, q))
            ELSE IF q = <<>> THEN Go(p, "normRead", NoReg)
            ELSE Go(p, "shift", [NoReg EXCEPT !.prio = 1, !.date = reg[p].date, !.list = q])
    BY <1>17 DEF ReadQueue
  <2>2. status' = status /\ pc[p] = "readQueue" /\ Proceeds(p)
    BY <1>17 DEF ReadQueue, Proceeds, rows, At
  <2>3. CASE op[p] = "continue"
    <3>1. \E r : \E stage \in {"normRead", "shift"} : GoAs(p, op[p], stage, r)
      BY <2>1, <2>3 DEF Go
    <3>. QED BY <1>1, <2>2, <3>1
  <2>4. CASE op[p] # "continue"
    <3>1. pc'[p] = "insert" /\ reg'[p] = DecideBy(p, q)
      BY <2>1, <2>4, Gone DEF Go
    <3>2. DecideBy(p, q).prio = 0 => reg[p].sub = 0
      <4>1. CASE q = <<>>
        BY <4>1 DEF DecideBy, NoReg
      <4>2. CASE q # <<>>
        <5>1. q[Len(q)] \in Subs
          BY <1>0, <4>2, ReadTyped
        <5>2. priority[q[Len(q)]] \in Nat
          BY <1>0, <5>1 DEF TypeOK
        <5>. QED BY <4>2, <5>2 DEF DecideBy, NoReg
      <4>. QED BY <4>1, <4>2
    <3>3. fresh'[p] /\ reg'[p].prio = 0 => Active = {}
      BY <1>3, <2>2, <2>4, <3>1, <3>2 DEF Knows
    <3>. QED BY <1>4, <2>2, <3>1, <3>3 DEF Knows
  <2>. QED BY <2>3, <2>4
<1>18. CASE Insert(p)
  <2>. DEFINE new == First(Unused)
              to == IF reg[p].prio = 0 THEN "active" ELSE "future"
  <2>1. Knows(p) /\ pc[p] = "insert"
    BY <1>2, <1>18 DEF Insert, At
  <2>2. new \in Unused /\ status' = [status EXCEPT ![new] = to]
    BY <1>0, <1>18, ReadTyped DEF Insert
  <2>. HIDE DEF new
  <2>3. AtMostOne'
    <3>1. CASE reg[p].prio = 0
      <4>1. Active = {}
        BY <2>1, <3>1 DEF Knows
      <4>2. Active' = {new}
        BY <1>0, <2>2, <3>1, <4>1 DEF Active, Unused, TypeOK
      <4>. QED BY <4>2 DEF AtMostOne
    <3>2. CASE reg[p].prio # 0
      <4>1. Active' = Active
        BY <1>0, <2>2, <3>2 DEF Active, Unused, TypeOK
      <4>. QED BY <1>0, <4>1 DEF AtMostOne
    <3>. QED BY <3>1, <3>2
  <2>4. pc'[p] \in {"usage", "idle", "normRead"}
    BY <1>18, Gone DEF Insert, Go
  <2>. QED BY <2>3, <2>4, NothingToKnow
<1>19. CASE Extend(p)
  BY <1>1, <1>19 DEF Extend, Go
<1>20. CASE Shift(p)
  <2>1. reg[p].prio = 1
    BY <1>0, <1>20 DEF Shift, At, ShapeInv, Shape
  <2>2. pc'[p] = "insert" /\ reg'[p] = reg[p] /\ status' = status
    BY <1>20, Gone DEF Shift, Go
  <2>. QED BY <1>4, <2>1, <2>2 DEF Knows
<1>21. CASE FindQueued(p)
  <2>1. PICK s \in Queue : GoAs(p, "cancelQueued", "dequeue", [NoReg EXCEPT !.sub = s])
    BY <1>21 DEF FindQueued
  <2>. DEFINE r == [NoReg EXCEPT !.sub = s]
  <2>2. r.sub = s
    BY DEF NoReg
  <2>3. GoAs(p, "cancelQueued", "dequeue", r)
    BY <2>1
  <2>. HIDE DEF r
  <2>4. pc'[p] = "dequeue" /\ reg'[p] = r /\ status' = status
    BY <1>21, <2>3, Gone DEF FindQueued, Reads, rows
  <2>. QED BY <1>4, <2>2, <2>4 DEF Knows
<1>22. CASE Dequeue(p)
  <2>1. Active' \subseteq Active
    BY <1>0, <1>22 DEF Dequeue, Active, TypeOK
  <2>2. pc'[p] = "normRead"
    BY <1>22, Gone DEF Dequeue, Go
  <2>. QED BY <1>0, <2>1, <2>2, NothingToKnow DEF AtMostOne
<1>23. CASE Arrange(p)
  BY <1>1, <1>23 DEF Arrange, Reads, rows
<1>24. CASE Rearrange(p)
  BY <1>1, <1>24 DEF Rearrange, Go
<1>25. CASE RedateRead(p)
  <2>. DEFINE d == IF Active = {} THEN now ELSE ends[Latest(Active)]
  <2>1. PICK q \in QueueOrders :
            Go(p, IF q = <<>> THEN "idle" ELSE "redate", [NoReg EXCEPT !.list = q, !.date = d])
    BY <1>25 DEF RedateRead
  <2>. DEFINE r == [NoReg EXCEPT !.list = q, !.date = d]
  <2>2. r.list = q
    BY DEF NoReg
  <2>3. Listed(q) \subseteq Queue
    <3>1. q \in Seq(Subs) /\ \A i \in 1..Len(q) : q[i] \in Queue
      BY <1>0, ReadTyped
    <3>2. DOMAIN q = 1..Len(q)
      BY <3>1, LenProperties
    <3>. QED BY <3>1, <3>2 DEF Listed
  <2>4. PICK stage \in {"idle", "redate"} : GoAs(p, op[p], stage, r)
    BY <2>1 DEF Go
  <2>. HIDE DEF r
  <2>5. pc'[p] = stage /\ (stage = "redate" => reg'[p] = r) /\ status' = status
    BY <1>25, <2>4, Gone DEF RedateRead, Reads, rows
  <2>. QED BY <1>4, <2>2, <2>3, <2>4, <2>5 DEF Knows, Listed
<1>26. CASE Redate(p)
  <2>. DEFINE l == reg[p].list
              r == [reg[p] EXCEPT !.list = Tail(@), !.date = @ + 1]
  <2>1. Knows(p) /\ pc[p] = "redate" /\ status' = status
    BY <1>2, <1>26 DEF Redate, At
  <2>2. Listed(l) \subseteq Queue
    BY <2>1 DEF Knows
  <2>3. l \in Seq(Subs) /\ l # <<>>
    BY <1>0, <2>1, ReadTyped DEF ShapeInv, Shape
  <2>4. Listed(Tail(l)) \subseteq Listed(l)
    BY <2>3, TailListed
  <2>5. r.list = Tail(l)
    BY <1>0 DEF TypeOK
  <2>6. PICK stage \in {"idle", "redate"} : GoAs(p, op[p], stage, r)
    BY <1>26 DEF Redate, Go
  <2>. HIDE DEF l, r
  <2>7. pc'[p] = stage /\ (stage = "redate" => reg'[p] = r)
    BY <2>6, Gone
  <2>. QED BY <1>4, <2>1, <2>2, <2>4, <2>5, <2>6, <2>7 DEF Knows, Listed
<1>27. CASE ListOverdue(p)
  <2>1. PICK q \in [1..Cardinality(Overdue(now)) -> Overdue(now)] :
            /\ Listed(q) = Overdue(now)
            /\ GoAs(p, "expire", IF q = <<>> THEN "dueFutures" ELSE "expireDrop",
                    [NoReg EXCEPT !.list = q, !.date = now])
    BY <1>27 DEF ListOverdue
  <2>. DEFINE r == [NoReg EXCEPT !.list = q, !.date = now]
  <2>2. r.list = q
    BY DEF NoReg
  <2>3. status' = status /\ ends' = ends /\ now' = now
    BY <1>27 DEF ListOverdue, Reads, rows
  <2>4. GoAs(p, "expire", IF q = <<>> THEN "dueFutures" ELSE "expireDrop", r)
    BY <2>1
  <2>. HIDE DEF r
  <2>5. CASE q = <<>>
    BY <1>1, <2>3, <2>4, <2>5
  <2>6. CASE q # <<>>
    <3>1. \E s \in Active : q = <<s>> /\ ends[s] <= now
      BY <1>0, <2>1, <2>6, OneOverdue
    <3>2. pc'[p] = "expireDrop" /\ reg'[p] = r
      BY <2>4, <2>6, Gone
    <3>. QED BY <1>4, <2>2, <2>3, <3>1, <3>2 DEF Knows
  <2>. QED BY <2>5, <2>6
<1>28. CASE ExpireDrop(p)
  <2>1. /\ pc'[p] = "expireSave" /\ reg'[p] = reg[p] /\ pc[p] = "expireDrop"
        /\ status' = status /\ ends' = ends /\ now' = now /\ Proceeds(p)
    BY <1>28, Gone DEF ExpireDrop, Go, Proceeds, rows, At
  <2>2. fresh'[p] => \E s \in Active : reg[p].list = <<s>> /\ ends[s] <= now
    BY <1>3, <2>1 DEF Knows
  <2>. QED BY <1>4, <2>1, <2>2 DEF Knows
<1>29. CASE ExpireSave(p)
  <2>1. Knows(p) /\ pc[p] = "expireSave"
    BY <1>2, <1>29 DEF ExpireSave, At
  <2>2. PICK s \in Active : reg[p].list = <<s>>
    BY <2>1 DEF Knows
  <2>3. Active' \subseteq Active
    BY <1>0, <1>29 DEF ExpireSave, Active, TypeOK
  <2>4. pc'[p] = "checkActive"
    BY <1>29, <2>2, Gone DEF ExpireSave, Go
  <2>. QED BY <1>0, <2>3, <2>4, NothingToKnow DEF AtMostOne
<1>30. CASE DueFutures(p)
  <2>1. \E stage \in {"checkActive", "idle"} : GoAs(p, op[p], stage, NoReg)
    BY <1>30 DEF DueFutures, Go
  <2>. QED BY <1>1, <1>30, <2>1 DEF DueFutures, Proceeds, rows
<1>31. CASE CheckActive(p)
  <2>1. pc'[p] = (IF Active = {} THEN "earliest" ELSE "idle") /\ status' = status
    BY <1>31, Gone DEF CheckActive, Go, Reads, rows
  <2>. QED BY <1>4, <2>1 DEF Knows
<1>. QED BY <1>5, <1>6, <1>7, <1>8, <1>9, <1>10, <1>11, <1>12, <1>13, <1>14, <1>15, <1>16,
            <1>17, <1>18, <1>19, <1>20, <1>21, <1>22, <1>23, <1>24, <1>25, <1>26, <1>27,
            <1>28, <1>29, <1>30, <1>31 DEF Step

\* What ended stays as it is, and only what is over becomes expired, in a step
\* of an operation that does not act on an old read.
LEMMA StepEnds ==
    ASSUME StageInv, KnowInv, ExpiredWasOver, NEW p \in Callers, Step(p), ~stale'
    PROVE  /\ \A s \in Subs : status[s] \in Ended => status'[s] = status[s]
           /\ \A s \in Subs : status'[s] = "expired" => ends'[s] <= now'
<1>. DEFINE Kept == /\ \A s \in Subs : status[s] \in Ended => status'[s] = status[s]
                    /\ \A s \in Subs : status'[s] = "expired" => ends'[s] <= now'
<1>0. /\ ~stale /\ TypeOK /\ ShapeInv /\ now' = now
      /\ \A s \in Subs : status[s] = "expired" => ends[s] <= now
  BY StaleStays, StepTyped DEF KnowInv, StageInv, ExpiredWasOver
<1>1. ASSUME status' = status, ends' = ends PROVE Kept
  BY <1>0, <1>1
<1>2. ASSUME Writes(p) PROVE Knows(p)
  BY <1>0, <1>2 DEF Writes, KnowInv
<1>. SUFFICES Kept
  OBVIOUS
<1>3. CASE Reads(p) \/ Proceeds(p)
  BY <1>1, <1>3 DEF Reads, Proceeds, rows
<1>4. CASE Retire(p)
  <2>1. Active = {reg[p].sub}
    BY <1>2, <1>4 DEF Retire, At, Knows
  <2>. QED BY <1>0, <1>4, <2>1 DEF Retire, Active, Ended, TypeOK
<1>5. CASE Activate(p)
  <2>1. reg[p].sub \in Queue
    BY <1>2, <1>5 DEF Activate, At, Knows
  <2>. QED BY <1>0, <1>5, <2>1 DEF Activate, Queue, Ended, TypeOK
<1>6. CASE NormWrite(p)
  BY <1>1, <1>6 DEF NormWrite
<1>7. CASE Insert(p)
  <2>1. First(Unused) \in Unused
    BY <1>0, <1>7, ReadTyped DEF Insert
  <2>. QED BY <1>0, <1>7, <2>1 DEF Insert, Unused, Ended, TypeOK
<1>8. CASE Extend(p)
  <2>1. Active = {reg[p].sub}
    BY <1>2, <1>8 DEF Extend, At, Knows
  <2>. QED BY <1>0, <1>8, <2>1 DEF Extend, Active, Ended, TypeOK
<1>9. CASE Shift(p)
  BY <1>1, <1>9 DEF Shift
<1>10. CASE Dequeue(p)
  <2>1. reg[p].sub \in Queue
    BY <1>2, <1>10 DEF Dequeue, At, Knows
  <2>. QED BY <1>0, <1>10, <2>1 DEF Dequeue, Queue, Ended, TypeOK
<1>11. CASE Rearrange(p)
  BY <1>1, <1>11 DEF Rearrange
<1>12. CASE Redate(p)
  <2>. DEFINE l == reg[p].list
  <2>1. Listed(l) \subseteq Queue
    BY <1>2, <1>12 DEF Redate, At, Knows
  <2>2. l \in Seq(Subs) /\ l # <<>>
    BY <1>0, <1>12, ReadTyped DEF Redate, At, ShapeInv, Shape
  <2>3. Head(l) \in Queue
    <3>1. Head(l) = l[1] /\ 1 \in DOMAIN l
      BY <2>2, LenProperties, EmptySeq
    <3>. QED BY <2>1, <3>1 DEF Listed
  <2>4. status' = status /\ ends' = [ends EXCEPT ![Head(l)] = reg[p].date + 1]
    BY <1>12 DEF Redate
  <2>. HIDE DEF l
  <2>. QED BY <1>0, <2>3, <2>4 DEF Queue, TypeOK
<1>13. CASE ExpireSave(p)
  <2>1. PICK s \in Active : reg[p].list = <<s>> /\ ends[s] <= now
    BY <1>2, <1>13 DEF ExpireSave, At, Knows
  <2>2. status' = [status EXCEPT ![s] = "expired"] /\ ends' = ends
    BY <1>13, <2>1 DEF ExpireSave
  <2>. QED BY <1>0, <2>1, <2>2 DEF Active, Ended, TypeOK
<1>. QED BY <1>3, <1>4, <1>5, <1>6, <1>7, <1>8, <1>9, <1>10, <1>11, <1>12, <1>13, StepKinds

\* The inductive invariant.
LifeInv == StageInv /\ KnowInv /\ ExpiredWasOver

\* The body of EndedStaysEnded.
EndsFinal == ~stale' => \A s \in Subs : status[s] \in Ended => status'[s] = status[s]

\* There is no subscription and no operation.
LEMMA LifeInit == Init => LifeInv
<1>. SUFFICES ASSUME Init PROVE KnowInv /\ ExpiredWasOver
  BY StageInit DEF LifeInv
<1>1. Active = {} /\ \A p \in Callers : pc[p] = "idle"
  BY DEF Init, Active
<1>2. KnowInv
  BY <1>1 DEF KnowInv, AtMostOne, Knows
<1>3. ExpiredWasOver
  BY DEF Init, ExpiredWasOver
<1>. QED BY <1>2, <1>3

\* Every step keeps the whole invariant and what has ended.
LEMMA LifeNext == LifeInv /\ [Next]_vars => LifeInv' /\ EndsFinal
<1>. SUFFICES ASSUME LifeInv, [Next]_vars, ~stale'
              PROVE  KnowInv' /\ ExpiredWasOver' /\ EndsFinal
  BY StageNext DEF LifeInv, KnowInv, ExpiredWasOver, EndsFinal
<1>. USE DEF LifeInv
<1>0. ASSUME status' = status, ends' = ends, stale' = stale, now' \in Nat, now <= now',
             \A p \in Callers : \/ pc'[p] = "idle"
                                \/ /\ pc'[p] = pc[p] /\ op'[p] = op[p] /\ reg'[p] = reg[p]
                                   /\ fresh'[p] = fresh[p]
      PROVE  KnowInv' /\ ExpiredWasOver' /\ EndsFinal
  <2>1. Active' = Active /\ Queue' = Queue
    BY <1>0 DEF Active, Queue
  <2>2. ASSUME NEW p \in Callers, fresh'[p] PROVE Knows(p)'
    <3>1. CASE pc'[p] = "idle"
      BY <3>1, NothingToKnow DEF KnowStages
    <3>2. CASE pc'[p] # "idle"
      <4>1. Knows(p)
        BY <1>0, <2>2, <3>2 DEF KnowInv
      <4>2. \A s \in Active : ends[s] <= now => ends[s] <= now'
        BY <1>0 DEF StageInv, TypeOK, Active
      <4>. QED BY <1>0, <2>1, <3>2, <4>1, <4>2 DEF Knows, Listed
    <3>. QED BY <3>1, <3>2
  <2>3. KnowInv'
    BY <1>0, <2>1, <2>2 DEF KnowInv, AtMostOne
  <2>4. ExpiredWasOver'
    BY <1>0 DEF ExpiredWasOver, StageInv, TypeOK
  <2>. QED BY <1>0, <2>3, <2>4 DEF EndsFinal
<1>1. CASE UNCHANGED vars
  BY <1>0, <1>1, LifecycleAssumption DEF vars, rows, history, StageInv, TypeOK
<1>2. ASSUME NEW p \in Callers, Step(p) PROVE KnowInv' /\ ExpiredWasOver' /\ EndsFinal
  <2>1. KnowInv'
    BY <1>2, CallerKnows, OthersKnow, StepMoves, StepTyped, StepClassed, StaleStays
  <2>. QED BY <1>2, <2>1, StepEnds DEF ExpiredWasOver, EndsFinal
<1>3. ASSUME NEW p \in Callers, Crash(p) PROVE KnowInv' /\ ExpiredWasOver' /\ EndsFinal
  <2>1. GoAs(p, op[p], "idle", NoReg)
    BY <1>3 DEF Crash, Go
  <2>2. \A q \in Callers : q # p => fresh'[q] = fresh[q]
    BY <1>3 DEF Crash, StageInv, TypeOK
  <2>3. \A q \in Callers : \/ pc'[q] = "idle"
                             \/ /\ pc'[q] = pc[q] /\ op'[q] = op[q] /\ reg'[q] = reg[q]
                                /\ fresh'[q] = fresh[q]
    BY <2>1, <2>2, Gone
  <2>4. /\ status' = status /\ ends' = ends /\ stale' = stale /\ now' = now
        /\ now \in Nat
    BY <1>3, ReadTyped DEF Crash, rows, StageInv
  <2>. QED BY <1>0, <2>3, <2>4
<1>4. CASE Tick
  <2>1. now \in Nat
    BY ReadTyped DEF StageInv
  <2>. QED BY <1>0, <1>4, <2>1 DEF Tick, rows, history
<1>. QED BY <1>1, <1>2, <1>3, <1>4 DEF Next

\* For any number of concurrent operations: never two active subscriptions,
\* unless an operation acted on what had changed since it read.
THEOREM OneActiveCorrect == Spec => []OneActive
<1>1. LifeInv => OneActive
  <2>. SUFFICES ASSUME LifeInv, ~stale PROVE Cardinality(Active) <= 1
    BY DEF OneActive
  <2>1. AtMostOne
    BY DEF LifeInv, KnowInv
  <2>2. CASE Active = {}
    BY <2>2, FS_EmptySet
  <2>3. CASE Active # {}
    <3>1. PICK s : Active = {s}
      BY <2>1, <2>3 DEF AtMostOne
    <3>2. Cardinality({s}) = 1
      BY FS_Singleton
    <3>. QED BY <3>1, <3>2
  <2>. QED BY <2>2, <2>3
<1>. QED BY <1>1, LifeInit, LifeNext, PTL DEF Spec

\* Under the same condition no expired subscription has paid time left.
THEOREM ExpiryCorrect == Spec => []ExpiredWasOver
<1>1. LifeInv => ExpiredWasOver
  BY DEF LifeInv
<1>. QED BY <1>1, LifeInit, LifeNext, PTL DEF Spec

\* Under the same condition an ended subscription never changes status again.
THEOREM EndedCorrect == Spec => EndedStaysEnded
<1>1. LifeInv /\ [Next]_vars => [EndsFinal]_vars
  BY LifeNext
<1>2. Spec => [][EndsFinal]_vars
  BY <1>1, LifeInit, LifeNext, PTL DEF Spec
<1>. QED BY <1>2 DEF EndedStaysEnded, EndsFinal

-----------------------------------------------------------------------------
(* The lifecycle at rest.  Once every operation has run to its end, without *)
(* a fault and without having acted on an old read, the active subscription *)
(* is backed by one Usage row and by its own hash, and the queue has the    *)
(* positions 1..n.  Neither holds while operations run: then there is an    *)
(* operation, at a stage named here, that has yet to supply what is missing *)
(* (the row and the hash of what was just activated, the clean-up of what   *)
(* is about to be retired, the renumbering of a queue somebody changed).    *)

-----------------------------------------------------------------------------
(* Which steps there are at a stage, and which step changes what.          *)

\* At the stages between a write and what it asks for there is one way on.
LEMMA StepsAtStages ==
    ASSUME NEW p \in Callers, Step(p)
    PROVE  /\ pc[p] = "usage" => MakeUsage(p)
           /\ pc[p] = "retire" => Retire(p)
           /\ pc[p] = "dropCache" => DropCache(p)
           /\ pc[p] = "cache" => WriteCache(p)
           /\ pc[p] \in {"promRead", "normRead"} => NormRead(p)
           /\ pc[p] \in {"promWrite", "normWrite"} => NormWrite(p)
           /\ pc[p] = "insert" => Insert(p)
<1>. QED BY DEF Step, At, Begins, FindActive, FindHead, PurgeUsage, Retire, DropCache, Earliest,
                Activate, MakeUsage, WriteCache, NormRead, NormWrite, ReadActive, ReadQueue,
                Insert, Extend, Shift, FindQueued, Dequeue, Arrange, Rearrange, RedateRead, Redate,
                ListOverdue, ExpireDrop, ExpireSave, DueFutures, CheckActive

\* The actions that change a status, a Usage row or the hash.
LEMMA StepsThatChange ==
    ASSUME NEW p \in Callers, Step(p)
    PROVE  /\ usages' # usages => MakeUsage(p) \/ PurgeUsage(p)
           /\ cached' # cached => DropCache(p) \/ WriteCache(p) \/ ExpireDrop(p)
           /\ status' # status => \/ Retire(p) \/ Activate(p) \/ Insert(p)
                                  \/ Dequeue(p) \/ ExpireSave(p)
<1>1. usages' # usages => MakeUsage(p) \/ PurgeUsage(p)
  BY DEF Step, Reads, backing, FindActive, FindHead, Retire, DropCache, Earliest,
                Activate, WriteCache, NormRead, NormWrite, ReadActive, ReadQueue,
                Insert, Extend, Shift, FindQueued, Dequeue, Arrange, Rearrange, RedateRead, Redate,
                ListOverdue, ExpireDrop, ExpireSave, DueFutures, CheckActive
<1>2. cached' # cached => DropCache(p) \/ WriteCache(p) \/ ExpireDrop(p)
  BY DEF Step, Reads, backing, FindActive, FindHead, PurgeUsage, Retire, Earliest,
                Activate, MakeUsage, NormRead, NormWrite, ReadActive, ReadQueue,
                Insert, Extend, Shift, FindQueued, Dequeue, Arrange, Rearrange, RedateRead, Redate,
                ListOverdue, ExpireSave, DueFutures, CheckActive
<1>3. status' # status => Retire(p) \/ Activate(p) \/ Insert(p) \/ Dequeue(p) \/ ExpireSave(p)
  BY StepKinds DEF Reads, Proceeds, rows, NormWrite, Extend, Shift, Rearrange, Redate
<1>. QED BY <1>1, <1>2, <1>3

\* Only what was made active waits for its Usage row.
LEMMA StepsToUsage ==
    ASSUME StageInv, NEW p \in Callers, Step(p), pc'[p] = "usage"
    PROVE  Activate(p) \/ Insert(p)
<1>1. ASSUME NEW stage \in Stages \ {"usage"}, NEW o, NEW r, GoAs(p, o, stage, r)
      PROVE  FALSE
  BY <1>1, Gone
<1>2. ASSUME NEW stage \in Stages \ {"usage"}, NEW r, Go(p, stage, r)
      PROVE  FALSE
  BY <1>1, <1>2 DEF Go
<1>3. ASSUME FindActive(p) PROVE FALSE
  BY <1>1, <1>2, <1>3 DEF FindActive, Stages
<1>4. ASSUME FindHead(p) PROVE FALSE
  BY <1>1, <1>2, <1>4 DEF FindHead, Stages
<1>5. ASSUME PurgeUsage(p) PROVE FALSE
  BY <1>1, <1>2, <1>5 DEF PurgeUsage, Stages
<1>6. ASSUME Retire(p) PROVE FALSE
  BY <1>1, <1>2, <1>6 DEF Retire, Stages
<1>7. ASSUME DropCache(p) PROVE FALSE
  BY <1>1, <1>2, <1>7 DEF DropCache, Stages
<1>8. ASSUME Earliest(p) PROVE FALSE
  BY <1>1, <1>2, <1>8 DEF Earliest, Stages
<1>9. ASSUME MakeUsage(p) PROVE FALSE
  BY <1>1, <1>2, <1>9 DEF MakeUsage, Stages
<1>10. ASSUME WriteCache(p) PROVE FALSE
  BY <1>1, <1>2, <1>10 DEF WriteCache, Stages
<1>11. ASSUME NormRead(p) PROVE FALSE
  BY <1>1, <1>2, <1>11 DEF NormRead, AfterNorm, Stages
<1>12. ASSUME NormWrite(p) PROVE FALSE
  BY <1>1, <1>2, <1>12 DEF NormWrite, AfterNorm, Stages
<1>13. ASSUME ReadActive(p) PROVE FALSE
  BY <1>1, <1>2, <1>13 DEF ReadActive, Stages
<1>14. ASSUME ReadQueue(p) PROVE FALSE
  BY <1>1, <1>2, <1>14 DEF ReadQueue, Stages
<1>15. ASSUME Extend(p) PROVE FALSE
  BY <1>1, <1>2, <1>15 DEF Extend, Stages
<1>16. ASSUME Shift(p) PROVE FALSE
  BY <1>1, <1>2, <1>16 DEF Shift, Stages
<1>17. ASSUME FindQueued(p) PROVE FALSE
  BY <1>1, <1>2, <1>17 DEF FindQueued, Stages
<1>18. ASSUME Dequeue(p) PROVE FALSE
  BY <1>1, <1>2, <1>18 DEF Dequeue, Stages
<1>19. ASSUME Arrange(p) PROVE FALSE
  BY <1>1, <1>2, <1>19 DEF Arrange, Stages
<1>20. ASSUME Rearrange(p) PROVE FALSE
  BY <1>1, <1>2, <1>20 DEF Rearrange, Stages
<1>21. ASSUME RedateRead(p) PROVE FALSE
  BY <1>1, <1>2, <1>21 DEF RedateRead, Stages
<1>22. ASSUME Redate(p) PROVE FALSE
  BY <1>1, <1>2, <1>22 DEF Redate, Stages
<1>23. ASSUME ListOverdue(p) PROVE FALSE
  BY <1>1, <1>2, <1>23 DEF ListOverdue, Stages
<1>24. ASSUME ExpireDrop(p) PROVE FALSE
  BY <1>1, <1>2, <1>24 DEF ExpireDrop, Stages
<1>25. ASSUME ExpireSave(p) PROVE FALSE
  BY <1>1, <1>2, <1>25 DEF ExpireSave, Stages
<1>26. ASSUME DueFutures(p) PROVE FALSE
  BY <1>1, <1>2, <1>26 DEF DueFutures, Stages
<1>27. ASSUME CheckActive(p) PROVE FALSE
  BY <1>1, <1>2, <1>27 DEF CheckActive, Stages
<1>. QED BY <1>3, <1>4, <1>5, <1>6, <1>7, <1>8, <1>9, <1>10, <1>11, <1>12, <1>13, <1>14, <1>15,
            <1>16, <1>17, <1>18, <1>19, <1>20, <1>21, <1>22, <1>23, <1>24, <1>25, <1>26, <1>27
         DEF Step

-----------------------------------------------------------------------------
(* One Usage row for the active subscription.                              *)

\* A caller that has made s active and has yet to make its Usage row.
Making(p, s) == pc[p] = "usage" /\ reg[p].sub = s

\* What has not been activated has no Usage row and nobody about to make one.
UnstartedInv ==
    \A s \in Subs : status[s] \in {"none", "future"} =>
        usages[s] = 0 /\ \A p \in Callers : ~Making(p, s)

\* An active subscription is about to be retired, or has its row, or has none
\* and one caller that will make it.
Counted(s) ==
    \/ \E p \in Callers : pc[p] = "retire" /\ reg[p].sub = s
    \/ usages[s] = 1 /\ \A p \in Callers : ~Making(p, s)
    \/ usages[s] = 0 /\ \E p \in Callers : \A q \in Callers : Making(q, s) <=> q = p

\* The hash is the active subscription's, or there is none, or it is that of an
\* expired one nothing has followed yet, or somebody is about to write it.
Described ==
    \/ cached \in Active \cup {0}
    \/ Active = {} /\ cached \in Subs /\ status[cached] = "expired"
    \/ \E p \in Callers : pc[p] \in {"dropCache", "usage", "cache"}

\* While no operation failed or acted on an old read.
BackInv == ~stale /\ ~crashed => (\A s \in Active : Counted(s)) /\ Described

\* A step moves its caller only.
LEMMA OthersStay ==
    ASSUME StageInv, NEW p \in Callers, Step(p)
    PROVE  \A q \in Callers : q # p => pc'[q] = pc[q] /\ op'[q] = op[q] /\ reg'[q] = reg[q]
<1>. QED BY StepMoves, Gone DEF Moves

\* Where the steps of the backing leave their caller.
LEMMA BackingMoves ==
    ASSUME StageInv, NEW p \in Callers
    PROVE  /\ MakeUsage(p) => pc'[p] = "cache"
           /\ PurgeUsage(p) => pc'[p] = "retire" /\ reg'[p] = reg[p]
           /\ Retire(p) => pc'[p] = "dropCache"
           /\ Activate(p) => pc'[p] = "usage" /\ reg'[p] = reg[p]
           /\ Insert(p) => LET new == First(Unused) IN
                           IF reg[p].prio = 0 THEN pc'[p] = "usage" /\ reg'[p].sub = new
                           ELSE pc'[p] \in {"idle", "normRead"}
<1>1. /\ MakeUsage(p) => pc'[p] = "cache"
      /\ PurgeUsage(p) => pc'[p] = "retire" /\ reg'[p] = reg[p]
      /\ Retire(p) => pc'[p] = "dropCache"
      /\ Activate(p) => pc'[p] = "usage" /\ reg'[p] = reg[p]
  BY Gone DEF MakeUsage, PurgeUsage, Retire, Activate, Go
<1>2. ASSUME Insert(p)
      PROVE  LET new == First(Unused) IN
             IF reg[p].prio = 0 THEN pc'[p] = "usage" /\ reg'[p].sub = new
             ELSE pc'[p] \in {"idle", "normRead"}
  <2>. DEFINE r == [NoReg EXCEPT !.sub = First(Unused)]
  <2>1. r.sub = First(Unused)
    BY DEF NoReg
  <2>2. PICK stage : /\ GoAs(p, op[p], stage, r)
                     /\ IF reg[p].prio = 0 THEN stage = "usage" ELSE stage \in {"idle", "normRead"}
    BY <1>2 DEF Insert, Go
  <2>. HIDE DEF r
  <2>. QED BY <2>1, <2>2, Gone
<1>. QED BY <1>1, <1>2

\* Every step keeps UnstartedInv.
LEMMA UnstartedStep ==
    ASSUME StageInv, UnstartedInv, NEW p \in Callers, Step(p)
    PROVE  UnstartedInv'
<1>. SUFFICES ASSUME NEW s \in Subs, status'[s] \in {"none", "future"}
              PROVE  usages'[s] = 0 /\ \A q \in Callers : ~Making(q, s)'
  BY DEF UnstartedInv, Subs
<1>0. TypeOK
  BY DEF StageInv
<1>1. \A q \in Callers : q # p => pc'[q] = pc[q] /\ reg'[q] = reg[q]
  BY OthersStay
<1>2. CASE status[s] \notin {"none", "future"}
  <2>1. status' # status
    BY <1>2
  <2>2. CASE Insert(p)
    <3>1. First(Unused) \in Unused
      BY <1>0, <2>2, ReadTyped DEF Insert
    <3>2. s # First(Unused)
      BY <1>2, <3>1 DEF Unused
    <3>. QED BY <1>0, <1>2, <2>2, <3>2 DEF Insert, TypeOK
  <2>3. CASE Retire(p) \/ Activate(p) \/ Dequeue(p) \/ ExpireSave(p)
    BY <1>0, <1>2, <2>3 DEF Retire, Activate, Dequeue, ExpireSave, TypeOK
  <2>. QED BY <2>1, <2>2, <2>3, StepsThatChange
<1>3. CASE status[s] \in {"none", "future"}
  <2>1. usages[s] = 0 /\ \A q \in Callers : ~Making(q, s)
    BY <1>3 DEF UnstartedInv
  <2>2. usages'[s] = 0
    <3>1. CASE usages' = usages
      BY <2>1, <3>1
    <3>2. CASE PurgeUsage(p)
      BY <1>0, <2>1, <3>2 DEF PurgeUsage, TypeOK
    <3>3. CASE MakeUsage(p)
      BY <1>0, <2>1, <3>3 DEF MakeUsage, At, Making, TypeOK
    <3>. QED BY <3>1, <3>2, <3>3, StepsThatChange
  <2>3. ~Making(p, s)'
    <3>1. ASSUME Activate(p) PROVE reg[p].sub # s
      BY <1>0, <3>1 DEF Activate, TypeOK
    <3>2. ASSUME Insert(p), reg[p].prio = 0 PROVE First(Unused) # s
      BY <1>0, <3>2 DEF Insert, TypeOK
    <3>. QED BY <3>1, <3>2, BackingMoves, StepsToUsage DEF Making
  <2>. QED BY <1>1, <2>1, <2>2, <2>3 DEF Making
<1>. QED BY <1>2, <1>3

\* A fault is never forgotten.
LEMMA CrashedStays ==
    ASSUME NEW p \in Callers, Step(p), ~crashed'
    PROVE  ~crashed
<1>. QED BY DEF Step, Reads, Writes, CacheTo, FindActive, FindHead, PurgeUsage, Retire, DropCache,
                Earliest, Activate, MakeUsage, WriteCache, NormRead, NormWrite, ReadActive,
                ReadQueue, Insert, Extend, Shift, FindQueued, Dequeue, Arrange, Rearrange,
                RedateRead, Redate, ListOverdue, ExpireDrop, ExpireSave, DueFutures, CheckActive

\* A write that does not make `stale` true is made by a caller that knows.
LEMMA WriterKnows ==
    ASSUME StageInv, KnowInv, NEW p \in Callers, Step(p), ~stale', Writes(p)
    PROVE  Knows(p)
<1>. QED BY StaleStays DEF Writes, KnowInv

\* Every step keeps one row, made or about to be made, for what is active.
LEMMA CountedStep ==
    ASSUME StageInv, KnowInv, UnstartedInv, BackInv, NEW p \in Callers, Step(p),
           ~stale', ~crashed', NEW s \in Active'
    PROVE  Counted(s)'
<1>0. TypeOK /\ ~stale /\ ~crashed /\ \A t \in Active : Counted(t)
  BY StaleStays, CrashedStays DEF StageInv, BackInv
<1>1. \A q \in Callers : q # p => pc'[q] = pc[q] /\ reg'[q] = reg[q]
  BY OthersStay
<1>2. s \in Subs /\ status'[s] = "active"
  BY DEF Active, Subs
<1>3. CASE s \notin Active
  <2>1. status'[s] # status[s]
    BY <1>2, <1>3 DEF Active
  <2>2. CASE Activate(p)
    <3>1. Knows(p) /\ pc[p] = "activate"
      BY <2>2, WriterKnows DEF Activate, At
    <3>2. reg[p].sub = s /\ s \in Queue /\ usages' = usages
      BY <1>0, <1>2, <2>1, <2>2, <3>1 DEF Activate, Knows, TypeOK, backing
    <3>3. usages[s] = 0 /\ \A q \in Callers : ~Making(q, s)
      BY <3>2 DEF UnstartedInv, Queue
    <3>4. \A q \in Callers : Making(q, s)' <=> q = p
      BY <1>1, <2>2, <3>2, <3>3, BackingMoves DEF Making
    <3>. QED BY <3>2, <3>3, <3>4 DEF Counted
  <2>3. CASE Insert(p)
    <3>1. s = First(Unused) /\ reg[p].prio = 0 /\ usages' = usages
      BY <1>0, <1>2, <2>1, <2>3 DEF Insert, TypeOK, backing
    <3>2. s \in Unused
      BY <1>0, <2>3, <3>1, ReadTyped DEF Insert
    <3>3. usages[s] = 0 /\ \A q \in Callers : ~Making(q, s)
      BY <3>2 DEF UnstartedInv, Unused
    <3>4. \A q \in Callers : Making(q, s)' <=> q = p
      BY <1>1, <2>3, <3>1, <3>3, BackingMoves DEF Making
    <3>. QED BY <3>1, <3>3, <3>4 DEF Counted
  <2>4. CASE Retire(p) \/ Dequeue(p) \/ ExpireSave(p)
    BY <1>0, <1>2, <2>1, <2>4 DEF Retire, Dequeue, ExpireSave, TypeOK
  <2>. QED BY <2>1, <2>2, <2>3, <2>4, StepsThatChange
<1>4. CASE s \in Active
  <2>1. ASSUME NEW q \in Callers, pc[q] = "retire", reg[q].sub = s
        PROVE  Counted(s)'
    <3>1. CASE q = p
      <4>1. Retire(p)
        BY <2>1, <3>1, StepsAtStages
      <4>. QED BY <1>0, <1>2, <2>1, <3>1, <4>1 DEF Retire, TypeOK
    <3>2. CASE q # p
      BY <1>1, <2>1, <3>2 DEF Counted
    <3>. QED BY <3>1, <3>2
  <2>2. CASE PurgeUsage(p) /\ reg[p].sub = s
    BY <2>2, BackingMoves DEF Counted
  <2>3. CASE MakeUsage(p) /\ reg[p].sub = s
    <3>1. Making(p, s) /\ ~Making(p, s)' /\ usages'[s] = usages[s] + 1
      BY <1>0, <1>2, <2>3, BackingMoves DEF MakeUsage, Making, At, TypeOK
    <3>2. \A q \in Callers : q # p => (Making(q, s)' <=> Making(q, s))
      BY <1>1 DEF Making
    <3>3. CASE usages[s] = 0 /\ \E q \in Callers : \A r \in Callers : Making(r, s) <=> r = q
      BY <3>1, <3>2, <3>3 DEF Counted
    <3>. QED BY <1>0, <1>4, <2>1, <3>1, <3>3 DEF Counted
  <2>4. CASE reg[p].sub # s \/ ~(PurgeUsage(p) \/ MakeUsage(p))
    <3>1. usages'[s] = usages[s]
      BY <1>0, <1>2, <2>4, StepsThatChange DEF PurgeUsage, MakeUsage, TypeOK
    <3>2. ~Making(p, s)
      BY <2>4, StepsAtStages DEF Making
    <3>3. ~Making(p, s)'
      <4>1. ASSUME Activate(p) PROVE reg[p].sub # s
        <5>1. Knows(p) /\ pc[p] = "activate"
          BY <4>1, WriterKnows DEF Activate, At
        <5>. QED BY <1>4, <5>1 DEF Knows
      <4>2. ASSUME Insert(p) PROVE First(Unused) # s
        <5>1. First(Unused) \in Unused
          BY <1>0, <4>2, ReadTyped DEF Insert
        <5>. QED BY <1>4, <5>1 DEF Unused, Active
      <4>. QED BY <4>1, <4>2, BackingMoves, StepsToUsage DEF Making
    <3>4. \A q \in Callers : Making(q, s)' <=> Making(q, s)
      BY <1>1, <3>2, <3>3 DEF Making
    <3>. QED BY <1>0, <1>4, <2>1, <3>1, <3>4 DEF Counted
  <2>. QED BY <2>2, <2>3, <2>4
<1>. QED BY <1>3, <1>4

\* Every step keeps the hash right or somebody about to write it.
LEMMA DescribedStep ==
    ASSUME StageInv, KnowInv, UnstartedInv, BackInv, NEW p \in Callers, Step(p),
           ~stale', ~crashed'
    PROVE  Described'
<1>0. TypeOK /\ ~stale /\ ~crashed /\ Described /\ AtMostOne
  BY StaleStays, CrashedStays DEF StageInv, BackInv, KnowInv
<1>1. \A q \in Callers : q # p => pc'[q] = pc[q]
  BY OthersStay
<1>2. CASE DropCache(p) \/ ExpireDrop(p)
  <2>1. cached' = 0
    BY <1>0, <1>2 DEF DropCache, ExpireDrop, CacheTo
  <2>. QED BY <2>1 DEF Described
<1>3. CASE WriteCache(p)
  <2>1. cached' = reg[p].sub /\ reg[p].sub \in Active
    BY <1>0, <1>3 DEF WriteCache, CacheTo
  <2>2. Active' = Active
    BY <1>3 DEF WriteCache, Proceeds, rows, Active
  <2>. QED BY <2>1, <2>2 DEF Described
<1>4. CASE pc'[p] \in {"dropCache", "usage", "cache"}
  BY <1>4 DEF Described
<1>5. CASE /\ ~(DropCache(p) \/ ExpireDrop(p) \/ WriteCache(p))
           /\ pc'[p] \notin {"dropCache", "usage", "cache"}
  <2>1. cached' = cached
    BY <1>5, StepsThatChange
  <2>2. pc[p] \notin {"dropCache", "usage", "cache"}
    BY <1>5, StepsAtStages, BackingMoves
  <2>3. CASE \E q \in Callers : pc[q] \in {"dropCache", "usage", "cache"}
    BY <1>1, <2>2, <2>3 DEF Described
  <2>4. CASE \/ cached \in Active \cup {0}
             \/ Active = {} /\ cached \in Subs /\ status[cached] = "expired"
    <3>1. CASE status' = status
      BY <2>1, <2>4, <3>1 DEF Described, Active
    <3>2. CASE Insert(p)
      <4>1. First(Unused) \in Unused /\ reg[p].prio # 0
        BY <1>0, <1>5, <3>2, ReadTyped, BackingMoves DEF Insert
      <4>2. \A t \in Subs : status[t] # "none" => status'[t] = status[t]
        BY <1>0, <3>2, <4>1 DEF Insert, Unused, TypeOK
      <4>3. \A t \in Subs : status'[t] = "active" => status[t] = "active"
        BY <1>0, <3>2, <4>1 DEF Insert, Unused, TypeOK
      <4>. QED BY <2>1, <2>4, <4>2, <4>3 DEF Described, Active
    <3>3. CASE Dequeue(p)
      <4>1. reg[p].sub \in Queue
        BY <3>3, WriterKnows DEF Dequeue, At, Knows
      <4>2. \A t \in Subs : t # reg[p].sub => status'[t] = status[t]
        BY <1>0, <3>3 DEF Dequeue, TypeOK
      <4>3. status'[reg[p].sub] = "cancelled" /\ status[reg[p].sub] = "future"
        BY <1>0, <3>3, <4>1 DEF Dequeue, TypeOK, Queue
      <4>. QED BY <2>1, <2>4, <4>2, <4>3 DEF Described, Active
    <3>4. CASE ExpireSave(p)
      <4>1. PICK t \in Active : reg[p].list = <<t>>
        BY <3>4, WriterKnows DEF ExpireSave, At, Knows
      <4>2. status' = [status EXCEPT ![t] = "expired"]
        BY <3>4, <4>1 DEF ExpireSave
      <4>3. Active = {t}
        BY <1>0, <4>1 DEF AtMostOne
      <4>4. Active' = {} /\ status'[t] = "expired"
        BY <1>0, <4>2, <4>3 DEF Active, TypeOK
      <4>. QED BY <2>1, <2>4, <4>1, <4>3, <4>4 DEF Described, Active
    <3>. QED BY <1>5, <3>1, <3>2, <3>3, <3>4, StepsThatChange, BackingMoves
  <2>. QED BY <1>0, <2>3, <2>4 DEF Described
<1>. QED BY <1>2, <1>3, <1>4, <1>5

\* The inductive invariant of the backing.
BackedInv == LifeInv /\ UnstartedInv /\ BackInv

\* Nothing is active, started or described.
LEMMA BackedInit == Init => BackedInv
<1>. SUFFICES ASSUME Init PROVE UnstartedInv /\ BackInv
  BY LifeInit DEF BackedInv
<1>1. Active = {} /\ \A p \in Callers : pc[p] = "idle"
  BY DEF Init, Active
<1>2. UnstartedInv
  BY <1>1 DEF Init, UnstartedInv, Making
<1>3. BackInv
  BY <1>1 DEF Init, BackInv, Described
<1>. QED BY <1>2, <1>3

\* Every step keeps it.
LEMMA BackedNext == BackedInv /\ [Next]_vars => BackedInv'
<1>. SUFFICES ASSUME BackedInv, [Next]_vars PROVE UnstartedInv' /\ BackInv'
  BY LifeNext DEF BackedInv
<1>0. LifeInv /\ StageInv /\ KnowInv /\ UnstartedInv /\ BackInv
  BY DEF BackedInv, LifeInv
<1>1. CASE UNCHANGED vars \/ Tick
  <2>1. /\ status' = status /\ usages' = usages /\ cached' = cached /\ pc' = pc /\ reg' = reg
        /\ stale' = stale /\ crashed' = crashed
    BY <1>1 DEF vars, Tick, rows, backing, history
  <2>. QED BY <1>0, <2>1 DEF UnstartedInv, BackInv, Counted, Described, Making, Active
<1>2. ASSUME NEW p \in Callers, Step(p) PROVE UnstartedInv' /\ BackInv'
  <2>1. UnstartedInv'
    BY <1>0, <1>2, UnstartedStep
  <2>2. BackInv'
    BY <1>0, <1>2, CountedStep, DescribedStep DEF BackInv
  <2>. QED BY <2>1, <2>2
<1>3. ASSUME NEW p \in Callers, Crash(p) PROVE UnstartedInv' /\ BackInv'
  <2>1. status' = status /\ usages' = usages /\ crashed'
    BY <1>3 DEF Crash, rows, backing
  <2>2. pc'[p] = "idle" /\ \A q \in Callers : q # p => pc'[q] = pc[q] /\ reg'[q] = reg[q]
    BY <1>0, <1>3, Gone DEF Crash, Go
  <2>. QED BY <1>0, <2>1, <2>2 DEF UnstartedInv, BackInv, Making
<1>. QED BY <1>1, <1>2, <1>3 DEF Next

\* For any number of concurrent operations: when all have run to their end,
\* without a fault or an old read, scans are charged to the right period.
THEOREM ActiveBackedCorrect == Spec => []ActiveIsBacked
<1>1. BackedInv => ActiveIsBacked
  <2>. SUFFICES ASSUME BackedInv, Quiet
                PROVE  /\ \A s \in Active : usages[s] = 1
                       /\ \/ cached \in Active \cup {0}
                          \/ Active = {} /\ status[cached] = "expired"
    BY DEF ActiveIsBacked
  <2>1. (\A s \in Active : Counted(s)) /\ Described /\ \A p \in Callers : pc[p] = "idle"
    BY DEF BackedInv, BackInv, Quiet
  <2>2. \A s \in Active : usages[s] = 1
    BY <2>1 DEF Counted, Making
  <2>. QED BY <2>1, <2>2 DEF Described
<1>. QED BY <1>1, BackedInit, BackedNext, PTL DEF Spec

-----------------------------------------------------------------------------
(* Which operation may stand at which stage.                               *)

\* Only cancelling and expiring promote, only renewing shifts the queue, and a
\* renewal inserts at the place it made.
ByOperation(p) ==
    /\ pc[p] \in {"purgeUsage", "retire", "dropCache"} => op[p] \in {"cancel", "recreate", "force"}
    /\ pc[p] \in {"expireDrop", "expireSave", "dueFutures", "checkActive"} => op[p] = "expire"
    /\ pc[p] \in {"earliest", "activate"} => op[p] \in {"cancel", "expire"}
    /\ pc[p] = "shift" => op[p] = "continue"
    /\ pc[p] = "insert" /\ op[p] = "continue" => reg[p].prio = 1

OpInv == \A p \in Callers : ByOperation(p)

\* The stages at which ByOperation says something.
OpStages == {"purgeUsage", "retire", "dropCache", "expireDrop", "expireSave", "dueFutures",
             "checkActive", "earliest", "activate", "shift", "insert"}

\* Every step keeps it.
LEMMA OpStep ==
    ASSUME StageInv, OpInv, NEW p \in Callers, Step(p)
    PROVE  OpInv'
<1>0. ByOperation(p) /\ Shape(p)
  BY DEF OpInv, StageInv, ShapeInv
<1>1. ASSUME NEW stage \in Stages \ OpStages, NEW o, NEW r, GoAs(p, o, stage, r)
      PROVE  ByOperation(p)'
  BY <1>1, Gone DEF ByOperation, OpStages
<1>2. ASSUME NEW stage \in Stages \ OpStages, NEW r, Go(p, stage, r)
      PROVE  ByOperation(p)'
  BY <1>1, <1>2 DEF Go
<1>3. ASSUME NEW stage \in {"purgeUsage", "retire", "dropCache"}, NEW r,
             NEW o \in {"cancel", "recreate", "force"}, GoAs(p, o, stage, r)
      PROVE  ByOperation(p)'
  BY <1>3, Gone DEF ByOperation
<1>4. ASSUME NEW stage \in {"expireDrop", "expireSave", "dueFutures", "checkActive",
                            "earliest", "activate"},
             NEW r, GoAs(p, "expire", stage, r)
      PROVE  ByOperation(p)'
  BY <1>4, Gone DEF ByOperation
<1>5. ASSUME NEW stage \in {"earliest", "activate"}, NEW r,
             NEW o \in {"cancel", "expire"}, GoAs(p, o, stage, r)
      PROVE  ByOperation(p)'
  BY <1>5, Gone DEF ByOperation
<1>6. ASSUME NEW r, NEW o, o = "continue" => r.prio = 1, GoAs(p, o, "insert", r)
      PROVE  ByOperation(p)'
  BY <1>6, Gone DEF ByOperation
<1>. SUFFICES ByOperation(p)'
  BY OthersStay DEF OpInv, ByOperation
<1>. USE DEF Stages, OpStages
<1>7. CASE FindActive(p)
  <2>1. PICK o \in {"cancel", "continue", "promote", "recreate", "force"} :
            IF Active = {}
            THEN GoAs(p, o, IF o = "force" THEN "insert" ELSE "idle", [NoReg EXCEPT !.date = now])
            ELSE LET a == Latest(Active) IN
                 GoAs(p, o, CASE o = "continue" -> "extend"
                              [] o = "promote"  -> "findHead"
                              [] o = "force"    -> "purgeUsage"
                              [] OTHER          -> "retire",
                      [NoReg EXCEPT !.sub = a, !.date = IF o = "continue" THEN ends[a] ELSE 0])
    BY <1>7 DEF FindActive
  <2>2. PICK r, stage : /\ GoAs(p, o, stage, r)
                        /\ \/ stage \in {"idle", "extend", "findHead"}
                           \/ stage = "insert" /\ o = "force"
                           \/ stage = "purgeUsage" /\ o = "force"
                           \/ stage = "retire" /\ o \in {"cancel", "recreate"}
    BY <2>1
  <2>. QED BY <2>2, <1>1, <1>3, <1>6
<1>8. CASE FindHead(p)
  BY <1>1, <1>8 DEF FindHead
<1>9. CASE PurgeUsage(p)
  BY <1>0, <1>3, <1>9 DEF PurgeUsage, Go, At, ByOperation
<1>10. CASE Retire(p)
  BY <1>0, <1>3, <1>10 DEF Retire, Go, At, ByOperation
<1>11. CASE DropCache(p)
  <2>1. op[p] \in {"cancel", "recreate", "force"}
    BY <1>0, <1>11 DEF DropCache, At, ByOperation
  <2>2. PICK r, stage : /\ GoAs(p, op[p], stage, r)
                        /\ \/ stage = "readActive"
                           \/ stage = "insert" /\ op[p] = "force"
                           \/ stage = "earliest" /\ op[p] = "cancel"
    BY <1>11, <2>1 DEF DropCache, Go
  <2>. QED BY <2>2, <1>1, <1>5, <1>6
<1>12. CASE Earliest(p)
  <2>1. op[p] \in {"cancel", "expire"}
    BY <1>0, <1>12 DEF Earliest, At, ByOperation
  <2>2. PICK r, stage : GoAs(p, op[p], stage, r) /\ stage \in {"idle", "normRead", "activate"}
    BY <1>12 DEF Earliest, Go
  <2>. QED BY <2>1, <2>2, <1>1, <1>5
<1>13. CASE Activate(p)
  BY <1>2, <1>13 DEF Activate
<1>14. CASE MakeUsage(p)
  BY <1>2, <1>14 DEF MakeUsage
<1>15. CASE WriteCache(p)
  BY <1>2, <1>15 DEF WriteCache
<1>16. CASE NormRead(p)
  BY <1>2, <1>16 DEF NormRead, AfterNorm
<1>17. CASE NormWrite(p)
  BY <1>2, <1>17 DEF NormWrite, AfterNorm
<1>18. CASE ReadActive(p)
  BY <1>1, <1>18 DEF ReadActive
<1>19. CASE ReadQueue(p)
  <2>1. PICK r, stage : /\ GoAs(p, op[p], stage, r)
                        /\ \/ stage = "insert" /\ op[p] # "continue"
                           \/ stage = "normRead"
                           \/ stage = "shift" /\ op[p] = "continue"
    BY <1>19 DEF ReadQueue, Go
  <2>2. CASE stage = "shift"
    BY <2>1, <2>2, Gone DEF ByOperation
  <2>. QED BY <2>1, <2>2, <1>1, <1>6
<1>20. CASE Insert(p)
  BY <1>2, <1>20 DEF Insert
<1>21. CASE Extend(p)
  BY <1>2, <1>21 DEF Extend
<1>22. CASE Shift(p)
  BY <1>0, <1>6, <1>22 DEF Shift, Go, At, Shape
<1>23. CASE FindQueued(p)
  BY <1>1, <1>23 DEF FindQueued
<1>24. CASE Dequeue(p)
  BY <1>2, <1>24 DEF Dequeue
<1>25. CASE Arrange(p)
  BY <1>1, <1>25 DEF Arrange
<1>26. CASE Rearrange(p)
  BY <1>2, <1>26 DEF Rearrange
<1>27. CASE RedateRead(p)
  BY <1>2, <1>27 DEF RedateRead
<1>28. CASE Redate(p)
  BY <1>2, <1>28 DEF Redate
<1>29. CASE ListOverdue(p)
  BY <1>4, <1>29 DEF ListOverdue
<1>30. CASE ExpireDrop(p)
  BY <1>0, <1>4, <1>30 DEF ExpireDrop, Go, At, ByOperation
<1>31. CASE ExpireSave(p)
  BY <1>0, <1>4, <1>31 DEF ExpireSave, Go, At, ByOperation
<1>32. CASE DueFutures(p)
  <2>1. op[p] = "expire" /\ \E stage \in {"checkActive", "idle"} : GoAs(p, op[p], stage, NoReg)
    BY <1>0, <1>32 DEF DueFutures, Go, At, ByOperation
  <2>. QED BY <2>1, <1>1, <1>4
<1>33. CASE CheckActive(p)
  <2>1. op[p] = "expire" /\ \E stage \in {"earliest", "idle"} : GoAs(p, op[p], stage, NoReg)
    BY <1>0, <1>33 DEF CheckActive, Go, At, ByOperation
  <2>. QED BY <2>1, <1>1, <1>4
<1>. QED BY <1>7, <1>8, <1>9, <1>10, <1>11, <1>12, <1>13, <1>14, <1>15, <1>16, <1>17, <1>18,
            <1>19, <1>20, <1>21, <1>22, <1>23, <1>24, <1>25, <1>26, <1>27, <1>28, <1>29,
            <1>30, <1>31, <1>32, <1>33 DEF Step

-----------------------------------------------------------------------------
(* Positions in the queue.                                                 *)

\* A list that has every queued subscription once.
Enumerates(l) ==
    /\ l \in [1..Cardinality(Queue) -> Queue]
    /\ \A i, j \in 1..Cardinality(Queue) : i # j => l[i] # l[j]

\* n is the position behind the queue.
Behind(n) ==
    IF Queue = {} THEN n = 1
    ELSE /\ \A s \in Queue : priority[s] < n
         /\ \E s \in Queue : n = priority[s] + 1

\* The queue has the positions 1..n.
Packed == {priority[s] : s \in Queue} = 1..Cardinality(Queue)

\* The queue is a finite set of subscriptions.
LEMMA QueueFinite ==
    ASSUME TypeOK
    PROVE  Queue \subseteq Subs /\ IsFiniteSet(Queue) /\ Cardinality(Queue) \in Nat
<1>. QED BY OrdersAreLists DEF Queue

\* Such a list leaves no queued subscription out, and a position in it is the
\* place where the list has the subscription.
LEMMA EnumeratesAll ==
    ASSUME TypeOK, NEW l, Enumerates(l)
    PROVE  /\ Listed(l) = Queue
           /\ \A i \in 1..Cardinality(Queue) : Position(l, l[i]) = i
           /\ \A s \in Queue : \E i \in 1..Cardinality(Queue) : l[i] = s
<1>. DEFINE n == Cardinality(Queue)
<1>1. IsFiniteSet(Queue) /\ n \in Nat
  BY QueueFinite
<1>2. l \in [1..n -> Queue] /\ \A i, j \in 1..n : i # j => l[i] # l[j]
  BY DEF Enumerates
<1>3. l \in Injection(1..n, Queue)
  BY <1>2 DEF Injection, IsInjective
<1>4. Cardinality(1..n) = n
  BY <1>1, FS_Interval
<1>5. l \in Surjection(1..n, Queue)
  <2>. HIDE DEF n
  <2>1. Cardinality(1..n) = Cardinality(Queue)
    BY <1>4 DEF n
  <2>. QED BY <1>1, <1>3, <2>1, FS_Injection
<1>6. \A s \in Queue : \E i \in 1..n : l[i] = s
  BY <1>5 DEF Surjection
<1>. HIDE DEF n
<1>7. Listed(l) = Queue
  BY <1>2, <1>6 DEF Listed
<1>8. ASSUME NEW i \in 1..n PROVE Position(l, l[i]) = i
  <2>1. \A j \in DOMAIN l : l[j] = l[i] => j = i
    BY <1>2
  <2>2. i \in DOMAIN l
    BY <1>2
  <2>. QED BY <2>1, <2>2 DEF Position
<1>. QED BY <1>6, <1>7, <1>8 DEF n

\* What find(...).sort({queue_priority: 1}) returns is such a list ...
LEMMA OrdersEnumerate ==
    ASSUME TypeOK, NEW q \in QueueOrders
    PROVE  Enumerates(q)
<1>1. Cardinality(Queue) \in Nat
  BY QueueFinite
<1>2. /\ q \in [1..Cardinality(Queue) -> Queue]
      /\ \A i, j \in 1..Cardinality(Queue) : i < j => q[i] # q[j]
  BY DEF QueueOrders
<1>3. ASSUME NEW i \in 1..Cardinality(Queue), NEW j \in 1..Cardinality(Queue), i # j
      PROVE  q[i] # q[j]
  <2>1. i < j \/ j < i
    BY <1>1, <1>3
  <2>. QED BY <1>2, <2>1
<1>. QED BY <1>2, <1>3 DEF Enumerates

\* ... whose last member tells the position behind the queue.
LEMMA LastIsBehind ==
    ASSUME TypeOK, NEW p \in Callers, NEW q \in QueueOrders, DecideBy(p, q).prio # 0
    PROVE  Behind(DecideBy(p, q).prio)
<1>. DEFINE n == Cardinality(Queue)
<1>1. n \in Nat /\ priority \in [Subs -> Nat] /\ Queue \subseteq Subs
  BY QueueFinite DEF TypeOK
<1>2. q \in Seq(Subs) /\ Len(q) = n /\ (Queue # {} => q # <<>>)
  BY ReadTyped
<1>3. CASE q = <<>>
  <2>1. Queue = {}
    BY <1>2, <1>3
  <2>2. DecideBy(p, q).prio = IF reg[p].sub = 0 THEN 0 ELSE 1
    BY <1>3 DEF DecideBy, NoReg
  <2>. QED BY <2>1, <2>2 DEF Behind
<1>4. CASE q # <<>>
  <2>1. DecideBy(p, q).prio = priority[q[n]] + 1
    BY <1>2, <1>4 DEF DecideBy, NoReg
  <2>2. n \in 1..n /\ q[n] \in Queue
    BY <1>2, <1>4, ReadTyped
  <2>3. ASSUME NEW s \in Queue PROVE priority[s] <= priority[q[n]]
    <3>1. PICK i \in 1..n : q[i] = s
      BY OrdersEnumerate, EnumeratesAll
    <3>2. i = n \/ i < n
      BY <1>1
    <3>3. i < n => priority[q[i]] <= priority[q[n]]
      BY <2>2 DEF QueueOrders
    <3>. QED BY <1>1, <2>2, <3>1, <3>2, <3>3
  <2>. HIDE DEF n
  <2>4. \A s \in Queue : priority[s] < priority[q[n]] + 1
    BY <1>1, <2>2, <2>3
  <2>. QED BY <2>1, <2>2, <2>4 DEF Behind
<1>. QED BY <1>3, <1>4

\* Writing the positions of a list of the whole queue packs it.
LEMMA PackPacks ==
    ASSUME TypeOK, NEW l, Enumerates(l), Pack(l, 0), status' = status
    PROVE  Packed'
<1>. DEFINE n == Cardinality(Queue)
<1>1. /\ Queue' = Queue /\ Queue \subseteq Subs /\ n \in Nat
  BY QueueFinite DEF Queue, Subs
<1>2. /\ Listed(l) = Queue
      /\ \A i \in 1..n : Position(l, l[i]) = i
      /\ \A s \in Queue : \E i \in 1..n : l[i] = s
  BY EnumeratesAll
<1>3. l \in [1..n -> Queue]
  BY DEF Enumerates
<1>. HIDE DEF n
<1>4. \A i \in 1..n : priority'[l[i]] = i
  BY <1>1, <1>2, <1>3 DEF Pack
<1>5. {priority'[s] : s \in Queue} = 1..n
  BY <1>2, <1>3, <1>4
<1>. QED BY <1>1, <1>5 DEF Packed, n

\* A subscription put behind a packed queue leaves it packed.
LEMMA BehindPacks ==
    ASSUME TypeOK, TypeOK', Packed, NEW new \in Subs \ Queue, NEW m \in Nat, Behind(m),
           Queue' = Queue \cup {new}, priority' = [priority EXCEPT ![new] = m]
    PROVE  Packed'
<1>. DEFINE n == Cardinality(Queue)
<1>1. Queue \subseteq Subs /\ IsFiniteSet(Queue) /\ n \in Nat /\ priority \in [Subs -> Nat]
  BY QueueFinite DEF TypeOK
<1>2. Cardinality(Queue \cup {new}) = n + 1
  BY <1>1, FS_AddElement
<1>3. {priority[s] : s \in Queue} = 1..n
  BY DEF Packed
<1>4. m = n + 1
  <2>1. CASE Queue = {}
    BY <2>1, FS_EmptySet DEF Behind
  <2>2. CASE Queue # {}
    <3>1. PICK s \in Queue : m = priority[s] + 1
      BY <2>2 DEF Behind
    <3>2. \A t \in Queue : priority[t] < m
      BY <2>2 DEF Behind
    <3>. HIDE DEF n
    <3>3. priority[s] \in 1..n
      BY <1>3, <3>1
    <3>4. n \in 1..n
      BY <1>1, <3>3
    <3>5. PICK t \in Queue : priority[t] = n
      BY <1>3, <3>4
    <3>. QED BY <1>1, <3>1, <3>2, <3>3, <3>5
  <2>. QED BY <2>1, <2>2
<1>. HIDE DEF n
<1>5. \A s \in Queue : priority'[s] = priority[s]
  BY <1>1
<1>6. priority'[new] = n + 1
  BY <1>1, <1>4
<1>7. {priority'[s] : s \in Queue \cup {new}} = {priority[s] : s \in Queue} \cup {n + 1}
  BY <1>5, <1>6
<1>8. (1..n) \cup {n + 1} = 1..(n + 1)
  BY <1>1
<1>. QED BY <1>2, <1>3, <1>7, <1>8 DEF Packed

-----------------------------------------------------------------------------
(* What a caller knows of the queue.                                       *)

\* What a caller may rely on at a stage, as long as nobody has changed a
\* subscription since it read: the list it is about to number is the queue, and
\* the place it is about to insert at is behind it.
KnowsQueue(p) ==
    /\ pc[p] \in {"promWrite", "normWrite"} => Enumerates(reg[p].list)
    /\ pc[p] \in {"shift", "rearrange"} => Listed(reg[p].list) \subseteq Queue
    /\ pc[p] = "insert" /\ op[p] # "continue" /\ reg[p].prio # 0 => Behind(reg[p].prio)

QueueKnowInv == ~stale => \A p \in Callers : fresh[p] => KnowsQueue(p)

\* The stages at which KnowsQueue says something.
QueueStages == {"promWrite", "normWrite", "shift", "rearrange", "insert"}

\* The caller of a step knows what its new stage asks for.
LEMMA CallerKnowsQueue ==
    ASSUME StageInv, OpInv, QueueKnowInv, NEW p \in Callers, Step(p), ~stale', fresh'[p]
    PROVE  KnowsQueue(p)'
<1>0. TypeOK
  BY DEF StageInv
<1>1. ASSUME NEW stage \in Stages \ QueueStages, NEW o, NEW r, GoAs(p, o, stage, r)
      PROVE  KnowsQueue(p)'
  BY <1>1, Gone DEF KnowsQueue, QueueStages
<1>2. ASSUME NEW stage \in Stages \ QueueStages, NEW r, Go(p, stage, r)
      PROVE  KnowsQueue(p)'
  BY <1>1, <1>2 DEF Go
<1>3. ASSUME NEW o, NEW r, GoAs(p, o, "insert", r), o # "continue" => r.prio = 0
      PROVE  KnowsQueue(p)'
  BY <1>3, Gone DEF KnowsQueue
<1>4. ASSUME status' = status, priority' = priority
      PROVE  Queue' = Queue /\ \A n : Behind(n) => Behind(n)'
  BY <1>4 DEF Queue, Behind
<1>. USE DEF Stages, QueueStages
<1>5. CASE FindActive(p)
  <2>1. PICK o \in {"cancel", "continue", "promote", "recreate", "force"} :
            IF Active = {}
            THEN GoAs(p, o, IF o = "force" THEN "insert" ELSE "idle", [NoReg EXCEPT !.date = now])
            ELSE LET a == Latest(Active) IN
                 GoAs(p, o, CASE o = "continue" -> "extend"
                              [] o = "promote"  -> "findHead"
                              [] o = "force"    -> "purgeUsage"
                              [] OTHER          -> "retire",
                      [NoReg EXCEPT !.sub = a, !.date = IF o = "continue" THEN ends[a] ELSE 0])
    BY <1>5 DEF FindActive
  <2>2. [NoReg EXCEPT !.date = now].prio = 0
    BY DEF NoReg
  <2>3. CASE Active = {}
    <3>1. GoAs(p, o, "idle", [NoReg EXCEPT !.date = now])
          \/ GoAs(p, o, "insert", [NoReg EXCEPT !.date = now])
      BY <2>1, <2>3
    <3>. QED BY <2>2, <3>1, <1>1, <1>3
  <2>4. CASE Active # {}
    <3>1. PICK r, stage : /\ GoAs(p, o, stage, r)
                          /\ stage \in {"extend", "findHead", "purgeUsage", "retire"}
      BY <2>1, <2>4
    <3>. QED BY <3>1, <1>1
  <2>. QED BY <2>3, <2>4
<1>6. CASE FindHead(p)
  BY <1>1, <1>6 DEF FindHead
<1>7. CASE PurgeUsage(p)
  BY <1>2, <1>7 DEF PurgeUsage
<1>8. CASE Retire(p)
  BY <1>2, <1>8 DEF Retire
<1>9. CASE DropCache(p)
  <2>1. PICK d, stage : /\ Go(p, stage, [NoReg EXCEPT !.date = d])
                        /\ stage \in {"readActive", "insert", "earliest"}
    BY <1>9 DEF DropCache
  <2>2. [NoReg EXCEPT !.date = d].prio = 0
    BY DEF NoReg
  <2>. QED BY <2>1, <2>2, <1>2, <1>3 DEF Go
<1>10. CASE Earliest(p)
  <2>1. PICK r, stage : Go(p, stage, r) /\ stage \in {"idle", "normRead", "activate"}
    BY <1>10 DEF Earliest
  <2>. QED BY <2>1, <1>2
<1>11. CASE Activate(p)
  BY <1>2, <1>11 DEF Activate
<1>12. CASE MakeUsage(p)
  BY <1>2, <1>12 DEF MakeUsage
<1>13. CASE WriteCache(p)
  BY <1>2, <1>13 DEF WriteCache
<1>14. CASE NormRead(p)
  <2>1. PICK q \in QueueOrders :
            Go(p, CASE q = <<>>          -> AfterNorm(p)
                    [] At(p, "promRead") -> "promWrite"
                    [] OTHER             -> "normWrite", [NoReg EXCEPT !.list = q])
    BY <1>14 DEF NormRead
  <2>. DEFINE r == [NoReg EXCEPT !.list = q]
  <2>2. r.list = q
    BY DEF NoReg
  <2>3. PICK stage : /\ Go(p, stage, r)
                     /\ stage \in {"normRead", "redateRead", "idle", "promWrite", "normWrite"}
    BY <2>1 DEF AfterNorm
  <2>. HIDE DEF r
  <2>4. CASE stage \in {"promWrite", "normWrite"}
    <3>1. pc'[p] = stage /\ reg'[p] = r
      BY <2>3, <2>4, Gone DEF Go
    <3>2. Enumerates(q)
      BY <1>0, OrdersEnumerate
    <3>3. status' = status
      BY <1>14 DEF NormRead, Reads, rows
    <3>4. Enumerates(q)'
      BY <3>2, <3>3 DEF Enumerates, Queue, Subs
    <3>. QED BY <2>2, <2>4, <3>1, <3>4 DEF KnowsQueue, Enumerates
  <2>. QED BY <2>3, <2>4, <1>2
<1>15. CASE NormWrite(p)
  BY <1>2, <1>15 DEF NormWrite, AfterNorm
<1>16. CASE ReadActive(p)
  BY <1>1, <1>16 DEF ReadActive
<1>17. CASE ReadQueue(p)
  <2>1. PICK q \in QueueOrders :
            IF op[p] # "continue" THEN Go(p, "insert", DecideBy(p, q))
            ELSE IF q = <<>> THEN Go(p, "normRead", NoReg)
            ELSE Go(p, "shift", [NoReg EXCEPT !.prio = 1, !.date = reg[p].date, !.list = q])
    BY <1>17 DEF ReadQueue
  <2>. DEFINE r == [NoReg EXCEPT !.prio = 1, !.date = reg[p].date, !.list = q]
  <2>2. r.list = q
    BY DEF NoReg
  <2>3. status' = status /\ priority' = priority
    BY <1>17 DEF ReadQueue, Proceeds, rows
  <2>. HIDE DEF r
  <2>4. CASE Go(p, "insert", DecideBy(p, q))
    <3>1. pc'[p] = "insert" /\ reg'[p] = DecideBy(p, q)
      BY <2>4, Gone DEF Go
    <3>2. PICK n : n = DecideBy(p, q).prio
      OBVIOUS
    <3>3. n # 0 => Behind(n)'
      BY <1>0, <1>4, <2>3, <3>2, LastIsBehind
    <3>4. reg'[p].prio = n
      BY <3>1, <3>2
    <3>. QED BY <3>1, <3>3, <3>4 DEF KnowsQueue, Behind
  <2>5. CASE Go(p, "shift", r)
    <3>1. pc'[p] = "shift" /\ reg'[p] = r
      BY <2>5, Gone DEF Go
    <3>2. Listed(q) = Queue
      BY <1>0, OrdersEnumerate, EnumeratesAll
    <3>. QED BY <1>4, <2>2, <2>3, <3>1, <3>2 DEF KnowsQueue, Listed
  <2>. QED BY <2>1, <2>4, <2>5, <1>2 DEF r
<1>18. CASE Insert(p)
  BY <1>2, <1>18 DEF Insert
<1>19. CASE Extend(p)
  BY <1>2, <1>19 DEF Extend
<1>20. CASE Shift(p)
  <2>1. op[p] = "continue"
    BY <1>20 DEF Shift, At, OpInv, ByOperation
  <2>. QED BY <1>3, <1>20, <2>1 DEF Shift, Go
<1>21. CASE FindQueued(p)
  BY <1>1, <1>21 DEF FindQueued
<1>22. CASE Dequeue(p)
  BY <1>2, <1>22 DEF Dequeue
<1>23. CASE Arrange(p)
  <2>1. PICK q \in [1..Cardinality(Queue) -> Queue] :
            /\ Listed(q) = Queue
            /\ GoAs(p, "reorder", "rearrange", [NoReg EXCEPT !.list = q])
    BY <1>23 DEF Arrange
  <2>. DEFINE r == [NoReg EXCEPT !.list = q]
  <2>2. r.list = q
    BY DEF NoReg
  <2>3. GoAs(p, "reorder", "rearrange", r)
    BY <2>1
  <2>. HIDE DEF r
  <2>4. pc'[p] = "rearrange" /\ reg'[p] = r /\ status' = status /\ priority' = priority
    BY <1>23, <2>3, Gone DEF Arrange, Reads, rows
  <2>. QED BY <1>4, <2>1, <2>2, <2>4 DEF KnowsQueue, Listed
<1>24. CASE Rearrange(p)
  BY <1>2, <1>24 DEF Rearrange
<1>25. CASE RedateRead(p)
  BY <1>2, <1>25 DEF RedateRead
<1>26. CASE Redate(p)
  BY <1>2, <1>26 DEF Redate
<1>27. CASE ListOverdue(p)
  BY <1>1, <1>27 DEF ListOverdue
<1>28. CASE ExpireDrop(p)
  BY <1>2, <1>28 DEF ExpireDrop
<1>29. CASE ExpireSave(p)
  BY <1>2, <1>29 DEF ExpireSave
<1>30. CASE DueFutures(p)
  BY <1>2, <1>30 DEF DueFutures
<1>31. CASE CheckActive(p)
  BY <1>2, <1>31 DEF CheckActive
<1>. QED BY <1>5, <1>6, <1>7, <1>8, <1>9, <1>10, <1>11, <1>12, <1>13, <1>14, <1>15, <1>16,
            <1>17, <1>18, <1>19, <1>20, <1>21, <1>22, <1>23, <1>24, <1>25, <1>26, <1>27,
            <1>28, <1>29, <1>30, <1>31 DEF Step

\* While the rows stay as they are so does what a caller that does not move knows.
LEMMA KnowsQueueStays ==
    ASSUME NEW p \in Callers, KnowsQueue(p), status' = status, priority' = priority,
           pc'[p] = pc[p], op'[p] = op[p], reg'[p] = reg[p]
    PROVE  KnowsQueue(p)'
<1>1. Queue' = Queue
  BY DEF Queue, Subs
<1>. QED BY <1>1 DEF KnowsQueue, Enumerates, Behind, Listed

\* Nobody knows anything when idle.
LEMMA IdleKnowsQueue ==
    ASSUME NEW p \in Callers, pc'[p] = "idle"
    PROVE  KnowsQueue(p)'
<1>. QED BY DEF KnowsQueue

\* Every step keeps what callers know.
LEMMA QueueKnowStep ==
    ASSUME StageInv, OpInv, QueueKnowInv, NEW p \in Callers, Step(p)
    PROVE  QueueKnowInv'
<1>. SUFFICES ASSUME ~stale', NEW q \in Callers, q # p, fresh'[q]
              PROVE  KnowsQueue(q)'
  BY CallerKnowsQueue DEF QueueKnowInv
<1>1. pc'[q] = pc[q] /\ op'[q] = op[q] /\ reg'[q] = reg[q]
  BY OthersStay
<1>2. CASE pc'[q] = "idle"
  BY <1>2, IdleKnowsQueue
<1>3. CASE pc'[q] # "idle"
  <2>1. fresh[q] /\ status' = status /\ priority' = priority
    BY <1>3, StepClassed DEF Reads, Writes, Proceeds, rows, StageInv, TypeOK
  <2>. QED BY <1>1, <2>1, KnowsQueueStays, StaleStays DEF QueueKnowInv
<1>. QED BY <1>2, <1>3

-----------------------------------------------------------------------------
(* The queue is packed, or somebody will pack it.                          *)

\* What is not queued has no position.
Unplaced == ~stale => \A s \in Subs \ Queue : priority[s] = 0

\* A caller that will number the queue before it ends.
Owes(p) ==
    \/ pc[p] \in {"promRead", "promWrite", "normRead", "normWrite"}
    \/ pc[p] \in {"usage", "cache"} /\ op[p] \in {"cancel", "expire", "recreate", "force"}
    \/ pc[p] = "insert" /\ op[p] = "continue"

\* While no operation failed or acted on an old read.
PackInv == ~stale /\ ~crashed => Packed \/ \E p \in Callers : Owes(p)

\* The writes that change a status or a position.
LEMMA StepsThatPlace ==
    ASSUME NEW p \in Callers, Step(p)
    PROVE  \/ status' = status /\ priority' = priority
           \/ Retire(p) \/ Activate(p) \/ NormWrite(p) \/ Insert(p) \/ Shift(p)
           \/ Dequeue(p) \/ Rearrange(p) \/ ExpireSave(p)
<1>. QED BY StepKinds DEF Reads, Proceeds, rows, Extend, Redate

\* What the writer of a status or a position knows, and what becomes of the queue.
LEMMA WriterOfQueue ==
    ASSUME StageInv, KnowInv, QueueKnowInv, NEW p \in Callers, Step(p), ~stale'
    PROVE  /\ Retire(p) => reg[p].sub \in Active /\ Queue' = Queue
           /\ Activate(p) => reg[p].sub \in Queue /\ Queue' = Queue \ {reg[p].sub}
           /\ NormWrite(p) => Enumerates(reg[p].list) /\ Queue' = Queue
           /\ Insert(p) => LET new == First(Unused) IN
                           /\ new \in Unused
                           /\ op[p] # "continue" /\ reg[p].prio # 0 => Behind(reg[p].prio)
                           /\ Queue' = IF reg[p].prio = 0 THEN Queue ELSE Queue \cup {new}
           /\ Shift(p) => Listed(reg[p].list) \subseteq Queue /\ Queue' = Queue
           /\ Dequeue(p) => reg[p].sub \in Queue /\ Queue' = Queue \ {reg[p].sub}
           /\ Rearrange(p) => Listed(reg[p].list) \subseteq Queue /\ Queue' = Queue
           /\ ExpireSave(p) => Queue' = Queue
<1>0. TypeOK /\ status \in [Subs -> Statuses]
  BY DEF StageInv, TypeOK
<1>1. ASSUME Writes(p) PROVE Knows(p) /\ KnowsQueue(p)
  BY <1>1, WriterKnows, StaleStays DEF Writes, QueueKnowInv
<1>2. ASSUME status' = status PROVE Queue' = Queue
  BY <1>2 DEF Queue, Subs
<1>3. ASSUME Retire(p) PROVE reg[p].sub \in Active /\ Queue' = Queue
  <2>1. reg[p].sub \in Active
    BY <1>1, <1>3 DEF Retire, At, Knows
  <2>. QED BY <1>0, <1>3, <2>1 DEF Retire, Active, Queue, Subs
<1>4. ASSUME Activate(p) PROVE reg[p].sub \in Queue /\ Queue' = Queue \ {reg[p].sub}
  <2>1. reg[p].sub \in Queue
    BY <1>1, <1>4 DEF Activate, At, Knows
  <2>. QED BY <1>0, <1>4, <2>1 DEF Activate, Queue, Subs
<1>5. ASSUME NormWrite(p) PROVE Enumerates(reg[p].list) /\ Queue' = Queue
  BY <1>1, <1>2, <1>5 DEF NormWrite, At, KnowsQueue
<1>6. ASSUME Insert(p)
      PROVE  LET new == First(Unused) IN
             /\ new \in Unused
             /\ op[p] # "continue" /\ reg[p].prio # 0 => Behind(reg[p].prio)
             /\ Queue' = IF reg[p].prio = 0 THEN Queue ELSE Queue \cup {new}
  <2>. DEFINE new == First(Unused)
  <2>1. new \in Unused
    BY <1>0, <1>6, ReadTyped DEF Insert
  <2>2. op[p] # "continue" /\ reg[p].prio # 0 => Behind(reg[p].prio)
    BY <1>1, <1>6 DEF Insert, At, KnowsQueue
  <2>3. status' = [status EXCEPT ![new] = IF reg[p].prio = 0 THEN "active" ELSE "future"]
    BY <1>6 DEF Insert
  <2>. HIDE DEF new
  <2>4. Queue' = IF reg[p].prio = 0 THEN Queue ELSE Queue \cup {new}
    BY <1>0, <2>1, <2>3 DEF Queue, Unused, Subs
  <2>. QED BY <2>1, <2>2, <2>4 DEF new
<1>7. ASSUME Shift(p) PROVE Listed(reg[p].list) \subseteq Queue /\ Queue' = Queue
  BY <1>1, <1>2, <1>7 DEF Shift, At, KnowsQueue
<1>8. ASSUME Dequeue(p) PROVE reg[p].sub \in Queue /\ Queue' = Queue \ {reg[p].sub}
  <2>1. reg[p].sub \in Queue
    BY <1>1, <1>8 DEF Dequeue, At, Knows
  <2>. QED BY <1>0, <1>8, <2>1 DEF Dequeue, Queue, Subs
<1>9. ASSUME Rearrange(p) PROVE Listed(reg[p].list) \subseteq Queue /\ Queue' = Queue
  BY <1>1, <1>2, <1>9 DEF Rearrange, At, KnowsQueue
<1>10. ASSUME ExpireSave(p) PROVE Queue' = Queue
  <2>1. PICK s \in Active : reg[p].list = <<s>>
    BY <1>1, <1>10 DEF ExpireSave, At, Knows
  <2>2. status' = [status EXCEPT ![s] = "expired"]
    BY <1>10, <2>1 DEF ExpireSave
  <2>. QED BY <1>0, <2>1, <2>2 DEF Active, Queue, Subs
<1>. QED BY <1>3, <1>4, <1>5, <1>6, <1>7, <1>8, <1>9, <1>10

\* Every step keeps what is not queued without a position.
LEMMA UnplacedStep ==
    ASSUME StageInv, KnowInv, QueueKnowInv, Unplaced, NEW p \in Callers, Step(p)
    PROVE  Unplaced'
<1>. SUFFICES ASSUME ~stale', NEW s \in Subs, s \notin Queue' PROVE priority'[s] = 0
  BY DEF Unplaced, Subs
<1>0. /\ TypeOK /\ priority \in [Subs -> Nat]
      /\ \A t \in Subs \ Queue : priority[t] = 0
  BY StaleStays DEF StageInv, TypeOK, Unplaced
<1>1. CASE status' = status /\ priority' = priority
  BY <1>0, <1>1 DEF Queue, Subs
<1>2. CASE Retire(p) \/ ExpireSave(p)
  BY <1>0, <1>2, WriterOfQueue DEF Retire, ExpireSave
<1>3. CASE Activate(p) \/ Dequeue(p)
  BY <1>0, <1>3, WriterOfQueue DEF Activate, Dequeue
<1>4. CASE NormWrite(p)
  <2>1. Listed(reg[p].list) = Queue /\ Queue' = Queue
    BY <1>0, <1>4, WriterOfQueue, EnumeratesAll
  <2>. QED BY <1>0, <1>4, <2>1 DEF NormWrite, Pack
<1>5. CASE Insert(p)
  <2>. DEFINE new == First(Unused)
  <2>1. priority' = [priority EXCEPT ![new] = reg[p].prio]
    BY <1>5 DEF Insert
  <2>2. Queue' = IF reg[p].prio = 0 THEN Queue ELSE Queue \cup {new}
    BY <1>5, WriterOfQueue
  <2>. HIDE DEF new
  <2>. QED BY <1>0, <2>1, <2>2
<1>6. CASE Shift(p)
  BY <1>0, <1>6, WriterOfQueue DEF Shift, Pack
<1>7. CASE Rearrange(p)
  BY <1>0, <1>7, WriterOfQueue DEF Rearrange
<1>. QED BY <1>1, <1>2, <1>3, <1>4, <1>5, <1>6, <1>7, StepsThatPlace

\* Where the steps that disturb the queue leave their caller, and who still
\* owes once he has made a step.
LEMMA OwersMoves ==
    ASSUME StageInv, OpInv, NEW p \in Callers, Step(p)
    PROVE  /\ Activate(p) \/ Shift(p) \/ Dequeue(p) \/ Rearrange(p) => Owes(p)'
           /\ Insert(p) /\ reg[p].prio # 0 /\ op[p] # "grant" => Owes(p)'
           /\ Owes(p) => \/ Owes(p)' \/ NormWrite(p)
                         \/ /\ Queue = {} /\ status' = status /\ priority' = priority
<1>0. TypeOK /\ ByOperation(p)
  BY DEF StageInv, OpInv
<1>1. ASSUME NEW r, Go(p, "normRead", r) \/ Go(p, "promRead", r) \/ Go(p, "promWrite", r)
                    \/ Go(p, "normWrite", r)
      PROVE  Owes(p)'
  BY <1>1, Gone DEF Go, Owes
<1>2. ASSUME Activate(p) \/ Shift(p) \/ Dequeue(p) \/ Rearrange(p) PROVE Owes(p)'
  <2>1. CASE Activate(p)
    BY <1>0, <2>1, Gone DEF Activate, Go, At, ByOperation, Owes
  <2>2. CASE Shift(p)
    BY <1>0, <2>2, Gone DEF Shift, Go, At, ByOperation, Owes
  <2>3. CASE Dequeue(p) \/ Rearrange(p)
    BY <1>1, <2>3 DEF Dequeue, Rearrange
  <2>. QED BY <1>2, <2>1, <2>2, <2>3
<1>3. ASSUME Insert(p), reg[p].prio # 0, op[p] # "grant" PROVE Owes(p)'
  BY <1>1, <1>3 DEF Insert
<1>4. ASSUME Owes(p)
      PROVE  Owes(p)' \/ NormWrite(p) \/ (Queue = {} /\ status' = status /\ priority' = priority)
  <2>1. CASE pc[p] \in {"promRead", "normRead"}
    <3>1. NormRead(p)
      BY <2>1, StepsAtStages
    <3>2. PICK q \in QueueOrders :
              Go(p, CASE q = <<>>          -> AfterNorm(p)
                      [] At(p, "promRead") -> "promWrite"
                      [] OTHER             -> "normWrite", [NoReg EXCEPT !.list = q])
      BY <3>1 DEF NormRead
    <3>3. CASE q # <<>>
      BY <1>1, <3>2, <3>3
    <3>4. CASE q = <<>>
      BY <1>0, <3>1, <3>4, ReadTyped DEF NormRead, Reads, rows
    <3>. QED BY <3>3, <3>4
  <2>2. CASE pc[p] \in {"promWrite", "normWrite"}
    BY <2>2, StepsAtStages
  <2>3. CASE pc[p] = "usage" /\ op[p] \in {"cancel", "expire", "recreate", "force"}
    <3>1. GoAs(p, op[p], "cache", reg[p])
      BY <2>3, StepsAtStages DEF MakeUsage, Go
    <3>. QED BY <2>3, <3>1, Gone DEF Owes
  <2>4. CASE pc[p] = "cache" /\ op[p] \in {"cancel", "expire", "recreate", "force"}
    <3>1. \E r : Go(p, "promRead", r) \/ Go(p, "normRead", r)
      BY <2>4, StepsAtStages DEF WriteCache
    <3>. QED BY <1>1, <3>1
  <2>5. CASE pc[p] = "insert" /\ op[p] = "continue"
    <3>1. Insert(p)
      BY <2>5, StepsAtStages
    <3>2. reg[p].prio = 1
      BY <1>0, <2>5 DEF ByOperation
    <3>. QED BY <1>3, <2>5, <3>1, <3>2
  <2>. QED BY <1>4, <2>1, <2>2, <2>3, <2>4, <2>5 DEF Owes
<1>. QED BY <1>2, <1>3, <1>4

\* A queue that keeps its members and their positions stays packed.
LEMMA SameIsPacked ==
    ASSUME Packed, Queue' = Queue, \A s \in Queue : priority'[s] = priority[s]
    PROVE  Packed'
<1>1. {priority'[s] : s \in Queue} = {priority[s] : s \in Queue}
  OBVIOUS
<1>. QED BY <1>1 DEF Packed

\* Every step keeps the queue packed or somebody about to pack it.
LEMMA PackStep ==
    ASSUME StageInv, TypeOK', KnowInv, OpInv, QueueKnowInv, PackInv, NEW p \in Callers, Step(p)
    PROVE  PackInv'
<1>. SUFFICES ASSUME ~stale', ~crashed', \A q \in Callers : ~Owes(q)'
              PROVE  Packed'
  BY DEF PackInv
<1>0. /\ TypeOK /\ priority \in [Subs -> Nat] /\ Queue \subseteq Subs
      /\ Packed \/ \E q \in Callers : Owes(q)
  BY StaleStays, CrashedStays, QueueFinite DEF StageInv, TypeOK, PackInv
<1>1. \A q \in Callers : q # p => ~Owes(q)
  BY OthersStay DEF Owes
<1>2. CASE NormWrite(p)
  <2>1. Enumerates(reg[p].list)
    BY <1>2, WriterOfQueue
  <2>2. Pack(reg[p].list, 0) /\ status' = status
    BY <1>2 DEF NormWrite
  <2>. QED BY <1>0, <2>1, <2>2, PackPacks
<1>3. CASE Queue = {} /\ status' = status /\ priority' = priority
  <2>1. Queue' = {} /\ Cardinality({}) = 0
    BY <1>3, FS_EmptySet DEF Queue, Subs
  <2>. QED BY <2>1 DEF Packed
<1>4. CASE Packed /\ ~NormWrite(p)
  <2>1. CASE status' = status /\ priority' = priority
    BY <1>4, <2>1, SameIsPacked DEF Queue, Subs
  <2>2. CASE Retire(p) \/ ExpireSave(p)
    <3>1. Queue' = Queue /\ priority' = priority
      BY <2>2, WriterOfQueue DEF Retire, ExpireSave
    <3>. QED BY <1>4, <3>1, SameIsPacked
  <2>3. CASE Activate(p) \/ Shift(p) \/ Dequeue(p) \/ Rearrange(p)
    BY <2>3, OwersMoves
  <2>4. CASE Insert(p)
    <3>. DEFINE new == First(Unused)
    <3>1. /\ priority' = [priority EXCEPT ![new] = reg[p].prio]
          /\ new \in Subs \ Queue
          /\ Queue' = IF reg[p].prio = 0 THEN Queue ELSE Queue \cup {new}
      BY <2>4, WriterOfQueue DEF Insert, Unused, Queue
    <3>2. CASE reg[p].prio = 0
      <4>. HIDE DEF new
      <4>. QED BY <1>0, <1>4, <3>1, <3>2, SameIsPacked
    <3>3. CASE reg[p].prio # 0
      <4>1. op[p] = "grant"
        BY <2>4, <3>3, OwersMoves
      <4>2. Behind(reg[p].prio)
        BY <2>4, <3>3, <4>1, WriterOfQueue
      <4>3. reg[p].prio \in Nat
        BY <1>0, ReadTyped
      <4>. HIDE DEF new
      <4>. QED BY <1>0, <1>4, <3>1, <3>3, <4>2, <4>3, BehindPacks
    <3>. QED BY <3>2, <3>3
  <2>. QED BY <1>4, <2>1, <2>2, <2>3, <2>4, StepsThatPlace
<1>. QED BY <1>0, <1>1, <1>2, <1>3, <1>4, OwersMoves

\* The inductive invariant of the queue.
QueueInv == LifeInv /\ OpInv /\ QueueKnowInv /\ Unplaced /\ PackInv

\* Nothing is queued and nobody has started.
LEMMA QueueInit == Init => QueueInv
<1>. SUFFICES ASSUME Init PROVE OpInv /\ QueueKnowInv /\ Unplaced /\ PackInv
  BY LifeInit DEF QueueInv
<1>1. Queue = {} /\ Cardinality({}) = 0
  BY FS_EmptySet DEF Init, Queue
<1>2. OpInv /\ QueueKnowInv
  BY DEF Init, OpInv, ByOperation, QueueKnowInv, KnowsQueue
<1>3. Unplaced
  BY DEF Init, Unplaced
<1>4. PackInv
  BY <1>1 DEF PackInv, Packed
<1>. QED BY <1>2, <1>3, <1>4

\* Every step keeps it.
LEMMA QueueNext == QueueInv /\ [Next]_vars => QueueInv'
<1>. SUFFICES ASSUME QueueInv, [Next]_vars PROVE OpInv' /\ QueueKnowInv' /\ Unplaced' /\ PackInv'
  BY LifeNext DEF QueueInv
<1>0. /\ LifeInv /\ StageInv /\ KnowInv /\ OpInv /\ QueueKnowInv /\ Unplaced /\ PackInv
      /\ TypeOK'
  BY LifeNext DEF QueueInv, LifeInv, StageInv
<1>1. ASSUME status' = status, priority' = priority, stale' = stale,
             \A q \in Callers : \/ pc'[q] = "idle"
                                \/ /\ pc'[q] = pc[q] /\ op'[q] = op[q] /\ reg'[q] = reg[q]
                                   /\ fresh'[q] = fresh[q]
      PROVE  OpInv' /\ QueueKnowInv' /\ Unplaced'
  <2>1. OpInv'
    BY <1>0, <1>1 DEF OpInv, ByOperation
  <2>2. QueueKnowInv'
    BY <1>0, <1>1, KnowsQueueStays, IdleKnowsQueue DEF QueueKnowInv
  <2>3. Unplaced'
    BY <1>0, <1>1 DEF Unplaced, Queue, Subs
  <2>. QED BY <2>1, <2>2, <2>3
<1>2. CASE UNCHANGED vars \/ Tick
  <2>1. /\ status' = status /\ priority' = priority /\ pc' = pc /\ op' = op /\ reg' = reg
        /\ fresh' = fresh /\ stale' = stale /\ crashed' = crashed
    BY <1>2 DEF vars, Tick, rows, history
  <2>2. PackInv'
    BY <1>0, <2>1 DEF PackInv, Packed, Owes, Queue, Subs
  <2>. QED BY <1>1, <2>1, <2>2
<1>3. ASSUME NEW p \in Callers, Step(p) PROVE OpInv' /\ QueueKnowInv' /\ Unplaced' /\ PackInv'
  BY <1>0, <1>3, OpStep, QueueKnowStep, UnplacedStep, PackStep
<1>4. ASSUME NEW p \in Callers, Crash(p) PROVE OpInv' /\ QueueKnowInv' /\ Unplaced' /\ PackInv'
  <2>1. \A q \in Callers : \/ pc'[q] = "idle"
                           \/ /\ pc'[q] = pc[q] /\ op'[q] = op[q] /\ reg'[q] = reg[q]
                              /\ fresh'[q] = fresh[q]
    <3>1. GoAs(p, op[p], "idle", NoReg)
      BY <1>4 DEF Crash, Go
    <3>2. \A q \in Callers : q # p => fresh'[q] = fresh[q]
      BY <1>0, <1>4 DEF Crash, StageInv, TypeOK
    <3>. QED BY <1>0, <3>1, <3>2, Gone
  <2>2. status' = status /\ priority' = priority /\ stale' = stale /\ crashed'
    BY <1>4 DEF Crash, rows
  <2>. QED BY <1>1, <2>1, <2>2 DEF PackInv
<1>. QED BY <1>2, <1>3, <1>4 DEF Next

\* For any number of concurrent operations: when all have run to their end,
\* without a fault or an old read, the queue has the positions 1..n and nothing
\* else has one.
THEOREM QueuePackedCorrect == Spec => []QueuePacked
<1>1. QueueInv => QueuePacked
  BY DEF QueueInv, Unplaced, PackInv, Packed, Owes, QueuePacked, Quiet
<1>. QED BY <1>1, QueueInit, QueueNext, PTL DEF Spec
=============================================================================
