--------------------------- MODULE ScanQuotaProofs ---------------------------
(***************************************************************************)
(* Proofs about ScanQuota for any number of requests, any number of client *)
(* ids and any limit: the quota is never overshot and the counter stays    *)
(* exact under the stated conditions, and the module implements            *)
(* QuotaPermits.                                                           *)
(*                                                                         *)
(* A scan's owner is in a state only a storing call reaches (OwnerInv), so *)
(* charged units and stored scans are disjoint sources of Units.  While no *)
(* refill overlapped anything, a refill runs alone against a missing hash  *)
(* (RefillInv), what it writes back counts every stored scan (SeedInv),    *)
(* hence a live counter covers every unit (CoverInv), and that is what     *)
(* makes the Lua limit test bound the units themselves (BoundInv).         *)
(***************************************************************************)
EXTENDS ScanQuota, FiniteSetTheorems, TLAPS

OwnerInv == \A c \in Stored :
                /\ clientId[scans[c]] = c
                /\ pc[scans[c]] \in {"enqueue", "accepted", "failed", "crashed"}

AnswerInv == \A r \in Requests :
                /\ pc[r] \in {"enqueue", "accepted"} => scans[clientId[r]] = r
                /\ pc[r] \in {"release", "duplicate"} => scans[clientId[r]] \notin {r, NoOne}

RefillInv == ~overlapped =>
                \A r \in Requests : pc[r] \in Refill =>
                    /\ ~hash.live
                    /\ \A q \in Requests \ {r} : pc[q] \notin Refill \cup Holding

SeedInv == ~overlapped =>
                \A r \in Requests : pc[r] = "writeHash" => Cardinality(Stored) <= seen[r]

CoverInv == ~overlapped /\ hash.live => Cardinality(Units) <= hash.used

BoundInv == ~overlapped /\ Limit # 0 => Cardinality(Units) <= Limit

WarmInv == ~cold =>
                /\ hash.live
                /\ \A r \in Requests : pc[r] \notin Refill
                /\ hash.used = Cardinality(Units) + Cardinality(leaked)

LeakInv == \A r \in leaked : pc[r] \in Finished

StoreInv == TypeOK /\ OwnerInv /\ AnswerInv
QuotaInv == StoreInv /\ RefillInv /\ SeedInv /\ CoverInv /\ BoundInv
CountInv == StoreInv /\ LeakInv /\ WarmInv

-----------------------------------------------------------------------------
(* Types.                                                                  *)

Labels == Running \cup Finished

\* Init establishes the types.
LEMMA TypeInit == Init => TypeOK
<1>1. \A r \in Requests : "new" \in Labels
  BY DEF Labels, Running
<1>2. ASSUME Init PROVE hash \in [live : BOOLEAN, used : Nat] /\ cold \in BOOLEAN
  <2>1. [live |-> TRUE, used |-> 0] \in [live : BOOLEAN, used : Nat]
    OBVIOUS
  <2>2. [live |-> FALSE, used |-> 0] \in [live : BOOLEAN, used : Nat]
    OBVIOUS
  <2>3. CASE hash = [live |-> TRUE, used |-> 0] /\ cold = FALSE
    BY <2>1, <2>3
  <2>4. CASE hash = NoHash /\ cold = TRUE
    BY <2>2, <2>4 DEF NoHash
  <2>. QED BY <1>2, <2>3, <2>4 DEF Init
<1>3. ASSUME Init PROVE pc \in [Requests -> Running \cup Finished]
  BY <1>1, <1>3 DEF Init, Labels
<1>4. ASSUME Init PROVE seen \in [Requests -> Nat] /\ scans \in [ClientIds -> Requests \cup {NoOne}]
  BY <1>4 DEF Init
<1>5. ASSUME Init PROVE mirror \in [at : {"idle", "read", "write"}, used : Nat]
  BY <1>5 DEF Init
<1>6. ASSUME Init PROVE /\ usage \in Nat /\ clientId \in [Requests -> ClientIds]
                        /\ expiry \in [at : {"idle", "flush", "drop", "save"}, used : Nat] /\ leaked \in SUBSET Requests
  BY <1>6 DEF Init
<1>7. ASSUME Init PROVE active \in BOOLEAN /\ lapsed \in BOOLEAN /\ overlapped \in BOOLEAN
  BY <1>7, Zenon DEF Init
<1>. QED BY <1>2, <1>3, <1>4, <1>5, <1>6, <1>7, Zenon DEF TypeOK

\* Every step keeps them; Lua's release is the one that subtracts.
LEMMA TypeNext == TypeOK /\ [Next]_vars => TypeOK'
<1>. SUFFICES ASSUME TypeOK, [Next]_vars PROVE TypeOK'
  OBVIOUS
<1>. USE QuotaAssumption DEF TypeOK, Goto, period, worker, history
<1>. USE DEF Running, Finished, Answers, Denied, Refill, Holding
<1>1. CASE UNCHANGED vars
  BY <1>1 DEF vars
<1>2. ASSUME NEW r \in Requests, Call(r) PROVE TypeOK'
  <2>1. CASE ReserveUnit(r)      BY <2>1 DEF ReserveUnit
  <2>2. CASE ReserveDenied(r)    BY <2>2 DEF ReserveDenied
  <2>3. CASE ReserveMiss(r)      BY <2>3 DEF ReserveMiss
  <2>4. CASE ReserveMissAgain(r) BY <2>4 DEF ReserveMissAgain
  <2>5. CASE ReserveDown(r)      BY <2>5 DEF ReserveDown
  <2>6. CASE ReadSub(r)          BY <2>6 DEF ReadSub
  <2>7. CASE ReadUsage(r)        BY <2>7 DEF ReadUsage
  <2>8. CASE CountScans(r)
    <3>1. IsFiniteSet(Stored) /\ Cardinality(Stored) \in Nat
      BY FS_Subset, FS_CardinalityType DEF Stored
    <3>. QED BY <2>8, <3>1 DEF CountScans, Seed, Larger
  <2>9. CASE WriteHash(r)
    <3>1. [live |-> TRUE, used |-> seen[r]] \in [live : BOOLEAN, used : Nat]
      OBVIOUS
    <3>2. hash' \in [live : BOOLEAN, used : Nat]
      BY <2>9, <3>1 DEF WriteHash
    <3>. QED BY <2>9, <3>2 DEF WriteHash
  <2>10. CASE Lookup(r)          BY <2>10 DEF Lookup
  <2>11. CASE Insert(r)          BY <2>11 DEF Insert
  <2>12. CASE StoreFails(r)      BY <2>12 DEF StoreFails
  <2>13. CASE Release(r)         BY <2>13 DEF Release, Released
  <2>14. CASE ReleaseLost(r)     BY <2>14 DEF ReleaseLost
  <2>15. CASE Enqueue(r)         BY <2>15 DEF Enqueue
  <2>. QED BY <1>2, <2>1, <2>2, <2>3, <2>4, <2>5, <2>6, <2>7, <2>8, <2>9, <2>10,
              <2>11, <2>12, <2>13, <2>14, <2>15 DEF Call
<1>3. ASSUME NEW r \in Requests, Crash(r) PROVE TypeOK'
  BY <1>3 DEF Crash
<1>4. CASE Worker
  <2>1. CASE ReconcileFind  BY <2>1 DEF ReconcileFind
  <2>2. CASE ReconcileRead  BY <2>2 DEF ReconcileRead
  <2>3. CASE ReconcileWrite BY <2>3 DEF ReconcileWrite
  <2>4. CASE ExpiryFlush    BY <2>4 DEF ExpiryFlush
  <2>5. CASE ExpiryDrop
    <3>1. NoHash \in [live : BOOLEAN, used : Nat]
      BY DEF NoHash
    <3>2. hash' \in [live : BOOLEAN, used : Nat] /\ cold' \in BOOLEAN
      BY <2>5, <3>1 DEF ExpiryDrop
    <3>. QED BY <2>5, <3>2 DEF ExpiryDrop
  <2>6. CASE ExpirySave     BY <2>6 DEF ExpirySave
  <2>7. CASE ExpiryRead     BY <2>7 DEF ExpiryRead
  <2>. QED BY <1>4, <2>1, <2>2, <2>3, <2>4, <2>5, <2>6, <2>7 DEF Worker
<1>5. CASE WorkerCrash
  BY <1>5 DEF WorkerCrash
<1>6. CASE Lapse
  BY <1>6 DEF Lapse
<1>7. CASE LoseHash
  BY <1>7 DEF LoseHash, NoHash
<1>. QED BY <1>1, <1>2, <1>3, <1>4, <1>5, <1>6, <1>7 DEF Next

\* Every reachable state has the declared types: no counter goes negative.
THEOREM TypeCorrect == Spec => []TypeOK
<1>. QED BY TypeInit, TypeNext, PTL DEF Spec

-----------------------------------------------------------------------------
(* Who stored what.                                                        *)

OwnerLabels == {"enqueue", "accepted", "failed", "crashed"}

\* No step moves anybody but its own request: when only pc[r] changes, r's new
\* label is all there is to check.
LEMMA MoveKeepsOwners ==
    ASSUME TypeOK, OwnerInv, AnswerInv, NEW r \in Requests, NEW label, Goto(r, label),
           UNCHANGED <<scans, clientId>>,
           pc[r] \in OwnerLabels => label \in OwnerLabels,
           label \in {"enqueue", "accepted"} => scans[clientId[r]] = r,
           label \in {"release", "duplicate"} => scans[clientId[r]] \notin {r, NoOne}
    PROVE  OwnerInv' /\ AnswerInv'
<1>1. \A q \in Requests : pc'[q] = IF q = r THEN label ELSE pc[q]
  BY DEF Goto, TypeOK
<1>2. Stored' = Stored
  BY DEF Stored
<1>3. \A c \in Stored : scans[c] \in Requests
  BY DEF Stored, TypeOK
<1>4. OwnerInv'
  BY <1>1, <1>2, <1>3 DEF OwnerInv, OwnerLabels
<1>5. AnswerInv'
  BY <1>1 DEF AnswerInv
<1>. QED BY <1>4, <1>5

\* Nothing is stored and nobody has started.
LEMMA StoreInit == Init => StoreInv
<1>. SUFFICES ASSUME Init PROVE StoreInv
  OBVIOUS
<1>1. Stored = {}
  BY DEF Init, Stored
<1>2. \A r \in Requests : pc[r] = "new"
  BY DEF Init
<1>. QED BY <1>1, <1>2, TypeInit DEF StoreInv, OwnerInv, AnswerInv

\* A row is inserted by the request that carries its id, is never replaced,
\* and its owner only moves on to an answer or a crash.
LEMMA StoreNext == StoreInv /\ [Next]_vars => StoreInv'
<1>. SUFFICES ASSUME StoreInv, [Next]_vars PROVE OwnerInv' /\ AnswerInv'
  BY TypeNext DEF StoreInv
<1>. USE DEF StoreInv
<1>0. ASSUME UNCHANGED <<pc, scans, clientId>> PROVE OwnerInv' /\ AnswerInv'
  BY <1>0 DEF OwnerInv, AnswerInv, Stored
<1>1. CASE UNCHANGED vars
  BY <1>0, <1>1 DEF vars, period
<1>2. ASSUME NEW r \in Requests, Call(r) PROVE OwnerInv' /\ AnswerInv'
  <2>. USE DEF period, worker, history, OwnerLabels, Refill
  <2>1. CASE ReserveUnit(r)
    BY <2>1, MoveKeepsOwners DEF ReserveUnit
  <2>2. CASE ReserveDenied(r)
    <3>1. PICK label \in {"subscription_expired", "quota_exceeded"} : Goto(r, label)
      BY <2>2 DEF ReserveDenied
    <3>. QED BY <2>2, <3>1, MoveKeepsOwners DEF ReserveDenied
  <2>3. CASE ReserveMiss(r)
    BY <2>3, MoveKeepsOwners DEF ReserveMiss
  <2>4. CASE ReserveMissAgain(r)
    BY <2>4, MoveKeepsOwners DEF ReserveMissAgain
  <2>5. CASE ReserveDown(r)
    BY <2>5, MoveKeepsOwners DEF ReserveDown
  <2>6. CASE ReadSub(r)
    <3>1. PICK label \in {"readUsage", "no_active_subscription"} : Goto(r, label)
      BY <2>6 DEF ReadSub
    <3>. QED BY <2>6, <3>1, MoveKeepsOwners DEF ReadSub
  <2>7. CASE ReadUsage(r)
    BY <2>7, MoveKeepsOwners DEF ReadUsage
  <2>8. CASE CountScans(r)
    BY <2>8, MoveKeepsOwners DEF CountScans
  <2>9. CASE WriteHash(r)
    BY <2>9, MoveKeepsOwners DEF WriteHash
  <2>10. CASE Lookup(r)
    <3>1. CASE scans[clientId[r]] = NoOne
      BY <2>10, <3>1, MoveKeepsOwners DEF Lookup
    <3>2. CASE scans[clientId[r]] # NoOne
      <4>1. scans[clientId[r]] # r
        BY <2>10, <3>2 DEF Lookup, OwnerInv, Stored, TypeOK
      <4>. QED BY <2>10, <3>2, <4>1, MoveKeepsOwners DEF Lookup
    <3>. QED BY <3>1, <3>2
  <2>11. CASE Insert(r)
    <3>1. CASE scans[clientId[r]] = NoOne
      <4>1. scans' = [scans EXCEPT ![clientId[r]] = r] /\ Goto(r, "enqueue")
        BY <2>11, <3>1 DEF Insert
      <4>2. \A c \in ClientIds : scans'[c] = IF c = clientId[r] THEN r ELSE scans[c]
        BY <4>1 DEF TypeOK
      <4>3. \A q \in Requests : pc'[q] = IF q = r THEN "enqueue" ELSE pc[q]
        BY <4>1 DEF TypeOK, Goto
      <4>4. clientId' = clientId /\ clientId \in [Requests -> ClientIds]
        BY <2>11 DEF Insert, TypeOK
      <4>5. \A c \in Stored : scans[c] \in Requests /\ scans[c] # r
        BY <2>11 DEF OwnerInv, Insert, Stored, TypeOK
      <4>6. r # NoOne
        BY QuotaAssumption
      <4>7. Stored' = Stored \cup {clientId[r]}
        BY <4>2, <4>4, <4>6 DEF Stored
      <4>8. OwnerInv'
        BY <3>1, <4>2, <4>3, <4>4, <4>5, <4>7 DEF OwnerInv, Stored
      <4>9. ASSUME NEW q \in Requests
            PROVE  /\ pc'[q] \in {"enqueue", "accepted"} => scans'[clientId[q]] = q
                   /\ pc'[q] \in {"release", "duplicate"} =>
                        scans'[clientId[q]] \notin {q, NoOne}
        <5>1. CASE q = r
          BY <4>2, <4>3, <4>4, <5>1
        <5>2. CASE q # r
          BY <3>1, <4>2, <4>3, <4>4, <4>6, <5>2, QuotaAssumption DEF AnswerInv
        <5>. QED BY <5>1, <5>2
      <4>. QED BY <4>4, <4>8, <4>9 DEF AnswerInv
    <3>2. CASE scans[clientId[r]] # NoOne
      <4>1. scans[clientId[r]] # r
        BY <2>11, <3>2 DEF Insert, OwnerInv, Stored, TypeOK
      <4>. QED BY <2>11, <3>2, <4>1, MoveKeepsOwners DEF Insert
    <3>. QED BY <3>1, <3>2
  <2>12. CASE StoreFails(r)
    BY <2>12, MoveKeepsOwners DEF StoreFails
  <2>13. CASE Release(r)
    BY <2>13, MoveKeepsOwners DEF Release, AnswerInv
  <2>14. CASE ReleaseLost(r)
    BY <2>14, MoveKeepsOwners DEF ReleaseLost, AnswerInv
  <2>15. CASE Enqueue(r)
    <3>1. PICK label \in {"accepted", "failed"} : Goto(r, label)
      BY <2>15 DEF Enqueue
    <3>. QED BY <2>15, <3>1, MoveKeepsOwners DEF Enqueue, AnswerInv
  <2>. QED BY <1>2, <2>1, <2>2, <2>3, <2>4, <2>5, <2>6, <2>7, <2>8, <2>9, <2>10,
              <2>11, <2>12, <2>13, <2>14, <2>15 DEF Call
<1>3. ASSUME NEW r \in Requests, Crash(r) PROVE OwnerInv' /\ AnswerInv'
  BY <1>3, MoveKeepsOwners DEF Crash, OwnerLabels, period
<1>4. CASE Worker
  BY <1>0, <1>4 DEF Worker, ReconcileFind, ReconcileRead, ReconcileWrite,
                    ExpiryRead, ExpiryFlush, ExpiryDrop, ExpirySave, period
<1>5. CASE WorkerCrash
  BY <1>0, <1>5 DEF WorkerCrash, period
<1>6. CASE Lapse
  BY <1>0, <1>6 DEF Lapse
<1>7. CASE LoseHash
  BY <1>0, <1>7 DEF LoseHash, period
<1>. QED BY <1>1, <1>2, <1>3, <1>4, <1>5, <1>6, <1>7 DEF Next

\* The answers given to clients agree with the rows, for any number of calls
\* racing for any number of ids.
THEOREM AnswersCorrect == Spec => []AnswersMatchStore
<1>1. StoreInv => AnswersMatchStore
  <2>. SUFFICES ASSUME StoreInv, NEW r \in Requests
                PROVE  LET owner == scans[clientId[r]] IN
                       /\ pc[r] = "accepted" => owner = r
                       /\ pc[r] = "duplicate" => owner \notin {r, NoOne}
                       /\ pc[r] \in Denied => owner # r
    BY DEF AnswersMatchStore
  <2>1. scans[clientId[r]] = r => clientId[r] \in Stored
    BY QuotaAssumption DEF Stored, StoreInv, TypeOK
  <2>. QED BY <2>1 DEF StoreInv, OwnerInv, AnswerInv, Denied
<1>. QED BY <1>1, StoreInit, StoreNext, PTL DEF Spec

-----------------------------------------------------------------------------
(* Counting units.                                                         *)

\* Units and stored ids are finite, so their cardinalities are numbers.
LEMMA UnitsFinite ==
    ASSUME TypeOK
    PROVE  /\ Units \subseteq Requests /\ IsFiniteSet(Units)
           /\ Cardinality(Units) \in Nat
           /\ IsFiniteSet(Stored) /\ Cardinality(Stored) \in Nat
<1>1. Owners \subseteq Requests
  BY DEF Owners, Stored, TypeOK
<1>2. Units \subseteq Requests /\ Stored \subseteq ClientIds
  BY <1>1 DEF Units, Stored
<1>. QED BY <1>2, QuotaAssumption, FS_Subset, FS_CardinalityType

\* Each stored scan was paid for by its own unit ...
LEMMA StoredAtMostUnits ==
    ASSUME StoreInv
    PROVE  Cardinality(Stored) <= Cardinality(Units)
<1>. DEFINE f == [c \in Stored |-> scans[c]]
<1>1. f \in [Stored -> Units]
  BY DEF Units, Owners
<1>2. \A c, d \in Stored : f[c] = f[d] => c = d
  BY DEF StoreInv, OwnerInv
<1>3. f \in Injection(Stored, Units)
  BY <1>1, <1>2 DEF Injection, IsInjective
<1>4. IsFiniteSet(Units)
  BY UnitsFinite DEF StoreInv
<1>. HIDE DEF f
<1>. QED BY <1>3, <1>4, FS_Injection

\* ... and a request stores at most one scan.
LEMMA OwnersAtMostStored ==
    ASSUME TypeOK
    PROVE  Cardinality(Owners) <= Cardinality(Stored)
<1>. DEFINE f == [c \in Stored |-> scans[c]]
<1>1. f \in Surjection(Stored, Owners)
  BY DEF Surjection, Owners
<1>2. IsFiniteSet(Stored)
  BY UnitsFinite
<1>. HIDE DEF f
<1>. QED BY <1>1, <1>2, FS_Surjection

\* How a step that moves only r, and stores nothing, changes the units.
LEMMA MoveUnits ==
    ASSUME StoreInv, NEW r \in Requests, NEW label, Goto(r, label), UNCHANGED scans
    PROVE  /\ Stored' = Stored
           /\ pc[r] \in Holding /\ label \notin Holding =>
                r \in Units /\ r \notin Owners /\ Units' = Units \ {r}
           /\ pc[r] \notin Holding /\ label \in Holding => Units' = Units \cup {r}
           /\ (pc[r] \in Holding <=> label \in Holding) => Units' = Units
           /\ pc[r] \notin Holding \cup OwnerLabels => r \notin Units
<1>1. \A q \in Requests : pc'[q] = IF q = r THEN label ELSE pc[q]
  BY DEF Goto, StoreInv, TypeOK
<1>2. Stored' = Stored /\ Owners' = Owners
  BY DEF Stored, Owners
<1>3. r \in Owners => pc[r] \in OwnerLabels
  BY DEF StoreInv, OwnerInv, OwnerLabels, Owners
<1>4. pc[r] \in Holding => r \notin Owners
  BY <1>3 DEF Holding, OwnerLabels
<1>. QED BY <1>1, <1>2, <1>3, <1>4 DEF Units

\* Storing a scan turns a charged unit into a spent one.
LEMMA InsertUnits ==
    ASSUME StoreInv, NEW r \in Requests, pc[r] = "insert", scans[clientId[r]] = NoOne,
           scans' = [scans EXCEPT ![clientId[r]] = r], Goto(r, "enqueue")
    PROVE  r \in Units /\ r \notin Owners /\ Units' = Units
<1>1. \A q \in Requests : pc'[q] = IF q = r THEN "enqueue" ELSE pc[q]
  BY DEF Goto, StoreInv, TypeOK
<1>2. r \notin Owners
  BY DEF StoreInv, OwnerInv, Owners
<1>3. clientId[r] \in ClientIds /\ r # NoOne
  BY QuotaAssumption DEF StoreInv, TypeOK
<1>4. \A c \in ClientIds : scans'[c] = IF c = clientId[r] THEN r ELSE scans[c]
  BY DEF StoreInv, TypeOK
<1>5. Stored' = Stored \cup {clientId[r]} /\ clientId[r] \notin Stored
  BY <1>3, <1>4 DEF Stored
<1>6. Owners' = Owners \cup {r}
  <2>1. \A c \in Stored : scans'[c] = scans[c]
    BY <1>4, <1>5 DEF Stored
  <2>2. scans'[clientId[r]] = r
    BY <1>3, <1>4
  <2>. QED BY <1>5, <2>1, <2>2 DEF Owners
<1>7. r \in Units /\ "enqueue" \notin Holding
  BY DEF Units, Holding
<1>. QED BY <1>1, <1>2, <1>6, <1>7 DEF Units

-----------------------------------------------------------------------------
(* The quota while refills run alone.                                      *)

RoomInv == RefillInv /\ SeedInv /\ CoverInv /\ BoundInv

\* A step of r that leaves the hash alone, starts no refill and charges no unit.
LEMMA CalmMove ==
    ASSUME QuotaInv, NEW r \in Requests, NEW label, Goto(r, label),
           UNCHANGED <<scans, hash, overlapped, seen>>,
           label \notin Refill, label \in Holding => pc[r] \in Holding
    PROVE  RoomInv'
<1>. USE DEF QuotaInv
<1>1. \A q \in Requests : pc'[q] = IF q = r THEN label ELSE pc[q]
  BY DEF Goto, StoreInv, TypeOK
<1>2. RefillInv'
  BY <1>1 DEF RefillInv
<1>3. Stored' = Stored /\ Units' \subseteq Units
  BY MoveUnits
<1>4. SeedInv'
  BY <1>1, <1>3 DEF SeedInv, Refill
<1>5. Cardinality(Units') <= Cardinality(Units) /\ Cardinality(Units') \in Nat
  BY <1>3, UnitsFinite, FS_Subset, FS_CardinalityType DEF StoreInv
<1>6. CoverInv' /\ BoundInv'
  BY <1>5, UnitsFinite, QuotaAssumption DEF CoverInv, BoundInv, StoreInv, TypeOK
<1>. QED BY <1>2, <1>4, <1>6 DEF RoomInv

\* A step inside a refill: the hash, the units and the stored scans stay.
LEMMA RefillMove ==
    ASSUME QuotaInv, NEW r \in Requests, NEW label \in Refill, Goto(r, label),
           pc[r] \in Refill, UNCHANGED <<scans, hash, overlapped>>,
           label = "writeHash" => Cardinality(Stored) <= seen'[r]
    PROVE  RoomInv'
<1>. USE DEF QuotaInv
<1>1. \A q \in Requests : pc'[q] = IF q = r THEN label ELSE pc[q]
  BY DEF Goto, StoreInv, TypeOK
<1>2. RefillInv'
  BY <1>1 DEF RefillInv
<1>3. Stored' = Stored /\ Units' = Units
  BY MoveUnits DEF Refill, Holding
<1>4. SeedInv'
  <2>. SUFFICES ASSUME ~overlapped, NEW q \in Requests, pc'[q] = "writeHash"
                PROVE  Cardinality(Stored) <= seen'[q]
    BY <1>3 DEF SeedInv
  <2>1. CASE q = r
    BY <1>1, <2>1
  <2>2. CASE q # r
    BY <1>1, <2>2 DEF RefillInv, Refill
  <2>. QED BY <2>1, <2>2
<1>5. CoverInv' /\ BoundInv'
  BY <1>3 DEF CoverInv, BoundInv
<1>. QED BY <1>2, <1>4, <1>5 DEF RoomInv

\* Losing or deleting the hash cannot break anything: nobody charges without it.
LEMMA DropHash ==
    ASSUME QuotaInv, hash' = NoHash, UNCHANGED <<scans, pc, seen, overlapped>>
    PROVE  RoomInv'
<1>1. Stored' = Stored /\ Units' = Units
  BY DEF Stored, Units, Owners
<1>. QED BY <1>1 DEF QuotaInv, RoomInv, RefillInv, SeedInv, CoverInv, BoundInv, NoHash

\* No scan, no unit and no refill to begin with.
LEMMA QuotaInit == Init => QuotaInv
<1>. SUFFICES ASSUME Init PROVE RoomInv
  BY StoreInit DEF QuotaInv, RoomInv
<1>1. \A r \in Requests : pc[r] = "new"
  BY DEF Init
<1>2. Units = {}
  BY <1>1 DEF Init, Units, Owners, Stored, Holding
<1>3. Cardinality(Units) = 0
  BY <1>2, FS_EmptySet
<1>4. hash.used = 0
  BY DEF Init, NoHash
<1>. QED BY <1>1, <1>3, <1>4, QuotaAssumption
         DEF RoomInv, RefillInv, SeedInv, CoverInv, BoundInv, Refill

\* Every step keeps the quota: the limit test guards the counter, the counter
\* covers the units, and a refill that runs alone writes back a covering count.
LEMMA QuotaNext == QuotaInv /\ [Next]_vars => QuotaInv'
<1>. SUFFICES ASSUME QuotaInv, [Next]_vars PROVE RoomInv'
  BY StoreNext DEF QuotaInv, RoomInv
<1>. USE DEF QuotaInv
<1>0. ASSUME UNCHANGED <<hash, scans, pc, seen, overlapped>> PROVE RoomInv'
  <2>1. Stored' = Stored /\ Units' = Units
    BY <1>0 DEF Stored, Units, Owners
  <2>. QED BY <1>0, <2>1 DEF RoomInv, RefillInv, SeedInv, CoverInv, BoundInv
<1>1. CASE UNCHANGED vars
  BY <1>0, <1>1 DEF vars, history
<1>2. ASSUME NEW r \in Requests, Call(r) PROVE RoomInv'
  <2>. USE DEF period, worker, history
  <2>0. /\ Cardinality(Units) \in Nat /\ IsFiniteSet(Units)
        /\ Cardinality(Stored) \in Nat /\ TypeOK
    BY UnitsFinite DEF StoreInv
  <2>1. CASE ReserveUnit(r)
    <3>1. pc[r] \in {"new", "retry"} /\ Goto(r, "lookup") /\ hash.live /\ HasRoom(hash.used)
      BY <2>1 DEF ReserveUnit
    <3>2. hash'.live = hash.live /\ hash'.used = hash.used + 1
      BY <2>0, <2>1 DEF ReserveUnit, TypeOK
    <3>3. UNCHANGED <<scans, seen, overlapped>>
      BY <2>1 DEF ReserveUnit
    <3>4. \A q \in Requests : pc'[q] = IF q = r THEN "lookup" ELSE pc[q]
      BY <2>0, <3>1 DEF Goto, TypeOK
    <3>5. Stored' = Stored /\ Units' = Units \cup {r} /\ r \notin Units
      BY <3>1, <3>3, MoveUnits DEF Holding, OwnerLabels
    <3>6. Cardinality(Units') = Cardinality(Units) + 1
      BY <2>0, <3>5, FS_AddElement
    <3>7. RefillInv' /\ SeedInv'
      BY <3>1, <3>3, <3>4, <3>5 DEF RefillInv, SeedInv, Refill
    <3>8. CoverInv' /\ BoundInv'
      BY <2>0, <3>1, <3>2, <3>3, <3>6, QuotaAssumption
         DEF CoverInv, BoundInv, HasRoom, TypeOK
    <3>. QED BY <3>7, <3>8 DEF RoomInv
  <2>2. CASE ReserveDenied(r)
    <3>1. PICK label \in {"subscription_expired", "quota_exceeded"} : Goto(r, label)
      BY <2>2 DEF ReserveDenied
    <3>. QED BY <2>2, <3>1, CalmMove DEF ReserveDenied, Refill, Holding
  <2>3. CASE ReserveMiss(r)
    <3>1. pc[r] = "new" /\ ~hash.live /\ Goto(r, "readSub") /\ UNCHANGED <<hash, scans, seen>>
      BY <2>3 DEF ReserveMiss
    <3>2. ~overlapped' => ~overlapped /\ \A q \in Requests \ {r} : pc[q] \notin Refill \cup Holding
      BY <2>3 DEF ReserveMiss
    <3>3. \A q \in Requests : pc'[q] = IF q = r THEN "readSub" ELSE pc[q]
      BY <2>0, <3>1 DEF Goto, TypeOK
    <3>4. Stored' = Stored /\ Units' = Units
      BY <3>1, MoveUnits DEF Holding
    <3>5. RefillInv' /\ SeedInv'
      BY <3>1, <3>2, <3>3, <3>4 DEF RefillInv, SeedInv
    <3>6. CoverInv' /\ BoundInv'
      BY <3>1, <3>2, <3>4 DEF CoverInv, BoundInv
    <3>. QED BY <3>5, <3>6 DEF RoomInv
  <2>4. CASE ReserveMissAgain(r)
    BY <2>4, CalmMove DEF ReserveMissAgain, Refill, Holding
  <2>5. CASE ReserveDown(r)
    BY <2>5, CalmMove DEF ReserveDown, Refill, Holding
  <2>6. CASE ReadSub(r)
    <3>1. CASE active
      BY <2>6, <3>1, RefillMove DEF ReadSub, Refill
    <3>2. CASE ~active
      BY <2>6, <3>2, CalmMove DEF ReadSub, Refill, Holding
    <3>. QED BY <3>1, <3>2
  <2>7. CASE ReadUsage(r)
    BY <2>7, RefillMove DEF ReadUsage, Refill
  <2>8. CASE CountScans(r)
    <3>1. Cardinality(Stored) <= seen'[r]
      BY <2>0, <2>8 DEF CountScans, Seed, Larger, TypeOK
    <3>. QED BY <2>8, <3>1, RefillMove DEF CountScans, Refill
  <2>9. CASE WriteHash(r)
    <3>1. pc[r] = "writeHash" /\ Goto(r, "retry") /\ UNCHANGED <<scans, overlapped>>
      BY <2>9 DEF WriteHash
    <3>2. \A q \in Requests : pc'[q] = IF q = r THEN "retry" ELSE pc[q]
      BY <2>0, <3>1 DEF Goto, TypeOK
    <3>3. Stored' = Stored /\ Units' = Units
      BY <3>1, MoveUnits DEF Holding
    <3>4. ~overlapped => \A q \in Requests : q # r => pc[q] \notin Refill \cup Holding
      BY <3>1 DEF RefillInv, Refill
    <3>5. RefillInv' /\ SeedInv' /\ BoundInv'
      BY <3>1, <3>2, <3>3, <3>4 DEF RefillInv, SeedInv, BoundInv, Refill
    <3>6. ~overlapped => Units = Owners
      BY <3>1, <3>4 DEF Units, Holding
    <3>7. ~overlapped => Cardinality(Units) <= Cardinality(Stored) /\ Cardinality(Stored) <= seen[r]
      BY <2>0, <3>1, <3>6, OwnersAtMostStored DEF SeedInv
    <3>8. CoverInv'
      <4>1. CASE hash' = [live |-> TRUE, used |-> seen[r]]
        BY <2>0, <3>1, <3>3, <3>7, <4>1 DEF CoverInv, TypeOK
      <4>2. CASE UNCHANGED hash
        BY <3>1, <3>3, <4>2 DEF CoverInv
      <4>. QED BY <2>9, <4>1, <4>2 DEF WriteHash
    <3>. QED BY <3>5, <3>8 DEF RoomInv
  <2>10. CASE Lookup(r)
    <3>1. PICK label \in {"insert", "release"} : Goto(r, label)
      BY <2>10 DEF Lookup
    <3>. QED BY <2>10, <3>1, CalmMove DEF Lookup, Refill, Holding
  <2>11. CASE Insert(r)
    <3>1. CASE scans[clientId[r]] = NoOne
      <4>1. /\ pc[r] = "insert" /\ Goto(r, "enqueue")
            /\ scans' = [scans EXCEPT ![clientId[r]] = r]
            /\ UNCHANGED <<hash, seen, overlapped>>
        BY <2>11, <3>1 DEF Insert
      <4>2. Units' = Units
        BY <3>1, <4>1, InsertUnits
      <4>3. \A q \in Requests : pc'[q] = IF q = r THEN "enqueue" ELSE pc[q]
        BY <2>0, <4>1 DEF Goto, TypeOK
      <4>4. ~overlapped => \A q \in Requests : pc[q] \notin Refill
        BY <4>1 DEF RefillInv, Refill, Holding
      <4>5. RefillInv' /\ SeedInv'
        BY <4>1, <4>3, <4>4 DEF RefillInv, SeedInv, Refill
      <4>6. CoverInv' /\ BoundInv'
        BY <4>1, <4>2 DEF CoverInv, BoundInv
      <4>. QED BY <4>5, <4>6 DEF RoomInv
    <3>2. CASE scans[clientId[r]] # NoOne
      BY <2>11, <3>2, CalmMove DEF Insert, Refill, Holding
    <3>. QED BY <3>1, <3>2
  <2>12. CASE StoreFails(r)
    BY <2>12, CalmMove DEF StoreFails, Refill, Holding
  <2>13. CASE Release(r)
    <3>1. /\ pc[r] = "release" /\ Goto(r, "duplicate")
          /\ UNCHANGED <<scans, seen, overlapped>> /\ hash' = Released(hash)
      BY <2>13 DEF Release
    <3>2. \A q \in Requests : pc'[q] = IF q = r THEN "duplicate" ELSE pc[q]
      BY <2>0, <3>1 DEF Goto, TypeOK
    <3>3. Stored' = Stored /\ r \in Units /\ Units' = Units \ {r}
      BY <3>1, MoveUnits DEF Holding
    <3>4. Cardinality(Units') = Cardinality(Units) - 1
      BY <2>0, <3>3, FS_RemoveElement
    <3>5. /\ hash'.live = hash.live
          /\ hash'.used = hash.used \/ hash'.used = hash.used - 1
      <4>1. CASE hash.live /\ hash.used > 0
        <5>1. hash' = [hash EXCEPT !.used = @ - 1]
          BY <3>1, <4>1 DEF Released
        <5>. QED BY <2>0, <4>1, <5>1 DEF TypeOK
      <4>2. CASE ~(hash.live /\ hash.used > 0)
        BY <3>1, <4>2 DEF Released
      <4>. QED BY <4>1, <4>2
    <3>6. RefillInv' /\ SeedInv'
      <4>1. ~overlapped => \A q \in Requests : pc[q] \notin Refill
        BY <3>1 DEF RefillInv, Refill, Holding
      <4>. QED BY <3>1, <3>2, <4>1 DEF RefillInv, SeedInv, Refill
    <3>7. CoverInv' /\ BoundInv'
      BY <2>0, <3>1, <3>4, <3>5, QuotaAssumption DEF CoverInv, BoundInv, TypeOK
    <3>. QED BY <3>6, <3>7 DEF RoomInv
  <2>14. CASE ReleaseLost(r)
    BY <2>14, CalmMove DEF ReleaseLost, Refill, Holding
  <2>15. CASE Enqueue(r)
    <3>1. PICK label \in {"accepted", "failed"} : Goto(r, label)
      BY <2>15 DEF Enqueue
    <3>. QED BY <2>15, <3>1, CalmMove DEF Enqueue, Refill, Holding
  <2>. QED BY <1>2, <2>1, <2>2, <2>3, <2>4, <2>5, <2>6, <2>7, <2>8, <2>9, <2>10,
              <2>11, <2>12, <2>13, <2>14, <2>15 DEF Call
<1>3. ASSUME NEW r \in Requests, Crash(r) PROVE RoomInv'
  BY <1>3, CalmMove DEF Crash, Refill, Holding
<1>4. CASE Worker
  <2>1. CASE ExpiryDrop
    <3>1. CASE hash' = NoHash
      BY <2>1, <3>1, DropHash DEF ExpiryDrop
    <3>2. CASE UNCHANGED hash
      BY <1>0, <2>1, <3>2 DEF ExpiryDrop
    <3>. QED BY <2>1, <3>1, <3>2 DEF ExpiryDrop
  <2>2. CASE ~ExpiryDrop
    BY <1>0, <1>4, <2>2 DEF Worker, ReconcileFind, ReconcileRead, ReconcileWrite,
                    ExpiryRead, ExpiryFlush, ExpirySave, history
  <2>. QED BY <2>1, <2>2
<1>5. CASE WorkerCrash
  BY <1>0, <1>5 DEF WorkerCrash, history
<1>6. CASE Lapse
  BY <1>0, <1>6 DEF Lapse, history
<1>7. CASE LoseHash
  BY <1>7, DropHash DEF LoseHash
<1>. QED BY <1>1, <1>2, <1>3, <1>4, <1>5, <1>6, <1>7 DEF Next

\* Concurrent calls never store or charge more than the limit as long as no
\* refill of the hash overlaps a charge or another refill.
THEOREM QuotaCorrect == Spec => []NoOvershootWithoutOverlap
<1>1. QuotaInv => NoOvershootWithoutOverlap
  <2>. SUFFICES ASSUME QuotaInv, ~overlapped, Limit # 0
                PROVE  Cardinality(Stored) <= Limit /\ Cardinality(Units) <= Limit
    BY DEF NoOvershootWithoutOverlap
  <2>1. Cardinality(Units) <= Limit /\ Cardinality(Stored) <= Cardinality(Units)
    BY StoredAtMostUnits DEF QuotaInv, BoundInv
  <2>. QED BY <2>1, UnitsFinite, QuotaAssumption DEF QuotaInv, StoreInv
<1>. QED BY <1>1, QuotaInit, QuotaNext, PTL DEF Spec

-----------------------------------------------------------------------------
(* Exact counting while the hash stays warm.                               *)

\* Only a call that ends leaves a unit behind, and it ends once.
LEMMA MoveLeaks ==
    ASSUME CountInv, NEW r \in Requests, NEW label, Goto(r, label), pc[r] \in Running,
           leaked' = leaked \/ (leaked' = leaked \cup {r} /\ label \in Finished)
    PROVE  LeakInv' /\ r \notin leaked /\ IsFiniteSet(leaked) /\ Cardinality(leaked) \in Nat
<1>1. r \notin leaked
  BY DEF CountInv, LeakInv, Running, Finished, Answers, Denied, Refill, Holding
<1>2. \A q \in Requests : pc'[q] = IF q = r THEN label ELSE pc[q]
  BY DEF Goto, CountInv, StoreInv, TypeOK
<1>3. leaked \subseteq Requests
  BY DEF CountInv, StoreInv, TypeOK
<1>4. LeakInv'
  BY <1>1, <1>2, <1>3 DEF CountInv, LeakInv
<1>. QED BY <1>1, <1>3, <1>4, FS_Subset, FS_CardinalityType, QuotaAssumption

\* A step that neither charges, releases nor leaks.
LEMMA EvenMove ==
    ASSUME CountInv, NEW r \in Requests, NEW label, Goto(r, label),
           UNCHANGED <<hash, scans, cold, leaked>>, pc[r] \in Running,
           pc[r] \in Holding <=> label \in Holding, label \notin Refill
    PROVE  LeakInv' /\ WarmInv'
<1>1. \A q \in Requests : pc'[q] = IF q = r THEN label ELSE pc[q]
  BY DEF Goto, CountInv, StoreInv, TypeOK
<1>2. Units' = Units
  BY MoveUnits DEF CountInv
<1>3. WarmInv'
  BY <1>1, <1>2 DEF CountInv, WarmInv
<1>. QED BY <1>3, MoveLeaks

\* A step inside a refill: the hash was missing once already.
LEMMA ColdMove ==
    ASSUME CountInv, NEW r \in Requests, NEW label, Goto(r, label), pc[r] \in Running,
           ~hash.live \/ pc[r] \in Refill, UNCHANGED <<cold, leaked>>
    PROVE  LeakInv' /\ WarmInv'
<1>1. cold
  BY DEF CountInv, WarmInv, StoreInv, TypeOK
<1>. QED BY <1>1, MoveLeaks DEF WarmInv

\* A call that ends while charging leaves its unit in leaked.
LEMMA LeakMove ==
    ASSUME CountInv, NEW r \in Requests, NEW label \in Finished, Goto(r, label),
           pc[r] \in Holding, UNCHANGED <<hash, scans, cold>>, leaked' = leaked \cup {r}
    PROVE  LeakInv' /\ WarmInv'
<1>1. pc[r] \in Running
  BY DEF Running
<1>2. /\ LeakInv' /\ r \notin leaked
      /\ IsFiniteSet(leaked) /\ Cardinality(leaked) \in Nat
  BY <1>1, MoveLeaks
<1>3. Cardinality(leaked') = Cardinality(leaked) + 1
  BY <1>2, FS_AddElement
<1>4. r \in Units /\ Units' = Units \ {r}
  BY MoveUnits DEF CountInv, Finished, Answers, Denied, Holding
<1>5. /\ Cardinality(Units') = Cardinality(Units) - 1
      /\ Cardinality(Units) \in Nat
  BY <1>4, UnitsFinite, FS_RemoveElement DEF CountInv, StoreInv
<1>6. \A q \in Requests : pc'[q] = IF q = r THEN label ELSE pc[q]
  BY DEF Goto, CountInv, StoreInv, TypeOK
<1>7. label \notin Refill
  BY DEF Finished, Answers, Denied, Refill
<1>8. ~cold => /\ hash.live /\ \A q \in Requests : pc'[q] \notin Refill
               /\ hash.used = Cardinality(Units) + Cardinality(leaked)
  BY <1>6, <1>7 DEF CountInv, WarmInv
<1>9. WarmInv'
  BY <1>2, <1>3, <1>5, <1>8 DEF WarmInv
<1>. QED BY <1>2, <1>9

\* The counter starts at zero with no unit and no leak.
LEMMA CountInit == Init => CountInv
<1>. SUFFICES ASSUME Init PROVE LeakInv /\ WarmInv
  BY StoreInit DEF CountInv
<1>1. \A r \in Requests : pc[r] = "new"
  BY DEF Init
<1>2. Units = {} /\ leaked = {}
  BY <1>1 DEF Init, Units, Owners, Stored, Holding
<1>3. Cardinality(Units) = 0 /\ Cardinality(leaked) = 0
  BY <1>2, FS_EmptySet
<1>4. ~cold => hash.live /\ hash.used = 0
  BY DEF Init
<1>. QED BY <1>1, <1>2, <1>3, <1>4 DEF LeakInv, WarmInv, Refill

\* Every step counts what it charges, releases or leaves behind.
LEMMA CountNext == CountInv /\ [Next]_vars => CountInv'
<1>. SUFFICES ASSUME CountInv, [Next]_vars PROVE LeakInv' /\ WarmInv'
  BY StoreNext DEF CountInv
<1>0. ASSUME UNCHANGED <<hash, scans, pc, cold, leaked>> PROVE LeakInv' /\ WarmInv'
  <2>1. Units' = Units
    BY <1>0 DEF Stored, Units, Owners
  <2>. QED BY <1>0, <2>1 DEF CountInv, LeakInv, WarmInv
<1>1. CASE UNCHANGED vars
  BY <1>0, <1>1 DEF vars, history
<1>2. ASSUME NEW r \in Requests, Call(r) PROVE LeakInv' /\ WarmInv'
  <2>. USE DEF period, worker, history, Running
  <2>0. TypeOK
    BY DEF CountInv, StoreInv
  <2>1. CASE ReserveUnit(r)
    <3>1. pc[r] \in {"new", "retry"} /\ Goto(r, "lookup") /\ UNCHANGED <<scans, cold, leaked>>
      BY <2>1 DEF ReserveUnit
    <3>2. hash'.live = hash.live /\ hash'.used = hash.used + 1
      BY <2>0, <2>1 DEF ReserveUnit, TypeOK
    <3>3. Units' = Units \cup {r} /\ r \notin Units
      BY <3>1, MoveUnits DEF CountInv, Holding, OwnerLabels
    <3>4. /\ Cardinality(Units') = Cardinality(Units) + 1
          /\ Cardinality(Units) \in Nat
      BY <2>0, <3>3, UnitsFinite, FS_AddElement
    <3>5. LeakInv' /\ Cardinality(leaked) \in Nat
      BY <3>1, MoveLeaks
    <3>6. \A q \in Requests : pc'[q] = IF q = r THEN "lookup" ELSE pc[q]
      BY <2>0, <3>1 DEF Goto, TypeOK
    <3>7. ~cold => /\ hash'.live /\ \A q \in Requests : pc'[q] \notin Refill
                   /\ hash.used = Cardinality(Units) + Cardinality(leaked)
      BY <3>2, <3>6 DEF CountInv, WarmInv, Refill
    <3>8. WarmInv'
      BY <3>1, <3>2, <3>4, <3>5, <3>7 DEF WarmInv
    <3>. QED BY <3>5, <3>8
  <2>2. CASE ReserveDenied(r)
    <3>1. PICK label \in {"subscription_expired", "quota_exceeded"} : Goto(r, label)
      BY <2>2 DEF ReserveDenied
    <3>. QED BY <2>2, <3>1, EvenMove DEF ReserveDenied, Refill, Holding
  <2>3. CASE ReserveMiss(r)
    BY <2>3, ColdMove DEF ReserveMiss
  <2>4. CASE ReserveMissAgain(r)
    BY <2>4, EvenMove DEF ReserveMissAgain, Refill, Holding
  <2>5. CASE ReserveDown(r)
    BY <2>5, EvenMove DEF ReserveDown, Refill, Holding
  <2>6. CASE ReadSub(r)
    <3>1. PICK label \in {"readUsage", "no_active_subscription"} : Goto(r, label)
      BY <2>6 DEF ReadSub
    <3>. QED BY <2>6, <3>1, ColdMove DEF ReadSub, Refill
  <2>7. CASE ReadUsage(r)
    BY <2>7, ColdMove DEF ReadUsage, Refill
  <2>8. CASE CountScans(r)
    BY <2>8, ColdMove DEF CountScans, Refill
  <2>9. CASE WriteHash(r)
    BY <2>9, ColdMove DEF WriteHash, Refill
  <2>10. CASE Lookup(r)
    <3>1. PICK label \in {"insert", "release"} : Goto(r, label)
      BY <2>10 DEF Lookup
    <3>. QED BY <2>10, <3>1, EvenMove DEF Lookup, Refill, Holding
  <2>11. CASE Insert(r)
    <3>1. CASE scans[clientId[r]] = NoOne
      <4>1. /\ pc[r] = "insert" /\ Goto(r, "enqueue")
            /\ scans' = [scans EXCEPT ![clientId[r]] = r]
            /\ UNCHANGED <<hash, cold, leaked>>
        BY <2>11, <3>1 DEF Insert
      <4>2. Units' = Units
        BY <3>1, <4>1, InsertUnits DEF CountInv
      <4>3. LeakInv'
        BY <4>1, MoveLeaks DEF Holding
      <4>4. \A q \in Requests : pc'[q] = IF q = r THEN "enqueue" ELSE pc[q]
        BY <2>0, <4>1 DEF Goto, TypeOK
      <4>5. WarmInv'
        BY <4>1, <4>2, <4>4 DEF CountInv, WarmInv, Refill
      <4>. QED BY <4>3, <4>5
    <3>2. CASE scans[clientId[r]] # NoOne
      BY <2>11, <3>2, EvenMove DEF Insert, Refill, Holding
    <3>. QED BY <3>1, <3>2
  <2>12. CASE StoreFails(r)
    BY <2>12, LeakMove DEF StoreFails, Holding, Finished, Answers
  <2>13. CASE Release(r)
    <3>1. /\ pc[r] = "release" /\ Goto(r, "duplicate")
          /\ UNCHANGED <<scans, cold, leaked>> /\ hash' = Released(hash)
      BY <2>13 DEF Release
    <3>2. r \in Units /\ Units' = Units \ {r}
      BY <3>1, MoveUnits DEF CountInv, Holding
    <3>3. /\ Cardinality(Units') = Cardinality(Units) - 1
          /\ Cardinality(Units) \in Nat /\ Cardinality(Units') \in Nat
      BY <2>0, <3>2, UnitsFinite, FS_RemoveElement, FS_CardinalityType
    <3>4. LeakInv' /\ Cardinality(leaked) \in Nat
      BY <3>1, MoveLeaks DEF Holding
    <3>5. \A q \in Requests : pc'[q] = IF q = r THEN "duplicate" ELSE pc[q]
      BY <2>0, <3>1 DEF Goto, TypeOK
    <3>6. ~cold => /\ hash.live /\ \A q \in Requests : pc'[q] \notin Refill
                   /\ hash.used = Cardinality(Units) + Cardinality(leaked)
      BY <3>5 DEF CountInv, WarmInv, Refill
    <3>7. hash.live /\ hash.used > 0 => hash'.live /\ hash'.used = hash.used - 1
      <4>1. SUFFICES ASSUME hash.live, hash.used > 0
                     PROVE  hash'.live /\ hash'.used = hash.used - 1
        OBVIOUS
      <4>2. hash' = [hash EXCEPT !.used = @ - 1]
        BY <3>1, <4>1 DEF Released
      <4>. QED BY <2>0, <4>1, <4>2 DEF TypeOK
    <3>8. WarmInv'
      BY <3>1, <3>3, <3>4, <3>6, <3>7 DEF WarmInv
    <3>. QED BY <3>4, <3>8
  <2>14. CASE ReleaseLost(r)
    BY <2>14, LeakMove DEF ReleaseLost, Holding, Finished, Answers
  <2>15. CASE Enqueue(r)
    <3>1. PICK label \in {"accepted", "failed"} : Goto(r, label)
      BY <2>15 DEF Enqueue
    <3>. QED BY <2>15, <3>1, EvenMove DEF Enqueue, Refill, Holding
  <2>. QED BY <1>2, <2>1, <2>2, <2>3, <2>4, <2>5, <2>6, <2>7, <2>8, <2>9, <2>10,
              <2>11, <2>12, <2>13, <2>14, <2>15 DEF Call
<1>3. ASSUME NEW r \in Requests, Crash(r) PROVE LeakInv' /\ WarmInv'
  <2>1. CASE pc[r] \in Holding
    BY <1>3, <2>1, LeakMove DEF Crash, Finished
  <2>2. CASE pc[r] \notin Holding
    BY <1>3, <2>2, EvenMove DEF Crash, Holding, Refill
  <2>. QED BY <2>1, <2>2
<1>4. CASE Worker
  <2>1. CASE ExpiryDrop
    <3>1. CASE cold'
      BY <2>1, <3>1 DEF ExpiryDrop, CountInv, LeakInv, WarmInv
    <3>2. CASE UNCHANGED <<hash, cold>>
      BY <1>0, <2>1, <3>2 DEF ExpiryDrop
    <3>. QED BY <2>1, <3>1, <3>2 DEF ExpiryDrop
  <2>2. CASE ~ExpiryDrop
    BY <1>0, <1>4, <2>2 DEF Worker, ReconcileFind, ReconcileRead, ReconcileWrite,
                    ExpiryRead, ExpiryFlush, ExpirySave, history
  <2>. QED BY <2>1, <2>2
<1>5. CASE WorkerCrash
  BY <1>0, <1>5 DEF WorkerCrash, history
<1>6. CASE Lapse
  BY <1>0, <1>6 DEF Lapse, history
<1>7. CASE LoseHash
  BY <1>7 DEF LoseHash, CountInv, LeakInv, WarmInv
<1>. QED BY <1>1, <1>2, <1>3, <1>4, <1>5, <1>6, <1>7 DEF Next

\* While Redis keeps the hash the counter is exact: charging calls, stored
\* scans and the units that failed or crashed calls left behind.
THEOREM CountCorrect == Spec => []ExactWhileWarm
<1>1. CountInv => ExactWhileWarm
  BY DEF CountInv, WarmInv, ExactWhileWarm
<1>. QED BY <1>1, CountInit, CountNext, PTL DEF Spec

-----------------------------------------------------------------------------
(* The refinement.                                                         *)

PermitStep == [overlapped' \/ Permits!Next]_<<Units, scans>>

\* The pool counts as this module counts.
LEMMA SameCardinality == \A S : Permits!Cardinality(S) = Cardinality(S)
  BY DEF Permits!Cardinality, Cardinality

\* A step of r that stores nothing and charges nothing gives back r's permit
\* or leaves the pool alone.
LEMMA MovePermits ==
    ASSUME StoreInv, NEW r \in Requests, NEW label, Goto(r, label), UNCHANGED scans,
           label \in Holding => pc[r] \in Holding
    PROVE  PermitStep
<1>1. CASE pc[r] \in Holding /\ label \notin Holding
  <2>1. r \in Units \ Owners /\ Units' = Units \ {r}
    BY <1>1, MoveUnits
  <2>2. Permits!GiveBack(r)
    BY <2>1 DEF Permits!GiveBack, Permits!Spent, Owners, Stored
  <2>. QED BY <2>2 DEF PermitStep, Permits!Next
<1>2. CASE pc[r] \in Holding <=> label \in Holding
  BY <1>2, MoveUnits DEF PermitStep
<1>. QED BY <1>1, <1>2

\* Every step takes, gives back or spends one permit, or changes nothing the
\* pool can see.
LEMMA PermitNext == QuotaInv /\ [Next]_vars => PermitStep
<1>. SUFFICES ASSUME QuotaInv, [Next]_vars PROVE PermitStep
  OBVIOUS
<1>. USE DEF QuotaInv
<1>0. ASSUME UNCHANGED <<pc, scans>> PROVE PermitStep
  BY <1>0 DEF PermitStep, Units, Owners, Stored
<1>1. CASE UNCHANGED vars
  BY <1>0, <1>1 DEF vars
<1>2. ASSUME NEW r \in Requests, Call(r) PROVE PermitStep
  <2>. USE DEF period, worker, history, Refill, Holding
  <2>0. Cardinality(Units) \in Nat /\ TypeOK
    BY UnitsFinite DEF StoreInv
  <2>1. CASE ReserveUnit(r)
    <3>1. /\ pc[r] \in {"new", "retry"} /\ Goto(r, "lookup")
          /\ hash.live /\ HasRoom(hash.used) /\ UNCHANGED <<scans, overlapped>>
      BY <2>1 DEF ReserveUnit
    <3>2. Units' = Units \cup {r} /\ r \notin Units
      BY <3>1, MoveUnits DEF OwnerLabels
    <3>3. ~overlapped /\ Limit # 0 => Cardinality(Units) < Limit
      <4>1. hash.used \in Nat /\ (Limit # 0 => hash.used + 1 <= Limit)
        BY <2>0, <3>1 DEF HasRoom, TypeOK
      <4>2. ~overlapped => Cardinality(Units) <= hash.used
        BY <3>1 DEF CoverInv
      <4>. QED BY <2>0, <4>1, <4>2, QuotaAssumption
    <3>4. ~overlapped' => Permits!Take(r)
      BY <3>1, <3>2, <3>3, SameCardinality DEF Permits!Take
    <3>. QED BY <3>4 DEF PermitStep, Permits!Next
  <2>2. CASE ReserveDenied(r)
    <3>1. PICK label \in {"subscription_expired", "quota_exceeded"} : Goto(r, label)
      BY <2>2 DEF ReserveDenied
    <3>. QED BY <2>2, <3>1, MovePermits DEF ReserveDenied
  <2>3. CASE ReserveMiss(r)
    BY <2>3, MovePermits DEF ReserveMiss
  <2>4. CASE ReserveMissAgain(r)
    BY <2>4, MovePermits DEF ReserveMissAgain
  <2>5. CASE ReserveDown(r)
    BY <2>5, MovePermits DEF ReserveDown
  <2>6. CASE ReadSub(r)
    <3>1. PICK label \in {"readUsage", "no_active_subscription"} : Goto(r, label)
      BY <2>6 DEF ReadSub
    <3>. QED BY <2>6, <3>1, MovePermits DEF ReadSub
  <2>7. CASE ReadUsage(r)
    BY <2>7, MovePermits DEF ReadUsage
  <2>8. CASE CountScans(r)
    BY <2>8, MovePermits DEF CountScans
  <2>9. CASE WriteHash(r)
    BY <2>9, MovePermits DEF WriteHash
  <2>10. CASE Lookup(r)
    <3>1. PICK label \in {"insert", "release"} : Goto(r, label)
      BY <2>10 DEF Lookup
    <3>. QED BY <2>10, <3>1, MovePermits DEF Lookup
  <2>11. CASE Insert(r)
    <3>1. CASE scans[clientId[r]] = NoOne
      <4>1. /\ pc[r] = "insert" /\ Goto(r, "enqueue")
            /\ scans' = [scans EXCEPT ![clientId[r]] = r]
        BY <2>11, <3>1 DEF Insert
      <4>2. r \in Units \ Owners /\ Units' = Units
        BY <3>1, <4>1, InsertUnits
      <4>3. Permits!Spend(r, clientId[r]) /\ clientId[r] \in ClientIds
        BY <2>0, <3>1, <4>1, <4>2
           DEF Permits!Spend, Permits!Spent, Owners, Stored, TypeOK
      <4>. QED BY <4>3 DEF PermitStep, Permits!Next
    <3>2. CASE scans[clientId[r]] # NoOne
      BY <2>11, <3>2, MovePermits DEF Insert
    <3>. QED BY <3>1, <3>2
  <2>12. CASE StoreFails(r)
    BY <2>12, MovePermits DEF StoreFails
  <2>13. CASE Release(r)
    BY <2>13, MovePermits DEF Release
  <2>14. CASE ReleaseLost(r)
    BY <2>14, MovePermits DEF ReleaseLost
  <2>15. CASE Enqueue(r)
    <3>1. PICK label \in {"accepted", "failed"} : Goto(r, label)
      BY <2>15 DEF Enqueue
    <3>. QED BY <2>15, <3>1, MovePermits DEF Enqueue
  <2>. QED BY <1>2, <2>1, <2>2, <2>3, <2>4, <2>5, <2>6, <2>7, <2>8, <2>9, <2>10,
              <2>11, <2>12, <2>13, <2>14, <2>15 DEF Call
<1>3. ASSUME NEW r \in Requests, Crash(r) PROVE PermitStep
  BY <1>3, MovePermits DEF Crash, Holding
<1>4. CASE Worker
  BY <1>0, <1>4 DEF Worker, ReconcileFind, ReconcileRead, ReconcileWrite,
                    ExpiryRead, ExpiryFlush, ExpiryDrop, ExpirySave
<1>5. CASE WorkerCrash
  BY <1>0, <1>5 DEF WorkerCrash
<1>6. CASE Lapse
  BY <1>0, <1>6 DEF Lapse
<1>7. CASE LoseHash
  BY <1>0, <1>7 DEF LoseHash
<1>. QED BY <1>1, <1>2, <1>3, <1>4, <1>5, <1>6, <1>7 DEF Next

\* Up to the first overlapping refill the cache, the counter and the worker are
\* together nothing but a pool of Limit permits.
THEOREM Refinement == Spec => ImplementsPermits
<1>1. Init => Permits!Init
  <2>. SUFFICES ASSUME Init PROVE Units = {} /\ scans = [c \in ClientIds |-> NoOne]
    BY DEF Permits!Init
  <2>. QED BY DEF Init, Units, Owners, Stored, Holding
<1>2. QuotaInv /\ [Next]_vars => [overlapped' \/ Permits!Next]_<<Units, scans>>
  BY PermitNext DEF PermitStep
<1>. QED BY <1>1, <1>2, QuotaInit, QuotaNext, PTL DEF Spec, ImplementsPermits
=============================================================================
