----------------------- MODULE WebhookDeliveryProofs ------------------------
(***************************************************************************)
(* Theorems about WebhookDelivery, for any set of rows, any number of      *)
(* flushes, any batch size and any retry limit.                            *)
(*                                                                         *)
(* The inductive invariant has five parts.  Hands says which rows a flush  *)
(* holds at each stage and what it knows of their retry counts, whoever    *)
(* else runs; Exclusion, that at most one flush runs while the lock        *)
(* protects; Protected, what this one flush may rely on; Reasons and       *)
(* Keepers are SettledForAReason and ProcessingIsHeld made inductive.      *)
(***************************************************************************)
EXTENDS WebhookDelivery, TLAPS

\* The stages at which a flush has rows in hand that it must account for.
Carrying == Stages \ {"idle", "find", "unlock"}

\* An idle flush holds nothing; what a flush read of a retry count is not above
\* the count; a batch waiting for markDelivered was answered with 2xx.
Hands ==
    \A f \in Flushers :
        /\ pc[f] \in {"idle", "find"} => held[f] = {}
        /\ \A d \in Deliveries : copy[f][d] <= retries[d]
        /\ pc[f] = "deliver" => held[f] \subseteq acked

\* While the lock protects, one flush runs at most, and the lock key exists.
Exclusion ==
    ~exposed =>
        /\ \A f, g \in Flushers : pc[f] # "idle" /\ pc[g] # "idle" => f = g
        /\ \A f \in Flushers : pc[f] # "idle" => locked

\* While the lock protects, the rows a flush claimed stay 'processing' with the
\* retry count it read, and a pending row has an attempt left.
Protected ==
    ~exposed =>
        /\ \A f \in Flushers :
              pc[f] \in {"config", "post", "deliver", "retry", "abandon"} =>
                  \A d \in held[f] : status[d] = "processing" /\ copy[f][d] = retries[d]
        /\ \A d \in Deliveries : retries[d] <= RetryLimit
        /\ \A d \in Deliveries :
              status[d] \in {"absent", "pending"} => retries[d] < RetryLimit

\* A row that is 'processing' is carried by a flush, or was dropped.
Keepers ==
    \A d \in Deliveries :
        status[d] = "processing" =>
            d \in stranded \/ \E f \in Flushers : pc[f] \in Carrying /\ d \in held[f]

HandsInv     == TypeOK /\ Hands
ProtectedInv == HandsInv /\ Exclusion /\ Protected
ReasonsInv   == HandsInv /\ SettledForAReason
KeepersInv   == HandsInv /\ Keepers

-----------------------------------------------------------------------------
(* Types.                                                                  *)

\* Init establishes the types.
LEMMA TypeInit == Init => TypeOK
<1>. SUFFICES ASSUME Init PROVE TypeOK
  OBVIOUS
<1>1. /\ status \in [Deliveries -> Statuses] /\ retries \in [Deliveries -> Nat]
      /\ pc \in [Flushers -> Stages] /\ held \in [Flushers -> SUBSET Deliveries]
      /\ copy \in [Flushers -> [Deliveries -> Nat]]
  BY DEF Init, Statuses, Stages
<1>2. enabled \in BOOLEAN /\ locked \in BOOLEAN /\ exposed \in BOOLEAN
  BY Zenon DEF Init
<1>3. /\ ripe \in SUBSET Deliveries /\ acked \in SUBSET Deliveries
      /\ refused \in SUBSET Deliveries /\ stranded \in SUBSET Deliveries
  BY DEF Init
<1>. QED BY <1>1, <1>2, <1>3, Zenon DEF TypeOK

\* Every step keeps them.
LEMMA TypeNext == TypeOK /\ [Next]_vars => TypeOK'
<1>. SUFFICES ASSUME TypeOK, [Next]_vars PROVE TypeOK'
  OBVIOUS
<1>. USE WebhookAssumption DEF Goto, rows, flush, history
<1>. USE DEF TypeOK, Statuses, Stages, Settled
<1>1. CASE UNCHANGED vars
  BY <1>1 DEF vars
<1>2. ASSUME NEW d \in Deliveries, Create(d) PROVE TypeOK'
  BY <1>2 DEF Create
<1>3. ASSUME NEW d \in Deliveries, Ripen(d) PROVE TypeOK'
  BY <1>3 DEF Ripen
<1>4. ASSUME NEW f \in Flushers, Acquire(f) \/ FailOpen(f) \/ Step(f)
                                 \/ MarkDeliveredFails(f) \/ Throw(f)
      PROVE  TypeOK'
  <2>1. CASE Acquire(f)
    BY <2>1 DEF Acquire
  <2>2. CASE FailOpen(f)
    BY <2>2 DEF FailOpen
  <2>3. CASE Find(f)
    BY <2>3 DEF Find, Oldest, Pending
  <2>4. CASE Mark(f)
    <3>. DEFINE S == held[f] \cap Pending
    <3>1. Claim(S) /\ Goto(f, "reread") /\ UNCHANGED <<enabled, locked, held, copy, history>>
      BY <2>4 DEF Mark
    <3>. HIDE DEF S
    <3>2. \A d \in Deliveries : retries[d] + 1 \in Nat
      OBVIOUS
    <3>3. /\ status' \in [Deliveries -> Statuses]
          /\ retries' \in [Deliveries -> Nat]
          /\ ripe' \in SUBSET Deliveries
      BY <3>1, <3>2 DEF Claim
    <3>. QED BY <3>1, <3>3
  <2>5. CASE Reread(f)
    BY <2>5 DEF Reread, Processing
  <2>6. CASE ReadConfig(f)
    BY <2>6 DEF ReadConfig
  <2>7. CASE PostOk(f)
    BY <2>7 DEF PostOk
  <2>8. CASE PostFails(f)
    BY <2>8 DEF PostFails
  <2>9. CASE MarkDelivered(f)
    BY <2>9 DEF MarkDelivered
  <2>10. CASE Unlock(f)
    BY <2>10 DEF Unlock
  <2>11. CASE MarkDeliveredFails(f)
    BY <2>11 DEF MarkDeliveredFails
  <2>12. CASE Throw(f)
    BY <2>12 DEF Throw, Processing
  <2>13. ASSUME NEW d \in Deliveries, Abandon(f, d) PROVE TypeOK'
    BY <2>13 DEF Abandon, LetGo
  <2>14. ASSUME NEW d \in Deliveries, MarkFailed(f, d) PROVE TypeOK'
    BY <2>14 DEF MarkFailed, LetGo, Outcome
  <2>. QED BY <1>4, <2>1, <2>2, <2>3, <2>4, <2>5, <2>6, <2>7, <2>8, <2>9, <2>10,
              <2>11, <2>12, <2>13, <2>14 DEF Step
<1>5. CASE LockExpires
  BY <1>5 DEF LockExpires
<1>6. CASE EditConfig
  BY <1>6 DEF EditConfig
<1>7. CASE Crash
  BY <1>7 DEF Crash, Processing
<1>. QED BY <1>1, <1>2, <1>3, <1>4, <1>5, <1>6, <1>7 DEF Next

\* Every reachable state has the declared types.
THEOREM TypeCorrect == Spec => []TypeOK
<1>. QED BY TypeInit, TypeNext, PTL DEF Spec

-----------------------------------------------------------------------------
(* What a flush has in its hands.                                          *)

\* No flush has started.
LEMMA HandsInit == Init => HandsInv
<1>. QED BY TypeInit DEF Init, HandsInv, Hands

\* No step moves what another flush holds or lowers a retry count.
LEMMA HandsNext == HandsInv /\ [Next]_vars => Hands'
<1>. SUFFICES ASSUME HandsInv, [Next]_vars PROVE Hands'
  OBVIOUS
<1>. USE WebhookAssumption DEF Goto, rows, flush, history
<1>. USE DEF HandsInv, TypeOK, Hands
<1>1. CASE UNCHANGED vars
  BY <1>1 DEF vars
<1>2. ASSUME NEW d \in Deliveries, Create(d) PROVE Hands'
  BY <1>2 DEF Create
<1>3. ASSUME NEW d \in Deliveries, Ripen(d) PROVE Hands'
  BY <1>3 DEF Ripen
<1>4. ASSUME NEW f \in Flushers, Acquire(f) \/ FailOpen(f) \/ Step(f)
                                 \/ MarkDeliveredFails(f) \/ Throw(f)
      PROVE  Hands'
  <2>1. CASE Acquire(f)
    BY <2>1 DEF Acquire
  <2>2. CASE FailOpen(f)
    BY <2>2 DEF FailOpen
  <2>3. CASE Find(f)
    BY <2>3 DEF Find
  <2>4. CASE Mark(f)
    BY <2>4 DEF Mark, Claim, Pending
  <2>5. CASE Reread(f)
    BY <2>5 DEF Reread
  <2>6. CASE ReadConfig(f)
    BY <2>6 DEF ReadConfig
  <2>7. CASE PostOk(f)
    BY <2>7 DEF PostOk
  <2>8. CASE PostFails(f)
    BY <2>8 DEF PostFails
  <2>9. CASE MarkDelivered(f)
    BY <2>9 DEF MarkDelivered
  <2>10. CASE Unlock(f)
    BY <2>10 DEF Unlock
  <2>11. CASE MarkDeliveredFails(f)
    BY <2>11 DEF MarkDeliveredFails
  <2>12. CASE Throw(f)
    BY <2>12 DEF Throw
  <2>13. ASSUME NEW d \in Deliveries, Abandon(f, d) PROVE Hands'
    BY <2>13 DEF Abandon, LetGo
  <2>14. ASSUME NEW d \in Deliveries, MarkFailed(f, d) PROVE Hands'
    BY <2>14 DEF MarkFailed, LetGo
  <2>. QED BY <1>4, <2>1, <2>2, <2>3, <2>4, <2>5, <2>6, <2>7, <2>8, <2>9, <2>10,
              <2>11, <2>12, <2>13, <2>14 DEF Step
<1>5. CASE LockExpires
  BY <1>5 DEF LockExpires
<1>6. CASE EditConfig
  BY <1>6 DEF EditConfig
<1>7. CASE Crash
  BY <1>7 DEF Crash
<1>. QED BY <1>1, <1>2, <1>3, <1>4, <1>5, <1>6, <1>7 DEF Next

-----------------------------------------------------------------------------
(* One flush at a time while the lock protects.                            *)

\* No flush has started.
LEMMA ExclusionInit == Init => Exclusion
<1>. QED BY DEF Init, Exclusion

\* Only the lock lets a flush start, and only its flush deletes it.
LEMMA ExclusionNext == TypeOK /\ Exclusion /\ [Next]_vars => Exclusion'
<1>. SUFFICES ASSUME TypeOK /\ Exclusion, [Next]_vars PROVE Exclusion'
  OBVIOUS
<1>. USE WebhookAssumption DEF Goto, rows, flush, history
<1>. USE DEF TypeOK, Exclusion
<1>1. CASE UNCHANGED vars
  BY <1>1 DEF vars
<1>2. ASSUME NEW d \in Deliveries, Create(d) PROVE Exclusion'
  BY <1>2 DEF Create
<1>3. ASSUME NEW d \in Deliveries, Ripen(d) PROVE Exclusion'
  BY <1>3 DEF Ripen
<1>4. ASSUME NEW f \in Flushers, Acquire(f) \/ FailOpen(f) \/ Step(f)
                                 \/ MarkDeliveredFails(f) \/ Throw(f)
      PROVE  Exclusion'
  <2>1. CASE Acquire(f)
    BY <2>1 DEF Acquire
  <2>2. CASE FailOpen(f)
    BY <2>2 DEF FailOpen
  <2>3. CASE Find(f)
    BY <2>3 DEF Find
  <2>4. CASE Mark(f)
    BY <2>4 DEF Mark
  <2>5. CASE Reread(f)
    BY <2>5 DEF Reread
  <2>6. CASE ReadConfig(f)
    BY <2>6 DEF ReadConfig
  <2>7. CASE PostOk(f)
    BY <2>7 DEF PostOk
  <2>8. CASE PostFails(f)
    BY <2>8 DEF PostFails
  <2>9. CASE MarkDelivered(f)
    BY <2>9 DEF MarkDelivered
  <2>10. CASE Unlock(f)
    BY <2>10 DEF Unlock
  <2>11. CASE MarkDeliveredFails(f)
    BY <2>11 DEF MarkDeliveredFails
  <2>12. CASE Throw(f)
    BY <2>12 DEF Throw
  <2>13. ASSUME NEW d \in Deliveries, Abandon(f, d) PROVE Exclusion'
    BY <2>13 DEF Abandon, LetGo
  <2>14. ASSUME NEW d \in Deliveries, MarkFailed(f, d) PROVE Exclusion'
    BY <2>14 DEF MarkFailed, LetGo
  <2>. QED BY <1>4, <2>1, <2>2, <2>3, <2>4, <2>5, <2>6, <2>7, <2>8, <2>9, <2>10,
              <2>11, <2>12, <2>13, <2>14 DEF Step
<1>5. CASE LockExpires
  BY <1>5 DEF LockExpires
<1>6. CASE EditConfig
  BY <1>6 DEF EditConfig
<1>7. CASE Crash
  BY <1>7 DEF Crash
<1>. QED BY <1>1, <1>2, <1>3, <1>4, <1>5, <1>6, <1>7 DEF Next

\* No two flushes hold a row, whatever crashes or throws, unless a lock was
\* refused by Redis or expired under a running flush.
THEOREM FlushesDisjoint == Spec => []OneFlushPerRow
<1>1. Hands /\ Exclusion => OneFlushPerRow
  BY DEF Hands, Exclusion, OneFlushPerRow
<1>2. Init => HandsInv /\ Exclusion
  BY HandsInit, ExclusionInit
<1>3. HandsInv /\ Exclusion /\ [Next]_vars => HandsInv' /\ Exclusion'
  BY TypeNext, HandsNext, ExclusionNext DEF HandsInv
<1>4. HandsInv => Hands
  BY DEF HandsInv
<1>. QED BY <1>1, <1>2, <1>3, <1>4, PTL DEF Spec

-----------------------------------------------------------------------------
(* What a protected flush relies on.                                       *)

\* No row has been tried; RetryLimit is positive.
LEMMA ProtectedInit == Init => ProtectedInv
<1>. QED BY HandsInit, ExclusionInit, WebhookAssumption DEF Init, ProtectedInv, Protected

\* The running flush meets no other, so what it claimed stays as it read it.
LEMMA ProtectedNext == ProtectedInv /\ [Next]_vars => Protected'
<1>. SUFFICES ASSUME ProtectedInv, [Next]_vars PROVE Protected'
  OBVIOUS
<1>. USE WebhookAssumption DEF Goto, rows, flush, history
<1>. USE DEF ProtectedInv, HandsInv, TypeOK, Hands, Exclusion, Protected
<1>1. CASE UNCHANGED vars
  BY <1>1 DEF vars
<1>2. ASSUME NEW d \in Deliveries, Create(d) PROVE Protected'
  BY <1>2 DEF Create
<1>3. ASSUME NEW d \in Deliveries, Ripen(d) PROVE Protected'
  BY <1>3 DEF Ripen
<1>4. ASSUME NEW f \in Flushers, Acquire(f) \/ FailOpen(f) \/ Step(f)
                                 \/ MarkDeliveredFails(f) \/ Throw(f)
      PROVE  Protected'
  <2>1. CASE Acquire(f)
    BY <2>1 DEF Acquire
  <2>2. CASE FailOpen(f)
    BY <2>2 DEF FailOpen
  <2>3. CASE Find(f)
    BY <2>3 DEF Find
  <2>4. CASE Mark(f)
    BY <2>4 DEF Mark, Claim, Pending
  <2>5. CASE Reread(f)
    BY <2>5 DEF Reread, Processing
  <2>6. CASE ReadConfig(f)
    BY <2>6 DEF ReadConfig
  <2>7. CASE PostOk(f)
    BY <2>7 DEF PostOk
  <2>8. CASE PostFails(f)
    BY <2>8 DEF PostFails
  <2>9. CASE MarkDelivered(f)
    BY <2>9 DEF MarkDelivered
  <2>10. CASE Unlock(f)
    BY <2>10 DEF Unlock
  <2>11. CASE MarkDeliveredFails(f)
    BY <2>11 DEF MarkDeliveredFails
  <2>12. CASE Throw(f)
    BY <2>12 DEF Throw
  <2>13. ASSUME NEW d \in Deliveries, Abandon(f, d) PROVE Protected'
    BY <2>13 DEF Abandon, LetGo
  <2>14. ASSUME NEW d \in Deliveries, MarkFailed(f, d) PROVE Protected'
    BY <2>14 DEF MarkFailed, LetGo, Outcome
  <2>. QED BY <1>4, <2>1, <2>2, <2>3, <2>4, <2>5, <2>6, <2>7, <2>8, <2>9, <2>10,
              <2>11, <2>12, <2>13, <2>14 DEF Step
<1>5. CASE LockExpires
  BY <1>5 DEF LockExpires
<1>6. CASE EditConfig
  BY <1>6 DEF EditConfig
<1>7. CASE Crash
  BY <1>7 DEF Crash
<1>. QED BY <1>1, <1>2, <1>3, <1>4, <1>5, <1>6, <1>7 DEF Next

\* ProtectedInv holds throughout.
LEMMA ProtectedAlways == ProtectedInv /\ [Next]_vars => ProtectedInv'
<1>. QED BY TypeNext, HandsNext, ExclusionNext, ProtectedNext DEF ProtectedInv, HandsInv

\* No row is tried more often than retry_limit while the lock protects, for any
\* limit, number of flushes and pattern of crashes.
THEOREM LimitRespected == Spec => []RetriesWithinLimit
<1>1. ProtectedInv => RetriesWithinLimit
  BY DEF ProtectedInv, Protected, RetriesWithinLimit
<1>. QED BY <1>1, ProtectedInit, ProtectedAlways, PTL DEF Spec

\* The body of SettledIsFinal.
Final == ~exposed' => \A d \in Deliveries : status[d] \in Settled => status'[d] = status[d]

\* A protected step changes only rows that are pending or in its own hands.
LEMMA FinalStep == ProtectedInv /\ [Next]_vars => Final
<1>. SUFFICES ASSUME ProtectedInv, [Next]_vars PROVE Final
  OBVIOUS
<1>. USE WebhookAssumption DEF Goto, rows, flush, history
<1>. USE DEF ProtectedInv, HandsInv, TypeOK, Exclusion, Protected, Settled, Final
<1>1. CASE UNCHANGED vars
  BY <1>1 DEF vars
<1>2. ASSUME NEW d \in Deliveries, Create(d) PROVE Final
  BY <1>2 DEF Create
<1>3. ASSUME NEW d \in Deliveries, Ripen(d) PROVE Final
  BY <1>3 DEF Ripen
<1>4. ASSUME NEW f \in Flushers, Acquire(f) \/ FailOpen(f) \/ Step(f)
                                 \/ MarkDeliveredFails(f) \/ Throw(f)
      PROVE  Final
  <2>1. CASE Acquire(f)
    BY <2>1 DEF Acquire
  <2>2. CASE FailOpen(f)
    BY <2>2 DEF FailOpen
  <2>3. CASE Find(f)
    BY <2>3 DEF Find
  <2>4. CASE Mark(f)
    BY <2>4 DEF Mark, Claim, Pending
  <2>5. CASE Reread(f)
    BY <2>5 DEF Reread
  <2>6. CASE ReadConfig(f)
    BY <2>6 DEF ReadConfig
  <2>7. CASE PostOk(f)
    BY <2>7 DEF PostOk
  <2>8. CASE PostFails(f)
    BY <2>8 DEF PostFails
  <2>9. CASE MarkDelivered(f)
    BY <2>9 DEF MarkDelivered
  <2>10. CASE Unlock(f)
    BY <2>10 DEF Unlock
  <2>11. CASE MarkDeliveredFails(f)
    BY <2>11 DEF MarkDeliveredFails
  <2>12. CASE Throw(f)
    BY <2>12 DEF Throw
  <2>13. ASSUME NEW d \in Deliveries, Abandon(f, d) PROVE Final
    BY <2>13 DEF Abandon, LetGo
  <2>14. ASSUME NEW d \in Deliveries, MarkFailed(f, d) PROVE Final
    BY <2>14 DEF MarkFailed, LetGo
  <2>. QED BY <1>4, <2>1, <2>2, <2>3, <2>4, <2>5, <2>6, <2>7, <2>8, <2>9, <2>10,
              <2>11, <2>12, <2>13, <2>14 DEF Step
<1>5. CASE LockExpires
  BY <1>5 DEF LockExpires
<1>6. CASE EditConfig
  BY <1>6 DEF EditConfig
<1>7. CASE Crash
  BY <1>7 DEF Crash
<1>. QED BY <1>1, <1>2, <1>3, <1>4, <1>5, <1>6, <1>7 DEF Next

\* A delivered or failed row is never changed again while the lock protects.
THEOREM SettledStays == Spec => SettledIsFinal
<1>1. ProtectedInv /\ [Next]_vars => [Final]_vars
  BY FinalStep
<1>2. Spec => [][Final]_vars
  BY <1>1, ProtectedInit, ProtectedAlways, PTL DEF Spec
<1>. QED BY <1>2 DEF SettledIsFinal, Final

-----------------------------------------------------------------------------
(* Why a row settled.                                                      *)

\* No row is settled.
LEMMA ReasonsInit == Init => ReasonsInv
<1>. QED BY HandsInit DEF Init, ReasonsInv, SettledForAReason

\* A row is settled by a flush that has the reason in hand.
LEMMA ReasonsNext == ReasonsInv /\ [Next]_vars => SettledForAReason'
<1>. SUFFICES ASSUME ReasonsInv, [Next]_vars PROVE SettledForAReason'
  OBVIOUS
<1>. USE WebhookAssumption DEF Goto, rows, flush, history
<1>. USE DEF ReasonsInv, HandsInv, TypeOK, Hands, SettledForAReason
<1>1. CASE UNCHANGED vars
  BY <1>1 DEF vars
<1>2. ASSUME NEW d \in Deliveries, Create(d) PROVE SettledForAReason'
  BY <1>2 DEF Create
<1>3. ASSUME NEW d \in Deliveries, Ripen(d) PROVE SettledForAReason'
  BY <1>3 DEF Ripen
<1>4. ASSUME NEW f \in Flushers, Acquire(f) \/ FailOpen(f) \/ Step(f)
                                 \/ MarkDeliveredFails(f) \/ Throw(f)
      PROVE  SettledForAReason'
  <2>1. CASE Acquire(f)
    BY <2>1 DEF Acquire
  <2>2. CASE FailOpen(f)
    BY <2>2 DEF FailOpen
  <2>3. CASE Find(f)
    BY <2>3 DEF Find
  <2>4. CASE Mark(f)
    BY <2>4 DEF Mark, Claim, Pending
  <2>5. CASE Reread(f)
    BY <2>5 DEF Reread
  <2>6. CASE ReadConfig(f)
    BY <2>6 DEF ReadConfig
  <2>7. CASE PostOk(f)
    BY <2>7 DEF PostOk
  <2>8. CASE PostFails(f)
    BY <2>8 DEF PostFails
  <2>9. CASE MarkDelivered(f)
    BY <2>9 DEF MarkDelivered
  <2>10. CASE Unlock(f)
    BY <2>10 DEF Unlock
  <2>11. CASE MarkDeliveredFails(f)
    BY <2>11 DEF MarkDeliveredFails
  <2>12. CASE Throw(f)
    BY <2>12 DEF Throw
  <2>13. ASSUME NEW d \in Deliveries, Abandon(f, d) PROVE SettledForAReason'
    BY <2>13 DEF Abandon, LetGo
  <2>14. ASSUME NEW d \in Deliveries, MarkFailed(f, d) PROVE SettledForAReason'
    BY <2>14 DEF MarkFailed, LetGo, Outcome
  <2>. QED BY <1>4, <2>1, <2>2, <2>3, <2>4, <2>5, <2>6, <2>7, <2>8, <2>9, <2>10,
              <2>11, <2>12, <2>13, <2>14 DEF Step
<1>5. CASE LockExpires
  BY <1>5 DEF LockExpires
<1>6. CASE EditConfig
  BY <1>6 DEF EditConfig
<1>7. CASE Crash
  BY <1>7 DEF Crash
<1>. QED BY <1>1, <1>2, <1>3, <1>4, <1>5, <1>6, <1>7 DEF Next

\* However flushes overlap, a row is delivered after a 2xx answer, and fails for
\* its limit or for want of a config.
THEOREM ReasonsCorrect == Spec => []SettledForAReason
<1>1. ReasonsInv => SettledForAReason
  BY DEF ReasonsInv
<1>2. ReasonsInv /\ [Next]_vars => ReasonsInv'
  BY TypeNext, HandsNext, ReasonsNext DEF ReasonsInv, HandsInv
<1>. QED BY <1>1, <1>2, ReasonsInit, PTL DEF Spec

-----------------------------------------------------------------------------
(* Who answers for a 'processing' row.                                     *)

\* No row is 'processing'.
LEMMA KeepersInit == Init => KeepersInv
<1>. QED BY HandsInit DEF Init, KeepersInv, Keepers

\* A flush lets go of a row when the row has left that status, or drops it.
LEMMA KeepersNext == KeepersInv /\ [Next]_vars => Keepers'
<1>. SUFFICES ASSUME KeepersInv, [Next]_vars PROVE Keepers'
  OBVIOUS
<1>. USE WebhookAssumption DEF Goto, rows, flush, history
<1>. USE DEF KeepersInv, HandsInv, TypeOK, Hands, Keepers, Carrying, Stages, Processing
<1>1. CASE UNCHANGED vars
  BY <1>1 DEF vars
<1>2. ASSUME NEW d \in Deliveries, Create(d) PROVE Keepers'
  BY <1>2 DEF Create
<1>3. ASSUME NEW d \in Deliveries, Ripen(d) PROVE Keepers'
  BY <1>3 DEF Ripen
<1>4. ASSUME NEW f \in Flushers, Acquire(f) \/ FailOpen(f) \/ Step(f)
                                 \/ MarkDeliveredFails(f) \/ Throw(f)
      PROVE  Keepers'
  <2>1. CASE Acquire(f)
    BY <2>1 DEF Acquire
  <2>2. CASE FailOpen(f)
    BY <2>2 DEF FailOpen
  <2>3. CASE Find(f)
    BY <2>3 DEF Find
  <2>4. CASE Mark(f)
    BY <2>4 DEF Mark, Claim, Pending
  <2>5. CASE Reread(f)
    BY <2>5 DEF Reread
  <2>6. CASE ReadConfig(f)
    BY <2>6 DEF ReadConfig
  <2>7. CASE PostOk(f)
    BY <2>7 DEF PostOk
  <2>8. CASE PostFails(f)
    BY <2>8 DEF PostFails
  <2>9. CASE MarkDelivered(f)
    BY <2>9 DEF MarkDelivered
  <2>10. CASE Unlock(f)
    BY <2>10 DEF Unlock
  <2>11. CASE MarkDeliveredFails(f)
    BY <2>11 DEF MarkDeliveredFails
  <2>12. CASE Throw(f)
    BY <2>12 DEF Throw
  <2>13. ASSUME NEW d \in Deliveries, Abandon(f, d) PROVE Keepers'
    BY <2>13 DEF Abandon, LetGo
  <2>14. ASSUME NEW d \in Deliveries, MarkFailed(f, d) PROVE Keepers'
    BY <2>14 DEF MarkFailed, LetGo, Outcome
  <2>. QED BY <1>4, <2>1, <2>2, <2>3, <2>4, <2>5, <2>6, <2>7, <2>8, <2>9, <2>10,
              <2>11, <2>12, <2>13, <2>14 DEF Step
<1>5. CASE LockExpires
  BY <1>5 DEF LockExpires
<1>6. CASE EditConfig
  BY <1>6 DEF EditConfig
<1>7. CASE Crash
  BY <1>7 DEF Crash
<1>. QED BY <1>1, <1>2, <1>3, <1>4, <1>5, <1>6, <1>7 DEF Next

\* However flushes overlap, a row is stuck in 'processing' only because a flush
\* that had claimed it died or threw.
THEOREM KeepersCorrect == Spec => []ProcessingIsHeld
<1>1. KeepersInv => ProcessingIsHeld
  BY DEF KeepersInv, Keepers, ProcessingIsHeld, Processing
<1>2. KeepersInv /\ [Next]_vars => KeepersInv'
  BY TypeNext, HandsNext, KeepersNext DEF KeepersInv, HandsInv
<1>. QED BY <1>1, <1>2, KeepersInit, PTL DEF Spec

=============================================================================
