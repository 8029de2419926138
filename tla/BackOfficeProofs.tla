--------------------------- MODULE BackOfficeProofs ---------------------------
(***************************************************************************)
(* Proofs about the back office for any number of subscriptions, workers,  *)
(* runs, users, messages, requests and files, any windows and thresholds,  *)
(* any page size, and runs of any length (the bounds of BackOffice are     *)
(* constants): what a subscription used survives its end, unless it is     *)
(* replaced by force, and its alert tells its level; a reader of a thread  *)
(* misses nothing; reminders go out once and to everyone.                  *)
(*                                                                         *)
(* Periods: one subscription is active at a time, the hash counts the      *)
(* charges of its period, and nobody writes to the row of a period that is *)
(* over, unless the code's own races blurred it (PeriodInv). Alerts: a     *)
(* level is told before it is written (AlertInv). Threads: ids are given   *)
(* once, and a mark is the time of a message that was shown (ThreadInv).   *)
(* Mails: a run that met no fault has reminded everyone of the windows     *)
(* behind it, and has the others of this window in hand (MailInv).         *)
(*                                                                         *)
(* The sections from totals to charts are about the questions of reports   *)
(* and days: a total is the number of things it is of, so counting by key  *)
(* and adding up is counting (CountFibers); and the clocks of a zone never *)
(* go back by more than an hour, so days follow each other whatever the    *)
(* offset (ToUtcIsLate).                                                   *)
(***************************************************************************)
EXTENDS BackOffice, Totals, FiniteSetTheorems, WellFoundedInduction, TLAPS

-----------------------------------------------------------------------------
(* Numbers.                                                                *)

\* A set of naturals that is not empty has a smallest element.
LEMMA LeastExists ==
    ASSUME NEW S, S \subseteq Nat, S # {}
    PROVE  \E m \in S : \A t \in S : m <= t
<1>1. PICK x \in S : \A y \in S : ~ (<<y, x>> \in OpToRel(<, Nat))
  BY WFMin, NatLessThanWellFounded
<1>2. \A y \in S : x <= y
  <2>. SUFFICES ASSUME NEW y \in S, y < x PROVE FALSE
    OBVIOUS
  <2>1. <<y, x>> \in OpToRel(<, Nat)
    BY DEF OpToRel
  <2>. QED BY <1>1, <2>1
<1>. QED BY <1>2

\* A finite set of naturals that is not empty has a largest element: of its subsets
\* without one a smallest would stay without one when an element is taken away.
LEMMA LargestExists ==
    ASSUME NEW S \in SUBSET Nat, IsFiniteSet(S), S # {}
    PROVE  \E m \in S : \A t \in S : m >= t
<1>. DEFINE Bad == {T \in SUBSET S : T # {} /\ ~ \E m \in T : \A t \in T : m >= t}
            Fin == FiniteSubsetsOf(S)
            R == StrictSubsetOrdering(S)
<1>. SUFFICES ASSUME S \in Bad PROVE FALSE
  OBVIOUS
<1>1. IsWellFoundedOn(R, Fin)
  BY FS_StrictSubsetOrderingWellFounded
<1>2. Bad \subseteq Fin
  BY FS_Subset DEF FiniteSubsetsOf
<1>3. PICK T \in Bad : \A U \in Bad : ~ (<<U, T>> \in R)
  BY <1>1, <1>2, WFMin
<1>4. PICK x \in T : TRUE
  OBVIOUS
<1>5. T \ {x} # {}
  BY <1>4
<1>6. T \ {x} \notin Bad
  <2>. SUFFICES ASSUME T \ {x} \in Bad PROVE FALSE
    OBVIOUS
  <2>1. T \ {x} \subseteq T /\ T \ {x} # T /\ T \in SUBSET S
    BY <1>4
  <2>2. <<T \ {x}, T>> \in R
    BY <2>1 DEF StrictSubsetOrdering
  <2>. QED BY <1>3, <2>2
<1>7. PICK m \in T \ {x} : \A t \in T \ {x} : m >= t
  BY <1>5, <1>6
<1>8. x \in Nat /\ m \in Nat /\ T \subseteq Nat
  BY <1>4
<1>9. CASE x >= m
  <2>1. \A t \in T : x >= t
    BY <1>7, <1>8, <1>9
  <2>. QED BY <2>1, <1>4
<1>10. CASE m >= x
  <2>1. \A t \in T : m >= t
    BY <1>7, <1>8, <1>10
  <2>. QED BY <2>1
<1>. QED BY <1>8, <1>9, <1>10

-----------------------------------------------------------------------------
(* Periods.                                                                *)

\* The kinds of ending and the stages each goes through.
PeriodStages ==
    {<<"none", "idle">>}
    \union ({"cancel", "expire"} \X {"read", "write", "drop", "retire", "promote", "usage", "reset"})
    \union ({"force"} \X {"read", "write", "purge", "retire", "drop", "grant", "usage", "reset"})
    \union ({"recreate"} \X {"retire", "drop", "grant", "usage", "reset"})

\* The catalogue, the rows and the hash; then who ends, adjusts and reconciles.
StoreTypes ==
    /\ state \in [PeriodSubs -> {"none", "queued", "active", "expired", "cancelled", "forced"}]
    /\ limit \in [PeriodSubs -> Nat] /\ charged \in [PeriodSubs -> Nat]
    /\ row \in [PeriodSubs -> [there : BOOLEAN, used : Nat, limit : Nat]]
    /\ hash \in [live : BOOLEAN, limit : Nat, used : Nat, of : PeriodSubs \union {0}]
    /\ hash.live => hash.of \in PeriodSubs
\* Who ends a subscription is at a stage of its kind, with a subscription in hand.
EndingTypes ==
    /\ ending \in [kind : {"none", "cancel", "expire", "force", "recreate"},
                    pc : {"idle", "read", "write", "purge", "drop", "retire", "promote", "grant", "usage", "reset"},
                    sub : Nat, used : Nat, limit : Nat]
    /\ <<ending.kind, ending.pc>> \in PeriodStages
    /\ ending.pc \notin {"idle", "promote", "grant"} => ending.sub \in PeriodSubs
\* An adjustment of a plan has a subscription in hand.
AdjustTypes ==
    /\ adjust \in [pc : {"idle", "features", "usage", "live", "row", "hash"}, sub : Nat,
                    was : {"none", "queued", "active", "expired"}, used : Nat, limit : Nat]
    /\ adjust.pc # "idle" => adjust.sub \in PeriodSubs
\* The reconciling pass has a subscription in hand.
PassTypes ==
    /\ pass \in [pc : {"idle", "read", "write"}, sub : Nat, used : Nat]
    /\ IF pass.pc = "idle" THEN pass.sub = 0 ELSE pass.sub \in PeriodSubs
\* The types of the periods.
PeriodTypes == StoreTypes /\ EndingTypes /\ AdjustTypes /\ PassTypes

\* The ending has a subscription in hand that is active still.
Standing == \/ ending.pc \in {"read", "write", "purge", "retire", "usage", "reset"}
            \/ ending.pc = "drop" /\ ending.kind = "expire"
\* The ending has closed the old subscription and activated none yet.
Between == \/ ending.pc \in {"promote", "grant"}
           \/ ending.pc = "drop" /\ ending.kind # "expire"

\* One subscription is active at a time, and the ending knows whether there is one.
OneStands ==
    /\ \A s, t \in PeriodSubs : state[s] = "active" /\ state[t] = "active" => s = t
    /\ Standing => state[ending.sub] = "active"
    /\ Between => \A s \in PeriodSubs : state[s] # "active"

\* The new period of `s` gets its usage row and its hash.
Beginning(s) == ending.sub = s /\ ending.pc \in {"usage", "reset"}

\* The live hash counts every charge of the period it is of, which is the active one; what an
\* ending read from it is still what it counts.
HashCounts ==
    /\ hash.live /\ hash.of \notin blurred => hash.used = charged[hash.of]
    /\ \A s \in PeriodSubs \ blurred : hash.live /\ state[s] = "active" => hash.of = s \/ Beginning(s)
    /\ ending.pc = "write" /\ ending.sub \notin blurred => ending.used = charged[ending.sub]

\* The last usage of `s` was copied to its row.
Copied(s) == \/ state[s] \in {"expired", "cancelled", "forced"}
             \/ ending.sub = s /\ ending.pc \in {"retire", "drop", "purge"}

\* A row of a period that is over has what was charged, and no pass is to write over it.
RowsKeep ==
    \A s \in PeriodSubs \ blurred :
        Copied(s) => pass.sub # s /\ (row[s].there => row[s].used = charged[s])

\* The period of `s` has no usage row yet.
Rowless(s) == state[s] \in {"none", "queued"} \/ (ending.sub = s /\ ending.pc = "usage")

\* The usage row of `s` was deleted: it was replaced by force.
Purged(s) == state[s] = "forced" \/ (ending.sub = s /\ ending.kind = "force" /\ ending.pc = "retire")

\* Rows are made when a period begins, and last unless they are deleted; an adjustment
\* meets a subscription that was given one.
RowsMade ==
    /\ \A s \in PeriodSubs : row[s].there <=> ~ (Rowless(s) \/ Purged(s))
    /\ adjust.pc \in {"live", "row", "hash"} => ~Rowless(adjust.sub)

\* `n` units are within what the subscription or its row allows.
Within(n, s) == n <= limit[s] \/ (row[s].there /\ n <= row[s].limit)

\* Charges and hashes stay within a limit the period had: an adjustment under way lowers neither
\* the row nor the catalogue below it.
LimitsHold ==
    /\ \A s \in PeriodSubs : row[s].there \/ Rowless(s) =>
          /\ s \notin blurred => Within(charged[s], s)
          /\ hash.live /\ hash.of = s => Within(hash.limit, s)
    /\ adjust.pc \in {"live", "row"} /\ row[adjust.sub].there => row[adjust.sub].limit <= adjust.limit
    /\ adjust.pc = "hash" /\ row[adjust.sub].there => adjust.limit <= row[adjust.sub].limit
    /\ adjust.pc = "features" => limit[adjust.sub] <= adjust.limit
    /\ ending.pc \in {"usage", "reset"} => ending.limit <= limit[ending.sub]
    /\ \A s \in PeriodSubs : PlanLimit <= limit[s]

\* The minimum of a set of naturals that is not empty.
LEMMA LeastOne ==
    ASSUME NEW S, S \subseteq Nat, S # {}
    PROVE  Periods!Min(S) \in S /\ \A t \in S : Periods!Min(S) <= t
BY LeastExists DEF Periods!Min

\* The maximum of two naturals.
LEMMA LargerOne ==
    ASSUME NEW a \in Nat, NEW b \in Nat
    PROVE  /\ Periods!Max({a, b}) \in Nat /\ a <= Periods!Max({a, b}) /\ b <= Periods!Max({a, b})
           /\ Periods!Max({a, b}) \in {a, b}
<1>1. \E x \in {a, b} : \A y \in {a, b} : x >= y
  OBVIOUS
<1>. QED BY <1>1 DEF Periods!Max

\* The inductive invariant of the periods.
PeriodInv == PeriodTypes /\ OneStands /\ HashCounts /\ RowsKeep /\ RowsMade /\ LimitsHold

\* A charge is counted in the hash, within its limit.
LEMMA PeriodCharge ==
    ASSUME PeriodInv, Periods!Charge
    PROVE  PeriodInv'
<1>. USE PeriodAssumption DEF PeriodInv
<1>1. PeriodTypes'
  <2>1. StoreTypes'
      BY DEF PeriodTypes, StoreTypes, Periods!Charge, Periods!catalog
  <2>2. EndingTypes'
      BY DEF PeriodTypes, EndingTypes, Periods!Charge
  <2>3. AdjustTypes'
      BY DEF PeriodTypes, AdjustTypes, Periods!Charge
  <2>4. PassTypes'
      BY DEF PeriodTypes, PassTypes, Periods!Charge
  <2>. QED BY <2>1, <2>2, <2>3, <2>4 DEF PeriodTypes
<1>2. OneStands'
    BY DEF OneStands, Standing, Between, Periods!Charge, Periods!catalog
<1>3. HashCounts'
    BY DEF HashCounts, Beginning, PeriodTypes, StoreTypes, Periods!Charge, Periods!catalog,
       Periods!HeldByEnding
<1>4. RowsKeep'
    BY DEF RowsKeep, Copied, Periods!Charge, Periods!catalog, Periods!HeldByEnding
<1>5. RowsMade'
    BY DEF RowsMade, Rowless, Purged, Periods!Charge, Periods!catalog
<1>6. LimitsHold'
    BY DEF LimitsHold, Within, Rowless, PeriodTypes, StoreTypes, HashCounts, Periods!Charge,
       Periods!catalog
<1>. QED BY <1>1, <1>2, <1>3, <1>4, <1>5, <1>6

\* The hash may go; the scans it counted stay.
LEMMA PeriodEvict ==
    ASSUME PeriodInv, Periods!Evict
    PROVE  PeriodInv'
<1>. USE PeriodAssumption DEF PeriodInv
<1>1. PeriodTypes'
  <2>1. StoreTypes'
      BY DEF PeriodTypes, StoreTypes, Periods!Evict, Periods!catalog, Periods!NoHash
  <2>2. EndingTypes'
      BY DEF PeriodTypes, EndingTypes, Periods!Evict
  <2>3. AdjustTypes'
      BY DEF PeriodTypes, AdjustTypes, Periods!Evict
  <2>4. PassTypes'
      BY DEF PeriodTypes, PassTypes, Periods!Evict
  <2>. QED BY <2>1, <2>2, <2>3, <2>4 DEF PeriodTypes
<1>2. OneStands'
    BY DEF OneStands, Standing, Between, Periods!Evict, Periods!catalog
<1>3. HashCounts'
    BY DEF HashCounts, Periods!Evict, Periods!NoHash
<1>4. RowsKeep'
    BY DEF RowsKeep, Copied, Periods!Evict, Periods!catalog
<1>5. RowsMade'
    BY DEF RowsMade, Rowless, Purged, Periods!Evict, Periods!catalog
<1>6. LimitsHold'
    BY DEF LimitsHold, Within, Rowless, Periods!Evict, Periods!catalog, Periods!NoHash
<1>. QED BY <1>1, <1>2, <1>3, <1>4, <1>5, <1>6

\* A subscription that has run its term is over, and active still.
LEMMA PeriodLapse ==
    ASSUME PeriodInv, Periods!Lapse
    PROVE  PeriodInv'
<1>. USE PeriodAssumption DEF PeriodInv
<1>1. PeriodTypes'
  <2>1. StoreTypes'
      BY DEF PeriodTypes, StoreTypes, Periods!Lapse
  <2>2. EndingTypes'
      BY DEF PeriodTypes, EndingTypes, Periods!Lapse
  <2>3. AdjustTypes'
      BY DEF PeriodTypes, AdjustTypes, Periods!Lapse
  <2>4. PassTypes'
      BY DEF PeriodTypes, PassTypes, Periods!Lapse
  <2>. QED BY <2>1, <2>2, <2>3, <2>4 DEF PeriodTypes
<1>2. OneStands'
    BY DEF OneStands, Standing, Between, Periods!Lapse
<1>3. HashCounts'
    BY DEF HashCounts, Beginning, Periods!Lapse
<1>4. RowsKeep'
    BY DEF RowsKeep, Copied, HashCounts, PeriodTypes, StoreTypes, EndingTypes, PassTypes,
       PeriodStages, OneStands, Standing, Periods!Lapse, Periods!Active
<1>5. RowsMade'
    BY DEF RowsMade, Rowless, Purged, Periods!Lapse
<1>6. LimitsHold'
    BY DEF LimitsHold, Within, Rowless, Periods!Lapse
<1>. QED BY <1>1, <1>2, <1>3, <1>4, <1>5, <1>6

\* The pass takes the active subscription.
LEMMA PeriodPassFind ==
    ASSUME PeriodInv, Periods!PassFind
    PROVE  PeriodInv'
<1>. USE PeriodAssumption DEF PeriodInv
<1>1. PeriodTypes'
  <2>1. StoreTypes'
      BY DEF PeriodTypes, StoreTypes, Periods!PassFind, Periods!catalog
  <2>2. EndingTypes'
      BY DEF PeriodTypes, EndingTypes, Periods!PassFind
  <2>3. AdjustTypes'
      BY DEF PeriodTypes, AdjustTypes, Periods!PassFind
  <2>4. PassTypes'
      BY DEF PassTypes, Periods!PassFind, Periods!Active
  <2>. QED BY <2>1, <2>2, <2>3, <2>4 DEF PeriodTypes
<1>2. OneStands'
    BY DEF OneStands, Standing, Between, Periods!PassFind, Periods!catalog
<1>3. HashCounts'
    BY DEF HashCounts, Beginning, Periods!PassFind, Periods!catalog
<1>4. ASSUME NEW s \in PeriodSubs, s \notin blurred', Copied(s)'
      PROVE  pass'.sub # s /\ (row'[s].there => row'[s].used = charged'[s])
  <2>1. PICK t \in PeriodSubs :
           /\ state[t] = "active" /\ pass' = [pc |-> "read", sub |-> t, used |-> 0]
           /\ blurred' = IF ending.sub = t /\ ending.pc \in {"retire", "drop", "purge"}
                         THEN blurred \union {t} ELSE blurred
    BY DEF Periods!PassFind, Periods!Active
  <2>2. UNCHANGED <<state, row, ending, charged>>
    BY DEF Periods!PassFind, Periods!catalog
  <2>3. s \notin blurred /\ Copied(s)
    BY <1>4, <2>1, <2>2 DEF Copied
  <2>4. t # s
    BY <1>4, <2>1, <2>2 DEF Copied
  <2>. QED BY <2>1, <2>2, <2>3, <2>4 DEF RowsKeep
<1>5. RowsMade'
    BY DEF RowsMade, Rowless, Purged, Periods!PassFind, Periods!catalog
<1>6. LimitsHold'
    BY DEF LimitsHold, Within, Rowless, Periods!PassFind, Periods!catalog
<1>. QED BY <1>1, <1>2, <1>3, <1>4, <1>5, <1>6 DEF RowsKeep

\* The pass reads the hash, of whichever subscription it is.
LEMMA PeriodPassRead ==
    ASSUME PeriodInv, Periods!PassRead
    PROVE  PeriodInv'
<1>. USE PeriodAssumption DEF PeriodInv
<1>1. PeriodTypes'
  <2>1. StoreTypes'
      BY DEF PeriodTypes, StoreTypes, PassTypes, Periods!PassRead, Periods!catalog
  <2>2. EndingTypes'
      BY DEF PeriodTypes, EndingTypes, Periods!PassRead
  <2>3. AdjustTypes'
      BY DEF PeriodTypes, AdjustTypes, Periods!PassRead
  <2>4. PassTypes'
      BY DEF PeriodTypes, PassTypes, StoreTypes, Periods!PassRead, Periods!catalog
  <2>. QED BY <2>1, <2>2, <2>3, <2>4 DEF PeriodTypes
<1>2. OneStands'
    BY DEF OneStands, Standing, Between, Periods!PassRead, Periods!catalog
<1>3. HashCounts'
    BY DEF HashCounts, Beginning, Periods!PassRead, Periods!catalog
<1>4. RowsKeep'
    BY DEF RowsKeep, Copied, Periods!PassRead, Periods!catalog
<1>5. RowsMade'
    BY DEF RowsMade, Rowless, Purged, Periods!PassRead, Periods!catalog
<1>6. LimitsHold'
    BY DEF LimitsHold, Within, Rowless, Periods!PassRead, Periods!catalog
<1>. QED BY <1>1, <1>2, <1>3, <1>4, <1>5, <1>6

\* The pass writes what it read, if there is a row.
LEMMA PeriodPassWrite ==
    ASSUME PeriodInv, Periods!PassWrite
    PROVE  PeriodInv'
<1>. USE PeriodAssumption DEF PeriodInv
<1>1. PeriodTypes'
  <2>1. StoreTypes'
      BY DEF PeriodTypes, StoreTypes, PassTypes, Periods!PassWrite, Periods!catalog
  <2>2. EndingTypes'
      BY DEF PeriodTypes, EndingTypes, Periods!PassWrite
  <2>3. AdjustTypes'
      BY DEF PeriodTypes, AdjustTypes, Periods!PassWrite
  <2>4. PassTypes'
      BY DEF PassTypes, Periods!PassWrite, Periods!NoPass
  <2>. QED BY <2>1, <2>2, <2>3, <2>4 DEF PeriodTypes
<1>2. OneStands'
    BY DEF OneStands, Standing, Between, Periods!PassWrite, Periods!catalog
<1>3. HashCounts'
    BY DEF HashCounts, Beginning, Periods!PassWrite, Periods!catalog
<1>4. RowsKeep'
    BY DEF RowsKeep, Copied, Periods!PassWrite, Periods!catalog, Periods!NoPass
<1>5. RowsMade'
    BY DEF RowsMade, Rowless, Purged, Periods!PassWrite, Periods!catalog
<1>6. LimitsHold'
    BY DEF LimitsHold, Within, Rowless, Periods!PassWrite, Periods!catalog
<1>. QED BY <1>1, <1>2, <1>3, <1>4, <1>5, <1>6

\* The ending reads the hash of the period it ends.
LEMMA PeriodFlushRead ==
    ASSUME PeriodInv, Periods!FlushRead
    PROVE  PeriodInv'
<1>. USE PeriodAssumption DEF PeriodInv
<1>1. PeriodTypes'
  <2>1. StoreTypes'
      BY DEF PeriodTypes, StoreTypes, Periods!FlushRead, Periods!catalog
  <2>2. EndingTypes'
      BY DEF PeriodTypes, EndingTypes, StoreTypes, PeriodStages, Periods!FlushRead,
         Periods!catalog, Periods!After
  <2>3. AdjustTypes'
      BY DEF PeriodTypes, AdjustTypes, Periods!FlushRead
  <2>4. PassTypes'
      BY DEF PeriodTypes, PassTypes, Periods!FlushRead
  <2>. QED BY <2>1, <2>2, <2>3, <2>4 DEF PeriodTypes
<1>2. OneStands'
    BY DEF OneStands, Standing, Between, PeriodTypes, EndingTypes, PeriodStages,
       Periods!FlushRead, Periods!catalog, Periods!After
<1>3. HashCounts'
    BY DEF HashCounts, Beginning, Standing, PeriodTypes, EndingTypes, OneStands,
       Periods!FlushRead, Periods!catalog
<1>4. RowsKeep'
    BY DEF RowsKeep, Copied, Periods!FlushRead, Periods!catalog
<1>5. RowsMade'
    BY DEF RowsMade, Rowless, Purged, PeriodTypes, EndingTypes, PeriodStages, Periods!FlushRead,
       Periods!catalog, Periods!After
<1>6. LimitsHold'
    BY DEF LimitsHold, Within, Rowless, PeriodTypes, EndingTypes, PeriodStages, Periods!FlushRead,
       Periods!catalog, Periods!After
<1>. QED BY <1>1, <1>2, <1>3, <1>4, <1>5, <1>6

\* The ending copies what it read to the row.
LEMMA PeriodFlushWrite ==
    ASSUME PeriodInv, Periods!FlushWrite
    PROVE  PeriodInv'
<1>. USE PeriodAssumption DEF PeriodInv
<1>1. PeriodTypes'
  <2>1. StoreTypes'
      BY DEF PeriodTypes, StoreTypes, EndingTypes, Periods!FlushWrite, Periods!catalog
  <2>2. EndingTypes'
      BY DEF PeriodTypes, EndingTypes, PeriodStages, Periods!FlushWrite, Periods!Step,
         Periods!After
  <2>3. AdjustTypes'
      BY DEF PeriodTypes, AdjustTypes, Periods!FlushWrite
  <2>4. PassTypes'
      BY DEF PeriodTypes, PassTypes, Periods!FlushWrite
  <2>. QED BY <2>1, <2>2, <2>3, <2>4 DEF PeriodTypes
<1>2. OneStands'
    BY DEF OneStands, Standing, Between, PeriodTypes, EndingTypes, PeriodStages,
       Periods!FlushWrite, Periods!catalog, Periods!Step, Periods!After
<1>3. HashCounts'
    BY DEF HashCounts, Beginning, Periods!FlushWrite, Periods!catalog, Periods!Step
<1>4. RowsKeep'
    BY DEF RowsKeep, Copied, HashCounts, PeriodTypes, StoreTypes, Periods!FlushWrite,
       Periods!catalog, Periods!Step
<1>5. RowsMade'
    BY DEF RowsMade, Rowless, Purged, PeriodTypes, EndingTypes, PeriodStages, Periods!FlushWrite,
       Periods!catalog, Periods!Step, Periods!After
<1>6. LimitsHold'
    BY DEF LimitsHold, Within, Rowless, PeriodTypes, EndingTypes, PeriodStages,
       Periods!FlushWrite, Periods!catalog, Periods!Step, Periods!After
<1>. QED BY <1>1, <1>2, <1>3, <1>4, <1>5, <1>6

\* The row of a subscription replaced by force goes.
LEMMA PeriodPurge ==
    ASSUME PeriodInv, Periods!Purge
    PROVE  PeriodInv'
<1>. USE PeriodAssumption DEF PeriodInv
<1>1. PeriodTypes'
  <2>1. StoreTypes'
      BY DEF PeriodTypes, StoreTypes, EndingTypes, Periods!Purge, Periods!catalog, Periods!NoRow
  <2>2. EndingTypes'
      BY DEF PeriodTypes, EndingTypes, PeriodStages, Periods!Purge, Periods!Step, Periods!After
  <2>3. AdjustTypes'
      BY DEF PeriodTypes, AdjustTypes, Periods!Purge
  <2>4. PassTypes'
      BY DEF PeriodTypes, PassTypes, Periods!Purge
  <2>. QED BY <2>1, <2>2, <2>3, <2>4 DEF PeriodTypes
<1>2. OneStands'
    BY DEF OneStands, Standing, Between, PeriodTypes, EndingTypes, PeriodStages, Periods!Purge,
       Periods!catalog, Periods!Step, Periods!After
<1>3. HashCounts'
    BY DEF HashCounts, Beginning, PeriodTypes, EndingTypes, PeriodStages, Periods!Purge,
       Periods!catalog, Periods!Step, Periods!After
<1>4. RowsKeep'
    BY DEF RowsKeep, Copied, Periods!Purge, Periods!catalog, Periods!NoRow, Periods!Step
<1>5. RowsMade'
  <2>1. /\ ending.kind = "force" /\ ending.sub \in PeriodSubs /\ state[ending.sub] = "active"
        /\ ending'.pc = "retire" /\ ending'.kind = "force" /\ ending'.sub = ending.sub
    BY DEF OneStands, Standing, PeriodTypes, EndingTypes, PeriodStages, Periods!Purge, Periods!Step,
       Periods!After
  <2>2. row' = [row EXCEPT ![ending.sub] = Periods!NoRow] /\ UNCHANGED <<state, adjust>> /\ ending.pc = "purge"
    BY DEF Periods!Purge, Periods!catalog
  <2>3. \A s \in PeriodSubs : row'[s].there <=> s # ending.sub /\ row[s].there
    BY <2>1, <2>2 DEF PeriodTypes, StoreTypes, Periods!NoRow
  <2>. QED BY <2>1, <2>2, <2>3 DEF RowsMade, Rowless, Purged
<1>6. LimitsHold'
    BY DEF LimitsHold, Within, Rowless, PeriodTypes, EndingTypes, RowsMade, PeriodStages,
       Periods!Purge, Periods!catalog, Periods!NoRow, Periods!Step, Periods!After
<1>. QED BY <1>1, <1>2, <1>3, <1>4, <1>5, <1>6

\* The old subscription is closed after its usage was copied.
LEMMA PeriodRetire ==
    ASSUME PeriodInv, Periods!Retire
    PROVE  PeriodInv'
<1>. USE PeriodAssumption DEF PeriodInv
<1>1. PeriodTypes'
  <2>1. StoreTypes'
      BY DEF PeriodTypes, StoreTypes, EndingTypes, PeriodStages, Periods!Retire, Periods!Retired
  <2>2. EndingTypes'
      BY DEF PeriodTypes, EndingTypes, PeriodStages, Periods!Retire, Periods!Retired, Periods!Step, Periods!After
  <2>3. AdjustTypes'
      BY DEF PeriodTypes, AdjustTypes, Periods!Retire
  <2>4. PassTypes'
      BY DEF PeriodTypes, PassTypes, Periods!Retire
  <2>. QED BY <2>1, <2>2, <2>3, <2>4 DEF PeriodTypes
<1>2. OneStands'
    BY DEF OneStands, Standing, PeriodTypes, StoreTypes, EndingTypes, PeriodStages,
       Periods!Retire, Periods!Retired, Periods!Step, Periods!After
<1>3. HashCounts'
    BY DEF HashCounts, Beginning, PeriodTypes, EndingTypes, PeriodStages, Periods!Retire, Periods!Retired,
       Periods!Step, Periods!After
<1>4. RowsKeep'
    BY DEF RowsKeep, Copied, Periods!Retire, Periods!Retired, Periods!Step
<1>5. RowsMade'
    BY DEF RowsMade, Rowless, Purged, OneStands, Standing, PeriodTypes, StoreTypes, EndingTypes, PeriodStages, Periods!Retire, Periods!Retired,
       Periods!Step, Periods!After
<1>6. LimitsHold'
    BY DEF LimitsHold, Within, Rowless, PeriodTypes, EndingTypes, PeriodStages, Periods!Retire, Periods!Retired,
       Periods!Step, Periods!After
<1>. QED BY <1>1, <1>2, <1>3, <1>4, <1>5, <1>6

\* The hash of the old period is dropped.
LEMMA PeriodDrop ==
    ASSUME PeriodInv, Periods!Drop
    PROVE  PeriodInv'
<1>. USE PeriodAssumption DEF PeriodInv
<1>1. PeriodTypes'
  <2>1. StoreTypes'
      BY DEF PeriodTypes, StoreTypes, Periods!Drop, Periods!catalog, Periods!NoHash
  <2>2. EndingTypes'
      BY DEF PeriodTypes, EndingTypes, PeriodStages, Periods!Drop, Periods!Step, Periods!After
  <2>3. AdjustTypes'
      BY DEF PeriodTypes, AdjustTypes, Periods!Drop
  <2>4. PassTypes'
      BY DEF PeriodTypes, PassTypes, Periods!Drop
  <2>. QED BY <2>1, <2>2, <2>3, <2>4 DEF PeriodTypes
<1>2. OneStands'
    BY DEF OneStands, Standing, Between, PeriodTypes, EndingTypes, PeriodStages, Periods!Drop,
       Periods!catalog, Periods!Step, Periods!After
<1>3. HashCounts'
    BY DEF HashCounts, PeriodTypes, EndingTypes, PeriodStages, Periods!Drop, Periods!NoHash,
       Periods!Step, Periods!After
<1>4. RowsKeep'
    BY DEF RowsKeep, Copied, Periods!Drop, Periods!catalog, Periods!Step
<1>5. RowsMade'
    BY DEF RowsMade, Rowless, Purged, PeriodTypes, EndingTypes, PeriodStages, Periods!Drop,
       Periods!catalog, Periods!Step, Periods!After
<1>6. LimitsHold'
    BY DEF LimitsHold, Within, Rowless, PeriodTypes, EndingTypes, PeriodStages, Periods!Drop,
       Periods!catalog, Periods!NoHash, Periods!Step, Periods!After
<1>. QED BY <1>1, <1>2, <1>3, <1>4, <1>5, <1>6

\* The next subscription begins, or there is none.
LEMMA PeriodPromote ==
    ASSUME PeriodInv, Periods!Promote
    PROVE  PeriodInv'
<1>. USE PeriodAssumption DEF PeriodInv
<1>1. /\ ending.pc = "promote"
      /\ UNCHANGED <<limit, row, hash, adjust, pass, charged, blurred>>
  BY DEF Periods!Promote
<1>2. CASE ending' = Periods!NoEnding /\ UNCHANGED state
  <2>1. PeriodTypes'
    BY <1>1, <1>2 DEF PeriodTypes, StoreTypes, EndingTypes, AdjustTypes, PassTypes, PeriodStages,
       Periods!NoEnding
  <2>2. OneStands'
    BY <1>1, <1>2 DEF OneStands, Standing, Between, Periods!NoEnding
  <2>3. HashCounts'
    BY <1>1, <1>2 DEF HashCounts, Beginning, Periods!NoEnding
  <2>4. RowsKeep'
    BY <1>1, <1>2 DEF RowsKeep, Copied, Periods!NoEnding
  <2>5. RowsMade'
    BY <1>1, <1>2 DEF RowsMade, Rowless, Purged, Periods!NoEnding
  <2>6. LimitsHold'
    BY <1>1, <1>2 DEF LimitsHold, Within, Rowless, Periods!NoEnding
  <2>. QED BY <2>1, <2>2, <2>3, <2>4, <2>5, <2>6
<1>3. ASSUME NEW s \in PeriodSubs, state[s] = "queued", state' = [state EXCEPT ![s] = "active"],
             ending' = [ending EXCEPT !.pc = "usage", !.sub = s, !.limit = limit[s]]
      PROVE  PeriodInv'
  <2>1. PeriodTypes'
    BY <1>1, <1>3 DEF PeriodTypes, StoreTypes, EndingTypes, AdjustTypes, PassTypes, PeriodStages
  <2>2. OneStands'
    BY <1>1, <1>3 DEF OneStands, Between, PeriodTypes, StoreTypes
  <2>3. HashCounts'
    BY <1>1, <1>3 DEF HashCounts, Beginning
  <2>4. RowsKeep'
    BY <1>1, <1>3 DEF RowsKeep, Copied
  <2>5. RowsMade'
    BY <1>1, <1>3 DEF RowsMade, Rowless, Purged
  <2>6. LimitsHold'
    BY <1>1, <1>3 DEF LimitsHold, Within, Rowless, PeriodTypes, StoreTypes
  <2>. QED BY <2>1, <2>2, <2>3, <2>4, <2>5, <2>6
<1>4. \/ ending' = Periods!NoEnding /\ UNCHANGED state
      \/ \E s \in PeriodSubs : /\ state[s] = "queued" /\ state' = [state EXCEPT ![s] = "active"]
                               /\ ending' = [ending EXCEPT !.pc = "usage", !.sub = s, !.limit = limit[s]]
  <2>1. Periods!Queue # {} => Periods!Min(Periods!Queue) \in Periods!Queue
    BY LeastOne DEF Periods!Queue
  <2>. QED BY <2>1 DEF Periods!Promote, Periods!Queue
<1>. QED BY <1>2, <1>3, <1>4

\* The next subscription begins, or there is none.
LEMMA PeriodGrant ==
    ASSUME PeriodInv, Periods!Grant
    PROVE  PeriodInv'
<1>. USE PeriodAssumption DEF PeriodInv
<1>1. /\ ending.pc = "grant"
      /\ UNCHANGED <<limit, row, hash, adjust, pass, charged, blurred>>
  BY DEF Periods!Grant
<1>2. CASE ending' = Periods!NoEnding /\ UNCHANGED state
  <2>1. PeriodTypes'
    BY <1>1, <1>2 DEF PeriodTypes, StoreTypes, EndingTypes, AdjustTypes, PassTypes, PeriodStages,
       Periods!NoEnding
  <2>2. OneStands'
    BY <1>1, <1>2 DEF OneStands, Standing, Between, Periods!NoEnding
  <2>3. HashCounts'
    BY <1>1, <1>2 DEF HashCounts, Beginning, Periods!NoEnding
  <2>4. RowsKeep'
    BY <1>1, <1>2 DEF RowsKeep, Copied, Periods!NoEnding
  <2>5. RowsMade'
    BY <1>1, <1>2 DEF RowsMade, Rowless, Purged, Periods!NoEnding
  <2>6. LimitsHold'
    BY <1>1, <1>2 DEF LimitsHold, Within, Rowless, Periods!NoEnding
  <2>. QED BY <2>1, <2>2, <2>3, <2>4, <2>5, <2>6
<1>3. ASSUME NEW s \in PeriodSubs, state[s] = "none", state' = [state EXCEPT ![s] = "active"],
             ending' = [ending EXCEPT !.pc = "usage", !.sub = s, !.limit = PlanLimit]
      PROVE  PeriodInv'
  <2>1. PeriodTypes'
    BY <1>1, <1>3 DEF PeriodTypes, StoreTypes, EndingTypes, AdjustTypes, PassTypes, PeriodStages
  <2>2. OneStands'
    BY <1>1, <1>3 DEF OneStands, Between, PeriodTypes, StoreTypes
  <2>3. HashCounts'
    BY <1>1, <1>3 DEF HashCounts, Beginning
  <2>4. RowsKeep'
    BY <1>1, <1>3 DEF RowsKeep, Copied
  <2>5. RowsMade'
    BY <1>1, <1>3 DEF RowsMade, Rowless, Purged
  <2>6. LimitsHold'
    BY <1>1, <1>3 DEF LimitsHold, Within, Rowless
  <2>. QED BY <2>1, <2>2, <2>3, <2>4, <2>5, <2>6
<1>4. \/ ending' = Periods!NoEnding /\ UNCHANGED state
      \/ \E s \in PeriodSubs : /\ state[s] = "none" /\ state' = [state EXCEPT ![s] = "active"]
                               /\ ending' = [ending EXCEPT !.pc = "usage", !.sub = s, !.limit = PlanLimit]
  <2>. DEFINE Unused == {s \in PeriodSubs : state[s] = "none"}
  <2>1. Unused # {} => Periods!Min(Unused) \in Unused
    BY LeastOne
  <2>. QED BY <2>1 DEF Periods!Grant
<1>. QED BY <1>2, <1>3, <1>4

\* The new period gets its row.
LEMMA PeriodMakeUsage ==
    ASSUME PeriodInv, Periods!MakeUsage
    PROVE  PeriodInv'
<1>. USE PeriodAssumption DEF PeriodInv
<1>1. PeriodTypes'
  <2>1. StoreTypes'
      BY DEF PeriodTypes, StoreTypes, EndingTypes, AdjustTypes, PassTypes, Periods!MakeUsage,
         Periods!catalog, Periods!NoRow, Periods!Step
  <2>2. EndingTypes'
      BY DEF PeriodTypes, EndingTypes, PeriodStages, Periods!MakeUsage, Periods!Step
  <2>3. AdjustTypes'
      BY DEF PeriodTypes, AdjustTypes, Periods!MakeUsage
  <2>4. PassTypes'
      BY DEF PeriodTypes, PassTypes, Periods!MakeUsage
  <2>. QED BY <2>1, <2>2, <2>3, <2>4 DEF PeriodTypes
<1>2. OneStands'
    BY DEF OneStands, Standing, Between, Periods!MakeUsage, Periods!catalog, Periods!Step
<1>3. HashCounts'
    BY DEF HashCounts, Beginning, Periods!MakeUsage, Periods!catalog, Periods!Step
<1>4. RowsKeep'
    BY DEF RowsKeep, Copied, OneStands, Standing, Periods!MakeUsage, Periods!catalog, Periods!Step
<1>5. RowsMade'
    BY DEF RowsMade, Rowless, Purged, PeriodTypes, StoreTypes, OneStands, Standing, Periods!MakeUsage, Periods!catalog,
       Periods!Step
<1>6. LimitsHold'
    BY DEF LimitsHold, Within, Rowless, RowsMade, Periods!MakeUsage, Periods!catalog, Periods!Step
<1>. QED BY <1>1, <1>2, <1>3, <1>4, <1>5, <1>6

\* The new period gets its hash, with nothing used.
LEMMA PeriodResetHash ==
    ASSUME PeriodInv, Periods!ResetHash
    PROVE  PeriodInv'
<1>. USE PeriodAssumption DEF PeriodInv
<1>1. PeriodTypes'
  <2>1. StoreTypes'
      BY DEF PeriodTypes, StoreTypes, EndingTypes, Periods!ResetHash, Periods!catalog
  <2>2. EndingTypes'
      BY DEF EndingTypes, PeriodStages, Periods!ResetHash, Periods!NoEnding
  <2>3. AdjustTypes'
      BY DEF PeriodTypes, AdjustTypes, Periods!ResetHash
  <2>4. PassTypes'
      BY DEF PeriodTypes, PassTypes, Periods!ResetHash
  <2>. QED BY <2>1, <2>2, <2>3, <2>4 DEF PeriodTypes
<1>2. OneStands'
    BY DEF OneStands, Standing, Between, Periods!ResetHash, Periods!catalog, Periods!NoEnding
<1>3. HashCounts'
    BY DEF HashCounts, Standing, PeriodTypes, StoreTypes, EndingTypes, OneStands,
       Periods!ResetHash, Periods!catalog, Periods!NoEnding
<1>4. RowsKeep'
    BY DEF RowsKeep, Copied, StoreTypes, Periods!ResetHash, Periods!catalog, Periods!NoEnding
<1>5. RowsMade'
    BY DEF RowsMade, Rowless, Purged, Periods!ResetHash, Periods!catalog, Periods!NoEnding
<1>6. LimitsHold'
    BY DEF LimitsHold, Within, Rowless, Periods!ResetHash, Periods!catalog, Periods!NoEnding
<1>. QED BY <1>1, <1>2, <1>3, <1>4, <1>5, <1>6

\* The head of the queue is promoted when nothing is active.
LEMMA PeriodPromoteDue ==
    ASSUME PeriodInv, Periods!PromoteDue
    PROVE  PeriodInv'
<1>. USE PeriodAssumption DEF PeriodInv
<1>0. PICK n \in Nat : ending' = [kind |-> "expire", pc |-> "promote", sub |-> n, used |-> 0, limit |-> 0]
  <2>1. Periods!Queue # {} /\ Periods!Queue \subseteq Nat \ {0}
    BY DEF Periods!PromoteDue, Periods!Queue
  <2>2. Periods!Min(Periods!Queue) \in Periods!Queue
    BY <2>1, LeastOne
  <2>3. PICK m \in Nat \ {0} : m = Periods!Min(Periods!Queue)
    BY <2>1, <2>2
  <2>. QED BY <2>3, m - 1 \in Nat DEF Periods!PromoteDue, Periods!NoEnding
<1>1. PeriodTypes'
  <2>1. StoreTypes'
      BY <1>0 DEF PeriodTypes, StoreTypes, Periods!PromoteDue
  <2>2. EndingTypes'
      BY <1>0 DEF EndingTypes, PeriodStages
  <2>3. AdjustTypes'
      BY <1>0 DEF PeriodTypes, AdjustTypes, Periods!PromoteDue
  <2>4. PassTypes'
      BY <1>0 DEF PeriodTypes, PassTypes, Periods!PromoteDue
  <2>. QED BY <2>1, <2>2, <2>3, <2>4 DEF PeriodTypes
<1>2. OneStands'
    BY <1>0 DEF OneStands, Standing, Periods!PromoteDue, Periods!Active
<1>3. HashCounts'
    BY <1>0 DEF HashCounts, Beginning, Periods!PromoteDue
<1>4. RowsKeep'
    BY <1>0 DEF RowsKeep, Copied, Periods!PromoteDue
<1>5. RowsMade'
    BY <1>0 DEF RowsMade, Rowless, Purged, Periods!PromoteDue
<1>6. LimitsHold'
    BY <1>0 DEF LimitsHold, Within, Rowless, Periods!PromoteDue
<1>. QED BY <1>1, <1>2, <1>3, <1>4, <1>5, <1>6

\* The limit of a queued subscription is adjusted in the catalogue alone.
LEMMA PeriodAdjustFeatures ==
    ASSUME PeriodInv, Periods!AdjustFeatures
    PROVE  PeriodInv'
<1>. USE PeriodAssumption DEF PeriodInv
<1>1. PeriodTypes'
  <2>1. StoreTypes'
      BY DEF PeriodTypes, StoreTypes, AdjustTypes, Periods!AdjustFeatures
  <2>2. EndingTypes'
      BY DEF PeriodTypes, EndingTypes, Periods!AdjustFeatures
  <2>3. AdjustTypes'
      BY DEF AdjustTypes, Periods!AdjustFeatures, Periods!NoAdjust
  <2>4. PassTypes'
      BY DEF PeriodTypes, PassTypes, Periods!AdjustFeatures
  <2>. QED BY <2>1, <2>2, <2>3, <2>4 DEF PeriodTypes
<1>2. OneStands'
    BY DEF OneStands, Standing, Between, Periods!AdjustFeatures
<1>3. HashCounts'
    BY DEF HashCounts, Beginning, Periods!AdjustFeatures
<1>4. RowsKeep'
    BY DEF RowsKeep, Copied, Periods!AdjustFeatures
<1>5. RowsMade'
    BY DEF RowsMade, Rowless, Purged, Periods!AdjustFeatures, Periods!NoAdjust
<1>6. LimitsHold'
    BY DEF LimitsHold, Within, Rowless, PeriodTypes, StoreTypes, EndingTypes, AdjustTypes,
       Periods!AdjustFeatures, Periods!NoAdjust
<1>. QED BY <1>1, <1>2, <1>3, <1>4, <1>5, <1>6

\* An adjustment reads the row.
LEMMA PeriodAdjustUsage ==
    ASSUME PeriodInv, Periods!AdjustUsage
    PROVE  PeriodInv'
<1>. USE PeriodAssumption DEF PeriodInv
<1>0. \/ adjust' = Periods!NoAdjust
      \/ adjust' = [pc |-> "live", sub |-> adjust.sub, was |-> adjust.was,
                    used |-> row[adjust.sub].used, limit |-> row[adjust.sub].limit + Delta]
  BY DEF PeriodTypes, AdjustTypes, Periods!AdjustUsage
<1>00. /\ row[adjust.sub].used \in Nat /\ row[adjust.sub].limit + Delta \in Nat
       /\ adjust.was \in {"none", "queued", "active", "expired"} /\ adjust.sub \in PeriodSubs
  BY DEF PeriodTypes, AdjustTypes, StoreTypes, Periods!AdjustUsage
<1>1. PeriodTypes'
  <2>1. StoreTypes'
      BY <1>0, <1>00 DEF PeriodTypes, StoreTypes, Periods!AdjustUsage, Periods!catalog
  <2>2. EndingTypes'
      BY <1>0, <1>00 DEF PeriodTypes, EndingTypes, Periods!AdjustUsage
  <2>3. AdjustTypes'
      BY <1>0, <1>00 DEF PeriodTypes, AdjustTypes, Periods!NoAdjust
  <2>4. PassTypes'
      BY <1>0, <1>00 DEF PeriodTypes, PassTypes, Periods!AdjustUsage
  <2>. QED BY <2>1, <2>2, <2>3, <2>4 DEF PeriodTypes
<1>2. OneStands'
    BY <1>0, <1>00 DEF OneStands, Standing, Between, Periods!AdjustUsage, Periods!catalog
<1>3. HashCounts'
    BY <1>0, <1>00 DEF HashCounts, Beginning, Periods!AdjustUsage, Periods!catalog
<1>4. RowsKeep'
    BY <1>0, <1>00 DEF RowsKeep, Copied, Periods!AdjustUsage, Periods!catalog
<1>5. RowsMade'
    BY <1>0, <1>00 DEF RowsMade, Rowless, Purged, Periods!AdjustUsage, Periods!catalog, Periods!NoAdjust
<1>6. LimitsHold'
    BY <1>0, <1>00 DEF LimitsHold, Within, Rowless, PeriodTypes, StoreTypes, Periods!AdjustUsage,
       Periods!catalog, Periods!NoAdjust
<1>. QED BY <1>1, <1>2, <1>3, <1>4, <1>5, <1>6

\* An adjustment reads the hash, and stops if more was used than it allows.
LEMMA PeriodAdjustLive ==
    ASSUME PeriodInv, Periods!AdjustLive
    PROVE  PeriodInv'
<1>. USE PeriodAssumption DEF PeriodInv
<1>1. PeriodTypes'
  <2>1. StoreTypes'
      BY DEF PeriodTypes, StoreTypes, Periods!AdjustLive, Periods!catalog
  <2>2. EndingTypes'
      BY DEF PeriodTypes, EndingTypes, Periods!AdjustLive
  <2>3. AdjustTypes'
      BY DEF PeriodTypes, AdjustTypes, StoreTypes, Periods!AdjustLive, Periods!catalog,
         Periods!NoAdjust
  <2>4. PassTypes'
      BY DEF PeriodTypes, PassTypes, Periods!AdjustLive
  <2>. QED BY <2>1, <2>2, <2>3, <2>4 DEF PeriodTypes
<1>2. OneStands'
    BY DEF OneStands, Standing, Between, Periods!AdjustLive, Periods!catalog
<1>3. HashCounts'
    BY DEF HashCounts, Beginning, Periods!AdjustLive, Periods!catalog
<1>4. RowsKeep'
    BY DEF RowsKeep, Copied, Periods!AdjustLive, Periods!catalog
<1>5. RowsMade'
    BY DEF RowsMade, Rowless, Purged, Periods!AdjustLive, Periods!catalog, Periods!NoAdjust
<1>6. LimitsHold'
    BY DEF LimitsHold, Within, Rowless, Periods!AdjustLive, Periods!catalog, Periods!NoAdjust
<1>. QED BY <1>1, <1>2, <1>3, <1>4, <1>5, <1>6

\* An adjustment writes its limit to the row.
LEMMA PeriodAdjustRow ==
    ASSUME PeriodInv, Periods!AdjustRow
    PROVE  PeriodInv'
<1>. USE PeriodAssumption DEF PeriodInv
<1>1. PeriodTypes'
  <2>1. StoreTypes'
      BY DEF PeriodTypes, StoreTypes, AdjustTypes, Periods!AdjustRow, Periods!catalog
  <2>2. EndingTypes'
      BY DEF PeriodTypes, EndingTypes, Periods!AdjustRow
  <2>3. AdjustTypes'
      BY DEF PeriodTypes, AdjustTypes, Periods!AdjustRow, Periods!NoAdjust
  <2>4. PassTypes'
      BY DEF PeriodTypes, PassTypes, Periods!AdjustRow
  <2>. QED BY <2>1, <2>2, <2>3, <2>4 DEF PeriodTypes
<1>2. OneStands'
    BY DEF OneStands, Standing, Between, Periods!AdjustRow, Periods!catalog
<1>3. HashCounts'
    BY DEF HashCounts, Beginning, Periods!AdjustRow, Periods!catalog
<1>4. RowsKeep'
    BY DEF RowsKeep, Copied, Periods!AdjustRow, Periods!catalog
<1>5. RowsMade'
    BY DEF RowsMade, Rowless, Purged, Periods!AdjustRow, Periods!catalog, Periods!NoAdjust
<1>6. LimitsHold'
    BY DEF LimitsHold, Within, Rowless, PeriodTypes, StoreTypes, AdjustTypes, Periods!AdjustRow,
       Periods!catalog, Periods!NoAdjust
<1>. QED BY <1>1, <1>2, <1>3, <1>4, <1>5, <1>6

\* An adjustment of an active subscription writes the hash, last.
LEMMA PeriodAdjustHash ==
    ASSUME PeriodInv, Periods!AdjustHash
    PROVE  PeriodInv'
<1>. USE PeriodAssumption DEF PeriodInv
<1>1. PeriodTypes'
  <2>1. StoreTypes'
      BY DEF PeriodTypes, StoreTypes, AdjustTypes, Periods!AdjustHash, Periods!catalog
  <2>2. EndingTypes'
      BY DEF PeriodTypes, EndingTypes, Periods!AdjustHash
  <2>3. AdjustTypes'
      BY DEF AdjustTypes, Periods!AdjustHash, Periods!NoAdjust
  <2>4. PassTypes'
      BY DEF PeriodTypes, PassTypes, Periods!AdjustHash
  <2>. QED BY <2>1, <2>2, <2>3, <2>4 DEF PeriodTypes
<1>2. OneStands'
    BY DEF OneStands, Standing, Between, Periods!AdjustHash, Periods!catalog
<1>3. HashCounts'
  <2>1. hash' = [live |-> TRUE, limit |-> adjust.limit, used |-> adjust.used, of |-> adjust.sub]
    BY DEF Periods!AdjustHash
  <2>2. UNCHANGED <<state, ending, charged>>
    BY DEF Periods!AdjustHash, Periods!catalog
  <2>3. CASE /\ adjust.used = charged[adjust.sub] /\ hash.of \in {0, adjust.sub} /\ UNCHANGED blurred
             /\ state[adjust.sub] = "active"
    BY <2>1, <2>2, <2>3 DEF HashCounts, OneStands, PeriodTypes, AdjustTypes, Periods!AdjustHash
  <2>4. CASE /\ blurred \subseteq blurred' /\ adjust.sub \in blurred'
             /\ \A s \in PeriodSubs : state[s] = "active" => s \in blurred'
    BY <2>1, <2>2, <2>4 DEF HashCounts
  <2>. QED BY <2>3, <2>4, PeriodSubs \subseteq Nat \ {0}
           DEF Periods!AdjustHash, Periods!Active, PeriodTypes, AdjustTypes
<1>4. RowsKeep'
    BY DEF RowsKeep, Copied, PeriodTypes, Periods!AdjustHash, Periods!catalog
<1>5. RowsMade'
    BY DEF RowsMade, Rowless, Purged, Periods!AdjustHash, Periods!catalog, Periods!NoAdjust
<1>6. LimitsHold'
    BY DEF LimitsHold, Within, Rowless, RowsMade, Periods!AdjustHash, Periods!catalog,
       Periods!NoAdjust
<1>. QED BY <1>1, <1>2, <1>3, <1>4, <1>5, <1>6

\* A lookup refills the hash of the active period.
LEMMA PeriodRefill ==
    ASSUME PeriodInv, NEW s \in PeriodSubs, Periods!Refill(s)
    PROVE  PeriodInv'
<1>. USE PeriodAssumption DEF PeriodInv
<1>0. PICK seed \in Nat :
        /\ hash' = [live |-> TRUE, limit |-> limit[s], used |-> seed, of |-> s]
        /\ blurred' = IF seed # charged[s] THEN blurred \union {s} ELSE blurred
  <2>1. row[s].used \in Nat /\ charged[s] \in Nat
    BY DEF PeriodTypes, StoreTypes
  <2>. QED BY <2>1, LargerOne DEF Periods!Refill
<1>1. PeriodTypes'
  <2>1. StoreTypes'
      BY <1>0 DEF PeriodTypes, StoreTypes, PassTypes, Periods!Refill, Periods!catalog
  <2>2. EndingTypes'
      BY <1>0 DEF PeriodTypes, EndingTypes, Periods!Refill
  <2>3. AdjustTypes'
      BY <1>0 DEF PeriodTypes, AdjustTypes, Periods!Refill
  <2>4. PassTypes'
      BY <1>0 DEF PeriodTypes, PassTypes, Periods!Refill
  <2>. QED BY <2>1, <2>2, <2>3, <2>4 DEF PeriodTypes
<1>2. OneStands'
    BY <1>0 DEF OneStands, Standing, Between, Periods!Refill, Periods!catalog
<1>3. HashCounts'
    BY <1>0 DEF HashCounts, OneStands, Periods!Refill, Periods!catalog
<1>4. RowsKeep'
    BY <1>0 DEF RowsKeep, Copied, Periods!Refill, Periods!catalog
<1>5. RowsMade'
    BY <1>0 DEF RowsMade, Rowless, Purged, Periods!Refill, Periods!catalog
<1>6. LimitsHold'
    BY <1>0 DEF LimitsHold, Within, Rowless, PeriodTypes, StoreTypes, Periods!Refill,
       Periods!catalog
<1>. QED BY <1>1, <1>2, <1>3, <1>4, <1>5, <1>6

\* An adjustment finds a subscription that was not cancelled.
LEMMA PeriodAdjustFind ==
    ASSUME PeriodInv, NEW s \in PeriodSubs, Periods!AdjustFind(s)
    PROVE  PeriodInv'
<1>. USE PeriodAssumption DEF PeriodInv
<1>01. state[s] \in {"queued", "active", "expired"}
  BY DEF Periods!AdjustFind
<1>02. limit[s] + Delta \in Nat
  BY DEF PeriodTypes, StoreTypes
<1>0. adjust' = [pc |-> IF state[s] = "queued" THEN "features" ELSE "usage", sub |-> s,
                 was |-> state[s], used |-> 0, limit |-> limit[s] + Delta]
  BY DEF Periods!AdjustFind, Periods!NoAdjust
<1>1. PeriodTypes'
  <2>1. StoreTypes'
      BY <1>0, <1>01, <1>02 DEF PeriodTypes, StoreTypes, Periods!AdjustFind, Periods!catalog
  <2>2. EndingTypes'
      BY <1>0, <1>01, <1>02 DEF PeriodTypes, EndingTypes, Periods!AdjustFind
  <2>3. AdjustTypes'
    <3>1. s \in Nat /\ state[s] \in {"none", "queued", "active", "expired"}
      BY <1>01
    <3>. QED BY <1>0, <1>02, <3>1 DEF AdjustTypes
  <2>4. PassTypes'
      BY <1>0, <1>01, <1>02 DEF PeriodTypes, PassTypes, Periods!AdjustFind
  <2>. QED BY <2>1, <2>2, <2>3, <2>4 DEF PeriodTypes
<1>2. OneStands'
    BY <1>0, <1>01, <1>02 DEF OneStands, Standing, Between, Periods!AdjustFind, Periods!catalog
<1>3. HashCounts'
    BY <1>0, <1>01, <1>02 DEF HashCounts, Beginning, Periods!AdjustFind, Periods!catalog
<1>4. RowsKeep'
    BY <1>0, <1>01, <1>02 DEF RowsKeep, Copied, Periods!AdjustFind, Periods!catalog
<1>5. RowsMade'
    BY <1>0, <1>01, <1>02 DEF RowsMade, Rowless, Purged, Periods!AdjustFind, Periods!catalog
<1>6. LimitsHold'
    BY <1>0, <1>01, <1>02 DEF LimitsHold, Within, Rowless, PeriodTypes, StoreTypes,
       Periods!AdjustFind, Periods!catalog
<1>. QED BY <1>1, <1>2, <1>3, <1>4, <1>5, <1>6

\* An ending begins with the active subscription.
LEMMA PeriodEnd ==
    ASSUME PeriodInv, NEW s \in PeriodSubs, NEW kind \in DOMAIN Periods!First, Periods!End(kind,s)
    PROVE  PeriodInv'
<1>. USE PeriodAssumption DEF PeriodInv
<1>01. kind \in {"cancel", "expire", "force", "recreate"}
  BY Zenon DEF Periods!First
<1>02. Periods!First[kind] = IF kind = "recreate" THEN "retire" ELSE "read"
  BY <1>01 DEF Periods!First
<1>0. ending' = [kind |-> kind, pc |-> IF kind = "recreate" THEN "retire" ELSE "read", sub |-> s,
                 used |-> 0, limit |-> 0]
  BY <1>02 DEF Periods!End, Periods!NoEnding
<1>1. PeriodTypes'
  <2>1. StoreTypes'
      BY <1>0, <1>01 DEF PeriodTypes, StoreTypes, Periods!End, Periods!catalog
  <2>2. EndingTypes'
      BY <1>0, <1>01 DEF EndingTypes, PeriodStages, Periods!First
  <2>3. AdjustTypes'
      BY <1>0, <1>01 DEF PeriodTypes, AdjustTypes, Periods!End
  <2>4. PassTypes'
      BY <1>0, <1>01 DEF PeriodTypes, PassTypes, Periods!End
  <2>. QED BY <2>1, <2>2, <2>3, <2>4 DEF PeriodTypes
<1>2. OneStands'
    BY <1>0, <1>01 DEF OneStands, Between, Periods!End, Periods!catalog, Periods!First
<1>3. HashCounts'
    BY <1>0, <1>01 DEF HashCounts, Beginning, Periods!End, Periods!catalog, Periods!First
<1>4. RowsKeep'
    BY <1>0, <1>01 DEF RowsKeep, Copied, Periods!End, Periods!catalog, Periods!First
<1>5. RowsMade'
    BY <1>0, <1>01 DEF RowsMade, Rowless, Purged, Periods!End, Periods!catalog, Periods!First
<1>6. LimitsHold'
    BY <1>0, <1>01 DEF LimitsHold, Within, Rowless, Periods!End, Periods!catalog, Periods!First
<1>. QED BY <1>1, <1>2, <1>3, <1>4, <1>5, <1>6

\* Every step of the periods keeps their invariant.
LEMMA PeriodStep == PeriodInv /\ [Periods!Next]_(Periods!vars) => PeriodInv'
<1>. SUFFICES ASSUME PeriodInv, [Periods!Next]_(Periods!vars) PROVE PeriodInv'
  OBVIOUS
<1>1. CASE UNCHANGED Periods!vars
  BY <1>1 DEF Periods!vars, Periods!catalog, PeriodInv, PeriodTypes, StoreTypes, EndingTypes,
     AdjustTypes, PassTypes, OneStands, Standing, Between, HashCounts, Beginning, RowsKeep,
     Copied, RowsMade, Rowless, Purged, LimitsHold, Within
<1>2. CASE Periods!Next
  BY <1>2, PeriodCharge, PeriodEvict, PeriodLapse, PeriodPassFind, PeriodPassRead, PeriodPassWrite,
     PeriodFlushRead, PeriodFlushWrite, PeriodPurge, PeriodRetire, PeriodDrop, PeriodPromote,
     PeriodGrant, PeriodMakeUsage, PeriodResetHash, PeriodPromoteDue, PeriodAdjustFeatures,
     PeriodAdjustUsage, PeriodAdjustLive, PeriodAdjustRow, PeriodAdjustHash, PeriodRefill,
     PeriodAdjustFind, PeriodEnd DEF Periods!Next
<1>. QED BY <1>1, <1>2

\* The periods start in their invariant.
LEMMA PeriodStart == Periods!Init => PeriodInv
<1>. SUFFICES ASSUME Periods!Init PROVE PeriodInv
  OBVIOUS
<1>. USE PeriodAssumption DEF Periods!Init, Periods!NoRow, Periods!NoEnding, Periods!NoAdjust,
         Periods!NoPass
<1>1. /\ \A s \in PeriodSubs : /\ state[s] \in {"none", "queued", "active"}
                             /\ state[s] = "active" <=> s = 1
      /\ state \in [PeriodSubs -> {"none", "queued", "active"}]
  OBVIOUS
<1>2. StoreTypes
  BY <1>1 DEF StoreTypes
<1>3. EndingTypes /\ AdjustTypes /\ PassTypes
  BY DEF EndingTypes, PeriodStages, AdjustTypes, PassTypes
<1>4. OneStands
  BY <1>1 DEF OneStands, Standing, Between
<1>5. HashCounts
  BY <1>1 DEF HashCounts
<1>6. RowsKeep
  BY <1>1 DEF RowsKeep
<1>7. RowsMade
  BY <1>1 DEF RowsMade, Rowless, Purged
<1>8. LimitsHold
  BY <1>1 DEF LimitsHold, Within
<1>. QED BY <1>2, <1>3, <1>4, <1>5, <1>6, <1>7, <1>8 DEF PeriodInv, PeriodTypes

\* The invariant of the periods implies that the row of a period that is over tells its
\* usage, unless it was replaced by force, and that a row tells no more than was granted.
LEMMA PeriodEnds == PeriodInv => Periods!PeriodsAddUp
<1>. SUFFICES ASSUME PeriodInv, NEW s \in PeriodSubs
              PROVE  /\ state[s] \in Periods!Ended \ {"forced"} =>
                           row[s].there /\ (s \notin blurred => row[s].used = charged[s])
                     /\ state[s] = "forced" => ~row[s].there
                     /\ row[s].there /\ s \notin blurred =>
                           charged[s] <= Periods!Max({row[s].limit, limit[s]})
  BY DEF Periods!PeriodsAddUp
<1>1. ASSUME state[s] \in Periods!Ended \ {"forced"}
      PROVE  row[s].there /\ (s \notin blurred => row[s].used = charged[s])
  <2>1. ~Rowless(s) /\ ~Purged(s)
    BY <1>1 DEF PeriodInv, OneStands, Standing, Rowless, Purged, Periods!Ended
  <2>2. row[s].there
    BY <2>1 DEF PeriodInv, RowsMade
  <2>3. s \notin blurred => row[s].used = charged[s]
    BY <1>1, <2>2 DEF PeriodInv, RowsKeep, Copied, Periods!Ended
  <2>. QED BY <2>2, <2>3
<1>2. state[s] = "forced" => ~row[s].there
  BY DEF PeriodInv, RowsMade, Purged
<1>3. ASSUME row[s].there, s \notin blurred
      PROVE  charged[s] <= Periods!Max({row[s].limit, limit[s]})
  <2>1. charged[s] <= limit[s] \/ charged[s] <= row[s].limit
    BY <1>3 DEF PeriodInv, LimitsHold, Within
  <2>2. charged[s] \in Nat /\ limit[s] \in Nat /\ row[s].limit \in Nat
    BY DEF PeriodInv, PeriodTypes, StoreTypes
  <2>. QED BY <2>1, <2>2, LargerOne
<1>. QED BY <1>1, <1>2, <1>3

-----------------------------------------------------------------------------
(* Alerts.                                                                 *)

\* The types of the alerts.
AlertTypes ==
    /\ alertRow \in [there : BOOLEAN, used : Nat, limit : Nat, level : Nat]
    /\ check \in [Checkers -> [pc : {"idle", "read", "tell", "mark"}, level : Nat]]
    /\ note \in [level : Nat, read : BOOLEAN]

\* A level that a run is about to write was told.
LevelsTold ==
    /\ alertRow.level \in levels \union {0}
    /\ \A w \in Checkers : check[w].pc = "mark" => check[w].level \in levels

\* A run that is alone raises the notification before the row.
AloneRaises ==
    ~crowded =>
      /\ \A v, w \in Checkers : check[v].pc # "idle" /\ check[w].pc # "idle" => v = w
      /\ alertRow.level <= note.level
      /\ \A w \in Checkers : /\ check[w].pc = "tell" => alertRow.level < check[w].level
                             /\ check[w].pc = "mark" => check[w].level = note.level

\* While no run told a lower level after a higher one, the row is behind the notification.
RowFollows ==
    ~lowered => /\ alertRow.level <= note.level
                /\ \A w \in Checkers : check[w].pc = "mark" => check[w].level <= note.level

\* The inductive invariant of the alerts.
AlertInv == AlertTypes /\ LevelsTold /\ AloneRaises /\ RowFollows

\* The level a usage has crossed is a natural number.
LEMMA CrossedType == Alerts!Crossed \in Nat
<1>. DEFINE S == {t \in Thresholds : 100 * alertRow.used >= t * alertRow.limit} \union {0}
<1>1. S \in SUBSET Nat /\ S # {} /\ IsFiniteSet(S)
  <2>1. IsFiniteSet(Thresholds \union {0})
    BY AlertAssumption, FS_AddElement
  <2>2. S \in SUBSET (Thresholds \union {0})
    OBVIOUS
  <2>3. IsFiniteSet(S)
    <3>. HIDE DEF S
    <3>. QED BY <2>1, <2>2, FS_Subset
  <2>4. S \in SUBSET Nat
    <3>. HIDE DEF S
    <3>. QED BY <2>2, AlertAssumption
  <2>5. 0 \in S
    OBVIOUS
  <2>. QED BY <2>3, <2>4, <2>5
<1>2. \E m \in S : \A t \in S : m >= t
  BY <1>1, LargestExists
<1>3. Alerts!Max(S) \in S
  BY <1>2 DEF Alerts!Max
<1>. QED BY <1>1, <1>3 DEF Alerts!Crossed

\* A run takes the job up.
LEMMA AlertLook ==
    ASSUME AlertInv, NEW w \in Checkers, Alerts!Look(w)
    PROVE  AlertInv'
<1>1. AlertTypes'
  BY DEF AlertInv, AlertTypes, Alerts!Look
<1>2. LevelsTold'
  BY DEF AlertInv, AlertTypes, LevelsTold, Alerts!Look
<1>3. AloneRaises'
  BY DEF AlertInv, AlertTypes, AloneRaises, Alerts!Look
<1>4. RowFollows'
  BY DEF AlertInv, AlertTypes, RowFollows, Alerts!Look
<1>. QED BY <1>1, <1>2, <1>3, <1>4 DEF AlertInv

\* A run reads the row, and goes on when a higher level was crossed.
LEMMA AlertRead ==
    ASSUME AlertInv, NEW w \in Checkers, Alerts!Read(w)
    PROVE  AlertInv'
<1>1. CASE /\ check' = [check EXCEPT ![w] = [pc |-> "tell", level |-> Alerts!Crossed]]
           /\ alertRow.level < Alerts!Crossed
  BY <1>1, CrossedType DEF AlertInv, AlertTypes, LevelsTold, AloneRaises, RowFollows, Alerts!Read
<1>2. CASE check' = [check EXCEPT ![w] = Alerts!Resting]
  BY <1>2 DEF AlertInv, AlertTypes, LevelsTold, AloneRaises, RowFollows, Alerts!Read, Alerts!Resting
<1>. QED BY <1>1, <1>2 DEF Alerts!Read

\* A run raises the one notification to the level it read.
LEMMA AlertTell ==
    ASSUME AlertInv, NEW w \in Checkers, Alerts!Tell(w)
    PROVE  AlertInv'
<1>1. AlertTypes' /\ LevelsTold' /\ AloneRaises'
  BY DEF AlertInv, AlertTypes, LevelsTold, AloneRaises, Alerts!Tell
<1>2. RowFollows'
  <2>1. check[w].level \in Nat /\ note.level \in Nat /\ alertRow.level \in Nat
        /\ \A v \in Checkers : check[v].level \in Nat
    BY DEF AlertInv, AlertTypes
  <2>2. ~lowered' => ~lowered /\ ~(check[w].level < note.level)
    BY DEF Alerts!Tell
  <2>3. /\ \A v \in Checkers : v # w => check'[v] = check[v]
        /\ check'[w] = [check[w] EXCEPT !.pc = "mark"]
    BY DEF AlertInv, AlertTypes, Alerts!Tell
  <2>4. note'.level = check[w].level /\ alertRow' = alertRow
    BY DEF Alerts!Tell
  <2>5. check'[w].level = check[w].level
    BY <2>3 DEF AlertInv, AlertTypes
  <2>. SUFFICES ASSUME ~lowered'
                PROVE  /\ alertRow.level <= check[w].level
                       /\ \A v \in Checkers : check'[v].pc = "mark" => check'[v].level <= check[w].level
    BY <2>4 DEF RowFollows
  <2>6. /\ note.level <= check[w].level /\ alertRow.level <= note.level
        /\ \A v \in Checkers : check[v].pc = "mark" => check[v].level <= note.level
    BY <2>1, <2>2 DEF AlertInv, RowFollows
  <2>7. ASSUME NEW v \in Checkers, check'[v].pc = "mark" PROVE check'[v].level <= check[w].level
    <3>1. CASE v = w
      BY <2>1, <2>5, <3>1
    <3>2. CASE v # w
      <4>1. check[v].pc = "mark" /\ check'[v].level = check[v].level
        BY <2>3, <2>7, <3>2
      <4>. QED BY <2>1, <2>6, <4>1
    <3>. QED BY <3>1, <3>2
  <2>8. alertRow.level <= check[w].level
    BY <2>1, <2>6
  <2>. QED BY <2>7, <2>8
<1>. QED BY <1>1, <1>2 DEF AlertInv

\* A run writes the level it told to the row.
LEMMA AlertMark ==
    ASSUME AlertInv, NEW w \in Checkers, Alerts!Mark(w)
    PROVE  AlertInv'
BY DEF AlertInv, AlertTypes, LevelsTold, AloneRaises, RowFollows, Alerts!Mark, Alerts!Resting

\* A run is given up, and tells no more.
LEMMA AlertFails ==
    ASSUME AlertInv, NEW w \in Checkers, Alerts!CheckFails(w)
    PROVE  AlertInv'
BY DEF AlertInv, AlertTypes, LevelsTold, AloneRaises, RowFollows, Alerts!CheckFails, Alerts!Resting

\* Usage, limits, reading and the end of a period leave the runs alone.
LEMMA AlertElsewhere ==
    ASSUME AlertInv, Alerts!Mirror \/ Alerts!Raise \/ Alerts!ReadNote \/ (\E purged \in BOOLEAN : Alerts!Finish(purged))
    PROVE  AlertInv'
<1>1. CASE Alerts!Mirror
  BY <1>1, AlertAssumption DEF AlertInv, AlertTypes, LevelsTold, AloneRaises, RowFollows, Alerts!Mirror
<1>2. CASE Alerts!Raise
  BY <1>2, AlertAssumption DEF AlertInv, AlertTypes, LevelsTold, AloneRaises, RowFollows, Alerts!Raise
<1>3. CASE Alerts!ReadNote
  BY <1>3 DEF AlertInv, AlertTypes, LevelsTold, AloneRaises, RowFollows, Alerts!ReadNote
<1>4. CASE \E purged \in BOOLEAN : Alerts!Finish(purged)
  <2>1. PICK purged \in BOOLEAN : Alerts!Finish(purged)
    BY <1>4
  <2>. QED BY <2>1 DEF AlertInv, AlertTypes, LevelsTold, AloneRaises, RowFollows, Alerts!Finish
<1>. QED BY <1>1, <1>2, <1>3, <1>4

\* Every step of the alerts keeps their invariant.
LEMMA AlertStep == AlertInv /\ [Alerts!Next]_(Alerts!vars) => AlertInv'
<1>. SUFFICES ASSUME AlertInv, [Alerts!Next]_(Alerts!vars) PROVE AlertInv'
  OBVIOUS
<1>1. CASE UNCHANGED Alerts!vars
  BY <1>1 DEF Alerts!vars, AlertInv, AlertTypes, LevelsTold, AloneRaises, RowFollows
<1>2. CASE Alerts!Next
  BY <1>2, AlertLook, AlertRead, AlertTell, AlertMark, AlertFails, AlertElsewhere DEF Alerts!Next
<1>. QED BY <1>1, <1>2

\* The alerts start in their invariant.
LEMMA AlertStart == Alerts!Init => AlertInv
BY AlertAssumption
   DEF Alerts!Init, Alerts!Resting, AlertInv, AlertTypes, LevelsTold, AloneRaises, RowFollows

\* The invariant of the alerts implies that the alert tells its level.
LEMMA AlertEnds == AlertInv => Alerts!AlertTellsLevel
BY DEF AlertInv, LevelsTold, AloneRaises, RowFollows, Alerts!AlertTellsLevel

-----------------------------------------------------------------------------
(* Uploads.                                                                *)

\* Where the files of a request are at its stages.
FilesInPlace ==
    \A r \in UploadRequests :
        /\ uploads[r] = "new" => UploadFiles[r] \intersect (temp \union stored \union attached) = {}
        /\ uploads[r] = "received" => UploadFiles[r] \intersect (stored \union attached) = {}
        /\ uploads[r] = "moving" => UploadFiles[r] \intersect attached = {}
        /\ uploads[r] = "saved" => /\ UploadFiles[r] \subseteq stored
                                   /\ UploadFiles[r] \intersect (temp \union attached) = {}

\* A request is at one of its stages.
UploadTypes == uploads \in [UploadRequests -> {"new", "received", "moving", "saved", "done"}]

\* The inductive invariant of the uploads.
UploadInv == UploadTypes /\ FilesInPlace /\ Uploads!UploadsAccounted

\* Every step of the uploads keeps their invariant.
LEMMA UploadStep == UploadInv /\ [Uploads!Next]_(Uploads!vars) => UploadInv'
<1>. SUFFICES ASSUME UploadInv, [Uploads!Next]_(Uploads!vars) PROVE UploadInv'
  OBVIOUS
<1>. USE UploadAssumption DEF UploadInv, UploadTypes, FilesInPlace,
         Uploads!UploadsAccounted, Uploads!UnderWay, Uploads!Go
<1>1. CASE UNCHANGED Uploads!vars
  BY <1>1 DEF Uploads!vars
<1>2. ASSUME NEW r \in UploadRequests, Uploads!Upload(r) PROVE UploadInv'
  BY <1>2 DEF Uploads!Upload
<1>3. ASSUME NEW r \in UploadRequests, Uploads!Refuse(r) PROVE UploadInv'
  BY <1>3 DEF Uploads!Refuse
<1>4. ASSUME NEW r \in UploadRequests, Uploads!Reject(r) PROVE UploadInv'
  BY <1>4 DEF Uploads!Reject
<1>5. ASSUME NEW r \in UploadRequests, Uploads!Check(r) PROVE UploadInv'
  BY <1>5 DEF Uploads!Check
<1>6. ASSUME NEW r \in UploadRequests, Uploads!Move(r) PROVE UploadInv'
  BY <1>6 DEF Uploads!Move
<1>7. ASSUME NEW r \in UploadRequests, Uploads!MoveFails(r) PROVE UploadInv'
  BY <1>7 DEF Uploads!MoveFails
<1>8. ASSUME NEW r \in UploadRequests, Uploads!Attach(r) PROVE UploadInv'
  BY <1>8 DEF Uploads!Attach
<1>9. ASSUME NEW r \in UploadRequests, Uploads!AttachFails(r) PROVE UploadInv'
  BY <1>9 DEF Uploads!AttachFails
<1>. QED BY <1>1, <1>2, <1>3, <1>4, <1>5, <1>6, <1>7, <1>8, <1>9 DEF Uploads!Next

\* The uploads start in their invariant.
LEMMA UploadStart == Uploads!Init => UploadInv
BY DEF Uploads!Init, UploadInv, UploadTypes, FilesInPlace, Uploads!UploadsAccounted

-----------------------------------------------------------------------------
(* The panel.                                                              *)

\* The files of the messages that are posted, and those somebody is removing.
PostedFiles == UNION {Panel!FilesOf(m) : m \in posted}
BeingRemoved == {removal[r].file : r \in {r \in Removers : removal[r].pc # "idle"}}

\* The types of the panel: a removal has a posted file in hand.
PanelTypes ==
    /\ posted \subseteq DOMAIN Count /\ removed \subseteq PostedFiles
    /\ removal \in [Removers -> [pc : {"idle", "unlink", "mark", "event"},
                                 file : Panel!AllFiles \union {<<0, 0>>}]]
    /\ \A r \in Removers : removal[r].pc # "idle" => removal[r].file \in PostedFiles

\* A file marked as removed is gone from the disk, or kept by an error, and its event is there, on
\* its way, or lost with its removal; a file that is not is there, unless a removal is under way.
RemovalsTell ==
    /\ \A r \in Removers : /\ removal[r].pc = "mark" /\ removal[r].file \in disk => removal[r].file \in kept
                           /\ removal[r].pc = "event" => removal[r].file \in removed
    /\ \A f \in removed : /\ f \in disk => f \in kept
                          /\ f \in DOMAIN events \union BeingRemoved \union broken
    /\ \A f \in PostedFiles \ removed : f \in disk \union BeingRemoved \union broken

\* The inductive invariant of the panel.
PanelInv == PanelTypes /\ RemovalsTell

\* Every step of the panel keeps its invariant.
LEMMA PanelStep == PanelInv /\ [Panel!Next]_(Panel!vars) => PanelInv'
<1>. SUFFICES ASSUME PanelInv, [Panel!Next]_(Panel!vars) PROVE PanelInv'
  OBVIOUS
<1>. USE DEF PanelInv, PanelTypes, RemovalsTell, PostedFiles, BeingRemoved
<1>1. CASE UNCHANGED Panel!vars
  BY <1>1 DEF Panel!vars
<1>2. ASSUME NEW m \in DOMAIN Count, Panel!Post(m) PROVE PanelInv'
  <2>1. \A f \in Panel!FilesOf(m) : f \notin PostedFiles
    BY <1>2 DEF Panel!Post, Panel!FilesOf
  <2>2. PostedFiles' = PostedFiles \union Panel!FilesOf(m)
    BY <1>2 DEF Panel!Post
  <2>3. UNCHANGED BeingRemoved
    BY <1>2 DEF Panel!Post
  <2>4. PanelTypes'
    BY <1>2, <2>2 DEF Panel!Post
  <2>. HIDE DEF PostedFiles, BeingRemoved
  <2>. QED BY <1>2, <2>1, <2>2, <2>3, <2>4 DEF Panel!Post
<1>3. ASSUME NEW r \in Removers, NEW file \in Panel!AllFiles, Panel!Remove(r, file) PROVE PanelInv'
  <2>1. file \in PostedFiles
    BY <1>3 DEF Panel!Remove, Panel!getAttachment, Panel!Visible
  <2>2. BeingRemoved \subseteq BeingRemoved' /\ UNCHANGED PostedFiles
    BY <1>3 DEF Panel!Remove
  <2>. HIDE DEF PostedFiles, BeingRemoved
  <2>3. PanelTypes'
    BY <1>3, <2>1, <2>2 DEF Panel!Remove
  <2>4. RemovalsTell'
    BY <1>3, <2>1, <2>2 DEF Panel!Remove
  <2>. QED BY <2>3, <2>4
<1>4. ASSUME NEW r \in Removers, Panel!Unlink(r) PROVE PanelInv'
  <2>1. removal[r].file \in BeingRemoved'
    BY <1>4 DEF Panel!Unlink
  <2>2. BeingRemoved' = BeingRemoved /\ UNCHANGED PostedFiles
    BY <1>4 DEF Panel!Unlink
  <2>. HIDE DEF PostedFiles, BeingRemoved
  <2>3. PanelTypes'
    BY <1>4, <2>2 DEF Panel!Unlink
  <2>4. RemovalsTell'
    BY <1>4, <2>1, <2>2 DEF Panel!Unlink
  <2>. QED BY <2>3, <2>4
<1>5. ASSUME NEW r \in Removers, Panel!Mark(r) PROVE PanelInv'
  <2>1. removal[r].file \in BeingRemoved'
    BY <1>5 DEF Panel!Mark
  <2>2. BeingRemoved' = BeingRemoved /\ UNCHANGED PostedFiles
    BY <1>5 DEF Panel!Mark
  <2>. HIDE DEF PostedFiles, BeingRemoved
  <2>3. PanelTypes'
    BY <1>5, <2>2 DEF Panel!Mark
  <2>4. RemovalsTell'
    BY <1>5, <2>1, <2>2 DEF Panel!Mark
  <2>. QED BY <2>3, <2>4
<1>6. ASSUME NEW r \in Removers, Panel!WriteEvent(r) PROVE PanelInv'
  <2>1. BeingRemoved \subseteq BeingRemoved' \union {removal[r].file} /\ UNCHANGED PostedFiles
    BY <1>6 DEF Panel!WriteEvent
  <2>2. DOMAIN events' = DOMAIN events \union {removal[r].file}
    BY <1>6 DEF Panel!WriteEvent
  <2>3. removal[r].file \in removed /\ UNCHANGED removed
    BY <1>6 DEF Panel!WriteEvent
  <2>. HIDE DEF PostedFiles, BeingRemoved
  <2>4. PanelTypes'
    BY <1>6, <2>1 DEF Panel!WriteEvent, Panel!Idle
  <2>5. RemovalsTell'
    BY <1>6, <2>1, <2>2, <2>3 DEF Panel!WriteEvent, Panel!Idle
  <2>. QED BY <2>4, <2>5
<1>7. ASSUME NEW r \in Removers, Panel!BreakOff(r) PROVE PanelInv'
  <2>1. BeingRemoved \subseteq BeingRemoved' \union {removal[r].file} /\ UNCHANGED PostedFiles
    BY <1>7 DEF Panel!BreakOff
  <2>. HIDE DEF PostedFiles, BeingRemoved
  <2>2. PanelTypes'
    BY <1>7, <2>1 DEF Panel!BreakOff, Panel!Idle
  <2>3. RemovalsTell'
    BY <1>7, <2>1 DEF Panel!BreakOff, Panel!Idle
  <2>. QED BY <2>2, <2>3
<1>. QED BY <1>1, <1>2, <1>3, <1>4, <1>5, <1>6, <1>7 DEF Panel!Next

\* The panel starts in its invariant.
LEMMA PanelStart == Panel!Init => PanelInv
BY DEF Panel!Init, Panel!Idle, PanelInv, PanelTypes, RemovalsTell, PostedFiles, BeingRemoved

\* A quotient is at most what is divided.
LEMMA QuotientBound ==
    ASSUME NEW n \in Nat, NEW d \in Nat \ {0}
    PROVE  n \div d \in 0..n
OBVIOUS

\* The instance counts as FiniteSets does.
LEMMA PanelCounts == ASSUME NEW S PROVE Panel!Cardinality(S) = Cardinality(S)
BY DEF Panel!Cardinality, Cardinality

\* Every message with files is on one page.
LEMMA OnePage ==
    ASSUME PanelInv, NEW staff \in BOOLEAN, NEW m \in Panel!Base(staff)
    PROVE  \E p \in 1..Cardinality(posted) : m \in Panel!OnPage(staff, p)
<1>. DEFINE Before == {n \in Panel!Base(staff) : n > m}
<1>1. IsFiniteSet(posted) /\ m \in posted /\ m \in Nat
  BY PanelAssumption, FS_Subset DEF PanelInv, PanelTypes, Panel!Base, Panel!Visible
<1>2. Before \in SUBSET posted /\ m \notin Before
  BY <1>1 DEF Panel!Base, Panel!Visible
<1>3. IsFiniteSet(Before) /\ Cardinality(Before) \in Nat /\ Cardinality(posted) \in Nat
      /\ Cardinality(Before) <= Cardinality(posted) - 1
  <2>. HIDE DEF Before
  <2>1. IsFiniteSet(posted \ {m}) /\ Cardinality(posted \ {m}) = Cardinality(posted) - 1
    BY <1>1, FS_RemoveElement
  <2>2. Before \in SUBSET (posted \ {m})
    BY <1>2
  <2>. QED BY <1>1, <2>1, <2>2, FS_Subset, FS_CardinalityType
<1>. DEFINE k == Cardinality(Before) \div PageLimit
<1>4. k \in 0..Cardinality(Before)
  BY <1>3, PanelAssumption, QuotientBound
<1>5. k + 1 \in 1..Cardinality(posted) /\ (k + 1) - 1 = k
  <2>. HIDE DEF k
  <2>. QED BY <1>3, <1>4
<1>6. ASSUME NEW p \in Int, k = p - 1 PROVE m \in Panel!OnPage(staff, p)
  BY <1>6, PanelCounts DEF Panel!OnPage
<1>. HIDE DEF k
<1>. QED BY <1>4, <1>5, <1>6, <1>3

\* A page has messages the viewer may see.
LEMMA PageHas ==
    ASSUME NEW staff \in BOOLEAN, NEW p
    PROVE  Panel!OnPage(staff, p) \subseteq Panel!Base(staff)
BY DEF Panel!OnPage

\* No message is on two pages.
LEMMA PagesApart ==
    ASSUME NEW staff \in BOOLEAN, NEW p \in Int, NEW q \in Int,
           NEW m \in Panel!OnPage(staff, p) \intersect Panel!OnPage(staff, q)
    PROVE  p = q
<1>1. p - 1 = q - 1
  BY DEF Panel!OnPage
<1>. QED BY <1>1

\* The files of all pages are those of the messages the viewer may see.
LEMMA PagesCover ==
    ASSUME PanelInv, NEW staff \in BOOLEAN
    PROVE  UNION {Panel!listTicketAttachments(staff, p) : p \in 1..Cardinality(posted)}
             = {[file |-> f, removed |-> f \in removed] :
                  f \in UNION {Panel!FilesOf(m) : m \in Panel!Visible(staff)}}
<1>. DEFINE Pages == 1..Cardinality(posted)
            Listing(S) == {[file |-> f, removed |-> f \in removed] : f \in S}
<1>1. ASSUME NEW p \in Pages, NEW x \in Panel!listTicketAttachments(staff, p)
      PROVE  x \in Listing(UNION {Panel!FilesOf(m) : m \in Panel!Visible(staff)})
  <2>1. Panel!OnPage(staff, p) \subseteq Panel!Visible(staff)
    BY PageHas DEF Panel!Base
  <2>. QED BY <2>1 DEF Panel!listTicketAttachments
<1>2. ASSUME NEW m \in Panel!Visible(staff), NEW f \in Panel!FilesOf(m)
      PROVE  \E p \in Pages : [file |-> f, removed |-> f \in removed] \in Panel!listTicketAttachments(staff, p)
  <2>1. Count[m] > 0
    BY PanelAssumption DEF Panel!FilesOf, Panel!Visible, PanelInv, PanelTypes
  <2>2. PICK p \in Pages : m \in Panel!OnPage(staff, p)
    BY <2>1, OnePage DEF Panel!Base
  <2>. QED BY <2>2 DEF Panel!listTicketAttachments
<1>. HIDE DEF Pages
<1>. QED BY <1>1, <1>2 DEF Pages

\* The invariant of the panel implies that every file keeps its place in the pages.
LEMMA PanelEnds == PanelInv => Panel!FilesKeepPlace
<1>. SUFFICES ASSUME PanelInv PROVE Panel!FilesKeepPlace
  OBVIOUS
<1>1. ASSUME NEW staff \in BOOLEAN
      PROVE  LET pages == 1..Cardinality(posted)
                 listed == UNION {Panel!listTicketAttachments(staff, p) : p \in pages}
             IN /\ {x.file : x \in {x \in listed : ~x.removed}}
                     = {f \in Panel!AllFiles : Panel!getAttachment(staff, f)}
                /\ {x.file : x \in listed} = UNION {Panel!FilesOf(m) : m \in Panel!Visible(staff)}
                /\ \A p, q \in pages : p # q => Panel!listTicketAttachments(staff, p)
                                                    \intersect Panel!listTicketAttachments(staff, q) = {}
                /\ \A x \in listed : IF x.removed THEN x.file \in disk => x.file \in kept
                                     ELSE x.file \in disk \union BeingRemoved \union broken
  <2>. DEFINE Seen == UNION {Panel!FilesOf(m) : m \in Panel!Visible(staff)}
              pages == 1..Cardinality(posted)
              listed == UNION {Panel!listTicketAttachments(staff, p) : p \in pages}
  <2>1. listed = {[file |-> f, removed |-> f \in removed] : f \in Seen}
    BY PagesCover
  <2>2. Seen \subseteq PostedFiles /\ Seen \subseteq Panel!AllFiles
    BY DEF Panel!Visible, Panel!AllFiles, PostedFiles, PanelInv, PanelTypes
  <2>3. /\ \A x \in listed : x.file \in Seen /\ (x.removed <=> x.file \in removed)
        /\ \A f \in Seen : \E x \in listed : x.file = f /\ (x.removed <=> f \in removed)
    <3>. HIDE DEF Seen, listed
    <3>1. ASSUME NEW f PROVE LET x == [file |-> f, removed |-> f \in removed]
                             IN x.file = f /\ (x.removed <=> f \in removed)
      OBVIOUS
    <3>2. ASSUME NEW x \in listed PROVE x.file \in Seen /\ (x.removed <=> x.file \in removed)
      <4>1. PICK f \in Seen : x = [file |-> f, removed |-> f \in removed]
        BY <2>1
      <4>. QED BY <3>1, <4>1
    <3>3. ASSUME NEW f \in Seen PROVE \E x \in listed : x.file = f /\ (x.removed <=> f \in removed)
      <4>1. [file |-> f, removed |-> f \in removed] \in listed
        BY <2>1
      <4>. QED BY <3>1, <4>1
    <3>. QED BY <3>2, <3>3
  <2>4. /\ {x.file : x \in {x \in listed : ~x.removed}}
             = {f \in Panel!AllFiles : Panel!getAttachment(staff, f)}
        /\ {x.file : x \in listed} = Seen
    <3>1. \A f : Panel!getAttachment(staff, f) <=> f \in Seen \ removed
      BY DEF Panel!getAttachment
    <3>. HIDE DEF Seen, listed
    <3>. QED BY <2>2, <2>3, <3>1
  <2>5. ASSUME NEW p \in pages, NEW q \in pages, NEW x \in Panel!listTicketAttachments(staff, p),
               x \in Panel!listTicketAttachments(staff, q)
        PROVE  p = q
    <3>1. PICK m \in Panel!OnPage(staff, p) : x.file \in Panel!FilesOf(m)
      BY DEF Panel!listTicketAttachments
    <3>2. PICK n \in Panel!OnPage(staff, q) : x.file \in Panel!FilesOf(n)
      BY <2>5 DEF Panel!listTicketAttachments
    <3>3. m = n
      BY <3>1, <3>2 DEF Panel!FilesOf
    <3>. QED BY <3>1, <3>2, <3>3, PagesApart
  <2>6. \A x \in listed : IF x.removed THEN x.file \in disk => x.file \in kept
                         ELSE x.file \in disk \union BeingRemoved \union broken
    <3>. HIDE DEF Seen, listed
    <3>. QED BY <2>2, <2>3 DEF PanelInv, RemovalsTell
  <2>. HIDE DEF listed, Seen
  <2>. QED BY <2>4, <2>5, <2>6 DEF listed, Seen
<1>2. \A f \in removed : f \in DOMAIN events \union BeingRemoved \union broken
  BY DEF PanelInv, RemovalsTell
<1>. QED BY <1>1, <1>2, PanelCounts DEF Panel!FilesKeepPlace, BeingRemoved

-----------------------------------------------------------------------------
(* Threads.                                                                *)

\* What every message has, stored or about to be.
Stamped(m) ==
    /\ m.id \in Nat \ {0} /\ m.sent \in Nat /\ m.created_at \in Nat
    /\ 1 <= m.sent /\ m.sent <= m.created_at
    /\ m.created_at = 1 => m.sender = Threads!Author /\ m.by = Threads!Author
    /\ m.kind = "event" => m.sender = "system"

\* The types of the thread: every message is stamped, and the first is the author's.
ThreadTypes ==
    /\ clock \in Nat /\ 2 <= clock /\ preview.at \in Nat /\ preview.of \in Nat
    /\ IsFiniteSet(thread) /\ \A m \in thread : Stamped(m)
    /\ DOMAIN writing = Threads!Users
    /\ \A u \in Threads!Users : writing[u] # Threads!None => Stamped(writing[u])
    /\ last_read_at \in [Threads!Users -> Nat] /\ role_read_at \in [{"staff", "customer"} -> Nat]
    /\ DOMAIN shown = Threads!Users /\ \A u \in Threads!Users : shown[u] \subseteq Threads!Visible(u)
    /\ \E m \in thread : m.created_at <= 2 /\ m.by = Threads!Author

\* Messages that are stamped and not stored, and the ids that have been given.
Ids == {m.id : m \in thread}
Pending == {u \in Threads!Users : writing[u] # Threads!None /\ writing[u].id \notin Ids}
Given == Cardinality(thread) + Cardinality(Pending)

\* An id is of one message; the preview is of a stored message, with its time.
IdsApart ==
    /\ \A m, n \in thread : m.id = n.id => m = n
    /\ \A m \in thread : m.id <= Given
    /\ \A u \in Threads!Users : writing[u] # Threads!None =>
          writing[u].id <= Given /\ (writing[u].id \in Ids => writing[u] \in thread)
    /\ \A u, v \in Pending : writing[u].id = writing[v].id => u = v
    /\ \E m \in thread : m.id = preview.of /\ m.sent = preview.at

\* A mark of somebody who marks what is shown is the time of a shown message or an
\* earlier one, but for the mark the author has from the start.
SeenTo(u, at) == \E n \in shown[u] : at <= n.created_at
MarksSeen ==
    /\ \A u \in Threads!Users \ blind : last_read_at[u] # 0 =>
          SeenTo(u, last_read_at[u]) \/ (u = Threads!Author /\ last_read_at[u] = 1)
    /\ \A r \in {"staff", "customer"} :
          (role_read_at[r] # 0 /\ \A u \in Threads!Users : Threads!role(u) = r => u \notin blind) =>
              \/ \E u \in Threads!Users : Threads!role(u) = r /\ SeenTo(u, role_read_at[r])
              \/ r = "customer" /\ role_read_at[r] = 1

\* The inductive invariant of the threads.
ThreadInv == ThreadTypes /\ IdsApart /\ MarksSeen /\ Threads!PanelMissesNothing

\* The instance counts as FiniteSets does.
LEMMA ThreadCounts == ASSUME NEW S PROVE Threads!Cardinality(S) = Cardinality(S)
BY DEF Threads!Cardinality, Cardinality

\* The author is a customer.
LEMMA AuthorWrites == Threads!Author \in Customers /\ Threads!role(Threads!Author) = "customer"
BY ThreadAssumption DEF Threads!Author, Threads!role, Threads!isStaff

\* The first of some messages are the first: one before another of them is one of them.
LEMMA FirstComeFirst ==
    ASSUME NEW S, IsFiniteSet(S), \A x \in S : Stamped(x), NEW ascending \in BOOLEAN,
           NEW o \in Threads!FirstOf(S, ascending), NEW m \in S,
           IF ascending THEN Threads!Newer(o, m) ELSE Threads!Newer(m, o)
    PROVE  m \in Threads!FirstOf(S, ascending)
<1>. DEFINE Ahead(x) == {n \in S : IF ascending THEN Threads!Newer(x, n) ELSE Threads!Newer(n, x)}
<1>1. o \in S /\ Cardinality(Ahead(o)) < PageSize
  BY ThreadCounts DEF Threads!FirstOf
<1>2. Ahead(m) \in SUBSET Ahead(o) /\ Ahead(o) \in SUBSET S
  BY <1>1 DEF Threads!Newer, Stamped
<1>3. Cardinality(Ahead(m)) < PageSize
  <2>. HIDE DEF Ahead
  <2>1. IsFiniteSet(Ahead(o))
    BY <1>2, FS_Subset
  <2>2. Cardinality(Ahead(m)) <= Cardinality(Ahead(o)) /\ IsFiniteSet(Ahead(m))
    BY <1>2, <2>1, FS_Subset
  <2>3. Cardinality(Ahead(m)) \in Nat /\ Cardinality(Ahead(o)) \in Nat
    BY <2>1, <2>2, FS_CardinalityType
  <2>. QED BY <1>1, <2>2, <2>3, ThreadAssumption
<1>. QED BY <1>3, ThreadCounts DEF Threads!FirstOf

\* The latest time a reader was shown is that of a message.
LEMMA LatestShown ==
    ASSUME NEW u \in Threads!Users, ThreadTypes, shown[u] # {}
    PROVE  LET t == Threads!Max(Threads!Times(shown[u]))
           IN t \in Nat \ {0} /\ (\E n \in shown[u] : n.created_at = t) /\ \A n \in shown[u] : n.created_at <= t
<1>. DEFINE S == Threads!Times(shown[u])
<1>1. shown[u] \in SUBSET thread
  BY DEF ThreadTypes, Threads!Visible
<1>2. S \in SUBSET (Nat \ {0}) /\ S # {}
  BY <1>1 DEF ThreadTypes, Stamped, Threads!Times
<1>3. IsFiniteSet(S)
  <2>1. IsFiniteSet(shown[u])
    BY <1>1, FS_Subset DEF ThreadTypes
  <2>. DEFINE f == [n \in shown[u] |-> n.created_at]
  <2>2. f \in Surjection(shown[u], S)
    BY DEF Surjection, Threads!Times
  <2>. HIDE DEF f, S
  <2>. QED BY <2>1, <2>2, FS_Surjection
<1>4. \E m \in S : \A t \in S : m >= t
  BY <1>2, <1>3, LargestExists
<1>5. Threads!Max(S) \in S /\ \A t \in S : Threads!Max(S) >= t
  BY <1>4 DEF Threads!Max
<1>. QED BY <1>2, <1>5 DEF Threads!Times

\* The earliest time a reader was shown is that of a message.
LEMMA EarliestShown ==
    ASSUME NEW u \in Threads!Users, ThreadTypes, shown[u] # {}
    PROVE  LET t == Threads!Min(Threads!Times(shown[u]))
           IN t \in Nat \ {0} /\ (\E n \in shown[u] : n.created_at = t) /\ \A n \in shown[u] : t <= n.created_at
<1>. DEFINE S == Threads!Times(shown[u])
<1>1. shown[u] \in SUBSET thread
  BY DEF ThreadTypes, Threads!Visible
<1>2. S \in SUBSET (Nat \ {0}) /\ S # {}
  BY <1>1 DEF ThreadTypes, Stamped, Threads!Times
<1>3. \E m \in S : \A t \in S : m <= t
  BY <1>2, LeastExists
<1>4. Threads!Min(S) \in S /\ \A t \in S : Threads!Min(S) <= t
  BY <1>3 DEF Threads!Min
<1>. QED BY <1>2, <1>4 DEF Threads!Times

\* The clock runs.
LEMMA ThreadTick ==
    ASSUME ThreadInv, Threads!Tick
    PROVE  ThreadInv'
<1>. USE DEF ThreadInv, Threads!Tick
<1>1. ThreadTypes'
  BY DEF ThreadTypes, Threads!Visible, Threads!isStaff, Stamped
<1>2. IdsApart'
  BY DEF IdsApart, Ids, Pending, Given
<1>3. MarksSeen' /\ Threads!PanelMissesNothing'
  BY DEF MarksSeen, SeenTo, Threads!PanelMissesNothing, Threads!Visible, Threads!Overtaken
<1>. QED BY <1>1, <1>2, <1>3

\* A message gets its time and the next id, before it is stored.
LEMMA ThreadStamp ==
    ASSUME ThreadInv, NEW u \in Writers, NEW kind \in Threads!Kinds(u), NEW sent \in 1..MaxTime,
           Threads!Stamp(u, kind, sent)
    PROVE  ThreadInv'
<1>. USE ThreadAssumption DEF ThreadInv
<1>. DEFINE id == 1 + Given
            event == kind \in {"event", "change"}
            w == [id |-> id, by |-> u, kind |-> IF event THEN "event" ELSE kind,
                  sender |-> IF event THEN "system" ELSE u,
                  is_internal |-> kind \in {"note", "change"}, sent |-> sent, created_at |-> clock]
<1>1. /\ u \in Threads!Users /\ writing[u] = Threads!None
      /\ sent \in Nat /\ 1 <= sent /\ sent <= clock /\ clock \in Nat /\ 2 <= clock
      /\ UNCHANGED <<clock, thread, preview, last_read_at, role_read_at, shown, blind, late>>
  BY DEF Threads!Stamp, Threads!Users, ThreadTypes
<1>2. /\ IsFiniteSet(Pending) /\ Cardinality(thread) \in Nat /\ Cardinality(Pending) \in Nat
      /\ Given \in Nat
  <2>1. IsFiniteSet(Pending)
    BY FS_Subset DEF Pending, Threads!Users
  <2>. QED BY <2>1, FS_CardinalityType DEF ThreadTypes, Given
<1>3. writing' = [writing EXCEPT ![u] = w]
  <2>1. {v \in Threads!InFlight : writing[v].id \notin {m.id : m \in thread}} = Pending
    BY DEF Threads!InFlight, Pending, Ids
  <2>2. id = 1 + Threads!Cardinality(thread)
               + Threads!Cardinality({v \in Threads!InFlight : writing[v].id \notin {m.id : m \in thread}})
    <3>1. /\ Threads!Cardinality(thread) = Cardinality(thread)
          /\ Threads!Cardinality(Pending) = Cardinality(Pending)
      BY ThreadCounts
    <3>2. id = 1 + Cardinality(thread) + Cardinality(Pending)
      BY <1>2 DEF Given
    <3>. HIDE DEF id
    <3>. QED BY <2>1, <3>1, <3>2
  <2>. HIDE DEF id
  <2>. QED BY <2>2 DEF Threads!Stamp, Threads!Message
<1>4. Stamped(w)
  BY <1>1, <1>2 DEF Stamped
<1>5. ThreadTypes'
  BY <1>1, <1>3, <1>4 DEF ThreadTypes, Threads!Visible, Threads!isStaff
<1>6. IdsApart'
  <2>1. w # Threads!None /\ w.id \notin Ids /\ UNCHANGED Ids /\ u \notin Pending
    BY <1>1, <1>2 DEF Threads!None, IdsApart, Ids, Pending, ThreadTypes, Stamped
  <2>2. Pending' = Pending \union {u}
    BY <1>1, <1>3, <2>1 DEF Pending, ThreadTypes
  <2>3. Given' = id
    <3>1. Cardinality(Pending') = Cardinality(Pending) + 1
      BY <1>2, <2>1, <2>2, FS_AddElement
    <3>. QED BY <1>1, <1>2, <3>1 DEF Given
  <2>4. \A v \in Threads!Users : writing[v] # Threads!None => writing[v].id <= Given /\ writing[v].id \in Nat
    BY DEF IdsApart, ThreadTypes, Stamped
  <2>5. \A m \in thread : m.id \in Nat /\ m.id <= Given
    BY DEF IdsApart, ThreadTypes, Stamped
  <2>. QED BY <1>1, <1>2, <1>3, <2>1, <2>2, <2>3, <2>4, <2>5 DEF IdsApart, Pending, ThreadTypes
<1>7. MarksSeen' /\ Threads!PanelMissesNothing'
  BY <1>1 DEF MarksSeen, SeenTo, Threads!PanelMissesNothing, Threads!Visible, Threads!Overtaken
<1>. QED BY <1>5, <1>6, <1>7

\* A stamped message is stored.
LEMMA ThreadInsert ==
    ASSUME ThreadInv, NEW u \in Writers, Threads!Insert(u)
    PROVE  ThreadInv'
<1>. USE ThreadAssumption DEF ThreadInv
<1>. DEFINE w == writing[u]
<1>1. /\ u \in Threads!Users /\ w # Threads!None /\ w \notin thread /\ thread' = thread \union {w}
      /\ Stamped(w)
      /\ UNCHANGED <<clock, preview, last_read_at, role_read_at, shown, blind>>
  BY DEF Threads!Insert, Threads!Users, ThreadTypes
<1>2. writing' = writing \/ writing' = [writing EXCEPT ![u] = Threads!None]
  BY DEF Threads!Insert
<1>3. ThreadTypes'
  <2>1. IsFiniteSet(thread')
    BY <1>1, FS_AddElement DEF ThreadTypes
  <2>2. \A v \in Threads!Users : Threads!Visible(v) \subseteq Threads!Visible(v)'
    BY <1>1 DEF Threads!Visible, Threads!isStaff
  <2>. QED BY <1>1, <1>2, <2>1, <2>2 DEF ThreadTypes, Stamped, Threads!None
<1>4. IdsApart'
  <2>1. w.id \notin Ids /\ u \in Pending
    BY <1>1 DEF IdsApart, Pending
  <2>2. Ids' = Ids \union {w.id}
    BY <1>1 DEF Ids
  <2>3. Pending' = Pending \ {u}
    BY <1>1, <1>2, <2>1, <2>2 DEF Pending, IdsApart, ThreadTypes
  <2>4. Given' = Given /\ Given \in Nat
    <3>1. IsFiniteSet(Pending)
      BY FS_Subset DEF Pending, Threads!Users
    <3>2. Cardinality(Pending') = Cardinality(Pending) - 1
      BY <2>1, <2>3, <3>1, FS_RemoveElement
    <3>3. Cardinality(thread') = Cardinality(thread) + 1
      BY <1>1, FS_AddElement DEF ThreadTypes
    <3>4. Cardinality(thread) \in Nat /\ Cardinality(Pending) \in Nat
      BY <3>1, FS_CardinalityType DEF ThreadTypes
    <3>. QED BY <3>2, <3>3, <3>4 DEF Given
  <2>5. w.id <= Given
    BY <1>1 DEF IdsApart
  <2>6. \A m, n \in thread' : m.id = n.id => m = n
    BY <1>1, <2>1 DEF IdsApart, Ids
  <2>7. \A v \in Threads!Users : writing'[v] # Threads!None =>
          writing'[v].id <= Given /\ (writing'[v].id \in Ids' => writing'[v] \in thread')
    <3>. SUFFICES ASSUME NEW v \in Threads!Users, writing'[v] # Threads!None
                  PROVE  writing'[v].id <= Given /\ (writing'[v].id \in Ids' => writing'[v] \in thread')
      OBVIOUS
    <3>1. writing'[v] = writing[v]
      BY <1>1, <1>2 DEF ThreadTypes
    <3>2. writing[v].id = w.id => v = u
      BY <2>1, <3>1 DEF IdsApart, Pending
    <3>. QED BY <1>1, <2>2, <3>1, <3>2 DEF IdsApart
  <2>8. \A v, x \in Pending' : writing'[v].id = writing'[x].id => v = x
    BY <1>1, <1>2, <2>3 DEF IdsApart, ThreadTypes, Pending
  <2>. QED BY <1>1, <2>4, <2>5, <2>6, <2>7, <2>8 DEF IdsApart
<1>5. MarksSeen'
  BY <1>1 DEF MarksSeen, SeenTo
<1>6. Threads!PanelMissesNothing'
  <2>. SUFFICES ASSUME NEW v \in Threads!Users, NEW m \in Threads!Visible(v)' \ shown[v],
                       NEW n \in shown[v], NEW o \in shown[v], Threads!Newer(m, n), Threads!Newer(o, m)
                PROVE  Threads!Overtaken(m)'
    BY <1>1 DEF Threads!PanelMissesNothing, Threads!Newer
  <2>1. CASE m \in thread
    <3>1. m \in Threads!Visible(v)
      BY <2>1 DEF Threads!Visible, Threads!isStaff
    <3>2. Threads!Overtaken(m)
      BY <3>1 DEF Threads!PanelMissesNothing
    <3>3. late \subseteq late'
      BY DEF Threads!Insert
    <3>. QED BY <1>1, <3>2, <3>3 DEF Threads!Overtaken
  <2>2. CASE m = w
    <3>1. o \in thread
      BY DEF ThreadTypes, Threads!Visible
    <3>2. CASE o.created_at > w.created_at
      BY <2>2, <3>1, <3>2 DEF Threads!Insert, Threads!Overtaken
    <3>3. CASE o.created_at = w.created_at
      BY <1>1, <2>2, <3>1, <3>3 DEF Threads!Overtaken
    <3>. QED BY <2>2, <3>2, <3>3 DEF Threads!Newer
  <2>. QED BY <1>1, <2>1, <2>2 DEF Threads!Visible
<1>. QED BY <1>3, <1>4, <1>5, <1>6

\* The preview is moved to a stored message that is not older.
LEMMA ThreadPublish ==
    ASSUME ThreadInv, NEW u \in Writers, Threads!Publish(u)
    PROVE  ThreadInv'
<1>. USE ThreadAssumption DEF ThreadInv
<1>1. /\ u \in Threads!Users /\ writing[u] # Threads!None /\ writing[u] \in thread
      /\ preview' = [at |-> writing[u].sent, of |-> writing[u].id]
      /\ writing' = [writing EXCEPT ![u] = Threads!None]
      /\ UNCHANGED <<clock, thread, last_read_at, role_read_at, shown, blind, late>>
  BY DEF Threads!Publish, Threads!Users
<1>2. ThreadTypes'
  BY <1>1 DEF ThreadTypes, Threads!Visible, Threads!isStaff, Stamped
<1>3. IdsApart'
  <2>1. u \notin Pending
    BY <1>1 DEF Pending, Ids
  <2>2. Pending' = Pending /\ UNCHANGED <<Ids, Given>>
    <3>1. Pending' = Pending
      BY <1>1, <2>1 DEF Pending, Ids, ThreadTypes
    <3>. QED BY <1>1, <3>1 DEF Ids, Given
  <2>3. \A v \in Pending : writing'[v] = writing[v]
    BY <1>1, <2>1 DEF Pending, ThreadTypes
  <2>. QED BY <1>1, <2>2, <2>3 DEF IdsApart, ThreadTypes
<1>4. MarksSeen' /\ Threads!PanelMissesNothing'
  BY <1>1 DEF MarksSeen, SeenTo, Threads!PanelMissesNothing, Threads!Visible, Threads!Overtaken
<1>. QED BY <1>2, <1>3, <1>4

\* A reader polls for messages after the last one shown, or loads the first ones.
LEMMA ThreadAsk ==
    ASSUME ThreadInv, NEW u \in Readers, Threads!Ask(u)
    PROVE  ThreadInv'
<1>. USE ThreadAssumption DEF ThreadInv
<1>1. PICK params \in IF shown[u] = {} THEN {[after |-> 0, before |-> 0]}
                     ELSE {[after |-> Threads!Max(Threads!Times(shown[u])), before |-> 0],
                           [after |-> 0, before |-> Threads!Min(Threads!Times(shown[u]))]} :
           shown' = [shown EXCEPT ![u] = @ \union Threads!listMessages(u, params).results]
  BY DEF Threads!Ask
<1>. DEFINE matching == {m \in Threads!Visible(u) :
                           /\ params.after # 0 => m.created_at > params.after
                           /\ params.before # 0 /\ params.after = 0 => m.created_at < params.before}
            results == Threads!FirstOf(matching, params.after # 0)
<1>2. /\ u \in Threads!Users
      /\ UNCHANGED <<clock, thread, writing, preview, last_read_at, role_read_at, blind, late>>
  BY DEF Threads!Ask, Threads!Users
<1>3. results \subseteq matching /\ matching \subseteq Threads!Visible(u)
  BY DEF Threads!FirstOf
<1>4. shown' = [shown EXCEPT ![u] = @ \union results]
  BY <1>1 DEF Threads!listMessages
<1>5. IsFiniteSet(matching) /\ \A m \in matching : Stamped(m)
  <2>1. matching \in SUBSET thread
    BY DEF Threads!Visible
  <2>. HIDE DEF matching
  <2>. QED BY <2>1, FS_Subset DEF ThreadTypes
<1>. HIDE DEF results
<1>6. ThreadTypes'
  BY <1>2, <1>3, <1>4 DEF ThreadTypes, Threads!Visible, Threads!isStaff
<1>7. IdsApart'
  BY <1>2 DEF IdsApart, Ids, Pending, Given
<1>8. MarksSeen'
  BY <1>2, <1>4 DEF MarksSeen, SeenTo, ThreadTypes
<1>9. Threads!PanelMissesNothing'
  <2>. SUFFICES ASSUME NEW m \in Threads!Visible(u) \ (shown[u] \union results),
                       NEW n \in shown[u] \union results, NEW o \in shown[u] \union results,
                       Threads!Newer(m, n), Threads!Newer(o, m)
                PROVE  Threads!Overtaken(m)
    <3>1. \A v \in Threads!Users \ {u} : shown'[v] = shown[v]
      BY <1>4 DEF ThreadTypes
    <3>2. shown'[u] = shown[u] \union results
      BY <1>2, <1>4 DEF ThreadTypes
    <3>. QED BY <1>2, <3>1, <3>2 DEF Threads!PanelMissesNothing, Threads!Visible, Threads!isStaff,
                Threads!Newer, Threads!Overtaken
  <2>1. /\ Stamped(m) /\ m \in thread
        /\ \A x \in shown[u] \union results : Stamped(x) /\ x \in thread /\ x # m
    BY <1>2, <1>3 DEF ThreadTypes, Threads!Visible
  <2>2. \A x, y \in shown[u] : Threads!Newer(m, x) /\ Threads!Newer(y, m) => Threads!Overtaken(m)
    BY <1>2 DEF Threads!PanelMissesNothing
  <2>3. CASE shown[u] = {}
    <3>1. params.after = 0 /\ params.before = 0
      BY <1>1, <2>3
    <3>2. m \in matching /\ results = Threads!FirstOf(matching, FALSE) /\ n \in results
      BY <2>3, <3>1 DEF results
    <3>. HIDE DEF matching
    <3>. QED BY <1>5, <3>2, FirstComeFirst
  <2>4. CASE params.after # 0
    <3>1. /\ params.before = 0 /\ params.after \in Nat
          /\ (\E x \in shown[u] : x.created_at = params.after)
          /\ \A x \in shown[u] : x.created_at <= params.after
      BY <1>1, <1>2, <2>4, LatestShown
    <3>2. PICK x \in shown[u] : x.created_at = params.after
      BY <3>1
    <3>3. CASE m.created_at > params.after
      <4>1. m \in matching /\ results = Threads!FirstOf(matching, TRUE)
        BY <2>4, <3>1, <3>3 DEF results
      <4>2. o \in results
        BY <2>1, <3>1, <3>3 DEF Threads!Newer, Stamped
      <4>. HIDE DEF matching
      <4>. QED BY <1>5, <4>1, <4>2, FirstComeFirst
    <3>4. CASE m.created_at = params.after
      BY <2>1, <3>2, <3>4 DEF Threads!Overtaken
    <3>5. CASE m.created_at < params.after
      <4>1. n \in shown[u]
        BY <1>3, <2>1, <2>4, <3>1, <3>5 DEF Threads!Newer, Stamped
      <4>2. Threads!Newer(x, m)
        BY <3>2, <3>5 DEF Threads!Newer
      <4>. QED BY <2>2, <4>1, <4>2
    <3>. QED BY <2>1, <3>1, <3>3, <3>4, <3>5 DEF Stamped
  <2>5. CASE params.before # 0
    <3>1. /\ params.after = 0 /\ params.before \in Nat
          /\ (\E x \in shown[u] : x.created_at = params.before)
          /\ \A x \in shown[u] : params.before <= x.created_at
      BY <1>1, <1>2, <2>5, EarliestShown
    <3>2. PICK x \in shown[u] : x.created_at = params.before
      BY <3>1
    <3>3. CASE m.created_at < params.before
      <4>1. m \in matching /\ results = Threads!FirstOf(matching, FALSE)
        BY <2>5, <3>1, <3>3 DEF results
      <4>2. n \in results
        BY <2>1, <3>1, <3>3 DEF Threads!Newer, Stamped
      <4>. HIDE DEF matching
      <4>. QED BY <1>5, <4>1, <4>2, FirstComeFirst
    <3>4. CASE m.created_at = params.before
      BY <2>1, <3>2, <3>4 DEF Threads!Overtaken
    <3>5. CASE m.created_at > params.before
      <4>1. o \in shown[u]
        BY <1>3, <2>1, <2>5, <3>1, <3>5 DEF Threads!Newer, Stamped
      <4>2. Threads!Newer(m, x)
        BY <3>2, <3>5 DEF Threads!Newer
      <4>. QED BY <2>2, <4>1, <4>2
    <3>. QED BY <2>1, <3>1, <3>3, <3>4, <3>5 DEF Stamped
  <2>6. shown[u] # {} => params.after # 0 \/ params.before # 0
    BY <1>1, <1>2, LatestShown, EarliestShown
  <2>. QED BY <2>3, <2>4, <2>5, <2>6
<1>. QED BY <1>6, <1>7, <1>8, <1>9

\* A mark up to what is shown, or up to now.
LEMMA ThreadMark ==
    ASSUME ThreadInv, NEW u \in Readers, NEW up_to, Threads!Mark(u, up_to),
           up_to = 0 \/ (up_to \in Nat \ {0} /\ SeenTo(u, up_to))
    PROVE  ThreadInv'
<1>. USE ThreadAssumption DEF ThreadInv
<1>. DEFINE cursor == IF up_to = 0 \/ up_to > clock THEN clock ELSE up_to
            r == Threads!role(u)
<1>1. /\ u \in Threads!Users /\ r \in {"staff", "customer"} /\ cursor \in Nat
      /\ last_read_at' = [last_read_at EXCEPT ![u] = Threads!Later(@, cursor)]
      /\ role_read_at' = [role_read_at EXCEPT ![r] = Threads!Later(@, cursor)]
      /\ blind' = IF up_to = 0 THEN blind \union {u} ELSE blind
      /\ UNCHANGED <<clock, thread, writing, preview, shown, late>>
  BY DEF Threads!Mark, Threads!Users, Threads!role, ThreadTypes
<1>2. up_to # 0 => SeenTo(u, cursor)
  <2>. SUFFICES ASSUME up_to # 0 PROVE SeenTo(u, cursor)
    OBVIOUS
  <2>1. PICK n \in shown[u] : up_to <= n.created_at
    BY DEF SeenTo
  <2>2. n.created_at \in Nat
    BY <1>1 DEF ThreadTypes, Threads!Visible, Stamped
  <2>3. cursor <= n.created_at
    BY <2>1, <2>2 DEF ThreadTypes
  <2>. QED BY <2>1, <2>3 DEF SeenTo
<1>. HIDE DEF cursor, r
<1>3. ThreadTypes'
  BY <1>1 DEF ThreadTypes, Threads!Visible, Threads!isStaff, Threads!Later
<1>4. IdsApart'
  BY <1>1 DEF IdsApart, Ids, Pending, Given
<1>5. MarksSeen'
  <2>1. ASSUME NEW v \in Threads!Users \ blind', last_read_at'[v] # 0
        PROVE  SeenTo(v, last_read_at'[v]) \/ (v = Threads!Author /\ last_read_at'[v] = 1)
    BY <1>1, <1>2, <2>1 DEF MarksSeen, ThreadTypes, Threads!Later
  <2>2. ASSUME NEW q \in {"staff", "customer"}, role_read_at'[q] # 0,
               \A v \in Threads!Users : Threads!role(v) = q => v \notin blind'
        PROVE  \/ \E v \in Threads!Users : Threads!role(v) = q /\ SeenTo(v, role_read_at'[q])
               \/ q = "customer" /\ role_read_at'[q] = 1
    <3>1. CASE q = r /\ role_read_at'[q] = cursor
      BY <1>1, <1>2, <2>2, <3>1 DEF r
    <3>2. CASE role_read_at'[q] = role_read_at[q]
      BY <1>1, <2>2, <3>2 DEF MarksSeen
    <3>. QED BY <1>1, <3>1, <3>2 DEF ThreadTypes, Threads!Later
  <2>3. \A v, at : SeenTo(v, at)' <=> SeenTo(v, at)
    BY <1>1 DEF SeenTo
  <2>. QED BY <1>1, <2>1, <2>2 DEF MarksSeen, SeenTo
<1>6. Threads!PanelMissesNothing'
  BY <1>1 DEF Threads!PanelMissesNothing, Threads!Visible, Threads!Overtaken
<1>. QED BY <1>3, <1>4, <1>5, <1>6

\* Every step of the threads keeps their invariant.
LEMMA ThreadStep == ThreadInv /\ [Threads!Next]_(Threads!vars) => ThreadInv'
<1>. SUFFICES ASSUME ThreadInv, [Threads!Next]_(Threads!vars) PROVE ThreadInv'
  OBVIOUS
<1>1. CASE UNCHANGED Threads!vars
  BY <1>1 DEF Threads!vars, ThreadInv, ThreadTypes, Threads!Visible, Threads!isStaff, Stamped,
     IdsApart,
         Ids, Pending, Given, MarksSeen, SeenTo, Threads!PanelMissesNothing, Threads!Overtaken
<1>2. ASSUME NEW u \in Readers, Threads!MarkShown(u) PROVE ThreadInv'
  <2>1. u \in Threads!Users /\ shown[u] # {} /\ ThreadTypes
    BY <1>2, ThreadAssumption DEF Threads!MarkShown, Threads!Users, ThreadInv
  <2>2. LET t == Threads!Max(Threads!Times(shown[u])) IN t \in Nat \ {0} /\ SeenTo(u, t)
    BY <2>1, LatestShown DEF SeenTo
  <2>. QED BY <1>2, <2>2, ThreadMark DEF Threads!MarkShown
<1>3. ASSUME NEW u \in Readers, Threads!Mark(u, 0) PROVE ThreadInv'
  BY <1>3, ThreadMark
<1>. QED BY <1>1, <1>2, <1>3, ThreadTick, ThreadStamp, ThreadInsert, ThreadPublish, ThreadAsk
         DEF Threads!Next

\* The threads start in their invariant.
LEMMA ThreadStart == Threads!Init => ThreadInv
<1>. SUFFICES ASSUME Threads!Init PROVE ThreadInv
  OBVIOUS
<1>. USE DEF Threads!Init, Threads!created
<1>1. PICK at \in 1..2 : thread = {Threads!Message(1, Threads!Author, "reply", 1, at)}
  OBVIOUS
<1>. DEFINE m == Threads!Message(1, Threads!Author, "reply", 1, at)
<1>2. Stamped(m) /\ m.id = 1 /\ m.sent = 1 /\ m.created_at <= 2 /\ m.by = Threads!Author
  BY DEF Threads!Message, Stamped
<1>. HIDE DEF m
<1>3. IsFiniteSet(thread) /\ Cardinality(thread) = 1 /\ thread = {m}
  BY <1>1, FS_Singleton DEF m
<1>4. ThreadTypes
  BY <1>2, <1>3 DEF ThreadTypes, Threads!Roles, Threads!Visible
<1>5. IdsApart
  <2>1. Pending = {}
    BY DEF Pending
  <2>2. Given = 1
    BY <1>3, <2>1, FS_EmptySet DEF Given
  <2>. QED BY <1>2, <1>3, <2>1, <2>2 DEF IdsApart
<1>6. MarksSeen
  BY DEF MarksSeen, Threads!Roles
<1>7. Threads!PanelMissesNothing
  BY DEF Threads!PanelMissesNothing
<1>. QED BY <1>4, <1>5, <1>6, <1>7 DEF ThreadInv

\* What was not shown to a reader who marks what is shown is unread.
LEMMA ThreadUnseen == ThreadInv => Threads!UnseenIsUnread
<1>. SUFFICES ASSUME ThreadInv, NEW u \in Threads!Users \ blind, NEW m \in Threads!Visible(u) \ shown[u],
                     m.kind # "event", m.sender # u, last_read_at[u] # 0
              PROVE  \/ m \in Threads!computeUnread(u) \/ Threads!Overtaken(m)
                     \/ \E n \in shown[u] : Threads!Newer(n, m)
  BY DEF Threads!UnseenIsUnread
<1>1. Stamped(m) /\ last_read_at[u] \in Nat /\ \A n \in shown[u] : Stamped(n) /\ n \in thread
  BY DEF ThreadInv, ThreadTypes, Threads!Visible
<1>2. CASE m.created_at > last_read_at[u]
  BY <1>2 DEF Threads!computeUnread, Threads!CursorOf
<1>3. CASE m.created_at <= last_read_at[u]
  <2>1. SeenTo(u, last_read_at[u])
    BY <1>1, <1>3 DEF ThreadInv, MarksSeen, Stamped
  <2>2. PICK n \in shown[u] : m.created_at <= n.created_at
    BY <1>1, <1>3, <2>1 DEF SeenTo, Stamped
  <2>. QED BY <1>1, <2>2 DEF Threads!Newer, Threads!Overtaken, Stamped
<1>. QED BY <1>1, <1>2, <1>3 DEF Stamped

\* A reader who was never shown the thread is told of it.
LEMMA ThreadNewcomer == ThreadInv => Threads!NewcomerIsTold
<1>. SUFFICES ASSUME ThreadInv, NEW u \in Threads!Users, last_read_at[u] = 0, NEW m \in Threads!Visible(u),
                     m.sender \notin {u, "system"},
                     m.created_at > Threads!Later(Threads!created, role_read_at[Threads!role(u)])
              PROVE  m \in Threads!computeUnread(u)
  BY DEF Threads!NewcomerIsTold
<1>1. Stamped(m) /\ role_read_at[Threads!role(u)] \in Nat
  BY DEF ThreadInv, ThreadTypes, Threads!Visible, Threads!role
<1>2. m.created_at > Threads!CursorOf(u)
  BY <1>1 DEF Threads!CursorOf, Threads!Later, Threads!created, Stamped
<1>. QED BY <1>1, <1>2 DEF Threads!computeUnread, Stamped

\* A receipt is of somebody on the other side who was shown the message.
LEMMA ThreadReceipts == ThreadInv => Threads!ReceiptsAreTrue
<1>. SUFFICES ASSUME ThreadInv, NEW r \in {"staff", "customer"}
              PROVE  LET side == {u \in Threads!Users : Threads!role(u) # r}
                         m == CHOOSE n \in thread : n.id = preview.of
                     IN (Threads!read(r) /\ side \intersect blind = {} /\ m.by \notin side) =>
                            \/ \E u \in side : \E n \in shown[u] : n = m \/ Threads!Newer(n, m)
                            \/ \E n \in thread : n # m /\ n.created_at \in m.sent..m.created_at
  BY DEF Threads!ReceiptsAreTrue, Threads!Roles
<1>. DEFINE side == {u \in Threads!Users : Threads!role(u) # r}
            other == IF r = "staff" THEN "customer" ELSE "staff"
            m == CHOOSE n \in thread : n.id = preview.of
<1>1. m \in thread /\ m.sent = preview.at /\ Stamped(m)
  BY DEF ThreadInv, IdsApart, ThreadTypes
<1>. HIDE DEF m
<1>. SUFFICES ASSUME Threads!read(r), side \intersect blind = {}, m.by \notin side
              PROVE  \/ \E u \in side : \E n \in shown[u] : n = m \/ Threads!Newer(n, m)
                     \/ \E n \in thread : n # m /\ n.created_at \in m.sent..m.created_at
  BY DEF m
<1>2. /\ other \in {"staff", "customer"} /\ role_read_at[other] \in Nat /\ role_read_at[other] # 0
      /\ m.sent <= role_read_at[other]
      /\ \A u \in Threads!Users : Threads!role(u) = other => u \in side /\ u \notin blind
  BY <1>1 DEF Threads!read, ThreadInv, ThreadTypes
<1>3. CASE \E u \in Threads!Users : Threads!role(u) = other /\ SeenTo(u, role_read_at[other])
  <2>1. PICK u \in Threads!Users : u \in side /\ SeenTo(u, role_read_at[other])
    BY <1>2, <1>3
  <2>2. PICK n \in shown[u] : role_read_at[other] <= n.created_at
    BY <2>1 DEF SeenTo
  <2>3. n \in thread /\ Stamped(n) /\ m.sent <= n.created_at
    BY <1>1, <1>2, <2>2 DEF ThreadInv, ThreadTypes, Threads!Visible, Stamped
  <2>. QED BY <1>1, <2>1, <2>3 DEF Threads!Newer, Stamped
<1>4. CASE other = "customer" /\ role_read_at[other] = 1
  <2>1. PICK n \in thread : n.created_at <= 2 /\ Stamped(n) /\ n.by = Threads!Author
    BY DEF ThreadInv, ThreadTypes
  <2>2. m.sent = 1
    BY <1>1, <1>2, <1>4 DEF Stamped
  <2>3. Threads!Author \in side
    BY <1>4, AuthorWrites DEF Threads!Users
  <2>. QED BY <1>1, <1>4, <2>1, <2>2, <2>3 DEF Stamped
<1>. QED BY <1>2, <1>3, <1>4 DEF ThreadInv, MarksSeen

-----------------------------------------------------------------------------
(* Notices in the app.                                                     *)

\* A run has claimed the window `d` of `s`, and is to show the notice.
Claimed(s, d) == [sub |-> s, days |-> d, won |-> TRUE]

\* The types of the notices.
NoticeTypes ==
    /\ DOMAIN noticeSub = NoticeSubs /\ \A s \in NoticeSubs : noticeSub[s].sent \subseteq AppWindows
    /\ DOMAIN run = Workers
    /\ \A w \in Workers : run[w] \subseteq [sub : NoticeSubs, days : AppWindows, won : BOOLEAN]
    /\ notices \in [NoticeSubs -> [AppWindows -> Nat]]

\* A claimed window is on record, was not shown, and one worker has it; a window that is
\* not on record was not shown.
ClaimsApart ==
    /\ \A w \in Workers, s \in NoticeSubs, d \in AppWindows : Claimed(s, d) \in run[w] =>
          /\ d \in noticeSub[s].sent /\ notices[s][d] = 0
          /\ \A v \in Workers : Claimed(s, d) \in run[v] => v = w
    /\ \A s \in NoticeSubs, d \in AppWindows : d \notin noticeSub[s].sent => notices[s][d] = 0

\* The inductive invariant of the notices.
NoticeInv == NoticeTypes /\ ClaimsApart /\ InApp!ShownOnce

\* The notices start in their invariant.
LEMMA NoticeStart == InApp!Init => NoticeInv
<1>. SUFFICES ASSUME InApp!Init PROVE NoticeInv
  OBVIOUS
<1>1. PICK term \in [NoticeSubs -> Terms] :
        noticeSub = [s \in NoticeSubs |-> [status |-> "active", expires |-> term[s], term |-> term[s],
                                           sent |-> {}]]
  BY DEF InApp!Init
<1>2. \A s \in NoticeSubs : noticeSub[s].sent = {}
  BY <1>1
<1>. QED BY <1>1, <1>2 DEF InApp!Init, NoticeInv, NoticeTypes, ClaimsApart, InApp!ShownOnce

\* Every step of the notices keeps their invariant.
LEMMA NoticeStep == NoticeInv /\ [InApp!Next]_(InApp!vars) => NoticeInv'
<1>. SUFFICES ASSUME NoticeInv, [InApp!Next]_(InApp!vars) PROVE NoticeInv'
  OBVIOUS
<1>. USE DEF NoticeInv
<1>1. ASSUME UNCHANGED <<noticeSub, run, notices, dropped>> PROVE NoticeInv'
  <2>1. NoticeTypes'
    BY <1>1 DEF NoticeTypes
  <2>2. ClaimsApart'
    BY <1>1 DEF ClaimsApart, Claimed
  <2>3. InApp!ShownOnce'
    BY <1>1 DEF InApp!ShownOnce
  <2>. QED BY <2>1, <2>2, <2>3
<1>2. CASE UNCHANGED InApp!vars
  BY <1>1, <1>2 DEF InApp!vars, InApp!history
<1>3. CASE InApp!Tick
  BY <1>1, <1>3 DEF InApp!Tick, InApp!history
<1>4. ASSUME UNCHANGED <<run, notices, dropped>>, DOMAIN noticeSub' = NoticeSubs,
             \A s \in NoticeSubs : noticeSub'[s].sent = noticeSub[s].sent
      PROVE  NoticeInv'
  <2>1. NoticeTypes'
    BY <1>4 DEF NoticeTypes
  <2>2. ClaimsApart'
    BY <1>4 DEF ClaimsApart, Claimed
  <2>3. InApp!ShownOnce'
    BY <1>4 DEF InApp!ShownOnce
  <2>. QED BY <2>1, <2>2, <2>3
<1>5. ASSUME NEW s \in NoticeSubs, InApp!Expire(s) \/ InApp!Extend(s) PROVE NoticeInv'
  <2>1. UNCHANGED <<run, notices, dropped>>
    BY <1>5 DEF InApp!Expire, InApp!Extend, InApp!history
  <2>2. CASE InApp!Expire(s)
    BY <1>4, <2>1, <2>2 DEF InApp!Expire, NoticeTypes
  <2>3. CASE InApp!Extend(s)
    BY <1>4, <2>1, <2>3 DEF InApp!Extend, NoticeTypes
  <2>. QED BY <1>5, <2>2, <2>3
<1>6. ASSUME NEW w \in Workers, InApp!Start(w) PROVE NoticeInv'
  <2>. DEFINE got == {[sub |-> s, days |-> InApp!MostUrgent(InApp!Applicable(s)), won |-> FALSE] :
                        s \in InApp!Candidates}
  <2>1. run[w] = {} /\ run' = [run EXCEPT ![w] = got] /\ UNCHANGED <<noticeSub, notices, dropped>>
    BY <1>6 DEF InApp!Start, InApp!history
  <2>2. ASSUME NEW s \in InApp!Candidates PROVE InApp!MostUrgent(InApp!Applicable(s)) \in AppWindows
    <3>1. InApp!Applicable(s) # {} /\ InApp!Applicable(s) \subseteq AppWindows
      BY DEF InApp!Candidates, InApp!Applicable
    <3>2. \E d \in InApp!Applicable(s) : \A e \in InApp!Applicable(s) : d <= e
      BY <3>1, LeastExists, ReminderAssumption
    <3>. QED BY <3>1, <3>2 DEF InApp!MostUrgent
  <2>3. got \subseteq [sub : NoticeSubs, days : AppWindows, won : {FALSE}]
    <3>. SUFFICES ASSUME NEW s \in InApp!Candidates
                  PROVE  [sub |-> s, days |-> InApp!MostUrgent(InApp!Applicable(s)), won |-> FALSE]
                            \in [sub : NoticeSubs, days : AppWindows, won : {FALSE}]
      OBVIOUS
    <3>1. s \in NoticeSubs
      BY DEF InApp!Candidates
    <3>. QED BY <2>2, <3>1
  <2>. HIDE DEF got
  <2>4. \A v \in Workers : \A s, d : Claimed(s, d) \in run'[v] <=> Claimed(s, d) \in run[v]
    BY <2>1, <2>3 DEF NoticeTypes, Claimed
  <2>5. NoticeTypes'
    BY <2>1, <2>3 DEF NoticeTypes
  <2>6. ClaimsApart'
    BY <2>1, <2>4 DEF ClaimsApart
  <2>7. InApp!ShownOnce'
    BY <2>1, <2>4 DEF InApp!ShownOnce, Claimed
  <2>. QED BY <2>5, <2>6, <2>7
<1>7. ASSUME NEW w \in Workers, NEW x \in run[w], InApp!Claim(w, x) PROVE NoticeInv'
  <2>. DEFINE s == x.sub  d == x.days
  <2>1. x \in [sub : NoticeSubs, days : AppWindows, won : BOOLEAN] /\ ~x.won
    BY <1>7 DEF InApp!Claim, NoticeTypes
  <2>2. UNCHANGED <<notices, dropped>>
    BY <1>7 DEF InApp!Claim, InApp!history
  <2>3. CASE d \in noticeSub[s].sent
    <3>1. run' = [run EXCEPT ![w] = @ \ {x}] /\ UNCHANGED noticeSub
      BY <1>7, <2>3 DEF InApp!Claim
    <3>2. \A v \in Workers : \A t, e : Claimed(t, e) \in run'[v] <=> Claimed(t, e) \in run[v]
      BY <2>1, <3>1 DEF NoticeTypes, Claimed
    <3>3. NoticeTypes'
      BY <2>2, <3>1 DEF NoticeTypes
    <3>4. ClaimsApart'
      BY <2>2, <3>1, <3>2 DEF ClaimsApart
    <3>5. InApp!ShownOnce'
      BY <2>2, <3>1, <3>2 DEF InApp!ShownOnce, Claimed
    <3>. QED BY <3>3, <3>4, <3>5
  <2>4. CASE d \notin noticeSub[s].sent
    <3>1. /\ run' = [run EXCEPT ![w] = (@ \ {x}) \union {[x EXCEPT !.won = TRUE]}]
          /\ noticeSub' = [noticeSub EXCEPT ![s].sent = @ \union {e \in AppWindows : e >= d}]
      BY <1>7, <2>4 DEF InApp!Claim, InApp!Recorded
    <3>2. [x EXCEPT !.won = TRUE] = Claimed(s, d)
      <4>. DEFINE y == [x EXCEPT !.won = TRUE]
      <4>1. /\ y \in [sub : NoticeSubs, days : AppWindows, won : BOOLEAN]
            /\ y.won /\ y.sub = s /\ y.days = d
        BY <2>1
      <4>. HIDE DEF y
      <4>2. y = Claimed(y.sub, y.days)
        BY <4>1 DEF Claimed
      <4>3. y = Claimed(s, d)
        BY <4>1, <4>2
      <4>. QED BY <4>3 DEF y
    <3>3. /\ \A v \in Workers : \A t, e : Claimed(t, e) \in run'[v] <=>
                Claimed(t, e) \in run[v] \/ (v = w /\ t = s /\ e = d)
      BY <2>1, <3>1, <3>2 DEF NoticeTypes, Claimed
    <3>4. /\ noticeSub'[s].sent = noticeSub[s].sent \union {e \in AppWindows : e >= d}
          /\ \A t \in NoticeSubs : t # s => noticeSub'[t] = noticeSub[t]
      BY <2>1, <3>1 DEF NoticeTypes
    <3>5. notices[s][d] = 0 /\ \A v \in Workers : Claimed(s, d) \notin run[v]
      BY <2>1, <2>4 DEF ClaimsApart
    <3>6. d \in noticeSub'[s].sent /\ d \in Nat
      <4>1. d \in AppWindows /\ d \in Nat
        BY <2>1, ReminderAssumption
      <4>. HIDE DEF d
      <4>. QED BY <3>4, <4>1
    <3>7. NoticeTypes'
      BY <2>1, <2>2, <3>1, <3>2, <3>4 DEF NoticeTypes, Claimed
    <3>8. ClaimsApart'
      BY <2>1, <2>2, <3>3, <3>4, <3>5, <3>6 DEF ClaimsApart
    <3>9. InApp!ShownOnce'
      BY <2>1, <2>2, <3>3, <3>4, <3>6, ReminderAssumption DEF InApp!ShownOnce, Claimed
    <3>. QED BY <3>7, <3>8, <3>9
  <2>. QED BY <2>3, <2>4
<1>8. ASSUME NEW w \in Workers, NEW x \in run[w], InApp!Notify(w, x) PROVE NoticeInv'
  <2>. DEFINE s == x.sub  d == x.days
  <2>1. x \in [sub : NoticeSubs, days : AppWindows, won : BOOLEAN] /\ x.won
    BY <1>8 DEF InApp!Notify, NoticeTypes
  <2>2. x = Claimed(s, d)
    BY <2>1 DEF Claimed
  <2>3. /\ notices' = [notices EXCEPT ![s][d] = @ + 1]
        /\ run' = [run EXCEPT ![w] = @ \ {x}] /\ UNCHANGED <<noticeSub, dropped>>
    BY <1>8 DEF InApp!Notify
  <2>4. notices[s][d] = 0 /\ d \in noticeSub[s].sent /\ \A v \in Workers : Claimed(s, d) \in run[v] => v = w
    BY <2>1, <2>2 DEF ClaimsApart
  <2>5. /\ notices' \in [NoticeSubs -> [AppWindows -> Nat]] /\ notices'[s][d] = 1
        /\ \A t \in NoticeSubs, e \in AppWindows : <<t, e>> # <<s, d>> => notices'[t][e] = notices[t][e]
    BY <2>1, <2>3, <2>4 DEF NoticeTypes
  <2>6. \A v \in Workers : \A t, e : Claimed(t, e) \in run'[v] <=>
                Claimed(t, e) \in run[v] /\ <<t, e>> # <<s, d>>
    <3>1. \A t, e : Claimed(t, e) = x <=> t = s /\ e = d
      BY <2>2 DEF Claimed
    <3>. QED BY <2>2, <2>3, <2>4, <3>1 DEF NoticeTypes
  <2>7. NoticeTypes'
    BY <2>3, <2>5 DEF NoticeTypes
  <2>8. ClaimsApart'
    BY <2>3, <2>4, <2>5, <2>6 DEF ClaimsApart
  <2>9. InApp!ShownOnce'
    <3>. SUFFICES ASSUME NEW t \in NoticeSubs, NEW c \in AppWindows
                  PROVE  /\ notices'[t][c] <= 1
                         /\ c \in noticeSub'[t].sent => \E e \in AppWindows :
                              /\ e <= c
                              /\ \/ notices'[t][e] = 1 \/ <<t, e>> \in dropped'
                                 \/ \E v \in Workers : Claimed(t, e) \in run'[v]
      BY DEF InApp!ShownOnce, Claimed
    <3>1. notices'[t][c] <= 1
      BY <2>5 DEF InApp!ShownOnce
    <3>2. ASSUME c \in noticeSub[t].sent
          PROVE  \E e \in AppWindows :
                              /\ e <= c
                              /\ \/ notices'[t][e] = 1 \/ <<t, e>> \in dropped'
                                 \/ \E v \in Workers : Claimed(t, e) \in run'[v]
      <4>1. PICK e \in AppWindows : /\ e <= c
                                    /\ \/ notices[t][e] = 1 \/ <<t, e>> \in dropped
                                       \/ \E v \in Workers : Claimed(t, e) \in run[v]
        BY <3>2 DEF InApp!ShownOnce, Claimed
      <4>. QED BY <2>3, <2>5, <2>6, <4>1
    <3>. QED BY <2>3, <3>1, <3>2
  <2>. QED BY <2>7, <2>8, <2>9
<1>9. ASSUME NEW w \in Workers, InApp!RunFails(w) PROVE NoticeInv'
  <2>1. /\ dropped' = dropped \union {<<x.sub, x.days>> : x \in {y \in run[w] : y.won}}
        /\ run' = [run EXCEPT ![w] = {}] /\ UNCHANGED <<noticeSub, notices>>
    BY <1>9 DEF InApp!RunFails
  <2>2. \A v \in Workers : \A t, e : Claimed(t, e) \in run'[v] <=> Claimed(t, e) \in run[v] /\ v # w
    BY <2>1 DEF NoticeTypes
  <2>3. \A t, e : Claimed(t, e) \in run[w] => <<t, e>> \in dropped'
    BY <2>1 DEF Claimed
  <2>4. dropped \subseteq dropped'
    BY <2>1
  <2>5. NoticeTypes'
    BY <2>1 DEF NoticeTypes
  <2>6. ClaimsApart'
    BY <2>1, <2>2 DEF ClaimsApart
  <2>7. InApp!ShownOnce'
    BY <2>1, <2>2, <2>3, <2>4 DEF InApp!ShownOnce, Claimed
  <2>. QED BY <2>5, <2>6, <2>7
<1>. QED BY <1>2, <1>3, <1>5, <1>6, <1>7, <1>8, <1>9 DEF InApp!Next

-----------------------------------------------------------------------------
(* Reminders by mail.                                                      *)

\* The windows of the mail job, by their place.
MailWindow(i) == MailWindows[i]

\* The job goes through all of its windows.
LEMMA WindowsAre == ByMail!Windows = {MailWindow(i) : i \in 1..Len(MailWindows)}
BY DEF ByMail!Windows, MailWindow

\* Days do not run backwards.
LEMMA LaterDay ==
    ASSUME NEW a \in Nat, NEW b \in Nat, a <= b
    PROVE  /\ ByMail!UtcDay(a) \in Nat /\ ByMail!UtcDay(b) \in Nat
           /\ ByMail!UtcDay(a) <= ByMail!UtcDay(b)
<1>. DEFINE p == a \div DayTicks
            q == b \div DayTicks
<1>1. DayTicks \in Nat \ {0}
  BY ReminderAssumption
<1>2. /\ p \in Nat /\ q \in Nat
      /\ DayTicks * p <= a /\ b < DayTicks * q + DayTicks
  BY <1>1
<1>3. p <= q
  <2>. SUFFICES ASSUME q + 1 <= p PROVE FALSE
    BY <1>2
  <2>. HIDE DEF p, q
  <2>1. DayTicks * (q + 1) <= DayTicks * p
    BY <1>1, <1>2
  <2>2. DayTicks * (q + 1) = DayTicks * q + DayTicks
    BY <1>1, <1>2
  <2>. QED BY <1>1, <1>2, <2>1, <2>2
<1>. QED BY <1>2, <1>3 DEF ByMail!UtcDay

\* Where a run of the mail job stands.
SweepType == [pc : {"idle", "find", "send", "mark"}, at : 0..Len(MailWindows),
              todo : SUBSET (MailSubs \X Nat), current : SUBSET (MailSubs \X Nat)]

\* What the job has in hand, and what the tables hold.
MailTypes ==
    /\ mailNow \in Nat /\ mailFaults \in Nat
    /\ DOMAIN mailSub = MailSubs
    /\ \A s \in MailSubs : DOMAIN mailSub[s] = {"status", "expires", "sent", "extended"}
    /\ \A s \in MailSubs : mailSub[s].expires \in Nat /\ mailSub[s].sent \subseteq ByMail!Windows
    /\ mails \in [MailSubs -> [ByMail!Windows -> Nat]] /\ lost \in [MailSubs -> [ByMail!Windows -> Int]]
    /\ begun.day \in Nat /\ begun.faults \in Nat /\ begun.faults <= mailFaults
    /\ begun.day <= ByMail!UtcDay(mailNow)
    /\ sweep \in SweepType

\* The loop over a window has each subscription once, without a record of the window;
\* the end it has read is the subscription's, or has been put off since.
Loop ==
    /\ sweep.pc # "idle" => sweep.at \in 1..Len(MailWindows)
    /\ sweep.pc \in {"idle", "find"} => sweep.todo = {}
    /\ sweep.pc # "mark" => sweep.current = {}
    /\ sweep.pc = "mark" => \E x \in sweep.todo : sweep.current = {x} /\ mails[x[1]][MailWindow(sweep.at)] > 0
                               /\ <<x[1], MailWindow(sweep.at), x[2]>> \in told
    /\ \A x, y \in sweep.todo : x[1] = y[1] => x = y
    /\ \A x \in sweep.todo : /\ MailWindow(sweep.at) \notin mailSub[x[1]].sent
                             /\ x[2] = mailSub[x[1]].expires \/ mailSub[x[1]].extended

\* Mails whose record is not lost are on record; a mail is counted.
Counted ==
    \A s \in MailSubs, d \in ByMail!Windows :
        /\ mails[s][d] <= lost[s][d] + (IF d \in mailSub[s].sent THEN 1 ELSE 0)
        /\ \A e \in Nat : <<s, d, e>> \in told => mails[s][d] > 0

\* The subscription was mailed about this end, or about the one it had before.
Reminded(s, d) == \/ <<s, d, mailSub[s].expires>> \in told
                  \/ mailSub[s].extended /\ mails[s][d] > 0
Recorded == \A s \in MailSubs : \A d \in mailSub[s].sent : Reminded(s, d)

\* Whoever was due for a window when the run began, is still, and can be mailed.
Expects(s, d) == /\ s \in ByMail!Due(begun.day, d) /\ <<s, d>> \in begun.due /\ contact[s]

\* A run without faults has reminded them of the windows behind it, and of this one, or
\* has them still to do.
Underway ==
    /\ \A s \in MailSubs, d \in ByMail!Windows :
          <<s, d>> \in begun.due => begun.day + d <= ByMail!UtcDay(mailSub[s].expires)
    /\ sweep.pc # "idle" /\ mailFaults = begun.faults /\ ByMail!UtcDay(mailNow) = begun.day =>
          \A i \in 1..Len(MailWindows), s \in MailSubs : Expects(s, MailWindow(i)) =>
              /\ i < sweep.at => Reminded(s, MailWindow(i))
              /\ i = sweep.at /\ sweep.pc # "find" =>
                    Reminded(s, MailWindow(i)) \/ \E x \in sweep.todo : x[1] = s

\* The inductive invariant of the mails.
MailInv == MailTypes /\ Loop /\ Counted /\ Recorded /\ Underway

\* A run that is over.
LEMMA IdleSweep == /\ ByMail!Idle \in SweepType /\ ByMail!Idle.pc = "idle" /\ ByMail!Idle.at = 0
                   /\ ByMail!Idle.todo = {} /\ ByMail!Idle.current = {}
BY ReminderAssumption DEF ByMail!Idle, SweepType

\* A run that looks a window up.
LEMMA FindSweep ==
    ASSUME NEW i \in 1..Len(MailWindows)
    PROVE  LET f == [ByMail!Idle EXCEPT !.pc = "find", !.at = i]
           IN f \in SweepType /\ f.pc = "find" /\ f.at = i /\ f.todo = {} /\ f.current = {}
<1>1. i \in 0..Len(MailWindows)
  BY ReminderAssumption
<1>2. /\ [ByMail!Idle EXCEPT !.pc = "find", !.at = i] \in SweepType
      /\ [ByMail!Idle EXCEPT !.pc = "find", !.at = i].todo = {}
      /\ [ByMail!Idle EXCEPT !.pc = "find", !.at = i].current = {}
  BY <1>1, IdleSweep DEF SweepType
<1>3. /\ [ByMail!Idle EXCEPT !.pc = "find", !.at = i].pc = "find"
      /\ [ByMail!Idle EXCEPT !.pc = "find", !.at = i].at = i
  BY IdleSweep DEF SweepType
<1>. QED BY <1>2, <1>3

\* The window after this one is looked up next, if there is one.
LEMMA NextSweep ==
    ASSUME MailInv, sweep.pc # "idle"
    PROVE  LET f == ByMail!NextWindow(sweep)
           IN /\ f \in SweepType /\ f.todo = {} /\ f.current = {}
              /\ IF sweep.at = Len(MailWindows) THEN f.pc = "idle" ELSE f.pc = "find" /\ f.at = sweep.at + 1
<1>1. sweep.at \in 1..Len(MailWindows)
  BY DEF MailInv, Loop
<1>2. CASE sweep.at = Len(MailWindows)
  BY <1>2, IdleSweep DEF ByMail!NextWindow
<1>3. CASE sweep.at # Len(MailWindows)
  <2>1. sweep.at + 1 \in 1..Len(MailWindows)
    BY <1>1, <1>3, ReminderAssumption
  <2>2. ByMail!NextWindow(sweep) = [ByMail!Idle EXCEPT !.pc = "find", !.at = sweep.at + 1]
    BY <1>3 DEF ByMail!NextWindow
  <2>. QED BY <1>3, <2>1, <2>2, FindSweep
<1>. QED BY <1>2, <1>3

\* One subscription less to do in this window.
LEMMA LessSweep ==
    ASSUME MailInv, NEW x \in sweep.todo, sweep.pc \in {"send", "mark"}
    PROVE  LET f == ByMail!Without(sweep, x)
           IN /\ f \in SweepType /\ f.current = {}
              /\ IF sweep.todo = {x} THEN f = ByMail!NextWindow(sweep)
                 ELSE f.pc = "send" /\ f.at = sweep.at /\ f.todo = sweep.todo \ {x}
<1>1. CASE sweep.todo = {x}
  BY <1>1, NextSweep DEF ByMail!Without
<1>2. CASE sweep.todo # {x}
  <2>. DEFINE left == sweep.todo \ {x}
  <2>1. left # {} /\ left \in SUBSET (MailSubs \X Nat) /\ sweep \in SweepType
    BY <1>2 DEF MailInv, MailTypes, SweepType
  <2>2. ByMail!Without(sweep, x) = [sweep EXCEPT !.pc = "send", !.todo = left, !.current = {}]
    BY <2>1 DEF ByMail!Without
  <2>. HIDE DEF left
  <2>3. LET f == [sweep EXCEPT !.pc = "send", !.todo = left, !.current = {}]
        IN f \in SweepType /\ f.current = {} /\ f.pc = "send" /\ f.at = sweep.at /\ f.todo = left
    BY <2>1 DEF SweepType
  <2>. QED BY <1>2, <2>2, <2>3 DEF left
<1>. QED BY <1>1, <1>2

\* The mails start in their invariant.
LEMMA MailStart == ByMail!Init => MailInv
<1>. SUFFICES ASSUME ByMail!Init PROVE MailInv
  OBVIOUS
<1>. USE ReminderAssumption DEF ByMail!Init
<1>1. \A s \in MailSubs : mailSub[s].expires \in Nat /\ mailSub[s].sent = {}
  OBVIOUS
<1>2. sweep.pc = "idle" /\ sweep.at = 0 /\ sweep.todo = {} /\ sweep.current = {}
  BY DEF ByMail!Idle
<1>3. MailTypes
  <2>1. ByMail!UtcDay(mailNow) \in Nat
    BY LaterDay
  <2>2. sweep \in SweepType
    BY IdleSweep
  <2>3. begun.day = 0 /\ begun.faults = 0 /\ mailNow = 0 /\ mailFaults = 0
    OBVIOUS
  <2>4. /\ DOMAIN mailSub = MailSubs
        /\ \A s \in MailSubs : DOMAIN mailSub[s] = {"status", "expires", "sent", "extended"}
    OBVIOUS
  <2>5. mails \in [MailSubs -> [ByMail!Windows -> Nat]] /\ lost \in [MailSubs -> [ByMail!Windows -> Int]]
    OBVIOUS
  <2>. QED BY <1>1, <2>1, <2>2, <2>3, <2>4, <2>5 DEF MailTypes
<1>4. Loop
  BY <1>2 DEF Loop
<1>5. Counted
  BY <1>1 DEF Counted
<1>6. Recorded
  BY <1>1 DEF Recorded
<1>7. Underway
  BY <1>2 DEF Underway
<1>. QED BY <1>3, <1>4, <1>5, <1>6, <1>7 DEF MailInv

\* A run begins: it has reminded nobody, and notes who is due.
LEMMA MailBegins == ASSUME MailInv, ByMail!Start PROVE MailInv'
<1>. USE DEF MailInv
<1>1. /\ sweep.pc = "idle" /\ sweep' = [ByMail!Idle EXCEPT !.pc = "find", !.at = 1]
      /\ begun'.day = ByMail!UtcDay(mailNow) /\ begun'.faults = mailFaults
      /\ begun'.due = {x \in MailSubs \X ByMail!Windows : x[1] \in ByMail!Due(ByMail!UtcDay(mailNow), x[2])}
      /\ UNCHANGED <<mailNow, mailSub, contact, mailFaults, told, mails, lost>>
  BY DEF ByMail!Start
<1>2. /\ sweep' \in SweepType
      /\ sweep'.pc = "find" /\ sweep'.at = 1 /\ sweep'.todo = {} /\ sweep'.current = {}
  <2>1. 1 \in 1..Len(MailWindows)
    BY ReminderAssumption
  <2>. QED BY <1>1, <2>1, FindSweep
<1>3. MailTypes'
  <2>1. ByMail!UtcDay(mailNow) \in Nat
    BY LaterDay DEF MailTypes
  <2>2. begun'.day \in Nat /\ begun'.faults \in Nat /\ begun'.faults <= mailFaults'
        /\ begun'.day <= ByMail!UtcDay(mailNow')
    BY <1>1, <2>1 DEF MailTypes
  <2>. QED BY <1>1, <1>2, <2>2 DEF MailTypes, ByMail!Windows, ByMail!UtcDay
<1>4. Loop'
  BY <1>1, <1>2, ReminderAssumption DEF Loop
<1>5. Counted' /\ Recorded'
  BY <1>1 DEF Counted, Recorded, Reminded, ByMail!Windows
<1>6. Underway'
  <2>1. ASSUME NEW s \in MailSubs, NEW d \in ByMail!Windows, <<s, d>> \in begun'.due
        PROVE  begun'.day + d <= ByMail!UtcDay(mailSub'[s].expires)
    <3>1. s \in ByMail!Due(ByMail!UtcDay(mailNow), d)
      BY <1>1, <2>1
    <3>. QED BY <1>1, <3>1, LaterDay DEF ByMail!Due, MailTypes, ByMail!Windows
  <2>. QED BY <1>2, <2>1 DEF Underway, ByMail!Windows
<1>. QED BY <1>3, <1>4, <1>5, <1>6

\* Nothing but the clock or the faults, and where the run stands, has changed.
LEMMA MailCounts ==
    ASSUME MailInv, UNCHANGED <<mailSub, told, mails, lost>>
    PROVE  Counted' /\ Recorded'
BY DEF MailInv, Counted, Recorded, Reminded, ByMail!Windows

\* The subscription `x` is behind the run: it was reminded, cannot be mailed, or met a
\* fault; its record may have got the window.
LEMMA MailPasses ==
    ASSUME MailInv, NEW x \in sweep.todo, sweep.pc \in {"send", "mark"},
           sweep' = ByMail!Without(sweep, x),
           mailFaults' \in Nat, mailFaults <= mailFaults',
           UNCHANGED <<mailNow, contact, told, mails, begun>>,
           lost' \in [MailSubs -> [ByMail!Windows -> Int]],
           DOMAIN mailSub' = MailSubs,
           \A s \in MailSubs : DOMAIN mailSub'[s] = DOMAIN mailSub[s],
           \A s \in MailSubs : /\ mailSub'[s].expires = mailSub[s].expires
                               /\ mailSub'[s].status = mailSub[s].status
                               /\ mailSub'[s].extended = mailSub[s].extended
                               /\ mailSub'[s].sent = mailSub[s].sent \/
                                    (s = x[1] /\ mailSub'[s].sent = mailSub[s].sent \union {MailWindow(sweep.at)}),
           mailFaults' # begun.faults \/ ~contact[x[1]] \/ Reminded(x[1], MailWindow(sweep.at))
    PROVE  MailTypes' /\ Loop' /\ Underway'
<1>. USE DEF MailInv
<1>1. /\ sweep \in SweepType /\ sweep.at \in 1..Len(MailWindows) /\ MailWindow(sweep.at) \in ByMail!Windows
  BY WindowsAre DEF MailTypes, Loop
<1>2. sweep' \in SweepType /\ sweep'.current = {}
  BY LessSweep
<1>3. \/ /\ sweep.todo = {x} /\ sweep'.todo = {}
         /\ \/ sweep.at = Len(MailWindows) /\ sweep'.pc = "idle"
            \/ sweep.at < Len(MailWindows) /\ sweep'.pc = "find" /\ sweep'.at = sweep.at + 1
      \/ sweep'.pc = "send" /\ sweep'.at = sweep.at /\ sweep'.todo = sweep.todo \ {x}
  <2>1. CASE sweep.todo = {x}
    BY <1>1, <2>1, LessSweep, NextSweep, ReminderAssumption
  <2>2. CASE sweep.todo # {x}
    BY <2>2, LessSweep
  <2>. QED BY <2>1, <2>2
<1>4. MailTypes'
  <2>1. /\ begun'.faults <= mailFaults' /\ begun'.day <= ByMail!UtcDay(mailNow')
        /\ begun'.day \in Nat /\ begun'.faults \in Nat
    BY DEF MailTypes
  <2>2. \A s \in MailSubs : mailSub'[s].expires \in Nat /\ mailSub'[s].sent \subseteq ByMail!Windows
    <3>. TAKE s \in MailSubs
    <3>1. mailSub[s].sent \subseteq ByMail!Windows /\ mailSub[s].expires \in Nat
      BY DEF MailTypes
    <3>2. mailSub'[s].sent \subseteq mailSub[s].sent \union {MailWindow(sweep.at)}
      OBVIOUS
    <3>. QED BY <1>1, <3>1, <3>2
  <2>3. \A s \in MailSubs : DOMAIN mailSub'[s] = {"status", "expires", "sent", "extended"}
    BY DEF MailTypes
  <2>. QED BY <1>2, <2>1, <2>2, <2>3 DEF MailTypes, ByMail!Windows, ByMail!UtcDay
<1>5. Loop'
  <2>1. sweep'.todo \subseteq sweep.todo \ {x} /\ sweep'.pc \in {"idle", "find", "send"}
    BY <1>3
  <2>2. \A y \in sweep'.todo : y[1] # x[1] /\ y[1] \in MailSubs /\ sweep'.at = sweep.at
    BY <1>1, <1>3, <2>1 DEF Loop, SweepType
  <2>3. \A y \in sweep'.todo : /\ MailWindow(sweep'.at) \notin mailSub'[y[1]].sent
                               /\ y[2] = mailSub'[y[1]].expires \/ mailSub'[y[1]].extended
    BY <2>1, <2>2 DEF Loop
  <2>4. /\ sweep'.pc # "idle" => sweep'.at \in 1..Len(MailWindows)
        /\ sweep'.pc \in {"idle", "find"} => sweep'.todo = {}
    BY <1>1, <1>3, ReminderAssumption
  <2>5. \A y, z \in sweep'.todo : y[1] = z[1] => y = z
    BY <2>1 DEF Loop
  <2>6. sweep'.pc # "mark" /\ sweep'.current = {}
    BY <1>2, <2>1
  <2>. QED BY <2>3, <2>4, <2>5, <2>6 DEF Loop, MailWindow
<1>6. Underway'
  <2>1. \A s \in MailSubs, i \in 1..Len(MailWindows) :
           /\ Expects(s, MailWindow(i))' => Expects(s, MailWindow(i))
           /\ Reminded(s, MailWindow(i)) => Reminded(s, MailWindow(i))'
    BY DEF Expects, Reminded, ByMail!Due, ByMail!UtcDay, MailWindow
  <2>2. \A s \in MailSubs, d \in ByMail!Windows :
          <<s, d>> \in begun.due => begun.day + d <= ByMail!UtcDay(mailSub'[s].expires)
    BY DEF Underway
  <2>3. ASSUME sweep'.pc # "idle", mailFaults' = begun.faults, ByMail!UtcDay(mailNow) = begun.day,
               NEW i \in 1..Len(MailWindows), NEW s \in MailSubs, Expects(s, MailWindow(i))'
        PROVE  /\ i < sweep'.at => Reminded(s, MailWindow(i))'
               /\ i = sweep'.at /\ sweep'.pc # "find" =>
                    Reminded(s, MailWindow(i))' \/ \E y \in sweep'.todo : y[1] = s
    <3>1. Expects(s, MailWindow(i)) /\ mailFaults = begun.faults
      BY <2>1, <2>3 DEF MailTypes
    <3>2. /\ i < sweep.at => Reminded(s, MailWindow(i))
          /\ i = sweep.at => Reminded(s, MailWindow(i)) \/ \E y \in sweep.todo : y[1] = s
      BY <2>3, <3>1 DEF Underway
    <3>3. s = x[1] /\ i = sweep.at => Reminded(s, MailWindow(i))
      BY <2>3, <3>1 DEF Expects
    <3>. QED BY <1>1, <1>3, <2>1, <2>3, <3>2, <3>3
  <2>. QED BY <2>2, <2>3 DEF Underway, ByMail!Windows, ByMail!UtcDay
<1>. QED BY <1>4, <1>5, <1>6

\* A step that leaves the tables, the mails and the clock, and ends at `idle` or at the next
\* window after a fault.
LEMMA MailGivesUp ==
    ASSUME MailInv, mailFaults' = mailFaults + 1,
           sweep' \in SweepType, sweep'.pc \in {"idle", "find"}, sweep'.todo = {}, sweep'.current = {},
           sweep'.pc # "idle" => sweep'.at \in 1..Len(MailWindows),
           UNCHANGED <<mailNow, mailSub, contact, told, mails, lost, begun>>
    PROVE  MailInv'
<1>. USE DEF MailInv
<1>1. mailFaults' \in Nat /\ begun.faults < mailFaults' /\ begun'.faults <= mailFaults'
  BY DEF MailTypes
<1>2. MailTypes'
  BY <1>1 DEF MailTypes, ByMail!Windows, ByMail!UtcDay
<1>3. Loop'
  BY DEF Loop
<1>4. Counted' /\ Recorded'
  BY MailCounts
<1>5. Underway'
  BY <1>1 DEF Underway, MailTypes, ByMail!Windows, ByMail!UtcDay
<1>. QED BY <1>2, <1>3, <1>4, <1>5

\* A window whose query throws is given up, at the cost of a fault.
LEMMA MailFindFails == ASSUME MailInv, ByMail!FindFails PROVE MailInv'
<1>1. /\ sweep.pc = "find" /\ sweep' = ByMail!NextWindow(sweep) /\ mailFaults' = mailFaults + 1
      /\ UNCHANGED <<mailNow, mailSub, contact, told, mails, lost, begun>>
  BY DEF ByMail!FindFails, ByMail!Fault, ByMail!history
<1>2. sweep.at \in 1..Len(MailWindows)
  BY <1>1 DEF MailInv, Loop
<1>3. /\ sweep' \in SweepType /\ sweep'.pc \in {"idle", "find"} /\ sweep'.todo = {} /\ sweep'.current = {}
      /\ sweep'.pc # "idle" => sweep'.at \in 1..Len(MailWindows)
  BY <1>1, <1>2, NextSweep, ReminderAssumption
<1>. QED BY <1>1, <1>3, MailGivesUp

\* A run whose worker dies is over, at the cost of a fault.
LEMMA MailWorkerDies == ASSUME MailInv, ByMail!WorkerDies PROVE MailInv'
<1>1. /\ sweep' = ByMail!Idle /\ mailFaults' = mailFaults + 1
      /\ UNCHANGED <<mailNow, mailSub, contact, told, mails, lost, begun>>
  BY DEF ByMail!WorkerDies, ByMail!Fault, ByMail!history
<1>. QED BY <1>1, IdleSweep, MailGivesUp

\* Time passes; on the next day a run is late and promises nothing.
LEMMA MailTick == ASSUME MailInv, ByMail!Tick PROVE MailInv'
<1>. USE DEF MailInv
<1>1. mailNow' = mailNow + 1 /\ UNCHANGED <<mailSub, sweep, contact, mailFaults, told, mails, lost, begun>>
  BY DEF ByMail!Tick, ByMail!history
<1>2. /\ mailNow' \in Nat /\ ByMail!UtcDay(mailNow) \in Nat /\ ByMail!UtcDay(mailNow') \in Nat
      /\ ByMail!UtcDay(mailNow) <= ByMail!UtcDay(mailNow')
  BY <1>1, LaterDay DEF MailTypes
<1>3. begun.day <= ByMail!UtcDay(mailNow')
  BY <1>2 DEF MailTypes
<1>4. MailTypes'
  BY <1>1, <1>2, <1>3 DEF MailTypes, ByMail!Windows, ByMail!UtcDay
<1>5. Loop'
  BY <1>1 DEF Loop
<1>6. Counted' /\ Recorded'
  BY <1>1, MailCounts
<1>7. ByMail!UtcDay(mailNow') = begun.day => ByMail!UtcDay(mailNow) = begun.day
  <2>1. begun.day \in Nat /\ begun.day <= ByMail!UtcDay(mailNow)
    BY DEF MailTypes
  <2>. QED BY <1>2, <2>1
<1>8. Underway'
  BY <1>1, <1>7 DEF Underway, Expects, Reminded, ByMail!Due, ByMail!Windows, ByMail!UtcDay
<1>. QED BY <1>4, <1>5, <1>6, <1>8

\* A run finds who is due for its window and has no record of it.
LEMMA MailFind == ASSUME MailInv, ByMail!Find PROVE MailInv'
<1>. USE DEF MailInv
<1>. DEFINE W == MailWindow(sweep.at)
            due == {s \in ByMail!Due(ByMail!UtcDay(mailNow), W) : W \notin mailSub[s].sent}
            todo == {<<s, mailSub[s].expires>> : s \in due}
            found == [sweep EXCEPT !.pc = "send", !.todo = todo]
<1>1. /\ sweep.pc = "find" /\ sweep' = IF due = {} THEN ByMail!NextWindow(sweep) ELSE found
      /\ UNCHANGED <<mailNow, mailSub, contact, mailFaults, told, mails, lost, begun>>
  BY DEF ByMail!Find, ByMail!history, ByMail!Window, MailWindow
<1>2. /\ sweep \in SweepType /\ sweep.at \in 1..Len(MailWindows) /\ sweep.current = {}
      /\ due \subseteq MailSubs /\ W \in ByMail!Windows
  BY <1>1, WindowsAre DEF MailTypes, Loop, ByMail!Due
<1>3. todo \in SUBSET (MailSubs \X Nat)
  BY <1>2 DEF MailTypes
<1>4. /\ found \in SweepType /\ found.current = {} /\ found.pc = "send"
      /\ found.at = sweep.at /\ found.todo = todo
  <2>. HIDE DEF todo
  <2>. QED BY <1>2, <1>3 DEF SweepType
<1>5. /\ sweep' \in SweepType /\ sweep'.current = {}
      /\ \/ /\ due = {} /\ sweep'.todo = {}
            /\ sweep.at = Len(MailWindows) /\ sweep'.pc = "idle"
         \/ /\ due = {} /\ sweep'.todo = {}
            /\ sweep.at < Len(MailWindows) /\ sweep'.pc = "find" /\ sweep'.at = sweep.at + 1
         \/ due # {} /\ sweep'.todo = todo /\ sweep'.pc = "send" /\ sweep'.at = sweep.at
  <2>. HIDE DEF found, todo, due
  <2>1. CASE due = {}
    <3>1. sweep' = ByMail!NextWindow(sweep) /\ sweep.pc # "idle"
      BY <1>1, <2>1
    <3>2. /\ sweep' \in SweepType /\ sweep'.todo = {} /\ sweep'.current = {}
          /\ IF sweep.at = Len(MailWindows) THEN sweep'.pc = "idle"
             ELSE sweep'.pc = "find" /\ sweep'.at = sweep.at + 1
      BY <3>1, NextSweep
    <3>3. sweep.at # Len(MailWindows) => sweep.at < Len(MailWindows)
      BY <1>2, ReminderAssumption
    <3>4. CASE sweep.at = Len(MailWindows)
      <4>1. sweep'.pc = "idle"
        BY <3>2, <3>4
      <4>. QED BY <2>1, <3>2, <3>4, <4>1
    <3>5. CASE sweep.at # Len(MailWindows)
      <4>1. sweep.at < Len(MailWindows) /\ sweep'.pc = "find" /\ sweep'.at = sweep.at + 1
        BY <3>2, <3>3, <3>5
      <4>. QED BY <2>1, <3>2, <4>1
    <3>. QED BY <3>4, <3>5
  <2>2. CASE due # {}
    BY <1>1, <1>4, <2>2
  <2>. QED BY <2>1, <2>2
<1>6. MailTypes'
  <2>. HIDE DEF found, todo, due
  <2>1. begun'.day <= ByMail!UtcDay(mailNow')
    BY <1>1 DEF MailTypes, ByMail!UtcDay
  <2>. QED BY <1>1, <1>5, <2>1 DEF MailTypes, ByMail!Windows
<1>7. Loop'
  <2>1. \A x \in todo : x[1] \in due /\ x[2] = mailSub[x[1]].expires /\ x = <<x[1], x[2]>>
    OBVIOUS
  <2>2. \A x \in todo : W \notin mailSub[x[1]].sent
    BY <2>1
  <2>. HIDE DEF found, todo, due
  <2>3. sweep'.pc # "mark"
    BY <1>5
  <2>. QED BY <1>1, <1>2, <1>5, <2>1, <2>2, <2>3, ReminderAssumption DEF Loop, MailWindow
<1>8. Counted' /\ Recorded'
  BY <1>1, MailCounts
<1>9. Underway'
  <2>1. \A s \in MailSubs, d \in ByMail!Windows :
          <<s, d>> \in begun.due => begun.day + d <= ByMail!UtcDay(mailSub[s].expires)
    BY DEF Underway
  <2>2. ASSUME sweep'.pc # "idle", mailFaults = begun.faults, ByMail!UtcDay(mailNow) = begun.day,
               NEW i \in 1..Len(MailWindows), NEW s \in MailSubs, Expects(s, MailWindow(i))
        PROVE  /\ i < sweep'.at => Reminded(s, MailWindow(i))
               /\ i = sweep'.at /\ sweep'.pc # "find" =>
                    Reminded(s, MailWindow(i)) \/ \E y \in sweep'.todo : y[1] = s
    <3>1. i < sweep.at => Reminded(s, MailWindow(i))
      BY <1>1, <2>2 DEF Underway
    <3>2. i = sweep.at => Reminded(s, MailWindow(i)) \/ s \in due
      <4>1. CASE MailWindow(i) \in mailSub[s].sent
        BY <4>1 DEF Recorded
      <4>2. CASE MailWindow(i) \notin mailSub[s].sent
        BY <2>2, <4>2 DEF Expects
      <4>. QED BY <4>1, <4>2
    <3>3. s \in due => \E y \in todo : y[1] = s
      <4>1. s \in due => <<s, mailSub[s].expires>> \in todo
        OBVIOUS
      <4>2. <<s, mailSub[s].expires>>[1] = s
        OBVIOUS
      <4>. HIDE DEF todo, due
      <4>. QED BY <4>1, <4>2
    <3>. HIDE DEF found, todo, due
    <3>. QED BY <1>2, <1>5, <2>2, <3>1, <3>2, <3>3
  <2>. HIDE DEF found, todo, due
  <2>. QED BY <1>1, <2>1, <2>2 DEF Underway, Expects, Reminded, ByMail!Due, ByMail!Windows,
     ByMail!UtcDay, MailWindow
<1>. QED BY <1>6, <1>7, <1>8, <1>9

\* An organization without a recipient is passed over.
LEMMA MailSkip == ASSUME MailInv, NEW x \in sweep.todo, ByMail!Skip(x) PROVE MailInv'
<1>1. /\ sweep.pc = "send" /\ ~contact[x[1]] /\ sweep' = ByMail!Without(sweep, x)
      /\ UNCHANGED <<mailNow, mailSub, contact, mailFaults, told, mails, lost, begun>>
  BY DEF ByMail!Skip, ByMail!history
<1>2. MailTypes' /\ Loop' /\ Underway'
  BY <1>1, MailPasses DEF MailInv, MailTypes
<1>. QED BY <1>1, <1>2, MailCounts DEF MailInv

\* A mail that is not accepted is passed over, at the cost of a fault.
LEMMA MailFails == ASSUME MailInv, NEW x \in sweep.todo, ByMail!MailFails(x) PROVE MailInv'
<1>1. /\ sweep.pc = "send" /\ mailFaults' = mailFaults + 1 /\ sweep' = ByMail!Without(sweep, x)
      /\ UNCHANGED <<mailNow, mailSub, contact, told, mails, lost, begun>>
  BY DEF ByMail!MailFails, ByMail!Fault, ByMail!history
<1>2. mailFaults' \in Nat /\ mailFaults <= mailFaults' /\ mailFaults' # begun.faults
  BY <1>1 DEF MailInv, MailTypes
<1>3. MailTypes' /\ Loop' /\ Underway'
  BY <1>1, <1>2, MailPasses DEF MailInv, MailTypes
<1>. QED BY <1>1, <1>3, MailCounts DEF MailInv

\* A record that is lost is passed over, at the cost of a fault; the mail is out.
LEMMA MailMarkFails == ASSUME MailInv, NEW x \in sweep.todo, ByMail!MarkFails(x) PROVE MailInv'
<1>1. /\ sweep.pc = "mark" /\ mailFaults' = mailFaults + 1 /\ sweep' = ByMail!Without(sweep, x)
      /\ UNCHANGED <<mailNow, mailSub, contact, told, mails, lost, begun>>
  BY DEF ByMail!MarkFails, ByMail!Fault, ByMail!history
<1>2. mailFaults' \in Nat /\ mailFaults <= mailFaults' /\ mailFaults' # begun.faults
  BY <1>1 DEF MailInv, MailTypes
<1>3. MailTypes' /\ Loop' /\ Underway'
  BY <1>1, <1>2, MailPasses DEF MailInv, MailTypes
<1>. QED BY <1>1, <1>3, MailCounts DEF MailInv

\* The window of the run, and the subscription in hand.
LEMMA InHand ==
    ASSUME MailInv, NEW x \in sweep.todo
    PROVE  /\ x[1] \in MailSubs /\ x[2] \in Nat /\ x = <<x[1], x[2]>> /\ sweep \in SweepType
           /\ sweep.pc \in {"send", "mark"} /\ sweep.at \in 1..Len(MailWindows)
           /\ MailWindow(sweep.at) \in ByMail!Windows /\ MailWindow(sweep.at) \notin mailSub[x[1]].sent
           /\ x[2] = mailSub[x[1]].expires \/ mailSub[x[1]].extended
           /\ sweep.pc = "mark" /\ x \in sweep.current =>
                 /\ mails[x[1]][MailWindow(sweep.at)] > 0 /\ <<x[1], MailWindow(sweep.at), x[2]>> \in told
                 /\ Reminded(x[1], MailWindow(sweep.at))
<1>1. sweep.pc # "idle" /\ sweep.pc # "find" /\ sweep \in SweepType
  BY DEF MailInv, MailTypes, Loop
<1>2. /\ x[1] \in MailSubs /\ x[2] \in Nat /\ x = <<x[1], x[2]>>
      /\ sweep.pc \in {"send", "mark"}
  BY <1>1 DEF SweepType
<1>3. sweep.at \in 1..Len(MailWindows) /\ MailWindow(sweep.at) \in ByMail!Windows
  BY <1>1, WindowsAre DEF MailInv, Loop
<1>4. /\ MailWindow(sweep.at) \notin mailSub[x[1]].sent
      /\ x[2] = mailSub[x[1]].expires \/ mailSub[x[1]].extended
  BY DEF MailInv, Loop
<1>5. ASSUME sweep.pc = "mark", x \in sweep.current
      PROVE  mails[x[1]][MailWindow(sweep.at)] > 0 /\ <<x[1], MailWindow(sweep.at), x[2]>> \in told
  BY <1>5 DEF MailInv, Loop
<1>. QED BY <1>1, <1>2, <1>3, <1>4, <1>5 DEF Reminded

\* The window is recorded once its mail is out.
LEMMA MailMark == ASSUME MailInv, NEW x \in sweep.todo, ByMail!Mark(x) PROVE MailInv'
<1>. PICK u, W : u = x[1] /\ W = MailWindow(sweep.at)
  OBVIOUS
<1>1. /\ sweep.pc = "mark" /\ x \in sweep.current
      /\ mailSub' = [mailSub EXCEPT ![u].sent = @ \union {W}]
      /\ sweep' = ByMail!Without(sweep, x)
      /\ lost' = [lost EXCEPT ![u][W] = @ - 1]
      /\ UNCHANGED <<mailNow, contact, mailFaults, told, mails, begun>>
  BY DEF ByMail!Mark, ByMail!Window, MailWindow
<1>2. u \in MailSubs /\ W \in ByMail!Windows /\ W \notin mailSub[u].sent /\ Reminded(u, W)
  BY <1>1, InHand
<1>3. /\ DOMAIN mailSub' = MailSubs
      /\ \A s \in MailSubs : DOMAIN mailSub'[s] = DOMAIN mailSub[s]
      /\ \A s \in MailSubs : /\ mailSub'[s].expires = mailSub[s].expires
                             /\ mailSub'[s].status = mailSub[s].status
                             /\ mailSub'[s].extended = mailSub[s].extended
                             /\ mailSub'[s].sent = IF s = u THEN mailSub[s].sent \union {W} ELSE mailSub[s].sent
  <2>1. DOMAIN mailSub = MailSubs
    BY DEF MailInv, MailTypes
  <2>2. /\ DOMAIN mailSub' = MailSubs
        /\ \A s \in MailSubs : s # u => mailSub'[s] = mailSub[s]
        /\ mailSub'[u] = [mailSub[u] EXCEPT !.sent = @ \union {W}]
    BY <1>1, <1>2, <2>1
  <2>3. DOMAIN mailSub[u] = {"status", "expires", "sent", "extended"}
    BY <1>2 DEF MailInv, MailTypes
  <2>4. /\ DOMAIN mailSub'[u] = DOMAIN mailSub[u] /\ mailSub'[u].sent = mailSub[u].sent \union {W}
        /\ mailSub'[u].expires = mailSub[u].expires /\ mailSub'[u].status = mailSub[u].status
        /\ mailSub'[u].extended = mailSub[u].extended
    BY <2>2, <2>3
  <2>. QED BY <1>2, <2>2, <2>4
<1>4. /\ lost' \in [MailSubs -> [ByMail!Windows -> Int]]
      /\ \A s \in MailSubs, d \in ByMail!Windows :
            lost'[s][d] = IF s = u /\ d = W THEN lost[s][d] - 1 ELSE lost[s][d]
  BY <1>1, <1>2 DEF MailInv, MailTypes
<1>5. MailTypes' /\ Loop' /\ Underway'
  BY <1>1, <1>2, <1>3, <1>4, MailPasses DEF MailInv, MailTypes
<1>6. Counted'
  <2>. SUFFICES ASSUME NEW s \in MailSubs, NEW d \in ByMail!Windows
                PROVE  /\ mails[s][d] <= lost'[s][d] + (IF d \in mailSub'[s].sent THEN 1 ELSE 0)
                       /\ \A e \in Nat : <<s, d, e>> \in told => mails[s][d] > 0
    BY <1>1 DEF Counted, ByMail!Windows
  <2>1. /\ mails[s][d] <= lost[s][d] + (IF d \in mailSub[s].sent THEN 1 ELSE 0)
        /\ \A e \in Nat : <<s, d, e>> \in told => mails[s][d] > 0
        /\ mails[s][d] \in Nat /\ lost[s][d] \in Int
    BY DEF MailInv, Counted, MailTypes
  <2>2. CASE s = u /\ d = W
    <3>1. d \notin mailSub[s].sent /\ d \in mailSub'[s].sent /\ lost'[s][d] = lost[s][d] - 1
      BY <1>2, <1>3, <1>4, <2>2
    <3>2. mails[s][d] <= lost[s][d]
      BY <2>1, <3>1
    <3>. QED BY <2>1, <3>1, <3>2
  <2>3. CASE ~(s = u /\ d = W)
    <3>1. d \in mailSub'[s].sent <=> d \in mailSub[s].sent
      <4>1. mailSub'[s].sent = IF s = u THEN mailSub[s].sent \union {W} ELSE mailSub[s].sent
        BY <1>3
      <4>. QED BY <2>3, <4>1
    <3>3. lost'[s][d] = lost[s][d]
      BY <1>4, <2>3
    <3>. QED BY <2>1, <3>1, <3>3
  <2>. QED BY <2>2, <2>3
<1>7. Recorded'
  BY <1>1, <1>2, <1>3 DEF MailInv, Recorded, Reminded
<1>. QED BY <1>5, <1>6, <1>7 DEF MailInv

\* A mail is out, and its record is lost until it is written.
LEMMA MailOut == ASSUME MailInv, NEW x \in sweep.todo, ByMail!Mail(x) PROVE MailInv'
<1>. USE DEF MailInv
<1>. PICK u, W : u = x[1] /\ W = MailWindow(sweep.at)
  OBVIOUS
<1>. DEFINE next == [sweep EXCEPT !.pc = "mark", !.current = {x}]
<1>1. /\ sweep.pc = "send" /\ sweep' = next
      /\ told' = told \union {<<u, W, x[2]>>}
      /\ mails' = [mails EXCEPT ![u][W] = @ + 1]
      /\ lost' = [lost EXCEPT ![u][W] = @ + 1]
      /\ UNCHANGED <<mailNow, mailSub, contact, mailFaults, begun>>
  BY DEF ByMail!Mail, ByMail!Window, MailWindow
<1>2. /\ u \in MailSubs /\ W \in ByMail!Windows /\ W \notin mailSub[u].sent /\ sweep \in SweepType
      /\ x \in MailSubs \X Nat /\ sweep.at \in 1..Len(MailWindows)
      /\ x[2] = mailSub[u].expires \/ mailSub[u].extended
  <2>1. /\ x[1] \in MailSubs /\ x[2] \in Nat /\ x = <<x[1], x[2]>> /\ sweep \in SweepType
        /\ sweep.at \in 1..Len(MailWindows)
        /\ MailWindow(sweep.at) \in ByMail!Windows /\ MailWindow(sweep.at) \notin mailSub[x[1]].sent
        /\ x[2] = mailSub[x[1]].expires \/ mailSub[x[1]].extended
    BY InHand
  <2>2. x \in MailSubs \X Nat
    BY <2>1 DEF SweepType
  <2>. QED BY <2>1, <2>2
<1>3. next \in SweepType /\ next.pc = "mark" /\ next.current = {x} /\ next.at = sweep.at /\ next.todo = sweep.todo
  BY <1>2 DEF SweepType
<1>. HIDE DEF next
<1>4. /\ mails' \in [MailSubs -> [ByMail!Windows -> Nat]] /\ lost' \in [MailSubs -> [ByMail!Windows -> Int]]
      /\ \A s \in MailSubs, d \in ByMail!Windows :
            IF s = u /\ d = W THEN mails'[s][d] = mails[s][d] + 1 /\ lost'[s][d] = lost[s][d] + 1
            ELSE mails'[s][d] = mails[s][d] /\ lost'[s][d] = lost[s][d]
      /\ \A s \in MailSubs, d \in ByMail!Windows : mails[s][d] \in Nat /\ lost[s][d] \in Int
  <2>1. /\ mails \in [MailSubs -> [ByMail!Windows -> Nat]]
        /\ lost \in [MailSubs -> [ByMail!Windows -> Int]]
    BY DEF MailTypes
  <2>2. /\ mails' \in [MailSubs -> [ByMail!Windows -> Nat]]
        /\ \A s \in MailSubs, d \in ByMail!Windows :
              mails'[s][d] = IF s = u /\ d = W THEN mails[s][d] + 1 ELSE mails[s][d]
    BY <1>1, <1>2, <2>1
  <2>3. /\ lost' \in [MailSubs -> [ByMail!Windows -> Int]]
        /\ \A s \in MailSubs, d \in ByMail!Windows :
              lost'[s][d] = IF s = u /\ d = W THEN lost[s][d] + 1 ELSE lost[s][d]
    BY <1>1, <1>2, <2>1
  <2>. QED BY <2>1, <2>2, <2>3
<1>5. MailTypes'
  <2>1. begun'.day <= ByMail!UtcDay(mailNow')
    BY <1>1 DEF MailTypes, ByMail!UtcDay
  <2>. QED BY <1>1, <1>3, <1>4, <2>1 DEF MailTypes, ByMail!Windows
<1>6. Loop'
  BY <1>1, <1>2, <1>3, <1>4 DEF Loop
<1>7. Counted'
  <2>. SUFFICES ASSUME NEW s \in MailSubs, NEW d \in ByMail!Windows
                PROVE  /\ mails'[s][d] <= lost'[s][d] + (IF d \in mailSub[s].sent THEN 1 ELSE 0)
                       /\ \A e \in Nat : <<s, d, e>> \in told' => mails'[s][d] > 0
    BY <1>1 DEF Counted, ByMail!Windows
  <2>1. /\ mails[s][d] <= lost[s][d] + (IF d \in mailSub[s].sent THEN 1 ELSE 0)
        /\ \A e \in Nat : <<s, d, e>> \in told => mails[s][d] > 0
    BY DEF Counted
  <2>2. CASE s = u /\ d = W
    BY <1>2, <1>4, <2>1, <2>2
  <2>3. CASE ~(s = u /\ d = W)
    BY <1>1, <1>4, <2>1, <2>3
  <2>. QED BY <2>2, <2>3
<1>8. \A s \in MailSubs, d \in ByMail!Windows : Reminded(s, d) => Reminded(s, d)'
  BY <1>1, <1>4 DEF Reminded
<1>9. Recorded'
  BY <1>1, <1>8 DEF Recorded, MailTypes
<1>10. Underway'
  <2>1. \A i \in 1..Len(MailWindows), s \in MailSubs :
           /\ Expects(s, MailWindow(i))' => Expects(s, MailWindow(i))
           /\ MailWindow(i) \in ByMail!Windows
    BY <1>1, WindowsAre DEF Expects, ByMail!Due, ByMail!UtcDay, MailWindow
  <2>. QED BY <1>1, <1>2, <1>3, <1>8, <2>1 DEF Underway, ByMail!Windows, ByMail!UtcDay
<1>. QED BY <1>5, <1>6, <1>7, <1>9, <1>10

\* A subscription that has ended is not due any more.
LEMMA MailExpire == ASSUME MailInv, NEW u \in MailSubs, ByMail!Expire(u) PROVE MailInv'
<1>. USE DEF MailInv
<1>1. /\ mailSub' = [mailSub EXCEPT ![u].status = "expired"]
      /\ UNCHANGED <<mailNow, sweep, contact, mailFaults, told, mails, lost, begun>>
  BY DEF ByMail!Expire, ByMail!history
<1>2. /\ DOMAIN mailSub' = MailSubs
      /\ \A s \in MailSubs : DOMAIN mailSub'[s] = DOMAIN mailSub[s]
      /\ \A s \in MailSubs : /\ mailSub'[s].expires = mailSub[s].expires /\ mailSub'[s].sent = mailSub[s].sent
                             /\ mailSub'[s].extended = mailSub[s].extended
                             /\ mailSub'[s].status = "active" => mailSub[s].status = "active"
  BY <1>1 DEF MailTypes
<1>3. MailTypes'
  <2>1. begun'.day <= ByMail!UtcDay(mailNow')
    BY <1>1 DEF MailTypes, ByMail!UtcDay
  <2>. QED BY <1>1, <1>2, <2>1 DEF MailTypes, ByMail!Windows
<1>4. Loop'
  <2>1. \A x \in sweep.todo : x[1] \in MailSubs
    BY InHand
  <2>. QED BY <1>1, <1>2, <2>1 DEF Loop
<1>5. Counted' /\ Recorded'
  BY <1>1, <1>2 DEF Counted, Recorded, Reminded, ByMail!Windows
<1>6. Underway'
  <2>1. \A i \in 1..Len(MailWindows), s \in MailSubs :
           /\ Expects(s, MailWindow(i))' => Expects(s, MailWindow(i))
           /\ Reminded(s, MailWindow(i)) => Reminded(s, MailWindow(i))'
    BY <1>1, <1>2 DEF Expects, Reminded, ByMail!Due, ByMail!UtcDay, MailWindow
  <2>. QED BY <1>1, <1>2, <2>1 DEF Underway, ByMail!Windows, ByMail!UtcDay
<1>. QED BY <1>3, <1>4, <1>5, <1>6

\* A subscription that is extended keeps its record.
LEMMA MailExtend == ASSUME MailInv, NEW u \in MailSubs, ByMail!Extend(u) PROVE MailInv'
<1>. USE DEF MailInv
<1>1. /\ mailSub' = [mailSub EXCEPT ![u].expires = @ + MailTerm, ![u].extended = TRUE]
      /\ mailSub[u].status = "active"
      /\ UNCHANGED <<mailNow, sweep, contact, mailFaults, told, mails, lost, begun>>
  BY DEF ByMail!Extend, ByMail!history
<1>2. /\ DOMAIN mailSub' = MailSubs
      /\ \A s \in MailSubs : DOMAIN mailSub'[s] = DOMAIN mailSub[s]
      /\ \A s \in MailSubs : /\ mailSub'[s].sent = mailSub[s].sent /\ mailSub'[s].status = mailSub[s].status
                             /\ mailSub'[s].expires = IF s = u THEN mailSub[s].expires + MailTerm ELSE mailSub[s].expires
                             /\ s # u => mailSub'[s].extended = mailSub[s].extended
      /\ mailSub'[u].extended
  <2>1. /\ DOMAIN mailSub' = MailSubs
        /\ \A s \in MailSubs : s # u => mailSub'[s] = mailSub[s]
        /\ mailSub'[u] = [mailSub[u] EXCEPT !.expires = @ + MailTerm, !.extended = TRUE]
        /\ DOMAIN mailSub[u] = {"status", "expires", "sent", "extended"}
    BY <1>1 DEF MailTypes
  <2>2. /\ mailSub'[u].sent = mailSub[u].sent /\ mailSub'[u].status = mailSub[u].status
        /\ mailSub'[u].expires = mailSub[u].expires + MailTerm /\ mailSub'[u].extended = TRUE
        /\ DOMAIN mailSub'[u] = DOMAIN mailSub[u]
    BY <2>1
  <2>. QED BY <2>1, <2>2
<1>3. /\ \A s \in MailSubs : mailSub'[s].expires \in Nat
      /\ \A s \in MailSubs : /\ ByMail!UtcDay(mailSub[s].expires) <= ByMail!UtcDay(mailSub'[s].expires)
                             /\ ByMail!UtcDay(mailSub[s].expires) \in Nat /\ ByMail!UtcDay(mailSub'[s].expires) \in Nat
  <2>. SUFFICES ASSUME NEW s \in MailSubs
                PROVE  /\ mailSub'[s].expires \in Nat
                       /\ ByMail!UtcDay(mailSub[s].expires) <= ByMail!UtcDay(mailSub'[s].expires)
                       /\ ByMail!UtcDay(mailSub[s].expires) \in Nat /\ ByMail!UtcDay(mailSub'[s].expires) \in Nat
    OBVIOUS
  <2>1. /\ mailSub[s].expires \in Nat /\ MailTerm \in Nat
        /\ mailSub'[s].expires = IF s = u THEN mailSub[s].expires + MailTerm ELSE mailSub[s].expires
    BY <1>2, ReminderAssumption DEF MailTypes
  <2>2. mailSub'[s].expires \in Nat /\ mailSub[s].expires <= mailSub'[s].expires
    BY <2>1
  <2>. QED BY <2>1, <2>2, LaterDay
<1>4. MailTypes'
  <2>1. begun'.day <= ByMail!UtcDay(mailNow')
    BY <1>1 DEF MailTypes, ByMail!UtcDay
  <2>. QED BY <1>1, <1>2, <1>3, <2>1 DEF MailTypes, ByMail!Windows
<1>5. Loop'
  <2>1. \A x \in sweep.todo : x[1] \in MailSubs
    BY InHand
  <2>. QED BY <1>1, <1>2, <2>1 DEF Loop
<1>6. Counted'
  BY <1>1, <1>2 DEF Counted, ByMail!Windows
<1>7. \A s \in MailSubs, d \in ByMail!Windows : Reminded(s, d) => Reminded(s, d)'
  <2>. SUFFICES ASSUME NEW s \in MailSubs, NEW d \in ByMail!Windows, Reminded(s, d) PROVE Reminded(s, d)'
    OBVIOUS
  <2>1. mails[s][d] > 0
    BY DEF Reminded, Counted, MailTypes
  <2>. QED BY <1>1, <1>2, <2>1 DEF Reminded
<1>8. Recorded'
  BY <1>1, <1>2, <1>7 DEF Recorded, MailTypes
<1>9. Underway'
  <2>1. \A s \in MailSubs, d \in ByMail!Windows :
          <<s, d>> \in begun.due => begun.day + d <= ByMail!UtcDay(mailSub'[s].expires)
    <3>. SUFFICES ASSUME NEW s \in MailSubs, NEW d \in ByMail!Windows, <<s, d>> \in begun.due
                  PROVE  begun.day + d <= ByMail!UtcDay(mailSub'[s].expires)
      OBVIOUS
    <3>1. begun.day + d <= ByMail!UtcDay(mailSub[s].expires) /\ begun.day + d \in Nat
      BY WindowsAre, ReminderAssumption DEF Underway, MailTypes, MailWindow
    <3>. QED BY <1>3, <3>1
  <2>2. ASSUME NEW i \in 1..Len(MailWindows), NEW s \in MailSubs, Expects(s, MailWindow(i))'
        PROVE  Expects(s, MailWindow(i)) /\ MailWindow(i) \in ByMail!Windows
    <3>1. MailWindow(i) \in ByMail!Windows /\ MailWindow(i) \in Nat
      BY WindowsAre, ReminderAssumption DEF MailWindow
    <3>2. /\ mailSub[s].status = "active" /\ ByMail!UtcDay(mailSub'[s].expires) = begun.day + MailWindow(i)
          /\ <<s, MailWindow(i)>> \in begun.due /\ contact[s]
      BY <1>1, <1>2, <2>2 DEF Expects, ByMail!Due, ByMail!UtcDay, MailWindow
    <3>3. begun.day + MailWindow(i) <= ByMail!UtcDay(mailSub[s].expires)
      BY <3>1, <3>2 DEF Underway
    <3>4. ByMail!UtcDay(mailSub[s].expires) = begun.day + MailWindow(i)
      BY <1>3, <3>1, <3>2, <3>3 DEF MailTypes
    <3>. QED BY <3>1, <3>2, <3>4 DEF Expects, ByMail!Due
  <2>. QED BY <1>1, <1>7, <2>1, <2>2 DEF Underway, ByMail!Windows, ByMail!UtcDay
<1>. QED BY <1>4, <1>5, <1>6, <1>8, <1>9

\* Every step of the mails keeps their invariant.
LEMMA MailStep == MailInv /\ [ByMail!Next]_(ByMail!vars) => MailInv'
<1>. SUFFICES ASSUME MailInv, [ByMail!Next]_(ByMail!vars) PROVE MailInv'
  OBVIOUS
<1>1. CASE UNCHANGED ByMail!vars
  <2>1. UNCHANGED <<mailNow, mailSub, sweep, contact, mailFaults, told, mails, lost, begun>>
    BY <1>1 DEF ByMail!vars, ByMail!history
  <2>2. MailTypes' /\ Loop'
    BY <2>1 DEF MailInv, MailTypes, Loop, ByMail!Windows, ByMail!UtcDay
  <2>3. Counted' /\ Recorded'
    BY <2>1, MailCounts
  <2>4. Underway'
    BY <2>1 DEF MailInv, Underway, Expects, Reminded, ByMail!Due, ByMail!Windows, ByMail!UtcDay
  <2>. QED BY <2>2, <2>3, <2>4 DEF MailInv
<1>2. ASSUME NEW x \in sweep.todo, \/ ByMail!Skip(x) \/ ByMail!Mail(x) \/ ByMail!MailFails(x)
                                   \/ ByMail!Mark(x) \/ ByMail!MarkFails(x)
      PROVE  MailInv'
  BY <1>2, MailSkip, MailOut, MailFails, MailMark, MailMarkFails
<1>3. ASSUME NEW s \in MailSubs, ByMail!Expire(s) \/ ByMail!Extend(s) PROVE MailInv'
  BY <1>3, MailExpire, MailExtend
<1>. QED BY <1>1, <1>2, <1>3, MailBegins, MailFind, MailFindFails, MailWorkerDies, MailTick
   DEF ByMail!Next

\* A run that ends without faults on the day it began has reminded everyone it was for.
LEMMA MailEnds ==
    ASSUME MailInv, [ByMail!Next]_(ByMail!vars), sweep.pc # "idle", sweep'.pc = "idle",
           mailFaults' = begun.faults, ByMail!UtcDay(mailNow) = begun.day,
           NEW d \in ByMail!Windows, NEW s \in ByMail!Due(begun.day, d), <<s, d>> \in begun.due, contact[s]
    PROVE  Reminded(s, d)
<1>. USE DEF MailInv
<1>1. /\ s \in MailSubs /\ Expects(s, d) /\ begun.faults <= mailFaults
      /\ begun.faults \in Nat /\ mailFaults \in Nat
  BY DEF Expects, ByMail!Due, MailTypes
<1>2. PICK i \in 1..Len(MailWindows) : d = MailWindow(i)
  BY WindowsAre
<1>3. sweep.at \in 1..Len(MailWindows) /\ Len(MailWindows) \in Nat /\ i <= Len(MailWindows)
  BY <1>2, ReminderAssumption DEF Loop
<1>4. mailFaults' # mailFaults + 1
  BY <1>1
<1>5. ASSUME sweep.at = Len(MailWindows), mailFaults = begun.faults,
             i = sweep.at => Reminded(s, d)
      PROVE  Reminded(s, d)
  <2>1. CASE i < sweep.at
    BY <1>1, <1>2, <1>5, <2>1 DEF Underway
  <2>. QED BY <1>3, <1>5, <2>1
<1>6. CASE ByMail!Find
  <2>. DEFINE due == {t \in ByMail!Due(ByMail!UtcDay(mailNow), MailWindow(sweep.at)) :
                        MailWindow(sweep.at) \notin mailSub[t].sent}
  <2>1. /\ sweep' = IF due = {} THEN ByMail!NextWindow(sweep)
                    ELSE [sweep EXCEPT !.pc = "send", !.todo = {<<t, mailSub[t].expires>> : t \in due}]
        /\ mailFaults' = mailFaults
    BY <1>6 DEF ByMail!Find, ByMail!Window, MailWindow
  <2>2. sweep \in SweepType
    BY DEF MailTypes
  <2>3. due = {}
    <3>. SUFFICES ASSUME due # {} PROVE sweep'.pc = "send"
      OBVIOUS
    <3>. DEFINE todo == {<<t, mailSub[t].expires>> : t \in due}
    <3>1. sweep' = [sweep EXCEPT !.pc = "send", !.todo = todo]
      BY <2>1
    <3>. HIDE DEF todo
    <3>. QED BY <2>2, <3>1 DEF SweepType
  <2>4. sweep' = ByMail!NextWindow(sweep)
    BY <2>1, <2>3
  <2>5. sweep.at = Len(MailWindows)
    BY <2>4, NextSweep
  <2>6. i = sweep.at => Reminded(s, d)
    <3>. SUFFICES ASSUME i = sweep.at PROVE Reminded(s, d)
      OBVIOUS
    <3>1. d \in mailSub[s].sent
      BY <1>2, <2>3
    <3>. QED BY <1>1, <3>1 DEF Recorded
  <2>7. mailFaults = begun.faults
    BY <2>1
  <2>. HIDE DEF due
  <2>. QED BY <1>5, <2>5, <2>6, <2>7
<1>7. ASSUME NEW x \in sweep.todo, sweep.pc \in {"send", "mark"}, sweep' = ByMail!Without(sweep, x),
             mailFaults' = mailFaults, ~contact[x[1]] \/ Reminded(x[1], MailWindow(sweep.at))
      PROVE  Reminded(s, d)
  <2>1. sweep.todo = {x} /\ sweep.at = Len(MailWindows)
    BY <1>7, LessSweep, NextSweep
  <2>2. i = sweep.at /\ (\E y \in sweep.todo : y[1] = s) => Reminded(s, d)
    BY <1>2, <1>7, <2>1
  <2>3. i = sweep.at => Reminded(s, d) \/ \E y \in sweep.todo : y[1] = s
    BY <1>1, <1>2, <1>7 DEF Underway
  <2>4. i = sweep.at => Reminded(s, d)
    BY <2>2, <2>3
  <2>. QED BY <1>5, <1>7, <2>1, <2>4
<1>8. ASSUME NEW x \in sweep.todo, ByMail!Skip(x) \/ ByMail!Mark(x) PROVE Reminded(s, d)
  <2>1. CASE ByMail!Skip(x)
    BY <1>7, <2>1 DEF ByMail!Skip
  <2>2. CASE ByMail!Mark(x)
    <3>1. sweep.pc = "mark" /\ x \in sweep.current /\ sweep' = ByMail!Without(sweep, x) /\ mailFaults' = mailFaults
      BY <2>2 DEF ByMail!Mark
    <3>2. Reminded(x[1], MailWindow(sweep.at))
      BY <3>1, InHand
    <3>. QED BY <1>7, <3>1, <3>2
  <2>. QED BY <1>8, <2>1, <2>2
<1>9. ASSUME NEW x \in sweep.todo, ByMail!Mail(x) PROVE FALSE
  <2>1. sweep' = [sweep EXCEPT !.pc = "mark", !.current = {x}] /\ sweep \in SweepType
    BY <1>9 DEF ByMail!Mail, MailTypes
  <2>. QED BY <2>1 DEF SweepType
<1>10. CASE ByMail!FindFails \/ ByMail!WorkerDies
  BY <1>4, <1>10 DEF ByMail!FindFails, ByMail!WorkerDies, ByMail!Fault
<1>11. ASSUME NEW x \in sweep.todo, ByMail!MailFails(x) \/ ByMail!MarkFails(x) PROVE FALSE
  BY <1>4, <1>11 DEF ByMail!MailFails, ByMail!MarkFails, ByMail!Fault
<1>12. CASE ByMail!Start \/ ByMail!Tick \/ (\E t \in MailSubs : ByMail!Expire(t) \/ ByMail!Extend(t))
            \/ UNCHANGED ByMail!vars
  BY <1>12 DEF ByMail!Start, ByMail!Tick, ByMail!Expire, ByMail!Extend, ByMail!vars
<1>. QED BY <1>6, <1>8, <1>9, <1>10, <1>11, <1>12 DEF ByMail!Next

\* A window is mailed once, and again for a record that was lost.
LEMMA MailOnce == MailInv => ByMail!MailedOnce
<1>. SUFFICES ASSUME MailInv, NEW s \in MailSubs, NEW d \in ByMail!Windows
              PROVE  mails[s][d] <= 1 + lost[s][d]
  BY DEF ByMail!MailedOnce
<1>1. mails[s][d] <= lost[s][d] + (IF d \in mailSub[s].sent THEN 1 ELSE 0)
  BY DEF MailInv, Counted
<1>2. mails[s][d] \in Nat /\ lost[s][d] \in Int
  BY DEF MailInv, MailTypes
<1>3. CASE d \in mailSub[s].sent
  BY <1>1, <1>2, <1>3
<1>4. CASE d \notin mailSub[s].sent
  BY <1>1, <1>2, <1>4
<1>. QED BY <1>3, <1>4

-----------------------------------------------------------------------------
(* Totals.                                                                 *)

\* The total of a function is the Amount of its domain.
Amount(f, S) == Cardinality(Items(f, S))
\* What is counted is a number of each.
Amounts(f, S) == \A x \in S : f[x] \in Nat

\* One thing has as many items as its value.
LEMMA CountOne ==
    ASSUME NEW f, NEW x, f[x] \in Nat
    PROVE  IsFiniteSet(Items(f, {x})) /\ Amount(f, {x}) = f[x]
<1>1. Items(f, {x}) = {x} \X (1..f[x])
  BY DEF Items
<1>2. IsFiniteSet({x}) /\ Cardinality({x}) = 1 /\ IsFiniteSet(1..f[x]) /\ Cardinality(1..f[x]) = f[x]
  <2>1. IsFiniteSet(1..f[x]) /\ Cardinality(1..f[x]) = IF 1 > f[x] THEN 0 ELSE f[x] - 1 + 1
    BY FS_Interval
  <2>2. IsFiniteSet({x}) /\ Cardinality({x}) = 1
    BY FS_Singleton
  <2>. QED BY <2>1, <2>2
<1>3. IsFiniteSet({x} \X (1..f[x])) /\ Cardinality({x} \X (1..f[x])) = f[x]
  <2>1. Cardinality({x} \X (1..f[x])) = Cardinality({x}) * Cardinality(1..f[x]) /\ IsFiniteSet({x} \X (1..f[x]))
    BY <1>2, FS_Product
  <2>2. 1 * f[x] = f[x]
    OBVIOUS
  <2>. QED BY <1>2, <2>1, <2>2
<1>. QED BY <1>1, <1>3 DEF Amount

\* Sets that have nothing in common add up.
LEMMA CardinalityOfUnion ==
    ASSUME NEW X, NEW Y, IsFiniteSet(X), IsFiniteSet(Y), X \intersect Y = {}
    PROVE  IsFiniteSet(X \union Y) /\ Cardinality(X \union Y) = Cardinality(X) + Cardinality(Y)
<1>. DEFINE Both == X \intersect Y
<1>1. Cardinality(Both) = 0
  BY FS_EmptySet
<1>2. Cardinality(X) \in Nat /\ Cardinality(Y) \in Nat
  BY FS_CardinalityType
<1>3. IsFiniteSet(X \union Y) /\ Cardinality(X \union Y) = Cardinality(X) + Cardinality(Y) - Cardinality(Both)
  BY FS_Union
<1>. HIDE DEF Both
<1>. QED BY <1>1, <1>2, <1>3

\* So do their items.
LEMMA CountUnion ==
    ASSUME NEW f, NEW A, NEW B, A \intersect B = {}, IsFiniteSet(Items(f, A)), IsFiniteSet(Items(f, B))
    PROVE  /\ Items(f, A \union B) = Items(f, A) \union Items(f, B) /\ IsFiniteSet(Items(f, A \union B))
           /\ Amount(f, A \union B) = Amount(f, A) + Amount(f, B)
<1>1. Items(f, A \union B) = Items(f, A) \union Items(f, B)
  BY DEF Items
<1>2. Items(f, A) \intersect Items(f, B) = {}
  <2>. SUFFICES ASSUME NEW p, p \in Items(f, A), p \in Items(f, B) PROVE FALSE
    OBVIOUS
  <2>1. PICK a \in A : p \in {a} \X (1..f[a])
    BY DEF Items
  <2>2. PICK b \in B : p \in {b} \X (1..f[b])
    BY DEF Items
  <2>3. p[1] = a /\ p[1] = b
    BY <2>1, <2>2
  <2>. QED BY <2>3
<1>3. /\ IsFiniteSet(Items(f, A) \union Items(f, B))
      /\ Cardinality(Items(f, A) \union Items(f, B)) = Cardinality(Items(f, A)) + Cardinality(Items(f, B))
  BY <1>2, CardinalityOfUnion
<1>. QED BY <1>1, <1>3 DEF Amount

\* Of a finite set, if each has finitely many, so have all: of its subsets with too many
\* items a smallest would keep too many when an element is taken away.
LEMMA CountIsFinite ==
    ASSUME NEW S, IsFiniteSet(S), NEW f, Amounts(f, S)
    PROVE  IsFiniteSet(Items(f, S)) /\ Amount(f, S) \in Nat
<1>. DEFINE Bad == {T \in SUBSET S : ~IsFiniteSet(Items(f, T))}
            Fin == FiniteSubsetsOf(S)
            R == StrictSubsetOrdering(S)
<1>1. S \notin Bad
  <2>. SUFFICES ASSUME S \in Bad PROVE FALSE
    OBVIOUS
  <2>1. IsWellFoundedOn(R, Fin)
    BY FS_StrictSubsetOrderingWellFounded
  <2>2. Bad \subseteq Fin
    BY FS_Subset DEF FiniteSubsetsOf
  <2>3. PICK T \in Bad : \A U \in Bad : ~ (<<U, T>> \in R)
    BY <2>1, <2>2, WFMin
  <2>4. Items(f, {}) = {} /\ IsFiniteSet({})
    BY FS_EmptySet DEF Items
  <2>5. PICK x \in T : TRUE
    BY <2>4
  <2>6. <<T \ {x}, T>> \in R
    BY <2>5 DEF StrictSubsetOrdering
  <2>7. IsFiniteSet(Items(f, T \ {x}))
    BY <2>3, <2>6
  <2>8. IsFiniteSet(Items(f, {x}))
    BY <2>5, CountOne DEF Amounts
  <2>9. (T \ {x}) \union {x} = T /\ (T \ {x}) \intersect {x} = {}
    BY <2>5
  <2>10. IsFiniteSet(Items(f, (T \ {x}) \union {x}))
    BY <2>7, <2>8, <2>9, CountUnion
  <2>. QED BY <2>9, <2>10
<1>2. IsFiniteSet(Items(f, S))
  BY <1>1
<1>. QED BY <1>2, FS_CardinalityType DEF Amount

\* A total is that of some and that of the others.
LEMMA CountSplit ==
    ASSUME NEW S, IsFiniteSet(S), NEW f, Amounts(f, S), NEW A, A \subseteq S
    PROVE  /\ Amount(f, S) = Amount(f, A) + Amount(f, S \ A)
           /\ Amount(f, A) \in Nat /\ Amount(f, S \ A) \in Nat /\ Amount(f, S) \in Nat
<1>1. A \in SUBSET S /\ S \ A \in SUBSET S /\ A \union (S \ A) = S /\ A \intersect (S \ A) = {}
  OBVIOUS
<1>2. IsFiniteSet(A) /\ IsFiniteSet(S \ A) /\ Amounts(f, A) /\ Amounts(f, S \ A)
  BY <1>1, FS_Subset DEF Amounts
<1>3. /\ IsFiniteSet(Items(f, A)) /\ Amount(f, A) \in Nat
      /\ IsFiniteSet(Items(f, S \ A)) /\ Amount(f, S \ A) \in Nat
      /\ IsFiniteSet(Items(f, S)) /\ Amount(f, S) \in Nat
  BY <1>2, CountIsFinite
<1>4. Amount(f, A \union (S \ A)) = Amount(f, A) + Amount(f, S \ A)
  BY <1>1, <1>3, CountUnion
<1>. QED BY <1>1, <1>3, <1>4

\* More of each is more of all, and as many of each as many of all.
LEMMA CountMonotone ==
    ASSUME NEW S, IsFiniteSet(S), NEW f, NEW g, Amounts(f, S), Amounts(g, S), \A x \in S : f[x] <= g[x]
    PROVE  Amount(f, S) <= Amount(g, S)
<1>1. Items(f, S) \subseteq Items(g, S)
  <2>1. ASSUME NEW x \in S PROVE {x} \X (1..f[x]) \subseteq {x} \X (1..g[x])
    <3>1. f[x] \in Nat /\ g[x] \in Nat /\ f[x] <= g[x]
      BY DEF Amounts
    <3>2. 1..f[x] \subseteq 1..g[x]
      BY <3>1
    <3>. QED BY <3>2
  <2>. QED BY <2>1 DEF Items
<1>2. IsFiniteSet(Items(g, S))
  BY CountIsFinite
<1>. QED BY <1>1, <1>2, FS_Subset DEF Amount

\* Equal values have one total.
LEMMA CountSame ==
    ASSUME NEW S, NEW f, NEW g, \A x \in S : f[x] = g[x]
    PROVE  Items(f, S) = Items(g, S) /\ Amount(f, S) = Amount(g, S)
<1>1. Items(f, S) = Items(g, S)
  BY DEF Items
<1>. QED BY <1>1 DEF Amount

\* Where nothing is counted the total is nothing.
LEMMA CountNothing ==
    ASSUME NEW S, NEW f, \A x \in S : f[x] = 0
    PROVE  Amount(f, S) = 0
<1>1. Items(f, S) = {}
  BY DEF Items
<1>. QED BY <1>1, FS_EmptySet DEF Amount

\* The members of a set, counted by key, are the members of the set.
Fibers(S, key, K) == [k \in K |-> Cardinality({x \in S : key[x] = k})]

\* Counted by key, and the counts added up, are the members whose key is one of these.
LEMMA CountFibers ==
    ASSUME NEW S, IsFiniteSet(S), NEW key, NEW K, IsFiniteSet(K)
    PROVE  /\ Amounts(Fibers(S, key, K), K)
           /\ Amount(Fibers(S, key, K), K) = Cardinality({x \in S : key[x] \in K})
<1>. DEFINE f == Fibers(S, key, K)
            within(T) == {x \in S : key[x] \in T}
            Bad == {T \in SUBSET K : Amount(f, T) # Cardinality(within(T))}
            Fin == FiniteSubsetsOf(K)
            R == StrictSubsetOrdering(K)
<1>1. ASSUME NEW T PROVE IsFiniteSet(within(T)) /\ Cardinality(within(T)) \in Nat
  <2>1. within(T) \in SUBSET S
    OBVIOUS
  <2>. HIDE DEF within
  <2>2. IsFiniteSet(within(T))
    BY <2>1, FS_Subset
  <2>. QED BY <2>2, FS_CardinalityType
<1>2. ASSUME NEW k \in K PROVE f[k] = Cardinality(within({k})) /\ f[k] \in Nat
  <2>1. within({k}) = {x \in S : key[x] = k}
    OBVIOUS
  <2>2. f[k] = Cardinality(within({k}))
    BY <2>1 DEF Fibers
  <2>. HIDE DEF within, f
  <2>. QED BY <2>2, <1>1
<1>3. Amounts(f, K)
  BY <1>2 DEF Amounts
<1>4. K \notin Bad
  <2>. SUFFICES ASSUME K \in Bad PROVE FALSE
    OBVIOUS
  <2>1. IsWellFoundedOn(R, Fin)
    BY FS_StrictSubsetOrderingWellFounded
  <2>2. Bad \subseteq Fin
    BY FS_Subset DEF FiniteSubsetsOf
  <2>3. PICK T \in Bad : \A U \in Bad : ~ (<<U, T>> \in R)
    <3>. HIDE DEF Bad
    <3>. QED BY <2>1, <2>2, WFMin
  <2>4. Amount(f, {}) = 0 /\ Cardinality(within({})) = 0
    <3>1. within({}) = {}
      OBVIOUS
    <3>. HIDE DEF within, f
    <3>. QED BY <3>1, FS_EmptySet, CountNothing
  <2>5. PICK k \in T : TRUE
    BY <2>3, <2>4
  <2>6. <<T \ {k}, T>> \in R
    BY <2>5 DEF StrictSubsetOrdering
  <2>. DEFINE U == T \ {k}
  <2>7. U \in SUBSET K /\ U \notin Bad
    BY <2>3, <2>6
  <2>8. /\ IsFiniteSet(T) /\ T \subseteq K /\ k \in K /\ {k} \subseteq T
    BY <2>2, <2>5 DEF FiniteSubsetsOf
  <2>9. within(T) = within(U) \union within({k}) /\ within(U) \intersect within({k}) = {}
    BY <2>5
  <2>10. Amount(f, U) = Cardinality(within(U))
    BY <2>7
  <2>11. Amounts(f, T)
    BY <1>3, <2>8 DEF Amounts
  <2>. HIDE DEF f, within
  <2>12. Amount(f, T) = Amount(f, {k}) + Amount(f, U)
    BY <2>8, <2>11, CountSplit
  <2>13. Amount(f, {k}) = f[k]
    BY <1>2, <2>8, CountOne
  <2>15. Cardinality(within(T)) = Cardinality(within(U)) + Cardinality(within({k}))
    BY <1>1, <2>9, CardinalityOfUnion
  <2>16. Amount(f, T) = Cardinality(within(T))
    BY <1>1, <1>2, <2>8, <2>10, <2>12, <2>13, <2>15
  <2>. QED BY <2>3, <2>16 DEF within, f
<1>. QED BY <1>3, <1>4

-----------------------------------------------------------------------------
(* A database and its reports.                                             *)

\* A database of organizations.
IsBase(db) == IsFiniteSet(DOMAIN db) /\ \A o \in DOMAIN db : IsOrg(db[o])

\* The reports count as FiniteSets does, and add up Amounts.
LEMMA ReportsCount == ASSUME NEW S PROVE Reports!Cardinality(S) = Cardinality(S)
BY DEF Reports!Cardinality, Cardinality

\* A total in a report is the amount of what it is of.
LEMMA ReportsTotal == ASSUME NEW f PROVE Reports!Total(f) = Amount(f, DOMAIN f)
<1>1. Reports!Items(f, DOMAIN f) = Items(f, DOMAIN f)
  BY DEF Reports!Items, Items
<1>. QED BY <1>1, ReportsCount DEF Reports!Total, Amount

\* Some of the organizations of a database are finitely many.
LEMMA BaseSubset ==
    ASSUME NEW db, IsBase(db), NEW S, S \subseteq DOMAIN db
    PROVE  IsFiniteSet(S) /\ Cardinality(S) \in Nat
<1>1. S \in SUBSET DOMAIN db
  OBVIOUS
<1>. QED BY <1>1, FS_Subset, FS_CardinalityType DEF IsBase

\* One with the largest number.
LEMMA LargestBy ==
    ASSUME NEW S, IsFiniteSet(S), S # {}, NEW f, \A x \in S : f[x] \in Nat
    PROVE  \E x \in S : \A y \in S : f[x] >= f[y]
<1>. DEFINE T == {f[x] : x \in S}
            g == [x \in S |-> f[x]]
<1>1. g \in Surjection(S, T)
  BY DEF Surjection
<1>2. IsFiniteSet(T)
  <2>. HIDE DEF g, T
  <2>. QED BY <1>1, FS_Surjection
<1>3. T \in SUBSET Nat /\ T # {}
  OBVIOUS
<1>. HIDE DEF T
<1>4. PICK m \in T : \A t \in T : m >= t
  BY <1>2, <1>3, LargestExists
<1>. QED BY <1>4 DEF T

\* The smaller of two numbers.
LEMMA SmallerOf ==
    ASSUME NEW a \in Nat, NEW b \in Nat
    PROVE  Reports!Min({a, b}) = IF a <= b THEN a ELSE b
BY DEF Reports!Min

\* There are n elements with the largest amounts, or all that there are.
LEMMA MostExist ==
    ASSUME NEW S, IsFiniteSet(S), NEW f, \A x \in S : f[x] \in Nat, NEW n \in Nat
    PROVE  \E top \in SUBSET S : /\ Cardinality(top) = IF n <= Cardinality(S) THEN n ELSE Cardinality(S)
                                 /\ \A x \in top, y \in S \ top : f[x] >= f[y]
<1>. DEFINE size == Cardinality(S)
            Top(top, k) == /\ Cardinality(top) = IF k <= size THEN k ELSE size
                           /\ \A x \in top, y \in S \ top : f[x] >= f[y]
            without == {k \in Nat : ~ \E top \in SUBSET S : Top(top, k)}
<1>1. size \in Nat
  BY FS_CardinalityType
<1>2. Top({}, 0)
  BY <1>1, FS_EmptySet
<1>3. ASSUME NEW k \in Nat, NEW top \in SUBSET S, Top(top, k)
      PROVE  \E more \in SUBSET S : Top(more, k + 1)
  <2>1. IsFiniteSet(top)
    BY FS_Subset
  <2>2. CASE size <= k
    <3>1. Top(top, k + 1)
      BY <1>1, <1>3, <2>2
    <3>. QED BY <3>1
  <2>3. CASE k < size
    <3>1. Cardinality(top) = k
      BY <1>1, <1>3, <2>3
    <3>2. S \ top # {}
      <4>1. top # S
        BY <1>1, <2>3, <3>1
      <4>. QED BY <4>1
    <3>3. IsFiniteSet(S \ top)
      BY FS_Subset
    <3>4. PICK x \in S \ top : \A y \in S \ top : f[x] >= f[y]
      BY <3>2, <3>3, LargestBy
    <3>5. Cardinality(top \union {x}) = k + 1
      BY <2>1, <3>1, <3>4, FS_AddElement
    <3>6. \A y \in top \union {x}, z \in S \ (top \union {x}) : f[y] >= f[z]
      BY <1>3, <3>4
    <3>7. k + 1 <= size
      BY <1>1, <2>3
    <3>8. Top(top \union {x}, k + 1)
      BY <3>5, <3>6, <3>7
    <3>9. top \union {x} \in SUBSET S
      OBVIOUS
    <3>. QED BY <3>8, <3>9
  <2>. QED BY <1>1, <2>2, <2>3
<1>. HIDE DEF Top
<1>4. without = {}
  <2>. SUFFICES ASSUME without # {} PROVE FALSE
    OBVIOUS
  <2>1. PICK k \in without : \A m \in without : k <= m
    <3>1. without \subseteq Nat
      OBVIOUS
    <3>. HIDE DEF without
    <3>. QED BY <3>1, LeastExists
  <2>2. k # 0
    BY <1>2
  <2>3. k - 1 \in Nat /\ k - 1 \notin without
    BY <2>1, <2>2
  <2>4. PICK top \in SUBSET S : Top(top, k - 1)
    BY <2>3
  <2>5. \E more \in SUBSET S : Top(more, (k - 1) + 1)
    BY <2>3, <2>4, <1>3
  <2>6. (k - 1) + 1 = k
    BY <2>1
  <2>. QED BY <2>1, <2>5, <2>6
<1>5. PICK top \in SUBSET S : Top(top, n)
  BY <1>4
<1>. QED BY <1>5 DEF Top

\* A list of the largest has as many as it is asked for, and nobody with less than another.
LEMMA LargestAre ==
    ASSUME NEW S, IsFiniteSet(S), NEW f, \A x \in S : f[x] \in Nat, NEW n \in Nat
    PROVE  LET top == Reports!Largest(S, f, n)
           IN /\ top \subseteq S
              /\ Cardinality(top) = IF n <= Cardinality(S) THEN n ELSE Cardinality(S)
              /\ \A x \in top, y \in S \ top : f[x] >= f[y]
<1>. DEFINE Top(top) == /\ Cardinality(top) = IF n <= Cardinality(S) THEN n ELSE Cardinality(S)
                        /\ \A x \in top, y \in S \ top : f[x] >= f[y]
<1>1. \E top \in SUBSET S : Top(top)
  BY MostExist
<1>2. Reports!Min({n, Reports!Cardinality(S)}) = IF n <= Cardinality(S) THEN n ELSE Cardinality(S)
  <2>1. Cardinality(S) \in Nat
    BY FS_CardinalityType
  <2>2. Reports!Min({n, Cardinality(S)}) = IF n <= Cardinality(S) THEN n ELSE Cardinality(S)
    BY <2>1, SmallerOf
  <2>. QED BY <2>2, ReportsCount
<1>3. \A top : Reports!Cardinality(top) = Cardinality(top)
  BY ReportsCount
<1>4. Reports!Largest(S, f, n) = CHOOSE top \in SUBSET S : Top(top)
  <2>1. \A top : /\ Reports!Cardinality(top) = Reports!Min({n, Reports!Cardinality(S)})
                 /\ \A x \in top, y \in S \ top : f[x] >= f[y]
                 <=> Top(top)
    BY <1>2, <1>3
  <2>. HIDE DEF Top
  <2>. QED BY <2>1 DEF Reports!Largest
<1>. HIDE DEF Top
<1>5. Reports!Largest(S, f, n) \in SUBSET S /\ Top(Reports!Largest(S, f, n))
  BY <1>1, <1>4
<1>. QED BY <1>5 DEF Top

\* No list names an organization that was deleted.
LEMMA DeletedHidden ==
    ASSUME NEW db, IsBase(db)
    PROVE  Reports!DeletedStayHidden(db)
<1>. DEFINE rows == Reports!loadActiveUsage(db)
            att == Reports!getAttention(db)
            used == [o \in rows |-> db[o].used]
<1>1. rows \subseteq Reports!Present(db) /\ rows \subseteq DOMAIN db
  BY DEF Reports!loadActiveUsage, Reports!Subscribed
<1>2. att.quota_exhausted \union att.near_limit \union att.expiring_soon \subseteq rows
  BY DEF Reports!getAttention
<1>3. Reports!getTopOrganizations(db, 1) \subseteq rows
  <2>1. IsFiniteSet(rows) /\ \A o \in rows : used[o] \in Nat
    BY <1>1, BaseSubset DEF IsBase, IsOrg
  <2>2. Reports!getTopOrganizations(db, 1) = Reports!Largest(rows, used, 1)
    BY DEF Reports!getTopOrganizations
  <2>. HIDE DEF rows, used
  <2>. QED BY <2>1, <2>2, LargestAre
<1>. QED BY <1>1, <1>2, <1>3 DEF Reports!DeletedStayHidden

\* A quotient reaches a bound when the dividend reaches its multiple.
LEMMA DivAtLeast ==
    ASSUME NEW a \in Nat, NEW b \in Nat \ {0}, NEW q \in Int
    PROVE  a \div b >= q <=> a >= b * q
OBVIOUS

\* Near the limit that was raised is near the plan's own, or over it.
LEMMA NearOwnLimit ==
    ASSUME NEW used \in Nat, NEW raised \in Nat \ {0}, NEW own \in Nat \ {0}, own <= raised, NEW pct \in Nat,
           Reports!Tenths(used, raised) >= 10 * pct
    PROVE  Reports!Percent(used, own) >= pct
<1>1. 2 * 1000 * used + raised >= (2 * raised) * (10 * pct)
  <2>1. (2 * 1000 * used + raised) \div (2 * raised) >= 10 * pct
    BY DEF Reports!Tenths
  <2>2. 2 * 1000 * used + raised \in Nat /\ 2 * raised \in Nat \ {0} /\ 10 * pct \in Int
    OBVIOUS
  <2>. QED BY <2>1, <2>2, DivAtLeast
<1>2. 2 * 100 * used + own >= (2 * own) * pct
  <2>. DEFINE a == own * pct
              b == raised * pct
  <2>1. a \in Nat /\ b \in Nat /\ a <= b /\ (2 * raised) * (10 * pct) = 20 * b /\ (2 * own) * pct = 2 * a
    OBVIOUS
  <2>2. pct = 0 => a = 0
    OBVIOUS
  <2>3. b - a >= raised - own \/ pct = 0
    <3>1. pct # 0 => (raised - own) * pct >= raised - own
      OBVIOUS
    <3>2. (raised - own) * pct = b - a
      OBVIOUS
    <3>. QED BY <3>1, <3>2
  <2>. HIDE DEF a, b
  <2>4. CASE pct = 0
    BY <2>1, <2>2, <2>4
  <2>5. CASE b - a >= raised - own
    BY <1>1, <2>1, <2>5
  <2>. QED BY <2>3, <2>4, <2>5
<1>3. 2 * 100 * used + own \in Nat /\ 2 * own \in Nat \ {0} /\ pct \in Int
  OBVIOUS
<1>4. (2 * 100 * used + own) \div (2 * own) >= pct
  BY <1>2, <1>3, DivAtLeast
<1>. QED BY <1>4 DEF Reports!Percent

\* What an organization is told of itself.
LEMMA OwnItems ==
    ASSUME NEW db, NEW o, NEW read, NEW x
    PROVE  LET view == Reports!getOrgQuota(db, o).state
               hooks == Reports!getOrgWebhooks(db, o)
           IN x \in Reports!getOrgAttention(db, o, read) <=>
                \/ x = <<"no_subscription", "critical">> /\ view = "no_subscription"
                \/ x = <<"quota_exhausted", "critical">> /\ view = "exhausted"
                \/ x = <<"quota_near_limit", "warning">> /\ view = "near_limit"
                \/ /\ x = <<"subscription_expiring", IF db[o].queue > 0 THEN "info" ELSE "warning">>
                   /\ view # "no_subscription" /\ Reports!getOrgQuota(db, o).days_left <= 7
                \/ x = <<"webhook_failing", "warning">> /\ hooks.failed_24h > 0
                \/ x = <<"webhook_disabled", "info">> /\ hooks.state = "disabled"
                \/ x = <<"webhook_not_configured", "info">> /\ hooks.state = "not_configured"
                \/ x = <<"operators_quiet", "info">> /\ Reports!Quiet(db[o], read) # {}
<1>. DEFINE quota == Reports!getOrgQuota(db, o)
            hooks == Reports!getOrgWebhooks(db, o)
            subscribed == quota.state # "no_subscription"
            item(type, severity, visible) == {y \in {<<type, severity>>} : visible}
            all == {item("no_subscription", "critical", ~subscribed),
                    item("quota_exhausted", "critical", quota.state = "exhausted"),
                    item("quota_near_limit", "warning", quota.state = "near_limit"),
                    item("subscription_expiring", IF db[o].queue > 0 THEN "info" ELSE "warning",
                         subscribed /\ quota.days_left <= 7),
                    item("webhook_failing", "warning", hooks.failed_24h > 0),
                    item("webhook_disabled", "info", hooks.state = "disabled"),
                    item("webhook_not_configured", "info", hooks.state = "not_configured"),
                    item("operators_quiet", "info", Reports!Quiet(db[o], read) # {})}
<1>1. Reports!getOrgAttention(db, o, read) = UNION all
  BY DEF Reports!getOrgAttention
<1>2. \A type, severity : \A visible \in BOOLEAN :
         x \in item(type, severity, visible) <=> x = <<type, severity>> /\ visible
  OBVIOUS
<1>. HIDE DEF quota, hooks
<1>3. x \in UNION all <=>
                \/ x \in item("no_subscription", "critical", ~subscribed)
                \/ x \in item("quota_exhausted", "critical", quota.state = "exhausted")
                \/ x \in item("quota_near_limit", "warning", quota.state = "near_limit")
                \/ x \in item("subscription_expiring", IF db[o].queue > 0 THEN "info" ELSE "warning",
                              subscribed /\ quota.days_left <= 7)
                \/ x \in item("webhook_failing", "warning", hooks.failed_24h > 0)
                \/ x \in item("webhook_disabled", "info", hooks.state = "disabled")
                \/ x \in item("webhook_not_configured", "info", hooks.state = "not_configured")
                \/ x \in item("operators_quiet", "info", Reports!Quiet(db[o], read) # {})
  <2>. HIDE DEF item
  <2>. QED OBVIOUS
<1>. QED BY <1>1, <1>3 DEF quota, hooks

\* Of a quota, its state and its type among what the organization is told.
LEMMA OwnTypes ==
    ASSUME NEW db, NEW o, NEW read
    PROVE  LET types == {item[1] : item \in Reports!getOrgAttention(db, o, read)} IN
           /\ "quota_exhausted" \in types <=> Reports!getOrgQuota(db, o).state = "exhausted"
           /\ "quota_near_limit" \in types <=> Reports!getOrgQuota(db, o).state = "near_limit"
<1>. DEFINE own == Reports!getOrgAttention(db, o, read)
            view == Reports!getOrgQuota(db, o).state
<1>1. <<"quota_exhausted", "critical">> \in own <=> view = "exhausted"
  BY OwnItems
<1>2. <<"quota_near_limit", "warning">> \in own <=> view = "near_limit"
  BY OwnItems
<1>3. \A x \in own : /\ x[1] = "quota_exhausted" => x = <<"quota_exhausted", "critical">>
                     /\ x[1] = "quota_near_limit" => x = <<"quota_near_limit", "warning">>
  BY OwnItems
<1>. HIDE DEF own, view
<1>4. "quota_exhausted" \in {item[1] : item \in own} <=> view = "exhausted"
  BY <1>1, <1>3
<1>5. "quota_near_limit" \in {item[1] : item \in own} <=> view = "near_limit"
  BY <1>2, <1>3
<1>. QED BY <1>4, <1>5 DEF own, view

\* The quota of an organization with a plan.
LEMMA OwnState ==
    ASSUME NEW db, NEW o, db[o].plan # Planless
    PROVE  LET firm == db[o]
               own == Reports!scanLimitOf(firm)
               quota == Reports!getOrgQuota(db, o)
           IN /\ quota.used = firm.used /\ quota.days_left = IF firm.left < 0 THEN 0 ELSE firm.left
              /\ quota.state # "no_subscription"
              /\ quota.state = "exhausted" <=> own # 0 /\ firm.used >= own
              /\ quota.state = "near_limit" <=>
                   own # 0 /\ ~(firm.used >= own) /\ Reports!Percent(firm.used, own) >= NearLimitPct
BY DEF Reports!getOrgQuota

\* The limits of an organization: of its plan, and of its usage row, which grants the plan's
\* or was raised; and one whose only limit is of another feature has used nothing.
LEMMA LimitsOf ==
    ASSUME NEW firm, IsOrg(firm)
    PROVE  LET own == Reports!scanLimitOf(firm)
               entry == Reports!RowLimit(firm)
           IN /\ own \in Nat /\ entry \in Nat /\ firm.used \in Nat
              /\ own # 0 /\ Reports!GrantsPlan(firm) => entry >= own
              /\ firm.granted \in {-1, own} => entry = own \/ (own = 0 /\ firm.used = 0)
BY DEF IsOrg, Reports!scanLimitOf, Reports!RowLimit, Reports!GrantsPlan

\* Who has used nothing is not near a limit.
LEMMA NothingIsFar ==
    ASSUME NEW entry \in Nat \ {0}, NEW pct \in Nat \ {0}
    PROVE  ~ (Reports!Tenths(0, entry) >= 10 * pct)
<1>1. (2 * 1000 * 0 + entry) \div (2 * entry) = 0
  OBVIOUS
<1>2. ~ (0 >= 10 * pct)
  OBVIOUS
<1>. QED BY <1>1, <1>2 DEF Reports!Tenths

\* What the super admin is alerted to the organization is told.
LEMMA AlertsMatch ==
    ASSUME NEW db, IsBase(db), NearLimitPct \in Nat \ {0}
    PROVE  Reports!AlertsAgree(db)
<1>. SUFFICES ASSUME NEW o \in Reports!Present(db), NEW read \in Reports!Reads(db[o])
              PROVE  LET att == Reports!getAttention(db)
                         own == Reports!getOrgAttention(db, o, read)
                         types == {item[1] : item \in own}
                         raised == ~ db[o].granted \in {-1, Reports!scanLimitOf(db[o])}
                     IN /\ o \in att.expiring_soon =>
                             <<"subscription_expiring", IF o \in att.next_plan_queued THEN "info" ELSE "warning">>
                                \in own
                        /\ Reports!scanLimitOf(db[o]) # 0 /\ Reports!GrantsPlan(db[o]) =>
                             /\ o \in att.quota_exhausted => "quota_exhausted" \in types
                             /\ o \in att.near_limit => types \intersect {"quota_near_limit", "quota_exhausted"} # {}
                        /\ ~raised => /\ o \in att.quota_exhausted <=> "quota_exhausted" \in types
                                      /\ o \in att.near_limit => "quota_near_limit" \in types
  BY DEF Reports!AlertsAgree
<1>. DEFINE att == Reports!getAttention(db)
            items == Reports!getOrgAttention(db, o, read)
            types == {item[1] : item \in items}
            firm == db[o]
            own == Reports!scanLimitOf(firm)
            entry == Reports!RowLimit(firm)
            view == Reports!getOrgQuota(db, o).state
<1>1. o \in DOMAIN db /\ IsOrg(firm)
  BY DEF Reports!Present, IsBase
<1>2. /\ o \in att.expiring_soon <=> firm.plan # Planless /\ firm.left \in 0..7
      /\ o \in att.next_plan_queued <=> firm.queue > 0
      /\ o \in att.quota_exhausted <=> firm.plan # Planless /\ entry > 0 /\ firm.used >= entry
      /\ o \in att.near_limit <=> /\ firm.plan # Planless /\ entry > 0 /\ firm.used < entry
                                  /\ Reports!Tenths(firm.used, entry) >= 10 * NearLimitPct
  BY <1>1 DEF Reports!getAttention, Reports!loadActiveUsage, Reports!Subscribed
<1>3. /\ own \in Nat /\ entry \in Nat /\ firm.used \in Nat
      /\ own # 0 /\ Reports!GrantsPlan(firm) => entry >= own
      /\ firm.granted \in {-1, own} => entry = own \/ (own = 0 /\ firm.used = 0)
  <2>. HIDE DEF firm
  <2>. QED BY <1>1, LimitsOf
<1>4. /\ "quota_exhausted" \in types <=> view = "exhausted"
      /\ "quota_near_limit" \in types <=> view = "near_limit"
  BY OwnTypes
<1>5. firm.plan # Planless =>
        /\ view = "exhausted" <=> own # 0 /\ firm.used >= own
        /\ view = "near_limit" <=>
             own # 0 /\ ~(firm.used >= own) /\ Reports!Percent(firm.used, own) >= NearLimitPct
  BY OwnState
<1>6. firm.plan = Planless => view = "no_subscription"
  BY DEF Reports!getOrgQuota
<1>7. o \in att.expiring_soon =>
        <<"subscription_expiring", IF o \in att.next_plan_queued THEN "info" ELSE "warning">> \in items
  <2>. SUFFICES ASSUME o \in att.expiring_soon
                PROVE  <<"subscription_expiring", IF firm.queue > 0 THEN "info" ELSE "warning">> \in items
    BY <1>2
  <2>1. view # "no_subscription" /\ Reports!getOrgQuota(db, o).days_left <= 7
    BY <1>2, OwnState
  <2>. QED BY <2>1, OwnItems
<1>. HIDE DEF att, view, types, entry, own, items
<1>8. ASSUME own # 0, entry >= own, o \in att.near_limit, ~(firm.used >= own)
      PROVE  view = "near_limit"
  <2>1. Reports!Percent(firm.used, own) >= NearLimitPct
    BY <1>2, <1>3, <1>8, NearOwnLimit
  <2>. QED BY <1>2, <1>5, <1>8, <2>1
<1>9. ASSUME own # 0, Reports!GrantsPlan(firm)
      PROVE  /\ o \in att.quota_exhausted => "quota_exhausted" \in types
             /\ o \in att.near_limit => types \intersect {"quota_near_limit", "quota_exhausted"} # {}
  BY <1>2, <1>3, <1>4, <1>5, <1>8, <1>9
<1>10. ASSUME firm.granted \in {-1, own}
       PROVE  /\ o \in att.quota_exhausted <=> "quota_exhausted" \in types
              /\ o \in att.near_limit => "quota_near_limit" \in types
  <2>1. CASE entry = own
    <3>1. o \in att.quota_exhausted <=> "quota_exhausted" \in types
      BY <2>1, <1>2, <1>3, <1>4, <1>5, <1>6
    <3>2. o \in att.near_limit => own # 0 /\ ~(firm.used >= own)
      BY <2>1, <1>2, <1>3
    <3>. QED BY <2>1, <3>1, <3>2, <1>3, <1>4, <1>8
  <2>2. CASE own = 0 /\ firm.used = 0
    <3>1. o \notin att.quota_exhausted
      BY <2>2, <1>2, <1>3
    <3>2. o \notin att.near_limit
      BY <2>2, <1>2, <1>3, NothingIsFar
    <3>. QED BY <2>2, <3>1, <3>2, <1>4, <1>5, <1>6
  <2>. QED BY <2>1, <2>2, <1>3, <1>10
<1>. QED BY <1>7, <1>9, <1>10 DEF att, types, items, own

\* Every organization is counted once, under its plan or as having none.
LEMMA CountsMatch ==
    ASSUME NEW db, IsBase(db)
    PROVE  Reports!CountsAddUp(db)
<1>. DEFINE dist == Reports!getPlanDistribution(db)
            sum == Reports!getSummary(db)
            subs == Reports!Subscribed(db)
            present == Reports!Present(db)
            plan == [o \in DOMAIN db |-> db[o].plan]
            K == {db[o].plan : o \in subs}
            planned == Reports!Total(dist.results)
<1>1. subs \subseteq DOMAIN db /\ present \subseteq DOMAIN db /\ \A o \in DOMAIN db : db[o].status \in 0..2
  BY DEF Reports!Subscribed, Reports!Present, IsBase, IsOrg
<1>2. /\ IsFiniteSet(subs) /\ Cardinality(subs) \in Nat /\ IsFiniteSet(present) /\ Cardinality(present) \in Nat
      /\ IsFiniteSet(present \ subs) /\ IsFiniteSet(subs \ present) /\ Cardinality(present \ subs) \in Nat
      /\ Cardinality(subs \ present) \in Nat
  <2>1. present \ subs \subseteq DOMAIN db /\ subs \ present \subseteq DOMAIN db
    BY <1>1
  <2>. HIDE DEF subs, present
  <2>. QED BY <1>1, <2>1, BaseSubset
<1>3. dist.results = Fibers(subs, plan, K)
  <2>1. dist.results = [p \in K |-> Reports!Cardinality({o \in subs : db[o].plan = p})]
    BY DEF Reports!getPlanDistribution
  <2>2. ASSUME NEW p \in K
        PROVE  Reports!Cardinality({o \in subs : db[o].plan = p}) = Cardinality({o \in subs : plan[o] = p})
    <3>1. {o \in subs : db[o].plan = p} = {o \in subs : plan[o] = p}
      BY <1>1
    <3>. QED BY <3>1, ReportsCount
  <2>. HIDE DEF dist, K, plan, subs
  <2>. QED BY <2>1, <2>2 DEF Fibers
<1>4. IsFiniteSet(K)
  <2>. DEFINE g == [o \in subs |-> db[o].plan]
  <2>1. g \in Surjection(subs, K)
    BY DEF Surjection
  <2>. HIDE DEF g, K, subs
  <2>. QED BY <1>2, <2>1, FS_Surjection
<1>5. planned = Cardinality(subs)
  <2>1. planned = Amount(dist.results, DOMAIN dist.results)
    BY ReportsTotal
  <2>2. DOMAIN dist.results = K
    BY <1>3 DEF Fibers
  <2>3. {o \in subs : plan[o] \in K} = subs
    BY <1>1
  <2>. HIDE DEF planned, dist, K, plan, subs
  <2>4. Amount(Fibers(subs, plan, K), K) = Cardinality({o \in subs : plan[o] \in K})
    BY <1>2, <1>4, CountFibers
  <2>. QED BY <1>3, <2>1, <2>2, <2>3, <2>4
<1>6. dist.no_plan = Cardinality(present \ subs)
  BY ReportsCount DEF Reports!getPlanDistribution
<1>7. /\ sum.total = Cardinality(present) /\ sum.subscriptions = Cardinality(subs)
      /\ sum.active = Cardinality({o \in DOMAIN db : db[o].status = 1})
      /\ sum.inactive = Cardinality({o \in DOMAIN db : db[o].status = 0})
  BY ReportsCount DEF Reports!getSummary
<1>8. Reports!Cardinality({o \in subs : db[o].status = 2}) = Cardinality(subs \ present)
  <2>1. {o \in subs : db[o].status = 2} = subs \ present
    BY <1>1 DEF Reports!Present
  <2>. HIDE DEF subs, present
  <2>. QED BY <2>1, ReportsCount
<1>9. Cardinality(subs) + Cardinality(present \ subs) = Cardinality(present) + Cardinality(subs \ present)
  <2>1. subs \intersect (present \ subs) = {} /\ present \intersect (subs \ present) = {}
    OBVIOUS
  <2>2. subs \union (present \ subs) = present \union (subs \ present)
    OBVIOUS
  <2>. HIDE DEF subs, present
  <2>3. Cardinality(subs \union (present \ subs)) = Cardinality(subs) + Cardinality(present \ subs)
    BY <1>2, <2>1, CardinalityOfUnion
  <2>4. Cardinality(present \union (subs \ present)) = Cardinality(present) + Cardinality(subs \ present)
    BY <1>2, <2>1, CardinalityOfUnion
  <2>. QED BY <2>2, <2>3, <2>4
<1>10. sum.total = sum.active + sum.inactive
  <2>. DEFINE on == {o \in DOMAIN db : db[o].status = 1}
              off == {o \in DOMAIN db : db[o].status = 0}
  <2>1. present = on \union off /\ on \intersect off = {} /\ on \subseteq DOMAIN db /\ off \subseteq DOMAIN db
    BY <1>1 DEF Reports!Present
  <2>. HIDE DEF on, off, present, sum
  <2>2. IsFiniteSet(on) /\ IsFiniteSet(off)
    BY <2>1, BaseSubset
  <2>3. Cardinality(on \union off) = Cardinality(on) + Cardinality(off)
    BY <2>1, <2>2, CardinalityOfUnion
  <2>. QED BY <2>1, <2>3, <1>7 DEF on, off
<1>11. {o \in DOMAIN Reports!listOrganizations(db, -1) : Reports!listOrganizations(db, -1)[o].plan = Planless}
         = present \ subs
  BY DEF Reports!listOrganizations, Reports!Present, Reports!Subscribed
<1>12. dist.no_plan = Reports!Cardinality(
         {o \in DOMAIN Reports!listOrganizations(db, -1) : Reports!listOrganizations(db, -1)[o].plan = Planless})
  BY <1>6, <1>11, ReportsCount
<1>. HIDE DEF dist, sum, subs, planned, present
<1>13. /\ planned + dist.no_plan = sum.total + Reports!Cardinality({o \in subs : db[o].status = 2})
       /\ planned = sum.subscriptions
  BY <1>5, <1>6, <1>7, <1>8, <1>9
<1>. QED BY <1>10, <1>12, <1>13 DEF Reports!CountsAddUp, dist, sum, subs, planned

\* A query reads active operators, and all of them unless they are more than TeamLimit.
LEMMA ReadsAre ==
    ASSUME NEW firm, IsOrg(firm), TeamLimit \in Nat, NEW read \in Reports!Reads(firm)
    PROVE  LET active == Reports!ActiveOperators(firm)
           IN /\ active \subseteq DOMAIN firm.operators /\ IsFiniteSet(active)
              /\ read \subseteq active /\ IsFiniteSet(read)
              /\ Cardinality(active) <= TeamLimit => read = active
<1>. DEFINE active == Reports!ActiveOperators(firm)
<1>1. active \in SUBSET DOMAIN firm.operators
  BY DEF Reports!ActiveOperators
<1>2. IsFiniteSet(active) /\ Cardinality(active) \in Nat
  <2>. HIDE DEF active
  <2>. QED BY <1>1, FS_Subset, FS_CardinalityType DEF IsOrg
<1>3. read \in SUBSET active /\ Reports!Cardinality(read) = Reports!Min({TeamLimit, Reports!Cardinality(active)})
  BY DEF Reports!Reads
<1>. HIDE DEF active
<1>4. Cardinality(active) <= TeamLimit => Cardinality(read) = Cardinality(active)
  <2>. SUFFICES ASSUME Cardinality(active) <= TeamLimit PROVE Cardinality(read) = Cardinality(active)
    OBVIOUS
  <2>1. Reports!Min({TeamLimit, Cardinality(active)}) = Cardinality(active)
    BY <1>2, SmallerOf
  <2>. QED BY <1>3, <2>1, ReportsCount
<1>5. IsFiniteSet(read) /\ (Cardinality(active) = Cardinality(read) => active = read)
  BY <1>2, <1>3, FS_Subset
<1>. QED BY <1>1, <1>2, <1>3, <1>4, <1>5 DEF active

\* That somebody is quiet is told when somebody is.
LEMMA OnlyQuiet ==
    ASSUME NEW db, NEW o, NEW read
    PROVE  (<<"operators_quiet", "info">> \in Reports!getOrgAttention(db, o, read)) <=> Reports!Quiet(db[o], read) # {}
BY OwnItems

\* Who has scanned this week is not quiet, and is on the list unless that is full.
LEMMA TeamMatch ==
    ASSUME NEW db, IsBase(db), TeamLimit \in Nat, TopLimit \in Nat
    PROVE  Reports!TeamIsSplit(db)
<1>. SUFFICES ASSUME NEW o \in DOMAIN db, NEW read \in Reports!Reads(db[o]), NEW again \in Reports!Reads(db[o])
              PROVE  LET team == Reports!getOrgTeam(db, o, read) IN
                     /\ team.quiet_operators \subseteq Reports!ActiveOperators(db[o])
                     /\ Reports!Cardinality(team.quiet_operators) <= Reports!getOrgSummary(db, o).active
                     /\ \A u \in read \ (team.quiet_operators \union team.top_operators) :
                          /\ Reports!Cardinality(team.top_operators) = TopLimit
                          /\ \A v \in team.top_operators : db[o].operators[v].month >= db[o].operators[u].month
                     /\ Reports!getOrgSummary(db, o).active <= TeamLimit =>
                          ((<<"operators_quiet", "info">> \in Reports!getOrgAttention(db, o, again))
                             <=> team.quiet_operators # {})
  BY DEF Reports!TeamIsSplit
<1>. DEFINE firm == db[o]
            active == Reports!ActiveOperators(firm)
            quiet == Reports!Quiet(firm, read)
            team == Reports!getOrgTeam(db, o, read)
            month == [u \in read |-> firm.operators[u].month]
            scanned == {u \in read : month[u] > 0}
            top == Reports!Largest(scanned, month, TopLimit)
<1>1. IsOrg(firm)
  BY DEF IsBase
<1>2. team.quiet_operators = quiet /\ team.top_operators = top
  BY DEF Reports!getOrgTeam
<1>3. /\ active \subseteq DOMAIN firm.operators /\ IsFiniteSet(active)
      /\ read \subseteq active /\ IsFiniteSet(read)
      /\ Cardinality(active) <= TeamLimit => read = active /\ again = active
  BY <1>1, ReadsAre
<1>4. quiet \subseteq read /\ \A u \in read \ quiet : firm.operators[u].week # 0
  BY DEF Reports!Quiet
<1>5. \A u \in read : /\ firm.operators[u].week \in Nat /\ firm.operators[u].month \in Nat
                      /\ firm.operators[u].week <= firm.operators[u].month
  BY <1>1, <1>3 DEF IsOrg
<1>6. /\ top \subseteq scanned
      /\ Cardinality(top) = IF TopLimit <= Cardinality(scanned) THEN TopLimit ELSE Cardinality(scanned)
      /\ \A x \in top, y \in scanned \ top : month[x] >= month[y]
  <2>1. scanned \in SUBSET read /\ \A u \in scanned : month[u] \in Nat
    BY <1>5
  <2>. HIDE DEF scanned, month
  <2>2. IsFiniteSet(scanned)
    BY <1>3, <2>1, FS_Subset
  <2>. QED BY <2>1, <2>2, LargestAre
<1>7. ASSUME NEW u \in read \ (quiet \union top)
      PROVE  /\ Cardinality(top) = TopLimit
             /\ \A v \in top : firm.operators[v].month >= firm.operators[u].month
  <2>. HIDE DEF top
  <2>1. u \in scanned \ top
    <3>1. month[u] > 0
      BY <1>4, <1>5
    <3>. QED BY <3>1
  <2>2. ASSUME NEW v \in top PROVE firm.operators[v].month >= firm.operators[u].month
    <3>1. month[v] >= month[u]
      <4>. HIDE DEF month, scanned
      <4>. QED BY <1>6, <2>1
    <3>2. v \in read
      BY <1>6
    <3>3. month[v] = firm.operators[v].month /\ month[u] = firm.operators[u].month
      BY <3>2
    <3>. HIDE DEF month, firm
    <3>. QED BY <3>1, <3>3
  <2>3. Cardinality(top) = TopLimit
    <3>1. scanned \in SUBSET read
      OBVIOUS
    <3>. HIDE DEF scanned
    <3>2. IsFiniteSet(scanned)
      BY <1>3, <3>1, FS_Subset
    <3>3. Cardinality(scanned) # Cardinality(top)
      BY <1>6, <2>1, <3>2, FS_Subset
    <3>. QED BY <1>6, <3>3
  <2>. QED BY <2>2, <2>3
<1>8. Cardinality(quiet) <= Cardinality(active)
  <2>. HIDE DEF firm, active, quiet
  <2>. QED BY <1>3, <1>4, FS_Subset
<1>9. Reports!getOrgSummary(db, o).active = Cardinality(active)
  BY ReportsCount DEF Reports!getOrgSummary
<1>10. (<<"operators_quiet", "info">> \in Reports!getOrgAttention(db, o, again)) <=> Reports!Quiet(firm, again) # {}
  BY OnlyQuiet
<1>11. ASSUME Cardinality(active) <= TeamLimit
       PROVE  (<<"operators_quiet", "info">> \in Reports!getOrgAttention(db, o, again)) <=> quiet # {}
  BY <1>3, <1>10, <1>11
<1>12. quiet \subseteq active
  BY <1>3, <1>4
<1>. HIDE DEF active, quiet, team, top
<1>13. Reports!Cardinality(quiet) <= Cardinality(active)
  BY <1>8, ReportsCount
<1>14. Reports!Cardinality(top) = Cardinality(top)
  BY ReportsCount
<1>. QED BY <1>2, <1>7, <1>9, <1>11, <1>12, <1>13, <1>14 DEF team, active

\* The page of the subscription and the dashboard agree while their counters do.
LEMMA PagesMatch ==
    ASSUME NEW db, IsBase(db)
    PROVE  Reports!PagesAgree(db)
<1>. SUFFICES ASSUME NEW o \in Reports!Subscribed(db)
              PROVE  LET page == Reports!getSubscriptionSummary(db, o)
                         own == Reports!getOrgQuota(db, o)
                         out == page.usage.scan_limit > 0 /\ page.usage.period_count >= page.usage.scan_limit
                     IN /\ db[o].cache \in {-1, db[o].used} =>
                             /\ own.used = page.usage.period_count
                             /\ out <=> own.state = "exhausted"
                             /\ o \in Reports!getAttention(db).quota_exhausted /\ page.usage.scan_limit > 0
                                  /\ Reports!GrantsPlan(db[o]) => out
                        /\ Reports!Total(page.usage.usages) = IF db[o].limit = -1 THEN 0 ELSE page.usage.period_count
                        /\ page.future_queue > 0 <=> o \in Reports!getAttention(db).next_plan_queued
  BY DEF Reports!PagesAgree
<1>. DEFINE firm == db[o]
            page == Reports!getSubscriptionSummary(db, o)
            own == Reports!getOrgQuota(db, o)
            ceiling == Reports!scanLimitOf(firm)
            entry == Reports!RowLimit(firm)
            tally == IF firm.cache # -1 THEN firm.cache ELSE firm.used
            rows == Reports!buildUsageRows(IF firm.limit = -1 THEN {"support"} ELSE {"scan", "support"}, tally)
            out == page.usage.scan_limit > 0 /\ page.usage.period_count >= page.usage.scan_limit
<1>1. o \in DOMAIN db /\ IsOrg(firm) /\ firm.plan # Planless
  BY DEF Reports!Subscribed, IsBase
<1>2. /\ ceiling \in Nat /\ entry \in Nat /\ firm.used \in Nat
      /\ ceiling # 0 /\ Reports!GrantsPlan(firm) => entry >= ceiling
  <2>. HIDE DEF firm
  <2>. QED BY <1>1, LimitsOf
<1>3. /\ page.usage = [period_count |-> tally, scan_limit |-> ceiling, usages |-> rows]
      /\ page.future_queue = firm.queue
  BY <1>1 DEF Reports!getSubscriptionSummary, Reports!buildUsagePayload
<1>4. page.usage.period_count = tally /\ page.usage.scan_limit = ceiling /\ page.usage.usages = rows
  <2>. HIDE DEF page, tally, rows, ceiling
  <2>. QED BY <1>3
<1>5. own.used = firm.used /\ (own.state = "exhausted" <=> ceiling # 0 /\ firm.used >= ceiling)
  BY <1>1, OwnState
<1>6. tally \in Nat /\ (firm.cache \in {-1, firm.used} => tally = firm.used)
  <2>1. firm.cache \in Nat \union {-1}
    BY <1>1 DEF IsOrg
  <2>. HIDE DEF firm
  <2>. QED BY <1>2, <2>1
<1>7. Reports!Total(rows) = IF firm.limit = -1 THEN 0 ELSE tally
  <2>1. CASE firm.limit = -1
    <3>1. DOMAIN rows = {"support"} /\ rows["support"] = 0
      BY <2>1 DEF Reports!buildUsageRows
    <3>. HIDE DEF rows, tally, firm
    <3>2. Amount(rows, {"support"}) = 0
      BY <3>1, CountOne
    <3>. QED BY <2>1, <3>1, <3>2, ReportsTotal
  <2>2. CASE firm.limit # -1
    <3>1. DOMAIN rows = {"scan", "support"} /\ rows["scan"] = tally /\ rows["support"] = 0
      BY <2>2 DEF Reports!buildUsageRows
    <3>. HIDE DEF rows, tally, firm
    <3>2. Amounts(rows, {"scan", "support"}) /\ IsFiniteSet({"scan", "support"})
      <4>1. IsFiniteSet({"scan"}) /\ IsFiniteSet({"scan"} \union {"support"})
        BY FS_Singleton, FS_AddElement
      <4>2. {"scan"} \union {"support"} = {"scan", "support"}
        OBVIOUS
      <4>. QED BY <3>1, <1>6, <4>1, <4>2 DEF Amounts
    <3>3. {"scan", "support"} \ {"scan"} = {"support"} /\ {"scan"} \subseteq {"scan", "support"}
      OBVIOUS
    <3>4. Amount(rows, {"scan", "support"}) = Amount(rows, {"scan"}) + Amount(rows, {"support"})
      <4>. DEFINE S == {"scan", "support"}
                  A == {"scan"}
      <4>1. IsFiniteSet(S) /\ Amounts(rows, S) /\ A \subseteq S /\ S \ A = {"support"}
        BY <3>2, <3>3
      <4>. HIDE DEF S, A
      <4>2. Amount(rows, S) = Amount(rows, A) + Amount(rows, S \ A)
        BY <4>1, CountSplit
      <4>. QED BY <4>1, <4>2 DEF S, A
    <3>5. Amount(rows, {"scan"}) = tally /\ Amount(rows, {"support"}) = 0
      BY <3>1, <1>6, CountOne
    <3>. QED BY <2>2, <3>1, <3>4, <3>5, <1>6, ReportsTotal
  <2>. QED BY <2>1, <2>2
<1>8. /\ o \in Reports!getAttention(db).next_plan_queued <=> firm.queue > 0
      /\ o \in Reports!getAttention(db).quota_exhausted => entry > 0 /\ firm.used >= entry
  BY <1>1 DEF Reports!getAttention
<1>. HIDE DEF page, own, tally, rows, ceiling, entry
<1>9. out <=> ceiling > 0 /\ tally >= ceiling
  BY <1>4
<1>10. ASSUME firm.cache \in {-1, firm.used}
       PROVE  /\ own.used = page.usage.period_count
              /\ out <=> own.state = "exhausted"
              /\ o \in Reports!getAttention(db).quota_exhausted /\ page.usage.scan_limit > 0
                   /\ Reports!GrantsPlan(firm) => out
  <2>1. tally = firm.used
    BY <1>6, <1>10
  <2>2. out <=> own.state = "exhausted"
    BY <1>2, <1>5, <1>9, <2>1
  <2>3. o \in Reports!getAttention(db).quota_exhausted /\ ceiling > 0 /\ Reports!GrantsPlan(firm) => out
    BY <1>2, <1>8, <1>9, <2>1
  <2>4. own.used = page.usage.period_count
    BY <1>4, <1>5, <2>1
  <2>5. page.usage.scan_limit = ceiling
    BY <1>4
  <2>. HIDE DEF out
  <2>. QED BY <2>2, <2>3, <2>4, <2>5
<1>11. Reports!Total(page.usage.usages) = IF firm.limit = -1 THEN 0 ELSE page.usage.period_count
  BY <1>4, <1>7
<1>12. page.future_queue > 0 <=> o \in Reports!getAttention(db).next_plan_queued
  BY <1>3, <1>8
<1>. QED BY <1>10, <1>11, <1>12 DEF page, own

\* The deliveries the organizations see are among those the super admin sees.
LEMMA DeliveriesMatch ==
    ASSUME NEW db, IsBase(db), NEW probe
    PROVE  Reports!DeliveriesAddUp(db, probe)
<1>. DEFINE D == DOMAIN db
            on == {o \in D : db[o].webhook = "enabled"}
            hooks == Reports!getWebhooks(db)
            pending == [o \in D |-> db[o].pending]
            failed == [o \in D |-> db[o].failed + db[o].refused]
            ownPending == [o \in on |-> Reports!getOrgWebhooks(db, o).pending]
            ownFailed == [o \in on |-> Reports!getOrgWebhooks(db, o).failed_24h]
            hidden == [o \in D \ on |-> db[o].pending]
<1>1. \A o \in D : db[o].pending \in Nat /\ db[o].failed \in Nat /\ db[o].refused \in Nat
  BY DEF IsBase, IsOrg
<1>2. hooks.pending = Reports!Total(pending) /\ hooks.failed_24h = Reports!Total(failed)
  BY DEF Reports!getWebhooks
<1>3. \A o \in on : ownPending[o] = db[o].pending /\ ownFailed[o] = db[o].failed
  BY DEF Reports!getOrgWebhooks
<1>4. IsFiniteSet(D) /\ on \subseteq D
  BY DEF IsBase
<1>5. /\ DOMAIN pending = D /\ DOMAIN failed = D /\ DOMAIN ownPending = on /\ DOMAIN ownFailed = on
      /\ DOMAIN hidden = D \ on
      /\ \A o \in D : pending[o] = db[o].pending /\ failed[o] = db[o].failed + db[o].refused
      /\ \A o \in D \ on : hidden[o] = db[o].pending
  OBVIOUS
<1>. HIDE DEF D, on, pending, failed, ownPending, ownFailed, hidden
<1>6. Amounts(pending, D) /\ Amounts(failed, D)
  BY <1>1, <1>5 DEF Amounts
<1>7. /\ Amount(pending, D) = Amount(pending, on) + Amount(pending, D \ on)
      /\ Amount(failed, D) = Amount(failed, on) + Amount(failed, D \ on)
      /\ Amount(failed, on) \in Nat /\ Amount(failed, D \ on) \in Nat /\ Amount(failed, D) \in Nat
  BY <1>4, <1>6, CountSplit
<1>8. Amount(ownPending, on) = Amount(pending, on) /\ Amount(hidden, D \ on) = Amount(pending, D \ on)
  <2>1. \A o \in on : ownPending[o] = pending[o]
    BY <1>3, <1>4, <1>5
  <2>2. \A o \in D \ on : hidden[o] = pending[o]
    BY <1>5
  <2>. QED BY <2>1, <2>2, CountSame
<1>9. Amount(ownFailed, on) <= Amount(failed, on) /\ Amount(ownFailed, on) \in Nat
  <2>1. on \in SUBSET D
    BY <1>4
  <2>2. IsFiniteSet(on)
    BY <2>1, <1>4, FS_Subset
  <2>3. \A o \in on : ownFailed[o] \in Nat /\ failed[o] \in Nat /\ ownFailed[o] <= failed[o]
    BY <1>1, <1>3, <1>4, <1>5
  <2>4. Amounts(ownFailed, on) /\ Amounts(failed, on)
    BY <2>3 DEF Amounts
  <2>. QED BY <2>2, <2>3, <2>4, CountMonotone, CountIsFinite
<1>10. hooks.pending = Reports!Total(ownPending) + Reports!Total(hidden)
  BY <1>2, <1>5, <1>7, <1>8, ReportsTotal
<1>11. hooks.failed_24h >= Reports!Total(ownFailed)
  BY <1>2, <1>5, <1>7, <1>9, ReportsTotal
<1>12. probe.configured /\ Reports!getSystem(db, probe).webhook_queue # "healthy" =>
         \E o \in D : db[o].pending > 0
  <2>. SUFFICES ASSUME probe.configured, \A o \in D : ~(db[o].pending > 0)
                PROVE  Reports!getSystem(db, probe).webhook_queue = "healthy"
    OBVIOUS
  <2>1. \A o \in D : pending[o] = 0
    BY <1>1, <1>5
  <2>2. hooks.pending = 0
    BY <2>1, <1>2, <1>5, CountNothing, ReportsTotal
  <2>. QED BY <2>2 DEF Reports!getSystem
<1>. HIDE DEF hooks
<1>13. /\ hooks.pending = Reports!Total(ownPending) + Reports!Total(hidden)
       /\ hooks.failed_24h >= Reports!Total(ownFailed)
       /\ probe.configured /\ Reports!getSystem(db, probe).webhook_queue # "healthy" =>
            \E o \in D : db[o].pending > 0
  BY <1>10, <1>11, <1>12
<1>. QED BY <1>13 DEF Reports!DeliveriesAddUp, hooks, D, on, ownPending, ownFailed, hidden

\* Whatever the database, its reports agree.
LEMMA ReportsMatch ==
    ASSUME NEW db, IsBase(db), NearLimitPct \in Nat \ {0}, TeamLimit \in Nat, TopLimit \in Nat
    PROVE  ReportsAgree(db)
BY DeletedHidden, AlertsMatch, CountsMatch, TeamMatch, PagesMatch, DeliveriesMatch DEF ReportsAgree

-----------------------------------------------------------------------------
(* Days of a zone.                                                         *)

\* What the zone's clocks show, in hours.
Clock(zone, t) == t + Days!Offset(zone, t)

\* A day whose midnight the clocks show, as HasMidnights has it.
HasMidnight(zone, d) ==
    LET visible == {t \in {d * 24 - zone.before, d * 24 - zone.after} : t + Days!Offset(zone, t) = d * 24}
    IN visible # {} /\ (zone.before > 0 => \A t, u \in visible : t = u)

\* The clocks do not go back by more than they went forth; a day begins at hour 24 * d.
LEMMA ClockRuns ==
    ASSUME NEW zone, IsZone(zone), NEW t \in Int, NEW u \in Int, t <= u
    PROVE  /\ Clock(zone, t) \in Int /\ Clock(zone, u) \in Int
           /\ Clock(zone, t) <= Clock(zone, u)
           /\ Clock(zone, u) - Clock(zone, t) - 1 <= u - t
           /\ u - t <= Clock(zone, u) - Clock(zone, t) + 1
BY DEF IsZone, Clock, Days!Offset

\* A day has 24 hours on the clocks.
LEMMA DayIsInt ==
    ASSUME NEW zone, IsZone(zone), NEW t \in Int
    PROVE  Days!DayOf(zone, t) \in Int /\ Clock(zone, t) \in Int
           /\ 24 * Days!DayOf(zone, t) <= Clock(zone, t) /\ Clock(zone, t) < 24 * Days!DayOf(zone, t) + 24
<1>1. Clock(zone, t) \in Int
  BY ClockRuns
<1>2. Days!DayOf(zone, t) = Clock(zone, t) \div 24
  BY DEF Days!DayOf, Days!Day, Clock
<1>. QED BY <1>1, <1>2

\* Later is not on an earlier day.
LEMMA DaysRun ==
    ASSUME NEW zone, IsZone(zone), NEW t \in Int, NEW u \in Int, t <= u
    PROVE  Days!DayOf(zone, t) <= Days!DayOf(zone, u)
BY ClockRuns, DayIsInt

\* Where the code looks for the start of a day, whether or not the clocks show it: never
\* before an earlier day is over.
LEMMA ToUtcIsInt ==
    ASSUME NEW zone, IsZone(zone), NEW d \in Int
    PROVE  /\ Days!ToUtc(zone, d) \in Int
           /\ Days!DayOf(zone, Days!ToUtc(zone, d)) \in {d - 1, d}
           /\ 24 * d - 1 <= Clock(zone, Days!ToUtc(zone, d)) /\ Clock(zone, Days!ToUtc(zone, d)) <= 24 * d + 1
<1>. DEFINE T == Days!ToUtc(zone, d)
<1>1. T \in Int /\ Clock(zone, T) >= 24 * d - 1 /\ Clock(zone, T) <= 24 * d + 1
  BY DEF IsZone, Clock, Days!Offset, Days!ToUtc, Days!Day
<1>. DEFINE day == Days!DayOf(zone, T)
            c == Clock(zone, T)
<1>2. day \in Int /\ c \in Int /\ 24 * day <= c /\ c < 24 * day + 24
  BY <1>1, DayIsInt
<1>. HIDE DEF T
<1>3. c >= 24 * d - 1 /\ c <= 24 * d + 1
  BY <1>1
<1>4. day \in {d - 1, d}
  <2>. HIDE DEF day, c
  <2>. QED BY <1>2, <1>3
<1>. QED BY <1>1, <1>4 DEF T

\* What is on an earlier day is not after the day starts.
LEMMA ToUtcIsLate ==
    ASSUME NEW zone, IsZone(zone), NEW d \in Int, NEW t \in Int, Days!DayOf(zone, t) < d
    PROVE  t <= Days!ToUtc(zone, d)
<1>1. Clock(zone, t) < 24 * d
  BY DayIsInt
<1>. QED BY <1>1 DEF IsZone, Clock, Days!Offset, Days!ToUtc, Days!Day

\* If the clocks show its midnight, the code finds the first instant of the day.
LEMMA MidnightFound ==
    ASSUME NEW zone, IsZone(zone), NEW d \in Int, HasMidnight(zone, d)
    PROVE  /\ Days!ToUtc(zone, d) \in Int
           /\ Clock(zone, Days!ToUtc(zone, d)) = 24 * d
           /\ Days!DayOf(zone, Days!ToUtc(zone, d)) = d
           /\ \A t \in Int : t >= Days!ToUtc(zone, d) <=> Days!DayOf(zone, t) >= d
<1>. DEFINE T == Days!ToUtc(zone, d)
            a == d * 24 - zone.before
            b == d * 24 - zone.after
<1>1. a \in Int /\ b \in Int
  BY DEF IsZone
<1>2. \/ Clock(zone, a) = 24 * d
      \/ Clock(zone, b) = 24 * d
  BY DEF HasMidnight, Clock
<1>3. zone.before > 0 /\ Clock(zone, a) = 24 * d /\ Clock(zone, b) = 24 * d => a = b
  BY DEF HasMidnight, Clock
<1>4. T \in Int /\ Clock(zone, T) = 24 * d
  BY <1>2 DEF IsZone, Clock, Days!Offset, Days!ToUtc, Days!Day
<1>5. Clock(zone, T - 1) < 24 * d
  BY <1>2, <1>3 DEF IsZone, Clock, Days!Offset, Days!ToUtc, Days!Day
<1>. HIDE DEF T
<1>. DEFINE day == Days!DayOf(zone, T)
<1>6. day = d
  <2>1. day \in Int /\ 24 * day <= 24 * d /\ 24 * d < 24 * day + 24
    BY <1>4, DayIsInt
  <2>. HIDE DEF day
  <2>. QED BY <2>1
<1>7. ASSUME NEW t \in Int, t >= T PROVE Days!DayOf(zone, t) >= d
  BY <1>4, <1>6, <1>7, DaysRun
<1>8. ASSUME NEW t \in Int, ~(t >= T) PROVE ~(Days!DayOf(zone, t) >= d)
  <2>1. t <= T - 1 /\ T - 1 \in Int
    BY <1>4, <1>8
  <2>2. Clock(zone, t) <= Clock(zone, T - 1) /\ Clock(zone, T - 1) \in Int
    BY <2>1, ClockRuns
  <2>. QED BY <2>2, <1>5, DayIsInt
<1>9. Days!ToUtc(zone, d) = T
  BY DEF T
<1>. QED BY <1>4, <1>6, <1>7, <1>8, <1>9

\* A shift by a day is on the next day unless the clocks, west of UTC, skip its midnight;
\* then it is the hour before, and where a shift from there ends up as well.
LEMMA ShiftsReach ==
    ASSUME NEW zone, IsZone(zone), NEW t \in Int
    PROVE  Days!ShiftsReachDays(zone, t)
<1>. DEFINE day == Days!DayOf(zone, t)
            T == Days!ToUtc(zone, day + 1)
            midnight == (day + 1) * 24 - zone.before
            skipped == zone.before < 0 /\ zone.before < zone.after /\ zone.at = midnight
<1>1. day \in Int /\ day + 1 \in Int
  BY DayIsInt
<1>. HIDE DEF day
<1>2. T \in Int /\ Days!DayOf(zone, T) \in {day, day + 1}
  BY <1>1, ToUtcIsInt
<1>3. IF skipped THEN Clock(zone, T) < 24 * (day + 1) ELSE Clock(zone, T) >= 24 * (day + 1)
  BY <1>1 DEF IsZone, Clock, Days!Offset, Days!ToUtc, Days!Day
<1>. DEFINE next == Days!DayOf(zone, T)
<1>4. 24 * next <= Clock(zone, T) /\ Clock(zone, T) < 24 * next + 24 /\ Clock(zone, T) \in Int
  BY <1>2, DayIsInt
<1>. HIDE DEF skipped, T, next
<1>5. next = IF skipped THEN day ELSE day + 1
  <2>1. next \in {day, day + 1}
    BY <1>2 DEF next
  <2>. QED BY <1>1, <1>3, <1>4, <2>1
<1>6. Days!shiftDaysUtc(zone, t, 1) = T /\ Days!shiftDaysUtc(zone, T, 1) = Days!ToUtc(zone, next + 1)
  BY DEF Days!shiftDaysUtc, T, day, next
<1>7. skipped => Days!shiftDaysUtc(zone, T, 1) = T
  <2>1. skipped => Days!ToUtc(zone, next + 1) = Days!ToUtc(zone, day + 1)
    BY <1>5
  <2>2. Days!ToUtc(zone, day + 1) = T
    BY DEF T
  <2>. QED BY <1>6, <2>1, <2>2
<1>8. Days!ShiftsReachDays(zone, t) <=>
        IF skipped THEN next = day /\ Days!shiftDaysUtc(zone, T, 1) = T ELSE next = day + 1
  BY <1>6 DEF Days!ShiftsReachDays, Days!Day, skipped, next, day
<1>. QED BY <1>5, <1>7, <1>8

\* Days start in order.
LEMMA ToUtcRuns ==
    ASSUME NEW zone, IsZone(zone), NEW d \in Int, NEW e \in Int, d < e
    PROVE  Days!ToUtc(zone, d) <= Days!ToUtc(zone, e)
<1>1. Days!ToUtc(zone, d) \in Int /\ Days!DayOf(zone, Days!ToUtc(zone, d)) < e
  BY ToUtcIsInt
<1>. QED BY <1>1, ToUtcIsLate

\* HasMidnights says so of each day.
LEMMA MidnightsBetween ==
    ASSUME NEW zone, NEW from, NEW to, Days!HasMidnights(zone, from, to),
           NEW d \in Days!DayOf(zone, from)..Days!DayOf(zone, to)
    PROVE  HasMidnight(zone, d)
BY DEF HasMidnight, Days!HasMidnights, Days!Day

-----------------------------------------------------------------------------
(* Buckets.                                                                *)

\* The turns of the loop of dayBuckets, the first N + 1 of them.
Turns(zone, first, N, c) ==
    c = [n \in 0..N |-> IF n = 0 THEN first ELSE Days!ToUtc(zone, Days!DayOf(zone, c[n - 1]) + 1)]

\* There is one sequence of turns: of the numbers for which there is none a smallest
\* would be one more than a number for which there is.
LEMMA TurnsExist ==
    ASSUME NEW zone, NEW first, NEW N \in Nat
    PROVE  \E c : Turns(zone, first, N, c)
<1>. DEFINE Bad == {n \in Nat : ~ \E c : Turns(zone, first, n, c)}
<1>. SUFFICES ASSUME Bad # {} PROVE FALSE
  OBVIOUS
<1>1. PICK m \in Bad : \A t \in Bad : m <= t
  <2>. HIDE DEF Bad
  <2>1. Bad \subseteq Nat
    BY DEF Bad
  <2>. QED BY <2>1, LeastExists
<1>2. m # 0
  <2>. DEFINE c == [n \in 0..0 |-> first]
  <2>1. Turns(zone, first, 0, c)
    BY DEF Turns
  <2>. QED BY <2>1
<1>3. m - 1 \in Nat /\ m - 1 \notin Bad
  BY <1>1, <1>2
<1>4. PICK c : Turns(zone, first, m - 1, c)
  BY <1>3
<1>. DEFINE g == [n \in 0..m |-> IF n = m THEN Days!ToUtc(zone, Days!DayOf(zone, c[m - 1]) + 1) ELSE c[n]]
<1>5. \A n \in 0..m - 1 : g[n] = c[n]
  BY <1>3
<1>6. Turns(zone, first, m, g)
  <2>. DEFINE h == [n \in 0..m |-> IF n = 0 THEN first ELSE Days!ToUtc(zone, Days!DayOf(zone, g[n - 1]) + 1)]
  <2>1. ASSUME NEW n \in 0..m PROVE g[n] = h[n]
    <3>1. CASE n = m
      <4>1. g[n] = Days!ToUtc(zone, Days!DayOf(zone, c[m - 1]) + 1) /\ n # 0 /\ g[m - 1] = c[m - 1]
        BY <1>2, <1>3, <1>5, <3>1
      <4>2. h[n] = Days!ToUtc(zone, Days!DayOf(zone, g[m - 1]) + 1)
        BY <1>2, <3>1
      <4>. QED BY <4>1, <4>2
    <3>2. CASE n # m /\ n # 0
      <4>1. n \in 0..m - 1 /\ n - 1 \in 0..m - 1
        BY <3>2
      <4>2. c[n] = Days!ToUtc(zone, Days!DayOf(zone, c[n - 1]) + 1)
        BY <1>4, <3>2, <4>1 DEF Turns
      <4>3. g[n] = c[n] /\ g[n - 1] = c[n - 1]
        BY <1>5, <4>1
      <4>. HIDE DEF g
      <4>. QED BY <3>2, <4>2, <4>3
    <3>3. CASE n = 0
      <4>1. c[0] = first
        BY <1>3, <1>4 DEF Turns
      <4>. QED BY <1>2, <3>3, <4>1
    <3>. QED BY <3>1, <3>2, <3>3
  <2>2. g = h
    BY <2>1
  <2>. HIDE DEF g
  <2>. QED BY <2>2 DEF Turns
<1>. QED BY <1>6

\* The loop's cursor.
Cursor(zone, first, N) == CHOOSE c : Turns(zone, first, N, c)

\* The cursor starts at the first day and moves to the day after its own.
LEMMA CursorTurns ==
    ASSUME NEW zone, NEW first, NEW N \in Nat
    PROVE  /\ Cursor(zone, first, N)[0] = first
           /\ \A n \in 1..N : Cursor(zone, first, N)[n]
                                = Days!ToUtc(zone, Days!DayOf(zone, Cursor(zone, first, N)[n - 1]) + 1)
<1>. DEFINE c == Cursor(zone, first, N)
<1>1. Turns(zone, first, N, c)
  BY TurnsExist DEF Cursor
<1>. HIDE DEF c
<1>2. c = [n \in 0..N |-> IF n = 0 THEN first ELSE Days!ToUtc(zone, Days!DayOf(zone, c[n - 1]) + 1)]
  BY <1>1 DEF Turns
<1>3. c[0] = first
  BY <1>2
<1>4. ASSUME NEW n \in 1..N PROVE c[n] = Days!ToUtc(zone, Days!DayOf(zone, c[n - 1]) + 1)
  <2>1. n \in 0..N /\ n # 0
    OBVIOUS
  <2>. QED BY <1>2, <2>1
<1>. QED BY <1>3, <1>4 DEF c

\* dayBuckets takes a bucket from each turn that begins before the end.
LEMMA BucketsByTurns ==
    ASSUME NEW zone, NEW start, NEW end
    PROVE  LET first == Days!startOfDayUtc(zone, start)
               turns == (end - first) \div 24 + 2
               cursor == Cursor(zone, first, turns + 1)
           IN Days!dayBuckets(zone, start, end) =
                {[key |-> Days!DayOf(zone, cursor[n]), start |-> cursor[n], end |-> Days!Least({cursor[n + 1], end})] :
                    n \in {m \in 0..turns : cursor[m] < end}}
BY DEF Days!dayBuckets, Days!Day, Cursor, Turns

\* Least of two times is the earlier.
LEMMA LeastOfTwo ==
    ASSUME NEW a \in Int, NEW b \in Int
    PROVE  Days!Least({a, b}) = IF a <= b THEN a ELSE b
BY DEF Days!Least

\* A range from a time to a later one, all of whose days have a midnight.
IsRange(zone, start, end) ==
    IsZone(zone) /\ start \in Int /\ end \in Int /\ start <= end /\ Days!HasMidnights(zone, start, end)

\* The days of a range that start before its end, and what the bucket of one is.
DaysOf(zone, start, end) ==
    {d \in Days!DayOf(zone, start)..Days!DayOf(zone, end) : Days!ToUtc(zone, d) < end}
EndOf(zone, end, d) == IF d < Days!DayOf(zone, end) THEN Days!ToUtc(zone, d + 1) ELSE end

\* The days of a range start within it, at their midnights, in order.
LEMMA RangeDays ==
    ASSUME NEW zone, NEW start, NEW end, IsRange(zone, start, end)
    PROVE  /\ Days!DayOf(zone, start) \in Int /\ Days!DayOf(zone, end) \in Int
           /\ Days!DayOf(zone, start) <= Days!DayOf(zone, end)
           /\ \A d \in Days!DayOf(zone, start)..Days!DayOf(zone, end) :
                /\ Days!ToUtc(zone, d) \in Int /\ Days!ToUtc(zone, d) <= end
                /\ Days!DayOf(zone, Days!ToUtc(zone, d)) = d
                /\ Clock(zone, Days!ToUtc(zone, d)) = 24 * d
                /\ \A t \in Int : t >= Days!ToUtc(zone, d) <=> Days!DayOf(zone, t) >= d
<1>1. /\ Days!DayOf(zone, start) \in Int /\ Days!DayOf(zone, end) \in Int
      /\ Days!DayOf(zone, start) <= Days!DayOf(zone, end)
  BY DayIsInt, DaysRun DEF IsRange
<1>2. ASSUME NEW d \in Days!DayOf(zone, start)..Days!DayOf(zone, end)
      PROVE  /\ Days!ToUtc(zone, d) \in Int /\ Days!ToUtc(zone, d) <= end
             /\ Days!DayOf(zone, Days!ToUtc(zone, d)) = d
             /\ Clock(zone, Days!ToUtc(zone, d)) = 24 * d
             /\ \A t \in Int : t >= Days!ToUtc(zone, d) <=> Days!DayOf(zone, t) >= d
  <2>1. d \in Int /\ IsZone(zone) /\ HasMidnight(zone, d) /\ end \in Int /\ Days!DayOf(zone, end) >= d
    BY <1>1, MidnightsBetween DEF IsRange
  <2>2. /\ Days!ToUtc(zone, d) \in Int
        /\ Clock(zone, Days!ToUtc(zone, d)) = 24 * d
        /\ Days!DayOf(zone, Days!ToUtc(zone, d)) = d
        /\ \A t \in Int : t >= Days!ToUtc(zone, d) <=> Days!DayOf(zone, t) >= d
    BY <2>1, MidnightFound
  <2>3. end >= Days!ToUtc(zone, d)
    BY <2>1, <2>2
  <2>. QED BY <2>1, <2>2, <2>3
<1>. QED BY <1>1, <1>2

\* The cursor stands at the midnights of the range, one after the other, and then stays
\* behind its end.
LEMMA CursorMoves ==
    ASSUME NEW zone, NEW start, NEW end, IsRange(zone, start, end), NEW N \in Nat, NEW n \in 0..N
    PROVE  LET d == Days!DayOf(zone, start) + n
               c == Cursor(zone, Days!startOfDayUtc(zone, start), N)
           IN /\ c[n] \in Int
              /\ d <= Days!DayOf(zone, end) => c[n] = Days!ToUtc(zone, d)
              /\ d > Days!DayOf(zone, end) => c[n] >= end
<1>. DEFINE s == Days!DayOf(zone, start)
            e == Days!DayOf(zone, end)
            c == Cursor(zone, Days!startOfDayUtc(zone, start), N)
            P(m) == /\ c[m] \in Int
                    /\ s + m <= e => c[m] = Days!ToUtc(zone, s + m)
                    /\ s + m > e => c[m] >= end
            Bad == {m \in 0..N : ~P(m)}
<1>. SUFFICES ASSUME Bad # {} PROVE FALSE
  OBVIOUS
<1>1. PICK m \in Bad : \A t \in Bad : m <= t
  <2>. HIDE DEF Bad
  <2>1. Bad \subseteq Nat
    BY DEF Bad
  <2>. QED BY <2>1, LeastExists
<1>2. s \in Int /\ e \in Int /\ s <= e /\ IsZone(zone) /\ start \in Int /\ end \in Int
  BY RangeDays DEF IsRange
<1>3. c[0] = Days!ToUtc(zone, s) /\ \A k \in 1..N : c[k] = Days!ToUtc(zone, Days!DayOf(zone, c[k - 1]) + 1)
  BY CursorTurns DEF Days!startOfDayUtc
<1>4. P(0)
  <2>1. Days!ToUtc(zone, s) \in Int
    BY <1>2, ToUtcIsInt
  <2>. HIDE DEF c, s, e
  <2>. QED BY <1>2, <1>3, <2>1
<1>5. m # 0 /\ m \in Nat /\ m <= N /\ m - 1 \in 0..N /\ m \in 1..N
  <2>1. m # 0
    BY <1>4
  <2>. QED BY <2>1
<1>6. P(m - 1)
  <2>1. m - 1 \notin Bad
    BY <1>1, <1>5
  <2>. QED BY <1>5, <2>1
<1>. DEFINE D == Days!DayOf(zone, c[m - 1])
<1>7. c[m] = Days!ToUtc(zone, D + 1)
  BY <1>3, <1>5
<1>8. c[m - 1] \in Int /\ D \in Int /\ c[m] \in Int
  <2>1. c[m - 1] \in Int
    BY <1>6
  <2>. HIDE DEF c
  <2>2. D \in Int
    BY <1>2, <2>1, DayIsInt
  <2>. HIDE DEF D
  <2>3. c[m] \in Int
    BY <1>2, <1>7, <2>2, ToUtcIsInt
  <2>. QED BY <2>1, <2>2, <2>3
<1>9. CASE s + m <= e
  <2>1. s + (m - 1) \in s..e /\ s + (m - 1) <= e
    BY <1>2, <1>5, <1>9
  <2>2. c[m - 1] = Days!ToUtc(zone, s + (m - 1))
    BY <1>6, <2>1
  <2>3. D = s + (m - 1)
    <3>. HIDE DEF c
    <3>. QED BY <2>1, <2>2, RangeDays
  <2>4. c[m] = Days!ToUtc(zone, s + m)
    <3>1. s + (m - 1) + 1 = s + m
      BY <1>2, <1>5
    <3>. HIDE DEF c, D, s
    <3>. QED BY <1>7, <2>3, <3>1
  <2>5. P(m)
    <3>. HIDE DEF c, s, e
    <3>. QED BY <1>2, <1>5, <1>8, <1>9, <2>4
  <2>. QED BY <2>5
<1>10. CASE s + m > e
  <2>1. c[m] >= end
    <3>1. CASE s + (m - 1) > e
      <4>1. c[m - 1] >= end
        BY <1>6, <3>1
      <4>2. c[m] >= c[m - 1]
        <5>1. D < D + 1 /\ D + 1 \in Int
          BY <1>8
        <5>. HIDE DEF c
        <5>2. c[m - 1] <= Days!ToUtc(zone, D + 1)
          BY <1>2, <1>8, <5>1, ToUtcIsLate
        <5>. HIDE DEF D
        <5>. QED BY <1>7, <1>8, <5>2
      <4>. HIDE DEF c
      <4>. QED BY <1>2, <1>8, <4>1, <4>2
    <3>2. CASE s + (m - 1) <= e
      <4>1. s + (m - 1) \in s..e
        BY <1>2, <1>5, <3>2
      <4>2. c[m - 1] = Days!ToUtc(zone, s + (m - 1))
        BY <1>6, <3>2
      <4>3. D = s + (m - 1)
        <5>. HIDE DEF c
        <5>. QED BY <4>1, <4>2, RangeDays
      <4>4. e < D + 1 /\ D + 1 \in Int
        <5>. HIDE DEF D, s, e
        <5>. QED BY <1>2, <1>5, <1>8, <1>10, <4>3
      <4>5. end <= Days!ToUtc(zone, D + 1)
        <5>. HIDE DEF D
        <5>. QED BY <1>2, <4>4, ToUtcIsLate
      <4>. HIDE DEF c, D
      <4>. QED BY <1>2, <1>7, <1>8, <4>5
    <3>. HIDE DEF c, s, e
    <3>. QED BY <1>2, <1>5, <3>1, <3>2
  <2>2. P(m)
    <3>. HIDE DEF c, s, e
    <3>. QED BY <1>2, <1>5, <1>8, <1>10, <2>1
  <2>. QED BY <2>2
<1>. HIDE DEF P, c, s, e
<1>11. s + m <= e \/ s + m > e
  BY <1>2, <1>5
<1>. QED BY <1>9, <1>10, <1>11

\* There are turns for all the days.
LEMMA TurnsSuffice ==
    ASSUME NEW zone, NEW start, NEW end, IsRange(zone, start, end)
    PROVE  LET turns == (end - Days!startOfDayUtc(zone, start)) \div 24 + 2
           IN turns \in Nat /\ Days!DayOf(zone, end) - Days!DayOf(zone, start) <= turns
<1>. DEFINE s == Days!DayOf(zone, start)
            e == Days!DayOf(zone, end)
            first == Days!ToUtc(zone, s)
<1>1. s \in Int /\ e \in Int /\ s <= e /\ IsZone(zone) /\ end \in Int
  BY RangeDays DEF IsRange
<1>2. first \in Int /\ first <= end /\ Clock(zone, first) = 24 * s
  BY <1>1, RangeDays
<1>3. Clock(zone, end) \in Int /\ 24 * e <= Clock(zone, end)
  BY <1>1, DayIsInt
<1>4. Clock(zone, end) - Clock(zone, first) - 1 <= end - first
  <2>. HIDE DEF first
  <2>. QED BY <1>1, <1>2, ClockRuns
<1>5. first = Days!startOfDayUtc(zone, start)
  BY DEF Days!startOfDayUtc
<1>. HIDE DEF s, e, first
<1>6. 24 * e - 24 * s - 1 <= end - first /\ end - first >= 0 /\ end - first \in Int
  BY <1>1, <1>2, <1>3, <1>4
<1>. DEFINE n == end - first
            q == n \div 24
<1>7. q \in Int /\ n < 24 * q + 24 /\ q >= 0
  <2>. HIDE DEF n
  <2>. QED BY <1>6 DEF n
<1>8. e - s <= q + 2
  <2>. HIDE DEF q
  <2>. QED BY <1>1, <1>6, <1>7
<1>. QED BY <1>5, <1>7, <1>8 DEF s, e

\* The loop makes a bucket of each day that starts before the range ends.
LEMMA BucketsAreDays ==
    ASSUME NEW zone, NEW start, NEW end, IsRange(zone, start, end)
    PROVE  Days!dayBuckets(zone, start, end) =
             {[key |-> d, start |-> Days!ToUtc(zone, d), end |-> EndOf(zone, end, d)] : d \in DaysOf(zone, start, end)}
<1>. DEFINE s == Days!DayOf(zone, start)
            e == Days!DayOf(zone, end)
            first == Days!startOfDayUtc(zone, start)
            turns == (end - first) \div 24 + 2
            c == Cursor(zone, first, turns + 1)
            one(n) == [key |-> Days!DayOf(zone, c[n]), start |-> c[n], end |-> Days!Least({c[n + 1], end})]
            day(d) == [key |-> d, start |-> Days!ToUtc(zone, d), end |-> EndOf(zone, end, d)]
            some == {m \in 0..turns : c[m] < end}
<1>1. s \in Int /\ e \in Int /\ s <= e /\ end \in Int
  BY RangeDays DEF IsRange
<1>2. turns \in Nat /\ e - s <= turns
  BY TurnsSuffice
<1>3. ASSUME NEW n \in 0..turns + 1
      PROVE  /\ c[n] \in Int
             /\ s + n <= e => c[n] = Days!ToUtc(zone, s + n)
             /\ s + n > e => c[n] >= end
  <2>1. turns + 1 \in Nat
    BY <1>2
  <2>. HIDE DEF turns
  <2>. QED BY <2>1, CursorMoves
<1>4. Days!dayBuckets(zone, start, end) = {one(n) : n \in some}
  BY BucketsByTurns
<1>. HIDE DEF turns, first, c
<1>5. ASSUME NEW n \in some PROVE s + n \in DaysOf(zone, start, end) /\ one(n) = day(s + n)
  <2>1. n \in 0..turns + 1 /\ n + 1 \in 0..turns + 1 /\ n \in Nat /\ c[n] < end
    BY <1>2
  <2>2. c[n] \in Int /\ c[n + 1] \in Int
    BY <1>3, <2>1
  <2>3. s + n <= e /\ s + n \in s..e
    <3>. HIDE DEF s, e
    <3>. QED BY <1>1, <1>3, <2>1, <2>2
  <2>4. c[n] = Days!ToUtc(zone, s + n)
    BY <1>3, <2>1, <2>3
  <2>5. Days!DayOf(zone, c[n]) = s + n
    BY <2>3, <2>4, RangeDays
  <2>6. s + n \in DaysOf(zone, start, end)
    BY <2>1, <2>3, <2>4 DEF DaysOf
  <2>7. Days!Least({c[n + 1], end}) = EndOf(zone, end, s + n)
    <3>1. Days!Least({c[n + 1], end}) = IF c[n + 1] <= end THEN c[n + 1] ELSE end
      BY <1>1, <2>2, LeastOfTwo
    <3>2. CASE s + n < e
      <4>1. s + n + 1 = s + (n + 1) /\ s + (n + 1) <= e /\ s + (n + 1) \in s..e
        BY <1>1, <2>1, <3>2
      <4>2. c[n + 1] = Days!ToUtc(zone, s + (n + 1))
        BY <1>3, <2>1, <4>1
      <4>3. c[n + 1] <= end
        BY <4>1, <4>2, RangeDays
      <4>. QED BY <3>1, <3>2, <4>1, <4>2, <4>3 DEF EndOf
    <3>3. CASE ~(s + n < e)
      <4>1. s + (n + 1) > e
        BY <1>1, <2>1, <3>3
      <4>2. c[n + 1] >= end
        BY <1>3, <2>1, <4>1
      <4>3. Days!Least({c[n + 1], end}) = end
        BY <1>1, <2>2, <3>1, <4>2
      <4>. QED BY <3>3, <4>3 DEF EndOf
    <3>. QED BY <3>2, <3>3
  <2>. QED BY <2>4, <2>5, <2>6, <2>7
<1>6. ASSUME NEW d \in DaysOf(zone, start, end) PROVE d - s \in some /\ s + (d - s) = d
  <2>1. d \in s..e /\ d \in Int /\ Days!ToUtc(zone, d) < end
    BY <1>1 DEF DaysOf
  <2>2. d - s \in 0..turns /\ d - s \in 0..turns + 1 /\ s + (d - s) = d /\ s + (d - s) <= e
    BY <1>1, <1>2, <2>1
  <2>3. c[d - s] = Days!ToUtc(zone, d)
    BY <1>3, <2>2
  <2>. QED BY <2>1, <2>2, <2>3
<1>. HIDE DEF one, day, some, s
<1>7. {one(n) : n \in some} = {day(d) : d \in DaysOf(zone, start, end)}
  <2>1. \A n \in some : \E d \in DaysOf(zone, start, end) : one(n) = day(d)
    BY <1>5
  <2>2. \A d \in DaysOf(zone, start, end) : \E n \in some : one(n) = day(d)
    BY <1>5, <1>6
  <2>. QED BY <2>1, <2>2
<1>. QED BY <1>4, <1>7 DEF day

\* The buckets are the range cut at its midnights, whatever the offset does within it.
LEMMA DaysArePartitioned ==
    ASSUME NEW zone, NEW range, IsZone(zone), range.start \in Int, range.end \in Int, range.start <= range.end
    PROVE  Days!DaysPartition(zone, range)
<1>. DEFINE start == range.start
            end == range.end
            s == Days!DayOf(zone, start)
            e == Days!DayOf(zone, end)
            day(d) == [key |-> d, start |-> Days!ToUtc(zone, d), end |-> EndOf(zone, end, d)]
            buckets == Days!dayBuckets(zone, start, end)
<1>. SUFFICES ASSUME Days!HasMidnights(zone, start, end)
              PROVE  /\ \A t \in start..end - 1 :
                          \E b \in buckets : /\ b.start <= t /\ t < b.end
                                             /\ \A c \in buckets : (c.start <= t /\ t < c.end) \/ c.key = Days!DayOf(zone, t) => c = b
                                             /\ b.key = Days!DayOf(zone, t)
                     /\ \A b \in buckets : b.start < b.end
  BY DEF Days!DaysPartition
<1>1. IsRange(zone, start, end)
  BY DEF IsRange
<1>2. buckets = {day(d) : d \in DaysOf(zone, start, end)}
  BY <1>1, BucketsAreDays
<1>. HIDE DEF start, end, buckets
<1>3. s \in Int /\ e \in Int /\ s <= e /\ start \in Int /\ end \in Int
  BY <1>1, RangeDays DEF IsRange
<1>4. ASSUME NEW d \in DaysOf(zone, start, end)
      PROVE  /\ d \in s..e /\ d \in Int /\ Days!ToUtc(zone, d) \in Int /\ Days!ToUtc(zone, d) < end
             /\ \A t \in Int : t >= Days!ToUtc(zone, d) <=> Days!DayOf(zone, t) >= d
             /\ EndOf(zone, end, d) \in Int /\ Days!ToUtc(zone, d) < EndOf(zone, end, d) /\ EndOf(zone, end, d) <= end
             /\ \A t \in Int : t < end => (t < EndOf(zone, end, d) <=> Days!DayOf(zone, t) <= d)
  <2>1. d \in s..e /\ d \in Int /\ Days!ToUtc(zone, d) < end
    BY <1>3 DEF DaysOf
  <2>2. /\ Days!ToUtc(zone, d) \in Int /\ Days!DayOf(zone, Days!ToUtc(zone, d)) = d
        /\ \A t \in Int : t >= Days!ToUtc(zone, d) <=> Days!DayOf(zone, t) >= d
    BY <1>1, <2>1, RangeDays
  <2>3. CASE d < e
    <3>1. d + 1 \in s..e /\ EndOf(zone, end, d) = Days!ToUtc(zone, d + 1)
      BY <1>3, <2>1, <2>3 DEF EndOf
    <3>2. /\ Days!ToUtc(zone, d + 1) \in Int /\ Days!ToUtc(zone, d + 1) <= end
          /\ \A t \in Int : t >= Days!ToUtc(zone, d + 1) <=> Days!DayOf(zone, t) >= d + 1
      BY <1>1, <3>1, RangeDays
    <3>3. Days!ToUtc(zone, d) < Days!ToUtc(zone, d + 1)
      BY <2>1, <2>2, <3>2
    <3>4. ASSUME NEW t \in Int PROVE t < Days!ToUtc(zone, d + 1) <=> Days!DayOf(zone, t) <= d
      <4>1. Days!DayOf(zone, t) \in Int
        BY <1>1, DayIsInt DEF IsRange
      <4>. QED BY <2>1, <3>2, <4>1
    <3>. QED BY <2>1, <2>2, <3>1, <3>2, <3>3, <3>4
  <2>4. CASE ~(d < e)
    <3>1. EndOf(zone, end, d) = end /\ d = e
      BY <1>3, <2>1, <2>4 DEF EndOf
    <3>2. ASSUME NEW t \in Int, t < end PROVE Days!DayOf(zone, t) <= e
      BY <1>1, <1>3, <3>2, DaysRun DEF IsRange
    <3>. QED BY <1>3, <2>1, <2>2, <3>1, <3>2
  <2>. QED BY <2>3, <2>4
<1>5. ASSUME NEW t \in start..end - 1
      PROVE  \E b \in buckets : /\ b.start <= t /\ t < b.end
                                /\ \A c \in buckets : (c.start <= t /\ t < c.end) \/ c.key = Days!DayOf(zone, t) => c = b
                                /\ b.key = Days!DayOf(zone, t)
  <2>. DEFINE d == Days!DayOf(zone, t)
  <2>1. t \in Int /\ start <= t /\ t < end /\ t <= end
    BY <1>3
  <2>2. d \in s..e /\ d \in Int
    <3>1. d \in Int /\ s <= d /\ d <= e
      BY <1>1, <1>3, <2>1, DayIsInt, DaysRun DEF IsRange
    <3>. QED BY <3>1, <1>3
  <2>3. Days!ToUtc(zone, d) <= t /\ Days!ToUtc(zone, d) \in Int
    <3>1. /\ Days!ToUtc(zone, d) \in Int
          /\ \A u \in Int : u >= Days!ToUtc(zone, d) <=> Days!DayOf(zone, u) >= d
      BY <1>1, <2>2, RangeDays
    <3>. QED BY <2>1, <2>2, <3>1
  <2>4. d \in DaysOf(zone, start, end)
    BY <1>3, <2>1, <2>2, <2>3 DEF DaysOf
  <2>5. t < EndOf(zone, end, d)
    BY <1>4, <2>1, <2>2, <2>4
  <2>6. day(d) \in buckets /\ day(d).start <= t /\ t < day(d).end /\ day(d).key = d
    BY <1>2, <2>3, <2>4, <2>5
  <2>7. ASSUME NEW x \in DaysOf(zone, start, end), (Days!ToUtc(zone, x) <= t /\ t < EndOf(zone, end, x)) \/ x = d
        PROVE  x = d
    <3>1. x \in Int /\ (t >= Days!ToUtc(zone, x) <=> d >= x) /\ (t < EndOf(zone, end, x) <=> d <= x)
          /\ Days!ToUtc(zone, x) \in Int
      BY <1>4, <2>1
    <3>. HIDE DEF d
    <3>. QED BY <2>1, <2>2, <2>7, <3>1
  <2>8. ASSUME NEW c \in buckets, (c.start <= t /\ t < c.end) \/ c.key = d PROVE c = day(d)
    <3>1. PICK x \in DaysOf(zone, start, end) : c = day(x)
      BY <1>2
    <3>2. c.start = Days!ToUtc(zone, x) /\ c.end = EndOf(zone, end, x) /\ c.key = x
      BY <3>1
    <3>3. x = d
      BY <2>7, <2>8, <3>2
    <3>. QED BY <3>1, <3>3
  <2>. HIDE DEF day, d
  <2>. QED BY <2>6, <2>8 DEF d
<1>6. ASSUME NEW b \in buckets PROVE b.start < b.end
  BY <1>2, <1>4
<1>. QED BY <1>5, <1>6

-----------------------------------------------------------------------------
(* Ranges.                                                                 *)

\* A range starts where the code looks for the start of a day s, and the period it is
\* compared with so many days before.
Shape(zone, r, s) ==
    /\ IsZone(zone) /\ s \in Int /\ r.end \in Int /\ r.days \in Nat /\ r.days > 0
    /\ r.start = Days!ToUtc(zone, s) /\ r.start <= r.end /\ s <= Days!DayOf(zone, r.end)
    /\ r.previousStart = Days!ToUtc(zone, Days!DayOf(zone, r.start) - r.days)

\* The range of a preset, and that of two dates, have that shape; the days of the latter
\* are what is between, rounded.
LEMMA PresetShape ==
    ASSUME NEW q, IsPreset(q)
    PROVE  Shape(q.zone, RangeOf(q), Days!DayOf(q.zone, RangeOf(q).end) - q.days) /\ RangeOf(q).days = q.days
<1>. DEFINE z == q.zone
            r == RangeOf(q)
            now == Days!DayOf(z, q.at)
            today == Days!DayOf(z, Days!ToUtc(z, now))
            end == Days!ToUtc(z, today + 1)
            e == Days!DayOf(z, end)
            start == Days!ToUtc(z, e - q.days)
<1>1. r = [start |-> start, end |-> end, days |-> q.days,
           previousStart |-> Days!ToUtc(z, Days!DayOf(z, start) - q.days)]
  BY DEF IsPreset, RangeOf, Days!PresetRange, Days!shiftDaysUtc, Days!startOfDayUtc
<1>2. now \in Int
  BY DayIsInt DEF IsPreset
<1>3. today \in Int
  <2>1. Days!ToUtc(z, now) \in Int
    BY <1>2, ToUtcIsInt DEF IsPreset
  <2>. QED BY <2>1, DayIsInt DEF IsPreset
<1>4. end \in Int
  <2>1. today + 1 \in Int
    BY <1>3
  <2>. QED BY <2>1, ToUtcIsInt DEF IsPreset
<1>5. e \in Int
  BY <1>4, DayIsInt DEF IsPreset
<1>6. start \in Int /\ Days!DayOf(z, start) \in {e - q.days - 1, e - q.days}
  <2>1. e - q.days \in Int
    BY <1>5 DEF IsPreset
  <2>. QED BY <2>1, ToUtcIsInt DEF IsPreset
<1>7. start <= end
  <2>. SUFFICES ASSUME end <= start PROVE FALSE
    BY <1>4, <1>6
  <2>1. e <= Days!DayOf(z, start)
    BY <1>4, <1>6, DaysRun DEF IsPreset
  <2>. HIDE DEF start, e, end
  <2>. QED BY <1>5, <1>6, <2>1 DEF IsPreset
<1>8. e - q.days <= e /\ e - q.days \in Int
  <2>. HIDE DEF e
  <2>. QED BY <1>5 DEF IsPreset
<1>. HIDE DEF r, e, end, start
<1>9. r.start = start /\ r.end = end /\ r.days = q.days
      /\ r.previousStart = Days!ToUtc(z, Days!DayOf(z, start) - q.days)
  BY <1>1
<1>10. e = Days!DayOf(z, r.end) /\ start = Days!ToUtc(z, e - q.days)
  BY <1>9 DEF e, start
<1>11. Shape(z, r, e - q.days)
  BY <1>4, <1>7, <1>8, <1>9, <1>10 DEF Shape, IsPreset
<1>12. Shape(z, r, Days!DayOf(z, r.end) - q.days) /\ r.days = q.days
  BY <1>9, <1>10, <1>11
<1>. QED BY <1>12 DEF r

\* The range of two dates: from the first day to the day after the last, and the days between
\* rounded to at least one.
LEMMA CustomShape ==
    ASSUME NEW q, IsCustom(q)
    PROVE  LET f == Days!DayOf(q.zone, q.at)
               g == Days!DayOf(q.zone, q.to)
               r == RangeOf(q)
               rounded == (r.end - r.start + 12) \div 24
           IN /\ Shape(q.zone, r, f) /\ f <= g /\ g \in Int
              /\ r.end = Days!ToUtc(q.zone, g + 1)
              /\ r.days = IF rounded < 1 THEN 1 ELSE rounded
<1>. DEFINE z == q.zone
            r == RangeOf(q)
            f == Days!DayOf(z, q.at)
            g == Days!DayOf(z, q.to)
            start == Days!ToUtc(z, f)
            end == Days!ToUtc(z, g + 1)
            rounded == (end - start + 12) \div 24
            days == IF rounded < 1 THEN 1 ELSE rounded
<1>1. r = [start |-> start, end |-> end, days |-> days,
           previousStart |-> Days!ToUtc(z, Days!DayOf(z, start) - days)]
  <2>1. Days!Day \div 2 = 12 /\ Days!Day = 24
    BY DEF Days!Day
  <2>. QED BY <2>1 DEF IsCustom, RangeOf, Days!CustomRange, Days!shiftDaysUtc, Days!startOfDayUtc
<1>2. f \in Int /\ g \in Int /\ f <= g
  BY DayIsInt, DaysRun DEF IsCustom
<1>3. start \in Int
  BY <1>2, ToUtcIsInt DEF IsCustom
<1>4. end \in Int /\ Days!DayOf(z, end) \in {g, g + 1}
  <2>1. g + 1 \in Int /\ g + 1 - 1 = g /\ IsZone(z)
    BY <1>2 DEF IsCustom
  <2>. HIDE DEF g, z
  <2>2. end \in Int /\ Days!DayOf(z, end) \in {g, g + 1}
    BY <1>2, <2>1, ToUtcIsInt
  <2>. QED BY <2>2
<1>5. start <= end
  <2>1. f < g + 1 /\ g + 1 \in Int
    BY <1>2
  <2>. HIDE DEF f, g
  <2>. QED BY <1>2, <2>1, ToUtcRuns DEF IsCustom
<1>6. f <= Days!DayOf(z, end)
  <2>. HIDE DEF f, g, end
  <2>. QED BY <1>2, <1>4
<1>7. days \in Nat /\ days > 0
  <2>1. rounded \in Int
    <3>1. end - start + 12 \in Int
      BY <1>3, <1>4
    <3>. HIDE DEF end, start
    <3>. QED BY <3>1
  <2>. HIDE DEF rounded
  <2>. QED BY <2>1
<1>. HIDE DEF r, f, g, end, start
<1>8. r.start = start /\ r.end = end /\ r.days = days
      /\ r.previousStart = Days!ToUtc(z, Days!DayOf(z, start) - days)
  BY <1>1
<1>9. Shape(z, r, f)
  <2>. HIDE DEF days
  <2>1. start = Days!ToUtc(z, f)
    BY DEF start
  <2>. QED BY <1>2, <1>4, <1>5, <1>6, <1>7, <1>8, <2>1 DEF Shape, IsCustom
<1>10. end = Days!ToUtc(z, g + 1)
  BY DEF end
<1>. QED BY <1>2, <1>8, <1>9, <1>10 DEF r, f, g

\* If the days are known to have midnights, the range and the period before start at one.
LEMMA ShapeStarts ==
    ASSUME NEW zone, NEW r, NEW s, Shape(zone, r, s), NEW last \in Int, r.end <= last,
           Days!HasMidnights(zone, r.previousStart, last)
    PROVE  /\ r.start \in Int /\ r.previousStart \in Int
           /\ Days!DayOf(zone, r.start) = s /\ Days!DayOf(zone, r.previousStart) = s - r.days
           /\ Clock(zone, r.start) = 24 * s
           /\ s \in Days!DayOf(zone, r.previousStart)..Days!DayOf(zone, last)
<1>. DEFINE day == Days!DayOf(zone, r.start)
            p == Days!DayOf(zone, r.previousStart)
            e == Days!DayOf(zone, r.end)
            l == Days!DayOf(zone, last)
<1>1. r.start \in Int /\ day \in {s - 1, s}
  BY ToUtcIsInt DEF Shape
<1>2. s \in Int /\ r.days \in Nat /\ r.days > 0 /\ day \in Int
  <2>1. s \in Int /\ r.days \in Nat /\ r.days > 0
    BY DEF Shape
  <2>. HIDE DEF day
  <2>. QED BY <1>1, <2>1
<1>3. r.previousStart \in Int /\ p \in {day - r.days - 1, day - r.days}
  <2>1. day - r.days \in Int
    <3>. HIDE DEF day
    <3>. QED BY <1>2
  <2>2. Days!ToUtc(zone, day - r.days) \in Int
        /\ Days!DayOf(zone, Days!ToUtc(zone, day - r.days)) \in {day - r.days - 1, day - r.days}
    <3>. HIDE DEF day
    <3>. QED BY <2>1, ToUtcIsInt DEF Shape
  <2>. QED BY <2>2 DEF Shape
<1>4. e \in Int /\ l \in Int /\ e <= l /\ s <= e
  BY DayIsInt, DaysRun DEF Shape
<1>. HIDE DEF day, p, e, l
<1>5. s \in p..l /\ p \in Int
  BY <1>1, <1>2, <1>3, <1>4
<1>6. HasMidnight(zone, s)
  BY <1>5, MidnightsBetween DEF p, l
<1>7. day = s /\ Clock(zone, r.start) = 24 * s
  BY <1>2, <1>6, MidnightFound DEF Shape, day
<1>8. s - r.days \in p..l /\ s - r.days \in Int
  BY <1>1, <1>2, <1>3, <1>4, <1>5, <1>7
<1>9. HasMidnight(zone, s - r.days)
  BY <1>8, MidnightsBetween DEF p, l
<1>10. p = s - r.days
  BY <1>7, <1>8, <1>9, MidnightFound DEF Shape, day, p
<1>. QED BY <1>1, <1>3, <1>5, <1>7, <1>10 DEF day, p, l

\* The period before has as many days, for presets ...
LEMMA PresetPeriods ==
    ASSUME NEW q, IsPreset(q)
    PROVE  Days!PeriodsAreEqual(q.zone, RangeOf(q))
<1>. DEFINE z == q.zone
            r == RangeOf(q)
            e == Days!DayOf(z, r.end)
<1>1. Shape(z, r, e - q.days) /\ r.days = q.days
  BY PresetShape
<1>. HIDE DEF r
<1>2. SUFFICES ASSUME Days!HasMidnights(z, r.previousStart, r.end + 1)
               PROVE  /\ Days!DayOf(z, r.end) - Days!DayOf(z, r.start) = r.days
                      /\ Days!DayOf(z, r.start) - Days!DayOf(z, r.previousStart) = r.days
  BY DEF Days!PeriodsAreEqual, r
<1>3. r.end \in Int /\ r.end + 1 \in Int /\ r.end <= r.end + 1 /\ IsZone(z)
  BY <1>1 DEF Shape
<1>4. e \in Int /\ q.days \in Nat
  BY <1>3, DayIsInt DEF IsPreset
<1>. HIDE DEF e
<1>5. Days!DayOf(z, r.start) = e - q.days /\ Days!DayOf(z, r.previousStart) = e - q.days - r.days
  BY <1>1, <1>2, <1>3, ShapeStarts
<1>. QED BY <1>1, <1>4, <1>5 DEF e

\* ... and for two dates, as what is rounded is off by an hour at most.
LEMMA CustomPeriods ==
    ASSUME NEW q, IsCustom(q)
    PROVE  Days!PeriodsAreEqual(q.zone, RangeOf(q))
<1>. DEFINE z == q.zone
            r == RangeOf(q)
            f == Days!DayOf(z, q.at)
            g == Days!DayOf(z, q.to)
            rounded == (r.end - r.start + 12) \div 24
<1>1. /\ Shape(z, r, f) /\ f <= g /\ g \in Int /\ r.end = Days!ToUtc(z, g + 1)
      /\ r.days = IF rounded < 1 THEN 1 ELSE rounded
  BY CustomShape
<1>. HIDE DEF r, f, g
<1>2. SUFFICES ASSUME Days!HasMidnights(z, r.previousStart, r.end + 1)
               PROVE  /\ Days!DayOf(z, r.end) - Days!DayOf(z, r.start) = r.days
                      /\ Days!DayOf(z, r.start) - Days!DayOf(z, r.previousStart) = r.days
  BY DEF Days!PeriodsAreEqual, r
<1>3. r.end \in Int /\ r.end + 1 \in Int /\ r.end <= r.end + 1 /\ IsZone(z) /\ f \in Int
  BY <1>1 DEF Shape
<1>4. /\ r.start \in Int /\ r.previousStart \in Int
      /\ Days!DayOf(z, r.start) = f /\ Days!DayOf(z, r.previousStart) = f - r.days
      /\ Clock(z, r.start) = 24 * f /\ f \in Days!DayOf(z, r.previousStart)..Days!DayOf(z, r.end + 1)
  BY <1>1, <1>2, <1>3, ShapeStarts
<1>5. HasMidnight(z, g + 1)
  <2>1. Days!DayOf(z, r.end + 1) >= g + 1
    <3>1. /\ Days!DayOf(z, r.end) \in {g, g + 1}
          /\ Days!DayOf(z, r.end) <= Days!DayOf(z, r.end + 1) /\ Days!DayOf(z, r.end + 1) \in Int
      <4>1. g + 1 \in Int /\ g + 1 - 1 = g
        BY <1>1
      <4>2. Days!DayOf(z, r.end) \in {g, g + 1}
        BY <1>1, <1>3, <4>1, ToUtcIsInt
      <4>. QED BY <1>3, <4>2, DayIsInt, DaysRun
    <3>2. CASE Days!DayOf(z, r.end) = g
      <4>1. Clock(z, r.end + 1) >= 24 * (g + 1)
        <5>1. Clock(z, r.end) < 24 * (g + 1)
          BY <1>1, <1>3, <3>2, DayIsInt
        <5>2. Clock(z, Days!ToUtc(z, g + 1)) < 24 * (g + 1)
          BY <1>1, <5>1
        <5>3. Clock(z, Days!ToUtc(z, g + 1) + 1) >= 24 * (g + 1)
          BY <1>1, <1>3, <5>2 DEF IsZone, Clock, Days!Offset, Days!ToUtc, Days!Day
        <5>. QED BY <1>1, <5>3
      <4>. QED BY <1>1, <1>3, <4>1, DayIsInt
    <3>3. CASE Days!DayOf(z, r.end) = g + 1
      BY <1>1, <3>1, <3>3
    <3>. QED BY <3>1, <3>2, <3>3
  <2>2. Days!DayOf(z, r.previousStart) <= f /\ Days!DayOf(z, r.previousStart) \in Int /\ Days!DayOf(z, r.end + 1) \in Int
    BY <1>3, <1>4, DayIsInt
  <2>3. g + 1 \in Days!DayOf(z, r.previousStart)..Days!DayOf(z, r.end + 1)
    BY <1>1, <1>3, <2>1, <2>2
  <2>. QED BY <1>2, <2>3, MidnightsBetween
<1>6. Days!DayOf(z, r.end) = g + 1 /\ Clock(z, r.end) = 24 * (g + 1)
  <2>1. g + 1 \in Int
    BY <1>1
  <2>. QED BY <1>1, <1>3, <1>5, <2>1, MidnightFound
<1>7. rounded = g + 1 - f
  <2>1. r.start <= r.end
    BY <1>1 DEF Shape
  <2>2. /\ 24 * (g + 1) - 24 * f - 1 <= r.end - r.start
        /\ r.end - r.start <= 24 * (g + 1) - 24 * f + 1
    BY <1>3, <1>4, <1>6, <2>1, ClockRuns
  <2>3. PICK n \in Int : n = r.end - r.start
    BY <1>3, <1>4
  <2>4. PICK k \in Int : k = g + 1 - f
    BY <1>1, <1>3
  <2>5. 24 * k - 1 <= n /\ n <= 24 * k + 1
    BY <1>1, <1>3, <2>2, <2>3, <2>4
  <2>6. (n + 12) \div 24 = k
    BY <2>5
  <2>. QED BY <2>3, <2>4, <2>6
<1>8. r.days = g + 1 - f
  BY <1>1, <1>3, <1>7
<1>. QED BY <1>1, <1>3, <1>4, <1>6, <1>8

-----------------------------------------------------------------------------
(* Months.                                                                 *)

\* The month of a day is the last that has begun.
IsMonthOf(m, d) == m \in DOMAIN FirstDay /\ FirstDay[m] <= d /\ (m + 1 \in DOMAIN FirstDay => d < FirstDay[m + 1])

\* There is one.
LEMMA MonthIs ==
    ASSUME IsCalendar, NEW d \in Int, NEW m, IsMonthOf(m, d)
    PROVE  Days!MonthOf(d) = m
<1>1. ASSUME NEW n, IsMonthOf(n, d) PROVE n = m
  <2>1. PICK lo \in Int, hi \in Int : DOMAIN FirstDay = lo..hi
    BY DEF IsCalendar
  <2>2. n \in lo..hi /\ m \in lo..hi /\ n \in Int /\ m \in Int
    BY <1>1, <2>1 DEF IsMonthOf
  <2>3. CASE n < m
    <3>1. n + 1 \in DOMAIN FirstDay /\ (n + 1 = m \/ n + 1 < m)
      BY <2>1, <2>2, <2>3
    <3>2. FirstDay[n + 1] <= FirstDay[m] /\ FirstDay[n + 1] \in Int /\ FirstDay[m] \in Int
      BY <2>1, <2>2, <3>1 DEF IsCalendar
    <3>. QED BY <1>1, <3>1, <3>2 DEF IsMonthOf
  <2>4. CASE m < n
    <3>1. m + 1 \in DOMAIN FirstDay /\ (m + 1 = n \/ m + 1 < n)
      BY <2>1, <2>2, <2>4
    <3>2. FirstDay[m + 1] <= FirstDay[n] /\ FirstDay[m + 1] \in Int /\ FirstDay[n] \in Int
      BY <2>1, <2>2, <3>1 DEF IsCalendar
    <3>. QED BY <1>1, <3>1, <3>2 DEF IsMonthOf
  <2>. QED BY <2>2, <2>3, <2>4
<1>2. Days!MonthOf(d) = CHOOSE n \in DOMAIN FirstDay : IsMonthOf(n, d)
  BY DEF Days!MonthOf, IsMonthOf
<1>3. m \in DOMAIN FirstDay
  BY DEF IsMonthOf
<1>. QED BY <1>1, <1>2, <1>3

\* A day has a month unless it is before them all: the last that has begun.
LEMMA MonthExists ==
    ASSUME IsCalendar, NEW d \in Int, \E m \in DOMAIN FirstDay : FirstDay[m] <= d
    PROVE  IsMonthOf(Days!MonthOf(d), d)
<1>1. PICK lo \in Int, hi \in Int : DOMAIN FirstDay = lo..hi
  BY DEF IsCalendar
<1>. DEFINE back == {hi - m : m \in {m \in lo..hi : FirstDay[m] <= d}}
<1>2. back \subseteq Nat /\ back # {}
  BY <1>1
<1>3. PICK k \in back : \A t \in back : k <= t
  <2>. HIDE DEF back
  <2>. QED BY <1>2, LeastExists
<1>4. PICK m \in lo..hi : FirstDay[m] <= d /\ k = hi - m
  OBVIOUS
<1>5. ASSUME m + 1 \in lo..hi PROVE d < FirstDay[m + 1]
  <2>. SUFFICES ASSUME FirstDay[m + 1] <= d PROVE FALSE
    BY <1>1, <1>5 DEF IsCalendar
  <2>1. hi - (m + 1) \in back
    BY <1>5
  <2>2. k <= hi - (m + 1)
    BY <1>3, <2>1
  <2>. QED BY <1>4, <2>2
<1>6. IsMonthOf(m, d)
  BY <1>1, <1>4, <1>5 DEF IsMonthOf
<1>. QED BY <1>6, MonthIs

\* The month to date and what it is compared with lie each in its month.
LEMMA MonthsApart ==
    ASSUME IsCalendar, NEW zone, IsZone(zone), NEW now \in Int,
           \E m \in DOMAIN FirstDay : FirstDay[m] <= Days!DayOf(zone, now)
    PROVE  Days!MonthsAreApart(zone, now)
<1>. DEFINE c == Days!DayOf(zone, now)
            month == Days!MonthOf(c)
            start == Days!ToUtc(zone, FirstDay[month])
            before == Days!DayOf(zone, start - 1)
            pm == Days!MonthOf(before)
            prev == Days!ToUtc(zone, FirstDay[pm])
            prevEnd == Days!Least({prev + (now - start), start})
            win == Days!getMonthWindows(zone, now)
<1>1. win = [monthStart |-> start, previousMonthStart |-> prev, previousMonthSamePeriodEnd |-> prevEnd]
  BY DEF Days!getMonthWindows, Days!startOfMonthUtc
<1>. HIDE DEF win
<1>2. win.monthStart = start /\ win.previousMonthStart = prev /\ win.previousMonthSamePeriodEnd = prevEnd
  BY <1>1
<1>3. SUFFICES ASSUME Days!HasMidnights(zone, prev, now), month - 1 \in DOMAIN FirstDay
               PROVE  /\ \A t \in start..now : Days!MonthOf(Days!DayOf(zone, t)) = month
                      /\ \A t \in prev..prevEnd - 1 : Days!MonthOf(Days!DayOf(zone, t)) = month - 1
                      /\ prevEnd <= start
  BY <1>2 DEF Days!MonthsAreApart, win
<1>. HIDE DEF win, prevEnd
<1>4. c \in Int
  BY DayIsInt
<1>5. IsMonthOf(month, c)
  BY <1>4, MonthExists
<1>6. PICK lo \in Int, hi \in Int : DOMAIN FirstDay = lo..hi
  BY DEF IsCalendar
<1>. HIDE DEF month
<1>7. month \in Int /\ month \in DOMAIN FirstDay /\ FirstDay[month] \in Int /\ FirstDay[month] <= c
      /\ FirstDay[month - 1] \in Int /\ FirstDay[month - 1] < FirstDay[month]
  <2>1. month \in lo..hi /\ month - 1 \in lo..hi /\ FirstDay[month] <= c
    BY <1>3, <1>5, <1>6 DEF IsMonthOf
  <2>2. month \in Int /\ month - 1 < month
    BY <2>1
  <2>. QED BY <1>6, <2>1, <2>2 DEF IsCalendar
<1>8. start \in Int /\ Days!DayOf(zone, start) <= FirstDay[month] /\ Days!DayOf(zone, start) >= FirstDay[month] - 1
  BY <1>7, ToUtcIsInt
<1>. HIDE DEF start
<1>9. before \in Int /\ start - 1 \in Int /\ before <= FirstDay[month]
  <2>1. start - 1 \in Int /\ start - 1 <= start
    BY <1>8
  <2>2. before \in Int /\ before <= Days!DayOf(zone, start) /\ Days!DayOf(zone, start) \in Int
    BY <1>8, <2>1, DayIsInt, DaysRun
  <2>. HIDE DEF before
  <2>. QED BY <1>7, <1>8, <2>1, <2>2
\* The instant before the month's start is in a day before, or in the month's first.
<1>10. FirstDay[month] - 1 <= before
  <2>1. Clock(zone, start) >= 24 * FirstDay[month] - 1
    BY <1>7, ToUtcIsInt DEF start
  <2>2. Clock(zone, start) - Clock(zone, start - 1) - 1 <= start - (start - 1)
        /\ Clock(zone, start) \in Int /\ Clock(zone, start - 1) \in Int
    BY <1>8, <1>9, ClockRuns
  <2>3. Clock(zone, start - 1) < 24 * before + 24 /\ before \in Int
    BY <1>9, DayIsInt
  <2>4. Clock(zone, start - 1) >= 24 * FirstDay[month] - 3
    BY <1>7, <1>8, <2>1, <2>2
  <2>. HIDE DEF before
  <2>. QED BY <1>7, <2>2, <2>3, <2>4
<1>11. IsMonthOf(pm, before)
  <2>1. FirstDay[month - 1] <= before
    <3>. HIDE DEF before
    <3>. QED BY <1>7, <1>9, <1>10
  <2>. HIDE DEF before
  <2>2. \E m \in DOMAIN FirstDay : FirstDay[m] <= before
    BY <1>3, <2>1
  <2>. QED BY <1>9, <2>2, MonthExists
<1>. HIDE DEF pm
<1>12. FirstDay[pm] \in Int /\ FirstDay[pm] <= before
  BY <1>11 DEF IsMonthOf, IsCalendar
<1>13. prev \in Int /\ Days!DayOf(zone, prev) <= FirstDay[pm] /\ Days!DayOf(zone, prev) \in Int
  BY <1>12, ToUtcIsInt
<1>. HIDE DEF prev, before, c
<1>14. FirstDay[month] \in Days!DayOf(zone, prev)..c
  BY <1>4, <1>7, <1>9, <1>12, <1>13
<1>15. /\ Days!DayOf(zone, start) = FirstDay[month]
       /\ \A t \in Int : t >= start <=> Days!DayOf(zone, t) >= FirstDay[month]
  <2>1. HasMidnight(zone, FirstDay[month])
    BY <1>3, <1>14, MidnightsBetween DEF c
  <2>. QED BY <1>7, <2>1, MidnightFound DEF start
<1>16. before < FirstDay[month]
  <2>1. ~(start - 1 >= start)
    BY <1>8
  <2>. QED BY <1>7, <1>9, <1>15, <2>1 DEF before
<1>17. pm = month - 1
  <2>1. IsMonthOf(month - 1, before)
    BY <1>3, <1>7, <1>9, <1>10, <1>16 DEF IsMonthOf
  <2>. QED BY <1>9, <2>1, MonthIs DEF pm
<1>18. \A t \in Int : t >= prev <=> Days!DayOf(zone, t) >= FirstDay[month - 1]
  <2>1. FirstDay[month - 1] \in Days!DayOf(zone, prev)..c
    BY <1>4, <1>7, <1>13, <1>17
  <2>2. HasMidnight(zone, FirstDay[month - 1])
    BY <1>3, <2>1, MidnightsBetween DEF c
  <2>. QED BY <1>7, <1>17, <2>2, MidnightFound DEF prev
<1>19. prevEnd <= start /\ prevEnd \in Int
  <2>1. prev + (now - start) \in Int
    BY <1>8, <1>13
  <2>. QED BY <1>8, <2>1, LeastOfTwo DEF prevEnd
<1>20. ASSUME NEW t \in start..now PROVE Days!MonthOf(Days!DayOf(zone, t)) = month
  <2>1. t \in Int /\ t >= start /\ t <= now
    BY <1>8
  <2>2. /\ Days!DayOf(zone, t) \in Int /\ Days!DayOf(zone, t) <= c
        /\ Days!DayOf(zone, t) >= FirstDay[month]
    BY <1>15, <2>1, DayIsInt, DaysRun DEF c
  <2>3. ASSUME month + 1 \in DOMAIN FirstDay PROVE Days!DayOf(zone, t) < FirstDay[month + 1]
    <3>1. c < FirstDay[month + 1] /\ FirstDay[month + 1] \in Int
      BY <1>5, <2>3 DEF IsMonthOf, IsCalendar
    <3>. QED BY <1>4, <2>2, <3>1
  <2>4. IsMonthOf(month, Days!DayOf(zone, t))
    BY <1>7, <2>2, <2>3 DEF IsMonthOf
  <2>. QED BY <2>2, <2>4, MonthIs
<1>21. ASSUME NEW t \in prev..prevEnd - 1 PROVE Days!MonthOf(Days!DayOf(zone, t)) = month - 1
  <2>1. t \in Int /\ t >= prev /\ ~(t >= start)
    BY <1>8, <1>13, <1>19
  <2>2. /\ Days!DayOf(zone, t) \in Int /\ Days!DayOf(zone, t) < FirstDay[month]
        /\ Days!DayOf(zone, t) >= FirstDay[month - 1]
    <3>1. Days!DayOf(zone, t) \in Int
      BY <2>1, DayIsInt
    <3>. QED BY <1>7, <1>15, <1>18, <2>1, <3>1
  <2>3. month - 1 + 1 = month
    BY <1>7
  <2>4. IsMonthOf(month - 1, Days!DayOf(zone, t))
    BY <1>3, <1>7, <2>2, <2>3 DEF IsMonthOf
  <2>. QED BY <2>2, <2>4, MonthIs
<1>. QED BY <1>19, <1>20, <1>21

-----------------------------------------------------------------------------
(* Charts.                                                                 *)

\* The charts count as FiniteSets does, and add up Amounts.
LEMMA DaysCount == ASSUME NEW S PROVE Days!Cardinality(S) = Cardinality(S)
BY DEF Days!Cardinality, Cardinality

\* A total in a chart is the amount of what it is of.
LEMMA DaysTotal == ASSUME NEW f PROVE Days!Total(f) = Amount(f, DOMAIN f)
<1>1. Days!Items(f, DOMAIN f) = Items(f, DOMAIN f)
  BY DEF Days!Items, Items
<1>. QED BY <1>1, DaysCount DEF Days!Total, Amount

\* The items of a window, and the day of each.
FoundIn(start, end, times) == {i \in DOMAIN times : start <= times[i] /\ times[i] < end}
DayBy(zone, times) == [i \in DOMAIN times |-> Days!DayOf(zone, times[i])]

\* A series counts the items of its range by day.
LEMMA SeriesIsFibers ==
    ASSUME NEW zone, NEW start, NEW end, IsRange(zone, start, end), NEW times
    PROVE  Days!Series(zone, start, end, times)
             = Fibers(FoundIn(start, end, times), DayBy(zone, times), DaysOf(zone, start, end))
<1>. DEFINE found == FoundIn(start, end, times)
            K == DaysOf(zone, start, end)
            day == DayBy(zone, times)
            keys == {bucket.key : bucket \in Days!dayBuckets(zone, start, end)}
            counts == Days!DailyCounts(zone, start, end, times)
            some == {Days!DayOf(zone, times[i]) : i \in found}
<1>1. keys = K
  <2>1. Days!dayBuckets(zone, start, end)
          = {[key |-> d, start |-> Days!ToUtc(zone, d), end |-> EndOf(zone, end, d)] : d \in K}
    BY BucketsAreDays
  <2>. DEFINE buckets == Days!dayBuckets(zone, start, end)
              one(d) == [key |-> d, start |-> Days!ToUtc(zone, d), end |-> EndOf(zone, end, d)]
  <2>2. \A d : one(d).key = d
    OBVIOUS
  <2>3. buckets = {one(d) : d \in K}
    BY <2>1
  <2>. HIDE DEF buckets, one, K
  <2>4. \A b \in buckets : b.key \in K
    BY <2>2, <2>3
  <2>5. \A d \in K : \E b \in buckets : b.key = d
    BY <2>2, <2>3
  <2>6. {b.key : b \in buckets} = K
    BY <2>4, <2>5
  <2>. QED BY <2>6 DEF buckets
<1>2. counts = [d \in some |-> Cardinality({i \in found : Days!DayOf(zone, times[i]) = d})]
  BY DaysCount DEF Days!DailyCounts, FoundIn
<1>3. \A d : {i \in found : Days!DayOf(zone, times[i]) = d} = {i \in found : day[i] = d}
  BY DEF FoundIn, DayBy
<1>4. Days!Series(zone, start, end, times) = [d \in keys |-> IF d \in DOMAIN counts THEN counts[d] ELSE 0]
  BY DEF Days!Series, Days!Points
<1>5. ASSUME NEW d \in K
      PROVE  (IF d \in DOMAIN counts THEN counts[d] ELSE 0) = Cardinality({i \in found : day[i] = d})
  <2>1. CASE d \in some
    <3>. HIDE DEF counts, some, found, day
    <3>1. counts[d] = Cardinality({i \in found : Days!DayOf(zone, times[i]) = d}) /\ d \in DOMAIN counts
      BY <1>2, <2>1
    <3>2. {i \in found : Days!DayOf(zone, times[i]) = d} = {i \in found : day[i] = d}
      BY <1>3
    <3>. QED BY <3>1, <3>2
  <2>2. CASE d \notin some
    <3>1. {i \in found : day[i] = d} = {}
      BY <1>3, <2>2
    <3>2. d \notin DOMAIN counts
      <4>. HIDE DEF counts, some
      <4>. QED BY <1>2, <2>2
    <3>. HIDE DEF counts, some, found, day
    <3>. QED BY <3>1, <3>2, FS_EmptySet
  <2>. QED BY <2>1, <2>2
<1>. HIDE DEF keys, counts, found, day, K
<1>6. [d \in keys |-> IF d \in DOMAIN counts THEN counts[d] ELSE 0]
        = [d \in K |-> Cardinality({i \in found : day[i] = d})]
  BY <1>1, <1>5
<1>. QED BY <1>4, <1>6 DEF Fibers, found, day, K

\* So it adds up to them.
LEMMA SeriesTotal ==
    ASSUME NEW zone, NEW start, NEW end, IsRange(zone, start, end), NEW times, IsFiniteSet(DOMAIN times),
           \A i \in DOMAIN times : times[i] \in Int
    PROVE  /\ DOMAIN Days!Series(zone, start, end, times) = DaysOf(zone, start, end)
           /\ Days!Total(Days!Series(zone, start, end, times)) = Cardinality(FoundIn(start, end, times))
<1>. DEFINE found == FoundIn(start, end, times)
            K == DaysOf(zone, start, end)
            day == DayBy(zone, times)
            f == Fibers(found, day, K)
            s == Days!DayOf(zone, start)
            e == Days!DayOf(zone, end)
<1>1. Days!Series(zone, start, end, times) = f
  BY SeriesIsFibers
<1>2. DOMAIN f = K
  BY DEF Fibers
<1>3. IsFiniteSet(found)
  <2>1. found \in SUBSET DOMAIN times
    BY DEF FoundIn
  <2>. HIDE DEF found
  <2>. QED BY <2>1, FS_Subset
<1>4. IsFiniteSet(K)
  <2>1. K \in SUBSET (s..e) /\ s \in Int /\ e \in Int
    BY RangeDays DEF DaysOf
  <2>. HIDE DEF K, s, e
  <2>2. IsFiniteSet(s..e)
    BY <2>1, FS_Interval
  <2>. QED BY <2>1, <2>2, FS_Subset
<1>5. ASSUME NEW i \in found PROVE day[i] \in K
  <2>1. i \in DOMAIN times /\ start <= times[i] /\ times[i] < end /\ times[i] \in Int /\ times[i] <= end
    BY DEF FoundIn, IsRange
  <2>2. PICK t \in Int : t = times[i]
    BY <2>1
  <2>3. day[i] = Days!DayOf(zone, t)
    BY <2>1, <2>2 DEF DayBy
  <2>. DEFINE d == Days!DayOf(zone, t)
  <2>4. d \in s..e /\ d \in Int
    <3>1. d \in Int /\ s <= d /\ d <= e /\ s \in Int /\ e \in Int
      BY <2>1, <2>2, DayIsInt, DaysRun DEF IsRange
    <3>. HIDE DEF d, s, e
    <3>. QED BY <3>1
  <2>5. /\ Days!ToUtc(zone, d) \in Int
        /\ \A u \in Int : u >= Days!ToUtc(zone, d) <=> Days!DayOf(zone, u) >= d
    BY <2>4, RangeDays
  <2>6. Days!ToUtc(zone, d) < end
    BY <2>1, <2>2, <2>4, <2>5 DEF IsRange
  <2>. QED BY <2>3, <2>4, <2>6 DEF DaysOf
<1>. HIDE DEF found, K, day
<1>6. {i \in found : day[i] \in K} = found
  BY <1>5
<1>7. Amount(f, K) = Cardinality({i \in found : day[i] \in K})
  BY <1>3, <1>4, CountFibers
<1>. HIDE DEF f
<1>8. Days!Total(f) = Amount(f, K)
  BY <1>2, DaysTotal
<1>. QED BY <1>1, <1>2, <1>6, <1>7, <1>8 DEF K, found

\* The chart of days with scans only adds up to the scans of its time, whatever the zone.
LEMMA FibersOfAll ==
    ASSUME NEW S, IsFiniteSet(S), NEW key
    PROVE  LET K == {key[x] : x \in S}
           IN IsFiniteSet(K) /\ Amount(Fibers(S, key, K), K) = Cardinality(S)
<1>. DEFINE K == {key[x] : x \in S}
            g == [x \in S |-> key[x]]
<1>1. g \in Surjection(S, K)
  BY DEF Surjection
<1>2. IsFiniteSet(K)
  <2>. HIDE DEF g, K
  <2>. QED BY <1>1, FS_Surjection
<1>3. {x \in S : key[x] \in K} = S
  OBVIOUS
<1>. HIDE DEF K
<1>4. Amount(Fibers(S, key, K), K) = Cardinality({x \in S : key[x] \in K})
  BY <1>2, CountFibers
<1>5. Amount(Fibers(S, key, K), K) = Cardinality(S)
  BY <1>3, <1>4
<1>. QED BY <1>2, <1>5 DEF K

\* A finite set of whole numbers that is not empty has a largest.
LEMMA LargestInt ==
    ASSUME NEW S, S \subseteq Int, IsFiniteSet(S), S # {}
    PROVE  \E m \in S : \A t \in S : t <= m
<1>. DEFINE Bad == {T \in SUBSET S : T # {} /\ ~ \E m \in T : \A t \in T : t <= m}
            Fin == FiniteSubsetsOf(S)
            R == StrictSubsetOrdering(S)
<1>. SUFFICES ASSUME S \in Bad PROVE FALSE
  OBVIOUS
<1>1. IsWellFoundedOn(R, Fin)
  BY FS_StrictSubsetOrderingWellFounded
<1>2. Bad \subseteq Fin
  BY FS_Subset DEF FiniteSubsetsOf
<1>3. PICK T \in Bad : \A U \in Bad : ~ (<<U, T>> \in R)
  <2>. HIDE DEF Bad
  <2>. QED BY <1>1, <1>2, WFMin
<1>4. PICK x \in T : TRUE
  OBVIOUS
<1>5. T \ {x} # {}
  BY <1>4
<1>6. T \ {x} \notin Bad
  <2>. SUFFICES ASSUME T \ {x} \in Bad PROVE FALSE
    OBVIOUS
  <2>1. T \ {x} \subseteq T /\ T \ {x} # T /\ T \in SUBSET S
    BY <1>4
  <2>2. <<T \ {x}, T>> \in R
    BY <2>1 DEF StrictSubsetOrdering
  <2>. QED BY <1>3, <2>2
<1>7. PICK m \in T \ {x} : \A t \in T \ {x} : t <= m
  BY <1>5, <1>6
<1>8. x \in Int /\ m \in Int /\ T \subseteq Int
  BY <1>4
<1>9. CASE x >= m
  <2>1. \A t \in T : t <= x
    BY <1>7, <1>8, <1>9
  <2>. QED BY <2>1, <1>4
<1>10. CASE m >= x
  <2>1. \A t \in T : t <= m
    BY <1>7, <1>8, <1>10
  <2>. QED BY <2>1
<1>. QED BY <1>8, <1>9, <1>10

\* The last point of the chart by days of UTC is the number of scans.
LEMMA TrendTotal ==
    ASSUME NEW start \in Int, NEW end \in Int, NEW batch, IsFiniteSet(DOMAIN batch),
           \A i \in DOMAIN batch : batch[i].scanned \in Int
    PROVE  LET trend == Days!getUsageTrend(start, end, batch)
               found == FoundIn(start, end, Days!Scanned(batch))
           IN /\ DOMAIN trend = {} <=> found = {}
              /\ found # {} =>
                   trend[CHOOSE d \in DOMAIN trend : \A e \in DOMAIN trend : e <= d].cumulative = Cardinality(found)
<1>. DEFINE times == Days!Scanned(batch)
            found == FoundIn(start, end, times)
            key == DayBy(Days!Utc, times)
            K == {key[i] : i \in found}
            f == Fibers(found, key, K)
            trend == Days!getUsageTrend(start, end, batch)
            counts == Days!DailyCounts(Days!Utc, start, end, times)
            some == {Days!DayOf(Days!Utc, times[i]) : i \in found}
            last == CHOOSE d \in DOMAIN trend : \A e \in DOMAIN trend : e <= d
<1>1. DOMAIN times = DOMAIN batch /\ \A i \in DOMAIN times : times[i] \in Int
  BY DEF Days!Scanned
<1>. HIDE DEF times
<1>2. IsFiniteSet(found)
  <2>1. found \in SUBSET DOMAIN batch
    BY <1>1 DEF FoundIn
  <2>. HIDE DEF found
  <2>. QED BY <2>1, FS_Subset
<1>3. some = K /\ \A d : {i \in found : Days!DayOf(Days!Utc, times[i]) = d} = {i \in found : key[i] = d}
  BY DEF FoundIn, DayBy
<1>4. counts = [d \in some |-> Cardinality({i \in found : Days!DayOf(Days!Utc, times[i]) = d})]
  BY DaysCount DEF Days!DailyCounts, FoundIn
<1>5. counts = f
  <2>. HIDE DEF counts, found, key, K, some
  <2>. QED BY <1>3, <1>4 DEF Fibers
<1>6. trend = [d \in DOMAIN counts |-> [count |-> counts[d],
                 cumulative |-> Days!Total([g \in {e \in DOMAIN counts : e <= d} |-> counts[g]])]]
  BY DEF Days!getUsageTrend, times
<1>7. IsFiniteSet(K) /\ Amount(f, K) = Cardinality(found)
  <2>. HIDE DEF found, key
  <2>. QED BY <1>2, FibersOfAll
<1>8. K \subseteq Int
  <2>1. IsZone(Days!Utc)
    BY DEF IsZone, Days!Utc
  <2>2. \A i \in found : key[i] = Days!DayOf(Days!Utc, times[i]) /\ times[i] \in Int
    BY <1>1 DEF FoundIn, DayBy
  <2>3. \A i \in found : key[i] \in Int
    BY <2>1, <2>2, DayIsInt
  <2>. QED BY <2>3
<1>9. DOMAIN counts = K
  BY <1>5 DEF Fibers
<1>. HIDE DEF counts, some, f, trend
<1>10. DOMAIN trend = K
  BY <1>6, <1>9
<1>11. K = {} <=> found = {}
  OBVIOUS
<1>12. ASSUME found # {} PROVE trend[last].cumulative = Cardinality(found)
  <2>1. last \in K /\ \A e \in K : e <= last
    <3>1. K # {}
      BY <1>11, <1>12
    <3>. HIDE DEF K
    <3>2. \E m \in K : \A t \in K : t <= m
      BY <1>7, <1>8, <3>1, LargestInt
    <3>. QED BY <1>10, <3>2
  <2>. HIDE DEF last, found, K, key
  <2>. DEFINE all == [g \in {e \in DOMAIN counts : e <= last} |-> counts[g]]
  <2>2. {e \in DOMAIN counts : e <= last} = K
    BY <1>9, <2>1
  <2>3. all = counts
    <3>1. all = [g \in K |-> counts[g]]
      BY <2>2
    <3>2. counts = [g \in K |-> counts[g]]
      BY <1>5, <1>9 DEF Fibers, f
    <3>. QED BY <3>1, <3>2
  <2>4. trend[last].cumulative = Days!Total(all)
    BY <1>6, <1>9, <2>1
  <2>5. Days!Total(counts) = Amount(f, K)
    BY <1>5, <1>9, DaysTotal
  <2>. QED BY <1>7, <2>3, <2>4, <2>5
<1>. QED BY <1>10, <1>11, <1>12 DEF trend, found, times

\* Days within a range that have midnights have them.
LEMMA MidnightsWithin ==
    ASSUME NEW zone, IsZone(zone), NEW a \in Int, NEW b \in Int, NEW c \in Int, NEW d \in Int,
           a <= b, c <= d, Days!HasMidnights(zone, a, d)
    PROVE  Days!HasMidnights(zone, b, c)
<1>1. /\ Days!DayOf(zone, a) \in Int /\ Days!DayOf(zone, b) \in Int
      /\ Days!DayOf(zone, c) \in Int /\ Days!DayOf(zone, d) \in Int
      /\ Days!DayOf(zone, a) <= Days!DayOf(zone, b) /\ Days!DayOf(zone, c) <= Days!DayOf(zone, d)
  BY DayIsInt, DaysRun
<1>2. Days!DayOf(zone, b)..Days!DayOf(zone, c) \subseteq Days!DayOf(zone, a)..Days!DayOf(zone, d)
  BY <1>1
<1>. QED BY <1>2 DEF Days!HasMidnights

\* The charts of a range tell of the same scans.
LEMMA ChartsTell ==
    ASSUME NEW zone, NEW r, NEW s, Shape(zone, r, s), NEW batch, IsFiniteSet(DOMAIN batch),
           \A i \in DOMAIN batch : batch[i].scanned \in Int
    PROVE  Days!ChartsAgree(zone, r, batch)
<1>. DEFINE prompt == [i \in {i \in DOMAIN batch : batch[i].stored = batch[i].scanned} |-> batch[i]]
            own == Days!getOrgScanTrend(zone, r, batch)
            trend == Days!getUsageTrend(r.start, r.end, batch)
            times == Days!Scanned(batch)
            within(start, end) == {i \in DOMAIN batch : start <= batch[i].scanned /\ batch[i].scanned < end}
            orgs == [i \in DOMAIN batch |-> [created |-> batch[i].scanned, status |-> 1]]
            points == Days!Series(zone, r.start, r.end, times)
            comparison == Days!Series(zone, r.previousStart, r.start, times)
            last == CHOOSE d \in DOMAIN trend : \A e \in DOMAIN trend : e <= d
<1>1. SUFFICES ASSUME Days!HasMidnights(zone, r.previousStart, r.end)
               PROVE  /\ Days!getScanTrend(zone, r, prompt).points = Days!getOrgScanTrend(zone, r, prompt).points
                      /\ Days!Total(own.points) = Cardinality(within(r.start, r.end))
                      /\ Days!Total(own.comparison) = Cardinality(within(r.previousStart, r.start))
                      /\ DOMAIN own.points \intersect DOMAIN own.comparison = {}
                      /\ IF DOMAIN trend = {} THEN Days!Total(own.points) = 0 /\ own.peak_hour = {}
                         ELSE trend[last].cumulative = Days!Total(own.points)
                      /\ Days!getGrowth(zone, r, orgs, [i \in {} |-> 0]).organizations = own.points
  BY DaysCount DEF Days!ChartsAgree
<1>2. own.points = points /\ own.comparison = comparison
  BY DEF Days!getOrgScanTrend
<1>3. Days!getScanTrend(zone, r, prompt).points = Days!getOrgScanTrend(zone, r, prompt).points
  <2>1. Days!Stored(prompt) = Days!Scanned(prompt)
    BY DEF Days!Stored, Days!Scanned
  <2>. HIDE DEF prompt
  <2>. QED BY <2>1 DEF Days!getScanTrend, Days!getOrgScanTrend
<1>4. Days!getGrowth(zone, r, orgs, [i \in {} |-> 0]).organizations = points
  <2>. DEFINE held == {o \in DOMAIN orgs : orgs[o].status # 2}
  <2>0. times = [i \in DOMAIN batch |-> batch[i].scanned]
    BY DEF Days!Scanned
  <2>2. DOMAIN orgs = DOMAIN batch /\ \A o \in DOMAIN batch : orgs[o].status = 1 /\ orgs[o].created = batch[o].scanned
    OBVIOUS
  <2>3. held = DOMAIN batch
    <3>. HIDE DEF orgs
    <3>1. \A o \in DOMAIN orgs : orgs[o].status # 2
      BY <2>2
    <3>2. held = DOMAIN orgs
      BY <3>1
    <3>. QED BY <2>2, <3>2
  <2>1. [o \in {o \in DOMAIN orgs : orgs[o].status # 2} |-> orgs[o].created] = times
    <3>. HIDE DEF orgs, held, times
    <3>1. [o \in held |-> orgs[o].created] = times
      BY <2>0, <2>2, <2>3
    <3>. QED BY <3>1 DEF held
  <2>. HIDE DEF orgs, times
  <2>. QED BY <2>1 DEF Days!getGrowth
<1>5. IsZone(zone) /\ r.end \in Int /\ r.end <= r.end /\ r.start <= r.end /\ s \in Int /\ r.days \in Nat /\ r.days > 0
  BY DEF Shape
<1>6. /\ r.start \in Int /\ r.previousStart \in Int
      /\ Days!DayOf(zone, r.start) = s /\ Days!DayOf(zone, r.previousStart) = s - r.days
  BY <1>1, <1>5, ShapeStarts
<1>7. r.previousStart <= r.start
  <2>. SUFFICES ASSUME r.start <= r.previousStart PROVE FALSE
    BY <1>6
  <2>1. Days!DayOf(zone, r.start) <= Days!DayOf(zone, r.previousStart)
    BY <1>5, <1>6, DaysRun
  <2>. QED BY <1>5, <1>6, <2>1
<1>8. IsRange(zone, r.start, r.end) /\ IsRange(zone, r.previousStart, r.start)
  <2>1. r.start <= r.start /\ r.previousStart <= r.previousStart
    BY <1>6
  <2>2. Days!HasMidnights(zone, r.start, r.end) /\ Days!HasMidnights(zone, r.previousStart, r.start)
    BY <1>1, <1>5, <1>6, <1>7, <2>1, MidnightsWithin
  <2>. QED BY <1>5, <1>6, <1>7, <2>2 DEF IsRange
<1>9. /\ DOMAIN times = DOMAIN batch /\ \A i \in DOMAIN times : times[i] \in Int /\ times[i] = batch[i].scanned
  BY DEF Days!Scanned
<1>. HIDE DEF times
<1>10. /\ DOMAIN points = DaysOf(zone, r.start, r.end)
       /\ Days!Total(points) = Cardinality(FoundIn(r.start, r.end, times))
       /\ DOMAIN comparison = DaysOf(zone, r.previousStart, r.start)
       /\ Days!Total(comparison) = Cardinality(FoundIn(r.previousStart, r.start, times))
  BY <1>8, <1>9, SeriesTotal
<1>11. /\ FoundIn(r.start, r.end, times) = within(r.start, r.end)
       /\ FoundIn(r.previousStart, r.start, times) = within(r.previousStart, r.start)
  BY <1>9 DEF FoundIn
<1>12. DOMAIN points \intersect DOMAIN comparison = {}
  <2>. SUFFICES ASSUME NEW d, d \in DOMAIN points, d \in DOMAIN comparison PROVE FALSE
    OBVIOUS
  <2>. HIDE DEF points, comparison
  <2>1. Days!DayOf(zone, r.end) \in Int
    BY <1>5, DayIsInt
  <2>2. d \in Int /\ d >= s
    BY <1>5, <1>6, <1>10, <2>1 DEF DaysOf
  <2>3. d <= s /\ Days!ToUtc(zone, d) < r.start
    BY <1>5, <1>6, <1>10, <2>2 DEF DaysOf
  <2>4. d = s /\ r.start = Days!ToUtc(zone, s)
    BY <1>5, <2>2, <2>3 DEF Shape
  <2>. QED BY <1>6, <2>3, <2>4
<1>13. IF DOMAIN trend = {} THEN Days!Total(points) = 0 /\ own.peak_hour = {}
       ELSE trend[last].cumulative = Days!Total(points)
  <2>. DEFINE found == FoundIn(r.start, r.end, times)
  <2>1. /\ DOMAIN trend = {} <=> found = {}
        /\ found # {} => trend[last].cumulative = Cardinality(found)
    <3>. HIDE DEF found
    <3>. QED BY <1>5, <1>6, TrendTotal DEF times, found
  <2>2. CASE found = {}
    <3>1. within(r.start, r.end) = {}
      BY <1>11, <2>2
    <3>2. own.peak_hour = {}
      <4>1. {i \in DOMAIN batch : r.start <= batch[i].scanned /\ batch[i].scanned < r.end} = {}
        BY <3>1
      <4>. QED BY <4>1 DEF Days!getOrgScanTrend
    <3>3. Days!Total(points) = 0
      BY <1>10, <2>2, FS_EmptySet
    <3>. HIDE DEF own, trend, found, points
    <3>. QED BY <2>1, <2>2, <3>2, <3>3
  <2>3. CASE found # {}
    <3>. HIDE DEF own, trend, found, points, last
    <3>. QED BY <1>10, <2>1, <2>3 DEF found
  <2>. QED BY <2>2, <2>3
<1>. HIDE DEF own, points, comparison, trend, within, last, prompt, orgs
<1>. QED BY <1>2, <1>3, <1>4, <1>10, <1>11, <1>12, <1>13

\* Whatever the question: the zone changes by at most an hour, and the instant has a month.
LEMMA DaysMatch ==
    ASSUME IsCalendar, NEW q, IsPreset(q) \/ IsCustom(q),
           \E m \in DOMAIN FirstDay : FirstDay[m] <= Days!DayOf(q.zone, q.at)
    PROVE  DaysAgree(q)
<1>. DEFINE r == RangeOf(q)
<1>1. IsZone(q.zone) /\ q.at \in Int
  BY DEF IsPreset, IsCustom
<1>2. PICK s : Shape(q.zone, r, s)
  BY PresetShape, CustomShape
<1>3. r.start \in Int /\ r.end \in Int /\ r.start <= r.end
  <2>1. r.start = Days!ToUtc(q.zone, s) /\ s \in Int /\ r.end \in Int /\ r.start <= r.end
    BY <1>2 DEF Shape
  <2>. HIDE DEF r
  <2>. QED BY <1>1, <2>1, ToUtcIsInt
<1>4. Days!DaysPartition(q.zone, r)
  <2>. HIDE DEF r
  <2>. QED BY <1>1, <1>3, DaysArePartitioned
<1>5. Days!PeriodsAreEqual(q.zone, r)
  BY PresetPeriods, CustomPeriods
<1>6. Days!MonthsAreApart(q.zone, q.at)
  BY <1>1, MonthsApart
<1>7. ASSUME NEW delay \in Delays PROVE Days!ChartsAgree(q.zone, r, ScansOf(r, delay))
  <2>. DEFINE batch == ScansOf(r, delay)
  <2>1. DOMAIN batch = 1..4
    BY DEF ScansOf
  <2>2. IsFiniteSet(DOMAIN batch)
    <3>1. 1 \in Int /\ 4 \in Int
      OBVIOUS
    <3>2. IsFiniteSet(1..4)
      BY <3>1, FS_Interval
    <3>. QED BY <2>1, <3>2
  <2>3. \A i \in DOMAIN batch : batch[i].scanned \in Int
    <3>. HIDE DEF r
    <3>. QED BY <1>3, <2>1 DEF ScansOf
  <2>. HIDE DEF batch, r
  <2>4. Days!ChartsAgree(q.zone, r, batch)
    BY <1>2, <2>2, <2>3, ChartsTell
  <2>. QED BY <2>4 DEF batch
<1>8. Days!ShiftsReachDays(q.zone, q.at)
  BY <1>1, ShiftsReach
<1>. QED BY <1>4, <1>5, <1>6, <1>7, <1>8 DEF DaysAgree

-----------------------------------------------------------------------------
(* The back office: one component runs, in its scene, and keeps its        *)
(* invariant; the others rest.                                             *)

\* A step belongs to the component of the scene, and the scene stays.  Reminders,
\* accounts, organizations and plans rest in the scenes of others, a step of theirs too.
LEMMA SceneSteps ==
    ASSUME [Next]_vars
    PROVE  /\ UNCHANGED scene
           /\ [ByMail!Next]_(ByMail!vars) /\ [InApp!Next]_(InApp!vars)
           /\ [Accts!Next]_(Accts!vars) /\ [Companies!Next]_(Companies!vars)
           /\ [Catalog!Next]_(Catalog!vars)
           /\ scene = "periods" => [Periods!Next]_(Periods!vars)
           /\ scene = "alerts" => [Alerts!Next]_(Alerts!vars)
           /\ scene = "threads" => [Threads!Next]_(Threads!vars)
           /\ scene = "uploads" => [Uploads!Next]_(Uploads!vars)
           /\ scene = "panel" => [Panel!Next]_(Panel!vars)
<1>. USE DEF Next, Resting, In, vars
<1>1. UNCHANGED scene
  OBVIOUS
<1>2. [ByMail!Next]_(ByMail!vars)
  BY DEF ByMail!vars, ByMail!history, mailVars
<1>3. [InApp!Next]_(InApp!vars)
  BY DEF InApp!vars, InApp!history, noticeVars
<1>4. scene = "periods" => [Periods!Next]_(Periods!vars)
  BY DEF Periods!vars, Periods!catalog, periodVars
<1>5. scene = "alerts" => [Alerts!Next]_(Alerts!vars)
  BY DEF Alerts!vars, alertVars
<1>6. scene = "threads" => [Threads!Next]_(Threads!vars)
  BY DEF Threads!vars, threadVars
<1>7. scene = "uploads" => [Uploads!Next]_(Uploads!vars)
  BY DEF Uploads!vars, uploadVars
<1>8. scene = "panel" => [Panel!Next]_(Panel!vars)
  BY DEF Panel!vars, panelVars
<1>9. [Accts!Next]_(Accts!vars)
  BY DEF Accts!vars, accountVars
<1>10. [Companies!Next]_(Companies!vars)
  BY DEF Companies!vars, companyVars
<1>11. [Catalog!Next]_(Catalog!vars)
  BY DEF Catalog!vars, planVars
<1>. QED BY <1>1, <1>2, <1>3, <1>4, <1>5, <1>6, <1>7, <1>8, <1>9, <1>10, <1>11

\* The invariant of quotas, by scene.
QuotaInv == /\ scene = "periods" => PeriodInv
            /\ scene = "alerts" => AlertInv

\* A subscription that has expired or was cancelled or recreated has its row, with every scan
\* it was charged, unless a race named at PeriodsAddUp blurred the count; one that was
\* replaced by force has none, and what it used is lost; and the count of a row is within a
\* limit it was granted.  A level on record was told, and the notification stands at it or
\* higher, unless runs overlapped and one told a lower level after a higher.  So it is
\* whatever checks, endings, adjustments and passes interleave.
THEOREM QuotaCorrect == Spec => []QuotaSurvives
<1>1. Init => QuotaInv
  BY PeriodStart, AlertStart DEF Init, QuotaInv
<1>2. QuotaInv /\ [Next]_vars => QuotaInv'
  <2>. SUFFICES ASSUME QuotaInv, [Next]_vars PROVE QuotaInv'
    OBVIOUS
  <2>. QED BY SceneSteps, PeriodStep, AlertStep DEF QuotaInv
<1>3. QuotaInv => QuotaSurvives
  BY PeriodEnds, AlertEnds DEF QuotaInv, QuotaSurvives, In
<1>. QED BY <1>1, <1>2, <1>3, PTL DEF Spec

\* The invariant of threads, by scene.
SupportInv == /\ scene = "threads" => ThreadInv
              /\ scene = "uploads" => UploadInv
              /\ scene = "panel" => PanelInv

\* A reader who polls a thread misses nothing, what was not shown is unread, a newcomer is
\* told, a receipt is true, no upload is lost, and no file moves between pages of the panel.
THEOREM ThreadsCorrect == Spec => []ThreadIsComplete
<1>1. Init => SupportInv
  BY ThreadStart, UploadStart, PanelStart DEF Init, SupportInv
<1>2. SupportInv /\ [Next]_vars => SupportInv'
  <2>. SUFFICES ASSUME SupportInv, [Next]_vars PROVE SupportInv'
    OBVIOUS
  <2>. QED BY SceneSteps, ThreadStep, UploadStep, PanelStep DEF SupportInv
<1>3. SupportInv => ThreadIsComplete
  BY ThreadUnseen, ThreadNewcomer, ThreadReceipts, PanelEnds
     DEF SupportInv, ThreadIsComplete, In, ThreadInv, UploadInv
<1>. QED BY <1>1, <1>2, <1>3, PTL DEF Spec

\* A window is mailed once, and again only for a mail whose record was lost; it is shown in
\* the app once; and a run of the mail job that meets no fault and ends on the day it
\* began leaves out nobody it was for.
THEOREM RemindersCorrect == Spec => Reminders
<1>. DEFINE Told == ByMail!MailedOnce /\ InApp!ShownOnce
            Ended == /\ sweep.pc # "idle" /\ sweep'.pc = "idle"
                     /\ mailFaults' = begun.faults /\ ByMail!UtcDay(mailNow) = begun.day
            Done == \A d \in ByMail!Windows : \A s \in ByMail!Due(begun.day, d) :
                       <<s, d>> \in begun.due /\ contact[s] =>
                          \/ <<s, d, mailSub[s].expires>> \in told
                          \/ mailSub[s].extended /\ mails[s][d] > 0
<1>1. Init => MailInv /\ NoticeInv
  BY MailStart, NoticeStart DEF Init
<1>2. MailInv /\ NoticeInv /\ [Next]_vars => (MailInv /\ NoticeInv)'
  <2>. SUFFICES ASSUME MailInv, NoticeInv, [Next]_vars PROVE MailInv' /\ NoticeInv'
    OBVIOUS
  <2>. QED BY SceneSteps, MailStep, NoticeStep
<1>3. MailInv /\ NoticeInv => Told
  BY MailOnce DEF NoticeInv
<1>4. MailInv /\ [Next]_vars => [Ended => Done]_(ByMail!vars)
  <2>. SUFFICES ASSUME MailInv, [Next]_vars, Ended PROVE Done
    OBVIOUS
  <2>1. [ByMail!Next]_(ByMail!vars)
    BY SceneSteps
  <2>. SUFFICES ASSUME NEW d \in ByMail!Windows, NEW s \in ByMail!Due(begun.day, d),
                       <<s, d>> \in begun.due, contact[s]
                PROVE  Reminded(s, d)
    BY DEF Reminded
  <2>. QED BY <2>1, MailEnds
<1>. QED BY <1>1, <1>2, <1>3, <1>4, PTL DEF Spec, Reminders, ByMail!SweepRemindsAll
=============================================================================
