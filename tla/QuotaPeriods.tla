---------------------------- MODULE QuotaPeriods ----------------------------
(***************************************************************************)
(* The scan counter of one organization from one subscription to the next. *)
(* The hash org:<id>:activeSub belongs to the organization, tbl_usage has  *)
(* a row for each subscription: whoever ends a subscription copies the     *)
(* counter into its row (flushActiveSubUsage), whoever begins one resets   *)
(* it, while scans charge it (services/quota.service.ts), the reconcile    *)
(* pass copies it every 30 seconds, and an administrator raises the limit  *)
(* (adjustScanLimits of services/subscription.service.ts).                 *)
(*                                                                         *)
(* One await is one step, but for a charge and a refill, whose steps are   *)
(* those of ScanQuota.  Operations that end a subscription do not overlap  *)
(* here: what comes of that is SubscriptionLifecycle's.                    *)
(*                                                                         *)
(* Left out: failed Redis calls, prices, e-mails, and the row that a       *)
(* recreated subscription adds to the end of a queue.                      *)
(***************************************************************************)
EXTENDS Naturals, FiniteSets, FiniteSetsExt

CONSTANTS Subs,        \* subscriptions, numbered in the order they are due
          PlanLimit,   \* scan_limit of the plan
          Delta,       \* what one adjustment adds
          MaxScans,    \* bound on the charges
          MaxExtras    \* bound on adjustments and evictions of the hash

VARIABLES
    state,    \* of each subscription: "none", "queued", "active", "expired" or "cancelled",
              \* "forced" if its cancellation_reason is 'Force activated'
    limit,    \* the scan_limit in its features
    over,     \* subscriptions whose expires_at has passed
    early,    \* subscriptions promoted before their started_at
    row,      \* tbl_usage: there, used, limit
    hash,     \* live, limit, used, and of, the subscription whose expiresAt it has
    ending,   \* the operation that ends a subscription: kind, pc, sub, used, limit
    adjust,   \* adjustScanLimits: pc, sub, was (the status read), used, limit
    pass,     \* the reconcile pass: pc, sub, used
    extras,   \* adjustments and evictions so far
    charged,  \* history: scans charged to each subscription
    scans,    \* history: scans charged so far
    blurred   \* history: subscriptions whose count may be off

catalog == <<state, limit, over, early>>
vars == <<catalog, row, hash, ending, adjust, pass, extras, charged, scans, blurred>>

NoRow == [there |-> FALSE, used |-> 0, limit |-> 0]
NoHash == [live |-> FALSE, limit |-> 0, used |-> 0, of |-> 0]
NoEnding == [kind |-> "none", pc |-> "idle", sub |-> 0, used |-> 0, limit |-> 0]
NoAdjust == [pc |-> "idle", sub |-> 0, was |-> "none", used |-> 0, limit |-> 0]
NoPass == [pc |-> "idle", sub |-> 0, used |-> 0]

Active == {s \in Subs : state[s] = "active"}
Ended == {"expired", "cancelled", "forced"}
Queue == {s \in Subs : state[s] = "queued"}

Init ==
    /\ \E queue \in SUBSET (Subs \ {1}) :
          state = [s \in Subs |-> IF s = 1 THEN "active" ELSE IF s \in queue THEN "queued" ELSE "none"]
    /\ limit = [s \in Subs |-> PlanLimit]
    /\ over = {} /\ early = {}
    /\ row = [s \in Subs |-> IF s = 1 THEN [NoRow EXCEPT !.there = TRUE, !.limit = PlanLimit] ELSE NoRow]
    /\ hash = [live |-> TRUE, limit |-> PlanLimit, used |-> 0, of |-> 1]
    /\ ending = NoEnding /\ adjust = NoAdjust /\ pass = NoPass
    /\ extras = 0
    /\ charged = [s \in Subs |-> 0] /\ scans = 0 /\ blurred = {}

\* Someone has read the counter and is still to act on it.
HeldByEnding(s) == ending.sub = s /\ ending.pc \in {"write", "retire", "drop", "purge"}
HeldByAdjust(s) == adjust.sub = s /\ adjust.pc \in {"row", "hash"}

Extra == extras < MaxExtras /\ extras' = extras + 1

-----------------------------------------------------------------------------
(* Scans.                                                                  *)

\* A reserved unit and the scan it pays for.  The count is off if somebody is about to
\* write or drop the counter as it was.
Charge ==
    LET s == hash.of IN
    /\ scans < MaxScans /\ scans' = scans + 1
    /\ hash.live /\ s \notin over /\ hash.used < hash.limit
    /\ hash' = [hash EXCEPT !.used = @ + 1]
    /\ charged' = [charged EXCEPT ![s] = @ + 1]
    /\ blurred' = IF HeldByEnding(s) \/ HeldByAdjust(s) \/ state[s] # "active"
                  THEN blurred \union {s} ELSE blurred
    /\ UNCHANGED <<catalog, row, ending, adjust, pass, extras>>

\* populateActiveSubCache after a miss.  What was scanned before started_at does not
\* count.
Refill(s) ==
    LET counted == IF s \in early THEN 0 ELSE charged[s]
        seed == Max({row[s].used, counted})
    IN /\ ~hash.live /\ state[s] = "active"
       /\ hash' = [live |-> TRUE, limit |-> limit[s], used |-> seed, of |-> s]
       /\ blurred' = IF seed # charged[s] THEN blurred \union {s} ELSE blurred
       /\ UNCHANGED <<catalog, row, ending, adjust, pass, charged, scans, extras>>

Evict ==
    /\ hash.live /\ Extra
    /\ hash' = NoHash
    /\ UNCHANGED <<catalog, row, ending, adjust, pass, charged, scans, blurred>>

Lapse ==
    /\ \E s \in Active : s \notin over /\ over' = over \union {s}
    /\ UNCHANGED <<state, limit, early, row, hash, ending, adjust, pass, charged, scans, blurred, extras>>

-----------------------------------------------------------------------------
(* reconcileScanUsage.                                                     *)

PassFind ==
    /\ pass.pc = "idle"
    /\ \E s \in Active :
         /\ pass' = [pc |-> "read", sub |-> s, used |-> 0]
         /\ blurred' = IF ending.sub = s /\ ending.pc \in {"retire", "drop", "purge"}
                       THEN blurred \union {s} ELSE blurred
    /\ UNCHANGED <<catalog, row, hash, ending, adjust, charged, scans, extras>>

\* No hash is 0.
PassRead ==
    /\ pass.pc = "read"
    /\ pass' = [pass EXCEPT !.pc = "write", !.used = IF hash.live THEN hash.used ELSE 0]
    /\ UNCHANGED <<catalog, row, hash, ending, adjust, charged, scans, blurred, extras>>

PassWrite ==
    /\ pass.pc = "write"
    /\ row' = [row EXCEPT ![pass.sub].used = IF row[pass.sub].there THEN pass.used ELSE @]
    /\ pass' = NoPass
    /\ UNCHANGED <<catalog, hash, ending, adjust, charged, scans, blurred, extras>>

-----------------------------------------------------------------------------
(* The end of a subscription.                                              *)

\* The first step after getActiveSubscription, and what follows it.
First == [cancel |-> "read", expire |-> "read", force |-> "read", recreate |-> "retire"]
After(kind, pc) ==
    CASE kind = "recreate" -> (CASE pc = "retire" -> "drop" [] pc = "drop" -> "grant")
      [] kind = "cancel" -> (CASE pc = "write" -> "retire" [] pc = "retire" -> "drop" [] pc = "drop" -> "promote")
      [] kind = "expire" -> (CASE pc = "write" -> "drop" [] pc = "drop" -> "retire" [] pc = "retire" -> "promote")
      [] kind = "force" -> (CASE pc = "write" -> "purge" [] pc = "purge" -> "retire"
                              [] pc = "retire" -> "drop" [] pc = "drop" -> "grant")

Retired == [cancel |-> "cancelled", expire |-> "expired", force |-> "forced", recreate |-> "cancelled"]

(* Mutant: a cancelled subscription is retired before the counter is copied. *)
RetireFirst(kind, s) ==
    /\ ending.pc = "idle" /\ state[s] = "active" /\ s # Max(Subs)
    /\ kind = "expire" => s \in over
    /\ ending' = [NoEnding EXCEPT !.kind = kind, !.sub = s,
                  !.pc = IF kind = "cancel" THEN "retire" ELSE First[kind]]
    /\ blurred' = IF kind = "recreate" THEN blurred \union {s} ELSE blurred
    /\ UNCHANGED <<catalog, row, hash, adjust, pass, charged, scans, extras>>

\* The every-minute job ends what is over.  A recreated subscription is retired first,
\* so that the flush finds none.  The last subscription is not ended here.
End(kind, s) ==
    /\ ending.pc = "idle" /\ state[s] = "active" /\ s # Max(Subs)
    /\ kind = "expire" => s \in over
    /\ ending' = [NoEnding EXCEPT !.kind = kind, !.pc = First[kind], !.sub = s]
    /\ blurred' = IF kind = "recreate" THEN blurred \union {s} ELSE blurred
    /\ UNCHANGED <<catalog, row, hash, adjust, pass, charged, scans, extras>>

Step(pc) == ending' = [ending EXCEPT !.pc = pc]

\* flushActiveSubUsage: without a hash nothing is written.
FlushRead ==
    /\ ending.pc = "read"
    /\ ending' = [ending EXCEPT !.used = hash.used,
                                !.pc = IF hash.live THEN "write" ELSE After(ending.kind, "write")]
    /\ blurred' = IF hash.live THEN blurred ELSE blurred \union {ending.sub}
    /\ UNCHANGED <<catalog, row, hash, adjust, pass, charged, scans, extras>>

FlushWrite ==
    /\ ending.pc = "write"
    /\ row' = [row EXCEPT ![ending.sub].used = ending.used]
    /\ Step(After(ending.kind, "write"))
    /\ blurred' = IF pass.sub = ending.sub THEN blurred \union {ending.sub} ELSE blurred
    /\ UNCHANGED <<catalog, hash, adjust, pass, charged, scans, extras>>

Purge ==
    /\ ending.pc = "purge"
    /\ row' = [row EXCEPT ![ending.sub] = NoRow]
    /\ Step(After(ending.kind, "purge"))
    /\ UNCHANGED <<catalog, hash, adjust, pass, charged, scans, blurred, extras>>

Retire ==
    /\ ending.pc = "retire"
    /\ state' = [state EXCEPT ![ending.sub] = Retired[ending.kind]]
    /\ Step(After(ending.kind, "retire"))
    /\ UNCHANGED <<limit, over, early, row, hash, adjust, pass, charged, scans, blurred, extras>>

Drop ==
    /\ ending.pc = "drop"
    /\ hash' = NoHash
    /\ Step(After(ending.kind, "drop"))
    /\ UNCHANGED <<catalog, row, adjust, pass, charged, scans, blurred, extras>>

\* The head of the queue becomes active, if there is one, with the limit it had when it
\* was read; before its started_at unless the subscription before it has run its term.
Promote ==
    /\ ending.pc = "promote"
    /\ IF Queue = {} THEN ending' = NoEnding /\ UNCHANGED <<state, early>>
       ELSE LET s == Min(Queue) IN
            /\ state' = [state EXCEPT ![s] = "active"]
            /\ early' = IF ending.sub \in over THEN early ELSE early \union {s}
            /\ ending' = [ending EXCEPT !.pc = "usage", !.sub = s, !.limit = limit[s]]
    /\ UNCHANGED <<limit, over, row, hash, adjust, pass, charged, scans, blurred, extras>>

\* grantSubscription.  A recreated subscription joins the queue, if there is one, as its
\* last, and none is active until the head is due; the newcomer is beyond the bound.
Grant ==
    LET new == Min({s \in Subs : state[s] = "none"})
        queued == ending.kind = "recreate" /\ Queue # {}
    IN /\ ending.pc = "grant"
       /\ queued \/ \E s \in Subs : state[s] = "none"
       /\ state' = IF queued THEN state ELSE [state EXCEPT ![new] = "active"]
       /\ ending' = IF queued THEN NoEnding ELSE [ending EXCEPT !.pc = "usage", !.sub = new, !.limit = PlanLimit]
       /\ UNCHANGED <<limit, over, early, row, hash, adjust, pass, charged, scans, blurred, extras>>

\* createUsageForSubscription.
MakeUsage ==
    /\ ending.pc = "usage"
    /\ row' = [row EXCEPT ![ending.sub] = [NoRow EXCEPT !.there = TRUE, !.limit = ending.limit]]
    /\ Step("reset")
    /\ UNCHANGED <<catalog, hash, adjust, pass, charged, scans, blurred, extras>>

\* writeActiveSubscriptionCache with the counter at 0, whatever has been charged since
\* the subscription became active.
ResetHash ==
    LET s == ending.sub IN
    /\ ending.pc = "reset"
    /\ hash' = [live |-> TRUE, limit |-> ending.limit, used |-> 0, of |-> s]
    /\ ending' = NoEnding
    /\ blurred' = IF charged[s] > 0 THEN blurred \union {s} ELSE blurred
    /\ UNCHANGED <<catalog, row, adjust, pass, charged, scans, extras>>

\* The every-minute job also promotes when there is nothing active and the head is due:
\* at the time the subscription before it would have ended.
PromoteDue ==
    /\ ending.pc = "idle" /\ Active = {} /\ Queue # {}
    /\ ending' = [NoEnding EXCEPT !.kind = "expire", !.pc = "promote", !.sub = Min(Queue) - 1]
    /\ over' = over \union {Min(Queue) - 1}
    /\ UNCHANGED <<state, limit, early, row, hash, adjust, pass, charged, scans, blurred, extras>>

-----------------------------------------------------------------------------
(* adjustScanLimits.                                                       *)

\* The subscription, which may have expired but not been cancelled.
AdjustFind(s) ==
    /\ adjust.pc = "idle" /\ state[s] \in {"queued", "active", "expired"} /\ Extra
    /\ adjust' = [NoAdjust EXCEPT !.pc = IF state[s] = "queued" THEN "features" ELSE "usage",
                                  !.sub = s, !.was = state[s], !.limit = limit[s] + Delta]
    /\ UNCHANGED <<catalog, row, hash, ending, pass, charged, scans, blurred>>

AdjustFeatures ==
    /\ adjust.pc = "features"
    /\ limit' = [limit EXCEPT ![adjust.sub] = adjust.limit]
    /\ adjust' = NoAdjust
    /\ UNCHANGED <<state, over, early, row, hash, ending, pass, charged, scans, blurred, extras>>

AdjustUsage ==
    LET r == row[adjust.sub] IN
    /\ adjust.pc = "usage"
    /\ adjust' = IF r.there THEN [adjust EXCEPT !.pc = "live", !.used = r.used, !.limit = r.limit + Delta]
                 ELSE NoAdjust
    /\ UNCHANGED <<catalog, row, hash, ending, pass, charged, scans, blurred, extras>>

\* The counter, of whichever subscription it is.
AdjustLive ==
    LET used == IF hash.live THEN hash.used ELSE adjust.used IN
    /\ adjust.pc = "live"
    /\ adjust' = IF adjust.limit < used THEN NoAdjust ELSE [adjust EXCEPT !.pc = "row", !.used = used]
    /\ UNCHANGED <<catalog, row, hash, ending, pass, charged, scans, blurred, extras>>

AdjustRow ==
    /\ adjust.pc = "row"
    /\ row' = [row EXCEPT ![adjust.sub].limit = IF row[adjust.sub].there THEN adjust.limit ELSE @]
    /\ adjust' = IF adjust.was = "active" THEN [adjust EXCEPT !.pc = "hash"] ELSE NoAdjust
    /\ UNCHANGED <<catalog, hash, ending, pass, charged, scans, blurred, extras>>

\* The hash with the counter as it was read, whatever has happened to the subscription.
AdjustHash ==
    LET s == adjust.sub IN
    /\ adjust.pc = "hash"
    /\ hash' = [live |-> TRUE, limit |-> adjust.limit, used |-> adjust.used, of |-> s]
    /\ adjust' = NoAdjust
    /\ blurred' = IF adjust.used = charged[s] /\ hash.of \in {0, s} /\ ~HeldByEnding(s) /\ state[s] = "active"
                  THEN blurred ELSE blurred \union ({s, hash.of} \ {0}) \union Active
    /\ UNCHANGED <<catalog, row, ending, pass, charged, scans, extras>>

Next ==
    \/ Charge \/ Evict \/ Lapse \/ PassFind \/ PassRead \/ PassWrite
    \/ FlushRead \/ FlushWrite \/ Purge \/ Retire \/ Drop
    \/ Promote \/ Grant \/ MakeUsage \/ ResetHash \/ PromoteDue
    \/ AdjustFeatures \/ AdjustUsage \/ AdjustLive \/ AdjustRow \/ AdjustHash
    \/ \E s \in Subs : \/ Refill(s) \/ AdjustFind(s)
                       \/ \E kind \in DOMAIN First : End(kind, s)

Spec == Init /\ [][Next]_vars

-----------------------------------------------------------------------------
(* Properties.                                                             *)

\* Type invariant: a counter is within its limit or was when it was read.
TypeOK ==
    /\ state \in [Subs -> {"none", "queued", "active"} \union Ended]
    /\ \A s \in Subs : row[s].used \in 0..MaxScans
    /\ hash.of \in Subs \union {0}

\* What a subscription used is on record when it has expired or was cancelled or
\* recreated, scan by scan ('so the durable counter is never lost'), and was no more than
\* its row or its features grant while the row is there.  The comment quoted, quota.
\* service.ts:251, says so of force too: but forceActivateSubscription deletes the row
\* it has just copied the counter to, and what a subscription used that was replaced by
\* force is on record no more.  Only these can blur the other counts: a scan that is
\* charged between the copy of the counter and the removal of the hash, or while the limit
\* is adjusted; a reconcile pass or an adjustment that is under way while the subscription
\* ends; a hash that is missing then, or that was lost in a subscription that began before
\* its time; a scan charged before a new subscription's counter was reset; and recreation,
\* which retires before it copies.
PeriodsAddUp ==
    \A s \in Subs :
        /\ state[s] \in Ended \ {"forced"} => row[s].there /\ (s \notin blurred => row[s].used = charged[s])
        /\ state[s] = "forced" => ~row[s].there
        /\ row[s].there /\ s \notin blurred => charged[s] <= Max({row[s].limit, limit[s]})
=============================================================================
