----------------------------- MODULE QuotaAlerts -----------------------------
(***************************************************************************)
(* The notification that a subscription's quota runs out: checkQuotaAlerts *)
(* of services/quota.service.ts, over the usage row of one subscription,   *)
(* which the reconcile pass and adjustScanLimits keep changing.  Several   *)
(* runs may be under way, and one await is one step.                       *)
(*                                                                         *)
(* Left out: texts, organizations without an administrator, and more than  *)
(* one subscription: rows and notifications are never shared.  Nothing in  *)
(* src/ calls this function; Look is its caller.                           *)
(***************************************************************************)
EXTENDS Naturals, FiniteSets, FiniteSetsExt

CONSTANTS Checkers,       \* processes that run checkQuotaAlerts
          Thresholds,     \* quotaThresholds, per cent
          RowLimit,       \* the row's scan_limit at the start
          MaxUsed,        \* bound on the counter
          MaxRaises,      \* bound on the adjustments
          MaxAlertFaults  \* bound on errors

VARIABLES
    row,       \* tbl_usage: there, used, limit, level (quota_alert_level)
    current,   \* the subscription is active and not over
    check,     \* the runs: pc, level
    note,      \* the notification: the level it tells (0 for none), and read
    extras,    \* adjustments and errors so far
    crowded,   \* history: two runs were under way at once
    lowered,   \* history: a notification was set back to a lower level
    told       \* history: the levels the administrator was told

vars == <<row, current, check, note, extras, crowded, lowered, told>>

Resting == [pc |-> "idle", level |-> 0]

Init ==
    /\ row = [there |-> TRUE, used |-> 0, limit |-> RowLimit, level |-> 0]
    /\ current = TRUE
    /\ check = [w \in Checkers |-> Resting]
    /\ note = [level |-> 0, read |-> FALSE]
    /\ extras = [raises |-> 0, faults |-> 0]
    /\ crowded = FALSE /\ lowered = FALSE /\ told = {}

\* The active subscriptions.
Look(w) ==
    /\ check[w].pc = "idle" /\ current
    /\ check' = [check EXCEPT ![w].pc = "read"]
    /\ crowded' = (crowded \/ \E v \in Checkers : check[v].pc # "idle")
    /\ UNCHANGED <<row, current, note, extras, lowered, told>>

(* Mutant: the level is the share that is used, not the threshold it has passed. *)
CrossedExactly ==
    IF 100 * row.used >= Min(Thresholds) * row.limit THEN (100 * row.used) \div row.limit ELSE 0

Crossed == Max({t \in Thresholds : 100 * row.used >= t * row.limit} \union {0})

\* Its row: is there a higher level to tell?
Read(w) ==
    /\ check[w].pc = "read"
    /\ check' = [check EXCEPT ![w] = IF row.there /\ row.level < Crossed
                                     THEN [pc |-> "tell", level |-> Crossed] ELSE Resting]
    /\ UNCHANGED <<row, current, note, extras, crowded, lowered, told>>

(* Mutant: a notification that is there already is left as it is. *)
TellOnInsert(w) ==
    /\ check[w].pc = "tell"
    /\ note' = IF note.level = 0 THEN [level |-> check[w].level, read |-> FALSE] ELSE note
    /\ told' = told \union {note'.level}
    /\ check' = [check EXCEPT ![w].pc = "mark"]
    /\ UNCHANGED <<row, current, extras, crowded, lowered>>

\* findOneAndUpdate with upsert: one notification, unread again at each level.
Tell(w) ==
    /\ check[w].pc = "tell"
    /\ note' = [level |-> check[w].level, read |-> FALSE]
    /\ lowered' = (lowered \/ check[w].level < note.level)
    /\ told' = told \union {check[w].level}
    /\ check' = [check EXCEPT ![w].pc = "mark"]
    /\ UNCHANGED <<row, current, extras, crowded>>

Mark(w) ==
    /\ check[w].pc = "mark"
    /\ row' = IF row.there THEN [row EXCEPT !.level = check[w].level] ELSE row
    /\ check' = [check EXCEPT ![w] = Resting]
    /\ UNCHANGED <<current, note, extras, crowded, lowered, told>>

\* An error is logged and ends the run.
CheckFails(w) ==
    /\ check[w].pc # "idle" /\ extras.faults < MaxAlertFaults
    /\ extras' = [extras EXCEPT !.faults = @ + 1]
    /\ check' = [check EXCEPT ![w] = Resting]
    /\ UNCHANGED <<row, current, note, crowded, lowered, told>>

\* reconcileScanUsage and flushes: the counter, or 0 while there is no hash.
Mirror ==
    /\ row.there
    /\ \E n \in (row.used + 1..MaxUsed) \union {0} : row' = [row EXCEPT !.used = n]
    /\ UNCHANGED <<current, check, note, extras, crowded, lowered, told>>

\* adjustScanLimits.
Raise ==
    /\ row.there /\ extras.raises < MaxRaises
    /\ row' = [row EXCEPT !.limit = @ + RowLimit]
    /\ extras' = [extras EXCEPT !.raises = @ + 1]
    /\ UNCHANGED <<current, check, note, crowded, lowered, told>>

ReadNote ==
    /\ note.level # 0 /\ ~note.read
    /\ note' = [note EXCEPT !.read = TRUE]
    /\ UNCHANGED <<row, current, check, extras, crowded, lowered, told>>

\* The subscription ends, by force with its row.
Finish(purged) ==
    /\ current' = FALSE /\ current
    /\ row' = [row EXCEPT !.there = ~purged]
    /\ UNCHANGED <<check, note, extras, crowded, lowered, told>>

Next ==
    \/ \E w \in Checkers : Look(w) \/ Read(w) \/ Tell(w) \/ Mark(w) \/ CheckFails(w)
    \/ Mirror \/ Raise \/ ReadNote \/ \E purged \in BOOLEAN : Finish(purged)

Spec == Init /\ [][Next]_vars

-----------------------------------------------------------------------------
(* Properties.                                                             *)

\* Type invariant: levels are thresholds.
TypeOK ==
    /\ row.level \in Thresholds \union {0} /\ note.level \in Thresholds \union {0}
    /\ row.used \in 0..MaxUsed
    /\ \A w \in Checkers : check[w].level \in Thresholds \union {0}

\* A level on record was told, through errors between the two writes and whatever the
\* counter and the limit do meanwhile; and the notification stands at that level or at a
\* higher one, unless two runs were under way at once and one that came late told a lower
\* level after a higher.  quota.service.ts:302 calls two concurrent runs safe because of
\* 'the conditional findOneAndUpdate with $or', a condition neither write has.
AlertTellsLevel ==
    /\ row.level \in told \union {0}
    /\ ~(crowded /\ lowered) => row.level <= note.level
=============================================================================
