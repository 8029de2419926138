---------------------- MODULE MCSubscriptionLifecycle -----------------------
(***************************************************************************)
(* Instances of SubscriptionLifecycle for TLC: two operations at a time,   *)
(* any of the nine against any other, in any order.                        *)
(***************************************************************************)
EXTENDS SubscriptionLifecycle, TLC

Symmetry == Permutations(Callers)

\* Nothing is claimed once a caller acted on what was no longer so, and `stale`
\* stays: those behaviours are not followed any further.
Unstale == ~stale

\* No step reads the hash or the Usage rows, and after a fault no property
\* does; nobody reads the dates of a cancelled row again.
View == <<status, priority,
          [s \in Subs |-> IF status[s] = "cancelled" THEN 0 ELSE ends[s]],
          [s \in Subs |-> IF crashed \/ status[s] \in Ended THEN 0 ELSE usages[s]],
          IF crashed THEN 0 ELSE cached,
          now, op, pc, reg, history>>
=============================================================================
