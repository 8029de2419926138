------------------------------ MODULE OrderBook ------------------------------
(***************************************************************************)
(* What the checkout promises of a paid order, whatever handlers run: an   *)
(* order is settled once, as paid with exactly one subscription or as      *)
(* failed with none.  Only a disturbed order, one whose notifications were *)
(* handled at the same time or whose handler died or failed after the      *)
(* grant, may be granted again or change its mind.                         *)
(***************************************************************************)
EXTENDS Naturals

CONSTANT Orders

VARIABLES grants,    \* how many subscriptions each order has been granted
          outcome,   \* "open", "paid" or "failed"
          disturbed  \* the orders for which nothing is promised

vars == <<grants, outcome, disturbed>>

Init ==
    /\ grants = [o \in Orders |-> 0]
    /\ outcome = [o \in Orders |-> "open"]
    /\ disturbed = {}

Grant(o) ==
    /\ outcome[o] = "open" /\ grants[o] = 0
    /\ grants' = [grants EXCEPT ![o] = 1]
    /\ UNCHANGED <<outcome, disturbed>>

Pay(o) ==
    /\ outcome[o] = "open" /\ grants[o] = 1
    /\ outcome' = [outcome EXCEPT ![o] = "paid"]
    /\ UNCHANGED <<grants, disturbed>>

Fail(o) ==
    /\ outcome[o] = "open" /\ grants[o] = 0
    /\ outcome' = [outcome EXCEPT ![o] = "failed"]
    /\ UNCHANGED <<grants, disturbed>>

\* From the step that disturbs an order on, its row may change in any way that
\* takes no subscription back.
Disturb(o) ==
    /\ disturbed' = disturbed \union {o}
    /\ \E n \in {0, 1} : grants' = [grants EXCEPT ![o] = @ + n]
    /\ \E s \in {"open", "paid", "failed"} : outcome' = [outcome EXCEPT ![o] = s]

Next == \E o \in Orders : Grant(o) \/ Pay(o) \/ Fail(o) \/ Disturb(o)

Spec == Init /\ [][Next]_vars
=============================================================================
