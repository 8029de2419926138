---------------------------- MODULE QuotaPermits ----------------------------
(***************************************************************************)
(* What the scan quota promises, with no cache, no counter and no process: *)
(* a pool of Limit permits for one subscription period.  A request takes a *)
(* permit, then either gives it back or spends it on the one scan it       *)
(* stores; a permit that was spent is never returned and a stored scan is  *)
(* never replaced.  Limit = 0 is the plan convention for "unlimited".      *)
(***************************************************************************)
EXTENDS Naturals, FiniteSets

CONSTANTS Requests,   \* createScan calls
          ClientIds,  \* client_scan_id values
          Limit,      \* scan_limit of the period, 0 for unlimited
          NoOne       \* marks a client id whose scan is not stored

VARIABLES permits,    \* the requests that hold a permit, spent or not
          stored      \* stored[c]: the request whose scan was stored under c

pvars == <<permits, stored>>

Spent == {stored[c] : c \in {d \in ClientIds : stored[d] # NoOne}}

Init ==
    /\ permits = {}
    /\ stored = [c \in ClientIds |-> NoOne]

Take(r) ==
    /\ r \notin permits
    /\ Limit # 0 => Cardinality(permits) < Limit
    /\ permits' = permits \cup {r}
    /\ UNCHANGED stored

GiveBack(r) ==
    /\ r \in permits \ Spent
    /\ permits' = permits \ {r}
    /\ UNCHANGED stored

Spend(r, c) ==
    /\ r \in permits \ Spent
    /\ stored[c] = NoOne
    /\ stored' = [stored EXCEPT ![c] = r]
    /\ UNCHANGED permits

Next == \E r \in Requests :
            \/ Take(r)
            \/ GiveBack(r)
            \/ \E c \in ClientIds : Spend(r, c)

Spec == Init /\ [][Next]_pvars
=============================================================================
