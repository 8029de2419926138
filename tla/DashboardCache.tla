--------------------------- MODULE DashboardCache ---------------------------
(***************************************************************************)
(* One widget of the dashboards in Redis: getOrCompute,                    *)
(* refreshInBackground and invalidateDashboardCache of                     *)
(* services/admin/dashboard.cache.ts.  The widget is computed from a       *)
(* database of which only the version matters here.                        *)
(*                                                                         *)
(* One await is one step.  An invalidation is a scan and a deletion of all *)
(* keys; for one key it is one step, some time after the change that       *)
(* called for it.                                                          *)
(*                                                                         *)
(* Left out: the widgets' contents (see Dashboards) and Redis not          *)
(* being configured, where every request computes for itself.              *)
(***************************************************************************)
EXTENDS Naturals, FiniteSets

CONSTANTS Requests,       \* requests for the widget; each may be repeated
          MaxChanges,     \* bound on the changes to the database
          MaxRounds,      \* bound on the requests made
          MaxRedisFaults  \* bound on failed calls, deaths and lock expiries

VARIABLES
    db,       \* version of the data behind the widget
    due,      \* invalidations called for and not yet done
    entry,    \* dash:v2:<key>: age "none", "fresh" or "stale" (after freshSeconds), and version
    lock,     \* dash:lock:<key>
    task,     \* where each request stands
    rounds, faults,
    lost   \* history: the lock left its holder, expired or deleted by another

vars == <<db, due, entry, lock, task, rounds, faults, lost>>

Empty == [age |-> "none", version |-> 0]
Done == [pc |-> "done", background |-> FALSE, heavy |-> FALSE, version |-> 0]

Init ==
    /\ db = 0 /\ due = 0 /\ entry = Empty /\ lock = FALSE
    /\ task = [r \in Requests |-> Done]
    /\ rounds = 0 /\ faults = 0
    /\ lost = FALSE

Fault == faults < MaxRedisFaults /\ faults' = faults + 1

Move(r, pc) == task' = [task EXCEPT ![r].pc = pc]

-----------------------------------------------------------------------------
(* getOrCompute.                                                           *)

\* A fresh entry is the answer.  A stale one is too, and a refresh is started that
\* nobody waits for.  Otherwise the request takes the lock.
Get(r, heavy) ==
    /\ task[r].pc = "done" /\ rounds < MaxRounds
    /\ rounds' = rounds + 1
    /\ IF entry.age = "none"
       THEN task' = [task EXCEPT ![r] = [Done EXCEPT !.pc = "lock", !.heavy = heavy]]
       ELSE task' = [task EXCEPT ![r] = IF entry.age = "fresh" THEN Done
                       ELSE [Done EXCEPT !.pc = "lock", !.background = TRUE]]
    /\ UNCHANGED <<db, due, entry, lock, faults, lost>>

(* Mutant: SET without NX. *)
LockAnyway(r) ==
    /\ task[r].pc = "lock"
    /\ lock' = TRUE
    /\ Move(r, "compute")
    /\ UNCHANGED <<db, due, entry, rounds, faults, lost>>

\* SET NX PX.  A refresh that does not get the lock returns, by way of its finally
\* clause; a request waits for the other's result, if the widget is a scan-heavy
\* one, or computes for itself.
Lock(r) ==
    /\ task[r].pc = "lock"
    /\ lock' = TRUE
    /\ Move(r, IF ~lock THEN "compute"
               ELSE IF task[r].background THEN "return"
               ELSE IF task[r].heavy THEN "wait" ELSE "direct")
    /\ UNCHANGED <<db, due, entry, rounds, faults, lost>>

\* The queries of the widget.
Compute(r) ==
    /\ task[r].pc = "compute"
    /\ task' = [task EXCEPT ![r].pc = "store", ![r].version = db]
    /\ UNCHANGED <<db, due, entry, lock, rounds, faults, lost>>

Store(r) ==
    /\ task[r].pc = "store"
    /\ entry' = [age |-> "fresh", version |-> task[r].version]
    /\ Move(r, "release")
    /\ UNCHANGED <<db, due, lock, rounds, faults, lost>>

\* The finally clause deletes the lock, whoever holds it.
Release(r) ==
    /\ task[r].pc \in {"release", "abandon", "return"}
    /\ lock' = FALSE
    /\ lost' = (lost \/ (task[r].pc = "return" /\ lock))
    /\ Move(r, IF task[r].pc = "abandon" /\ ~task[r].background THEN "direct" ELSE "done")
    /\ UNCHANGED <<db, due, entry, rounds, faults>>

\* A query or a Redis call fails: the lock is released and the request computes
\* without the cache (a scan-heavy one is refused instead); a refresh is over.
ComputeFails(r) ==
    /\ task[r].pc \in {"compute", "store"} /\ Fault
    /\ Move(r, "abandon")
    /\ UNCHANGED <<db, due, entry, lock, rounds, lost>>

\* 1400 ms of polling: the entry, or the wait is over.
Wait(r) ==
    /\ task[r].pc = "wait"
    /\ Move(r, IF entry.age = "none" THEN "direct" ELSE "done")
    /\ UNCHANGED <<db, due, entry, lock, rounds, faults, lost>>

Direct(r) ==
    /\ task[r].pc = "direct"
    /\ Move(r, "done")
    /\ UNCHANGED <<db, due, entry, lock, rounds, faults, lost>>

-----------------------------------------------------------------------------
(* Changes to the data, Redis, and time.                                   *)

\* Any mutation that calls invalidateDashboardCache, and does not wait for it.
Change ==
    /\ db < MaxChanges
    /\ db' = db + 1 /\ due' = due + 1
    /\ UNCHANGED <<entry, lock, task, rounds, faults, lost>>

Invalidate ==
    /\ due > 0 /\ due' = due - 1
    /\ entry' = Empty
    /\ UNCHANGED <<db, lock, task, rounds, faults, lost>>

\* Redis fails, or the process dies first: logged at most.
InvalidateFails ==
    /\ due > 0 /\ Fault
    /\ due' = due - 1
    /\ UNCHANGED <<db, entry, lock, task, rounds, lost>>

(* Mutant: the entry is written without PX. *)
KeepForever ==
    /\ entry.age = "fresh"
    /\ entry' = [entry EXCEPT !.age = "stale"]
    /\ UNCHANGED <<db, due, lock, task, rounds, faults, lost>>

\* The freshness window ends, and after it the time to live.
Age ==
    /\ entry.age # "none"
    /\ entry' = IF entry.age = "fresh" THEN [entry EXCEPT !.age = "stale"] ELSE Empty
    /\ UNCHANGED <<db, due, lock, task, rounds, faults, lost>>

Computing == {r \in Requests : task[r].pc \in {"compute", "store"}}
Inside == Computing \union {r \in Requests : task[r].pc \in {"release", "abandon"}}

\* The process dies: what it held it holds until that expires.
RequestDies(r) ==
    /\ task[r].pc # "done" /\ Fault
    /\ task' = [task EXCEPT ![r] = Done]
    /\ UNCHANGED <<db, due, entry, lock, rounds, lost>>

\* The lock's PX is two seconds more than a query may take; a widget may make
\* several queries.
LockExpires ==
    /\ lock /\ lock' = FALSE
    /\ IF Inside = {} THEN UNCHANGED <<faults, lost>> ELSE Fault /\ lost' = TRUE
    /\ UNCHANGED <<db, due, entry, task, rounds>>

Work(r) == Lock(r) \/ Compute(r) \/ Store(r) \/ Release(r) \/ Wait(r) \/ Direct(r)

Next ==
    \/ \E r \in Requests, heavy \in BOOLEAN : Get(r, heavy)
    \/ \E r \in Requests : Work(r) \/ ComputeFails(r) \/ RequestDies(r)
    \/ Change \/ Invalidate \/ InvalidateFails \/ Age \/ LockExpires

\* Requests run on, and Redis drops what has outlived its time.
Fairness == WF_vars(Age) /\ \A r \in Requests : WF_vars(Work(r))

Spec == Init /\ [][Next]_vars /\ Fairness

-----------------------------------------------------------------------------
(* Properties.                                                             *)

\* Type invariant: the cache and the requests know versions that have existed.
TypeOK ==
    /\ entry.age \in {"none", "fresh", "stale"} /\ entry.version \in 0..db
    /\ \A r \in Requests : task[r].version \in 0..db
    /\ due \in 0..db

\* However a computation that read the data before a change overtakes the
\* invalidation the change called for, and whether or not the invalidation
\* succeeds: what is cached is current in the end, and stays so.
CacheConverges == <>[](entry.age # "none" => entry.version = db)

\* One computation under the lock at a time ('one caller refreshes it, so an expiry
\* never stampedes the database'), until the lock expires under its holder, or is
\* deleted by a refresh that did not get it.
OneCallerRefreshes == ~lost => Cardinality(Computing) <= 1
=============================================================================
