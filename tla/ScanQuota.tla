----------------------------- MODULE ScanQuota ------------------------------
(***************************************************************************)
(* The scan hot path of one organization during one subscription period:   *)
(* createScan (services/user/scans.service.ts) charging the Redis hash     *)
(* org:<id>:activeSub (services/quota.service.ts), the cold-cache refill   *)
(* from Mongo (populateActiveSubCache in subscription.service.ts), the     *)
(* 30-second reconcile and the every-minute expiry of the worker.          *)
(*                                                                         *)
(* One step is one awaited Redis or Mongo call: the Lua scripts are atomic *)
(* on the server, everything between two awaits runs to its end, and any   *)
(* other request, the worker, a crash or a Redis eviction may come between *)
(* two steps.  A batch is the same calls in sequence, so it adds no        *)
(* interleaving.  Organizations never share a key or a row: one is enough. *)
(*                                                                         *)
(* Left out: the organization-status lookup (it never changes here), the   *)
(* scan's own fields, and what the webhook worker does with the delivery.  *)
(***************************************************************************)
EXTENDS Integers, FiniteSets

CONSTANTS Requests,   \* createScan calls, concurrent or not
          ClientIds,  \* client_scan_id values they carry
          Limit,      \* the plan's scan_limit, 0 for unlimited
          NoOne       \* marks a client id whose scan is not stored

ASSUME QuotaAssumption ==
    /\ IsFiniteSet(Requests)
    /\ IsFiniteSet(ClientIds)
    /\ Limit \in Nat
    /\ NoOne \notin Requests

VARIABLES
    hash,        \* the Redis hash: [live, used]; limit and expiresAt are the period's
    usage,       \* tbl_usage.usage, the durable mirror of hash.used
    scans,       \* tbl_scan by client id: the request that inserted the row
    active,      \* tbl_subscription.status = 'active'
    lapsed,      \* expires_at <= now
    clientId,    \* the client_scan_id each request carries
    pc,          \* where each createScan call stands, or how it ended
    seen,        \* the counter a refilling request has read so far
    mirror,      \* the reconcile pass: [at, used]
    expiry,      \* the every-minute job on this subscription: [at, used]
    overlapped,  \* history: a refill began while another request was charging or refilling
    cold,        \* history: the hash has been missing at some time
    leaked       \* history: requests that ended holding a unit and no scan

period  == <<active, lapsed, clientId>>
worker  == <<mirror, expiry>>
history == <<overlapped, cold, leaked>>
vars    == <<hash, usage, scans, pc, seen, period, worker, history>>

Refill   == {"readSub", "readUsage", "countScans", "writeHash"}
Holding  == {"lookup", "insert", "release"}
Denied   == {"quota_exceeded", "no_active_subscription", "subscription_expired"}
Answers  == Denied \cup {"accepted", "duplicate", "failed"}
Finished == Answers \cup {"crashed"}
Running  == {"new", "retry", "enqueue"} \cup Refill \cup Holding

Stored == {c \in ClientIds : scans[c] # NoOne}
Owners == {scans[c] : c \in Stored}

\* Requests a unit of the quota stands for: those still charging it, and
\* those whose scan it paid for.
Units == {r \in Requests : pc[r] \in Holding} \cup Owners

Larger(a, b) == IF a > b THEN a ELSE b

Goto(r, label) == pc' = [pc EXCEPT ![r] = label]

NoHash == [live |-> FALSE, used |-> 0]

Init ==
    /\ \/ hash = [live |-> TRUE, used |-> 0] /\ cold = FALSE
       \/ hash = NoHash /\ cold = TRUE
    /\ usage = 0
    /\ scans = [c \in ClientIds |-> NoOne]
    /\ active = TRUE
    /\ lapsed = FALSE
    /\ clientId \in [Requests -> ClientIds]
    /\ pc = [r \in Requests |-> "new"]
    /\ seen = [r \in Requests |-> 0]
    /\ mirror = [at |-> "idle", used |-> 0]
    /\ expiry = [at |-> "idle", used |-> 0]
    /\ overlapped = FALSE
    /\ leaked = {}

-----------------------------------------------------------------------------
(* createScan, step by step.                                               *)

\* (Mutant) one unit too many.
HasRoomOffByOne(used) == Limit = 0 \/ used <= Limit

HasRoom(used) == Limit = 0 \/ used + 1 <= Limit

\* RESERVE_SCRIPT returned the new counter: one unit is charged.
ReserveUnit(r) ==
    /\ pc[r] \in {"new", "retry"}
    /\ hash.live /\ ~lapsed /\ HasRoom(hash.used)
    /\ hash' = [hash EXCEPT !.used = @ + 1]
    /\ Goto(r, "lookup")
    /\ UNCHANGED <<usage, scans, period, seen, worker, history>>

\* RESERVE_SCRIPT returned -3 or -1.
ReserveDenied(r) ==
    /\ pc[r] \in {"new", "retry"}
    /\ hash.live
    /\ \/ lapsed /\ Goto(r, "subscription_expired")
       \/ ~lapsed /\ ~HasRoom(hash.used) /\ Goto(r, "quota_exceeded")
    /\ UNCHANGED <<hash, usage, scans, period, seen, worker, history>>

\* RESERVE_SCRIPT returned -2 on the first attempt: refill the hash from
\* Mongo, once.
ReserveMiss(r) ==
    /\ pc[r] = "new" /\ ~hash.live
    /\ Goto(r, "readSub")
    /\ overlapped' = \/ overlapped
                     \/ \E q \in Requests \ {r} : pc[q] \in Refill \cup Holding
    /\ UNCHANGED <<hash, usage, scans, period, seen, worker, cold, leaked>>

\* -2 again after the refill: the call gives up.
ReserveMissAgain(r) ==
    /\ pc[r] = "retry" /\ ~hash.live
    /\ Goto(r, "no_active_subscription")
    /\ UNCHANGED <<hash, usage, scans, period, seen, worker, history>>

\* Redis is unreachable (503) or Mongo is during the refill: nothing charged.
\* (A script that ran but whose reply was lost is the crash after ReserveUnit.)
ReserveDown(r) ==
    /\ pc[r] \in {"new", "retry", "readSub", "readUsage", "countScans"}
    /\ Goto(r, "failed")
    /\ UNCHANGED <<hash, usage, scans, period, seen, worker, history>>

\* populateActiveSubCache: find the active subscription ...
ReadSub(r) ==
    /\ pc[r] = "readSub"
    /\ Goto(r, IF active THEN "readUsage" ELSE "no_active_subscription")
    /\ UNCHANGED <<hash, usage, scans, period, seen, worker, history>>

\* ... then its durable Usage row ...
ReadUsage(r) ==
    /\ pc[r] = "readUsage"
    /\ seen' = [seen EXCEPT ![r] = usage]
    /\ Goto(r, "countScans")
    /\ UNCHANGED <<hash, usage, scans, period, worker, history>>

\* (Mutant) the seed forgets the scans the mirror has not seen yet.
SeedFromUsageOnly(r) == seen[r]

\* ... then the scans stored since the period started: the seed is the larger.
Seed(r) == Larger(seen[r], Cardinality(Stored))

CountScans(r) ==
    /\ pc[r] = "countScans"
    /\ seen' = [seen EXCEPT ![r] = Seed(r)]
    /\ Goto(r, "writeHash")
    /\ UNCHANGED <<hash, usage, scans, period, worker, history>>

\* The refill overwrites the hash with what it read; a Redis error is logged
\* and swallowed, so the request retries either way.
WriteHash(r) ==
    /\ pc[r] = "writeHash"
    /\ \/ hash' = [live |-> TRUE, used |-> seen[r]]
       \/ UNCHANGED hash
    /\ seen' = [seen EXCEPT ![r] = 0]
    /\ Goto(r, "retry")
    /\ UNCHANGED <<usage, scans, period, worker, history>>

\* Scan.findOne before the insert.
Lookup(r) ==
    /\ pc[r] = "lookup"
    /\ Goto(r, IF scans[clientId[r]] = NoOne THEN "insert" ELSE "release")
    /\ UNCHANGED <<hash, usage, scans, period, seen, worker, history>>

\* (Mutant) error 11000 answers "duplicate" without releasing the unit.
InsertKeepsUnit(r) ==
    /\ pc[r] = "insert"
    /\ IF scans[clientId[r]] = NoOne
       THEN scans' = [scans EXCEPT ![clientId[r]] = r] /\ Goto(r, "enqueue")
       ELSE UNCHANGED scans /\ Goto(r, "duplicate")
    /\ UNCHANGED <<hash, usage, period, seen, worker, history>>

\* (Mutant) no unique index on (organization_id, client_scan_id).
InsertWithoutIndex(r) ==
    /\ pc[r] = "insert"
    /\ scans' = [scans EXCEPT ![clientId[r]] = r]
    /\ Goto(r, "enqueue")
    /\ UNCHANGED <<hash, usage, period, seen, worker, history>>

\* Scan.create under the unique (organization_id, client_scan_id) index: a
\* lost race is error 11000 and gives the unit back.
Insert(r) ==
    /\ pc[r] = "insert"
    /\ \/ /\ scans[clientId[r]] = NoOne
          /\ scans' = [scans EXCEPT ![clientId[r]] = r]
          /\ Goto(r, "enqueue")
       \/ /\ scans[clientId[r]] # NoOne
          /\ Goto(r, "release")
          /\ UNCHANGED scans
    /\ UNCHANGED <<hash, usage, period, seen, worker, history>>

\* Any other error of the lookup or the insert is rethrown and the unit stays
\* charged.
StoreFails(r) ==
    /\ pc[r] \in {"lookup", "insert"}
    /\ Goto(r, "failed")
    /\ leaked' = leaked \cup {r}
    /\ UNCHANGED <<hash, usage, scans, period, seen, worker, overlapped, cold>>

\* (Mutant) the release never looks at the counter.
ReleasedBelowZero(h) == IF h.live THEN [h EXCEPT !.used = @ - 1] ELSE h

\* RELEASE_SCRIPT: only a live hash with a positive counter is decremented.
Released(h) == IF h.live /\ h.used > 0 THEN [h EXCEPT !.used = @ - 1] ELSE h

Release(r) ==
    /\ pc[r] = "release"
    /\ hash' = Released(hash)
    /\ Goto(r, "duplicate")
    /\ UNCHANGED <<usage, scans, period, seen, worker, history>>

\* A Redis error in the release is logged and swallowed.
ReleaseLost(r) ==
    /\ pc[r] = "release"
    /\ Goto(r, "duplicate")
    /\ leaked' = leaked \cup {r}
    /\ UNCHANGED <<hash, usage, scans, period, seen, worker, overlapped, cold>>

\* createDeliveryAndEnqueue: the delivery row, then the job; a failure of
\* either is rethrown although the scan is stored.
Enqueue(r) ==
    /\ pc[r] = "enqueue"
    /\ Goto(r, "accepted") \/ Goto(r, "failed")
    /\ UNCHANGED <<hash, usage, scans, period, seen, worker, history>>

\* The API process dies between two awaits of the call.
Crash(r) ==
    /\ pc[r] \in Running
    /\ Goto(r, "crashed")
    /\ leaked' = IF pc[r] \in Holding THEN leaked \cup {r} ELSE leaked
    /\ UNCHANGED <<hash, usage, scans, period, seen, worker, overlapped, cold>>

Call(r) ==
    \/ ReserveUnit(r) \/ ReserveDenied(r) \/ ReserveMiss(r) \/ ReserveMissAgain(r)
    \/ ReserveDown(r) \/ ReadSub(r) \/ ReadUsage(r) \/ CountScans(r) \/ WriteHash(r)
    \/ Lookup(r) \/ Insert(r) \/ StoreFails(r) \/ Release(r) \/ ReleaseLost(r)
    \/ Enqueue(r)

-----------------------------------------------------------------------------
(* The worker: reconcile every 30 s, expiry every minute.                  *)

\* reconcileScanUsage: find the active subscriptions, read each hash, write
\* each Usage row.  A hash that is missing or cannot be read is 0.
ReconcileFind ==
    /\ mirror.at = "idle" /\ active
    /\ mirror' = [mirror EXCEPT !.at = "read"]
    /\ UNCHANGED <<hash, usage, scans, pc, seen, period, expiry, history>>

ReconcileRead ==
    /\ mirror.at = "read"
    /\ \E used \in {hash.used, 0} : mirror' = [at |-> "write", used |-> used]
    /\ UNCHANGED <<hash, usage, scans, pc, seen, period, expiry, history>>

ReconcileWrite ==
    /\ mirror.at = "write"
    /\ usage' = mirror.used
    /\ mirror' = [at |-> "idle", used |-> 0]
    /\ UNCHANGED <<hash, scans, pc, seen, period, expiry, history>>

\* The worker process dies inside a pass; the next pass starts over.
WorkerCrash ==
    /\ mirror.at # "idle" \/ expiry.at # "idle"
    /\ mirror' = [at |-> "idle", used |-> 0]
    /\ expiry' = [at |-> "idle", used |-> 0]
    /\ UNCHANGED <<hash, usage, scans, pc, seen, period, history>>

\* activateEligibleSubscriptions on an overdue subscription with no successor:
\* flushActiveSubUsage reads the counter and, when there is a hash, copies it
\* into the Usage row; then the hash is deleted and status expired is saved.
\* A read of Redis that fails is as if there were no hash; a failed delete is logged.
ExpiryRead ==
    /\ expiry.at = "idle" /\ active /\ lapsed
    /\ \E found \in {hash.live, FALSE} :
          expiry' = [at |-> IF found THEN "flush" ELSE "drop", used |-> hash.used]
    /\ UNCHANGED <<hash, usage, scans, pc, seen, period, mirror, history>>

ExpiryFlush ==
    /\ expiry.at = "flush"
    /\ usage' = expiry.used
    /\ expiry' = [at |-> "drop", used |-> 0]
    /\ UNCHANGED <<hash, scans, pc, seen, period, mirror, history>>

ExpiryDrop ==
    /\ expiry.at = "drop"
    /\ \/ hash' = NoHash /\ cold' = TRUE
       \/ UNCHANGED <<hash, cold>>
    /\ expiry' = [at |-> "save", used |-> 0]
    /\ UNCHANGED <<usage, scans, pc, seen, period, mirror, overlapped, leaked>>

ExpirySave ==
    /\ expiry.at = "save"
    /\ active' = FALSE
    /\ expiry' = [at |-> "idle", used |-> 0]
    /\ UNCHANGED <<hash, usage, scans, pc, seen, lapsed, clientId, mirror, history>>

Worker ==
    \/ ReconcileFind \/ ReconcileRead \/ ReconcileWrite
    \/ ExpiryRead \/ ExpiryFlush \/ ExpiryDrop \/ ExpirySave

-----------------------------------------------------------------------------
(* The environment.                                                        *)

\* The clock reaches expires_at.
Lapse ==
    /\ ~lapsed
    /\ lapsed' = TRUE
    /\ UNCHANGED <<hash, usage, scans, pc, seen, active, clientId, worker, history>>

\* Redis loses the hash: evicted, restarted without persistence, or past its
\* own time to live (expires_at and one hour).
LoseHash ==
    /\ hash.live
    /\ hash' = NoHash
    /\ cold' = TRUE
    /\ UNCHANGED <<usage, scans, pc, seen, period, worker, overlapped, leaked>>

Next ==
    \/ \E r \in Requests : Call(r) \/ Crash(r)
    \/ Worker
    \/ WorkerCrash
    \/ Lapse
    \/ LoseHash

Spec == Init /\ [][Next]_vars

-----------------------------------------------------------------------------
(* Properties.                                                             *)

\* Every variable keeps its type; in particular the Lua release never drives
\* the counter of tbl_usage or of the hash below zero.
TypeOK ==
    /\ hash \in [live : BOOLEAN, used : Nat]
    /\ usage \in Nat
    /\ scans \in [ClientIds -> Requests \cup {NoOne}]
    /\ active \in BOOLEAN
    /\ lapsed \in BOOLEAN
    /\ clientId \in [Requests -> ClientIds]
    /\ pc \in [Requests -> Running \cup Finished]
    /\ seen \in [Requests -> Nat]
    /\ mirror \in [at : {"idle", "read", "write"}, used : Nat]
    /\ expiry \in [at : {"idle", "flush", "drop", "save"}, used : Nat]
    /\ overlapped \in BOOLEAN
    /\ cold \in BOOLEAN
    /\ leaked \in SUBSET Requests

\* Concurrent scans cannot overshoot the plan's scan_limit, through duplicates,
\* crashes, evictions of the hash and late refills, as long as no refill of
\* the hash runs beside another charge or refill.
NoOvershootWithoutOverlap ==
    ~overlapped /\ Limit # 0 =>
        Cardinality(Stored) <= Limit /\ Cardinality(Units) <= Limit

\* The same claim without the condition, as tests/usage.test.ts and
\* tests/scans-batch-api.test.ts state it of createScan.
NeverOvershoots == Limit # 0 => Cardinality(Stored) <= Limit

\* While Redis has kept the hash, its counter is exact: it counts each request
\* still charging, each stored scan, and each unit a failed or crashed call
\* left behind, so neither duplicates nor late releases lose or invent quota.
ExactWhileWarm ==
    ~cold => hash.used = Cardinality(Units) + Cardinality(leaked)

\* What the caller is told is what the database holds: "accepted" went to the
\* very call that stored the scan, "duplicate" means another call stored it,
\* and a denial stored nothing, so a client may drop or resubmit by the answer.
AnswersMatchStore ==
    \A r \in Requests :
        LET owner == scans[clientId[r]] IN
        /\ pc[r] = "accepted" => owner = r
        /\ pc[r] = "duplicate" => owner \notin {r, NoOne}
        /\ pc[r] \in Denied => owner # r

Permits == INSTANCE QuotaPermits WITH permits <- Units, stored <- scans

\* Until two refills or a refill and a charge overlap, every step of the hash,
\* the requests and the worker is a step of the abstract pool of permits.
ImplementsPermits ==
    /\ Permits!Init
    /\ [][overlapped' \/ Permits!Next]_<<Units, scans>>
=============================================================================
