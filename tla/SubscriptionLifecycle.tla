------------------------ MODULE SubscriptionLifecycle ------------------------
(***************************************************************************)
(* The subscriptions of one organization (services/subscription.service.ts)*)
(* under admin requests, checkout grants and the worker's every-minute     *)
(* job.  Mongo is used without transactions, so an operation is a sequence *)
(* of awaited reads and writes; one step is one of them, and any number of *)
(* operations interleave.  Only the every-minute job excludes itself       *)
(* (cron-runner.ts, one worker process).                                   *)
(*                                                                         *)
(* Subscriptions are numbered in the order of created_at.  A billing cycle *)
(* is one tick of the clock and a document saves only the fields the code  *)
(* assigned.  An operation that meets a database error ends where it is,   *)
(* as a crash does.                                                        *)
(*                                                                         *)
(* Left out: plans, prices, trials and an admin's own start date; the      *)
(* Payment row; e-mails, notifications, the log and dashboard cache; the   *)
(* usage counter, which ScanQuota models; adjustScanLimits.                *)
(***************************************************************************)
EXTENDS Naturals, FiniteSets, Sequences

CONSTANTS Callers,  \* concurrent operations on the organization
          MaxSubs,  \* bound: subscriptions ever created
          MaxTime,  \* bound: the last tick of the clock
          MaxDate   \* bound: no renewal of a period that ends later

ASSUME LifecycleAssumption ==
    /\ IsFiniteSet(Callers)
    /\ MaxSubs \in Nat /\ MaxTime \in Nat /\ MaxDate \in Nat

VARIABLES
    status,    \* status of each subscription, "none" before it is created
    priority,  \* queue_priority
    ends,      \* expires_at; a queued row starts one cycle earlier
    usages,    \* number of tbl_usage rows of each subscription
    cached,    \* the subscription the activeSub hash describes, 0 for no hash
    now,       \* the clock
    op,        \* the operation each caller runs, "none" when idle
    pc,        \* its next step
    reg,       \* what it has read: a subscription, a priority, a date, a queue
    fresh,     \* history: nobody changed a subscription since the caller read
    stale,     \* history: a caller has acted on what was no longer so
    crashed    \* history: an operation ended half way or lost a Redis write

rows    == <<status, priority, ends>>
backing == <<usages, cached>>
history == <<fresh, stale, crashed>>
vars    == <<rows, backing, now, op, pc, reg, history>>

Subs     == 1..MaxSubs
Statuses == {"none", "active", "future", "expired", "cancelled"}
Ended    == {"expired", "cancelled"}
Ops      == {"grant", "cancel", "cancelQueued", "continue", "promote",
             "recreate", "force", "reorder", "expire"}
Stages   == {"idle", "findActive", "findHead", "purgeUsage", "retire", "dropCache",
             "earliest", "activate", "usage", "cache", "promRead", "promWrite",
             "normRead", "normWrite", "readActive", "readQueue", "insert", "extend",
             "shift", "dequeue", "rearrange", "redateRead", "redate",
             "expireDrop", "expireSave", "dueFutures", "checkActive"}

Active == {s \in Subs : status[s] = "active"}
Queue  == {s \in Subs : status[s] = "future"}
Unused == {s \in Subs : status[s] = "none"}

Latest(S) == CHOOSE s \in S : \A t \in S : t <= s
First(S)  == CHOOSE s \in S : \A t \in S : s <= t

\* The results find(...).sort({queue_priority: 1}) may return for the queue.
QueueOrders ==
    LET n == Cardinality(Queue) IN
    {q \in [1..n -> Queue] : \A i, j \in 1..n :
        i < j => q[i] # q[j] /\ priority[q[i]] <= priority[q[j]]}

NoReg == [sub |-> 0, prio |-> 0, date |-> 0, list |-> <<>>]

Init ==
    /\ status = [s \in Subs |-> "none"]
    /\ priority = [s \in Subs |-> 0]
    /\ ends = [s \in Subs |-> 0]
    /\ usages = [s \in Subs |-> 0]
    /\ cached = 0
    /\ now = 0
    /\ op = [p \in Callers |-> "none"]
    /\ pc = [p \in Callers |-> "idle"]
    /\ reg = [p \in Callers |-> NoReg]
    /\ fresh = [p \in Callers |-> TRUE]
    /\ stale = FALSE
    /\ crashed = FALSE

-----------------------------------------------------------------------------
(* Steps of an operation.                                                  *)

GoAs(p, o, stage, r) ==
    /\ op' = [op EXCEPT ![p] = IF stage = "idle" THEN "none" ELSE o]
    /\ pc' = [pc EXCEPT ![p] = stage]
    /\ reg' = [reg EXCEPT ![p] = IF stage = "idle" THEN NoReg ELSE r]

Go(p, stage, r) == GoAs(p, op[p], stage, r)

At(p, stage) == pc[p] = stage

\* A request arrives, or the every-minute job runs unless it still does.
Begins(p, o) ==
    /\ At(p, "idle")
    /\ o = "expire" => \A q \in Callers : op[q] # "expire"

\* A read an operation decides by, a step that decides nothing new, and a
\* write, which makes everybody else's reads old.  An idle caller holds none.
Reads(p) ==
    /\ fresh' = [fresh EXCEPT ![p] = TRUE]
    /\ UNCHANGED <<rows, backing, now, stale, crashed>>

Proceeds(p) ==
    /\ fresh' = [fresh EXCEPT ![p] = @ \/ pc'[p] = "idle"]
    /\ UNCHANGED <<rows, now>>

Writes(p) ==
    LET changed == rows' # rows IN
    /\ fresh' = [q \in Callers |->
                    pc'[q] = "idle" \/ (fresh[q] /\ (q = p \/ ~changed))]
    /\ stale' = (stale \/ ~fresh[p])
    /\ UNCHANGED <<now, crashed>>

\* quota.service.ts logs a Redis error and swallows it.
CacheTo(s) == \/ cached' = s /\ UNCHANGED crashed
              \/ ~crashed /\ UNCHANGED cached /\ crashed' = TRUE

\* getActiveSubscription at the head of cancel, renew and force: without an
\* active subscription force goes on to its grant and the others answer 404.
FindActive(p) ==
    \E o \in {"cancel", "continue", "promote", "recreate", "force"} :
        /\ Begins(p, o) \/ (At(p, "findActive") /\ op[p] = o)
        /\ IF Active = {}
           THEN GoAs(p, o, IF o = "force" THEN "insert" ELSE "idle",
                     [NoReg EXCEPT !.date = now])
           ELSE LET a == Latest(Active) IN
                GoAs(p, o, CASE o = "continue" -> "extend"
                             [] o = "promote"  -> "findHead"
                             [] o = "force"    -> "purgeUsage"
                             [] OTHER          -> "retire",
                     [NoReg EXCEPT !.sub = a, !.date = IF o = "continue" THEN ends[a] ELSE 0])
        /\ Reads(p)

\* renew promote: only with a queue; then it is cancelActiveSubscription.
FindHead(p) ==
    /\ At(p, "findHead")
    /\ GoAs(p, "cancel", IF Queue = {} THEN "idle" ELSE "findActive", NoReg)
    /\ Reads(p)

\* force: Usage.deleteMany before the old subscription is retired.
PurgeUsage(p) ==
    /\ At(p, "purgeUsage")
    /\ usages' = [usages EXCEPT ![reg[p].sub] = 0]
    /\ Go(p, "retire", reg[p])
    /\ Proceeds(p) /\ UNCHANGED <<cached, stale, crashed>>

\* (Mutant) the status is misspelt.
RetireMisspelt(p) ==
    /\ At(p, "retire")
    /\ status' = [status EXCEPT ![reg[p].sub] = "canceled"]
    /\ Go(p, "dropCache", NoReg)
    /\ UNCHANGED <<priority, ends, backing>>
    /\ Writes(p)

Retire(p) ==
    /\ At(p, "retire")
    /\ status' = [status EXCEPT ![reg[p].sub] = "cancelled"]
    /\ Go(p, "dropCache", NoReg)
    /\ UNCHANGED <<priority, ends, backing>>
    /\ Writes(p)

DropCache(p) ==
    /\ At(p, "dropCache")
    /\ CacheTo(0)
    /\ Go(p, CASE op[p] = "recreate" -> "readActive"
               [] op[p] = "force"    -> "insert"
               [] OTHER              -> "earliest",
             [NoReg EXCEPT !.date = IF op[p] = "force" THEN now ELSE 0])
    /\ Proceeds(p) /\ UNCHANGED <<usages, stale>>

-----------------------------------------------------------------------------
(* promoteEarliestFutureSubscription.                                      *)

Earliest(p) ==
    /\ At(p, "earliest")
    /\ IF Queue = {}
       THEN Go(p, IF op[p] = "expire" THEN "idle" ELSE "normRead", NoReg)
       ELSE \E q \in QueueOrders : Go(p, "activate", [NoReg EXCEPT !.sub = q[1]])
    /\ Proceeds(p) /\ UNCHANGED <<backing, stale, crashed>>

Activate(p) ==
    /\ At(p, "activate")
    /\ status' = [status EXCEPT ![reg[p].sub] = "active"]
    /\ priority' = [priority EXCEPT ![reg[p].sub] = 0]
    /\ Go(p, "usage", reg[p])
    /\ UNCHANGED <<ends, backing>>
    /\ Writes(p)

\* createUsageForSubscription: a new row, whatever rows there are.
\* (Mutant) only a grant makes the row.
MakeUsageOnGrant(p) ==
    /\ At(p, "usage")
    /\ usages' = [usages EXCEPT ![reg[p].sub] = IF op[p] \in {"cancel", "expire"} THEN @ ELSE @ + 1]
    /\ Go(p, "cache", reg[p])
    /\ Proceeds(p) /\ UNCHANGED <<cached, stale, crashed>>

MakeUsage(p) ==
    /\ At(p, "usage")
    /\ usages' = [usages EXCEPT ![reg[p].sub] = @ + 1]
    /\ Go(p, "cache", reg[p])
    /\ Proceeds(p) /\ UNCHANGED <<cached, stale, crashed>>

\* writeActiveSubCache.
WriteCache(p) ==
    /\ At(p, "cache")
    /\ CacheTo(reg[p].sub)
    /\ Go(p, CASE op[p] \in {"cancel", "expire"}   -> "promRead"
               [] op[p] \in {"recreate", "force"}  -> "normRead"
               [] op[p] = "continue"               -> "readQueue"
               [] OTHER                            -> "idle",
             [NoReg EXCEPT !.date = reg[p].date])
    /\ stale' = (stale \/ reg[p].sub \notin Active)
    /\ Proceeds(p) /\ UNCHANGED usages

\* normalizeQueuePriorities, once inside the promotion and once after it; an
\* empty queue is not written.
AfterNorm(p) ==
    CASE pc[p] \in {"promRead", "promWrite"} /\ op[p] = "cancel" -> "normRead"
      [] op[p] = "reorder" -> "redateRead"
      [] OTHER             -> "idle"

NormRead(p) ==
    /\ At(p, "promRead") \/ At(p, "normRead")
    /\ \E q \in QueueOrders :
           Go(p, CASE q = <<>>             -> AfterNorm(p)
                   [] At(p, "promRead")    -> "promWrite"
                   [] OTHER                -> "normWrite", [NoReg EXCEPT !.list = q])
    /\ Reads(p)

\* (Mutant) positions counted from 0.
PositionFromZero(list, s) == CHOOSE i \in 0..(Len(list) - 1) : list[i + 1] = s

Position(list, s) == CHOOSE i \in DOMAIN list : list[i] = s

Listed(list) == {list[i] : i \in DOMAIN list}

\* The bulkWrite addresses rows by id only, whatever their status is by now.
Pack(list, offset) ==
    priority' = [s \in Subs |->
                    IF s \in Listed(list) THEN Position(list, s) + offset ELSE priority[s]]

NormWrite(p) ==
    /\ At(p, "promWrite") \/ At(p, "normWrite")
    /\ Pack(reg[p].list, 0)
    /\ Go(p, AfterNorm(p), NoReg)
    /\ UNCHANGED <<status, ends, backing>>
    /\ Writes(p)

-----------------------------------------------------------------------------
(* grantSubscription and decideInitialStatus.                              *)

ReadActive(p) ==
    /\ At(p, "readActive") \/ Begins(p, "grant")
    /\ GoAs(p, IF At(p, "idle") THEN "grant" ELSE op[p], "readQueue",
          IF Active = {} THEN [NoReg EXCEPT !.date = now]
          ELSE [NoReg EXCEPT !.sub = Latest(Active), !.date = ends[Latest(Active)]])
    /\ Reads(p)

\* priority 0 and now when there is nothing yet, else behind the queue.
DecideBy(p, q) ==
    IF q = <<>>
    THEN [NoReg EXCEPT !.prio = IF reg[p].sub = 0 THEN 0 ELSE 1, !.date = reg[p].date]
    ELSE [NoReg EXCEPT !.prio = priority[q[Len(q)]] + 1, !.date = ends[q[Len(q)]]]

\* For continue: is there a queue to shift?
ReadQueue(p) ==
    /\ At(p, "readQueue")
    /\ \E q \in QueueOrders :
         IF op[p] # "continue" THEN Go(p, "insert", DecideBy(p, q))
         ELSE IF q = <<>> THEN Go(p, "normRead", NoReg)
         ELSE Go(p, "shift", [NoReg EXCEPT !.prio = 1, !.date = reg[p].date, !.list = q])
    /\ Proceeds(p) /\ UNCHANGED <<backing, stale, crashed>>

\* Subscription.create, in the state the operation decided.
Insert(p) ==
    /\ At(p, "insert")
    /\ Unused # {}
    /\ LET new == First(Unused)
           to  == IF reg[p].prio = 0 THEN "active" ELSE "future"
       IN  /\ status' = [status EXCEPT ![new] = to]
           /\ priority' = [priority EXCEPT ![new] = reg[p].prio]
           /\ ends' = [ends EXCEPT ![new] = reg[p].date + 1]
           /\ Go(p, IF to = "active" THEN "usage"
                    ELSE IF op[p] = "grant" THEN "idle" ELSE "normRead",
                 [NoReg EXCEPT !.sub = new])
    /\ UNCHANGED backing
    /\ Writes(p)

-----------------------------------------------------------------------------
(* renew continue, cancelQueued and reorder.                               *)

Extend(p) ==
    /\ At(p, "extend") /\ reg[p].date < MaxDate
    /\ ends' = [ends EXCEPT ![reg[p].sub] = reg[p].date + 1]
    /\ Go(p, "cache", [reg[p] EXCEPT !.date = @ + 1])
    /\ UNCHANGED <<status, priority, backing>>
    /\ Writes(p)

\* Every queued row moves one place back to make room for the renewed period.
Shift(p) ==
    /\ At(p, "shift")
    /\ Pack(reg[p].list, 1)
    /\ Go(p, "insert", reg[p])
    /\ UNCHANGED <<status, ends, backing>>
    /\ Writes(p)

\* (Mutant) any subscription of the organization may be taken.
FindAnySubscription(p) ==
    /\ Begins(p, "cancelQueued")
    /\ \E s \in Subs \ (Unused \cup Active) :
           GoAs(p, "cancelQueued", "dequeue", [NoReg EXCEPT !.sub = s])
    /\ Reads(p)

FindQueued(p) ==
    /\ Begins(p, "cancelQueued")
    /\ \E s \in Queue : GoAs(p, "cancelQueued", "dequeue", [NoReg EXCEPT !.sub = s])
    /\ Reads(p)

Dequeue(p) ==
    /\ At(p, "dequeue")
    /\ status' = [status EXCEPT ![reg[p].sub] = "cancelled"]
    /\ priority' = [priority EXCEPT ![reg[p].sub] = 0]
    /\ Go(p, "normRead", NoReg)
    /\ UNCHANGED <<ends, backing>>
    /\ Writes(p)

\* reorder: the submitted list is a permutation of the queue it reads ...
Arrange(p) ==
    /\ Begins(p, "reorder")
    /\ \E q \in {r \in [1..Cardinality(Queue) -> Queue] : Listed(r) = Queue} :
           GoAs(p, "reorder", "rearrange", [NoReg EXCEPT !.list = q])
    /\ Reads(p)

\* ... it is written, ended rows are reset to 0 (one step: the second call
\* touches rows no other operation reads), and the dates follow.
Rearrange(p) ==
    /\ At(p, "rearrange")
    /\ priority' = [s \in Subs |->
                        CASE status[s] \in Ended         -> 0
                          [] s \in Listed(reg[p].list) -> Position(reg[p].list, s)
                          [] OTHER                     -> priority[s]]
    /\ Go(p, "normRead", NoReg)
    /\ UNCHANGED <<status, ends, backing>>
    /\ Writes(p)

\* recalculateQueueSchedule chains the queue to the active subscription's end ...
RedateRead(p) ==
    /\ At(p, "redateRead")
    /\ \E q \in QueueOrders :
           Go(p, IF q = <<>> THEN "idle" ELSE "redate",
              [NoReg EXCEPT !.list = q,
                            !.date = IF Active = {} THEN now ELSE ends[Latest(Active)]])
    /\ Reads(p)

\* ... and saves one row after the other.
Redate(p) ==
    LET s == Head(reg[p].list) IN
    /\ At(p, "redate")
    /\ ends' = [ends EXCEPT ![s] = reg[p].date + 1]
    /\ Go(p, IF Len(reg[p].list) = 1 THEN "idle" ELSE "redate",
          [reg[p] EXCEPT !.list = Tail(@), !.date = @ + 1])
    /\ UNCHANGED <<status, priority, backing>>
    /\ Writes(p)

-----------------------------------------------------------------------------
(* activateEligibleSubscriptions, with the clock read at its start.        *)

\* (Mutant) expired a cycle early.
OverdueSoon(at) == {s \in Active : ends[s] <= at + 1}

Overdue(at) == {s \in Active : ends[s] <= at}

ListOverdue(p) ==
    /\ Begins(p, "expire")
    /\ \E q \in {r \in [1..Cardinality(Overdue(now)) -> Overdue(now)] :
                    Listed(r) = Overdue(now)} :
           GoAs(p, "expire", IF q = <<>> THEN "dueFutures" ELSE "expireDrop",
              [NoReg EXCEPT !.list = q, !.date = now])
    /\ Reads(p)

ExpireDrop(p) ==
    /\ At(p, "expireDrop")
    /\ CacheTo(0)
    /\ Go(p, "expireSave", reg[p])
    /\ Proceeds(p) /\ UNCHANGED <<usages, stale>>

ExpireSave(p) ==
    /\ At(p, "expireSave")
    /\ status' = [status EXCEPT ![Head(reg[p].list)] = "expired"]
    /\ Go(p, IF Len(reg[p].list) = 1 THEN "checkActive" ELSE "expireDrop",
          [reg[p] EXCEPT !.list = Tail(@)])
    /\ UNCHANGED <<priority, ends, backing>>
    /\ Writes(p)

DueFutures(p) ==
    /\ At(p, "dueFutures")
    /\ Go(p, IF \E s \in Queue : ends[s] <= reg[p].date + 1 THEN "checkActive" ELSE "idle", NoReg)
    /\ Proceeds(p) /\ UNCHANGED <<backing, stale, crashed>>

\* (Mutant) whoever has a due subscription is promoted.
CheckNothing(p) ==
    /\ At(p, "checkActive")
    /\ Go(p, "earliest", NoReg)
    /\ Reads(p)

CheckActive(p) ==
    /\ At(p, "checkActive")
    /\ Go(p, IF Active = {} THEN "earliest" ELSE "idle", NoReg)
    /\ Reads(p)

Step(p) ==
    \/ FindActive(p) \/ FindHead(p) \/ PurgeUsage(p) \/ Retire(p) \/ DropCache(p)
    \/ Earliest(p) \/ Activate(p) \/ MakeUsage(p) \/ WriteCache(p)
    \/ NormRead(p) \/ NormWrite(p) \/ ReadActive(p) \/ ReadQueue(p) \/ Insert(p)
    \/ Extend(p) \/ Shift(p) \/ FindQueued(p) \/ Dequeue(p)
    \/ Arrange(p) \/ Rearrange(p) \/ RedateRead(p) \/ Redate(p)
    \/ ListOverdue(p) \/ ExpireDrop(p) \/ ExpireSave(p) \/ DueFutures(p) \/ CheckActive(p)

\* The process dies, or a database call throws and the operation ends (bound:
\* one fault in a behaviour, this or a lost Redis write).
Crash(p) ==
    /\ ~crashed /\ ~At(p, "idle")
    /\ Go(p, "idle", NoReg)
    /\ fresh' = [fresh EXCEPT ![p] = TRUE]
    /\ crashed' = TRUE
    /\ UNCHANGED <<rows, backing, now, stale>>

Tick ==
    /\ now < MaxTime
    /\ now' = now + 1
    /\ UNCHANGED <<rows, backing, op, pc, reg, history>>

Next ==
    \/ \E p \in Callers : Step(p) \/ Crash(p)
    \/ Tick

Spec == Init /\ [][Next]_vars

-----------------------------------------------------------------------------
(* Properties.                                                             *)

\* Every variable keeps its type.
TypeOK ==
    /\ status \in [Subs -> Statuses]
    /\ priority \in [Subs -> Nat]
    /\ ends \in [Subs -> Nat]
    /\ usages \in [Subs -> Nat]
    /\ cached \in Subs \cup {0}
    /\ now \in 0..MaxTime
    /\ op \in [Callers -> Ops \cup {"none"}]
    /\ pc \in [Callers -> Stages]
    /\ reg \in [Callers -> [sub : Subs \cup {0}, prio : Nat, date : Nat, list : Seq(Subs)]]
    /\ fresh \in [Callers -> BOOLEAN]
    /\ stale \in BOOLEAN
    /\ crashed \in BOOLEAN

\* However operations interleave and crash, the organization never has two
\* active subscriptions as long as no operation acted on what had changed
\* since it read: a version check at the writes would be all it takes.
OneActive == ~stale => Cardinality(Active) <= 1

\* The claim without the condition, as tests/subscription.test.ts states it.
SingleActive == Cardinality(Active) <= 1

\* Under the same condition what ended stays ended: no operation brings back a
\* cancelled or expired subscription or ends it a second time ...
EndedStaysEnded ==
    [][~stale' => \A s \in Subs : status[s] \in Ended => status'[s] = status[s]]_vars

\* ... and the worker expires only a period that is over, renewals included.
ExpiredWasOver ==
    ~stale => \A s \in Subs : status[s] = "expired" => ends[s] <= now

Quiet == ~stale /\ ~crashed /\ \A p \in Callers : pc[p] = "idle"

\* When every operation has run to its end the queue has the positions 1..n
\* and nothing else has one, so promotion order is the order admins see.
QueuePacked ==
    Quiet => /\ {priority[s] : s \in Queue} = 1..Cardinality(Queue)
             /\ \A s \in Subs \ Queue : priority[s] = 0

\* ... and scans are charged to the right period: the active subscription has
\* one Usage row and the hash, if there is one, is the active one's.  Without an
\* active one it may be an expired one's, which the reserve script refuses, but
\* never a cancelled one's, which it would still charge.
ActiveIsBacked ==
    Quiet => /\ \A s \in Active : usages[s] = 1
             /\ \/ cached \in Active \cup {0}
                \/ Active = {} /\ status[cached] = "expired"
=============================================================================
