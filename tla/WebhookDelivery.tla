--------------------------- MODULE WebhookDelivery ---------------------------
(***************************************************************************)
(* Delivery of scan events to one organization's webhook                   *)
(* (queues/webhook.worker.ts): rows of tbl_webhookDelivery, the Redis lock *)
(* webhook-batch:lock:<org>, and the flushes that BullMQ jobs and the      *)
(* one-second sweep run side by side in the worker process.                *)
(*                                                                         *)
(* One step is one awaited Mongo, Redis or HTTP call.  Rows are numbered   *)
(* in the order of created_at.  Time appears as three events: a row's      *)
(* debounce or backoff has passed (Ripen), the 1500 ms of the lock have    *)
(* passed (LockExpires), and a POST fails, the abort timer included.       *)
(*                                                                         *)
(* Left out: the body and its signature, batch_size and retry_limit being  *)
(* edited, other organizations (no shared row and no shared lock).         *)
(***************************************************************************)
EXTENDS Naturals, FiniteSets

CONSTANTS Deliveries,  \* webhook rows, numbered in creation order
          Flushers,    \* flushOrgBatches calls the worker may run at once
          BatchSize,   \* webhook config batch_size
          RetryLimit   \* webhook config retry_limit

ASSUME WebhookAssumption ==
    /\ Deliveries \subseteq Nat /\ IsFiniteSet(Deliveries)
    /\ IsFiniteSet(Flushers)
    /\ BatchSize \in Nat \ {0}
    /\ RetryLimit \in Nat \ {0}

VARIABLES
    status,    \* status of each row, "absent" before it is created
    retries,   \* retry_count of each row
    ripe,      \* rows whose debounce or backoff has passed
    enabled,   \* an enabled tbl_webhookConfig exists
    locked,    \* the lock key exists
    pc,        \* where each flush stands
    held,      \* the rows a flush has picked, then claimed
    copy,      \* retry_count of those rows when the flush read them
    acked,     \* history: rows in a batch the endpoint answered with 2xx
    refused,   \* history: rows failed for want of an enabled config
    exposed,   \* history: a flush has run without the protection of the lock
    stranded   \* history: rows a flush dropped while they were 'processing'

rows    == <<status, retries, ripe>>
flush   == <<pc, held, copy>>
history == <<acked, refused, exposed, stranded>>
vars    == <<rows, enabled, locked, flush, history>>

Statuses == {"absent", "pending", "processing", "delivered", "failed"}
Settled  == {"delivered", "failed"}
Stages   == {"idle", "find", "mark", "reread", "config", "post", "deliver",
             "retry", "abandon", "unlock"}

Pending    == {d \in Deliveries : status[d] = "pending"}
Processing == {d \in Deliveries : status[d] = "processing"}

Init ==
    /\ status = [d \in Deliveries |-> "absent"]
    /\ retries = [d \in Deliveries |-> 0]
    /\ ripe = {}
    /\ enabled \in BOOLEAN
    /\ locked = FALSE
    /\ pc = [f \in Flushers |-> "idle"]
    /\ held = [f \in Flushers |-> {}]
    /\ copy = [f \in Flushers |-> [d \in Deliveries |-> 0]]
    /\ acked = {} /\ refused = {} /\ stranded = {}
    /\ exposed = FALSE

Goto(f, stage) == pc' = [pc EXCEPT ![f] = stage]

-----------------------------------------------------------------------------
(* The API: createDeliveryAndEnqueue writes the row, then adds a job.  The *)
(* job only starts a flush, as the sweep does for any pending row, so a    *)
(* lost job changes nothing here.                                          *)

Create(d) ==
    /\ status[d] = "absent"
    /\ \A e \in Deliveries : status[e] = "absent" => d <= e
    /\ status' = [status EXCEPT ![d] = "pending"]
    /\ UNCHANGED <<retries, ripe, enabled, locked, flush, history>>

-----------------------------------------------------------------------------
(* flushOrgBatches, step by step.                                          *)

\* (Mutant) SET without NX: everybody wins the lock.
AcquireWithoutNX(f) ==
    /\ pc[f] = "idle"
    /\ locked' = TRUE
    /\ Goto(f, "find")
    /\ UNCHANGED <<rows, enabled, held, copy, history>>

\* SET NX won the lock.  A flush that loses it returns and changes nothing.
Acquire(f) ==
    /\ pc[f] = "idle" /\ ~locked
    /\ locked' = TRUE
    /\ Goto(f, "find")
    /\ UNCHANGED <<rows, enabled, held, copy, history>>

\* Redis failed: the flush goes on without a lock.
FailOpen(f) ==
    /\ pc[f] = "idle"
    /\ exposed' = TRUE
    /\ Goto(f, "find")
    /\ UNCHANGED <<rows, enabled, locked, held, copy, acked, refused, stranded>>

\* The BatchSize oldest pending rows.
Oldest(S) == {d \in S : Cardinality({e \in S : e < d}) < BatchSize}

\* (Mutant) only a full batch is ever due.
IsFullBatch(S) == Cardinality(S) >= BatchSize

\* isBatchDue: a full batch is due at once, a partial one when every row in it
\* has waited.
IsBatchDue(S) == S # {} /\ (Cardinality(S) >= BatchSize \/ S \subseteq ripe)

\* claimPendingBatch: read the pending rows ...
Find(f) ==
    LET found == Oldest(Pending) IN
    /\ pc[f] = "find"
    /\ \/ /\ IsBatchDue(found)
          /\ held' = [held EXCEPT ![f] = found]
          /\ Goto(f, "mark")
       \/ /\ ~IsBatchDue(found)
          /\ Goto(f, "unlock")
          /\ UNCHANGED held
    /\ UNCHANGED <<rows, enabled, locked, copy, history>>

Claim(S) ==
    /\ status' = [d \in Deliveries |-> IF d \in S THEN "processing" ELSE status[d]]
    /\ retries' = [d \in Deliveries |-> IF d \in S THEN retries[d] + 1 ELSE retries[d]]
    /\ ripe' = ripe \ S

\* (Mutant) the update marks every pending row, not the rows it picked.
MarkAllPending(f) ==
    /\ pc[f] = "mark"
    /\ Claim(Pending)
    /\ Goto(f, "reread")
    /\ UNCHANGED <<enabled, locked, held, copy, history>>

\* ... mark those of them still pending as 'processing' ...
Mark(f) ==
    /\ pc[f] = "mark"
    /\ Claim(held[f] \cap Pending)
    /\ Goto(f, "reread")
    /\ UNCHANGED <<enabled, locked, held, copy, history>>

\* ... and take every picked row that is 'processing', whoever marked it.
Reread(f) ==
    LET claimed == held[f] \cap Processing IN
    /\ pc[f] = "reread"
    /\ held' = [held EXCEPT ![f] = claimed]
    /\ copy' = [copy EXCEPT ![f] = [d \in Deliveries |-> IF d \in claimed THEN retries[d] ELSE 0]]
    /\ Goto(f, IF claimed = {} THEN "unlock" ELSE "config")
    /\ UNCHANGED <<rows, enabled, locked, history>>

\* sendBatchForOrg reads the config again.
ReadConfig(f) ==
    /\ pc[f] = "config"
    /\ Goto(f, IF enabled THEN "post" ELSE "abandon")
    /\ UNCHANGED <<rows, enabled, locked, held, copy, history>>

\* Forget row d: its save is done.
LetGo(f, d) ==
    /\ held' = [held EXCEPT ![f] = @ \ {d}]
    /\ copy' = [copy EXCEPT ![f][d] = 0]
    /\ IF held[f] = {d} THEN Goto(f, "unlock") ELSE UNCHANGED pc

\* No config: each row is saved as failed, one save after the other.
Abandon(f, d) ==
    /\ pc[f] = "abandon" /\ d \in held[f]
    /\ status' = [status EXCEPT ![d] = "failed"]
    /\ refused' = refused \cup {d}
    /\ LetGo(f, d)
    /\ UNCHANGED <<retries, ripe, enabled, locked, acked, exposed, stranded>>

PostOk(f) ==
    /\ pc[f] = "post"
    /\ acked' = acked \cup held[f]
    /\ Goto(f, "deliver")
    /\ UNCHANGED <<rows, enabled, locked, held, copy, refused, exposed, stranded>>

\* (Mutant) the response status is not looked at.
PostFailsUnchecked(f) ==
    /\ pc[f] = "post"
    /\ Goto(f, "deliver")
    /\ UNCHANGED <<rows, enabled, locked, held, copy, history>>

\* A refused connection, a non-2xx answer, or the abort after timeout_ms; the
\* endpoint may have handled the events all the same.
PostFails(f) ==
    /\ pc[f] = "post"
    /\ Goto(f, "retry")
    /\ UNCHANGED <<rows, enabled, locked, held, copy, history>>

\* markDelivered: whatever the rows' status is by now.
MarkDelivered(f) ==
    /\ pc[f] = "deliver"
    /\ status' = [d \in Deliveries |-> IF d \in held[f] THEN "delivered" ELSE status[d]]
    /\ held' = [held EXCEPT ![f] = {}]
    /\ copy' = [copy EXCEPT ![f] = [d \in Deliveries |-> 0]]
    /\ Goto(f, "unlock")
    /\ UNCHANGED <<retries, ripe, enabled, locked, history>>

\* markDelivered threw inside the try: the batch counts as failed.
MarkDeliveredFails(f) ==
    /\ pc[f] = "deliver"
    /\ Goto(f, "retry")
    /\ UNCHANGED <<rows, enabled, locked, held, copy, history>>

\* (Mutant) one attempt more than the limit.
OutcomeOfOneMore(n) == IF n > RetryLimit THEN "failed" ELSE "pending"

\* (Mutant) a status the schema does not have.
OutcomeRetrying(n) == IF n >= RetryLimit THEN "failed" ELSE "retrying"

Outcome(n) == IF n >= RetryLimit THEN "failed" ELSE "pending"

\* markBatchFailed saves each row by what it read when it claimed the row.
MarkFailed(f, d) ==
    /\ pc[f] = "retry" /\ d \in held[f]
    /\ status' = [status EXCEPT ![d] = Outcome(copy[f][d])]
    /\ LetGo(f, d)
    /\ UNCHANGED <<retries, ripe, enabled, locked, history>>

\* The finally block deletes the lock, its own or not; a Redis error is ignored.
Unlock(f) ==
    /\ pc[f] = "unlock"
    /\ locked' \in {FALSE, locked}
    /\ Goto(f, "idle")
    /\ held' = [held EXCEPT ![f] = {}]
    /\ copy' = [copy EXCEPT ![f] = [d \in Deliveries |-> 0]]
    /\ UNCHANGED <<rows, enabled, history>>

\* A Mongo call outside the try, or a save in its catch, throws: the flush ends
\* through the finally block, and what it had marked stays 'processing'.
Throw(f) ==
    /\ pc[f] \in {"find", "mark", "reread", "config", "retry", "abandon"}
    /\ stranded' = stranded \cup (held[f] \cap Processing)
    /\ Goto(f, "unlock")
    /\ UNCHANGED <<rows, enabled, locked, held, copy, acked, refused, exposed>>

Step(f) ==
    \/ Find(f) \/ Mark(f) \/ Reread(f) \/ ReadConfig(f)
    \/ PostOk(f) \/ PostFails(f) \/ MarkDelivered(f) \/ Unlock(f)
    \/ \E d \in Deliveries : Abandon(f, d) \/ MarkFailed(f, d)

-----------------------------------------------------------------------------
(* The environment.                                                        *)

\* The debounce of a new row, or the backoff of a retried one, has passed.
Ripen(d) ==
    /\ status[d] \in {"pending", "processing"} /\ d \notin ripe
    /\ ripe' = ripe \cup {d}
    /\ UNCHANGED <<status, retries, enabled, locked, flush, history>>

\* 1500 ms passed; the POST alone may take timeout_ms, 5000 by default.
LockExpires ==
    /\ locked
    /\ locked' = FALSE
    /\ exposed' = (exposed \/ \E f \in Flushers : pc[f] # "idle")
    /\ UNCHANGED <<rows, enabled, flush, acked, refused, stranded>>

\* The organization switches its webhook on or off.
EditConfig ==
    /\ enabled' = ~enabled
    /\ UNCHANGED <<rows, locked, flush, history>>

\* The worker process dies with all its flushes; nothing at boot looks for
\* 'processing' rows.
Crash ==
    /\ \E f \in Flushers : pc[f] # "idle"
    /\ pc' = [f \in Flushers |-> "idle"]
    /\ held' = [f \in Flushers |-> {}]
    /\ copy' = [f \in Flushers |-> [d \in Deliveries |-> 0]]
    /\ stranded' = stranded \cup Processing
    /\ UNCHANGED <<rows, enabled, locked, acked, refused, exposed>>

Next ==
    \/ \E d \in Deliveries : Create(d) \/ Ripen(d)
    \/ \E f \in Flushers : Acquire(f) \/ FailOpen(f) \/ Step(f)
                           \/ MarkDeliveredFails(f) \/ Throw(f)
    \/ LockExpires
    \/ EditConfig
    \/ Crash

\* The sweep runs every second, an awaited call ends, clocks advance, and Mongo
\* does not throw on the same query forever.  Nothing makes Redis fail, the
\* process die, or the config change.
Fairness ==
    /\ \A f \in Flushers : /\ WF_vars(Acquire(f)) /\ WF_vars(Step(f))
                           /\ SF_vars(Find(f)) /\ SF_vars(Mark(f))
    /\ \A d \in Deliveries : WF_vars(Ripen(d))
    /\ WF_vars(LockExpires)

Spec == Init /\ [][Next]_vars /\ Fairness

-----------------------------------------------------------------------------
(* Properties.                                                             *)

\* Every variable keeps its type.
TypeOK ==
    /\ status \in [Deliveries -> Statuses]
    /\ retries \in [Deliveries -> Nat]
    /\ ripe \in SUBSET Deliveries
    /\ enabled \in BOOLEAN
    /\ locked \in BOOLEAN
    /\ pc \in [Flushers -> Stages]
    /\ held \in [Flushers -> SUBSET Deliveries]
    /\ copy \in [Flushers -> [Deliveries -> Nat]]
    /\ acked \in SUBSET Deliveries
    /\ refused \in SUBSET Deliveries
    /\ exposed \in BOOLEAN
    /\ stranded \in SUBSET Deliveries

\* Two flushes never have the same row in their hands, as long as Redis
\* answers and no flush outlives its lock, through crashes and failed unlocks.
OneFlushPerRow ==
    ~exposed => \A f, g \in Flushers : f # g => held[f] \cap held[g] = {}

\* What the comment on the lock claims without the condition: the status claim
\* alone keeps two flushes from posting the same row at once.
NoDoubleSend ==
    \A f, g \in Flushers :
        f # g /\ pc[f] = "post" /\ pc[g] = "post" => held[f] \cap held[g] = {}

\* Under the same condition no row is tried more often than retry_limit.
RetriesWithinLimit == ~exposed => \A d \in Deliveries : retries[d] <= RetryLimit

\* A row settles for a reason even when flushes overlap: delivered rows were
\* answered with 2xx, failed rows used up the limit or had no config.
SettledForAReason ==
    \A d \in Deliveries :
        /\ status[d] = "delivered" => d \in acked
        /\ status[d] = "failed" => retries[d] >= RetryLimit \/ d \in refused

\* A row marked 'processing' is in the hands of some flush, or one of the
\* flushes that held it died or threw: nothing else loses a row.
ProcessingIsHeld ==
    Processing \subseteq stranded \cup UNION {held[f] : f \in Flushers}

\* A settled row is final, under the condition on the lock: a late answer of
\* one flush does not undo what another one recorded.
SettledIsFinal ==
    [][~exposed' => \A d \in Deliveries : status[d] \in Settled => status'[d] = status[d]]_vars

\* Every event is delivered or given up in the end, overlapping flushes and
\* lost locks included, unless a flush dropped it while it was 'processing'.
EventuallySettled ==
    \A d \in Deliveries :
        status[d] = "pending" ~> status[d] \in Settled \/ d \in stranded
=============================================================================
