----------------------------- MODULE SupportNews -----------------------------
(***************************************************************************)
(* How people learn of a support event: the in-app row written by the      *)
(* request itself (queues/support.queue.ts), the same dispatch repeated by *)
(* the app-notifications worker (queues/notification.queue.ts), and the    *)
(* rows themselves (services/notification.service.ts).                     *)
(*                                                                         *)
(* All events are of one ticket.  A dispatch is a run of                   *)
(* dispatchAppNotification: it looks up the recipients and then handles    *)
(* them one by one, with one Mongo call per step.  The queue is BullMQ's:  *)
(* a job id that is still kept is not added again, a failed attempt is     *)
(* repeated up to a limit, and the job of a dead worker is handed out      *)
(* again.                                                                  *)
(*                                                                         *)
(* Left out: severities, texts and links of a row, paging and counting,    *)
(* and the e-mail of the same event, which has a queue of its own.         *)
(***************************************************************************)
EXTENDS Naturals, FiniteSets

CONSTANTS News,         \* support events, numbered in the order they happen
          Kinds,        \* bound: what may happen
          Staff,        \* super admins
          Creator,      \* the user who opened the ticket
          None,         \* no assignee
          Rosters,      \* bound: assignees and active users; they do not change
          Ids,          \* bound: ids of notification rows
          MaxAttempts,  \* `attempts` of a job
          MaxFaults,    \* bound on failed calls and deaths of a process
          MaxReads      \* bound on the times rows are marked read

VARIABLES
    kind,     \* what happened, by event; "none" until it does
    people,   \* the ticket's assignee, and the users with status 1
    api,      \* where the request that caused an event stands
    app,      \* the event's job in the app-notifications queue
    tries,    \* attempts of that job so far
    writer,   \* the dispatches, one in the request and one in the worker
    rows,     \* tbl_notification
    faults, reads,
    audience, \* history: the recipients each finished look-up found
    failed,   \* history: (dispatch, user) pairs that met an error
    seen      \* history: the events each user has been shown

budget == <<faults, reads>>
history == <<audience, failed, seen>>
vars == <<kind, people, api, app, tries, writer, rows, budget, history>>

Users == Staff \union {Creator}
ToStaff == {"ticket_created", "customer_replied"}
Statuses == {"resolved", "closed"}  \* the new status of a status_changed event

Writers == News \X {"direct", "queued"}
Event(w) == w[1]
Resting == [pc |-> "idle", todo |-> {}, user |-> None]

\* The dedupe key of an event: one for the conversation, one for each status.
Key(n) == IF kind[n] \in Statuses THEN kind[n] ELSE "ticket"

\* A second change to the same status has the job id of the first.
SameJob(m, n) == m = n \/ (kind[m] = kind[n] /\ kind[n] \in Statuses \union {"ticket_created"})

Unread(u, key) == {r \in rows : r.user = u /\ r.key = key /\ ~r.read}
(* Mutant: the unique index leaves the key out. *)
TakenByAny(u, key) == \E r \in rows : r.user = u

Taken(u, key) == \E r \in rows : r.user = u /\ r.key = key
FreeIds == {i \in Ids : \A r \in rows : r.id # i}
Lowest(S) == CHOOSE i \in S : \A j \in S : i <= j

Init ==
    /\ kind = [n \in News |-> "none"]
    /\ people \in Rosters
    /\ api = [n \in News |-> "none"]
    /\ app = [n \in News |-> "none"]
    /\ tries = [n \in News |-> 0]
    /\ writer = [w \in Writers |-> Resting]
    /\ rows = {}
    /\ faults = 0 /\ reads = 0
    /\ audience = [w \in Writers |-> {}] /\ failed = {}
    /\ seen = [u \in Users |-> {}]

Fault == faults < MaxFaults /\ faults' = faults + 1

-----------------------------------------------------------------------------
(* The request: enqueueSupportNotification, not awaited by its caller.     *)

\* The ticket or message is stored; the first event of a ticket is its creation.
Happen(n, k) ==
    /\ kind[n] = "none" /\ \A m \in News : m < n => kind[m] # "none"
    /\ k = "ticket_created" => \A m \in News : kind[m] = "none"
    /\ kind' = [kind EXCEPT ![n] = k]
    /\ api' = [api EXCEPT ![n] = "dispatch"]
    /\ writer' = [writer EXCEPT ![<<n, "direct">>].pc = "lookup"]
    /\ UNCHANGED <<people, app, tries, rows, budget, history>>

Added(queue, n, accepted) ==
    [queue EXCEPT ![n] = IF ~accepted \/ \E m \in News : SameJob(m, n) /\ queue[m] = "waiting"
                         THEN @ ELSE "waiting"]

\* The dispatch is over, with or without an error: the job is added.
\* Not accepted: Redis is not configured, refuses the job or its id
\* (logged and forgotten), or still keeps a job of the same id; or the process
\* died before it came to that.
Enqueue(n, accepted) ==
    /\ api[n] = "dispatch" /\ writer[<<n, "direct">>].pc = "idle"
    /\ app' = Added(app, n, accepted)
    /\ api' = [api EXCEPT ![n] = "done"]
    /\ UNCHANGED <<kind, people, tries, writer, rows, budget, history>>

\* The process dies while it dispatches.
ApiDies(n) ==
    /\ api[n] = "dispatch" /\ Fault
    /\ api' = [api EXCEPT ![n] = "done"]
    /\ writer' = [writer EXCEPT ![<<n, "direct">>] = Resting]
    /\ audience' = [audience EXCEPT ![<<n, "direct">>] = @ \ writer[<<n, "direct">>].todo]
    /\ UNCHANGED <<kind, people, app, tries, rows, reads, failed, seen>>

-----------------------------------------------------------------------------
(* A dispatch: recipients, then createForUsers.                            *)

Recipients(n) ==
    CASE kind[n] = "ticket_created" -> Staff \intersect people.active
      [] kind[n] = "customer_replied" -> IF people.assigned \in people.active THEN {people.assigned}
                                         ELSE Staff \intersect people.active
      [] OTHER -> {Creator} \intersect people.active

\* The dispatch of `w` is over: so is the job, if it was a job's.
Finished(w) == IF w[2] = "queued" THEN [app EXCEPT ![w[1]] = "done"] ELSE app

LookUp(w) ==
    LET to == Recipients(Event(w)) IN
    /\ writer[w].pc = "lookup"
    /\ writer' = [writer EXCEPT ![w] = IF to = {} THEN Resting
                                       ELSE [@ EXCEPT !.pc = "find", !.todo = to]]
    /\ app' = IF to = {} THEN Finished(w) ELSE app
    /\ audience' = [audience EXCEPT ![w] = to]
    /\ failed' = {f \in failed : f[1] # w}
    /\ UNCHANGED <<kind, people, api, tries, rows, budget, seen>>

\* The look-up throws: the request goes on, the job fails its attempt.
LookUpFails(w) ==
    /\ writer[w].pc = "lookup" /\ Fault
    /\ writer' = [writer EXCEPT ![w] = IF w[2] = "direct" THEN Resting
                                       ELSE [Resting EXCEPT !.pc = "thrown"]]
    /\ UNCHANGED <<kind, people, api, app, tries, rows, reads, history>>

FindUnread(w, u) ==
    LET mine == Unread(u, Key(Event(w))) IN
    /\ writer[w].pc = "find" /\ u \in writer[w].todo
    /\ writer' = [writer EXCEPT ![w].pc = IF mine = {} THEN "create" ELSE "update",
                                ![w].user = u]
    /\ UNCHANGED <<kind, people, api, app, tries, rows, budget, history>>

\* The next recipient, or the end of the dispatch.
NextUser(w) ==
    LET left == writer[w].todo \ {writer[w].user} IN
    /\ writer' = [writer EXCEPT ![w] = IF left = {} THEN Resting
                                       ELSE [Resting EXCEPT !.pc = "find", !.todo = left]]
    /\ app' = IF left = {} THEN Finished(w) ELSE app

\* The row found gets the new text and 90 more days, read meanwhile or not: a
\* row that has been read stays read.
Refresh(w) ==
    /\ writer[w].pc = "update"
    /\ NextUser(w)
    /\ UNCHANGED <<kind, people, api, tries, rows, budget, history>>

\* The unique index covers read rows too: the insert is rejected while the user
\* has any row of this key, and the error is logged.
Create(w) ==
    LET u == writer[w].user  key == Key(Event(w)) IN
    /\ writer[w].pc = "create" /\ (Taken(u, key) \/ FreeIds # {})
    /\ rows' = IF Taken(u, key) THEN rows
               ELSE rows \union {[id |-> Lowest(FreeIds), user |-> u, key |-> key, read |-> FALSE]}
    /\ NextUser(w)
    /\ UNCHANGED <<kind, people, api, tries, budget, history>>

\* Any error while one user is handled is logged, and the others get theirs.
WriteFails(w) ==
    /\ writer[w].pc \in {"update", "create"} /\ Fault
    /\ failed' = failed \union {<<w, writer[w].user>>}
    /\ NextUser(w)
    /\ UNCHANGED <<kind, people, api, tries, rows, reads,
                   audience, seen>>

-----------------------------------------------------------------------------
(* The worker.                                                             *)

TakeApp(n) ==
    /\ app[n] = "waiting"
    /\ app' = [app EXCEPT ![n] = "taken"]
    /\ writer' = [writer EXCEPT ![<<n, "queued">>].pc = "lookup"]
    /\ UNCHANGED <<kind, people, api, tries, rows, budget, history>>

(* Mutant: a job whose attempt failed is not handed out again. *)
AttemptStuck(queue, n, used) == queue

Attempt(queue, n, used) ==
    [queue EXCEPT ![n] = IF used < MaxAttempts THEN "waiting" ELSE "failed"]

AppFails(n) ==
    /\ writer[<<n, "queued">>].pc = "thrown"
    /\ tries' = [tries EXCEPT ![n] = @ + 1]
    /\ app' = Attempt(app, n, tries[n] + 1)
    /\ writer' = [writer EXCEPT ![<<n, "queued">>] = Resting]
    /\ UNCHANGED <<kind, people, api, rows, budget, history>>

Busy(n) == app[n] = "taken"

\* The worker process dies; BullMQ hands its unfinished jobs out again.
WorkerDies ==
    /\ Fault /\ \E n \in News : Busy(n)
    /\ app' = [n \in News |-> IF Busy(n) THEN "waiting" ELSE app[n]]
    /\ writer' = [w \in Writers |-> IF w[2] = "queued" THEN Resting ELSE writer[w]]
    /\ audience' = [w \in Writers |-> IF w[2] = "queued" THEN audience[w] \ writer[w].todo
                                      ELSE audience[w]]
    /\ UNCHANGED <<kind, people, api, tries, rows, reads, failed, seen>>

-----------------------------------------------------------------------------
(* The users and the clock.                                                *)

Shown(u, S) == [seen EXCEPT ![u] = @ \union {n \in News : kind[n] # "none" /\ Key(n) \in S}]

\* markRead of one row, or of all of them (readAll).
MarkRead(u, S) ==
    /\ reads < MaxReads /\ reads' = reads + 1
    /\ S # {} /\ S \subseteq {r \in rows : r.user = u /\ ~r.read}
    /\ rows' = (rows \ S) \union {[r EXCEPT !.read = TRUE] : r \in S}
    /\ seen' = Shown(u, {r.key : r \in S})
    /\ UNCHANGED <<kind, people, api, app, tries, writer, faults,
                   audience, failed>>

\* The TTL index removes a row 30 days after it was read, or 90 days after it
\* was written.  Dispatches take seconds, so none is running.
Expire(r) ==
    /\ \A w \in Writers : writer[w].pc = "idle"
    /\ rows' = rows \ {r}
    /\ seen' = Shown(r.user, {r.key})
    /\ UNCHANGED <<kind, people, api, app, tries, writer, budget,
                   audience, failed>>

Request(n) == \E accepted \in BOOLEAN : Enqueue(n, accepted)

Dispatch(w) ==
    \/ LookUp(w) \/ Refresh(w) \/ Create(w)
    \/ \E u \in Users : FindUnread(w, u)

Work(n) == TakeApp(n) \/ AppFails(n)

Next ==
    \/ \E n \in News : \/ Request(n) \/ Work(n) \/ ApiDies(n)
                       \/ \E k \in Kinds : Happen(n, k)
    \/ \E w \in Writers : Dispatch(w) \/ LookUpFails(w) \/ WriteFails(w)
    \/ WorkerDies
    \/ \E u \in Users, S \in SUBSET rows : MarkRead(u, S)
    \/ \E r \in rows : Expire(r)

\* Requests run on, and the workers take their jobs.
Fairness ==
    /\ \A n \in News : WF_vars(Request(n)) /\ WF_vars(Work(n))
    /\ \A w \in Writers : WF_vars(Dispatch(w))

Spec == Init /\ [][Next]_vars /\ Fairness

-----------------------------------------------------------------------------
(* Properties.                                                             *)

Row == [id : Ids, user : Users, key : {"ticket"} \union Statuses, read : BOOLEAN]

\* Type invariant: jobs, dispatches and rows are well formed, and a row's id is its own.
TypeOK ==
    /\ kind \in [News -> Kinds \union {"none"}]
    /\ rows \subseteq Row /\ Cardinality({r.id : r \in rows}) = Cardinality(rows)
    /\ \A n \in News : /\ app[n] \in {"none", "waiting", "taken", "done", "failed"}
                       /\ tries[n] <= MaxAttempts
    /\ \A w \in Writers : writer[w].todo \subseteq Users

\* Nothing of the dispatch is still to come for `u`.
Reached(w, u) == u \in audience[w] /\ writer[w].pc # "lookup"
                 /\ u \notin writer[w].todo /\ <<w, u>> \notin failed

InView(w, u) == \/ Event(w) \in seen[u]
                \/ Unread(u, Key(Event(w))) # {}

\* Whoever a dispatch is done with can see it: an unread row of the event's key, unless
\* the user has read such a row since, or one has expired since.  Two things alone
\* stand in the way: a row of the same key the user had already read, and an error
\* while this very user was handled or a death of the process before it.
NewsInView ==
    \A w \in Writers : \A u \in Users :
        Reached(w, u) => InView(w, u) \/ \E r \in rows : r.user = u /\ r.key = Key(Event(w)) /\ r.read

\* Without the first exception ('a read row does not block a new one').
ReadRowDoesNotBlock ==
    \A w \in Writers : \A u \in Users :
        Reached(w, u) => InView(w, u)

Handled(n) == api[n] = "done" /\ app[n] \in {"none", "done", "failed"}

\* Every event is worked off: its request finishes its dispatch, and the job, if
\* one was accepted, ends after at most MaxAttempts attempts.
EveryEventHandled == \A n \in News : kind[n] # "none" ~> Handled(n)
=============================================================================
