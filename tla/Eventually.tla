----------------------------- MODULE Eventually -----------------------------
(***************************************************************************)
(* Components with work that must be done in the end: the webhook flushes, *)
(* the support notifications and the dashboard cache.  They share no state *)
(* and are explored one at a time: the initial state picks the scene, in   *)
(* which one component runs and the others rest, each with the bounds and  *)
(* the fairness of its own module.                                         *)
(***************************************************************************)
EXTENDS Integers, Sequences, FiniteSets

CONSTANTS
    Deliveries, Flushers, BatchSize, RetryLimit,                            \* WebhookDelivery
    News, Kinds, Staff, Creator, None, Rosters, Ids, MaxAttempts, MaxFaults, MaxReads,  \* SupportNews
    Requests, MaxChanges, MaxRounds, MaxRedisFaults                         \* DashboardCache

\* A job has an attempt at least; what happened has a name; ids are compared; no
\* roster names users that do not exist.
ASSUME NewsAssumption ==
    /\ MaxAttempts \in Nat \ {0} /\ Ids \subseteq Nat /\ "none" \notin Kinds
    /\ \A roster \in Rosters : roster.active \subseteq Staff \union {Creator}

VARIABLES
    scene,
    status, retries, ripe, enabled, locked, flushPc, held, copy, acked, refusedRows, exposed, stranded,
    kind, people, api, app, tries, writer, rows, newsFaults, reads, audience, failed, seen,
    db, due, entry, lock, asking, rounds, redisFaults, lost

hookVars    == <<status, retries, ripe, enabled, locked, flushPc, held, copy, acked, refusedRows,
                 exposed, stranded>>
newsVars    == <<kind, people, api, app, tries, writer, rows, newsFaults, reads, audience,
                 failed, seen>>
cacheVars   == <<db, due, entry, lock, asking, rounds, redisFaults, lost>>

vars == <<scene, hookVars, newsVars, cacheVars>>

In(name) == scene = name

-----------------------------------------------------------------------------
(* The components.                                                         *)

Hooks == INSTANCE WebhookDelivery WITH pc <- flushPc, refused <- refusedRows
Inbox == INSTANCE SupportNews WITH faults <- newsFaults
Cache == INSTANCE DashboardCache WITH task <- asking, faults <- redisFaults

-----------------------------------------------------------------------------
(* The state machine.                                                      *)

Init ==
    /\ scene \in {"hooks", "news", "cache"}
    /\ Hooks!Init /\ IF In("hooks") THEN TRUE ELSE enabled
    /\ Inbox!Init /\ Cache!Init

\* One component takes a step, the others stay as they are.
Resting ==
    /\ UNCHANGED scene
    /\ IF In("hooks") THEN TRUE ELSE UNCHANGED hookVars
    /\ IF In("news") THEN TRUE ELSE UNCHANGED newsVars
    /\ IF In("cache") THEN TRUE ELSE UNCHANGED cacheVars

Next ==
    \/ In("hooks") /\ Hooks!Next /\ Resting
    \/ In("news") /\ Inbox!Next /\ Resting
    \/ In("cache") /\ Cache!Next /\ Resting

\* The fairness of each component, in its scene.
Fairness ==
    /\ \A f \in Flushers : /\ WF_hookVars(In("hooks") /\ Hooks!Acquire(f))
                           /\ WF_hookVars(In("hooks") /\ Hooks!Step(f))
                           /\ SF_hookVars(In("hooks") /\ Hooks!Find(f))
                           /\ SF_hookVars(In("hooks") /\ Hooks!Mark(f))
    /\ \A d \in Deliveries : WF_hookVars(In("hooks") /\ Hooks!Ripen(d))
    /\ WF_hookVars(In("hooks") /\ Hooks!LockExpires)
    /\ \A n \in News : /\ WF_newsVars(In("news") /\ Inbox!Request(n))
                       /\ WF_newsVars(In("news") /\ Inbox!Work(n))
    /\ \A w \in Inbox!Writers : WF_newsVars(In("news") /\ Inbox!Dispatch(w))
    /\ WF_cacheVars(In("cache") /\ Cache!Age)
    /\ \A r \in Requests : WF_cacheVars(In("cache") /\ Cache!Work(r))

Spec == Init /\ [][Next]_vars /\ Fairness

-----------------------------------------------------------------------------
(* Properties.  Each is what the components' own modules state.            *)

\* The notifications are well-formed, and whoever the dispatch of a support event is done
\* with finds an unread row of its key, unless he has read one since or one has expired,
\* the writing failed or the process died before it, or a row already read has the key.
NewsInView == In("news") => Inbox!TypeOK /\ Inbox!NewsInView

\* The same without the last exception: a new event is shown although a row of its
\* kind was read (tests/notification.test.ts, 'a read row does not block a new one').
ReadRowDoesNotBlock == In("news") => Inbox!ReadRowDoesNotBlock

\* Every support event is worked off, by the request and by the queue.
EveryEventHandled == Inbox!EveryEventHandled

\* A pending delivery is delivered, or failed, or stranded by a flush that was lost.
EventuallySettled == Hooks!EventuallySettled

\* The cache is well-formed, and one caller computes the widget at a time while the
\* lock is with its holder.
OneCallerRefreshes == Cache!TypeOK /\ Cache!OneCallerRefreshes

\* Both: what the components that must go on in the end keep on the way.
InViewAndComputedOnce == NewsInView /\ OneCallerRefreshes

\* What a widget shows is current in the end, however a computation overtakes an
\* invalidation.
CacheConverges == Cache!CacheConverges
=============================================================================
