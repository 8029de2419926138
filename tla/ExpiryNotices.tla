---------------------------- MODULE ExpiryNotices ----------------------------
(***************************************************************************)
(* The in-app notices of a subscription that is about to end:              *)
(* checkSubscriptionReminders of services/subscription-notification.       *)
(* service.ts, which several workers may run at once and which keeps an    *)
(* array of its own in the subscription.  Windows go by the time that      *)
(* remains, in ticks.                                                      *)
(*                                                                         *)
(* Left out: texts, and the row a notice is (see SupportNews).  Nothing in *)
(* src/ calls this function; Start is its caller.                          *)
(***************************************************************************)
EXTENDS Naturals

CONSTANTS Subs,          \* subscriptions
          AppWindows,    \* the configured windows, in ticks
          Workers,       \* processes that run the function
          Terms,         \* bound: lengths of the subscriptions' terms
          AppHorizon,    \* bound on the clock
          MaxAppFaults   \* bound on errors and deaths of a worker

VARIABLES
    now,      \* the clock
    sub,      \* tbl_subscriptions: status, expires_at, the cycle's length, app_reminders_sent
    run,      \* what each worker has still to do, by subscription
    faults,
    notices,  \* history: number of notices by subscription and window
    dropped   \* history: windows whose notice was lost to a fault

history == <<notices, dropped>>
vars == <<now, sub, run, faults, history>>

Init ==
    /\ now = 0
    /\ \E term \in [Subs -> Terms] :
          sub = [s \in Subs |-> [status |-> "active", expires |-> term[s], term |-> term[s],
                                 sent |-> {}]]
    /\ run = [w \in Workers |-> {}]
    /\ faults = 0 /\ dropped = {}
    /\ notices = [s \in Subs |-> [d \in AppWindows |-> 0]]

\* A subscription no longer than a window skips it: counted from started_at, which is 0,
\* to expires_at, which a renewal moves.
Applicable(s) == {d \in AppWindows : sub[s].expires - now <= d /\ sub[s].expires > d}
MostUrgent(S) == CHOOSE d \in S : \A e \in S : d <= e

Candidates == {s \in Subs : sub[s].status = "active" /\ sub[s].expires > now /\ Applicable(s) # {}}

\* One query; what it read, and the clock at that time, decide on the windows.
Start(w) ==
    /\ run[w] = {} /\ Candidates # {}
    /\ run' = [run EXCEPT ![w] = {[sub |-> s, days |-> MostUrgent(Applicable(s)), won |-> FALSE] :
                                     s \in Candidates}]
    /\ UNCHANGED <<now, sub, faults, history>>

Recorded(x) == [sub EXCEPT ![x.sub].sent = @ \union {d \in AppWindows : d >= x.days}]

(* Mutant: the window is recorded without the condition. *)
ClaimAnyway(w, x) ==
    /\ ~x.won /\ \A y \in run[w] : ~y.won
    /\ sub' = Recorded(x)
    /\ run' = [run EXCEPT ![w] = (@ \ {x}) \union {[x EXCEPT !.won = TRUE]}]
    /\ UNCHANGED <<now, faults, history>>

\* One conditional update decides who notifies, and records the larger windows too.
Claim(w, x) ==
    /\ ~x.won /\ \A y \in run[w] : ~y.won
    /\ IF x.days \in sub[x.sub].sent
       THEN /\ run' = [run EXCEPT ![w] = @ \ {x}]
            /\ UNCHANGED sub
       ELSE /\ run' = [run EXCEPT ![w] = (@ \ {x}) \union {[x EXCEPT !.won = TRUE]}]
            /\ sub' = Recorded(x)
    /\ UNCHANGED <<now, faults, history>>

\* createForUsers, for the organization's active administrators, if it has any.
Notify(w, x) ==
    /\ x.won
    /\ notices' = [notices EXCEPT ![x.sub][x.days] = @ + 1]
    /\ run' = [run EXCEPT ![w] = @ \ {x}]
    /\ UNCHANGED <<now, sub, faults, dropped>>

\* A failed query ends the run; so does the death of the worker.  What it claimed
\* stays recorded, and nobody is told.
RunFails(w) ==
    /\ run[w] # {} /\ faults < MaxAppFaults
    /\ faults' = faults + 1
    /\ dropped' = dropped \union {<<x.sub, x.days>> : x \in {y \in run[w] : y.won}}
    /\ run' = [run EXCEPT ![w] = {}]
    /\ UNCHANGED <<now, sub, notices>>

Tick ==
    /\ now < AppHorizon
    /\ now' = now + 1
    /\ UNCHANGED <<sub, run, faults, history>>

Expire(s) ==
    /\ sub[s].status = "active" /\ sub[s].expires <= now
    /\ sub' = [sub EXCEPT ![s].status = "expired"]
    /\ UNCHANGED <<now, run, faults, history>>

\* renewSubscription, mode 'continue': a later end, and the record as it was.
Extend(s) ==
    /\ sub[s].status = "active" /\ sub[s].expires > now /\ sub[s].expires = sub[s].term
    /\ sub' = [sub EXCEPT ![s].expires = @ + sub[s].term]
    /\ UNCHANGED <<now, run, faults, history>>

Next ==
    \/ Tick
    \/ \E w \in Workers : \/ Start(w) \/ RunFails(w)
                          \/ \E x \in run[w] : Claim(w, x) \/ Notify(w, x)
    \/ \E s \in Subs : Expire(s) \/ Extend(s)

Spec == Init /\ [][Next]_vars

-----------------------------------------------------------------------------
(* Properties.                                                             *)

\* Type invariant: what is recorded, and what a run works off, are configured windows.
TypeOK ==
    /\ \A s \in Subs : sub[s].sent \subseteq AppWindows
    /\ \A w \in Workers : \A x \in run[w] : x.sub \in Subs /\ x.days \in AppWindows

\* A window is shown once, however many workers look at the subscription and
\* however long they are held up ('the conditional $addToSet update is the lock');
\* a window on record was shown, or a more urgent one was, unless a fault dropped
\* the notice that had claimed it.
ShownOnce ==
    \A s \in Subs, d \in AppWindows :
        /\ notices[s][d] <= 1
        /\ d \in sub[s].sent => \E e \in AppWindows :
              /\ e <= d
              /\ \/ notices[s][e] = 1 \/ <<s, e>> \in dropped
                 \/ \E w \in Workers : [sub |-> s, days |-> e, won |-> TRUE] \in run[w]
=============================================================================
