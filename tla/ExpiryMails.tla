----------------------------- MODULE ExpiryMails -----------------------------
(***************************************************************************)
(* The mails that tell an organization its subscription is about to end:   *)
(* cron/subscription/subscription-reminder.cron.ts, run every half hour by *)
(* the one worker process, without overlap (cron/cron-runner.ts).  Time    *)
(* passes in ticks, DayTicks of them to a UTC day.                         *)
(*                                                                         *)
(* Left out: texts, branding, logging.                                     *)
(***************************************************************************)
EXTENDS Naturals, Sequences

CONSTANTS Subs,         \* subscriptions
          MailWindows,  \* REMINDER_WINDOW_DAYS, the most distant first
          DayTicks,     \* ticks of a day
          Term,         \* ticks of a billing cycle
          Left,         \* bound: ticks of the first term that are left at the start
          MailHorizon,  \* bound on the clock
          MaxMailFaults \* bound on failed calls and deaths of the worker

VARIABLES
    now,     \* the clock
    sub,     \* tbl_subscriptions: status, expires_at, reminders_sent
    sweep,   \* the run of the job
    contact, \* whether the organization has an address
    faults,
    told,    \* history: mails, by subscription, window and the expiry they name
    mails,   \* history: number of mails by subscription and window
    lost,    \* history: those whose window was never recorded
    begun    \* history: day, due subscriptions and faults when a run started

history == <<told, mails, lost, begun>>
vars == <<now, sub, sweep, contact, faults, history>>

Windows == {MailWindows[i] : i \in 1..Len(MailWindows)}
UtcDay(t) == t \div DayTicks

Idle == [pc |-> "idle", at |-> 0, todo |-> {}, current |-> {}]

Due(day, d) == {s \in Subs : sub[s].status = "active" /\ UtcDay(sub[s].expires) = day + d}

Init ==
    /\ now = 0
    /\ sub \in [Subs -> {[status |-> "active", expires |-> left, sent |-> {}, extended |-> FALSE] :
                            left \in Left}]
    /\ contact \in [Subs -> BOOLEAN]
    /\ sweep = Idle /\ faults = 0
    /\ told = {} /\ begun = [day |-> 0, due |-> {}, faults |-> 0]
    /\ mails = [s \in Subs |-> [d \in Windows |-> 0]]
    /\ lost = [s \in Subs |-> [d \in Windows |-> 0]]

Fault == faults < MaxMailFaults /\ faults' = faults + 1

Window == MailWindows[sweep.at]

Start ==
    /\ sweep.pc = "idle"
    /\ sweep' = [Idle EXCEPT !.pc = "find", !.at = 1]
    /\ begun' = [day |-> UtcDay(now), faults |-> faults,
                 due |-> {x \in Subs \X Windows : x[1] \in Due(UtcDay(now), x[2])}]
    /\ UNCHANGED <<now, sub, contact, faults, told, mails, lost>>

NextWindow(s) == IF s.at = Len(MailWindows) THEN Idle
                 ELSE [Idle EXCEPT !.pc = "find", !.at = s.at + 1]
Without(s, x) == LET todo == s.todo \ {x} IN
                 IF todo = {} THEN NextWindow(s)
                 ELSE [s EXCEPT !.pc = "send", !.todo = todo, !.current = {}]

(* Mutant: a subscription is due once its day has come or gone by the hour. *)
FindByHours ==
    LET due == {s \in Subs : /\ sub[s].status = "active" /\ sub[s].expires = now + Window * DayTicks
                             /\ Window \notin sub[s].sent} IN
    /\ sweep.pc = "find"
    /\ sweep' = IF due = {} THEN NextWindow(sweep)
                ELSE [sweep EXCEPT !.pc = "send", !.todo = {<<s, sub[s].expires>> : s \in due}]
    /\ UNCHANGED <<now, sub, contact, faults, history>>

\* The active subscriptions that end on the window's day; those reminded before
\* are skipped.  Only this job writes reminders_sent, so the array it read is
\* still true when the loop reaches the subscription.
Find ==
    LET due == {s \in Due(UtcDay(now), Window) : Window \notin sub[s].sent} IN
    /\ sweep.pc = "find"
    /\ sweep' = IF due = {} THEN NextWindow(sweep)
                ELSE [sweep EXCEPT !.pc = "send", !.todo = {<<s, sub[s].expires>> : s \in due}]
    /\ UNCHANGED <<now, sub, contact, faults, history>>

\* The query throws: this window is given up, and the next one tried.
FindFails ==
    /\ sweep.pc = "find" /\ Fault
    /\ sweep' = NextWindow(sweep)
    /\ UNCHANGED <<now, sub, contact, history>>

(* Mutant: an organization without a recipient ends the loop. *)
SkipEndsWindow(x) ==
    /\ sweep.pc = "send" /\ ~contact[x[1]]
    /\ sweep' = NextWindow(sweep)
    /\ UNCHANGED <<now, sub, contact, faults, history>>

\* Neither an administrator nor the organization has an address.
Skip(x) ==
    /\ sweep.pc = "send" /\ ~contact[x[1]]
    /\ sweep' = Without(sweep, x)
    /\ UNCHANGED <<now, sub, contact, faults, history>>

\* The mail server accepts the mail (or, without one, the console has it).
Mail(x) ==
    /\ sweep.pc = "send" /\ contact[x[1]]
    /\ sweep' = [sweep EXCEPT !.pc = "mark", !.current = {x}]
    /\ told' = told \union {<<x[1], Window, x[2]>>}
    /\ mails' = [mails EXCEPT ![x[1]][Window] = @ + 1]
    /\ lost' = [lost EXCEPT ![x[1]][Window] = @ + 1]
    /\ UNCHANGED <<now, sub, contact, faults, begun>>

\* The look-up of the recipient throws, or the mail is not accepted: nothing is
\* recorded, so that a later run tries again.
MailFails(x) ==
    /\ sweep.pc = "send" /\ contact[x[1]] /\ Fault
    /\ sweep' = Without(sweep, x)
    /\ UNCHANGED <<now, sub, contact, history>>

(* Mutant: nothing is recorded. *)
MarkNothing(x) ==
    /\ sweep.pc = "mark" /\ x \in sweep.current
    /\ sweep' = Without(sweep, x)
    /\ lost' = [lost EXCEPT ![x[1]][Window] = @ - 1]
    /\ UNCHANGED <<now, sub, contact, faults, told, mails, begun>>

\* $addToSet of the window, once the mail is out.
Mark(x) ==
    /\ sweep.pc = "mark" /\ x \in sweep.current
    /\ sub' = [sub EXCEPT ![x[1]].sent = @ \union {Window}]
    /\ sweep' = Without(sweep, x)
    /\ lost' = [lost EXCEPT ![x[1]][Window] = @ - 1]
    /\ UNCHANGED <<now, contact, faults, told, mails, begun>>

\* The mail is out, and the error that follows is logged.
MarkFails(x) ==
    /\ sweep.pc = "mark" /\ x \in sweep.current /\ Fault
    /\ sweep' = Without(sweep, x)
    /\ UNCHANGED <<now, sub, contact, history>>

WorkerDies ==
    /\ sweep.pc # "idle" /\ Fault
    /\ sweep' = Idle
    /\ UNCHANGED <<now, sub, contact, history>>

Tick ==
    /\ now < MailHorizon
    /\ now' = now + 1
    /\ UNCHANGED <<sub, sweep, contact, faults, history>>

\* The expiry job, every minute.
Expire(s) ==
    /\ sub[s].status = "active" /\ sub[s].expires <= now
    /\ sub' = [sub EXCEPT ![s].status = "expired"]
    /\ UNCHANGED <<now, sweep, contact, faults, history>>

\* renewSubscription, mode 'continue': a later end, and the record as it was.
Extend(s) ==
    /\ sub[s].status = "active" /\ sub[s].expires > now /\ ~sub[s].extended
    /\ sub' = [sub EXCEPT ![s].expires = @ + Term, ![s].extended = TRUE]
    /\ UNCHANGED <<now, sweep, contact, faults, history>>

Next ==
    \/ Start \/ Find \/ FindFails \/ WorkerDies \/ Tick
    \/ \E x \in sweep.todo : Skip(x) \/ Mail(x) \/ MailFails(x) \/ Mark(x) \/ MarkFails(x)
    \/ \E s \in Subs : Expire(s) \/ Extend(s)

Spec == Init /\ [][Next]_vars

-----------------------------------------------------------------------------
(* Properties.                                                             *)

\* Type invariant: the record holds windows, and a run is at one of them.
TypeOK ==
    /\ \A s \in Subs : sub[s].sent \subseteq Windows
    /\ sweep.at \in 0..Len(MailWindows) /\ sweep.current \subseteq sweep.todo

\* A window is mailed once, and again only for a mail whose record was lost to an
\* error or to the death of the worker.
MailedOnce == \A s \in Subs, d \in Windows : mails[s][d] <= 1 + lost[s][d]

\* A run that meets no fault and ends on the day it began has reminded, by then
\* or earlier, everyone it was for ('every active subscription expiring on one of
\* the configured UTC calendar days gets one reminder per threshold').  The
\* exception: a subscription that was extended after a reminder of its old end
\* keeps the record, and is not reminded of the new one.
SweepRemindsAll ==
    [][ /\ sweep.pc # "idle" /\ sweep'.pc = "idle"
        /\ faults' = begun.faults /\ UtcDay(now) = begun.day
        => \A d \in Windows : \A s \in Due(begun.day, d) :
              <<s, d>> \in begun.due /\ contact[s] =>
                 \/ <<s, d, sub[s].expires>> \in told
                 \/ sub[s].extended /\ mails[s][d] > 0 ]_vars
=============================================================================
