---------------------------- MODULE SupportViews ----------------------------
(***************************************************************************)
(* What services/support.service.ts answers about tickets that are stored: *)
(* the list with its views and search, the summary's counters, whose turn  *)
(* it is, and the snapshot of the account a ticket is filed with.          *)
(*                                                                         *)
(* A desk is a function from ticket numbers to records: org, status,       *)
(* assigned, created, first_response (0: none), customer and staff, the    *)
(* times of the last messages (0: none), words, what a search finds in the *)
(* number and the subject.                                                 *)
(*                                                                         *)
(* Left out: sorting, names, and the other filters of the list, which are  *)
(* equalities.                                                             *)
(***************************************************************************)
EXTENDS Integers, FiniteSets, FiniteSetsExt

CONSTANTS FirstResponse,    \* config.support.firstResponseHours, in seconds
          MaxContext        \* MAX_SMART_CONTEXT_BYTES

ActiveStatuses == {"open", "in_progress", "waiting_for_customer"}
CustomerWroteLast(t) == t.customer > t.staff      \* null sorts before every date

\* A view is a condition on the status and so on, and one that may be an alternative
\* ($or); a view the viewer has no right to, or an unknown one, filters nothing.
applyView(t, view, staff) ==
    /\ view = "active" => t.status \in ActiveStatuses
    /\ view = "awaiting_customer" => t.status = "waiting_for_customer"
    /\ view \in {"resolved", "closed"} => t.status = view
    /\ view = "unassigned" /\ staff => t.status \in ActiveStatuses /\ ~t.assigned
    /\ view = "awaiting_staff" /\ staff =>
          t.status = "open" \/ (t.status = "in_progress" /\ CustomerWroteLast(t))

Scope(desk, org) == {n \in DOMAIN desk : org # "all" => desk[n].org = org}

(* Mutant: the search takes the place of the alternatives of the view. *)
SearchReplacesView(desk, staff, org, view, search) ==
    {n \in Scope(desk, org) :
        /\ (view = "awaiting_staff" /\ search # "") \/ applyView(desk[n], view, staff)
        /\ search # "" => search \in desk[n].words}

listTickets(desk, staff, org, view, search) ==
    {n \in Scope(desk, org) :
        /\ applyView(desk[n], view, staff)
        /\ search # "" => search \in desk[n].words}

getSummary(desk, org, now) ==
    LET count(P(_)) == Cardinality({n \in Scope(desk, org) : P(desk[n])})
        active(t) == t.status \in ActiveStatuses
    IN [active |-> count(LAMBDA t : active(t)),
        unassigned |-> count(LAMBDA t : active(t) /\ ~t.assigned),
        awaiting_staff |-> count(LAMBDA t : \/ t.status = "open"
                                            \/ t.status = "in_progress" /\ t.customer > t.staff),
        overdue |-> count(LAMBDA t : /\ active(t) /\ t.first_response = 0
                                     /\ t.created <= now - FirstResponse),
        awaiting_customer |-> count(LAMBDA t : t.status = "waiting_for_customer")]

computeYourTurn(t, staff) ==
    IF ~staff THEN t.status = "waiting_for_customer"
    ELSE \/ t.status = "open"
         \/ t.status = "in_progress" /\ t.customer # 0 /\ (t.staff = 0 \/ t.customer > t.staff)

\* Null is "none".
computeAwaiting(t, now) ==
    LET since(at) == [age_seconds |-> now - at, overdue |-> now - at > FirstResponse]
        nothing == [kind |-> "none", since |-> since(now)]
    IN IF t.first_response # 0
       THEN IF t.status \in {"open", "in_progress"} /\ t.customer # 0 /\ (t.staff = 0 \/ t.customer > t.staff)
            THEN [kind |-> "staff", since |-> since(t.customer)] ELSE nothing
       ELSE IF t.status \in {"resolved", "closed"} THEN nothing
            ELSE [kind |-> "first_response", since |-> since(t.created)]

-----------------------------------------------------------------------------
(* The snapshot.                                                           *)

Sections == {"organization", "reporter", "subscription", "usage", "webhook", "recent_errors"}

\* An account tells which of the five look-ups fail, and how long each section is;
\* subscription and usage come from one look-up, quota.
Failed(account) ==
    {s \in Sections : IF s \in {"subscription", "usage"} THEN "quota" \in account.fails ELSE s \in account.fails}
Size(account, sections) == MapThenSumSet(LAMBDA s : account.size[s], sections)

(* Mutant: recent errors are dropped, and not named. *)
DropUnnamed(account) ==
    LET got == Sections \ Failed(account)
        errors == {"recent_errors"}
        fits(cut) == Size(account, got \ cut) <= MaxContext
        context(cut, named) == [sections |-> got \ cut, unavailable |-> Failed(account) \union named]
    IN IF fits({}) THEN context({}, {}) ELSE IF fits(errors) THEN context(errors, {})
       ELSE context(errors \union {"usage", "webhook"}, errors \union {"usage", "webhook"})

\* buildSmartContext: what is too long is cut in two steps, and not measured again.
buildSmartContext(account) ==
    LET got == Sections \ Failed(account)
        errors == {"recent_errors"}
        fits(cut) == Size(account, got \ cut) <= MaxContext
        context(cut) == [sections |-> got \ cut, unavailable |-> Failed(account) \union cut]
    IN IF fits({}) THEN context({}) ELSE IF fits(errors) THEN context(errors)
       ELSE context(errors \union {"usage", "webhook"})

-----------------------------------------------------------------------------
(* Properties of one desk.                                                 *)

Views == {"active", "awaiting_customer", "resolved", "closed", "unassigned", "awaiting_staff", "other"}

\* The summary's counters are the lengths of the lists they link to, for the staff and
\* for an organization.
CountersMatchLists(desk, org, now) ==
    LET sum == getSummary(desk, org, now)
        len(staff, view) == Cardinality(listTickets(desk, staff, org, view, ""))
    IN /\ sum.active = len(TRUE, "active") /\ sum.unassigned = len(TRUE, "unassigned")
       /\ sum.awaiting_staff = len(TRUE, "awaiting_staff")
       /\ org # "all" => /\ sum.active = len(FALSE, "active")
                         /\ sum.awaiting_customer = len(FALSE, "awaiting_customer")

\* The list of tickets that await the staff holds those whose turn the panel says is the
\* staff's, each of them shows since when, and a ticket is never both sides' turn.
TurnsAgree(desk, now) ==
    \A n \in DOMAIN desk :
        LET t == desk[n] IN
        /\ n \in listTickets(desk, TRUE, "all", "awaiting_staff", "") <=> computeYourTurn(t, TRUE)
        /\ ~(computeYourTurn(t, TRUE) /\ computeYourTurn(t, FALSE))
        /\ (computeYourTurn(t, TRUE) /\ CustomerWroteLast(t)) => computeAwaiting(t, now).kind # "none"

\* What a list shows as overdue for a first answer, the summary counts; it counts one
\* more exactly at the limit.
OverdueAgrees(desk, now) ==
    LET shownOverdue == {n \in DOMAIN desk : LET a == computeAwaiting(desk[n], now) IN
                                             a.kind = "first_response" /\ a.since.overdue}
        onLimit == {n \in DOMAIN desk : desk[n].created = now - FirstResponse}
    IN getSummary(desk, "all", now).overdue \in
         Cardinality(shownOverdue)..Cardinality(shownOverdue \union onLimit)

\* A search narrows every view, and never crosses organizations.
SearchNarrows(desk, search) ==
    \A staff \in BOOLEAN, view \in Views, org \in {desk[n].org : n \in DOMAIN desk} :
        listTickets(desk, staff, org, view, search)
            \subseteq listTickets(desk, staff, org, view, "") \intersect Scope(desk, org)

\* The snapshot names exactly what it lacks, and always tells who filed the ticket if
\* that could be read.
SnapshotTells(account) ==
    LET ctx == buildSmartContext(account) IN
    /\ Sections \ ctx.sections = ctx.unavailable
    /\ "reporter" \notin account.fails => "reporter" \in ctx.sections
=============================================================================
