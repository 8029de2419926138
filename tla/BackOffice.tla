----------------------------- MODULE BackOffice -----------------------------
(***************************************************************************)
(* Components that share no state with each other, explored one at a time: *)
(* the initial state picks the scene, in which one component runs and the  *)
(* others rest.  Each keeps its own module and bounds; a property that is  *)
(* about another scene holds there of a state that does not change.        *)
(***************************************************************************)
EXTENDS Questions

CONSTANTS
    MailSubs, MailWindows, DayTicks, MailTerm, MailLeft, MailHorizon, MaxMailFaults,     \* ExpiryMails
    NoticeSubs, AppWindows, Workers, Terms, AppHorizon, MaxAppFaults,                    \* ExpiryNotices
    AccountUsers, Orgs, Prefixes, FirstNames, Mails, Roster, MaxNumber, MaxRequests, MaxAttempts, \* Operators
    PeriodSubs, PlanLimit, Delta, MaxScans, MaxExtras,                                   \* QuotaPeriods
    Checkers, Thresholds, AlertLimit, MaxUsed, MaxRaises, MaxAlertFaults,                \* QuotaAlerts
    Customers, Staff, Writers, Readers, StaffKinds, MaxTime, MaxMessages, PageSize,      \* SupportThread
    PlanIds, Legacy, NewPlans, Edits, MaxPlanRequests, Keep,                             \* PlanCatalog
    Callers,                                                               \* PlanCatalog and Operators
    UploadRequests, UploadFiles, TotalCap, TicketCap, MaxFileFaults,                     \* AttachmentStorage
    Count, Notes, Removers, PageLimit, MaxRemovals, MaxUnlinkFaults,                     \* AttachmentFiles
    Editors, MaxEdits, Canonical, Creations, Updates, Profiles                           \* Organizations

\* There is a window, and windows are whole days; a day is a tick or more, and a term
\* does not run backwards.
ASSUME ReminderAssumption ==
    /\ Len(MailWindows) \in Nat \ {0} /\ \A i \in 1..Len(MailWindows) : MailWindows[i] \in Nat
    /\ DayTicks \in Nat \ {0} /\ MailTerm \in Nat /\ MailLeft \subseteq Nat
    /\ AppWindows \subseteq Nat

\* Subscriptions are numbered from 1 on; limits count scans.
ASSUME PeriodAssumption ==
    PeriodSubs \subseteq Nat \ {0} /\ 1 \in PeriodSubs /\ PlanLimit \in Nat /\ Delta \in Nat

\* Thresholds are percentages, as many as NOTIFY_QUOTA_THRESHOLDS lists.
ASSUME AlertAssumption ==
    Thresholds \subseteq Nat /\ IsFiniteSet(Thresholds) /\ AlertLimit \in Nat /\ MaxUsed \in Nat

\* Every upload gets a name of its own.
ASSUME UploadAssumption ==
    \A q, r \in UploadRequests : q # r => UploadFiles[q] \intersect UploadFiles[r] = {}

\* Messages are numbered in the order of their times, finitely many.
ASSUME PanelAssumption ==
    /\ DOMAIN Count \subseteq Nat /\ IsFiniteSet(DOMAIN Count) /\ \A m \in DOMAIN Count : Count[m] \in Nat
    /\ PageLimit \in Nat \ {0}

\* Nobody is on both sides of a ticket, and a customer opened it.
ASSUME ThreadAssumption ==
    /\ Customers # {} /\ Customers \intersect Staff = {} /\ IsFiniteSet(Customers \union Staff)
    /\ Writers \subseteq Customers \union Staff /\ Readers \subseteq Customers \union Staff
    /\ StaffKinds \subseteq {"reply", "note", "event", "change"} /\ MaxTime \in Nat /\ PageSize \in Nat

\* The accounts there are: an administrator has an address and no PIN, and no number is
\* beyond the counter of its organization, which counts the ids that were given.
ASSUME AccountAssumption ==
    /\ "none" \notin AccountUsers \union Orgs /\ IsFiniteSet(AccountUsers) /\ DOMAIN Roster \subseteq AccountUsers
    /\ \A u \in DOMAIN Roster : LET person == Roster[u] IN
         /\ DOMAIN person = {"org", "role", "id", "pin", "mail", "status"}
         /\ person.org \in Orgs /\ person.role \in {"OPERATOR", "ORGANIZATION_ADMIN"}
         /\ person.pin \in BOOLEAN /\ person.id[2] \in Nat
         /\ person.role # "OPERATOR" => person.mail # "none" /\ ~person.pin
         /\ person.id[2] <= Cardinality({v \in DOMAIN Roster : /\ Roster[v].org = person.org
                                                             /\ Roster[v].id # <<"none", 0>>})

\* An organization and its administrator have all of their fields, and nobody is
\* called "none".
ASSUME CompanyAssumption ==
    /\ \A new \in Creations :
         /\ DOMAIN new.org = {"company", "country", "contact", "status"}
         /\ DOMAIN new.admin = {"name", "company", "country", "contact"} /\ new.admin.name # "none"
    /\ \A body \in Updates \union Profiles : "name" \in DOMAIN body => body["name"] # "none"

\* Prices and percentages of the plans there are, of new ones and of edits; a plan that is
\* sold by the quarter has a price for it.
ASSUME PlanAssumption ==
    /\ Keep \notin Nat /\ MaxPlanRequests \in Nat
    /\ \A plan \in Legacy :
         /\ plan = [name |-> plan.name, price |-> plan.price, discount |-> plan.discount,
                    quarterly |-> plan.quarterly, cycle |-> plan.cycle, currency |-> plan.currency,
                    custom |-> plan.custom, status |-> plan.status, version |-> plan.version]
         /\ plan.price \in Nat /\ plan.discount \in 0..100 /\ plan.quarterly \in Nat \union {Keep}
         /\ plan.cycle \in {"", "month", "quarterly"} /\ plan.currency \in {"inr", "usd"}
         /\ plan.status \in 0..2 /\ plan.version \in Nat
         /\ plan.cycle = "quarterly" => plan.quarterly # Keep
    /\ \A body \in NewPlans :
         /\ body.price \in Nat /\ body.discount \in 0..100 /\ body.quarterly \in Nat \union {Keep}
         /\ body.cycle \in {"month", "quarterly"}
    /\ \A body \in Edits :
         /\ body.price \in Nat \union {Keep} /\ body.discount \in (0..100) \union {Keep}
         /\ body.quarterly \in Nat \union {Keep} /\ body.cycle \in {"month", "quarterly", Keep}

\* Bounds of the models, and the values accounts and organizations start with.
ASSUME BoundAssumption ==
    /\ MaxScans \in Nat /\ MaxFileFaults \in Nat /\ MaxEdits \in Nat /\ MaxNumber \in Nat
    /\ MaxTime >= 2 /\ MaxMessages \in Nat \ {0}
    /\ FirstNames \in [Orgs -> Prefixes]
    /\ \A o \in Orgs : Cardinality({u \in DOMAIN Roster : Roster[u].org = o}) <= MaxNumber
    /\ \A u \in DOMAIN Roster : Roster[u].mail \in Mails \union {"none"} /\ Roster[u].status \in 0..2
    /\ \A new \in Creations : new.org.status \in 0..2
    /\ \A body \in Updates : "status" \in DOMAIN body => body["status"] \in 0..2

VARIABLES
    scene,
    mailNow, mailSub, sweep, contact, mailFaults, told, mails, lost, begun,
    noticeNow, noticeSub, run, noticeFaults, notices, dropped,
    company, counter, users, call, ids, raced, bare, requests,
    state, limit, over, early, row, hash, ending, adjust, pass, extras, charged, scans, blurred,
    alertRow, current, check, note, raises, crowded, lowered, levels,
    clock, thread, writing, preview, last_read_at, role_read_at, shown, blind, late,
    plans, planCall, migration, planRequests, crossed, nameRaces, override,
    uploads, temp, stored, attached, refused, torn, fileFaults,
    posted, disk, removed, events, removal, broken, kept, removals,
    org, admin, edit, apart, edits,
    question

mailVars    == <<mailNow, mailSub, sweep, contact, mailFaults, told, mails, lost, begun>>
noticeVars  == <<noticeNow, noticeSub, run, noticeFaults, notices, dropped>>
accountVars == <<company, counter, users, call, ids, raced, bare, requests>>
periodVars  == <<state, limit, over, early, row, hash, ending, adjust, pass, extras, charged,
                 scans, blurred>>
alertVars   == <<alertRow, current, check, note, raises, crowded, lowered, levels>>
threadVars  == <<clock, thread, writing, preview, last_read_at, role_read_at, shown, blind, late>>
planVars    == <<plans, planCall, migration, planRequests, crossed, nameRaces, override>>
uploadVars  == <<uploads, temp, stored, attached, refused, torn, fileFaults>>
panelVars   == <<posted, disk, removed, events, removal, broken, kept, removals>>
companyVars == <<org, admin, edit, apart, edits>>

vars == <<scene, mailVars, noticeVars, accountVars,
          periodVars, alertVars, threadVars, planVars, uploadVars, panelVars, companyVars, question>>

In(name) == scene = name

-----------------------------------------------------------------------------
(* The components.                                                         *)

ByMail == INSTANCE ExpiryMails WITH
    Subs <- MailSubs, Term <- MailTerm, Left <- MailLeft, now <- mailNow, sub <- mailSub, faults <- mailFaults
InApp == INSTANCE ExpiryNotices WITH
    Subs <- NoticeSubs, now <- noticeNow, sub <- noticeSub, faults <- noticeFaults
Accts == INSTANCE Operators WITH Users <- AccountUsers
Periods == INSTANCE QuotaPeriods WITH Subs <- PeriodSubs
Alerts == INSTANCE QuotaAlerts WITH RowLimit <- AlertLimit, row <- alertRow, extras <- raises, told <- levels
Threads == INSTANCE SupportThread
Catalog == INSTANCE PlanCatalog WITH Ids <- PlanIds, call <- planCall
Uploads == INSTANCE AttachmentStorage WITH
    Requests <- UploadRequests, Files <- UploadFiles, pc <- uploads
Panel == INSTANCE AttachmentFiles WITH task <- removal, torn <- broken
Companies == INSTANCE Organizations

-----------------------------------------------------------------------------
(* The state machine.                                                      *)

Init ==
    /\ scene \in {"mails", "notices", "accounts", "periods", "alerts",
                  "threads", "plans", "uploads", "panel", "organizations", "questions"}
    /\ ByMail!Init /\ IF In("mails") THEN TRUE ELSE \A s \in MailSubs : contact[s]
    /\ InApp!Init /\ IF In("notices") THEN TRUE ELSE \A s \in NoticeSubs, t \in Terms : noticeSub[s].expires >= t
    /\ Accts!Init
    /\ Periods!Init /\ IF In("periods") THEN TRUE ELSE \A s \in PeriodSubs \ {1} : state[s] = "none"
    /\ Alerts!Init /\ Threads!Init /\ IF In("threads") THEN TRUE ELSE \A m \in thread : m.created_at = 2
    /\ Catalog!Init /\ IF In("plans") THEN TRUE ELSE \A i \in PlanIds : plans[i] = Catalog!NoPlan
    /\ Uploads!Init /\ Panel!Init /\ Companies!Init
    /\ question = [topic |-> "none"]

\* One component takes a step, the others stay as they are.
Resting ==
    /\ UNCHANGED scene
    /\ IF In("mails") THEN TRUE ELSE UNCHANGED mailVars
    /\ IF In("notices") THEN TRUE ELSE UNCHANGED noticeVars
    /\ IF In("accounts") THEN TRUE ELSE UNCHANGED accountVars
    /\ IF In("periods") THEN TRUE ELSE UNCHANGED periodVars
    /\ IF In("alerts") THEN TRUE ELSE UNCHANGED alertVars
    /\ IF In("threads") THEN TRUE ELSE UNCHANGED threadVars
    /\ IF In("plans") THEN TRUE ELSE UNCHANGED planVars
    /\ IF In("uploads") THEN TRUE ELSE UNCHANGED uploadVars
    /\ IF In("panel") THEN TRUE ELSE UNCHANGED panelVars
    /\ IF In("organizations") THEN TRUE ELSE UNCHANGED companyVars
    /\ IF In("questions") THEN TRUE ELSE UNCHANGED question

\* A module without steps is asked one question.
Ask(topic, fields) == question' = [topic |-> topic, of |-> fields]
NextQuestion ==
    /\ question.topic = "none"
    /\ \/ \E q \in Presets \union Customs : Ask("days", q)
       \/ \E organization \in AtLimit : Ask("reports", organization)
       \/ \E f \in Files : Ask("file", f)
       \/ \E t \in Tickets : Ask("desk", t)
       \/ \E account \in Accounts : Ask("account", account)
       \/ \E t \in Tables : Ask("names", t)

Next ==
    \/ In("mails") /\ ByMail!Next /\ Resting
    \/ In("notices") /\ InApp!Next /\ Resting
    \/ In("accounts") /\ Accts!Next /\ Resting
    \/ In("periods") /\ Periods!Next /\ Resting
    \/ In("alerts") /\ Alerts!Next /\ Resting
    \/ In("threads") /\ Threads!Next /\ Resting
    \/ In("plans") /\ Catalog!Next /\ Resting
    \/ In("uploads") /\ Uploads!Next /\ Resting
    \/ In("panel") /\ Panel!Next /\ Resting
    \/ In("organizations") /\ Companies!Next /\ Resting
    \/ In("questions") /\ NextQuestion /\ Resting

Spec == Init /\ [][Next]_vars

-----------------------------------------------------------------------------
(* Properties.  Each is what the components' own modules state.            *)

\* Type invariant: that of the component that runs.
TypeOK ==
    /\ In("mails") => ByMail!TypeOK
    /\ In("notices") => InApp!TypeOK
    /\ In("accounts") => Accts!TypeOK
    /\ In("periods") => Periods!TypeOK
    /\ In("alerts") => Alerts!TypeOK
    /\ In("threads") => Threads!TypeOK
    /\ In("plans") => Catalog!TypeOK
    /\ In("uploads") => Uploads!TypeOK
    /\ In("organizations") => Companies!TypeOK

\* A subscription's owner is told once per window that it ends, by mail and in the app,
\* and a run of the mail job without faults leaves nobody out.
Reminders == [](ByMail!MailedOnce /\ InApp!ShownOnce) /\ ByMail!SweepRemindsAll

\* Accounts keep what their role signs in with, numbers are drawn once, ids are for life,
\* and an administrator has the organization's name and address.
AccountsKeepSignIn ==
    [](Accts!CredentialsFitRole /\ Accts!NumbersAreFresh /\ Companies!Mirrored) /\ Accts!IdIsForLife

\* What a subscription used survives its end, but for one replaced by force, whose row is
\* deleted, and for the named races; the alert about it tells its level, but for two runs
\* that overlap.
QuotaSurvives ==
    /\ In("periods") => Periods!PeriodsAddUp
    /\ In("alerts") => Alerts!AlertTellsLevel

\* A reader who polls a thread gets every message and file, what was not shown is unread,
\* a receipt is true, and no upload is lost.
ThreadIsComplete ==
    /\ In("threads") => /\ Threads!PanelMissesNothing /\ Threads!UnseenIsUnread
                        /\ Threads!NewcomerIsTold /\ Threads!ReceiptsAreTrue
    /\ In("uploads") => Uploads!UploadsAccounted
    /\ In("panel") => Panel!FilesKeepPlace

\* Two places that decide the same thing agree: prices that are stored and computed, the
\* charts of a range, the reports of a database, the panel's and the server's rules for
\* a file, counters and lists of tickets, names of countries before and after a migration.
RulesAgree ==
    /\ In("plans") => Catalog!PricesFollow /\ Catalog!SoldPlansHavePrice /\ Catalog!NamesAreUnique
    /\ question.topic = "days" => DaysAgree(question.of)
    /\ question.topic = "reports" => \A other \in Others : ReportsAgree([a |-> question.of, b |-> other])
    /\ question.topic = "file" => \A kinds \in KindSets : /\ Rules!PanelAgrees(question.of, kinds)
                                                          /\ Rules!KindIsKept(question.of, kinds)
    /\ question.topic = "desk" => \A new \in NewTickets : DeskAgrees(<<question.of, new>>)
    /\ question.topic = "account" => Views!SnapshotTells(question.of)
    /\ question.topic = "names" => \A seed \in Seeds, name \in Labels : NamesAgree(question.of, seed, name)
=============================================================================
