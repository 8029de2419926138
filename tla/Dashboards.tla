----------------------------- MODULE Dashboards -----------------------------
(***************************************************************************)
(* What the dashboards say of one state of the database: the reports of    *)
(* services/admin/dashboard.service.ts, for the super admin, and           *)
(* services/user/org-dashboard.service.ts, for an organization, with the   *)
(* usage on its subscription's page, of services/subscription.service.ts.  *)
(*                                                                         *)
(* A database is a function from organizations to what is stored about     *)
(* them:                                                                   *)
(*   status                    1 active, 0 inactive, 2 deleted             *)
(*   plan, trial, manual       the active subscription (Planless: none) and  *)
(*                             how it was paid                             *)
(*   limit, first              the scan limit of its scan feature (0: no   *)
(*                             limit; -1: it has no such feature) and of   *)
(*                             its first feature (0: it has none)          *)
(*   left, queue               days until expires_at, how many are queued  *)
(*   used, granted             its usage row: usage and scan_limit, which  *)
(*                             adjustScanLimits raises (0, -1: no row)     *)
(*   cache                     the counter in Redis (-1: none), ahead of   *)
(*                             the row until it is copied, or behind it    *)
(*                             when a unit that was copied is given back   *)
(*   webhook, pending, failed, refused                                     *)
(*                             the config, the deliveries, and those that  *)
(*                             failed for want of an enabled config        *)
(*   operators                 operator -> status and scans in the last    *)
(*                             7 and 30 days                               *)
(*                                                                         *)
(* buildOrgQuota asks for the counter in Redis first, and takes it only if *)
(* its expiresAt, a string of milliseconds, is a later date than now; as   *)
(* no such string is a date, it always falls back to the usage row.        *)
(*                                                                         *)
(* Left out: names, dates and prices, leads and converted leads, numbers   *)
(* of scans (see DashboardDays), error texts, an organization with two     *)
(* active subscriptions.                                                   *)
(***************************************************************************)
EXTENDS Integers, FiniteSets, FiniteSetsExt, Totals

CONSTANTS Planless,
          NearLimitPct,   \* config.dashboard.nearLimitPct
          TeamLimit,      \* operators a query reads: 500
          TopLimit        \* operators with the most scans: 10

Subscribed(db) == {o \in DOMAIN db : db[o].plan # Planless}
Present(db) == {o \in DOMAIN db : db[o].status # 2}

\* Per cent, in tenths (round1) and whole (Math.round).
Tenths(n, of) == (2 * 1000 * n + of) \div (2 * of)
Percent(n, of) == (2 * 100 * n + of) \div (2 * of)

\* At most n of S, those with the largest amounts; which of equals, nobody says.
Largest(S, amount, n) ==
    CHOOSE top \in SUBSET S :
        /\ Cardinality(top) = Min({n, Cardinality(S)})
        /\ \A x \in top, y \in S \ top : amount[x] >= amount[y]

\* That of utils/plan-features.util.ts: no scan feature is no limit.
scanLimitOf(org) == IF org.limit = -1 THEN 0 ELSE org.limit

-----------------------------------------------------------------------------
(* The super admin's.                                                      *)

(* Mutant: the organizations of the subscriptions are not looked at. *)
AnyUsage(db) == Subscribed(db)

\* loadActiveUsage: no organization that was deleted.
loadActiveUsage(db) == Subscribed(db) \intersect Present(db)

\* The usage row's limit, which may have been raised, else that of the scan feature, else
\* of the first: the super admin's dashboard has a scanLimitOf of its own.
RowLimit(org) ==
    IF org.granted # -1 THEN org.granted ELSE IF org.limit # -1 THEN org.limit ELSE org.first

getTopOrganizations(db, limit) ==
    Largest(loadActiveUsage(db), [o \in loadActiveUsage(db) |-> db[o].used], limit)

getAttention(db) ==
    LET rows == loadActiveUsage(db)
        limited == {o \in rows : RowLimit(db[o]) > 0}
    IN [quota_exhausted |-> {o \in limited : db[o].used >= RowLimit(db[o])},
        near_limit |-> {o \in limited : /\ db[o].used < RowLimit(db[o])
                                        /\ Tenths(db[o].used, RowLimit(db[o])) >= 10 * NearLimitPct},
        expiring_soon |-> {o \in rows : db[o].left \in 0..7},
        next_plan_queued |-> {o \in DOMAIN db : db[o].queue > 0}]

(* Mutant: organizations without a plan are the others less those with one. *)
PlansBySubtraction(db) ==
    [results |-> [p \in {db[o].plan : o \in Subscribed(db)} |->
                     Cardinality({o \in Subscribed(db) : db[o].plan = p})],
     no_plan |-> Cardinality(Present(db)) - Cardinality(Subscribed(db))]

getPlanDistribution(db) ==
    [results |-> [p \in {db[o].plan : o \in Subscribed(db)} |->
                     Cardinality({o \in Subscribed(db) : db[o].plan = p})],
     no_plan |-> Cardinality(Present(db) \ Subscribed(db))]

\* listOrganizations with the plans of buildSubscriptionSummaryMap; a status of -1 is
\* not asked for.
listOrganizations(db, status) ==
    [o \in {o \in DOMAIN db : IF status = -1 THEN db[o].status # 2 ELSE db[o].status = status} |->
        [plan |-> db[o].plan, future_queue_count |-> db[o].queue]]

\* Subscriptions and operators are counted whatever became of their organization.
getSummary(db) ==
    [total |-> Cardinality(Present(db)),
     active |-> Cardinality({o \in DOMAIN db : db[o].status = 1}),
     inactive |-> Cardinality({o \in DOMAIN db : db[o].status = 0}),
     subscriptions |-> Cardinality(Subscribed(db)),
     future_queued |-> Total([o \in DOMAIN db |-> db[o].queue]),
     trial |-> Cardinality({o \in Subscribed(db) : db[o].trial}),
     manual |-> Cardinality({o \in Subscribed(db) : ~db[o].trial /\ db[o].manual}),
     paid |-> Cardinality({o \in Subscribed(db) : ~db[o].trial /\ ~db[o].manual}),
     operators |-> Total([o \in DOMAIN db |->
         Cardinality({u \in DOMAIN db[o].operators : db[o].operators[u].status # 2})])]

getWebhooks(db) ==
    [pending |-> Total([o \in DOMAIN db |-> db[o].pending]),
     failed_24h |-> Total([o \in DOMAIN db |-> db[o].failed + db[o].refused])]

healthFromAge(age, healthyMax, degradedMax) ==
    IF age = -1 THEN "unavailable" ELSE IF age < healthyMax THEN "healthy"
    ELSE IF age <= degradedMax THEN "degraded" ELSE "unavailable"

\* What the probes found, in seconds and milliseconds; -1: no answer, or none.
getSystem(db, probe) ==
    LET oldest == IF getWebhooks(db).pending = 0 THEN -1 ELSE probe.oldest
        Reached(ms, slow) == IF ms = -1 THEN "unavailable" ELSE IF ms > slow THEN "degraded" ELSE "healthy"
    IN [mongodb |-> Reached(probe.mongo, 500),
        redis |-> IF probe.configured THEN Reached(probe.redis, 200) ELSE "unavailable",
        worker |-> IF probe.configured THEN healthFromAge(probe.heartbeat, 60, 90) ELSE "unavailable",
        webhook_queue |-> IF ~probe.configured THEN "unavailable"
                          ELSE IF oldest = -1 THEN "healthy" ELSE healthFromAge(oldest, 120, 600)]

-----------------------------------------------------------------------------
(* An organization's own.                                                  *)

\* buildOrgQuota.
getOrgQuota(db, o) ==
    LET org == db[o]
        limit == scanLimitOf(org)
        days == IF org.left < 0 THEN 0 ELSE org.left
    IN IF org.plan = Planless THEN [state |-> "no_subscription", used |-> 0, days_left |-> 0]
       ELSE [used |-> org.used, days_left |-> days,
             state |-> IF limit = 0 THEN "ok"
                       ELSE IF org.used >= limit THEN "exhausted"
                       ELSE IF Percent(org.used, limit) >= NearLimitPct THEN "near_limit"
                       ELSE IF days <= 7 THEN "expiring" ELSE "ok"]

ActiveOperators(org) == {u \in DOMAIN org.operators : org.operators[u].status = 1}

\* What a query of the active operators may read: no more than TeamLimit of them, in no
\* order the code asks for.
Reads(org) == {S \in SUBSET ActiveOperators(org) :
                  Cardinality(S) = Min({TeamLimit, Cardinality(ActiveOperators(org))})}

\* Those who have no scan of the last 7 days.
Quiet(org, read) == {u \in read : org.operators[u].week = 0}

(* Mutant: the list is cut before it is sorted. *)
CutFirst(db, o, read) ==
    LET month == [u \in read |-> db[o].operators[u].month]
        scanned == {u \in read : month[u] > 0}
    IN [top_operators |-> CHOOSE top \in SUBSET scanned :
                              Cardinality(top) = Min({TopLimit, Cardinality(scanned)}),
        quiet_operators |-> Quiet(db[o], read)]

\* Those with the most scans of the last 30 days, and the quiet ones.
getOrgTeam(db, o, read) ==
    LET month == [u \in read |-> db[o].operators[u].month]
    IN [top_operators |-> Largest({u \in read : month[u] > 0}, month, TopLimit),
        quiet_operators |-> Quiet(db[o], read)]

getOrgSummary(db, o) ==
    [active |-> Cardinality(ActiveOperators(db[o])),
     inactive |-> Cardinality({u \in DOMAIN db[o].operators : db[o].operators[u].status = 0}),
     webhook |-> db[o].webhook]

\* Null, here -1, unless the webhook is enabled.
getOrgWebhooks(db, o) ==
    IF db[o].webhook # "enabled" THEN [state |-> db[o].webhook, pending |-> -1, failed_24h |-> -1]
    ELSE [state |-> "enabled", pending |-> db[o].pending, failed_24h |-> db[o].failed]

\* The items, each with its severity; the operators are read anew.
getOrgAttention(db, o, read) ==
    LET quota == getOrgQuota(db, o)
        hooks == getOrgWebhooks(db, o)
        subscribed == quota.state # "no_subscription"
        item(type, severity, shown) == {x \in {<<type, severity>>} : shown}
    IN UNION {item("no_subscription", "critical", ~subscribed),
              item("quota_exhausted", "critical", quota.state = "exhausted"),
              item("quota_near_limit", "warning", quota.state = "near_limit"),
              item("subscription_expiring", IF db[o].queue > 0 THEN "info" ELSE "warning",
                   subscribed /\ quota.days_left <= 7),
              item("webhook_failing", "warning", hooks.failed_24h > 0),
              item("webhook_disabled", "info", hooks.state = "disabled"),
              item("webhook_not_configured", "info", hooks.state = "not_configured"),
              item("operators_quiet", "info", Quiet(db[o], read) # {})}

-----------------------------------------------------------------------------
(* The page of the subscription, which does take the counter in Redis.     *)

\* The scan feature's row alone has the counter.
buildUsageRows(features, counter) ==
    [f \in features |-> IF f = "scan" THEN counter ELSE 0]

buildUsagePayload(org) ==
    LET counter == IF org.cache # -1 THEN org.cache ELSE org.used IN
       IF org.plan = Planless THEN [period_count |-> 0, scan_limit |-> 0, usages |-> << >>]
       ELSE [period_count |-> counter, scan_limit |-> scanLimitOf(org),
             usages |-> buildUsageRows(IF org.limit = -1 THEN {"support"} ELSE {"scan", "support"}, counter)]

getSubscriptionSummary(db, o) ==
    [active |-> db[o].plan, future_queue |-> db[o].queue, usage |-> buildUsagePayload(db[o])]

-----------------------------------------------------------------------------
(* Properties of one database.                                             *)

\* No list of the super admin's names an organization that was deleted, though its
\* subscription stays active.
DeletedStayHidden(db) ==
    LET att == getAttention(db) IN
    att.quota_exhausted \union att.near_limit \union att.expiring_soon \union getTopOrganizations(db, 1)
        \subseteq Present(db)

\* The usage row grants at least the plan's limit: it is made with it and then raised,
\* unless the plan's was raised while its subscription was being promoted.
GrantsPlan(org) == org.granted = -1 \/ org.granted >= scanLimitOf(org)

\* What the super admin is alerted to, the organization is told itself: an expiring plan,
\* with the same word on the one queued after it, and a quota that is exhausted.  One
\* near its limit by the raised limit may be over it by the plan's own, the only one the
\* organization is shown; when nothing was raised both see the same, a plan without a
\* scan feature included: it has no limit for the organization, and that of its first
\* feature for the super admin, but only until its usage row is there to be counted.
AlertsAgree(db) ==
    \A o \in Present(db) : \A read \in Reads(db[o]) :
        LET att == getAttention(db)
            own == getOrgAttention(db, o, read)
            types == {item[1] : item \in own}
            raised == ~ db[o].granted \in {-1, scanLimitOf(db[o])}
        IN /\ o \in att.expiring_soon =>
                 <<"subscription_expiring", IF o \in att.next_plan_queued THEN "info" ELSE "warning">> \in own
           /\ scanLimitOf(db[o]) # 0 /\ GrantsPlan(db[o]) =>
                 /\ o \in att.quota_exhausted => "quota_exhausted" \in types
                 /\ o \in att.near_limit => types \intersect {"quota_near_limit", "quota_exhausted"} # {}
           /\ ~raised => /\ o \in att.quota_exhausted <=> "quota_exhausted" \in types
                         /\ o \in att.near_limit => "quota_near_limit" \in types

\* Every organization is counted under its plan or as having none, so the distribution
\* adds up to the summary's total, and to one more for each organization that was
\* deleted and keeps its subscription: those are counted, though a comment has them
\* excluded everywhere.  The list has as many organizations without a plan.
CountsAddUp(db) ==
    LET dist == getPlanDistribution(db)
        planned == Total(dist.results)
        sum == getSummary(db)
    IN /\ planned + dist.no_plan =
            sum.total + Cardinality({o \in Subscribed(db) : db[o].status = 2})
       /\ planned = sum.subscriptions
       /\ sum.total = sum.active + sum.inactive
       /\ dist.no_plan = Cardinality({o \in DOMAIN listOrganizations(db, -1) :
                                         listOrganizations(db, -1)[o].plan = Planless})

\* The page of the subscription and the dashboard tell an organization of the same plan.
\* The page counts by Redis and the dashboard by the usage row, so either may be ahead;
\* while the two counters are the same both show the same use, whoever is out of scans on
\* one is so on the other, and the super admin's list names nobody else who has a limit
\* of the plan's own.  The rows of the page add up to its count, of a plan that has a
\* scan feature; of another no row has it.
PagesAgree(db) ==
    \A o \in Subscribed(db) :
        LET page == getSubscriptionSummary(db, o)
            own == getOrgQuota(db, o)
            out == page.usage.scan_limit > 0 /\ page.usage.period_count >= page.usage.scan_limit
        IN /\ db[o].cache \in {-1, db[o].used} =>
                /\ own.used = page.usage.period_count
                /\ out <=> own.state = "exhausted"
                /\ o \in getAttention(db).quota_exhausted /\ page.usage.scan_limit > 0 /\ GrantsPlan(db[o]) => out
           /\ Total(page.usage.usages) = IF db[o].limit = -1 THEN 0 ELSE page.usage.period_count
           /\ page.future_queue > 0 <=> o \in getAttention(db).next_plan_queued

\* The deliveries the organizations see are those the super admin sees, less those of
\* organizations that have no enabled webhook; and the system's page calls the queue
\* late only if there are some.
DeliveriesAddUp(db, probe) ==
    LET on == {o \in DOMAIN db : db[o].webhook = "enabled"}
    IN /\ getWebhooks(db).pending = Total([o \in on |-> getOrgWebhooks(db, o).pending])
                                    + Total([o \in DOMAIN db \ on |-> db[o].pending])
       /\ getWebhooks(db).failed_24h >= Total([o \in on |-> getOrgWebhooks(db, o).failed_24h])
       /\ probe.configured /\ getSystem(db, probe).webhook_queue # "healthy" =>
            \E o \in DOMAIN db : db[o].pending > 0

\* Who of those a query has read scanned this week is not called quiet, and is on the list
\* of the most active unless that is full of operators with as many scans or more.  The
\* dashboard's attention says that somebody is quiet exactly when the team's page names
\* one, of a team that a query reads whole; of a larger one they may have read others.
TeamIsSplit(db) ==
    \A o \in DOMAIN db : \A read, again \in Reads(db[o]) :
        LET team == getOrgTeam(db, o, read)
            month(u) == db[o].operators[u].month
        IN /\ team.quiet_operators \subseteq ActiveOperators(db[o])
           /\ Cardinality(team.quiet_operators) <= getOrgSummary(db, o).active
           /\ \A u \in read \ (team.quiet_operators \union team.top_operators) :
                /\ Cardinality(team.top_operators) = TopLimit
                /\ \A v \in team.top_operators : month(v) >= month(u)
           /\ getOrgSummary(db, o).active <= TeamLimit =>
                ((<<"operators_quiet", "info">> \in getOrgAttention(db, o, again)) <=> team.quiet_operators # {})
=============================================================================
