---------------------------- MODULE DashboardDays ----------------------------
(***************************************************************************)
(* Days, months and ranges in the dashboards' time zone:                   *)
(* utils/dashboard-time.ts.  An instant is a number of hours (UTC), a day  *)
(* and a month are numbered from an arbitrary one, as Date.UTC does with a *)
(* day outside its month.  A zone changes its offset once.                 *)
(*                                                                         *)
(* Left out: minutes and seconds, the bounds by ObjectId, labels.          *)
(***************************************************************************)
EXTENDS Integers, FiniteSets, Totals

CONSTANT FirstDay   \* month -> its first day, for some consecutive months

Day == 24

Least(S) == CHOOSE n \in S : \A m \in S : n <= m

\* tzOffsetMs, of a zone [before, after, at].
Offset(zone, t) == IF t < zone.at THEN zone.before ELSE zone.after

\* zonedParts, as far as days.
DayOf(zone, t) == (t + Offset(zone, t)) \div Day

\* zonedTimeToUtc at midnight: the offset is looked up twice.
ToUtc(zone, day) ==
    LET guess == day * Day - Offset(zone, day * Day) IN day * Day - Offset(zone, guess)

startOfDayUtc(zone, t) == ToUtc(zone, DayOf(zone, t))
shiftDaysUtc(zone, t, days) == ToUtc(zone, DayOf(zone, t) + days)

MonthOf(day) == CHOOSE m \in DOMAIN FirstDay : /\ FirstDay[m] <= day
                                               /\ m + 1 \in DOMAIN FirstDay => day < FirstDay[m + 1]

startOfMonthUtc(zone, t) == ToUtc(zone, FirstDay[MonthOf(DayOf(zone, t))])

getMonthWindows(zone, now) ==
    LET start == startOfMonthUtc(zone, now)
        previous == startOfMonthUtc(zone, start - 1)
    IN [monthStart |-> start, previousMonthStart |-> previous,
        previousMonthSamePeriodEnd |-> Least({previous + (now - start), start})]

\* A preset: the last days up to the end of today.
PresetRange(zone, now, days) ==
    LET end == shiftDaysUtc(zone, startOfDayUtc(zone, now), 1)
        start == shiftDaysUtc(zone, end, -days)
    IN [start |-> start, end |-> end, days |-> days, previousStart |-> shiftDaysUtc(zone, start, -days)]

\* Custom: whole days, the last included; the hours between are rounded to days.
CustomRange(zone, from, to) ==
    LET start == startOfDayUtc(zone, from)
        end == shiftDaysUtc(zone, to, 1)
        rounded == (end - start + Day \div 2) \div Day
        days == IF rounded < 1 THEN 1 ELSE rounded
    IN [start |-> start, end |-> end, days |-> days, previousStart |-> shiftDaysUtc(zone, start, -days)]

(* Mutant: a day is 24 hours. *)
PlainDays(zone, start, end) ==
    LET first == startOfDayUtc(zone, start)
        cursor == [n \in 0..((end - first) \div Day + 2) |-> first + n * Day]
    IN {[key |-> DayOf(zone, cursor[n]), start |-> cursor[n], end |-> Least({cursor[n + 1], end})] :
           n \in {m \in 0..((end - first) \div Day + 1) : cursor[m] < end}}

\* The loop of dayBuckets: each bucket starts where the last one ended, as long as that
\* is before the end of the range.  If the cursor does not move the loop does not end;
\* here it is cut off after more turns than a range has days.
dayBuckets(zone, start, end) ==
    LET first == startOfDayUtc(zone, start)
        turns == (end - first) \div Day + 2
        cursor[n \in 0..turns + 1] ==
            IF n = 0 THEN first ELSE ToUtc(zone, DayOf(zone, cursor[n - 1]) + 1)
    IN {[key |-> DayOf(zone, cursor[n]), start |-> cursor[n], end |-> Least({cursor[n + 1], end})] :
           n \in {m \in 0..turns : cursor[m] < end}}

-----------------------------------------------------------------------------
(* Charts.  Scans are a function from ids to records: scanned, the time    *)
(* the device gives, stored, that of the document's id.                    *)

Stored(scans) == [i \in DOMAIN scans |-> scans[i].stored]
Scanned(scans) == [i \in DOMAIN scans |-> scans[i].scanned]
Created(rows) == [i \in DOMAIN rows |-> rows[i].created]

\* What Mongo groups by day, of the items whose time is within a window.
DailyCounts(zone, start, end, times) ==
    LET found == {i \in DOMAIN times : start <= times[i] /\ times[i] < end}
    IN [day \in {DayOf(zone, times[i]) : i \in found} |->
           Cardinality({i \in found : DayOf(zone, times[i]) = day})]

\* Each bucket shows the group of its key, or nothing.
Points(zone, start, end, counts) ==
    [key \in {bucket.key : bucket \in dayBuckets(zone, start, end)} |->
        IF key \in DOMAIN counts THEN counts[key] ELSE 0]

Series(zone, start, end, times) == Points(zone, start, end, DailyCounts(zone, start, end, times))

\* The super admin's charts: scans by the time they were stored, ...
getScanTrend(zone, range, scans) ==
    [points |-> Series(zone, range.start, range.end, Stored(scans)),
     comparison |-> Series(zone, range.previousStart, range.start, Stored(scans))]

\* ... and organizations, those that were deleted left out, and leads.
getGrowth(zone, range, orgs, leads) ==
    [organizations |-> Series(zone, range.start, range.end,
                              [o \in {o \in DOMAIN orgs : orgs[o].status # 2} |-> orgs[o].created]),
     guest_leads |-> Series(zone, range.start, range.end, Created(leads))]

\* The organization's: its scans by the time of the device, and the hour of the day with
\* the most; of hours with as many, any.
getOrgScanTrend(zone, range, scans) ==
    LET found == {i \in DOMAIN scans : range.start <= scans[i].scanned /\ scans[i].scanned < range.end}
        hour(i) == (scans[i].scanned + Offset(zone, scans[i].scanned)) % Day
        at(h) == Cardinality({i \in found : hour(i) = h})
    IN [points |-> Series(zone, range.start, range.end, Scanned(scans)),
        comparison |-> Series(zone, range.previousStart, range.start, Scanned(scans)),
        peak_hour |-> {[hour |-> h, count |-> at(h)] : h \in {h \in {hour(i) : i \in found} :
                           \A i \in found : at(hour(i)) <= at(h)}}]

\* The subscription page's chart of a period, by days of UTC, those with scans only.
Utc == [before |-> 0, after |-> 0, at |-> 0]
getUsageTrend(start, end, scans) ==
    LET counts == DailyCounts(Utc, start, end, Scanned(scans))
    IN [day \in DOMAIN counts |->
           [count |-> counts[day],
            cumulative |-> Total([d \in {e \in DOMAIN counts : e <= day} |-> counts[d]])]]

-----------------------------------------------------------------------------
(* Properties of one question: a zone, an instant and another.             *)

\* A shift by a day reaches the next day, whatever the clocks do, unless the zone is west
\* of UTC and skips that midnight.  There the offset the code looks up second is that of
\* after the change: it finds 23:00 of the same day, and from there every shift by a day,
\* and every turn of dayBuckets, is back where it was.
ShiftsReachDays(zone, t) ==
    LET next == shiftDaysUtc(zone, t, 1)
        midnight == (DayOf(zone, t) + 1) * Day - zone.before
        skipped == zone.before < 0 /\ zone.before < zone.after /\ zone.at = midnight
    IN IF skipped THEN DayOf(zone, next) = DayOf(zone, t) /\ shiftDaysUtc(zone, next, 1) = next
       ELSE DayOf(zone, next) = DayOf(zone, t) + 1

\* Days whose midnight the zone's clocks show: some zones skip it once a year.  Some show
\* it twice; the first is the one the code finds, but for zones ahead of UTC.
HasMidnights(zone, from, to) ==
    \A d \in DayOf(zone, from)..DayOf(zone, to) :
        LET shown == {t \in {d * Day - zone.before, d * Day - zone.after} : t + Offset(zone, t) = d * Day}
        IN shown # {} /\ (zone.before > 0 => \A t, u \in shown : t = u)

\* Whatever the offset does within the range, the buckets are the range cut at its
\* midnights: every instant is in one bucket, whose key is the day Mongo groups the
\* instant under, so a chart shows every scan of its range once.
DaysPartition(zone, range) ==
    HasMidnights(zone, range.start, range.end) =>
        LET buckets == dayBuckets(zone, range.start, range.end) IN
        /\ \A t \in range.start..range.end - 1 :
             \E b \in buckets : /\ b.start <= t /\ t < b.end
                                /\ \A c \in buckets : (c.start <= t /\ t < c.end) \/ c.key = DayOf(zone, t) => c = b
                                /\ b.key = DayOf(zone, t)
        /\ \A b \in buckets : b.start < b.end

\* The period a range is compared with has as many days, up to the range's first, if the
\* range also ends at a midnight.
PeriodsAreEqual(zone, range) ==
    HasMidnights(zone, range.previousStart, range.end + 1) =>
        /\ DayOf(zone, range.end) - DayOf(zone, range.start) = range.days
        /\ DayOf(zone, range.start) - DayOf(zone, range.previousStart) = range.days

\* The charts tell of the same scans.  Those that were stored when they were scanned are
\* on the same day of the super admin's chart and of the organization's; every scan of
\* the range and of the period it is compared with is on one point of the organization's
\* chart, however late it came; and the subscription page counts as many over the same
\* time, whatever the zone.
ChartsAgree(zone, range, scans) ==
    LET prompt == [i \in {i \in DOMAIN scans : scans[i].stored = scans[i].scanned} |-> scans[i]]
        own == getOrgScanTrend(zone, range, scans)
        trend == getUsageTrend(range.start, range.end, scans)
        within(start, end) == Cardinality({i \in DOMAIN scans : start <= scans[i].scanned /\ scans[i].scanned < end})
    IN HasMidnights(zone, range.previousStart, range.end) =>
        /\ getScanTrend(zone, range, prompt).points = getOrgScanTrend(zone, range, prompt).points
        /\ Total(own.points) = within(range.start, range.end)
        /\ Total(own.comparison) = within(range.previousStart, range.start)
        /\ DOMAIN own.points \intersect DOMAIN own.comparison = {}
        /\ IF DOMAIN trend = {} THEN Total(own.points) = 0 /\ own.peak_hour = {}
           ELSE trend[CHOOSE d \in DOMAIN trend : \A e \in DOMAIN trend : e <= d].cumulative = Total(own.points)
        /\ getGrowth(zone, range, [i \in DOMAIN scans |-> [created |-> scans[i].scanned, status |-> 1]],
                     [i \in {} |-> 0]).organizations = own.points

\* The month to date and the part of the month before it is compared with lie each in
\* its month, though the months differ in length.
MonthsAreApart(zone, now) ==
    LET win == getMonthWindows(zone, now)
        month == MonthOf(DayOf(zone, now))
    IN HasMidnights(zone, win.previousMonthStart, now) /\ month - 1 \in DOMAIN FirstDay =>
        /\ \A t \in win.monthStart..now : MonthOf(DayOf(zone, t)) = month
        /\ \A t \in win.previousMonthStart..win.previousMonthSamePeriodEnd - 1 :
             MonthOf(DayOf(zone, t)) = month - 1
        /\ win.previousMonthSamePeriodEnd <= win.monthStart
=============================================================================
