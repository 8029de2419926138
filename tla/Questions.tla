------------------------------ MODULE Questions ------------------------------
(***************************************************************************)
(* Modules that have no steps, and the questions they are asked: of a zone *)
(* and a range, of a database, a file, a desk, an account and a table of   *)
(* countries.                                                              *)
(***************************************************************************)
EXTENDS Integers, Sequences, FiniteSets

CONSTANTS
    FirstDay, Presets, Customs, Delays,                          \* DashboardDays
    Planless, NearLimitPct, TeamLimit, TopLimit, AtLimit, Others, Probes, \* Dashboards
    Files, KindSets,                                             \* AttachmentRules
    FirstResponse, MaxContext, Tickets, NewTickets, Accounts,    \* SupportViews
    Tables, Seeds, Labels                                        \* Countries

Days == INSTANCE DashboardDays
Reports == INSTANCE Dashboards
Rules == INSTANCE AttachmentRules
Views == INSTANCE SupportViews
Names == INSTANCE Countries

-----------------------------------------------------------------------------
(* What the questions are of.                                              *)

\* A zone changes by at most an hour.
IsZone(zone) == zone.before \in Int /\ zone.after \in Int /\ zone.at \in Int
                /\ zone.after - zone.before \in {-1, 0, 1}

\* The range of a preset, of days up to today, and that from a day to another.
IsPreset(q) == "days" \in DOMAIN q /\ IsZone(q.zone) /\ q.at \in Int /\ q.days \in Nat /\ q.days > 0
IsCustom(q) == "days" \notin DOMAIN q /\ IsZone(q.zone) /\ q.at \in Int /\ q.to \in Int /\ q.at <= q.to

\* Consecutive months, each of at least a day.
IsCalendar ==
    /\ \E lo, hi \in DOMAIN FirstDay : lo \in Int /\ hi \in Int /\ DOMAIN FirstDay = lo..hi
    /\ \A m \in DOMAIN FirstDay : FirstDay[m] \in Int
    /\ \A m, n \in DOMAIN FirstDay : m < n => FirstDay[m] < FirstDay[n]

\* What is stored about an organization: who has no usage row has used nothing by it, and
\* the counter in Redis may be ahead of the row or behind it.
IsOrg(o) ==
    /\ o.status \in 0..2 /\ o.left \in Int /\ o.queue \in Nat /\ o.used \in Nat /\ o.first \in Nat
    /\ o.limit \in Nat \union {-1} /\ o.granted \in Nat \union {-1} /\ o.cache \in Nat \union {-1}
    /\ o.granted = -1 => o.used = 0
    /\ o.pending \in Nat /\ o.failed \in Nat /\ o.refused \in Nat
    /\ IsFiniteSet(DOMAIN o.operators)
    /\ \A u \in DOMAIN o.operators : /\ o.operators[u].week \in Nat /\ o.operators[u].month \in Nat
                                     /\ o.operators[u].week <= o.operators[u].month

IsFile(file) == file.size \in Nat

IsTicket(t) == /\ t.status \in {"open", "in_progress", "waiting_for_customer", "resolved", "closed"}
               /\ t.created \in Int /\ t.customer \in Nat /\ t.staff \in Nat

\* A table of countries, whose names come from a set.
IsRow(r, L) == r = [code |-> r.code, name |-> r.name, aliases |-> r.aliases] /\ r.aliases \in Seq(L)
IsTable(T, L) == DOMAIN T \subseteq Nat /\ \A i \in DOMAIN T : IsRow(T[i], L)

\* nearLimitPct is not 0, by which every quota would be near its limit; lists have room.
ASSUME QuestionAssumption ==
    /\ IsCalendar
    /\ \A q \in Presets \union Customs :
         /\ IsPreset(q) \/ IsCustom(q)
         /\ \E m \in DOMAIN FirstDay : FirstDay[m] <= Days!DayOf(q.zone, q.at)
    /\ NearLimitPct \in Nat \ {0} /\ TeamLimit \in Nat \ {0} /\ TopLimit \in Nat \ {0}
    /\ \A o \in AtLimit \union Others : IsOrg(o)
    /\ \A f \in Files : IsFile(f)
    /\ KindSets \subseteq SUBSET Rules!Kinds
    /\ FirstResponse \in Int /\ \A t \in Tickets \union NewTickets : IsTicket(t)
    /\ \A T \in Tables : IsTable(T, Labels)
    /\ Seeds \subseteq Seq(Labels)

-----------------------------------------------------------------------------
(* The questions.                                                          *)

\* The range of a preset and that of two dates.
RangeOf(q) == IF "days" \in DOMAIN q THEN Days!PresetRange(q.zone, q.at, q.days)
              ELSE Days!CustomRange(q.zone, q.at, q.to)

\* Scans at both ends of a range, a day later and before it, stored late or not.
ScansOf(range, delay) ==
    << [scanned |-> range.start, stored |-> range.start],
       [scanned |-> range.end - 1, stored |-> range.end - 1 + delay],
       [scanned |-> range.start + 25, stored |-> range.start + 25],
       [scanned |-> range.start - 1, stored |-> range.start + 30] >>

DaysAgree(q) ==
    /\ Days!ShiftsReachDays(q.zone, q.at)
    /\ Days!DaysPartition(q.zone, RangeOf(q))
    /\ Days!PeriodsAreEqual(q.zone, RangeOf(q))
    /\ Days!MonthsAreApart(q.zone, q.at)
    /\ \A delay \in Delays : Days!ChartsAgree(q.zone, RangeOf(q), ScansOf(RangeOf(q), delay))

ReportsAgree(data) ==
    /\ Reports!DeletedStayHidden(data) /\ Reports!AlertsAgree(data)
    /\ Reports!CountsAddUp(data) /\ Reports!TeamIsSplit(data) /\ Reports!PagesAgree(data)
    /\ \A probe \in Probes : Reports!DeliveriesAddUp(data, probe)

DeskAgrees(desk) ==
    /\ \A who \in {"all", "o1"} : Views!CountersMatchLists(desk, who, 5)
    /\ Views!TurnsAgree(desk, 5) /\ Views!OverdueAgrees(desk, 5) /\ Views!SearchNarrows(desk, "x")

\* A row of the table is seeded, and a name stored.
NamesAgree(table, seed, name) ==
    LET byCode == [code \in {<<"T", 1>>} |-> seed] IN
    /\ Names!MigrationIsIdempotent(table, byCode, <<name>>)
    /\ Names!AliasesResolve(table, byCode, <<name>>)
    /\ Names!ResolvedIsCanonical(table, byCode, <<name>>)
=============================================================================
