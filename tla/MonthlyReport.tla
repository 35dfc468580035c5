---------------------------- MODULE MonthlyReport ----------------------------
(***************************************************************************)
(* The monthly report (monthly-review-service.ts, report-service.ts): what *)
(* was published, imported and measured in a month of the client's         *)
(* calendar, read by several queries of one transaction while publications *)
(* end, interactions are imported and metrics are synced.  Its transaction *)
(* is RepeatableRead: every query sees the database of the first one.      *)
(*                                                                         *)
(* A zone's offset changes at most once; it is at most a day, and no       *)
(* change sets the local calendar back into a month that has ended (where  *)
(* clocks go back at midnight today, they do so later in a month).  One    *)
(* account and one metric; counts are the sets they count.  Left out: the  *)
(* leads and accounts of the report, which publications were simulated,    *)
(* rows of other tenants, wording, and the states of syncs, which nothing  *)
(* in src/ writes.                                                         *)
(***************************************************************************)
EXTENDS Integers, Sequences, FiniteSets

CONSTANTS Publications,   \* bound: the publish jobs there may be
          MaxRecords,     \* bound: the rows there may be, of all kinds
          LastInstant,    \* bound: the time the model ends at
          CommitLag,      \* bound: how long before its commit a row's time is taken
          Zones,          \* time zones: the offsets before and after a change, and when it is
          DayLength,      \* instants of a day
          MonthDays       \* days of a month

MonthAt(t, offset) == ((t + offset) \div DayLength) \div MonthDays

ASSUME CalendarAssumption ==
  /\ DayLength \in Nat \ {0} /\ MonthDays \in Nat \ {0} /\ LastInstant \in Nat
  /\ Zones \subseteq [before : -DayLength..DayLength, after : -DayLength..DayLength, at : Int]
  /\ \A z \in Zones : MonthAt(z.at - 1, z.before) <= MonthAt(z.at, z.after)

\* Before any instant a row may bear.
NoTime == -1 - DayLength

VARIABLES
  monZone,    \* the client's time zone
  monNow,
  monData,    \* the rows: jobs, interactions, metric snapshots
  monReport   \* the report's transaction

monVars == <<monZone, monNow, monData, monReport>>

NoPublication == [created |-> NoTime, published |-> NoTime]
NoReport == [phase |-> "idle", month |-> 0, asOf |-> 0, seen |-> {}, read |-> 0, facts |-> {}]
NoFacts == [published |-> {}, cohort |-> {}, occurred |-> {}, late |-> {}, samples |-> {}]

MonInit ==
  /\ monZone \in Zones
  /\ monNow = 0
  /\ monData = [jobs |-> [j \in Publications |-> NoPublication],
                interactions |-> {}, rows |-> {}]
  /\ monReport = NoReport

-----------------------------------------------------------------------------
(* The client's calendar *)

localDate(t) == (t + IF t < monZone.at THEN monZone.before ELSE monZone.after) \div DayLength

LocalMonth(t) == localDate(t) \div MonthDays

\* By halves, from two days before the month begins in UTC to two days after.
monthBoundaryUtc(month) ==
  LET anchor == month * MonthDays * DayLength
      search[interval \in Int \X Int] ==
        LET low == interval[1]  high == interval[2]
            middle == low + (high - low) \div 2
        IN  IF low >= high THEN low
            ELSE IF localDate(middle) < month * MonthDays
                 THEN search[<<middle + 1, high>>] ELSE search[<<low, middle>>]
  IN  search[<<anchor - 2 * DayLength, anchor + 2 * DayLength>>]

resolveMonthlyReviewPeriod(month, asOf) ==
  LET end == monthBoundaryUtc(month + 1)
  IN  [start |-> monthBoundaryUtc(month), end |-> end,
       effectiveEnd |-> IF month = LocalMonth(asOf) THEN asOf ELSE end]

Within(t, from, to) == from <= t /\ t < to
InWindow(t, period) == Within(t, period.start, period.effectiveEnd)

-----------------------------------------------------------------------------
(* The report's queries, each on the rows it sees *)

\* One connection runs them, in the order Promise.all is given them.
Queries == <<"published", "cohort", "occurred", "late", "metrics">>

publishedQuery(data, period, asOf) ==
  {j \in Publications : /\ data.jobs[j].published # NoTime
                        /\ InWindow(data.jobs[j].published, period)
                        /\ data.jobs[j].created <= asOf}

\* The jobs created in the month, with the status they have.
cohortQuery(data, period) ==
  {[job |-> j, status |-> IF data.jobs[j].published # NoTime THEN "PUBLISHED" ELSE "PENDING"] :
     j \in {i \in Publications : data.jobs[i].created # NoTime /\ InWindow(data.jobs[i].created, period)}}

occurredQuery(data, period, asOf) ==
  {i \in data.interactions : InWindow(i.occurred, period) /\ i.imported <= asOf}

lateQuery(data, period, asOf) ==
  {i \in data.interactions : /\ InWindow(i.occurred, period)
                             /\ period.end <= i.imported /\ i.imported <= asOf}

\* The rows the database is asked for.
metricQuery(data, period, asOf) ==
  {r \in data.rows : /\ r.fetched <= asOf /\ r.stored <= asOf
                     /\ \/ r.from # NoTime /\ r.from < period.end /\ r.to > period.start
                        \/ InWindow(r.fetched, period)}

\* Those of the month, and of each identity the latest; the id decides a tie.
monthlyMetricRows(rows, period) ==
  LET bounded(r) == r.from # NoTime /\ r.from < r.to
      relevant == {r \in rows : IF bounded(r) THEN r.from < period.effectiveEnd /\ r.to > period.start
                                ELSE InWindow(r.fetched, period)}
      identity(r) == <<r.kind, r.from, r.to>>
      newer(q, r) == q.fetched > r.fetched \/ (q.fetched = r.fetched /\ q.id > r.id)
  IN  {r \in relevant : ~ \E q \in relevant : identity(q) = identity(r) /\ newer(q, r)}

\* What a query of this report adds to its facts.
Answer(query, data, report) ==
  LET period == resolveMonthlyReviewPeriod(report.month, report.asOf)
  IN  CASE query = "published" -> [report.facts EXCEPT !.published = publishedQuery(data, period, report.asOf)]
        [] query = "cohort"    -> [report.facts EXCEPT !.cohort = cohortQuery(data, period)]
        [] query = "occurred"  -> [report.facts EXCEPT !.occurred = occurredQuery(data, period, report.asOf)]
        [] query = "late"      -> [report.facts EXCEPT !.late = lateQuery(data, period, report.asOf)]
        [] query = "metrics"   -> [report.facts EXCEPT !.samples =
             monthlyMetricRows(metricQuery(data, period, report.asOf), period)]

-----------------------------------------------------------------------------
(* What happens meanwhile; with the report the model ends *)

Records == Cardinality({j \in Publications : monData.jobs[j].created # NoTime})
           + Cardinality(monData.interactions) + Cardinality(monData.rows)
\* Bound: with its last query the report has seen what it tells.
StillReads == monReport.read < Len(Queries)
RoomForRow == Records < MaxRecords /\ StillReads
Told == monReport.phase = "told"

\* The time a row being committed may bear.
Stamps == {t \in 0 .. monNow : t >= monNow - CommitLag}

\* Bound: the report is made within an instant, though not in one step.
MonthTicks ==
  /\ monNow < LastInstant /\ monReport.phase = "idle"
  /\ monNow' = monNow + 1
  /\ UNCHANGED <<monZone, monData, monReport>>

CreateJob(j) ==
  /\ RoomForRow /\ monData.jobs[j].created = NoTime
  /\ \E t \in Stamps : monData' = [monData EXCEPT !.jobs[j].created = t]
  /\ UNCHANGED <<monZone, monNow, monReport>>

\* The platform's time, the worker's or the operator's, who may report what is long past.
JobIsPublished(j) ==
  /\ StillReads /\ monData.jobs[j].created # NoTime /\ monData.jobs[j].published = NoTime
  /\ \E t \in 0 .. monNow : monData' = [monData EXCEPT !.jobs[j].published = t]
  /\ UNCHANGED <<monZone, monNow, monReport>>

InteractionIsImported ==
  /\ RoomForRow
  /\ \E t \in Stamps : \E occurred \in 0 .. t :
       monData' = [monData EXCEPT !.interactions = @ \cup {[occurred |-> occurred, imported |-> t]}]
  /\ UNCHANGED <<monZone, monNow, monReport>>

\* The row of a metric.
AddRow(kind, fetched, from, to) ==
  monData' = [monData EXCEPT !.rows = @ \cup
    {[id |-> Cardinality(@), kind |-> kind, fetched |-> fetched, stored |-> monNow, from |-> from, to |-> to]}]

\* However long the platform took to answer.  It gives the end of a period, or none; a failure
\* is a row without one.
syncFacebookMetrics ==
  /\ RoomForRow
  /\ \E asked \in 0 .. monNow : \E to \in {NoTime, asked} : AddRow("REAL", asked, NoTime, to)
  /\ UNCHANGED <<monZone, monNow, monReport>>

createMockMetricSnapshots ==
  /\ RoomForRow
  /\ AddRow("MOCK", monNow, monNow - DayLength, monNow)
  /\ UNCHANGED <<monZone, monNow, monReport>>

-----------------------------------------------------------------------------
(* The report *)

\* A month to come is refused; the time is taken before the transaction begins.
generateMonthlyOperationReport(month) ==
  /\ monReport.phase = "idle" /\ month <= LocalMonth(monNow)
  /\ monReport' = [NoReport EXCEPT !.phase = "asked", !.month = month, !.asOf = monNow]
  /\ UNCHANGED <<monZone, monNow, monData>>

\* The transaction's first statement reads the client, and fixes what the others see.
FindClient ==
  /\ monReport.phase = "asked"
  /\ monReport' = [monReport EXCEPT !.phase = "reading", !.seen = monData, !.facts = NoFacts]
  /\ UNCHANGED <<monZone, monNow, monData>>

\* Mutant: every query sees what is committed when it runs.
ReadCommitted == monData

Snapshot == monReport.seen

buildMonthlyReviewFactsV1 ==
  /\ monReport.phase = "reading" /\ monReport.read < Len(Queries)
  /\ monReport' = [monReport EXCEPT !.read = @ + 1,
                                    !.facts = Answer(Queries[monReport.read + 1], Snapshot, monReport)]
  /\ UNCHANGED <<monZone, monNow, monData>>

CreateReport ==
  /\ monReport.phase = "reading" /\ monReport.read = Len(Queries)
  /\ monReport' = [monReport EXCEPT !.phase = "told"]
  /\ UNCHANGED <<monZone, monNow, monData>>

MonNext ==
  \/ MonthTicks \/ InteractionIsImported \/ createMockMetricSnapshots
  \/ syncFacebookMetrics
  \/ \E j \in Publications : CreateJob(j) \/ JobIsPublished(j)
  \/ \E month \in 0 .. LastInstant : generateMonthlyOperationReport(month)
  \/ FindClient \/ buildMonthlyReviewFactsV1 \/ CreateReport

MonSpec == MonInit /\ [][MonNext]_monVars

-----------------------------------------------------------------------------
(* Properties *)

\* An instant of the reported month, by the client's calendar, that was past when it was asked.
OfTheMonth(t) == LocalMonth(t) = monReport.month /\ t < monReport.asOf

\* What the report counts as published is what was, in that month of the client's calendar.
PublishedInMonth ==
  monReport.facts.published =
    {j \in Publications : LET job == monReport.seen.jobs[j]
                          IN  job.published # NoTime /\ OfTheMonth(job.published) /\ job.created <= monReport.asOf}

\* Its numbers are of one moment: a job it counts as published is not pending among the jobs
\* created, and every interaction that came late is one that occurred.
NumbersAgree ==
  /\ \A c \in monReport.facts.cohort : c.job \in monReport.facts.published => c.status = "PUBLISHED"
  /\ monReport.facts.late \subseteq monReport.facts.occurred

\* No later sample of a metric is missing, no mock one stands for a real one, and a period of
\* it is told once (monthlyMetricRows).
SamplesAreLatest ==
  /\ \A r \in monReport.seen.rows :
       (r.kind = "REAL" /\ r.stored <= monReport.asOf /\ OfTheMonth(r.fetched)) =>
         \E s \in monReport.facts.samples : s.kind = "REAL" /\ s.to = r.to /\ s.fetched >= r.fetched
  /\ \A q, s \in monReport.facts.samples :
       q.kind = s.kind /\ q.from = s.from /\ q.to = s.to => q = s

\* A report is sound, whatever was written while it was made (generateMonthlyOperationReport:
\* "All fact reads and the insert share one database snapshot").
ReportIsSound == Told => PublishedInMonth /\ NumbersAgree /\ SamplesAreLatest
=============================================================================
