-------------------------- MODULE AnalyticsQueries --------------------------
(***************************************************************************)
(* What the analytics pages make of the metric snapshots that syncs leave  *)
(* behind (analytics-service.ts; the syncs of facebook-service.ts): the    *)
(* overview of a period and the one before it, the comparison of accounts, *)
(* and the health of an account's data.  A row bears the instant its sync  *)
(* asked at; what could not be read is a row without a value.  The pages   *)
(* read nothing but rows, so that when they were stored does not matter.   *)
(*                                                                         *)
(* One metric of pages, a post for each account; a day, a week and a month *)
(* are a few instants, all of one length.  Left out: the review's wording, *)
(* percentages, the filters by platform and content, and the states of     *)
(* syncs, which nothing in src/ writes.                                    *)
(***************************************************************************)
EXTENDS Integers, FiniteSetsExt

CONSTANTS AnaAccounts,
          GrainLength,    \* instants of a "day", a "week" and a "month"
          StaleAfter,     \* a value this old is still fresh
          HealthRows,     \* rows the health of an account is read from
          Readings,       \* values a metric may have
          MaxSyncs,       \* bound: the syncs that store rows
          AnaLastTime     \* bound: the time the model ends at

ASSUME AnalyticsAssumption ==
  /\ GrainLength \in [{"day", "week", "month"} -> Nat \ {0}]
  /\ Readings \subseteq Nat /\ HealthRows \in Nat \ {0} /\ StaleAfter \in Nat

VARIABLES
  anaTime,
  anaRows,    \* the snapshots
  anaSyncs    \* the syncs that have stored theirs

anaVars == <<anaTime, anaRows, anaSyncs>>

NoValue == -1
Open == -1 - GrainLength["week"]   \* the end of an interval nobody gave
NoKey == "none"
ThePost == "post"   \* of an account
NoPost == "account"

AnaInit == anaTime = 0 /\ anaRows = {} /\ anaSyncs = 0

-----------------------------------------------------------------------------
(* What is stored *)

Reading(raw, value, from, to) ==
  [raw |-> raw, value |-> value, availability |-> "AVAILABLE", from |-> from, to |-> to]
Unread(raw, availability, from, to) ==
  [raw |-> raw, value |-> NoValue, availability |-> availability, from |-> from, to |-> to]

Unavailable == {"UNSUPPORTED", "PERMISSION_DENIED", "READ_FAILED"}

\* The page's number of its last whole day, or one it gives no day for.
readMetrics ==
  LET lastDay == anaTime - (anaTime % GrainLength["day"])
  IN  {<<Reading("page_impressions", v, Open, to)>> : v \in Readings, to \in {Open, lastDay}}
      \cup {<<Unread("page_impressions", why, Open, Open)>> : why \in Unavailable}

\* Those of the two totals the platform gives; none is one row.
readPostMetrics ==
  LET total(raw, v) == Reading(raw, v, Open, Open)
  IN  {<<total("post_comments_total", v)>> : v \in Readings}
      \cup {<<total("post_comments_total", v), total("post_reactions_total", v)>> : v \in Readings}
      \cup {<<Unread("post_engagement", why, Open, Open)>> : why \in Unavailable}

\* A row; a sync stores no more than two, and ids go on from sync to sync.
MetricSnapshot(reading, i, account, post, kind) ==
  [raw |-> reading.raw, value |-> reading.value, availability |-> reading.availability,
   from |-> reading.from, to |-> reading.to, id |-> 2 * anaSyncs + i,
   account |-> account, post |-> post, kind |-> kind, fetched |-> anaTime]

\* The rows of one sync.
Store(account, post, kind, rows) ==
  /\ anaRows' = anaRows \cup {MetricSnapshot(rows[i], i, account, post, kind) : i \in DOMAIN rows}
  /\ anaSyncs' = anaSyncs + 1
  /\ UNCHANGED anaTime

MaySync == anaSyncs < MaxSyncs

SyncPageMetrics(a) ==
  /\ MaySync
  /\ \E rows \in readMetrics : Store(a, NoPost, "REAL", rows)

syncFacebookPostMetrics(a) ==
  /\ MaySync
  /\ \E rows \in readPostMetrics : Store(a, ThePost, "REAL", rows)

\* Of the week before now; the second metric is one no page knows.
MockMetrics(a) ==
  /\ MaySync
  /\ \E v \in Readings :
       LET from == anaTime - GrainLength["week"]
       IN  Store(a, NoPost, "MOCK", <<Reading("impressions", v, from, anaTime),
                                      Unread("qualified_leads", "NOT_FETCHED", from, anaTime)>>)

AnalyticsTicks ==
  /\ anaTime < AnaLastTime /\ MaySync
  /\ anaTime' = anaTime + 1
  /\ UNCHANGED <<anaRows, anaSyncs>>

-----------------------------------------------------------------------------
(* What the pages make of it *)

canonicalMetricKeys == {"impressions", "comments", "likes", "engagement"}
aliases == [page_impressions |-> "impressions", post_comments_total |-> "comments",
            post_reactions_total |-> "likes", post_engagement |-> "engagement"]

canonicalizeMetricKey(raw) ==
  IF raw \in canonicalMetricKeys THEN raw
  ELSE IF raw \in DOMAIN aliases THEN aliases[raw] ELSE NoKey

periodBounds(now, grain) ==
  LET start == now - (now % GrainLength[grain])
  IN  [previous |-> start - GrainLength[grain], current |-> start, end |-> start + GrainLength[grain]]

During(rows, from, to) == {r \in rows : from <= r.fetched /\ r.fetched < to}

\* By their times, the latest first; the database may give those of one instant in either order.
Ties == {"newer first", "older first"}
Precedes(q, r, tie) ==
  \/ q.fetched > r.fetched
  \/ /\ q.fetched = r.fetched
     /\ IF tie = "newer first" THEN q.id > r.id ELSE q.id < r.id
Place(r, rows, tie) == Cardinality({q \in rows : Precedes(q, r, tie)})
Ordered(rows, tie) == [n \in 1..Cardinality(rows) |-> CHOOSE r \in rows : Place(r, rows, tie) = n - 1]

WasRead(r) == r.availability = "AVAILABLE" /\ r.value # NoValue
Interval(r) == <<r.from, r.to>>
dimensionKey(r) == <<canonicalizeMetricKey(r.raw), r.account, r.post>>
latestSnapshotKey(r) ==
  <<r.account, IF canonicalizeMetricKey(r.raw) = NoKey THEN r.raw ELSE canonicalizeMetricKey(r.raw),
    r.post, r.from, r.to>>

\* Of the rows of one key the latest, and of several the one that comes first: what is kept
\* when the first n rows have been read.
LatestBy(key, rows, tie) ==
  LET row == Ordered(rows, tie)
      kept[n \in 0..Cardinality(rows)] ==
        IF n = 0 THEN {}
        ELSE LET before == kept[n - 1]  r == row[n]
             IN  IF \E k \in before : key[k] = key[r] /\ k.fetched >= r.fetched THEN before
                 ELSE {k \in before : key[k] # key[r]} \cup {r}
  IN  kept[Cardinality(rows)]

Total(rows) == MapThenSumSet(LAMBDA r : r.value, rows)

\* Mutant: every reading counts.
sumSamples(samples, tie) == IF samples = {} THEN NoValue ELSE Total(samples)

sumDeduplicatedSamples(samples, tie) ==
  IF samples = {} THEN NoValue ELSE Total(LatestBy([r \in samples |-> Interval(r)], samples, tie))

aggregateMetricSnapshots(rows, bounds, tie) ==
  LET dimensions == {dimensionKey(r) : r \in {q \in rows : canonicalizeMetricKey(q.raw) # NoKey}}
      ofIt(d) == {r \in rows : dimensionKey(r) = d}
      read(d) == {r \in ofIt(d) : WasRead(r)}
  IN  [d \in dimensions |->
         [current |-> sumDeduplicatedSamples(During(read(d), bounds.current, bounds.end), tie),
          previous |-> sumDeduplicatedSamples(During(read(d), bounds.previous, bounds.current), tie),
          kinds |-> {r.kind : r \in ofIt(d)},
          unavailable |-> Cardinality(ofIt(d) \ read(d))]]

resolveFreshness(latest) == IF latest # Open /\ anaTime - latest <= StaleAfter THEN "fresh" ELSE "stale"

getAnalyticsOverview(grain, tie) ==
  LET bounds == periodBounds(anaTime, grain)
      rows == During(anaRows, bounds.previous, bounds.end)
  IN  [metrics |-> aggregateMetricSnapshots(rows, bounds, tie),
       freshness |-> resolveFreshness(IF rows = {} THEN Open ELSE Ordered(rows, tie)[1].fetched)]

\* By the id among those of one instant.
queryAnalyticsMetrics(account, metric, from, to) ==
  {r \in During(anaRows, from, to) : r.account = account /\ canonicalizeMetricKey(r.raw) = metric}

compareAccounts(account, metric, from, to) ==
  LET rows == queryAnalyticsMetrics(account, metric, from, to)
      latest == LatestBy([r \in rows |-> latestSnapshotKey(r)], rows, "newer first")
      available == {r \in latest : r.post = NoPost /\ WasRead(r)}
  IN  [value |-> IF available = {} THEN NoValue ELSE Total(available), sampleSize |-> Cardinality(available)]

getAnalyticsDataHealth(account, tie) ==
  LET all == {r \in anaRows : r.account = account}
      taken == {r \in all : Place(r, all, tie) < HealthRows}
      latest == LatestBy([r \in taken |-> <<latestSnapshotKey(r)[2], r.post>>], taken, tie)
      availability == {r.availability : r \in latest}
  IN  IF "PERMISSION_DENIED" \in availability THEN "permission_denied"
      ELSE IF "UNSUPPORTED" \in availability THEN "unsupported"
      ELSE IF availability \subseteq {"NOT_FETCHED"} THEN "not_fetched"
      ELSE resolveFreshness(Max({r.fetched : r \in latest}))

AnaNext ==
  \/ AnalyticsTicks
  \/ \E a \in AnaAccounts : SyncPageMetrics(a) \/ syncFacebookPostMetrics(a) \/ MockMetrics(a)

AnaSpec == AnaInit /\ [][AnaNext]_anaVars

-----------------------------------------------------------------------------
(* Properties *)

\* The sums of one of the newest rows of every interval of some rows.
SumsOf(rows) ==
  LET oneOfEach(some) ==
        /\ \A r \in rows : \E s \in some : Interval(s) = Interval(r)
        /\ \A s, t \in some : Interval(s) = Interval(t) => s = t
        /\ \A s \in some : \A r \in rows : Interval(r) = Interval(s) => r.fetched <= s.fetched
  IN  IF rows = {} THEN {NoValue} ELSE {Total(some) : some \in {c \in SUBSET rows : oneOfEach(c)}}

\* The overview's numbers are sums of what was read in now's period and in the one before, one
\* newest reading of each interval, whatever else was stored; a metric that was never read has
\* no number, and one a simulated row is in says so.
OverviewAddsUp(metrics, grain) ==
  LET period(t) == t \div GrainLength[grain]
      read(d, ago) == {r \in anaRows : /\ dimensionKey(r) = d /\ r.value # NoValue
                                       /\ period(r.fetched) = period(anaTime) - ago}
  IN  \A d \in {dimensionKey(r) : r \in anaRows} :
        d[1] # NoKey =>
          IF d \notin DOMAIN metrics THEN read(d, 0) \cup read(d, 1) = {}
          ELSE /\ metrics[d].current \in SumsOf(read(d, 0))
               /\ metrics[d].previous \in SumsOf(read(d, 1))
               /\ \A r \in read(d, 0) \cup read(d, 1) : r.kind \in metrics[d].kinds

\* A comparison shows of an account what its overview shows, unless a failure is the newest row
\* of an interval, or two rows are.
ComparisonAgrees(metrics, bounds) ==
  \A d \in DOMAIN metrics :
    LET rows == {r \in During(anaRows, bounds.current, bounds.end) : dimensionKey(r) = d}
        newest == {r \in rows : \A q \in rows : Interval(q) = Interval(r) => q.fetched <= r.fetched}
        clear == /\ \A r \in newest : WasRead(r)
                 /\ \A q, r \in newest : Interval(q) = Interval(r) => q = r
    IN  (d[3] = NoPost /\ clear) =>
          compareAccounts(d[2], d[1], bounds.current, bounds.end).value = metrics[d].current

\* An account is not denied once the metric it was denied has been read, and what is called
\* fresh was asked for lately.
HealthIsCurrent ==
  \A a \in AnaAccounts, tie \in Ties :
    LET health == getAnalyticsDataHealth(a, tie)
        rows == {r \in anaRows : r.account = a}
        last(r) == \A q \in rows : dimensionKey(q) = dimensionKey(r) => q.fetched <= r.fetched
    IN  /\ health = "permission_denied" => \E r \in rows : r.availability = "PERMISSION_DENIED" /\ last(r)
        /\ health = "fresh" => \E r \in rows : anaTime - r.fetched <= StaleAfter

\* What the pages show is what was read: "missing, failed and denied stay apart from a real 0"
\* (README.md:69), and a failed sync takes no number off the overview.
NumbersAreRead ==
  /\ \A grain \in DOMAIN GrainLength, tie \in Ties :
       LET metrics == getAnalyticsOverview(grain, tie).metrics
           bounds == periodBounds(anaTime, grain)
       IN  OverviewAddsUp(metrics, grain) /\ ComparisonAgrees(metrics, bounds)
  /\ HealthIsCurrent
=============================================================================
