------------------------------- MODULE EdgeProofs -------------------------------
(***************************************************************************)
(* Proofs about components at the edges of the system, for any number of   *)
(* requests, uploads, imports, rows and instants: enough failed logins     *)
(* block and failures keep a block (LoginRateLimit), assets have their     *)
(* files (AssetStore), no import loses a lead (LeadImport), the pages of   *)
(* the asset library show every asset once (AssetPages), a monthly report  *)
(* is of its month and of one moment (MonthlyReport), the analytics show   *)
(* what was read (AnalyticsQueries).                                       *)
(***************************************************************************)
EXTENDS LoginRateLimit, AssetStore, LeadImport, AssetPages, MonthlyReport, AnalyticsQueries,
        FiniteSetTheorems, WellFoundedInduction, TLAPS

-----------------------------------------------------------------------------
(* Least and greatest numbers *)

\* The least-number principle for a set, from the well-foundedness of < on the naturals.
LEMMA LeastOf == ASSUME NEW S \in SUBSET Nat, S # {}  PROVE \E x \in S : \A y \in S : x <= y
<1> DEFINE less == {pair \in Nat \X Nat : pair[1] < pair[2]}
<1>1. IsWellFoundedOn(less, Nat)
  BY NatLessThanWellFounded DEF OpToRel
<1>2. \E x \in S : \A y \in S : ~ (<<y, x>> \in less)
  BY <1>1, WFMin, Zenon
<1>3. \A x, y \in Nat : <<y, x>> \in less \/ x <= y
  OBVIOUS
<1> HIDE DEF less
<1> QED  BY <1>2, <1>3

\* Integers that are bounded have a greatest one.
LEMMA GreatestOf ==
  ASSUME NEW S \in SUBSET Int, S # {}, NEW bound \in Int, \A x \in S : x <= bound
  PROVE  Max(S) \in S /\ \A x \in S : x <= Max(S)
<1> DEFINE below == {n \in Nat : bound - n \in S}
<1>1. PICK x \in S : TRUE
  OBVIOUS
<1>2. bound - x \in below
  <2>1. bound - x \in Nat /\ bound - (bound - x) = x
    BY <1>1
  <2> QED  BY <2>1
<1>3. PICK n \in below : \A m \in below : n <= m
  BY <1>2, LeastOf
<1>4. \A y \in S : bound - n >= y
  <2> SUFFICES ASSUME NEW y \in S  PROVE bound - n >= y
    OBVIOUS
  <2>1. bound - y \in Nat /\ bound - (bound - y) = y
    OBVIOUS
  <2>2. bound - y \in below
    BY <2>1
  <2>3. n \in Nat /\ n <= bound - y
    BY <1>3, <2>2
  <2> QED  BY <2>1, <2>3
<1>5. bound - n \in S
  BY <1>3
<1> QED  BY <1>4, <1>5 DEF Max

-----------------------------------------------------------------------------
(* Logins *)

LimitRows == [count : Nat, since : Nat, until : Nat]
AttemptRows == [phase : {"idle", "verify", "record"}, keys : SUBSET LoginKeys,
                left : SUBSET LoginKeys, at : Nat, held : SUBSET LoginKeys, read : LimitRows]
SeenRows == [count : Nat, last : Nat]

LogTypeOK ==
  /\ logTime \in Nat \ {0}
  /\ logRow \in [LoginKeys -> LimitRows]
  /\ logAttempt \in [Attempts -> AttemptRows]
  /\ logSeen \in [LoginKeys -> SeenRows]

\* Between its read and its write of a key a request is alone with the key, and the row is the
\* one it read, if a success has not deleted it.
HolderInv ==
  \A a \in Attempts : \A k \in logAttempt[a].held :
    /\ logAttempt[a].phase = "record"
    /\ \A l \in logAttempt[a].held : l = k
    /\ \A b \in Attempts : k \in logAttempt[b].held => b = a
    /\ logRow[k] \in {logAttempt[a].read, NoRow}

\* The row counts no fewer failures than there were, and says what enough of them have to.
CountInv ==
  \A k \in LoginKeys :
    /\ logSeen[k].count <= logRow[k].count
    /\ logSeen[k].count >= MaxFailures => logRow[k].until = logSeen[k].last + BlockTime

\* The time a failure counts for is not far behind.
LagInv == \A a \in Attempts : logAttempt[a].phase = "record" =>
            logAttempt[a].at <= logTime /\ logTime <= logAttempt[a].at + MaxLag

LogInv == LogTypeOK /\ HolderInv /\ CountInv /\ LagInv

\* No row, and nothing seen of one.
LEMMA EmptyRows ==
  /\ NoRow \in LimitRows /\ NoRow.count = 0 /\ NoRow.until = 0
  /\ NoneSeen \in SeenRows /\ NoneSeen.count = 0
  /\ NoAttempt \in AttemptRows /\ NoAttempt.held = {} /\ NoAttempt.phase = "idle"
BY DEF NoRow, NoneSeen, NoAttempt, Never, LimitRows, SeenRows, AttemptRows

-----------------------------------------------------------------------------
(* Steps *)

\* Nothing is counted at first.
LEMMA LoginInitInv == LogInit => LogInv
<1> SUFFICES ASSUME LogInit PROVE LogInv
  OBVIOUS
<1>1. LogTypeOK
  BY EmptyRows DEF LogInit, LogTypeOK
<1>2. HolderInv /\ LagInv
  BY EmptyRows DEF LogInit, HolderInv, LagInv
<1>3. CountInv
  BY EmptyRows, LoginAssumption DEF LogInit, CountInv
<1> QED BY <1>1, <1>2, <1>3 DEF LogInv

\* A request moves on while it holds no key, nor takes one.
LEMMA FreeStep ==
  ASSUME LogInv, NEW a \in Attempts, NEW row \in AttemptRows,
         logAttempt' = [logAttempt EXCEPT ![a] = row], row.held \subseteq {},
         row.phase = "record" => row.at <= logTime /\ logTime <= row.at + MaxLag,
         UNCHANGED <<logTime, logRow, logSeen>>
  PROVE  LogInv'
<1>1. LogTypeOK'
  BY DEF LogInv, LogTypeOK
<1>2. /\ logAttempt'[a] = row
      /\ \A b \in Attempts \ {a} : logAttempt'[b] = logAttempt[b]
  BY DEF LogInv, LogTypeOK
<1>3. HolderInv'
  BY <1>2 DEF LogInv, HolderInv
<1>4. LagInv'
  <2> SUFFICES ASSUME NEW b \in Attempts, logAttempt'[b].phase = "record"
               PROVE  logAttempt'[b].at <= logTime /\ logTime <= logAttempt'[b].at + MaxLag
    BY DEF LagInv
  <2>1. CASE b = a
    BY <1>2, <2>1
  <2>2. CASE b # a
    BY <1>2, <2>2 DEF LogInv, LagInv
  <2> QED BY <2>1, <2>2
<1>5. CountInv'
  BY DEF LogInv, CountInv
<1> QED BY <1>1, <1>3, <1>4, <1>5 DEF LogInv

\* An attempt begins with the keys it will count under.
LEMMA CheckStep ==
  ASSUME LogInv, NEW a \in Attempts, NEW email \in Emails,
         NEW origins \in {{}} \cup {{o} : o \in Origins}, CheckLoginAllowed(a, email, origins)
  PROVE  LogInv'
<1> DEFINE keys == {email} \cup origins
           row == [logAttempt[a] EXCEPT !.phase = "verify", !.keys = keys]
<1>1. CASE LoginAllowed(keys)
  <2>1. keys \in SUBSET LoginKeys
    BY DEF LoginKeys
  <2>2. logAttempt[a] \in AttemptRows /\ logAttempt[a].held = {}
    BY DEF CheckLoginAllowed, LogInv, LogTypeOK, HolderInv
  <2>3. row \in AttemptRows /\ row.phase = "verify" /\ row.held = {}
    <3> HIDE DEF keys
    <3> QED BY <2>1, <2>2 DEF AttemptRows
  <2>4. logAttempt' = [logAttempt EXCEPT ![a] = row] /\ UNCHANGED <<logTime, logRow, logSeen>>
    BY <1>1 DEF CheckLoginAllowed
  <2> HIDE DEF row
  <2> QED BY <2>3, <2>4, FreeStep
<1>2. CASE ~LoginAllowed(keys)
  <2>1. UNCHANGED logVars
    BY <1>2 DEF CheckLoginAllowed, logVars
  <2> QED BY <2>1 DEF logVars, LogInv, LogTypeOK, HolderInv, CountInv, LagInv
<1> QED BY <1>1, <1>2

\* A wrong password: the keys are left to be counted.
LEMMA VerifyFailsStep ==
  ASSUME LogInv, NEW a \in Attempts, VerifyFails(a)
  PROVE  LogInv'
<1> DEFINE row == [logAttempt[a] EXCEPT !.phase = "record", !.left = logAttempt[a].keys, !.at = logTime]
<1>1. logAttempt[a] \in AttemptRows /\ logAttempt[a].held = {} /\ logTime \in Nat
  BY DEF VerifyFails, LogInv, LogTypeOK, HolderInv
<1>2. row \in AttemptRows /\ row.held = {} /\ row.at = logTime
  BY <1>1 DEF AttemptRows
<1>3. logAttempt' = [logAttempt EXCEPT ![a] = row] /\ UNCHANGED <<logTime, logRow, logSeen>>
  BY DEF VerifyFails
<1>4. logTime <= logTime /\ logTime <= logTime + MaxLag
  BY <1>1, LoginAssumption
<1> HIDE DEF row
<1>5. row.at <= logTime /\ logTime <= row.at + MaxLag
  BY <1>2, <1>4
<1>6. row \in AttemptRows /\ row.held \subseteq {}
  BY <1>2
<1> QED BY <1>3, <1>5, <1>6, FreeStep

\* A request ends, and with a success the rows of its keys do.
LEMMA AttemptEndsStep ==
  ASSUME LogInv, NEW a \in Attempts, VerifySucceeds(a) \/ ProcessEnds(a)
  PROVE  LogInv'
<1>1. logAttempt' = [logAttempt EXCEPT ![a] = NoAttempt] /\ logTime' = logTime
  BY DEF VerifySucceeds, ProcessEnds
<1>2. \A k \in LoginKeys :
        \/ logRow'[k] = logRow[k] /\ logSeen'[k] = logSeen[k]
        \/ logRow'[k] = NoRow /\ logSeen'[k] = NoneSeen
  BY DEF VerifySucceeds, ProcessEnds, LogInv, LogTypeOK
<1>3. logRow' \in [LoginKeys -> LimitRows] /\ logSeen' \in [LoginKeys -> SeenRows]
  BY EmptyRows DEF VerifySucceeds, ProcessEnds, LogInv, LogTypeOK
<1>4. /\ logAttempt'[a] = NoAttempt
      /\ \A b \in Attempts \ {a} : logAttempt'[b] = logAttempt[b]
      /\ logAttempt' \in [Attempts -> AttemptRows]
  BY <1>1, EmptyRows DEF LogInv, LogTypeOK
<1>5. LogTypeOK'
  BY <1>1, <1>3, <1>4 DEF LogInv, LogTypeOK
<1>6. HolderInv'
  <2> SUFFICES ASSUME NEW b \in Attempts, NEW k \in logAttempt'[b].held
               PROVE  /\ logAttempt'[b].phase = "record"
                      /\ \A l \in logAttempt'[b].held : l = k
                      /\ \A c \in Attempts : k \in logAttempt'[c].held => c = b
                      /\ logRow'[k] \in {logAttempt'[b].read, NoRow}
    BY DEF HolderInv
  <2>1. b # a /\ logAttempt'[b] = logAttempt[b] /\ k \in LoginKeys
    BY <1>4, EmptyRows DEF AttemptRows
  <2> QED BY <1>2, <1>4, <2>1, EmptyRows DEF LogInv, HolderInv
<1>7. CountInv'
  BY <1>2, EmptyRows, LoginAssumption DEF LogInv, CountInv
<1>8. LagInv'
  BY <1>1, <1>4, EmptyRows DEF LogInv, LagInv
<1> QED BY <1>5, <1>6, <1>7, <1>8 DEF LogInv

\* The lock of the key is free: the reader is alone with it, and has read what the row is.
LEMMA ReadStep ==
  ASSUME LogInv, NEW a \in Attempts, NEW k \in LoginKeys, ReadFailures(a, k)
  PROVE  LogInv'
<1> DEFINE read == logRow[k]
           row == [logAttempt[a] EXCEPT !.held = {k}, !.read = read]
<1>1. logAttempt[a] \in AttemptRows /\ logAttempt[a].phase = "record" /\ read \in LimitRows
  BY DEF ReadFailures, LogInv, LogTypeOK
<1>2. row \in AttemptRows /\ row.held = {k} /\ row.read = read /\ row.phase = "record"
      /\ row.at = logAttempt[a].at
  <2> HIDE DEF read
  <2> QED BY <1>1 DEF AttemptRows
<1>3. logAttempt' = [logAttempt EXCEPT ![a] = row] /\ UNCHANGED <<logTime, logRow, logSeen>>
  BY DEF ReadFailures
<1>4. \A b \in Attempts : k \notin logAttempt[b].held
  BY DEF ReadFailures, KeyUnlocked
<1> HIDE DEF row
<1>5. /\ logAttempt'[a] = row
      /\ \A b \in Attempts \ {a} : logAttempt'[b] = logAttempt[b]
      /\ logAttempt' \in [Attempts -> AttemptRows]
  BY <1>2, <1>3 DEF LogInv, LogTypeOK
<1>6. LogTypeOK'
  BY <1>3, <1>5 DEF LogInv, LogTypeOK
<1>7. HolderInv'
  <2> SUFFICES ASSUME NEW b \in Attempts, NEW l \in logAttempt'[b].held
               PROVE  /\ logAttempt'[b].phase = "record"
                      /\ \A j \in logAttempt'[b].held : j = l
                      /\ \A c \in Attempts : l \in logAttempt'[c].held => c = b
                      /\ logRow'[l] \in {logAttempt'[b].read, NoRow}
    BY DEF HolderInv
  <2>1. CASE b = a
    BY <1>2, <1>3, <1>4, <1>5, <2>1
  <2>2. CASE b # a
    BY <1>2, <1>3, <1>4, <1>5, <2>2 DEF LogInv, HolderInv
  <2> QED BY <2>1, <2>2
<1>8. LagInv'
  <2> SUFFICES ASSUME NEW b \in Attempts, logAttempt'[b].phase = "record"
               PROVE  logAttempt'[b].at <= logTime /\ logTime <= logAttempt'[b].at + MaxLag
    BY <1>3 DEF LagInv
  <2>1. logAttempt[b].phase = "record" /\ logAttempt'[b].at = logAttempt[b].at
    BY <1>1, <1>2, <1>5
  <2> QED BY <2>1 DEF LogInv, LagInv
<1>9. CountInv'
  BY <1>3 DEF LogInv, CountInv
<1> QED BY <1>6, <1>7, <1>8, <1>9 DEF LogInv

\* The write of a failure: the row counts it as the history does, or has counted more.
LEMMA RecordStep ==
  ASSUME LogInv, NEW a \in Attempts, NEW k \in LoginKeys, RecordFailure(a, k)
  PROVE  LogInv'
<1> DEFINE old == logAttempt[a]
           now == old.at
           read == old.read
           row == logRow[k]
           reset == Resets(read, now)
           count == IF reset THEN 1 ELSE read.count + 1
           until == BlockedUntil(read, count, now)
           since == IF reset \/ row = NoRow THEN now ELSE read.since
           counted == IF Resets(row, now) THEN 1 ELSE logSeen[k].count + 1
           newRow == [count |-> count, until |-> until, since |-> since]
           newSeen == [count |-> counted, last |-> now]
           next == IF old.left = {k} THEN NoAttempt
                   ELSE [old EXCEPT !.left = old.left \ {k}, !.held = {}, !.read = NoRow]
<1>1. /\ old \in AttemptRows /\ now \in Nat /\ read \in LimitRows
      /\ k \in old.held /\ old.phase = "record"
      /\ row \in LimitRows /\ row \in {read, NoRow}
      /\ logSeen[k].count \in Nat /\ logSeen[k].count <= row.count
  BY DEF RecordFailure, LogInv, LogTypeOK, HolderInv, CountInv, AttemptRows, SeenRows
<1>2. /\ logRow' = [logRow EXCEPT ![k] = newRow]
      /\ logSeen' = [logSeen EXCEPT ![k] = newSeen]
      /\ logAttempt' = [logAttempt EXCEPT ![a] = next]
      /\ logTime' = logTime
  BY DEF RecordFailure
<1>3. /\ count \in Nat /\ counted \in Nat /\ counted <= count
      /\ count >= 1
  <2>1. read.count \in Nat
    BY <1>1 DEF LimitRows
  <2>2. count \in Nat /\ count >= 1
    <3> HIDE DEF read, reset
    <3> QED BY <2>1
  <2>3. CASE row = read
    <3>1. reset <=> Resets(row, now)
      BY <2>3
    <3> HIDE DEF reset, row, read, now
    <3>2. CASE Resets(row, now)
      BY <2>2, <3>1, <3>2
    <3>3. CASE ~Resets(row, now)
      BY <1>1, <2>1, <2>3, <3>1, <3>3
    <3> QED BY <2>2, <3>2, <3>3
  <2>4. CASE row = NoRow
    <3>1. counted = 1
      BY <2>4 DEF Resets
    <3> HIDE DEF count, counted
    <3> QED BY <2>2, <3>1
  <2> QED BY <1>1, <2>3, <2>4
<1>4. until \in Nat /\ since \in Nat /\ (count >= MaxFailures => until = now + BlockTime)
  <2>1. read.until \in Nat /\ read.since \in Nat
    BY <1>1 DEF LimitRows
  <2> HIDE DEF count, read, now, row, reset
  <2>2. since \in Nat
    BY <1>1, <2>1
  <2>3. count >= MaxFailures => until = now + BlockTime
    BY DEF BlockedUntil
  <2>4. until \in {now + BlockTime, read.until, Never}
    BY DEF BlockedUntil
  <2> HIDE DEF until
  <2>5. until \in Nat
    BY <1>1, <2>1, <2>4, LoginAssumption DEF Never
  <2> QED BY <2>2, <2>3, <2>5
<1>5. newRow \in LimitRows /\ newRow.count = count /\ newRow.until = until
      /\ newSeen \in SeenRows /\ newSeen.count = counted /\ newSeen.last = now
  <2> HIDE DEF count, until, since, counted, now
  <2> QED BY <1>1, <1>3, <1>4 DEF LimitRows, SeenRows
<1>6. /\ next \in AttemptRows /\ next.held = {}
      /\ next.phase = "record" => next.at = now
  <2>1. CASE old.left = {k}
    BY <2>1, EmptyRows
  <2>2. CASE old.left # {k}
    BY <1>1, <2>2, EmptyRows DEF AttemptRows
  <2> QED BY <2>1, <2>2
<1>7. now <= logTime /\ logTime <= now + MaxLag
  BY <1>1 DEF LogInv, LagInv
<1> HIDE DEF newRow, newSeen, next, count, until, counted, now
<1>8. /\ logAttempt'[a] = next
      /\ \A b \in Attempts \ {a} : logAttempt'[b] = logAttempt[b]
      /\ logAttempt' \in [Attempts -> AttemptRows]
  BY <1>2, <1>6 DEF LogInv, LogTypeOK
<1>9. /\ logRow'[k] = newRow /\ logSeen'[k] = newSeen
      /\ \A l \in LoginKeys \ {k} : logRow'[l] = logRow[l] /\ logSeen'[l] = logSeen[l]
  BY <1>2 DEF LogInv, LogTypeOK
<1>10. LogTypeOK'
  BY <1>2, <1>5, <1>8 DEF LogInv, LogTypeOK
<1>11. HolderInv'
  <2> SUFFICES ASSUME NEW b \in Attempts, NEW l \in logAttempt'[b].held
               PROVE  /\ logAttempt'[b].phase = "record"
                      /\ \A j \in logAttempt'[b].held : j = l
                      /\ \A c \in Attempts : l \in logAttempt'[c].held => c = b
                      /\ logRow'[l] \in {logAttempt'[b].read, NoRow}
    BY DEF HolderInv
  <2>1. b # a /\ logAttempt'[b] = logAttempt[b] /\ l \in logAttempt[b].held
    BY <1>6, <1>8
  <2>2. l # k /\ l \in LoginKeys
    BY <1>1, <2>1 DEF LogInv, LogTypeOK, HolderInv, AttemptRows
  <2>3. logRow'[l] = logRow[l]
    BY <1>9, <2>2
  <2>4. \A c \in Attempts : l \in logAttempt'[c].held => l \in logAttempt[c].held
    BY <1>6, <1>8
  <2> QED BY <2>1, <2>3, <2>4 DEF LogInv, HolderInv
<1>12. CountInv'
  <2> SUFFICES ASSUME NEW l \in LoginKeys
               PROVE  /\ logSeen'[l].count <= logRow'[l].count
                      /\ logSeen'[l].count >= MaxFailures =>
                           logRow'[l].until = logSeen'[l].last + BlockTime
    BY DEF CountInv
  <2>1. CASE l = k
    <3>1. counted >= MaxFailures => until = now + BlockTime
      BY <1>3, <1>4, LoginAssumption
    <3> QED BY <1>3, <1>5, <1>9, <2>1, <3>1
  <2>2. CASE l # k
    BY <1>9, <2>2 DEF LogInv, CountInv
  <2> QED BY <2>1, <2>2
<1>13. LagInv'
  <2> SUFFICES ASSUME NEW b \in Attempts, logAttempt'[b].phase = "record"
               PROVE  logAttempt'[b].at <= logTime /\ logTime <= logAttempt'[b].at + MaxLag
    BY <1>2 DEF LagInv
  <2>1. CASE b = a
    BY <1>6, <1>7, <1>8, <2>1
  <2>2. CASE b # a
    BY <1>8, <2>2 DEF LogInv, LagInv
  <2> QED BY <2>1, <2>2
<1> QED BY <1>10, <1>11, <1>12, <1>13 DEF LogInv

\* The clock waits for a failure that is late.
LEMMA TickStep ==
  ASSUME LogInv, LoginClockTicks
  PROVE  LogInv'
<1>1. logTime \in Nat \ {0} /\ logTime' = logTime + 1 /\ UNCHANGED <<logRow, logAttempt, logSeen>>
  BY DEF LoginClockTicks, LogInv, LogTypeOK
<1>2. LogTypeOK' /\ HolderInv' /\ CountInv'
  BY <1>1 DEF LogInv, LogTypeOK, HolderInv, CountInv
<1>3. LagInv'
  <2> SUFFICES ASSUME NEW b \in Attempts, logAttempt[b].phase = "record"
               PROVE  logAttempt[b].at <= logTime + 1 /\ logTime + 1 <= logAttempt[b].at + MaxLag
    BY <1>1 DEF LagInv
  <2>1. logAttempt[b].at \in Nat /\ logAttempt[b].at <= logTime /\ logTime < logAttempt[b].at + MaxLag
    BY DEF LoginClockTicks, LogInv, LogTypeOK, LagInv, AttemptRows
  <2> QED BY <1>1, <2>1, LoginAssumption
<1> QED BY <1>2, <1>3 DEF LogInv

\* Every step keeps the invariant.
LEMMA LoginNextInv == LogInv /\ [LogNext]_logVars => LogInv'
<1> SUFFICES ASSUME LogInv, [LogNext]_logVars PROVE LogInv'
  OBVIOUS
<1>1. ASSUME NEW a \in Attempts, NEW email \in Emails,
             NEW origins \in {{}} \cup {{o} : o \in Origins}, CheckLoginAllowed(a, email, origins)
      PROVE  LogInv'
  BY <1>1, CheckStep
<1>2. ASSUME NEW a \in Attempts, VerifyFails(a) PROVE LogInv'
  BY <1>2, VerifyFailsStep
<1>3. ASSUME NEW a \in Attempts, VerifySucceeds(a) \/ ProcessEnds(a) PROVE LogInv'
  BY <1>3, AttemptEndsStep
<1>4. ASSUME NEW a \in Attempts, NEW k \in LoginKeys, ReadFailures(a, k) PROVE LogInv'
  BY <1>4, ReadStep
<1>5. ASSUME NEW a \in Attempts, NEW k \in LoginKeys, RecordFailure(a, k) PROVE LogInv'
  BY <1>5, RecordStep
<1>6. CASE LoginClockTicks
  BY <1>6, TickStep
<1>7. CASE UNCHANGED logVars
  BY <1>7 DEF logVars, LogInv, LogTypeOK, HolderInv, CountInv, LagInv
<1> QED BY <1>1, <1>2, <1>3, <1>4, <1>5, <1>6, <1>7 DEF LogNext

-----------------------------------------------------------------------------
(* Theorems *)

\* The types, the lock of a key, and that a row counts every failure of its window hold always.
THEOREM LoginInvariant == LogSpec => []LogInv
BY LoginInitInv, LoginNextInv, PTL DEF LogSpec

\* As many failures as the limit, in one window and not cleared, leave the key blocked from the
\* last of them, however many requests record them together (recordLoginFailure).
THEOREM EnoughBlocks == LogSpec => []EnoughFailuresBlock
<1>1. LogInv => EnoughFailuresBlock
  BY DEF LogInv, CountInv, EnoughFailuresBlock
<1> QED BY <1>1, LoginInvariant, PTL

\* A failure is not so late that the block it earns has run out by the time it is written.
LagIsShort == MaxLag < BlockTime

\* A failure that is written leaves a block that has not run out as it is, or makes it longer.
LEMMA BlockOutlivesFailure ==
  ASSUME LogInv, LagIsShort, NEW a \in Attempts, NEW k \in LoginKeys, RecordFailure(a, k),
         logRow[k].until > logTime
  PROVE  logRow'[k].until > logTime
<1> DEFINE now == logAttempt[a].at
           read == logAttempt[a].read
           count == IF Resets(read, now) THEN 1 ELSE read.count + 1
<1>1. logTime \in Nat \ {0} /\ now \in Nat /\ read \in LimitRows
  BY DEF LogInv, LogTypeOK, AttemptRows
<1>2. now <= logTime /\ logTime <= now + MaxLag
  BY DEF RecordFailure, LogInv, HolderInv, LagInv
<1>3. logRow[k] = read
  <2>1. logRow[k] \in {read, NoRow}
    BY DEF RecordFailure, LogInv, HolderInv
  <2>2. logRow[k] # NoRow
    BY <1>1, EmptyRows
  <2> QED BY <2>1, <2>2
<1>4. logRow'[k].until = BlockedUntil(read, count, now)
  BY DEF RecordFailure, LogInv, LogTypeOK
<1>5. read.until \in Nat /\ read.until > logTime
  BY <1>1, <1>3 DEF LimitRows
<1> HIDE DEF now, read, count
<1>6. now + BlockTime > logTime
  BY <1>1, <1>2, LoginAssumption DEF LagIsShort
<1>7. read.until > now
  BY <1>1, <1>2, <1>5
<1>8. BlockedUntil(read, count, now) \in {now + BlockTime, read.until}
  BY <1>7 DEF BlockedUntil
<1>9. \A t \in {now + BlockTime, read.until} : t > logTime
  BY <1>5, <1>6
<1> QED BY <1>4, <1>8, <1>9

\* If a failure waits for its lock no longer than a block lasts, no failure lifts a block that
\* has not run out (recordLoginFailure keeps blockedUntil over the turn of a window).
THEOREM BlocksKept ==
  ASSUME LagIsShort
  PROVE  LogSpec => FailuresKeepBlocks
<1> DEFINE Keeps(a, k) == k \in logAttempt[a].held /\ logRow[k].until > logTime =>
             logRow'[k].until > logTime' \/ logRow'[k] = NoRow \/ logTime' # logTime
<1>1. ASSUME LogInv, [LogNext]_logVars, NEW a \in Attempts, NEW k \in LoginKeys,
             k \in logAttempt[a].held, logRow[k].until > logTime, logTime' = logTime
      PROVE  logRow'[k].until > logTime \/ logRow'[k] = NoRow
  <2>1. CASE logRow'[k] = logRow[k]
    BY <1>1, <2>1
  <2>2. CASE \E b \in Attempts, l \in LoginKeys : RecordFailure(b, l)
    <3>1. PICK b \in Attempts, l \in LoginKeys : RecordFailure(b, l)
      BY <2>2
    <3>2. CASE l = k
      BY <1>1, <3>1, <3>2, BlockOutlivesFailure
    <3>3. CASE l # k
      BY <1>1, <3>1, <3>3 DEF RecordFailure, LogInv, LogTypeOK
    <3> QED BY <3>2, <3>3
  <2>3. CASE \E b \in Attempts : VerifySucceeds(b)
    BY <1>1, <2>3 DEF VerifySucceeds, LogInv, LogTypeOK
  <2>4. CASE logRow' = logRow
    BY <1>1, <2>4
  <2>5. LogNext \/ UNCHANGED logVars
    BY <1>1
  <2> QED BY <2>2, <2>3, <2>4, <2>5
        DEF LogNext, logVars, CheckLoginAllowed, VerifyFails, ProcessEnds, ReadFailures, LoginClockTicks
<1>2. LogInv /\ [LogNext]_logVars => [\A a \in Attempts, k \in LoginKeys : Keeps(a, k)]_logVars
  BY <1>1
<1> QED BY <1>2, LoginInvariant, PTL DEF LogSpec, FailuresKeepBlocks

-----------------------------------------------------------------------------
(* Uploads *)

UploadPhases == {"new", "putting", "stored", "failed", "refused", "over", "abandoned"}
UploadRows == [phase : UploadPhases, file : Files \cup {"none"},
               provider : Providers \cup {"none"}, kind : Kinds \cup {"none"}]

AstTypeOK ==
  /\ astUpload \in [Uploads -> UploadRows]
  /\ astObject \in [Uploads -> {"none", "part", "whole"}]
  /\ astRow \subseteq Uploads

\* What an upload can take for granted of its object and its row.  A row is written only for an
\* object that is whole; while it is not known whether it was, nothing is deleted; and what is
\* deleted has no row.
UploadInv(u) ==
  /\ Is(u, "new") => astObject[u] = "none"
  /\ astUpload[u].phase \in {"new", "putting", "stored", "refused"} => u \notin astRow
  /\ astUpload[u].phase \in {"stored", "failed", "refused"} => astObject[u] = "whole"
  /\ u \in astRow => astObject[u] = "whole"
  /\ Is(u, "over") => (astObject[u] # "none" <=> u \in astRow)

AstInv == AstTypeOK /\ \A u \in Uploads : UploadInv(u)

-----------------------------------------------------------------------------
(* Steps *)

\* A step of one upload, which leaves the others as they are.
LEMMA UploadStep ==
  ASSUME AstInv, NEW u \in Uploads,
         NEW upload \in UploadRows, astUpload' = [astUpload EXCEPT ![u] = upload],
         NEW object \in {"none", "part", "whole"}, astObject' = [astObject EXCEPT ![u] = object],
         astRow' \subseteq Uploads, \A w \in Uploads \ {u} : w \in astRow' <=> w \in astRow,
         upload.phase = "new" => object = "none",
         upload.phase \in {"new", "putting", "stored", "refused"} => u \notin astRow',
         upload.phase \in {"stored", "failed", "refused"} => object = "whole",
         u \in astRow' => object = "whole",
         upload.phase = "over" => (object # "none" <=> u \in astRow')
  PROVE  AstInv'
<1>1. AstTypeOK'
  BY DEF AstInv, AstTypeOK
<1>2. ASSUME NEW w \in Uploads PROVE UploadInv(w)'
  <2>1. CASE w = u
    <3>1. astUpload'[w] = upload /\ astObject'[w] = object
      BY <2>1 DEF AstInv, AstTypeOK
    <3> QED BY <2>1, <3>1 DEF UploadInv, Is
  <2>2. CASE w # u
    <3>1. astUpload'[w] = astUpload[w] /\ astObject'[w] = astObject[w] /\ UploadInv(w)
      BY <2>2 DEF AstInv, AstTypeOK
    <3> QED BY <2>2, <3>1 DEF UploadInv, Is
  <2> QED BY <2>1, <2>2
<1> QED BY <1>1, <1>2 DEF AstInv

\* The same, where the upload only goes on to another phase, and its object stays or goes.
LEMMA GoesStep ==
  ASSUME AstInv, NEW u \in Uploads, NEW phase \in UploadPhases \ {"new"}, GoesTo(u, phase),
         NEW object \in {"none", "part", "whole"}, astObject' = [astObject EXCEPT ![u] = object],
         astRow' \subseteq Uploads, \A w \in Uploads \ {u} : w \in astRow' <=> w \in astRow,
         phase \in {"putting", "stored", "refused"} => u \notin astRow',
         phase \in {"stored", "failed", "refused"} => object = "whole",
         u \in astRow' => object = "whole",
         phase = "over" => (object # "none" <=> u \in astRow')
  PROVE  AstInv'
<1> DEFINE upload == [astUpload[u] EXCEPT !.phase = phase]
<1>1. upload \in UploadRows /\ upload.phase = phase
  BY DEF AstInv, AstTypeOK, UploadRows
<1>2. astUpload' = [astUpload EXCEPT ![u] = upload]
  BY DEF GoesTo
<1> HIDE DEF upload
<1> QED BY <1>1, <1>2, UploadStep

\* An object that is not written stays what it was.
LEMMA SameObject ==
  ASSUME AstInv, NEW u \in Uploads
  PROVE  astObject = [astObject EXCEPT ![u] = astObject[u]] /\ astObject[u] \in {"none", "part", "whole"}
BY DEF AstInv, AstTypeOK

\* A step that ends an upload, or leaves it behind, and writes no row.
LEMMA UploadEndsStep ==
  ASSUME AstInv, NEW u \in Uploads, NEW phase \in {"over", "abandoned"}, GoesTo(u, phase),
         NEW object \in {"none", "part", "whole"}, astObject' = [astObject EXCEPT ![u] = object],
         astRow' = astRow, u \in astRow => object = "whole",
         phase = "over" => (object # "none" <=> u \in astRow)
  PROVE  AstInv'
<1>1. phase \in UploadPhases \ {"new"} /\ phase \notin {"putting", "stored", "refused", "failed"}
  BY DEF UploadPhases
<1>2. astRow' \subseteq Uploads /\ \A w \in Uploads \ {u} : w \in astRow' <=> w \in astRow
  BY DEF AstInv, AstTypeOK
<1> QED BY <1>1, <1>2, GoesStep

\* Both storages are empty at first.
LEMMA StoreInitInv == AstInit => AstInv
<1> SUFFICES ASSUME AstInit PROVE AstInv
  OBVIOUS
<1>1. NoUpload \in UploadRows /\ NoUpload.phase = "new"
  BY DEF NoUpload, UploadRows, UploadPhases
<1> QED BY <1>1 DEF AstInit, AstInv, AstTypeOK, UploadInv, Is

\* An upload begins under a key of its own.
LEMMA UploadBeginsStep ==
  ASSUME AstInv, NEW u \in Uploads, BeginUpload(u)
  PROVE  AstInv'
<1>1. PICK file \in Files, provider \in Providers, kind \in Kinds :
        astUpload' = [astUpload EXCEPT ![u] =
          [phase |-> "putting", file |-> file, provider |-> provider, kind |-> kind]]
  BY DEF BeginUpload
<1> DEFINE upload == [phase |-> "putting", file |-> file, provider |-> provider, kind |-> kind]
<1>2. upload \in UploadRows /\ upload.phase = "putting"
  BY DEF UploadRows, UploadPhases
<1>3. u \notin astRow /\ UNCHANGED <<astObject, astRow>>
  BY DEF BeginUpload, Is, AstInv, UploadInv
<1>4. astRow \subseteq Uploads
  BY DEF AstInv, AstTypeOK
<1> HIDE DEF upload
<1>5. astUpload' = [astUpload EXCEPT ![u] = upload]
  BY <1>1 DEF upload
<1> QED BY <1>2, <1>3, <1>4, <1>5, SameObject, UploadStep

\* The object is there before its row is written.
LEMMA PutSucceedsStep ==
  ASSUME AstInv, NEW u \in Uploads, PutSucceeds(u)
  PROVE  AstInv'
<1> DEFINE phase == IF astUpload[u].kind = "unsupported" THEN "refused" ELSE "stored"
<1>1. phase \in UploadPhases \ {"new"} /\ phase \in {"refused", "stored"} /\ GoesTo(u, phase)
  BY DEF PutSucceeds, UploadPhases
<1>2. u \notin astRow /\ astRow' = astRow /\ astRow \subseteq Uploads
      /\ astObject' = [astObject EXCEPT ![u] = "whole"]
  BY DEF PutSucceeds, Is, AstInv, AstTypeOK, UploadInv
<1> HIDE DEF phase
<1> QED BY <1>1, <1>2, GoesStep

\* What a put leaves is without a row.
LEMMA PutFailsStep ==
  ASSUME AstInv, NEW u \in Uploads, PutFails(u)
  PROVE  AstInv'
<1>1. u \notin astRow /\ astRow' = astRow /\ astRow \subseteq Uploads
  BY DEF PutFails, Is, AstInv, AstTypeOK, UploadInv
<1>2. PICK left \in LeftOver(u) : /\ astObject' = [astObject EXCEPT ![u] = left]
                                  /\ GoesTo(u, IF left = "none" THEN "over" ELSE "abandoned")
  BY DEF PutFails
<1>3. left \in {"none", "part", "whole"}
  BY DEF LeftOver
<1>4. CASE left = "none"
  BY <1>1, <1>2, <1>4, UploadEndsStep
<1>5. CASE left # "none"
  BY <1>1, <1>2, <1>3, <1>5, UploadEndsStep
<1> QED BY <1>4, <1>5

\* The row is written, whether or not the answer arrives.
LEMMA RowCreatedStep ==
  ASSUME AstInv, NEW u \in Uploads, CreateAsset(u)
  PROVE  AstInv'
<1>1. astObject[u] = "whole" /\ u \notin astRow /\ astRow \subseteq Uploads /\ astObject' = astObject
  BY DEF CreateAsset, Is, AstInv, AstTypeOK, UploadInv
<1>2. PICK phase \in {"over", "failed"} :
        /\ GoesTo(u, phase)
        /\ astRow' \in {astRow, astRow \cup {u}}
        /\ phase = "over" => u \in astRow'
  BY DEF CreateAsset
<1>3. astRow' \subseteq Uploads /\ \A w \in Uploads \ {u} : w \in astRow' <=> w \in astRow
  BY <1>1, <1>2
<1> QED BY <1>1, <1>2, <1>3, SameObject, GoesStep DEF UploadPhases

\* The look for the row decides if the object goes.
LEMMA LookStep ==
  ASSUME AstInv, NEW u \in Uploads, LookForRow(u)
  PROVE  AstInv'
<1>1. astObject[u] = "whole" /\ astRow \subseteq Uploads /\ UNCHANGED <<astObject, astRow>>
  BY DEF LookForRow, Is, AstInv, AstTypeOK, UploadInv
<1>2. PICK phase \in {"over", "refused", "abandoned"} :
        /\ GoesTo(u, phase)
        /\ phase = "over" => u \in astRow
        /\ phase = "refused" => u \notin astRow
  BY DEF LookForRow, Referenced
<1> QED BY <1>1, <1>2, SameObject, GoesStep DEF UploadPhases

\* Only an object without a row is deleted.
LEMMA DeleteStep ==
  ASSUME AstInv, NEW u \in Uploads, DeleteObject(u)
  PROVE  AstInv'
<1>1. u \notin astRow /\ astRow' = astRow /\ astRow \subseteq Uploads
  BY DEF DeleteObject, Is, AstInv, AstTypeOK, UploadInv
<1>2. CASE astObject' = [astObject EXCEPT ![u] = "none"] /\ GoesTo(u, "over")
  BY <1>1, <1>2, UploadEndsStep
<1>3. CASE UNCHANGED astObject /\ GoesTo(u, "abandoned")
  BY <1>1, <1>3, SameObject, UploadEndsStep
<1> QED BY <1>2, <1>3 DEF DeleteObject

\* A process that stops leaves its object, never a row without one.
LEMMA StopsStep ==
  ASSUME AstInv, NEW u \in Uploads, ProcessStops(u)
  PROVE  AstInv'
<1>1. astRow' = astRow /\ astRow \subseteq Uploads /\ GoesTo(u, "abandoned")
  BY DEF ProcessStops, AstInv, AstTypeOK
<1>2. CASE Is(u, "putting")
  <2>1. PICK left \in LeftOver(u) : astObject' = [astObject EXCEPT ![u] = left]
    BY <1>2 DEF ProcessStops
  <2>2. left \in {"none", "part", "whole"}
    BY DEF LeftOver
  <2>3. u \notin astRow
    BY <1>2 DEF Is, AstInv, UploadInv
  <2> QED BY <1>1, <2>1, <2>2, <2>3, UploadEndsStep
<1>3. CASE ~Is(u, "putting")
  <2>1. astObject' = [astObject EXCEPT ![u] = astObject[u]]
    BY <1>3 DEF ProcessStops
  <2>2. u \in astRow => astObject[u] = "whole"
    BY DEF AstInv, UploadInv
  <2> QED BY <1>1, <2>1, <2>2, SameObject, UploadEndsStep
<1> QED BY <1>2, <1>3

-----------------------------------------------------------------------------
(* Theorems *)

\* Every step keeps the invariant.
LEMMA StoreNextInv == AstInv /\ [AstNext]_astVars => AstInv'
<1> SUFFICES ASSUME AstInv, [AstNext]_astVars PROVE AstInv'
  OBVIOUS
<1>1. ASSUME NEW u \in Uploads, BeginUpload(u) PROVE AstInv'
  BY <1>1, UploadBeginsStep
<1>2. ASSUME NEW u \in Uploads, PutSucceeds(u) PROVE AstInv'
  BY <1>2, PutSucceedsStep
<1>3. ASSUME NEW u \in Uploads, PutFails(u) PROVE AstInv'
  BY <1>3, PutFailsStep
<1>4. ASSUME NEW u \in Uploads, CreateAsset(u) PROVE AstInv'
  BY <1>4, RowCreatedStep
<1>5. ASSUME NEW u \in Uploads, LookForRow(u) PROVE AstInv'
  BY <1>5, LookStep
<1>6. ASSUME NEW u \in Uploads, DeleteObject(u) PROVE AstInv'
  BY <1>6, DeleteStep
<1>7. ASSUME NEW u \in Uploads, ProcessStops(u) PROVE AstInv'
  BY <1>7, StopsStep
<1>8. CASE AllUploaded \/ UNCHANGED astVars
  BY <1>8 DEF AllUploaded, astVars, AstInv, AstTypeOK, UploadInv, Is
<1> QED BY <1>1, <1>2, <1>3, <1>4, <1>5, <1>6, <1>7, <1>8 DEF AstNext

\* The types, and what each phase of uploadAsset says of the object and of the row.
THEOREM StoreInvariant == AstSpec => []AstInv
BY StoreInitInv, StoreNextInv, PTL DEF AstSpec

\* No row is ever without its file, and nothing is left in the storage by an upload that came to
\* its end, whatever failed or went unanswered on the way (product-service.ts, uploadAsset).
THEOREM AssetsKeepTheirFiles == AstSpec => []AssetsHaveTheirFiles
<1>1. AstInv => AssetsHaveTheirFiles
  BY DEF AstInv, UploadInv, AssetsHaveTheirFiles
<1> QED BY <1>1, StoreInvariant, PTL

-----------------------------------------------------------------------------
(* Imports of comments *)

Phases == {"idle", "creating", "duplicate", "backfilling", "dispatching", "conflicting",
           "over", "refused", "failed"}

ImporterRows == [phase : Phases, page : [Comments -> Texts \cup {"absent"}],
                 at : Comments \cup {0}, done : SUBSET Comments, told : SUBSET Comments]

LeaTypeOK ==
  /\ leaInteraction \subseteq Comments
  /\ leaLead \in [Comments -> LeadStatuses \cup {"none"}]
  /\ leaTask \in [Comments -> LeadTaskStatuses \cup {"none"}]
  /\ leaNotified \subseteq Comments
  /\ leaImporter \in [Importers -> ImporterRows]

\* A lead is never without its task and its notification: they are written together.
LeadsComplete == \A c \in Comments : leaLead[c] # "none" => leaTask[c] # "none" /\ c \in leaNotified

AtComment == {"creating", "duplicate", "backfilling", "dispatching", "conflicting"}

\* What an import knows where it is: its comment is one of the page, and the lead it will answer
\* with is there.
KnowsLead(i, lead) ==
  /\ i.phase \in AtComment => i.at \in Comments
  /\ i.phase \in {"dispatching", "conflicting"} => lead[i.at] # "none"
  /\ i.phase = "idle" => i.done = {}

\* It has answered with the lead of every comment that asks to buy.
ToldAll(i, lead) ==
  /\ \A c \in i.done : classifyIntent(i.page[c]) => c \in i.told
  /\ \A c \in i.told : lead[c] # "none"

ImportInv ==
  \A p \in Importers : KnowsLead(leaImporter[p], leaLead) /\ ToldAll(leaImporter[p], leaLead)

LeaInv == LeaTypeOK /\ LeadsComplete /\ ImportInv

-----------------------------------------------------------------------------
(* One import *)

\* Going on to the next comment of a page changes where an import is and nothing it has done.
LEMMA NextCommentKeeps ==
  ASSUME NEW i \in ImporterRows
  PROVE  /\ NextComment(i) \in ImporterRows
         /\ NextComment(i).page = i.page
         /\ NextComment(i).done = i.done
         /\ NextComment(i).told = i.told
         /\ NextComment(i).phase \in {"over", "refused", "creating"}
         /\ NextComment(i).phase = "creating" => NextComment(i).at \in Comments
<1>1. CASE Upcoming(i) = {}
  BY <1>1 DEF NextComment, ImporterRows, Phases
<1>2. CASE Upcoming(i) # {}
  <2> DEFINE c == CHOOSE d \in Upcoming(i) : TRUE
             phase == IF i.page[c] = "nothing" THEN "refused" ELSE "creating"
  <2>1. c \in Comments
    BY <1>2 DEF Upcoming, Left
  <2>2. NextComment(i) = [i EXCEPT !.at = c, !.phase = phase]
    BY <1>2 DEF NextComment
  <2>3. phase \in {"refused", "creating"}
    OBVIOUS
  <2> HIDE DEF c, phase
  <2> QED BY <2>1, <2>2, <2>3 DEF ImporterRows, Phases
<1> QED BY <1>1, <1>2

\* An answer adds its comment to those that were done, with a lead if there is one.
LEMMA AnsweredKeeps ==
  ASSUME NEW i \in ImporterRows, i.at \in Comments, NEW told \in BOOLEAN
  PROVE  /\ Answered(i, told) \in ImporterRows
         /\ Answered(i, told).page = i.page
         /\ Answered(i, told).done = i.done \cup {i.at}
         /\ Answered(i, told).told = IF told THEN i.told \cup {i.at} ELSE i.told
         /\ Answered(i, told).phase \in {"over", "refused", "creating"}
         /\ Answered(i, told).phase = "creating" => Answered(i, told).at \in Comments
<1> DEFINE more == IF told THEN i.told \cup {i.at} ELSE i.told
           j == [i EXCEPT !.done = @ \cup {i.at}, !.told = more]
<1>1. more \in SUBSET Comments
  BY DEF ImporterRows
<1>2. Answered(i, told) = NextComment(j)
  BY DEF Answered
<1>3. j \in ImporterRows /\ j.page = i.page /\ j.done = i.done \cup {i.at} /\ j.told = more
  <2> HIDE DEF more
  <2> QED BY <1>1 DEF ImporterRows
<1> HIDE DEF j
<1> QED BY <1>2, <1>3, NextCommentKeeps

-----------------------------------------------------------------------------
(* Steps *)

\* A step of one import that takes no lead away, after which that import knows what it must.
LEMMA ImporterStep ==
  ASSUME LeaInv, NEW p \in Importers, NEW i \in ImporterRows,
         leaImporter' = [leaImporter EXCEPT ![p] = i],
         \A c \in Comments : leaLead[c] # "none" => leaLead'[c] # "none",
         KnowsLead(i, leaLead'), ToldAll(i, leaLead')
  PROVE  ImportInv' /\ leaImporter' \in [Importers -> ImporterRows]
<1>1. leaImporter' \in [Importers -> ImporterRows]
  BY DEF LeaInv, LeaTypeOK
<1>2. ASSUME NEW q \in Importers 
      PROVE  (KnowsLead(leaImporter[q], leaLead) /\ ToldAll(leaImporter[q], leaLead))'
  <2>1. CASE q = p
    <3>1. leaImporter'[q] = i
      BY <2>1 DEF LeaInv, LeaTypeOK
    <3> QED BY <3>1 DEF KnowsLead, ToldAll
  <2>2. CASE q # p
    <3>1. leaImporter'[q] = leaImporter[q] /\ leaImporter[q] \in ImporterRows
      BY <2>2 DEF LeaInv, LeaTypeOK
    <3>2. KnowsLead(leaImporter[q], leaLead) /\ ToldAll(leaImporter[q], leaLead)
      BY DEF LeaInv, ImportInv
    <3> QED BY <3>1, <3>2 DEF KnowsLead, ToldAll, AtComment, ImporterRows
  <2> QED BY <2>1, <2>2
<1> QED BY <1>1, <1>2 DEF ImportInv

\* A step of one import that writes no row.
LEMMA ReadingStep ==
  ASSUME LeaInv, NEW p \in Importers, NEW i \in ImporterRows,
         leaImporter' = [leaImporter EXCEPT ![p] = i],
         UNCHANGED <<leaInteraction, leaLead, leaTask, leaNotified>>,
         KnowsLead(i, leaLead), ToldAll(i, leaLead)
  PROVE  LeaInv'
<1>1. KnowsLead(i, leaLead') /\ ToldAll(i, leaLead')
  OBVIOUS
<1>2. ImportInv' /\ leaImporter' \in [Importers -> ImporterRows]
  BY <1>1, ImporterStep
<1> QED BY <1>2 DEF LeaInv, LeaTypeOK, LeadsComplete

\* Whatever was imported before, the rows agree.
LEMMA ImportInitInv == LeaInit => LeaInv
<1> SUFFICES ASSUME LeaInit PROVE LeaInv
  OBVIOUS
<1>1. IdleImporter \in ImporterRows
  BY DEF IdleImporter, ImporterRows, Phases, Texts
<1>2. LeaTypeOK
  BY <1>1 DEF LeaInit, LeaTypeOK
<1>3. LeadsComplete
  BY DEF LeaInit, LeadsComplete
<1>4. ImportInv
  BY DEF LeaInit, ImportInv, KnowsLead, ToldAll, AtComment, IdleImporter
<1> QED BY <1>2, <1>3, <1>4 DEF LeaInv

\* A page is read.
LEMMA ImportBeginsStep ==
  ASSUME LeaInv, NEW p \in Importers, importInteraction(p) \/ syncFacebookComments(p)
  PROVE  LeaInv'
<1> DEFINE i == leaImporter[p]
<1>1. i \in ImporterRows /\ i.phase = "idle" /\ ToldAll(i, leaLead) /\ i.done = {}
  BY DEF LeaInv, LeaTypeOK, ImportInv, KnowsLead, importInteraction, syncFacebookComments, readComments,
         ImporterAt
<1>2. PICK page \in [Comments -> Texts \cup {"absent"}] :
        leaImporter' = [leaImporter EXCEPT ![p] = NextComment([i EXCEPT !.page = page])]
  <2>1. CASE importInteraction(p)
    <3>1. PICK c \in Comments, text \in Texts :
            leaImporter' = [leaImporter EXCEPT ![p] = NextComment([i EXCEPT !.page[c] = text])]
      BY <2>1 DEF importInteraction
    <3>2. [i EXCEPT !.page[c] = text] = [i EXCEPT !.page = [i.page EXCEPT ![c] = text]]
      BY <1>1 DEF ImporterRows
    <3>3. [i.page EXCEPT ![c] = text] \in [Comments -> Texts \cup {"absent"}]
      BY <1>1 DEF ImporterRows
    <3> QED BY <3>1, <3>2, <3>3
  <2>2. CASE syncFacebookComments(p)
    BY <2>2 DEF syncFacebookComments, readComments
  <2> QED BY <2>1, <2>2
<1> DEFINE j == [i EXCEPT !.page = page]
<1>3. j \in ImporterRows /\ j.done = {} /\ j.told = i.told
  BY <1>1 DEF ImporterRows
<1>4. ToldAll(j, leaLead)
  BY <1>1, <1>3 DEF ToldAll
<1> HIDE DEF i, j
<1>5. /\ KnowsLead(NextComment(j), leaLead) /\ ToldAll(NextComment(j), leaLead)
      /\ NextComment(j) \in ImporterRows
  BY <1>3, <1>4, NextCommentKeeps DEF KnowsLead, ToldAll, AtComment
<1>6. leaImporter' = [leaImporter EXCEPT ![p] = NextComment(j)]
  BY <1>2 DEF j
<1>7. UNCHANGED <<leaInteraction, leaLead, leaTask, leaNotified>>
  BY DEF importInteraction, syncFacebookComments, readComments
<1> QED BY <1>5, <1>6, <1>7, ReadingStep

\* The answer of an import that has written nothing in this step.
LEMMA AnswerStep ==
  ASSUME LeaInv, NEW p \in Importers, NEW told \in BOOLEAN, leaImporter[p].at \in Comments,
         leaImporter' = [leaImporter EXCEPT ![p] = Answered(leaImporter[p], told)],
         \A c \in Comments : leaLead[c] # "none" => leaLead'[c] # "none",
         told => leaLead'[leaImporter[p].at] # "none",
         classifyIntent(leaImporter[p].page[leaImporter[p].at]) => told
  PROVE  ImportInv' /\ leaImporter' \in [Importers -> ImporterRows]
<1> DEFINE i == leaImporter[p]
           n == Answered(i, told)
<1>1. i \in ImporterRows /\ ToldAll(i, leaLead)
  BY DEF LeaInv, LeaTypeOK, ImportInv
<1>2. /\ n \in ImporterRows /\ n.page = i.page /\ n.done = i.done \cup {i.at}
      /\ n.told = IF told THEN i.told \cup {i.at} ELSE i.told
      /\ n.phase \in {"over", "refused", "creating"}
      /\ n.phase = "creating" => n.at \in Comments
  BY <1>1, AnsweredKeeps
<1>3. i.told \subseteq Comments
  BY <1>1 DEF ImporterRows
<1> HIDE DEF n
<1> DEFINE page == i.page
           at == i.at
<1>4. ASSUME NEW c \in n.done, classifyIntent(page[c]) PROVE c \in n.told
  BY <1>1, <1>2, <1>4 DEF ToldAll
<1>5. ASSUME NEW c \in n.told PROVE leaLead'[c] # "none"
  BY <1>1, <1>2, <1>3, <1>5 DEF ToldAll
<1>6. KnowsLead(n, leaLead') /\ ToldAll(n, leaLead')
  BY <1>2, <1>4, <1>5 DEF KnowsLead, ToldAll, AtComment
<1> QED BY <1>2, <1>6, ImporterStep DEF n

\* A lead is written with its task and its notification.
LEMMA BundleKeeps ==
  ASSUME LeaInv, NEW c \in Comments, createLeadBundle(c)
  PROVE  /\ leaLead' \in [Comments -> LeadStatuses \cup {"none"}]
         /\ leaTask' \in [Comments -> LeadTaskStatuses \cup {"none"}]
         /\ leaNotified' \subseteq Comments
         /\ LeadsComplete'
         /\ leaLead'[c] # "none"
         /\ \A d \in Comments : leaLead[d] # "none" => leaLead'[d] # "none"
BY DEF LeaInv, LeaTypeOK, LeadsComplete, createLeadBundle, LeadStatuses, LeadTaskStatuses

\* An import goes on within its comment: only its phase changes.
LEMMA PhaseStep ==
  ASSUME LeaInv, NEW p \in Importers, NEW phase \in Phases \ {"idle"}, ImporterGoes(p, phase),
         leaImporter[p].phase \in AtComment,
         \A c \in Comments : leaLead[c] # "none" => leaLead'[c] # "none",
         phase \in {"dispatching", "conflicting"} => leaLead'[leaImporter[p].at] # "none"
  PROVE  ImportInv' /\ leaImporter' \in [Importers -> ImporterRows]
<1> DEFINE i == leaImporter[p]
           n == [i EXCEPT !.phase = phase]
<1>1. i \in ImporterRows /\ KnowsLead(i, leaLead) /\ ToldAll(i, leaLead)
  BY DEF LeaInv, LeaTypeOK, ImportInv
<1>2. n \in ImporterRows /\ n.phase = phase /\ n.page = i.page /\ n.at = i.at
      /\ n.done = i.done /\ n.told = i.told
  BY <1>1 DEF ImporterRows
<1>3. leaImporter' = [leaImporter EXCEPT ![p] = n]
  BY DEF ImporterGoes
<1>4. i.at \in Comments /\ i.told \subseteq Comments
  BY <1>1 DEF KnowsLead, ImporterRows
<1> HIDE DEF n
<1>5. KnowsLead(n, leaLead') /\ ToldAll(n, leaLead')
  BY <1>1, <1>2, <1>4 DEF KnowsLead, ToldAll
<1> QED BY <1>2, <1>3, <1>5, ImporterStep

\* The transaction of a new interaction writes its lead, task and notification with it.
LEMMA InteractionCreatedStep ==
  ASSUME LeaInv, NEW p \in Importers, CreateInteraction(p)
  PROVE  LeaInv'
<1> DEFINE c == leaImporter[p].at
<1>1. leaImporter[p].phase = "creating" /\ c \in Comments
  BY DEF CreateInteraction, ImporterAt, LeaInv, ImportInv, KnowsLead, AtComment
<1>2. CASE c \in leaInteraction
  <2>1. ImporterGoes(p, "duplicate") /\ UNCHANGED <<leaInteraction, leaLead, leaTask, leaNotified>>
    BY <1>2 DEF CreateInteraction
  <2>2. ImportInv' /\ leaImporter' \in [Importers -> ImporterRows]
    BY <1>1, <2>1, PhaseStep DEF Phases, AtComment
  <2> QED BY <2>1, <2>2 DEF LeaInv, LeaTypeOK, LeadsComplete
<1>3. CASE c \notin leaInteraction /\ Wanted(p)
  <2>1. createLeadBundle(c) /\ ImporterGoes(p, "dispatching") /\ leaInteraction' = leaInteraction \cup {c}
    BY <1>3 DEF CreateInteraction
  <2>2. ImportInv' /\ leaImporter' \in [Importers -> ImporterRows]
    BY <1>1, <2>1, BundleKeeps, PhaseStep DEF Phases, AtComment
  <2>3. leaInteraction' \subseteq Comments
    BY <1>1, <2>1 DEF LeaInv, LeaTypeOK
  <2> QED BY <1>1, <2>1, <2>2, <2>3, BundleKeeps DEF LeaInv, LeaTypeOK
<1>4. CASE c \notin leaInteraction /\ ~Wanted(p)
  <2>1. /\ leaImporter' = [leaImporter EXCEPT ![p] = Answered(leaImporter[p], FALSE)]
        /\ leaInteraction' = leaInteraction \cup {c} /\ UNCHANGED <<leaLead, leaTask, leaNotified>>
    BY <1>4 DEF CreateInteraction
  <2>2. ImportInv' /\ leaImporter' \in [Importers -> ImporterRows]
    BY <1>1, <1>4, <2>1, AnswerStep DEF Wanted
  <2>3. leaInteraction' \subseteq Comments
    BY <1>1, <2>1 DEF LeaInv, LeaTypeOK
  <2> QED BY <2>1, <2>2, <2>3 DEF LeaInv, LeaTypeOK, LeadsComplete
<1> QED BY <1>2, <1>3, <1>4

\* An importer finds the row of a comment it was about to write.
LEMMA FindInteractionStep ==
  ASSUME LeaInv, NEW p \in Importers, FindInteraction(p)
  PROVE  LeaInv'
<1> DEFINE c == leaImporter[p].at
<1>1. leaImporter[p].phase = "duplicate" /\ c \in Comments
  BY DEF FindInteraction, ImporterAt, LeaInv, ImportInv, KnowsLead, AtComment
<1>2. UNCHANGED <<leaInteraction, leaLead, leaTask, leaNotified>>
  BY DEF FindInteraction
<1>3. ImportInv' /\ leaImporter' \in [Importers -> ImporterRows]
  <2>1. CASE NeedsLead(p)
    <3>1. ImporterGoes(p, "backfilling")
      BY <2>1 DEF FindInteraction
    <3> QED BY <1>1, <1>2, <3>1, PhaseStep DEF Phases, AtComment
  <2>2. CASE ~NeedsLead(p)
    <3>1. leaImporter' = [leaImporter EXCEPT ![p] = Answered(leaImporter[p], leaLead[c] # "none")]
      BY <2>2 DEF FindInteraction
    <3>2. classifyIntent(leaImporter[p].page[c]) => leaLead[c] # "none"
      BY <2>2 DEF NeedsLead, Wanted
    <3> QED BY <1>1, <1>2, <3>1, <3>2, AnswerStep
  <2> QED BY <2>1, <2>2
<1> QED BY <1>2, <1>3 DEF LeaInv, LeaTypeOK, LeadsComplete

\* The transaction that gives an old interaction its lead.
LEMMA BackfillStep ==
  ASSUME LeaInv, NEW p \in Importers, BackfillLead(p)
  PROVE  LeaInv'
<1> DEFINE c == leaImporter[p].at
<1>1. leaImporter[p].phase = "backfilling" /\ c \in Comments /\ leaInteraction' = leaInteraction
  BY DEF BackfillLead, ImporterAt, LeaInv, ImportInv, KnowsLead, AtComment
<1>2. CASE leaLead[c] # "none"
  <2>1. ImporterGoes(p, "conflicting") /\ UNCHANGED <<leaLead, leaTask, leaNotified>>
    BY <1>2 DEF BackfillLead
  <2>2. ImportInv' /\ leaImporter' \in [Importers -> ImporterRows]
    BY <1>1, <1>2, <2>1, PhaseStep DEF Phases, AtComment
  <2> QED BY <1>1, <2>1, <2>2 DEF LeaInv, LeaTypeOK, LeadsComplete
<1>3. CASE leaLead[c] = "none"
  <2>1. createLeadBundle(c) /\ ImporterGoes(p, "dispatching")
    BY <1>3 DEF BackfillLead
  <2>2. ImportInv' /\ leaImporter' \in [Importers -> ImporterRows]
    BY <1>1, <2>1, BundleKeeps, PhaseStep DEF Phases, AtComment
  <2> QED BY <1>1, <2>1, <2>2, BundleKeeps DEF LeaInv, LeaTypeOK
<1> QED BY <1>2, <1>3

\* The lead it met, or the one it wrote, is there still: an answer follows.
LEMMA AnsweringStep ==
  ASSUME LeaInv, NEW p \in Importers, FindLead(p) \/ DispatchLead(p)
  PROVE  LeaInv'
<1> DEFINE c == leaImporter[p].at
<1>1. c \in Comments /\ leaLead[c] # "none"
  BY DEF FindLead, DispatchLead, ImporterAt, LeaInv, ImportInv, KnowsLead, AtComment
<1>2. UNCHANGED <<leaInteraction, leaLead, leaTask, leaNotified>>
  BY DEF FindLead, DispatchLead
<1>3. leaImporter' = [leaImporter EXCEPT ![p] = Answered(leaImporter[p], TRUE)]
  <2>1. (leaLead[c] # "none") = TRUE
    BY <1>1
  <2> QED BY <2>1 DEF FindLead, DispatchLead
<1>4. ImportInv' /\ leaImporter' \in [Importers -> ImporterRows]
  BY <1>1, <1>2, <1>3, AnswerStep
<1> QED BY <1>2, <1>4 DEF LeaInv, LeaTypeOK, LeadsComplete

\* An import that fails leaves nothing behind.
LEMMA FailsStep ==
  ASSUME LeaInv, NEW p \in Importers, ImportFails(p)
  PROVE  LeaInv'
<1>1. leaImporter[p].phase \in AtComment /\ ImporterGoes(p, "failed")
      /\ UNCHANGED <<leaInteraction, leaLead, leaTask, leaNotified>>
  BY DEF ImportFails, LeaInv, LeaTypeOK, ImporterRows, Phases, AtComment
<1>2. ImportInv' /\ leaImporter' \in [Importers -> ImporterRows]
  BY <1>1, PhaseStep DEF Phases
<1> QED BY <1>1, <1>2 DEF LeaInv, LeaTypeOK, LeadsComplete

\* Operators move leads and tasks about, and take neither away.
LEMMA OperatorStep ==
  ASSUME LeaInv, NEW c \in Comments,
         \/ \E status \in LeadStatuses : updateLeadStatus(c, status)
         \/ \E status \in LeadTaskStatuses : SetLeadTask(c, status)
  PROVE  LeaInv'
<1>1. leaLead' \in [Comments -> LeadStatuses \cup {"none"}]
      /\ \A d \in Comments : leaLead[d] # "none" <=> leaLead'[d] # "none"
  BY DEF LeaInv, LeaTypeOK, updateLeadStatus, SetLeadTask, LeadStatuses
<1>2. leaTask' \in [Comments -> LeadTaskStatuses \cup {"none"}]
      /\ \A d \in Comments : leaTask[d] # "none" => leaTask'[d] # "none"
  BY DEF LeaInv, LeaTypeOK, updateLeadStatus, SetLeadTask, LeadTaskStatuses, LeadTaskOpen
<1>3. UNCHANGED <<leaInteraction, leaNotified, leaImporter>>
  BY DEF updateLeadStatus, SetLeadTask
<1>4. ImportInv'
  <2> SUFFICES ASSUME NEW p \in Importers
               PROVE  (KnowsLead(leaImporter[p], leaLead) /\ ToldAll(leaImporter[p], leaLead))'
    BY DEF ImportInv
  <2>1. leaImporter[p] \in ImporterRows
        /\ KnowsLead(leaImporter[p], leaLead) /\ ToldAll(leaImporter[p], leaLead)
    BY DEF LeaInv, LeaTypeOK, ImportInv
  <2> QED BY <1>1, <1>3, <2>1 DEF KnowsLead, ToldAll, AtComment, ImporterRows
<1> QED BY <1>1, <1>2, <1>3, <1>4 DEF LeaInv, LeaTypeOK, LeadsComplete

-----------------------------------------------------------------------------
(* Theorems *)

\* Every step keeps the invariant.
LEMMA ImportNextInv == LeaInv /\ [LeaNext]_leaVars => LeaInv'
<1> SUFFICES ASSUME LeaInv, [LeaNext]_leaVars PROVE LeaInv'
  OBVIOUS
<1>1. ASSUME NEW p \in Importers, importInteraction(p) \/ syncFacebookComments(p) PROVE LeaInv'
  BY <1>1, ImportBeginsStep
<1>2. ASSUME NEW p \in Importers, CreateInteraction(p) PROVE LeaInv'
  BY <1>2, InteractionCreatedStep
<1>3. ASSUME NEW p \in Importers, FindInteraction(p) PROVE LeaInv'
  BY <1>3, FindInteractionStep
<1>4. ASSUME NEW p \in Importers, BackfillLead(p) PROVE LeaInv'
  BY <1>4, BackfillStep
<1>5. ASSUME NEW p \in Importers, FindLead(p) \/ DispatchLead(p) PROVE LeaInv'
  BY <1>5, AnsweringStep
<1>6. ASSUME NEW p \in Importers, ImportFails(p) PROVE LeaInv'
  BY <1>6, FailsStep
<1>7. ASSUME NEW c \in Comments,
             \/ \E status \in LeadStatuses : updateLeadStatus(c, status)
             \/ \E status \in LeadTaskStatuses : SetLeadTask(c, status)
      PROVE  LeaInv'
  BY <1>7, OperatorStep
<1>8. CASE UNCHANGED leaVars
  BY <1>8 DEF leaVars, LeaInv, LeaTypeOK, LeadsComplete, ImportInv
<1> QED BY <1>1, <1>2, <1>3, <1>4, <1>5, <1>6, <1>7, <1>8 DEF LeaNext

\* The types, that a lead comes with its task and its notification, and what an import knows at
\* each step of importInteraction hold always.
THEOREM ImportInvariant == LeaSpec => []LeaInv
BY ImportInitInv, ImportNextInv, PTL DEF LeaSpec

\* Whoever imports the comments of a post, however often, and whatever fails in between: an
\* import that has answered for a comment that asks to buy has answered with its lead, which has
\* its task and its notification (interaction-service.ts).
THEOREM LeadsAreNotLost == LeaSpec => []NoIntentLost
<1>1. LeaInv => NoIntentLost
  <2> SUFFICES ASSUME LeaInv, NEW p \in Importers, NEW c \in leaImporter[p].done,
                      classifyIntent(leaImporter[p].page[c])
               PROVE  c \in leaImporter[p].told /\ c \in leaNotified /\ leaLead[c] # "none"
                      /\ leaTask[c] # "none"
    BY DEF NoIntentLost
  <2>1. c \in leaImporter[p].told /\ leaLead[c] # "none"
    BY DEF LeaInv, ImportInv, ToldAll
  <2>2. c \in Comments
    BY DEF LeaInv, LeaTypeOK, ImporterRows
  <2> QED BY <2>1, <2>2 DEF LeaInv, LeadsComplete
<1> QED BY <1>1, ImportInvariant, PTL

-----------------------------------------------------------------------------
(* Pages of the asset library *)

PagTypeOK ==
  /\ pagRows \in 0..MaxAssets /\ pagSeen \in 0..pagRows
  /\ pagMatching \in SUBSET (1..MaxAssets) /\ pagShown \in SUBSET (1..MaxAssets)
  /\ pagPage \in [phase : {"none", "scan", "more", "last", "look", "over"},
                  items : SUBSET (1..MaxAssets), position : 1..NoPosition, scanned : 0..MaxScanned]
  /\ pagCursor \in 1..NoPosition

\* What the reader has been shown or is about to be, from a row on.
SeenFrom(low) == pagMatching \cap low..pagSeen \subseteq pagShown \cup pagPage.items

\* The answers have shown the matching rows down to the cursor, the request has collected those
\* between the cursor and its position; the list ends only when nothing is left below.
PagInv ==
  /\ PagTypeOK
  /\ pagPage.phase # "over" => pagShown \subseteq pagCursor..MaxAssets
  /\ pagPage.phase \in {"none", "over"} => pagPage.items = {}
  /\ pagPage.phase = "none" => SeenFrom(pagCursor)
  /\ pagPage.phase \in {"scan", "more", "last", "look"} =>
       /\ pagPage.position <= pagCursor
       /\ pagPage.items \subseteq pagPage.position..(pagCursor - 1)
       /\ SeenFrom(pagPage.position)
  /\ pagPage.phase = "scan" => ~PageFull(pagPage.items, pagPage.scanned)
  /\ pagPage.phase \in {"more", "look"} => pagPage.position # NoPosition
  /\ pagPage.phase \in {"last", "over"} => SeenFrom(1)
  /\ pagPage.phase = "over" => pagCursor = NoPosition

LEMMA PagInitInv == PagInit => PagInv
BY PagesAssumption
   DEF PagInit, PagInv, PagTypeOK, NoPage, NoPosition, SeenFrom

LEMMA AskPageInv == ASSUME PagInv, AskPage PROVE PagInv'
<1>1. PagTypeOK
  BY DEF PagInv
<1>2. pagPage' = [phase |-> "scan", items |-> {}, position |-> pagCursor, scanned |-> 0]
  BY DEF AskPage, NoPage
<1>3. pagSeen' \in 0..pagRows
  BY <1>1, PagesAssumption DEF AskPage, PagTypeOK
<1>4. PagTypeOK'
  BY <1>1, <1>2, <1>3, PagesAssumption DEF AskPage, PagTypeOK
<1>5. Cardinality({}) = 0
  BY FS_EmptySet
<1>6. ~PageFull({}, 0)
  BY <1>5, PagesAssumption DEF PageFull
<1>7. pagMatching \cap pagCursor..pagSeen' \subseteq pagShown
  <2>1. CASE pagCursor = NoPosition
    BY <1>1, <1>3, <2>1, PagesAssumption DEF PagTypeOK, NoPosition
  <2>2. CASE pagCursor # NoPosition
    BY <2>2 DEF AskPage, PagInv, SeenFrom
  <2> QED  BY <2>1, <2>2
<1>8. pagCursor \in Nat
  BY <1>1, PagesAssumption DEF PagTypeOK, NoPosition
<1>9. /\ pagPage'.phase = "scan" /\ pagPage'.items = {} /\ pagPage'.position = pagCursor
      /\ pagPage'.scanned = 0
      /\ UNCHANGED <<pagRows, pagMatching, pagCursor, pagShown>>
  <2>1. UNCHANGED <<pagRows, pagMatching, pagCursor, pagShown>>
    BY DEF AskPage
  <2> QED  BY <1>2, <2>1
<1>10. pagShown \subseteq pagCursor..MaxAssets
  BY DEF PagInv, AskPage
<1> QED  BY <1>4, <1>6, <1>7, <1>8, <1>9, <1>10 DEF PagInv, SeenFrom

LEMMA AnswerPageInv == ASSUME PagInv, AnswerPage PROVE PagInv'
<1>1. PagTypeOK /\ pagPage.phase \in {"more", "last", "look"}
  BY DEF PagInv, AnswerPage
<1>2. /\ pagCursor \in Nat /\ pagPage.position \in Nat /\ NoPosition \in Nat
      /\ pagPage.position >= 1 /\ pagCursor <= MaxAssets + 1
  BY <1>1, PagesAssumption DEF PagTypeOK, NoPosition
<1> DEFINE more == pagPage.phase = "more" \/ (pagPage.phase = "look" /\ pagPage.position > 1)
<1>3. /\ pagPage' = [phase |-> IF more THEN "none" ELSE "over", items |-> {},
                     position |-> NoPosition, scanned |-> 0]
      /\ pagCursor' = IF more THEN pagPage.position ELSE NoPosition
      /\ pagShown' = pagShown \cup pagPage.items
      /\ UNCHANGED <<pagRows, pagMatching, pagSeen>>
  BY DEF AnswerPage, NoPage
<1>4. pagPage.items \subseteq pagPage.position..MaxAssets /\ pagShown \subseteq pagPage.position..MaxAssets
  BY <1>1, <1>2, PagesAssumption DEF PagInv, PagTypeOK
<1>5. PagTypeOK'
  <2>1. NoPosition \in 1..NoPosition /\ pagCursor' \in 1..NoPosition /\ 0 \in 0..MaxScanned
    BY <1>1, <1>2, <1>3, PagesAssumption DEF PagTypeOK
  <2>2. pagShown' \in SUBSET (1..MaxAssets)
    BY <1>1, <1>3 DEF PagTypeOK
  <2> QED  BY <1>1, <1>3, <2>1, <2>2 DEF PagTypeOK
<1>6. CASE more
  BY <1>1, <1>3, <1>4, <1>5, <1>6 DEF PagInv, SeenFrom
<1>7. CASE ~more
  <2>1. SeenFrom(1)
    BY <1>1, <1>2, <1>7 DEF PagInv
  <2> QED  BY <1>3, <1>5, <1>7, <2>1 DEF PagInv, SeenFrom
<1> QED  BY <1>6, <1>7

\* The rows of a batch lie below the position; it stops at the row that fills the page, or goes
\* through to its end, and it is the last one only if it reached the first row.
LEMMA FetchBatchInv == ASSUME PagInv, FetchBatch PROVE PagInv'
<1> DEFINE top == Below(pagPage.position)
           allowed == MaxScanned - pagPage.scanned
           asked == IF BatchSize <= allowed THEN BatchSize ELSE allowed
           length == IF top < asked THEN top ELSE asked
           items(row) == pagPage.items \cup (pagMatching \cap row..top)
           scanned(row) == pagPage.scanned + top - row + 1
           lowest == top - length + 1
           full == {row \in lowest..top : PageFull(items(row), scanned(row))}
           last == IF full = {} THEN lowest ELSE Max(full)
<1>1. PagTypeOK /\ pagPage.phase = "scan"
  BY DEF PagInv, FetchBatch
<1>2. /\ pagPage.position \in Nat /\ pagPage.position >= 1 /\ pagPage.position <= pagCursor
      /\ pagCursor \in Nat /\ pagCursor <= MaxAssets + 1 /\ NoPosition = MaxAssets + 1
      /\ pagRows \in Nat /\ pagRows <= MaxAssets /\ pagSeen \in Nat /\ pagSeen <= pagRows
      /\ pagPage.scanned \in Nat /\ pagPage.scanned <= MaxScanned
  BY <1>1, PagesAssumption DEF PagInv, PagTypeOK, NoPosition
<1>3. ~PageFull(pagPage.items, pagPage.scanned) /\ pagPage.scanned # MaxScanned
  BY <1>1 DEF PagInv, PageFull
<1>4. /\ top \in Nat /\ top <= pagCursor - 1 /\ top <= MaxAssets
      /\ \/ pagPage.position = NoPosition /\ top = pagRows
         \/ top = pagPage.position - 1
  BY <1>2, PagesAssumption DEF Below
<1>5. asked \in Nat /\ asked >= 1 /\ asked <= BatchSize /\ asked <= allowed /\ allowed \in Nat
  BY <1>2, <1>3, PagesAssumption
<1>6. length \in Nat /\ length <= top /\ length <= asked /\ (length = top \/ length = asked)
  BY <1>4, <1>5
<1>7. lowest \in Nat /\ lowest >= 1 /\ lowest <= top + 1 /\ (length > 0 => lowest <= top)
  BY SMTT(40), <1>4, <1>6
<1>8. FetchBatch =>
      /\ pagPage' = [phase |-> IF full # {} /\ last > lowest THEN "more"
                               ELSE IF ListEnds(items(last), scanned(last), length) THEN "last"
                               ELSE IF full # {} THEN "look" ELSE "scan",
                     position |-> IF length = 0 THEN pagPage.position ELSE last,
                     items |-> items(last), scanned |-> scanned(last)]
      /\ UNCHANGED <<pagRows, pagMatching, pagCursor, pagShown, pagSeen>>
  BY DEF FetchBatch
<1>9. full \subseteq lowest..top /\ \A row \in full : PageFull(items(row), scanned(row))
  OBVIOUS
<1>10. lowest \in lowest..top /\ lowest \notin full => ~PageFull(items(lowest), scanned(lowest))
  OBVIOUS
<1>11. full # {} => last \in full
  <2> SUFFICES ASSUME full # {}  PROVE Max(full) \in full
    OBVIOUS
  <2>1. full \in SUBSET Int /\ top \in Int /\ \A row \in full : row <= top
    BY <1>4, <1>7, <1>9
  <2> HIDE DEF full, top
  <2> QED  BY <2>1, GreatestOf
<1>12. last \in Nat /\ last >= lowest /\ last <= top + 1 /\ (length > 0 => last <= top)
  BY <1>4, <1>7, <1>9, <1>11
<1> DEFINE newItems == items(last)  newScanned == scanned(last)
<1>13. newItems = pagPage.items \cup (pagMatching \cap last..top)
  OBVIOUS
<1>14. newScanned = pagPage.scanned + top - last + 1
  OBVIOUS
<1>15. newScanned \in 0..MaxScanned
  <2>1. lowest = top - length + 1 /\ allowed = MaxScanned - pagPage.scanned
    OBVIOUS
  <2> HIDE DEF top, length, asked, allowed, lowest, last, newScanned
  <2>2. pagPage.scanned + length <= MaxScanned
    BY <1>2, <1>5, <1>6, <2>1, PagesAssumption
  <2>3. top - last + 1 \in 0..length
    BY <1>4, <1>6, <1>7, <1>12, <2>1
  <2>4. top - last + 1 \in Nat /\ top - last + 1 <= length /\ MaxScanned \in Nat
    BY <1>6, <2>3, PagesAssumption
  <2>5. newScanned = pagPage.scanned + (top - last + 1)
    BY <1>2, <1>4, <1>12, <1>14
  <2> QED  BY <1>2, <1>6, <2>2, <2>4, <2>5
<1>16. /\ pagPage' = [phase |-> IF full # {} /\ last > lowest THEN "more"
                               ELSE IF ListEnds(newItems, newScanned, length) THEN "last"
                               ELSE IF full # {} THEN "look" ELSE "scan",
                     position |-> IF length = 0 THEN pagPage.position ELSE last,
                     items |-> newItems, scanned |-> newScanned]
       /\ UNCHANGED <<pagRows, pagMatching, pagCursor, pagShown, pagSeen>>
  BY DEF FetchBatch
<1>17. full # {} => PageFull(newItems, newScanned)
  BY <1>9, <1>11
<1>18. full = {} => last = lowest
  OBVIOUS
<1>19. full = {} => ~PageFull(newItems, newScanned)
  <2> SUFFICES ASSUME full = {}  PROVE ~PageFull(items(lowest), scanned(lowest))
    BY <1>18
  <2>1. CASE length > 0
    <3>1. lowest \in lowest..top /\ lowest \notin full
      BY <1>4, <1>7, <2>1
    <3> QED  BY <1>10, <3>1
  <2>2. CASE length = 0
    <3>1. lowest = top + 1
      BY <1>4, <2>2
    <3> HIDE DEF top, lowest
    <3>2. lowest..top = {}
      BY <1>4, <3>1
    <3>3. items(lowest) = pagPage.items /\ scanned(lowest) = pagPage.scanned
      BY <1>2, <1>4, <3>1, <3>2
    <3> QED  BY <1>3, <3>3
  <2> QED  BY <1>6, <2>1, <2>2
\* The list ends only at the first row.
<1>20. ASSUME ListEnds(newItems, newScanned, length)  PROVE full = {} /\ length = top
  <2>1. length < BatchSize /\ ~PageFull(newItems, newScanned)
    BY <1>20 DEF ListEnds
  <2>2. full = {} /\ last = lowest
    BY <1>17, <1>18, <2>1
  <2>3. newScanned # MaxScanned
    BY <2>1 DEF PageFull
  <2>4. last = top - length + 1
    BY <2>2
  <2>5. asked = BatchSize \/ asked = MaxScanned - pagPage.scanned
    OBVIOUS
  <2> HIDE DEF top, length, asked, last, newScanned
  <2>6. newScanned = pagPage.scanned + length
    BY <1>2, <1>4, <1>6, <1>14, <2>4
  <2>7. length # asked
    BY <1>2, <1>6, <2>1, <2>3, <2>5, <2>6, PagesAssumption
  <2> QED  BY <1>6, <2>2, <2>7
<1>21. full = {} /\ length = top => last = 1
  BY <1>4, <1>18
<1> HIDE DEF newItems, newScanned, full, last, lowest, length, asked, allowed, top
<1>22. pagPage.items \subseteq pagPage.position..(pagCursor - 1) /\ SeenFrom(pagPage.position)
       /\ pagShown \subseteq pagCursor..MaxAssets
  BY <1>1 DEF PagInv
<1>23. newItems \subseteq last..(pagCursor - 1)
  BY <1>2, <1>4, <1>12, <1>13, <1>22
<1>24. pagMatching \cap last..pagSeen \subseteq pagShown \cup newItems
  BY <1>2, <1>4, <1>12, <1>13, <1>22 DEF SeenFrom
<1> DEFINE phase == pagPage'.phase  position == pagPage'.position
<1>25. /\ phase = IF full # {} /\ last > lowest THEN "more"
                  ELSE IF ListEnds(newItems, newScanned, length) THEN "last"
                  ELSE IF full # {} THEN "look" ELSE "scan"
       /\ position = IF length = 0 THEN pagPage.position ELSE last
       /\ pagPage'.items = newItems /\ pagPage'.scanned = newScanned
       /\ UNCHANGED <<pagRows, pagMatching, pagCursor, pagShown, pagSeen>>
  BY <1>16
<1>26. phase \in {"more", "last", "look", "scan"}
  BY <1>25
<1>27. PagTypeOK' /\ newItems \subseteq 1..MaxAssets
  <2>1. last \in 1..NoPosition
    BY <1>2, <1>4, <1>7, <1>12, PagesAssumption
  <2>2. newItems \subseteq 1..MaxAssets
    BY <1>1, <1>13 DEF PagTypeOK
  <2>3. pagPage' = [phase |-> phase, items |-> newItems, position |-> position, scanned |-> newScanned]
    BY <1>16
  <2>4. position \in 1..NoPosition
    BY <1>1, <1>25, <2>1 DEF PagTypeOK
  <2> HIDE DEF phase, position
  <2> QED  BY <1>1, <1>15, <1>25, <1>26, <2>2, <2>3, <2>4 DEF PagTypeOK
\* Without a row left the request stays where it is, at the end.
<1>28. CASE length = 0
  <2>0. full \subseteq lowest..top
    BY <1>9
  <2>1. top = 0 /\ last = 1 /\ lowest = 1
    BY <1>4, <1>5, <1>6, <1>7, <1>12, <1>28
  <2>2. full = {}
    BY <1>11, <2>1, <2>0
  <2>3. ListEnds(newItems, newScanned, length)
    BY <1>19, <1>28, <2>2, PagesAssumption DEF ListEnds
  <2>4. phase = "last" /\ position = pagPage.position /\ newItems = pagPage.items
    BY <1>13, <1>25, <1>28, <2>1, <2>2, <2>3
  <2>5. pagMatching \cap 1..pagSeen \subseteq pagShown \cup newItems
    BY <1>24, <2>1
  <2> QED  BY <1>2, <1>22, <1>25, <1>27, <2>4, <2>5 DEF PagInv, SeenFrom
<1>29. CASE length > 0
  <2>1. position = last /\ last <= MaxAssets /\ last <= pagCursor /\ last # NoPosition
    BY <1>2, <1>4, <1>6, <1>12, <1>25, <1>29, PagesAssumption
  <2>2. phase = "last" => last = 1
    BY <1>20, <1>21, <1>25
  <2>3. phase = "scan" => ~PageFull(newItems, newScanned)
    BY <1>19, <1>25
  <2>4. /\ pagPage'.position = last /\ pagPage'.items = newItems /\ pagPage'.scanned = newScanned
        /\ phase = pagPage'.phase
    BY <1>25, <2>1
  <2> HIDE DEF phase, position
  <2> QED  BY <1>22, <1>23, <1>24, <1>25, <1>26, <1>27, <2>1, <2>2, <2>3, <2>4 DEF PagInv, SeenFrom
<1> QED  BY <1>6, <1>28, <1>29

LEMMA PagNextInv == ASSUME PagInv, [PagNext]_pagVars PROVE PagInv'
<1>1. CASE StartAgain
  BY <1>1, PagesAssumption DEF StartAgain, NoPage, PagInv, PagTypeOK, NoPosition, SeenFrom
<1>2. CASE AssetUploaded
  BY <1>2, PagesAssumption DEF AssetUploaded, PagInv, PagTypeOK, SeenFrom
<1>3. CASE UNCHANGED pagVars
  BY <1>3 DEF pagVars, PagInv, PagTypeOK, SeenFrom
<1> QED  BY <1>1, <1>2, <1>3, AskPageInv, FetchBatchInv, AnswerPageInv DEF PagNext

\* Whoever turns the pages to the end has seen every matching asset that was there at the first
\* page, however few rows a page looks at, and sees none twice (listAssetLibraryPage: the cursor
\* is the last row looked at, and a batch that was cut short is not taken for the last).
THEOREM PagesShowAll == PagSpec => []PagesShowEverything
<1>1. PagInv => PagesShowEverything
  <2> SUFFICES ASSUME PagInv  PROVE PagesShowEverything
    OBVIOUS
  <2>1. pagCursor \in Nat
    BY PagesAssumption DEF PagInv, PagTypeOK, NoPosition
  <2> QED  BY <2>1 DEF PagInv, PagTypeOK, PagesShowEverything, SeenFrom
<1> QED  BY <1>1, PagInitInv, PagNextInv, PTL DEF PagSpec

-----------------------------------------------------------------------------
(* The client's months *)

\* a \div d is the greatest n with d * n <= a
LEMMA DivBelow ==
  ASSUME NEW a \in Int, NEW d \in Nat \ {0}, NEW n \in Int
  PROVE  a \div d \in Int /\ (a \div d < n <=> a < d * n)
OBVIOUS

\* The instant a month would begin if offsets were nought.
Anchor(month) == month * MonthDays * DayLength

LEMMA MonthBelow ==
  ASSUME NEW t \in Int, NEW offset \in Int, NEW month \in Int
  PROVE  MonthAt(t, offset) \in Int /\ (MonthAt(t, offset) < month <=> t + offset < Anchor(month))
<1> DEFINE day == (t + offset) \div DayLength
<1>1. /\ day \in Int /\ day \div MonthDays \in Int
      /\ day \div MonthDays < month <=> day < MonthDays * month
  BY DivBelow, CalendarAssumption
<1>2. day < MonthDays * month <=> t + offset < DayLength * (MonthDays * month)
  <2>1. MonthDays * month \in Int /\ t + offset \in Int
    BY CalendarAssumption
  <2> QED  BY <2>1, DivBelow, CalendarAssumption
<1>3. DayLength * (MonthDays * month) = Anchor(month)
  BY CalendarAssumption DEF Anchor
<1> HIDE DEF day
<1>4. MonthAt(t, offset) = day \div MonthDays
  BY DEF MonthAt, day
<1> QED  BY <1>1, <1>2, <1>3, <1>4

ZoneInv == monZone \in Zones

Offset(t) == IF t < monZone.at THEN monZone.before ELSE monZone.after

LEMMA OffsetsAreSmall ==
  ASSUME ZoneInv, NEW t \in Int
  PROVE  /\ Offset(t) \in Int /\ -DayLength <= Offset(t) /\ Offset(t) <= DayLength
         /\ LocalMonth(t) = MonthAt(t, Offset(t)) /\ LocalMonth(t) \in Int
<1>1. monZone \in [before : -DayLength..DayLength, after : -DayLength..DayLength, at : Int]
  BY CalendarAssumption DEF ZoneInv
<1>2. Offset(t) \in -DayLength..DayLength
  BY <1>1 DEF Offset
<1>3. Offset(t) \in Int /\ -DayLength <= Offset(t) /\ Offset(t) <= DayLength
  BY <1>2, CalendarAssumption
<1>4. LocalMonth(t) = MonthAt(t, Offset(t))
  BY DEF LocalMonth, localDate, MonthAt, Offset
<1> QED  BY <1>3, <1>4, MonthBelow

\* Months do not come back.
LEMMA MonthsGoOn ==
  ASSUME ZoneInv, NEW t \in Int, NEW u \in Int, t <= u
  PROVE  LocalMonth(t) <= LocalMonth(u)
<1>1. ASSUME NEW a \in Int, NEW b \in Int, a <= b, NEW offset \in Int
      PROVE  MonthAt(a, offset) <= MonthAt(b, offset)
  <2>1. MonthAt(a, offset) \in Int /\ MonthAt(b, offset) \in Int /\ a + offset <= b + offset
    BY <1>1, MonthBelow
  <2>2. PICK m \in Int : m = MonthAt(a, offset)
    BY <2>1
  <2>3. MonthAt(a, offset) < m <=> a + offset < Anchor(m)
    BY <1>1, MonthBelow
  <2>4. MonthAt(b, offset) < m <=> b + offset < Anchor(m)
    BY <1>1, MonthBelow
  <2>5. Anchor(m) \in Int
    BY CalendarAssumption DEF Anchor
  <2> QED  BY <1>1, <2>1, <2>2, <2>3, <2>4, <2>5
<1>2. /\ monZone.at \in Int /\ monZone.before \in Int /\ monZone.after \in Int
      /\ MonthAt(monZone.at - 1, monZone.before) <= MonthAt(monZone.at, monZone.after)
  BY CalendarAssumption DEF ZoneInv
<1>3. LocalMonth(t) = MonthAt(t, Offset(t)) /\ LocalMonth(u) = MonthAt(u, Offset(u))
  BY OffsetsAreSmall
<1>4. CASE u < monZone.at \/ ~(t < monZone.at)
  <2>1. Offset(t) = Offset(u) /\ Offset(t) \in Int
    BY <1>2, <1>4 DEF Offset
  <2> QED  BY <1>1, <1>3, <2>1
<1>5. CASE t < monZone.at /\ ~(u < monZone.at)
  <2>1. Offset(t) = monZone.before /\ Offset(u) = monZone.after
    BY <1>5 DEF Offset
  <2>2. /\ monZone.at - 1 \in Int /\ t <= monZone.at - 1 /\ monZone.at <= u
    BY <1>2, <1>5
  <2>3. /\ MonthAt(t, monZone.before) <= MonthAt(monZone.at - 1, monZone.before)
        /\ MonthAt(monZone.at, monZone.after) <= MonthAt(u, monZone.after)
    BY <1>1, <1>2, <2>2
  <2>4. /\ MonthAt(t, monZone.before) \in Int /\ MonthAt(monZone.at - 1, monZone.before) \in Int
        /\ MonthAt(monZone.at, monZone.after) \in Int /\ MonthAt(u, monZone.after) \in Int
    BY <1>2, <2>2, MonthBelow
  <2> QED  BY <1>2, <1>3, <2>1, <2>3, <2>4
<1> QED  BY <1>4, <1>5

\* What the search by halves decides by.
LEMMA DateBelow ==
  ASSUME ZoneInv, NEW t \in Int, NEW month \in Int
  PROVE  localDate(t) < month * MonthDays <=> LocalMonth(t) < month
<1>1. localDate(t) = (t + Offset(t)) \div DayLength /\ LocalMonth(t) = localDate(t) \div MonthDays
  BY DEF localDate, Offset, LocalMonth
<1>2. localDate(t) \in Int
  <2>1. t + Offset(t) \in Int
    BY OffsetsAreSmall
  <2> QED  BY <1>1, <2>1, DivBelow, CalendarAssumption
<1>3. month * MonthDays = MonthDays * month
  BY CalendarAssumption
<1> QED  BY <1>1, <1>2, <1>3, DivBelow, CalendarAssumption

\* The first instant of an interval that is of the month or a later one, or the interval's end.
First(month, low, high, n) ==
  /\ n \in low..high
  /\ \A t \in low..(n - 1) : LocalMonth(t) < month
  /\ n = high \/ ~(LocalMonth(n) < month)

LEMMA FirstExists ==
  ASSUME ZoneInv, NEW month \in Int, NEW low \in Int, NEW high \in Int, low <= high
  PROVE  /\ \E n \in Int : First(month, low, high, n)
         /\ \A m, n \in Int : First(month, low, high, m) /\ First(month, low, high, n) => m = n
<1> DEFINE candidates == {d \in 0..(high - low) : low + d = high \/ ~(LocalMonth(low + d) < month)}
<1>1. candidates \in SUBSET Nat /\ candidates # {}
  <2>1. PICK e \in 0..(high - low) : low + e = high
    <3>1. high - low \in 0..(high - low) /\ low + (high - low) = high
      OBVIOUS
    <3> QED  BY <3>1
  <2> QED  BY <2>1
<1>2. PICK d \in candidates : \A e \in candidates : d <= e
  BY <1>1, LeastOf
<1>3. low + d \in low..high /\ (low + d = high \/ ~(LocalMonth(low + d) < month))
  BY <1>2
<1>4. ASSUME NEW t \in low..(low + d - 1)  PROVE LocalMonth(t) < month
  <2>1. t - low \in 0..(high - low) /\ low + (t - low) = t /\ ~(d <= t - low)
    BY <1>2, <1>3
  <2>2. t - low \notin candidates
    <3> HIDE DEF candidates
    <3> QED  BY <1>2, <2>1
  <2>3. PICK e \in 0..(high - low) : low + e = t /\ e \notin candidates
    BY <2>1, <2>2
  <2> QED  BY <2>3
<1>5. First(month, low, high, low + d) /\ low + d \in Int
  BY <1>3, <1>4 DEF First
<1>6. ASSUME NEW m \in Int, NEW n \in Int, First(month, low, high, m), First(month, low, high, n)
      PROVE  m = n
  <2>1. ASSUME NEW a \in Int, NEW b \in Int, First(month, low, high, a), First(month, low, high, b)
        PROVE  ~(a < b)
    <3>1. SUFFICES ASSUME a < b  PROVE FALSE
      OBVIOUS
    <3>2. a \in low..(b - 1) /\ a # high
      BY <2>1, <3>1 DEF First
    <3> QED  BY <2>1, <3>2 DEF First
  <2>2. ~(m < n) /\ ~(n < m)
    BY <1>6, <2>1
  <2> QED  BY <2>2
<1> QED  BY <1>5, <1>6

\* Halving an interval keeps its first instant.
LEMMA FirstOfHalf ==
  ASSUME ZoneInv, NEW month \in Int, NEW low \in Int, NEW high \in Int, low < high,
         NEW n \in Int, First(month, low, high, n), NEW middle \in low..(high - 1)
  PROVE  /\ LocalMonth(middle) < month => First(month, middle + 1, high, n)
         /\ ~(LocalMonth(middle) < month) => First(month, low, middle, n)
<1>1. middle \in Int /\ low <= middle /\ middle < high /\ low <= n /\ n <= high
  BY DEF First
<1>2. LocalMonth(n) \in Int /\ LocalMonth(middle) \in Int
  BY <1>1, OffsetsAreSmall
<1>3. CASE LocalMonth(middle) < month
  <2>1. ~(n <= middle)
    <3>1. SUFFICES ASSUME n <= middle  PROVE FALSE
      OBVIOUS
    <3>2. LocalMonth(n) <= LocalMonth(middle)
      BY <1>1, <3>1, MonthsGoOn
    <3>3. LocalMonth(n) < month
      BY <1>2, <1>3, <3>2
    <3> QED  BY <1>1, <3>1, <3>3 DEF First
  <2>2. n \in (middle + 1)..high
    BY <1>1, <2>1
  <2>3. \A t \in (middle + 1)..(n - 1) : t \in low..(n - 1)
    BY <1>1
  <2> QED  BY <1>3, <2>2, <2>3 DEF First
<1>4. CASE ~(LocalMonth(middle) < month)
  <2>1. n <= middle
    <3>1. SUFFICES ASSUME middle < n  PROVE FALSE
      BY <1>1
    <3>2. middle \in low..(n - 1)
      BY <1>1, <3>1
    <3> QED  BY <1>4, <3>2 DEF First
  <2>2. n = middle \/ ~(LocalMonth(n) < month)
    BY <1>1, <2>1 DEF First
  <2>3. n \in low..middle
    BY <1>1, <2>1
  <2>4. \A t \in low..(n - 1) : LocalMonth(t) < month
    BY DEF First
  <2> QED  BY <1>4, <2>2, <2>3, <2>4 DEF First
<1> QED  BY <1>3, <1>4

\* The search by halves ends at it: such a function exists, and by the least-number principle on
\* the length of the interval there is none that ends elsewhere.
LEMMA BoundaryIsFirst ==
  ASSUME ZoneInv, NEW month \in Int
  PROVE  First(month, Anchor(month) - 2 * DayLength, Anchor(month) + 2 * DayLength,
               monthBoundaryUtc(month))
<1> DEFINE half(f, interval) ==
             LET low == interval[1]  high == interval[2]
                 middle == low + (high - low) \div 2
             IN  IF low >= high THEN low
                 ELSE IF localDate(middle) < month * MonthDays
                      THEN f[<<middle + 1, high>>] ELSE f[<<low, middle>>]
           halves(f) == [interval \in Int \X Int |-> half(f, interval)]
           search == CHOOSE f : f = halves(f)
           answer(low, high) == CHOOSE n \in Int : First(month, low, high, n)
           first == [interval \in Int \X Int |->
             IF interval[1] >= interval[2] THEN interval[1] ELSE answer(interval[1], interval[2])]
<1>1. monthBoundaryUtc(month) =
        search[<<Anchor(month) - 2 * DayLength, Anchor(month) + 2 * DayLength>>]
  BY DEF monthBoundaryUtc, Anchor
<1>2. ASSUME NEW f, NEW low \in Int, NEW high \in Int, low >= high
      PROVE  half(f, <<low, high>>) = low
  BY <1>2
<1>2a. ASSUME NEW f, NEW low \in Int, NEW high \in Int, low < high, NEW middle \in low..(high - 1),
              middle = low + (high - low) \div 2
       PROVE  half(f, <<low, high>>) = IF localDate(middle) < month * MonthDays
                                       THEN f[<<middle + 1, high>>] ELSE f[<<low, middle>>]
  BY <1>2a
<1> HIDE DEF answer
<1>3. ASSUME NEW low \in Int, NEW high \in Int
      PROVE  first[<<low, high>>] = IF low >= high THEN low ELSE answer(low, high)
  OBVIOUS
<1> HIDE DEF half
<1>4. ASSUME NEW f, NEW low \in Int, NEW high \in Int
      PROVE  halves(f)[<<low, high>>] = half(f, <<low, high>>)
  <2>1. <<low, high>> \in Int \X Int
    OBVIOUS
  <2> QED  BY <2>1, Zenon
<1>5. ASSUME \A low, high \in Int : first[<<low, high>>] = half(first, <<low, high>>)
      PROVE  first = halves(first)
  <2>1. \A p \in Int \X Int : first[p] = half(first, p)
    BY <1>5
  <2>2. first = [p \in Int \X Int |-> first[p]]
    OBVIOUS
  <2> HIDE DEF first
  <2> QED  BY <2>1, <2>2
<1> HIDE DEF halves, first
<1>6. ASSUME NEW low \in Int, NEW high \in Int, low < high
      PROVE  LET middle == low + (high - low) \div 2
             IN  /\ middle \in low..(high - 1) /\ middle \in Int
                 /\ localDate(middle) < month * MonthDays <=> LocalMonth(middle) < month
  <2>1. low + (high - low) \div 2 \in low..(high - 1)
    BY <1>6
  <2> QED  BY <2>1, DateBelow
<1>7. ASSUME NEW low \in Int, NEW high \in Int, low <= high
      PROVE  first[<<low, high>>] \in Int /\ First(month, low, high, first[<<low, high>>])
  <2>1. CASE low = high
    <3>1. first[<<low, high>>] = low
      BY <1>3, <2>1
    <3> QED  BY <2>1, <3>1 DEF First
  <2>2. CASE low < high
    <3>1. first[<<low, high>>] = CHOOSE n \in Int : First(month, low, high, n)
      BY <1>3, <2>2 DEF answer
    <3> QED  BY <1>7, <3>1, FirstExists, Zenon
  <2> QED  BY <1>7, <2>1, <2>2
<1>8. first = halves(first)
  <2>1. ASSUME NEW low \in Int, NEW high \in Int
        PROVE  first[<<low, high>>] = half(first, <<low, high>>)
    <3>1. CASE low >= high
      BY <1>2, <1>3, <3>1
    <3>2. CASE low < high
      <4>1. PICK middle \in low..(high - 1) : middle = low + (high - low) \div 2
        BY <1>6, <3>2
      <4>2. middle \in Int /\ middle + 1 \in Int /\ middle + 1 <= high /\ low <= middle
        BY <4>1
      <4>3. PICK n \in Int : n = first[<<low, high>>] /\ First(month, low, high, n)
        BY <1>7, <3>2
      <4>4. /\ half(first, <<low, high>>) = IF localDate(middle) < month * MonthDays
                                              THEN first[<<middle + 1, high>>]
                                              ELSE first[<<low, middle>>]
            /\ localDate(middle) < month * MonthDays <=> LocalMonth(middle) < month
        BY <1>2a, <3>2, <4>1, <4>2, DateBelow
      <4>5. CASE LocalMonth(middle) < month
        <5>1. half(first, <<low, high>>) = first[<<middle + 1, high>>]
          BY <4>4, <4>5
        <5>2. First(month, middle + 1, high, n)
          BY <3>2, <4>1, <4>3, <4>5, FirstOfHalf
        <5> QED  BY <1>7, <4>2, <4>3, <5>1, <5>2, FirstExists
      <4>6. CASE ~(LocalMonth(middle) < month)
        <5>1. half(first, <<low, high>>) = first[<<low, middle>>]
          BY <4>4, <4>6
        <5>2. First(month, low, middle, n)
          BY <3>2, <4>1, <4>3, <4>6, FirstOfHalf
        <5> QED  BY <1>7, <4>2, <4>3, <5>1, <5>2, FirstExists
      <4> QED  BY <4>5, <4>6
    <3> QED  BY <3>1, <3>2
  <2> QED  BY <1>5, <2>1
<1>9. search = halves(search)
  <2>1. \E f : f = halves(f)
    BY <1>8
  <2> QED  BY <2>1, Zenon
<1> HIDE DEF search
<1>10. ASSUME NEW low \in Int, NEW high \in Int, low <= high
       PROVE  search[<<low, high>>] = first[<<low, high>>]
  <2> DEFINE wrong == {d \in Nat : \E a \in Int : \E b \in Int :
                         d = b - a /\ search[<<a, b>>] # first[<<a, b>>]}
  <2>1. SUFFICES ASSUME wrong # {}  PROVE FALSE
    <3>1. high - low \in Nat
      BY <1>10
    <3> QED  BY <3>1
  <2>2. PICK d \in wrong : \A e \in wrong : d <= e
    BY <2>1, LeastOf
  <2>3. PICK a \in Int, b \in Int : d = b - a /\ search[<<a, b>>] # first[<<a, b>>]
    BY <2>2
  <2>4. ASSUME NEW c \in Int, NEW e \in Int, c <= e, e - c < d
        PROVE  search[<<c, e>>] = first[<<c, e>>]
    <3>1. PICK x \in Nat : x = e - c /\ ~(d <= x)
      <4>1. e - c \in Nat /\ ~(d <= e - c)
        BY <2>2, <2>4
      <4> QED  BY <4>1
    <3>2. x \notin wrong
      <4> HIDE DEF wrong
      <4> QED  BY <2>2, <3>1
    <3> QED  BY <3>1, <3>2
  <2> HIDE DEF wrong
  <2>5. d \in Nat /\ a <= b
    <3>1. d \in Nat
      BY <2>2 DEF wrong
    <3> QED  BY <2>3, <3>1
  <2>6. CASE a = b
    <3>1. a >= b
      BY <2>6
    <3>2. first[<<a, b>>] = a /\ half(search, <<a, b>>) = a
      BY <1>2, <1>3, <3>1
    <3> QED  BY <1>4, <1>9, <2>3, <3>2
  <2>7. CASE a < b
    <3>1. PICK middle \in a..(b - 1) : middle = a + (b - a) \div 2
      BY <1>6, <2>7
    <3>2. /\ middle \in Int /\ middle + 1 \in Int /\ middle + 1 <= b /\ a <= middle
          /\ b - (middle + 1) < d /\ middle - a < d
      BY <2>3, <3>1
    <3>3. /\ search[<<middle + 1, b>>] = first[<<middle + 1, b>>]
          /\ search[<<a, middle>>] = first[<<a, middle>>]
      BY <2>4, <3>2
    <3>4. half(search, <<a, b>>) = IF localDate(middle) < month * MonthDays
                                   THEN search[<<middle + 1, b>>] ELSE search[<<a, middle>>]
      BY <1>2a, <2>7, <3>1
    <3>5. half(first, <<a, b>>) = IF localDate(middle) < month * MonthDays
                                  THEN first[<<middle + 1, b>>] ELSE first[<<a, middle>>]
      BY <1>2a, <2>7, <3>1
    <3>6. half(search, <<a, b>>) = half(first, <<a, b>>)
      BY <3>3, <3>4, <3>5
    <3>7. halves(search)[<<a, b>>] = half(search, <<a, b>>)
      BY <1>4, Zenon
    <3>8. halves(first)[<<a, b>>] = half(first, <<a, b>>)
      BY <1>4, Zenon
    <3>9. search[<<a, b>>] = halves(search)[<<a, b>>] /\ first[<<a, b>>] = halves(first)[<<a, b>>]
      BY <1>8, <1>9, Zenon
    <3> QED  BY <2>3, <3>6, <3>7, <3>8, <3>9, Zenon
  <2> QED  BY <2>5, <2>6, <2>7
<1>11. Anchor(month) - 2 * DayLength \in Int /\ Anchor(month) + 2 * DayLength \in Int
       /\ Anchor(month) - 2 * DayLength <= Anchor(month) + 2 * DayLength
  BY CalendarAssumption DEF Anchor
<1> QED  BY <1>1, <1>7, <1>10, <1>11

\* What is found is the first instant of the month, in UTC.
LEMMA BoundaryIsExact ==
  ASSUME ZoneInv, NEW month \in Int, NEW t \in Int
  PROVE  monthBoundaryUtc(month) \in Int /\ (t < monthBoundaryUtc(month) <=> LocalMonth(t) < month)
<1> DEFINE low == Anchor(month) - 2 * DayLength
           high == Anchor(month) + 2 * DayLength
           n == monthBoundaryUtc(month)
<1>1. First(month, low, high, n)
  BY BoundaryIsFirst
<1>2. DayLength \in Int /\ DayLength > 0 /\ Anchor(month) \in Int /\ low \in Int /\ high \in Int
  BY CalendarAssumption DEF Anchor
<1>3. LocalMonth(low) < month /\ ~(LocalMonth(high) < month)
  <2>1. /\ LocalMonth(low) = MonthAt(low, Offset(low)) /\ Offset(low) \in Int /\ Offset(low) <= DayLength
        /\ LocalMonth(high) = MonthAt(high, Offset(high)) /\ Offset(high) \in Int
        /\ -DayLength <= Offset(high)
    BY <1>2, OffsetsAreSmall
  <2>2. low + Offset(low) < Anchor(month) /\ ~(high + Offset(high) < Anchor(month))
    BY <1>2, <2>1
  <2> HIDE DEF low, high
  <2>3. ASSUME NEW u \in Int
        PROVE  MonthAt(u, Offset(u)) < month <=> u + Offset(u) < Anchor(month)
    <3>1. Offset(u) \in Int
      BY OffsetsAreSmall
    <3> QED  BY <3>1, MonthBelow
  <2> QED  BY <1>2, <2>1, <2>2, <2>3
<1> HIDE DEF low, high, n
<1>4. n \in Int /\ low <= n /\ n <= high /\ LocalMonth(t) \in Int /\ LocalMonth(n) \in Int
  <2>1. n \in Int /\ low <= n /\ n <= high
    BY <1>1, <1>2 DEF First
  <2> QED  BY <2>1, OffsetsAreSmall
<1>5. ~(LocalMonth(n) < month)
  BY <1>1, <1>3 DEF First
<1>6. ASSUME t < n  PROVE LocalMonth(t) < month
  <2>1. CASE low <= t
    <3>1. t \in low..(n - 1)
      BY <1>2, <1>4, <1>6, <2>1
    <3> QED  BY <1>1, <3>1 DEF First
  <2>2. CASE t < low
    <3>1. LocalMonth(t) <= LocalMonth(low) /\ LocalMonth(low) \in Int
      BY <1>2, <2>2, MonthsGoOn, OffsetsAreSmall
    <3> QED  BY <1>3, <1>4, <3>1
  <2> QED  BY <1>2, <2>1, <2>2
<1>7. ASSUME ~(t < n)  PROVE ~(LocalMonth(t) < month)
  <2>1. LocalMonth(n) <= LocalMonth(t)
    BY <1>4, <1>7, MonthsGoOn
  <2> QED  BY <1>4, <1>5, <2>1
<1> QED  BY <1>4, <1>6, <1>7 DEF n

-----------------------------------------------------------------------------
(* The monthly report *)

JobRows == [created : Int, published : Int]
InteractionRows == [occurred : Int, imported : Int]
MetricRows == [id : Nat, kind : {"REAL", "MOCK"}, fetched : Int, stored : Int, from : Int, to : Int]

IsDatabase(data) ==
  data = [jobs |-> data.jobs, interactions |-> data.interactions, rows |-> data.rows]

\* The database: ids are counted, and a real metric has no beginning.
DataOK(data) ==
  /\ IsDatabase(data)
  /\ data.jobs \in [Publications -> JobRows]
  /\ data.interactions \subseteq InteractionRows
  /\ data.rows \subseteq MetricRows
  /\ \A r \in data.rows : r.kind = "REAL" => r.from = NoTime
  /\ \E bound \in Int : \A r \in data.rows : r.fetched <= bound
  /\ IsFiniteSet(data.rows)
  /\ \A r \in data.rows : r.id < Cardinality(data.rows)
  /\ \A q, r \in data.rows : q.id = r.id => q = r

CohortRows == [job : Publications, status : {"PUBLISHED", "PENDING"}]
FactRows == [published : SUBSET Publications, cohort : SUBSET CohortRows,
             occurred : SUBSET InteractionRows, late : SUBSET InteractionRows,
             samples : SUBSET MetricRows]

\* Each query that was answered told the truth about the rows the first one saw.
FactsInv ==
  LET seen == monReport.seen  facts == monReport.facts
  IN  /\ facts \in FactRows
      /\ monReport.read >= 1 => PublishedInMonth
      /\ monReport.read >= 2 =>
           \A c \in facts.cohort : c.status = "PUBLISHED" <=> seen.jobs[c.job].published # NoTime
      /\ monReport.read >= 3 =>
           facts.occurred =
             {i \in seen.interactions : OfTheMonth(i.occurred) /\ i.imported <= monReport.asOf}
      /\ monReport.read >= 4 => facts.late \subseteq facts.occurred
      /\ monReport.read >= 5 =>
           \A r \in seen.rows :
             r.kind = "REAL" /\ r.stored <= monReport.asOf /\ OfTheMonth(r.fetched) =>
               \E s \in facts.samples : s.kind = "REAL" /\ s.to = r.to /\ s.fetched >= r.fetched
      /\ monReport.read >= 5 =>
           \A q, s \in facts.samples : q.kind = s.kind /\ q.from = s.from /\ q.to = s.to => q = s

MonInv ==
  /\ ZoneInv
  /\ monNow \in Nat
  /\ DataOK(monData)
  /\ monReport = [phase |-> monReport.phase, month |-> monReport.month, asOf |-> monReport.asOf,
                  seen |-> monReport.seen, read |-> monReport.read, facts |-> monReport.facts]
  /\ monReport.phase \in {"idle", "asked", "reading", "told"}
  /\ monReport.read \in 0..5
  /\ monReport.phase # "idle" => /\ monReport.month \in Int /\ monReport.asOf \in Int
                                 /\ monReport.month <= LocalMonth(monReport.asOf)
  /\ monReport.phase \in {"reading", "told"} => DataOK(monReport.seen) /\ FactsInv
  /\ monReport.phase \in {"idle", "asked"} => monReport.read = 0
  /\ monReport.phase = "told" => monReport.read = 5

\* The window of a report is the month that far.
LEMMA WindowIsMonth ==
  ASSUME ZoneInv, NEW month \in Int, NEW asOf \in Int, month <= LocalMonth(asOf), NEW t \in Int
  PROVE  InWindow(t, resolveMonthlyReviewPeriod(month, asOf)) <=> LocalMonth(t) = month /\ t < asOf
<1> DEFINE period == resolveMonthlyReviewPeriod(month, asOf)
<1>1. /\ period.start = monthBoundaryUtc(month)
      /\ period.effectiveEnd = IF month = LocalMonth(asOf) THEN asOf ELSE monthBoundaryUtc(month + 1)
  BY DEF resolveMonthlyReviewPeriod
<1>2. /\ monthBoundaryUtc(month) \in Int /\ monthBoundaryUtc(month + 1) \in Int
      /\ t < monthBoundaryUtc(month) <=> LocalMonth(t) < month
      /\ t < monthBoundaryUtc(month + 1) <=> LocalMonth(t) < month + 1
  BY BoundaryIsExact
<1>3. LocalMonth(t) \in Int /\ LocalMonth(asOf) \in Int
  BY OffsetsAreSmall
<1>4. /\ t <= asOf => LocalMonth(t) <= LocalMonth(asOf)
      /\ asOf <= t => LocalMonth(asOf) <= LocalMonth(t)
  BY MonthsGoOn
<1>5. InWindow(t, period) <=> monthBoundaryUtc(month) <= t /\ t < period.effectiveEnd
  BY <1>1 DEF InWindow, Within
<1> HIDE DEF period
<1>6. CASE month = LocalMonth(asOf)
  <2>1. InWindow(t, period) <=> monthBoundaryUtc(month) <= t /\ t < asOf
    BY <1>1, <1>5, <1>6
  <2> QED  BY <1>2, <1>3, <1>4, <1>6, <2>1 DEF period
<1>7. CASE month < LocalMonth(asOf)
  <2>1. InWindow(t, period) <=> monthBoundaryUtc(month) <= t /\ t < monthBoundaryUtc(month + 1)
    BY <1>1, <1>3, <1>5, <1>7
  <2> QED  BY <1>2, <1>3, <1>4, <1>7, <2>1 DEF period
<1> QED  BY <1>3, <1>6, <1>7

\* Of the rows a report is given the latest of each identity is among its samples.
LEMMA LatestStays ==
  ASSUME NEW rows, rows \subseteq MetricRows, NEW period, NEW r \in rows,
         r.from = NoTime, InWindow(r.fetched, period),
         \E bound \in Int : \A q \in rows : q.fetched <= bound,
         \E bound \in Int : \A q \in rows : q.id <= bound
  PROVE  \E s \in monthlyMetricRows(rows, period) :
           s.kind = r.kind /\ s.to = r.to /\ s.fetched >= r.fetched
<1> DEFINE bounded(q) == q.from # NoTime /\ q.from < q.to
           relevant == {q \in rows :
             IF bounded(q) THEN q.from < period.effectiveEnd /\ q.to > period.start
             ELSE InWindow(q.fetched, period)}
           identity(q) == <<q.kind, q.from, q.to>>
           newer(p, q) == p.fetched > q.fetched \/ (p.fetched = q.fetched /\ p.id > q.id)
<1>1. monthlyMetricRows(rows, period) =
        {q \in relevant : ~ \E p \in relevant : identity(p) = identity(q) /\ newer(p, q)}
  BY DEF monthlyMetricRows
<1>2. r \in relevant /\ relevant \subseteq rows
  OBVIOUS
<1> HIDE DEF relevant
<1> DEFINE same == {q \in relevant : identity(q) = identity(r)}
           times == {q.fetched : q \in same}
<1>3. r \in same /\ same \subseteq relevant /\ same \subseteq MetricRows
  BY <1>2
<1>4. times \in SUBSET Int /\ times # {}
  BY <1>3 DEF MetricRows
<1>5. PICK latest \in times : \A t \in times : t <= latest
  <2>1. PICK bound \in Int : \A q \in rows : q.fetched <= bound
    OBVIOUS
  <2>2. \A t \in times : t <= bound
    BY <1>2, <2>1
  <2> HIDE DEF times
  <2> QED  BY <1>4, <2>2, GreatestOf
<1> DEFINE last == {q \in same : q.fetched = latest}
           ids == {q.id : q \in last}
<1>6. ids \in SUBSET Int /\ ids # {} /\ last \subseteq same
  BY <1>3, <1>5 DEF MetricRows
<1>7. PICK id \in ids : \A i \in ids : i <= id
  <2>1. PICK bound \in Int : \A q \in rows : q.id <= bound
    OBVIOUS
  <2>2. \A i \in ids : i <= bound
    BY <1>2, <2>1
  <2> HIDE DEF ids
  <2> QED  BY <1>6, <2>2, GreatestOf
<1>8. PICK s \in last : s.id = id
  BY <1>7
<1>9. s \in same /\ s \in relevant /\ s.fetched = latest /\ identity(s) = identity(r)
  BY <1>3, <1>8
<1>10. ASSUME NEW p \in relevant, identity(p) = identity(s)  PROVE ~newer(p, s)
  <2>1. p \in same
    BY <1>9, <1>10
  <2>2. p.fetched \in times /\ p.fetched <= latest
    BY <1>5, <2>1
  <2>3. p.fetched = latest => p.id \in ids /\ p.id <= id
    BY <1>7, <2>1
  <2>4. p.fetched \in Int /\ p.id \in Int /\ latest \in Int /\ id \in Int
    BY <1>3, <1>4, <1>6, <2>1 DEF MetricRows
  <2> HIDE DEF same, times, last, ids
  <2> QED  BY <1>8, <1>9, <2>2, <2>3, <2>4
<1>11. s \in monthlyMetricRows(rows, period)
  BY <1>1, <1>9, <1>10
<1>12. s.kind = r.kind /\ s.to = r.to
  BY <1>9
<1>13. latest >= r.fetched
  <2>1. r.fetched \in times
    BY <1>3
  <2> QED  BY <1>4, <1>5, <2>1
<1> QED  BY <1>9, <1>11, <1>12, <1>13

LEMMA MonInitInv == MonInit => MonInv
<1> SUFFICES ASSUME MonInit  PROVE MonInv
  OBVIOUS
<1>1. IsFiniteSet({})
  BY FS_EmptySet
<1>2. DataOK(monData)
  BY <1>1, CalendarAssumption
     DEF MonInit, DataOK, IsDatabase, NoPublication, NoTime, JobRows
<1> QED  BY <1>2 DEF MonInit, MonInv, NoReport, ZoneInv

\* Writers keep the shape of the database, whatever the report has read.
LEMMA DataInv ==
  ASSUME MonInv, DataOK(monData'), UNCHANGED <<monZone, monNow, monReport>>
  PROVE  MonInv'
<1>1. monZone' = monZone /\ monNow' = monNow /\ monReport' = monReport
  OBVIOUS
<1>2. FactsInv => FactsInv'
  BY <1>1 DEF FactsInv, PublishedInMonth, OfTheMonth, LocalMonth, localDate
<1>3. monReport.month <= LocalMonth(monReport.asOf) => (monReport.month <= LocalMonth(monReport.asOf))'
  BY <1>1 DEF LocalMonth, localDate
<1> QED  BY <1>1, <1>2, <1>3 DEF MonInv, ZoneInv, DataOK

LEMMA AddRowInv ==
  ASSUME MonInv, NEW kind \in {"REAL", "MOCK"}, NEW fetched \in Int, NEW from \in Int, NEW to \in Int,
         kind = "REAL" => from = NoTime, AddRow(kind, fetched, from, to),
         UNCHANGED <<monZone, monNow, monReport>>
  PROVE  MonInv'
<1> DEFINE rows == monData.rows
           row == [id |-> Cardinality(rows), kind |-> kind, fetched |-> fetched, stored |-> monNow,
                   from |-> from, to |-> to]
<1>1. DataOK(monData) /\ monNow \in Int
  BY DEF MonInv
<1>2. IsFiniteSet(rows) /\ Cardinality(rows) \in Nat
  BY <1>1, FS_CardinalityType DEF DataOK
<1>3. row \in MetricRows /\ row.kind = kind /\ row.from = from /\ row.id \in Int /\ row.fetched \in Int
  BY <1>1, <1>2 DEF MetricRows
<1>4. /\ monData' = [monData EXCEPT !.rows = rows \cup {row}]
  BY DEF AddRow
<1>5. /\ monData'.jobs = monData.jobs /\ monData'.interactions = monData.interactions
      /\ monData'.rows = rows \cup {row}
      /\ IsDatabase(monData')
  BY <1>4 DEF MonInv, DataOK, IsDatabase
<1> HIDE DEF row
<1>6. IsFiniteSet(rows \cup {row})
  BY <1>2, FS_AddElement
<1>7. rows \subseteq MetricRows
  BY <1>1 DEF DataOK
<1>8. \E bound \in Int : \A r \in rows \cup {row} : r.fetched <= bound
  <2>1. PICK b \in Int : \A r \in rows : r.fetched <= b
    BY <1>1 DEF DataOK
  <2>2. PICK c \in Int : b <= c /\ row.fetched <= c
    <3>1. CASE b <= row.fetched
      BY <1>3, <3>1
    <3>2. CASE row.fetched <= b
      BY <1>3, <3>2
    <3> QED  BY <1>3, <3>1, <3>2
  <2>3. \A r \in rows : r.fetched \in Int
    BY <1>7 DEF MetricRows
  <2>4. \A r \in rows \cup {row} : r.fetched <= c
    BY <1>3, <2>1, <2>2, <2>3
  <2> QED  BY <2>4
<1>9. /\ \A r \in rows \cup {row} : r.id < Cardinality(rows \cup {row})
      /\ \A q, r \in rows \cup {row} : q.id = r.id => q = r
  <2>1. \A r \in rows : r.id \in Nat /\ r.id < Cardinality(rows)
    BY <1>1, <1>7 DEF DataOK, MetricRows
  <2>2. row.id = Cardinality(rows)
    BY DEF row
  <2>3. row \notin rows
    BY <1>2, <2>1, <2>2
  <2>4. Cardinality(rows \cup {row}) = Cardinality(rows) + 1
    BY <1>2, <2>3, FS_AddElement
  <2>5. \A q, r \in rows : q.id = r.id => q = r
    BY <1>1 DEF DataOK
  <2> QED  BY <1>2, <2>1, <2>2, <2>4, <2>5
<1>10. DataOK(monData')
  <2>1. \A r \in monData'.rows : r.kind = "REAL" => r.from = NoTime
    BY <1>1, <1>3, <1>5 DEF DataOK
  <2>2. monData'.rows \subseteq MetricRows
    BY <1>3, <1>5, <1>7
  <2> QED  BY <1>1, <1>5, <1>6, <1>8, <1>9, <2>1, <2>2 DEF DataOK
<1> QED  BY <1>5, <1>10, DataInv

LEMMA MonthTicksInv == ASSUME MonInv, MonthTicks PROVE MonInv'
<1>1. /\ monReport.phase = "idle" /\ monNow' = monNow + 1
      /\ monZone' = monZone /\ monData' = monData /\ monReport' = monReport
  BY DEF MonthTicks
<1> QED  BY <1>1 DEF MonInv, ZoneInv, DataOK

LEMMA JobsInv ==
  ASSUME MonInv, NEW j \in Publications, CreateJob(j) \/ JobIsPublished(j)
  PROVE  MonInv'
<1>1. DataOK(monData) /\ monData.jobs \in [Publications -> JobRows] /\ monNow \in Nat
  BY DEF MonInv, DataOK
<1>2. PICK job \in JobRows : monData' = [monData EXCEPT !.jobs = [@ EXCEPT ![j] = job]]
  <2>1. CASE CreateJob(j)
    <3>1. PICK t \in 0 .. monNow : monData' = [monData EXCEPT !.jobs[j].created = t]
      BY <2>1 DEF CreateJob, Stamps
    <3>2. [monData.jobs[j] EXCEPT !.created = t] \in JobRows
      BY <1>1, <3>1 DEF JobRows
    <3> QED  BY <3>1, <3>2
  <2>2. CASE JobIsPublished(j)
    <3>1. PICK t \in 0 .. monNow : monData' = [monData EXCEPT !.jobs[j].published = t]
      BY <2>2 DEF JobIsPublished
    <3>2. [monData.jobs[j] EXCEPT !.published = t] \in JobRows
      BY <1>1, <3>1 DEF JobRows
    <3> QED  BY <3>1, <3>2
  <2> QED  BY <2>1, <2>2
<1>3. /\ monData'.jobs = [monData.jobs EXCEPT ![j] = job]
      /\ monData'.interactions = monData.interactions /\ monData'.rows = monData.rows
      /\ IsDatabase(monData')
  BY <1>2 DEF MonInv, DataOK, IsDatabase
<1>4. [monData.jobs EXCEPT ![j] = job] \in [Publications -> JobRows]
  BY <1>1, <1>2
<1>5. DataOK(monData')
  BY <1>1, <1>3, <1>4 DEF DataOK
<1>6. UNCHANGED <<monZone, monNow, monReport>>
  BY DEF CreateJob, JobIsPublished
<1> QED  BY <1>3, <1>5, <1>6, DataInv

LEMMA InteractionInv == ASSUME MonInv, InteractionIsImported PROVE MonInv'
<1>1. DataOK(monData) /\ monNow \in Nat
  BY DEF MonInv
<1>2. PICK t \in 0 .. monNow : \E occurred \in 0 .. t :
        monData' = [monData EXCEPT !.interactions = @ \cup {[occurred |-> occurred, imported |-> t]}]
  BY DEF InteractionIsImported, Stamps
<1>3. PICK occurred \in 0 .. t :
        monData' = [monData EXCEPT !.interactions = @ \cup {[occurred |-> occurred, imported |-> t]}]
  BY <1>2
<1>4. [occurred |-> occurred, imported |-> t] \in InteractionRows
  BY <1>2, <1>3 DEF InteractionRows
<1>5. /\ monData'.interactions = monData.interactions \cup {[occurred |-> occurred, imported |-> t]}
      /\ monData'.jobs = monData.jobs /\ monData'.rows = monData.rows
      /\ IsDatabase(monData')
  BY <1>3 DEF MonInv, DataOK, IsDatabase
<1>6. DataOK(monData')
  BY <1>1, <1>4, <1>5 DEF DataOK
<1>7. UNCHANGED <<monZone, monNow, monReport>>
  BY DEF InteractionIsImported
<1> QED  BY <1>5, <1>6, <1>7, DataInv

LEMMA MetricsInv ==
  ASSUME MonInv, syncFacebookMetrics \/ createMockMetricSnapshots
  PROVE  MonInv'
<1>1. monNow \in Int /\ NoTime \in Int /\ monNow - DayLength \in Int
  BY CalendarAssumption DEF MonInv, NoTime
<1>2. CASE syncFacebookMetrics
  <2>0. PICK asked \in 0 .. monNow : \E to \in {NoTime, asked} : AddRow("REAL", asked, NoTime, to)
    BY <1>2 DEF syncFacebookMetrics
  <2>1. PICK to \in {NoTime, asked} : AddRow("REAL", asked, NoTime, to)
    BY <2>0
  <2>2. asked \in Int /\ to \in Int
    BY <1>1, <2>1
  <2>3. UNCHANGED <<monZone, monNow, monReport>>
    BY <1>2 DEF syncFacebookMetrics
  <2> QED  BY <1>1, <2>1, <2>2, <2>3, AddRowInv
<1>3. CASE createMockMetricSnapshots
  <2>1. AddRow("MOCK", monNow, monNow - DayLength, monNow) /\ UNCHANGED <<monZone, monNow, monReport>>
    BY <1>3 DEF createMockMetricSnapshots
  <2> QED  BY <1>1, <2>1, AddRowInv
<1> QED  BY <1>2, <1>3

LEMMA ReportInv ==
  ASSUME MonInv,
         \/ \E month \in 0 .. LastInstant : generateMonthlyOperationReport(month)
         \/ FindClient \/ CreateReport
  PROVE  MonInv'
<1>1. monZone' = monZone /\ monNow' = monNow /\ monData' = monData
  BY DEF generateMonthlyOperationReport, FindClient, CreateReport
<1>2. ZoneInv' /\ (monNow \in Nat)' /\ DataOK(monData')
  BY <1>1 DEF MonInv, ZoneInv, DataOK
<1>3. \A t : (LocalMonth(t))' = LocalMonth(t)
  BY <1>1 DEF LocalMonth, localDate
<1>4. ASSUME NEW month \in 0 .. LastInstant, generateMonthlyOperationReport(month)  PROVE MonInv'
  <2>1. /\ month <= LocalMonth(monNow)
        /\ monReport' = [phase |-> "asked", month |-> month, asOf |-> monNow, seen |-> {},
                         read |-> 0, facts |-> {}]
    BY <1>4 DEF generateMonthlyOperationReport, NoReport
  <2>2. (monReport.month <= LocalMonth(monReport.asOf))'
    BY <1>1, <2>1 DEF LocalMonth, localDate
  <2>3. month \in Int /\ monNow \in Int
    BY CalendarAssumption DEF MonInv
  <2> QED  BY <1>2, <2>1, <2>2, <2>3 DEF MonInv
<1>5. CASE FindClient
  <2>1. /\ monReport.phase = "asked" /\ monReport.read = 0
        /\ monReport' = [phase |-> "reading", month |-> monReport.month, asOf |-> monReport.asOf,
                         seen |-> monData, read |-> 0, facts |-> NoFacts]
    BY <1>5 DEF FindClient, MonInv
  <2>2. (monReport.month <= LocalMonth(monReport.asOf))'
    BY <1>1, <2>1 DEF LocalMonth, localDate, MonInv
  <2>3. NoFacts \in FactRows
    BY DEF NoFacts, FactRows
  <2>4. FactsInv'
    BY <2>1, <2>3 DEF FactsInv
  <2>5. DataOK(monReport'.seen)
    BY <1>1, <1>2, <2>1
  <2> QED  BY <1>2, <2>1, <2>2, <2>4, <2>5 DEF MonInv
<1>6. CASE CreateReport
  <2>1. /\ monReport.phase = "reading" /\ monReport.read = 5
        /\ monReport' = [monReport EXCEPT !.phase = "told"]
    BY <1>6 DEF CreateReport, Queries
  <2>2. /\ monReport'.phase = "told" /\ monReport'.read = 5 /\ monReport'.month = monReport.month
        /\ monReport'.asOf = monReport.asOf /\ monReport'.seen = monReport.seen
        /\ monReport'.facts = monReport.facts
        /\ monReport' = [phase |-> monReport'.phase, month |-> monReport'.month, asOf |-> monReport'.asOf,
                         seen |-> monReport'.seen, read |-> monReport'.read, facts |-> monReport'.facts]
    BY <2>1 DEF MonInv
  <2>3. FactsInv'
    BY <1>1, <2>1, <2>2 DEF FactsInv, MonInv, PublishedInMonth, OfTheMonth, LocalMonth, localDate
  <2>4. (monReport.month <= LocalMonth(monReport.asOf))'
    BY <1>1, <2>1, <2>2 DEF LocalMonth, localDate, MonInv
  <2> QED  BY <1>2, <2>1, <2>2, <2>3, <2>4 DEF MonInv, DataOK
<1> QED  BY <1>4, <1>5, <1>6

\* A query's answer: what it adds to the facts, which are of the report's month.
LEMMA BuildInv == ASSUME MonInv, buildMonthlyReviewFactsV1 PROVE MonInv'
<1> DEFINE asOf == monReport.asOf  seen == monReport.seen  n == monReport.read
           period == resolveMonthlyReviewPeriod(monReport.month, asOf)
           new == Answer(Queries[n + 1], seen, monReport)
<1>1. /\ monReport.phase = "reading" /\ n \in 0..4 /\ monReport.month \in Int /\ asOf \in Int
      /\ monReport.month <= LocalMonth(asOf) /\ ZoneInv /\ DataOK(seen) /\ FactsInv
      /\ monReport.facts \in FactRows
  BY DEF MonInv, FactsInv, buildMonthlyReviewFactsV1, Queries
<1>2. /\ monReport' = [monReport EXCEPT !.read = @ + 1, !.facts = new]
      /\ monZone' = monZone /\ monNow' = monNow /\ monData' = monData
  BY DEF buildMonthlyReviewFactsV1, Snapshot
<1>3. \A t \in Int : InWindow(t, period) <=> OfTheMonth(t)
  BY <1>1, WindowIsMonth DEF OfTheMonth
<1>4. monReport.facts = [published |-> monReport.facts.published, cohort |-> monReport.facts.cohort,
                         occurred |-> monReport.facts.occurred, late |-> monReport.facts.late,
                         samples |-> monReport.facts.samples]
  BY <1>1 DEF FactRows
<1>5. /\ Queries[1] = "published" /\ Queries[2] = "cohort" /\ Queries[3] = "occurred"
      /\ Queries[4] = "late" /\ Queries[5] = "metrics"
  BY DEF Queries
<1>6. /\ n = 0 => new = [monReport.facts EXCEPT !.published = publishedQuery(seen, period, asOf)]
      /\ n = 1 => new = [monReport.facts EXCEPT !.cohort = cohortQuery(seen, period)]
      /\ n = 2 => new = [monReport.facts EXCEPT !.occurred = occurredQuery(seen, period, asOf)]
      /\ n = 3 => new = [monReport.facts EXCEPT !.late = lateQuery(seen, period, asOf)]
      /\ n = 4 => new = [monReport.facts EXCEPT !.samples =
                           monthlyMetricRows(metricQuery(seen, period, asOf), period)]
  BY <1>5 DEF Answer
<1> HIDE DEF period, new
<1>7. ASSUME n = 0
      PROVE  new \in FactRows /\ new.published =
               {j \in Publications : LET job == seen.jobs[j]
                  IN  job.published # NoTime /\ OfTheMonth(job.published) /\ job.created <= asOf}
  <2>1. seen.jobs \in [Publications -> JobRows]
    BY <1>1 DEF DataOK
  <2>2. \A j \in Publications :
          InWindow(seen.jobs[j].published, period) <=> OfTheMonth(seen.jobs[j].published)
    BY <1>3, <2>1 DEF JobRows
  <2>3. publishedQuery(seen, period, asOf) =
          {j \in Publications : LET job == seen.jobs[j]
             IN  job.published # NoTime /\ OfTheMonth(job.published) /\ job.created <= asOf}
    BY <2>2 DEF publishedQuery
  <2> QED  BY <1>1, <1>6, <1>7, <2>3 DEF FactRows
<1>8. ASSUME n = 1
      PROVE  /\ new \in FactRows /\ new.published = monReport.facts.published
             /\ \A c \in new.cohort : c.status = "PUBLISHED" <=> seen.jobs[c.job].published # NoTime
  <2>1. \A c \in cohortQuery(seen, period) :
          /\ c \in CohortRows
          /\ c.status = "PUBLISHED" <=> seen.jobs[c.job].published # NoTime
    BY DEF cohortQuery, CohortRows
  <2>2. new.cohort = cohortQuery(seen, period) /\ new.published = monReport.facts.published
    BY <1>4, <1>6, <1>8
  <2> QED  BY <1>1, <1>6, <1>8, <2>1, <2>2 DEF FactRows
<1>9. ASSUME n = 2
      PROVE  /\ new \in FactRows /\ new.published = monReport.facts.published
             /\ new.cohort = monReport.facts.cohort
             /\ new.occurred = {i \in seen.interactions : OfTheMonth(i.occurred) /\ i.imported <= asOf}
  <2>1. \A i \in seen.interactions :
          i \in InteractionRows /\ (InWindow(i.occurred, period) <=> OfTheMonth(i.occurred))
    BY <1>1, <1>3 DEF DataOK, InteractionRows
  <2>2. occurredQuery(seen, period, asOf) =
          {i \in seen.interactions : OfTheMonth(i.occurred) /\ i.imported <= asOf}
    BY <2>1 DEF occurredQuery
  <2>3. occurredQuery(seen, period, asOf) \subseteq InteractionRows
    BY <2>1, <2>2
  <2> QED  BY <1>1, <1>6, <1>9, <2>2, <2>3 DEF FactRows
<1>10. ASSUME n = 3
       PROVE  /\ new \in FactRows /\ new.published = monReport.facts.published
              /\ new.cohort = monReport.facts.cohort /\ new.occurred = monReport.facts.occurred
              /\ new.late \subseteq new.occurred
  <2>1. \A i \in seen.interactions :
          i \in InteractionRows /\ (InWindow(i.occurred, period) <=> OfTheMonth(i.occurred))
    BY <1>1, <1>3 DEF DataOK, InteractionRows
  <2>2. lateQuery(seen, period, asOf) \subseteq
          {i \in seen.interactions : OfTheMonth(i.occurred) /\ i.imported <= asOf}
    BY <2>1 DEF lateQuery
  <2>3. monReport.facts.occurred =
          {i \in seen.interactions : OfTheMonth(i.occurred) /\ i.imported <= asOf}
    BY <1>1, <1>10 DEF FactsInv
  <2>4. lateQuery(seen, period, asOf) \subseteq InteractionRows
    BY <2>1, <2>2
  <2> QED  BY <1>1, <1>6, <1>10, <2>2, <2>3, <2>4 DEF FactRows
<1>11. ASSUME n = 4
       PROVE  /\ new \in FactRows /\ new.published = monReport.facts.published
              /\ new.cohort = monReport.facts.cohort /\ new.occurred = monReport.facts.occurred
              /\ new.late = monReport.facts.late
              /\ \A r \in seen.rows : (r.kind = "REAL" /\ r.stored <= asOf /\ OfTheMonth(r.fetched)) =>
                   \E s \in new.samples : s.kind = "REAL" /\ s.to = r.to /\ s.fetched >= r.fetched
              /\ \A q, s \in new.samples : q.kind = s.kind /\ q.from = s.from /\ q.to = s.to => q = s
  <2> DEFINE asked == metricQuery(seen, period, asOf)
  <2>1. asked \subseteq seen.rows /\ seen.rows \subseteq MetricRows
    BY <1>1 DEF metricQuery, DataOK
  <2>2. monthlyMetricRows(asked, period) \subseteq asked
    BY DEF monthlyMetricRows
  <2>3. ASSUME NEW r \in seen.rows, r.kind = "REAL", r.stored <= asOf, OfTheMonth(r.fetched)
        PROVE  \E s \in monthlyMetricRows(asked, period) :
                 s.kind = "REAL" /\ s.to = r.to /\ s.fetched >= r.fetched
    <3>1. r.from = NoTime /\ r.fetched \in Int
      BY <1>1, <2>1, <2>3 DEF DataOK, MetricRows
    <3>2. InWindow(r.fetched, period) /\ r.fetched <= asOf
      BY <1>1, <1>3, <2>3, <3>1 DEF OfTheMonth
    <3>3. r \in asked
      BY <2>3, <3>1, <3>2 DEF metricQuery
    <3>4. /\ \E bound \in Int : \A q \in asked : q.fetched <= bound
          /\ \E bound \in Int : \A q \in asked : q.id <= bound
      <4>1. Cardinality(seen.rows) \in Int
        BY <1>1, FS_CardinalityType DEF DataOK
      <4>2. \A q \in seen.rows : q.id <= Cardinality(seen.rows)
        BY <1>1, <2>1, <4>1 DEF DataOK, MetricRows
      <4> QED  BY <1>1, <2>1, <4>1, <4>2 DEF DataOK
    <3> HIDE DEF asked
    <3>5. asked \subseteq MetricRows
      BY <2>1
    <3> QED  BY <2>3, <3>1, <3>2, <3>3, <3>4, <3>5, LatestStays
  <2>4. new = [monReport.facts EXCEPT !.samples = monthlyMetricRows(asked, period)]
    BY <1>6, <1>11
  <2>6. ASSUME NEW q \in monthlyMetricRows(asked, period), NEW s \in monthlyMetricRows(asked, period),
               q.kind = s.kind, q.from = s.from, q.to = s.to
        PROVE  q = s
    <3>1. q \in MetricRows /\ s \in MetricRows /\ q \in seen.rows /\ s \in seen.rows
      BY <2>1, <2>2
    <3>2. ~(q.fetched > s.fetched \/ (q.fetched = s.fetched /\ q.id > s.id))
      BY <2>6 DEF monthlyMetricRows
    <3>3. ~(s.fetched > q.fetched \/ (s.fetched = q.fetched /\ s.id > q.id))
      BY <2>6 DEF monthlyMetricRows
    <3>4. q.id = s.id
      BY <3>1, <3>2, <3>3 DEF MetricRows
    <3> QED  BY <1>1, <3>1, <3>4 DEF DataOK
  <2> HIDE DEF asked
  <2>5. monthlyMetricRows(asked, period) \subseteq MetricRows
    BY <2>1, <2>2
  <2> QED  BY <1>1, <2>3, <2>4, <2>5, <2>6 DEF FactRows
<1>12. /\ monReport'.phase = "reading" /\ monReport'.read = n + 1 /\ monReport'.month = monReport.month
       /\ monReport'.asOf = asOf /\ monReport'.seen = seen /\ monReport'.facts = new
       /\ monReport' = [phase |-> monReport'.phase, month |-> monReport'.month, asOf |-> monReport'.asOf,
                        seen |-> monReport'.seen, read |-> monReport'.read, facts |-> monReport'.facts]
  BY <1>1, <1>2 DEF MonInv
<1>13. FactsInv'
  <2>1. n = 0 \/ n = 1 \/ n = 2 \/ n = 3 \/ n = 4
    BY <1>1
  <2>2. \A t : (LocalMonth(t))' = LocalMonth(t)
    BY <1>2 DEF LocalMonth, localDate
  <2>3. CASE n = 0
    BY <1>2, <1>7, <1>12, <2>3 DEF FactsInv, PublishedInMonth, OfTheMonth, LocalMonth, localDate
  <2>4. CASE n = 1
    BY <1>1, <1>2, <1>8, <1>12, <2>4 DEF FactsInv, PublishedInMonth, OfTheMonth, LocalMonth, localDate
  <2>5. CASE n = 2
    BY <1>1, <1>2, <1>9, <1>12, <2>5 DEF FactsInv, PublishedInMonth, OfTheMonth, LocalMonth, localDate
  <2>6. CASE n = 3
    BY <1>1, <1>2, <1>10, <1>12, <2>6 DEF FactsInv, PublishedInMonth, OfTheMonth, LocalMonth, localDate
  <2>7. CASE n = 4
    BY <1>1, <1>2, <1>11, <1>12, <2>7 DEF FactsInv, PublishedInMonth, OfTheMonth, LocalMonth, localDate
  <2> QED  BY <2>1, <2>3, <2>4, <2>5, <2>6, <2>7
<1>14. (monReport.month <= LocalMonth(monReport.asOf))'
  BY <1>1, <1>2, <1>12 DEF LocalMonth, localDate
<1>15. ZoneInv' /\ monNow' \in Nat /\ DataOK(monData') /\ DataOK(seen)
  BY <1>1, <1>2 DEF MonInv, ZoneInv
<1>16. monReport'.read \in 0..5
  BY <1>1, <1>12
<1> QED  BY <1>1, <1>12, <1>13, <1>14, <1>15, <1>16 DEF MonInv, DataOK

LEMMA MonNextInv == ASSUME MonInv, [MonNext]_monVars PROVE MonInv'
<1>1. CASE UNCHANGED monVars
  <2>1. UNCHANGED <<monZone, monNow, monReport>> /\ monData' = monData
    BY <1>1 DEF monVars
  <2>2. DataOK(monData')
    BY <2>1 DEF MonInv
  <2> QED  BY <2>1, <2>2, DataInv
<1> QED  BY <1>1, MonthTicksInv, JobsInv, InteractionInv, MetricsInv, ReportInv, BuildInv DEF MonNext

\* What a report tells is of the month of the client's calendar and of one moment, whatever is
\* written while its queries run, and the latest sample of each metric is in it, once
\* (generateMonthlyOperationReport, resolveMonthlyReviewPeriod, monthlyMetricRows).
THEOREM ReportsAreSound == MonSpec => []ReportIsSound
<1>1. MonInv => ReportIsSound
  <2> SUFFICES ASSUME MonInv, Told  PROVE ReportIsSound
    BY DEF ReportIsSound
  <2>1. FactsInv /\ monReport.read = 5
    BY DEF MonInv, Told
  <2>2. PublishedInMonth
    BY <2>1 DEF FactsInv
  <2>3. NumbersAgree
    <3>1. \A c \in monReport.facts.cohort : c.job \in monReport.facts.published => c.status = "PUBLISHED"
      BY <2>1, <2>2 DEF FactsInv, PublishedInMonth
    <3> QED  BY <2>1, <3>1 DEF FactsInv, NumbersAgree
  <2>4. SamplesAreLatest
    BY <2>1 DEF FactsInv, SamplesAreLatest
  <2> QED  BY <2>2, <2>3, <2>4 DEF ReportIsSound
<1> QED  BY <1>1, MonInitInv, MonNextInv, PTL DEF MonSpec

-----------------------------------------------------------------------------
(* The numbers of the analytics *)

RawKeys == {"page_impressions", "post_comments_total", "post_reactions_total", "post_engagement",
            "impressions", "qualified_leads"}

SnapshotRows ==
  [raw : RawKeys, value : Nat \cup {NoValue}, availability : {"AVAILABLE", "NOT_FETCHED"} \cup Unavailable,
   from : Int, to : Int, id : Nat, account : AnaAccounts, post : {ThePost, NoPost},
   kind : {"REAL", "MOCK"}, fetched : Nat]

\* Rows a query may be given: an id is of one row.
MetricRowsOK(rows) ==
  rows \subseteq SnapshotRows /\ IsFiniteSet(rows) /\ \A q, r \in rows : q.id = r.id => q = r

\* No row is of the future; one that has a value was available, and who may not read a metric
\* may not read one the pages know.
AnaInv ==
  /\ anaTime \in Nat /\ anaSyncs \in Nat
  /\ MetricRowsOK(anaRows)
  /\ \A r \in anaRows :
       /\ r.fetched <= anaTime /\ r.id <= 2 * anaSyncs
       /\ r.value # NoValue => r.availability = "AVAILABLE"
       /\ r.availability = "PERMISSION_DENIED" => canonicalizeMetricKey(r.raw) # NoKey

LEMMA SomeRowsOK ==
  ASSUME NEW rows, MetricRowsOK(rows), NEW some \in SUBSET rows  PROVE MetricRowsOK(some)
BY FS_Subset DEF MetricRowsOK

\* Rows come one after the other.
LEMMA PrecedesIsOrder ==
  ASSUME NEW rows, MetricRowsOK(rows), NEW tie, NEW p \in rows, NEW q \in rows, NEW r \in rows
  PROVE  /\ ~Precedes(p, p, tie)
         /\ Precedes(p, q, tie) /\ Precedes(q, r, tie) => Precedes(p, r, tie)
         /\ p = q \/ Precedes(p, q, tie) \/ Precedes(q, p, tie)
         /\ Precedes(p, q, tie) => p.fetched >= q.fetched
         /\ p.fetched > q.fetched => Precedes(p, q, tie)
<1>1. /\ p.id \in Nat /\ q.id \in Nat /\ r.id \in Nat
      /\ p.fetched \in Nat /\ q.fetched \in Nat /\ r.fetched \in Nat
      /\ p.id = q.id => p = q
  BY DEF MetricRowsOK, SnapshotRows
<1>2. PICK pi \in Nat, qi \in Nat, ri \in Nat, pf \in Nat, qf \in Nat, rf \in Nat :
        /\ pi = p.id /\ qi = q.id /\ ri = r.id
        /\ pf = p.fetched /\ qf = q.fetched /\ rf = r.fetched
  BY <1>1
<1>3. CASE tie = "newer first"
  <2>1. /\ Precedes(p, p, tie) <=> pf > pf \/ (pf = pf /\ pi > pi)
        /\ Precedes(p, q, tie) <=> pf > qf \/ (pf = qf /\ pi > qi)
        /\ Precedes(q, p, tie) <=> qf > pf \/ (qf = pf /\ qi > pi)
        /\ Precedes(q, r, tie) <=> qf > rf \/ (qf = rf /\ qi > ri)
        /\ Precedes(p, r, tie) <=> pf > rf \/ (pf = rf /\ pi > ri)
    BY <1>2, <1>3, Zenon DEF Precedes
  <2> QED  BY <1>1, <1>2, <2>1
<1>4. CASE tie # "newer first"
  <2>1. /\ Precedes(p, p, tie) <=> pf > pf \/ (pf = pf /\ pi < pi)
        /\ Precedes(p, q, tie) <=> pf > qf \/ (pf = qf /\ pi < qi)
        /\ Precedes(q, p, tie) <=> qf > pf \/ (qf = pf /\ qi < pi)
        /\ Precedes(q, r, tie) <=> qf > rf \/ (qf = rf /\ qi < ri)
        /\ Precedes(p, r, tie) <=> pf > rf \/ (pf = rf /\ pi < ri)
    BY <1>2, <1>4, Zenon DEF Precedes
  <2> QED  BY <1>1, <1>2, <2>1
<1> QED  BY <1>3, <1>4

\* The place of a row is the number of those before it.
LEMMA PlacesAreInOrder ==
  ASSUME NEW rows, MetricRowsOK(rows), NEW tie, NEW q \in rows, NEW r \in rows
  PROVE  /\ Cardinality(rows) \in Nat
         /\ Place(q, rows, tie) \in 0..(Cardinality(rows) - 1)
         /\ Precedes(q, r, tie) <=> Place(q, rows, tie) < Place(r, rows, tie)
         /\ Place(q, rows, tie) = Place(r, rows, tie) => q = r
<1> DEFINE before(x) == {p \in rows : Precedes(p, x, tie)}
<1>1. IsFiniteSet(rows) /\ Cardinality(rows) \in Nat
  BY FS_CardinalityType DEF MetricRowsOK
<1>2. ASSUME NEW x \in rows
      PROVE  /\ IsFiniteSet(before(x)) /\ Cardinality(before(x)) \in Nat
             /\ Cardinality(before(x)) <= Cardinality(rows) - 1
  <2>1. before(x) \in SUBSET (rows \ {x})
    BY PrecedesIsOrder
  <2>2. IsFiniteSet(rows \ {x}) /\ Cardinality(rows \ {x}) = Cardinality(rows) - 1
    BY <1>1, FS_RemoveElement
  <2> HIDE DEF before
  <2> QED  BY <2>1, <2>2, FS_Subset, FS_CardinalityType
<1>3. ASSUME NEW x \in rows, NEW y \in rows, Precedes(x, y, tie)
      PROVE  Cardinality(before(x)) < Cardinality(before(y))
  <2>1. before(x) \in SUBSET before(y)
    BY <1>3, PrecedesIsOrder
  <2>2. x \in before(y) /\ x \notin before(x)
    BY <1>3, PrecedesIsOrder
  <2>3. before(x) # before(y)
    BY <2>2
  <2> HIDE DEF before
  <2>4. Cardinality(before(x)) <= Cardinality(before(y)) /\ Cardinality(before(x)) # Cardinality(before(y))
    BY <1>2, <2>1, <2>3, FS_Subset
  <2> QED  BY <1>2, <2>4
<1>4. \A x \in rows : Place(x, rows, tie) = Cardinality(before(x))
  BY DEF Place
<1> HIDE DEF before
<1>5. q = r \/ Precedes(q, r, tie) \/ Precedes(r, q, tie)
  BY PrecedesIsOrder
<1>6. ~Precedes(q, q, tie)
  BY PrecedesIsOrder
<1>7. /\ Cardinality(before(q)) \in Nat /\ Cardinality(before(r)) \in Nat
      /\ Precedes(q, r, tie) => Cardinality(before(q)) < Cardinality(before(r))
      /\ Precedes(r, q, tie) => Cardinality(before(r)) < Cardinality(before(q))
      /\ Cardinality(before(q)) <= Cardinality(rows) - 1
  BY <1>2, <1>3
<1> QED  BY <1>1, <1>4, <1>5, <1>6, <1>7

\* Every place is a row's.
LEMMA OrderedInOrder ==
  ASSUME NEW rows, MetricRowsOK(rows), NEW tie, NEW n \in 1..Cardinality(rows)
  PROVE  Ordered(rows, tie)[n] \in rows /\ Place(Ordered(rows, tie)[n], rows, tie) = n - 1
<1> DEFINE size == Cardinality(rows)
           place == [r \in rows |-> Place(r, rows, tie)]
<1>1. IsFiniteSet(rows) /\ size \in Nat
  BY FS_CardinalityType DEF MetricRowsOK
<1>2. place \in Injection(rows, 0..(size - 1))
  BY PlacesAreInOrder DEF Injection, IsInjective
<1>3. IsFiniteSet(0..(size - 1)) /\ Cardinality(0..(size - 1)) = size
  <2> HIDE DEF size
  <2>1. 0 \in Int /\ size - 1 \in Int
    BY <1>1
  <2>2. /\ IsFiniteSet(0..(size - 1))
        /\ Cardinality(0..(size - 1)) = IF 0 > size - 1 THEN 0 ELSE size - 1 - 0 + 1
    BY <2>1, FS_Interval, Zenon
  <2> QED  BY <1>1, <2>2
<1> HIDE DEF place
<1>4. place \in Surjection(rows, 0..(size - 1))
  BY <1>1, <1>2, <1>3, FS_Injection
<1>5. n - 1 \in 0..(size - 1)
  BY <1>1
<1>6. PICK holder \in rows : place[holder] = n - 1
  BY <1>4, <1>5 DEF Surjection
<1>7. \E r \in rows : Place(r, rows, tie) = n - 1
  BY <1>6 DEF place
<1>8. Ordered(rows, tie)[n] = CHOOSE r \in rows : Place(r, rows, tie) = n - 1
  BY DEF Ordered
<1> QED  BY <1>7, <1>8, Zenon

\* Of the rows of a key one is the first.
LEMMA FirstOfKey ==
  ASSUME NEW rows, MetricRowsOK(rows), NEW tie, NEW key, NEW r \in rows
  PROVE  \E f \in rows : /\ key[f] = key[r] /\ (f = r \/ Precedes(f, r, tie))
                         /\ \A q \in rows : key[q] = key[f] => ~Precedes(q, f, tie)
<1> DEFINE same == {q \in rows : key[q] = key[r]}
           places == {Place(q, rows, tie) : q \in same}
<1>1. places \in SUBSET Nat /\ places # {}
  BY PlacesAreInOrder
<1>2. PICK n \in places : \A m \in places : n <= m
  BY <1>1, LeastOf
<1>3. PICK f \in same : n = Place(f, rows, tie)
  BY <1>2
<1>4. ASSUME NEW q \in rows, key[q] = key[f]  PROVE ~Precedes(q, f, tie)
  <2>1. Place(q, rows, tie) \in places
    BY <1>3, <1>4
  <2>2. Place(q, rows, tie) \in Nat /\ n \in Nat /\ n <= Place(q, rows, tie)
    <3> HIDE DEF places
    <3> QED  BY <1>1, <1>2, <2>1
  <2> QED  BY <1>3, <2>2, PlacesAreInOrder
<1>5. f = r \/ Precedes(f, r, tie)
  <2>1. ~Precedes(r, f, tie)
    BY <1>3, <1>4
  <2> QED  BY <1>3, <2>1, PrecedesIsOrder
<1> QED  BY <1>3, <1>4, <1>5

\* The loop keeps the first row of every key: that is a function the loop's recursion defines,
\* and by the least-number principle on the rows read there is no other.
LEMMA LatestIsFirst ==
  ASSUME NEW rows, MetricRowsOK(rows), NEW tie, NEW key
  PROVE  LatestBy(key, rows, tie) =
           {r \in rows : \A q \in rows : key[q] = key[r] => ~Precedes(q, r, tie)}
<1> DEFINE size == Cardinality(rows)
           row == Ordered(rows, tie)
           next(before, r) ==
             IF \E k \in before : key[k] = key[r] /\ k.fetched >= r.fetched THEN before
             ELSE {k \in before : key[k] # key[r]} \cup {r}
           step(f, n) == IF n = 0 THEN {} ELSE next(f[n - 1], row[n])
           steps(f) == [n \in 0..size |-> step(f, n)]
           kept == CHOOSE f : f = steps(f)
           first(r) == \A q \in rows : key[q] = key[r] => ~Precedes(q, r, tie)
           firsts == [n \in 0..size |-> {r \in rows : Place(r, rows, tie) < n /\ first(r)}]
<1>1. LatestBy(key, rows, tie) = kept[size]
  BY DEF LatestBy
<1>2. size \in Nat
  BY FS_CardinalityType DEF MetricRowsOK
<1>3. ASSUME NEW n \in 0..size, n # 0
      PROVE  row[n] \in rows /\ Place(row[n], rows, tie) = n - 1 /\ n - 1 \in 0..size
  <2>1. n \in 1..size
    BY <1>2, <1>3
  <2> QED  BY <1>2, <2>1, OrderedInOrder
<1>4. \A n \in 0..size : firsts[n] = {r \in rows : Place(r, rows, tie) < n /\ first(r)}
  OBVIOUS
<1>5. ASSUME NEW f  PROVE \A n \in 0..size : steps(f)[n] = step(f, n)
  BY Zenon
<1> HIDE DEF row, size, firsts
<1>6. ASSUME NEW n \in 0..size, n # 0  PROVE firsts[n] = next(firsts[n - 1], row[n])
  <2> DEFINE r == row[n]  before == firsts[n - 1]
  <2>1. /\ r \in rows /\ Place(r, rows, tie) = n - 1 /\ n - 1 \in 0..size /\ n \in Nat
        /\ before = {k \in rows : Place(k, rows, tie) < n - 1 /\ first(k)}
    BY <1>2, <1>3, <1>4, <1>6
  <2>2. firsts[n] = IF first(r) THEN before \cup {r} ELSE before
    <3>1. ASSUME NEW k \in rows
          PROVE  Place(k, rows, tie) < n <=> Place(k, rows, tie) < n - 1 \/ k = r
      BY <2>1, PlacesAreInOrder
    <3> HIDE DEF first
    <3> QED  BY <1>4, <2>1, <3>1
  <2>3. ASSUME NEW k \in before  PROVE k.fetched >= r.fetched /\ Precedes(k, r, tie)
    BY <2>1, PlacesAreInOrder, PrecedesIsOrder
  <2>4. CASE first(r)
    <3>1. \A k \in before : key[k] # key[r]
      BY <2>1, <2>3, <2>4
    <3>2. before \cup {r} = {k \in before : key[k] # key[r]} \cup {r}
      BY <3>1
    <3>3. ~ \E k \in before : key[k] = key[r] /\ k.fetched >= r.fetched
      BY <3>1
    <3> QED  BY <2>2, <2>4, <3>2, <3>3
  <2>5. CASE ~first(r)
    <3>1. PICK k \in rows : key[k] = key[r] /\ (k = r \/ Precedes(k, r, tie)) /\ first(k)
      BY <2>1, FirstOfKey
    <3>2. Precedes(k, r, tie)
      BY <2>5, <3>1
    <3>3. Place(k, rows, tie) < n - 1
      BY <2>1, <3>2, PlacesAreInOrder
    <3>4. k \in before
      BY <2>1, <3>1, <3>3
    <3> QED  BY <2>2, <2>3, <2>5, <3>1, <3>4
  <2> QED  BY <2>4, <2>5
<1> HIDE DEF next, first
<1>7. firsts[0] = {}
  <2>1. 0 \in 0..size /\ \A r \in rows : ~(Place(r, rows, tie) < 0)
    BY <1>2, PlacesAreInOrder
  <2> QED  BY <1>4, <2>1
<1>8. firsts = steps(firsts)
  <2>1. \A n \in 0..size : firsts[n] = step(firsts, n)
    BY <1>6, <1>7
  <2>2. firsts = [n \in 0..size |-> firsts[n]]
    BY DEF firsts
  <2> HIDE DEF step
  <2> QED  BY <2>1, <2>2
<1> HIDE DEF steps
<1>9. kept = steps(kept)
  BY <1>8, Zenon
<1> HIDE DEF kept
<1>10. \A n \in 0..size : kept[n] = firsts[n]
  <2> DEFINE wrong == {n \in 0..size : kept[n] # firsts[n]}
  <2>1. SUFFICES ASSUME wrong # {}  PROVE FALSE
    OBVIOUS
  <2>2. PICK n \in wrong : \A m \in wrong : n <= m
    <3>1. wrong \in SUBSET Nat
      BY <1>2
    <3> HIDE DEF wrong
    <3> QED  BY <2>1, <3>1, LeastOf
  <2>3. n \in 0..size /\ kept[n] # firsts[n]
    BY <2>2
  <2>4. kept[n] = step(kept, n)
    BY <1>5, <1>9, <2>3
  <2>5. n # 0
    BY <1>7, <2>3, <2>4
  <2>6. n - 1 \in 0..size /\ ~(n <= n - 1)
    BY <1>2, <2>3, <2>5
  <2>7. kept[n - 1] = firsts[n - 1]
    <3>1. n - 1 \notin wrong
      <4> HIDE DEF wrong
      <4> QED  BY <2>2, <2>6
    <3> QED  BY <2>6, <3>1
  <2> QED  BY <1>6, <2>3, <2>4, <2>5, <2>7
<1>11. \A r \in rows : Place(r, rows, tie) < size
  BY <1>2, PlacesAreInOrder DEF size
<1>12. size \in 0..size
  BY <1>2
<1>13. LatestBy(key, rows, tie) = {r \in rows : first(r)}
  BY <1>1, <1>4, <1>10, <1>11, <1>12
<1> QED  BY <1>13 DEF first

\* What is summed is one of the newest rows of every interval.
LEMMA SumIsOfNewest ==
  ASSUME NEW samples, MetricRowsOK(samples), NEW tie
  PROVE  sumDeduplicatedSamples(samples, tie) \in SumsOf(samples)
<1> DEFINE key == [r \in samples |-> Interval(r)]
           latest == LatestBy(key, samples, tie)
<1>1. CASE samples = {}
  BY <1>1 DEF sumDeduplicatedSamples, SumsOf
<1>2. CASE samples # {}
  <2>1. \A r \in samples : key[r] = Interval(r)
    OBVIOUS
  <2>2. sumDeduplicatedSamples(samples, tie) = Total(latest)
    BY <1>2 DEF sumDeduplicatedSamples
  <2> HIDE DEF key
  <2>3. latest = {r \in samples : \A q \in samples : key[q] = key[r] => ~Precedes(q, r, tie)}
    BY LatestIsFirst
  <2> HIDE DEF latest
  <2>4. ASSUME NEW r \in samples  PROVE \E s \in latest : Interval(s) = Interval(r)
    <3>1. PICK f \in samples : /\ key[f] = key[r]
                               /\ \A q \in samples : key[q] = key[f] => ~Precedes(q, f, tie)
      BY FirstOfKey
    <3> QED  BY <2>1, <2>3, <3>1
  <2>5. \A s, t \in latest : Interval(s) = Interval(t) => s = t
    BY <2>1, <2>3, PrecedesIsOrder
  <2>6. ASSUME NEW s \in latest, NEW r \in samples, Interval(r) = Interval(s)
        PROVE  r.fetched <= s.fetched
    <3>1. ~Precedes(r, s, tie) /\ s \in samples
      BY <2>1, <2>3, <2>6
    <3>2. ~(r.fetched > s.fetched)
      BY <3>1, PrecedesIsOrder
    <3>3. r.fetched \in Nat /\ s.fetched \in Nat
      BY <3>1 DEF MetricRowsOK, SnapshotRows
    <3> QED  BY <3>2, <3>3
  <2>7. latest \in SUBSET samples
    BY <2>3
  <2> QED  BY <1>2, <2>2, <2>4, <2>5, <2>6, <2>7 DEF SumsOf
<1> QED  BY <1>1, <1>2

\* The bounds of a period are those of its instants.
LEMMA BoundsOfPeriods ==
  ASSUME NEW now \in Nat, NEW grain \in DOMAIN GrainLength, NEW t \in Nat
  PROVE  LET bounds == periodBounds(now, grain)
             period(i) == i \div GrainLength[grain]
         IN  /\ bounds.current <= t /\ t < bounds.end <=> period(t) = period(now)
             /\ bounds.previous <= t /\ t < bounds.current <=> period(t) = period(now) - 1
             /\ bounds.previous \in Int /\ bounds.current \in Int /\ bounds.end \in Int
             /\ bounds.previous <= bounds.current /\ bounds.current <= bounds.end
<1>1. PICK length \in Nat \ {0} : length = GrainLength[grain]
  BY AnalyticsAssumption
<1>2. PICK n \in Int : n = now \div length /\ now - (now % length) = length * n
  <2>1. now \div length \in Int /\ now - (now % length) = length * (now \div length)
    OBVIOUS
  <2> QED  BY <2>1
<1>3. /\ periodBounds(now, grain).previous = length * n - length
      /\ periodBounds(now, grain).current = length * n
      /\ periodBounds(now, grain).end = length * n + length
  BY <1>1, <1>2 DEF periodBounds
<1>4. length * (n - 1) = length * n - length /\ length * (n + 1) = length * n + length
  OBVIOUS
<1>5. PICK start \in Int : start = length * n
  OBVIOUS
<1>6. PICK m \in Int : m = t \div length
  BY DivBelow
<1>7. /\ m < n <=> t < start
      /\ m < n + 1 <=> t < start + length
      /\ m < n - 1 <=> t < start - length
  <2>1. n + 1 \in Int /\ n - 1 \in Int
    OBVIOUS
  <2>2. /\ t \div length < n <=> t < length * n
        /\ t \div length < n + 1 <=> t < length * (n + 1)
        /\ t \div length < n - 1 <=> t < length * (n - 1)
    BY <2>1, DivBelow
  <2> QED  BY <1>4, <1>5, <1>6, <2>2
<1>8. /\ start <= t /\ t < start + length <=> m = n
      /\ start - length <= t /\ t < start <=> m = n - 1
  BY <1>7
<1>9. start - length \in Int /\ start + length \in Int /\ start - length <= start /\ start <= start + length
  OBVIOUS
<1> QED  BY <1>1, <1>2, <1>3, <1>5, <1>6, <1>8, <1>9

\* The overview's numbers, of any rows that syncs have left.
LEMMA OverviewIsOfRead ==
  ASSUME AnaInv, NEW grain \in DOMAIN GrainLength, NEW tie
  PROVE  OverviewAddsUp(getAnalyticsOverview(grain, tie).metrics, grain)
<1> DEFINE bounds == periodBounds(anaTime, grain)
           rows == During(anaRows, bounds.previous, bounds.end)
           metrics == aggregateMetricSnapshots(rows, bounds, tie)
           period(t) == t \div GrainLength[grain]
           read(d, ago) == {r \in anaRows : /\ dimensionKey(r) = d /\ r.value # NoValue
                                           /\ period(r.fetched) = period(anaTime) - ago}
           ofIt(d) == {r \in rows : dimensionKey(r) = d}
           seen(d) == {r \in ofIt(d) : WasRead(r)}
           dimensions == {dimensionKey(r) : r \in {q \in rows : canonicalizeMetricKey(q.raw) # NoKey}}
<1>1. getAnalyticsOverview(grain, tie).metrics = metrics
  BY DEF getAnalyticsOverview
<1>2. /\ DOMAIN metrics = dimensions
      /\ \A d \in dimensions :
           /\ metrics[d].current = sumDeduplicatedSamples(During(seen(d), bounds.current, bounds.end), tie)
           /\ metrics[d].previous =
                sumDeduplicatedSamples(During(seen(d), bounds.previous, bounds.current), tie)
           /\ metrics[d].kinds = {r.kind : r \in ofIt(d)}
  BY DEF aggregateMetricSnapshots
<1> HIDE DEF metrics
<1>3. ASSUME NEW r \in anaRows
      PROVE  /\ bounds.current <= r.fetched /\ r.fetched < bounds.end
                  <=> period(r.fetched) = period(anaTime)
             /\ bounds.previous <= r.fetched /\ r.fetched < bounds.current
                  <=> period(r.fetched) = period(anaTime) - 1
             /\ r.fetched \in Nat
  <2>1. r.fetched \in Nat /\ anaTime \in Nat
    BY DEF AnaInv, MetricRowsOK, SnapshotRows
  <2> QED  BY <2>1, BoundsOfPeriods
<1>4. /\ bounds.previous \in Int /\ bounds.current \in Int /\ bounds.end \in Int
      /\ bounds.previous <= bounds.current /\ bounds.current <= bounds.end
  <2>1. anaTime \in Nat
    BY DEF AnaInv
  <2> QED  BY <2>1, BoundsOfPeriods
<1>5. \A r \in anaRows : r.value # NoValue => r.availability = "AVAILABLE"
  BY DEF AnaInv
<1>6. period(anaTime) \in Int /\ period(anaTime) - 0 = period(anaTime)
  BY DivBelow, AnalyticsAssumption DEF AnaInv
<1> HIDE DEF bounds, period
<1>7. ASSUME NEW d
      PROVE  /\ read(d, 0) = During(seen(d), bounds.current, bounds.end)
             /\ read(d, 1) = During(seen(d), bounds.previous, bounds.current)
             /\ read(d, 0) \cup read(d, 1) \subseteq ofIt(d)
  <2>1. ASSUME NEW r \in anaRows, bounds.previous <= r.fetched, r.fetched < bounds.end
        PROVE  r \in rows
    BY <2>1 DEF During
  <2>2. ASSUME NEW r \in anaRows
        PROVE  /\ bounds.current <= r.fetched /\ r.fetched < bounds.end => r \in rows
               /\ bounds.previous <= r.fetched /\ r.fetched < bounds.current => r \in rows
    BY <1>3, <1>4, <2>1
  <2>3. rows \subseteq anaRows
    BY DEF During
  <2> HIDE DEF rows
  <2>4. ASSUME NEW r \in anaRows
        PROVE  /\ r \in read(d, 0) <=> r \in During(seen(d), bounds.current, bounds.end)
               /\ r \in read(d, 1) <=> r \in During(seen(d), bounds.previous, bounds.current)
    BY <1>3, <1>5, <1>6, <2>2 DEF During, WasRead
  <2>5. /\ read(d, 0) \subseteq anaRows /\ read(d, 1) \subseteq anaRows
        /\ During(seen(d), bounds.current, bounds.end) \subseteq anaRows \cap ofIt(d)
        /\ During(seen(d), bounds.previous, bounds.current) \subseteq anaRows \cap ofIt(d)
    BY <2>3 DEF During
  <2> HIDE DEF read, seen, ofIt
  <2> QED  BY <2>4, <2>5
<1>8. MetricRowsOK(anaRows) /\ rows \subseteq anaRows
  BY DEF AnaInv, During
<1>9. ASSUME NEW d, d[1] # NoKey
      PROVE  IF d \notin DOMAIN metrics THEN read(d, 0) \cup read(d, 1) = {}
             ELSE /\ metrics[d].current \in SumsOf(read(d, 0))
                  /\ metrics[d].previous \in SumsOf(read(d, 1))
                  /\ \A r \in read(d, 0) \cup read(d, 1) : r.kind \in metrics[d].kinds
  <2>1. CASE d \notin DOMAIN metrics
    <3>1. ASSUME NEW r \in ofIt(d)  PROVE FALSE
      <4>1. r \in rows /\ dimensionKey(r) = d
        OBVIOUS
      <4>2. canonicalizeMetricKey(r.raw) # NoKey
        BY <1>9, <4>1 DEF dimensionKey
      <4>3. d \in dimensions
        BY <4>1, <4>2
      <4> QED  BY <1>2, <2>1, <4>3
    <3> HIDE DEF ofIt, read, metrics
    <3> QED  BY <1>7, <2>1, <3>1
  <2>2. CASE d \in DOMAIN metrics
    <3>1. d \in dimensions
      BY <1>2, <2>2
    <3>2. read(d, 0) \in SUBSET anaRows /\ read(d, 1) \in SUBSET anaRows
      OBVIOUS
    <3> HIDE DEF dimensions, seen, read, rows
    <3>3. MetricRowsOK(read(d, 0)) /\ MetricRowsOK(read(d, 1))
      BY <1>8, <3>2, SomeRowsOK
    <3>4. /\ metrics[d].current = sumDeduplicatedSamples(read(d, 0), tie)
          /\ metrics[d].previous = sumDeduplicatedSamples(read(d, 1), tie)
          /\ metrics[d].kinds = {r.kind : r \in ofIt(d)}
      BY <1>2, <1>7, <3>1
    <3>5. \A r \in read(d, 0) \cup read(d, 1) : r.kind \in metrics[d].kinds
      <4> HIDE DEF ofIt
      <4> QED  BY <1>7, <3>4
    <3> QED  BY <2>2, <3>3, <3>4, <3>5, SumIsOfNewest
  <2> QED  BY <2>1, <2>2
<1>10. OverviewAddsUp(metrics, grain)
  BY <1>9, Zenon DEF OverviewAddsUp, period
<1> QED  BY <1>1, <1>10 DEF metrics

\* One row of every interval is the newest, and the comparison reads it as the overview does.
LEMMA ComparisonIsOverview ==
  ASSUME AnaInv, NEW grain \in DOMAIN GrainLength, NEW tie
  PROVE  ComparisonAgrees(getAnalyticsOverview(grain, tie).metrics, periodBounds(anaTime, grain))
<1> DEFINE bounds == periodBounds(anaTime, grain)
           inView == During(anaRows, bounds.previous, bounds.end)
           metrics == aggregateMetricSnapshots(inView, bounds, tie)
           rows(d) == {r \in During(anaRows, bounds.current, bounds.end) : dimensionKey(r) = d}
           newest(d) == {r \in rows(d) :
                          \A q \in rows(d) : Interval(q) = Interval(r) => q.fetched <= r.fetched}
           clear(d) == /\ \A r \in newest(d) : WasRead(r)
                       /\ \A q, r \in newest(d) : Interval(q) = Interval(r) => q = r
           ofIt(d) == {r \in inView : dimensionKey(r) = d}
           seen(d) == {r \in ofIt(d) : WasRead(r)}
           samples(d) == During(seen(d), bounds.current, bounds.end)
           dimensions == {dimensionKey(r) : r \in {q \in inView : canonicalizeMetricKey(q.raw) # NoKey}}
<1>1. getAnalyticsOverview(grain, tie).metrics = metrics
  BY DEF getAnalyticsOverview
<1>2. /\ DOMAIN metrics = dimensions
      /\ \A d \in dimensions : metrics[d].current = sumDeduplicatedSamples(samples(d), tie)
  BY DEF aggregateMetricSnapshots
<1> HIDE DEF metrics
<1>3. /\ bounds.previous \in Int /\ bounds.current \in Int /\ bounds.end \in Int
      /\ bounds.previous <= bounds.current
  BY BoundsOfPeriods DEF AnaInv
<1>4. MetricRowsOK(anaRows) /\ \A r \in anaRows : r.fetched \in Nat
  BY DEF AnaInv, MetricRowsOK, SnapshotRows
<1> HIDE DEF bounds
<1>5. ASSUME NEW d \in dimensions, d[3] = NoPost, clear(d)
      PROVE  compareAccounts(d[2], d[1], bounds.current, bounds.end).value = metrics[d].current
  <2> DEFINE view == rows(d)
             asked == queryAnalyticsMetrics(d[2], d[1], bounds.current, bounds.end)
             key == [r \in asked |-> latestSnapshotKey(r)]
             latest == LatestBy(key, asked, "newer first")
             available == {r \in latest : r.post = NoPost /\ WasRead(r)}
  <2>1. d[1] # NoKey /\ d = <<d[1], d[2], d[3]>>
    BY DEF dimensionKey
  <2>2. /\ view \in SUBSET anaRows /\ asked \in SUBSET anaRows
        /\ view = {r \in asked : r.post = NoPost}
    <3>1. \A r : dimensionKey(r) = d <=> /\ canonicalizeMetricKey(r.raw) = d[1]
                                         /\ r.account = d[2] /\ r.post = NoPost
      BY <1>5, <2>1 DEF dimensionKey
    <3> QED  BY <3>1 DEF queryAnalyticsMetrics, During
  <2>3. samples(d) = {r \in view : WasRead(r)}
    <3>1. ASSUME NEW r \in anaRows, bounds.current <= r.fetched
          PROVE  bounds.previous <= r.fetched
      BY <1>3, <1>4, <3>1
    <3> QED  BY <3>1 DEF During
  <2>4. compareAccounts(d[2], d[1], bounds.current, bounds.end).value =
          IF available = {} THEN NoValue ELSE Total(available)
    BY DEF compareAccounts
  <2>5. MetricRowsOK(view) /\ MetricRowsOK(asked) /\ MetricRowsOK(samples(d))
    <3>1. samples(d) \in SUBSET anaRows
      BY <2>2, <2>3
    <3> QED  BY <1>4, <2>2, <3>1, SomeRowsOK
  <2>6. newest(d) = {r \in view : \A q \in view : Interval(q) = Interval(r) => q.fetched <= r.fetched}
    OBVIOUS
  <2>7. /\ \A r \in newest(d) : WasRead(r)
        /\ \A q, r \in newest(d) : Interval(q) = Interval(r) => q = r
    BY <1>5
  <2>8. \A q, r \in asked : r.post = NoPost =>
          (key[q] = key[r] <=> q.post = NoPost /\ Interval(q) = Interval(r))
    <3>1. \A r \in asked : canonicalizeMetricKey(r.raw) = d[1] /\ r.account = d[2]
      BY DEF queryAnalyticsMetrics
    <3>2. \A r \in asked : key[r] = <<d[2], d[1], r.post, r.from, r.to>>
      BY <2>1, <3>1 DEF latestSnapshotKey
    <3> QED  BY <3>2 DEF Interval
  <2> HIDE DEF key, asked
  <2>9. latest = {r \in asked : \A q \in asked : key[q] = key[r] => ~Precedes(q, r, "newer first")}
    <3>1. \A T : LatestBy(key, asked, T) =
                   {r \in asked : \A q \in asked : key[q] = key[r] => ~Precedes(q, r, T)}
      BY <2>5, LatestIsFirst
    <3> QED  BY <3>1, Zenon
  <2> HIDE DEF latest
  <2>10. ASSUME NEW q \in view, NEW r \in view, NEW T
         PROVE  /\ q.fetched \in Nat /\ r.fetched \in Nat
                /\ Precedes(q, r, T) => q.fetched >= r.fetched
                /\ q.fetched > r.fetched => Precedes(q, r, T)
                /\ ~Precedes(q, q, T)
    BY <1>4, <2>2, <2>5, PrecedesIsOrder
  <2> HIDE DEF view, newest
  <2>11. ASSUME NEW r \in view, NEW T, T = tie \/ T = "newer first"
         PROVE  r \in newest(d) <=> \A q \in view : Interval(q) = Interval(r) => ~Precedes(q, r, T)
    <3>1. ASSUME \A q \in view : Interval(q) = Interval(r) => ~Precedes(q, r, T)
          PROVE  r \in newest(d)
      <4>1. ASSUME NEW q \in view, Interval(q) = Interval(r)  PROVE q.fetched <= r.fetched
        <5>1. ~Precedes(q, r, T)
          BY <3>1, <4>1
        <5> QED  BY <2>10, <5>1
      <4> QED  BY <2>6, <4>1
    <3>2. ASSUME r \in newest(d), NEW q \in view, Interval(q) = Interval(r), Precedes(q, r, T)
          PROVE  FALSE
      <4>1. q.fetched >= r.fetched
        BY <2>10, <3>2
      <4>2. ASSUME NEW x \in view, Interval(x) = Interval(q)  PROVE x.fetched <= q.fetched
        <5>1. x.fetched <= r.fetched
          BY <2>6, <3>2, <4>2
        <5>2. x.fetched \in Nat /\ q.fetched \in Nat /\ r.fetched \in Nat
          BY <2>10
        <5> QED  BY <4>1, <5>1, <5>2
      <4>3. q \in newest(d)
        BY <2>6, <4>2
      <4>4. q = r
        BY <2>7, <3>2, <4>3
      <4> QED  BY <2>10, <3>2, <4>4
    <3> QED  BY <3>1, <3>2
  <2>12. available = newest(d)
    <3>1. ASSUME NEW r \in asked, r.post = NoPost
          PROVE  r \in latest <=> r \in newest(d)
      <4>1. r \in view
        BY <2>2, <3>1
      <4>2. r \in latest <=> \A q \in view : Interval(q) = Interval(r) => ~Precedes(q, r, "newer first")
        BY <2>2, <2>8, <2>9, <3>1
      <4> QED  BY <2>11, <4>1, <4>2
    <3>2. \A r \in latest : r \in asked
      BY <2>9
    <3>3. \A r \in newest(d) : r \in asked /\ r.post = NoPost /\ WasRead(r)
      BY <2>2, <2>6, <2>7
    <3> QED  BY <3>1, <3>2, <3>3
  <2> DEFINE interval == [r \in view |-> Interval(r)]
  <2>13. ASSUME NEW r \in view
         PROVE  \E f \in newest(d) : Interval(f) = Interval(r) /\ (f = r \/ Precedes(f, r, tie))
    <3>1. \A q \in view : interval[q] = Interval(q)
      OBVIOUS
    <3> HIDE DEF interval
    <3>2. PICK f \in view : /\ interval[f] = interval[r] /\ (f = r \/ Precedes(f, r, tie))
                            /\ \A q \in view : interval[q] = interval[f] => ~Precedes(q, f, tie)
      BY <2>5, FirstOfKey
    <3>3. f \in newest(d)
      BY <2>11, <3>1, <3>2
    <3> QED  BY <3>1, <3>2, <3>3
  <2>14. \A r \in newest(d) : r \in samples(d) /\ r \in view
    BY <2>3, <2>6, <2>7
  <2>15. samples(d) \subseteq view
    BY <2>3
  <2> DEFINE scope == [r \in samples(d) |-> Interval(r)]
  <2>16. \A r \in samples(d) : scope[r] = Interval(r)
    OBVIOUS
  <2>17. sumDeduplicatedSamples(samples(d), tie) =
           IF samples(d) = {} THEN NoValue ELSE Total(LatestBy(scope, samples(d), tie))
    BY DEF sumDeduplicatedSamples
  <2> HIDE DEF samples, scope, available
  <2>18. LatestBy(scope, samples(d), tie) = newest(d)
    <3> DEFINE summed == LatestBy(scope, samples(d), tie)
    <3>1. summed = {r \in samples(d) : \A q \in samples(d) : scope[q] = scope[r] => ~Precedes(q, r, tie)}
      BY <2>5, LatestIsFirst
    <3> HIDE DEF summed
    <3>2. ASSUME NEW r \in summed  PROVE r \in newest(d)
      <4>1. r \in samples(d) /\ r \in view
        BY <2>15, <3>1
      <4>2. PICK f \in newest(d) : Interval(f) = Interval(r) /\ (f = r \/ Precedes(f, r, tie))
        BY <2>13, <4>1
      <4> QED  BY <2>14, <2>16, <3>1, <4>1, <4>2
    <3>3. ASSUME NEW r \in newest(d)  PROVE r \in summed
      BY <2>11, <2>14, <2>15, <2>16, <3>1
    <3> QED  BY <3>2, <3>3 DEF summed
  <2>19. samples(d) = {} <=> newest(d) = {}
    BY <2>13, <2>14, <2>15
  <2> QED  BY <1>2, <2>4, <2>12, <2>17, <2>18, <2>19
<1> HIDE DEF clear, dimensions
<1>6. ComparisonAgrees(metrics, bounds)
  <2> USE DEF clear
  <2> QED  BY <1>2, <1>5, Zenon DEF ComparisonAgrees
<1> QED  BY <1>1, <1>6 DEF metrics, bounds

\* The health of an account's data is that of its latest rows.
LEMMA HealthOfLatest == ASSUME AnaInv  PROVE HealthIsCurrent
<1> SUFFICES ASSUME NEW a \in AnaAccounts, NEW tie \in Ties
             PROVE  LET health == getAnalyticsDataHealth(a, tie)
                        rows == {r \in anaRows : r.account = a}
                        last(r) == \A q \in rows : dimensionKey(q) = dimensionKey(r) => q.fetched <= r.fetched
                    IN  /\ health = "permission_denied" =>
                             \E r \in rows : r.availability = "PERMISSION_DENIED" /\ last(r)
                        /\ health = "fresh" => \E r \in rows : anaTime - r.fetched <= StaleAfter
  BY Zenon DEF HealthIsCurrent
<1> DEFINE health == getAnalyticsDataHealth(a, tie)
           rows == {r \in anaRows : r.account = a}
           taken == {r \in rows : Place(r, rows, tie) < HealthRows}
           key == [r \in taken |-> <<latestSnapshotKey(r)[2], r.post>>]
           latest == LatestBy(key, taken, tie)
           availability == {r.availability : r \in latest}
           newest == Max({r.fetched : r \in latest})
<1>1. health = IF "PERMISSION_DENIED" \in availability THEN "permission_denied"
               ELSE IF "UNSUPPORTED" \in availability THEN "unsupported"
               ELSE IF availability \subseteq {"NOT_FETCHED"} THEN "not_fetched"
               ELSE resolveFreshness(newest)
  BY DEF getAnalyticsDataHealth
<1>2. MetricRowsOK(rows) /\ MetricRowsOK(taken)
  <2>1. rows \in SUBSET anaRows /\ taken \in SUBSET anaRows /\ MetricRowsOK(anaRows)
    BY DEF AnaInv
  <2> HIDE DEF rows, taken
  <2> QED  BY <2>1, SomeRowsOK
<1>3. \A r \in taken : key[r] = <<latestSnapshotKey(r)[2], r.post>>
  OBVIOUS
<1> HIDE DEF key
<1>4. latest = {r \in taken : \A q \in taken : key[q] = key[r] => ~Precedes(q, r, tie)}
  <2> HIDE DEF taken
  <2> QED  BY <1>2, LatestIsFirst
<1> HIDE DEF health, latest
<1>5. \A r \in rows : /\ r.fetched \in Nat /\ r.fetched <= anaTime
                      /\ r.availability = "PERMISSION_DENIED" => canonicalizeMetricKey(r.raw) # NoKey
  BY DEF AnaInv, MetricRowsOK, SnapshotRows
<1>6. latest \subseteq taken /\ taken \subseteq rows
  BY <1>4
<1>7. ASSUME health = "permission_denied"
      PROVE  \E r \in rows : /\ r.availability = "PERMISSION_DENIED"
                             /\ \A q \in rows : dimensionKey(q) = dimensionKey(r) => q.fetched <= r.fetched
  <2>1. "PERMISSION_DENIED" \in availability
    BY <1>1, <1>7 DEF resolveFreshness
  <2>2. PICK r \in latest : r.availability = "PERMISSION_DENIED"
    BY <2>1
  <2>3. r \in taken /\ r \in rows /\ canonicalizeMetricKey(r.raw) # NoKey
    BY <1>5, <1>6, <2>2
  <2>4. ASSUME NEW q \in rows, dimensionKey(q) = dimensionKey(r)  PROVE q.fetched <= r.fetched
    <3>1. SUFFICES ASSUME q.fetched > r.fetched  PROVE FALSE
      BY <1>5, <2>3
    <3>2. Precedes(q, r, tie)
      BY <3>1 DEF Precedes
    <3>3. q \in taken
      <4>1. /\ Place(q, rows, tie) < Place(r, rows, tie) /\ Place(r, rows, tie) < HealthRows
            /\ Place(q, rows, tie) \in Int /\ Place(r, rows, tie) \in Int
        BY <1>2, <2>3, <3>2, PlacesAreInOrder
      <4>2. HealthRows \in Int
        BY AnalyticsAssumption
      <4> HIDE DEF rows
      <4> QED  BY <4>1, <4>2
    <3>4. canonicalizeMetricKey(q.raw) = canonicalizeMetricKey(r.raw) /\ q.post = r.post
      BY <2>4 DEF dimensionKey
    <3>5. latestSnapshotKey(q)[2] = latestSnapshotKey(r)[2]
      BY <2>3, <3>4 DEF latestSnapshotKey
    <3>6. key[q] = key[r]
      BY <1>3, <2>3, <3>3, <3>4, <3>5
    <3> QED  BY <1>4, <2>2, <3>2, <3>3, <3>6
  <2> HIDE DEF rows
  <2> QED  BY <2>2, <2>3, <2>4
<1>8. ASSUME health = "fresh"
      PROVE  \E r \in rows : anaTime - r.fetched <= StaleAfter
  <2>1. resolveFreshness(newest) = "fresh" /\ ~(availability \subseteq {"NOT_FETCHED"})
    BY <1>1, <1>8
  <2> DEFINE times == {r.fetched : r \in latest}
  <2>2. times # {}
    BY <2>1
  <2>3. times \in SUBSET Int /\ \A t \in times : t <= anaTime
    <3>1. \A r \in latest : r.fetched \in Int /\ r.fetched <= anaTime
      <4> HIDE DEF rows, taken
      <4> QED  BY <1>5, <1>6
    <3> QED  BY <3>1
  <2>4. anaTime \in Int
    BY DEF AnaInv
  <2>5. newest \in times
    <3> HIDE DEF times
    <3>1. Max(times) \in times
      BY <2>2, <2>3, <2>4, GreatestOf
    <3> QED  BY <3>1 DEF times
  <2> HIDE DEF newest
  <2>6. PICK r \in latest : r.fetched = newest
    BY <2>5
  <2>7. anaTime - newest <= StaleAfter
    BY <2>1 DEF resolveFreshness
  <2> HIDE DEF rows
  <2> QED  BY <1>6, <2>6, <2>7
<1> QED  BY <1>7, <1>8 DEF health

\* What a sync may read.
ReadingOK(reading) ==
  /\ reading.raw \in RawKeys /\ reading.value \in Nat \cup {NoValue}
  /\ reading.availability \in {"AVAILABLE", "NOT_FETCHED"} \cup Unavailable
  /\ reading.from \in Int /\ reading.to \in Int
  /\ reading.value # NoValue => reading.availability = "AVAILABLE"
  /\ reading.availability = "PERMISSION_DENIED" => canonicalizeMetricKey(reading.raw) # NoKey

LEMMA AnaInitInv == AnaInit => AnaInv
BY FS_EmptySet DEF AnaInit, AnaInv, MetricRowsOK

\* A sync stores one row or two.
LEMMA StoreStep ==
  ASSUME AnaInv, NEW a \in AnaAccounts, NEW post \in {ThePost, NoPost}, NEW kind \in {"REAL", "MOCK"},
         NEW n \in 1..2, NEW rows, DOMAIN rows = 1..n, \A i \in 1..n : ReadingOK(rows[i]),
         Store(a, post, kind, rows)
  PROVE  AnaInv'
<1> DEFINE stored(i) == MetricSnapshot(rows[i], i, a, post, kind)
<1>1. /\ anaTime' = anaTime /\ anaSyncs' = anaSyncs + 1 /\ anaTime \in Nat /\ anaSyncs \in Nat
      /\ anaRows' = anaRows \cup {stored(i) : i \in 1..n} /\ IsFiniteSet(anaRows)
  BY DEF Store, AnaInv, MetricRowsOK
<1>2. ASSUME NEW i \in 1..n
      PROVE  /\ stored(i) \in SnapshotRows /\ stored(i).id = 2 * anaSyncs + i /\ stored(i).fetched = anaTime
             /\ stored(i).value # NoValue => stored(i).availability = "AVAILABLE"
             /\ stored(i).availability = "PERMISSION_DENIED" => canonicalizeMetricKey(stored(i).raw) # NoKey
  <2>1. ReadingOK(rows[i]) /\ 2 * anaSyncs + i \in Nat
    BY <1>1
  <2> QED  BY <1>1, <2>1 DEF MetricSnapshot, SnapshotRows, ReadingOK
<1> HIDE DEF stored
<1>3. IsFiniteSet(anaRows')
  <2>1. IsFiniteSet(anaRows \cup {stored(1)}) /\ IsFiniteSet((anaRows \cup {stored(1)}) \cup {stored(2)})
    BY <1>1, FS_AddElement
  <2>2. CASE n = 1
    <3>1. 1..n = {1}
      BY <2>2
    <3>2. anaRows' = anaRows \cup {stored(1)}
      BY <1>1, <3>1
    <3> QED  BY <2>1, <3>2
  <2>3. CASE n = 2
    <3>1. 1..n = {1, 2}
      BY <2>3
    <3>2. anaRows' = (anaRows \cup {stored(1)}) \cup {stored(2)}
      BY <1>1, <3>1
    <3> QED  BY <2>1, <3>2
  <2> QED  BY <2>2, <2>3
<1>4. \A r \in anaRows : /\ r \in SnapshotRows /\ r.id \in Nat /\ r.id <= 2 * anaSyncs /\ r.fetched <= anaTime
                         /\ r.value # NoValue => r.availability = "AVAILABLE"
                         /\ r.availability = "PERMISSION_DENIED" => canonicalizeMetricKey(r.raw) # NoKey
  BY DEF AnaInv, MetricRowsOK, SnapshotRows
<1>5. ASSUME NEW q \in anaRows', NEW r \in anaRows', q.id = r.id  PROVE q = r
  <2>1. CASE q \in anaRows /\ r \in anaRows
    BY <1>5, <2>1 DEF AnaInv, MetricRowsOK
  <2>2. ASSUME NEW old \in anaRows, NEW i \in 1..n  PROVE old.id # stored(i).id
    BY <1>1, <1>2, <1>4
  <2>3. ASSUME NEW i \in 1..n, NEW j \in 1..n, stored(i).id = stored(j).id  PROVE i = j
    BY <1>1, <1>2, <2>3
  <2> QED  BY <1>1, <1>5, <2>1, <2>2, <2>3
<1>6. MetricRowsOK(anaRows')
  <2>1. anaRows' \subseteq SnapshotRows
    BY <1>1, <1>2, <1>4
  <2> QED  BY <1>3, <1>5, <2>1 DEF MetricRowsOK
<1>7. ASSUME NEW r \in anaRows'
      PROVE  /\ r.fetched <= anaTime' /\ r.id <= 2 * anaSyncs'
             /\ r.value # NoValue => r.availability = "AVAILABLE"
             /\ r.availability = "PERMISSION_DENIED" => canonicalizeMetricKey(r.raw) # NoKey
  <2>1. CASE r \in anaRows
    BY <1>1, <1>4, <2>1
  <2>2. ASSUME NEW i \in 1..n, r = stored(i)
        PROVE  r.fetched <= anaTime' /\ r.id <= 2 * anaSyncs'
    BY <1>1, <1>2, <2>2
  <2> QED  BY <1>1, <1>2, <2>1, <2>2
<1>8. anaTime' \in Nat /\ anaSyncs' \in Nat
  BY <1>1
<1> QED  BY <1>6, <1>7, <1>8 DEF AnaInv, MetricRowsOK

\* The metrics the pages know.
LEMMA KnownMetrics ==
  /\ canonicalizeMetricKey("page_impressions") # NoKey
  /\ canonicalizeMetricKey("post_engagement") # NoKey
BY DEF canonicalizeMetricKey, canonicalMetricKeys, aliases, NoKey

LEMMA ReadingsOK ==
  ASSUME AnaInv, NEW v \in Readings, NEW from \in Int, NEW to \in Int, NEW raw \in RawKeys
  PROVE  ReadingOK(Reading(raw, v, from, to)) /\ ReadingOK(Unread(raw, "NOT_FETCHED", from, to))
BY AnalyticsAssumption DEF ReadingOK, Reading, Unread, NoValue

LEMMA UnreadOK ==
  ASSUME NEW raw \in {"page_impressions", "post_engagement"}, NEW why \in Unavailable
  PROVE  ReadingOK(Unread(raw, why, Open, Open))
<1>1. Open \in Int
  BY AnalyticsAssumption DEF Open
<1> QED  BY <1>1, KnownMetrics DEF ReadingOK, Unread, RawKeys, Unavailable, NoValue

LEMMA SyncsInv ==
  ASSUME AnaInv, NEW a \in AnaAccounts,
         SyncPageMetrics(a) \/ syncFacebookPostMetrics(a) \/ MockMetrics(a)
  PROVE  AnaInv'
<1>1. Open \in Int /\ anaTime \in Nat /\ GrainLength["day"] \in Nat \ {0} /\ GrainLength["week"] \in Nat
  BY AnalyticsAssumption DEF Open, AnaInv
<1>2. ASSUME NEW x, ReadingOK(x), NEW post \in {ThePost, NoPost}, NEW kind \in {"REAL", "MOCK"},
             Store(a, post, kind, <<x>>)
      PROVE  AnaInv'
  <2> DEFINE rows == <<x>>
  <2>1. DOMAIN rows = 1..1 /\ \A i \in 1..1 : ReadingOK(rows[i])
    BY <1>2
  <2>2. 1 \in 1..2
    OBVIOUS
  <2> HIDE DEF rows
  <2>3. Store(a, post, kind, rows)
    BY <1>2 DEF rows
  <2> QED  BY <2>1, <2>2, <2>3, StoreStep
<1>3. ASSUME NEW x, NEW y, ReadingOK(x), ReadingOK(y), NEW post \in {ThePost, NoPost},
             NEW kind \in {"REAL", "MOCK"}, Store(a, post, kind, <<x, y>>)
      PROVE  AnaInv'
  <2> DEFINE rows == <<x, y>>
  <2>1. DOMAIN rows = 1..2 /\ \A i \in 1..2 : ReadingOK(rows[i])
    BY <1>3
  <2>2. 2 \in 1..2
    OBVIOUS
  <2> HIDE DEF rows
  <2>3. Store(a, post, kind, rows)
    BY <1>3 DEF rows
  <2> QED  BY <2>1, <2>2, <2>3, StoreStep
<1>4. CASE SyncPageMetrics(a)
  <2>1. PICK rows \in readMetrics : Store(a, NoPost, "REAL", rows)
    BY <1>4 DEF SyncPageMetrics
  <2>2. PICK lastDay \in Int : lastDay = anaTime - (anaTime % GrainLength["day"])
    BY <1>1
  <2>3. \E x : ReadingOK(x) /\ rows = <<x>>
    <3>1. CASE \E v \in Readings, to \in {Open, lastDay} : rows = <<Reading("page_impressions", v, Open, to)>>
      BY <1>1, <2>2, <3>1, ReadingsOK DEF RawKeys
    <3>2. CASE \E why \in Unavailable : rows = <<Unread("page_impressions", why, Open, Open)>>
      BY <3>2, UnreadOK
    <3> QED  BY <2>1, <2>2, <3>1, <3>2 DEF readMetrics
  <2> QED  BY <1>2, <2>1, <2>3
<1>5. CASE syncFacebookPostMetrics(a)
  <2>1. PICK rows \in readPostMetrics : Store(a, ThePost, "REAL", rows)
    BY <1>5 DEF syncFacebookPostMetrics
  <2>2. \/ \E x : ReadingOK(x) /\ rows = <<x>>
        \/ \E x, y : ReadingOK(x) /\ ReadingOK(y) /\ rows = <<x, y>>
    <3> DEFINE comments(v) == Reading("post_comments_total", v, Open, Open)
               reactions(v) == Reading("post_reactions_total", v, Open, Open)
    <3>1. \A v \in Readings : ReadingOK(comments(v)) /\ ReadingOK(reactions(v))
      BY <1>1, ReadingsOK DEF RawKeys
    <3>2. \/ \E v \in Readings : rows = <<comments(v)>>
          \/ \E v \in Readings : rows = <<comments(v), reactions(v)>>
          \/ \E why \in Unavailable : rows = <<Unread("post_engagement", why, Open, Open)>>
      BY <2>1 DEF readPostMetrics
    <3> HIDE DEF comments, reactions
    <3>3. CASE \E v \in Readings : rows = <<comments(v)>>
      BY <3>1, <3>3
    <3>4. CASE \E v \in Readings : rows = <<comments(v), reactions(v)>>
      BY <3>1, <3>4
    <3>5. CASE \E why \in Unavailable : rows = <<Unread("post_engagement", why, Open, Open)>>
      BY <3>5, UnreadOK
    <3> QED  BY <3>2, <3>3, <3>4, <3>5
  <2> QED  BY <1>2, <1>3, <2>1, <2>2
<1>6. CASE MockMetrics(a)
  <2>1. PICK from \in Int : from = anaTime - GrainLength["week"]
    BY <1>1
  <2>2. PICK v \in Readings :
          Store(a, NoPost, "MOCK", <<Reading("impressions", v, from, anaTime),
                                     Unread("qualified_leads", "NOT_FETCHED", from, anaTime)>>)
    BY <1>6, <2>1 DEF MockMetrics
  <2>3. /\ ReadingOK(Reading("impressions", v, from, anaTime))
        /\ ReadingOK(Unread("qualified_leads", "NOT_FETCHED", from, anaTime))
    BY <1>1, ReadingsOK DEF RawKeys
  <2> QED  BY <1>3, <2>2, <2>3
<1> QED  BY <1>4, <1>5, <1>6

LEMMA AnaNextInv == ASSUME AnaInv, [AnaNext]_anaVars PROVE AnaInv'
<1>1. CASE UNCHANGED anaVars
  <2>1. UNCHANGED <<anaTime, anaRows, anaSyncs>>
    BY <1>1 DEF anaVars
  <2> QED  BY <2>1 DEF AnaInv, MetricRowsOK
<1>2. CASE AnalyticsTicks
  <2>1. anaTime' = anaTime + 1 /\ anaRows' = anaRows /\ anaSyncs' = anaSyncs /\ anaTime \in Nat
    BY <1>2 DEF AnalyticsTicks, AnaInv
  <2>2. \A r \in anaRows : r.fetched \in Nat /\ r.fetched <= anaTime
    BY DEF AnaInv, MetricRowsOK, SnapshotRows
  <2>3. \A r \in anaRows : r.fetched <= anaTime + 1
    BY <2>1, <2>2
  <2> QED  BY <2>1, <2>3 DEF AnaInv, MetricRowsOK
<1>3. ASSUME NEW a \in AnaAccounts,
             SyncPageMetrics(a) \/ syncFacebookPostMetrics(a) \/ MockMetrics(a)
      PROVE  AnaInv'
  BY <1>3, SyncsInv
<1> QED  BY <1>1, <1>2, <1>3 DEF AnaNext

\* Whatever syncs have left: the overview's numbers are sums of one newest reading of every interval
\* of the period, and say when a simulated row is in them; a comparison agrees with the overview
\* where no failure is newest; an account is denied only what it was denied last, and fresh only
\* when something was asked for lately (getAnalyticsOverview, compareAccounts,
\* getAnalyticsDataHealth).
THEOREM NumbersAreRight == AnaSpec => []NumbersAreRead
<1>1. AnaInv => NumbersAreRead
  BY OverviewIsOfRead, ComparisonIsOverview, HealthOfLatest DEF NumbersAreRead
<1> QED  BY <1>1, AnaInitInv, AnaNextInv, PTL DEF AnaSpec
=============================================================================
