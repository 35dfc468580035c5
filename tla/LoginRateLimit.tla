--------------------------- MODULE LoginRateLimit ---------------------------
(***************************************************************************)
(* Failed logins are counted for the e-mail address and for the origin of  *)
(* a request, and enough of them within a window block either for a while  *)
(* (login-rate-limit-service.ts, api/auth/login/route.ts).                 *)
(*                                                                         *)
(* Requests interleave.  A failure is recorded for one key after the       *)
(* other, each in a transaction that reads and writes under an advisory    *)
(* lock of the key; a success deletes the rows of its keys without asking  *)
(* for that lock.  The time a failure counts for is read once, before the  *)
(* first lock is waited for, and may be late by when it is written.        *)
(***************************************************************************)
EXTENDS Integers

CONSTANTS Attempts,     \* login requests under way
          Emails, Origins,
          MaxFailures, WindowTime, BlockTime,
          LastTime,      \* bound: the time up to which the clock is followed
          MaxLag        \* bound: how long a failure waits to be written

ASSUME LoginAssumption ==
  /\ Emails \cap Origins = {}
  /\ {MaxFailures, WindowTime, BlockTime} \subseteq Nat \ {0} /\ {LastTime, MaxLag} \subseteq Nat

LoginKeys == Emails \cup Origins
Never == 0
NoRow == [count |-> 0, since |-> Never, until |-> Never]

VARIABLES
  logTime,      \* the clock
  logRow,       \* LoginRateLimit: failures, start of their window, end of the block
  logAttempt,   \* the requests: where they are, keys to record, time, the row they read
  logSeen       \* history: failures of a key written since it was last cleared or its window
                \* began, and the time of the last

logVars == <<logTime, logRow, logAttempt, logSeen>>

NoneSeen == [count |-> 0, last |-> Never]
NoAttempt == [phase |-> "idle", keys |-> {}, left |-> {}, at |-> Never, held |-> {}, read |-> NoRow]

LogInit ==
  /\ logTime = 1
  /\ logRow = [k \in LoginKeys |-> NoRow]
  /\ logAttempt = [a \in Attempts |-> NoAttempt]
  /\ logSeen = [k \in LoginKeys |-> NoneSeen]

\* checkLoginAllowed: none of the keys is blocked.
LoginAllowed(keys) == \A k \in keys : logRow[k].until <= logTime

\* A request that is refused leaves nothing behind.  The origin may be unknown.
CheckLoginAllowed(a, email, origins) ==
  /\ logAttempt[a].phase = "idle"
  /\ logAttempt' = IF LoginAllowed({email} \cup origins)
                   THEN [logAttempt EXCEPT ![a] =
                          [@ EXCEPT !.phase = "verify", !.keys = {email} \cup origins]]
                   ELSE logAttempt
  /\ UNCHANGED <<logTime, logRow, logSeen>>

\* The password is wrong: the time is taken here.
VerifyFails(a) ==
  /\ logAttempt[a].phase = "verify"
  /\ logAttempt' = [logAttempt EXCEPT ![a] =
       [@ EXCEPT !.phase = "record", !.left = logAttempt[a].keys, !.at = logTime]]
  /\ UNCHANGED <<logTime, logRow, logSeen>>

\* It is right: the failures of both keys are forgotten.  A user of no client is turned away
\* and they stay.
VerifySucceeds(a) ==
  /\ logAttempt[a].phase = "verify"
  /\ logAttempt' = [logAttempt EXCEPT ![a] = NoAttempt]
  /\ \/ /\ logRow' = [k \in LoginKeys |-> IF k \in logAttempt[a].keys THEN NoRow ELSE logRow[k]]
        /\ logSeen' = [k \in LoginKeys |-> IF k \in logAttempt[a].keys THEN NoneSeen ELSE logSeen[k]]
     \/ UNCHANGED <<logRow, logSeen>>
  /\ UNCHANGED logTime

\* Mutant: no lock is taken.
Unlocked(k) == TRUE

\* pg_advisory_xact_lock: nobody else is between the read and the write of the key.
KeyUnlocked(k) == \A b \in Attempts : k \notin logAttempt[b].held

\* The e-mail address comes first.
ReadFailures(a, k) ==
  /\ logAttempt[a].phase = "record" /\ logAttempt[a].held = {}
  /\ k \in logAttempt[a].left /\ (k \in Emails \/ logAttempt[a].left \subseteq Origins)
  /\ KeyUnlocked(k)
  /\ logAttempt' = [logAttempt EXCEPT ![a].held = {k}, ![a].read = logRow[k]]
  /\ UNCHANGED <<logTime, logRow, logSeen>>

Resets(row, now) == row = NoRow \/ row.since <= now - WindowTime

\* Mutant: too few failures lift the block.
BlockOfItsOwn(row, count, now) == IF count >= MaxFailures THEN now + BlockTime ELSE Never

\* A block that has not run out outlives the window it was earned in.
BlockedUntil(row, count, now) ==
  IF count >= MaxFailures THEN now + BlockTime
  ELSE IF row.until > now THEN row.until ELSE Never

\* Where the row was deleted since it was read, the write makes a new one, as of now.
RecordFailure(a, k) ==
  /\ k \in logAttempt[a].held
  /\ LET now == logAttempt[a].at
         read == logAttempt[a].read
         reset == Resets(read, now)
         count == IF reset THEN 1 ELSE read.count + 1
     IN  /\ logRow' = [logRow EXCEPT ![k] =
              [count |-> count, until |-> BlockedUntil(read, count, now),
               since |-> IF reset \/ logRow[k] = NoRow THEN now ELSE read.since]]
         /\ logSeen' = [logSeen EXCEPT ![k] =
              [count |-> IF Resets(logRow[k], now) THEN 1 ELSE @.count + 1, last |-> now]]
         /\ logAttempt' = [logAttempt EXCEPT ![a] =
              IF @.left = {k} THEN NoAttempt
              ELSE [@ EXCEPT !.left = logAttempt[a].left \ {k}, !.held = {}, !.read = NoRow]]
  /\ UNCHANGED logTime

ProcessEnds(a) ==
  /\ logAttempt[a] # NoAttempt
  /\ logAttempt' = [logAttempt EXCEPT ![a] = NoAttempt]
  /\ UNCHANGED <<logTime, logRow, logSeen>>

LoginClockTicks ==
  /\ logTime < LastTime
  /\ \A a \in Attempts : logAttempt[a].phase = "record" => logTime < logAttempt[a].at + MaxLag
  /\ logTime' = logTime + 1
  /\ UNCHANGED <<logRow, logAttempt, logSeen>>

LogNext ==
  \/ \E a \in Attempts :
       \/ \E email \in Emails, origins \in {{}} \cup {{o} : o \in Origins} :
            CheckLoginAllowed(a, email, origins)
       \/ VerifyFails(a) \/ VerifySucceeds(a) \/ ProcessEnds(a)
       \/ \E k \in LoginKeys : ReadFailures(a, k) \/ RecordFailure(a, k)
  \/ LoginClockTicks

LogSpec == LogInit /\ [][LogNext]_logVars

-----------------------------------------------------------------------------
(* Properties *)

\* No failure goes uncounted: as many as MaxFailures of them, recorded for a key in one window
\* and not cleared, leave it blocked from the last of them, though requests record them
\* together and a success deletes rows between a read and a write (the advisory lock).
EnoughFailuresBlock ==
  \A k \in LoginKeys : logSeen[k].count >= MaxFailures =>
    logRow[k].until = logSeen[k].last + BlockTime

\* Only a success lifts a block that has not run out: a failure never does, not even one that
\* opens a new window or that was late.
FailuresKeepBlocks ==
  [][\A a \in Attempts, k \in LoginKeys :
       k \in logAttempt[a].held /\ logRow[k].until > logTime =>
         logRow'[k].until > logTime' \/ logRow'[k] = NoRow \/ logTime' # logTime]_logVars
=============================================================================
