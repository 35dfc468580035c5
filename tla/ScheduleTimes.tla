---------------------------- MODULE ScheduleTimes ----------------------------
(***************************************************************************)
(* From a local time to the instant a publication is planned for: the      *)
(* conversion and its refusals (lib/timezone.ts), the occurrences of a     *)
(* schedule queue (schedule-queue-service.ts), the forms and the board     *)
(* that show times in the client's zone while the owner may change it      *)
(* (content-service.ts, calendar-service.ts, api/settings/route.ts).       *)
(*                                                                         *)
(* Time is counted in the quarters the conversion steps by; a local time   *)
(* is the instant it would be without an offset, a day a few quarters.  A  *)
(* zone changes its offset once.  Which occurrences are free, and whether  *)
(* the publication may be planned at all, is in ContentLifecycle.  A name  *)
(* that is no zone, which the settings do not refuse, lets nothing pass.   *)
(***************************************************************************)
EXTENDS Integers

CONSTANTS TimZones,     \* bound: the zones the client may be in
          DayQuarters,  \* quarters of a day
          WeekDays,     \* days of a week
          ScanReach,    \* quarters the conversion looks for a second instant in
          Horizon,      \* horizonDays of the queue
          QueueRules,   \* bound: the sets of slots a queue may have
          TimLast       \* bound: the time the model ends at

ASSUME ZonesAssumption ==
  /\ TimZones \subseteq [before : Int, after : Int, at : Nat]
  /\ ScanReach \in Nat
  /\ \A z \in TimZones : z.before - z.after \in -ScanReach .. ScanReach

\* scheduleQueueSchema: a slot is a time of a day of the week.
ASSUME QueuesAssumption ==
  /\ {DayQuarters, WeekDays} \subseteq Nat \ {0}
  /\ {Horizon, TimLast} \subseteq Nat
  /\ QueueRules \subseteq SUBSET [dayOfWeek : 0 .. WeekDays - 1, clock : 0 .. DayQuarters - 1]

VARIABLES
  timNow,
  timZone,    \* Client.timezone
  timForm,    \* the form somebody has open: what it showed when it was loaded
  timQueue,   \* the ScheduleQueue: its timezone and its slots
  timPlan     \* the publication: the time it is planned for or was made, and how that was given

timVars == <<timNow, timZone, timForm, timQueue, timPlan>>

Unplanned == [at |-> 0, given |-> "nothing"]
NoForm == [kind |-> "none"]
NoQueue == [slots |-> {}]

TimInit ==
  /\ timNow = 0 /\ timZone \in TimZones
  /\ timForm = NoForm /\ timQueue = NoQueue /\ timPlan = Unplanned

-----------------------------------------------------------------------------
(* Local times *)

\* What a clock in the zone shows.
partsInZone(t, zone) == t + (IF t < zone.at THEN zone.before ELSE zone.after)
dayOf(local) == local \div DayQuarters
clockOf(local) == local % DayQuarters

\* Three corrections of the local time taken for an instant.
Candidate(local, zone) ==
  LET corrected(t) == t - (partsInZone(t, zone) - local)
  IN  corrected(corrected(corrected(local)))

\* Mutant: a time that comes twice is taken the first time it is found.
FirstFound(local, zone) ==
  {t \in {Candidate(local, zone)} : partsInZone(t, zone) = local}

\* The instant, or none: of a time that does not exist, and of one that comes twice.
zonedLocalDateTimeToUtc(local, zone) ==
  LET t == Candidate(local, zone)
      equivalent == {u \in t - ScanReach .. t + ScanReach : partsInZone(u, zone) = local}
  IN  IF partsInZone(t, zone) = local /\ equivalent = {t} THEN {t} ELSE {}

\* The local times of the slots on the days from the one it is in the zone, where they exist.
queueOccurrences(queue, after) ==
  LET start == dayOf(partsInZone(after, queue.zone))
      ofDay(d) == {d * DayQuarters + s.clock : s \in {r \in queue.slots : r.dayOfWeek = d % WeekDays}}
      locals == UNION {ofDay(d) : d \in start .. start + Horizon}
  IN  {t \in UNION {zonedLocalDateTimeToUtc(l, queue.zone) : l \in locals} : t > after}

\* Bound: nobody plans for later than this.
TimEnd == TimLast + (Horizon + 1) * DayQuarters
Locals == {partsInZone(t, zone) : t \in 0 .. TimEnd, zone \in TimZones}

-----------------------------------------------------------------------------
(* Forms, the board and the queue *)

\* The owner's settings; what was open keeps the zone it showed.
SaveTimezone(zone) ==
  /\ timZone' = zone
  /\ UNCHANGED <<timNow, timForm, timQueue, timPlan>>

\* The item's page or the calendar: the zone, and when the publication was planned then.
OpenPage ==
  /\ timForm' = [kind |-> "page", zone |-> timZone, at |-> timPlan.at, planned |-> timPlan # Unplanned]
  /\ UNCHANGED <<timNow, timZone, timQueue, timPlan>>

\* The zone a form showed or a queue was saved with must be the client's.
TimezoneMatches(zone) == zone = timZone

\* The instant of a local time that somebody gave, if there is one and it lies where it must.
Given(how, local, zone, allowed) ==
  /\ TimezoneMatches(zone)
  /\ \E t \in zonedLocalDateTimeToUtc(local, timZone) \cap allowed :
       timPlan' = [at |-> t, given |-> how, local |-> local, zone |-> zone]

\* resolveScheduledAt, and rescheduleCalendarItems alike.
PlanLocal(local, zone) == Given("plan", local, zone, timNow + 1 .. TimEnd)

\* What may still be moved: it is planned, and nobody has reported it as made.
Movable == timPlan # Unplanned /\ timPlan.given # "report"

\* A local time typed into the form.
SchedulePublication(local) ==
  /\ timForm.kind = "page" /\ timPlan = Unplanned
  /\ PlanLocal(local, timForm.zone)
  /\ timForm' = NoForm
  /\ UNCHANGED <<timNow, timZone, timQueue>>

\* moveCalendarDatePreservingClock of what the board showed, and rescheduleCalendarItems.
MoveOnBoard(day) ==
  /\ timForm.kind = "page" /\ timForm.planned /\ Movable
  /\ PlanLocal(day * DayQuarters + clockOf(partsInZone(timForm.at, timForm.zone)), timForm.zone)
  /\ timForm' = NoForm
  /\ UNCHANGED <<timNow, timZone, timQueue>>

\* Somebody reports when they have published by hand.
ReportPublishedAt(local) ==
  /\ timForm.kind = "page" /\ Movable
  /\ Given("report", local, timForm.zone, 0 .. timNow)
  /\ timForm' = NoForm
  /\ UNCHANGED <<timNow, timZone, timQueue>>

\* A bulk move names the instant itself.
bulkReschedule(t) ==
  /\ Movable /\ t > timNow
  /\ timPlan' = [at |-> t, given |-> "instant"]
  /\ UNCHANGED <<timNow, timZone, timForm, timQueue>>

\* upsertScheduleQueue compares the zone before its transaction.
CheckQueue(slots) ==
  /\ timForm.kind = "page" /\ TimezoneMatches(timForm.zone)
  /\ timForm' = [kind |-> "queue", zone |-> timForm.zone, slots |-> slots]
  /\ UNCHANGED <<timNow, timZone, timQueue, timPlan>>

SaveQueue ==
  /\ timForm.kind = "queue"
  /\ timQueue' = [zone |-> timForm.zone, slots |-> timForm.slots]
  /\ timForm' = NoForm
  /\ UNCHANGED <<timNow, timZone, timPlan>>

\* The first occurrence that is free, whichever that is, goes through its local time.
assignContentToQueue ==
  /\ timQueue # NoQueue /\ timPlan = Unplanned
  /\ \E after \in 0 .. TimLast : \E t \in queueOccurrences(timQueue, after) :
       PlanLocal(partsInZone(t, timQueue.zone), timQueue.zone)
  /\ UNCHANGED <<timNow, timZone, timForm, timQueue>>

\* It is withdrawn, or done with, and the next one is looked at.
PlanEnds ==
  /\ timPlan # Unplanned
  /\ timPlan' = Unplanned
  /\ UNCHANGED <<timNow, timZone, timForm, timQueue>>

TimeTicks ==
  /\ timNow < TimLast
  /\ timNow' = timNow + 1
  /\ UNCHANGED <<timZone, timForm, timQueue, timPlan>>

TimNext ==
  \/ \E z \in TimZones : SaveTimezone(z)
  \/ OpenPage \/ SaveQueue \/ assignContentToQueue \/ PlanEnds \/ TimeTicks
  \/ \E l \in Locals : SchedulePublication(l) \/ ReportPublishedAt(l)
  \/ \E d \in {dayOf(l) : l \in Locals} : MoveOnBoard(d)
  \/ \E t \in 0 .. TimEnd : bulkReschedule(t)
  \/ \E slots \in QueueRules : CheckQueue(slots)

TimSpec == TimInit /\ [][TimNext]_timVars

-----------------------------------------------------------------------------
(* Properties *)

\* The instants at which a clock in the zone shows a local time.
Showing(local, zone) == {t \in {local - zone.before, local - zone.after} : partsInZone(t, zone) = local}
Once(local, zone, t) == Showing(local, zone) = {t}

\* A publication is planned for, or was made at, the one instant at which a clock in the zone
\* that its form or queue showed reads what was given, whatever became of the client's zone meanwhile
\* (tests/timezone.test.ts: "rejects a repeated DST time instead of choosing one UTC instant").
PlannedAsGiven == timPlan.given \in {"plan", "report"} => Once(timPlan.local, timPlan.zone, timPlan.at)

\* Who has the form open is refused only a time that does not exist or comes twice.
NothingElseIsRefused == timForm.kind = "page" =>
  \A l \in Locals : \A t \in Showing(l, timZone) :
    Once(l, timZone, t) => zonedLocalDateTimeToUtc(l, timZone) = {t}

\* A queue offers what a clock in its zone will read one of its slots at, once, on a day of the
\* horizon, and nothing else.
QueueOffersItsSlots ==
  timQueue # NoQueue =>
    LET today == dayOf(partsInZone(timNow, timQueue.zone))
        local(t) == partsInZone(t, timQueue.zone)
        isSlot(t) == \E s \in timQueue.slots : s.dayOfWeek = dayOf(local(t)) % WeekDays /\ s.clock = clockOf(local(t))
    IN  queueOccurrences(timQueue, timNow) =
          {t \in timNow + 1 .. timNow + (Horizon + 1) * DayQuarters + ScanReach :
             isSlot(t) /\ Once(local(t), timQueue.zone, t) /\ dayOf(local(t)) <= today + Horizon}

\* Planned times mean what they say, over every change of an offset or of the client's zone
\* (README.md:59: "IANA 时区排期和 DST 非法本地时间拒绝").
TimesMeanWhatTheySay == PlannedAsGiven /\ NothingElseIsRefused /\ QueueOffersItsSlots
=============================================================================
