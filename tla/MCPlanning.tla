----------------------------- MODULE MCPlanning -----------------------------
(* Bounds for TLC of the calendar, with two items of one account, and of the generation of    *)
(* content, and of the times things are planned for.  They share no state here: a behaviour is *)
(* one of the three, and the others rest.                                                     *)
EXTENDS ContentLifecycle, ContentGeneration, ScheduleTimes, TLC

CONSTANTS c1, c2, page, person, r1, r2, d1

VARIABLE active

NoItem == {}
LiveOnly == {"LIVE"}
TwoItems == {c1, c2}
AnyItem == Permutations(TwoItems)
AllAccounts == {page, person}
ByHandOnly == {person}
SomeSlots == {2}
TwoRequests == {r1, r2}
OneWriter == {r1}
OneDraft == {d1}

\* West the clock goes forward by two quarters, on the first day of a week of two; east it goes back
\* on the third.
West == [before |-> -5, after |-> -3, at |-> 7]
East == [before |-> 5, after |-> 3, at |-> 6]
BothZones == {West, East}
Slot(d, c) == [dayOfWeek |-> d, clock |-> c]
TwoRules == {{Slot(0, 2), Slot(1, 1)}, {Slot(0, 1), Slot(0, 3), Slot(1, 2)}}

PlanningInit ==
  /\ active \in {"calendar", "generation", "times"}
  /\ Init /\ GenInit /\ TimInit
  /\ \A i, k \in Items : item[i].account = item[k].account
  /\ active # "calendar" => \A i \in Items : item[i].account = page
  /\ active # "generation" => genMode = "DRAFT"
  /\ active # "times" => timZone = West

\* The others rest.
On(c) == /\ active = c /\ UNCHANGED active
         /\ IF c = "calendar" THEN TRUE ELSE UNCHANGED vars
         /\ IF c = "generation" THEN TRUE ELSE UNCHANGED genVars
         /\ IF c = "times" THEN TRUE ELSE UNCHANGED timVars

PlanningNext ==
  \/ On("calendar") /\ Next
  \/ \E r \in Writers : \/ On("generation") /\ ReadProduct(r)
                        \/ On("generation") /\ ReadFacts(r)
  \/ \E r \in Requests : \/ On("generation") /\ BeginBrandAutofill(r)
                         \/ On("generation") /\ ReserveUsage(r)
                         \/ On("generation") /\ SimulatedAnswer(r)
                         \/ On("generation") /\ SettleUsage(r)
                         \/ On("generation") /\ CallFails(r)
                         \/ On("generation") /\ WriteRefused(r)
                         \/ On("generation") /\ ProcessDies(r)
                         \/ On("generation") /\ ReservationLapses(r)
  \/ \E r \in Writers, i \in Drafts : \/ On("generation") /\ ReadItem(r, i)
                                      \/ On("generation") /\ GenerateContentPlan(r, i)
                                      \/ On("generation") /\ WriteVariant(r, i)
  \/ \E i \in Drafts : \/ On("generation") /\ CreateManualContent(i)
                       \/ On("generation") /\ EditByHand(i)
  \/ \E s \in Strategies : \/ On("generation") /\ CreateSocialStrategyDraft(s)
                           \/ On("generation") /\ ConfirmSocialStrategy(s)
  \/ On("generation") /\ ProductFactsChange
  \/ On("generation") /\ ClientModeChanges
  \/ On("generation") /\ MonthTurns
  \/ \E z \in TimZones : On("times") /\ SaveTimezone(z)
  \/ On("times") /\ OpenPage
  \/ \E l \in Locals : \/ On("times") /\ SchedulePublication(l)
                       \/ On("times") /\ ReportPublishedAt(l)
  \/ \E d \in {dayOf(l) : l \in Locals} : On("times") /\ MoveOnBoard(d)
  \/ \E t \in 0 .. TimEnd : On("times") /\ bulkReschedule(t)
  \/ \E slots \in QueueRules : On("times") /\ CheckQueue(slots)
  \/ On("times") /\ SaveQueue
  \/ On("times") /\ assignContentToQueue
  \/ On("times") /\ PlanEnds
  \/ On("times") /\ TimeTicks

PlanningSpec == PlanningInit /\ [][PlanningNext]_<<active, vars, genVars, timVars>>
=============================================================================
