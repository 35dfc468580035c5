---------------------------- MODULE MCDeliveries ----------------------------
(* Bounds for TLC of what leaves the system: external notifications, with senders that die    *)
(* but do not stall, and the publish calls of both adapters.  They share no state: a          *)
(* behaviour is one of either, and the other rests.                                           *)
EXTENDS NotificationDelivery, GraphAdapters

CONSTANTS k1, c1, c2, w1, p1, none

VARIABLE active

BothProviders == {"facebook", "instagram"}
TwoChannels == {c1, c2}
Nowhere == {}

DeliveriesInit ==
  /\ active \in {"notifications", "adapters"}
  /\ Init /\ AdaInit
  /\ active # "adapters" => provider = "facebook" /\ request = [defect |-> "NONE", kinds |-> <<>>]

\* The others rest.
On(c) == /\ active = c /\ UNCHANGED active
         /\ IF c = "notifications" THEN TRUE ELSE UNCHANGED vars
         /\ IF c = "adapters" THEN TRUE ELSE UNCHANGED adaVars

DeliveriesNext ==
  \/ \E p \in Processes : \/ \E k \in Keys : On("notifications") /\ StartEvent(p, k)
                          \/ On("notifications") /\ PlanEvent(p)
                          \/ On("notifications") /\ CommitEvent(p)
                          \/ On("notifications") /\ RollBackEvent(p)
                          \/ On("notifications") /\ ClaimPrepared(p)
                          \/ On("notifications") /\ SkipPrepared(p)
                          \/ On("notifications") /\ DispatchEnds(p)
                          \/ On("notifications") /\ ClaimNext(p)
                          \/ On("notifications") /\ LoadDelivery(p)
                          \/ On("notifications") /\ TransportEnds(p)
                          \/ On("notifications") /\ MarkDelivery(p)
                          \/ On("notifications") /\ EndpointReceives(p)
                          \/ On("notifications") /\ MarkingThrows(p)
                          \/ On("notifications") /\ Crash(p)
                          \/ On("notifications") /\ Restart(p)
  \/ On("notifications") /\ Tick
  \/ \E d \in Ids : On("notifications") /\ LeaseGoesStale(d)
  \/ On("adapters") /\ ValidateInstagram
  \/ On("adapters") /\ ValidateFacebook
  \/ On("adapters") /\ ResolveMedia
  \/ On("adapters") /\ OpenMedia
  \/ On("adapters") /\ Send
  \/ On("adapters") /\ TryAgain
  \/ On("adapters") /\ ContainerCreated
  \/ On("adapters") /\ ContainerPolled
  \/ On("adapters") /\ PostAnswered
  \/ On("adapters") /\ Confirmed
  \/ On("adapters") /\ PlatformPostsLate
  \/ On("adapters") /\ PostBecomesPublic

DeliveriesSpec ==
  DeliveriesInit /\ [][DeliveriesNext]_<<active, vars, adaVars>> /\ Fairness
=============================================================================
