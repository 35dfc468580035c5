------------------------- MODULE AtMostOncePublish -------------------------
(***************************************************************************)
(* What the publish queue promises of one job, whatever its workers do:    *)
(* calls of the platform one after the other, a new one only after the     *)
(* last is known to have had no effect, and an outcome that agrees with    *)
(* the platform or is UNKNOWN until an operator settles it.                *)
(***************************************************************************)
EXTENDS Naturals

CONSTANT Jobs

VARIABLES phase,     \* OPEN (nothing sent), SENT, UNKNOWN, PUBLISHED or FAILED
          inFlight,  \* is a call of the platform under way
          posts      \* posts on the platform

vars == <<phase, inFlight, posts>>

Init == /\ phase = [j \in Jobs |-> "OPEN"]
        /\ inFlight = [j \in Jobs |-> FALSE]
        /\ posts = [j \in Jobs |-> 0]

Become(j, p) == phase' = [phase EXCEPT ![j] = p]

Send(j) == /\ phase[j] = "OPEN" /\ ~inFlight[j]
           /\ Become(j, "SENT")
           /\ inFlight' = [inFlight EXCEPT ![j] = TRUE]
           /\ UNCHANGED posts

\* The platform may act at any time during the call, once.
Post(j) == /\ inFlight[j] /\ posts[j] = 0
           /\ posts' = [posts EXCEPT ![j] = 1]
           /\ UNCHANGED <<phase, inFlight>>

\* The call returns, or its caller dies.
CallEnds(j) == /\ inFlight[j]
               /\ inFlight' = [inFlight EXCEPT ![j] = FALSE]
               /\ UNCHANGED <<phase, posts>>

\* A call without effect is over: the job may be sent again.
Retract(j) == /\ phase[j] = "SENT" /\ ~inFlight[j] /\ posts[j] = 0
              /\ Become(j, "OPEN")
              /\ UNCHANGED <<inFlight, posts>>

Conclude(j) == /\ phase[j] = "SENT"
               /\ \/ Become(j, "PUBLISHED") /\ ~inFlight[j] /\ posts[j] = 1
                  \/ Become(j, "FAILED") /\ ~inFlight[j] /\ posts[j] = 0
                  \/ Become(j, "UNKNOWN")
               /\ UNCHANGED <<inFlight, posts>>

Reconcile(j) == /\ phase[j] = "UNKNOWN"
                /\ Become(j, "PUBLISHED") \/ Become(j, "FAILED")
                /\ UNCHANGED <<inFlight, posts>>

Next == \E j \in Jobs : \/ Send(j) \/ Post(j) \/ CallEnds(j)
                        \/ Retract(j) \/ Conclude(j) \/ Reconcile(j)

Spec == Init /\ [][Next]_vars
=============================================================================
