------------------------ MODULE NotificationDelivery ------------------------
(***************************************************************************)
(* External notifications (src/src/services/notification-service.ts).      *)
(*                                                                         *)
(* An event is prepared inside the transaction of the business step it     *)
(* reports: it counts on the notification of its key and adds a delivery   *)
(* for every channel that has had none within the cooldown.  After the     *)
(* commit the same process sends the deliveries it has made; the loop of a *)
(* worker (src/src/worker.ts) sends those that were left behind.  A        *)
(* delivery is claimed by a lease, sent to the endpoint of its channel,    *)
(* and marked.                                                             *)
(*                                                                         *)
(* Time: clock counts the units of the cooldown; a lease is fresh or stale *)
(* (lockedAt older than the lease).  StallPoints says where a live process *)
(* may be paused past its lease; a request itself takes ten seconds at     *)
(* most, the shortest lease is fifteen.  A lease token is random: the      *)
(* number of the claim, unique for its delivery, stands for it.            *)
(***************************************************************************)
EXTENDS Integers, Sequences

CONSTANTS Keys,        \* dedupe keys of one client
          Channels,    \* its external channels
          Processes,   \* workers and web requests
          Workers,     \* those that loop over what was left behind
          NoProcess,
          Cooldown,    \* cooldownMinutes of the rules
          StallPoints,
          MaxEvents,   \* bound: events of a key
          MaxClaims,   \* bound: claims of a delivery
          MaxTime,     \* bound of clock
          MaxCrashes   \* bound: crashes of processes

SendPoints == {"claimed", "sending", "answered"}
Points == {"down", "idle", "waiting", "planned", "dispatching"} \cup SendPoints

ASSUME ProcessAssumption ==
  /\ NoProcess \notin Processes /\ Workers \subseteq Processes
  /\ Processes # {} /\ Keys # {} /\ Channels # {}
ASSUME BoundsAssumption ==
  /\ Cooldown \in Nat /\ MaxEvents \in Nat \ {0} /\ MaxClaims \in Nat
  /\ MaxTime \in Nat /\ MaxCrashes \in Nat
  /\ StallPoints \subseteq SendPoints

VARIABLES
  note,      \* occurrenceCount of the InAppNotification row of a key, 0 if there is none
  row,       \* the NotificationDelivery rows of a key and channel, in the order of creation
  lock,      \* the process that holds the advisory lock of a key
  proc,      \* the processes
  clock,
  events,    \* events of a key that were started
  received,  \* requests of a delivery that reached the endpoint
  crashes

vars == <<note, row, lock, proc, clock, events, received, crashes>>

Ids == Keys \X Channels \X (1..MaxEvents)
Exists(d) == d[3] <= Len(row[d[1]][d[2]])
RowOf(d) == row[d[1]][d[2]][d[3]]
Deliveries == {d \in Ids : Exists(d)}
SetRow(d, r) == row' = [row EXCEPT ![d[1]][d[2]][d[3]] = r]

At(p, pc) == proc[p].pc = pc
Delivery(p) == proc[p].delivery

NoToken == 0
Outcomes == {"DELIVERED", "FAILED"}

\* A process that remembers nothing.
Rest(pc) == [pc |-> pc, key |-> CHOOSE k \in Keys : TRUE, now |-> 0, new |-> FALSE,
             plan |-> {}, mine |-> {}, delivery |-> CHOOSE d \in Ids : TRUE,
             token |-> NoToken, reached |-> FALSE, outcome |-> "FAILED"]

Init ==
  /\ note = [k \in Keys |-> 0]
  /\ row = [k \in Keys |-> [c \in Channels |-> <<>>]]
  /\ lock = [k \in Keys |-> NoProcess]
  /\ proc = [p \in Processes |-> Rest("idle")]
  /\ clock = 0
  /\ events = [k \in Keys |-> 0]
  /\ received = [d \in Ids |-> 0]
  /\ crashes = 0

-----------------------------------------------------------------------------
(* prepareNotificationEvent.                                               *)

\* The time is read before the lock is asked for.
StartEvent(p, k) ==
  /\ At(p, "idle") /\ events[k] < MaxEvents
  /\ events' = [events EXCEPT ![k] = @ + 1]
  /\ proc' = [proc EXCEPT ![p] = [Rest("waiting") EXCEPT !.key = k, !.now = clock]]
  /\ UNCHANGED <<note, row, lock, clock, received, crashes>>

LockFree(k) == lock[k] = NoProcess

\* Mutant: deliveries that have not arrived do not start a cooldown.
CooledSinceDelivered(k, c, now) ==
  \A i \in DOMAIN row[k][c] :
    row[k][c][i].status = "DELIVERED" => now - row[k][c][i].createdAt >= Cooldown

\* No delivery to c, or the latest was made a cooldown before now.
Cooled(k, c, now) ==
  LET made == row[k][c] IN made = <<>> \/ now - made[Len(made)].createdAt >= Cooldown

\* Under the lock the notification and the latest deliveries are read.  on are the
\* channels that are verified and have a rule for the event.
PlanEvent(p) ==
  LET k == proc[p].key IN
  /\ At(p, "waiting") /\ LockFree(k)
  /\ lock' = [lock EXCEPT ![k] = p]
  /\ \E on \in SUBSET Channels :
       proc' = [proc EXCEPT ![p] =
                  [@ EXCEPT !.pc = "planned", !.new = note[k] = 0,
                            !.plan = {c \in on : Cooled(k, c, proc[p].now)}]]
  /\ UNCHANGED <<note, row, clock, events, received, crashes>>

NewRow(created) ==
  [status |-> "PENDING", token |-> NoToken, fresh |-> FALSE, attempts |-> 0,
   createdAt |-> created]

\* clientId and dedupeKey are unique: a second notification of the key is refused.
KeyIsFree(p) == proc[p].new => note[proc[p].key] = 0

\* The business transaction commits: its rows become visible and the lock is released.  A
\* row is stamped when it is inserted, between the start of the event and its commit.
CommitEvent(p) ==
  LET k == proc[p].key IN
  /\ At(p, "planned") /\ KeyIsFree(p) /\ note[k] < MaxEvents
  /\ note' = [note EXCEPT ![k] = @ + 1]
  /\ \E created \in proc[p].now..clock :
       row' = [row EXCEPT ![k] = [c \in Channels |->
                 IF c \in proc[p].plan THEN Append(@[c], NewRow(created)) ELSE @[c]]]
  /\ lock' = [lock EXCEPT ![k] = NoProcess]
  /\ proc' = [proc EXCEPT ![p] =
                [Rest("dispatching") EXCEPT
                   !.mine = {<<k, c, Len(row[k][c]) + 1>> : c \in proc[p].plan}]]
  /\ UNCHANGED <<clock, events, received, crashes>>

\* The business transaction fails, and its events with it.
RollBackEvent(p) ==
  /\ At(p, "planned")
  /\ lock' = [lock EXCEPT ![proc[p].key] = NoProcess]
  /\ proc' = [proc EXCEPT ![p] = Rest("idle")]
  /\ UNCHANGED <<note, row, clock, events, received, crashes>>

-----------------------------------------------------------------------------
(* Dispatch.                                                               *)

\* Mutants: a lease is taken over before it is stale; what a dead process has claimed is left.
AnyPending(r) == r.status = "PENDING"
NeverClaimed(r) == r.status = "PENDING" /\ r.token = NoToken

Claimable(r) == r.status = "PENDING" /\ (r.token = NoToken \/ ~r.fresh)

Claim(p, d) ==
  LET r == RowOf(d) IN
  /\ Claimable(r) /\ r.attempts < MaxClaims
  /\ SetRow(d, [r EXCEPT !.token = r.attempts + 1, !.fresh = TRUE, !.attempts = @ + 1])
  /\ proc' = [proc EXCEPT ![p] = [@ EXCEPT !.pc = "claimed", !.delivery = d,
                                           !.token = r.attempts + 1]]
  /\ UNCHANGED <<note, lock, clock, events, received, crashes>>

\* dispatchPreparedNotification: the deliveries this process made, unless they are taken.
ClaimPrepared(p) == At(p, "dispatching") /\ \E d \in proc[p].mine : Claim(p, d)

SkipPrepared(p) ==
  /\ At(p, "dispatching")
  /\ \E d \in proc[p].mine :
       /\ ~Claimable(RowOf(d))
       /\ proc' = [proc EXCEPT ![p].mine = @ \ {d}]
  /\ UNCHANGED <<note, row, lock, clock, events, received, crashes>>

DispatchEnds(p) ==
  /\ At(p, "dispatching") /\ proc[p].mine = {}
  /\ proc' = [proc EXCEPT ![p] = Rest("idle")]
  /\ UNCHANGED <<note, row, lock, clock, events, received, crashes>>

\* dispatchPendingNotificationDeliveries: the oldest, or a later one while another
\* process has the row locked (SKIP LOCKED).
ClaimNext(p) == p \in Workers /\ At(p, "idle") /\ \E d \in Deliveries : Claim(p, d)

\* What a process has left to do after a delivery.
WithoutDelivery(p) == [Rest("dispatching") EXCEPT !.mine = proc[p].mine \ {Delivery(p)}]

Holds(p) == RowOf(Delivery(p)).status = "PENDING" /\ RowOf(Delivery(p)).token = proc[p].token

\* dispatchClaimedNotificationDelivery reads the row again; without the lease it stops.
\* A channel without a valid endpoint fails before anything is sent.
LoadDelivery(p) ==
  /\ At(p, "claimed")
  /\ \/ ~Holds(p) /\ proc' = [proc EXCEPT ![p] = WithoutDelivery(p)]
     \/ Holds(p) /\ proc' = [proc EXCEPT ![p].pc = "sending"]
     \/ Holds(p) /\ proc' = [proc EXCEPT ![p].pc = "answered"]
  /\ UNCHANGED <<note, row, lock, clock, events, received, crashes>>

\* The request reaches the endpoint, once.
EndpointReceives(p) ==
  /\ At(p, "sending") /\ ~proc[p].reached
  /\ received' = [received EXCEPT ![Delivery(p)] = @ + 1]
  /\ proc' = [proc EXCEPT ![p].reached = TRUE]
  /\ UNCHANGED <<note, row, lock, clock, events, crashes>>

\* A success is answered to a request that arrived; an error, or nothing in time, also
\* to one that did not.
TransportEnds(p) ==
  /\ At(p, "sending")
  /\ \E o \in Outcomes :
       /\ o = "DELIVERED" => proc[p].reached
       /\ proc' = [proc EXCEPT ![p] = [@ EXCEPT !.pc = "answered", !.outcome = o]]
  /\ UNCHANGED <<note, row, lock, clock, events, received, crashes>>

\* Mutant: a failure is given back to be sent again.
SettledOrRetried(r, o) ==
  [r EXCEPT !.status = IF o = "FAILED" THEN "PENDING" ELSE o, !.token = NoToken,
            !.fresh = FALSE]

Settled(r, o) == [r EXCEPT !.status = o, !.token = NoToken, !.fresh = FALSE]

\* Mutant: the lease left out of the where clause.
MayMarkPending(p) == RowOf(Delivery(p)).status = "PENDING"

MayMark(p) == RowOf(Delivery(p)).status = "PENDING" /\ RowOf(Delivery(p)).token = proc[p].token

Mark(p) ==
  IF MayMark(p) THEN SetRow(Delivery(p), Settled(RowOf(Delivery(p)), proc[p].outcome))
                ELSE UNCHANGED row

\* The statement that marks the delivery as delivered throws, carried out or not, inside
\* the try block: the catch block then marks it as failed.
MarkingThrows(p) ==
  /\ At(p, "answered") /\ proc[p].outcome = "DELIVERED"
  /\ Mark(p) \/ UNCHANGED row
  /\ proc' = [proc EXCEPT ![p].outcome = "FAILED"]
  /\ UNCHANGED <<note, lock, clock, events, received, crashes>>

MarkDelivery(p) ==
  /\ At(p, "answered")
  /\ Mark(p)
  /\ proc' = [proc EXCEPT ![p] = WithoutDelivery(p)]
  /\ UNCHANGED <<note, lock, clock, events, received, crashes>>

-----------------------------------------------------------------------------
(* Time and failures.                                                      *)

Tick ==
  /\ clock < MaxTime
  /\ clock' = clock + 1
  /\ UNCHANGED <<note, row, lock, proc, events, received, crashes>>

Claimant(p, d) == proc[p].pc \in SendPoints /\ Delivery(p) = d /\ proc[p].token = RowOf(d).token

\* A lease goes stale when its process is gone, or paused where StallPoints says.
LeaseGoesStale(d) ==
  /\ Exists(d) /\ RowOf(d).fresh
  /\ \A p \in Processes : Claimant(p, d) => proc[p].pc \in StallPoints
  /\ SetRow(d, [RowOf(d) EXCEPT !.fresh = FALSE])
  /\ UNCHANGED <<note, lock, proc, clock, events, received, crashes>>

\* A process dies, or ends on an error of the database: its transaction is rolled back
\* and its advisory lock released.
Crash(p) ==
  /\ ~At(p, "down") /\ crashes < MaxCrashes
  /\ crashes' = crashes + 1
  /\ proc' = [proc EXCEPT ![p] = Rest("down")]
  /\ lock' = [k \in Keys |-> IF lock[k] = p THEN NoProcess ELSE lock[k]]
  /\ UNCHANGED <<note, row, clock, events, received>>

Restart(p) ==
  /\ At(p, "down")
  /\ proc' = [proc EXCEPT ![p] = Rest("idle")]
  /\ UNCHANGED <<note, row, lock, clock, events, received, crashes>>

PrepareStep(p) == PlanEvent(p) \/ CommitEvent(p) \/ RollBackEvent(p)
SendStep(p) ==
  \/ ClaimPrepared(p) \/ SkipPrepared(p) \/ DispatchEnds(p) \/ ClaimNext(p)
  \/ LoadDelivery(p) \/ TransportEnds(p) \/ MarkDelivery(p)

Next ==
  \/ \E p \in Processes :
       \/ \E k \in Keys : StartEvent(p, k)
       \/ PrepareStep(p) \/ SendStep(p)
       \/ EndpointReceives(p) \/ MarkingThrows(p) \/ Crash(p) \/ Restart(p)
  \/ Tick
  \/ \E d \in Ids : LeaseGoesStale(d)

Spec == Init /\ [][Next]_vars

\* Transactions and requests end (the request by its time limit), a process that died is
\* started again, the worker loops, and the lease of a dead process runs out.
Fairness ==
  /\ \A p \in Processes :
       WF_vars(PrepareStep(p)) /\ WF_vars(SendStep(p)) /\ WF_vars(Restart(p))
  /\ \A d \in Ids : WF_vars(LeaseGoesStale(d))

FairSpec == Spec /\ Fairness

-----------------------------------------------------------------------------
(* Properties.                                                             *)

ProcTypes ==
  [pc : Points, key : Keys, now : 0..MaxTime, new : BOOLEAN, plan : SUBSET Channels,
   mine : SUBSET Ids, delivery : Ids, token : 0..MaxClaims, reached : BOOLEAN,
   outcome : Outcomes]

RowTypes ==
  [status : {"PENDING"} \cup Outcomes, token : 0..MaxClaims, fresh : BOOLEAN,
   attempts : 0..MaxClaims, createdAt : 0..MaxTime]

\* Every row, process and counter has its type, and no process remembers a delivery of
\* its own that does not exist.
TypeOK ==
  /\ note \in [Keys -> 0..MaxEvents]
  /\ row \in [Keys -> [Channels -> Seq(RowTypes)]]
  /\ lock \in [Keys -> Processes \cup {NoProcess}]
  /\ proc \in [Processes -> ProcTypes]
  /\ \A p \in Processes : proc[p].mine \subseteq Deliveries
  /\ clock \in 0..MaxTime
  /\ events \in [Keys -> 0..MaxEvents]
  /\ received \in [Ids -> Nat]
  /\ crashes \in 0..MaxCrashes

\* A channel gets no two deliveries of one key within the cooldown, whichever processes
\* report the event at the same time (prepareNotificationEvent's lock and its test).
CooldownKept ==
  \A k \in Keys, c \in Channels : \A i, j \in DOMAIN row[k][c] :
    i < j => row[k][c][j].createdAt - row[k][c][i].createdAt >= Cooldown

\* A business transaction is never rolled back because another has made the notification
\* of the same key first: whoever read that there is none is still right when it inserts.
NoKeyConflict == \A p \in Processes : At(p, "planned") => KeyIsFree(p)

\* What is settled stays as it is: no late answer, take-over or restart reopens or
\* rewrites a delivery that was delivered or has failed.
SettledIsFinal ==
  [][\A d \in Ids : Exists(d) /\ RowOf(d).status # "PENDING" => RowOf(d)' = RowOf(d)]_vars

\* While the lease of a live claimant is fresh only the claimant itself, or the clock that
\* ends the lease, changes the row: no answer of an earlier claim is put in its place.
LeaseProtects ==
  [][\A d \in Ids, p \in Processes :
       Exists(d) /\ RowOf(d).fresh /\ Claimant(p, d) =>
         RowOf(d)' \in {RowOf(d), [RowOf(d) EXCEPT !.fresh = FALSE]} \/ proc'[p] # proc[p]]_vars

\* If no process is paused past its lease, two are never in the request of one delivery.
OneSenderAtATime ==
  \A p, q \in Processes :
    At(p, "sending") /\ At(q, "sending") /\ Delivery(p) = Delivery(q) => p = q

\* If no process is paused past its lease, an endpoint gets a delivery once, and once more
\* for every process that died: errors and missing answers are never sent again.
ResentAfterCrashOnly == \A d \in Ids : received[d] <= 1 + crashes

\* Every delivery is settled at last, also if the process that made or claimed it died.
EveryDeliverySettles ==
  \A d \in Ids : Exists(d) ~> (Exists(d) /\ RowOf(d).status # "PENDING")
=============================================================================
