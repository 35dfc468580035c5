------------------------- MODULE PublishQueueProofs -------------------------
(***************************************************************************)
(* QueueInv of PublishWorker is inductive when no worker outsleeps a lease *)
(* between its claim and the read of the claimed row, and the safety       *)
(* properties of the publish queue follow from it; and so does that the    *)
(* queue implements AtMostOncePublish.  That unknown outcomes are handed   *)
(* over holds wherever a worker sleeps (HandOverInv).                      *)
(***************************************************************************)
EXTENDS PublishWorkerProofs

\* Attempts that do not change leave the same numbers open.
LEMMA OpenUnchanged ==
  ASSUME NEW j \in Jobs, attempts'[j] = attempts[j]
  PROVE  OpenNumbers(j)' = OpenNumbers(j) /\ LatestOpen(j)' = LatestOpen(j)
  <1>1. OpenNumbers(j)' = OpenNumbers(j) BY DEF OpenNumbers
  <1> QED BY <1>1 DEF LatestOpen

\* A worker that a step leaves alone, and that gains no lease by it.
LEMMA BeforeCallFrame ==
  ASSUME TypeOK, NEW v \in Workers, BeforeCall(v),
         worker'[v] = worker[v], attempts'[JobOf(v)] = attempts[JobOf(v)],
         Holds(v)' => Holds(v),
         At(v, "claimed") => job'[JobOf(v)] = job[JobOf(v)]
  PROVE  BeforeCall(v)'
  <1>1. JobOf(v) \in Jobs /\ JobOf(v)' = JobOf(v) BY DEF TypeOK, Works, JobOf
  <1>2. OpenNumbers(JobOf(v))' = OpenNumbers(JobOf(v)) BY <1>1, OpenUnchanged
  <1>3. At(v, "claimed") => Holds(v)' BY <1>1 DEF BeforeCall, Holds
  <1> QED BY <1>1, <1>2, <1>3 DEF BeforeCall, At

LEMMA DuringCallFrame ==
  ASSUME TypeOK, NEW v \in Workers, DuringCall(v),
         worker'[v] = worker[v],
         worker[v].pc \in InCall =>
           /\ attempts'[JobOf(v)] = attempts[JobOf(v)]
           /\ Holds(v)' => /\ Holds(v)
                           /\ item'[JobOf(v)] = item[JobOf(v)]
                           /\ gate'[JobOf(v)] = gate[JobOf(v)]
           /\ ~Holds(v)' => job'[JobOf(v)].status \in Over
  PROVE  DuringCall(v)'
  <1>1. JobOf(v) \in Jobs /\ JobOf(v)' = JobOf(v) BY DEF TypeOK, Works, JobOf
  <1>2. worker[v].pc \in InCall => OpenNumbers(JobOf(v))' = OpenNumbers(JobOf(v))
    BY <1>1, OpenUnchanged
  <1> QED BY <1>1, <1>2 DEF DuringCall, GateOpen

-----------------------------------------------------------------------------
(* Steps after which a worker remembers nothing *)

LEMMA InitQueueInv == Init => QueueInv
  <1> SUFFICES ASSUME Init PROVE QueueInv OBVIOUS
  <1>1. /\ \A j \in Jobs : /\ attempts[j] = <<>> /\ posts[j] = 0
                           /\ job[j].status = "PENDING" /\ job[j].lockedBy = NoToken
                           /\ job[j].attemptCount = 0
        /\ \A w \in Workers : worker[w].pc = "idle" /\ worker[w].scan = {}
    BY DEF Init, Rest
  <1>2. \A j \in Jobs : DOMAIN attempts[j] = {} /\ Len(attempts[j]) = 0
    BY <1>1
  <1>3. LeaseInv BY <1>1 DEF LeaseInv, Busy
  <1>5. CallInv BY <1>1 DEF CallInv, BeforeCall, DuringCall, InCall, At
  <1>6. ScanInv BY <1>1 DEF ScanInv
  <1>7. LedgerInv BY <1>1, <1>2 DEF LedgerInv
  <1>8. PostInv BY <1>1 DEF PostInv, InCall, At
  <1>9. BudgetInv
    BY <1>1, <1>2, ConstantsAssumption DEF BudgetInv, At, ConstantsAssumption
  <1> QED BY <1>3, <1>5, <1>6, <1>7, <1>8, <1>9 DEF QueueInv

LEMMA RestStep ==
  ASSUME TypeOK, QueueInv, NEW w \in Workers, NEW pc \in {"idle", "down"},
         worker' = [worker EXCEPT ![w] = Rest(pc)],
         UNCHANGED <<job, attempts, item, gate, task, posts>>
  PROVE  QueueInv'
  <1>1. /\ worker'[w].pc = pc /\ worker'[w].scan = {}
        /\ \A v \in Workers : v # w => worker'[v] = worker[v]
    BY DEF Rest, TypeOK
  <1>2. \A j \in Jobs : OpenNumbers(j)' = OpenNumbers(j) /\ LatestOpen(j)' = LatestOpen(j)
    BY OpenUnchanged
  <1>3. LeaseInv' BY <1>1 DEF QueueInv, LeaseInv, Busy, JobOf
  <1>4. ASSUME NEW v \in Workers PROVE BeforeCall(v)' /\ DuringCall(v)'
    <2>1. CASE v = w BY <1>1, <2>1 DEF BeforeCall, DuringCall, At, InCall
    <2>2. CASE v # w
      <3>1. Holds(v)' <=> Holds(v) BY <1>1, <2>2 DEF Holds, JobOf
      <3> QED BY <1>1, <2>2, <3>1, BeforeCallFrame, DuringCallFrame
              DEF QueueInv, CallInv, DuringCall, JobOf, TypeOK, Works
    <2> QED BY <2>1, <2>2
  <1>5. CallInv' BY <1>1, <1>4 DEF QueueInv, CallInv, InCall, JobOf
  <1>6. ScanInv' BY <1>1, <1>2 DEF QueueInv, ScanInv, StillStale, TypeOK, Works
  <1>7. LedgerInv' BY DEF QueueInv, LedgerInv
  <1>8. PostInv' BY <1>1, <1>2 DEF QueueInv, PostInv, InCall, At, JobOf
  <1>9. BudgetInv' BY <1>1, <1>2 DEF QueueInv, BudgetInv, At
  <1> QED BY <1>3, <1>5, <1>6, <1>7, <1>8, <1>9 DEF QueueInv

\* Of two workers that hold the lease of one job, one is the other.
LEMMA HolderIsUnique ==
  ASSUME QueueInv, NEW v \in Workers, NEW w \in Workers,
         worker[v].pc \in Busy, worker[w].pc \in Busy,
         JobOf(v) = JobOf(w), Holds(v), Holds(w)
  PROVE  v = w
  <1>1. worker[v].token = worker[w].token BY DEF Holds
  <1> QED BY <1>1 DEF QueueInv, LeaseInv

\* A running job with no open call goes back: requeued, cancelled or parked.
LEMMA GivenBackStep ==
  ASSUME TypeOK, QueueInv, NEW w \in Workers, NEW j \in Jobs,
         NEW s \in {"RETRY", "CANCELLED", "WAITING_CONFIGURATION"},
         job[j].status = "RUNNING", OpenNumbers(j) = {},
         \A v \in Workers : At(v, "claimed") /\ v # w => JobOf(v) # j,
         \A i \in Jobs : i # j => job'[i] = job[i],
         job'[j].status = s, job'[j].lockedBy = NoToken,
         job'[j].attemptCount = job[j].attemptCount,
         \A v \in Workers : v # w => worker'[v] = worker[v],
         worker'[w].pc \notin Busy, worker'[w].scan \subseteq worker[w].scan,
         \A i \in Jobs : task[i] \subseteq task'[i],
         UNCHANGED <<attempts, item, gate, posts>>
  PROVE  QueueInv'
  <1>1. \A v \in Workers : worker[v].pc \in InCall => JobOf(v) # j
    BY DEF QueueInv, CallInv, DuringCall, Over, Holds
  <1>2. \A i \in Jobs : OpenNumbers(i)' = OpenNumbers(i) /\ LatestOpen(i)' = LatestOpen(i)
    BY OpenUnchanged
  <1>3. \A v \in Workers : v # w =>
          /\ JobOf(v) \in Jobs /\ JobOf(v)' = JobOf(v)
          /\ \A pc : At(v, pc)' <=> At(v, pc)
          /\ JobOf(v) # j => (Holds(v)' <=> Holds(v)) /\ job'[JobOf(v)] = job[JobOf(v)]
          /\ JobOf(v) = j => ~Holds(v)'
    BY DEF TypeOK, Works, JobOf, At, Holds
  <1>4. LeaseInv' BY <1>3 DEF QueueInv, LeaseInv
  <1>5. ASSUME NEW v \in Workers PROVE BeforeCall(v)' /\ DuringCall(v)'
    <2>1. CASE v = w BY <2>1 DEF BeforeCall, DuringCall, At, InCall, Busy
    <2>2. CASE v # w
      <3>1. Holds(v)' => Holds(v) BY <1>3, <2>2
      <3>2. At(v, "claimed") => job'[JobOf(v)] = job[JobOf(v)] BY <1>3, <2>2
      <3>3. BeforeCall(v)'
        BY <2>2, <3>1, <3>2, BeforeCallFrame DEF QueueInv, CallInv
      <3>4. worker[v].pc \in InCall => (Holds(v)' <=> Holds(v)) /\ job'[JobOf(v)] = job[JobOf(v)]
        BY <1>1, <1>3, <2>2
      <3>5. DuringCall(v)'
        BY <2>2, <3>4, DuringCallFrame DEF QueueInv, CallInv, DuringCall
      <3> QED BY <3>3, <3>5
    <2> QED BY <2>1, <2>2
  <1>6. CallInv'
    <2>1. worker'[w].pc \notin InCall BY DEF Busy, InCall
    <2> QED BY <1>3, <1>5, <2>1 DEF QueueInv, CallInv
  <1>7. ScanInv'
    <2>1. \A v \in Workers : \A r \in worker'[v].scan : r \in worker[v].scan /\ r.job \in Jobs
      <3>1. \A v \in Workers : worker'[v].scan \subseteq worker[v].scan OBVIOUS
      <3>2. \A v \in Workers : \A r \in worker[v].scan : r.job \in Jobs BY DEF TypeOK, Works
      <3> QED BY <3>1, <3>2
    <2> QED BY <1>2, <2>1 DEF QueueInv, ScanInv, StillStale
  <1>8. LedgerInv'
    <2>1. \A i \in Jobs : job'[i].attemptCount = job[i].attemptCount OBVIOUS
    <2>2. \A k \in DOMAIN attempts[j] : attempts[j][k] # "DISPATCHING" BY DEF OpenNumbers
    <2> QED BY <2>1, <2>2 DEF QueueInv, LedgerInv, Over
  <1>9. PostInv'
    <2>1. worker'[w].pc \notin InCall BY DEF Busy, InCall
    <2> QED BY <1>1, <1>2, <1>3, <2>1 DEF QueueInv, PostInv, At, Over, InCall
  <1>10. BudgetInv'
    <2>1. worker'[w].pc # "answered" BY DEF Busy
    <2> QED BY <1>2, <2>1 DEF QueueInv, BudgetInv, At
  <1> QED BY <1>4, <1>5, <1>6, <1>7, <1>8, <1>9, <1>10 DEF QueueInv

\* A loaded job is given up before its call.
LEMMA ReleaseStep ==
  ASSUME TypeOK, QueueInv, NEW w \in Workers, NEW s \in {"CANCELLED", "WAITING_CONFIGURATION"},
         At(w, "loaded"), Holds(w),
         job' = [job EXCEPT ![JobOf(w)] = Unlocked(JobOf(w), s)],
         worker' = [worker EXCEPT ![w] = Rest("idle")],
         \A i \in Jobs : task[i] \subseteq task'[i],
         UNCHANGED <<attempts, item, gate, posts>>
  PROVE  QueueInv'
  <1> DEFINE j == JobOf(w)
  <1>1. j \in Jobs BY DEF TypeOK, Works, JobOf
  <1>2. /\ worker'[w].pc \notin Busy /\ worker'[w].scan \subseteq worker[w].scan
        /\ \A v \in Workers : v # w => worker'[v] = worker[v]
    BY DEF Rest, TypeOK, Busy
  <1>3. /\ \A i \in Jobs : i # j => job'[i] = job[i]
        /\ job'[j].status = s /\ job'[j].lockedBy = NoToken
        /\ job'[j].attemptCount = job[j].attemptCount
        /\ job[j].status = "RUNNING" /\ job[j].lockedBy = worker[w].token
    BY <1>1 DEF TypeOK, JobRows, Unlocked, Holds
  <1>4. OpenNumbers(j) = {} BY DEF QueueInv, CallInv, BeforeCall
  <1>5. \A v \in Workers : At(v, "claimed") /\ v # w => JobOf(v) # j
    BY HolderIsUnique DEF QueueInv, CallInv, BeforeCall, At, Busy
  <1> HIDE DEF j
  <1> QED BY <1>1, <1>2, <1>3, <1>4, <1>5, GivenBackStep

-----------------------------------------------------------------------------
(* Steps that write a job and no lease *)

\* A job that nobody runs and whose outcome is not at stake changes its status, its
\* content changes, and no worker and no attempt does.
LEMMA UnleasedStep ==
  ASSUME TypeOK, QueueInv, NEW j \in Jobs,
         \A i \in Jobs : i # j => job'[i] = job[i] /\ item'[i] = item[i] /\ gate'[i] = gate[i],
         \/ job'[j] = job[j]
         \/ /\ job[j].status \in MutableStatus \cup {"CANCELLED"}
            /\ job'[j].status \in MutableStatus \cup {"CANCELLED"}
            /\ job'[j].lockedBy = job[j].lockedBy
            /\ job'[j].attemptCount = job[j].attemptCount
            /\ \/ job'[j].status = "CANCELLED" \/ job'[j].status = job[j].status
               \/ job[j].attemptCount = 0,
         job[j].status = "RUNNING" /\ item[j] = "RUNNING" => item'[j] = "RUNNING" /\ gate'[j] = gate[j],
         UNCHANGED <<attempts, task, worker, posts>>
  PROVE  QueueInv'
  <1>1. \A i \in Jobs : OpenNumbers(i)' = OpenNumbers(i) /\ LatestOpen(i)' = LatestOpen(i)
    BY OpenUnchanged
  <1>2. \A i \in Jobs :
          /\ job'[i].lockedBy = job[i].lockedBy /\ job'[i].attemptCount = job[i].attemptCount
          /\ job[i].status \in Over \cup {"RUNNING"} => job'[i] = job[i]
          /\ job[i].status \notin Over \cup {"RUNNING"}
               => job'[i].status \notin Over \cup {"RUNNING"}
    BY DEF MutableStatus, Over
  <1>3. \A v \in Workers : JobOf(v) \in Jobs /\ JobOf(v)' = JobOf(v)
    BY DEF TypeOK, Works, JobOf
  <1>4. \A v \in Workers : /\ Holds(v)' <=> Holds(v)
                           /\ Holds(v) => job'[JobOf(v)] = job[JobOf(v)]
    BY <1>2, <1>3 DEF Holds
  <1>5. LeaseInv' BY <1>2, <1>3 DEF QueueInv, LeaseInv
  <1>6. ASSUME NEW v \in Workers PROVE BeforeCall(v)' /\ DuringCall(v)'
    <2>1. At(v, "claimed") => job'[JobOf(v)] = job[JobOf(v)]
      BY <1>4 DEF QueueInv, CallInv, BeforeCall
    <2>2. BeforeCall(v)' BY <1>4, <2>1, BeforeCallFrame DEF QueueInv, CallInv
    <2>3. worker[v].pc \in InCall /\ Holds(v) =>
            item'[JobOf(v)] = item[JobOf(v)] /\ gate'[JobOf(v)] = gate[JobOf(v)]
      BY <1>3 DEF QueueInv, CallInv, DuringCall, Holds
    <2>4. worker[v].pc \in InCall /\ ~Holds(v) => job'[JobOf(v)].status \in Over
      BY <1>2, <1>3 DEF QueueInv, CallInv, DuringCall
    <2>5. DuringCall(v)' BY <1>4, <2>3, <2>4, DuringCallFrame DEF QueueInv, CallInv
    <2> QED BY <2>2, <2>5
  <1>7. CallInv' BY <1>3, <1>6 DEF QueueInv, CallInv
  <1>8. ScanInv'
    <2>1. \A v \in Workers : \A r \in worker[v].scan : r.job \in Jobs
      BY DEF TypeOK, Works
    <2> QED BY <1>1, <1>2, <2>1 DEF QueueInv, ScanInv, StillStale
  <1>9. LedgerInv' BY <1>2 DEF QueueInv, LedgerInv, Over
  <1>10. PostInv' BY <1>1, <1>2, <1>3 DEF QueueInv, PostInv, At, Over
  <1>11. BudgetInv'
    <2>1. \A i \in Jobs : job'[i].status \in {"PENDING", "RETRY", "RUNNING"} =>
            job[i].status \in {"PENDING", "RETRY", "RUNNING"} \/ Len(attempts[i]) = 0
      BY DEF QueueInv, LedgerInv
    <2> QED BY <1>1, <2>1, ConstantsAssumption
            DEF QueueInv, BudgetInv, At, ConstantsAssumption
  <1> QED BY <1>5, <1>6, <1>7, <1>8, <1>9, <1>10, <1>11 DEF QueueInv

LEMMA ContentStep ==
  ASSUME TypeOK, QueueInv, NEW j \in Jobs,
         \/ EditContentVersion(j) \/ SubmitForReview(j) \/ ReviewContent(j)
         \/ UpdateProductFacts(j) \/ SchedulePublication(j)
  PROVE  QueueInv'
  <1>1. CASE SchedulePublication(j)
    <2>1. /\ \A i \in Jobs : i # j => job'[i] = job[i] /\ item'[i] = item[i] /\ gate'[i] = gate[i]
          /\ UNCHANGED <<attempts, task, worker, posts>>
          /\ job[j].status = "CANCELLED" /\ job[j].attemptCount = 0
      BY <1>1 DEF SchedulePublication, TypeOK
    <2>2. /\ job'[j].status = "PENDING" /\ job'[j].lockedBy = job[j].lockedBy
          /\ job'[j].attemptCount = job[j].attemptCount
      <3> DEFINE env == IF mode = "DEMO" THEN "SIMULATED" ELSE "LIVE"
      <3>1. PICK now \in BOOLEAN :
              job' = [job EXCEPT ![j] = [@ EXCEPT !.status = "PENDING", !.due = now,
                                                  !.environment = env]]
        BY <1>1 DEF SchedulePublication
      <3> HIDE DEF env
      <3> QED BY <3>1 DEF TypeOK, JobRows
    <2> QED BY <2>1, <2>2, UnleasedStep DEF MutableStatus
  <1>2. CASE EditContentVersion(j) \/ SubmitForReview(j) \/ ReviewContent(j) \/ UpdateProductFacts(j)
    <2>1. /\ \A i \in Jobs : i # j => job'[i] = job[i] /\ item'[i] = item[i] /\ gate'[i] = gate[i]
          /\ item[j] # "RUNNING"
          /\ UNCHANGED <<attempts, task, worker, posts>>
          /\ job' = CancelScheduled(j)
      BY <1>2 DEF EditContentVersion, SubmitForReview, ReviewContent, UpdateProductFacts,
                  CancelScheduled, TypeOK, NotSending
    <2>2. \/ job'[j] = job[j]
          \/ /\ job[j].status \in MutableStatus \cup {"CANCELLED"}
             /\ job'[j].status \in MutableStatus \cup {"CANCELLED"}
             /\ job'[j].lockedBy = job[j].lockedBy
             /\ job'[j].attemptCount = job[j].attemptCount
             /\ job'[j].status = "CANCELLED"
      BY <2>1 DEF CancelScheduled, TypeOK, JobRows
    <2> QED BY <2>1, <2>2, UnleasedStep
  <1> QED BY <1>1, <1>2

-----------------------------------------------------------------------------
(* Steps that touch nothing but the clock of a lease or of the queue *)

\* Only stale, passed and due change, never of a job that was just claimed.
LEMMA ClockStep ==
  ASSUME TypeOK, QueueInv,
         \A i \in Jobs : /\ job'[i].status = job[i].status /\ job'[i].lockedBy = job[i].lockedBy
                         /\ job'[i].attemptCount = job[i].attemptCount
                         /\ job'[i].passed = {} \/ job'[i].passed = job[i].passed,
         \A v \in Workers : At(v, "claimed") => job'[JobOf(v)].stale = job[JobOf(v)].stale,
         \A v \in Workers : /\ worker'[v].pc = worker[v].pc /\ worker'[v].job = worker[v].job
                            /\ worker'[v].token = worker[v].token
                            /\ worker'[v].number = worker[v].number
                            /\ worker'[v].made = worker[v].made
                            /\ worker'[v].outcome = worker[v].outcome
                            /\ worker'[v].scan = worker[v].scan,
         UNCHANGED <<attempts, item, gate, task, posts>>
  PROVE  QueueInv'
  <1>1. \A i \in Jobs : OpenNumbers(i)' = OpenNumbers(i) /\ LatestOpen(i)' = LatestOpen(i)
    BY OpenUnchanged
  <1>2. \A v \in Workers : /\ JobOf(v) \in Jobs /\ JobOf(v)' = JobOf(v)
                           /\ \A pc : At(v, pc)' <=> At(v, pc)
    BY DEF TypeOK, Works, JobOf, At
  <1>3. \A v \in Workers : Holds(v)' <=> Holds(v)
    BY <1>2 DEF Holds
  <1>4. LeaseInv' BY <1>2 DEF QueueInv, LeaseInv
  <1>5. \A v \in Workers : BeforeCall(v)' /\ DuringCall(v)'
    BY <1>1, <1>2, <1>3 DEF QueueInv, CallInv, BeforeCall, DuringCall, GateOpen
  <1>6. CallInv' BY <1>2, <1>5 DEF QueueInv, CallInv
  <1>7. ScanInv'
    <2>1. \A v \in Workers : \A r \in worker[v].scan : r.job \in Jobs
      BY DEF TypeOK, Works
    <2>2. \A v \in Workers : \A r \in worker[v].scan : StillStale(v, r)' => StillStale(v, r)
      BY <2>1 DEF StillStale
    <2> QED BY <1>1, <2>1, <2>2 DEF QueueInv, ScanInv
  <1>8. LedgerInv' BY DEF QueueInv, LedgerInv
  <1>9. PostInv' BY <1>1, <1>2 DEF QueueInv, PostInv
  <1>10. BudgetInv' BY <1>1, <1>2 DEF QueueInv, BudgetInv
  <1> QED BY <1>4, <1>5, <1>6, <1>7, <1>8, <1>9, <1>10 DEF QueueInv

LEMMA TimeStep ==
  ASSUME TypeOK, QueueInv, "claimed" \notin StallPoints, NEW j \in Jobs,
         LeaseGoesStale(j) \/ BecomesDue(j)
  PROVE  QueueInv'
  <1>1. CASE LeaseGoesStale(j)
    <2>1. \A i \in Jobs : /\ job'[i].status = job[i].status /\ job'[i].lockedBy = job[i].lockedBy
                          /\ job'[i].attemptCount = job[i].attemptCount
                          /\ job'[i].passed = job[i].passed
                          /\ i # j => job'[i] = job[i]
      BY <1>1 DEF LeaseGoesStale, TypeOK, JobRows
    <2>2. \A v \in Workers : At(v, "claimed") => JobOf(v) # j
      BY <1>1 DEF LeaseGoesStale, QueueInv, CallInv, BeforeCall, At, Holds
    <2>3. \A v \in Workers : JobOf(v) \in Jobs BY DEF TypeOK, Works, JobOf
    <2> QED BY <1>1, <2>1, <2>2, <2>3, ClockStep DEF LeaseGoesStale
  <1>2. CASE BecomesDue(j)
    <2>1. \A i \in Jobs : /\ job'[i].status = job[i].status /\ job'[i].lockedBy = job[i].lockedBy
                          /\ job'[i].attemptCount = job[i].attemptCount
                          /\ job'[i].passed = job[i].passed
                          /\ job'[i].stale = job[i].stale
      BY <1>2 DEF BecomesDue, TypeOK, JobRows
    <2>2. \A v \in Workers : JobOf(v) \in Jobs BY DEF TypeOK, Works, JobOf
    <2> QED BY <1>2, <2>1, <2>2, ClockStep DEF BecomesDue
  <1> QED BY <1>1, <1>2

LEMMA HeartbeatStep ==
  ASSUME TypeOK, QueueInv, NEW w \in Workers, Heartbeat(w) \/ HeartbeatFails(w)
  PROVE  QueueInv'
  <1>1. \A v \in Workers : JobOf(v) \in Jobs BY DEF TypeOK, Works, JobOf
  <1>2. CASE Heartbeat(w) /\ Holds(w)
    <2>1. /\ job' = [job EXCEPT ![JobOf(w)] = Renewed(JobOf(w))]
          /\ UNCHANGED <<worker, attempts, item, gate, task, posts>>
      BY <1>2 DEF Heartbeat
    <2>2. /\ \A i \in Jobs : /\ job'[i].status = job[i].status /\ job'[i].lockedBy = job[i].lockedBy
                             /\ job'[i].attemptCount = job[i].attemptCount
                             /\ job'[i].passed = {} \/ job'[i].passed = job[i].passed
          /\ \A i \in Jobs : ~job[i].stale => job'[i].stale = job[i].stale
      BY ZenonT(60), <1>1, <2>1 DEF Renewed, TypeOK, JobRows
    <2>3. \A v \in Workers : At(v, "claimed") => ~job[JobOf(v)].stale
      BY DEF QueueInv, CallInv, BeforeCall
    <2> QED BY <1>1, <2>1, <2>2, <2>3, ClockStep
  <1>3. CASE HeartbeatFails(w) \/ (Heartbeat(w) /\ ~Holds(w))
    <2>1. /\ worker' = [worker EXCEPT ![w].lost = TRUE]
          /\ UNCHANGED <<job, attempts, item, gate, task, posts>>
      BY <1>3 DEF Heartbeat, HeartbeatFails
    <2>2. \A v \in Workers : /\ worker'[v].pc = worker[v].pc /\ worker'[v].job = worker[v].job
                             /\ worker'[v].token = worker[v].token
                             /\ worker'[v].number = worker[v].number
                             /\ worker'[v].made = worker[v].made
                             /\ worker'[v].outcome = worker[v].outcome
                             /\ worker'[v].scan = worker[v].scan
      BY <2>1 DEF TypeOK, Works
    <2> QED BY <2>1, <2>2, ClockStep
  <1> QED BY <1>2, <1>3

LEMMA ModeStep == ASSUME TypeOK, QueueInv, ChangeMode PROVE QueueInv'
  BY ClockStep DEF ChangeMode

-----------------------------------------------------------------------------
(* Recovery of stale jobs *)

LEMMA ScanStep ==
  ASSUME TypeOK, QueueInv, NEW w \in Workers, ScanStaleJobs(w)
  PROVE  QueueInv'
  <1>1. /\ worker'[w].pc = "recovering"
        /\ worker'[w].scan = {[job |-> j, token |-> job[j].lockedBy, attempt |-> LatestOpen(j)] :
                                j \in StaleJobs}
        /\ \A v \in Workers : v # w => worker'[v] = worker[v]
    BY DEF ScanStaleJobs, Rest, TypeOK
  <1>2. \A i \in Jobs :
          /\ job'[i].status = job[i].status /\ job'[i].lockedBy = job[i].lockedBy
          /\ job'[i].attemptCount = job[i].attemptCount
          /\ job'[i].passed \subseteq job[i].passed \cup {w}
          /\ ~job[i].stale => job'[i] = job[i]
    BY DEF ScanStaleJobs, StaleJobs, TypeOK, JobRows
  <1>3. UNCHANGED <<attempts, item, gate, task, posts>> BY DEF ScanStaleJobs
  <1>4. \A i \in Jobs : OpenNumbers(i)' = OpenNumbers(i) /\ LatestOpen(i)' = LatestOpen(i)
    BY <1>3, OpenUnchanged
  <1>5. LeaseInv' BY <1>1, <1>2 DEF QueueInv, LeaseInv, Busy, JobOf
  <1>6. ASSUME NEW v \in Workers PROVE BeforeCall(v)' /\ DuringCall(v)'
    <2>1. CASE v = w BY <1>1, <2>1 DEF BeforeCall, DuringCall, At, InCall
    <2>2. CASE v # w
      <3>1. JobOf(v) \in Jobs BY DEF TypeOK, Works, JobOf
      <3>2. Holds(v)' <=> Holds(v) BY <1>1, <1>2, <2>2, <3>1 DEF Holds, JobOf
      <3>3. At(v, "claimed") => job'[JobOf(v)] = job[JobOf(v)]
        BY <1>2, <3>1 DEF QueueInv, CallInv, BeforeCall
      <3>4. BeforeCall(v)'
        BY <1>1, <1>3, <2>2, <3>2, <3>3, BeforeCallFrame DEF QueueInv, CallInv
      <3>5. DuringCall(v)'
        BY <1>1, <1>2, <1>3, <2>2, <3>1, <3>2, DuringCallFrame DEF QueueInv, CallInv, DuringCall
      <3> QED BY <3>4, <3>5
    <2> QED BY <2>1, <2>2
  <1>7. CallInv' BY <1>1, <1>6 DEF QueueInv, CallInv, InCall, JobOf
  <1>8. ScanInv'
    <2>1. \A r \in worker'[w].scan : r.job \in Jobs /\ r.attempt = LatestOpen(r.job)
      BY <1>1 DEF StaleJobs
    <2>2. \A v \in Workers : v # w => \A r \in worker[v].scan :
            r.job \in Jobs /\ (StillStale(v, r)' => StillStale(v, r))
      BY <1>2 DEF StillStale, TypeOK, Works
    <2> QED BY <1>1, <1>4, <2>1, <2>2 DEF QueueInv, ScanInv
  <1>9. LedgerInv' BY <1>2, <1>3 DEF QueueInv, LedgerInv
  <1>10. PostInv' BY <1>1, <1>2, <1>3, <1>4 DEF QueueInv, PostInv, InCall, At, JobOf
  <1>11. BudgetInv' BY <1>1, <1>2, <1>3, <1>4 DEF QueueInv, BudgetInv, At
  <1> QED BY <1>5, <1>7, <1>8, <1>9, <1>10, <1>11 DEF QueueInv

\* A recovery that finds the row as it was scanned finds no worker before its call.
LEMMA NotClaimed ==
  ASSUME QueueInv, NEW w \in Workers, NEW r, r.job \in Jobs, StillStale(w, r)
  PROVE  /\ job[r.job].status = "RUNNING"
         /\ \A v \in Workers : At(v, "claimed") => JobOf(v) # r.job
  BY DEF QueueInv, CallInv, BeforeCall, StillStale

LEMMA RequeueStep ==
  ASSUME TypeOK, QueueInv, NEW w \in Workers, NEW r \in worker[w].scan,
         At(w, "recovering"), StillStale(w, r), Requeue(r),
         worker' = [worker EXCEPT ![w].scan = @ \ {r}],
         UNCHANGED <<gate, posts>>
  PROVE  QueueInv'
  <1>1. r.job \in Jobs BY DEF TypeOK, Works
  <1>2. /\ worker'[w].pc \notin Busy /\ worker'[w].scan \subseteq worker[w].scan
        /\ \A v \in Workers : v # w => worker'[v] = worker[v]
    BY DEF TypeOK, Works, At, Busy
  <1>3. /\ \A i \in Jobs : i # r.job => job'[i] = job[i]
        /\ job'[r.job].status = "RETRY" /\ job'[r.job].lockedBy = NoToken
        /\ job'[r.job].attemptCount = job[r.job].attemptCount
    BY <1>1 DEF Requeue, TypeOK, JobRows, Unlocked
  <1>4. OpenNumbers(r.job) = {}
    <2>1. LatestOpen(r.job) = 0 BY DEF Requeue, QueueInv, ScanInv
    <2>2. attempts[r.job] \in Seq(AttemptStatus) BY <1>1 DEF TypeOK
    <2>3. OpenNumbers(r.job) # {} => LatestOpen(r.job) \in 1 .. Len(attempts[r.job])
      BY <1>1, <2>2, LatestOpenMax
    <2> QED BY <2>1, <2>2, <2>3
  <1>5. UNCHANGED <<attempts, item, gate, posts, task>> BY DEF Requeue
  <1> QED BY <1>1, <1>2, <1>3, <1>4, <1>5, NotClaimed, GivenBackStep

LEMMA GiveUpStep ==
  ASSUME TypeOK, QueueInv, NEW w \in Workers, NEW r \in worker[w].scan,
         At(w, "recovering"), StillStale(w, r), GiveUpCall(r),
         worker' = [worker EXCEPT ![w].scan = @ \ {r}],
         UNCHANGED <<gate, posts>>
  PROVE  QueueInv'
  <1> DEFINE j == r.job
             n == Len(attempts[j])
  <1>1. j \in Jobs /\ \A v \in Workers : JobOf(v) \in Jobs BY DEF TypeOK, Works, JobOf
  <1>2. /\ \A v \in Workers : v # w => worker'[v] = worker[v]
        /\ worker'[w].pc = "recovering" /\ worker'[w].scan \subseteq worker[w].scan
    BY DEF TypeOK, Works, At
  <1>3. /\ \A i \in Jobs : i # j => /\ job'[i] = job[i] /\ attempts'[i] = attempts[i]
                                    /\ item'[i] = item[i] /\ task'[i] = task[i]
        /\ job'[j].status = "UNKNOWN" /\ job'[j].lockedBy = NoToken
        /\ job'[j].attemptCount = job[j].attemptCount
        /\ "PUBLISH_UNKNOWN" \in task'[j]
    BY <1>1 DEF GiveUpCall, TypeOK, JobRows, Unlocked
  <1>4. attempts[j] \in Seq(AttemptStatus) /\ n \in Nat /\ DOMAIN attempts[j] = 1 .. n
    BY <1>1, LenProperties DEF TypeOK
  <1>5. r.attempt = n /\ n \in 1 .. n
    <2>1. r.attempt = LatestOpen(j) /\ r.attempt # 0 BY DEF GiveUpCall, QueueInv, ScanInv
    <2>2. LatestOpen(j) \in OpenNumbers(j) BY <1>1, <1>4, <2>1, LatestOpenMax
    <2>3. attempts[j][LatestOpen(j)] = "DISPATCHING" /\ LatestOpen(j) \in 1 .. n
      BY <1>4, <2>2 DEF OpenNumbers
    <2> QED BY <1>1, <1>4, <2>1, <2>3 DEF QueueInv, LedgerInv
  <1>6. /\ attempts'[j] = [attempts[j] EXCEPT ![n] = "UNKNOWN"]
        /\ Len(attempts'[j]) = n /\ DOMAIN attempts'[j] = 1 .. n
        /\ attempts'[j][n] = "UNKNOWN"
        /\ \A k \in 1 .. n : k # n => attempts'[j][k] = attempts[j][k]
    <2>1. attempts'[j] = [attempts[j] EXCEPT ![n] = "UNKNOWN"]
      BY <1>1, <1>5 DEF GiveUpCall, TypeOK
    <2> QED BY <1>4, <1>5, <2>1, ExceptSeq, LenProperties DEF AttemptStatus
  <1>7. \A i \in Jobs : i # j => OpenNumbers(i)' = OpenNumbers(i) /\ LatestOpen(i)' = LatestOpen(i)
    BY <1>3, OpenUnchanged
  <1>8. OpenNumbers(j)' = {}
    <2>1. \A k \in 1 .. n : k < n => attempts[j][k] = "FAILED"
      BY <1>1, <1>4 DEF QueueInv, LedgerInv
    <2> QED BY <1>4, <1>6, <2>1 DEF OpenNumbers
  <1> HIDE DEF j, n
  <1>9. LeaseInv' BY <1>1, <1>2, <1>3 DEF QueueInv, LeaseInv, Busy, JobOf
  <1>10. ASSUME NEW v \in Workers PROVE BeforeCall(v)' /\ DuringCall(v)'
    <2>1. CASE v = w BY <1>2, <2>1 DEF BeforeCall, DuringCall, At, InCall
    <2>2. CASE v # w /\ JobOf(v) # j
      <3>1. /\ (Holds(v)' <=> Holds(v)) /\ job'[JobOf(v)] = job[JobOf(v)]
            /\ attempts'[JobOf(v)] = attempts[JobOf(v)] /\ item'[JobOf(v)] = item[JobOf(v)]
        BY <1>1, <1>2, <1>3, <2>2 DEF Holds, JobOf
      <3> QED BY <1>2, <2>2, <3>1, BeforeCallFrame, DuringCallFrame
              DEF QueueInv, CallInv, DuringCall
    <2>3. CASE v # w /\ JobOf(v) = j
      <3>1. JobOf(v)' = j /\ ~Holds(v)' /\ worker'[v] = worker[v]
        BY <1>2, <1>3, <2>3 DEF Holds, JobOf
      <3>2. ~At(v, "claimed") BY <1>1, <2>3, NotClaimed DEF j
      <3> QED BY <1>3, <3>1, <3>2 DEF QueueInv, CallInv, BeforeCall, DuringCall, At, Over
    <2> QED BY <2>1, <2>2, <2>3
  <1>11. CallInv' BY <1>2, <1>10 DEF QueueInv, CallInv, InCall, JobOf
  <1>12. ScanInv'
    <2>1. \A v \in Workers : worker'[v].scan \subseteq worker[v].scan BY <1>2
    <2>2. \A v \in Workers : \A q \in worker[v].scan :
            q.job \in Jobs /\ (StillStale(v, q)' => q.job # j /\ StillStale(v, q))
      BY <1>3 DEF StillStale, TypeOK, Works
    <2> QED BY <1>7, <2>1, <2>2 DEF QueueInv, ScanInv
  <1>13. LedgerInv'
    <2>1. \A i \in Jobs : Len(attempts'[i]) = job'[i].attemptCount
      BY <1>1, <1>3, <1>6 DEF QueueInv, LedgerInv, n
    <2>2. \A k \in 1 .. n : k < n => attempts[j][k] = "FAILED"
      BY <1>1, <1>4 DEF QueueInv, LedgerInv, n
    <2> QED BY <1>3, <1>4, <1>5, <1>6, <2>1, <2>2 DEF QueueInv, LedgerInv, Over
  <1>14. PostInv'
    BY <1>1, <1>2, <1>3, <1>7 DEF QueueInv, PostInv, InCall, At, JobOf, Over
  <1>15. BudgetInv'
    BY <1>1, <1>2, <1>3, <1>6, <1>7 DEF QueueInv, BudgetInv, At, n
  <1> QED BY <1>9, <1>11, <1>12, <1>13, <1>14, <1>15 DEF QueueInv

LEMMA RecoverStep ==
  ASSUME TypeOK, QueueInv, NEW w \in Workers, RecoverStaleJob(w)
  PROVE  QueueInv'
  <1>1. PICK r \in worker[w].scan :
          /\ worker' = [worker EXCEPT ![w].scan = @ \ {r}]
          /\ \/ StillStale(w, r) /\ (GiveUpCall(r) \/ Requeue(r))
             \/ ~StillStale(w, r) /\ UNCHANGED <<job, attempts, item, task>>
    BY DEF RecoverStaleJob
  <1>2. At(w, "recovering") /\ UNCHANGED <<gate, posts>> BY DEF RecoverStaleJob
  <1>3. CASE StillStale(w, r) /\ GiveUpCall(r) BY <1>1, <1>2, <1>3, GiveUpStep
  <1>4. CASE StillStale(w, r) /\ Requeue(r) BY <1>1, <1>2, <1>4, RequeueStep
  <1>5. CASE UNCHANGED <<job, attempts, item, task>>
    <2>1. /\ \A v \in Workers : v # w => worker'[v] = worker[v]
          /\ worker'[w].pc = "recovering" /\ worker'[w].scan \subseteq worker[w].scan
      BY <1>1, <1>2 DEF TypeOK, Works, At
    <2>2. LeaseInv' BY <1>5, <2>1 DEF QueueInv, LeaseInv, Busy, JobOf
    <2>3. ASSUME NEW v \in Workers PROVE BeforeCall(v)' /\ DuringCall(v)'
      <3>1. CASE v = w BY <2>1, <3>1 DEF BeforeCall, DuringCall, At, InCall
      <3>2. CASE v # w
        <4>1. Holds(v)' <=> Holds(v) BY <1>5, <2>1, <3>2 DEF Holds, JobOf
        <4> QED BY <1>2, <1>5, <2>1, <3>2, <4>1, BeforeCallFrame, DuringCallFrame
                DEF QueueInv, CallInv, DuringCall
      <3> QED BY <3>1, <3>2
    <2>4. CallInv' BY <2>1, <2>3 DEF QueueInv, CallInv, InCall, JobOf
    <2>5. ScanInv' 
      <3>1. \A v \in Workers : worker'[v].scan \subseteq worker[v].scan BY <2>1
      <3>2. \A i \in Jobs : LatestOpen(i)' = LatestOpen(i) BY <1>5, OpenUnchanged
      <3>3. \A v \in Workers : \A q \in worker[v].scan : q.job \in Jobs BY DEF TypeOK, Works
      <3> QED BY <1>5, <3>1, <3>2, <3>3 DEF QueueInv, ScanInv, StillStale
    <2>6. LedgerInv' BY <1>5 DEF QueueInv, LedgerInv
    <2>7. \A i \in Jobs : OpenNumbers(i)' = OpenNumbers(i) BY <1>5, OpenUnchanged
    <2>8. PostInv' BY <1>2, <1>5, <2>1, <2>7 DEF QueueInv, PostInv, InCall, At, JobOf
    <2>9. BudgetInv' BY SMTT(30), <1>5, <2>1, <2>7 DEF QueueInv, BudgetInv, At
    <2> QED BY <2>2, <2>4, <2>5, <2>6, <2>8, <2>9 DEF QueueInv
  <1> QED BY <1>1, <1>3, <1>4, <1>5

-----------------------------------------------------------------------------
(* Claim, read and gate *)

LEMMA ClaimStep ==
  ASSUME TypeOK, QueueInv, NEW w \in Workers, ClaimNextJob(w)
  PROVE  QueueInv'
  <1>1. UNCHANGED <<attempts, item, gate, task, posts>> BY DEF ClaimNextJob
  <1>2. CASE worker' = [worker EXCEPT ![w] = Rest("idle")] /\ UNCHANGED job
    BY <1>1, <1>2, RestStep
  <1>3. ASSUME NEW j \in Jobs, NEW t \in FreshTokens, Claimable(j),
               job' = [job EXCEPT ![j] = [Renewed(j) EXCEPT !.status = "RUNNING",
                                                            !.lockedBy = t]],
               worker' = [worker EXCEPT ![w] = [Rest("claimed") EXCEPT !.job = j, !.token = t]]
        PROVE  QueueInv'
    <2>1. /\ worker'[w].pc = "claimed" /\ worker'[w].job = j /\ worker'[w].token = t
          /\ worker'[w].scan = {} /\ worker'[w].made = FALSE
          /\ \A v \in Workers : v # w => worker'[v] = worker[v]
      BY <1>3 DEF Rest, TypeOK
    <2>2. /\ \A i \in Jobs : i # j => job'[i] = job[i]
          /\ job'[j].status = "RUNNING" /\ job'[j].lockedBy = t
          /\ job'[j].attemptCount = job[j].attemptCount
          /\ job'[j].stale = FALSE /\ job'[j].passed = {}
          /\ job[j].status \in {"PENDING", "RETRY"}
      BY <1>3 DEF Renewed, TypeOK, JobRows, Claimable
    <2>3. /\ t # NoToken
          /\ \A i \in Jobs : job[i].lockedBy # t
          /\ \A v \in Workers : worker[v].token # t
      BY ConstantsAssumption DEF FreshTokens, ConstantsAssumption
    <2>4. \A i \in Jobs : OpenNumbers(i)' = OpenNumbers(i) /\ LatestOpen(i)' = LatestOpen(i)
      BY <1>1, OpenUnchanged
    <2>5. OpenNumbers(j) = {} BY <2>2 DEF QueueInv, LedgerInv, OpenNumbers
    <2>6. LeaseInv' BY <2>1, <2>2, <2>3 DEF QueueInv, LeaseInv, JobOf, Busy
    <2>7. ASSUME NEW v \in Workers PROVE BeforeCall(v)' /\ DuringCall(v)'
      <3>1. CASE v = w
        BY <2>1, <2>2, <2>4, <2>5, <3>1 DEF BeforeCall, DuringCall, At, InCall, Holds, JobOf
      <3>2. CASE v # w /\ JobOf(v) # j
        <4>1. JobOf(v) \in Jobs BY DEF TypeOK, Works, JobOf
        <4>2. (Holds(v)' <=> Holds(v)) /\ job'[JobOf(v)] = job[JobOf(v)]
          BY <2>1, <2>2, <3>2, <4>1 DEF Holds, JobOf
        <4> QED BY <1>1, <2>1, <3>2, <4>2, BeforeCallFrame, DuringCallFrame
                DEF QueueInv, CallInv, DuringCall
      <3>3. CASE v # w /\ JobOf(v) = j
        <4>1. ~Holds(v)' /\ JobOf(v)' = j /\ worker'[v] = worker[v]
          BY <2>1, <2>2, <2>3, <3>3 DEF Holds, JobOf
        <4>2. ~Holds(v) BY <2>2, <3>3 DEF Holds
        <4> QED BY <2>2, <3>3, <4>1, <4>2
                DEF QueueInv, CallInv, BeforeCall, DuringCall, At, Over
      <3> QED BY <3>1, <3>2, <3>3
    <2>8. CallInv' BY <2>1, <2>7 DEF QueueInv, CallInv, InCall, JobOf
    <2>9. ScanInv'
      <3>1. \A v \in Workers : worker'[v].scan \subseteq worker[v].scan BY <2>1
      <3>2. \A v \in Workers : \A q \in worker[v].scan :
              q.job \in Jobs /\ (StillStale(v, q)' => q.job # j /\ StillStale(v, q))
        BY <2>2 DEF StillStale, TypeOK, Works
      <3> QED BY <2>4, <3>1, <3>2 DEF QueueInv, ScanInv
    <2>10. LedgerInv' BY <1>1, <2>2 DEF QueueInv, LedgerInv, Over
    <2>11. PostInv'
      BY <1>1, <2>1, <2>2, <2>4, <2>5 DEF QueueInv, PostInv, InCall, At, JobOf, Over
    <2>12. BudgetInv' BY <1>1, <2>1, <2>2, <2>4 DEF QueueInv, BudgetInv, At
    <2> QED BY <2>6, <2>8, <2>9, <2>10, <2>11, <2>12 DEF QueueInv
  <1> QED BY ZenonT(60), <1>2, <1>3 DEF ClaimNextJob

\* The row a worker reads is the one it claimed: the token it goes on under is its own.
LEMMA LoadStep ==
  ASSUME TypeOK, QueueInv, NEW w \in Workers, LoadJob(w)
  PROVE  QueueInv'
  <1> DEFINE j == JobOf(w)
  <1>1. UNCHANGED <<job, attempts, item, gate, task, posts>> BY DEF LoadJob
  <1>2. j \in Jobs BY DEF TypeOK, Works, JobOf
  <1>3. At(w, "claimed") /\ Holds(w) /\ OpenNumbers(j) = {} /\ ~worker[w].made
    BY DEF LoadJob, QueueInv, CallInv, BeforeCall, At
  <1>4. job[j].status = "RUNNING" /\ job[j].lockedBy = worker[w].token /\ worker[w].token # NoToken
    BY <1>2, <1>3 DEF Holds, QueueInv, LeaseInv
  <1>5. worker' = [worker EXCEPT ![w] = [@ EXCEPT
                 !.pc = "loaded", !.token = job[j].lockedBy,
                 !.number = job[j].attemptCount + 1,
                 !.valid = GateOpen(j) /\ BoundaryHolds(j)]]
    BY <1>4 DEF LoadJob
  <1>6. /\ worker'[w].pc = "loaded" /\ worker'[w].job = j
        /\ worker'[w].token = worker[w].token /\ worker'[w].number = job[j].attemptCount + 1
        /\ worker'[w].made = worker[w].made /\ worker'[w].scan = worker[w].scan
        /\ \A v \in Workers : v # w => worker'[v] = worker[v]
    BY <1>4, <1>5 DEF TypeOK, Works, JobOf
  <1> HIDE DEF j
  <1>7. \A i \in Jobs : OpenNumbers(i)' = OpenNumbers(i) /\ LatestOpen(i)' = LatestOpen(i)
    BY <1>1, OpenUnchanged
  <1>8. LeaseInv'
    <2>1. \A v \in Workers : /\ worker'[v].token = worker[v].token /\ JobOf(v)' = JobOf(v)
                             /\ worker'[v].pc \in Busy => worker[v].pc \in Busy
      BY <1>3, <1>6 DEF JobOf, At, Busy, j
    <2> QED BY <1>1, <2>1 DEF QueueInv, LeaseInv
  <1>9. ASSUME NEW v \in Workers PROVE BeforeCall(v)' /\ DuringCall(v)'
    <2>1. CASE v = w
      <3>1. JobOf(v)' = j /\ attempts' = attempts BY <1>1, <1>6, <2>1 DEF JobOf
      <3>2. worker'[w].number = Len(attempts[j]) + 1 BY <1>2, <1>6 DEF QueueInv, LedgerInv
      <3> QED BY <1>2, <1>3, <1>6, <1>7, <2>1, <3>1, <3>2
              DEF BeforeCall, DuringCall, At, InCall
    <2>2. CASE v # w
      <3>1. Holds(v)' <=> Holds(v) BY <1>1, <1>6, <2>2 DEF Holds, JobOf
      <3> QED BY <1>1, <1>6, <2>2, <3>1, BeforeCallFrame, DuringCallFrame
              DEF QueueInv, CallInv, DuringCall
    <2> QED BY <2>1, <2>2
  <1>10. CallInv' BY <1>6, <1>9 DEF QueueInv, CallInv, InCall, JobOf
  <1>11. ScanInv'
    <2>1. \A v \in Workers : worker'[v].scan = worker[v].scan BY <1>6
    <2>2. \A v \in Workers : \A q \in worker[v].scan : q.job \in Jobs BY DEF TypeOK, Works
    <2> QED BY <1>1, <1>7, <2>1, <2>2 DEF QueueInv, ScanInv, StillStale
  <1>12. LedgerInv' BY <1>1 DEF QueueInv, LedgerInv
  <1>13. PostInv' BY <1>1, <1>6, <1>7 DEF QueueInv, PostInv, InCall, At, JobOf
  <1>14. BudgetInv' BY <1>1, <1>6, <1>7 DEF QueueInv, BudgetInv, At
  <1> QED BY <1>8, <1>10, <1>11, <1>12, <1>13, <1>14 DEF QueueInv

LEMMA NoDispatchStep ==
  ASSUME TypeOK, QueueInv, NEW w \in Workers,
         CancelClaim(w) \/ AdapterUnavailable(w) \/ GateRefuses(w) \/ AttemptNumberTaken(w)
  PROVE  QueueInv'
  <1>1. CASE Holds(w) /\ ~AttemptNumberTaken(w)
    <2>1. PICK s \in {"CANCELLED", "WAITING_CONFIGURATION"} :
            job' = [job EXCEPT ![JobOf(w)] = Unlocked(JobOf(w), s)]
      BY <1>1 DEF CancelClaim, AdapterUnavailable, GateRefuses
    <2>2. /\ At(w, "loaded") /\ worker' = [worker EXCEPT ![w] = Rest("idle")]
          /\ UNCHANGED <<attempts, item, gate, posts>>
      BY <1>1 DEF CancelClaim, AdapterUnavailable, GateRefuses
    <2>3. \A i \in Jobs : task[i] \subseteq task'[i]
      <3>1. CASE AdapterUnavailable(w) BY ZenonT(60), <1>1, <3>1 DEF AdapterUnavailable, TypeOK
      <3>2. CASE task' = task BY <3>2
      <3> QED BY <1>1, <3>1, <3>2 DEF CancelClaim, GateRefuses
    <2> QED BY <1>1, <2>1, <2>2, <2>3, ReleaseStep
  <1>2. CASE ~Holds(w) \/ AttemptNumberTaken(w)
    <2>1. UNCHANGED <<job, attempts, item, gate, task, posts>>
      BY <1>2 DEF CancelClaim, AdapterUnavailable, GateRefuses, AttemptNumberTaken
    <2>2. \E pc \in {"idle", "down"} : worker' = [worker EXCEPT ![w] = Rest(pc)]
      BY DEF CancelClaim, AdapterUnavailable, GateRefuses, AttemptNumberTaken
    <2> QED BY <2>1, <2>2, RestStep
  <1> QED BY <1>1, <1>2

\* The gate: the one step that starts a call, of a job that no call is open for.
LEMMA OpenAttemptStep ==
  ASSUME TypeOK, QueueInv, NEW w \in Workers, OpenAttempt(w),
         NEW j \in Jobs, j = JobOf(w), NEW n \in Nat, n = Len(attempts[j])
  PROVE  QueueInv'
  <1>1. \A v \in Workers : JobOf(v) \in Jobs BY DEF TypeOK, Works, JobOf
  <1>2. /\ At(w, "loaded") /\ Holds(w) /\ GateOpen(j)
        /\ worker[w].number = n + 1 /\ UNCHANGED <<gate, task, posts>>
    BY DEF OpenAttempt
  <1>3. OpenNumbers(j) = {} /\ ~worker[w].made
    BY <1>2 DEF QueueInv, CallInv, BeforeCall, At
  <1>4. job[j].status = "RUNNING" /\ job[j].lockedBy = worker[w].token
    BY <1>2 DEF Holds
  <1>5. /\ worker'[w] = [worker[w] EXCEPT !.pc = "calling"]
        /\ \A v \in Workers : v # w => worker'[v] = worker[v]
    BY DEF OpenAttempt, TypeOK
  <1>6. /\ worker'[w].pc = "calling" /\ worker'[w].job = j
        /\ worker'[w].token = worker[w].token /\ worker'[w].number = n + 1
        /\ worker'[w].made = FALSE /\ worker'[w].scan = worker[w].scan
    BY <1>2, <1>3, <1>5 DEF TypeOK, Works, JobOf
  <1>7. /\ \A i \in Jobs : i # j => /\ job'[i] = job[i] /\ attempts'[i] = attempts[i]
                                    /\ item'[i] = item[i]
        /\ job'[j].status = "RUNNING" /\ job'[j].lockedBy = worker[w].token
        /\ job'[j].attemptCount = n + 1 /\ job'[j].passed = {}
        /\ item'[j] = "RUNNING"
    <2>1. \A i \in Jobs : i # j => /\ job'[i] = job[i] /\ attempts'[i] = attempts[i]
                                  /\ item'[i] = item[i]
      BY DEF OpenAttempt, TypeOK
    <2>2. job'[j] = [Renewed(j) EXCEPT !.attemptCount = worker[w].number]
      BY <1>1 DEF OpenAttempt, TypeOK
    <2>3. item'[j] = "RUNNING" BY <1>1 DEF OpenAttempt, TypeOK
    <2> QED BY <1>1, <1>2, <1>4, <2>1, <2>2, <2>3 DEF Renewed, TypeOK, JobRows
  <1>8. attempts[j] \in Seq(AttemptStatus) /\ n \in Nat /\ DOMAIN attempts[j] = 1 .. n
    BY <1>1, LenProperties DEF TypeOK
  <1>9. /\ Len(attempts'[j]) = n + 1 /\ DOMAIN attempts'[j] = 1 .. n + 1
        /\ attempts'[j][n + 1] = "DISPATCHING"
        /\ \A k \in 1 .. n : attempts'[j][k] = attempts[j][k]
    <2>1. attempts'[j] = Append(attempts[j], "DISPATCHING")
      BY <1>1 DEF OpenAttempt, TypeOK
    <2> QED BY <1>8, <2>1, AppendProperties, LenProperties DEF AttemptStatus
  <1>10. \A i \in Jobs : i # j => OpenNumbers(i)' = OpenNumbers(i) /\ LatestOpen(i)' = LatestOpen(i)
    BY <1>7, OpenUnchanged
  <1>11. n + 1 \in OpenNumbers(j)' BY <1>8, <1>9 DEF OpenNumbers
  <1>12. \A v \in Workers : v # w /\ worker[v].pc \in Busy /\ JobOf(v) = j => ~Holds(v)
    BY <1>2, HolderIsUnique DEF At, Busy
  <1>13. \A v \in Workers : worker[v].pc \in InCall => JobOf(v) # j
    BY <1>4, <1>3 DEF QueueInv, CallInv, DuringCall, Over, Holds
  <1>14. LeaseInv'
    <2>1. \A v \in Workers : /\ worker'[v].token = worker[v].token /\ JobOf(v)' = JobOf(v)
                             /\ worker'[v].pc \in Busy => worker[v].pc \in Busy
      BY <1>2, <1>5, <1>6 DEF JobOf, At, Busy
    <2>2. \A i \in Jobs : /\ job'[i].lockedBy = job[i].lockedBy /\ job'[i].status = job[i].status
      BY <1>4, <1>7
    <2> QED BY <2>1, <2>2 DEF QueueInv, LeaseInv
  <1>15. ASSUME NEW v \in Workers PROVE BeforeCall(v)' /\ DuringCall(v)'
    <2>1. CASE v = w
      <3>1. JobOf(v)' = j BY <1>6, <2>1 DEF JobOf
      <3>2. GateOpen(j)' BY <1>2 DEF GateOpen
      <3>3. Holds(v)' BY <1>6, <1>7, <2>1, <3>1 DEF Holds
      <3> QED BY <1>6, <1>7, <1>9, <1>11, <2>1, <3>1, <3>2, <3>3
              DEF BeforeCall, DuringCall, At
    <2>2. CASE v # w /\ JobOf(v) # j
      <3>1. /\ (Holds(v)' <=> Holds(v)) /\ job'[JobOf(v)] = job[JobOf(v)]
            /\ attempts'[JobOf(v)] = attempts[JobOf(v)] /\ item'[JobOf(v)] = item[JobOf(v)]
        BY <1>1, <1>5, <1>7, <2>2 DEF Holds, JobOf
      <3> QED BY <1>2, <1>5, <2>2, <3>1, BeforeCallFrame, DuringCallFrame
              DEF QueueInv, CallInv, DuringCall
    <2>3. CASE v # w /\ JobOf(v) = j
      <3>1. worker'[v] = worker[v] /\ JobOf(v)' = j BY <1>5, <2>3 DEF JobOf
      <3>2. Holds(v)' => Holds(v)
        BY <1>1, <1>4, <1>7, <2>3, <3>1 DEF Holds
      <3>3. worker[v].pc \notin InCall /\ ~At(v, "claimed")
        BY <1>12, <1>13, <2>3 DEF QueueInv, CallInv, BeforeCall, At, Busy
      <3>4. worker[v].pc = "loaded" => ~Holds(v)' BY <1>12, <2>3, <3>2 DEF Busy
      <3> QED BY <3>1, <3>3, <3>4 DEF QueueInv, CallInv, BeforeCall, DuringCall, At
    <2> QED BY <2>1, <2>2, <2>3
  <1>16. CallInv'
    <2>1. \A v \in Workers : v # w => /\ worker'[v].pc \in InCall => worker[v].pc \in InCall
                                     /\ JobOf(v)' = JobOf(v)
      BY <1>5 DEF JobOf
    <2>2. JobOf(w)' = j BY <1>6 DEF JobOf
    <2> QED BY <1>13, <1>15, <2>1, <2>2 DEF QueueInv, CallInv
  <1>17. ScanInv'
    <2>1. \A v \in Workers : worker'[v].scan = worker[v].scan BY <1>5, <1>6
    <2>2. \A v \in Workers : \A q \in worker[v].scan :
            q.job \in Jobs /\ (StillStale(v, q)' => q.job # j /\ StillStale(v, q))
      BY <1>7 DEF StillStale, TypeOK, Works
    <2> QED BY <1>10, <2>1, <2>2 DEF QueueInv, ScanInv
  <1>18. LedgerInv'
    <2>1. \A i \in Jobs : Len(attempts'[i]) = job'[i].attemptCount
      BY <1>7, <1>9 DEF QueueInv, LedgerInv
    <2>2. \A k \in 1 .. n : attempts[j][k] = "FAILED"
      BY <1>1, <1>3, <1>4, <1>8 DEF QueueInv, LedgerInv, OpenNumbers, Over
    <2>3. \A k \in 1 .. n + 1 : k = n + 1 \/ k \in 1 .. n BY <1>8
    <2>4. \A k \in DOMAIN attempts'[j] :
            /\ k < Len(attempts'[j]) => attempts'[j][k] = "FAILED"
            /\ attempts'[j][k] \in {"FAILED", "DISPATCHING"}
      BY <1>8, <1>9, <2>2, <2>3
    <2> QED BY <1>2, <1>7, <2>1, <2>4 DEF QueueInv, LedgerInv
  <1>19. PostInv'
    <2>1. posts[j] # 1 BY <1>1, <1>3, <1>4 DEF QueueInv, PostInv, Over
    <2>2. posts[j] = 0
      <3>1. posts[j] \in Nat BY DEF TypeOK
      <3>2. posts[j] <= 1 BY DEF QueueInv, PostInv
      <3> QED BY <2>1, <3>1, <3>2
    <2>3. \A i \in Jobs :
            /\ posts'[i] <= 1
            /\ posts'[i] = 1 => job'[i].status \in Over \/ OpenNumbers(i)' # {}
      BY <1>2, <1>7, <1>10, <2>2 DEF QueueInv, PostInv
    <2>4. ASSUME NEW v \in Workers, worker'[v].pc \in InCall
          PROVE  /\ posts'[JobOf(v)'] = IF worker'[v].made THEN 1 ELSE 0
                 /\ worker'[v].pc = "answered" /\ worker'[v].made
                      => worker'[v].outcome \in {"PUBLISHED", "UNKNOWN"}
                 /\ worker'[v].pc = "answered" /\ worker'[v].outcome = "PUBLISHED"
                      => worker'[v].made
      <3>1. CASE v = w BY <1>2, <1>6, <2>2, <3>1 DEF JobOf
      <3>2. CASE v # w
        <4>1. worker'[v] = worker[v] /\ JobOf(v)' = JobOf(v) BY <1>5, <3>2 DEF JobOf
        <4> QED BY <1>2, <2>4, <4>1 DEF QueueInv, PostInv, At
      <3> QED BY <3>1, <3>2
    <2> QED BY <2>3, <2>4 DEF PostInv, At
  <1>20. BudgetInv'
    <2>1. n < MaxAttempts BY <1>1, <1>3, <1>4 DEF QueueInv, BudgetInv
    <2>2. n + 1 <= MaxAttempts BY <1>8, <2>1, ConstantsAssumption DEF ConstantsAssumption
    <2> QED BY ZenonT(60), <1>5, <1>6, <1>7, <1>9, <1>10, <1>11, <2>2 DEF QueueInv, BudgetInv, At
  <1> QED BY <1>14, <1>16, <1>17, <1>18, <1>19, <1>20 DEF QueueInv
-----------------------------------------------------------------------------
(* The call and its result *)

LEMMA PlatformStep ==
  ASSUME TypeOK, QueueInv, NEW w \in Workers, PlatformCreatesPost(w),
         NEW j \in Jobs, j = JobOf(w)
  PROVE  QueueInv'
  <1>1. \A v \in Workers : JobOf(v) \in Jobs BY DEF TypeOK, Works, JobOf
  <1>2. /\ At(w, "calling") /\ ~worker[w].made
        /\ UNCHANGED <<job, attempts, item, gate, task>>
    BY DEF PlatformCreatesPost
  <1>3. /\ worker'[w] = [worker[w] EXCEPT !.made = TRUE]
        /\ \A v \in Workers : v # w => worker'[v] = worker[v]
    BY DEF PlatformCreatesPost, TypeOK
  <1>4. /\ worker'[w].pc = "calling" /\ worker'[w].job = worker[w].job
        /\ worker'[w].token = worker[w].token /\ worker'[w].number = worker[w].number
        /\ worker'[w].made = TRUE /\ worker'[w].scan = worker[w].scan
    BY <1>2, <1>3 DEF TypeOK, Works, At
  <1>5. posts[j] = 0 BY <1>2 DEF QueueInv, PostInv, At, InCall
  <1>6. posts'[j] = 1 /\ \A i \in Jobs : i # j => posts'[i] = posts[i]
    BY <1>5 DEF PlatformCreatesPost, TypeOK
  <1>7. \A i \in Jobs : OpenNumbers(i)' = OpenNumbers(i) /\ LatestOpen(i)' = LatestOpen(i)
    BY <1>2, OpenUnchanged
  <1>8. \A v \in Workers : /\ worker'[v].pc = worker[v].pc /\ worker'[v].token = worker[v].token
                           /\ worker'[v].number = worker[v].number
                           /\ worker'[v].scan = worker[v].scan
                           /\ JobOf(v)' = JobOf(v) /\ (Holds(v)' <=> Holds(v))
    BY ZenonT(60), <1>2, <1>3, <1>4 DEF At, JobOf, Holds
  <1>9. LeaseInv' BY <1>2, <1>8 DEF QueueInv, LeaseInv
  <1>10. ASSUME NEW v \in Workers PROVE BeforeCall(v)' /\ DuringCall(v)'
    <2>1. CASE v = w
      <3>1. /\ ~At(v, "claimed")' /\ ~At(v, "loaded")' /\ ~At(v, "claimed")
            /\ worker'[v].pc \notin {"claimed", "loaded"}
        BY <1>2, <1>4, <2>1 DEF At
      <3>2. BeforeCall(v)' BY <3>1 DEF BeforeCall
      <3>3. DuringCall(v)'
        BY <1>1, <1>2, <1>7, <1>8 DEF QueueInv, CallInv, DuringCall, GateOpen
      <3> QED BY <3>2, <3>3
    <2>2. CASE v # w
      BY <1>2, <1>3, <1>8, <2>2, BeforeCallFrame, DuringCallFrame
      DEF QueueInv, CallInv, DuringCall
    <2> QED BY <2>1, <2>2
  <1>11. CallInv' BY <1>8, <1>10 DEF QueueInv, CallInv
  <1>12. ScanInv'
    <2>1. \A v \in Workers : \A q \in worker[v].scan : q.job \in Jobs BY DEF TypeOK, Works
    <2> QED BY <1>2, <1>7, <1>8, <2>1 DEF QueueInv, ScanInv, StillStale
  <1>13. LedgerInv' BY <1>2 DEF QueueInv, LedgerInv
  <1>14. PostInv'
    <2>1. job[j].status \in Over \/ OpenNumbers(j) # {}
      BY <1>2 DEF QueueInv, CallInv, DuringCall, At, InCall
    <2>2. \A i \in Jobs : /\ posts'[i] <= 1
                          /\ posts'[i] = 1 => job'[i].status \in Over \/ OpenNumbers(i)' # {}
      BY <1>2, <1>6, <1>7, <2>1 DEF QueueInv, PostInv
    <2>3. ASSUME NEW v \in Workers, v # w, worker[v].pc \in InCall
          PROVE  JobOf(v) # j
      BY <1>2, <2>3 DEF QueueInv, CallInv, At, InCall
    <2>4. ASSUME NEW v \in Workers, worker'[v].pc \in InCall
          PROVE  /\ posts'[JobOf(v)'] = IF worker'[v].made THEN 1 ELSE 0
                 /\ worker'[v].pc = "answered" /\ worker'[v].made
                      => worker'[v].outcome \in {"PUBLISHED", "UNKNOWN"}
                 /\ worker'[v].pc = "answered" /\ worker'[v].outcome = "PUBLISHED"
                      => worker'[v].made
      <3>1. CASE v = w BY <1>4, <1>6, <1>8, <3>1
      <3>2. CASE v # w
        <4>1. worker'[v] = worker[v] /\ JobOf(v) # j BY <1>3, <2>3, <2>4, <3>2
        <4> QED BY <1>1, <1>6, <1>8, <2>4, <4>1 DEF QueueInv, PostInv, At
      <3> QED BY <3>1, <3>2
    <2> QED BY <2>2, <2>4 DEF PostInv, At
  <1>15. BudgetInv'
    <2>1. \A v \in Workers : worker'[v].pc = "answered" => worker'[v] = worker[v]
      BY <1>3, <1>4
    <2> QED BY <1>2, <1>7, <2>1 DEF QueueInv, BudgetInv, At
  <1> QED BY <1>9, <1>11, <1>12, <1>13, <1>14, <1>15 DEF QueueInv

\* What an answer tells: no certain failure of a call that made a post, no success of one
\* that made none, and a retry only below the limit.
LEMMA OutcomeTells ==
  ASSUME TypeOK, NEW w \in Workers, NEW o \in PossibleOutcomes(w)
  PROVE  /\ o \in Outcomes
         /\ worker[w].made => o \in {"PUBLISHED", "UNKNOWN"}
         /\ o = "PUBLISHED" => worker[w].made
         /\ o = "RETRY" => worker[w].number < MaxAttempts
  <1>1. worker[w].number \in Nat /\ MaxAttempts \in Nat
    BY ConstantsAssumption DEF TypeOK, Works, ConstantsAssumption
  <1>2. CASE o = "PUBLISHED" /\ worker[w].made BY <1>2 DEF Outcomes
  <1>3. CASE o = "UNKNOWN" BY <1>3 DEF Outcomes
  <1>4. CASE \E phase \in Phases : \E category \in CategoriesOf(phase), retryable \in BOOLEAN :
               /\ worker[w].made => phase = "POST_DISPATCH" /\ category \in UncertainCategories
               /\ o = FailureOutcome(phase, category, worker[w].number, retryable)
    <2>1. PICK phase \in Phases : \E category \in CategoriesOf(phase), retryable \in BOOLEAN :
               /\ worker[w].made => phase = "POST_DISPATCH" /\ category \in UncertainCategories
               /\ o = FailureOutcome(phase, category, worker[w].number, retryable)
      BY <1>4
    <2>2. PICK category \in CategoriesOf(phase), retryable \in BOOLEAN :
               /\ worker[w].made => phase = "POST_DISPATCH" /\ category \in UncertainCategories
               /\ o = FailureOutcome(phase, category, worker[w].number, retryable)
      BY <2>1
    <2>3. /\ o \in {"UNKNOWN", "RETRY", "FAILED"}
          /\ phase = "POST_DISPATCH" /\ category \in UncertainCategories => o = "UNKNOWN"
          /\ o = "RETRY" => ~(worker[w].number >= MaxAttempts)
      BY <2>2 DEF FailureOutcome, DecidePublishRetry
    <2> QED BY <1>1, <2>2, <2>3 DEF Outcomes
  <1> QED BY <1>2, <1>3, <1>4 DEF PossibleOutcomes, Outcomes

LEMMA AdapterReturnsStep ==
  ASSUME TypeOK, QueueInv, NEW w \in Workers, AdapterReturns(w)
  PROVE  QueueInv'
  <1>1. \A v \in Workers : JobOf(v) \in Jobs BY DEF TypeOK, Works, JobOf
  <1>2. At(w, "calling") /\ UNCHANGED <<job, attempts, item, gate, task, posts>>
    BY DEF AdapterReturns
  <1>3. PICK o \in PossibleOutcomes(w) :
          worker' = [worker EXCEPT ![w] = [@ EXCEPT !.pc = "answered", !.outcome = o]]
    BY DEF AdapterReturns
  <1>4. /\ worker'[w] = [worker[w] EXCEPT !.pc = "answered", !.outcome = o]
        /\ \A v \in Workers : v # w => worker'[v] = worker[v]
    BY <1>3 DEF TypeOK
  <1>5. /\ worker'[w].pc = "answered" /\ worker'[w].job = worker[w].job
        /\ worker'[w].token = worker[w].token /\ worker'[w].number = worker[w].number
        /\ worker'[w].made = worker[w].made /\ worker'[w].scan = worker[w].scan
        /\ worker'[w].outcome = o
    BY <1>4 DEF TypeOK, Works
  <1>6. \A i \in Jobs : OpenNumbers(i)' = OpenNumbers(i) /\ LatestOpen(i)' = LatestOpen(i)
    BY <1>2, OpenUnchanged
  <1>7. \A v \in Workers : /\ worker'[v].token = worker[v].token
                           /\ worker'[v].number = worker[v].number
                           /\ worker'[v].scan = worker[v].scan /\ worker'[v].made = worker[v].made
                           /\ worker'[v].pc \in Busy <=> worker[v].pc \in Busy
                           /\ worker'[v].pc \in InCall <=> worker[v].pc \in InCall
                           /\ JobOf(v)' = JobOf(v) /\ (Holds(v)' <=> Holds(v))
    BY ZenonT(60), <1>2, <1>4, <1>5 DEF At, JobOf, Holds, InCall, Busy
  <1>8. LeaseInv' BY <1>2, <1>7 DEF QueueInv, LeaseInv
  <1>9. ASSUME NEW v \in Workers PROVE BeforeCall(v)' /\ DuringCall(v)'
    <2>1. CASE v = w
      <3>1. BeforeCall(v)' BY <1>5, <2>1 DEF BeforeCall, At
      <3>2. DuringCall(v)'
        BY <1>1, <1>2, <1>6, <1>7 DEF QueueInv, CallInv, DuringCall, GateOpen
      <3> QED BY <3>1, <3>2
    <2>2. CASE v # w
      BY <1>2, <1>4, <1>7, <2>2, BeforeCallFrame, DuringCallFrame
      DEF QueueInv, CallInv, DuringCall
    <2> QED BY <2>1, <2>2
  <1>10. CallInv' BY <1>7, <1>9 DEF QueueInv, CallInv
  <1>11. ScanInv'
    <2>1. \A v \in Workers : \A q \in worker[v].scan : q.job \in Jobs BY DEF TypeOK, Works
    <2> QED BY <1>2, <1>6, <1>7, <2>1 DEF QueueInv, ScanInv, StillStale
  <1>12. LedgerInv' BY <1>2 DEF QueueInv, LedgerInv
  <1>13. PostInv'
    <2>1. ASSUME NEW v \in Workers, worker'[v].pc \in InCall
          PROVE  /\ posts'[JobOf(v)'] = IF worker'[v].made THEN 1 ELSE 0
                 /\ worker'[v].pc = "answered" /\ worker'[v].made
                      => worker'[v].outcome \in {"PUBLISHED", "UNKNOWN"}
                 /\ worker'[v].pc = "answered" /\ worker'[v].outcome = "PUBLISHED"
                      => worker'[v].made
      <3>1. posts'[JobOf(v)'] = IF worker'[v].made THEN 1 ELSE 0
        BY <1>2, <1>7, <2>1 DEF QueueInv, PostInv
      <3>2. CASE v = w BY <1>5, <3>1, <3>2, OutcomeTells
      <3>3. CASE v # w BY <1>4, <2>1, <3>1, <3>3 DEF QueueInv, PostInv, At
      <3> QED BY <3>2, <3>3
    <2> QED BY <1>2, <1>6, <2>1 DEF QueueInv, PostInv, At
  <1>14. BudgetInv'
    <2>1. ASSUME NEW v \in Workers, worker'[v].pc = "answered", worker'[v].outcome = "RETRY"
          PROVE  worker'[v].number < MaxAttempts
      <3>1. CASE v = w BY <1>5, <2>1, <3>1, OutcomeTells
      <3>2. CASE v # w BY <1>4, <2>1, <3>2 DEF QueueInv, BudgetInv, At
      <3> QED BY <3>1, <3>2
    <2> QED BY <1>2, <1>6, <2>1 DEF QueueInv, BudgetInv, At
  <1> QED BY <1>8, <1>10, <1>11, <1>12, <1>13, <1>14 DEF QueueInv
\* The worker w writes the outcome o of job j, whose last attempt is the n-th.
ResultWritten(w, j, n, o) ==
  /\ At(w, "answered") /\ Holds(w)
  /\ j = JobOf(w) /\ n = Len(attempts[j]) /\ o = worker[w].outcome
  /\ \A i \in Jobs : i # j => /\ job'[i] = job[i] /\ attempts'[i] = attempts[i]
                            /\ item'[i] = item[i] /\ task'[i] = task[i]
  /\ job'[j].status = o /\ job'[j].lockedBy = NoToken
  /\ job'[j].attemptCount = job[j].attemptCount
  /\ attempts'[j] = [attempts[j] EXCEPT ![worker[w].number] = AttemptResult(o)]
  /\ task'[j] = task[j] \cup FailureTask(o)
  /\ worker' = [worker EXCEPT ![w] = Rest("idle")]
  /\ gate' = gate /\ posts' = posts

\* The worker writes its result under its lease: nobody else is at work on the job.
LEMMA ResultWrittenStep ==
  ASSUME TypeOK, QueueInv, NEW w \in Workers, NEW j \in Jobs, NEW n \in Nat, NEW o \in Outcomes,
         ResultWritten(w, j, n, o)
  PROVE  QueueInv'
  <1>0. /\ At(w, "answered") /\ Holds(w)
        /\ j = JobOf(w) /\ n = Len(attempts[j]) /\ o = worker[w].outcome
        /\ \A i \in Jobs : i # j => /\ job'[i] = job[i] /\ attempts'[i] = attempts[i]
                                  /\ item'[i] = item[i] /\ task'[i] = task[i]
        /\ job'[j].status = o /\ job'[j].lockedBy = NoToken
        /\ job'[j].attemptCount = job[j].attemptCount
        /\ attempts'[j] = [attempts[j] EXCEPT ![worker[w].number] = AttemptResult(o)]
        /\ task'[j] = task[j] \cup FailureTask(o)
        /\ worker' = [worker EXCEPT ![w] = Rest("idle")]
        /\ gate' = gate /\ posts' = posts
    BY DEF ResultWritten
  <1> USE <1>0
  <1>1. \A v \in Workers : JobOf(v) \in Jobs BY DEF TypeOK, Works, JobOf
  <1>2. /\ \A v \in Workers : v # w => worker'[v] = worker[v]
        /\ worker'[w].pc = "idle" /\ worker'[w].scan = {}
    BY DEF TypeOK, Rest
  <1>3. attempts[j] \in Seq(AttemptStatus) /\ DOMAIN attempts[j] = 1 .. n
    BY LenProperties DEF TypeOK
  <1>4. worker[w].number = n /\ n \in 1 .. n /\ n \in OpenNumbers(j)
    BY <1>3 DEF QueueInv, CallInv, DuringCall, At, InCall, OpenNumbers
  <1>5. AttemptResult(o) \in AttemptStatus \ {"DISPATCHING"}
    BY DEF AttemptResult, AttemptStatus
  <1>6. /\ Len(attempts'[j]) = n /\ DOMAIN attempts'[j] = 1 .. n
        /\ attempts'[j][n] = AttemptResult(o)
        /\ \A k \in 1 .. n : k # n => attempts'[j][k] = attempts[j][k]
    BY <1>3, <1>4, <1>5, ExceptSeq, LenProperties
  <1>7. \A k \in 1 .. n : k < n => attempts[j][k] = "FAILED"
    BY <1>3 DEF QueueInv, LedgerInv
  <1>8. \A i \in Jobs : i # j => OpenNumbers(i)' = OpenNumbers(i) /\ LatestOpen(i)' = LatestOpen(i)
    BY OpenUnchanged
  <1>9. OpenNumbers(j)' = {} BY SMTT(30), <1>5, <1>6, <1>7 DEF OpenNumbers
  <1>10. \A v \in Workers : v # w /\ JobOf(v) = j => ~At(v, "claimed") /\ worker[v].pc \notin InCall
    <2>1. \A v \in Workers : v # w /\ JobOf(v) = j => worker[v].pc \notin InCall
      BY DEF QueueInv, CallInv, At, InCall
    <2>2. \A v \in Workers : v # w /\ JobOf(v) = j => ~At(v, "claimed")
      BY HolderIsUnique DEF QueueInv, CallInv, BeforeCall, At, Busy
    <2> QED BY <2>1, <2>2
  <1>11. LeaseInv' BY <1>1, <1>2, ConstantsAssumption
         DEF QueueInv, LeaseInv, Busy, JobOf, Outcomes
  <1>12. ASSUME NEW v \in Workers PROVE BeforeCall(v)' /\ DuringCall(v)'
    <2>1. CASE v = w BY <1>2, <2>1 DEF BeforeCall, DuringCall, At, InCall
    <2>2. CASE v # w /\ JobOf(v) # j
      <3>1. /\ (Holds(v)' <=> Holds(v)) /\ job'[JobOf(v)] = job[JobOf(v)]
            /\ attempts'[JobOf(v)] = attempts[JobOf(v)] /\ item'[JobOf(v)] = item[JobOf(v)]
        BY <1>1, <1>2, <2>2 DEF Holds, JobOf
      <3> QED BY <1>2, <2>2, <3>1, BeforeCallFrame, DuringCallFrame
              DEF QueueInv, CallInv, DuringCall
    <2>3. CASE v # w /\ JobOf(v) = j
      <3>1. JobOf(v)' = j /\ ~Holds(v)' /\ worker'[v] = worker[v]
        BY <1>2, <2>3 DEF Holds, JobOf, Outcomes
      <3> QED BY <1>10, <2>3, <3>1 DEF QueueInv, CallInv, BeforeCall, DuringCall, At
    <2> QED BY <2>1, <2>2, <2>3
  <1>13. CallInv' BY <1>2, <1>12 DEF QueueInv, CallInv, InCall, JobOf
  <1>14. ScanInv'
    <2>1. \A v \in Workers : worker'[v].scan \subseteq worker[v].scan BY <1>2
    <2>2. job'[j].status # "RUNNING" BY DEF Outcomes
    <2>3. \A v \in Workers : \A q \in worker[v].scan : q.job \in Jobs BY DEF TypeOK, Works
    <2>4. \A v \in Workers : \A q \in worker[v].scan :
            StillStale(v, q)' => q.job # j /\ StillStale(v, q)
      BY <2>2, <2>3 DEF StillStale
    <2> QED BY <1>8, <2>1, <2>3, <2>4 DEF QueueInv, ScanInv
  <1>15. LedgerInv'
    <2>1. \A i \in Jobs : Len(attempts'[i]) = job'[i].attemptCount
      BY <1>6 DEF QueueInv, LedgerInv
    <2>2. \A k \in DOMAIN attempts'[j] :
            /\ k < Len(attempts'[j]) => attempts'[j][k] = "FAILED"
            /\ job'[j].status \notin Over => attempts'[j][k] \in {"FAILED", "DISPATCHING"}
            /\ attempts'[j][k] # "DISPATCHING"
      BY <1>5, <1>6, <1>7 DEF AttemptResult, Over, Outcomes
    <2>3. job'[j].status = "UNKNOWN" =>
            /\ \E k \in DOMAIN attempts'[j] : attempts'[j][k] = "UNKNOWN"
            /\ "PUBLISH_UNKNOWN" \in task'[j]
      BY <1>4, <1>6 DEF AttemptResult, FailureTask
    <2> QED BY <2>1, <2>2, <2>3 DEF QueueInv, LedgerInv
  <1>16. PostInv'
    <2>1. posts[j] = 1 => o \in Over
      BY DEF QueueInv, PostInv, At, InCall, Over
    <2>2. \A i \in Jobs : /\ posts'[i] <= 1
                          /\ posts'[i] = 1 => job'[i].status \in Over \/ OpenNumbers(i)' # {}
      BY <1>8, <2>1 DEF QueueInv, PostInv
    <2> QED BY <1>2, <2>2 DEF QueueInv, PostInv, At, JobOf, InCall
  <1>17. BudgetInv'
    <2>1. o = "RETRY" => n < MaxAttempts BY <1>4 DEF QueueInv, BudgetInv
    <2>2. n <= MaxAttempts BY DEF QueueInv, BudgetInv
    <2> QED BY <1>2, <1>6, <1>8, <2>1, <2>2 DEF QueueInv, BudgetInv, At, Outcomes
  <1> QED BY <1>11, <1>13, <1>14, <1>15, <1>16, <1>17 DEF QueueInv

LEMMA RecordResultStep ==
  ASSUME TypeOK, QueueInv, NEW w \in Workers, RecordResult(w)
  PROVE  QueueInv'
  <1> DEFINE j == JobOf(w)
             o == worker[w].outcome
             n == Len(attempts[j])
  <1>1. /\ j \in Jobs /\ o \in Outcomes /\ At(w, "answered")
        /\ worker' = [worker EXCEPT ![w] = Rest("idle")] /\ UNCHANGED <<gate, posts>>
    BY DEF RecordResult, TypeOK, Works, JobOf
  <1>2. CASE UNCHANGED <<job, attempts, item, task>> BY <1>1, <1>2, RestStep
  <1>3. CASE /\ Holds(w)
             /\ job' = [job EXCEPT ![j] = [Unlocked(j, o) EXCEPT !.due = @ /\ o # "RETRY"]]
             /\ attempts' = [attempts EXCEPT ![j][worker[w].number] = AttemptResult(o)]
             /\ item' = [item EXCEPT ![j] = ItemResult(o)]
             /\ task' = [task EXCEPT ![j] = @ \cup FailureTask(o)]
    <2>1. n \in Nat BY <1>1, LenProperties DEF TypeOK
    <2>2. /\ \A i \in Jobs : i # j => /\ job'[i] = job[i] /\ attempts'[i] = attempts[i]
                                      /\ item'[i] = item[i] /\ task'[i] = task[i]
          /\ task'[j] = task[j] \cup FailureTask(o)
          /\ attempts'[j] = [attempts[j] EXCEPT ![worker[w].number] = AttemptResult(o)]
      BY <1>1, <1>3 DEF TypeOK
    <2>3. /\ job'[j].status = o /\ job'[j].lockedBy = NoToken
          /\ job'[j].attemptCount = job[j].attemptCount
      BY <1>1, <1>3 DEF TypeOK, JobRows, Unlocked
    <2> HIDE DEF j, n, o
    <2>4. j = JobOf(w) /\ n = Len(attempts[j]) /\ o = worker[w].outcome BY DEF j, n, o
    <2>5. Holds(w) BY <1>3
    <2>6. ResultWritten(w, j, n, o) BY <1>1, <2>2, <2>3, <2>4, <2>5 DEF ResultWritten
    <2> QED BY <1>1, <2>1, <2>6, ResultWrittenStep
  <1> QED BY <1>2, <1>3 DEF RecordResult

LEMMA ReconcileStep ==
  ASSUME TypeOK, QueueInv, NEW j \in Jobs, ReconcileUnknownPublish(j)
  PROVE  QueueInv'
  <1> DEFINE unknown == {k \in DOMAIN attempts[j] : attempts[j][k] = "UNKNOWN"}
             B(p) == [k \in DOMAIN attempts[j] |->
                        IF k \in unknown /\ \A m \in unknown : m <= k
                        THEN IF p THEN "SUCCEEDED" ELSE "FAILED"
                        ELSE attempts[j][k]]
             n == Len(attempts[j])
             Result(p) == IF p THEN "PUBLISHED" ELSE "FAILED"
  <1>0. PICK p \in BOOLEAN :
          /\ job' = [job EXCEPT ![j].status = Result(p)]
          /\ attempts' = [attempts EXCEPT ![j] = B(p)]
          /\ item' = IF gate[j].current THEN [item EXCEPT ![j] = Result(p)] ELSE item
    BY DEF ReconcileUnknownPublish
  <1> DEFINE A == B(p)
  <1>1. /\ job[j].status = "UNKNOWN" /\ UNCHANGED <<gate, task, worker, posts>>
        /\ attempts' = [attempts EXCEPT ![j] = A]
    BY <1>0 DEF ReconcileUnknownPublish
  <1>2. /\ \A i \in Jobs : i # j => /\ job'[i] = job[i] /\ attempts'[i] = attempts[i]
                                    /\ item'[i] = item[i] /\ task'[i] = task[i]
        /\ job'[j].status \in {"PUBLISHED", "FAILED"}
        /\ job'[j].lockedBy = job[j].lockedBy
        /\ job'[j].attemptCount = job[j].attemptCount
    <2>1. Result(p) \in {"PUBLISHED", "FAILED"} OBVIOUS
    <2>2. item'[j] = item[j] \/ item'[j] = Result(p) BY <1>0 DEF TypeOK
    <2> HIDE DEF Result, B
    <2> QED BY <1>0, <1>1, <2>1, <2>2 DEF TypeOK, JobRows
  <1>3. attempts[j] \in Seq(AttemptStatus) /\ n \in Nat /\ DOMAIN attempts[j] = 1 .. n
    BY LenProperties DEF TypeOK
  <1>4. attempts'[j] = A BY <1>1 DEF TypeOK
  <1>5. /\ DOMAIN attempts'[j] = 1 .. n /\ Len(attempts'[j]) = n
        /\ \A k \in 1 .. n : \/ attempts'[j][k] = attempts[j][k]
                             \/ /\ attempts[j][k] = "UNKNOWN"
                                /\ attempts'[j][k] \in {"SUCCEEDED", "FAILED"}
    <2>1. DOMAIN A = 1 .. n BY <1>3
    <2>2. A \in Seq(AttemptStatus) 
      <3>1. A \in [1 .. n -> AttemptStatus]
        BY <1>3, ElementOfSeq DEF AttemptStatus
      <3> QED BY <1>3, <3>1, SeqDef
    <2>3. Len(A) = n BY <1>3, <2>1, <2>2, LenProperties
    <2> QED BY <1>3, <1>4, <2>1, <2>3
  <1> HIDE DEF A, B, Result, unknown
  <1>6. OpenNumbers(j) = {} /\ OpenNumbers(j)' = {}
    BY <1>1, <1>3, <1>5 DEF QueueInv, LedgerInv, OpenNumbers
  <1>7. \A i \in Jobs : i # j => OpenNumbers(i)' = OpenNumbers(i) /\ LatestOpen(i)' = LatestOpen(i)
    BY <1>2, OpenUnchanged
  <1>8. \A v \in Workers : JobOf(v) \in Jobs /\ JobOf(v)' = JobOf(v)
    BY <1>1 DEF TypeOK, Works, JobOf
  <1>9. \A v \in Workers : /\ Holds(v)' <=> Holds(v)
                           /\ Holds(v) => JobOf(v) # j
    BY <1>1, <1>2, <1>8 DEF Holds
  <1>10. LeaseInv' BY <1>1, <1>2, <1>8 DEF QueueInv, LeaseInv
  <1>11. ASSUME NEW v \in Workers PROVE BeforeCall(v)' /\ DuringCall(v)'
    <2>1. CASE JobOf(v) # j
      <3>1. /\ attempts'[JobOf(v)] = attempts[JobOf(v)] /\ item'[JobOf(v)] = item[JobOf(v)]
            /\ job'[JobOf(v)] = job[JobOf(v)] /\ gate'[JobOf(v)] = gate[JobOf(v)]
            /\ worker'[v] = worker[v]
        BY <1>1, <1>2, <1>8, <2>1
      <3> QED BY <1>9, <3>1, BeforeCallFrame, DuringCallFrame
              DEF QueueInv, CallInv, DuringCall
    <2>2. CASE JobOf(v) = j
      <3>1. ~Holds(v) /\ ~Holds(v)' /\ JobOf(v)' = j /\ worker'[v] = worker[v]
        BY <1>1, <1>8, <1>9, <2>2
      <3>2. job'[j].status \in Over BY <1>2 DEF Over
      <3> QED BY <3>1, <3>2 DEF QueueInv, CallInv, BeforeCall, DuringCall, At
    <2> QED BY <2>1, <2>2
  <1>12. CallInv' BY <1>1, <1>8, <1>11 DEF QueueInv, CallInv
  <1>13. ScanInv'
    <2>1. \A v \in Workers : \A q \in worker[v].scan :
            q.job \in Jobs /\ (StillStale(v, q)' => q.job # j /\ StillStale(v, q))
      BY <1>2 DEF StillStale, TypeOK, Works
    <2> QED BY <1>1, <1>7, <2>1 DEF QueueInv, ScanInv
  <1>14. LedgerInv'
    <2>1. \A i \in Jobs : Len(attempts'[i]) = job'[i].attemptCount
      BY <1>2, <1>5 DEF QueueInv, LedgerInv, n
    <2>2. \A k \in 1 .. n : /\ k < n => attempts[j][k] = "FAILED"
                            /\ attempts[j][k] # "DISPATCHING"
      BY <1>1, <1>3 DEF QueueInv, LedgerInv, n
    <2>3. \A k \in DOMAIN attempts'[j] :
            /\ k < Len(attempts'[j]) => attempts'[j][k] = "FAILED"
            /\ attempts'[j][k] # "DISPATCHING"
      BY <1>5, <2>2
    <2> QED BY <1>2, <2>1, <2>3 DEF QueueInv, LedgerInv, Over
  <1>15. PostInv'
    BY <1>1, <1>2, <1>7, <1>8 DEF QueueInv, PostInv, At, Over
  <1>16. BudgetInv'
    <2>1. n <= MaxAttempts BY DEF QueueInv, BudgetInv, n
    <2> QED BY <1>1, <1>2, <1>5, <1>7, <2>1 DEF QueueInv, BudgetInv, At
  <1> QED BY <1>10, <1>12, <1>13, <1>14, <1>15, <1>16 DEF QueueInv
-----------------------------------------------------------------------------
(* The invariant *)

LEMMA NextQueueInv ==
  ASSUME TypeOK, QueueInv, "claimed" \notin StallPoints, [Next]_vars
  PROVE  QueueInv'
  <1>1. ASSUME NEW w \in Workers, WorkerStep(w) PROVE QueueInv'
    <2>1. CASE OpenAttempt(w)
      <3>1. JobOf(w) \in Jobs BY DEF TypeOK, Works, JobOf
      <3>2. Len(attempts[JobOf(w)]) \in Nat BY <3>1, LenProperties DEF TypeOK
      <3> QED BY <2>1, <3>1, <3>2, OpenAttemptStep
    <2>2. CASE ~OpenAttempt(w)
      BY <1>1, <2>2, ScanStep, RecoverStep, ClaimStep, LoadStep, NoDispatchStep,
         AdapterReturnsStep, RecordResultStep DEF WorkerStep
    <2> QED BY <2>1, <2>2
  <1>2. ASSUME NEW w \in Workers, PlatformCreatesPost(w) PROVE QueueInv'
    <2>1. JobOf(w) \in Jobs BY DEF TypeOK, Works, JobOf
    <2> QED BY <1>2, <2>1, PlatformStep
  <1>3. ASSUME NEW w \in Workers, Heartbeat(w) \/ HeartbeatFails(w) PROVE QueueInv'
    BY <1>3, HeartbeatStep
  <1>4. ASSUME NEW w \in Workers, Crash(w) \/ Restart(w) PROVE QueueInv'
    BY <1>4, RestStep DEF Crash, Restart
  <1>5. ASSUME NEW j \in Jobs, WebStep(j) PROVE QueueInv'
    BY <1>5, ContentStep, ReconcileStep DEF WebStep
  <1>6. ASSUME NEW j \in Jobs, LeaseGoesStale(j) \/ BecomesDue(j) PROVE QueueInv'
    BY <1>6, TimeStep
  <1>7. ASSUME ChangeMode PROVE QueueInv' BY <1>7, ModeStep
  <1>8. ASSUME UNCHANGED vars PROVE QueueInv' BY <1>8, ClockStep DEF vars
  <1> QED BY <1>1, <1>2, <1>3, <1>4, <1>5, <1>6, <1>7, <1>8 DEF Next

\* What the lease, the attempt rows, the item and the platform keep telling of each other
\* (recoverStaleJobs, claimNextJob and processPublishJob), if no worker outsleeps its lease
\* between its claim and the read of the claimed row.
THEOREM QueueInvariant ==
  ASSUME "claimed" \notin StallPoints
  PROVE  Spec => [](TypeOK /\ QueueInv)
  <1>1. Init => TypeOK /\ QueueInv BY InitTypeOK, InitQueueInv
  <1>2. (TypeOK /\ QueueInv) /\ [Next]_vars => (TypeOK /\ QueueInv)'
    BY NextTypeOK, NextQueueInv
  <1> QED BY <1>1, <1>2, PTL DEF Spec

\* No two workers are inside the adapter call of one job (the unique lease of
\* claimNextJob), whatever crashed, stalled or was recovered before.
THEOREM OneCallAtATime ==
  ASSUME "claimed" \notin StallPoints
  PROVE  Spec => []OneCallInFlight
  <1>1. TypeOK /\ QueueInv => OneCallInFlight
    BY DEF QueueInv, CallInv, OneCallInFlight, At, InCall
  <1> QED BY <1>1, QueueInvariant, PTL

\* The platform gets at most one post of a job: recovery, retry and the gate never let a
\* second call go out after one that may have gone through.
THEOREM PostedOnce ==
  ASSUME "claimed" \notin StallPoints
  PROVE  Spec => []NoDuplicatePost
  <1>1. TypeOK /\ QueueInv => NoDuplicatePost BY DEF QueueInv, PostInv, NoDuplicatePost
  <1> QED BY <1>1, QueueInvariant, PTL

\* The attempt rows and the job row agree: one attempt is open only while the job runs, it
\* is the last one, attemptCount counts it, all before the last one failed, and there are no
\* more of them than maxAttempts.
THEOREM LedgerAgrees ==
  ASSUME "claimed" \notin StallPoints
  PROVE  Spec => []AttemptLedger
  <1>1. TypeOK /\ QueueInv => AttemptLedger
    BY DEF QueueInv, LedgerInv, BudgetInv, AttemptLedger, RetryBudget
  <1> QED BY <1>1, QueueInvariant, PTL

\* decidePublishRetry keeps the calls of a job within maxAttempts over all its claims.
THEOREM BudgetKept ==
  ASSUME "claimed" \notin StallPoints
  PROVE  Spec => []RetryBudget
  <1>1. TypeOK /\ QueueInv => RetryBudget BY DEF QueueInv, BudgetInv, RetryBudget
  <1> QED BY <1>1, QueueInvariant, PTL

\* While a worker that holds the lease is inside its call, the item stays RUNNING and the
\* version current, approved and of current facts: the web handlers keep away.
THEOREM ContentIsFrozen ==
  ASSUME "claimed" \notin StallPoints
  PROVE  Spec => []ContentFrozenInCall
  <1>1. TypeOK /\ QueueInv => ContentFrozenInCall
    <2> SUFFICES ASSUME TypeOK, QueueInv, NEW w \in Workers, worker[w].pc \in InCall, Holds(w)
                 PROVE  item[JobOf(w)] = "RUNNING" /\ GateOpen(JobOf(w))
      BY DEF ContentFrozenInCall
    <2> QED BY DEF QueueInv, CallInv, DuringCall
  <1> QED BY <1>1, QueueInvariant, PTL

-----------------------------------------------------------------------------
(* What holds wherever a lease goes stale *)

\* Steps by which no outcome becomes unknown: attempts are added to and not taken away, and
\* a worker inside its call is where it was.
LEMMA HandOverFrame ==
  ASSUME TypeOK, HandOverInv,
         \A j \in Jobs : DOMAIN attempts[j] \subseteq DOMAIN attempts'[j],
         \A j \in Jobs : job'[j].status = "UNKNOWN" =>
           /\ job[j].status = "UNKNOWN" /\ attempts'[j] = attempts[j]
           /\ task[j] \subseteq task'[j],
         \A w \in Workers :
           /\ worker'[w].pc \in InCall =>
                \/ worker'[w].number \in DOMAIN attempts'[worker'[w].job]
                \/ /\ worker[w].pc \in InCall
                   /\ worker'[w].number = worker[w].number
                   /\ worker'[w].job = worker[w].job
           /\ worker'[w].scan \subseteq worker[w].scan
  PROVE  HandOverInv'
  <1>1. \A w \in Workers : worker[w].job \in Jobs /\ \A r \in worker[w].scan : r.job \in Jobs
    BY DEF TypeOK, Works
  <1>2. ASSUME NEW w \in Workers, worker'[w].pc \in InCall
        PROVE  worker'[w].number \in DOMAIN attempts'[worker'[w].job]
    BY <1>1, <1>2 DEF HandOverInv, JobOf
  <1>3. ASSUME NEW w \in Workers, NEW r \in worker'[w].scan, r.attempt # 0
        PROVE  r.attempt \in DOMAIN attempts'[r.job]
    <2>1. r \in worker[w].scan OBVIOUS
    <2>2. r.job \in Jobs /\ r.attempt \in DOMAIN attempts[r.job]
      BY <1>1, <1>3, <2>1 DEF HandOverInv
    <2> QED BY <2>2
  <1>4. UnknownIsHandedOver' BY DEF HandOverInv, UnknownIsHandedOver
  <1> QED BY <1>2, <1>3, <1>4 DEF HandOverInv, JobOf

\* The outcome of job j becomes unknown: its attempt n and its task say so.
LEMMA HandOverWritten ==
  ASSUME TypeOK, HandOverInv, NEW j \in Jobs, NEW n \in DOMAIN attempts[j],
         NEW e \in AttemptStatus,
         attempts' = [attempts EXCEPT ![j][n] = e],
         \A i \in Jobs : i # j => job'[i].status = job[i].status /\ task'[i] = task[i],
         job'[j].status = "UNKNOWN" => e = "UNKNOWN" /\ "PUBLISH_UNKNOWN" \in task'[j],
         \A w \in Workers :
           /\ worker'[w].pc \in InCall =>
                /\ worker[w].pc \in InCall
                /\ worker'[w].number = worker[w].number
                /\ worker'[w].job = worker[w].job
           /\ worker'[w].scan \subseteq worker[w].scan
  PROVE  HandOverInv'
  <1>1. \A i \in Jobs : DOMAIN attempts'[i] = DOMAIN attempts[i] BY DEF TypeOK
  <1>2. /\ attempts'[j][n] = e
        /\ \A i \in Jobs : i # j => attempts'[i] = attempts[i]
    BY DEF TypeOK
  <1>3. \A w \in Workers : worker[w].job \in Jobs /\ \A r \in worker[w].scan : r.job \in Jobs
    BY DEF TypeOK, Works
  <1>4. ASSUME NEW w \in Workers, worker'[w].pc \in InCall
        PROVE  worker'[w].number \in DOMAIN attempts'[worker'[w].job]
    BY <1>1, <1>3, <1>4 DEF HandOverInv, JobOf
  <1>5. ASSUME NEW w \in Workers, NEW r \in worker'[w].scan, r.attempt # 0
        PROVE  r.attempt \in DOMAIN attempts'[r.job]
    <2>1. r \in worker[w].scan OBVIOUS
    <2> QED BY <1>1, <1>3, <1>5, <2>1 DEF HandOverInv
  <1>6. ASSUME NEW i \in Jobs, job'[i].status = "UNKNOWN"
        PROVE  /\ "PUBLISH_UNKNOWN" \in task'[i]
               /\ \E k \in DOMAIN attempts'[i] : attempts'[i][k] = "UNKNOWN"
    <2>1. CASE i = j BY <1>1, <1>2, <1>6, <2>1
    <2>2. CASE i # j BY <1>1, <1>2, <1>6, <2>2 DEF HandOverInv, UnknownIsHandedOver
    <2> QED BY <2>1, <2>2
  <1> QED BY <1>4, <1>5, <1>6 DEF HandOverInv, UnknownIsHandedOver, JobOf

LEMMA InitHandOver == Init => HandOverInv
  BY DEF Init, HandOverInv, UnknownIsHandedOver, Rest, InCall

LEMMA RecoverHandsOver ==
  ASSUME TypeOK, HandOverInv, NEW w \in Workers, RecoverStaleJob(w)
  PROVE  HandOverInv'
  <1>1. PICK r \in worker[w].scan :
          /\ worker' = [worker EXCEPT ![w].scan = @ \ {r}]
          /\ \/ StillStale(w, r) /\ GiveUpCall(r)
             \/ StillStale(w, r) /\ Requeue(r)
             \/ UNCHANGED <<job, attempts, item, task>>
    BY DEF RecoverStaleJob
  <1>2. r.job \in Jobs /\ (r.attempt # 0 => r.attempt \in DOMAIN attempts[r.job])
    BY DEF HandOverInv, TypeOK, Works
  <1>3. \A v \in Workers : /\ worker'[v].pc = worker[v].pc
                           /\ worker'[v].number = worker[v].number
                           /\ worker'[v].job = worker[v].job
                           /\ worker'[v].scan \subseteq worker[v].scan
    BY <1>1 DEF TypeOK, Works
  <1>4. CASE GiveUpCall(r)
    <2>1. /\ \A i \in Jobs : i # r.job => job'[i].status = job[i].status /\ task'[i] = task[i]
          /\ "PUBLISH_UNKNOWN" \in task'[r.job]
      BY <1>2, <1>4 DEF GiveUpCall, TypeOK
    <2>2. /\ r.attempt \in DOMAIN attempts[r.job]
          /\ attempts' = [attempts EXCEPT ![r.job][r.attempt] = "UNKNOWN"]
      BY <1>2, <1>4 DEF GiveUpCall
    <2>3. "UNKNOWN" \in AttemptStatus BY DEF AttemptStatus
    <2> QED BY <1>2, <1>3, <2>1, <2>2, <2>3, HandOverWritten
  <1>5. CASE Requeue(r)
    <2>1. /\ \A i \in Jobs : job'[i].status = "UNKNOWN" => job[i].status = "UNKNOWN"
          /\ UNCHANGED <<attempts, task>>
      BY <1>2, <1>5 DEF Requeue, Unlocked, TypeOK, JobRows
    <2> QED BY <1>3, <2>1, HandOverFrame
  <1>6. CASE UNCHANGED <<job, attempts, item, task>>
    BY <1>3, <1>6, HandOverFrame
  <1> QED BY <1>1, <1>4, <1>5, <1>6

LEMMA ResultHandsOver ==
  ASSUME TypeOK, HandOverInv, NEW w \in Workers, RecordResult(w)
  PROVE  HandOverInv'
  <1> DEFINE j == JobOf(w)
             o == worker[w].outcome
             n == worker[w].number
  <1>1. j \in Jobs /\ o \in Outcomes /\ n \in DOMAIN attempts[j]
    BY DEF HandOverInv, RecordResult, TypeOK, Works, JobOf, At, InCall
  <1>2. \A v \in Workers : /\ worker'[v].pc \in InCall => worker'[v] = worker[v]
                           /\ worker'[v].scan \subseteq worker[v].scan
    BY DEF RecordResult, Rest, InCall, TypeOK
  <1>3. CASE UNCHANGED <<job, attempts, item, task>>
    BY <1>2, <1>3, HandOverFrame
  <1>4. CASE /\ job' = [job EXCEPT ![j] = [Unlocked(j, o) EXCEPT !.due = @ /\ o # "RETRY"]]
             /\ attempts' = [attempts EXCEPT ![j][n] = AttemptResult(o)]
             /\ task' = [task EXCEPT ![j] = @ \cup FailureTask(o)]
    <2>1. /\ \A i \in Jobs : i # j => job'[i].status = job[i].status /\ task'[i] = task[i]
          /\ job'[j].status = "UNKNOWN" => o = "UNKNOWN"
      BY <1>1, <1>4 DEF Unlocked, TypeOK, JobRows
    <2>2. AttemptResult(o) \in AttemptStatus BY <1>1 DEF AttemptResult, AttemptStatus, Outcomes
    <2>3. o = "UNKNOWN" => AttemptResult(o) = "UNKNOWN" /\ "PUBLISH_UNKNOWN" \in task'[j]
      BY <1>1, <1>4 DEF AttemptResult, FailureTask, TypeOK
    <2> HIDE DEF j, o, n
    <2> QED BY <1>1, <1>2, <1>4, <2>1, <2>2, <2>3, HandOverWritten
  <1> QED BY <1>3, <1>4 DEF RecordResult

LEMMA NextHandOver ==
  ASSUME TypeOK, HandOverInv, [Next]_vars
  PROVE  HandOverInv'
  <1>1. ASSUME NEW w \in Workers, ScanStaleJobs(w) PROVE HandOverInv'
    <2>1. /\ UNCHANGED <<attempts, task>>
          /\ \A i \in Jobs : job'[i].status = job[i].status
          /\ \A v \in Workers : v # w => worker'[v] = worker[v]
          /\ worker'[w].pc \notin InCall
      BY <1>1 DEF ScanStaleJobs, Rest, InCall, TypeOK, JobRows
    <2>2. \A r \in worker'[w].scan : r.attempt # 0 => r.attempt \in DOMAIN attempts[r.job]
      <3> SUFFICES ASSUME NEW r \in worker'[w].scan, r.attempt # 0
                   PROVE  r.attempt \in DOMAIN attempts[r.job]
        OBVIOUS
      <3>1. PICK i \in StaleJobs : r = [job |-> i, token |-> job[i].lockedBy,
                                        attempt |-> LatestOpen(i)]
        BY <1>1 DEF ScanStaleJobs, Rest, TypeOK
      <3>2. i \in Jobs BY DEF StaleJobs
      <3> QED BY <3>1, <3>2, LatestOpenMax DEF TypeOK, OpenNumbers
    <2> QED BY <2>1, <2>2 DEF HandOverInv, UnknownIsHandedOver, JobOf, InCall
  <1>2. ASSUME NEW w \in Workers, OpenAttempt(w) PROVE HandOverInv'
    <2>1. JobOf(w) \in Jobs BY DEF TypeOK, Works, JobOf
    <2>2. /\ attempts' = [attempts EXCEPT ![JobOf(w)] = Append(@, "DISPATCHING")]
          /\ worker' = [worker EXCEPT ![w].pc = "calling"] /\ UNCHANGED task
          /\ worker[w].number = Len(attempts[JobOf(w)]) + 1
      BY <1>2 DEF OpenAttempt
    <2>3. attempts'[JobOf(w)] = Append(attempts[JobOf(w)], "DISPATCHING")
      BY <2>1, <2>2 DEF TypeOK
    <2>4. /\ DOMAIN attempts[JobOf(w)] \subseteq DOMAIN attempts'[JobOf(w)]
          /\ worker[w].number \in DOMAIN attempts'[JobOf(w)]
      <3>1. attempts[JobOf(w)] \in Seq(AttemptStatus) BY <2>1 DEF TypeOK
      <3> QED BY <2>2, <2>3, <3>1, AppendProperties, LenProperties DEF AttemptStatus
    <2>5. \A i \in Jobs : job'[i].status = "UNKNOWN" =>
            job[i].status = "UNKNOWN" /\ i # JobOf(w)
      BY <1>2, <2>1 DEF OpenAttempt, Holds, Renewed, TypeOK, JobRows
    <2>6. \A i \in Jobs : i # JobOf(w) => attempts'[i] = attempts[i]
      BY <2>1, <2>2 DEF TypeOK
    <2>7. \A v \in Workers : /\ worker'[v].number = worker[v].number
                             /\ worker'[v].job = worker[v].job
                             /\ worker'[v].scan = worker[v].scan
                             /\ v # w => worker'[v].pc = worker[v].pc
      BY <2>2 DEF TypeOK, Works
    <2> QED BY <2>2, <2>4, <2>5, <2>6, <2>7, HandOverFrame DEF JobOf
  <1>3. ASSUME NEW w \in Workers,
               \/ ClaimNextJob(w) \/ LoadJob(w) \/ CancelClaim(w) \/ AdapterUnavailable(w)
               \/ GateRefuses(w) \/ AttemptNumberTaken(w) \/ AdapterReturns(w)
               \/ PlatformCreatesPost(w) \/ Heartbeat(w) \/ HeartbeatFails(w)
               \/ Crash(w) \/ Restart(w)
        PROVE  HandOverInv'
    <2>0. JobOf(w) \in Jobs BY DEF TypeOK, Works, JobOf
    <2>1. UNCHANGED attempts /\ \A i \in Jobs : task[i] \subseteq task'[i]
      <3>1. CASE AdapterUnavailable(w)
        <4>1. CASE UNCHANGED task BY <3>1, <4>1 DEF AdapterUnavailable
        <4>2. CASE task' = [task EXCEPT ![JobOf(w)] = @ \cup {"CONNECTION_ERROR"}]
          <5>1. \A i \in Jobs : task'[i] = IF i = JobOf(w) THEN task[i] \cup {"CONNECTION_ERROR"}
                                                           ELSE task[i]
            BY <4>2 DEF TypeOK
          <5> QED BY <3>1, <5>1 DEF AdapterUnavailable
        <4> QED BY <3>1, <4>1, <4>2 DEF AdapterUnavailable
      <3>2. CASE ~AdapterUnavailable(w)
        <4>1. attempts' = attempts /\ task' = task
          BY <1>3, <3>2
          DEF ClaimNextJob, LoadJob, CancelClaim, GateRefuses, AttemptNumberTaken,
              AdapterReturns, PlatformCreatesPost, Heartbeat, HeartbeatFails, Crash, Restart
        <4>2. \A i \in Jobs : task'[i] = task[i] BY <4>1
        <4> QED BY ZenonT(30), <4>1, <4>2
      <3> QED BY <3>1, <3>2
    <2>2. \A i \in Jobs : job'[i].status = "UNKNOWN" => job[i].status = "UNKNOWN"
      <3>1. CASE ClaimNextJob(w)
        <4>1. CASE UNCHANGED job BY <4>1
        <4>2. ASSUME NEW j \in Jobs, NEW t \in FreshTokens,
                     job' = [job EXCEPT ![j] = [Renewed(j) EXCEPT !.status = "RUNNING",
                                                                  !.lockedBy = t]]
              PROVE  \A i \in Jobs : job'[i].status = "UNKNOWN" => job[i].status = "UNKNOWN"
          <5>1. job'[j].status = "RUNNING" /\ \A i \in Jobs : i # j => job'[i] = job[i]
            BY <4>2 DEF Renewed, TypeOK, JobRows
          <5> QED BY <5>1
        <4> QED BY ZenonT(60), <3>1, <4>1, <4>2 DEF ClaimNextJob
      <3>2. CASE CancelClaim(w) \/ GateRefuses(w)
        <4>1. \/ UNCHANGED job
              \/ job' = [job EXCEPT ![JobOf(w)] = Unlocked(JobOf(w), "CANCELLED")]
          BY <3>2 DEF CancelClaim, GateRefuses
        <4>2. ASSUME job' = [job EXCEPT ![JobOf(w)] = Unlocked(JobOf(w), "CANCELLED")]
              PROVE  /\ job'[JobOf(w)].status = "CANCELLED"
                     /\ \A i \in Jobs : i # JobOf(w) => job'[i] = job[i]
          BY <2>0, <4>2 DEF Unlocked, TypeOK, JobRows
        <4> QED BY <4>1, <4>2
      <3>3. CASE AdapterUnavailable(w)
        <4>1. \/ UNCHANGED job
              \/ job' = [job EXCEPT ![JobOf(w)] = Unlocked(JobOf(w), "WAITING_CONFIGURATION")]
          BY <3>3 DEF AdapterUnavailable
        <4>2. ASSUME job' = [job EXCEPT ![JobOf(w)] = Unlocked(JobOf(w), "WAITING_CONFIGURATION")]
              PROVE  /\ job'[JobOf(w)].status = "WAITING_CONFIGURATION"
                     /\ \A i \in Jobs : i # JobOf(w) => job'[i] = job[i]
          BY <2>0, <4>2 DEF Unlocked, TypeOK, JobRows
        <4> QED BY <4>1, <4>2
      <3>4. CASE Heartbeat(w)
        <4>1. UNCHANGED job \/ job' = [job EXCEPT ![JobOf(w)] = Renewed(JobOf(w))]
          BY <3>4 DEF Heartbeat
        <4>2. ASSUME job' = [job EXCEPT ![JobOf(w)] = Renewed(JobOf(w))]
              PROVE  /\ job'[JobOf(w)].status = job[JobOf(w)].status
                     /\ \A i \in Jobs : i # JobOf(w) => job'[i] = job[i]
          BY <2>0, <4>2 DEF Renewed, TypeOK, JobRows
        <4> QED BY <4>1, <4>2
      <3>5. CASE \/ LoadJob(w) \/ AttemptNumberTaken(w) \/ AdapterReturns(w)
                 \/ PlatformCreatesPost(w) \/ HeartbeatFails(w) \/ Crash(w) \/ Restart(w)
        <4>1. CASE LoadJob(w) BY <4>1 DEF LoadJob
        <4>2. CASE ~LoadJob(w)
          BY ZenonT(30), <3>5, <4>2
          DEF AttemptNumberTaken, AdapterReturns, PlatformCreatesPost, HeartbeatFails, Crash, Restart
        <4> QED BY <4>1, <4>2
      <3> QED BY <1>3, <3>1, <3>2, <3>3, <3>4, <3>5
    <2>3. \A v \in Workers : v # w => worker'[v] = worker[v]
      BY <1>3
      DEF ClaimNextJob, LoadJob, CancelClaim, AdapterUnavailable, GateRefuses,
          AttemptNumberTaken, AdapterReturns, PlatformCreatesPost, Heartbeat, HeartbeatFails,
          Crash, Restart, TypeOK
    <2>4. /\ worker'[w].scan \subseteq worker[w].scan
          /\ worker'[w].pc \in InCall => /\ worker[w].pc \in InCall
                                         /\ worker'[w].number = worker[w].number
                                         /\ worker'[w].job = worker[w].job
      <3>1. CASE ClaimNextJob(w)
        <4>1. worker'[w].scan = {} /\ worker'[w].pc \in {"idle", "claimed"}
          <5>1. CASE worker' = [worker EXCEPT ![w] = Rest("idle")]
            BY <5>1 DEF Rest, TypeOK
          <5>2. ASSUME NEW j \in Jobs, NEW t \in FreshTokens,
                       worker' = [worker EXCEPT ![w] = [Rest("claimed") EXCEPT !.job = j,
                                                                               !.token = t]]
                PROVE  worker'[w].scan = {} /\ worker'[w].pc = "claimed"
            BY <5>2 DEF Rest, TypeOK
          <5> QED BY ZenonT(60), <3>1, <5>1, <5>2 DEF ClaimNextJob
        <4> QED BY <4>1 DEF InCall
      <3>2. CASE LoadJob(w)
        <4>1. worker'[w].scan \subseteq worker[w].scan /\ worker'[w].pc \in {"idle", "loaded"}
          <5>1. CASE worker' = [worker EXCEPT ![w] = Rest("idle")]
            BY <5>1 DEF Rest, TypeOK
          <5>2. CASE worker' = [worker EXCEPT ![w] = [@ EXCEPT
                       !.pc = "loaded", !.token = job[JobOf(w)].lockedBy,
                       !.number = job[JobOf(w)].attemptCount + 1,
                       !.valid = GateOpen(JobOf(w)) /\ BoundaryHolds(JobOf(w))]]
            BY <5>2 DEF TypeOK, Works
          <5> QED BY <3>2, <5>1, <5>2 DEF LoadJob
        <4> QED BY <4>1 DEF InCall
      <3>3. CASE \/ CancelClaim(w) \/ AdapterUnavailable(w) \/ GateRefuses(w)
                 \/ AttemptNumberTaken(w) \/ Crash(w) \/ Restart(w)
        <4>1. worker'[w] = Rest("idle") \/ worker'[w] = Rest("down")
          BY <3>3 DEF CancelClaim, AdapterUnavailable, GateRefuses, AttemptNumberTaken, Crash,
                      Restart, TypeOK
        <4> QED BY <4>1 DEF Rest, InCall
      <3>4. CASE AdapterReturns(w)
        BY <3>4 DEF AdapterReturns, At, InCall, TypeOK, Works
      <3>5. CASE PlatformCreatesPost(w)
        BY <3>5 DEF PlatformCreatesPost, TypeOK, Works
      <3>6. CASE Heartbeat(w) \/ HeartbeatFails(w)
        <4>1. CASE UNCHANGED worker BY <3>6, <4>1 DEF Heartbeat, HeartbeatFails, At, InCall
        <4>2. CASE worker' = [worker EXCEPT ![w].lost = TRUE]
          <5>1. /\ worker'[w].pc = worker[w].pc /\ worker'[w].scan = worker[w].scan
                /\ worker'[w].number = worker[w].number /\ worker'[w].job = worker[w].job
            BY <4>2 DEF TypeOK, Works
          <5> QED BY <5>1
        <4> QED BY <3>6, <4>1, <4>2 DEF Heartbeat, HeartbeatFails
      <3> QED BY <1>3, <3>1, <3>2, <3>3, <3>4, <3>5, <3>6
    <2> QED BY <2>1, <2>2, <2>3, <2>4, HandOverFrame
  <1>4. ASSUME NEW j \in Jobs, ReconcileUnknownPublish(j) PROVE HandOverInv'
    <2>1. /\ \A i \in Jobs : DOMAIN attempts'[i] = DOMAIN attempts[i]
          /\ \A i \in Jobs : i # j => attempts'[i] = attempts[i] /\ job'[i] = job[i]
          /\ UNCHANGED <<task, worker>>
      BY <1>4 DEF ReconcileUnknownPublish, TypeOK
    <2>2. job'[j].status # "UNKNOWN"
      BY <1>4 DEF ReconcileUnknownPublish, TypeOK, JobRows
    <2> QED BY <2>1, <2>2, HandOverFrame
  <1>5. ASSUME NEW j \in Jobs,
               \/ EditContentVersion(j) \/ SubmitForReview(j) \/ ReviewContent(j)
               \/ UpdateProductFacts(j) \/ SchedulePublication(j)
               \/ LeaseGoesStale(j) \/ BecomesDue(j)
        PROVE  HandOverInv'
    <2>1. UNCHANGED <<attempts, task, worker>>
      BY <1>5 DEF EditContentVersion, SubmitForReview, ReviewContent, UpdateProductFacts,
                  SchedulePublication, LeaseGoesStale, BecomesDue
    <2>2. \A i \in Jobs : job'[i].status = "UNKNOWN" => job[i].status = "UNKNOWN"
      <3>1. CASE job' = CancelScheduled(j) BY <3>1 DEF CancelScheduled, TypeOK, JobRows
      <3>2. CASE SchedulePublication(j) BY <3>2 DEF SchedulePublication, TypeOK, JobRows
      <3>3. CASE LeaseGoesStale(j) BY <3>3 DEF LeaseGoesStale, TypeOK, JobRows
      <3>4. CASE BecomesDue(j) BY <3>4 DEF BecomesDue, TypeOK, JobRows
      <3> QED BY <1>5, <3>1, <3>2, <3>3, <3>4
              DEF EditContentVersion, SubmitForReview, ReviewContent, UpdateProductFacts
    <2> QED BY <2>1, <2>2, HandOverFrame
  <1>6. CASE ChangeMode \/ UNCHANGED vars
    BY <1>6, HandOverFrame DEF ChangeMode, vars
  <1> QED BY <1>1, <1>2, <1>3, <1>4, <1>5, <1>6, RecoverHandsOver, ResultHandsOver
          DEF Next, WorkerStep, WebStep

\* Wherever workers outsleep their leases, and even if two work under one token: a job whose
\* outcome is unknown has a task for an operator and an attempt that says so
\* (recoverStaleJobs, processPublishJob).
THEOREM UnknownHandedOver == Spec => []UnknownIsHandedOver
  <1>1. Init => TypeOK /\ HandOverInv BY InitTypeOK, InitHandOver
  <1>2. (TypeOK /\ HandOverInv) /\ [Next]_vars => (TypeOK /\ HandOverInv)'
    BY NextTypeOK, NextHandOver
  <1>3. HandOverInv => UnknownIsHandedOver BY DEF HandOverInv
  <1> QED BY <1>1, <1>2, <1>3, PTL DEF Spec

-----------------------------------------------------------------------------
(* What a step may not do *)

LEMMA UpdateKeepsLen ==
  ASSUME NEW S, NEW s \in Seq(S), NEW k, NEW e
  PROVE  Len([s EXCEPT ![k] = e]) = Len(s)
  BY LenProperties

\* The gate is the only step that adds an attempt.
LEMMA OnlyTheGateCalls ==
  ASSUME TypeOK, [Next]_vars, NEW j \in Jobs, Len(attempts'[j]) > Len(attempts[j])
  PROVE  \E w \in Workers : OpenAttempt(w) /\ j = JobOf(w)
  <1> DEFINE unknown == {k \in DOMAIN attempts[j] : attempts[j][k] = "UNKNOWN"}
             B(p) == [k \in DOMAIN attempts[j] |->
                        IF k \in unknown /\ \A m \in unknown : m <= k
                        THEN IF p THEN "SUCCEEDED" ELSE "FAILED"
                        ELSE attempts[j][k]]
  <1>1. attempts[j] \in Seq(AttemptStatus) /\ Len(attempts[j]) \in Nat
    BY LenProperties DEF TypeOK
  <1>2. attempts'[j] # attempts[j] BY <1>1
  <1>3. \A k, e : attempts'[j] # [attempts[j] EXCEPT ![k] = e]
    BY <1>1, UpdateKeepsLen
  <1>4. ASSUME NEW w \in Workers, WorkerStep(w) PROVE OpenAttempt(w) /\ j = JobOf(w)
    <2>1. ~RecordResult(w)
      BY <1>2, <1>3 DEF RecordResult, TypeOK
    <2>2. ~RecoverStaleJob(w)
      <3>1. \A r : ~GiveUpCall(r) BY <1>2, <1>3 DEF GiveUpCall, TypeOK
      <3>2. \A r : ~Requeue(r) BY SMTT(40), <1>2 DEF Requeue
      <3> QED BY <1>2, <3>1, <3>2 DEF RecoverStaleJob
    <2>3. OpenAttempt(w)
      BY <1>2, <1>4, <2>1, <2>2
      DEF WorkerStep, ScanStaleJobs, ClaimNextJob, LoadJob, CancelClaim, AdapterUnavailable,
          GateRefuses, AttemptNumberTaken, AdapterReturns
    <2> QED BY <1>2, <2>3 DEF OpenAttempt, TypeOK
  <1>5. \A i \in Jobs : ~ReconcileUnknownPublish(i)
    <2> SUFFICES ASSUME NEW i \in Jobs, ReconcileUnknownPublish(i) PROVE FALSE OBVIOUS
    <2>0. i = j BY <1>2 DEF ReconcileUnknownPublish, TypeOK
    <2>1. PICK p \in BOOLEAN : attempts'[j] = B(p)
      BY <2>0 DEF ReconcileUnknownPublish, TypeOK
    <2> DEFINE A == B(p)
    <2>2. DOMAIN A = 1 .. Len(attempts[j]) BY <1>1, LenProperties
    <2>3. A \in Seq(AttemptStatus)
      <3>1. A \in [1 .. Len(attempts[j]) -> AttemptStatus]
        BY <1>1, LenProperties, ElementOfSeq DEF AttemptStatus
      <3> QED BY <1>1, <3>1, SeqDef
    <2>4. Len(A) = Len(attempts[j]) BY <1>1, <2>2, <2>3, LenProperties
    <2> QED BY <1>1, <2>1, <2>4
  <1> HIDE DEF B, unknown
  <1>6. ASSUME NEW i \in Jobs, WebStep(i) \/ LeaseGoesStale(i) \/ BecomesDue(i) PROVE FALSE
    BY <1>2, <1>5, <1>6
    DEF WebStep, EditContentVersion, SubmitForReview, ReviewContent, UpdateProductFacts,
        SchedulePublication, LeaseGoesStale, BecomesDue
  <1>7. ASSUME NEW w \in Workers,
               \/ PlatformCreatesPost(w) \/ Heartbeat(w) \/ HeartbeatFails(w)
               \/ Crash(w) \/ Restart(w)
        PROVE FALSE
    BY <1>2, <1>7 DEF PlatformCreatesPost, Heartbeat, HeartbeatFails, Crash, Restart
  <1>8. ~ChangeMode /\ ~UNCHANGED vars BY <1>2 DEF ChangeMode, vars
  <1> QED BY <1>4, <1>6, <1>7, <1>8 DEF Next

\* processPublishJob sends a job again only if no call before it left a post and every one
\* of them is known to have failed.
THEOREM NeverResentBlindly ==
  ASSUME "claimed" \notin StallPoints
  PROVE  Spec => NoBlindResend
  <1>1. ASSUME TypeOK, QueueInv, [Next]_vars, NEW j \in Jobs,
               Len(attempts'[j]) > Len(attempts[j])
        PROVE  posts[j] = 0 /\ \A k \in DOMAIN attempts[j] : attempts[j][k] = "FAILED"
    <2>1. PICK w \in Workers : OpenAttempt(w) /\ j = JobOf(w) BY <1>1, OnlyTheGateCalls
    <2>2. At(w, "loaded") /\ Holds(w) BY <2>1 DEF OpenAttempt
    <2>3. OpenNumbers(j) = {} BY <1>1, <2>1, <2>2 DEF QueueInv, CallInv, BeforeCall
    <2>4. job[j].status = "RUNNING" BY <2>1, <2>2 DEF Holds
    <2>5. posts[j] \in Nat /\ posts[j] <= 1 BY <1>1 DEF TypeOK, QueueInv, PostInv
    <2>6. posts[j] # 1 BY <1>1, <2>3, <2>4 DEF QueueInv, PostInv, Over
    <2>7. \A k \in DOMAIN attempts[j] : attempts[j][k] = "FAILED"
      BY <1>1, <2>3, <2>4 DEF QueueInv, LedgerInv, OpenNumbers, Over
    <2> QED BY <2>5, <2>6, <2>7
  <1> DEFINE Resend == \A j \in Jobs :
        Len(attempts'[j]) > Len(attempts[j]) =>
          /\ posts[j] = 0
          /\ \A k \in DOMAIN attempts[j] : attempts[j][k] = "FAILED"
  <1>2. TypeOK /\ QueueInv /\ [Next]_vars => [Resend]_vars BY <1>1
  <1> QED BY <1>2, QueueInvariant, PTL DEF Spec, NoBlindResend

\* Nothing a worker writes about a running job, other than its success or that its outcome
\* is unknown, is written of a job whose post the platform has.
LEMMA DenialStep ==
  ASSUME TypeOK, QueueInv, NEW w \in Workers, WorkerStep(w), NEW j \in Jobs,
         job[j].status = "RUNNING",
         job'[j].status \in {"RETRY", "CANCELLED", "WAITING_CONFIGURATION", "FAILED"}
  PROVE  posts[j] = 0
  <1>1. posts[j] \in Nat /\ posts[j] <= 1 BY DEF TypeOK, QueueInv, PostInv
  <1>2. OpenNumbers(j) = {} => posts[j] = 0
    BY <1>1 DEF QueueInv, PostInv, Over
  <1>3. JobOf(w) \in Jobs BY DEF TypeOK, Works, JobOf
  <1>4. job'[j] # job[j] OBVIOUS
  <1>5. CASE RecoverStaleJob(w)
    <2>1. PICK r \in worker[w].scan :
            \/ StillStale(w, r) /\ (GiveUpCall(r) \/ Requeue(r))
            \/ UNCHANGED <<job, attempts, item, task>>
      BY <1>5 DEF RecoverStaleJob
    <2>2. r.job \in Jobs BY DEF TypeOK, Works
    <2>3. ~GiveUpCall(r)
      <3> SUFFICES ASSUME GiveUpCall(r) PROVE FALSE OBVIOUS
      <3>1. job' = [job EXCEPT ![r.job] = Unlocked(r.job, "UNKNOWN")] BY DEF GiveUpCall
      <3>2. r.job = j BY <1>4, <2>2, <3>1 DEF TypeOK
      <3>3. job'[j].status = "UNKNOWN" BY <3>1, <3>2 DEF TypeOK, JobRows, Unlocked
      <3> QED BY <3>3
    <2>4. StillStale(w, r) /\ Requeue(r) BY <1>4, <2>1, <2>3
    <2>5. r.job = j BY <1>4, <2>2, <2>4 DEF Requeue, TypeOK
    <2>6. LatestOpen(j) = 0 BY <2>4, <2>5 DEF Requeue, QueueInv, ScanInv
    <2>7. attempts[j] \in Seq(AttemptStatus) BY DEF TypeOK
    <2>8. OpenNumbers(j) = {} BY <2>6, <2>7, LatestOpenMax, LenProperties
    <2> QED BY <1>2, <2>8
  <1>6. CASE CancelClaim(w) \/ AdapterUnavailable(w) \/ GateRefuses(w)
    <2>1. At(w, "loaded") /\ Holds(w) /\ j = JobOf(w)
      BY <1>3, <1>4, <1>6 DEF CancelClaim, AdapterUnavailable, GateRefuses, TypeOK
    <2> QED BY <1>2, <2>1 DEF QueueInv, CallInv, BeforeCall
  <1>7. CASE RecordResult(w)
    <2>1. At(w, "answered") /\ Holds(w) /\ j = JobOf(w)
      BY <1>3, <1>4, <1>7 DEF RecordResult, TypeOK
    <2>2. job'[j].status = worker[w].outcome
      <3> DEFINE o == worker[w].outcome
      <3>1. job' = [job EXCEPT ![j] = [Unlocked(j, o) EXCEPT !.due = @ /\ o # "RETRY"]]
        BY <1>4, <1>7, <2>1 DEF RecordResult
      <3> HIDE DEF o
      <3>2. job'[j].status = o BY <3>1 DEF TypeOK, JobRows, Unlocked
      <3> QED BY <3>2 DEF o
    <2>3. worker[w].outcome \notin {"PUBLISHED", "UNKNOWN"} BY <2>2
    <2>4. ~worker[w].made BY <2>1, <2>3 DEF QueueInv, PostInv, At, InCall
    <2> QED BY <2>1, <2>4 DEF QueueInv, PostInv, At, InCall
  <1>8. CASE OpenAttempt(w)
    <2>1. job'[j].status = "RUNNING"
      BY <1>3, <1>8 DEF OpenAttempt, TypeOK, JobRows, Renewed
    <2> QED BY <2>1
  <1>9. CASE ClaimNextJob(w)
    <2>1. \E i \in Jobs : Claimable(i) /\ \A k \in Jobs : k # i => job'[k] = job[k]
      BY ZenonT(60), <1>4, <1>9 DEF ClaimNextJob, TypeOK
    <2>2. job'[j] = job[j] BY <1>4, <2>1, <1>9 DEF Claimable, ClaimNextJob, TypeOK, JobRows, Renewed
    <2> QED BY SMTT(30), <1>4, <2>2
  <1>10. CASE ScanStaleJobs(w)
    <2>1. job'[j].status = job[j].status BY <1>10 DEF ScanStaleJobs, TypeOK, JobRows
    <2> QED BY <2>1
  <1>11. CASE LoadJob(w) \/ AttemptNumberTaken(w) \/ AdapterReturns(w)
    BY <1>4, <1>11 DEF LoadJob, AttemptNumberTaken, AdapterReturns
  <1> QED BY <1>5, <1>6, <1>7, <1>8, <1>9, <1>10, <1>11 DEF WorkerStep

\* No worker, and no recovery, gives back, fails or cancels a running job whose post is on
\* the platform: such a job ends as published or as unknown.
THEOREM PostNeverDenied ==
  ASSUME "claimed" \notin StallPoints
  PROVE  Spec => PostIsNotDenied
  <1>1. ASSUME TypeOK, QueueInv, [Next]_vars, NEW j \in Jobs, job[j].status = "RUNNING",
               job'[j].status \in {"RETRY", "CANCELLED", "WAITING_CONFIGURATION", "FAILED"}
        PROVE  posts[j] = 0
    <2>1. job'[j].status # job[j].status BY <1>1
    <2>2. ASSUME NEW w \in Workers, WorkerStep(w) PROVE posts[j] = 0
      BY <1>1, <2>2, DenialStep
    <2>3. ASSUME NEW w \in Workers,
                 \/ PlatformCreatesPost(w) \/ Heartbeat(w) \/ HeartbeatFails(w)
                 \/ Crash(w) \/ Restart(w)
          PROVE FALSE
      <3>1. JobOf(w) \in Jobs BY <1>1 DEF TypeOK, Works, JobOf
      <3>2. job' = job \/ job' = [job EXCEPT ![JobOf(w)] = Renewed(JobOf(w))]
        BY <2>3 DEF PlatformCreatesPost, Heartbeat, HeartbeatFails, Crash, Restart
      <3>3. Renewed(JobOf(w)).status = job[JobOf(w)].status
        BY <1>1, <3>1 DEF Renewed, TypeOK, JobRows
      <3>4. job'[j].status = job[j].status
        <4>1. CASE JobOf(w) = j BY <1>1, <3>2, <3>3, <4>1 DEF TypeOK
        <4>2. CASE JobOf(w) # j BY <1>1, <3>1, <3>2, <4>2 DEF TypeOK
        <4> QED BY <4>1, <4>2
      <3> QED BY <2>1, <3>4
    <2>4. ASSUME NEW i \in Jobs, WebStep(i) PROVE FALSE
      <3>1. CASE ReconcileUnknownPublish(i)
        BY <1>1, <2>1, <3>1 DEF ReconcileUnknownPublish, TypeOK, JobRows
      <3>2. CASE SchedulePublication(i)
        BY <1>1, <2>1, <3>2 DEF SchedulePublication, TypeOK, JobRows
      <3>3. CASE job' = CancelScheduled(i)
        BY <1>1, <2>1, <3>3 DEF CancelScheduled, MutableStatus, TypeOK, JobRows
      <3> QED BY <2>4, <3>1, <3>2, <3>3
              DEF WebStep, EditContentVersion, SubmitForReview, ReviewContent, UpdateProductFacts
    <2>5. ASSUME NEW i \in Jobs, LeaseGoesStale(i) \/ BecomesDue(i) PROVE FALSE
      BY ZenonT(60), <1>1, <2>1, <2>5 DEF LeaseGoesStale, BecomesDue, TypeOK, JobRows
    <2>6. ~ChangeMode /\ ~UNCHANGED vars BY <2>1 DEF ChangeMode, vars
    <2> QED BY <1>1, <2>2, <2>3, <2>4, <2>5, <2>6 DEF Next
  <1> DEFINE Denied == \A j \in Jobs :
        /\ job[j].status = "RUNNING"
        /\ job'[j].status \in {"RETRY", "CANCELLED", "WAITING_CONFIGURATION", "FAILED"}
        => posts[j] = 0
  <1>2. TypeOK /\ QueueInv /\ [Next]_vars => [Denied]_vars BY <1>1
  <1> QED BY <1>2, QueueInvariant, PTL DEF Spec, PostIsNotDenied

-----------------------------------------------------------------------------
(* The promise: AtMostOncePublish, step by step *)

\* A call is under way.
Sending(j) == \E w \in Workers : At(w, "calling") /\ JobOf(w) = j

SameFlight(j) == Sending(j)' <=> Sending(j)

\* The steps of the promise, of one job.
PromiseStep(j) ==
  \/ /\ Phase(j) = "OPEN" /\ ~Sending(j)
     /\ Phase(j)' = "SENT" /\ Sending(j)' /\ posts' = posts
  \/ /\ Sending(j) /\ posts[j] = 0
     /\ posts' = [posts EXCEPT ![j] = 1] /\ Phase(j)' = Phase(j) /\ SameFlight(j)
  \/ /\ Sending(j)
     /\ ~Sending(j)' /\ Phase(j)' = Phase(j) /\ posts' = posts
  \/ /\ Phase(j) = "SENT"
     /\ \/ Phase(j)' = "OPEN" /\ ~Sending(j) /\ posts[j] = 0
        \/ Phase(j)' = "PUBLISHED" /\ ~Sending(j) /\ posts[j] = 1
        \/ Phase(j)' = "FAILED" /\ ~Sending(j) /\ posts[j] = 0
        \/ Phase(j)' = "UNKNOWN"
     /\ SameFlight(j) /\ posts' = posts
  \/ /\ Phase(j) = "UNKNOWN"
     /\ Phase(j)' \in {"PUBLISHED", "FAILED"} /\ SameFlight(j) /\ posts' = posts

\* Steps of which the promise sees nothing.
LEMMA PromiseStutters ==
  ASSUME \A j \in Jobs : Phase(j)' = Phase(j) /\ SameFlight(j), posts' = posts
  PROVE  UNCHANGED Promise!vars
BY DEF Promise!vars, SameFlight, Sending

\* Steps of one job.
LEMMA PromiseMoves ==
  ASSUME NEW j \in Jobs, PromiseStep(j),
         \A i \in Jobs : i # j => Phase(i)' = Phase(i) /\ SameFlight(i)
  PROVE  Promise!Next
<1> DEFINE P == [i \in Jobs |-> Phase(i)]
           F == [i \in Jobs |-> \E w \in Workers : At(w, "calling") /\ JobOf(w) = i]
<1>1. \A p : Phase(j)' = p => P' = [P EXCEPT ![j] = p]
  OBVIOUS
<1>2. Phase(j)' = Phase(j) => P' = P
  OBVIOUS
<1>3. Sending(j)' => F' = [F EXCEPT ![j] = TRUE]
  BY DEF SameFlight, Sending
<1>4. ~Sending(j)' => F' = [F EXCEPT ![j] = FALSE]
  BY DEF SameFlight, Sending
<1>5. SameFlight(j) => F' = F
  BY DEF SameFlight, Sending
<1>6. P[j] = Phase(j) /\ (F[j] <=> Sending(j))
  BY DEF Sending
<1>7. Promise!Next <=> \E i \in Jobs : \/ Promise!Send(i) \/ Promise!Post(i) \/ Promise!CallEnds(i)
                        \/ Promise!Retract(i) \/ Promise!Conclude(i) \/ Promise!Reconcile(i)
  BY DEF Promise!Next
<1> QED BY <1>1, <1>2, <1>3, <1>4, <1>5, <1>6, <1>7
        DEF Promise!Send, Promise!Post, Promise!CallEnds, Promise!Retract, Promise!Conclude,
            Promise!Reconcile, Promise!Become, PromiseStep

\* The step is one of the promise, or a stutter of it.
Promised == Promise!Next \/ UNCHANGED Promise!vars

\* Workers that make no call before and after a step.
LEMMA SameFlights ==
  ASSUME NEW w \in Workers, \A v \in Workers : v # w => worker'[v] = worker[v],
         ~At(w, "calling"), ~At(w, "calling")'
  PROVE  \A j \in Jobs : SameFlight(j)
BY DEF SameFlight, Sending, At, JobOf

\* A job with nothing sent, before and after a step.
LEMMA PhaseStays ==
  ASSUME NEW j \in Jobs, attempts'[j] = attempts[j],
         \/ job'[j].status = job[j].status
         \/ OpenNumbers(j) = {} /\ job[j].status \notin Over /\ job'[j].status \notin Over
  PROVE  Phase(j)' = Phase(j)
<1>1. OpenNumbers(j)' = OpenNumbers(j)
  BY OpenUnchanged
<1> QED BY <1>1 DEF Phase, Over

\* No phase, call or post changes.
LEMMA QuietSteps ==
  ASSUME posts' = posts, attempts' = attempts, \A j \in Jobs : SameFlight(j),
         \A j \in Jobs : \/ job'[j].status = job[j].status
                         \/ OpenNumbers(j) = {} /\ job[j].status \notin Over /\ job'[j].status \notin Over
  PROVE  Promised
BY PhaseStays, PromiseStutters DEF Promised

\* Only a running job has an open attempt.
LEMMA OpenOnlyRunning ==
  ASSUME TypeOK, QueueInv, NEW j \in Jobs, job[j].status # "RUNNING" PROVE OpenNumbers(j) = {}
BY DEF QueueInv, LedgerInv, OpenNumbers

\* The web process leaves what is sent alone, but for the operator who settles an outcome.
LEMMA WebKeepsPromise ==
  ASSUME TypeOK, QueueInv, NEW j \in Jobs, WebStep(j) PROVE Promised
<1>1. worker' = worker /\ posts' = posts
  BY DEF WebStep, EditContentVersion, SubmitForReview, ReviewContent, UpdateProductFacts,
         SchedulePublication, ReconcileUnknownPublish
<1>2. \A i \in Jobs : SameFlight(i)
  BY <1>1 DEF SameFlight, Sending, At, JobOf
<1>3. CASE job' = CancelScheduled(j) /\ attempts' = attempts
  <2>1. \A i \in Jobs : \/ job'[i] = job[i]
                        \/ job[i].status \in MutableStatus /\ job'[i].status = "CANCELLED"
    BY <1>3 DEF CancelScheduled, TypeOK, JobRows
  <2>2. \A i \in Jobs : \/ job'[i].status = job[i].status
                        \/ OpenNumbers(i) = {} /\ job[i].status \notin Over /\ job'[i].status \notin Over
    BY <2>1, OpenOnlyRunning DEF MutableStatus, Over
  <2> QED BY <1>1, <1>2, <1>3, <2>2, QuietSteps
<1>4. CASE SchedulePublication(j)
  <2>1. \A i \in Jobs : \/ job'[i] = job[i]
                        \/ job[i].status = "CANCELLED" /\ job'[i].status = "PENDING"
    BY <1>4 DEF SchedulePublication, TypeOK, JobRows
  <2>2. \A i \in Jobs : \/ job'[i].status = job[i].status
                        \/ OpenNumbers(i) = {} /\ job[i].status \notin Over /\ job'[i].status \notin Over
    BY <2>1, OpenOnlyRunning DEF Over
  <2> QED BY <1>1, <1>2, <1>4, <2>2, QuietSteps DEF SchedulePublication
<1>5. CASE ReconcileUnknownPublish(j)
  <2>1. /\ job[j].status = "UNKNOWN" /\ job'[j].status \in {"PUBLISHED", "FAILED"}
        /\ \A i \in Jobs : i # j => job'[i] = job[i] /\ attempts'[i] = attempts[i]
    BY <1>5 DEF ReconcileUnknownPublish, TypeOK, JobRows
  <2>2. Phase(j) = "UNKNOWN" /\ Phase(j)' \in {"PUBLISHED", "FAILED"}
    BY <2>1 DEF Phase
  <2> QED BY <1>1, <1>2, <2>1, <2>2, PhaseStays, PromiseMoves DEF Promised, PromiseStep
<1> QED BY <1>3, <1>4, <1>5 DEF WebStep, EditContentVersion, SubmitForReview, ReviewContent,
           UpdateProductFacts

\* The steps of time, of the heartbeat, of a process that starts.
LEMMA OthersKeepPromise ==
  ASSUME TypeOK, QueueInv,
         \/ \E w \in Workers : Heartbeat(w) \/ HeartbeatFails(w) \/ Restart(w)
         \/ \E j \in Jobs : LeaseGoesStale(j) \/ BecomesDue(j)
         \/ ChangeMode \/ UNCHANGED vars
  PROVE  Promised
<1>1. posts' = posts /\ attempts' = attempts
  BY DEF Heartbeat, HeartbeatFails, Restart, LeaseGoesStale, BecomesDue, ChangeMode, vars
<1>2. \A j \in Jobs : SameFlight(j)
  <2>1. CASE worker' = worker
    BY <2>1 DEF SameFlight, Sending, At, JobOf
  <2>2. ASSUME NEW w \in Workers, Heartbeat(w) \/ HeartbeatFails(w), worker' # worker
        PROVE  \A j \in Jobs : SameFlight(j)
    <3>1. worker' = [worker EXCEPT ![w].lost = TRUE]
      BY <2>2 DEF Heartbeat, HeartbeatFails
    <3>2. \A v \in Workers : worker'[v].pc = worker[v].pc /\ worker'[v].job = worker[v].job
      BY <3>1 DEF TypeOK, Works
    <3> QED BY <3>2 DEF SameFlight, Sending, At, JobOf
  <2>3. ASSUME NEW w \in Workers, Restart(w) PROVE \A j \in Jobs : SameFlight(j)
    BY <2>3, SameFlights DEF Restart, Rest, At, TypeOK
  <2> QED BY <2>1, <2>2, <2>3 DEF LeaseGoesStale, BecomesDue, ChangeMode, vars
<1>3. \A j \in Jobs : job'[j].status = job[j].status
  <2>1. CASE job' = job
    BY <2>1
  <2>2. CASE \E w \in Workers : job' = [job EXCEPT ![JobOf(w)] = Renewed(JobOf(w))]
    BY <2>2 DEF Renewed, TypeOK, JobRows, Works, JobOf
  <2>3. ASSUME NEW j \in Jobs, LeaseGoesStale(j) PROVE \A i \in Jobs : job'[i].status = job[i].status
    BY <2>3 DEF LeaseGoesStale, TypeOK, JobRows
  <2>4. ASSUME NEW j \in Jobs, BecomesDue(j) PROVE \A i \in Jobs : job'[i].status = job[i].status
    BY <2>4 DEF BecomesDue, TypeOK, JobRows
  <2> QED BY <2>1, <2>2, <2>3, <2>4 DEF Heartbeat, HeartbeatFails, Restart, ChangeMode, vars
<1> QED BY <1>1, <1>2, <1>3, QuietSteps

\* Recovery gives a call up whose outcome nobody will write, or gives back what was not sent.
LEMMA RecoveryKeepsPromise ==
  ASSUME TypeOK, QueueInv, NEW w \in Workers, RecoverStaleJob(w) PROVE Promised
<1>1. PICK r \in worker[w].scan :
        /\ worker' = [worker EXCEPT ![w].scan = @ \ {r}]
        /\ \/ StillStale(w, r) /\ (GiveUpCall(r) \/ Requeue(r))
           \/ UNCHANGED <<job, attempts, item, task>>
  BY DEF RecoverStaleJob
<1>2. posts' = posts /\ r.job \in Jobs /\ At(w, "recovering")
  BY DEF RecoverStaleJob, TypeOK, Works
<1>3. \A i \in Jobs : SameFlight(i)
  <2>1. \A v \in Workers : v # w => worker'[v] = worker[v]
    BY <1>1 DEF TypeOK
  <2>2. worker'[w].pc = worker[w].pc
    BY <1>1 DEF TypeOK, Works
  <2> QED BY <1>2, <2>1, <2>2, SameFlights DEF At
<1>4. CASE UNCHANGED <<job, attempts, item, task>>
  BY <1>2, <1>3, <1>4, QuietSteps
<1>5. CASE StillStale(w, r) /\ Requeue(r)
  <2>1. LatestOpen(r.job) = 0
    BY <1>5 DEF Requeue, QueueInv, ScanInv
  <2>2. OpenNumbers(r.job) = {}
    <3>1. attempts[r.job] \in Seq(AttemptStatus)
      BY <1>2 DEF TypeOK
    <3> QED BY <1>2, <2>1, <3>1, LatestOpenMax, LenProperties
  <2>3. job[r.job].status = "RUNNING" /\ job'[r.job].status = "RETRY" /\ attempts' = attempts
        /\ \A i \in Jobs : i # r.job => job'[i] = job[i]
    BY <1>2, <1>5 DEF StillStale, Requeue, Unlocked, TypeOK, JobRows
  <2> QED BY <1>2, <1>3, <2>2, <2>3, QuietSteps DEF Over
<1>6. CASE StillStale(w, r) /\ GiveUpCall(r)
  <2> DEFINE j == r.job
  <2>1. LatestOpen(j) # 0 /\ job[j].status = "RUNNING"
    BY <1>6 DEF GiveUpCall, StillStale, QueueInv, ScanInv
  <2>2. OpenNumbers(j) # {}
    BY <2>1 DEF LatestOpen
  <2>3. job'[j].status = "UNKNOWN"
        /\ \A i \in Jobs : i # j => job'[i] = job[i] /\ attempts'[i] = attempts[i]
    BY <1>2, <1>6 DEF GiveUpCall, Unlocked, TypeOK, JobRows
  <2>4. Phase(j) = "SENT" /\ Phase(j)' = "UNKNOWN"
    BY <2>1, <2>2, <2>3 DEF Phase
  <2>5. PromiseStep(j)
    BY <1>2, <1>3, <2>4 DEF PromiseStep
  <2> QED BY <1>2, <1>3, <2>3, <2>5, PhaseStays, PromiseMoves DEF Promised
<1> QED BY <1>1, <1>4, <1>5, <1>6

\* From the scan to the gate, a job is open, whoever holds it.
LEMMA ClaimsKeepPromise ==
  ASSUME TypeOK, QueueInv, NEW w \in Workers,
         \/ ScanStaleJobs(w) \/ ClaimNextJob(w) \/ LoadJob(w) \/ CancelClaim(w)
         \/ AdapterUnavailable(w) \/ GateRefuses(w) \/ AttemptNumberTaken(w)
  PROVE  Promised
<1>1. posts' = posts /\ attempts' = attempts
  BY DEF ScanStaleJobs, ClaimNextJob, LoadJob, CancelClaim, AdapterUnavailable, GateRefuses,
         AttemptNumberTaken
<1>2. \A j \in Jobs : SameFlight(j)
  <2>1. \A v \in Workers : v # w => worker'[v] = worker[v]
    BY DEF ScanStaleJobs, ClaimNextJob, LoadJob, CancelClaim, AdapterUnavailable, GateRefuses,
           AttemptNumberTaken, TypeOK
  <2>2. ~At(w, "calling")
    BY DEF ScanStaleJobs, ClaimNextJob, LoadJob, CancelClaim, AdapterUnavailable, GateRefuses,
           AttemptNumberTaken, At
  <2>3. ~At(w, "calling")'
    <3>1. CASE ClaimNextJob(w)
      <4>1. ASSUME NEW j \in Jobs, NEW t \in FreshTokens,
                   worker' = [worker EXCEPT ![w] = [Rest("claimed") EXCEPT !.job = j, !.token = t]]
            PROVE  ~At(w, "calling")'
        BY <4>1 DEF Rest, TypeOK, At
      <4>2. CASE worker' = [worker EXCEPT ![w] = Rest("idle")]
        BY <4>2 DEF Rest, TypeOK, At
      <4> QED BY <3>1, <4>1, <4>2 DEF ClaimNextJob
    <3>2. CASE ScanStaleJobs(w)
      BY <3>2 DEF ScanStaleJobs, Rest, TypeOK, At
    <3>3. CASE LoadJob(w)
      <4>1. CASE worker' = [worker EXCEPT ![w] = Rest("idle")]
        BY <4>1 DEF Rest, TypeOK, At
      <4>2. CASE worker' = [worker EXCEPT ![w] = [@ EXCEPT
                   !.pc = "loaded", !.token = job[JobOf(w)].lockedBy,
                   !.number = job[JobOf(w)].attemptCount + 1,
                   !.valid = GateOpen(JobOf(w)) /\ BoundaryHolds(JobOf(w))]]
        BY <4>2 DEF TypeOK, Works, At
      <4> QED BY <3>3, <4>1, <4>2 DEF LoadJob
    <3>4. CASE worker' = [worker EXCEPT ![w] = Rest("idle")] \/ worker' = [worker EXCEPT ![w] = Rest("down")]
      BY <3>4 DEF At, Rest, TypeOK
    <3> QED BY <3>1, <3>2, <3>3, <3>4 DEF CancelClaim, AdapterUnavailable, GateRefuses, AttemptNumberTaken
  <2> QED BY <2>1, <2>2, <2>3, SameFlights
<1>3. JobOf(w) \in Jobs
  BY DEF TypeOK, Works, JobOf
<1>4. CASE ScanStaleJobs(w)
  <2>1. \A j \in Jobs : job'[j].status = job[j].status
    BY <1>4 DEF ScanStaleJobs, TypeOK, JobRows
  <2> QED BY <1>1, <1>2, <2>1, QuietSteps
<1>5. CASE ClaimNextJob(w)
  <2>1. ASSUME NEW j \in Jobs, NEW t \in FreshTokens, Claimable(j),
               job' = [job EXCEPT ![j] = [Renewed(j) EXCEPT !.status = "RUNNING", !.lockedBy = t]]
        PROVE  /\ job[j].status \in {"PENDING", "RETRY"} /\ job'[j].status = "RUNNING"
               /\ \A i \in Jobs : i # j => job'[i] = job[i]
    BY <2>1 DEF Renewed, TypeOK, JobRows, Claimable
  <2>2. \A i \in Jobs : \/ job'[i].status = job[i].status
                        \/ OpenNumbers(i) = {} /\ job[i].status \notin Over /\ job'[i].status \notin Over
    <3>1. CASE job' = job
      BY <3>1
    <3>2. ASSUME NEW j \in Jobs, NEW t \in FreshTokens, Claimable(j),
                 job' = [job EXCEPT ![j] = [Renewed(j) EXCEPT !.status = "RUNNING", !.lockedBy = t]],
                 NEW i \in Jobs
          PROVE  \/ job'[i].status = job[i].status
                 \/ OpenNumbers(i) = {} /\ job[i].status \notin Over /\ job'[i].status \notin Over
      <4>1. job[j].status \in {"PENDING", "RETRY"} /\ job'[j].status = "RUNNING"
            /\ \A k \in Jobs : k # j => job'[k] = job[k]
        BY <2>1, <3>2
      <4> QED BY <4>1, OpenOnlyRunning DEF Over
    <3> QED BY <1>5, <3>1, <3>2 DEF ClaimNextJob
  <2> QED BY <1>1, <1>2, <2>2, QuietSteps
<1>6. CASE job' = job
  BY <1>1, <1>2, <1>6, QuietSteps
<1>7. CASE /\ At(w, "loaded") /\ Holds(w)
           /\ \/ job' = [job EXCEPT ![JobOf(w)] = Unlocked(JobOf(w), "CANCELLED")]
              \/ job' = [job EXCEPT ![JobOf(w)] = Unlocked(JobOf(w), "WAITING_CONFIGURATION")]
  <2>1. OpenNumbers(JobOf(w)) = {} /\ job[JobOf(w)].status = "RUNNING"
    BY <1>7 DEF QueueInv, CallInv, BeforeCall, Holds
  <2>2. /\ job'[JobOf(w)].status \in {"CANCELLED", "WAITING_CONFIGURATION"}
        /\ \A i \in Jobs : i # JobOf(w) => job'[i] = job[i]
    <3>1. PICK s \in {"CANCELLED", "WAITING_CONFIGURATION"} :
            job' = [job EXCEPT ![JobOf(w)] = Unlocked(JobOf(w), s)]
      BY <1>7
    <3> QED BY <1>3, <3>1 DEF Unlocked, TypeOK, JobRows
  <2>3. \A i \in Jobs : \/ job'[i].status = job[i].status
                        \/ OpenNumbers(i) = {} /\ job[i].status \notin Over /\ job'[i].status \notin Over
    <3> SUFFICES ASSUME NEW i \in Jobs, i = JobOf(w)
                 PROVE  OpenNumbers(i) = {} /\ job[i].status \notin Over /\ job'[i].status \notin Over
      BY <2>2
    <3> QED BY <2>1, <2>2 DEF Over
  <2> QED BY <1>1, <1>2, <2>3, QuietSteps
<1>8. CASE LoadJob(w) \/ CancelClaim(w) \/ AdapterUnavailable(w) \/ GateRefuses(w)
           \/ AttemptNumberTaken(w)
  BY <1>6, <1>7, <1>8 DEF LoadJob, CancelClaim, AdapterUnavailable, GateRefuses, AttemptNumberTaken
<1> QED BY <1>4, <1>5, <1>8

\* The gate sends an open job for which no call is under way.
LEMMA GateKeepsPromise ==
  ASSUME TypeOK, QueueInv, NEW w \in Workers, OpenAttempt(w) PROVE Promised
<1>0. PICK j \in Jobs : j = JobOf(w)
  BY DEF TypeOK, Works, JobOf
<1>1. /\ posts' = posts /\ At(w, "loaded") /\ Holds(w)
      /\ worker' = [worker EXCEPT ![w].pc = "calling"]
      /\ \A i \in Jobs : i # j => job'[i] = job[i] /\ attempts'[i] = attempts[i]
      /\ job' = [job EXCEPT ![j] = [Renewed(j) EXCEPT !.attemptCount = worker[w].number]]
      /\ attempts'[j] = Append(attempts[j], "DISPATCHING")
  BY <1>0 DEF OpenAttempt, TypeOK
<1>2. job[j].status = "RUNNING" /\ OpenNumbers(j) = {}
  BY <1>0, <1>1 DEF QueueInv, CallInv, BeforeCall, Holds
<1>3. job'[j].status = "RUNNING"
  BY <1>1, <1>2 DEF Renewed, TypeOK, JobRows
<1>4. OpenNumbers(j)' # {}
  <2>1. attempts[j] \in Seq(AttemptStatus)
    BY <1>1 DEF TypeOK
  <2>2. Len(attempts[j]) + 1 \in DOMAIN attempts'[j]
        /\ attempts'[j][Len(attempts[j]) + 1] = "DISPATCHING"
    BY <1>1, <2>1, AppendProperties, LenProperties DEF AttemptStatus
  <2> QED BY <2>2 DEF OpenNumbers
<1>5. Phase(j) = "OPEN" /\ Phase(j)' = "SENT"
  BY <1>2, <1>3, <1>4 DEF Phase
<1>6. ~Sending(j)
  <2> SUFFICES ASSUME NEW v \in Workers, At(v, "calling"), JobOf(v) = j PROVE FALSE
    BY DEF Sending
  <2>1. worker[v].pc \in InCall /\ DuringCall(v)
    BY DEF QueueInv, CallInv, At, InCall
  <2> QED BY <1>2, <2>1 DEF DuringCall, Over
<1>7. \A v \in Workers : v # w => worker'[v] = worker[v]
  BY <1>1 DEF TypeOK
<1>8. worker'[w].pc = "calling" /\ worker'[w].job = worker[w].job
  BY <1>1 DEF TypeOK, Works
<1>9. Sending(j)'
  BY <1>0, <1>8 DEF Sending, At, JobOf
<1>10. \A i \in Jobs : i # j => SameFlight(i)
  BY <1>0, <1>1, <1>7, <1>8 DEF SameFlight, Sending, At, JobOf
<1>11. PromiseStep(j)
  BY <1>1, <1>5, <1>6, <1>9 DEF PromiseStep
<1> QED BY <1>1, <1>10, <1>11, PhaseStays, PromiseMoves DEF Promised

\* A call that ends with an answer or with the process that makes it.
LEMMA CallEndKeepsPromise ==
  ASSUME TypeOK, QueueInv, NEW w \in Workers, AdapterReturns(w) \/ Crash(w) PROVE Promised
<1>0. PICK j \in Jobs : j = JobOf(w)
  BY DEF TypeOK, Works, JobOf
<1>1. /\ UNCHANGED <<job, attempts, posts>>
      /\ \A v \in Workers : v # w => worker'[v] = worker[v]
  BY <1>0 DEF AdapterReturns, Crash, TypeOK
<1>2. ~At(w, "calling")'
  <2>1. CASE AdapterReturns(w)
    <3>1. \E o : worker'[w] = [worker[w] EXCEPT !.pc = "answered", !.outcome = o]
      BY <2>1 DEF AdapterReturns, TypeOK
    <3>2. ASSUME NEW o PROVE [worker[w] EXCEPT !.pc = "answered", !.outcome = o].pc = "answered"
      BY DEF TypeOK, Works
    <3> QED BY <3>1, <3>2 DEF At
  <2>2. CASE Crash(w)
    BY <2>2 DEF Crash, TypeOK, At, Rest
  <2> QED BY <2>1, <2>2
<1>3. \A i \in Jobs : Phase(i)' = Phase(i)
  BY <1>1, PhaseStays
<1>4. CASE ~At(w, "calling")
  <2>1. \A i \in Jobs : SameFlight(i)
    BY <1>1, <1>2, <1>4, SameFlights
  <2> QED BY <1>1, <1>3, <2>1, PromiseStutters DEF Promised
<1>5. CASE At(w, "calling")
  <2>1. Sending(j)
    BY <1>0, <1>5 DEF Sending
  <2>2. \A v \in Workers : v # w => ~(At(v, "calling") /\ JobOf(v) = j)
    BY <1>0, <1>5 DEF QueueInv, CallInv, At, InCall
  <2>3. ~Sending(j)' /\ \A i \in Jobs : i # j => SameFlight(i)
    BY <1>0, <1>1, <1>2, <2>2 DEF Sending, SameFlight, At, JobOf
  <2>4. PromiseStep(j)
    BY <1>1, <1>3, <2>1, <2>3 DEF PromiseStep
  <2> QED BY <1>1, <1>3, <2>3, <2>4, PromiseMoves DEF Promised
<1> QED BY <1>4, <1>5

\* The platform creates one post of a call.
LEMMA PlatformKeepsPromise ==
  ASSUME TypeOK, QueueInv, NEW w \in Workers, PlatformCreatesPost(w) PROVE Promised
<1>0. PICK j \in Jobs : j = JobOf(w)
  BY DEF TypeOK, Works, JobOf
<1>1. /\ UNCHANGED <<job, attempts>> /\ At(w, "calling") /\ ~worker[w].made
      /\ posts' = [posts EXCEPT ![j] = posts[j] + 1]
      /\ worker' = [worker EXCEPT ![w].made = TRUE]
  BY <1>0 DEF PlatformCreatesPost, TypeOK
<1>2. Sending(j) /\ posts[j] = 0
  BY <1>0, <1>1 DEF Sending, QueueInv, PostInv, At, InCall
<1>3. \A v \in Workers : worker'[v].pc = worker[v].pc /\ worker'[v].job = worker[v].job
  BY <1>1 DEF TypeOK, Works
<1>4. \A i \in Jobs : SameFlight(i) /\ Phase(i)' = Phase(i)
  BY <1>1, <1>3, PhaseStays DEF SameFlight, Sending, At, JobOf
<1>5. posts' = [posts EXCEPT ![j] = 1]
  BY <1>1, <1>2
<1>6. PromiseStep(j)
  BY <1>2, <1>4, <1>5 DEF PromiseStep
<1> QED BY <1>1, <1>4, <1>6, PromiseMoves DEF Promised

\* What a worker writes of the job it sent agrees with the platform, or says it does not know.
LEMMA ResultKeepsPromise ==
  ASSUME TypeOK, QueueInv, NEW w \in Workers, RecordResult(w) PROVE Promised
<1>0. PICK j \in Jobs : j = JobOf(w)
  BY DEF TypeOK, Works, JobOf
<1> DEFINE o == worker[w].outcome
<1>1. /\ At(w, "answered") /\ posts' = posts
      /\ worker' = [worker EXCEPT ![w] = Rest("idle")]
  BY DEF RecordResult
<1>2. \A i \in Jobs : SameFlight(i)
  BY <1>1, SameFlights DEF At, Rest, TypeOK
<1>3. CASE UNCHANGED <<job, attempts>>
  BY <1>1, <1>2, <1>3, QuietSteps
<1>4. CASE /\ Holds(w)
           /\ job' = [job EXCEPT ![j] = [Unlocked(j, o) EXCEPT !.due = @ /\ o # "RETRY"]]
           /\ attempts' = [attempts EXCEPT ![j][worker[w].number] = AttemptResult(o)]
  <2>1. \A i \in Jobs : i # j => Phase(i)' = Phase(i)
    BY <1>4, PhaseStays DEF TypeOK
  <2>2. job'[j].status = o
    <3> HIDE DEF o
    <3> QED BY <1>4 DEF TypeOK, JobRows, Unlocked
  <2>3. job[j].status = "RUNNING" /\ OpenNumbers(j) # {}
    BY <1>0, <1>1, <1>4 DEF QueueInv, CallInv, DuringCall, At, InCall, Holds
  <2>4. Phase(j) = "SENT" /\ o \in Outcomes
    BY <2>3 DEF Phase, TypeOK, Works
  <2>5. ~Sending(j)
    BY <1>0, <1>1 DEF Sending, QueueInv, CallInv, At, InCall
  <2>6. /\ posts[j] = IF worker[w].made THEN 1 ELSE 0
        /\ worker[w].made => o \in {"PUBLISHED", "UNKNOWN"}
        /\ o = "PUBLISHED" => worker[w].made
    BY <1>0, <1>1 DEF QueueInv, PostInv, At, InCall
  <2>7. Phase(j)' = IF o = "RETRY" THEN "OPEN" ELSE o
    BY <2>2, <2>4 DEF Phase, Outcomes
  <2> HIDE DEF o
  <2>8. PromiseStep(j)
    BY <1>1, <1>2, <2>4, <2>5, <2>6, <2>7 DEF PromiseStep, Outcomes
  <2> QED BY <1>2, <2>1, <2>8, PromiseMoves DEF Promised
<1> QED BY <1>0, <1>3, <1>4 DEF RecordResult

LEMMA InitKeepsPromise == Init => Promise!Init
<1> SUFFICES ASSUME Init PROVE Promise!Init
  OBVIOUS
<1>1. \A j \in Jobs : Phase(j) = "OPEN"
  BY DEF Init, Phase
<1>2. \A w \in Workers : ~At(w, "calling")
  BY DEF Init, Rest, At
<1> QED BY <1>1, <1>2 DEF Init, Promise!Init

\* Every step of the queue is a step of the promise, for one job, or changes nothing it speaks of.
LEMMA NextKeepsPromise ==
  ASSUME TypeOK, QueueInv, [Next]_vars PROVE Promised
<1>1. ASSUME NEW w \in Workers, WorkerStep(w) PROVE Promised
  BY <1>1, RecoveryKeepsPromise, ClaimsKeepPromise, GateKeepsPromise, CallEndKeepsPromise,
     ResultKeepsPromise DEF WorkerStep
<1>2. ASSUME NEW w \in Workers,
             \/ PlatformCreatesPost(w) \/ Heartbeat(w) \/ HeartbeatFails(w)
             \/ Crash(w) \/ Restart(w)
      PROVE  Promised
  BY <1>2, PlatformKeepsPromise, OthersKeepPromise, CallEndKeepsPromise
<1>3. ASSUME NEW j \in Jobs, WebStep(j) \/ LeaseGoesStale(j) \/ BecomesDue(j) PROVE Promised
  BY <1>3, WebKeepsPromise, OthersKeepPromise
<1>4. CASE ChangeMode \/ UNCHANGED vars
  BY <1>4, OthersKeepPromise
<1> QED BY <1>1, <1>2, <1>3, <1>4 DEF Next

\* The queue, with its leases, recoveries, retries, crashes and editors, implements at-most-once
\* publishing with outcomes that agree with the platform or are left to an operator: publish-worker-service.ts
\* as a whole, if no worker outsleeps its lease between its claim and the read of the claimed row.
THEOREM QueueKeepsPromise ==
  ASSUME "claimed" \notin StallPoints
  PROVE  Spec => KeepsPromise
<1>1. TypeOK /\ QueueInv /\ [Next]_vars => [Promise!Next]_(Promise!vars)
  BY NextKeepsPromise DEF Promised
<1> QED BY <1>1, InitKeepsPromise, QueueInvariant, PTL DEF Spec, KeepsPromise, Promise!Spec
=============================================================================
