------------------------ MODULE PublishWorkerProofs ------------------------
(***************************************************************************)
(* Proofs about PublishWorker.                                             *)
(***************************************************************************)
EXTENDS PublishWorker, TLAPS, SequenceTheorems, WellFoundedInduction

LEMMA RestType == ASSUME NEW pc \in WorkerPoints PROVE Rest(pc) \in Works
  BY ConstantsAssumption DEF ConstantsAssumption, Rest, Works, Outcomes

LEMMA LargestExists ==
  ASSUME NEW n \in Nat, NEW S \in SUBSET (1 .. n), S # {}
  PROVE  \E k \in S : \A m \in S : m <= k
  <1> DEFINE T == {n - k : k \in S}
  <1>1. \A k \in S : k \in Int /\ n - k \in Nat OBVIOUS
  <1>2. T \subseteq Nat BY <1>1
  <1>3. T # {} OBVIOUS
  <1>4. PICK d \in T : \A e \in T : ~(<<e, d>> \in OpToRel(<, Nat))
    <2> HIDE DEF T
    <2> QED BY <1>2, <1>3, NatLessThanWellFounded, WFMin
  <1>5. \A e \in T : ~(e < d)
    BY <1>2, <1>4 DEF OpToRel
  <1>6. PICK k \in S : d = n - k OBVIOUS
  <1>7. ASSUME NEW m \in S PROVE m <= k
    <2>1. ~(n - m < d) BY <1>5
    <2> QED BY <2>1, <1>1, <1>6
  <1> QED BY <1>7

\* An update in the middle of a sequence, or outside it, which changes nothing.
LEMMA SeqUpdate ==
  ASSUME NEW S, NEW s \in Seq(S), NEW k \in Nat, NEW e \in S
  PROVE  [s EXCEPT ![k] = e] \in Seq(S)
  <1>1. CASE k \in 1 .. Len(s) BY <1>1, ExceptSeq
  <1>2. CASE k \notin 1 .. Len(s)
    <2>1. k \notin DOMAIN s BY <1>2, LenProperties
    <2>2. [s EXCEPT ![k] = e] = s BY <2>1, LenProperties
    <2> QED BY <2>2
  <1> QED BY <1>1, <1>2

LEMMA LatestOpenMax ==
  ASSUME NEW j \in Jobs, attempts[j] \in Seq(AttemptStatus)
  PROVE  /\ OpenNumbers(j) = {} => LatestOpen(j) = 0
         /\ OpenNumbers(j) # {} => /\ LatestOpen(j) \in OpenNumbers(j)
                                   /\ \A m \in OpenNumbers(j) : m <= LatestOpen(j)
         /\ OpenNumbers(j) \subseteq 1 .. Len(attempts[j])
         /\ LatestOpen(j) \in Nat
  <1>1. OpenNumbers(j) \subseteq 1 .. Len(attempts[j]) /\ Len(attempts[j]) \in Nat
    BY LenProperties DEF OpenNumbers
  <1>2. OpenNumbers(j) # {} =>
          \E k \in OpenNumbers(j) : \A m \in OpenNumbers(j) : m <= k
    BY <1>1, LargestExists
  <1> QED BY <1>1, <1>2 DEF LatestOpen

LEMMA InitTypeOK == Init => TypeOK
  <1> SUFFICES ASSUME Init PROVE TypeOK OBVIOUS
  <1>1. \A w \in Workers : Rest("idle") \in Works
    BY RestType DEF WorkerPoints
  <1>2. attempts \in [Jobs -> Seq(AttemptStatus)]
    BY EmptySeq DEF Init
  <1> QED BY <1>1, <1>2 DEF Init, TypeOK, JobRows, JobStatus, ItemStatus, ClientModes, FailureEvents

-----------------------------------------------------------------------------
(* Types: the rows that the actions write, then one step per action *)

LEMMA RowTypes ==
  ASSUME TypeOK, NEW j \in Jobs
  PROVE  /\ job[j] \in JobRows /\ Renewed(j) \in JobRows
         /\ \A s \in JobStatus : Unlocked(j, s) \in JobRows
         /\ CancelScheduled(j) \in [Jobs -> JobRows]
  <1>1. job \in [Jobs -> JobRows] BY DEF TypeOK
  <1>2. Renewed(j) \in JobRows BY <1>1 DEF JobRows, Renewed
  <1>3. \A s \in JobStatus : Unlocked(j, s) \in JobRows BY <1>1 DEF JobRows, Unlocked
  <1>4. [job[j] EXCEPT !.status = "CANCELLED"] \in JobRows
    BY <1>1 DEF JobRows, JobStatus
  <1>5. CancelScheduled(j) \in [Jobs -> JobRows]
    BY <1>1, <1>4 DEF CancelScheduled
  <1> QED BY <1>1, <1>2, <1>3, <1>5

LEMMA ScanType ==
  ASSUME TypeOK, NEW w \in Workers, ScanStaleJobs(w)
  PROVE  TypeOK'
  <1> DEFINE S == {[job |-> j, token |-> job[j].lockedBy, attempt |-> LatestOpen(j)] :
                     j \in StaleJobs}
             R == Rest("recovering")
  <1>1. StaleJobs \subseteq Jobs BY DEF StaleJobs
  <1>2. S \in SUBSET [job : Jobs, token : Tokens \cup {NoToken}, attempt : Nat]
    BY <1>1, LatestOpenMax DEF TypeOK, JobRows
  <1>3. R \in Works BY RestType DEF WorkerPoints
  <1>4. [R EXCEPT !.scan = S] \in Works
     <2> HIDE DEF S, R
     <2> QED BY <1>2, <1>3 DEF Works
  <1>5. \A j \in Jobs : [job[j] EXCEPT !.passed = @ \cup {w}] \in JobRows
    BY ZenonT(60) DEF TypeOK, JobRows
  <1> QED BY <1>1, <1>4, <1>5 DEF ScanStaleJobs, TypeOK

LEMMA RecoverType ==
  ASSUME TypeOK, NEW w \in Workers, RecoverStaleJob(w)
  PROVE  TypeOK'
  <1>1. PICK r \in worker[w].scan :
          /\ worker' = [worker EXCEPT ![w].scan = @ \ {r}]
          /\ \/ GiveUpCall(r) \/ Requeue(r) \/ UNCHANGED <<job, attempts, item, task>>
    BY DEF RecoverStaleJob
  <1>2. r.job \in Jobs /\ r.attempt \in Nat
    BY DEF TypeOK, Works
  <1> DEFINE W == [worker[w] EXCEPT !.scan = @ \ {r}]
  <1>3. W \in Works /\ worker' = [worker EXCEPT ![w] = W]
    BY ZenonT(60), <1>1 DEF TypeOK, Works
  <1>4. worker' \in [Workers -> Works]
    <2> HIDE DEF W
    <2> QED BY <1>3 DEF TypeOK
  <1>5. CASE GiveUpCall(r)
    <2>1. Unlocked(r.job, "UNKNOWN") \in JobRows
      BY <1>2, RowTypes DEF JobStatus
    <2>2. [attempts[r.job] EXCEPT ![r.attempt] = "UNKNOWN"] \in Seq(AttemptStatus)
      BY <1>2, SeqUpdate DEF TypeOK, AttemptStatus
    <2> QED BY <1>2, <1>4, <1>5, <2>1, <2>2
            DEF GiveUpCall, TypeOK, ItemStatus, FailureEvents, RecoverStaleJob
  <1>6. CASE Requeue(r)
    <2>1. Unlocked(r.job, "RETRY") \in JobRows
      BY <1>2, RowTypes DEF JobStatus
    <2>2. [Unlocked(r.job, "RETRY") EXCEPT !.due = TRUE] \in JobRows
      BY <2>1 DEF JobRows
    <2> QED BY <1>2, <1>4, <1>6, <2>2 DEF Requeue, TypeOK, RecoverStaleJob
  <1>7. CASE UNCHANGED <<job, attempts, item, task>>
    BY <1>4, <1>7 DEF TypeOK, RecoverStaleJob
  <1> QED BY <1>1, <1>5, <1>6, <1>7

LEMMA ClaimType ==
  ASSUME TypeOK, NEW w \in Workers, ClaimNextJob(w)
  PROVE  TypeOK'
  <1>1. CASE \E j \in Jobs :
               /\ FreshTokens # {}
               /\ LET token == CHOOSE t \in FreshTokens : TRUE
                  IN  /\ job' = [job EXCEPT ![j] = [Renewed(j) EXCEPT !.status = "RUNNING",
                                                                      !.lockedBy = token]]
                      /\ worker' = [worker EXCEPT ![w] = [Rest("claimed") EXCEPT !.job = j,
                                                                                 !.token = token]]
    <2>1. PICK j \in Jobs, t \in Tokens :
            /\ job' = [job EXCEPT ![j] = [Renewed(j) EXCEPT !.status = "RUNNING",
                                                            !.lockedBy = t]]
            /\ worker' = [worker EXCEPT ![w] = [Rest("claimed") EXCEPT !.job = j, !.token = t]]
      <3>1. FreshTokens \subseteq Tokens BY DEF FreshTokens
      <3> QED BY <1>1, <3>1
    <2> DEFINE W == [Rest("claimed") EXCEPT !.job = j, !.token = t]
               R == [Renewed(j) EXCEPT !.status = "RUNNING", !.lockedBy = t]
    <2>2. W \in Works
      <3>1. Rest("claimed") \in Works BY RestType DEF WorkerPoints, Busy
      <3> QED BY <3>1 DEF Works
    <2>3. R \in JobRows
      <3>1. Renewed(j) \in JobRows BY RowTypes
      <3> QED BY <3>1 DEF JobRows, JobStatus
    <2>4. worker' = [worker EXCEPT ![w] = W] /\ job' = [job EXCEPT ![j] = R]
      BY <2>1
    <2> HIDE DEF W, R
    <2> QED BY ZenonT(60), <2>2, <2>3, <2>4 DEF TypeOK, ClaimNextJob
  <1>2. CASE worker' = [worker EXCEPT ![w] = Rest("idle")] /\ UNCHANGED job
    <2>1. Rest("idle") \in Works BY RestType DEF WorkerPoints
    <2> QED BY <1>2, <2>1 DEF TypeOK, ClaimNextJob
  <1> QED BY <1>1, <1>2 DEF ClaimNextJob

LEMMA RestsType ==
  ASSUME TypeOK, NEW w \in Workers, NEW pc \in {"idle", "down"},
         worker' = [worker EXCEPT ![w] = Rest(pc)]
  PROVE  worker' \in [Workers -> Works]
  BY RestType DEF TypeOK, WorkerPoints

LEMMA LoadType ==
  ASSUME TypeOK, NEW w \in Workers, LoadJob(w)
  PROVE  TypeOK'
  <1> DEFINE j == JobOf(w)
             W == [worker[w] EXCEPT !.pc = "loaded", !.token = job[j].lockedBy,
                                    !.number = job[j].attemptCount + 1,
                                    !.valid = GateOpen(j) /\ BoundaryHolds(j)]
  <1>1. CASE worker' = [worker EXCEPT ![w] = W]
    <2>1. worker[w] \in Works /\ job[j] \in JobRows
      BY DEF TypeOK, Works, JobOf
    <2>2. W \in Works
      <3>1. (GateOpen(j) /\ BoundaryHolds(j)) \in BOOLEAN OBVIOUS
      <3>2. job[j].lockedBy \in Tokens \cup {NoToken} /\ job[j].attemptCount + 1 \in Nat
        BY <2>1 DEF JobRows
      <3> QED BY <2>1, <3>1, <3>2 DEF Works, WorkerPoints, Busy
    <2> HIDE DEF W
    <2> QED BY <1>1, <2>2 DEF TypeOK, LoadJob
  <1>2. CASE worker' = [worker EXCEPT ![w] = Rest("idle")]
    BY <1>2, RestsType DEF TypeOK, LoadJob
  <1> QED BY <1>1, <1>2 DEF LoadJob

LEMMA NoDispatchType ==
  ASSUME TypeOK, NEW w \in Workers,
         CancelClaim(w) \/ AdapterUnavailable(w) \/ GateRefuses(w) \/ AttemptNumberTaken(w)
  PROVE  TypeOK'
  <1>1. JobOf(w) \in Jobs BY DEF TypeOK, Works, JobOf
  <1>2. /\ Unlocked(JobOf(w), "CANCELLED") \in JobRows
        /\ Unlocked(JobOf(w), "WAITING_CONFIGURATION") \in JobRows
    BY <1>1, RowTypes DEF JobStatus
  <1>3. worker' \in [Workers -> Works]
    BY RestsType DEF CancelClaim, AdapterUnavailable, GateRefuses, AttemptNumberTaken
  <1>4. CASE CancelClaim(w) BY <1>1, <1>2, <1>3, <1>4 DEF TypeOK, CancelClaim
  <1>5. CASE AdapterUnavailable(w)
    <2>1. job' \in [Jobs -> JobRows] /\ task' \in [Jobs -> SUBSET FailureEvents]
      <3>1. CASE Holds(w) BY ZenonT(60), <1>1, <1>2, <1>5, <3>1 DEF TypeOK, AdapterUnavailable, FailureEvents
      <3>2. CASE ~Holds(w) BY <1>5, <3>2 DEF TypeOK, AdapterUnavailable
      <3> QED BY <3>1, <3>2
    <2> QED BY <1>3, <1>5, <2>1 DEF TypeOK, AdapterUnavailable
  <1>6. CASE GateRefuses(w) BY <1>1, <1>2, <1>3, <1>6 DEF TypeOK, GateRefuses
  <1>7. CASE AttemptNumberTaken(w) BY <1>3, <1>7 DEF TypeOK, AttemptNumberTaken
  <1> QED BY <1>4, <1>5, <1>6, <1>7

LEMMA OpenAttemptType ==
  ASSUME TypeOK, NEW w \in Workers, OpenAttempt(w)
  PROVE  TypeOK'
  <1> DEFINE j == JobOf(w)
             W == [worker[w] EXCEPT !.pc = "calling"]
             R == [Renewed(j) EXCEPT !.attemptCount = worker[w].number]
             A == Append(attempts[j], "DISPATCHING")
  <1>1. j \in Jobs BY DEF TypeOK, Works, JobOf
  <1>2. W \in Works BY ZenonT(60) DEF TypeOK, Works, WorkerPoints, Busy
  <1>3. R \in JobRows
    <2>1. Renewed(j) \in JobRows BY <1>1, RowTypes
    <2>2. worker[w].number \in Nat BY DEF TypeOK, Works
    <2> QED BY <2>1, <2>2 DEF JobRows
  <1>4. A \in Seq(AttemptStatus)
    BY <1>1, AppendProperties DEF TypeOK, AttemptStatus
  <1>5. /\ worker' = [worker EXCEPT ![w] = W] /\ job' = [job EXCEPT ![j] = R]
        /\ attempts' = [attempts EXCEPT ![j] = A]
        /\ item' = [item EXCEPT ![j] = "RUNNING"]
        /\ UNCHANGED <<gate, task, mode, posts, crashes>>
    BY DEF OpenAttempt
  <1> HIDE DEF W, R, A, j
  <1> QED BY <1>1, <1>2, <1>3, <1>4, <1>5 DEF TypeOK, ItemStatus

LEMMA CallType ==
  ASSUME TypeOK, NEW w \in Workers,
         PlatformCreatesPost(w) \/ AdapterReturns(w) \/ Heartbeat(w) \/ HeartbeatFails(w)
  PROVE  TypeOK'
  <1>1. JobOf(w) \in Jobs BY DEF TypeOK, Works, JobOf
  <1>2. Renewed(JobOf(w)) \in JobRows BY <1>1, RowTypes
  <1>3. /\ [worker[w] EXCEPT !.made = TRUE] \in Works
        /\ [worker[w] EXCEPT !.lost = TRUE] \in Works
        /\ \A o \in Outcomes : [worker[w] EXCEPT !.pc = "answered", !.outcome = o] \in Works
    BY ZenonT(60) DEF TypeOK, Works, WorkerPoints, Busy
  <1>4. CASE PlatformCreatesPost(w)
    <2>1. worker' \in [Workers -> Works]
      BY <1>3, <1>4 DEF TypeOK, PlatformCreatesPost
    <2>2. posts' \in [Jobs -> Nat] BY <1>1, <1>4 DEF TypeOK, PlatformCreatesPost
    <2> QED BY <1>4, <2>1, <2>2 DEF TypeOK, PlatformCreatesPost
  <1>5. CASE AdapterReturns(w)
    <2>1. PICK o \in Outcomes :
            worker' = [worker EXCEPT ![w] = [@ EXCEPT !.pc = "answered", !.outcome = o]]
      BY <1>5 DEF AdapterReturns, PossibleOutcomes
    <2> DEFINE W == [worker[w] EXCEPT !.pc = "answered", !.outcome = o]
    <2>2. worker' = [worker EXCEPT ![w] = W] /\ W \in Works BY <1>3, <2>1
    <2> HIDE DEF W
    <2> QED BY <1>5, <2>2 DEF TypeOK, AdapterReturns
  <1>6. CASE Heartbeat(w)
    <2>1. CASE Holds(w) BY <1>1, <1>2, <1>6, <2>1 DEF TypeOK, Heartbeat
    <2>2. CASE ~Holds(w) BY <1>3, <1>6, <2>2 DEF TypeOK, Heartbeat
    <2> QED BY <2>1, <2>2
  <1>7. CASE HeartbeatFails(w) BY <1>3, <1>7 DEF TypeOK, HeartbeatFails
  <1> QED BY <1>4, <1>5, <1>6, <1>7

LEMMA RecordType ==
  ASSUME TypeOK, NEW w \in Workers, RecordResult(w)
  PROVE  TypeOK'
  <1> DEFINE j == JobOf(w)
             o == worker[w].outcome
             R == [Unlocked(j, o) EXCEPT !.due = @ /\ o # "RETRY"]
             A == [attempts[j] EXCEPT ![worker[w].number] = AttemptResult(o)]
  <1>1. worker' \in [Workers -> Works] BY RestsType DEF RecordResult
  <1>2. CASE UNCHANGED <<job, attempts, item, task>>
    BY <1>1, <1>2 DEF TypeOK, RecordResult
  <1>3. CASE /\ job' = [job EXCEPT ![j] = R]
             /\ attempts' = [attempts EXCEPT ![j] = A]
             /\ item' = [item EXCEPT ![j] = ItemResult(o)]
             /\ task' = [task EXCEPT ![j] = @ \cup FailureTask(o)]
    <2>1. j \in Jobs /\ o \in Outcomes /\ worker[w].number \in Nat
      BY DEF TypeOK, Works, JobOf
    <2>2. R \in JobRows
      <3>1. Unlocked(j, o) \in JobRows BY <2>1, RowTypes DEF Outcomes, JobStatus
      <3> QED BY <3>1 DEF JobRows
    <2>3. A \in Seq(AttemptStatus)
      <3>1. AttemptResult(o) \in AttemptStatus BY DEF AttemptResult, AttemptStatus
      <3> QED BY <2>1, <3>1, SeqUpdate DEF TypeOK
    <2>4. /\ ItemResult(o) \in ItemStatus
          /\ FailureTask(o) \in SUBSET FailureEvents
      BY <2>1 DEF ItemResult, ItemStatus, Outcomes, FailureTask, FailureEvents
    <2>5. UNCHANGED <<gate, mode, posts, crashes>> BY DEF RecordResult
    <2> HIDE DEF R, A, j, o
    <2> QED BY <1>1, <1>3, <2>1, <2>2, <2>3, <2>4, <2>5 DEF TypeOK
  <1> QED BY <1>2, <1>3 DEF RecordResult

LEMMA ProcessType ==
  ASSUME TypeOK, NEW w \in Workers, Crash(w) \/ Restart(w)
  PROVE  TypeOK'
  <1>1. worker' \in [Workers -> Works] BY RestsType DEF Crash, Restart
  <1> QED BY <1>1 DEF TypeOK, Crash, Restart

LEMMA TimeType ==
  ASSUME TypeOK, NEW j \in Jobs, LeaseGoesStale(j) \/ BecomesDue(j)
  PROVE  TypeOK'
  <1>1. /\ [job[j] EXCEPT !.stale = TRUE] \in JobRows
        /\ [job[j] EXCEPT !.due = TRUE] \in JobRows
    BY ZenonT(60) DEF TypeOK, JobRows
  <1>2. CASE LeaseGoesStale(j) BY <1>1, <1>2 DEF TypeOK, LeaseGoesStale
  <1>3. CASE BecomesDue(j) BY <1>1, <1>3 DEF TypeOK, BecomesDue
  <1> QED BY <1>2, <1>3

LEMMA ContentType ==
  ASSUME TypeOK, NEW j \in Jobs,
         \/ EditContentVersion(j) \/ SubmitForReview(j)
         \/ ReviewContent(j) \/ UpdateProductFacts(j)
  PROVE  TypeOK'
  <1> DEFINE Rows == [current : BOOLEAN, approved : BOOLEAN, facts : BOOLEAN]
  <1>1. job' \in [Jobs -> JobRows]
    BY RowTypes DEF EditContentVersion, SubmitForReview, ReviewContent, UpdateProductFacts
  <1>2. /\ [gate[j] EXCEPT !.current = FALSE] \in Rows
        /\ [gate[j] EXCEPT !.facts = FALSE] \in Rows
        /\ \A b \in BOOLEAN : [gate[j] EXCEPT !.approved = b] \in Rows
    BY DEF TypeOK
  <1>3. CASE EditContentVersion(j)
    BY <1>1, <1>2, <1>3 DEF TypeOK, EditContentVersion, ItemStatus
  <1>4. CASE SubmitForReview(j) BY <1>1, <1>4 DEF TypeOK, SubmitForReview, ItemStatus
  <1>5. CASE ReviewContent(j)
    BY <1>1, <1>2, <1>5 DEF TypeOK, ReviewContent, ItemStatus
  <1>6. CASE UpdateProductFacts(j)
    BY <1>1, <1>2, <1>6 DEF TypeOK, UpdateProductFacts, ItemStatus
  <1> QED BY <1>3, <1>4, <1>5, <1>6

LEMMA ScheduleType ==
  ASSUME TypeOK, NEW j \in Jobs, SchedulePublication(j)
  PROVE  TypeOK'
  <1> DEFINE env == IF mode = "DEMO" THEN "SIMULATED" ELSE "LIVE"
             R(now) == [job[j] EXCEPT !.status = "PENDING", !.due = now, !.environment = env]
  <1>1. PICK now \in BOOLEAN : job' = [job EXCEPT ![j] = R(now)]
    BY DEF SchedulePublication
  <1>2. R(now) \in JobRows
    <2>1. env \in {"SIMULATED", "LIVE"} OBVIOUS
    <2>2. job[j] \in JobRows /\ now \in BOOLEAN BY DEF TypeOK
    <2> HIDE DEF env
    <2> QED BY <2>1, <2>2 DEF JobRows, JobStatus
  <1> HIDE DEF R
  <1> QED BY <1>1, <1>2 DEF TypeOK, SchedulePublication, ItemStatus

LEMMA ReconcileType ==
  ASSUME TypeOK, NEW j \in Jobs, ReconcileUnknownPublish(j)
  PROVE  TypeOK'
  <1> DEFINE unknown == {k \in DOMAIN attempts[j] : attempts[j][k] = "UNKNOWN"}
             end(p) == IF p THEN "PUBLISHED" ELSE "FAILED"
             A(p) == [k \in DOMAIN attempts[j] |->
                        IF k \in unknown /\ \A m \in unknown : m <= k
                        THEN IF p THEN "SUCCEEDED" ELSE "FAILED"
                        ELSE attempts[j][k]]
             R(p) == [job[j] EXCEPT !.status = end(p)]
  <1>0. PICK p \in BOOLEAN :
          /\ job' = [job EXCEPT ![j] = R(p)]
          /\ attempts' = [attempts EXCEPT ![j] = A(p)]
          /\ item' = IF gate[j].current THEN [item EXCEPT ![j] = end(p)] ELSE item
    BY DEF ReconcileUnknownPublish
  <1>1. R(p) \in JobRows
    <2>1. end(p) \in JobStatus BY DEF JobStatus
    <2> HIDE DEF end
    <2> QED BY ZenonT(60), <2>1 DEF TypeOK, JobRows
  <1>2. A(p) \in Seq(AttemptStatus)
    <2>1. attempts[j] \in Seq(AttemptStatus) BY DEF TypeOK
    <2>2. /\ Len(attempts[j]) \in Nat /\ DOMAIN attempts[j] = 1 .. Len(attempts[j])
          /\ attempts[j] \in [1 .. Len(attempts[j]) -> AttemptStatus]
      BY <2>1, LenProperties
    <2>3. A(p) \in [1 .. Len(attempts[j]) -> AttemptStatus]
      BY <2>2 DEF AttemptStatus
    <2> QED BY <2>2, <2>3, SeqDef
  <1>3. job' = [job EXCEPT ![j] = R(p)] /\ attempts' = [attempts EXCEPT ![j] = A(p)]
    BY <1>0
  <1>4. item' \in [Jobs -> ItemStatus] BY <1>0 DEF TypeOK, ItemStatus
  <1>5. UNCHANGED <<gate, task, mode, worker, posts, crashes>> BY DEF ReconcileUnknownPublish
  <1> HIDE DEF R, A
  <1> QED BY <1>1, <1>2, <1>3, <1>4, <1>5 DEF TypeOK

\* Every step keeps the variables in their types.
LEMMA NextTypeOK == TypeOK /\ [Next]_vars => TypeOK'
  <1> SUFFICES ASSUME TypeOK, [Next]_vars PROVE TypeOK' OBVIOUS
  <1>1. ASSUME NEW w \in Workers, WorkerStep(w) PROVE TypeOK'
    BY <1>1, ScanType, RecoverType, ClaimType, LoadType, NoDispatchType, OpenAttemptType,
       CallType, RecordType DEF WorkerStep
  <1>2. ASSUME NEW w \in Workers,
               \/ PlatformCreatesPost(w) \/ Heartbeat(w) \/ HeartbeatFails(w)
               \/ Crash(w) \/ Restart(w)
        PROVE TypeOK'
    BY <1>2, CallType, ProcessType
  <1>3. ASSUME NEW j \in Jobs, WebStep(j) PROVE TypeOK'
    BY <1>3, ContentType, ScheduleType, ReconcileType DEF WebStep
  <1>4. ASSUME NEW j \in Jobs, LeaseGoesStale(j) \/ BecomesDue(j) PROVE TypeOK'
    BY <1>4, TimeType
  <1>5. ASSUME ChangeMode PROVE TypeOK'
    BY <1>5, ConstantsAssumption DEF TypeOK, ChangeMode, ConstantsAssumption
  <1>6. ASSUME UNCHANGED vars PROVE TypeOK' BY <1>6 DEF TypeOK, vars
  <1> QED BY <1>1, <1>2, <1>3, <1>4, <1>5, <1>6 DEF Next

\* The rows, the worker processes and the counters keep their types (TypeOK of
\* publish-worker-service.ts's state) whatever the jobs, the workers and the bounds are.
THEOREM TypeCorrect == Spec => []TypeOK
  <1>1. Init => TypeOK BY InitTypeOK
  <1>2. TypeOK /\ [Next]_vars => TypeOK' BY NextTypeOK
  <1> QED BY <1>1, <1>2, PTL DEF Spec
=============================================================================
