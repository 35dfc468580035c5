--------------------------- MODULE PublishWorker ---------------------------
(***************************************************************************)
(* The publish queue and the worker processes that drain it                *)
(* (src/src/services/publish-worker-service.ts, src/src/worker.ts).        *)
(*                                                                         *)
(* Every action is one database transaction, or one statement outside a    *)
(* transaction, or one step of the external call; between two actions any  *)
(* other process may run.  Each job has a content item of its own.  The    *)
(* handlers of the web process that can interfere with a job (edit,        *)
(* submit, review, product facts, schedule, reconcile, settings) are the   *)
(* actions of the last section.                                            *)
(*                                                                         *)
(* Time: a lease is fresh or stale (lockedAt older than the lock timeout). *)
(* StallPoints says where a live worker may be paused past that timeout.   *)
(***************************************************************************)
EXTENDS PublishSafety, Sequences

CONSTANTS Jobs, Workers,
          Tokens,        \* lease tokens (a random UUID per claim)
          NoToken,
          MaxAttempts,   \* PublishJob.maxAttempts
          StallPoints,   \* program points where a live worker can outsleep its lease
          MaxCrashes,    \* bound: crashes of worker processes in a behaviour
          Modes          \* bound: the client modes the settings form may choose

ClientModes == {"DEMO", "DRAFT", "LIVE"}
JobStatus == {"PENDING", "RUNNING", "RETRY", "WAITING_CONFIGURATION", "PUBLISHED",
              "FAILED", "UNKNOWN", "CANCELLED"}
MutableStatus == {"PENDING", "RETRY", "WAITING_CONFIGURATION"}
AttemptStatus == {"DISPATCHING", "SUCCEEDED", "FAILED", "UNKNOWN"}
ItemStatus == {"DRAFT", "REVIEW_PENDING", "APPROVED", "CHANGES_REQUESTED", "SCHEDULED",
               "RUNNING", "PUBLISHED", "FAILED", "UNKNOWN"}
FailureEvents == {"PUBLISH_UNKNOWN", "PUBLISH_FAILED", "CONNECTION_ERROR"}
Outcomes == {"PUBLISHED", "UNKNOWN", "RETRY", "FAILED"}

\* The program points of a worker that has claimed a job.
Busy == {"claimed", "loaded", "calling", "answered"}
InCall == {"calling", "answered"}
WorkerPoints == {"down", "idle", "recovering"} \cup Busy

ASSUME ConstantsAssumption ==
  /\ Jobs # {}
  /\ NoToken \notin Tokens
  /\ MaxAttempts \in Nat \ {0}
  /\ MaxCrashes \in Nat
  /\ StallPoints \subseteq Busy
  /\ Modes \subseteq ClientModes
  /\ "LIVE" \in Modes

VARIABLES
  job,       \* the PublishJob rows
  attempts,  \* the PublishAttempt rows of a job, in the order of their number
  item,      \* status of the job's content item
  gate,      \* what the dispatch gate reads of the job's version: is it the item's
             \* current one, is its latest approval APPROVED, are its facts current
  task,      \* the failure tasks raised for a job, by event; what operators have since
             \* made of one (/api/tasks/[id]) is read by nothing that publishes
  mode,      \* Client.mode
  worker,    \* the worker processes
  posts,     \* posts on the platform that calls for a job have created
  crashes    \* crashes so far

vars == <<job, attempts, item, gate, task, mode, worker, posts, crashes>>

At(w, pc) == worker[w].pc = pc
JobOf(w) == worker[w].job

\* A worker process that remembers no job.
Rest(pc) == [pc |-> pc, scan |-> {}, job |-> CHOOSE j \in Jobs : TRUE, token |-> NoToken,
             number |-> 0, valid |-> FALSE, lost |-> FALSE, made |-> FALSE,
             outcome |-> "UNKNOWN"]

\* Mutant: the lease token left out of the where clause.
HoldsAnyLease(w) == job[JobOf(w)].status = "RUNNING"

\* The where clause of every write a worker makes under its lease.
Holds(w) == /\ job[JobOf(w)].status = "RUNNING"
            /\ job[JobOf(w)].lockedBy = worker[w].token

OpenNumbers(j) == {k \in DOMAIN attempts[j] : attempts[j][k] = "DISPATCHING"}
\* Mutant: the wrong status asked for.
LatestUnknown(j) ==
  LET unknown == {k \in DOMAIN attempts[j] : attempts[j][k] = "UNKNOWN"}
  IN  IF unknown = {} THEN 0 ELSE CHOOSE k \in unknown : \A m \in unknown : m <= k

\* attempts where status = DISPATCHING order by number desc take 1; 0 if there is none.
LatestOpen(j) == IF OpenNumbers(j) = {} THEN 0
                 ELSE CHOOSE k \in OpenNumbers(j) : \A m \in OpenNumbers(j) : m <= k

\* New UUIDs: no row and no process remembers them.  They are interchangeable, so a claim
\* takes any one of them.
FreshTokens ==
  {t \in Tokens : /\ \A j \in Jobs : job[j].lockedBy # t
                  /\ \A w \in Workers : /\ worker[w].token # t
                                        /\ \A r \in worker[w].scan : r.token # t}

\* The job row once its lease is gone.
Unlocked(j, status) ==
  [job[j] EXCEPT !.status = status, !.lockedBy = NoToken, !.stale = FALSE, !.passed = {}]

\* Mutant: the row is written, and lockedAt is not.
NotRenewed(j) == job[j]

\* The job row after lockedAt := now, which is later than every cutoff computed so far.
Renewed(j) == [job[j] EXCEPT !.stale = FALSE, !.passed = {}]

GateOpen(j) == gate[j].current /\ gate[j].approved /\ gate[j].facts

\* persistedBoundaryValid: the job was created for the mode the client is in.
BoundaryHolds(j) == \/ mode = "DEMO" /\ job[j].environment = "SIMULATED"
                    \/ mode = "LIVE" /\ job[j].environment = "LIVE"

Init ==
  /\ job = [j \in Jobs |-> [status |-> "PENDING", lockedBy |-> NoToken, stale |-> FALSE,
                            passed |-> {}, attemptCount |-> 0, due |-> FALSE,
                            environment |-> "LIVE"]]
  /\ attempts = [j \in Jobs |-> <<>>]
  /\ item = [j \in Jobs |-> "SCHEDULED"]
  /\ gate = [j \in Jobs |-> [current |-> TRUE, approved |-> TRUE, facts |-> TRUE]]
  /\ task = [j \in Jobs |-> {}]
  /\ mode = "LIVE"
  /\ worker = [w \in Workers |-> Rest("idle")]
  /\ posts = [j \in Jobs |-> 0]
  /\ crashes = 0

-----------------------------------------------------------------------------
(* recoverStaleJobs *)

\* Mutant: a recovery that leaves out the jobs whose call had begun.
StaleUnsent == {j \in Jobs : job[j].status = "RUNNING" /\ job[j].stale /\ LatestOpen(j) = 0}

StaleJobs == {j \in Jobs : job[j].status = "RUNNING" /\ job[j].stale}

\* findMany of the stale leases, with the attempt each one left open.  Their lockedAt
\* is earlier than this worker's cutoff from now on.
ScanStaleJobs(w) ==
  /\ At(w, "idle")
  /\ worker' = [worker EXCEPT
       ![w] = [Rest("recovering") EXCEPT
         !.scan = {[job |-> j, token |-> job[j].lockedBy, attempt |-> LatestOpen(j)] :
                     j \in StaleJobs}]]
  /\ job' = [j \in Jobs |-> IF j \in StaleJobs
                            THEN [job[j] EXCEPT !.passed = @ \cup {w}] ELSE job[j]]
  /\ UNCHANGED <<attempts, item, gate, task, mode, posts, crashes>>

\* Mutant: the cutoff tested in the scan and not again in the update.
StillHeld(w, r) == job[r.job].status = "RUNNING" /\ job[r.job].lockedBy = r.token

\* updateMany where RUNNING, lockedAt < cutoff and lockedBy as scanned.
StillStale(w, r) == /\ job[r.job].status = "RUNNING"
                    /\ w \in job[r.job].passed
                    /\ job[r.job].lockedBy = r.token

\* Its call had begun: the outcome is unknown.
GiveUpCall(r) ==
  /\ r.attempt # 0
  /\ job' = [job EXCEPT ![r.job] = Unlocked(r.job, "UNKNOWN")]
  /\ item' = [item EXCEPT ![r.job] = "UNKNOWN"]
  /\ attempts' = [attempts EXCEPT ![r.job][r.attempt] = "UNKNOWN"]
  /\ task' = [task EXCEPT ![r.job] = @ \cup {"PUBLISH_UNKNOWN"}]

\* Nothing was sent: it goes back to the queue.
Requeue(r) ==
  /\ r.attempt = 0
  /\ job' = [job EXCEPT ![r.job] = [Unlocked(r.job, "RETRY") EXCEPT !.due = TRUE]]
  /\ UNCHANGED <<attempts, item, task>>

\* The transaction of one scanned job.
RecoverStaleJob(w) ==
  /\ At(w, "recovering")
  /\ \E r \in worker[w].scan :
       /\ worker' = [worker EXCEPT ![w].scan = @ \ {r}]
       /\ \/ StillStale(w, r) /\ (GiveUpCall(r) \/ Requeue(r))
          \/ ~StillStale(w, r) /\ UNCHANGED <<job, attempts, item, task>>
  /\ UNCHANGED <<gate, mode, posts, crashes>>

-----------------------------------------------------------------------------
(* claimNextJob *)

\* Mutant: a claim that forgets the jobs to retry.
ClaimablePending(j) == job[j].status = "PENDING" /\ job[j].due

Claimable(j) == job[j].status \in {"PENDING", "RETRY"} /\ job[j].due

ClaimNextJob(w) ==
  /\ At(w, "recovering") /\ worker[w].scan = {}
  /\ \/ \E j \in Jobs :
          /\ Claimable(j)
          /\ FreshTokens # {}
          /\ LET token == CHOOSE t \in FreshTokens : TRUE
             IN  /\ job' = [job EXCEPT ![j] = [Renewed(j) EXCEPT !.status = "RUNNING",
                                                                 !.lockedBy = token]]
                 /\ worker' = [worker EXCEPT ![w] = [Rest("claimed") EXCEPT !.job = j,
                                                                            !.token = token]]
     \/ /\ \A j \in Jobs : ~Claimable(j)
        /\ worker' = [worker EXCEPT ![w] = Rest("idle")]
        /\ UNCHANGED job
  /\ UNCHANGED <<attempts, item, gate, task, mode, posts, crashes>>

-----------------------------------------------------------------------------
(* processPublishJob, which receives the id of the claimed job and no token *)

\* It reads the row, and goes on under the token it finds there.
LoadJob(w) ==
  LET j == JobOf(w)
  IN  /\ At(w, "claimed")
      /\ \/ /\ job[j].status = "RUNNING" /\ job[j].lockedBy # NoToken
            /\ worker' = [worker EXCEPT ![w] = [@ EXCEPT
                 !.pc = "loaded", !.token = job[j].lockedBy,
                 !.number = job[j].attemptCount + 1,
                 !.valid = GateOpen(j) /\ BoundaryHolds(j)]]
         \/ /\ ~(job[j].status = "RUNNING" /\ job[j].lockedBy # NoToken)
            /\ worker' = [worker EXCEPT ![w] = Rest("idle")]
      /\ UNCHANGED <<job, attempts, item, gate, task, mode, posts, crashes>>

\* cancelClaim: what was read rules the publication out.
CancelClaim(w) ==
  /\ At(w, "loaded") /\ ~worker[w].valid
  /\ job' = IF Holds(w) THEN [job EXCEPT ![JobOf(w)] = Unlocked(JobOf(w), "CANCELLED")]
                        ELSE job
  /\ worker' = [worker EXCEPT ![w] = Rest("idle")]
  /\ UNCHANGED <<attempts, item, gate, task, mode, posts, crashes>>

\* resolvePublishAdapter throws; a DEMO job uses the mock adapter and cannot fail so.
AdapterUnavailable(w) ==
  LET j == JobOf(w)
  IN  /\ At(w, "loaded") /\ worker[w].valid
      /\ job[j].environment = "LIVE"
      /\ IF Holds(w)
         THEN /\ job' = [job EXCEPT ![j] = Unlocked(j, "WAITING_CONFIGURATION")]
              /\ task' = [task EXCEPT ![j] = @ \cup {"CONNECTION_ERROR"}]
         ELSE UNCHANGED <<job, task>>
      /\ worker' = [worker EXCEPT ![w] = Rest("idle")]
      /\ UNCHANGED <<attempts, item, gate, mode, posts, crashes>>

\* The gate transaction lets the call through.
OpenAttempt(w) ==
  LET j == JobOf(w)
  IN  /\ At(w, "loaded") /\ worker[w].valid
      /\ Holds(w) /\ GateOpen(j)
      /\ worker[w].number = Len(attempts[j]) + 1
      /\ job' = [job EXCEPT ![j] = [Renewed(j) EXCEPT !.attemptCount = worker[w].number]]
      /\ item' = [item EXCEPT ![j] = "RUNNING"]
      /\ attempts' = [attempts EXCEPT ![j] = Append(@, "DISPATCHING")]
      /\ worker' = [worker EXCEPT ![w].pc = "calling"]
      /\ UNCHANGED <<gate, task, mode, posts, crashes>>

\* The gate transaction does not: the lease is gone, or the gate has closed.
GateRefuses(w) ==
  LET j == JobOf(w)
  IN  /\ At(w, "loaded") /\ worker[w].valid
      /\ ~(Holds(w) /\ GateOpen(j))
      /\ job' = IF Holds(w) THEN [job EXCEPT ![j] = Unlocked(j, "CANCELLED")] ELSE job
      /\ worker' = [worker EXCEPT ![w] = Rest("idle")]
      /\ UNCHANGED <<attempts, item, gate, task, mode, posts, crashes>>

\* The insert meets @@unique([publishJobId, number]): the transaction rolls back, and
\* the error ends the worker process.
AttemptNumberTaken(w) ==
  /\ At(w, "loaded") /\ worker[w].valid
  /\ Holds(w) /\ GateOpen(JobOf(w))
  /\ worker[w].number # Len(attempts[JobOf(w)]) + 1
  /\ worker' = [worker EXCEPT ![w] = Rest("down")]
  /\ UNCHANGED <<job, attempts, item, gate, task, mode, posts, crashes>>

-----------------------------------------------------------------------------
(* adapter.publish and the heartbeat that runs beside it *)

\* The platform carries the request out; the worker does not know it yet.
PlatformCreatesPost(w) ==
  /\ At(w, "calling") /\ ~worker[w].made
  /\ posts' = [posts EXCEPT ![JobOf(w)] = @ + 1]
  /\ worker' = [worker EXCEPT ![w].made = TRUE]
  /\ UNCHANGED <<job, attempts, item, gate, task, mode, crashes>>

\* classifyPublishFailure gives these for a failure of that phase.
CategoriesOf(phase) ==
  Categories \ (IF phase = "PRE_DISPATCH" THEN {"NETWORK_POST_DISPATCH", "SERVER_POST_DISPATCH"}
                                          ELSE {"NETWORK_PRE_DISPATCH", "SERVER_PRE_DISPATCH"})

\* finalStatus of a result {status: "failed"}: WAITING_CONFIGURATION ends as FAILED.
FailureOutcome(phase, category, attempt, retryable) ==
  LET decision == DecidePublishRetry(phase, category, attempt, MaxAttempts, retryable)
  IN  IF decision \in {"UNKNOWN", "RETRY"} THEN decision ELSE "FAILED"

\* What publish can answer.  An adapter reports success only of a post that exists, and
\* a failure that leaves no doubt only if none does; it may throw or be unsure always.
PossibleOutcomes(w) ==
  {o \in Outcomes :
     \/ o = "PUBLISHED" /\ worker[w].made
     \/ o = "UNKNOWN"
     \/ \E phase \in Phases : \E category \in CategoriesOf(phase), retryable \in BOOLEAN :
          /\ worker[w].made => phase = "POST_DISPATCH" /\ category \in UncertainCategories
          /\ o = FailureOutcome(phase, category, worker[w].number, retryable)}

AdapterReturns(w) ==
  /\ At(w, "calling")
  /\ \E o \in PossibleOutcomes(w) :
       worker' = [worker EXCEPT ![w] = [@ EXCEPT !.pc = "answered", !.outcome = o]]
  /\ UNCHANGED <<job, attempts, item, gate, task, mode, posts, crashes>>

\* renewPublishJobLease: it renews a lease still held, and finds out if it is not.
Heartbeat(w) ==
  /\ At(w, "calling")
  /\ IF Holds(w)
     THEN job' = [job EXCEPT ![JobOf(w)] = Renewed(JobOf(w))] /\ UNCHANGED worker
     ELSE worker' = [worker EXCEPT ![w].lost = TRUE] /\ UNCHANGED job
  /\ UNCHANGED <<attempts, item, gate, task, mode, posts, crashes>>

\* The renewal throws: the worker takes its lease for lost.
HeartbeatFails(w) ==
  /\ At(w, "calling") /\ ~worker[w].lost
  /\ worker' = [worker EXCEPT ![w].lost = TRUE]
  /\ UNCHANGED <<job, attempts, item, gate, task, mode, posts, crashes>>

ItemResult(outcome) == IF outcome = "RETRY" THEN "SCHEDULED" ELSE outcome

\* Mutant: a retry left as unknown.
AttemptResultUnsure(outcome) == CASE outcome = "PUBLISHED" -> "SUCCEEDED"
                                  [] outcome = "FAILED" -> "FAILED"
                                  [] OTHER -> "UNKNOWN"

AttemptResult(outcome) == CASE outcome = "PUBLISHED" -> "SUCCEEDED"
                            [] outcome = "UNKNOWN" -> "UNKNOWN"
                            [] OTHER -> "FAILED"

\* Mutant: only a definite failure asks for a human.
FailureTaskIfFailed(outcome) == IF outcome = "FAILED" THEN {"PUBLISH_FAILED"} ELSE {}

FailureTask(outcome) == CASE outcome = "UNKNOWN" -> {"PUBLISH_UNKNOWN"}
                          [] outcome = "FAILED" -> {"PUBLISH_FAILED"}
                          [] OTHER -> {}

\* The result transaction; nothing is written once the lease is known to be lost.
RecordResult(w) ==
  LET j == JobOf(w)
      o == worker[w].outcome
  IN  /\ At(w, "answered")
      /\ \/ /\ ~worker[w].lost /\ Holds(w)
            /\ job' = [job EXCEPT ![j] = [Unlocked(j, o) EXCEPT !.due = @ /\ o # "RETRY"]]
            /\ attempts' = [attempts EXCEPT ![j][worker[w].number] = AttemptResult(o)]
            /\ item' = [item EXCEPT ![j] = ItemResult(o)]
            /\ task' = [task EXCEPT ![j] = @ \cup FailureTask(o)]
         \/ /\ worker[w].lost \/ ~Holds(w)
            /\ UNCHANGED <<job, attempts, item, task>>
      /\ worker' = [worker EXCEPT ![w] = Rest("idle")]
      /\ UNCHANGED <<gate, mode, posts, crashes>>

-----------------------------------------------------------------------------
(* Processes and time *)

Crash(w) ==
  /\ ~At(w, "down") /\ crashes < MaxCrashes
  /\ worker' = [worker EXCEPT ![w] = Rest("down")]
  /\ crashes' = crashes + 1
  /\ UNCHANGED <<job, attempts, item, gate, task, mode, posts>>

Restart(w) ==
  /\ At(w, "down")
  /\ worker' = [worker EXCEPT ![w] = Rest("idle")]
  /\ UNCHANGED <<job, attempts, item, gate, task, mode, posts, crashes>>

\* The lock timeout passes since lockedAt.  While a live worker is at work under the
\* lease, only a pause at one of StallPoints can make this happen.
LeaseGoesStale(j) ==
  /\ job[j].status = "RUNNING" /\ ~job[j].stale
  /\ \A w \in Workers : worker[w].token = job[j].lockedBy => worker[w].pc \in StallPoints
  /\ job' = [job EXCEPT ![j].stale = TRUE]
  /\ UNCHANGED <<attempts, item, gate, task, mode, worker, posts, crashes>>

\* nextAttemptAt passes.
BecomesDue(j) ==
  /\ job[j].status \in {"PENDING", "RETRY"} /\ ~job[j].due
  /\ job' = [job EXCEPT ![j].due = TRUE]
  /\ UNCHANGED <<attempts, item, gate, task, mode, worker, posts, crashes>>

-----------------------------------------------------------------------------
(* The web process.  Each handler locks the content item, as the gate does. *)

\* updateMany of the jobs whose outcome is not yet at stake.
CancelScheduled(j) ==
  IF job[j].status \in MutableStatus
  THEN [job EXCEPT ![j].status = "CANCELLED"] ELSE job

\* Mutant: the status of the item goes unread.
SendingOrNot(j) == j \in Jobs

\* The check each handler makes under the item's lock.
NotSending(j) == item[j] # "RUNNING"

EditContentVersion(j) ==
  /\ NotSending(j) /\ gate[j].current
  /\ gate' = [gate EXCEPT ![j].current = FALSE]
  /\ job' = CancelScheduled(j)
  /\ item' = [item EXCEPT ![j] = "DRAFT"]
  /\ UNCHANGED <<attempts, task, mode, worker, posts, crashes>>

\* checkContent refuses a version written from older product facts.
SubmitForReview(j) ==
  /\ NotSending(j) /\ gate[j].current /\ gate[j].facts
  /\ job' = CancelScheduled(j)
  /\ item' = [item EXCEPT ![j] = "REVIEW_PENDING"]
  /\ UNCHANGED <<attempts, gate, task, mode, worker, posts, crashes>>

ReviewContent(j) ==
  /\ item[j] = "REVIEW_PENDING" /\ gate[j].current
  /\ \E approve \in BOOLEAN :
       /\ gate' = [gate EXCEPT ![j].approved = approve]
       /\ item' = [item EXCEPT ![j] = IF approve THEN "APPROVED" ELSE "CHANGES_REQUESTED"]
  /\ job' = CancelScheduled(j)
  /\ UNCHANGED <<attempts, task, mode, worker, posts, crashes>>

\* It counts RUNNING jobs without locking them, so a claim may commit right after the
\* count: only the item, which it does lock, keeps it away from a job being sent.
UpdateProductFacts(j) ==
  /\ NotSending(j) /\ job[j].status # "UNKNOWN" /\ gate[j].facts
  /\ gate' = [gate EXCEPT ![j].facts = FALSE]
  /\ job' = CancelScheduled(j)
  /\ item' = [item EXCEPT ![j] = IF @ = "PUBLISHED" THEN @ ELSE "CHANGES_REQUESTED"]
  /\ UNCHANGED <<attempts, task, mode, worker, posts, crashes>>

\* A cancelled job that was never sent is the only one scheduled again.
SchedulePublication(j) ==
  /\ GateOpen(j) /\ mode # "DRAFT"
  /\ job[j].status = "CANCELLED" /\ job[j].attemptCount = 0
  /\ \E now \in BOOLEAN :
       job' = [job EXCEPT ![j] = [@ EXCEPT !.status = "PENDING", !.due = now,
                 !.environment = IF mode = "DEMO" THEN "SIMULATED" ELSE "LIVE"]]
  /\ item' = [item EXCEPT ![j] = "SCHEDULED"]
  /\ UNCHANGED <<attempts, gate, task, mode, worker, posts, crashes>>

ChangeMode ==
  /\ \E m \in Modes : m # mode /\ mode' = m
  /\ UNCHANGED <<job, attempts, item, gate, task, worker, posts, crashes>>

\* An operator settles an unknown outcome, and with it the tasks that ask for it.
ReconcileUnknownPublish(j) ==
  LET unknown == {k \in DOMAIN attempts[j] : attempts[j][k] = "UNKNOWN"}
  IN  /\ job[j].status = "UNKNOWN"
      /\ \E published \in BOOLEAN :
           LET outcome == IF published THEN "PUBLISHED" ELSE "FAILED"
           IN  /\ job' = [job EXCEPT ![j].status = outcome]
               /\ attempts' = [attempts EXCEPT ![j] = [k \in DOMAIN @ |->
                    IF k \in unknown /\ \A m \in unknown : m <= k
                    THEN IF published THEN "SUCCEEDED" ELSE "FAILED"
                    ELSE @[k]]]
               /\ item' = IF gate[j].current THEN [item EXCEPT ![j] = outcome] ELSE item
      /\ UNCHANGED <<gate, task, mode, worker, posts, crashes>>

-----------------------------------------------------------------------------
WorkerStep(w) ==
  \/ ScanStaleJobs(w) \/ RecoverStaleJob(w) \/ ClaimNextJob(w)
  \/ LoadJob(w) \/ CancelClaim(w) \/ AdapterUnavailable(w)
  \/ OpenAttempt(w) \/ GateRefuses(w) \/ AttemptNumberTaken(w)
  \/ AdapterReturns(w) \/ RecordResult(w)

WebStep(j) ==
  \/ EditContentVersion(j) \/ SubmitForReview(j) \/ ReviewContent(j)
  \/ UpdateProductFacts(j) \/ SchedulePublication(j) \/ ReconcileUnknownPublish(j)

Next ==
  \/ \E w \in Workers : \/ WorkerStep(w) \/ PlatformCreatesPost(w)
                        \/ Heartbeat(w) \/ HeartbeatFails(w)
                        \/ Crash(w) \/ Restart(w)
  \/ \E j \in Jobs : WebStep(j) \/ LeaseGoesStale(j) \/ BecomesDue(j)
  \/ ChangeMode

Spec == Init /\ [][Next]_vars

-----------------------------------------------------------------------------
(* Properties *)

Works == [pc : WorkerPoints,
          scan : SUBSET [job : Jobs, token : Tokens \cup {NoToken}, attempt : Nat],
          job : Jobs, token : Tokens \cup {NoToken}, number : Nat,
          valid : BOOLEAN, lost : BOOLEAN, made : BOOLEAN, outcome : Outcomes]

JobRows == [status : JobStatus, lockedBy : Tokens \cup {NoToken}, stale : BOOLEAN,
            passed : SUBSET Workers, attemptCount : Nat, due : BOOLEAN,
            environment : {"SIMULATED", "LIVE"}]

TypeOK ==
  /\ job \in [Jobs -> JobRows]
  /\ attempts \in [Jobs -> Seq(AttemptStatus)]
  /\ item \in [Jobs -> ItemStatus]
  /\ gate \in [Jobs -> [current : BOOLEAN, approved : BOOLEAN, facts : BOOLEAN]]
  /\ task \in [Jobs -> SUBSET FailureEvents]
  /\ mode \in ClientModes
  /\ worker \in [Workers -> Works]
  /\ posts \in [Jobs -> Nat]
  /\ crashes \in Nat

\* Two workers are never inside the adapter call of one job at the same time (README.md:
\* a unique lease per job), whoever crashed, stalled or was recovered before.
OneCallInFlight ==
  \A v, w \in Workers :
    At(v, "calling") /\ At(w, "calling") /\ JobOf(v) = JobOf(w) => v = w

\* However often a job is claimed, recovered and retried, the platform gets one post.
NoDuplicatePost == \A j \in Jobs : posts[j] <= 1

\* maxAttempts bounds the calls of a job, over all claims and recoveries.
RetryBudget == \A j \in Jobs : Len(attempts[j]) <= MaxAttempts

\* The attempt rows tell where the job stands: one is open only while the job runs, it is
\* then the last one and counted by attemptCount, all before the last one failed, and there
\* are no more of them than the job may have.
AttemptLedger ==
  RetryBudget /\ \A j \in Jobs :
    /\ Len(attempts[j]) = job[j].attemptCount
    /\ \A k \in DOMAIN attempts[j] :
         /\ k < Len(attempts[j]) => attempts[j][k] = "FAILED"
         /\ attempts[j][k] = "DISPATCHING" => job[j].status = "RUNNING"

\* From the gate to the result nobody edits, reviews or re-plans the content being sent.
ContentFrozenInCall ==
  \A w \in Workers :
    worker[w].pc \in InCall /\ Holds(w) => item[JobOf(w)] = "RUNNING" /\ GateOpen(JobOf(w))

\* An unknown outcome is never silent, whether the worker that made the call wrote it or the
\* one that recovered its lease: a task asks an operator to settle it, and one attempt of
\* the job is the one it is about.
UnknownIsHandedOver ==
  \A j \in Jobs : job[j].status = "UNKNOWN" =>
    /\ "PUBLISH_UNKNOWN" \in task[j]
    /\ \E k \in DOMAIN attempts[j] : attempts[j][k] = "UNKNOWN"

\* A new call is made only if every earlier one failed for certain and left no post.
NoBlindResend ==
  [][\A j \in Jobs :
       Len(attempts'[j]) > Len(attempts[j]) =>
         /\ posts[j] = 0
         /\ \A k \in DOMAIN attempts[j] : attempts[j][k] = "FAILED"]_vars

\* No worker gives up on, requeues or fails a job whose post is on the platform.
PostIsNotDenied ==
  [][\A j \in Jobs :
       /\ job[j].status = "RUNNING"
       /\ job'[j].status \in {"RETRY", "CANCELLED", "WAITING_CONFIGURATION", "FAILED"}
       => posts[j] = 0]_vars

\* The call goes out only while the client's mode is the one the job was created for
\* (README.md:154).  The code reads the mode before its gate and not inside it.
DispatchInMode ==
  [][\A j \in Jobs : Len(attempts'[j]) > Len(attempts[j]) => BoundaryHolds(j)]_vars

-----------------------------------------------------------------------------
(* The inductive invariant behind the safety properties, for leases that do not go stale *)
(* between a claim and the read of the claimed row.                                       *)

Over == {"UNKNOWN", "PUBLISHED", "FAILED"}

\* A lease names one running job and at most one worker, which works for that job.
LeaseInv ==
  /\ \A j \in Jobs : job[j].status = "RUNNING" <=> job[j].lockedBy # NoToken
  /\ \A i, j \in Jobs : job[i].lockedBy = job[j].lockedBy /\ i # j
                          => job[i].lockedBy = NoToken
  /\ \A w \in Workers : worker[w].pc \in Busy =>
       /\ worker[w].token # NoToken
       /\ \A v \in Workers : worker[v].pc \in Busy /\ worker[v].token = worker[w].token => v = w
       /\ \A j \in Jobs : job[j].lockedBy = worker[w].token => JobOf(w) = j

\* What a worker knows of its job before the gate.
BeforeCall(w) ==
  LET j == JobOf(w)
  IN  /\ At(w, "claimed") => /\ Holds(w) /\ ~job[j].stale /\ job[j].passed = {}
                             /\ OpenNumbers(j) = {}
      /\ At(w, "loaded") /\ Holds(w) => /\ worker[w].number = Len(attempts[j]) + 1
                                        /\ OpenNumbers(j) = {}
      /\ worker[w].pc \in {"claimed", "loaded"} => ~worker[w].made

\* What holds of a job during its call, by the worker that still has the lease and by one
\* that has lost it.
DuringCall(w) ==
  LET j == JobOf(w)
  IN  worker[w].pc \in InCall =>
        /\ Holds(w) => /\ worker[w].number = Len(attempts[j])
                       /\ worker[w].number \in OpenNumbers(j)
                       /\ item[j] = "RUNNING" /\ GateOpen(j)
        /\ ~Holds(w) => job[j].status \in Over

CallInv ==
  \A w \in Workers :
    /\ BeforeCall(w) /\ DuringCall(w)
    /\ \A v \in Workers :
         worker[v].pc \in InCall /\ worker[w].pc \in InCall /\ JobOf(v) = JobOf(w) => v = w

\* A scanned row that can still be recovered is as it was scanned.
ScanInv ==
  \A w \in Workers : \A r \in worker[w].scan :
    StillStale(w, r) => r.attempt = LatestOpen(r.job)

\* The attempts and the job agree.
LedgerInv ==
  \A j \in Jobs :
    /\ Len(attempts[j]) = job[j].attemptCount
    /\ \A k \in DOMAIN attempts[j] :
         /\ k < Len(attempts[j]) => attempts[j][k] = "FAILED"
         /\ job[j].status \notin Over => attempts[j][k] \in {"FAILED", "DISPATCHING"}
         /\ attempts[j][k] = "DISPATCHING" => job[j].status = "RUNNING"
    /\ job[j].status = "UNKNOWN" =>
         /\ \E k \in DOMAIN attempts[j] : attempts[j][k] = "UNKNOWN"
         /\ "PUBLISH_UNKNOWN" \in task[j]

\* The platform and the job agree.
PostInv ==
  /\ \A j \in Jobs : /\ posts[j] <= 1
                     /\ posts[j] = 1 => job[j].status \in Over \/ OpenNumbers(j) # {}
  /\ \A w \in Workers : worker[w].pc \in InCall =>
       /\ posts[JobOf(w)] = IF worker[w].made THEN 1 ELSE 0
       /\ At(w, "answered") /\ worker[w].made => worker[w].outcome \in {"PUBLISHED", "UNKNOWN"}
       /\ At(w, "answered") /\ worker[w].outcome = "PUBLISHED" => worker[w].made

\* A job that may be sent again has tries left.
BudgetInv ==
  /\ \A j \in Jobs :
       /\ Len(attempts[j]) <= MaxAttempts
       /\ job[j].status \in {"PENDING", "RETRY", "RUNNING"} /\ OpenNumbers(j) = {}
            => Len(attempts[j]) < MaxAttempts
  /\ \A w \in Workers : At(w, "answered") /\ worker[w].outcome = "RETRY"
                          => worker[w].number < MaxAttempts

QueueInv == LeaseInv /\ CallInv /\ ScanInv /\ LedgerInv /\ PostInv /\ BudgetInv

\* The inductive invariant behind UnknownIsHandedOver, wherever leases go stale: an attempt
\* that a call or a recovery will write about exists.
HandOverInv ==
  /\ \A w \in Workers :
       /\ worker[w].pc \in InCall => worker[w].number \in DOMAIN attempts[JobOf(w)]
       /\ \A r \in worker[w].scan : r.attempt # 0 => r.attempt \in DOMAIN attempts[r.job]
  /\ UnknownIsHandedOver

-----------------------------------------------------------------------------
(* What the queue promises *)

Phase(j) == CASE job[j].status \in {"PUBLISHED", "FAILED", "UNKNOWN"} -> job[j].status
              [] job[j].status = "RUNNING" /\ OpenNumbers(j) # {} -> "SENT"
              [] OTHER -> "OPEN"

Promise == INSTANCE AtMostOncePublish WITH
             phase <- [j \in Jobs |-> Phase(j)],
             inFlight <- [j \in Jobs |-> \E w \in Workers : At(w, "calling") /\ JobOf(w) = j]

\* The queue implements at-most-once publishing with honest outcomes.
KeepsPromise == Promise!Spec

-----------------------------------------------------------------------------
(* Progress.  The worker loop never stops by itself, adapters time their requests out, a  *)
(* dead process is started again, and time passes.                                       *)

Fairness ==
  /\ \A w \in Workers : WF_vars(WorkerStep(w)) /\ WF_vars(Restart(w))
  /\ \A j \in Jobs : WF_vars(LeaseGoesStale(j)) /\ WF_vars(BecomesDue(j))

FairSpec == Spec /\ Fairness

\* A job does not stay RUNNING for ever: not when its worker dies, not when the worker
\* gives its lease up for lost and writes nothing.
EveryLeaseEnds == \A j \in Jobs : job[j].status = "RUNNING" ~> job[j].status # "RUNNING"

\* A queued job reaches an outcome, or is cancelled or parked by name: it is neither
\* forgotten nor retried for ever.
QueueDrains ==
  \A j \in Jobs : job[j].status \in {"PENDING", "RETRY"}
                    ~> job[j].status \notin {"PENDING", "RETRY", "RUNNING"}
=============================================================================
