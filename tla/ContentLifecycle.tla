-------------------------- MODULE ContentLifecycle --------------------------
(***************************************************************************)
(* A content item from draft to published: versions, review, schedules,    *)
(* bulk moves, manual publishing and the bookkeeping of its publish jobs   *)
(* (content-service.ts, calendar-service.ts, schedule-queue-service.ts,    *)
(* manual-publish-service.ts and the services beside them).                *)
(*                                                                         *)
(* Every action is one transaction of a web handler, or one half of a      *)
(* handler that reads first and commits later; the rows it locks keep the  *)
(* others out.  The worker, which PublishWorker has in detail, is here     *)
(* what it does to the rows of a job.                                      *)
(*                                                                         *)
(* Time is left out: a handler may choose any slot, and any waiting job    *)
(* may be claimed.  What a check decides from the text, the media or the   *)
(* state of a connection can refuse at any time, and then changes nothing. *)
(***************************************************************************)
EXTENDS Integers, FiniteSets

CONSTANTS Items,
          ProductItems,    \* items generated for the product whose facts may change
          Accounts,
          ManualAccounts,  \* accounts a person publishes to, on linkedin, tiktok or youtube
          QueueSlots,      \* the occurrences of the schedule queue of every account
          MaxVersion,      \* bound: versions of an item
          Modes,           \* bound: the client modes the settings form may choose
          MaxQueries,      \* bound: questions to the platform that are under way at once
          MaxSlot,         \* bound: instants a publication may be planned for
          Window           \* windowMinutes of the conflict check

Versions == 1..MaxVersion
Slots == 1..MaxSlot
NoSlot == 0

ClientModes == {"DEMO", "DRAFT", "LIVE"}
ItemStatus == {"DRAFT", "REVIEW_PENDING", "APPROVED", "CHANGES_REQUESTED", "SCHEDULED",
               "RUNNING", "PUBLISHED", "FAILED", "UNKNOWN"}
MutableStatus == {"PENDING", "RETRY", "WAITING_CONFIGURATION", "MANUAL_PENDING"}
ConflictStatus == MutableStatus \cup {"RUNNING"}
JobStatus == ConflictStatus \cup {"NONE", "PUBLISHED", "FAILED", "UNKNOWN", "CANCELLED"}
Outcomes == {"PUBLISHED", "FAILED", "UNKNOWN"}
Settled == {"RUNNING"} \cup Outcomes
\* A question to the platform before and after its answer has read the item, and an operator's
\* reconciliation that has read the job and not yet written it.
Stages == {"asking", "answering", "reconciling"}
Adapters == {"manual", "mock", "api"}
OpenTask == {"TODO", "IN_PROGRESS", "WAITING_EXTERNAL"}
TaskStatus == OpenTask \cup {"NONE", "COMPLETED", "CANCELLED"}

ASSUME LifecycleAssumption ==
  /\ ProductItems \subseteq Items
  /\ ManualAccounts \subseteq Accounts
  /\ Modes \subseteq ClientModes
  /\ MaxVersion \in Nat \ {0}
  /\ MaxSlot \in Nat
  /\ MaxQueries \in Nat
  /\ QueueSlots \subseteq Slots
  /\ Window \in Nat

VARIABLES
  mode,      \* Client.mode
  item,      \* the ContentItem rows: status, number of the current version, account, slot
  decision,  \* the latest approval of each version for the account it was written for
  job,       \* the PublishJob of each version
  task,      \* the latest task to publish a version by hand, and when it is due
  moved,     \* have the product's facts changed since its items were written?
  checked,   \* items whose current version a submission has checked outside a transaction
  txns,      \* the transactions that have validated a schedule and not yet written it
  inquiries  \* what is under way about outcomes: an item, a version, and how far it has come

vars == <<mode, item, decision, job, task, moved, checked, txns, inquiries>>

NoJob == [status |-> "NONE", adapter |-> "mock", slot |-> NoSlot, tried |-> FALSE,
          told |-> FALSE]
NoTask == [status |-> "NONE", due |-> NoSlot]

Current(i) == item[i].version
CurrentJob(i) == job[i][Current(i)]
Approved(i) == decision[i][Current(i)] = "APPROVED"

\* checkContent: every version carries the product data version its item began with.
Stale(i) == i \in ProductItems /\ moved

\* The rows held by the transactions that are under way.
LockedItems == UNION {t.items : t \in txns}
LockedAccounts == {item[i].account : i \in LockedItems}
Reconciling(i, v) == <<i, v, "reconciling">> \in inquiries
Free(i) == i \notin LockedItems /\ \A v \in Versions : ~Reconciling(i, v)

\* The answer of the platform is about to be written, over the item and its version on show.
Answering(i, v) == <<i, v, "answering">> \in inquiries

Init ==
  /\ mode = "LIVE"
  /\ \E a \in [Items -> Accounts] :
       item = [i \in Items |-> [status |-> "DRAFT", version |-> 1, account |-> a[i],
                                slot |-> NoSlot]]
  /\ decision = [i \in Items |-> [v \in Versions |-> "NONE"]]
  /\ job = [i \in Items |-> [v \in Versions |-> NoJob]]
  /\ task = [i \in Items |-> [v \in Versions |-> NoTask]]
  /\ moved = FALSE
  /\ checked = {}
  /\ txns = {}
  /\ inquiries = {}

-----------------------------------------------------------------------------
(* Versions and review *)

\* Mutant: the jobs of people are not in the list.
CancelledIfQueued(j) ==
  IF j.status \in MutableStatus \ {"MANUAL_PENDING"}
  THEN [j EXCEPT !.status = "CANCELLED"] ELSE j

\* updateMany of the jobs whose outcome is not yet at stake.
Cancelled(j) == IF j.status \in MutableStatus THEN [j EXCEPT !.status = "CANCELLED"] ELSE j

\* Mutant: the tasks are left open.
TaskStays(j, t) == t

\* cancelManualTasksForVersion, for the job as it was before it was cancelled.
TaskAfterCancel(j, t) ==
  IF j.adapter = "manual" /\ Cancelled(j).status = "CANCELLED" /\ t.status \in OpenTask
  THEN [t EXCEPT !.status = "CANCELLED"] ELSE t

\* What every handler that takes a version out of the queue does to its job and task.
TakeOutOfQueue(i) ==
  LET v == Current(i)
  IN  /\ job' = [job EXCEPT ![i][v] = Cancelled(@)]
      /\ task' = [task EXCEPT ![i][v] = TaskAfterCancel(job[i][v], @)]

\* Mutant: only a manual job that still runs is looked for.
ManualRunning(i) == CurrentJob(i).adapter = "manual" /\ CurrentJob(i).status = "RUNNING"

\* assertNoUnresolvedManualPublish
ManualUnresolved(i) == CurrentJob(i).adapter = "manual" /\ CurrentJob(i).status = "UNKNOWN"

\* checkContent of submitForReview, before its transaction.
CheckForReview(i) ==
  /\ i \notin checked /\ ~Stale(i)
  /\ checked' = checked \cup {i}
  /\ UNCHANGED <<mode, item, decision, job, task, moved, txns, inquiries>>

\* Its transaction; only the version is compared with what was checked.
SubmitForReview(i) ==
  /\ i \in checked /\ Free(i)
  /\ item[i].status # "RUNNING" /\ ~ManualUnresolved(i)
  /\ TakeOutOfQueue(i)
  /\ item' = [item EXCEPT ![i] = [@ EXCEPT !.status = "REVIEW_PENDING", !.slot = NoSlot]]
  /\ checked' = checked \ {i}
  /\ UNCHANGED <<mode, decision, moved, txns, inquiries>>

\* The new version is written for an account of the editor's choice.
EditContentVersion(i) ==
  /\ Free(i) /\ Current(i) < MaxVersion
  /\ item[i].status # "RUNNING" /\ ~ManualUnresolved(i)
  /\ TakeOutOfQueue(i)
  /\ \E a \in Accounts :
       item' = [item EXCEPT ![i] = [status |-> "DRAFT", version |-> Current(i) + 1,
                                    account |-> a, slot |-> NoSlot]]
  /\ checked' = checked \ {i}
  /\ UNCHANGED <<mode, decision, moved, txns, inquiries>>

Decide(i, d) ==
  /\ Free(i) /\ item[i].status = "REVIEW_PENDING"
  /\ decision' = [decision EXCEPT ![i][Current(i)] = d]
  /\ TakeOutOfQueue(i)
  /\ item' = [item EXCEPT ![i] = [@ EXCEPT
       !.status = IF d = "APPROVED" THEN "APPROVED" ELSE "CHANGES_REQUESTED",
       !.slot = NoSlot]]
  /\ UNCHANGED <<mode, moved, checked, txns, inquiries>>

ReviewContent(i) == \E d \in {"APPROVED", "REJECTED"} : Decide(i, d)

RequestContentChanges(i) == Decide(i, "REJECTED")

\* The RUNNING jobs are counted without locking them, so that a claim may commit right
\* after the count: only the items, which are locked, keep facts away from a job being sent.
UpdateProductFacts ==
  /\ \A i \in ProductItems :
       /\ Free(i) /\ item[i].status # "RUNNING"
       /\ \A v \in Versions : job[i][v].status # "UNKNOWN"
  /\ moved' = (ProductItems # {})
  /\ item' = [i \in Items |->
       IF i \in ProductItems /\ item[i].status # "PUBLISHED"
       THEN [item[i] EXCEPT !.status = "CHANGES_REQUESTED", !.slot = NoSlot] ELSE item[i]]
  /\ job' = [i \in Items |-> IF i \in ProductItems
                             THEN [v \in Versions |-> Cancelled(job[i][v])] ELSE job[i]]
  /\ task' = [i \in Items |->
       IF i \in ProductItems
       THEN [v \in Versions |-> TaskAfterCancel(job[i][v], task[i][v])] ELSE task[i]]
  /\ UNCHANGED <<mode, decision, checked, txns, inquiries>>

\* The settings form: it waits for the transactions that hold the client's row for share.
ChangeMode ==
  /\ txns = {}
  /\ \E m \in Modes : m # mode /\ mode' = m
  /\ UNCHANGED <<item, decision, job, task, moved, checked, txns, inquiries>>

-----------------------------------------------------------------------------
(* Schedules *)

Near(s, t) == s - t <= Window /\ t - s <= Window

BusyNear(k, s) == \/ item[k].status = "SCHEDULED" /\ Near(item[k].slot, s)
                  \/ CurrentJob(k).status \in ConflictStatus /\ Near(CurrentJob(k).slot, s)

\* findScheduleConflictsInTransaction, for items of S at slot s of account a.
Conflict(S, a, s) == \E k \in Items \ S : item[k].account = a /\ BusyNear(k, s)

\* An existing job decides for itself; only a first one asks the account.
PublishesByHand(i) ==
  /\ mode = "LIVE"
  /\ IF CurrentJob(i).status = "NONE" THEN item[i].account \in ManualAccounts
                                      ELSE CurrentJob(i).adapter = "manual"

AdapterOf(i) == CASE PublishesByHand(i) -> "manual"
                  [] mode = "DEMO" -> "mock"
                  [] OTHER -> "api"

\* validatePublicationInTransaction; no manual account is ever a live target.
Publishable(i) ==
  /\ ~Stale(i) /\ Approved(i) /\ mode # "DRAFT"
  /\ AdapterOf(i) = "api" => item[i].account \notin ManualAccounts

\* Mutant: any job that has ended is scheduled anew.
Ended(j) == j.status \in {"NONE", "CANCELLED", "FAILED"}

\* The item has no job, or one that was cancelled before it was ever sent.
Schedulable(j) == j.status = "NONE" \/ (j.status = "CANCELLED" /\ ~j.tried)

\* Mutant: the account is not locked.
ItemOnlyFree(i) == Free(i)

\* The rows a schedule locks: the item, then its account.
CanLock(i) == Free(i) /\ item[i].account \notin LockedAccounts

\* The item got a new version after an answer about the one before had read it.
Overtaken(i) == \E v \in Versions : v # Current(i) /\ Answering(i, v)

\* Bound: between two statements of one transaction, which is rolled back after five seconds,
\* a new version may be written, reviewed and approved, but is not scheduled too.
Validate(i, s) ==
  /\ CanLock(i) /\ ~Overtaken(i)
  /\ Publishable(i) /\ Schedulable(CurrentJob(i))
  /\ ~Conflict({i}, item[i].account, s)
  /\ txns' = txns \cup {[kind |-> "schedule", items |-> {i}, slot |-> s]}
  /\ UNCHANGED <<mode, item, decision, job, task, moved, checked, inquiries>>

\* schedulePublication up to its writes; the status of the item is not asked.
BeginSchedule(i) == \E s \in Slots : Validate(i, s)

QueueRefuses == Outcomes \cup {"RUNNING"}

\* assignContentToQueueInTransaction: the first occurrence after an instant that is free.
BeginQueueAssignment(i) ==
  /\ item[i].status \notin QueueRefuses
  /\ \E after \in Slots \cup {NoSlot} :
       LET open == {s \in QueueSlots : s > after /\ ~Conflict({i}, item[i].account, s)}
       IN  \E s \in open : (\A o \in open : s <= o) /\ Validate(i, s)

FirstStatus(adapter) == IF adapter = "manual" THEN "MANUAL_PENDING" ELSE "PENDING"

\* The writes of schedulePublicationInTransaction and its commit.
CommitSchedule(t) ==
  /\ t.kind = "schedule"
  /\ \E i \in t.items :
       LET v == Current(i)
           adapter == AdapterOf(i)
       IN  /\ job' = [job EXCEPT ![i][v] = [@ EXCEPT !.status = FirstStatus(adapter),
                                                    !.adapter = adapter, !.slot = t.slot]]
           /\ item' = [item EXCEPT ![i] = [@ EXCEPT !.status = "SCHEDULED",
                                                    !.slot = t.slot]]
           /\ task' = IF adapter = "manual" /\ task[i][v].status \notin OpenTask
                      THEN [task EXCEPT ![i][v] = [status |-> "TODO", due |-> t.slot]]
                      ELSE task
  /\ txns' = txns \ {t}
  /\ UNCHANGED <<mode, decision, moved, checked, inquiries>>

\* rescheduleCalendarItems up to its writes: all the items go to one slot, each of another
\* account.
BeginMove(S) ==
  /\ \A i \in S : /\ CanLock(i) /\ item[i].status = "SCHEDULED"
                  /\ Publishable(i) /\ CurrentJob(i).status \in MutableStatus
  /\ \A i, k \in S : i # k => item[i].account # item[k].account
  /\ \E s \in Slots :
       /\ \A i \in S : ~Conflict(S, item[i].account, s)
       /\ txns' = txns \cup {[kind |-> "move", items |-> S, slot |-> s]}
  /\ UNCHANGED <<mode, item, decision, job, task, moved, checked, inquiries>>

\* The writes; a job that a worker has claimed meanwhile makes them all roll back.
CommitMove(t) ==
  /\ t.kind = "move"
  /\ IF \A i \in t.items : CurrentJob(i).status \in MutableStatus
     THEN /\ job' = [i \in Items |-> [v \in Versions |->
               IF i \in t.items /\ v = Current(i) THEN [job[i][v] EXCEPT !.slot = t.slot]
                                                  ELSE job[i][v]]]
          /\ item' = [i \in Items |-> IF i \in t.items THEN [item[i] EXCEPT !.slot = t.slot]
                                                       ELSE item[i]]
          /\ task' = [i \in Items |-> [v \in Versions |->
               IF /\ i \in t.items /\ v = Current(i)
                  /\ job[i][v].status = "MANUAL_PENDING" /\ task[i][v].status \in OpenTask
               THEN [task[i][v] EXCEPT !.due = t.slot] ELSE task[i][v]]]
     ELSE UNCHANGED <<job, item, task>>
  /\ txns' = txns \ {t}
  /\ UNCHANGED <<mode, decision, moved, checked, inquiries>>

-----------------------------------------------------------------------------
(* Publishing by hand *)

\* The product's facts are not looked at again.
StartManualPublish(i) ==
  LET v == Current(i)
  IN  /\ mode = "LIVE" /\ Free(i)
      /\ job[i][v].adapter = "manual" /\ job[i][v].status = "MANUAL_PENDING"
      /\ ~job[i][v].tried
      /\ item[i].status = "SCHEDULED" /\ Approved(i)
      /\ task[i][v].status = "TODO"
      /\ job' = [job EXCEPT ![i][v].status = "RUNNING"]
      /\ item' = [item EXCEPT ![i].status = "RUNNING"]
      /\ task' = [task EXCEPT ![i][v].status = "IN_PROGRESS"]
      /\ UNCHANGED <<mode, decision, moved, checked, txns, inquiries>>

\* RUNNING ends in any way; an UNKNOWN outcome only becomes a known one.
MayRecord(from, to) == from = "RUNNING" \/ (from = "UNKNOWN" /\ to # "UNKNOWN")

RecordManualPublishResult(i) ==
  LET v == Current(i)
  IN  \E outcome \in Outcomes :
        /\ Free(i)
        /\ job[i][v].adapter = "manual" /\ MayRecord(job[i][v].status, outcome)
        /\ item[i].status = job[i][v].status /\ Approved(i)
        /\ task[i][v].status = IF job[i][v].status = "UNKNOWN" THEN "WAITING_EXTERNAL"
                                                               ELSE "IN_PROGRESS"
        /\ job' = [job EXCEPT ![i][v].status = outcome]
        /\ item' = [item EXCEPT ![i].status = outcome]
        /\ task' = [task EXCEPT ![i][v].status =
             IF outcome = "UNKNOWN" THEN "WAITING_EXTERNAL" ELSE "COMPLETED"]
        /\ UNCHANGED <<mode, decision, moved, checked, txns, inquiries>>

\* Mutant: the task of a manual publication can be ticked off like any other.
AnyTask(j) == TRUE

\* /api/tasks/[id] leaves the task of a manual job alone.
TaskIsFree(j) == j.adapter # "manual"

UpdateTask(i, v) ==
  /\ task[i][v].status # "NONE" /\ TaskIsFree(job[i][v])
  /\ \E s \in {"TODO", "COMPLETED"} : s # task[i][v].status
                                      /\ task' = [task EXCEPT ![i][v].status = s]
  /\ UNCHANGED <<mode, item, decision, job, moved, checked, txns, inquiries>>

-----------------------------------------------------------------------------
(* The worker, and what an operator does about its unknown outcomes *)

\* A job was due when it was claimed: what is planned from then on is not earlier.
Later(slot) == {s \in Slots : s >= slot}

Sending(i, v) == v = Current(i) /\ item[i].status = "RUNNING"
Held(i, v) == job[i][v].adapter # "manual" /\ job[i][v].status = "RUNNING"

Claim(i, v) ==
  /\ job[i][v].status \in {"PENDING", "RETRY"}
  /\ job' = [job EXCEPT ![i][v].status = "RUNNING"]
  /\ UNCHANGED <<mode, item, decision, task, moved, checked, txns, inquiries>>

\* A claim ends before the call: the gate is closed, the connection is not usable, or the
\* worker was lost and the job goes back to the queue.
GiveUpClaim(i, v) ==
  /\ Held(i, v) /\ ~Sending(i, v)
  /\ \/ job' = [job EXCEPT ![i][v].status = "CANCELLED"]
     \/ /\ job[i][v].adapter = "api"
        /\ job' = [job EXCEPT ![i][v].status = "WAITING_CONFIGURATION"]
     \/ \E s \in Later(job[i][v].slot) :
          job' = [job EXCEPT ![i][v] = [@ EXCEPT !.status = "RETRY", !.slot = s]]
  /\ UNCHANGED <<mode, item, decision, task, moved, checked, txns, inquiries>>

\* Mutant: the gate reads the approval alone.
ApprovalGate(i, v) == decision[i][v] = "APPROVED"

\* The gate, under the lock of the item: not its status, only what it is made of.
Gate(i, v) == v = Current(i) /\ Approved(i) /\ ~Stale(i)

Dispatch(i, v) ==
  /\ Held(i, v) /\ Free(i) /\ ~Sending(i, v) /\ Gate(i, v)
  /\ job' = [job EXCEPT ![i][v].tried = TRUE]
  /\ item' = [item EXCEPT ![i].status = "RUNNING"]
  /\ UNCHANGED <<mode, decision, task, moved, checked, txns, inquiries>>

\* Its result, or the UNKNOWN that recovery writes for a worker lost in the call.
RecordResult(i, v) ==
  /\ Held(i, v) /\ Free(i) /\ Sending(i, v)
  /\ \/ \E outcome \in Outcomes, told \in BOOLEAN :
          /\ outcome = "PUBLISHED" => told
          /\ outcome = "FAILED" => ~told
          /\ job' = [job EXCEPT ![i][v] = [@ EXCEPT !.status = outcome, !.told = told]]
          /\ item' = [item EXCEPT ![i].status = outcome]
     \/ \E s \in Later(job[i][v].slot) :
          /\ job' = [job EXCEPT ![i][v] = [@ EXCEPT !.status = "RETRY", !.slot = s]]
          /\ item' = [item EXCEPT ![i].status = "SCHEDULED"]
  /\ UNCHANGED <<mode, decision, task, moved, checked, txns, inquiries>>

\* Mutant: the item is written whatever version it has by now.
ItemToo(i, v) == TRUE

\* A settled job settles its item if the item still shows the version of the job.
StillCurrent(i, v) == v = Current(i)

\* reconcileUnknownPublish up to its writes: it holds the item, and has read the job, which
\* it does not lock.
BeginReconciliation(i, v) ==
  /\ Free(i) /\ job[i][v].adapter # "manual" /\ job[i][v].status = "UNKNOWN"
  /\ inquiries' = inquiries \cup {<<i, v, "reconciling">>}
  /\ UNCHANGED <<mode, item, decision, job, task, moved, checked, txns>>

\* Its writes, over whatever the job has become.  It and an answer that holds the job wait
\* for each other, and the database rolls one of them back.
ReconcileUnknownPublish(i, v) ==
  /\ Reconciling(i, v)
  /\ inquiries' = inquiries \ {<<i, v, "reconciling">>}
  /\ \/ /\ ~Answering(i, v)
        /\ \E outcome \in {"PUBLISHED", "FAILED"} :
             /\ job' = [job EXCEPT ![i][v] =
                          [@ EXCEPT !.status = outcome,
                                    !.told = job[i][v].told \/ outcome = "PUBLISHED"]]
             /\ item' = IF StillCurrent(i, v) THEN [item EXCEPT ![i].status = outcome] ELSE item
        /\ task' = [task EXCEPT ![i][v].status = IF @ \in OpenTask THEN "COMPLETED" ELSE @]
     \/ UNCHANGED <<item, job, task>>
  /\ UNCHANGED <<mode, decision, moved, checked, txns>>

Questions == {q \in inquiries : q[3] # "reconciling"}

\* queryPlatformPublish up to its call.
AskPlatform(i, v) ==
  /\ job[i][v].adapter = "api" /\ job[i][v].told
  /\ <<i, v, "asking">> \notin inquiries /\ Cardinality(Questions) < MaxQueries
  /\ inquiries' = inquiries \cup {<<i, v, "asking">>}
  /\ UNCHANGED <<mode, item, decision, job, task, moved, checked, txns>>

\* The answer "published" is written over whatever the job has become, and then the item is
\* read without a lock: one that shows another version by now is left alone.  Any other
\* answer only leaves an error code.
ReceiveAnswer(i, v) ==
  LET others == inquiries \ {<<i, v, "asking">>}
  IN  /\ <<i, v, "asking">> \in inquiries /\ ~Answering(i, v)
      /\ \/ /\ StillCurrent(i, v)
            /\ inquiries' = others \cup {<<i, v, "answering">>} /\ UNCHANGED job
         \/ /\ ~StillCurrent(i, v)
            /\ inquiries' = others /\ job' = [job EXCEPT ![i][v].status = "PUBLISHED"]
         \/ inquiries' = others /\ UNCHANGED job
      /\ UNCHANGED <<mode, item, decision, task, moved, checked, txns>>

\* The item is written by its id alone, once nobody holds it, and the transaction commits;
\* or it is rolled back.
WriteAnswer(i, v) ==
  /\ Answering(i, v)
  /\ inquiries' = inquiries \ {<<i, v, "answering">>}
  /\ \/ /\ Free(i)
        /\ job' = [job EXCEPT ![i][v].status = "PUBLISHED"]
        /\ item' = [item EXCEPT ![i].status = "PUBLISHED"]
     \/ UNCHANGED <<item, job>>
  /\ UNCHANGED <<mode, decision, task, moved, checked, txns>>

-----------------------------------------------------------------------------
Authoring(i) == CheckForReview(i) \/ SubmitForReview(i) \/ EditContentVersion(i)
                \/ ReviewContent(i) \/ RequestContentChanges(i)

Planning == \/ \E i \in Items : BeginSchedule(i) \/ BeginQueueAssignment(i)
            \/ \E S \in SUBSET Items \ {{}} : BeginMove(S)
            \/ \E t \in txns : CommitSchedule(t) \/ CommitMove(t)

ByHand(i) == StartManualPublish(i) \/ RecordManualPublishResult(i)

Publishing(i, v) == \/ Claim(i, v) \/ GiveUpClaim(i, v) \/ Dispatch(i, v) \/ RecordResult(i, v)
                    \/ BeginReconciliation(i, v) \/ ReconcileUnknownPublish(i, v)
                    \/ AskPlatform(i, v) \/ ReceiveAnswer(i, v) \/ WriteAnswer(i, v)
                    \/ UpdateTask(i, v)

Next == \/ \E i \in Items : Authoring(i) \/ ByHand(i)
        \/ \E i \in Items, v \in Versions : Publishing(i, v)
        \/ Planning \/ UpdateProductFacts \/ ChangeMode

Spec == Init /\ [][Next]_vars

-----------------------------------------------------------------------------
(* Properties *)

ItemRows == [status : ItemStatus, version : Versions, account : Accounts,
             slot : Slots \cup {NoSlot}]
JobRows == [status : JobStatus, adapter : Adapters, slot : Slots \cup {NoSlot},
            tried : BOOLEAN, told : BOOLEAN]
TaskRows == [status : TaskStatus, due : Slots \cup {NoSlot}]
Transactions == [kind : {"schedule", "move"}, items : SUBSET Items, slot : Slots]

TypeOK ==
  /\ mode \in ClientModes
  /\ item \in [Items -> ItemRows]
  /\ decision \in [Items -> [Versions -> {"NONE", "APPROVED", "REJECTED"}]]
  /\ job \in [Items -> [Versions -> JobRows]]
  /\ task \in [Items -> [Versions -> TaskRows]]
  /\ moved \in BOOLEAN
  /\ checked \subseteq Items
  /\ txns \subseteq Transactions
  /\ inquiries \subseteq Items \X Versions \X Stages

\* Whatever handlers ran since it was scheduled, a publication that waits for its first
\* attempt is of the version on show, approved, written from the facts in force, and planned
\* for the instant its item shows (content-service.ts, approval-collaboration-service.ts,
\* product-service.ts, calendar-service.ts: each takes out of the queue what it invalidates).
QueuedIsReady ==
  \A i \in Items, v \in Versions :
    job[i][v].status \in {"PENDING", "MANUAL_PENDING"} =>
      /\ v = Current(i) /\ item[i].status = "SCHEDULED"
      /\ Approved(i) /\ ~Stale(i)
      /\ item[i].slot = job[i][v].slot

\* The answer about an earlier version has gone over the item of one that was never planned.
ShowsEarlierPost(i) ==
  /\ item[i].status = "PUBLISHED" /\ CurrentJob(i).status = "NONE"
  /\ \E v \in Versions : /\ v < Current(i) /\ job[i][v].adapter = "api"
                         /\ job[i][v].told /\ job[i][v].status = "PUBLISHED"

\* An item says RUNNING, FAILED or UNKNOWN only of the version it shows, and PUBLISHED of that
\* version too, unless the platform confirmed an earlier one while the new one was written:
\* the version that then seems published has no job, and nobody has sent it or ever tried to
\* (platform-publish-query-service.ts, publish-worker-service.ts, manual-publish-service.ts).
ItemAgreesWithJob ==
  \A i \in Items : item[i].status \in Settled =>
    CurrentJob(i).status = item[i].status \/ ShowsEarlierPost(i)

\* The task of a manual publication stands where its job stands, and is due when it is.
ManualTaskMatches ==
  \A i \in Items, v \in Versions :
    job[i][v].adapter = "manual" =>
      CASE job[i][v].status = "MANUAL_PENDING" ->
             task[i][v] = [status |-> "TODO", due |-> job[i][v].slot]
        [] job[i][v].status = "RUNNING" -> task[i][v].status = "IN_PROGRESS"
        [] job[i][v].status = "UNKNOWN" -> task[i][v].status = "WAITING_EXTERNAL"
        [] OTHER -> task[i][v].status \notin OpenTask

\* Once a person has begun to publish by hand, what they report can be recorded: nothing
\* edits, reviews or supersedes the content before its outcome is known.
ManualResultRecordable ==
  \A i \in Items, v \in Versions :
    job[i][v].adapter = "manual" /\ job[i][v].status \in {"RUNNING", "UNKNOWN"} =>
      v = Current(i) /\ item[i].status = job[i][v].status /\ Approved(i)

\* Two publications that wait for their first attempt on one account are never planned
\* within the window of each other, though each transaction looks at the others' rows and
\* none locks them: the account's row is what keeps two of them apart (content-service.ts,
\* findScheduleConflictsInTransaction).
SlotsApart ==
  \A i, k \in Items :
    /\ i # k /\ item[i].account = item[k].account
    /\ item[i].status = "SCHEDULED" /\ ~CurrentJob(i).tried
    /\ item[k].status = "SCHEDULED" /\ ~CurrentJob(k).tried
    => ~Near(item[i].slot, item[k].slot)

\* Nothing is sent, by a worker or by hand, that is not approved or was written from facts
\* that have changed since, though a manual start does not look at the facts.
SentAsApproved ==
  [][\A i \in Items :
       item[i].status # "RUNNING" /\ item'[i].status = "RUNNING" =>
         Approved(i) /\ ~Stale(i) /\ CurrentJob(i)'.status = "RUNNING"]_vars

\* A published job stays published, an unknown outcome only becomes a known one, and a failure
\* is overturned only by the platform itself, which was told of the post.  The late answer to
\* a query is written without a look at the job, and relies on this; so is an operator's
\* verdict, which may undo an answer that came after it read the job, of an earlier version.
OutcomeIsFinal ==
  [][\A i \in Items, v \in Versions :
       LET from == job[i][v].status
           to == job'[i][v].status
       IN  /\ from = "PUBLISHED" =>
                to = "PUBLISHED" \/ (to = "FAILED" /\ Reconciling(i, v) /\ v # Current(i))
           /\ from = "UNKNOWN" => to \in Outcomes
           /\ from = "FAILED" => to = "FAILED" \/ (job[i][v].told /\ to = "PUBLISHED")]_vars

\* Content under review waits for its decision: it is neither scheduled nor sent.
ReviewIsAwaited ==
  [][\A i \in Items : item[i].status = "REVIEW_PENDING" =>
       item'[i].status \notin {"SCHEDULED", "RUNNING"}]_vars
=============================================================================
