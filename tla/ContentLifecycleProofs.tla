----------------------- MODULE ContentLifecycleProofs -----------------------
(***************************************************************************)
(* What is queued is ready, items, jobs and tasks agree, nothing is sent   *)
(* that is not approved, outcomes are final, and slots stay apart: proofs  *)
(* for any number of items, versions, accounts and instants.               *)
(***************************************************************************)
EXTENDS ContentLifecycle, TLAPS

\* What holds of a job and the task that goes with it.
RowSound(j, t) ==
  /\ j.status = "NONE" => t = NoTask
  /\ j.told => j.status \in Outcomes
  /\ j.status = "MANUAL_PENDING" => j.adapter = "manual"
  /\ j.adapter = "manual" =>
       /\ j.status \notin {"NONE", "PENDING", "RETRY", "WAITING_CONFIGURATION"}
       /\ j.status = "MANUAL_PENDING" => t = [status |-> "TODO", due |-> j.slot]
       /\ j.status = "RUNNING" => t.status = "IN_PROGRESS"
       /\ j.status = "UNKNOWN" => t.status = "WAITING_EXTERNAL"
       /\ j.status \in {"PUBLISHED", "FAILED", "CANCELLED"} => t.status \notin OpenTask

\* What holds of a version of an item: of its job and task, of what the item says while the
\* version is on show, and of what is under way about its outcome.
Sound(i, v) ==
  /\ v > Current(i) => job[i][v] = NoJob /\ task[i][v] = NoTask
  /\ RowSound(job[i][v], task[i][v])
  /\ job[i][v].status \in {"PENDING", "MANUAL_PENDING"} =>
       /\ v = Current(i) /\ item[i].status = "SCHEDULED"
       /\ Approved(i) /\ ~Stale(i)
       /\ item[i].slot = job[i][v].slot
  /\ job[i][v].adapter = "manual" /\ job[i][v].status \in {"RUNNING", "UNKNOWN"} =>
       v = Current(i) /\ item[i].status = job[i][v].status /\ Approved(i)
  /\ v = Current(i) /\ item[i].status \in Settled =>
       \/ job[i][v].status = item[i].status
       \/ job[i][v].status = "NONE" /\ item[i].status = "PUBLISHED"
  /\ v = Current(i) /\ item[i].status = "RUNNING" /\ job[i][v].adapter # "manual" => job[i][v].tried
  /\ \A s \in {"asking", "answering"} :
       <<i, v, s>> \in inquiries => job[i][v].adapter = "api" /\ job[i][v].told
  /\ Reconciling(i, v) =>
       /\ job[i][v].adapter # "manual" /\ job[i][v].status \in {"UNKNOWN", "PUBLISHED"}
       /\ v = Current(i) => job[i][v].status = "UNKNOWN"

RowsInv == \A i \in Items, v \in Versions : Sound(i, v)

\* The platform confirmed the post, and no operator is about to say otherwise.
Confirmed(i, v) == /\ job[i][v].status = "PUBLISHED" /\ job[i][v].adapter = "api"
                   /\ job[i][v].told /\ ~Reconciling(i, v)

\* What an answer about an earlier version relies on: a version that seems published without a
\* job was preceded by one that is, and one that an answer may still go over has no job.
Late(i) ==
  /\ item[i].status = "PUBLISHED" /\ CurrentJob(i).status = "NONE" =>
       \E u \in Versions : u # Current(i) /\ Confirmed(i, u)
  /\ Overtaken(i) => CurrentJob(i).status = "NONE"

LateInv == \A i \in Items : Late(i)

\* It waits for its first attempt.
Waits(i) == item[i].status = "SCHEDULED" /\ ~CurrentJob(i).tried

\* What a transaction has validated holds until it commits.
Holds(t, i) ==
  /\ Approved(i) /\ ~Stale(i) /\ \A v \in Versions : ~Reconciling(i, v)
  /\ t.kind = "schedule" => Schedulable(CurrentJob(i)) /\ ~Overtaken(i)
  /\ t.kind = "move" => item[i].status = "SCHEDULED"
  /\ \A k \in Items \ t.items :
       item[k].account = item[i].account /\ Waits(k) => ~Near(item[k].slot, t.slot)

\* No two transactions, and no two items of one, are about the same account.
TxnsInv ==
  /\ \A t \in txns : \A i \in t.items : Holds(t, i)
  /\ \A t, u \in txns : \A i \in t.items, k \in u.items :
       t # u \/ i # k => item[i].account # item[k].account

ApartInv ==
  \A i, k \in Items :
    i # k /\ item[i].account = item[k].account /\ Waits(i) /\ Waits(k) =>
      ~Near(item[i].slot, item[k].slot)

LifeInv == TypeOK /\ RowsInv /\ LateInv /\ TxnsInv /\ ApartInv

-----------------------------------------------------------------------------
(* Rows *)

\* The rows before there is a job or a task.
LEMMA EmptyRows ==
  /\ NoJob \in JobRows /\ NoJob.status = "NONE" /\ NoJob.adapter = "mock" /\ NoJob.tried = FALSE
  /\ NoJob.told = FALSE
  /\ NoTask \in TaskRows /\ NoTask.status = "NONE"
BY DEF NoJob, NoTask, JobRows, TaskRows, JobStatus, ConflictStatus, MutableStatus, Adapters,
       TaskStatus, OpenTask

\* An item shows one of the versions.
LEMMA CurrentVersion ==
  ASSUME TypeOK, NEW i \in Items
  PROVE  Current(i) \in Versions /\ item[i] \in ItemRows
BY DEF TypeOK, ItemRows, Current

\* A job that is taken out of the queue, and what is left of it.
LEMMA CancelledRow ==
  ASSUME NEW j \in JobRows
  PROVE  /\ Cancelled(j) \in JobRows
         /\ Cancelled(j).adapter = j.adapter /\ Cancelled(j).slot = j.slot
         /\ Cancelled(j).tried = j.tried /\ Cancelled(j).told = j.told
         /\ j.status \in MutableStatus => Cancelled(j).status = "CANCELLED"
         /\ j.status \notin MutableStatus => Cancelled(j) = j
BY DEF Cancelled, JobRows, JobStatus, ConflictStatus, MutableStatus

\* A task that is closed with its job.
LEMMA ClosedRow ==
  ASSUME NEW j \in JobRows, NEW t \in TaskRows
  PROVE  /\ TaskAfterCancel(j, t) \in TaskRows
         /\ TaskAfterCancel(j, t).status \in {t.status, "CANCELLED"}
         /\ j.adapter # "manual" => TaskAfterCancel(j, t) = t
         /\ t.status \notin OpenTask => TaskAfterCancel(j, t) = t
         /\ Cancelled(j).status # "CANCELLED" => TaskAfterCancel(j, t) = t
         /\ j.adapter = "manual" /\ Cancelled(j).status = "CANCELLED" =>
              TaskAfterCancel(j, t).status \notin OpenTask
BY DEF TaskAfterCancel, TaskRows, TaskStatus, OpenTask

\* A row taken out of the queue is sound, and waits for nothing.
LEMMA OutOfQueue ==
  ASSUME NEW j \in JobRows, NEW t \in TaskRows, RowSound(j, t)
  PROVE  /\ RowSound(Cancelled(j), TaskAfterCancel(j, t))
         /\ Cancelled(j).status \notin MutableStatus
<1>1. Cancelled(j).status \notin MutableStatus
  BY CancelledRow DEF MutableStatus
<1>2. CASE j.status \in MutableStatus
  <2>1. Cancelled(j).status = "CANCELLED" /\ Cancelled(j).told = j.told /\ ~j.told
    BY <1>2, CancelledRow DEF RowSound, MutableStatus, Outcomes
  <2>2. j.adapter = "manual" => TaskAfterCancel(j, t).status \notin OpenTask
    BY <2>1, ClosedRow
  <2> QED BY <1>1, <2>1, <2>2, CancelledRow DEF RowSound
<1>3. CASE j.status \notin MutableStatus
  <2>1. Cancelled(j) = j
    BY <1>3, CancelledRow
  <2>2. CASE j.status = "CANCELLED"
    <3>1. TaskAfterCancel(j, t) = t
      BY <2>2, ClosedRow DEF RowSound
    <3> QED BY <1>1, <2>1, <3>1
  <2>3. CASE j.status # "CANCELLED"
    <3>1. TaskAfterCancel(j, t) = t
      BY <2>1, <2>3, ClosedRow
    <3> QED BY <1>1, <2>1, <3>1
  <2> QED BY <2>2, <2>3
<1> QED BY <1>2, <1>3

\* One row is written.
LEMMA JobWritten ==
  ASSUME TypeOK, NEW i \in Items, NEW v \in Versions, NEW J \in JobRows,
         job' = [job EXCEPT ![i][v] = J]
  PROVE  /\ job' \in [Items -> [Versions -> JobRows]] /\ job'[i][v] = J
         /\ \A k \in Items, w \in Versions : k # i \/ w # v => job'[k][w] = job[k][w]
BY DEF TypeOK

\* A task is written, and no other.
LEMMA TaskWritten ==
  ASSUME TypeOK, NEW i \in Items, NEW v \in Versions, NEW T \in TaskRows,
         task' = [task EXCEPT ![i][v] = T]
  PROVE  /\ task' \in [Items -> [Versions -> TaskRows]] /\ task'[i][v] = T
         /\ \A k \in Items, w \in Versions : k # i \/ w # v => task'[k][w] = task[k][w]
BY DEF TypeOK

\* An item is written, and no other.
LEMMA ItemWritten ==
  ASSUME TypeOK, NEW i \in Items, NEW I \in ItemRows, item' = [item EXCEPT ![i] = I]
  PROVE  /\ item' \in [Items -> ItemRows] /\ item'[i] = I
         /\ \A k \in Items : k # i => item'[k] = item[k]
BY DEF TypeOK

-----------------------------------------------------------------------------
(* What a step leaves alone *)

\* A version stays sound when nothing that is said of it changes.
LEMMA SoundKept ==
  ASSUME NEW i \in Items, NEW v \in Versions, Sound(i, v),
         item'[i] = item[i], decision'[i] = decision[i], job'[i][v] = job[i][v],
         task'[i][v] = task[i][v], moved' = moved,
         \A s \in Stages : <<i, v, s>> \in inquiries' => <<i, v, s>> \in inquiries
  PROVE  Sound(i, v)'
<1>1. /\ \A s \in {"asking", "answering"} : <<i, v, s>> \in inquiries' => <<i, v, s>> \in inquiries
      /\ Reconciling(i, v)' => Reconciling(i, v)
  BY DEF Stages, Reconciling
<1> QED BY <1>1 DEF Sound, Current, Approved, Stale

\* A version that is not on show does not care what its item says.
LEMMA SoundElsewhere ==
  ASSUME NEW i \in Items, NEW v \in Versions, Sound(i, v), v # Current(i),
         item'[i].version = item[i].version, job'[i][v] = job[i][v],
         task'[i][v] = task[i][v],
         \A s \in Stages : <<i, v, s>> \in inquiries' => <<i, v, s>> \in inquiries
  PROVE  Sound(i, v)'
<1>1. /\ \A s \in {"asking", "answering"} : <<i, v, s>> \in inquiries' => <<i, v, s>> \in inquiries
      /\ Reconciling(i, v)' => Reconciling(i, v)
  BY DEF Stages, Reconciling
<1> QED BY <1>1 DEF Sound, Current

\* What a step has to leave alone for late answers.
LEMMA LateKept ==
  ASSUME NEW i \in Items, Late(i), item'[i].version = item[i].version,
         item'[i].status = "PUBLISHED" /\ CurrentJob(i)'.status = "NONE" =>
           item[i].status = "PUBLISHED" /\ CurrentJob(i).status = "NONE",
         Overtaken(i)' => Overtaken(i),
         CurrentJob(i).status = "NONE" => CurrentJob(i)'.status = "NONE",
         \A u \in Versions : u # Current(i) /\ Confirmed(i, u) => Confirmed(i, u)'
  PROVE  Late(i)'
BY DEF Late, Current

\* What is under way about an item of which nothing is written.
LEMMA InquiriesFewer ==
  ASSUME NEW i \in Items, item'[i].version = item[i].version,
         \A v \in Versions, s \in Stages : <<i, v, s>> \in inquiries' => <<i, v, s>> \in inquiries
  PROVE  /\ \A v \in Versions : Reconciling(i, v)' => Reconciling(i, v)
         /\ Overtaken(i)' => Overtaken(i)
BY DEF Reconciling, Overtaken, Answering, Stages, Current

\* The window is the same from either side.
LEMMA NearBothWays == \A s, t \in Int : Near(s, t) <=> Near(t, s)
BY DEF Near

\* Nothing a transaction has validated is touched, and nothing begins to wait.
LEMMA QuietStep ==
  ASSUME LifeInv, txns' = txns,
         \A i \in LockedItems : /\ item'[i] = item[i] /\ decision'[i] = decision[i]
                                /\ Stale(i)' => Stale(i)
                                /\ Schedulable(CurrentJob(i)) => Schedulable(CurrentJob(i))'
                                /\ Overtaken(i)' => Overtaken(i)
                                /\ \A v \in Versions : Reconciling(i, v)' => Reconciling(i, v),
         \A k \in Items : Waits(k)' => /\ Waits(k) /\ item'[k].account = item[k].account
                                       /\ item'[k].slot = item[k].slot
  PROVE  TxnsInv' /\ ApartInv'
<1>1. \A t \in txns : \A i \in t.items : i \in LockedItems /\ i \in Items
  BY DEF LockedItems, LifeInv, TypeOK, Transactions
<1>2. ASSUME NEW t \in txns, NEW i \in t.items
      PROVE  Holds(t, i)'
  <2>1. Holds(t, i) /\ i \in LockedItems
    BY <1>1 DEF LifeInv, TxnsInv
  <2>2. Approved(i)' /\ ~Stale(i)' /\ \A v \in Versions : ~Reconciling(i, v)'
    BY <2>1 DEF Holds, Approved, Current
  <2>3. (t.kind = "schedule" => Schedulable(CurrentJob(i)) /\ ~Overtaken(i))'
    BY <2>1 DEF Holds
  <2>4. (t.kind = "move" => item[i].status = "SCHEDULED")'
    BY <2>1 DEF Holds
  <2>5. ASSUME NEW k \in Items \ t.items, item'[k].account = item'[i].account, Waits(k)'
        PROVE  ~Near(item'[k].slot, t.slot)
    BY <2>1, <2>5 DEF Holds
  <2> QED BY <2>2, <2>3, <2>4, <2>5 DEF Holds
<1>3. ASSUME NEW t \in txns, NEW u \in txns, NEW i \in t.items, NEW k \in u.items, t # u \/ i # k
      PROVE  item'[i].account # item'[k].account
  BY <1>1, <1>3 DEF LifeInv, TxnsInv
<1>4. TxnsInv'
  BY <1>2, <1>3 DEF TxnsInv
<1>5. ApartInv'
  BY DEF LifeInv, ApartInv
<1> QED BY <1>4, <1>5

\* A step about one version of one item, which stays on show or stays off it.
LEMMA OneRow ==
  ASSUME LifeInv, NEW i \in Items, NEW v \in Versions, txns' = txns, moved' = moved, TypeOK',
         \A k \in Items : k # i => item'[k] = item[k] /\ decision'[k] = decision[k],
         \A k \in Items, w \in Versions : k # i \/ w # v =>
           /\ job'[k][w] = job[k][w] /\ task'[k][w] = task[k][w]
           /\ \A s \in Stages : <<k, w, s>> \in inquiries' => <<k, w, s>> \in inquiries,
         item'[i].version = item[i].version,
         Sound(i, v)', NEW c \in Versions, c = Current(i), Sound(i, c)', Late(i)',
         i \in LockedItems => /\ item'[i] = item[i] /\ decision'[i] = decision[i]
                              /\ Schedulable(CurrentJob(i)) => Schedulable(CurrentJob(i))'
                              /\ Overtaken(i)' => Overtaken(i)
                              /\ \A w \in Versions : Reconciling(i, w)' => Reconciling(i, w),
         Waits(i)' => /\ Waits(i) /\ item'[i].account = item[i].account
                      /\ item'[i].slot = item[i].slot
  PROVE  LifeInv'
<1>1. \A k \in Items : Current(k) \in Versions
  BY CurrentVersion DEF LifeInv
<1>2. RowsInv'
  <2> SUFFICES ASSUME NEW k \in Items, NEW w \in Versions
               PROVE  Sound(k, w)'
    BY DEF RowsInv
  <2>0. Sound(k, w)
    BY DEF LifeInv, RowsInv
  <2>1. CASE k # i
    BY <2>0, <2>1, SoundKept
  <2>2. CASE k = i /\ w = v
    BY <2>2
  <2>3. CASE k = i /\ w = c
    BY <2>3
  <2>4. CASE k = i /\ w # v /\ w # c
    BY <2>0, <2>4, SoundElsewhere
  <2> QED BY <2>1, <2>2, <2>3, <2>4
<1>3. ASSUME NEW k \in Items, k # i
      PROVE  CurrentJob(k)' = CurrentJob(k)
  <2>1. item[k].version \in Versions /\ item'[k].version = item[k].version
    BY <1>1, <1>3 DEF Current
  <2>2. \A w \in Versions : job'[k][w] = job[k][w]
    BY <1>3
  <2> QED BY <2>1, <2>2 DEF CurrentJob, Current
<1>4. \A k \in LockedItems : /\ item'[k] = item[k] /\ decision'[k] = decision[k]
                             /\ Stale(k)' => Stale(k)
                             /\ Schedulable(CurrentJob(k)) => Schedulable(CurrentJob(k))'
                             /\ Overtaken(k)' => Overtaken(k)
                             /\ \A w \in Versions : Reconciling(k, w)' => Reconciling(k, w)
  <2> SUFFICES ASSUME NEW k \in LockedItems
               PROVE  /\ item'[k] = item[k] /\ decision'[k] = decision[k]
                      /\ Stale(k)' => Stale(k)
                      /\ Schedulable(CurrentJob(k)) => Schedulable(CurrentJob(k))'
                      /\ Overtaken(k)' => Overtaken(k)
                      /\ \A w \in Versions : Reconciling(k, w)' => Reconciling(k, w)
    OBVIOUS
  <2>1. k \in Items
    BY DEF LockedItems, LifeInv, TypeOK, Transactions
  <2>2. Stale(k)' => Stale(k)
    BY DEF Stale
  <2>3. CASE k = i
    BY <2>2, <2>3
  <2>4. CASE k # i
    <3>1. Overtaken(k)' => Overtaken(k)
      BY <2>1, <2>4, InquiriesFewer
    <3>2. \A w \in Versions : Reconciling(k, w)' => Reconciling(k, w)
      BY <2>1, <2>4, InquiriesFewer
    <3> QED BY <1>3, <2>1, <2>2, <2>4, <3>1, <3>2
  <2> QED BY <2>3, <2>4
<1>5. \A k \in Items : Waits(k)' => /\ Waits(k) /\ item'[k].account = item[k].account
                                    /\ item'[k].slot = item[k].slot
  BY <1>3 DEF Waits
<1>6. TxnsInv' /\ ApartInv'
  BY <1>4, <1>5, QuietStep
<1>7. ASSUME NEW k \in Items, k # i
      PROVE  Late(k)'
  <2>1. item'[k] = item[k] /\ Late(k)
    BY <1>7 DEF LifeInv, LateInv
  <2>2. /\ \A w \in Versions : Reconciling(k, w)' => Reconciling(k, w)
        /\ Overtaken(k)' => Overtaken(k)
    BY <1>7, <2>1, InquiriesFewer
  <2>3. \A u \in Versions : Confirmed(k, u) => Confirmed(k, u)'
    BY <1>7, <2>2 DEF Confirmed
  <2> QED BY <1>3, <1>7, <2>1, <2>2, <2>3, LateKept
<1>8. LateInv'
  BY <1>7 DEF LateInv
<1> QED BY <1>2, <1>6, <1>8 DEF LifeInv

\* What TakeOutOfQueue does to the version on show.
LEMMA TakenOut ==
  ASSUME LifeInv, NEW i \in Items, TakeOutOfQueue(i)
  PROVE  /\ job' \in [Items -> [Versions -> JobRows]] /\ task' \in [Items -> [Versions -> TaskRows]]
         /\ \A k \in Items, w \in Versions : k # i \/ w # Current(i) =>
              job'[k][w] = job[k][w] /\ task'[k][w] = task[k][w]
         /\ RowSound(job'[i][Current(i)], task'[i][Current(i)])
         /\ job'[i][Current(i)].status \notin MutableStatus
         /\ job'[i][Current(i)].status \in {CurrentJob(i).status, "CANCELLED"}
         /\ job'[i][Current(i)].adapter = CurrentJob(i).adapter
         /\ job'[i][Current(i)].told = CurrentJob(i).told
         /\ CurrentJob(i).status \notin MutableStatus => job'[i][Current(i)] = CurrentJob(i)
<1> DEFINE v == Current(i)
           j == job[i][v]
           t == task[i][v]
<1>1. v \in Versions /\ j \in JobRows /\ t \in TaskRows /\ RowSound(j, t)
  <2>1. v \in Versions
    BY CurrentVersion DEF LifeInv
  <2> HIDE DEF v
  <2>2. j \in JobRows /\ t \in TaskRows
    BY <2>1 DEF LifeInv, TypeOK
  <2>3. Sound(i, v)
    BY <2>1 DEF LifeInv, RowsInv
  <2> QED BY <2>1, <2>2, <2>3 DEF Sound
<1>2. job' = [job EXCEPT ![i][v] = Cancelled(j)]
  BY DEF TakeOutOfQueue
<1>3. task' = [task EXCEPT ![i][v] = TaskAfterCancel(j, t)]
  BY DEF TakeOutOfQueue
<1>4. TypeOK
  BY DEF LifeInv
<1>5. CurrentJob(i) = j
  BY DEF CurrentJob
<1> HIDE DEF v, j, t
<1>6. Cancelled(j) \in JobRows /\ TaskAfterCancel(j, t) \in TaskRows
  BY <1>1, CancelledRow, ClosedRow
<1>7. /\ job' \in [Items -> [Versions -> JobRows]] /\ job'[i][v] = Cancelled(j)
      /\ \A k \in Items, w \in Versions : k # i \/ w # v => job'[k][w] = job[k][w]
  BY ZenonT(60), <1>1, <1>2, <1>4, <1>6, JobWritten
<1>8. /\ task' \in [Items -> [Versions -> TaskRows]] /\ task'[i][v] = TaskAfterCancel(j, t)
      /\ \A k \in Items, w \in Versions : k # i \/ w # v => task'[k][w] = task[k][w]
  BY ZenonT(60), <1>1, <1>3, <1>4, <1>6, TaskWritten
<1>9. /\ RowSound(Cancelled(j), TaskAfterCancel(j, t)) /\ Cancelled(j).status \notin MutableStatus
      /\ Cancelled(j).status \in {j.status, "CANCELLED"}
      /\ Cancelled(j).adapter = j.adapter /\ Cancelled(j).told = j.told
      /\ j.status \notin MutableStatus => Cancelled(j) = j
  BY <1>1, OutOfQueue, CancelledRow
<1> QED BY <1>5, <1>7, <1>8, <1>9 DEF v

\* The version on show is taken out of the queue and its item is neither planned nor sent.
LEMMA TakenOutInv ==
  ASSUME LifeInv, NEW i \in Items, TakeOutOfQueue(i), Free(i), NEW I \in ItemRows,
         item' = [item EXCEPT ![i] = I], I.version = item[i].version,
         I.status \in {"REVIEW_PENDING", "APPROVED", "CHANGES_REQUESTED"},
         ~(CurrentJob(i).adapter = "manual" /\ CurrentJob(i).status \in {"RUNNING", "UNKNOWN"}),
         decision' \in [Items -> [Versions -> {"NONE", "APPROVED", "REJECTED"}]],
         \A k \in Items : k # i => decision'[k] = decision[k],
         checked' \in SUBSET checked, UNCHANGED <<mode, moved, txns, inquiries>>
  PROVE  LifeInv'
<1>0. PICK v \in Versions : v = Current(i)
  BY CurrentVersion DEF LifeInv
<1>1. TypeOK
  BY DEF LifeInv
<1>2. /\ item' \in [Items -> ItemRows] /\ item'[i] = I
      /\ \A k \in Items : k # i => item'[k] = item[k]
  BY <1>1, ItemWritten
<1>3. TypeOK'
  BY <1>1, <1>2, TakenOut DEF TypeOK
<1>4. Current(i)' = v
  BY <1>0, <1>2 DEF Current
<1>5. Sound(i, v) /\ CurrentJob(i) = job[i][v]
  BY <1>0 DEF LifeInv, RowsInv, CurrentJob
<1>6. /\ RowSound(job'[i][v], task'[i][v]) /\ job'[i][v].status \notin MutableStatus
      /\ job'[i][v].status \in {job[i][v].status, "CANCELLED"}
      /\ job'[i][v].adapter = job[i][v].adapter /\ job'[i][v].told = job[i][v].told
  BY <1>0, <1>5, TakenOut
<1>7. Sound(i, v)'
  <2>1. ~(v > Current(i)')
    BY <1>4, LifecycleAssumption DEF Versions
  <2>2. job'[i][v].status \notin {"PENDING", "MANUAL_PENDING"}
    BY <1>6 DEF MutableStatus
  <2>3. ~(job'[i][v].adapter = "manual" /\ job'[i][v].status \in {"RUNNING", "UNKNOWN"})
    BY <1>5, <1>6
  <2>4. item'[i].status \notin Settled
    BY <1>2 DEF Settled, Outcomes
  <2>5. /\ \A s \in {"asking", "answering"} :
             <<i, v, s>> \in inquiries' => job'[i][v].adapter = "api" /\ job'[i][v].told
        /\ ~Reconciling(i, v)'
    BY <1>5, <1>6 DEF Sound, Free, Reconciling
  <2> QED BY <1>6, <2>1, <2>2, <2>3, <2>4, <2>5 DEF Sound, Settled
<1>8. ~Waits(i)'
  BY <1>2 DEF Waits
<1>9. \A k \in Items, w \in Versions : k # i \/ w # v =>
        job'[k][w] = job[k][w] /\ task'[k][w] = task[k][w]
  BY <1>0, TakenOut
<1>10. i \notin LockedItems /\ item'[i].version = item[i].version
  BY <1>2 DEF Free
<1>11. Late(i)'
  <2>1. item'[i].status # "PUBLISHED"
    BY <1>2
  <2>2. Overtaken(i)' => CurrentJob(i).status = "NONE"
    BY <1>0, <1>4 DEF LifeInv, LateInv, Late, Overtaken, Answering
  <2>3. CurrentJob(i).status = "NONE" => CurrentJob(i)'.status = "NONE"
    BY <1>0, <1>4, TakenOut DEF MutableStatus, CurrentJob
  <2> QED BY <2>1, <2>2, <2>3 DEF Late
<1> QED BY <1>0, <1>2, <1>3, <1>7, <1>8, <1>9, <1>10, <1>11, OneRow

\* A step that writes no row, and may end an inquiry.
LEMMA NothingWritten ==
  ASSUME LifeInv, TypeOK', UNCHANGED <<item, decision, job, task, moved, txns>>,
         inquiries' \in SUBSET inquiries
  PROVE  LifeInv'
<1>1. RowsInv'
  <2> SUFFICES ASSUME NEW i \in Items, NEW v \in Versions
               PROVE  Sound(i, v)'
    BY DEF RowsInv
  <2>1. Sound(i, v)
    BY DEF LifeInv, RowsInv
  <2> QED BY <2>1, SoundKept
<1>2. ASSUME NEW i \in Items
      PROVE  /\ CurrentJob(i)' = CurrentJob(i)
             /\ Overtaken(i)' => Overtaken(i)
             /\ \A v \in Versions : Reconciling(i, v)' => Reconciling(i, v)
  BY InquiriesFewer DEF CurrentJob, Current
<1>3. LateInv'
  <2> SUFFICES ASSUME NEW i \in Items
               PROVE  Late(i)'
    BY DEF LateInv
  <2>1. Late(i)
    BY DEF LifeInv, LateInv
  <2>2. \A u \in Versions : Confirmed(i, u) => Confirmed(i, u)'
    BY <1>2 DEF Confirmed
  <2> QED BY <1>2, <2>1, <2>2, LateKept
<1>4. \A k \in LockedItems : k \in Items
  BY DEF LockedItems, LifeInv, TypeOK, Transactions
<1>5. TxnsInv' /\ ApartInv'
  <2>1. \A k \in LockedItems : /\ item'[k] = item[k] /\ decision'[k] = decision[k]
                               /\ Stale(k)' => Stale(k)
                               /\ Schedulable(CurrentJob(k)) => Schedulable(CurrentJob(k))'
                               /\ Overtaken(k)' => Overtaken(k)
                               /\ \A v \in Versions : Reconciling(k, v)' => Reconciling(k, v)
    BY <1>2, <1>4 DEF Stale
  <2>2. \A k \in Items : Waits(k)' => Waits(k)
    BY <1>2 DEF Waits
  <2> QED BY <2>1, <2>2, QuietStep
<1> QED BY <1>1, <1>3, <1>5 DEF LifeInv

\* The check before a submission writes nothing.
LEMMA CheckForReviewStep ==
  ASSUME LifeInv, NEW i \in Items, CheckForReview(i)
  PROVE  LifeInv'
<1>1. UNCHANGED <<mode, item, decision, job, task, moved, txns, inquiries>> /\ checked' \subseteq Items
  BY DEF CheckForReview, LifeInv, TypeOK
<1>2. TypeOK'
  BY <1>1 DEF LifeInv, TypeOK
<1> QED BY <1>1, <1>2, NothingWritten

\* A submission takes the version on show out of the queue.
LEMMA SubmitForReviewStep ==
  ASSUME LifeInv, NEW i \in Items, SubmitForReview(i)
  PROVE  LifeInv'
<1> DEFINE I == [item[i] EXCEPT !.status = "REVIEW_PENDING", !.slot = NoSlot]
<1>1. item[i] \in ItemRows /\ Sound(i, Current(i)) /\ CurrentJob(i) = job[i][Current(i)]
  BY CurrentVersion DEF LifeInv, RowsInv, CurrentJob
<1>2. I \in ItemRows /\ I.version = item[i].version /\ I.status = "REVIEW_PENDING"
  BY <1>1 DEF ItemRows, ItemStatus
<1>3. item' = [item EXCEPT ![i] = I] /\ UNCHANGED <<mode, decision, moved, txns, inquiries>>
      /\ TakeOutOfQueue(i) /\ Free(i) /\ checked' \in SUBSET checked
  BY DEF SubmitForReview
<1>4. ~(CurrentJob(i).adapter = "manual" /\ CurrentJob(i).status \in {"RUNNING", "UNKNOWN"})
  BY <1>1 DEF SubmitForReview, ManualUnresolved, Sound
<1>5. decision \in [Items -> [Versions -> {"NONE", "APPROVED", "REJECTED"}]]
  BY DEF LifeInv, TypeOK
<1> HIDE DEF I
<1> QED BY <1>2, <1>3, <1>4, <1>5, TakenOutInv

\* A decision takes the version it is about out of the queue.
LEMMA DecideStep ==
  ASSUME LifeInv, NEW i \in Items, NEW d \in {"APPROVED", "REJECTED"}, Decide(i, d)
  PROVE  LifeInv'
<1> DEFINE status == IF d = "APPROVED" THEN "APPROVED" ELSE "CHANGES_REQUESTED"
           I == [item[i] EXCEPT !.status = status, !.slot = NoSlot]
<1>1. item[i] \in ItemRows /\ Sound(i, Current(i)) /\ CurrentJob(i) = job[i][Current(i)]
      /\ Current(i) \in Versions
  BY CurrentVersion DEF LifeInv, RowsInv, CurrentJob
<1>2. status \in {"APPROVED", "CHANGES_REQUESTED"}
  OBVIOUS
<1>3. item' = [item EXCEPT ![i] = I] /\ UNCHANGED <<mode, moved, checked, txns, inquiries>>
      /\ TakeOutOfQueue(i) /\ Free(i)
  BY DEF Decide
<1> HIDE DEF status
<1>4. I \in ItemRows /\ I.version = item[i].version /\ I.status = status
  BY <1>1, <1>2 DEF ItemRows, ItemStatus
<1>5. ~(CurrentJob(i).adapter = "manual" /\ CurrentJob(i).status \in {"RUNNING", "UNKNOWN"})
  BY <1>1 DEF Decide, Sound
<1>6. decision' \in [Items -> [Versions -> {"NONE", "APPROVED", "REJECTED"}]]
      /\ \A k \in Items : k # i => decision'[k] = decision[k]
  BY <1>1 DEF Decide, LifeInv, TypeOK
<1> HIDE DEF I
<1> QED BY <1>2, <1>3, <1>4, <1>5, <1>6, TakenOutInv

\* What a step may make of version v of item i: of the item, of the job and of its task.
Fits(i, v, I, J, T) ==
  /\ I.version = item[i].version /\ (v = Current(i) \/ I = item[i]) /\ ~(v > Current(i))
  /\ RowSound(J, T)
  /\ J.status \in {"PENDING", "MANUAL_PENDING"} =>
       /\ v = Current(i) /\ I.status = "SCHEDULED" /\ Approved(i) /\ ~Stale(i)
       /\ I.slot = J.slot
  /\ J.adapter = "manual" /\ J.status \in {"RUNNING", "UNKNOWN"} =>
       v = Current(i) /\ I.status = J.status /\ Approved(i)
  /\ v = Current(i) /\ I.status \in Settled =>
       J.status = I.status \/ (J.status = "NONE" /\ I.status = "PUBLISHED")
  /\ v = Current(i) /\ I.status = "RUNNING" /\ J.adapter # "manual" => J.tried
  /\ v = Current(i) /\ J.status = "NONE" =>
       job[i][v].status = "NONE" /\ I.status = item[i].status
  /\ v = Current(i) /\ job[i][v].status = "NONE" => J.status = "NONE"
  /\ i \in LockedItems => I = item[i]
  /\ v = Current(i) /\ Schedulable(job[i][v]) => Schedulable(J)
  /\ v = Current(i) /\ I.status = "SCHEDULED" /\ ~J.tried =>
       /\ item[i].status = "SCHEDULED" /\ ~job[i][v].tried
       /\ I.account = item[i].account /\ I.slot = item[i].slot

\* What it may make of what is under way about the version, whose job it makes J.
Inquires(i, v, J) ==
  /\ inquiries' \in SUBSET (inquiries \cup {<<i, v, s>> : s \in Stages})
  /\ \A s \in {"asking", "answering"} :
       <<i, v, s>> \in inquiries' => J.adapter = "api" /\ J.told
  /\ Answering(i, v)' => Answering(i, v) \/ v = Current(i)
  /\ Reconciling(i, v)' =>
       /\ Reconciling(i, v) \/ i \notin LockedItems
       /\ J.adapter # "manual" /\ J.status \in {"UNKNOWN", "PUBLISHED"}
       /\ v = Current(i) => J.status = "UNKNOWN"
  /\ Confirmed(i, v) =>
       J.status = "PUBLISHED" /\ J.adapter = "api" /\ J.told /\ ~Reconciling(i, v)'

\* One version of an item, its task and, while it is on show, its item are written.
LEMMA WrittenInv ==
  ASSUME LifeInv, NEW i \in Items, NEW v \in Versions,
         NEW I \in ItemRows, NEW J \in JobRows, NEW T \in TaskRows, Fits(i, v, I, J, T),
         item' = [item EXCEPT ![i] = I], job' = [job EXCEPT ![i][v] = J],
         task' = [task EXCEPT ![i][v] = T], Inquires(i, v, J),
         UNCHANGED <<mode, decision, moved, checked, txns>>
  PROVE  LifeInv'
<1>1. TypeOK /\ Current(i) \in Versions
  BY CurrentVersion DEF LifeInv
<1>2. /\ item' \in [Items -> ItemRows] /\ item'[i] = I
      /\ \A k \in Items : k # i => item'[k] = item[k]
  BY <1>1, ItemWritten
<1>3. /\ job' \in [Items -> [Versions -> JobRows]] /\ job'[i][v] = J
      /\ \A k \in Items, w \in Versions : k # i \/ w # v => job'[k][w] = job[k][w]
  BY <1>1 DEF TypeOK
<1>4. /\ task' \in [Items -> [Versions -> TaskRows]] /\ task'[i][v] = T
      /\ \A k \in Items, w \in Versions : k # i \/ w # v => task'[k][w] = task[k][w]
  BY <1>1 DEF TypeOK
<1>5. TypeOK'
  <2>1. inquiries' \subseteq Items \X Versions \X Stages
    BY <1>1 DEF TypeOK, Inquires
  <2> QED BY <1>1, <1>2, <1>3, <1>4, <2>1 DEF TypeOK
<1>6. Current(i)' = Current(i) /\ Approved(i)' = Approved(i) /\ Stale(i)' = Stale(i)
  BY <1>2 DEF Current, Approved, Stale, Fits
<1>7. Sound(i, v)'
  <2>1. Reconciling(i, v)' =>
          /\ job'[i][v].adapter # "manual" /\ job'[i][v].status \in {"UNKNOWN", "PUBLISHED"}
          /\ v = Current(i)' => job'[i][v].status = "UNKNOWN"
    BY <1>3, <1>6 DEF Inquires
  <2>2. \A s \in {"asking", "answering"} :
          <<i, v, s>> \in inquiries' => job'[i][v].adapter = "api" /\ job'[i][v].told
    BY <1>3 DEF Inquires
  <2> QED BY <1>2, <1>3, <1>4, <1>6, <2>1, <2>2 DEF Sound, Fits
<1>8. \A k \in Items, w \in Versions : k # i \/ w # v =>
        /\ job'[k][w] = job[k][w] /\ task'[k][w] = task[k][w]
        /\ \A s \in Stages : <<k, w, s>> \in inquiries' => <<k, w, s>> \in inquiries
  BY <1>3, <1>4 DEF Inquires
<1>9. CurrentJob(i)' = IF v = Current(i) THEN J ELSE CurrentJob(i)
  BY <1>1, <1>3, <1>6 DEF CurrentJob
<1>10. v = Current(i) => CurrentJob(i) = job[i][v]
  BY DEF CurrentJob
<1>11. v # Current(i) => item'[i] = item[i]
  BY <1>2 DEF Fits
<1>12. Waits(i)' => /\ Waits(i) /\ item'[i].account = item[i].account
                    /\ item'[i].slot = item[i].slot
  <2>1. CASE v = Current(i)
    BY <1>2, <1>9, <1>10, <2>1 DEF Waits, Fits
  <2>2. CASE v # Current(i)
    BY <1>9, <1>11, <2>2 DEF Waits
  <2> QED BY <2>1, <2>2
<1>13. Schedulable(CurrentJob(i)) => Schedulable(CurrentJob(i))'
  BY <1>9, <1>10 DEF Fits
<1>14. \A k \in Items : k # i => item'[k] = item[k] /\ decision'[k] = decision[k]
  BY <1>2
<1>15. i \in LockedItems => item'[i] = item[i] /\ decision'[i] = decision[i]
  BY <1>2 DEF Fits
<1>16. item'[i].version = item[i].version
  BY <1>2 DEF Fits
<1>17. \A w \in Versions : Reconciling(i, w)' =>
         Reconciling(i, w) \/ (w = v /\ i \notin LockedItems)
  BY <1>8 DEF Inquires, Reconciling, Stages
<1>18. Overtaken(i)' => Overtaken(i)
  <2> SUFFICES ASSUME NEW w \in Versions, w # Current(i)', Answering(i, w)'
               PROVE  Answering(i, w)
    BY <1>6 DEF Overtaken
  <2>1. CASE w = v
    BY <1>6, <2>1 DEF Inquires
  <2>2. CASE w # v
    BY <1>8, <2>2 DEF Answering, Stages
  <2> QED BY <2>1, <2>2
<1>19. Late(i)'
  <2>1. Late(i)
    BY DEF LifeInv, LateInv
  <2>2. item'[i].status = "PUBLISHED" /\ CurrentJob(i)'.status = "NONE" =>
          item[i].status = "PUBLISHED" /\ CurrentJob(i).status = "NONE"
    BY <1>2, <1>9, <1>10, <1>11 DEF Fits
  <2>3. CurrentJob(i).status = "NONE" => CurrentJob(i)'.status = "NONE"
    BY <1>9, <1>10 DEF Fits
  <2>4. ASSUME NEW u \in Versions, Confirmed(i, u)
        PROVE  Confirmed(i, u)'
    <3>1. CASE u = v
      BY <1>3, <2>4, <3>1 DEF Inquires, Confirmed
    <3>2. CASE u # v
      BY <1>8, <1>17, <2>4, <3>2 DEF Confirmed
    <3> QED BY <3>1, <3>2
  <2> QED BY <1>16, <1>18, <2>1, <2>2, <2>3, <2>4, LateKept
<1>20. PICK c \in Versions : c = Current(i)
  BY <1>1
<1>21. Sound(i, c)'
  <2>1. CASE c = v
    BY <1>7, <2>1
  <2>2. CASE c # v
    <3>1. Sound(i, c)
      BY DEF LifeInv, RowsInv
    <3> QED BY <1>8, <1>11, <1>20, <2>2, <3>1, SoundKept
  <2> QED BY <2>1, <2>2
<1>22. i \in LockedItems => \A w \in Versions : Reconciling(i, w)' => Reconciling(i, w)
  BY <1>17
<1> QED BY <1>5, <1>7, <1>8, <1>12, <1>13, <1>14, <1>15, <1>16, <1>18, <1>19, <1>20, <1>21, <1>22, OneRow

\* What is known of a row before it is written.
LEMMA RowFacts ==
  ASSUME LifeInv, NEW i \in Items, NEW v \in Versions
  PROVE  /\ item[i] \in ItemRows /\ job[i][v] \in JobRows /\ task[i][v] \in TaskRows
         /\ Sound(i, v) /\ RowSound(job[i][v], task[i][v])
         /\ item = [item EXCEPT ![i] = item[i]]
         /\ job = [job EXCEPT ![i][v] = job[i][v]]
         /\ task = [task EXCEPT ![i][v] = task[i][v]]
         /\ v > Current(i) => job[i][v].status = "NONE" /\ task[i][v] = NoTask
         /\ v = Current(i) => CurrentJob(i) = job[i][v]
<1>1. item[i] \in ItemRows /\ job[i][v] \in JobRows /\ task[i][v] \in TaskRows
  BY DEF LifeInv, TypeOK
<1>2. Sound(i, v)
  BY DEF LifeInv, RowsInv
<1>3. /\ item = [item EXCEPT ![i] = item[i]]
      /\ job = [job EXCEPT ![i][v] = job[i][v]]
      /\ task = [task EXCEPT ![i][v] = task[i][v]]
  BY DEF LifeInv, TypeOK
<1>4. RowSound(job[i][v], task[i][v])
  BY <1>2 DEF Sound
<1>5. v > Current(i) => job[i][v].status = "NONE" /\ task[i][v] = NoTask
  BY <1>2, EmptyRows DEF Sound
<1>6. v = Current(i) => CurrentJob(i) = job[i][v]
  BY DEF CurrentJob
<1> QED BY <1>1, <1>2, <1>3, <1>4, <1>5, <1>6

\* Nothing is under way about a version whose outcome is not in question.
LEMMA Unasked ==
  ASSUME LifeInv, NEW i \in Items, NEW v \in Versions, NEW J, inquiries' = inquiries,
         job[i][v].status \notin Outcomes \/ job[i][v].adapter = "manual"
  PROVE  Inquires(i, v, J)
<1>1. Sound(i, v) /\ RowSound(job[i][v], task[i][v])
  BY RowFacts
<1>2. \A s \in {"asking", "answering"} : <<i, v, s>> \notin inquiries
  BY <1>1 DEF Sound, RowSound
<1>3. ~Reconciling(i, v) /\ ~Confirmed(i, v)
  BY <1>1 DEF Sound, Confirmed, Outcomes
<1> QED BY <1>2, <1>3 DEF Inquires, Reconciling, Answering

\* A row that is left as it is.
LEMMA FitsItself ==
  ASSUME LifeInv, NEW i \in Items, NEW v \in Versions, ~(v > Current(i))
  PROVE  Fits(i, v, item[i], job[i][v], task[i][v])
BY ZenonT(60), RowFacts DEF Fits, Sound

\* An operator's reconciliation keeps transactions away from the item.
LEMMA ReconcilingAlone ==
  ASSUME LifeInv, NEW i \in Items, NEW v \in Versions, Reconciling(i, v)
  PROVE  i \notin LockedItems
BY DEF LockedItems, LifeInv, TxnsInv, Holds

\* A claim makes a job run that no transaction has validated.
LEMMA ClaimStep ==
  ASSUME LifeInv, NEW i \in Items, NEW v \in Versions, Claim(i, v)
  PROVE  LifeInv'
<1> DEFINE J == [job[i][v] EXCEPT !.status = "RUNNING"]
<1>1. job[i][v].status \in {"PENDING", "RETRY"} /\ job' = [job EXCEPT ![i][v] = J]
      /\ UNCHANGED <<mode, item, decision, task, moved, checked, txns, inquiries>>
  BY DEF Claim
<1>2. J \in JobRows /\ J.status = "RUNNING" /\ J.adapter = job[i][v].adapter /\ J.told = job[i][v].told
  BY RowFacts DEF JobRows, JobStatus, ConflictStatus
<1>3. job[i][v].adapter # "manual" /\ ~job[i][v].told
  BY <1>1, RowFacts DEF RowSound, Outcomes
<1> HIDE DEF J
<1>4. RowSound(J, task[i][v])
  BY <1>2, <1>3 DEF RowSound
<1>5. v = Current(i) => item[i].status \notin Settled
  BY <1>1, RowFacts DEF Sound, Settled, Outcomes
<1>7. ~Schedulable(job[i][v])
  BY <1>1 DEF Schedulable
<1>8. ~(v > Current(i))
  BY <1>1, RowFacts
<1>9. v = Current(i) /\ item[i].status = "SCHEDULED" /\ ~J.tried => ~job[i][v].tried
  BY RowFacts DEF J, JobRows
<1>10. item[i].status # "RUNNING" \/ v # Current(i)
  BY <1>5 DEF Settled
<1>11. Inquires(i, v, J)
  BY <1>1, Unasked DEF Outcomes
<1>12. PICK I \in ItemRows, T \in TaskRows :
          /\ I = item[i] /\ item' = [item EXCEPT ![i] = I]
          /\ T = task[i][v] /\ task' = [task EXCEPT ![i][v] = T]
  BY <1>1, RowFacts
<1>13. J.adapter # "manual"
  BY <1>2, <1>3
<1>14. Fits(i, v, I, J, T)
  BY <1>2, <1>4, <1>5, <1>7, <1>8, <1>9, <1>10, <1>12, <1>13 DEF Fits, Schedulable
<1> QED BY <1>1, <1>2, <1>11, <1>12, <1>14, WrittenInv

\* A claim that ends before the call leaves the item as it was.
LEMMA GiveUpClaimStep ==
  ASSUME LifeInv, NEW i \in Items, NEW v \in Versions, GiveUpClaim(i, v)
  PROVE  LifeInv'
<1>1. PICK J \in JobRows :
        /\ job' = [job EXCEPT ![i][v] = J]
        /\ J.status \in {"CANCELLED", "WAITING_CONFIGURATION", "RETRY"}
        /\ J.adapter = job[i][v].adapter /\ J.told = job[i][v].told /\ J.tried = job[i][v].tried
  <2>0. job[i][v] \in JobRows
    BY RowFacts
  <2>1. CASE job' = [job EXCEPT ![i][v].status = "CANCELLED"]
    <3>1. [job[i][v] EXCEPT !.status = "CANCELLED"] \in JobRows
      BY <2>0 DEF JobRows, JobStatus
    <3> QED BY <2>0, <2>1, <3>1 DEF JobRows
  <2>2. CASE job' = [job EXCEPT ![i][v].status = "WAITING_CONFIGURATION"]
    <3>1. [job[i][v] EXCEPT !.status = "WAITING_CONFIGURATION"] \in JobRows
      BY <2>0 DEF JobRows, JobStatus, ConflictStatus, MutableStatus
    <3> QED BY <2>0, <2>2, <3>1 DEF JobRows
  <2>3. ASSUME NEW s \in Later(job[i][v].slot),
               job' = [job EXCEPT ![i][v] = [@ EXCEPT !.status = "RETRY", !.slot = s]]
        PROVE  \E J \in JobRows :
                 /\ job' = [job EXCEPT ![i][v] = J]
                 /\ J.status \in {"CANCELLED", "WAITING_CONFIGURATION", "RETRY"}
                 /\ J.adapter = job[i][v].adapter /\ J.told = job[i][v].told /\ J.tried = job[i][v].tried
    <3>1. [job[i][v] EXCEPT !.status = "RETRY", !.slot = s] \in JobRows
      BY <2>0 DEF JobRows, JobStatus, ConflictStatus, MutableStatus, Later
    <3> QED BY <2>0, <2>3, <3>1 DEF JobRows
  <2> QED BY <2>1, <2>2, <2>3 DEF GiveUpClaim
<1>2. /\ job[i][v].adapter # "manual" /\ job[i][v].status = "RUNNING"
      /\ ~(v = Current(i) /\ item[i].status = "RUNNING")
      /\ UNCHANGED <<mode, item, decision, task, moved, checked, txns, inquiries>>
  BY DEF GiveUpClaim, Held, Sending
<1>3. ~job[i][v].told
  BY <1>2, RowFacts DEF RowSound, Outcomes
<1>4. RowSound(J, task[i][v])
  BY <1>1, <1>2, <1>3 DEF RowSound
<1>5. v = Current(i) => item[i].status \notin Settled
  BY ZenonT(60), <1>2, RowFacts DEF Sound, Settled
<1>7. ~Schedulable(job[i][v])
  BY <1>2 DEF Schedulable
<1>8. ~(v > Current(i))
  BY <1>2, RowFacts
<1>9. Inquires(i, v, J)
  BY <1>2, Unasked DEF Outcomes
<1>10. PICK I \in ItemRows, T \in TaskRows :
          /\ I = item[i] /\ item' = [item EXCEPT ![i] = I]
          /\ T = task[i][v] /\ task' = [task EXCEPT ![i][v] = T]
  BY <1>2, RowFacts
<1>11. Fits(i, v, I, J, T)
  BY <1>1, <1>4, <1>5, <1>7, <1>8, <1>10 DEF Fits, Settled, Schedulable
<1> QED BY <1>1, <1>2, <1>9, <1>10, <1>11, WrittenInv

\* The gate lets the version on show through, and the item runs with its job.
LEMMA DispatchStep ==
  ASSUME LifeInv, NEW i \in Items, NEW v \in Versions, Dispatch(i, v)
  PROVE  LifeInv'
<1> DEFINE J == [job[i][v] EXCEPT !.tried = TRUE]
           I == [item[i] EXCEPT !.status = "RUNNING"]
<1>1. /\ job[i][v].adapter # "manual" /\ job[i][v].status = "RUNNING" /\ v = Current(i) /\ Free(i)
      /\ job' = [job EXCEPT ![i][v] = J] /\ item' = [item EXCEPT ![i] = I]
      /\ UNCHANGED <<mode, decision, task, moved, checked, txns, inquiries>>
  BY DEF Dispatch, Held, Gate
<1>2. /\ J \in JobRows /\ J.status = "RUNNING" /\ J.adapter = job[i][v].adapter
      /\ J.told = job[i][v].told /\ J.tried
  BY ZenonT(60), <1>1, RowFacts DEF JobRows
<1>3. I \in ItemRows /\ I.status = "RUNNING" /\ I.version = item[i].version
  BY RowFacts DEF ItemRows, ItemStatus
<1> HIDE DEF I, J
<1>4. ~job[i][v].told
  <2>1. RowSound(job[i][v], task[i][v])
    BY RowFacts
  <2>2. job[i][v].status = "RUNNING"
    BY <1>1
  <2> QED BY <2>1, <2>2 DEF RowSound, Outcomes
<1>5. RowSound(J, task[i][v])
  BY <1>1, <1>2, <1>4 DEF RowSound
<1>7. ~Schedulable(job[i][v])
  BY <1>1 DEF Schedulable
<1>8. ~(v > Current(i))
  BY <1>1, RowFacts
<1>9. Inquires(i, v, J)
  BY <1>1, Unasked DEF Outcomes
<1>10. PICK T \in TaskRows : T = task[i][v] /\ task' = [task EXCEPT ![i][v] = T]
  BY <1>1, RowFacts
<1>11. Fits(i, v, I, J, T)
  BY <1>1, <1>2, <1>3, <1>5, <1>7, <1>8, <1>10 DEF Fits, Free, Schedulable
<1> QED BY <1>1, <1>2, <1>3, <1>9, <1>10, <1>11, WrittenInv

\* A result settles the job and the item alike, or puts both back in the queue.
LEMMA RecordResultStep ==
  ASSUME LifeInv, NEW i \in Items, NEW v \in Versions, RecordResult(i, v)
  PROVE  LifeInv'
<1>1. /\ job[i][v].adapter # "manual" /\ job[i][v].status = "RUNNING" /\ v = Current(i)
      /\ item[i].status = "RUNNING" /\ i \notin LockedItems
      /\ UNCHANGED <<mode, decision, task, moved, checked, txns, inquiries>>
  BY DEF RecordResult, Held, Sending, Free
<1>2. item[i] \in ItemRows /\ job[i][v] \in JobRows /\ Sound(i, v) /\ RowSound(job[i][v], task[i][v])
  BY RowFacts
<1>3. ~job[i][v].told /\ job[i][v].tried
  BY SMTT(40), <1>1, <1>2 DEF RowSound, Sound, Outcomes
<1>4. PICK I \in ItemRows, J \in JobRows :
        /\ item' = [item EXCEPT ![i] = I] /\ job' = [job EXCEPT ![i][v] = J]
        /\ I.version = item[i].version
        /\ J.adapter = job[i][v].adapter /\ J.tried = job[i][v].tried
        /\ \/ J.status \in Outcomes /\ I.status = J.status
           \/ J.status = "RETRY" /\ I.status = "SCHEDULED" /\ ~J.told
  <2>1. ASSUME NEW outcome \in Outcomes, NEW told \in BOOLEAN,
               job' = [job EXCEPT ![i][v] = [@ EXCEPT !.status = outcome, !.told = told]],
               item' = [item EXCEPT ![i].status = outcome]
        PROVE  \E I \in ItemRows, J \in JobRows :
                 /\ item' = [item EXCEPT ![i] = I] /\ job' = [job EXCEPT ![i][v] = J]
                 /\ I.version = item[i].version
                 /\ J.adapter = job[i][v].adapter /\ J.tried = job[i][v].tried
                 /\ \/ J.status \in Outcomes /\ I.status = J.status
                    \/ J.status = "RETRY" /\ I.status = "SCHEDULED" /\ ~J.told
    <3> DEFINE J == [job[i][v] EXCEPT !.status = outcome, !.told = told]
               I == [item[i] EXCEPT !.status = outcome]
    <3>1. /\ J \in JobRows /\ J.adapter = job[i][v].adapter /\ J.tried = job[i][v].tried
          /\ J.status = outcome
      BY <1>2 DEF JobRows, JobStatus, Outcomes
    <3>2. I \in ItemRows /\ I.version = item[i].version /\ I.status = outcome
      BY <1>2 DEF ItemRows, ItemStatus, Outcomes
    <3>3. item' = [item EXCEPT ![i] = I] /\ job' = [job EXCEPT ![i][v] = J]
      BY <2>1
    <3> HIDE DEF I, J
    <3> QED BY <3>1, <3>2, <3>3
  <2>2. ASSUME NEW s \in Later(job[i][v].slot),
               job' = [job EXCEPT ![i][v] = [@ EXCEPT !.status = "RETRY", !.slot = s]],
               item' = [item EXCEPT ![i].status = "SCHEDULED"]
        PROVE  \E I \in ItemRows, J \in JobRows :
                 /\ item' = [item EXCEPT ![i] = I] /\ job' = [job EXCEPT ![i][v] = J]
                 /\ I.version = item[i].version
                 /\ J.adapter = job[i][v].adapter /\ J.tried = job[i][v].tried
                 /\ \/ J.status \in Outcomes /\ I.status = J.status
                    \/ J.status = "RETRY" /\ I.status = "SCHEDULED" /\ ~J.told
    <3> DEFINE J == [job[i][v] EXCEPT !.status = "RETRY", !.slot = s]
               I == [item[i] EXCEPT !.status = "SCHEDULED"]
    <3>1. /\ J \in JobRows /\ J.adapter = job[i][v].adapter /\ J.tried = job[i][v].tried
          /\ J.status = "RETRY" /\ J.told = job[i][v].told
      BY <1>2 DEF JobRows, JobStatus, ConflictStatus, MutableStatus, Later
    <3>2. I \in ItemRows /\ I.version = item[i].version /\ I.status = "SCHEDULED"
      BY <1>2 DEF ItemRows, ItemStatus
    <3>3. item' = [item EXCEPT ![i] = I] /\ job' = [job EXCEPT ![i][v] = J]
      BY <2>2
    <3> HIDE DEF I, J
    <3> QED BY <1>3, <3>1, <3>2, <3>3
  <2> QED BY <2>1, <2>2 DEF RecordResult
<1>5. RowSound(J, task[i][v])
  BY <1>1, <1>4 DEF RowSound, Outcomes
<1>6. Inquires(i, v, J)
  BY <1>1, Unasked DEF Outcomes
<1>7. PICK T \in TaskRows : T = task[i][v] /\ task' = [task EXCEPT ![i][v] = T]
  BY <1>1, RowFacts
<1>8. ~(v > Current(i)) /\ ~Schedulable(job[i][v])
  BY <1>1, RowFacts DEF Schedulable
<1>9. Fits(i, v, I, J, T)
  BY <1>1, <1>3, <1>4, <1>5, <1>7, <1>8 DEF Fits, Outcomes, Settled, Schedulable
<1> QED BY <1>1, <1>4, <1>6, <1>7, <1>9, WrittenInv

\* A row of an item that is written over an outcome in doubt, or one that is known by now.
LEMMA Overwritten ==
  ASSUME LifeInv, NEW i \in Items, NEW v \in Versions, NEW J \in JobRows, NEW T \in TaskRows,
         job[i][v].adapter # "manual", job[i][v].status \in Outcomes, J.status \in Outcomes,
         J.adapter = job[i][v].adapter, job[i][v].told => J.told,
         job' = [job EXCEPT ![i][v] = J], task' = [task EXCEPT ![i][v] = T],
         item' = IF StillCurrent(i, v) THEN [item EXCEPT ![i].status = J.status] ELSE item,
         StillCurrent(i, v) => i \notin LockedItems, inquiries' \in SUBSET inquiries,
         Confirmed(i, v) => J.status = "PUBLISHED",
         Reconciling(i, v)' => J.status = "PUBLISHED" /\ v # Current(i),
         UNCHANGED <<mode, decision, moved, checked, txns>>
  PROVE  LifeInv'
<1>1. item[i] \in ItemRows /\ Sound(i, v) /\ RowSound(job[i][v], task[i][v])
      /\ item = [item EXCEPT ![i] = item[i]]
  BY RowFacts
<1>2. PICK I \in ItemRows :
        /\ item' = [item EXCEPT ![i] = I] /\ I.version = item[i].version
        /\ v = Current(i) => I.status = J.status /\ i \notin LockedItems
        /\ v # Current(i) => I = item[i]
  <2>1. CASE v = Current(i)
    <3>1. /\ [item[i] EXCEPT !.status = J.status] \in ItemRows
          /\ [item[i] EXCEPT !.status = J.status].version = item[i].version
          /\ [item[i] EXCEPT !.status = J.status].status = J.status
      BY <1>1 DEF ItemRows, ItemStatus, Outcomes
    <3>2. item' = [item EXCEPT ![i] = [item[i] EXCEPT !.status = J.status]] /\ i \notin LockedItems
      BY <2>1 DEF StillCurrent
    <3> QED BY <2>1, <3>1, <3>2
  <2>2. CASE v # Current(i)
    BY <1>1, <2>2 DEF StillCurrent
  <2> QED BY <2>1, <2>2
<1>3. RowSound(J, T)
  BY DEF RowSound, Outcomes
<1>4. Inquires(i, v, J)
  <2>2. \A s \in {"asking", "answering"} :
          <<i, v, s>> \in inquiries' => J.adapter = "api" /\ J.told
    BY <1>1 DEF Sound
  <2>3. (Answering(i, v)' => Answering(i, v)) /\ (Reconciling(i, v)' => Reconciling(i, v))
    BY DEF Answering, Reconciling
  <2>4. Confirmed(i, v) => J.status = "PUBLISHED" /\ J.adapter = "api" /\ J.told /\ ~Reconciling(i, v)'
    BY <2>3 DEF Confirmed
  <2> QED BY <2>2, <2>3, <2>4 DEF Inquires
<1>5. ~(v > Current(i)) /\ ~Schedulable(job[i][v])
  BY RowFacts DEF Schedulable, Outcomes
<1>6. Fits(i, v, I, J, T)
  BY <1>2, <1>3, <1>5 DEF Fits, Outcomes, Settled, Schedulable
<1> QED BY <1>2, <1>4, <1>6, WrittenInv

\* An operator's reconciliation begins with a job whose outcome is in doubt.
LEMMA BeginReconciliationStep ==
  ASSUME LifeInv, NEW i \in Items, NEW v \in Versions, BeginReconciliation(i, v)
  PROVE  LifeInv'
<1>1. /\ Free(i) /\ job[i][v].adapter # "manual" /\ job[i][v].status = "UNKNOWN"
      /\ inquiries' = inquiries \cup {<<i, v, "reconciling">>}
      /\ UNCHANGED <<mode, item, decision, job, task, moved, checked, txns>>
  BY DEF BeginReconciliation
<1>2. Sound(i, v) /\ ~(v > Current(i))
  BY <1>1, RowFacts
<1>3. Inquires(i, v, job[i][v])
  <2>1. inquiries' \in SUBSET (inquiries \cup {<<i, v, s>> : s \in Stages})
    BY <1>1 DEF Stages
  <2>2. \A s \in {"asking", "answering"} : <<i, v, s>> \in inquiries' => <<i, v, s>> \in inquiries
    BY <1>1
  <2>3. Answering(i, v)' => Answering(i, v)
    BY <2>2 DEF Answering
  <2> QED BY <1>1, <1>2, <2>1, <2>2, <2>3 DEF Inquires, Sound, Free, Confirmed
<1> QED BY <1>1, <1>2, <1>3, RowFacts, FitsItself, WrittenInv

\* An operator settles a job, and its item if it still shows the version.
LEMMA ReconcileStep ==
  ASSUME LifeInv, NEW i \in Items, NEW v \in Versions, ReconcileUnknownPublish(i, v)
  PROVE  LifeInv'
<1>1. /\ Reconciling(i, v) /\ inquiries' = inquiries \ {<<i, v, "reconciling">>}
      /\ UNCHANGED <<mode, decision, moved, checked, txns>>
  BY DEF ReconcileUnknownPublish
<1>2. inquiries' \in SUBSET inquiries /\ ~Reconciling(i, v)'
  BY <1>1 DEF Reconciling
<1>3. CASE UNCHANGED <<item, job, task>>
  <2>1. TypeOK'
    BY <1>1, <1>3 DEF LifeInv, TypeOK
  <2> QED BY <1>1, <1>2, <1>3, <2>1, NothingWritten
<1>4. ASSUME NEW outcome \in {"PUBLISHED", "FAILED"},
             job' = [job EXCEPT ![i][v] =
               [@ EXCEPT !.status = outcome, !.told = job[i][v].told \/ outcome = "PUBLISHED"]],
             item' = IF StillCurrent(i, v) THEN [item EXCEPT ![i].status = outcome] ELSE item,
             task' = [task EXCEPT ![i][v].status = IF @ \in OpenTask THEN "COMPLETED" ELSE @]
      PROVE  LifeInv'
  <2> DEFINE told == job[i][v].told \/ outcome = "PUBLISHED"
             J == [job[i][v] EXCEPT !.status = outcome, !.told = told]
             T == [task[i][v] EXCEPT !.status = IF task[i][v].status \in OpenTask THEN "COMPLETED"
                                                ELSE task[i][v].status]
  <2>1. job[i][v] \in JobRows /\ task[i][v] \in TaskRows /\ Sound(i, v)
    BY RowFacts
  <2>2. told \in BOOLEAN /\ (job[i][v].told => told)
    OBVIOUS
  <2>3. job' = [job EXCEPT ![i][v] = J]
    BY <1>4
  <2>4. task' = [task EXCEPT ![i][v] = T]
    BY <1>4
  <2> HIDE DEF told
  <2>5. J \in JobRows /\ J.status = outcome /\ J.adapter = job[i][v].adapter /\ J.told = told
    BY <2>1, <2>2 DEF JobRows, JobStatus
  <2>6. T \in TaskRows
    BY <2>1 DEF TaskRows, TaskStatus
  <2> HIDE DEF J, T
  <2>7. /\ job[i][v].adapter # "manual" /\ job[i][v].status \in Outcomes
        /\ i \notin LockedItems /\ ~Confirmed(i, v)
    BY <1>1, <2>1, ReconcilingAlone DEF Sound, Outcomes, Confirmed
  <2>8. J.status \in Outcomes /\ (job[i][v].told => J.told)
    BY <2>2, <2>5 DEF Outcomes
  <2>9. item' = IF StillCurrent(i, v) THEN [item EXCEPT ![i].status = J.status] ELSE item
    BY <1>4, <2>5
  <2> QED BY <1>1, <1>2, <2>3, <2>4, <2>5, <2>6, <2>7, <2>8, <2>9, Overwritten
<1> QED BY <1>3, <1>4 DEF ReconcileUnknownPublish

\* A question is about a job that the platform was told of.
LEMMA AskPlatformStep ==
  ASSUME LifeInv, NEW i \in Items, NEW v \in Versions, AskPlatform(i, v)
  PROVE  LifeInv'
<1>1. /\ job[i][v].adapter = "api" /\ job[i][v].told
      /\ inquiries' = inquiries \cup {<<i, v, "asking">>}
      /\ UNCHANGED <<mode, item, decision, job, task, moved, checked, txns>>
  BY DEF AskPlatform
<1>2. /\ Sound(i, v) /\ RowSound(job[i][v], task[i][v])
      /\ v > Current(i) => job[i][v].status = "NONE"
  BY RowFacts
<1>3. ~(v > Current(i))
  BY <1>1, <1>2 DEF RowSound, Outcomes
<1>4. Inquires(i, v, job[i][v])
  <2>1. inquiries' \in SUBSET (inquiries \cup {<<i, v, s>> : s \in Stages})
    BY <1>1 DEF Stages
  <2>2. (Answering(i, v)' => Answering(i, v)) /\ (Reconciling(i, v)' => Reconciling(i, v))
    BY <1>1 DEF Answering, Reconciling
  <2> QED BY <1>1, <1>2, <2>1, <2>2 DEF Inquires, Sound, Confirmed
<1> QED BY <1>1, <1>3, <1>4, RowFacts, FitsItself, WrittenInv

\* What is known of a version about which the platform was asked.
LEMMA AskedAbout ==
  ASSUME LifeInv, NEW i \in Items, NEW v \in Versions, NEW s \in {"asking", "answering"},
         <<i, v, s>> \in inquiries
  PROVE  /\ job[i][v].adapter = "api" /\ job[i][v].told /\ job[i][v].status \in Outcomes
         /\ ~(v > Current(i))
<1>1. /\ Sound(i, v) /\ RowSound(job[i][v], task[i][v])
      /\ v > Current(i) => job[i][v].status = "NONE"
  BY RowFacts
<1> QED BY <1>1 DEF Sound, RowSound, Outcomes

\* An answer finds the item as it was, or settles a job whose version is no longer on show.
LEMMA ReceiveAnswerStep ==
  ASSUME LifeInv, NEW i \in Items, NEW v \in Versions, ReceiveAnswer(i, v)
  PROVE  LifeInv'
<1> DEFINE others == inquiries \ {<<i, v, "asking">>}
<1>1. /\ <<i, v, "asking">> \in inquiries
      /\ UNCHANGED <<mode, item, decision, task, moved, checked, txns>>
  BY DEF ReceiveAnswer
<1>2. /\ job[i][v].adapter = "api" /\ job[i][v].told /\ job[i][v].status \in Outcomes
      /\ ~(v > Current(i))
  BY <1>1, AskedAbout
<1>3. job[i][v] \in JobRows /\ Sound(i, v)
  BY RowFacts
<1>4. others \in SUBSET inquiries
  OBVIOUS
<1>5. CASE StillCurrent(i, v) /\ inquiries' = others \cup {<<i, v, "answering">>} /\ job' = job
  <2>1. inquiries' \in SUBSET (inquiries \cup {<<i, v, s>> : s \in Stages})
    BY <1>5 DEF Stages
  <2>2. v = Current(i) /\ (Reconciling(i, v)' => Reconciling(i, v))
    BY <1>5 DEF StillCurrent, Reconciling
  <2>3. Inquires(i, v, job[i][v])
    BY <1>2, <1>3, <2>1, <2>2 DEF Inquires, Sound, Confirmed
  <2> QED BY <1>1, <1>2, <1>5, <2>3, RowFacts, FitsItself, WrittenInv
<1>6. CASE ~StillCurrent(i, v) /\ inquiries' = others /\ job' = [job EXCEPT ![i][v].status = "PUBLISHED"]
  <2> DEFINE J == [job[i][v] EXCEPT !.status = "PUBLISHED"]
  <2>1. /\ J \in JobRows /\ J.status = "PUBLISHED" /\ J.adapter = job[i][v].adapter
        /\ J.told = job[i][v].told
    BY <1>3 DEF JobRows, JobStatus
  <2>2. job' = [job EXCEPT ![i][v] = J]
    BY <1>6
  <2> HIDE DEF J
  <2>3. PICK T \in TaskRows : task' = [task EXCEPT ![i][v] = T]
    BY <1>1, RowFacts
  <2>4. /\ item' = IF StillCurrent(i, v) THEN [item EXCEPT ![i].status = J.status] ELSE item
        /\ StillCurrent(i, v) => i \notin LockedItems
        /\ v # Current(i) /\ inquiries' \in SUBSET inquiries /\ J.status \in Outcomes
    BY <1>1, <1>4, <1>6, <2>1 DEF StillCurrent, Outcomes
  <2> QED BY <1>1, <1>2, <2>1, <2>2, <2>3, <2>4, Overwritten
<1>7. CASE inquiries' = others /\ job' = job
  <2>1. TypeOK'
    BY <1>1, <1>7 DEF LifeInv, TypeOK
  <2> QED BY <1>1, <1>4, <1>7, <2>1, NothingWritten
<1> QED BY <1>5, <1>6, <1>7 DEF ReceiveAnswer

\* An answer that read the item is written over it, whatever version it shows by now.
LEMMA WriteAnswerStep ==
  ASSUME LifeInv, NEW i \in Items, NEW v \in Versions, WriteAnswer(i, v)
  PROVE  LifeInv'
<1>1. /\ Answering(i, v) /\ inquiries' = inquiries \ {<<i, v, "answering">>}
      /\ UNCHANGED <<mode, decision, task, moved, checked, txns>>
  BY DEF WriteAnswer
<1>2. inquiries' \in SUBSET inquiries
  BY <1>1
<1>3. CASE UNCHANGED <<item, job>>
  <2>1. TypeOK'
    BY <1>1, <1>3 DEF LifeInv, TypeOK
  <2> QED BY <1>1, <1>2, <1>3, <2>1, NothingWritten
<1>4. CASE /\ Free(i) /\ job' = [job EXCEPT ![i][v].status = "PUBLISHED"]
           /\ item' = [item EXCEPT ![i].status = "PUBLISHED"]
  <2> DEFINE J == [job[i][v] EXCEPT !.status = "PUBLISHED"]
             I == [item[i] EXCEPT !.status = "PUBLISHED"]
  <2>1. /\ job[i][v] \in JobRows /\ item[i] \in ItemRows /\ Sound(i, v)
        /\ RowSound(job[i][v], task[i][v])
    BY RowFacts
  <2>2. /\ job[i][v].adapter = "api" /\ job[i][v].told /\ job[i][v].status \in Outcomes
        /\ ~(v > Current(i))
    BY <1>1, AskedAbout DEF Answering
  <2>3. /\ J \in JobRows /\ J.status = "PUBLISHED" /\ J.adapter = "api" /\ J.told
    BY <2>1, <2>2 DEF JobRows, JobStatus
  <2>4. /\ I \in ItemRows /\ I.status = "PUBLISHED" /\ I.version = item[i].version
    BY <2>1 DEF ItemRows, ItemStatus
  <2>5. job' = [job EXCEPT ![i][v] = J] /\ item' = [item EXCEPT ![i] = I]
    BY <1>4
  <2>6. /\ i \notin LockedItems /\ \A w \in Versions : ~Reconciling(i, w)'
    BY <1>2, <1>4 DEF Free, Reconciling
  <2>7. CASE v = Current(i)
    <3>1. PICK T \in TaskRows : task' = [task EXCEPT ![i][v] = T]
      BY <1>1, RowFacts
    <3>2. item' = IF StillCurrent(i, v) THEN [item EXCEPT ![i].status = J.status] ELSE item
      BY <1>4, <2>3, <2>7 DEF StillCurrent
    <3>3. J.status \in Outcomes
      BY <2>3 DEF Outcomes
    <3> HIDE DEF I, J
    <3> QED BY <1>1, <1>2, <2>2, <2>3, <2>5, <2>6, <3>1, <3>2, <3>3, Overwritten
  <2>8. CASE v # Current(i)
    <3> HIDE DEF I, J
    <3>1. TypeOK
      BY DEF LifeInv
    <3>2. /\ item' \in [Items -> ItemRows] /\ item'[i] = I
          /\ \A k \in Items : k # i => item'[k] = item[k]
      BY <2>4, <2>5, <3>1, ItemWritten
    <3>3. /\ job' \in [Items -> [Versions -> JobRows]] /\ job'[i][v] = J
          /\ \A k \in Items, w \in Versions : k # i \/ w # v => job'[k][w] = job[k][w]
      <4>1. J \in JobRows /\ job' = [job EXCEPT ![i][v] = J]
        BY <2>3, <2>5
      <4> QED BY ZenonT(60), <3>1, <4>1, JobWritten
    <3>4. TypeOK'
      BY <1>1, <1>2, <3>1, <3>2, <3>3 DEF TypeOK
    <3>5. PICK c \in Versions : c = Current(i)
      BY <3>1, CurrentVersion
    <3>6. Current(i)' = c /\ job'[i][c] = job[i][c] /\ CurrentJob(i) = job[i][c] /\ CurrentJob(i)' = job[i][c]
      BY <2>4, <2>8, <3>2, <3>3, <3>5 DEF Current, CurrentJob
    <3>7. job[i][c].status = "NONE"
      BY <1>1, <2>8, <3>6 DEF LifeInv, LateInv, Late, Overtaken
    <3>8. Sound(i, v)'
      <4>1. RowSound(J, task[i][v])
        BY <2>3 DEF RowSound, Outcomes
      <4> QED BY <1>1, <2>2, <2>3, <2>6, <2>8, <3>3, <3>5, <3>6, <4>1 DEF Sound
    <3>9. Sound(i, c)'
      <4>1. Sound(i, c) /\ RowSound(job[i][c], task[i][c])
        BY RowFacts
      <4>2. ~(c > c)
        BY LifecycleAssumption DEF Versions
      <4>3. \A s \in {"asking", "answering"} : <<i, c, s>> \notin inquiries'
        BY <1>2, <3>7, AskedAbout DEF Outcomes
      <4> QED BY <1>1, <2>4, <2>6, <3>2, <3>6, <3>7, <4>1, <4>2, <4>3 DEF Sound
    <3>10. Late(i)'
      <4>1. Confirmed(i, v)'
        BY <2>3, <2>6, <3>3 DEF Confirmed
      <4> QED BY <2>8, <3>5, <3>6, <3>7, <4>1 DEF Late
    <3>11. ~Waits(i)'
      BY <2>4, <3>2 DEF Waits
    <3>12. \A k \in Items, w \in Versions : k # i \/ w # v =>
             /\ job'[k][w] = job[k][w] /\ task'[k][w] = task[k][w]
             /\ \A s \in Stages : <<k, w, s>> \in inquiries' => <<k, w, s>> \in inquiries
      BY <1>1, <1>2, <3>3
    <3>13. \A k \in Items : k # i => item'[k] = item[k] /\ decision'[k] = decision[k]
      BY <1>1, <3>2
    <3>14. item'[i].version = item[i].version
      BY <2>4, <3>2
    <3> QED BY <1>1, <2>6, <3>4, <3>5, <3>8, <3>9, <3>10, <3>11, <3>12, <3>13, <3>14, OneRow
  <2> QED BY <2>7, <2>8
<1> QED BY <1>3, <1>4 DEF WriteAnswer

\* The list of tasks leaves the task of a manual job alone.
LEMMA UpdateTaskStep ==
  ASSUME LifeInv, NEW i \in Items, NEW v \in Versions, UpdateTask(i, v)
  PROVE  LifeInv'
<1>1. PICK s \in {"TODO", "COMPLETED"} : task' = [task EXCEPT ![i][v].status = s]
  BY DEF UpdateTask
<1> DEFINE T == [task[i][v] EXCEPT !.status = s]
<1>2. /\ task[i][v].status # "NONE" /\ job[i][v].adapter # "manual"
      /\ UNCHANGED <<mode, item, decision, job, moved, checked, txns, inquiries>>
  BY DEF UpdateTask, TaskIsFree
<1>3. task[i][v] \in TaskRows /\ Sound(i, v) /\ RowSound(job[i][v], task[i][v])
  BY RowFacts
<1>4. task' = [task EXCEPT ![i][v] = T]
  BY <1>1
<1>5. T \in TaskRows
  BY <1>3 DEF TaskRows, TaskStatus, OpenTask
<1> HIDE DEF T
<1>6. RowSound(job[i][v], T)
  BY <1>2, <1>3, EmptyRows DEF RowSound
<1>7. PICK I \in ItemRows, J \in JobRows :
        /\ I = item[i] /\ item' = [item EXCEPT ![i] = I]
        /\ J = job[i][v] /\ job' = [job EXCEPT ![i][v] = J]
  BY <1>2, RowFacts
<1>8. ~(v > Current(i))
  BY <1>2, <1>3, EmptyRows DEF Sound
<1>9. Fits(i, v, I, J, T)
  BY <1>3, <1>6, <1>7, <1>8 DEF Fits, Sound
<1>10. Inquires(i, v, J)
  BY <1>2, <1>3, <1>7, ReconcilingAlone DEF Inquires, Sound, Confirmed, Answering, Reconciling
<1> QED BY <1>2, <1>4, <1>5, <1>7, <1>9, <1>10, WrittenInv

\* A person begins: job, item and task go on together.
LEMMA StartManualStep ==
  ASSUME LifeInv, NEW i \in Items, StartManualPublish(i)
  PROVE  LifeInv'
<1>1. PICK v \in Versions : v = Current(i)
  BY CurrentVersion DEF LifeInv
<1> DEFINE I == [item[i] EXCEPT !.status = "RUNNING"]
           J == [job[i][v] EXCEPT !.status = "RUNNING"]
           T == [task[i][v] EXCEPT !.status = "IN_PROGRESS"]
<1>2. /\ job[i][v].adapter = "manual" /\ job[i][v].status = "MANUAL_PENDING" /\ Approved(i) /\ Free(i)
      /\ UNCHANGED <<mode, decision, moved, checked, txns, inquiries>>
  BY <1>1 DEF StartManualPublish
<1>3. /\ item' = [item EXCEPT ![i] = I] /\ job' = [job EXCEPT ![i][v] = J]
      /\ task' = [task EXCEPT ![i][v] = T]
  BY <1>1 DEF StartManualPublish
<1>4. /\ item[i] \in ItemRows /\ job[i][v] \in JobRows /\ task[i][v] \in TaskRows
      /\ Sound(i, v) /\ RowSound(job[i][v], task[i][v])
  BY RowFacts
<1>5. I \in ItemRows /\ I.status = "RUNNING" /\ I.version = item[i].version
  BY <1>4 DEF ItemRows, ItemStatus
<1>6. /\ J \in JobRows /\ J.status = "RUNNING" /\ J.adapter = "manual" /\ J.told = job[i][v].told
  BY <1>2, <1>4 DEF JobRows, JobStatus, ConflictStatus
<1>7. T \in TaskRows /\ T.status = "IN_PROGRESS"
  BY <1>4 DEF TaskRows, TaskStatus, OpenTask
<1> HIDE DEF I, J, T
<1>8. ~job[i][v].told
  BY <1>2, <1>4 DEF RowSound, Outcomes
<1>9. RowSound(J, T)
  BY <1>6, <1>7, <1>8 DEF RowSound
<1>10. ~(v > Current(i)) /\ ~Schedulable(job[i][v])
  BY <1>2, RowFacts DEF Schedulable
<1>11. Fits(i, v, I, J, T)
  BY <1>1, <1>2, <1>5, <1>6, <1>9, <1>10 DEF Fits, Free, Schedulable
<1>12. Inquires(i, v, J)
  BY <1>2, Unasked
<1> QED BY <1>2, <1>3, <1>5, <1>6, <1>7, <1>11, <1>12, WrittenInv

\* A person reports: job, item and task end together.
LEMMA RecordManualStep ==
  ASSUME LifeInv, NEW i \in Items, RecordManualPublishResult(i)
  PROVE  LifeInv'
<1>1. PICK v \in Versions : v = Current(i)
  BY CurrentVersion DEF LifeInv
<1>2. PICK outcome \in Outcomes :
        /\ Free(i) /\ job[i][v].adapter = "manual" /\ MayRecord(job[i][v].status, outcome)
        /\ Approved(i)
        /\ job' = [job EXCEPT ![i][v].status = outcome]
        /\ item' = [item EXCEPT ![i].status = outcome]
        /\ task' = [task EXCEPT ![i][v].status =
             IF outcome = "UNKNOWN" THEN "WAITING_EXTERNAL" ELSE "COMPLETED"]
        /\ UNCHANGED <<mode, decision, moved, checked, txns, inquiries>>
  BY <1>1 DEF RecordManualPublishResult
<1> DEFINE I == [item[i] EXCEPT !.status = outcome]
           J == [job[i][v] EXCEPT !.status = outcome]
           ended == IF outcome = "UNKNOWN" THEN "WAITING_EXTERNAL" ELSE "COMPLETED"
           T == [task[i][v] EXCEPT !.status = ended]
<1>3. /\ item' = [item EXCEPT ![i] = I] /\ job' = [job EXCEPT ![i][v] = J]
      /\ task' = [task EXCEPT ![i][v] = T]
  BY <1>2
<1>4. /\ item[i] \in ItemRows /\ job[i][v] \in JobRows /\ task[i][v] \in TaskRows
      /\ Sound(i, v) /\ RowSound(job[i][v], task[i][v])
  BY RowFacts
<1>5. job[i][v].status \in {"RUNNING", "UNKNOWN"}
  BY <1>2 DEF MayRecord
<1>6. I \in ItemRows /\ I.status = outcome /\ I.version = item[i].version
  BY <1>4 DEF ItemRows, ItemStatus, Outcomes
<1>7. /\ J \in JobRows /\ J.status = outcome /\ J.adapter = "manual" /\ J.told = job[i][v].told
  BY <1>2, <1>4 DEF JobRows, JobStatus, Outcomes
<1>8. ended \in TaskStatus /\ (outcome = "UNKNOWN" => ended = "WAITING_EXTERNAL")
      /\ (outcome # "UNKNOWN" => ended \notin OpenTask)
  BY DEF TaskStatus, OpenTask
<1> HIDE DEF ended
<1>9. T \in TaskRows /\ T.status = ended
  BY <1>4, <1>8 DEF TaskRows
<1> HIDE DEF I, J, T
<1>10. RowSound(J, T)
  BY <1>7, <1>8, <1>9 DEF RowSound, Outcomes
<1>11. ~(v > Current(i)) /\ ~Schedulable(job[i][v])
  BY <1>5, RowFacts DEF Schedulable
<1>12. Fits(i, v, I, J, T)
  BY <1>1, <1>2, <1>6, <1>7, <1>10, <1>11 DEF Fits, Free, Outcomes, Schedulable
<1>13. Inquires(i, v, J)
  BY <1>2, Unasked
<1> QED BY <1>2, <1>3, <1>6, <1>7, <1>9, <1>12, <1>13, WrittenInv

\* Items no transaction is about are written, and wait for nothing afterwards.
LEMMA OutOfTheWay ==
  ASSUME LifeInv, NEW S \in SUBSET Items, txns' = txns, inquiries' = inquiries,
         \A k \in Items \ S : /\ item'[k] = item[k] /\ decision'[k] = decision[k]
                              /\ Stale(k)' => Stale(k)
                              /\ \A w \in Versions : job'[k][w] = job[k][w],
         \A k \in S : k \notin LockedItems /\ ~Waits(k)'
  PROVE  TxnsInv' /\ ApartInv'
<1>1. ASSUME NEW k \in Items \ S
      PROVE  CurrentJob(k)' = CurrentJob(k)
  <2>1. item[k].version \in Versions /\ item'[k].version = item[k].version
    BY CurrentVersion DEF LifeInv, Current
  <2> QED BY <2>1 DEF CurrentJob, Current
<1>2. \A k \in LockedItems : k \in Items \ S
  BY DEF LockedItems, LifeInv, TypeOK, Transactions
<1>3. \A k \in LockedItems : /\ item'[k] = item[k] /\ decision'[k] = decision[k]
                             /\ Stale(k)' => Stale(k)
                             /\ Schedulable(CurrentJob(k)) => Schedulable(CurrentJob(k))'
                             /\ Overtaken(k)' => Overtaken(k)
                             /\ \A v \in Versions : Reconciling(k, v)' => Reconciling(k, v)
  BY <1>1, <1>2 DEF Overtaken, Answering, Reconciling, Current
<1>4. \A k \in Items : Waits(k)' => /\ Waits(k) /\ item'[k].account = item[k].account
                                    /\ item'[k].slot = item[k].slot
  BY <1>1 DEF Waits
<1> QED BY <1>3, <1>4, QuietStep

\* An edit takes the old version out of the queue and shows one without a job.
LEMMA EditStep ==
  ASSUME LifeInv, NEW i \in Items, EditContentVersion(i)
  PROVE  LifeInv'
<1>1. PICK v \in Versions : v = Current(i)
  BY CurrentVersion DEF LifeInv
<1>2. PICK a \in Accounts :
        item' = [item EXCEPT ![i] = [status |-> "DRAFT", version |-> v + 1,
                                     account |-> a, slot |-> NoSlot]]
  BY <1>1 DEF EditContentVersion
<1> DEFINE I == [status |-> "DRAFT", version |-> v + 1, account |-> a, slot |-> NoSlot]
<1>3. /\ Free(i) /\ TakeOutOfQueue(i) /\ item[i].status # "RUNNING" /\ ~ManualUnresolved(i)
      /\ v < MaxVersion /\ checked' \in SUBSET checked
      /\ UNCHANGED <<mode, decision, moved, txns, inquiries>>
  BY <1>1 DEF EditContentVersion
<1>4. v \in Nat /\ v + 1 \in Versions
  BY <1>3, LifecycleAssumption DEF Versions
<1>5. I \in ItemRows /\ I.status = "DRAFT" /\ I.version = v + 1
  BY <1>4 DEF ItemRows, ItemStatus
<1>6. TypeOK
  BY DEF LifeInv
<1> HIDE DEF I
<1>7. /\ item' \in [Items -> ItemRows] /\ item'[i] = I
      /\ \A k \in Items : k # i => item'[k] = item[k]
  BY <1>2, <1>5, <1>6, ItemWritten DEF I
<1>8. /\ job' \in [Items -> [Versions -> JobRows]] /\ task' \in [Items -> [Versions -> TaskRows]]
      /\ \A k \in Items, w \in Versions : k # i \/ w # v =>
           job'[k][w] = job[k][w] /\ task'[k][w] = task[k][w]
      /\ RowSound(job'[i][v], task'[i][v]) /\ job'[i][v].status \notin MutableStatus
      /\ job'[i][v].status \in {job[i][v].status, "CANCELLED"}
      /\ job'[i][v].adapter = job[i][v].adapter /\ job'[i][v].told = job[i][v].told
  BY <1>1, <1>3, TakenOut DEF CurrentJob
<1>9. TypeOK'
  BY <1>3, <1>6, <1>7, <1>8 DEF TypeOK
<1>10. Current(i)' = v + 1
  BY <1>5, <1>7 DEF Current
<1>11. ASSUME NEW w \in Versions
       PROVE  Sound(i, w)'
  <2>1. Sound(i, w) /\ Sound(i, v) /\ w \in Nat
    BY RowFacts, LifecycleAssumption DEF Versions
  <2>2. item'[i].status \notin Settled /\ item'[i].status # "SCHEDULED"
    BY <1>5, <1>7 DEF Settled, Outcomes
  <2>3. CASE w > v
    <3>1. job[i][w] = NoJob /\ task[i][w] = NoTask
      BY <1>1, <2>1, <2>3 DEF Sound
    <3>2. job'[i][w] = NoJob /\ task'[i][w] = NoTask
      BY <1>4, <1>8, <2>1, <2>3, <3>1
    <3>3. /\ \A s \in {"asking", "answering"} : <<i, w, s>> \notin inquiries'
          /\ ~Reconciling(i, w)'
      BY <1>3, <2>1, <3>1, EmptyRows DEF Sound, Reconciling
    <3>4. RowSound(NoJob, NoTask)
      BY EmptyRows DEF RowSound
    <3> QED BY <2>2, <3>2, <3>3, <3>4, EmptyRows DEF Sound, Settled
  <2>4. CASE w = v
    <3>1. ~(v > v + 1) /\ v # v + 1
      BY <1>4
    <3>2. ~(job'[i][v].adapter = "manual" /\ job'[i][v].status \in {"RUNNING", "UNKNOWN"})
      BY <1>1, <1>3, <1>8, <2>1 DEF Sound, ManualUnresolved, CurrentJob
    <3>3. job'[i][v].status \notin {"PENDING", "MANUAL_PENDING"}
      BY <1>8 DEF MutableStatus
    <3>4. /\ \A s \in {"asking", "answering"} :
               <<i, v, s>> \in inquiries' => job'[i][v].adapter = "api" /\ job'[i][v].told
          /\ ~Reconciling(i, v)'
      BY <1>3, <1>8, <2>1 DEF Sound, Free, Reconciling
    <3> QED BY <1>8, <1>10, <2>4, <3>1, <3>2, <3>3, <3>4 DEF Sound
  <2>5. CASE w < v
    <3>1. ~(w > v + 1) /\ w # v + 1 /\ w # v
      BY <1>4, <2>1, <2>5
    <3>2. job'[i][w] = job[i][w] /\ task'[i][w] = task[i][w]
      BY <1>8, <3>1
    <3>3. inquiries' = inquiries /\ ~Reconciling(i, w)'
      BY <1>3 DEF Free, Reconciling
    <3> QED BY <1>1, <1>10, <2>1, <3>1, <3>2, <3>3 DEF Sound
  <2> QED BY <1>4, <2>1, <2>3, <2>4, <2>5
<1>12. ASSUME NEW k \in Items, NEW w \in Versions, k # i
       PROVE  Sound(k, w)'
  <2>1. Sound(k, w)
    BY RowFacts
  <2>2. /\ item'[k] = item[k] /\ decision'[k] = decision[k] /\ job'[k][w] = job[k][w]
        /\ task'[k][w] = task[k][w] /\ moved' = moved /\ inquiries' = inquiries
    BY <1>3, <1>7, <1>8, <1>12
  <2> QED BY <2>1, <2>2, SoundKept
<1>13. RowsInv'
  BY <1>11, <1>12 DEF RowsInv
<1>14. {i} \in SUBSET Items /\ \A k \in {i} : k \notin LockedItems /\ ~Waits(k)'
  BY <1>3, <1>5, <1>7 DEF Free, Waits
<1>15. \A k \in Items \ {i} : /\ item'[k] = item[k] /\ decision'[k] = decision[k]
                              /\ Stale(k)' => Stale(k)
                              /\ \A w \in Versions : job'[k][w] = job[k][w]
  BY <1>3, <1>7, <1>8 DEF Stale
<1>16. TxnsInv' /\ ApartInv'
  BY <1>3, <1>14, <1>15, OutOfTheWay
<1>17. Late(i)'
  <2>1. PICK n \in Versions : n = v + 1
    BY <1>4
  <2>2. Sound(i, n) /\ n > v /\ n # v
    BY <1>4, <2>1, RowFacts
  <2>3. CurrentJob(i)' = job'[i][n]
    BY <1>10, <2>1 DEF CurrentJob
  <2>4. CurrentJob(i)'.status = "NONE"
    <3>1. job[i][n] = NoJob
      BY <1>1, <2>2 DEF Sound
    <3> QED BY <1>8, <2>2, <2>3, <3>1, EmptyRows
  <2>5. item'[i].status # "PUBLISHED"
    BY <1>5, <1>7
  <2> QED BY <2>4, <2>5 DEF Late
<1>18. ASSUME NEW k \in Items, k # i
       PROVE  Late(k)'
  <2>1. Late(k) /\ Current(k) \in Versions /\ item'[k] = item[k]
    BY <1>6, <1>7, <1>18, CurrentVersion DEF LifeInv, LateInv
  <2>2. CurrentJob(k)' = CurrentJob(k)
    BY <1>8, <1>18, <2>1 DEF CurrentJob, Current
  <2>3. /\ Overtaken(k)' => Overtaken(k)
        /\ \A u \in Versions : Confirmed(k, u) => Confirmed(k, u)'
    BY <1>3, <1>8, <1>18, <2>1 DEF Overtaken, Answering, Confirmed, Reconciling, Current
  <2> QED BY <2>1, <2>2, <2>3, LateKept
<1>19. LateInv'
  BY <1>17, <1>18 DEF LateInv
<1> QED BY <1>9, <1>13, <1>16, <1>19 DEF LifeInv

\* New facts take every version of the product's items out of the queue.
LEMMA FactsStep ==
  ASSUME LifeInv, UpdateProductFacts
  PROVE  LifeInv'
<1>1. /\ ProductItems \subseteq Items /\ TypeOK
      /\ UNCHANGED <<mode, decision, checked, txns, inquiries>>
      /\ \A i \in ProductItems : /\ i \notin LockedItems /\ item[i].status # "RUNNING"
                                 /\ \A v \in Versions : ~Reconciling(i, v)
                                 /\ \A v \in Versions : job[i][v].status # "UNKNOWN"
      /\ \A i \in Items \ ProductItems : Stale(i)' = Stale(i)
  BY LifecycleAssumption DEF UpdateProductFacts, LifeInv, Free, Stale
<1>2. \A i \in Items :
        item'[i] = IF i \in ProductItems /\ item[i].status # "PUBLISHED"
                   THEN [item[i] EXCEPT !.status = "CHANGES_REQUESTED", !.slot = NoSlot] ELSE item[i]
  BY DEF UpdateProductFacts
<1>3. \A i \in Items \ ProductItems : item'[i] = item[i] /\ job'[i] = job[i] /\ task'[i] = task[i]
  BY DEF UpdateProductFacts
<1>4. ASSUME NEW i \in ProductItems, NEW v \in Versions
      PROVE  /\ job'[i][v] = Cancelled(job[i][v])
             /\ task'[i][v] = TaskAfterCancel(job[i][v], task[i][v])
  BY <1>1 DEF UpdateProductFacts
<1>5. ASSUME NEW i \in ProductItems
      PROVE  /\ item'[i] \in ItemRows /\ item'[i].version = item[i].version
             /\ item'[i].status \in {"CHANGES_REQUESTED", "PUBLISHED"}
             /\ item'[i].status = "PUBLISHED" => item[i].status = "PUBLISHED"
  <2>1. item[i] \in ItemRows
    BY <1>1 DEF TypeOK
  <2> QED BY <1>1, <1>2, <2>1 DEF ItemRows, ItemStatus
<1>6. ASSUME NEW i \in ProductItems, NEW v \in Versions
      PROVE  job'[i][v] \in JobRows /\ task'[i][v] \in TaskRows /\ Sound(i, v)'
  <2> DEFINE j == job[i][v]
             t == task[i][v]
  <2>1. j \in JobRows /\ t \in TaskRows /\ Sound(i, v) /\ RowSound(j, t) /\ i \in Items
    BY <1>1, RowFacts
  <2>2. /\ Cancelled(j) \in JobRows /\ TaskAfterCancel(j, t) \in TaskRows
        /\ RowSound(Cancelled(j), TaskAfterCancel(j, t)) /\ Cancelled(j).status \notin MutableStatus
        /\ Cancelled(j).status \in {j.status, "CANCELLED"}
        /\ Cancelled(j).adapter = j.adapter /\ Cancelled(j).told = j.told
    BY <2>1, CancelledRow, ClosedRow, OutOfQueue
  <2>3. v > Current(i) => Cancelled(j) = NoJob /\ TaskAfterCancel(j, t) = NoTask
    BY <2>1, CancelledRow, ClosedRow, EmptyRows DEF Sound, MutableStatus, OpenTask
  <2>4. Cancelled(j).status \notin {"PENDING", "MANUAL_PENDING"}
    BY <2>2 DEF MutableStatus
  <2>5. ~(Cancelled(j).adapter = "manual" /\ Cancelled(j).status \in {"RUNNING", "UNKNOWN"})
    BY <1>1, <2>1, <2>2 DEF Sound
  <2>6. v = Current(i) /\ item'[i].status \in Settled =>
          \/ Cancelled(j).status = item'[i].status
          \/ Cancelled(j).status = "NONE" /\ item'[i].status = "PUBLISHED"
    <3> SUFFICES ASSUME v = Current(i), item'[i].status \in Settled
                 PROVE  \/ Cancelled(j).status = item'[i].status
                        \/ Cancelled(j).status = "NONE" /\ item'[i].status = "PUBLISHED"
      OBVIOUS
    <3>1. item'[i].status = "PUBLISHED" /\ item[i].status = "PUBLISHED"
      BY <1>5 DEF Settled, Outcomes
    <3>2. j.status \in {"PUBLISHED", "NONE"}
      BY <2>1, <3>1 DEF Sound, Settled, Outcomes
    <3> QED BY <2>1, <3>1, <3>2, CancelledRow DEF MutableStatus
  <2>7. Current(i)' = Current(i) /\ item'[i].status # "RUNNING"
    BY <1>5 DEF Current
  <2>8. /\ \A s \in {"asking", "answering"} :
             <<i, v, s>> \in inquiries' => Cancelled(j).adapter = "api" /\ Cancelled(j).told
        /\ ~Reconciling(i, v)'
    BY <1>1, <2>1, <2>2 DEF Sound, Reconciling
  <2>9. job'[i][v] = Cancelled(j) /\ task'[i][v] = TaskAfterCancel(j, t)
    BY <1>4
  <2> HIDE DEF j, t
  <2> QED BY <2>2, <2>3, <2>4, <2>5, <2>6, <2>7, <2>8, <2>9 DEF Sound
<1>7. TypeOK'
  <2>1. item' \in [Items -> ItemRows]
    <3>1. \A i \in Items : item'[i] \in ItemRows
      BY <1>1, <1>3, <1>5 DEF TypeOK
    <3> QED BY <3>1 DEF UpdateProductFacts
  <2>2. job' \in [Items -> [Versions -> JobRows]]
    <3>1. ASSUME NEW i \in Items
          PROVE  job'[i] \in [Versions -> JobRows]
      <4>1. CASE i \in ProductItems
        <5>1. job'[i] = [v \in Versions |-> Cancelled(job[i][v])]
          BY <4>1 DEF UpdateProductFacts
        <5> QED BY <1>4, <1>6, <4>1, <5>1
      <4>2. CASE i \notin ProductItems
        BY <1>1, <1>3, <4>2 DEF TypeOK
      <4> QED BY <4>1, <4>2
    <3> QED BY <3>1 DEF UpdateProductFacts
  <2>3. task' \in [Items -> [Versions -> TaskRows]]
    <3>1. ASSUME NEW i \in Items
          PROVE  task'[i] \in [Versions -> TaskRows]
      <4>1. CASE i \in ProductItems
        <5>1. task'[i] = [v \in Versions |-> TaskAfterCancel(job[i][v], task[i][v])]
          BY <4>1 DEF UpdateProductFacts
        <5> QED BY <1>4, <1>6, <4>1, <5>1
      <4>2. CASE i \notin ProductItems
        BY <1>1, <1>3, <4>2 DEF TypeOK
      <4> QED BY <4>1, <4>2
    <3> QED BY <3>1 DEF UpdateProductFacts
  <2>4. moved' \in BOOLEAN
    BY DEF UpdateProductFacts
  <2> QED BY <1>1, <2>1, <2>2, <2>3, <2>4 DEF TypeOK
<1>8. ASSUME NEW i \in Items \ ProductItems, NEW v \in Versions
      PROVE  Sound(i, v)'
  <2>1. Sound(i, v)
    BY RowFacts
  <2>2. Current(i)' = Current(i) /\ Approved(i)' = Approved(i) /\ Stale(i)' = Stale(i)
    BY <1>1, <1>3 DEF Current, Approved
  <2>3. Reconciling(i, v)' => Reconciling(i, v)
    BY <1>1 DEF Reconciling
  <2> QED BY <1>1, <1>3, <2>1, <2>2, <2>3 DEF Sound
<1>9. RowsInv'
  BY <1>6, <1>8 DEF RowsInv
<1>10. \A k \in ProductItems : k \notin LockedItems /\ ~Waits(k)'
  BY <1>1, <1>5 DEF Waits
<1>11. \A k \in Items \ ProductItems : /\ item'[k] = item[k] /\ decision'[k] = decision[k]
                                       /\ Stale(k)' => Stale(k)
                                       /\ \A w \in Versions : job'[k][w] = job[k][w]
  BY <1>1, <1>3
<1>12. TxnsInv' /\ ApartInv'
  BY <1>1, <1>10, <1>11, OutOfTheWay
<1>13. ASSUME NEW i \in Items
       PROVE  Late(i)'
  <2>1. Late(i) /\ Current(i) \in Versions
    BY <1>1, CurrentVersion DEF LifeInv, LateInv
  <2>2. /\ item'[i].version = item[i].version
        /\ item'[i].status = "PUBLISHED" => item[i].status = "PUBLISHED"
    BY <1>3, <1>5
  <2>3. Overtaken(i)' => Overtaken(i)
    BY <1>1, <2>2 DEF Overtaken, Answering, Current
  <2>4. ASSUME NEW u \in Versions
        PROVE  /\ job[i][u].status = "NONE" <=> job'[i][u].status = "NONE"
               /\ job[i][u].status = "PUBLISHED" => job'[i][u] = job[i][u]
    <3>1. job[i][u] \in JobRows
      BY RowFacts
    <3>2. CASE i \in ProductItems
      <4>1. job'[i][u] = Cancelled(job[i][u])
        BY <1>4, <3>2
      <4> QED BY <3>1, <4>1, CancelledRow DEF MutableStatus
    <3>3. CASE i \notin ProductItems
      BY <1>3, <3>3
    <3> QED BY <3>2, <3>3
  <2>5. CurrentJob(i).status = "NONE" <=> CurrentJob(i)'.status = "NONE"
    BY <2>1, <2>2, <2>4 DEF CurrentJob, Current
  <2>6. \A u \in Versions : Confirmed(i, u) => Confirmed(i, u)'
    BY <1>1, <2>4 DEF Confirmed, Reconciling
  <2> QED BY <2>1, <2>2, <2>3, <2>5, <2>6, LateKept
<1>14. LateInv'
  BY <1>13 DEF LateInv
<1> QED BY <1>7, <1>9, <1>12, <1>14 DEF LifeInv

\* A change of mode finds no transaction under way.
LEMMA ChangeModeStep ==
  ASSUME LifeInv, ChangeMode
  PROVE  LifeInv'
<1>1. /\ UNCHANGED <<item, decision, job, task, moved, checked, txns, inquiries>>
      /\ mode' \in ClientModes
  BY LifecycleAssumption DEF ChangeMode
<1>2. TypeOK'
  BY <1>1 DEF LifeInv, TypeOK
<1> QED BY <1>1, <1>2, NothingWritten

\* A transaction that has validated what it is about to write.
LEMMA Validated ==
  ASSUME LifeInv, NEW t \in Transactions, txns' = txns \cup {t},
         UNCHANGED <<mode, item, decision, job, task, moved, checked, inquiries>>,
         \A i \in t.items :
           /\ CanLock(i) /\ Publishable(i)
           /\ t.kind = "schedule" => Schedulable(CurrentJob(i)) /\ ~Overtaken(i)
           /\ t.kind = "move" => item[i].status = "SCHEDULED"
           /\ ~Conflict(t.items, item[i].account, t.slot),
         \A i, k \in t.items : i # k => item[i].account # item[k].account
  PROVE  LifeInv'
<1>1. TypeOK'
  BY DEF LifeInv, TypeOK
<1>2. RowsInv' /\ LateInv' /\ ApartInv'
  BY DEF LifeInv, RowsInv, Sound, LateInv, Late, Overtaken, Answering, Confirmed, Reconciling,
         ApartInv, Waits, Approved, Stale, Current, CurrentJob
<1>3. ASSUME NEW i \in t.items
      PROVE  Holds(t, i)
  <2>1. ASSUME NEW k \in Items \ t.items, item[k].account = item[i].account, Waits(k)
        PROVE  ~Near(item[k].slot, t.slot)
    BY <2>1 DEF Conflict, BusyNear, Waits
  <2> QED BY <2>1 DEF Holds, Publishable, CanLock, Free
<1>4. \A u \in txns, k \in Items : Holds(u, k) => Holds(u, k)'
  BY DEF Holds, Waits, Approved, Stale, Current, CurrentJob, Overtaken, Answering,
         Reconciling
<1>5. \A i \in t.items : Holds(t, i)'
  BY <1>3 DEF Holds, Waits, Approved, Stale, Current, CurrentJob, Overtaken, Answering,
         Reconciling
<1>6. ASSUME NEW u \in txns, NEW k \in u.items, NEW i \in t.items
      PROVE  item[i].account # item[k].account
  BY DEF CanLock, LockedItems, LockedAccounts
<1>7. \A u \in txns : \A k \in u.items : k \in Items
  BY DEF LifeInv, TypeOK, Transactions
<1>8. TxnsInv'
  <2>1. ASSUME NEW u \in txns', NEW k \in u.items
        PROVE  Holds(u, k)'
    BY <1>4, <1>5, <1>7, <2>1 DEF LifeInv, TxnsInv
  <2>2. ASSUME NEW u \in txns', NEW s \in txns', NEW i \in u.items, NEW k \in s.items, u # s \/ i # k
        PROVE  item'[i].account # item'[k].account
    BY <1>6, <2>2 DEF LifeInv, TxnsInv
  <2> QED BY <2>1, <2>2 DEF TxnsInv
<1> QED BY <1>1, <1>2, <1>8 DEF LifeInv

\* A transaction that begins to schedule has validated what its commit relies on.
LEMMA ValidateStep ==
  ASSUME LifeInv, NEW i \in Items, NEW s \in Slots, Validate(i, s)
  PROVE  LifeInv'
<1> DEFINE t == [kind |-> "schedule", items |-> {i}, slot |-> s]
<1>1. t \in Transactions /\ t.items = {i} /\ t.kind = "schedule" /\ t.slot = s
  BY DEF Transactions
<1>2. /\ CanLock(i) /\ Publishable(i) /\ Schedulable(CurrentJob(i)) /\ ~Overtaken(i)
      /\ ~Conflict({i}, item[i].account, s)
      /\ txns' = txns \cup {t}
      /\ UNCHANGED <<mode, item, decision, job, task, moved, checked, inquiries>>
  BY DEF Validate
<1> HIDE DEF t
<1> QED BY <1>1, <1>2, Validated

\* A transaction that begins to move has validated what its commit relies on.
LEMMA BeginMoveStep ==
  ASSUME LifeInv, NEW S \in SUBSET Items, BeginMove(S)
  PROVE  LifeInv'
<1>1. PICK s \in Slots :
        /\ \A i \in S : ~Conflict(S, item[i].account, s)
        /\ txns' = txns \cup {[kind |-> "move", items |-> S, slot |-> s]}
  BY DEF BeginMove
<1> DEFINE t == [kind |-> "move", items |-> S, slot |-> s]
<1>2. t \in Transactions /\ t.items = S /\ t.kind = "move" /\ t.slot = s
  BY DEF Transactions
<1>3. /\ \A i \in S : CanLock(i) /\ item[i].status = "SCHEDULED" /\ Publishable(i)
      /\ \A i, k \in S : i # k => item[i].account # item[k].account
      /\ UNCHANGED <<mode, item, decision, job, task, moved, checked, inquiries>>
  BY DEF BeginMove
<1>4. txns' = txns \cup {t}
  BY <1>1
<1> HIDE DEF t
<1> QED BY <1>1, <1>2, <1>3, <1>4, Validated

\* A transaction writes the items it is about: to its slot, or nothing.
LEMMA Committed ==
  ASSUME LifeInv, NEW t \in txns, txns' = txns \ {t}, NEW S \in SUBSET t.items,
         UNCHANGED <<decision, moved, inquiries>>,
         \A i \in S : item'[i].slot = t.slot /\ item'[i].account = item[i].account,
         \A k \in Items \ S : item'[k] = item[k] /\ CurrentJob(k)' = CurrentJob(k)
  PROVE  TxnsInv' /\ ApartInv'
<1>1. \A u \in txns : u.items \subseteq Items /\ u.slot \in Int
  BY LifecycleAssumption DEF LifeInv, TypeOK, Transactions, Slots
<1>2. \A k \in Items : item[k].slot \in Int
  BY LifecycleAssumption DEF LifeInv, TypeOK, ItemRows, Slots, NoSlot
<1>3. \A u \in txns' : \A i \in u.items, k \in t.items : i # k /\ item[i].account # item[k].account
  BY <1>1 DEF LifeInv, TxnsInv
<1>4. \A k \in Items : item'[k].account = item[k].account
  BY <1>1
<1>5. TxnsInv'
  <2>1. ASSUME NEW u \in txns', NEW i \in u.items
        PROVE  Holds(u, i)'
    <3>1. Holds(u, i) /\ i \in Items \ S
      BY <1>1, <1>3 DEF LifeInv, TxnsInv
    <3>2. Approved(i)' = Approved(i) /\ Stale(i)' = Stale(i) /\ item'[i] = item[i]
          /\ CurrentJob(i)' = CurrentJob(i) /\ Overtaken(i)' = Overtaken(i)
          /\ \A v \in Versions : Reconciling(i, v)' = Reconciling(i, v)
      BY <3>1 DEF Approved, Stale, Current, Overtaken, Answering, Reconciling
    <3>3. ASSUME NEW k \in Items \ u.items, item'[k].account = item'[i].account, Waits(k)'
          PROVE  ~Near(item'[k].slot, u.slot)
      <4>1. k \notin S
        BY <1>1, <1>3, <1>4, <3>1, <3>3
      <4>2. item'[k] = item[k] /\ Waits(k)
        BY <3>3, <4>1 DEF Waits
      <4> QED BY <3>1, <3>2, <3>3, <4>2 DEF Holds
    <3> QED BY <3>1, <3>2, <3>3 DEF Holds
  <2>2. ASSUME NEW u \in txns', NEW s \in txns', NEW i \in u.items, NEW k \in s.items, u # s \/ i # k
        PROVE  item'[i].account # item'[k].account
    BY <1>1, <1>4, <2>2 DEF LifeInv, TxnsInv
  <2> QED BY <2>1, <2>2 DEF TxnsInv
<1>6. ASSUME NEW i \in S, NEW k \in Items, i # k, item'[i].account = item'[k].account, Waits(k)'
      PROVE  ~Near(item'[i].slot, item'[k].slot)
  <2>1. i \in t.items /\ i \in Items /\ item[i].account = item[k].account
    BY <1>1, <1>4, <1>6
  <2>2. k \notin t.items
    BY <1>6, <2>1 DEF LifeInv, TxnsInv
  <2>3. item'[k] = item[k] /\ Waits(k)
    BY <1>6, <2>2 DEF Waits
  <2>4. ~Near(item[k].slot, t.slot)
    BY <2>1, <2>2, <2>3 DEF LifeInv, TxnsInv, Holds
  <2> QED BY <1>1, <1>2, <2>3, <2>4, NearBothWays
<1>7. \A k \in Items : item'[k].slot \in Int
  BY <1>1, <1>2
<1>8. ApartInv'
  <2> SUFFICES ASSUME NEW i \in Items, NEW k \in Items, i # k,
                      item'[i].account = item'[k].account, Waits(i)', Waits(k)'
               PROVE  ~Near(item'[i].slot, item'[k].slot)
    BY DEF ApartInv
  <2>1. CASE i \in S
    BY <1>6, <2>1
  <2>2. CASE k \in S
    BY <1>6, <1>7, <2>2, NearBothWays
  <2>3. CASE i \notin S /\ k \notin S
    BY <2>3 DEF LifeInv, ApartInv, Waits
  <2> QED BY <2>1, <2>2, <2>3
<1> QED BY <1>5, <1>8

\* What a schedule writes was validated and is still so.
LEMMA CommitScheduleStep ==
  ASSUME LifeInv, NEW t \in txns, CommitSchedule(t)
  PROVE  LifeInv'
<1>1. PICK i \in t.items :
        LET v == Current(i)
            adapter == AdapterOf(i)
        IN  /\ job' = [job EXCEPT ![i][v] = [@ EXCEPT !.status = FirstStatus(adapter),
                                                     !.adapter = adapter, !.slot = t.slot]]
            /\ item' = [item EXCEPT ![i] = [@ EXCEPT !.status = "SCHEDULED", !.slot = t.slot]]
            /\ task' = IF adapter = "manual" /\ task[i][v].status \notin OpenTask
                       THEN [task EXCEPT ![i][v] = [status |-> "TODO", due |-> t.slot]]
                       ELSE task
  BY DEF CommitSchedule
<1>2. i \in Items /\ TypeOK /\ t.slot \in Slots
  BY DEF LifeInv, TypeOK, Transactions
<1>3. PICK v \in Versions : v = Current(i)
  BY <1>2, CurrentVersion
<1>4. /\ Approved(i) /\ ~Stale(i) /\ Schedulable(job[i][v]) /\ ~Overtaken(i)
      /\ ~Reconciling(i, v)
      /\ txns' = txns \ {t} /\ UNCHANGED <<mode, decision, moved, checked, inquiries>>
  BY <1>3 DEF CommitSchedule, LifeInv, TxnsInv, Holds, CurrentJob
<1>5. /\ item[i] \in ItemRows /\ job[i][v] \in JobRows /\ task[i][v] \in TaskRows
      /\ Sound(i, v) /\ RowSound(job[i][v], task[i][v])
  BY <1>2, RowFacts
<1> DEFINE adapter == AdapterOf(i)
           first == FirstStatus(adapter)
           I == [item[i] EXCEPT !.status = "SCHEDULED", !.slot = t.slot]
           J == [job[i][v] EXCEPT !.status = first, !.adapter = adapter, !.slot = t.slot]
           T == IF adapter = "manual" /\ task[i][v].status \notin OpenTask
                THEN [status |-> "TODO", due |-> t.slot] ELSE task[i][v]
<1>6. item' = [item EXCEPT ![i] = I] /\ job' = [job EXCEPT ![i][v] = J]
  BY <1>1, <1>3
<1>7. task' = [task EXCEPT ![i][v] = T]
  <2>1. CASE adapter = "manual" /\ task[i][v].status \notin OpenTask
    BY <1>1, <1>3, <2>1
  <2>2. CASE ~(adapter = "manual" /\ task[i][v].status \notin OpenTask)
    <3>1. T = task[i][v] /\ task' = task
      BY <1>1, <1>3, <2>2
    <3> HIDE DEF T
    <3> QED BY <1>2, <3>1, RowFacts
  <2> QED BY <2>1, <2>2
<1>8. /\ adapter \in Adapters
      /\ adapter = "manual" => job[i][v].status = "NONE" \/ job[i][v].adapter = "manual"
  BY <1>3 DEF AdapterOf, PublishesByHand, CurrentJob, Adapters
<1> HIDE DEF adapter
<1>9. /\ first \in {"PENDING", "MANUAL_PENDING"}
      /\ first = "MANUAL_PENDING" <=> adapter = "manual"
  BY DEF FirstStatus
<1> HIDE DEF first
<1>10. I \in ItemRows /\ I.status = "SCHEDULED" /\ I.slot = t.slot
       /\ I.version = item[i].version /\ I.account = item[i].account
  BY <1>2, <1>5 DEF ItemRows, ItemStatus
<1>11. /\ J \in JobRows /\ J.status = first /\ J.adapter = adapter /\ J.slot = t.slot
       /\ J.told = job[i][v].told /\ J.tried = job[i][v].tried
  BY <1>2, <1>5, <1>8, <1>9 DEF JobRows, JobStatus, ConflictStatus, MutableStatus
<1>12. adapter = "manual" => task[i][v].status \notin OpenTask
  BY <1>4, <1>5, <1>8, EmptyRows DEF Schedulable, RowSound, OpenTask
<1>13. T \in TaskRows /\ (adapter = "manual" => T = [status |-> "TODO", due |-> t.slot])
  BY <1>2, <1>5, <1>12 DEF TaskRows, TaskStatus, OpenTask
<1> HIDE DEF I, J, T
<1>14. ~job[i][v].told
  BY <1>4, <1>5 DEF Schedulable, RowSound, Outcomes
<1>15. /\ item' \in [Items -> ItemRows] /\ item'[i] = I
       /\ \A k \in Items : k # i => item'[k] = item[k]
  BY <1>2, <1>6, <1>10, ItemWritten
<1>16. /\ job' \in [Items -> [Versions -> JobRows]] /\ job'[i][v] = J
       /\ \A k \in Items, w \in Versions : k # i \/ w # v => job'[k][w] = job[k][w]
  <2>1. J \in JobRows
    BY <1>11
  <2>2. job' = [job EXCEPT ![i][v] = J]
    BY <1>6
  <2> QED BY ZenonT(60), <1>2, <2>1, <2>2, JobWritten
<1>17. /\ task' \in [Items -> [Versions -> TaskRows]] /\ task'[i][v] = T
       /\ \A k \in Items, w \in Versions : k # i \/ w # v => task'[k][w] = task[k][w]
  BY ZenonT(60), <1>2, <1>7, <1>13, TaskWritten
<1>18. TypeOK'
  <2>1. txns' \subseteq Transactions
    BY <1>2, <1>4 DEF TypeOK
  <2> QED BY <1>2, <1>4, <1>15, <1>16, <1>17, <2>1 DEF TypeOK
<1>19. Sound(i, v)'
  <2>1. Current(i)' = v /\ Approved(i)' /\ ~Stale(i)' /\ ~(v > v)
    BY <1>3, <1>4, <1>10, <1>15, LifecycleAssumption DEF Current, Approved, Stale, Versions
  <2>2. RowSound(J, T)
    BY <1>9, <1>11, <1>13, <1>14 DEF RowSound
  <2>3. /\ \A s \in {"asking", "answering"} : <<i, v, s>> \notin inquiries'
        /\ ~Reconciling(i, v)'
    BY <1>4, <1>5, <1>14 DEF Sound, Reconciling
  <2> QED BY <1>9, <1>10, <1>11, <1>15, <1>16, <1>17, <2>1, <2>2, <2>3 DEF Sound, Settled, Outcomes
<1>20. ASSUME NEW k \in Items, NEW w \in Versions
       PROVE  Sound(k, w)'
  <2>1. Sound(k, w)
    BY RowFacts
  <2>2. CASE k = i /\ w = v
    BY <1>19, <2>2
  <2>3. CASE k = i /\ w # v
    BY <1>3, <1>4, <1>10, <1>15, <1>16, <1>17, <2>1, <2>3, SoundElsewhere
  <2>4. CASE k # i
    <3>1. item'[k] = item[k] /\ decision'[k] = decision[k] /\ job'[k][w] = job[k][w]
          /\ task'[k][w] = task[k][w] /\ moved' = moved /\ inquiries' = inquiries
      BY <1>4, <1>15, <1>16, <1>17, <2>4
    <3> QED BY <2>1, <3>1, SoundKept
  <2> QED BY <2>2, <2>3, <2>4
<1>21. RowsInv'
  BY <1>20 DEF RowsInv
<1>22. ASSUME NEW k \in Items \ {i}
       PROVE  item'[k] = item[k] /\ CurrentJob(k)' = CurrentJob(k)
  <2>1. item[k].version \in Versions /\ item'[k] = item[k]
    BY <1>2, <1>15, CurrentVersion DEF Current
  <2> QED BY <1>16, <2>1 DEF CurrentJob, Current
<1>23. {i} \in SUBSET t.items
       /\ \A k \in {i} : item'[k].slot = t.slot /\ item'[k].account = item[k].account
  BY <1>10, <1>15
<1>24. TxnsInv' /\ ApartInv'
  BY <1>4, <1>22, <1>23, Committed
<1>25. Late(i)'
  <2>1. item'[i].status # "PUBLISHED"
    BY <1>10, <1>15
  <2>2. ~Overtaken(i)'
    BY <1>4, <1>10, <1>15 DEF Overtaken, Answering, Current
  <2> QED BY <2>1, <2>2 DEF Late
<1>26. ASSUME NEW k \in Items, k # i
       PROVE  Late(k)'
  <2>1. Late(k) /\ item'[k] = item[k] /\ CurrentJob(k)' = CurrentJob(k)
    BY <1>22, <1>26 DEF LifeInv, LateInv
  <2>2. /\ Overtaken(k)' => Overtaken(k)
        /\ \A u \in Versions : Confirmed(k, u) => Confirmed(k, u)'
    BY <1>4, <1>16, <1>26, <2>1 DEF Overtaken, Answering, Confirmed, Reconciling, Current
  <2> QED BY <2>1, <2>2, LateKept
<1>27. LateInv'
  BY <1>25, <1>26 DEF LateInv
<1> QED BY <1>18, <1>21, <1>24, <1>27 DEF LifeInv

\* What a move writes was validated and is still so, unless a job was claimed.
LEMMA CommitMoveStep ==
  ASSUME LifeInv, NEW t \in txns, CommitMove(t)
  PROVE  LifeInv'
<1>1. /\ t.kind = "move" /\ TypeOK /\ t.items \subseteq Items /\ t.slot \in Slots
      /\ txns' = txns \ {t} /\ UNCHANGED <<mode, decision, moved, checked, inquiries>>
      /\ \A i \in t.items : item[i].status = "SCHEDULED"
  BY DEF CommitMove, LifeInv, TypeOK, Transactions, TxnsInv, Holds
<1>2. txns' \subseteq Transactions
  BY <1>1 DEF TypeOK
<1>3. CASE UNCHANGED <<job, item, task>>
  <2>1. TypeOK'
    BY <1>1, <1>2, <1>3 DEF TypeOK
  <2>2. RowsInv' /\ LateInv'
    <3>1. ASSUME NEW i \in Items, NEW v \in Versions
          PROVE  Sound(i, v)'
      <4>1. Sound(i, v)
        BY RowFacts
      <4> QED BY <1>1, <1>3, <4>1, SoundKept
    <3>2. LateInv'
      BY <1>1, <1>3 DEF LifeInv, LateInv, Late, Overtaken, Answering, Confirmed, Reconciling,
                        Current, CurrentJob
    <3> QED BY <3>1, <3>2 DEF RowsInv
  <2>3. {} \in SUBSET t.items /\ \A k \in Items \ {} : item'[k] = item[k] /\ CurrentJob(k)' = CurrentJob(k)
    BY <1>3 DEF CurrentJob, Current
  <2>4. TxnsInv' /\ ApartInv'
    BY <1>1, <2>3, Committed
  <2> QED BY <2>1, <2>2, <2>4 DEF LifeInv
<1>4. CASE ~(UNCHANGED <<job, item, task>>)
  <2>1. ASSUME NEW i \in Items, NEW v \in Versions
        PROVE  /\ job'[i][v] = IF i \in t.items /\ v = Current(i)
                               THEN [job[i][v] EXCEPT !.slot = t.slot] ELSE job[i][v]
               /\ task'[i][v] = IF /\ i \in t.items /\ v = Current(i)
                                   /\ job[i][v].status = "MANUAL_PENDING" /\ task[i][v].status \in OpenTask
                                THEN [task[i][v] EXCEPT !.due = t.slot] ELSE task[i][v]
    <3>1. job' = [k \in Items |-> [w \in Versions |->
               IF k \in t.items /\ w = Current(k) THEN [job[k][w] EXCEPT !.slot = t.slot]
                                                  ELSE job[k][w]]]
      BY <1>4 DEF CommitMove
    <3>2. task' = [k \in Items |-> [w \in Versions |->
               IF /\ k \in t.items /\ w = Current(k)
                  /\ job[k][w].status = "MANUAL_PENDING" /\ task[k][w].status \in OpenTask
               THEN [task[k][w] EXCEPT !.due = t.slot] ELSE task[k][w]]]
      BY <1>4 DEF CommitMove
    <3> QED BY <3>1, <3>2
  <2>2. \A i \in Items : item'[i] = IF i \in t.items THEN [item[i] EXCEPT !.slot = t.slot] ELSE item[i]
    BY <1>4 DEF CommitMove
  <2>3. ASSUME NEW i \in Items
        PROVE  /\ item'[i] \in ItemRows /\ item'[i].version = item[i].version
               /\ item'[i].status = item[i].status /\ item'[i].account = item[i].account
               /\ i \in t.items => item'[i].slot = t.slot
               /\ i \notin t.items => item'[i] = item[i]
    <3>1. item[i] \in ItemRows
      BY <1>1 DEF TypeOK
    <3> QED BY <1>1, <2>2, <3>1 DEF ItemRows
  <2>4. ASSUME NEW i \in t.items, NEW v \in Versions, v = Current(i)
        PROVE  job'[i][v] \in JobRows /\ task'[i][v] \in TaskRows /\ Sound(i, v)'
    <3> DEFINE j == job[i][v]
               tk == task[i][v]
               J == [j EXCEPT !.slot = t.slot]
    <3>1. i \in Items /\ j \in JobRows /\ tk \in TaskRows /\ Sound(i, v) /\ RowSound(j, tk)
      BY <1>1, RowFacts
    <3>2. /\ J \in JobRows /\ J.status = j.status /\ J.adapter = j.adapter /\ J.told = j.told
          /\ J.tried = j.tried /\ J.slot = t.slot
      BY <1>1, <3>1 DEF JobRows
    <3>3. job'[i][v] = J
      BY <2>1, <2>4, <3>1
    <3> HIDE DEF J
    <3>4. /\ Current(i)' = Current(i) /\ Approved(i)' = Approved(i) /\ Stale(i)' = Stale(i)
          /\ item'[i].status = "SCHEDULED" /\ item[i].status = "SCHEDULED"
          /\ item'[i].slot = t.slot /\ inquiries' = inquiries
      BY <1>1, <2>3, <2>4, <3>1 DEF Current, Approved, Stale
    <3>8. Reconciling(i, v)' => FALSE
      BY <1>1, <2>4 DEF LifeInv, TxnsInv, Holds, Reconciling
    <3>5. ~(v > Current(i))
      BY <2>4, LifecycleAssumption DEF Versions
    <3>6. CASE j.status = "MANUAL_PENDING"
      <4>1. tk = [status |-> "TODO", due |-> j.slot] /\ j.adapter = "manual"
        BY <3>1, <3>6 DEF RowSound
      <4>2. tk.status = "TODO" /\ tk.status \in OpenTask
        BY <4>1 DEF OpenTask
      <4>3. [tk EXCEPT !.due = t.slot] = [status |-> "TODO", due |-> t.slot]
        BY <4>1
      <4>4. task'[i][v] = [status |-> "TODO", due |-> t.slot]
        BY <2>1, <2>4, <3>1, <3>6, <4>2, <4>3
      <4>5. task'[i][v] \in TaskRows
        BY <1>1, <4>4 DEF TaskRows, TaskStatus, OpenTask
      <4>6. RowSound(J, task'[i][v])
        BY <3>1, <3>2, <3>6, <4>1, <4>4 DEF RowSound, Outcomes
      <4> QED BY <3>1, <3>2, <3>3, <3>4, <3>5, <3>8, <4>5, <4>6 DEF Sound, Settled, Outcomes
    <3>7. CASE j.status # "MANUAL_PENDING"
      <4>1. task'[i][v] = tk
        BY <2>1, <3>1, <3>7
      <4>2. RowSound(J, tk)
        BY <3>1, <3>2, <3>7 DEF RowSound
      <4> QED BY <3>1, <3>2, <3>3, <3>4, <3>5, <3>8, <4>1, <4>2 DEF Sound, Settled, Outcomes
    <3> QED BY <3>6, <3>7
  <2>5. ASSUME NEW i \in Items, NEW v \in Versions, i \notin t.items \/ v # Current(i)
        PROVE  job'[i][v] = job[i][v] /\ task'[i][v] = task[i][v] /\ Sound(i, v)'
    <3>1. job'[i][v] = job[i][v] /\ task'[i][v] = task[i][v] /\ Sound(i, v)
      BY <2>1, <2>5, RowFacts
    <3>2. CASE v # Current(i)
      BY <1>1, <2>3, <3>1, <3>2, SoundElsewhere
    <3>3. CASE i \notin t.items
      <4>1. item'[i] = item[i] /\ decision'[i] = decision[i] /\ moved' = moved /\ inquiries' = inquiries
        BY <1>1, <2>3, <3>3
      <4> QED BY <3>1, <4>1, SoundKept
    <3> QED BY <2>5, <3>1, <3>2, <3>3
  <2>6. \A i \in Items, v \in Versions :
          job'[i][v] \in JobRows /\ task'[i][v] \in TaskRows /\ Sound(i, v)'
    <3> SUFFICES ASSUME NEW i \in Items, NEW v \in Versions
                 PROVE  job'[i][v] \in JobRows /\ task'[i][v] \in TaskRows /\ Sound(i, v)'
      OBVIOUS
    <3>1. CASE i \in t.items /\ v = Current(i)
      BY <2>4, <3>1
    <3>2. CASE i \notin t.items \/ v # Current(i)
      BY <2>5, <3>2, RowFacts
    <3> QED BY <3>1, <3>2
  <2>7. TypeOK'
    <3>1. item' \in [Items -> ItemRows]
      <4>1. item' = [i \in Items |-> IF i \in t.items THEN [item[i] EXCEPT !.slot = t.slot] ELSE item[i]]
        BY <1>4 DEF CommitMove
      <4> QED BY <2>3, <4>1
    <3>2. job' \in [Items -> [Versions -> JobRows]]
      <4>1. job' = [i \in Items |-> [v \in Versions |->
                 IF i \in t.items /\ v = Current(i) THEN [job[i][v] EXCEPT !.slot = t.slot]
                                                    ELSE job[i][v]]]
        BY <1>4 DEF CommitMove
      <4> QED BY <2>6, <4>1
    <3>3. task' \in [Items -> [Versions -> TaskRows]]
      <4>1. task' = [i \in Items |-> [v \in Versions |->
                 IF /\ i \in t.items /\ v = Current(i)
                    /\ job[i][v].status = "MANUAL_PENDING" /\ task[i][v].status \in OpenTask
                 THEN [task[i][v] EXCEPT !.due = t.slot] ELSE task[i][v]]]
        BY <1>4 DEF CommitMove
      <4> QED BY <2>6, <4>1
    <3> QED BY <1>1, <1>2, <3>1, <3>2, <3>3 DEF TypeOK
  <2>8. RowsInv'
    BY <2>6 DEF RowsInv
  <2>9. ASSUME NEW k \in Items \ t.items
        PROVE  item'[k] = item[k] /\ CurrentJob(k)' = CurrentJob(k)
    <3>1. item[k].version \in Versions /\ item'[k] = item[k]
      BY <1>1, <2>3, CurrentVersion DEF Current
    <3> QED BY <2>5, <3>1 DEF CurrentJob, Current
  <2>10. t.items \in SUBSET t.items
         /\ \A i \in t.items : item'[i].slot = t.slot /\ item'[i].account = item[i].account
    BY <1>1, <2>3
  <2>11. TxnsInv' /\ ApartInv'
    BY <1>1, <2>9, <2>10, Committed
  <2>12. ASSUME NEW i \in Items
         PROVE  Late(i)'
    <3>1. Late(i) /\ Current(i) \in Versions
      BY <1>1, CurrentVersion DEF LifeInv, LateInv
    <3>2. /\ item'[i].version = item[i].version /\ item'[i].status = item[i].status
          /\ Overtaken(i)' => Overtaken(i)
      BY <1>1, <2>3 DEF Overtaken, Answering, Current
    <3>3. job[i][Current(i)] \in JobRows
      BY <3>1, RowFacts
    <3>4. CurrentJob(i)'.status = CurrentJob(i).status
      <4>1. PICK c \in Versions : c = Current(i)
        BY <3>1
      <4>2. job'[i][c].status = job[i][c].status
        BY <2>1, <3>3, <4>1 DEF JobRows
      <4>3. Current(i)' = c
        BY <3>2, <4>1 DEF Current
      <4> QED BY <4>1, <4>2, <4>3 DEF CurrentJob
    <3>5. \A u \in Versions : u # Current(i) /\ Confirmed(i, u) => Confirmed(i, u)'
      BY <1>1, <2>1 DEF Confirmed, Reconciling
    <3> QED BY <3>1, <3>2, <3>4, <3>5, LateKept
  <2>13. LateInv'
    BY <2>12 DEF LateInv
  <2> QED BY <2>7, <2>8, <2>11, <2>13 DEF LifeInv
<1> QED BY <1>3, <1>4

-----------------------------------------------------------------------------
(* Theorems *)

\* Nothing is queued at first.
LEMMA InitInv == Init => LifeInv
<1> SUFFICES ASSUME Init PROVE LifeInv
  OBVIOUS
<1>1. PICK a \in [Items -> Accounts] :
        item = [i \in Items |-> [status |-> "DRAFT", version |-> 1, account |-> a[i], slot |-> NoSlot]]
  BY DEF Init
<1>2. ASSUME NEW i \in Items
      PROVE  item[i] \in ItemRows /\ item[i].status = "DRAFT"
  BY <1>1, LifecycleAssumption DEF ItemRows, ItemStatus, Versions
<1>3. TypeOK
  <2>1. item \in [Items -> ItemRows]
    BY <1>1, <1>2
  <2> QED BY <2>1, EmptyRows DEF Init, TypeOK, ClientModes
<1>4. RowsInv
  <2> SUFFICES ASSUME NEW i \in Items, NEW v \in Versions
               PROVE  Sound(i, v)
    BY DEF RowsInv
  <2>1. /\ job[i][v] = NoJob /\ task[i][v] = NoTask /\ ~Reconciling(i, v)
        /\ \A s \in {"asking", "answering"} : <<i, v, s>> \notin inquiries
    BY DEF Init, Reconciling
  <2>2. RowSound(NoJob, NoTask)
    BY EmptyRows DEF RowSound
  <2> QED BY <1>2, <2>1, <2>2, EmptyRows DEF Sound, Settled, Outcomes
<1>5. TxnsInv
  BY DEF Init, TxnsInv
<1>6. ApartInv
  BY <1>2 DEF ApartInv, Waits
<1>7. LateInv
  BY <1>2 DEF Init, LateInv, Late, Overtaken, Answering
<1> QED BY <1>3, <1>4, <1>5, <1>6, <1>7 DEF LifeInv

\* Every step keeps the invariant.
LEMMA NextInv == LifeInv /\ [Next]_vars => LifeInv'
<1> SUFFICES ASSUME LifeInv, [Next]_vars PROVE LifeInv'
  OBVIOUS
<1>1. ASSUME NEW i \in Items, Authoring(i) PROVE LifeInv'
  BY <1>1, CheckForReviewStep, SubmitForReviewStep, EditStep, DecideStep
     DEF Authoring, ReviewContent, RequestContentChanges
<1>2. ASSUME NEW i \in Items, ByHand(i) PROVE LifeInv'
  BY <1>2, StartManualStep, RecordManualStep DEF ByHand
<1>3. ASSUME NEW i \in Items, NEW v \in Versions, Publishing(i, v) PROVE LifeInv'
  BY <1>3, ClaimStep, GiveUpClaimStep, DispatchStep, RecordResultStep,
     BeginReconciliationStep, ReconcileStep, AskPlatformStep, ReceiveAnswerStep, WriteAnswerStep,
     UpdateTaskStep DEF Publishing
<1>4. ASSUME NEW i \in Items, BeginSchedule(i) PROVE LifeInv'
  BY <1>4, ValidateStep DEF BeginSchedule
<1>5. ASSUME NEW i \in Items, BeginQueueAssignment(i) PROVE LifeInv'
  <2>1. PICK s \in QueueSlots : Validate(i, s)
    BY <1>5 DEF BeginQueueAssignment
  <2>2. s \in Slots
    BY LifecycleAssumption
  <2> QED BY <2>1, <2>2, ValidateStep
<1>6. ASSUME NEW S \in SUBSET Items \ {{}}, BeginMove(S) PROVE LifeInv'
  BY <1>6, BeginMoveStep
<1>7. ASSUME NEW t \in txns, CommitSchedule(t) \/ CommitMove(t) PROVE LifeInv'
  BY <1>7, CommitScheduleStep, CommitMoveStep
<1>8. CASE Planning
  BY <1>4, <1>5, <1>6, <1>7, <1>8 DEF Planning
<1>9. CASE UpdateProductFacts \/ ChangeMode
  BY <1>9, FactsStep, ChangeModeStep
<1>10. CASE UNCHANGED vars
  <2>1. TypeOK'
    BY <1>10 DEF vars, LifeInv, TypeOK
  <2> QED BY <1>10, <2>1, NothingWritten DEF vars
<1> QED BY <1>1, <1>2, <1>3, <1>8, <1>9, <1>10 DEF Next

\* The types, what holds of every version, and what a transaction has validated hold always.
THEOREM LifecycleInvariant == Spec => []LifeInv
BY InitInv, NextInv, PTL DEF Spec

\* Whatever handlers ran since it was scheduled, a publication that waits for its first attempt
\* is of the version on show, approved and written from the facts in force.
THEOREM WaitingIsReady == Spec => []QueuedIsReady
<1>1. LifeInv => QueuedIsReady
  BY DEF LifeInv, RowsInv, Sound, QueuedIsReady
<1> QED BY <1>1, LifecycleInvariant, PTL

\* What an item says of its publication is what the job of the version on show says, unless
\* the platform's answer about an earlier version went over one that was never planned.
THEOREM ItemsAgree == Spec => []ItemAgreesWithJob
<1>1. LifeInv => ItemAgreesWithJob
  <2> SUFFICES ASSUME LifeInv, NEW i \in Items, item[i].status \in Settled
               PROVE  CurrentJob(i).status = item[i].status \/ ShowsEarlierPost(i)
    BY DEF ItemAgreesWithJob
  <2>1. Current(i) \in Versions
    BY CurrentVersion DEF LifeInv
  <2>2. Sound(i, Current(i))
    BY <2>1, RowFacts
  <2>3. CASE CurrentJob(i).status = item[i].status
    BY <2>3
  <2>4. CASE item[i].status = "PUBLISHED" /\ CurrentJob(i).status = "NONE"
    <3>1. PICK u \in Versions : u # Current(i) /\ Confirmed(i, u)
      BY <2>4 DEF LifeInv, LateInv, Late
    <3>2. ~(u > Current(i))
      BY <3>1, RowFacts DEF Confirmed
    <3>3. u < Current(i)
      BY <2>1, <3>1, <3>2, LifecycleAssumption DEF Versions
    <3> QED BY <2>4, <3>1, <3>3 DEF Confirmed, ShowsEarlierPost
  <2> QED BY <2>2, <2>3, <2>4 DEF Sound, CurrentJob
<1> QED BY <1>1, LifecycleInvariant, PTL

\* The task of a manual publication stands where its job stands.
THEOREM TasksMatch == Spec => []ManualTaskMatches
<1>1. LifeInv => ManualTaskMatches
  <2> SUFFICES ASSUME LifeInv, NEW i \in Items, NEW v \in Versions, job[i][v].adapter = "manual"
               PROVE  CASE job[i][v].status = "MANUAL_PENDING" ->
                             task[i][v] = [status |-> "TODO", due |-> job[i][v].slot]
                        [] job[i][v].status = "RUNNING" -> task[i][v].status = "IN_PROGRESS"
                        [] job[i][v].status = "UNKNOWN" -> task[i][v].status = "WAITING_EXTERNAL"
                        [] OTHER -> task[i][v].status \notin OpenTask
    BY DEF ManualTaskMatches
  <2>1. RowSound(job[i][v], task[i][v]) /\ job[i][v] \in JobRows
    BY RowFacts
  <2>2. job[i][v].status \in {"MANUAL_PENDING", "RUNNING", "UNKNOWN", "PUBLISHED", "FAILED", "CANCELLED"}
    BY <2>1 DEF RowSound, JobRows, JobStatus, ConflictStatus, MutableStatus
  <2> QED BY <2>1, <2>2 DEF RowSound
<1> QED BY <1>1, LifecycleInvariant, PTL

\* What a person reports of a publication begun by hand can be recorded.
THEOREM ResultsRecordable == Spec => []ManualResultRecordable
<1>1. LifeInv => ManualResultRecordable
  BY DEF LifeInv, RowsInv, Sound, ManualResultRecordable
<1> QED BY <1>1, LifecycleInvariant, PTL

\* Two publications of an account that wait for their first attempt are a window apart.
THEOREM ApartAlways == Spec => []SlotsApart
<1>1. LifeInv => SlotsApart
  BY DEF LifeInv, ApartInv, Waits, SlotsApart
<1> QED BY <1>1, LifecycleInvariant, PTL

\* Only an approved version written from the facts in force is sent, by a worker or by hand.
THEOREM SentIsApproved == Spec => SentAsApproved
<1>1. ASSUME LifeInv, Next, NEW i \in Items, item[i].status # "RUNNING", item'[i].status = "RUNNING"
      PROVE  Approved(i) /\ ~Stale(i) /\ CurrentJob(i)'.status = "RUNNING"
  <2>1. TypeOK /\ item[i] \in ItemRows /\ Current(i) \in Versions
    BY <1>1, CurrentVersion DEF LifeInv
  <2>2. CASE \E v \in Versions : Dispatch(i, v)
    <3>1. PICK v \in Versions : Dispatch(i, v)
      BY <2>2
    <3>2. /\ v = Current(i) /\ Approved(i) /\ ~Stale(i) /\ job[i][v].status = "RUNNING"
          /\ item'[i].version = item[i].version /\ job'[i][v].status = job[i][v].status
      BY <2>1, <3>1 DEF Dispatch, Gate, Held, TypeOK, ItemRows, JobRows
    <3> QED BY <3>2 DEF CurrentJob, Current
  <2>3. CASE StartManualPublish(i)
    <3>1. PICK v \in Versions : v = Current(i)
      BY <2>1
    <3>2. /\ Approved(i) /\ job[i][v].status = "MANUAL_PENDING"
          /\ item'[i].version = item[i].version /\ job'[i][v].status = "RUNNING"
      BY <2>1, <2>3, <3>1 DEF StartManualPublish, TypeOK, ItemRows, JobRows
    <3>3. ~Stale(i)
      BY <1>1, <3>1, <3>2, RowFacts DEF Sound
    <3> QED BY <3>1, <3>2, <3>3 DEF CurrentJob, Current
  \* Everything else leaves the item as it was, or gives it another status.
  <2>4. item'[i] # item[i]
    BY <1>1
  <2>5. ASSUME NEW k \in Items, NEW R, item' = [item EXCEPT ![k] = R], R.status # "RUNNING"
        PROVE  FALSE
    BY <1>1, <2>1, <2>5 DEF TypeOK
  <2>6. ASSUME NEW k \in Items, NEW R, item' = [item EXCEPT ![k] = R], k # i
        PROVE  FALSE
    BY <2>1, <2>4, <2>6 DEF TypeOK
  <2>7. ASSUME NEW k \in Items, NEW s, item' = [item EXCEPT ![k].status = s], s # "RUNNING"
        PROVE  FALSE
    <3>1. [item[k] EXCEPT !.status = s].status = s
      BY <2>1 DEF TypeOK, ItemRows
    <3>2. item' = [item EXCEPT ![k] = [item[k] EXCEPT !.status = s]]
      BY <2>7
    <3> QED BY <2>5, <2>7, <3>1, <3>2
  <2>8. ASSUME NEW k \in Items, NEW s, s # "RUNNING",
               item' = [item EXCEPT ![k] = [@ EXCEPT !.status = s, !.slot = NoSlot]]
        PROVE  FALSE
    <3>1. [item[k] EXCEPT !.status = s, !.slot = NoSlot].status = s
      BY <2>1 DEF TypeOK, ItemRows
    <3>2. item' = [item EXCEPT ![k] = [item[k] EXCEPT !.status = s, !.slot = NoSlot]]
      BY <2>8
    <3> QED BY <2>5, <2>8, <3>1, <3>2
  <2>9. ASSUME NEW k \in Items, Authoring(k)
        PROVE  FALSE
    <3>1. CASE CheckForReview(k)
      BY <2>4, <3>1 DEF CheckForReview
    <3>2. CASE SubmitForReview(k)
      BY <2>8, <3>2 DEF SubmitForReview
    <3>3. CASE EditContentVersion(k)
      <4>1. PICK a \in Accounts : item' = [item EXCEPT ![k] = [status |-> "DRAFT",
              version |-> Current(k) + 1, account |-> a, slot |-> NoSlot]]
        BY <3>3 DEF EditContentVersion
      <4> DEFINE R == [status |-> "DRAFT", version |-> Current(k) + 1, account |-> a,
                       slot |-> NoSlot]
      <4>2. item' = [item EXCEPT ![k] = R] /\ R.status = "DRAFT"
        BY <4>1
      <4> HIDE DEF R
      <4> QED BY <2>5, <4>2
    <3>4. ASSUME NEW d, Decide(k, d)
          PROVE  FALSE
      BY <2>8, <3>4 DEF Decide
    <3> QED BY <2>9, <3>1, <3>2, <3>3, <3>4 DEF Authoring, ReviewContent, RequestContentChanges
  <2>10. ASSUME NEW k \in Items, ByHand(k), k # i \/ ~StartManualPublish(k)
         PROVE  FALSE
    <3>1. CASE StartManualPublish(k)
      <4>1. item' = [item EXCEPT ![k] = [item[k] EXCEPT !.status = "RUNNING"]]
        BY <3>1 DEF StartManualPublish
      <4> QED BY <2>6, <2>10, <3>1, <4>1
    <3>2. CASE RecordManualPublishResult(k)
      <4>1. PICK outcome \in Outcomes : item' = [item EXCEPT ![k].status = outcome]
        BY <3>2 DEF RecordManualPublishResult
      <4> QED BY <2>7, <4>1 DEF Outcomes
    <3> QED BY <2>10, <3>1, <3>2 DEF ByHand
  <2>11. ASSUME NEW k \in Items, NEW v \in Versions, Publishing(k, v), k # i \/ ~Dispatch(k, v)
         PROVE  FALSE
    <3>1. CASE item' = item
      BY <2>4, <3>1
    <3>2. CASE Dispatch(k, v)
      <4>1. item' = [item EXCEPT ![k] = [item[k] EXCEPT !.status = "RUNNING"]]
        BY <3>2 DEF Dispatch
      <4> QED BY <2>6, <2>11, <3>2, <4>1
    <3>3. CASE \E s \in Outcomes \cup {"SCHEDULED"} : item' = [item EXCEPT ![k].status = s]
      BY <2>7, <3>3 DEF Outcomes
    <3>4. CASE RecordResult(k, v)
      BY <3>3, <3>4 DEF RecordResult
    <3>5. CASE ReconcileUnknownPublish(k, v)
      BY <3>1, <3>3, <3>5 DEF ReconcileUnknownPublish, Outcomes
    <3>6. CASE WriteAnswer(k, v)
      BY <3>1, <3>3, <3>6 DEF WriteAnswer, Outcomes
    <3> QED BY <2>11, <3>1, <3>2, <3>4, <3>5, <3>6
            DEF Publishing, Claim, GiveUpClaim, BeginReconciliation, AskPlatform, ReceiveAnswer,
                UpdateTask
  <2>12. CASE Planning
    <3>1. CASE item' = item
      BY <2>4, <3>1
    <3>2. ASSUME NEW t \in txns, CommitSchedule(t)
          PROVE  FALSE
      <4>1. PICK k \in t.items : item' = [item EXCEPT ![k] = [item[k] EXCEPT
                                   !.status = "SCHEDULED", !.slot = t.slot]]
        BY <3>2 DEF CommitSchedule
      <4>2. k \in Items
        BY <2>1, <3>2, <4>1 DEF TypeOK, Transactions
      <4>3. [item[k] EXCEPT !.status = "SCHEDULED", !.slot = t.slot].status = "SCHEDULED"
        BY <2>1, <4>2 DEF TypeOK, ItemRows
      <4> QED BY <2>5, <4>1, <4>2, <4>3
    <3>3. ASSUME NEW t \in txns, CommitMove(t)
          PROVE  FALSE
      <4>1. CASE \A k \in t.items : CurrentJob(k).status \in MutableStatus
        <5>1. item' = [k \in Items |-> IF k \in t.items THEN [item[k] EXCEPT !.slot = t.slot]
                                                        ELSE item[k]]
          BY <3>3, <4>1 DEF CommitMove
        <5>2. [item[i] EXCEPT !.slot = t.slot].status = item[i].status
          BY <2>1 DEF ItemRows
        <5> QED BY <1>1, <5>1, <5>2
      <4>2. CASE ~(\A k \in t.items : CurrentJob(k).status \in MutableStatus)
        <5>1. item' = item
          BY <3>3, <4>2, Zenon DEF CommitMove
        <5> QED BY <2>4, <5>1
      <4> QED BY <4>1, <4>2
    <3> QED BY <2>12, <3>1, <3>2, <3>3
            DEF Planning, BeginSchedule, BeginQueueAssignment, Validate, BeginMove
  <2>13. CASE UpdateProductFacts
    <3>1. [item[i] EXCEPT !.status = "CHANGES_REQUESTED", !.slot = NoSlot].status # "RUNNING"
      BY <2>1 DEF ItemRows
    <3>2. item'[i] = [item[i] EXCEPT !.status = "CHANGES_REQUESTED", !.slot = NoSlot]
          \/ item'[i] = item[i]
      BY <2>13 DEF UpdateProductFacts
    <3> QED BY <1>1, <3>1, <3>2
  <2>14. CASE ChangeMode
    BY <2>4, <2>14 DEF ChangeMode
  <2> QED BY <1>1, <2>2, <2>3, <2>9, <2>10, <2>11, <2>12, <2>13, <2>14 DEF Next
<1>2. LifeInv /\ [Next]_vars =>
        [\A i \in Items : item[i].status # "RUNNING" /\ item'[i].status = "RUNNING" =>
           Approved(i) /\ ~Stale(i) /\ CurrentJob(i)'.status = "RUNNING"]_vars
  BY <1>1
<1> QED BY <1>2, LifecycleInvariant, PTL DEF Spec, SentAsApproved

\* An outcome is not overturned: a published job stays published, an unknown outcome only
\* becomes a known one, and a failure is overturned by the platform alone; but an operator who
\* read the job of an earlier version before the platform answered may still say it failed.
THEOREM OutcomesStand == Spec => OutcomeIsFinal
<1> DEFINE Stands(i, v) ==
             /\ job[i][v].status = "PUBLISHED" =>
                  job'[i][v].status = "PUBLISHED"
                  \/ (job'[i][v].status = "FAILED" /\ Reconciling(i, v) /\ v # Current(i))
             /\ job[i][v].status = "UNKNOWN" => job'[i][v].status \in Outcomes
             /\ job[i][v].status = "FAILED" =>
                  job'[i][v].status = "FAILED" \/ (job[i][v].told /\ job'[i][v].status = "PUBLISHED")
<1>1. ASSUME NEW i \in Items, NEW v \in Versions, job'[i][v].status = job[i][v].status
      PROVE  Stands(i, v)
  BY <1>1 DEF Outcomes
<1>2. ASSUME LifeInv, Next, NEW i \in Items, NEW v \in Versions
      PROVE  Stands(i, v)
  <2>1. /\ TypeOK /\ job[i][v] \in JobRows /\ task[i][v] \in TaskRows
        /\ Sound(i, v) /\ RowSound(job[i][v], task[i][v])
    BY <1>2, RowFacts DEF LifeInv
  <2>2. ASSUME NEW k \in Items, TakeOutOfQueue(k)
        PROVE  Stands(i, v)
    <3>1. CASE job'[i][v] = job[i][v]
      BY <1>1, <3>1
    <3>2. CASE job'[i][v] = Cancelled(job[i][v])
      <4>1. CASE job[i][v].status \in Outcomes
        <5>1. Cancelled(job[i][v]) = job[i][v]
          BY <2>1, <4>1, CancelledRow DEF Outcomes, MutableStatus
        <5> QED BY <1>1, <3>2, <5>1
      <4>2. CASE job[i][v].status \notin Outcomes
        BY <4>2 DEF Outcomes
      <4> QED BY <4>1, <4>2
    <3> QED BY <2>1, <2>2, <3>1, <3>2 DEF TakeOutOfQueue, TypeOK
  <2>3. CASE job' = job
    BY <1>1, <2>3
  <2>4. ASSUME NEW k \in Items, NEW w \in Versions, NEW J,
               job' = [job EXCEPT ![k][w] = J], k # i \/ w # v \/ job[k][w].status \notin Outcomes
        PROVE  Stands(i, v)
    <3>1. CASE k # i \/ w # v
      BY <1>1, <2>1, <2>4, <3>1 DEF TypeOK
    <3>2. CASE job[i][v].status \notin Outcomes
      BY <3>2 DEF Outcomes
    <3> QED BY <2>4, <3>1, <3>2
  <2>5. ASSUME NEW k \in Items, NEW w \in Versions,
               Claim(k, w) \/ GiveUpClaim(k, w) \/ Dispatch(k, w) \/ RecordResult(k, w)
        PROVE  Stands(i, v)
    <3>1. job[k][w].status \notin Outcomes
      BY <2>5 DEF Claim, GiveUpClaim, Dispatch, RecordResult, Held, Outcomes
    <3>2. \E J : job' = [job EXCEPT ![k][w] = J]
      BY <2>5 DEF Claim, GiveUpClaim, Dispatch, RecordResult
    <3> QED BY ZenonT(60), <2>4, <3>1, <3>2
  <2>6. ASSUME NEW k \in Items, StartManualPublish(k) \/ RecordManualPublishResult(k)
        PROVE  Stands(i, v)
    <3>1. PICK w \in Versions : w = Current(k)
      BY <2>1, CurrentVersion
    <3>2. CASE StartManualPublish(k)
      BY <2>4, <3>1, <3>2 DEF StartManualPublish, Outcomes
    <3>3. CASE RecordManualPublishResult(k)
      <4>1. PICK outcome \in Outcomes : /\ MayRecord(job[k][w].status, outcome)
                                        /\ job' = [job EXCEPT ![k][w].status = outcome]
        BY <3>1, <3>3 DEF RecordManualPublishResult
      <4>2. CASE k = i /\ w = v
        <5>1. job'[i][v].status = outcome
          BY <2>1, <4>1, <4>2 DEF TypeOK, JobRows
        <5> QED BY <4>1, <4>2, <5>1 DEF MayRecord, Outcomes
      <4>3. CASE k # i \/ w # v
        BY <2>4, <4>1, <4>3
      <4> QED BY <4>2, <4>3
    <3> QED BY <2>6, <3>2, <3>3
  <2>7. ASSUME NEW k \in Items, NEW w \in Versions, ReconcileUnknownPublish(k, w)
        PROVE  Stands(i, v)
    <3> SUFFICES ASSUME NEW outcome \in {"PUBLISHED", "FAILED"},
                        job' = [job EXCEPT ![k][w] = [@ EXCEPT !.status = outcome,
                                  !.told = job[k][w].told \/ outcome = "PUBLISHED"]]
                 PROVE  Stands(i, v)
      BY <2>3, <2>7 DEF ReconcileUnknownPublish
    <3>1. job' = [job EXCEPT ![k][w] = [@ EXCEPT !.status = outcome,
                    !.told = job[k][w].told \/ outcome = "PUBLISHED"]]
      OBVIOUS
    <3>2. CASE k = i /\ w = v
      <4> DEFINE J == [job[i][v] EXCEPT !.status = outcome,
                                        !.told = job[i][v].told \/ outcome = "PUBLISHED"]
      <4>1. J.status = outcome
        BY <2>1 DEF JobRows
      <4>2. job' = [job EXCEPT ![i][v] = J]
        BY <3>1, <3>2
      <4>3. job'[i][v] = J
        BY <2>1, <4>2 DEF TypeOK
      <4>4. /\ Reconciling(i, v) /\ job[i][v].status \in {"UNKNOWN", "PUBLISHED"}
            /\ v = Current(i) => job[i][v].status = "UNKNOWN"
        BY <2>1, <2>7, <3>2 DEF ReconcileUnknownPublish, Sound
      <4> QED BY <4>1, <4>3, <4>4 DEF Outcomes
    <3>3. CASE k # i \/ w # v
      <4>1. \E J : job' = [job EXCEPT ![k][w] = J]
        BY <3>1
      <4> QED BY <2>4, <3>3, <4>1
    <3> QED BY <3>2, <3>3
  <2>8. ASSUME NEW k \in Items, NEW w \in Versions, ReceiveAnswer(k, w) \/ WriteAnswer(k, w)
        PROVE  Stands(i, v)
    <3>1. CASE job' = [job EXCEPT ![k][w].status = "PUBLISHED"]
      <4>1. CASE k = i /\ w = v
        <5>1. job'[i][v].status = "PUBLISHED" /\ job[i][v].told
          BY <2>1, <2>8, <3>1, <4>1 DEF TypeOK, JobRows, ReceiveAnswer, WriteAnswer, Answering, Sound
        <5> QED BY <5>1 DEF Outcomes
      <4>2. CASE k # i \/ w # v
        BY <2>4, <3>1, <4>2
      <4> QED BY <4>1, <4>2
    <3> QED BY <2>3, <2>8, <3>1 DEF ReceiveAnswer, WriteAnswer
  <2>9. CASE UpdateProductFacts
    <3>1. CASE i \in ProductItems
      <4>1. job'[i][v] = Cancelled(job[i][v])
        BY <2>9, <3>1 DEF UpdateProductFacts
      <4>2. CASE job[i][v].status \in Outcomes
        <5>1. Cancelled(job[i][v]) = job[i][v]
          BY <2>1, <4>2, CancelledRow DEF Outcomes, MutableStatus
        <5> QED BY <1>1, <4>1, <5>1
      <4>3. CASE job[i][v].status \notin Outcomes
        BY <4>3 DEF Outcomes
      <4> QED BY <4>2, <4>3
    <3>2. CASE i \notin ProductItems
      <4>1. job'[i][v] = job[i][v]
        BY <2>9, <3>2 DEF UpdateProductFacts
      <4> QED BY <1>1, <4>1
    <3> QED BY <3>1, <3>2
  <2>10. ASSUME NEW t \in txns, CommitSchedule(t)
         PROVE  Stands(i, v)
    <3>1. PICK k \in t.items : \E J : job' = [job EXCEPT ![k][Current(k)] = J]
      BY <2>10 DEF CommitSchedule
    <3>2. k \in Items /\ t.kind = "schedule"
      BY <2>1, <2>10 DEF TypeOK, Transactions, CommitSchedule
    <3>3. PICK w \in Versions : w = Current(k)
      BY <2>1, <3>2, CurrentVersion
    <3>4. job[k][w].status \notin Outcomes
      BY <1>2, <3>2, <3>3 DEF LifeInv, TxnsInv, Holds, Schedulable, CurrentJob, Outcomes
    <3> QED BY <2>4, <3>1, <3>2, <3>3, <3>4
  <2>11. ASSUME NEW t \in txns, CommitMove(t)
         PROVE  Stands(i, v)
    <3>1. CASE job' = job
      BY <2>3, <3>1
    <3>2. CASE job' = [k \in Items |-> [w \in Versions |->
                 IF k \in t.items /\ w = Current(k) THEN [job[k][w] EXCEPT !.slot = t.slot]
                                                    ELSE job[k][w]]]
      <4>1. job'[i][v].status = job[i][v].status
        BY <2>1, <3>2 DEF JobRows
      <4> QED BY <1>1, <4>1
    <3> QED BY <2>11, <3>1, <3>2 DEF CommitMove
  <2>12. CASE Planning
    <3>1. ASSUME NEW k \in Items, BeginSchedule(k) \/ BeginQueueAssignment(k) PROVE job' = job
      BY <3>1 DEF BeginSchedule, BeginQueueAssignment, Validate
    <3>2. ASSUME NEW S \in SUBSET Items, BeginMove(S) PROVE job' = job
      BY <3>2 DEF BeginMove
    <3> QED BY <2>3, <2>10, <2>11, <2>12, <3>1, <3>2 DEF Planning
  <2>13. ASSUME NEW k \in Items, Authoring(k)
         PROVE  Stands(i, v)
    BY <2>2, <2>3, <2>13 DEF Authoring, CheckForReview, SubmitForReview, EditContentVersion,
       ReviewContent, RequestContentChanges, Decide
  <2>14. ASSUME NEW k \in Items, NEW w \in Versions, Publishing(k, w)
         PROVE  Stands(i, v)
    BY <2>3, <2>5, <2>7, <2>8, <2>14 DEF Publishing, BeginReconciliation, AskPlatform, UpdateTask
  <2>15. CASE ChangeMode
    BY <2>3, <2>15 DEF ChangeMode
  <2> QED BY <1>2, <2>6, <2>9, <2>12, <2>13, <2>14, <2>15 DEF Next, ByHand
<1>3. LifeInv /\ [Next]_vars => [\A i \in Items, v \in Versions : Stands(i, v)]_vars
  BY <1>2
<1> QED BY <1>3, LifecycleInvariant, PTL DEF Spec, OutcomeIsFinal
=============================================================================
