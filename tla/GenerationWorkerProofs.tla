----------------------- MODULE GenerationWorkerProofs -----------------------
(***************************************************************************)
(* What the server process promises, proved for every queue, every         *)
(* capacity table and any number of restarts: it uses the task table only  *)
(* through the table's own transactions, one call of a backend makes all   *)
(* the submissions a task is ever charged for, every running coroutine has a slot, a coroutine that has  *)
(* returned leaves a settled row, every running row has somebody who will  *)
(* end it, and no lane takes more work than its capacity.                  *)
(***************************************************************************)
EXTENDS GenerationWorker, TaskTableProofs, FiniteSetTheorems

(***************************************************************************)
(* Types, and the use of the task table                                    *)
(***************************************************************************)

(* Between a claim and its placement the main loop holds a task.           *)
HeldOK == loop = "held" => held \in Task

TypeInv == WorkerTypeOK /\ HeldOK

(* A step of the server is, for the tables, a transaction or nothing.      *)
LEMMA QueueStep ==
  ASSUME HeldOK, [WorkerNext]_vars
  PROVE  [Next]_tableVars
<1> USE DEF Next
<1>s. ASSUME NEW t \in Task, Settle(t) PROVE [Next]_tableVars
  BY <1>s DEF Settle
<1>f. ASSUME NEW t \in Task, FailOrSettle(t) PROVE [Next]_tableVars
  BY <1>f, <1>s DEF FailOrSettle
<1>1. CASE MainLoop
  <2>1. CASE Drain \/ DrainDone \/ ListOrphans \/ ScanDone \/ NothingToClaim \/ RegisterHeld
    BY <2>1 DEF Drain, DrainDone, ListOrphans, ScanDone, NothingToClaim, RegisterHeld
  <2>2. CASE RefuseHeld \/ PutBackHeld
    BY <2>2 DEF RefuseHeld, PutBackHeld, HeldOK
  <2>3. CASE \E t \in Task : DrainKilled(t) \/ ScanOrphan(t) \/ Claim(t)
    BY <2>3, <1>s, <1>f DEF DrainKilled, ScanOrphan, Claim
  <2>4. CASE \E l \in Lane : DispatchBucket(l)
    BY <2>4 DEF DispatchBucket
  <2> QED BY <1>1, <2>1, <2>2, <2>3, <2>4 DEF MainLoop
<1>2. CASE Background
  <2>1. PICK t \in Task : Coroutine(t) \/ Signal(t) \/ RefuseOrphan(t)
    BY <1>2 DEF Background
  <2>2. CASE Signal(t) \/ RefuseOrphan(t)
    BY <2>2, <1>f DEF Signal, RefuseOrphan
  <2>3. CASE Coroutine(t)
    BY <2>3, <1>s DEF Coroutine, Enter, Acquire, ResumePoll, Submit, Resend, PersistJobId,
                      Deliver, Fail, WriteOk, WriteFail, WriteCancel
  <2> QED BY <2>1, <2>2, <2>3
<1>3. CASE Environment
  <2>1. CASE Crash \/ Exit
    BY <2>1 DEF Crash, Exit, Forget, SessionsLost
  <2>2. CASE Start \/ StopRequested \/ \E c \in Capacities : Reload(c)
    BY <2>2 DEF Start, StopRequested, Reload
  <2>3. CASE \E p \in Swept : UserCancelsAll(p)
    BY <2>3, LaneAssumption DEF UserCancelsAll
  <2>4. CASE \E t \in Task : SubmitTask(t) \/ UserCancelReads(t) \/ UserCancels(t)
    BY <2>4 DEF SubmitTask, UserCancelReads, UserCancels
  <2> QED BY <1>3, <2>1, <2>2, <2>3, <2>4 DEF Environment
<1>4. CASE UNCHANGED vars
  BY <1>4 DEF vars
<1> QED BY <1>1, <1>2, <1>3, <1>4 DEF WorkerNext

(* The values a coroutine step may give to the coroutine variables.        *)
LEMMA CoroutineTypes ==
  ASSUME WorkerTypeOK, NEW t \in Task,
         \/ Return(t)
         \/ \E to \in CoState : MoveOn(t, to)
  PROVE  /\ co' \in [Task -> CoState] /\ resume' \subseteq Task
         /\ slot' \in [Task -> {"free", "pending", "inflight"}]
         /\ permits' \in [Lane -> Nat]
BY DEF Return, MoveOn, WorkerTypeOK, CoState

(* The types of the process's own variables, and HeldOK, are inductive.    *)
LEMMA TypeStep ==
  ASSUME TypeInv, [WorkerNext]_vars
  PROVE  TypeInv'
<1> USE LaneAssumption, NoTaskAssumption
<1>t. TypeOK'
  BY QueueStep, StepsAreMoves DEF TypeInv, WorkerTypeOK
<1>n. ASSUME NextMedia PROVE cursor' \in 1..3 /\ loop' \in {"claim", "top"}
  BY <1>n DEF NextMedia, MediaOrder, TypeInv, WorkerTypeOK
<1>r. \A t \in Task : Stirred(t) \subseteq Task /\ CancelSignals(t) \subseteq Task
  BY DEF Stirred, CancelSignals
<1>s. ASSUME NEW t \in Task, Settle(t) PROVE ring' \subseteq Task
  BY <1>s, <1>r DEF Settle, TypeInv, WorkerTypeOK
<1>f. ASSUME NEW t \in Task, FailOrSettle(t) PROVE ring' \subseteq Task
  BY <1>f, <1>s DEF FailOrSettle, TypeInv, WorkerTypeOK
<1> USE DEF TypeInv, HeldOK
<1>1. CASE MainLoop
  <2>1. CASE Drain \/ DrainDone \/ ListOrphans \/ ScanDone
    BY <1>t, <2>1 DEF Drain, DrainDone, ListOrphans, ScanDone, WorkerTypeOK, CoState,
                      coVars, paidVars
  <2>2. CASE NothingToClaim
    BY <1>t, <1>n, <2>2 DEF NothingToClaim, WorkerTypeOK, coVars, paidVars
  <2>3. CASE RefuseHeld
    BY <1>t, <2>3 DEF RefuseHeld, WorkerTypeOK, coVars, paidVars
  <2>4. CASE PutBackHeld
    BY <1>t, <1>n, <2>4 DEF PutBackHeld, WorkerTypeOK, coVars, paidVars
  <2>5. CASE RegisterHeld
    BY <1>t, <2>5 DEF RegisterHeld, WorkerTypeOK, CoState, Running, paidVars
  <2>6. ASSUME NEW t \in Task, DrainKilled(t) PROVE TypeInv'
    <3>1. MoveOn(t, "done") /\ "done" \in CoState /\ ring' \subseteq Task
      BY <2>6, <1>s DEF DrainKilled, CoState
    <3> QED BY <1>t, <2>6, <3>1, CoroutineTypes
            DEF DrainKilled, WorkerTypeOK, loopVars, paidVars
  <2>7. ASSUME NEW t \in Task, ScanOrphan(t) PROVE TypeInv'
    <3>1. ring' \subseteq Task
      BY <2>7, <1>s, <1>f DEF ScanOrphan, WorkerTypeOK
    <3> QED BY <1>t, <2>7, <3>1 DEF ScanOrphan, WorkerTypeOK, coVars, paidVars
  <2>8. ASSUME NEW t \in Task, Claim(t) PROVE TypeInv'
    BY <1>t, <2>8 DEF Claim, WorkerTypeOK, coVars, paidVars
  <2>9. ASSUME NEW l \in Lane, DispatchBucket(l) PROVE TypeInv'
    <3>1. cap' \in Capacities /\ cap'[l] \in Nat
      BY <2>9 DEF DispatchBucket, WorkerTypeOK
    <3>2. /\ co' \in [Task -> CoState] /\ resume' \subseteq Task
          /\ slot' \in [Task -> {"free", "pending", "inflight"}]
          /\ permits' \in [Lane -> Nat]
          /\ orphan' \in [Task -> {"none", "running", "cancelling", "resume", "refuse"}]
      BY <2>9, <3>1 DEF DispatchBucket, WorkerTypeOK, coVars, Bucket, CoState, Running
    <3> QED BY <1>t, <2>9, <3>1, <3>2 DEF DispatchBucket, WorkerTypeOK, paidVars
  <2> QED BY <1>1, <2>1, <2>2, <2>3, <2>4, <2>5, <2>6, <2>7, <2>8, <2>9 DEF MainLoop
<1>2. CASE Background
  <2>1. PICK t \in Task : Coroutine(t) \/ Signal(t) \/ RefuseOrphan(t)
    BY <1>2 DEF Background
  <2>2. CASE RefuseOrphan(t)
    BY <1>t, <1>f, <2>2 DEF RefuseOrphan, WorkerTypeOK, coVars, paidVars
  <2>3. CASE Signal(t)
    <3>1. Interrupted(t) \in CoState
      BY DEF Interrupted, CoState, Running
    <3>2. /\ co' \in [Task -> CoState] /\ resume' \subseteq Task
          /\ slot' \in [Task -> {"free", "pending", "inflight"}]
          /\ permits' \in [Lane -> Nat]
      BY <2>3, <3>1, CoroutineTypes DEF Signal, WorkerTypeOK, coVars
    <3> QED BY <1>t, <2>3, <3>2 DEF Signal, WorkerTypeOK, loopVars, paidVars
  <2>4. CASE Coroutine(t)
    <3>1. CASE Acquire(t)
      BY <1>t, <3>1 DEF Acquire, WorkerTypeOK, CoState, Running, loopVars, paidVars
    <3>2. CASE WriteCancel(t)
      BY <1>t, <1>s, <3>2, CoroutineTypes DEF WriteCancel, WorkerTypeOK, loopVars, paidVars
    <3>3. CASE \/ Resend(t) \/ ResumePoll(t) \/ Deliver(t) \/ Fail(t)
               \/ WriteOk(t) \/ WriteFail(t)
      <4>1. Return(t) \/ \E to \in CoState : MoveOn(t, to)
        BY <3>3 DEF Resend, ResumePoll, Deliver, Fail, WriteOk, WriteFail, CoState, Running
      <4>2. UNCHANGED <<up, starts, loopVars, cap, ring, paidVars>>
        BY <3>3 DEF Resend, ResumePoll, Deliver, Fail, WriteOk, WriteFail
      <4> QED BY <1>t, <4>1, <4>2, CoroutineTypes DEF WorkerTypeOK, loopVars, paidVars
    <3>4. CASE Enter(t) \/ Submit(t) \/ PersistJobId(t)
      <4>1. Return(t) \/ \E to \in CoState : MoveOn(t, to)
        BY <3>4 DEF Enter, Submit, PersistJobId, CoState, Running
      <4>2. submits' \in [Task -> Nat] /\ tries' \in [Task -> Nat] /\ job' \subseteq Task
        BY <3>4 DEF Enter, Submit, PersistJobId, WorkerTypeOK
      <4>3. UNCHANGED <<up, starts, loopVars, cap, ring>>
        BY <3>4 DEF Enter, Submit, PersistJobId
      <4> QED BY <1>t, <4>1, <4>2, <4>3, CoroutineTypes DEF WorkerTypeOK, loopVars
    <3> QED BY <2>4, <3>1, <3>2, <3>3, <3>4 DEF Coroutine
  <2> QED BY <2>1, <2>2, <2>3, <2>4
<1>3. CASE Environment
  <2>1. CASE Crash \/ Exit
    BY <1>t, <2>1 DEF Crash, Exit, Forget, WorkerTypeOK, CoState, paidVars
  <2>2. CASE Start \/ StopRequested \/ \E c \in Capacities : Reload(c)
    BY <1>t, <2>2 DEF Start, StopRequested, Reload, WorkerTypeOK, loopVars, coVars, paidVars
  <2>3. CASE \E p \in Swept : UserCancelsAll(p)
    BY <1>t, <2>3 DEF UserCancelsAll, WorkerTypeOK, workerVars, loopVars, coVars, paidVars
  <2>4. CASE \E t \in Task : SubmitTask(t) \/ UserCancelReads(t)
    BY <1>t, <2>4 DEF SubmitTask, UserCancelReads, WorkerTypeOK, workerVars,
                      loopVars, coVars, paidVars
  <2>5. CASE \E t \in Task : UserCancels(t)
    BY <1>t, <1>r, <2>5 DEF UserCancels, WorkerTypeOK, loopVars, coVars, paidVars
  <2> QED BY <1>3, <2>1, <2>2, <2>3, <2>4, <2>5 DEF Environment
<1>4. CASE UNCHANGED vars
  BY <1>t, <1>4 DEF vars, workerVars, loopVars, coVars, paidVars, WorkerTypeOK
<1> QED BY <1>1, <1>2, <1>3, <1>4 DEF WorkerNext

(* The types hold initially.                                               *)
LEMMA TypeInit == WorkerInit => TypeInv
BY LaneAssumption, NoTaskAssumption
   DEF WorkerInit, Init, TypeInv, HeldOK, WorkerTypeOK, TypeOK, Status, CoState

(* The variables of the server process keep their types.                   *)
THEOREM WorkerTyping == WorkerSpec => []WorkerTypeOK
<1>1. TypeInv /\ [WorkerNext]_vars => TypeInv'
  BY TypeStep
<1>2. TypeInv => WorkerTypeOK
  BY DEF TypeInv
<1> QED BY <1>1, <1>2, TypeInit, PTL DEF WorkerSpec

(* The server implements the task table, so that Deduplication,            *)
(* DependencyOrder, NoStranding, EventLog and Refinement hold under it,    *)
(* across its restarts.                                                    *)
THEOREM ServerUsesTheTable == WorkerSpec => UsesTheTable
<1>1. WorkerInit => Init
  BY DEF WorkerInit
<1>2. TypeInv /\ [WorkerNext]_vars => TypeInv' /\ [Next]_tableVars
  BY TypeStep, QueueStep DEF TypeInv
<1> QED BY <1>1, <1>2, TypeInit, PTL DEF WorkerSpec, UsesTheTable, Spec

(* What a user of the queue may rely on, with the whole server under it:   *)
(* its dispatcher, coroutines, reloads, cancellations, crashes and         *)
(* restarts. Statuses follow the life cycle, no two active tasks share a   *)
(* key, a task runs only after the one it depends on, the event log tells  *)
(* each status, and what was queued behind a task that fails or is         *)
(* cancelled goes along with it.                                           *)
THEOREM ServerKeepsThePromises ==
  WorkerSpec => /\ FollowsLifecycle
                /\ NobodyIsStranded
                /\ [](OneActivePerKey /\ RunsAfterDependency /\ EventsTellTheStatus)
<1>1. WorkerSpec => Spec
  BY ServerUsesTheTable DEF UsesTheTable
<1> QED BY <1>1, Refinement, NoStranding, Deduplication, DependencyOrder, EventLog, PTL

(***************************************************************************)
(* One call pays                                                           *)
(***************************************************************************)

(* Nobody works on the task in this process, and nobody ever submitted it. *)
Untouched(t) == submits[t] = 0 /\ co[t] = "none"

(* The strengthening: a task that may still be claimed, and the one just   *)
(* claimed, are untouched; a coroutine about to submit belongs to a task   *)
(* without a submission, unless its call resends, and after it to one with *)
(* a submission; job ids and resumes belong to submitted tasks.            *)
PaidInv ==
  /\ \A t \in Task : status[t] \in {"absent", "queued"} => Untouched(t)
  /\ held \in Task => Untouched(held) /\ status[held] \notin {"absent", "queued"}
  /\ \A t \in Task : co[t] = "new" /\ t \notin resume => submits[t] = 0
  /\ \A t \in Task : co[t] = "exec"
                       => (submits[t] = 0 \/ t \in Resends) /\ t \notin resume
  /\ \A t \in Task : co[t] = "sent" => submits[t] >= 1
  /\ \A t \in Task : t \in job => submits[t] >= 1
  /\ resume \subseteq job
  /\ \A t \in Task : orphan[t] = "resume" => t \in job
  /\ SubmittedByOneCall

(* No row comes back to the queue.                                         *)
KeepsLeft == \A t \in Task : status[t] \notin {"absent", "queued"}
                               => status'[t] \notin {"absent", "queued"}

(* No write of an outcome, a claim or a cancellation queues a row.         *)
LEMMA OutcomesQueueNothing ==
  ASSUME TypeOK, NEW t \in Task,
         \/ MarkSucceeded(t) \/ MarkFailed(t) \/ FinalizeCancelled(t)
         \/ Settle(t) \/ FailOrSettle(t) \/ CancelDispatch(t) \/ ClaimNext(t)
         \/ UNCHANGED status
  PROVE  KeepsLeft
<1>1. ASSUME MarkFailedWrite(t) PROVE KeepsLeft
  BY <1>1 DEF MarkFailedWrite, Publish, KeepsLeft
<1>2. ASSUME MarkCancelledWrite(t) PROVE KeepsLeft
  BY <1>2 DEF MarkCancelledWrite, Publish, KeepsLeft
<1>3. ASSUME NEW s \in {"succeeded", "cancelling", "running"},
             Publish([status EXCEPT ![t] = s])
      PROVE  KeepsLeft
  BY <1>3 DEF Publish, KeepsLeft, TypeOK
<1>4. ASSUME UNCHANGED status PROVE KeepsLeft
  BY <1>4 DEF KeepsLeft
<1>5. MarkSucceeded(t) \/ ClaimNext(t) => KeepsLeft
  BY <1>3 DEF MarkSucceeded, ClaimNext
<1>6. MarkFailed(t) => KeepsLeft
  BY <1>1 DEF MarkFailed
<1>7. FinalizeCancelled(t) => KeepsLeft
  BY <1>2 DEF FinalizeCancelled
<1>8. Settle(t) => KeepsLeft
  BY <1>7, <1>4 DEF Settle, tableVars
<1>9. FailOrSettle(t) => KeepsLeft
  BY <1>6, <1>8 DEF FailOrSettle
<1>10. CancelDispatch(t) => KeepsLeft
  BY <1>2, <1>3, <1>4 DEF CancelDispatch, CancelWrite
<1> QED BY <1>4, <1>5, <1>6, <1>7, <1>8, <1>9, <1>10

(* A step that queues nothing and leaves the process's part alone.         *)
LEMMA PaidByFrame ==
  ASSUME PaidInv, KeepsLeft,
         UNCHANGED <<held, co, resume, job, submits, tries>>,
         \A t \in Task : orphan'[t] = "resume" => t \in job
  PROVE  PaidInv'
BY DEF PaidInv, KeepsLeft, Untouched, SubmittedByOneCall

(* A coroutine step after which the coroutine may do no more than before.  *)
LEMMA PaidByCoroutine ==
  ASSUME TypeInv, PaidInv, KeepsLeft,
         UNCHANGED <<held, orphan, resume, job, submits, tries>>,
         NEW t \in Task, co[t] # "none", NEW to \in CoState,
         co' = [co EXCEPT ![t] = to],
         to \notin {"new", "exec", "sent"}
           \/ (to = "exec" /\ t \in Resends /\ t \notin resume)
  PROVE  PaidInv'
BY DEF TypeInv, WorkerTypeOK, PaidInv, KeepsLeft, Untouched, SubmittedByOneCall

(* PaidInv is inductive.                                                   *)
LEMMA PaidStep ==
  ASSUME TypeInv, PaidInv, [WorkerNext]_vars
  PROVE  PaidInv'
<1> USE NoTaskAssumption
<1>t. TypeOK /\ WorkerTypeOK
  BY DEF TypeInv, WorkerTypeOK
<1>k. UNCHANGED tableVars => KeepsLeft
  BY DEF tableVars, KeepsLeft
<1>1. CASE MainLoop
  <2>1. CASE Drain
    BY <2>1, <1>t DEF Drain, PaidInv, WorkerTypeOK, Untouched, SubmittedByOneCall,
                      tableVars, coVars, paidVars
  <2>2. CASE DrainDone \/ ListOrphans \/ ScanDone \/ NothingToClaim
    <3>1. /\ UNCHANGED <<tableVars, held, co, resume, job, submits, tries>>
          /\ \A t \in Task : orphan'[t] = "resume" => t \in job
      BY <2>2, <1>t DEF DrainDone, ListOrphans, ScanDone, NothingToClaim, coVars,
                        paidVars, PaidInv, WorkerTypeOK
    <3> QED BY <3>1, <1>k, PaidByFrame
  <2>3. CASE RefuseHeld
    <3>1. held \in Task
      BY <2>3 DEF RefuseHeld, TypeInv, HeldOK
    <3>2. KeepsLeft
      BY <2>3, <3>1, <1>t, <1>k, OutcomesQueueNothing DEF RefuseHeld
    <3> QED BY <2>3, <3>2 DEF RefuseHeld, PaidInv, KeepsLeft, Untouched,
                              SubmittedByOneCall, coVars, paidVars
  <2>4. CASE PutBackHeld
    <3>1. held \in Task
      BY <2>4 DEF PutBackHeld, TypeInv, HeldOK
    <3>2. \A t \in Task : status'[t] = status[t] \/ t = held
      BY <2>4, <3>1, <1>t DEF PutBackHeld, RequeueSingle, TypeOK, tableVars
    <3> QED BY <2>4, <3>1, <3>2 DEF PutBackHeld, PaidInv, Untouched,
                              SubmittedByOneCall, coVars, paidVars
  <2>5. CASE RegisterHeld
    <3>1. held \in Task
      BY <2>5 DEF RegisterHeld, TypeInv, HeldOK
    <3> QED BY <2>5, <3>1, <1>t DEF RegisterHeld, PaidInv, Untouched,
                  SubmittedByOneCall, WorkerTypeOK, tableVars, paidVars
  <2>6. ASSUME NEW t \in Task, DrainKilled(t) PROVE PaidInv'
    <3>1. KeepsLeft
      BY <2>6, <1>t, OutcomesQueueNothing DEF DrainKilled
    <3>2. "done" \in CoState
      BY DEF CoState
    <3> QED BY <2>6, <3>1, <3>2, PaidByCoroutine
            DEF DrainKilled, MoveOn, loopVars, paidVars
  <2>7. ASSUME NEW t \in Task, ScanOrphan(t) PROVE PaidInv'
    <3>1. KeepsLeft
      BY <2>7, <1>t, <1>k, OutcomesQueueNothing DEF ScanOrphan
    <3>2. \A u \in Task : orphan'[u] = "resume" => u \in job
      BY <2>7, <1>t DEF ScanOrphan, PaidInv, WorkerTypeOK
    <3> QED BY <2>7, <3>1, <3>2, PaidByFrame DEF ScanOrphan, coVars, paidVars
  <2>8. ASSUME NEW t \in Task, Claim(t) PROVE PaidInv'
    <3>1. Untouched(t)
      BY <2>8 DEF Claim, ClaimNext, Claimable, PaidInv
    <3>2. KeepsLeft /\ status'[t] = "running"
      BY <2>8, <1>t, OutcomesQueueNothing DEF Claim, ClaimNext, Publish, TypeOK
    <3> QED BY <2>8, <3>1, <3>2 DEF Claim, PaidInv, KeepsLeft, Untouched,
                  SubmittedByOneCall, coVars, paidVars
  <2>9. ASSUME NEW l \in Lane, DispatchBucket(l) PROVE PaidInv'
    <3>1. /\ UNCHANGED <<tableVars, held, job, submits, tries>>
          /\ resume' \subseteq resume \cup Bucket(l)
          /\ resume \subseteq resume'
          /\ \A t \in Task : co'[t] = co[t] \/ (co'[t] = "new" /\ t \in resume' /\ t \in Bucket(l))
          /\ \A t \in Task : orphan'[t] = "resume" => orphan[t] = "resume"
          /\ \A t \in Task : co'[t] = "exec"
                               => co[t] = "exec" /\ (t \in resume' => t \in resume)
      BY <2>9, <1>t DEF DispatchBucket, coVars, paidVars, WorkerTypeOK, Bucket, PaidInv
    <3>2. \A t \in Bucket(l) : t \in Task /\ t \in job /\ submits[t] >= 1
      BY DEF Bucket, PaidInv
    <3> QED BY <3>1, <3>2, <1>t DEF PaidInv, Untouched, SubmittedByOneCall, tableVars, WorkerTypeOK
  <2> QED BY <1>1, <2>1, <2>2, <2>3, <2>4, <2>5, <2>6, <2>7, <2>8, <2>9 DEF MainLoop
<1>2. CASE Background
  <2>1. PICK t \in Task : Coroutine(t) \/ Signal(t) \/ RefuseOrphan(t)
    BY <1>2 DEF Background
  <2>2. CASE RefuseOrphan(t)
    <3>1. KeepsLeft
      BY <2>2, <1>t, OutcomesQueueNothing DEF RefuseOrphan
    <3>2. \A u \in Task : orphan'[u] = "resume" => u \in job
      BY <2>2, <1>t DEF RefuseOrphan, PaidInv, WorkerTypeOK
    <3> QED BY <2>2, <3>1, <3>2, PaidByFrame DEF RefuseOrphan, coVars, paidVars
  <2>3. CASE Signal(t)
    <3>1. CASE UNCHANGED coVars
      <4>1. /\ UNCHANGED <<tableVars, held, co, resume, job, submits, tries>>
            /\ \A u \in Task : orphan'[u] = "resume" => u \in job
        BY <2>3, <3>1 DEF Signal, coVars, loopVars, paidVars, PaidInv
      <4> QED BY <4>1, <1>k, PaidByFrame
    <3>2. CASE co[t] \in Running /\ MoveOn(t, Interrupted(t))
      <4>1. Interrupted(t) \in CoState /\ Interrupted(t) \notin {"new", "exec", "sent"}
        BY DEF Interrupted, CoState, Running
      <4>2. co[t] # "none"
        BY <3>2 DEF Running
      <4>3. /\ UNCHANGED <<held, orphan, resume, job, submits, tries>>
            /\ co' = [co EXCEPT ![t] = Interrupted(t)]
        BY <2>3, <3>2 DEF Signal, MoveOn, loopVars, paidVars
      <4>4. KeepsLeft
        BY <2>3, <1>k DEF Signal
      <4> QED BY <4>1, <4>2, <4>3, <4>4, PaidByCoroutine
    <3> QED BY <2>3, <3>1, <3>2 DEF Signal
  <2>4. CASE Submit(t)
    BY <2>4, <1>t DEF Submit, MoveOn, PaidInv, Untouched, SubmittedByOneCall, WorkerTypeOK,
                      tableVars, loopVars
  <2>5. CASE PersistJobId(t)
    BY <2>5, <1>t DEF PersistJobId, MoveOn, PaidInv, Untouched, SubmittedByOneCall,
                      WorkerTypeOK, tableVars, loopVars
  <2>6. CASE Resend(t) \/ Acquire(t) \/ ResumePoll(t) \/ Deliver(t) \/ Fail(t)
             \/ WriteOk(t) \/ WriteFail(t) \/ WriteCancel(t)
    <3> DEFINE Legal(to) == \/ to \notin {"new", "exec", "sent"}
                            \/ to = "exec" /\ t \in Resends /\ t \notin resume
    <3>1. KeepsLeft
      BY <2>6, <1>t, <1>k, OutcomesQueueNothing
         DEF Resend, MaySubmitAgain, Acquire, ResumePoll, Deliver, Fail, WriteOk, WriteFail, WriteCancel
    <3>2. UNCHANGED <<held, orphan, resume, job, submits, tries>>
      BY <2>6 DEF Resend, MaySubmitAgain, Acquire, ResumePoll, Deliver, Fail, WriteOk, WriteFail,
                  WriteCancel, Return, MoveOn, loopVars, paidVars
    <3>3. /\ co[t] # "none"
          /\ \E to \in CoState : co' = [co EXCEPT ![t] = to] /\ Legal(to)
      BY <2>6 DEF Resend, MaySubmitAgain, Acquire, ResumePoll, Deliver, Fail, WriteOk, WriteFail,
                  WriteCancel, Return, MoveOn, CoState, Running
    <3> HIDE DEF Legal
    <3>4. PICK to \in CoState : co' = [co EXCEPT ![t] = to] /\ Legal(to)
      BY <3>3
    <3> QED BY <3>1, <3>2, <3>3, <3>4, PaidByCoroutine DEF Legal
  <2>7. CASE Enter(t) /\ t \in resume
    <3>1. /\ UNCHANGED <<tableVars, held, orphan, resume, job, submits, tries>>
          /\ co[t] # "none" /\ co' = [co EXCEPT ![t] = "wait"]
      BY <2>7 DEF Enter, MoveOn, loopVars
    <3>2. "wait" \in CoState
      BY DEF CoState, Running
    <3> QED BY <3>1, <3>2, <1>k, PaidByCoroutine
  <2>8. CASE Enter(t) /\ t \notin resume
    <3>1. submits[t] = 0 /\ tries[t] = 0
      BY <2>8 DEF Enter, PaidInv, SubmittedByOneCall
    <3>2. /\ UNCHANGED <<tableVars, held, orphan, resume, job, submits, tries>>
          /\ co[t] = "new" /\ co' = [co EXCEPT ![t] = "exec"]
      <4>1. tries \in [Task -> Nat] /\ tries' = [tries EXCEPT ![t] = 0]
        BY <2>8, <1>t DEF Enter, WorkerTypeOK
      <4>2. tries' = tries
        BY ONLY <3>1, <4>1, t \in Task
      <4> QED BY <2>8, <4>2 DEF Enter, MoveOn, loopVars
    <3>3. \A u \in Task : co'[u] = IF u = t THEN "exec" ELSE co[u]
      BY <3>2, <1>t DEF WorkerTypeOK
    <3>4. \A u \in Task : Untouched(u) => u # t /\ Untouched(u)'
      BY <3>2, <3>3 DEF Untouched
    <3>5. UNCHANGED <<status, held, orphan, resume, job, submits, tries>>
      BY <3>2 DEF tableVars
    <3> QED BY <2>8, <3>1, <3>3, <3>4, <3>5 DEF PaidInv, SubmittedByOneCall
  <2> QED BY <2>1, <2>2, <2>3, <2>4, <2>5, <2>6, <2>7, <2>8 DEF Coroutine
<1>3. CASE Environment
  <2>1. CASE Crash \/ Exit
    BY <2>1, <1>t DEF Crash, Exit, Forget, PaidInv, Untouched, SubmittedByOneCall, paidVars
  <2>2. CASE Start \/ StopRequested \/ \E c \in Capacities : Reload(c)
    <3>1. UNCHANGED <<tableVars, held, orphan, co, resume, job, submits, tries>>
      BY <2>2 DEF Start, StopRequested, Reload, loopVars, coVars, paidVars
    <3> QED BY <3>1, <1>k, PaidByFrame DEF PaidInv
  <2>3. CASE \E p \in Swept : UserCancelsAll(p)
    <3>1. KeepsLeft
      BY <2>3 DEF UserCancelsAll, CancelAllRead, CancelAllWrite, KeepsLeft
    <3>2. UNCHANGED <<held, orphan, co, resume, job, submits, tries>>
      BY <2>3 DEF UserCancelsAll, workerVars, loopVars, coVars, paidVars
    <3> QED BY <3>1, <3>2, PaidByFrame DEF PaidInv
  <2>4. CASE \E t \in Task : UserCancelReads(t) \/ UserCancels(t)
    <3>1. KeepsLeft
      BY <2>4, <1>t, OutcomesQueueNothing DEF UserCancelReads, CancelRead, UserCancels
    <3>2. UNCHANGED <<held, orphan, co, resume, job, submits, tries>>
      BY <2>4 DEF UserCancelReads, UserCancels, workerVars, loopVars, coVars, paidVars
    <3> QED BY <3>1, <3>2, PaidByFrame DEF PaidInv
  <2>5. ASSUME NEW t \in Task, SubmitTask(t) PROVE PaidInv'
    <3>1. UNCHANGED <<held, orphan, co, resume, job, submits, tries>>
      BY <2>5 DEF SubmitTask, workerVars, loopVars, coVars, paidVars
    <3>2. Untouched(t) /\ held # t
      BY <2>5 DEF SubmitTask, Enqueue, PaidInv
    <3>3. \A u \in Task : u # t => status'[u] = status[u]
      BY <2>5, <1>t DEF SubmitTask, Enqueue, Publish, TypeOK
    <3> QED BY <3>1, <3>2, <3>3 DEF PaidInv, Untouched, SubmittedByOneCall
  <2> QED BY <1>3, <2>1, <2>2, <2>3, <2>4, <2>5 DEF Environment
<1>4. CASE UNCHANGED vars
  <2>1. UNCHANGED <<tableVars, held, orphan, co, resume, job, submits, tries>>
    BY <1>4 DEF vars, workerVars, loopVars, coVars, paidVars
  <2> QED BY <2>1, <1>k, PaidByFrame DEF PaidInv
<1> QED BY <1>1, <1>2, <1>3, <1>4 DEF WorkerNext

(* The strengthened invariant holds in every state.                        *)
THEOREM PaidAlways == WorkerSpec => [](TypeInv /\ PaidInv)
<1>1. WorkerInit => PaidInv
  BY NoTaskAssumption DEF WorkerInit, Init, PaidInv, Untouched, SubmittedByOneCall
<1>2. TypeInv /\ PaidInv /\ [WorkerNext]_vars => TypeInv' /\ PaidInv'
  BY TypeStep, PaidStep
<1> QED BY <1>1, <1>2, TypeInit, PTL DEF WorkerSpec

(* No requeue, crash, restart, resumed orphan or cancellation makes a task *)
(* go to its provider in a second call: all its submissions are those of   *)
(* one call, and a call that does not resend makes one.                    *)
THEOREM OneCallPays == WorkerSpec => []SubmittedByOneCall
<1>1. PaidInv => SubmittedByOneCall
  BY DEF PaidInv
<1> QED BY <1>1, PaidAlways, PTL

(* A sub-task that resumes a job polls one that was submitted and whose id *)
(* was persisted.                                                          *)
THEOREM ResumeNeedsAJob == WorkerSpec => []ResumesWhatWasSubmitted
<1>1. TypeInv /\ PaidInv => ResumesWhatWasSubmitted
  BY DEF TypeInv, WorkerTypeOK, PaidInv, ResumesWhatWasSubmitted
<1> QED BY <1>1, PaidAlways, PTL

(***************************************************************************)
(* Slots, and settled rows                                                 *)
(***************************************************************************)

(* Every running coroutine has an occupant: what shutdown waits for and    *)
(* what a cancel signal can reach is all there is.                         *)
THEOREM SlotsAreHeld == WorkerSpec => []RunningCoroutinesHaveSlots
<1>1. WorkerInit => RunningCoroutinesHaveSlots
  BY DEF WorkerInit, RunningCoroutinesHaveSlots, Running
<1>2. ASSUME TypeInv, RunningCoroutinesHaveSlots, [WorkerNext]_vars
      PROVE  RunningCoroutinesHaveSlots'
  <2> USE DEF RunningCoroutinesHaveSlots
  <2>t. WorkerTypeOK
    BY <1>2 DEF TypeInv
  <2>u. UNCHANGED <<co, slot>> => RunningCoroutinesHaveSlots'
    BY <1>2
  <2>1. CASE MainLoop
    <3>1. CASE Drain
      BY <1>2, <2>t, <3>1 DEF Drain, WorkerTypeOK, Running, coVars
    <3>2. CASE RegisterHeld
      BY <1>2, <2>t, <3>2 DEF RegisterHeld, WorkerTypeOK
    <3>3. CASE \E l \in Lane : DispatchBucket(l)
      BY <1>2, <2>t, <3>3 DEF DispatchBucket, WorkerTypeOK, coVars
    <3>4. CASE \E t \in Task : DrainKilled(t)
      BY <1>2, <2>t, <3>4 DEF DrainKilled, MoveOn, WorkerTypeOK, Running
    <3>5. CASE \/ DrainDone \/ ListOrphans \/ ScanDone \/ NothingToClaim
               \/ RefuseHeld \/ PutBackHeld
               \/ \E t \in Task : ScanOrphan(t) \/ Claim(t)
      BY <2>u, <3>5 DEF DrainDone, ListOrphans, ScanDone, NothingToClaim, RefuseHeld,
                        PutBackHeld, ScanOrphan, Claim, coVars
    <3> QED BY <2>1, <3>1, <3>2, <3>3, <3>4, <3>5 DEF MainLoop
  <2>2. CASE Background
    <3>1. PICK t \in Task : Coroutine(t) \/ Signal(t) \/ RefuseOrphan(t)
      BY <2>2 DEF Background
    <3>2. CASE RefuseOrphan(t)
      BY <2>u, <3>2 DEF RefuseOrphan, coVars
    <3>3. CASE Signal(t)
      BY <1>2, <2>t, <3>3 DEF Signal, MoveOn, WorkerTypeOK, coVars
    <3>4. CASE Acquire(t)
      BY <1>2, <2>t, <3>4 DEF Acquire, WorkerTypeOK, Running
    <3>5. CASE \/ Enter(t) \/ ResumePoll(t) \/ Submit(t) \/ Resend(t)
               \/ PersistJobId(t) \/ Deliver(t) \/ Fail(t)
      <4>1. co[t] \in Running /\ UNCHANGED slot
        BY <3>5 DEF Enter, ResumePoll, Submit, Resend, PersistJobId, Deliver, Fail, MoveOn, Running
      <4>2. \A u \in Task : u # t => co'[u] = co[u]
        BY <3>5, <2>t DEF Enter, ResumePoll, Submit, Resend, PersistJobId, Deliver, Fail, MoveOn,
                          WorkerTypeOK
      <4> QED BY <1>2, <4>1, <4>2
    <3>6. CASE WriteOk(t) \/ WriteFail(t) \/ WriteCancel(t)
      <4>1. co[t] \in Running
        BY <3>6 DEF WriteOk, WriteFail, WriteCancel, Running
      <4>2. CASE Return(t)
        BY <1>2, <2>t, <4>2 DEF Return, WorkerTypeOK, Running
      <4>3. CASE MoveOn(t, "cancel")
        BY <1>2, <2>t, <4>1, <4>3 DEF MoveOn, WorkerTypeOK
      <4> QED BY <3>6, <4>2, <4>3 DEF WriteOk, WriteFail, WriteCancel
    <3> QED BY <3>1, <3>2, <3>3, <3>4, <3>5, <3>6 DEF Coroutine
  <2>3. CASE Environment
    <3>1. CASE Crash \/ Exit
      BY <3>1 DEF Crash, Exit, Forget, Running
    <3>2. CASE \/ Start \/ StopRequested
               \/ \E c \in Capacities : Reload(c)
               \/ \E p \in Swept : UserCancelsAll(p)
               \/ \E t \in Task : SubmitTask(t) \/ UserCancelReads(t) \/ UserCancels(t)
      BY <2>u, <3>2 DEF Start, StopRequested, Reload, UserCancelsAll, SubmitTask,
                        UserCancelReads, UserCancels, workerVars, coVars
    <3> QED BY <2>3, <3>1, <3>2 DEF Environment
  <2>4. CASE UNCHANGED vars
    BY <2>u, <2>4 DEF vars, workerVars, coVars
  <2> QED BY <1>2, <2>1, <2>2, <2>3, <2>4 DEF WorkerNext
<1>3. TypeInv /\ [WorkerNext]_vars => TypeInv'
  BY TypeStep
<1> QED BY <1>1, <1>2, <1>3, TypeInit, PTL DEF WorkerSpec

(* What the queue's own steps never undo.                                  *)
LEMMA TerminalIsFinal ==
  ASSUME TypeInv, [WorkerNext]_vars, NEW t \in Task, status[t] \in Terminal
  PROVE  status'[t] = status[t]
<1>1. Move(t)
  BY QueueStep, StepsAreMoves DEF TypeInv, WorkerTypeOK, StepIsMoves
<1> QED BY <1>1 DEF Move, Terminal, Active

(* After the 0-rows protocol the row is terminal.                          *)
LEMMA SettleSettles ==
  ASSUME TypeOK, NEW t \in Task, Settle(t), status[t] # "absent"
  PROVE  status'[t] \in Terminal
<1>1. CASE FinalizeCancelled(t)
  BY <1>1, CascadeMembers DEF FinalizeCancelled, MarkCancelledWrite, Publish, Terminal
<1>2. CASE status[t] \notin Active /\ UNCHANGED tableVars
  BY <1>2 DEF TypeOK, Status, tableVars
<1> QED BY <1>1, <1>2 DEF Settle

(* A coroutine that has returned leaves a terminal row, whoever won the    *)
(* race for it: the success, the failure or the cancellation.              *)
THEOREM ReturnSettles == WorkerSpec => []ReturnedMeansSettled
<1>1. WorkerInit => ReturnedMeansSettled
  BY DEF WorkerInit, ReturnedMeansSettled
<1>2. ASSUME TypeInv, PaidInv, ReturnedMeansSettled, [WorkerNext]_vars
      PROVE  ReturnedMeansSettled'
  <2>t. WorkerTypeOK /\ TypeOK
    BY <1>2 DEF TypeInv, WorkerTypeOK
  <2>a. \A t \in Task : co[t] # "none" => status[t] # "absent"
    BY <1>2 DEF PaidInv, Untouched
  <2>d. ASSUME \A t \in Task : co'[t] = "done" => co[t] = "done" \/ status'[t] \in Terminal
        PROVE  ReturnedMeansSettled'
    <3> SUFFICES ASSUME NEW t \in Task, co'[t] = "done" PROVE status'[t] \in Terminal
      BY DEF ReturnedMeansSettled
    <3>1. CASE co[t] = "done"
      BY <1>2, <3>1, TerminalIsFinal DEF ReturnedMeansSettled
    <3> QED BY <2>d, <3>1
  <2>u. UNCHANGED co => ReturnedMeansSettled'
    BY <2>d
  <2>1. CASE MainLoop
    <3>1. CASE Drain \/ RegisterHeld \/ \E l \in Lane : DispatchBucket(l)
      BY <2>t, <2>d, <3>1 DEF Drain, RegisterHeld, DispatchBucket, WorkerTypeOK, coVars
    <3>2. ASSUME NEW t \in Task, DrainKilled(t) PROVE ReturnedMeansSettled'
      <4>1. status'[t] \in Terminal
        BY <2>t, <2>a, <3>2, SettleSettles DEF DrainKilled
      <4>2. \A u \in Task : u # t => co'[u] = co[u]
        BY <2>t, <3>2 DEF DrainKilled, MoveOn, WorkerTypeOK
      <4> QED BY <2>d, <4>1, <4>2
    <3>3. CASE \/ DrainDone \/ ListOrphans \/ ScanDone \/ NothingToClaim
               \/ RefuseHeld \/ PutBackHeld
               \/ \E t \in Task : ScanOrphan(t) \/ Claim(t)
      BY <2>u, <3>3 DEF DrainDone, ListOrphans, ScanDone, NothingToClaim, RefuseHeld,
                        PutBackHeld, ScanOrphan, Claim, coVars
    <3> QED BY <2>1, <3>1, <3>2, <3>3 DEF MainLoop
  <2>2. CASE Background
    <3>1. PICK t \in Task : Coroutine(t) \/ Signal(t) \/ RefuseOrphan(t)
      BY <2>2 DEF Background
    <3>2. CASE RefuseOrphan(t)
      BY <2>u, <3>2 DEF RefuseOrphan, coVars
    <3>3. CASE Signal(t)
      <4>1. Interrupted(t) # "done"
        BY DEF Interrupted
      <4> QED BY <2>t, <2>d, <3>3, <4>1 DEF Signal, MoveOn, WorkerTypeOK, coVars
    <3>4. CASE \/ Enter(t) \/ Acquire(t) \/ ResumePoll(t) \/ Submit(t)
               \/ Resend(t) \/ PersistJobId(t) \/ Deliver(t) \/ Fail(t)
      BY <2>t, <2>d, <3>4 DEF Enter, Acquire, ResumePoll, Submit, Resend, PersistJobId, Deliver,
                              Fail, MoveOn, WorkerTypeOK
    <3>5. CASE WriteOk(t) \/ WriteFail(t) \/ WriteCancel(t)
      <4>1. \A u \in Task : u # t => co'[u] = co[u]
        BY <2>t, <3>5 DEF WriteOk, WriteFail, WriteCancel, Return, MoveOn, WorkerTypeOK
      <4>2. CASE MarkSucceeded(t)
        BY <2>t, <2>d, <4>1, <4>2 DEF MarkSucceeded, Publish, TypeOK, Terminal
      <4>3. CASE MarkFailed(t)
        BY <2>d, <4>1, <4>3, CascadeMembers
           DEF MarkFailed, MarkFailedWrite, Publish, Terminal
      <4>4. CASE MoveOn(t, "cancel")
        BY <2>t, <2>d, <4>1, <4>4 DEF MoveOn, WorkerTypeOK
      <4>5. CASE WriteCancel(t)
        <5>1. status'[t] \in Terminal
          BY <2>t, <2>a, <4>5, SettleSettles DEF WriteCancel
        <5> QED BY <2>d, <4>1, <5>1
      <4> QED BY <3>5, <4>2, <4>3, <4>4, <4>5 DEF WriteOk, WriteFail
    <3> QED BY <3>1, <3>2, <3>3, <3>4, <3>5 DEF Coroutine
  <2>3. CASE Environment
    <3>1. CASE Crash \/ Exit
      BY <3>1 DEF Crash, Exit, Forget, ReturnedMeansSettled
    <3>2. CASE \/ Start \/ StopRequested
               \/ \E c \in Capacities : Reload(c)
               \/ \E p \in Swept : UserCancelsAll(p)
               \/ \E t \in Task : SubmitTask(t) \/ UserCancelReads(t) \/ UserCancels(t)
      BY <2>u, <3>2 DEF Start, StopRequested, Reload, UserCancelsAll, SubmitTask,
                        UserCancelReads, UserCancels, workerVars, coVars
    <3> QED BY <2>3, <3>1, <3>2 DEF Environment
  <2>4. CASE UNCHANGED vars
    BY <2>u, <2>4 DEF vars, workerVars, coVars
  <2> QED BY <1>2, <2>1, <2>2, <2>3, <2>4 DEF WorkerNext
<1> QED BY <1>1, <1>2, PaidAlways, PTL DEF WorkerSpec

(***************************************************************************)
(* Running rows have an owner                                              *)
(***************************************************************************)

(* A row somebody has asked to cancel, or that has ended.                  *)
Late == Terminal \cup {"cancelling"}

(* A process that is down has no main loop, and the main loop holds a task *)
(* only between a claim and its placement. A cancel signal is about a late *)
(* row, so that a coroutine it kills before the try block leaves no running*)
(* row behind. The last part is the invariant itself.                      *)
OwnerInv ==
  /\ up = "down" => loop = "off"
  /\ loop # "held" => held = NoTask
  /\ \A t \in ring : status[t] \in Late
  /\ RunningRowsHaveAnOwner

(* A late row stays late.                                                  *)
LEMMA LateStays ==
  ASSUME TypeInv, [WorkerNext]_vars, NEW t \in Task, status[t] \in Late
  PROVE  status'[t] \in Late
<1>1. Move(t)
  BY QueueStep, StepsAreMoves DEF TypeInv, WorkerTypeOK, StepIsMoves
<1> QED BY <1>1 DEF Move, Late, Terminal, Active

(* A step that leaves only late rows in the ring.                          *)
LEMMA RingStep ==
  ASSUME TypeInv, OwnerInv, [WorkerNext]_vars
  PROVE  \A t \in ring' : status'[t] \in Late
<1>t. TypeOK /\ ring \subseteq Task
  BY DEF TypeInv, WorkerTypeOK
<1>u. ASSUME ring' \subseteq ring PROVE \A t \in ring' : status'[t] \in Late
  BY <1>t, <1>u, LateStays DEF OwnerInv
<1>c. ASSUME NEW t \in Task, MarkCancelledWrite(t), ring' \subseteq ring \cup Stirred(t)
      PROVE  \A u \in ring' : status'[u] \in Late
  <2>1. \A u \in Stirred(t) : u \in Task /\ status'[u] \in Late
    BY <1>c DEF MarkCancelledWrite, Publish, Stirred, Late, Terminal
  <2> QED BY <1>t, <1>c, <2>1, LateStays DEF OwnerInv
<1>s. ASSUME NEW t \in Task, Settle(t) PROVE \A u \in ring' : status'[u] \in Late
  BY <1>s, <1>c, <1>u DEF Settle, FinalizeCancelled
<1>f. ASSUME NEW t \in Task, FailOrSettle(t) PROVE \A u \in ring' : status'[u] \in Late
  BY <1>f, <1>s, <1>u DEF FailOrSettle
<1>1. CASE MainLoop
  <2>1. CASE \/ Drain \/ DrainDone \/ ListOrphans \/ ScanDone \/ NothingToClaim
             \/ RefuseHeld \/ PutBackHeld \/ RegisterHeld
             \/ \E l \in Lane : DispatchBucket(l)
    BY <1>u, <2>1 DEF Drain, DrainDone, ListOrphans, ScanDone, NothingToClaim, RefuseHeld,
                      PutBackHeld, RegisterHeld, DispatchBucket
  <2>2. CASE \E t \in Task : DrainKilled(t) \/ ScanOrphan(t) \/ Claim(t)
    BY <1>u, <1>s, <1>f, <2>2 DEF DrainKilled, ScanOrphan, Claim
  <2> QED BY <1>1, <2>1, <2>2 DEF MainLoop
<1>2. CASE Background
  <2>1. PICK t \in Task : Coroutine(t) \/ Signal(t) \/ RefuseOrphan(t)
    BY <1>2 DEF Background
  <2>2. CASE Signal(t) \/ RefuseOrphan(t)
    BY <1>u, <1>f, <2>2 DEF Signal, RefuseOrphan
  <2>3. CASE Coroutine(t)
    BY <1>u, <1>s, <2>3 DEF Coroutine, Enter, Acquire, ResumePoll, Submit, Resend, PersistJobId,
                            Deliver, Fail, WriteOk, WriteFail, WriteCancel
  <2> QED BY <2>1, <2>2, <2>3
<1>3. CASE Environment
  <2>1. CASE \/ Crash \/ Exit \/ Start \/ StopRequested
             \/ \E c \in Capacities : Reload(c)
             \/ \E p \in Swept : UserCancelsAll(p)
             \/ \E t \in Task : SubmitTask(t) \/ UserCancelReads(t)
    BY <1>u, <2>1 DEF Crash, Exit, Forget, Start, StopRequested, Reload, UserCancelsAll,
                      SubmitTask, UserCancelReads, workerVars
  <2>2. ASSUME NEW t \in Task, UserCancels(t) PROVE \A u \in ring' : status'[u] \in Late
    <3>1. CancelWrite(t) /\ ring' = ring \cup CancelSignals(t)
      BY <2>2 DEF UserCancels, CancelDispatch
    <3>2. CASE seen[t] = "running" /\ status[t] \in {"running", "cancelling"}
      <4>1. CancelSignals(t) = {t} /\ status'[t] \in Late
        BY <1>t, <3>1, <3>2 DEF CancelSignals, CancelWrite, Publish, Late, TypeOK
      <4> QED BY <1>t, <3>1, <4>1, LateStays DEF OwnerInv
    <3>3. CASE seen[t] = "queued" /\ status[t] \in Active
      <4>1. MarkCancelledWrite(t) /\ CancelSignals(t) \subseteq Stirred(t)
        BY <3>1, <3>3 DEF CancelSignals, CancelWrite
      <4> QED BY <1>c, <3>1, <4>1
    <3>4. CASE /\ ~(seen[t] = "running" /\ status[t] \in {"running", "cancelling"})
               /\ ~(seen[t] = "queued" /\ status[t] \in Active)
      BY <1>u, <3>1, <3>4 DEF CancelSignals
    <3> QED BY <3>2, <3>3, <3>4
  <2> QED BY <1>3, <2>1, <2>2 DEF Environment
<1>4. CASE UNCHANGED vars
  BY <1>u, <1>4 DEF vars, workerVars
<1> QED BY <1>1, <1>2, <1>3, <1>4 DEF WorkerNext

(* No row starts to run.                                                   *)
StartsNothing == \A t \in Task : status'[t] = "running" => status[t] = "running"

(* Every transaction but a claim starts nothing; a write of an outcome     *)
(* ends the running of its own row.                                        *)
LEMMA OutcomesStartNothing ==
  ASSUME TypeOK, NEW t \in Task,
         \/ MarkSucceeded(t) \/ MarkFailed(t) \/ FinalizeCancelled(t) \/ RequeueSingle(t)
         \/ Settle(t) \/ FailOrSettle(t)
         \/ status[t] # "running" /\ UNCHANGED tableVars
  PROVE  StartsNothing /\ status'[t] # "running"
<1>1. ASSUME MarkFailedWrite(t) PROVE StartsNothing /\ status'[t] # "running"
  BY <1>1, CascadeMembers DEF MarkFailedWrite, Publish, StartsNothing
<1>2. ASSUME MarkCancelledWrite(t) PROVE StartsNothing /\ status'[t] # "running"
  BY <1>2, CascadeMembers DEF MarkCancelledWrite, Publish, StartsNothing
<1>3. CASE MarkSucceeded(t) \/ RequeueSingle(t)
  BY <1>3 DEF MarkSucceeded, RequeueSingle, Publish, StartsNothing, TypeOK
<1>4. ASSUME status[t] # "running", UNCHANGED tableVars
      PROVE  StartsNothing /\ status'[t] # "running"
  BY <1>4 DEF tableVars, StartsNothing
<1>5. MarkFailed(t) => StartsNothing /\ status'[t] # "running"
  BY <1>1 DEF MarkFailed
<1>6. FinalizeCancelled(t) => StartsNothing /\ status'[t] # "running"
  BY <1>2 DEF FinalizeCancelled
<1>7. Settle(t) => StartsNothing /\ status'[t] # "running"
  BY <1>4, <1>6 DEF Settle, Active
<1>8. FailOrSettle(t) => StartsNothing /\ status'[t] # "running"
  BY <1>5, <1>7 DEF FailOrSettle
<1> QED BY <1>3, <1>4, <1>5, <1>6, <1>7, <1>8

(* Who owned a row that still runs owns it, or hands it over.              *)
LEMMA OwnerFrame ==
  ASSUME OwnerInv, StartsNothing,
         up' = "up" => up = "up" /\ loop # "list",
         \A t \in Task : status'[t] = "running" =>
           /\ held = t => held' = t \/ Live(t)'
           /\ Live(t) => Live(t)'
  PROVE  RunningRowsHaveAnOwner'
BY DEF OwnerInv, RunningRowsHaveAnOwner, StartsNothing

(* The same when the step is about one task, which does not run any more   *)
(* or goes on to be owned.                                                 *)
LEMMA OwnerOfOthers ==
  ASSUME TypeInv, OwnerInv, StartsNothing, NEW t \in Task,
         UNCHANGED <<up, loop, held>>,
         \A u \in Task : u # t => /\ co'[u] = co[u] /\ slot'[u] = slot[u]
                                  /\ orphan'[u] = orphan[u],
         status'[t] = "running" /\ Live(t) => Live(t)'
  PROVE  RunningRowsHaveAnOwner'
<1>1. \A u \in Task : u # t /\ Live(u) => Live(u)'
  BY DEF Live
<1> QED BY <1>1 DEF OwnerInv, RunningRowsHaveAnOwner, StartsNothing

(* OwnerInv is inductive.                                                  *)
LEMMA OwnerStep ==
  ASSUME TypeInv, OwnerInv, [WorkerNext]_vars
  PROVE  OwnerInv'
<1> USE NoTaskAssumption
<1>t. WorkerTypeOK /\ TypeOK
  BY DEF TypeInv, WorkerTypeOK
<1>n. ASSUME NextMedia PROVE loop' # "held"
  BY <1>n DEF NextMedia
<1>h. /\ up' = "down" => loop' = "off"
      /\ loop' # "held" => held' = NoTask
  <2>u. ASSUME UNCHANGED <<up, loop, held>>
        PROVE  (up' = "down" => loop' = "off") /\ (loop' # "held" => held' = NoTask)
    BY <2>u DEF OwnerInv
  <2>1. CASE MainLoop
    <3>1. CASE RefuseHeld \/ PutBackHeld \/ RegisterHeld \/ \E t \in Task : Claim(t)
      BY <3>1 DEF RefuseHeld, PutBackHeld, RegisterHeld, Claim, OwnerInv
    <3>2. CASE \/ Drain \/ DrainDone \/ ListOrphans \/ ScanDone \/ NothingToClaim
               \/ \E t \in Task : DrainKilled(t) \/ ScanOrphan(t)
               \/ \E l \in Lane : DispatchBucket(l)
      <4>1. UNCHANGED <<up, held>> /\ loop \notin {"held", "off"}
        BY <3>2 DEF Drain, DrainDone, ListOrphans, ScanDone, NothingToClaim, DrainKilled,
                    ScanOrphan, DispatchBucket, loopVars
      <4> QED BY <4>1 DEF OwnerInv
    <3> QED BY <2>1, <3>1, <3>2 DEF MainLoop
  <2>2. CASE Background
    BY <2>u, <2>2
       DEF Background, Coroutine, Signal, RefuseOrphan, Enter, Acquire, ResumePoll,
           Submit, Resend, PersistJobId, Deliver, Fail, WriteOk, WriteFail, WriteCancel, loopVars
  <2>3. CASE Environment
    <3>1. CASE Crash \/ Exit \/ Start \/ StopRequested
      BY <3>1 DEF Crash, Exit, Forget, Start, StopRequested, loopVars, OwnerInv
    <3>2. CASE \/ \E c \in Capacities : Reload(c)
               \/ \E p \in Swept : UserCancelsAll(p)
               \/ \E t \in Task : SubmitTask(t) \/ UserCancelReads(t) \/ UserCancels(t)
      BY <2>u, <3>2 DEF Reload, UserCancelsAll, SubmitTask, UserCancelReads, UserCancels,
                        workerVars, loopVars
    <3> QED BY <2>3, <3>1, <3>2 DEF Environment
  <2>4. CASE UNCHANGED vars
    BY <2>u, <2>4 DEF vars, workerVars, loopVars
  <2> QED BY <2>1, <2>2, <2>3, <2>4 DEF WorkerNext
<1>u. UNCHANGED status => StartsNothing
  BY DEF StartsNothing
<1>o. ASSUME RunningRowsHaveAnOwner' PROVE OwnerInv'
  BY <1>h, <1>o, RingStep DEF OwnerInv
<1>1. CASE MainLoop
  <2>1. CASE Drain
    <3>1. UNCHANGED <<status, up, held, orphan>> /\ loop # "list"
      BY <2>1 DEF Drain, tableVars
    <3>2. \A t \in Task : Live(t) => Live(t)'
      BY <1>t, <2>1 DEF Drain, Live, Running, coVars, WorkerTypeOK
    <3> QED BY <1>u, <1>o, <3>1, <3>2, OwnerFrame
  <2>2. CASE DrainDone \/ ScanDone \/ NothingToClaim
    <3>1. UNCHANGED <<status, up, held, orphan, co, slot>> /\ loop # "list"
      BY <2>2 DEF DrainDone, ScanDone, NothingToClaim, tableVars, coVars
    <3>2. \A t \in Task : Live(t) => Live(t)'
      BY <3>1 DEF Live
    <3> QED BY <1>u, <1>o, <3>1, <3>2, OwnerFrame
  <2>3. CASE ListOrphans
    <3>1. \A t \in Task : status'[t] = "running" => orphan'[t] # "none"
      BY <1>t, <2>3 DEF ListOrphans, tableVars, WorkerTypeOK
    <3> QED BY <1>o, <3>1 DEF RunningRowsHaveAnOwner, Live
  <2>4. CASE RefuseHeld \/ PutBackHeld
    <3>1. held \in Task /\ loop # "list"
      BY <2>4 DEF RefuseHeld, PutBackHeld, TypeInv, HeldOK
    <3>2. StartsNothing /\ status'[held] # "running"
      BY <1>t, <2>4, <3>1, OutcomesStartNothing DEF RefuseHeld, PutBackHeld
    <3>3. UNCHANGED <<up, orphan, co, slot>>
      BY <2>4 DEF RefuseHeld, PutBackHeld, coVars
    <3>4. \A t \in Task : Live(t) => Live(t)'
      BY <3>3 DEF Live
    <3> QED BY <1>o, <3>1, <3>2, <3>3, <3>4, OwnerFrame
  <2>5. CASE RegisterHeld
    <3>1. held \in Task /\ loop # "list" /\ UNCHANGED <<status, up, orphan>>
      BY <2>5 DEF RegisterHeld, TypeInv, HeldOK, tableVars
    <3>2. \A t \in Task : held = t \/ Live(t) => Live(t)'
      BY <1>t, <2>5, <3>1 DEF RegisterHeld, Live, Running, WorkerTypeOK
    <3> QED BY <1>u, <1>o, <3>1, <3>2, OwnerFrame
  <2>6. ASSUME NEW t \in Task, DrainKilled(t) PROVE OwnerInv'
    <3>1. StartsNothing /\ status'[t] # "running"
      BY <1>t, <2>6, OutcomesStartNothing DEF DrainKilled
    <3>2. /\ UNCHANGED <<up, loop, held, orphan, slot>>
          /\ \A u \in Task : u # t => co'[u] = co[u]
      BY <1>t, <2>6 DEF DrainKilled, MoveOn, loopVars, WorkerTypeOK
    <3> QED BY <1>o, <3>1, <3>2, OwnerOfOthers
  <2>7. ASSUME NEW t \in Task, ScanOrphan(t) PROVE OwnerInv'
    <3>1. /\ UNCHANGED <<up, loop, held, co, slot>>
          /\ \A u \in Task : u # t => orphan'[u] = orphan[u]
      BY <1>t, <2>7 DEF ScanOrphan, coVars, WorkerTypeOK
    <3>2. CASE Settle(t) \/ FailOrSettle(t)
      <4>1. StartsNothing /\ status'[t] # "running"
        BY <1>t, <3>2, OutcomesStartNothing
      <4> QED BY <1>o, <3>1, <4>1, OwnerOfOthers
    <3>3. CASE orphan' = [orphan EXCEPT ![t] = "resume"] /\ UNCHANGED tableVars
      <4>1. Live(t)' /\ StartsNothing
        BY <1>t, <1>u, <3>3 DEF Live, WorkerTypeOK, tableVars
      <4> QED BY <1>o, <3>1, <4>1, OwnerOfOthers
    <3> QED BY <2>7, <3>2, <3>3 DEF ScanOrphan
  <2>8. ASSUME NEW t \in Task, Claim(t) PROVE OwnerInv'
    <3>1. /\ UNCHANGED <<up, orphan, co, slot>> /\ held' = t /\ loop = "claim"
          /\ \A u \in Task : u # t => status'[u] = status[u]
      BY <1>t, <2>8 DEF Claim, ClaimNext, Publish, coVars, TypeOK
    <3>2. held = NoTask
      BY <3>1 DEF OwnerInv
    <3>3. \A u \in Task : Live(u) => Live(u)'
      BY <3>1 DEF Live
    <3>4. RunningRowsHaveAnOwner'
      BY <3>1, <3>2, <3>3 DEF OwnerInv, RunningRowsHaveAnOwner
    <3> QED BY <1>o, <3>4
  <2>9. ASSUME NEW l \in Lane, DispatchBucket(l) PROVE OwnerInv'
    <3>1. UNCHANGED <<status, up, held>> /\ loop # "list"
      BY <2>9 DEF DispatchBucket, tableVars
    <3>2. CASE up = "stopping"
      <4>1. RunningRowsHaveAnOwner'
        BY <3>1, <3>2 DEF RunningRowsHaveAnOwner
      <4> QED BY <1>o, <4>1
    <3>3. CASE up = "up" /\ \A t \in Task : Live(t) => Live(t)'
      BY <1>u, <1>o, <3>1, <3>3, OwnerFrame
    <3>4. ASSUME /\ co' = [t \in Task |-> IF t \in Bucket(l) THEN "new" ELSE co[t]]
                 /\ slot' = [t \in Task |-> IF t \in Bucket(l) THEN "pending" ELSE slot[t]]
                 /\ orphan' = [t \in Task |-> IF t \in Bucket(l) THEN "none" ELSE orphan[t]]
          PROVE  \A t \in Task : Live(t) => Live(t)'
      BY <3>4 DEF Live, Running
    <3>5. ASSUME /\ UNCHANGED coVars
                 /\ orphan' = [t \in Task |-> IF t \in Bucket(l) THEN "refuse" ELSE orphan[t]]
          PROVE  \A t \in Task : Live(t) => Live(t)'
      BY <3>5 DEF Live, coVars
    <3> QED BY <2>9, <3>2, <3>3, <3>4, <3>5 DEF DispatchBucket
  <2> QED BY <1>1, <2>1, <2>2, <2>3, <2>4, <2>5, <2>6, <2>7, <2>8, <2>9 DEF MainLoop
<1>2. CASE Background
  <2>1. PICK t \in Task : Coroutine(t) \/ Signal(t) \/ RefuseOrphan(t)
    BY <1>2 DEF Background
  <2>2. CASE RefuseOrphan(t)
    <3>1. StartsNothing /\ status'[t] # "running"
      BY <1>t, <2>2, OutcomesStartNothing DEF RefuseOrphan
    <3>2. /\ UNCHANGED <<up, loop, held, co, slot>>
          /\ \A u \in Task : u # t => orphan'[u] = orphan[u]
      BY <1>t, <2>2 DEF RefuseOrphan, coVars, WorkerTypeOK
    <3> QED BY <1>o, <3>1, <3>2, OwnerOfOthers
  <2>3. CASE Signal(t)
    <3>1. StartsNothing /\ status'[t] # "running"
      BY <1>u, <2>3 DEF Signal, tableVars, OwnerInv, Late, Terminal
    <3>2. /\ UNCHANGED <<up, loop, held, orphan, slot>>
          /\ \A u \in Task : u # t => co'[u] = co[u]
      BY <1>t, <2>3 DEF Signal, MoveOn, loopVars, coVars, WorkerTypeOK
    <3> QED BY <1>o, <3>1, <3>2, OwnerOfOthers
  <2>4. CASE Coroutine(t)
    <3>0. /\ UNCHANGED <<up, loop, held, orphan>>
          /\ \A u \in Task : u # t => co'[u] = co[u] /\ slot'[u] = slot[u]
      <4>1. UNCHANGED <<up, loop, held, orphan>>
        BY <2>4 DEF Coroutine, Enter, Acquire, ResumePoll, Submit, Resend, PersistJobId, Deliver,
                    Fail, WriteOk, WriteFail, WriteCancel, loopVars
      <4>2. \/ Acquire(t) \/ Return(t) \/ \E to \in CoState : MoveOn(t, to)
        BY <2>4 DEF Coroutine, Enter, ResumePoll, Submit, Resend, PersistJobId, Deliver,
                    Fail, WriteOk, WriteFail, WriteCancel, CoState, Running
      <4>3. \A u \in Task : u # t => co'[u] = co[u] /\ slot'[u] = slot[u]
        BY <1>t, <4>2 DEF Acquire, Return, MoveOn, WorkerTypeOK
      <4> QED BY <4>1, <4>3
    <3>1. CASE /\ ~Acquire(t)
               /\ Enter(t) \/ ResumePoll(t) \/ Submit(t) \/ Resend(t) \/ PersistJobId(t)
                  \/ Deliver(t) \/ Fail(t)
      <4>1. UNCHANGED status /\ \E to \in Running : MoveOn(t, to)
        BY <3>1 DEF Enter, ResumePoll, Submit, Resend, PersistJobId, Deliver, Fail, Running, tableVars
      <4>2. co'[t] \in Running
        BY <1>t, <4>1 DEF MoveOn, WorkerTypeOK
      <4>3. Live(t)'
        BY <4>2 DEF Live
      <4> QED BY <1>u, <1>o, <3>0, <4>1, <4>3, OwnerOfOthers
    <3>2. CASE Acquire(t)
      <4>1. CASE up = "stopping"
        <5>1. RunningRowsHaveAnOwner'
          BY <3>0, <4>1 DEF RunningRowsHaveAnOwner
        <5> QED BY <1>o, <5>1
      <4>2. CASE up # "stopping"
        <5>1. UNCHANGED status /\ co'[t] \in Running
          BY <1>t, <3>2, <4>2 DEF Acquire, Running, tableVars, WorkerTypeOK
        <5>2. Live(t)'
          BY <5>1 DEF Live
        <5> QED BY <1>u, <1>o, <3>0, <5>1, <5>2, OwnerOfOthers
      <4> QED BY <4>1, <4>2
    <3>3. CASE WriteOk(t) \/ WriteFail(t) \/ WriteCancel(t)
      <4>1. StartsNothing /\ status'[t] # "running"
        BY <1>t, <3>3, OutcomesStartNothing DEF WriteOk, WriteFail, WriteCancel
      <4> QED BY <1>o, <3>0, <4>1, OwnerOfOthers
    <3> QED BY <2>4, <3>1, <3>2, <3>3 DEF Coroutine
  <2> QED BY <2>1, <2>2, <2>3, <2>4
<1>3. CASE Environment
  <2>1. CASE Crash \/ Exit \/ Start
    <3>1. RunningRowsHaveAnOwner'
      BY <2>1 DEF Crash, Exit, Forget, Start, RunningRowsHaveAnOwner
    <3> QED BY <1>o, <3>1
  <2>2. CASE StopRequested
    <3>1. RunningRowsHaveAnOwner'
      BY <2>2 DEF StopRequested, RunningRowsHaveAnOwner
    <3> QED BY <1>o, <3>1
  <2>3. CASE \/ \E c \in Capacities : Reload(c)
             \/ \E p \in Swept : UserCancelsAll(p)
             \/ \E t \in Task : SubmitTask(t) \/ UserCancelReads(t) \/ UserCancels(t)
    <3>1. UNCHANGED <<up, loop, held, orphan, co, slot>>
      BY <2>3 DEF Reload, UserCancelsAll, SubmitTask, UserCancelReads, UserCancels,
                  workerVars, loopVars, coVars
    <3>2. StartsNothing
      <4>1. CASE \/ \E c \in Capacities : Reload(c)
                 \/ \E p \in Swept : UserCancelsAll(p)
                 \/ \E t \in Task : UserCancelReads(t)
        BY <1>t, <4>1 DEF Reload, UserCancelsAll, CancelAllRead, CancelAllWrite,
             UserCancelReads, CancelRead, StartsNothing, tableVars
      <4>2. CASE \E t \in Task : SubmitTask(t)
        BY <1>t, <4>2 DEF SubmitTask, Enqueue, Publish, StartsNothing, TypeOK
      <4>3. ASSUME NEW t \in Task, UserCancels(t) PROVE StartsNothing
        <5>1. CASE MarkCancelledWrite(t)
          BY <5>1 DEF MarkCancelledWrite, Publish, StartsNothing
        <5>2. CASE Publish([status EXCEPT ![t] = "cancelling"]) \/ UNCHANGED status
          BY <1>t, <5>2 DEF Publish, StartsNothing, TypeOK
        <5> QED BY <4>3, <5>1, <5>2 DEF UserCancels, CancelDispatch, CancelWrite
      <4> QED BY <2>3, <4>1, <4>2, <4>3
    <3>3. \A t \in Task : Live(t) => Live(t)'
      BY <3>1 DEF Live
    <3>4. RunningRowsHaveAnOwner'
      BY <3>1, <3>2, <3>3 DEF OwnerInv, RunningRowsHaveAnOwner, StartsNothing
    <3> QED BY <1>o, <3>4
  <2> QED BY <1>3, <2>1, <2>2, <2>3 DEF Environment
<1>4. CASE UNCHANGED vars
  <2>1. UNCHANGED <<status, up, loop, held, orphan, co, slot>>
    BY <1>4 DEF vars, tableVars, workerVars, loopVars, coVars
  <2>2. RunningRowsHaveAnOwner'
    BY <2>1 DEF OwnerInv, RunningRowsHaveAnOwner, Live
  <2> QED BY <1>o, <2>2
<1> QED BY <1>1, <1>2, <1>3, <1>4 DEF WorkerNext

(* In a process past its scan, no running row is forgotten: the main loop  *)
(* has just claimed it, or a coroutine, a pending drain or the dispatcher  *)
(* of orphans will settle it. Whoever stops owning a row has ended its     *)
(* running first.                                                          *)
THEOREM NoRunningRowIsForgotten == WorkerSpec => []RunningRowsHaveAnOwner
<1>1. WorkerInit => OwnerInv
  BY DEF WorkerInit, OwnerInv, RunningRowsHaveAnOwner
<1>2. TypeInv /\ OwnerInv /\ [WorkerNext]_vars => TypeInv' /\ OwnerInv'
  BY TypeStep, OwnerStep
<1>3. OwnerInv => RunningRowsHaveAnOwner
  BY DEF OwnerInv
<1> QED BY <1>1, <1>2, <1>3, TypeInit, PTL DEF WorkerSpec

(* The last write for a row, of whatever coroutine, drain or scan, ends it.*)
LEMMA OutcomesEnd ==
  ASSUME TypeOK, NEW t \in Task, status[t] # "absent", Settle(t) \/ FailOrSettle(t)
  PROVE  status'[t] \in Terminal
<1>1. CASE Settle(t)
  BY <1>1, SettleSettles
<1>2. CASE MarkFailed(t)
  BY <1>2, CascadeMembers DEF MarkFailed, MarkFailedWrite, Publish, Terminal
<1> QED BY <1>1, <1>2 DEF FailOrSettle

(* Who lets go of a cancelling row. Those who own one keep it or hand it   *)
(* over, and those who settle it do not leave it cancelling.               *)
LEMMA LettingGo ==
  ASSUME TypeInv, OwnerInv, [WorkerNext]_vars, NEW t \in Task,
         up = "up", loop # "list", held = t \/ Live(t), up' = "up", status'[t] = "cancelling"
  PROVE  \/ held' = t \/ Live(t)' \/ Leaked(t)'
         \/ held = t /\ (RefuseHeld \/ PutBackHeld)
<1>t. WorkerTypeOK /\ TypeOK
  BY DEF TypeInv, WorkerTypeOK
<1>a. status[t] # "absent"
  <2>1. Move(t)
    BY QueueStep, StepsAreMoves DEF TypeInv, WorkerTypeOK, StepIsMoves
  <2> QED BY <2>1 DEF Move, Active
<1>s. ~Settle(t) /\ ~FailOrSettle(t) /\ ~MarkSucceeded(t) /\ ~MarkFailed(t)
  <2>1. ~MarkSucceeded(t)
    BY <1>t DEF MarkSucceeded, Publish, TypeOK
  <2>2. ~Settle(t) /\ ~FailOrSettle(t)
    BY <1>t, <1>a, OutcomesEnd DEF Terminal
  <2>3. ~MarkFailed(t)
    BY CascadeMembers DEF MarkFailed, MarkFailedWrite, Publish
  <2> QED BY <2>1, <2>2, <2>3
<1>o. ASSUME held' = held, co'[t] = co[t], slot'[t] = slot[t], orphan'[t] = orphan[t]
      PROVE  held' = t \/ Live(t)'
  BY <1>o DEF Live
<1>1. CASE MainLoop
  <2>1. CASE Drain
    BY <1>t, <2>1 DEF Drain, Live, Running, coVars, WorkerTypeOK
  <2>2. CASE DrainDone \/ ScanDone \/ NothingToClaim \/ ListOrphans
    BY <1>o, <2>2 DEF DrainDone, ScanDone, NothingToClaim, ListOrphans, coVars
  <2>3. CASE RefuseHeld \/ PutBackHeld
    <3>1. UNCHANGED <<orphan, co, slot>>
      BY <2>3 DEF RefuseHeld, PutBackHeld, coVars
    <3> QED BY <2>3, <3>1 DEF Live
  <2>4. CASE RegisterHeld
    BY <1>t, <2>4 DEF RegisterHeld, Live, Running, WorkerTypeOK
  <2>5. ASSUME NEW u \in Task, DrainKilled(u) \/ ScanOrphan(u)
        PROVE  held' = t \/ Live(t)'
    <3>1. CASE u # t
      BY <1>t, <1>o, <2>5, <3>1
         DEF DrainKilled, ScanOrphan, MoveOn, loopVars, coVars, WorkerTypeOK
    <3>2. CASE u = t
      BY <1>t, <1>s, <2>5, <3>2 DEF DrainKilled, ScanOrphan, Live, WorkerTypeOK
    <3> QED BY <3>1, <3>2
  <2>6. ASSUME NEW u \in Task, Claim(u) PROVE Live(t)'
    <3>1. held = NoTask /\ UNCHANGED <<orphan, co, slot>>
      BY <2>6 DEF Claim, OwnerInv, coVars
    <3> QED BY <3>1, NoTaskAssumption DEF Live
  <2>7. ASSUME NEW l \in Lane, DispatchBucket(l) PROVE held' = t \/ Live(t)'
    <3>1. held' = held
      BY <2>7 DEF DispatchBucket
    <3>2. Live(t) => Live(t)'
      BY <2>7 DEF DispatchBucket, Live, Running, coVars
    <3> QED BY <3>1, <3>2
  <2> QED BY <1>1, <2>1, <2>2, <2>3, <2>4, <2>5, <2>6, <2>7 DEF MainLoop
<1>2. CASE Background
  <2>1. PICK u \in Task : Coroutine(u) \/ Signal(u) \/ RefuseOrphan(u)
    BY <1>2 DEF Background
  <2>2. CASE RefuseOrphan(u)
    <3>1. u # t
      BY <1>s, <2>2 DEF RefuseOrphan
    <3> QED BY <1>t, <1>o, <2>2, <3>1 DEF RefuseOrphan, coVars, WorkerTypeOK
  <2>3. CASE Signal(u)
    <3>1. UNCHANGED <<held, orphan>>
      BY <2>3 DEF Signal, loopVars
    <3>2. CASE UNCHANGED coVars
      BY <1>o, <3>1, <3>2 DEF coVars
    <3>3. CASE slot[u] # "free" /\ MoveOn(u, Interrupted(u))
      <4>1. CASE u # t
        BY <1>t, <1>o, <3>1, <3>3, <4>1 DEF MoveOn, WorkerTypeOK
      <4>2. CASE u = t
        <5>1. /\ co'[t] \in {"killed", "cancel"}
              /\ slot'[t] = slot[t] /\ slot[t] \in {"pending", "inflight"}
          BY <1>t, <3>3, <4>2 DEF MoveOn, Interrupted, WorkerTypeOK
        <5> QED BY <5>1 DEF Live, Leaked, Running
      <4> QED BY <4>1, <4>2
    <3> QED BY <2>3, <3>2, <3>3 DEF Signal
  <2>4. CASE Coroutine(u)
    <3>1. UNCHANGED <<held, orphan>>
      BY <2>4 DEF Coroutine, Enter, Acquire, ResumePoll, Submit, Resend, PersistJobId, Deliver,
                  Fail, WriteOk, WriteFail, WriteCancel, loopVars
    <3>2. Acquire(u) \/ Return(u) \/ \E to \in Running : MoveOn(u, to)
      BY <2>4 DEF Coroutine, Enter, ResumePoll, Submit, Resend, PersistJobId, Deliver,
                  Fail, WriteOk, WriteFail, WriteCancel, Running
    <3>3. CASE u # t
      BY <1>t, <1>o, <3>1, <3>2, <3>3 DEF Acquire, Return, MoveOn, WorkerTypeOK
    <3>4. CASE u = t
      <4>1. ~WriteCancel(t)
        BY <1>s DEF WriteCancel
      <4>2. Acquire(t) \/ \E to \in Running : MoveOn(t, to)
        BY <1>s, <2>4, <3>4, <4>1
           DEF Coroutine, Enter, ResumePoll, Submit, Resend, PersistJobId, Deliver, Fail, WriteOk,
               WriteFail, Running
      <4>3. co'[t] \in Running
        BY <1>t, <4>2 DEF Acquire, MoveOn, WorkerTypeOK, Running
      <4> QED BY <4>3 DEF Live
    <3> QED BY <3>3, <3>4
  <2> QED BY <2>1, <2>2, <2>3, <2>4
<1>3. CASE Environment
  <2>1. ~Crash /\ ~Exit /\ ~Start /\ ~StopRequested
    BY DEF Crash, Exit, Forget, Start, StopRequested
  <2>2. UNCHANGED <<held, orphan, co, slot>>
    BY <1>3, <2>1 DEF Environment, Reload, UserCancelsAll, SubmitTask, UserCancelReads,
                      UserCancels, workerVars, loopVars, coVars
  <2> QED BY <1>o, <2>2
<1>4. CASE UNCHANGED vars
  BY <1>o, <1>4 DEF vars, workerVars, loopVars, coVars
<1> QED BY <1>1, <1>2, <1>3, <1>4 DEF WorkerNext

(* A process is past its scan's list only after it has made that list.     *)
LEMMA PastTheList ==
  ASSUME [WorkerNext]_vars, up' = "up", loop' # "list"
  PROVE  up = "up" /\ (loop # "list" \/ ListOrphans)
<1>1. CASE MainLoop
  BY <1>1 DEF MainLoop, Drain, DrainDone, ListOrphans, ScanDone, NothingToClaim, RefuseHeld,
              PutBackHeld, RegisterHeld, DrainKilled, ScanOrphan, Claim, DispatchBucket
<1>2. CASE Background
  BY <1>2 DEF Background, Coroutine, Signal, RefuseOrphan, Enter, Acquire, ResumePoll,
              Submit, Resend, PersistJobId, Deliver, Fail, WriteOk, WriteFail, WriteCancel, loopVars
<1>3. CASE Environment
  BY <1>3 DEF Environment, Crash, Exit, Forget, Start, StopRequested, Reload,
              UserCancelsAll, SubmitTask, UserCancelReads, UserCancels, workerVars, loopVars
<1>4. CASE UNCHANGED vars
  BY <1>4 DEF vars, workerVars, loopVars
<1> QED BY <1>1, <1>2, <1>3, <1>4 DEF WorkerNext

(* ADR 0006 wants no row to stay cancelling for ever. The two ways in which*)
(* the code leaves one to nobody, both of them shown by counterexamples,   *)
(* are the only ones, for any number of tasks, lanes, reloads and restarts.*)
THEOREM NoThirdWayToGetStuck == WorkerSpec => StuckInTwoWays
<1>1. ASSUME TypeInv, OwnerInv, [WorkerNext]_vars, NEW t \in Task, Stuck(t)', ~Stuck(t),
             ~Leaked(t)', ~(held = t /\ (RefuseHeld \/ PutBackHeld))
      PROVE  FALSE
  <2>1. up = "up" /\ (loop # "list" \/ ListOrphans)
    BY <1>1, PastTheList DEF Stuck
  <2>2. status[t] \in {"running", "cancelling"}
    <3>1. Move(t)
      BY <1>1, QueueStep, StepsAreMoves DEF TypeInv, WorkerTypeOK, StepIsMoves
    <3> QED BY <1>1, <3>1 DEF Move, Stuck
  <2>3. CASE ListOrphans
    <3>1. orphan'[t] # "none"
      BY <2>2, <2>3 DEF ListOrphans
    <3> QED BY <1>1, <3>1 DEF Stuck, Live
  <2>4. CASE loop # "list"
    <3>1. held = t \/ Live(t)
      BY <1>1, <2>1, <2>2, <2>4 DEF Stuck, OwnerInv, RunningRowsHaveAnOwner
    <3> QED BY <1>1, <2>1, <2>4, <3>1, LettingGo DEF Stuck
  <2> QED BY <2>1, <2>3, <2>4
<1>2. TypeInv /\ OwnerInv /\ [WorkerNext]_vars =>
        [\A t \in Task : Stuck(t)' =>
           \/ Stuck(t)
           \/ Leaked(t)'
           \/ held = t /\ (RefuseHeld \/ PutBackHeld)]_vars
  BY <1>1
<1>3. WorkerInit => OwnerInv
  BY DEF WorkerInit, OwnerInv, RunningRowsHaveAnOwner
<1>4. TypeInv /\ OwnerInv /\ [WorkerNext]_vars => TypeInv' /\ OwnerInv'
  BY TypeStep, OwnerStep
<1> QED BY <1>2, <1>3, <1>4, TypeInit, PTL DEF WorkerSpec, StuckInTwoWays

(***************************************************************************)
(* The capacity of a lane. Two gates admit work to it: the main loop counts*)
(* every occupant before it registers a claimed task, and the dispatcher's *)
(* semaphore counts only the resumed tasks it let through. Together they   *)
(* keep the capacity because all of a process's resumed tasks take their   *)
(* places before its first claim, and each lane's semaphore is created     *)
(* once.                                                                   *)
(***************************************************************************)

(* A process begins without occupants, and until its scan is over the only *)
(* ones are the tasks it resumes.                                          *)
ScanComesFirst ==
  /\ up = "down" => loop = "off"
  /\ loop \in {"off", "list"} => resume = {} /\ \A t \in Task : slot[t] = "free"
  /\ loop = "scan" => \A t \in Task : slot[t] # "free" => t \in resume

(* When a lane has resumed tasks, all its orphans have been dispatched.    *)
DispatchedOnce ==
  \A t \in resume : \A u \in Task :
    LaneOf[u] = LaneOf[t] => orphan[u] \notin {"running", "cancelling", "resume"}

(* Who works has an occupant in flight; who waits for the semaphore is     *)
(* resumed, and has one.                                                   *)
WorkHasASlot ==
  /\ \A t \in Task : co[t] \in {"entry", "exec", "sent", "poll"}
                       \/ (co[t] = "new" /\ t \notin resume) => slot[t] = "inflight"
  /\ \A t \in Task : co[t] \in {"new", "wait"} => slot[t] # "free"
  /\ \A t \in Task : co[t] = "wait" => t \in resume

Claimed(l) == {t \in Occupants(l) : t \notin resume}

(* The two gates: with a claimed task among them the occupants of a lane   *)
(* fit in a table, and the holders of its semaphore always do.             *)
GatesHold ==
  \A l \in Lane :
    /\ Claimed(l) # {} => \E c \in Capacities : Cardinality(Occupants(l)) <= c[l]
    /\ Cardinality(Holders(l)) <= permits[l]
    /\ permits[l] = 0 \/ \E c \in Capacities : permits[l] = c[l]

CapInv == ScanComesFirst /\ DispatchedOnce /\ WorkHasASlot /\ GatesHold

(* Occupants and holders are finitely many.                                *)
LEMMA FewTasks ==
  ASSUME IsFiniteSet(Task), NEW S \in SUBSET Task
  PROVE  IsFiniteSet(S) /\ Cardinality(S) \in Nat
BY FS_Subset, FS_CardinalityType

(* One more place is taken.                                                *)
LEMMA OneMore ==
  ASSUME NEW S, NEW x, IsFiniteSet(S)
  PROVE  /\ Cardinality(S \cup {x}) <= Cardinality(S) + 1
         /\ Cardinality(S \cup {x}) \in Nat
<1>1. Cardinality(S) \in Nat
  BY FS_CardinalityType
<1>2. Cardinality(S \cup {x}) = IF x \in S THEN Cardinality(S) ELSE Cardinality(S) + 1
  BY FS_AddElement
<1> QED BY <1>1, <1>2

(* When places are only given up, the gates hold.                          *)
LEMMA GatesFrame ==
  ASSUME IsFiniteSet(Task), TypeInv, CapInv, UNCHANGED <<resume, permits>>,
         \A t \in Task : slot'[t] = slot[t] \/ slot'[t] = "free"
  PROVE  GatesHold'
<1> SUFFICES ASSUME NEW l \in Lane
             PROVE  /\ Claimed(l)' # {} =>
                         \E c \in Capacities : Cardinality(Occupants(l)') <= c[l]
                    /\ Cardinality(Holders(l)') <= permits[l]
                    /\ permits[l] = 0 \/ \E c \in Capacities : permits[l] = c[l]
  BY DEF GatesHold
<1>1. /\ Occupants(l)' \subseteq Occupants(l) /\ Holders(l)' \subseteq Holders(l)
      /\ Claimed(l)' \subseteq Claimed(l)
      /\ Occupants(l) \subseteq Task /\ Holders(l) \subseteq Task
  BY DEF Occupants, Holders, Claimed, TypeInv, WorkerTypeOK
<1>2. /\ Cardinality(Occupants(l)') <= Cardinality(Occupants(l))
      /\ Cardinality(Holders(l)') <= Cardinality(Holders(l))
      /\ Cardinality(Occupants(l)') \in Nat /\ Cardinality(Occupants(l)) \in Nat
      /\ Cardinality(Holders(l)') \in Nat /\ Cardinality(Holders(l)) \in Nat
  BY <1>1, FewTasks, FS_Subset, FS_CardinalityType
<1>3. permits[l] \in Nat /\ \A c \in Capacities : c[l] \in Nat
  BY LaneAssumption DEF TypeInv, WorkerTypeOK
<1> QED BY <1>1, <1>2, <1>3 DEF CapInv, GatesHold

(* The same, for steps that end or pass on the work of a coroutine.        *)
LEMMA CapFrame ==
  ASSUME IsFiniteSet(Task), TypeInv, CapInv, UNCHANGED <<resume, permits>>,
         \A t \in Task : slot'[t] = slot[t] \/ slot'[t] = "free",
         UNCHANGED <<up, loop>> \/ (up' = up /\ loop \notin {"off", "list"}
                                     /\ loop' \notin {"off", "list", "scan"}),
         \A t \in Task : orphan'[t] \in {"running", "cancelling", "resume"}
                           => orphan[t] \in {"running", "cancelling", "resume"},
         WorkHasASlot'
  PROVE  CapInv'
<1>1. ScanComesFirst'
  BY DEF CapInv, ScanComesFirst
<1>2. DispatchedOnce'
  BY DEF CapInv, DispatchedOnce
<1> QED BY <1>1, <1>2, GatesFrame DEF CapInv

(* CapInv is inductive.                                                    *)
LEMMA CapStep ==
  ASSUME IsFiniteSet(Task), TypeInv, PaidInv, CapInv, [WorkerNext]_vars
  PROVE  CapInv'
<1> USE LaneAssumption, NoTaskAssumption
<1>t. WorkerTypeOK
  BY DEF TypeInv
<1>w. UNCHANGED <<co, slot, resume>> => WorkHasASlot'
  BY DEF CapInv, WorkHasASlot
<1>1. CASE MainLoop
  <2>1. CASE Drain
    <3>1. WorkHasASlot'
      BY <1>t, <2>1 DEF Drain, CapInv, WorkHasASlot, Running, coVars, WorkerTypeOK
    <3>2. /\ UNCHANGED <<up, orphan, resume, permits>> /\ loop = "top"
          /\ loop' \in {"join", "drain"}
          /\ \A t \in Task : slot'[t] = slot[t] \/ slot'[t] = "free"
      BY <1>t, <2>1 DEF Drain, coVars, WorkerTypeOK
    <3> QED BY <3>1, <3>2, CapFrame
  <2>2. CASE DrainDone \/ ScanDone \/ NothingToClaim \/ RefuseHeld \/ PutBackHeld
             \/ \E t \in Task : Claim(t)
    <3>1. /\ UNCHANGED <<up, orphan, co, slot, resume, permits>>
          /\ loop \notin {"off", "list"} /\ loop' \notin {"off", "list", "scan"}
      BY <2>2 DEF DrainDone, ScanDone, NothingToClaim, RefuseHeld, PutBackHeld, Claim,
                  NextMedia, coVars
    <3> QED BY <1>w, <3>1, CapFrame
  <2>3. CASE ListOrphans
    <3>1. /\ UNCHANGED <<up, co, slot, resume, permits>> /\ loop = "list" /\ loop' = "scan"
      BY <2>3 DEF ListOrphans, coVars
    <3>2. ScanComesFirst' /\ DispatchedOnce'
      BY <3>1 DEF CapInv, ScanComesFirst, DispatchedOnce
    <3>3. GatesHold'
      BY <3>1, GatesFrame
    <3> QED BY <1>w, <3>1, <3>2, <3>3 DEF CapInv
  <2>4. CASE RegisterHeld
    <3>1. /\ held \in Task /\ UNCHANGED <<up, orphan, resume, permits, cap>>
          /\ co' = [co EXCEPT ![held] = "new"] /\ slot' = [slot EXCEPT ![held] = "inflight"]
          /\ loop = "held" /\ loop' = "claim" /\ HasRoom(LaneOf[held])
      BY <2>4 DEF RegisterHeld, TypeInv, HeldOK
    <3>2. held \notin resume
      BY <3>1 DEF PaidInv, Untouched
    <3>3. WorkHasASlot'
      BY <1>t, <3>1, <3>2 DEF CapInv, WorkHasASlot, WorkerTypeOK
    <3>4. ScanComesFirst' /\ DispatchedOnce'
      BY <3>1 DEF CapInv, ScanComesFirst, DispatchedOnce
    <3>5. ASSUME NEW l \in Lane
          PROVE  /\ Claimed(l)' # {} =>
                      \E c \in Capacities : Cardinality(Occupants(l)') <= c[l]
                 /\ Holders(l)' = Holders(l)
      <4>1. Holders(l)' = Holders(l)
        BY <1>t, <3>1, <3>2 DEF Holders, WorkerTypeOK
      <4>2. CASE l # LaneOf[held]
        <5>1. Occupants(l)' = Occupants(l) /\ Claimed(l)' = Claimed(l)
          BY <1>t, <3>1, <4>2 DEF Occupants, Claimed, WorkerTypeOK
        <5> QED BY <4>1, <5>1 DEF CapInv, GatesHold
      <4>3. CASE l = LaneOf[held]
        <5>1. Occupants(l)' = Occupants(l) \cup {held} /\ Occupants(l) \subseteq Task
          BY <1>t, <3>1, <4>3 DEF Occupants, WorkerTypeOK
        <5>2. IsFiniteSet(Occupants(l)) /\ Cardinality(Occupants(l)) \in Nat
          BY <5>1, FewTasks
        <5>3. /\ Cardinality(Occupants(l)') <= Cardinality(Occupants(l)) + 1
              /\ Cardinality(Occupants(l)') \in Nat
          BY <5>1, <5>2, OneMore
        <5>4. Cardinality(Occupants(l)) < cap[l] /\ cap \in Capacities /\ cap[l] \in Nat
          BY <1>t, <3>1, <4>3 DEF HasRoom, WorkerTypeOK
        <5>5. Cardinality(Occupants(l)') <= cap[l]
          BY <5>2, <5>3, <5>4
        <5> QED BY <4>1, <5>4, <5>5
      <4> QED BY <4>2, <4>3
    <3>6. GatesHold'
      BY <3>1, <3>5 DEF CapInv, GatesHold
    <3> QED BY <3>3, <3>4, <3>6 DEF CapInv
  <2>5. ASSUME NEW t \in Task, DrainKilled(t) \/ ScanOrphan(t) PROVE CapInv'
    <3>1. UNCHANGED <<up, loop, slot, resume, permits>>
      BY <2>5 DEF DrainKilled, ScanOrphan, MoveOn, loopVars, coVars
    <3>2. WorkHasASlot'
      BY <1>t, <1>w, <2>5 DEF DrainKilled, ScanOrphan, MoveOn, coVars, CapInv, WorkHasASlot,
                              WorkerTypeOK
    <3>3. \A u \in Task : orphan'[u] \in {"running", "cancelling", "resume"}
                            => orphan[u] \in {"running", "cancelling", "resume"}
      BY <1>t, <2>5 DEF DrainKilled, ScanOrphan, loopVars, WorkerTypeOK
    <3> QED BY <3>1, <3>2, <3>3, CapFrame
  <2>6. ASSUME NEW l \in Lane, DispatchBucket(l) PROVE CapInv'
    <3>0. /\ UNCHANGED <<up, loop>> /\ loop = "scan" /\ cap' \in Capacities
          /\ Bucket(l) # {} /\ \A t \in Task : orphan[t] \in {"none", "resume", "refuse"}
      BY <1>t, <2>6 DEF DispatchBucket, WorkerTypeOK
    <3>1. CASE UNCHANGED coVars
      <4>1. UNCHANGED <<co, slot, resume, permits>>
        BY <3>1 DEF coVars
      <4>2. \A u \in Task : orphan'[u] \in {"running", "cancelling", "resume"}
                              => orphan[u] \in {"running", "cancelling", "resume"}
        BY <1>t, <2>6 DEF DispatchBucket, Bucket, WorkerTypeOK
      <4> QED BY <1>w, <3>0, <4>1, <4>2, CapFrame
    <3>2. CASE /\ co' = [t \in Task |-> IF t \in Bucket(l) THEN "new" ELSE co[t]]
               /\ slot' = [t \in Task |-> IF t \in Bucket(l) THEN "pending" ELSE slot[t]]
               /\ resume' = resume \cup Bucket(l)
               /\ permits' = [permits EXCEPT ![l] = cap'[l]]
               /\ orphan' = [t \in Task |-> IF t \in Bucket(l) THEN "none" ELSE orphan[t]]
      <4>1. \A t \in Task : LaneOf[t] = l => t \notin resume
        BY <3>0 DEF Bucket, CapInv, DispatchedOnce
      <4>2. /\ \A t \in Bucket(l) : t \in Task /\ LaneOf[t] = l
            /\ \A t \in Task : LaneOf[t] = l => orphan'[t] \in {"none", "refuse"}
        BY <3>0, <3>2 DEF Bucket
      <4>3. ScanComesFirst'
        BY <1>t, <3>0, <3>2 DEF CapInv, ScanComesFirst
      <4>4. DispatchedOnce'
        BY <1>t, <3>0, <3>2, <4>2 DEF CapInv, DispatchedOnce, WorkerTypeOK
      <4>5. WorkHasASlot'
        BY <1>t, <3>2, <4>1, <4>2 DEF CapInv, WorkHasASlot
      <4>6. ASSUME NEW m \in Lane
            PROVE  /\ Claimed(m)' = {}
                   /\ m # l => Holders(m)' = Holders(m) /\ permits'[m] = permits[m]
                   /\ m = l => Holders(m)' = {} /\ permits'[m] = cap'[m]
        <5>1. Claimed(m)' = {}
          BY <3>0, <4>3 DEF Claimed, Occupants, ScanComesFirst
        <5>2. m # l => Holders(m)' = Holders(m) /\ permits'[m] = permits[m]
          BY <1>t, <3>2, <4>2 DEF Holders, WorkerTypeOK
        <5>3. m = l => Holders(m)' = {} /\ permits'[m] = cap'[m]
          BY <1>t, <3>2, <4>1, <4>2 DEF Holders, WorkerTypeOK
        <5> QED BY <5>1, <5>2, <5>3
      <4>7. cap'[l] \in Nat /\ Cardinality({}) = 0
        BY <3>0, FS_EmptySet
      <4>8. GatesHold'
        <5> SUFFICES ASSUME NEW m \in Lane
                     PROVE  /\ Claimed(m)' = {}
                            /\ Cardinality(Holders(m)') <= permits'[m]
                            /\ permits'[m] = 0 \/ \E c \in Capacities : permits'[m] = c[m]
          BY DEF GatesHold
        <5>1. CASE m = l
          <6>1. Claimed(m)' = {} /\ Holders(m)' = {} /\ permits'[m] = cap'[m]
            BY <4>6, <5>1
          <6>2. Cardinality(Holders(m)') = 0 /\ cap'[m] \in Nat
            BY <4>7, <5>1, <6>1
          <6> QED BY <3>0, <6>1, <6>2
        <5>2. CASE m # l
          BY <4>6, <5>2 DEF CapInv, GatesHold
        <5> QED BY <5>1, <5>2
      <4> QED BY <4>3, <4>4, <4>5, <4>8 DEF CapInv
    <3> QED BY <2>6, <3>1, <3>2 DEF DispatchBucket
  <2> QED BY <1>1, <2>1, <2>2, <2>3, <2>4, <2>5, <2>6 DEF MainLoop
<1>2. CASE Background
  <2>1. PICK t \in Task : Coroutine(t) \/ Signal(t) \/ RefuseOrphan(t)
    BY <1>2 DEF Background
  <2>2. CASE RefuseOrphan(t)
    <3>1. /\ UNCHANGED <<up, loop, co, slot, resume, permits>>
          /\ \A u \in Task : orphan'[u] \in {"running", "cancelling", "resume"}
                               => orphan[u] \in {"running", "cancelling", "resume"}
      BY <1>t, <2>2 DEF RefuseOrphan, coVars, WorkerTypeOK
    <3> QED BY <1>w, <3>1, CapFrame
  <2>3. CASE Signal(t)
    <3>1. UNCHANGED <<up, loop, orphan, slot, resume, permits>>
      BY <2>3 DEF Signal, MoveOn, loopVars, coVars
    <3>2. WorkHasASlot'
      <4>1. Interrupted(t) \in {"killed", "cancel"}
        BY DEF Interrupted
      <4> QED BY <1>t, <1>w, <2>3, <4>1 DEF Signal, MoveOn, coVars, CapInv, WorkHasASlot,
                                            WorkerTypeOK
    <3> QED BY <3>1, <3>2, CapFrame
  <2>4. CASE /\ Coroutine(t) /\ ~Acquire(t)
    <3>1. /\ UNCHANGED <<up, loop, orphan, resume, permits>>
          /\ \A u \in Task : slot'[u] = slot[u] \/ slot'[u] = "free"
      <4>1. UNCHANGED <<up, loop, orphan>> /\ (Return(t) \/ \E to \in CoState : MoveOn(t, to))
        BY <2>4 DEF Coroutine, Enter, ResumePoll, Submit, Resend, PersistJobId, Deliver, Fail,
                    WriteOk, WriteFail, WriteCancel, CoState, Running, loopVars
      <4> QED BY <1>t, <4>1 DEF Return, MoveOn, WorkerTypeOK
    <3>2. WorkHasASlot'
      <4>1. CASE Enter(t)
        BY <1>t, <4>1 DEF Enter, MoveOn, CapInv, WorkHasASlot, WorkerTypeOK
      <4>2. CASE \/ ResumePoll(t) \/ Submit(t) \/ Resend(t)
                 \/ PersistJobId(t) \/ Deliver(t) \/ Fail(t)
        <5>1. /\ co[t] \in {"entry", "exec", "sent", "poll"} /\ UNCHANGED <<slot, resume>>
              /\ \E to \in {"exec", "poll", "sent", "ok", "fail"} : co' = [co EXCEPT ![t] = to]
          BY <4>2 DEF ResumePoll, Submit, Resend, PersistJobId, Deliver, Fail, MoveOn
        <5> QED BY <1>t, <5>1 DEF CapInv, WorkHasASlot, WorkerTypeOK
      <4>3. CASE WriteOk(t) \/ WriteFail(t) \/ WriteCancel(t)
        <5>1. \/ Return(t) \/ MoveOn(t, "cancel")
          BY <4>3 DEF WriteOk, WriteFail, WriteCancel
        <5> QED BY <1>t, <5>1 DEF Return, MoveOn, CapInv, WorkHasASlot, WorkerTypeOK
      <4> QED BY <2>4, <4>1, <4>2, <4>3 DEF Coroutine
    <3> QED BY <3>1, <3>2, CapFrame
  <2>5. CASE Acquire(t)
    <3>1. /\ UNCHANGED <<up, loop, orphan, resume, permits>>
          /\ t \in resume /\ slot[t] # "free"
          /\ Cardinality(Holders(LaneOf[t])) < permits[LaneOf[t]]
      BY <2>5 DEF Acquire, loopVars, CapInv, WorkHasASlot
    <3>2. WorkHasASlot'
      BY <1>t, <2>5 DEF Acquire, CapInv, WorkHasASlot, WorkerTypeOK
    <3>3. CASE slot' = [slot EXCEPT ![t] = "free"]
      <4>1. \A u \in Task : slot'[u] = slot[u] \/ slot'[u] = "free"
        BY <1>t, <3>3 DEF WorkerTypeOK
      <4> QED BY <3>1, <3>2, <4>1, CapFrame
    <3>4. CASE slot' = [slot EXCEPT ![t] = "inflight"]
      <4>1. ScanComesFirst' /\ DispatchedOnce'
        BY <1>t, <3>1, <3>4 DEF CapInv, ScanComesFirst, DispatchedOnce, WorkerTypeOK
      <4>2. ASSUME NEW l \in Lane
            PROVE  /\ Claimed(l)' = Claimed(l) /\ Occupants(l)' = Occupants(l)
                   /\ Cardinality(Holders(l)') <= permits[l]
        <5>1. Claimed(l)' = Claimed(l) /\ Occupants(l)' = Occupants(l)
          BY <1>t, <3>1, <3>4 DEF Claimed, Occupants, WorkerTypeOK
        <5>2. CASE l # LaneOf[t]
          <6>1. Holders(l)' = Holders(l)
            BY <1>t, <3>1, <3>4, <5>2 DEF Holders, WorkerTypeOK
          <6> QED BY <5>1, <6>1 DEF CapInv, GatesHold
        <5>3. CASE l = LaneOf[t]
          <6>1. Holders(l)' = Holders(l) \cup {t} /\ Holders(l) \subseteq Task
            BY <1>t, <3>1, <3>4, <5>3 DEF Holders, WorkerTypeOK
          <6>2. IsFiniteSet(Holders(l)) /\ Cardinality(Holders(l)) \in Nat
            BY <6>1, FewTasks
          <6>3. /\ Cardinality(Holders(l)') <= Cardinality(Holders(l)) + 1
                /\ Cardinality(Holders(l)') \in Nat
            BY <6>1, <6>2, OneMore
          <6>4. permits[l] \in Nat /\ Cardinality(Holders(l)) < permits[l]
            BY <1>t, <3>1, <5>3 DEF WorkerTypeOK
          <6>5. Cardinality(Holders(l)') <= permits[l]
            BY <6>2, <6>3, <6>4
          <6> QED BY <5>1, <6>5
        <5> QED BY <5>2, <5>3
      <4>3. GatesHold'
        BY <3>1, <4>2 DEF CapInv, GatesHold
      <4> QED BY <3>2, <4>1, <4>3 DEF CapInv
    <3> QED BY <2>5, <3>3, <3>4 DEF Acquire
  <2> QED BY <2>1, <2>2, <2>3, <2>4, <2>5
<1>3. CASE Environment
  <2>1. CASE Crash \/ Exit
    <3>1. /\ up' = "down" /\ loop' = "off" /\ resume' = {}
          /\ \A t \in Task : slot'[t] = "free" /\ co'[t] = "none"
          /\ \A l \in Lane : permits'[l] = 0
      BY <2>1 DEF Crash, Exit, Forget
    <3>2. ASSUME NEW l \in Lane PROVE Claimed(l)' = {} /\ Cardinality(Holders(l)') = 0
      BY <3>1, FS_EmptySet DEF Claimed, Occupants, Holders
    <3> QED BY <3>1, <3>2 DEF CapInv, ScanComesFirst, DispatchedOnce, WorkHasASlot, GatesHold
  <2>2. CASE Start \/ StopRequested
    <3>1. /\ UNCHANGED <<orphan, co, slot, resume, permits>> /\ up' # "down"
          /\ loop' = loop \/ (loop' = "list" /\ up = "down")
      BY <2>2 DEF Start, StopRequested, loopVars, coVars
    <3>2. ScanComesFirst' /\ DispatchedOnce'
      BY <3>1 DEF CapInv, ScanComesFirst, DispatchedOnce
    <3>3. GatesHold'
      BY <3>1, GatesFrame
    <3> QED BY <1>w, <3>1, <3>2, <3>3 DEF CapInv
  <2>3. CASE \/ \E c \in Capacities : Reload(c)
             \/ \E p \in Swept : UserCancelsAll(p)
             \/ \E t \in Task : SubmitTask(t) \/ UserCancelReads(t) \/ UserCancels(t)
    <3>1. UNCHANGED <<up, loop, orphan, co, slot, resume, permits>>
      BY <2>3 DEF Reload, UserCancelsAll, SubmitTask, UserCancelReads, UserCancels,
                  workerVars, loopVars, coVars
    <3> QED BY <1>w, <3>1, CapFrame
  <2> QED BY <1>3, <2>1, <2>2, <2>3 DEF Environment
<1>4. CASE UNCHANGED vars
  <2>1. UNCHANGED <<up, loop, orphan, co, slot, resume, permits>>
    BY <1>4 DEF vars, workerVars, loopVars, coVars
  <2> QED BY <1>w, <2>1, CapFrame
<1> QED BY <1>1, <1>2, <1>3, <1>4 DEF WorkerNext

(* The two gates bound the work.                                           *)
LEMMA GatesBoundWork ==
  ASSUME IsFiniteSet(Task), TypeInv, CapInv
  PROVE  CapacityIsKept
<1> USE LaneAssumption
<1> SUFFICES ASSUME NEW l \in Lane
             PROVE  \E c \in Capacities : Cardinality(Working(l)) <= c[l]
  BY DEF CapacityIsKept
<1>1. /\ Working(l) \subseteq Occupants(l)
      /\ \A t \in Working(l) : t \in Task /\ LaneOf[t] = l /\ slot[t] = "inflight"
      /\ Occupants(l) \subseteq Task /\ Holders(l) \subseteq Task
  BY DEF Working, Occupants, Holders, CapInv, WorkHasASlot, TypeInv, WorkerTypeOK
<1>2. \A c \in Capacities : c[l] \in Nat
  OBVIOUS
<1>3. CASE Claimed(l) # {}
  <2>1. PICK c \in Capacities : Cardinality(Occupants(l)) <= c[l]
    BY <1>3 DEF CapInv, GatesHold
  <2>2. /\ Cardinality(Working(l)) <= Cardinality(Occupants(l))
        /\ Cardinality(Working(l)) \in Nat /\ Cardinality(Occupants(l)) \in Nat
    BY <1>1, FewTasks, FS_Subset
  <2> QED BY <1>2, <2>1, <2>2
<1>4. CASE Claimed(l) = {}
  <2>1. Working(l) \subseteq Holders(l)
    BY <1>1, <1>4 DEF Claimed, Holders
  <2>2. /\ Cardinality(Working(l)) <= Cardinality(Holders(l))
        /\ Cardinality(Working(l)) \in Nat /\ Cardinality(Holders(l)) \in Nat
    BY <1>1, <2>1, FewTasks, FS_Subset
  <2>3. /\ Cardinality(Holders(l)) <= permits[l] /\ permits[l] \in Nat
        /\ permits[l] = 0 \/ \E c \in Capacities : permits[l] = c[l]
    BY DEF CapInv, GatesHold, TypeInv, WorkerTypeOK
  <2> QED BY <1>2, <2>2, <2>3
<1> QED BY <1>3, <1>4

(* What works on a lane never exceeds a capacity the lane has had, although*)
(* claimed tasks and resumed orphans are admitted by two different gates.  *)
THEOREM CapacityIsAlwaysKept ==
  ASSUME IsFiniteSet(Task)
  PROVE  WorkerSpec => []CapacityIsKept
<1>1. WorkerInit => CapInv
  <2> SUFFICES ASSUME WorkerInit PROVE CapInv
    OBVIOUS
  <2>1. /\ up = "down" /\ loop = "off" /\ resume = {}
        /\ \A t \in Task : slot[t] = "free" /\ co[t] = "none"
        /\ \A l \in Lane : permits[l] = 0
    BY DEF WorkerInit
  <2>2. ASSUME NEW l \in Lane PROVE Claimed(l) = {} /\ Cardinality(Holders(l)) = 0
    BY <2>1, FS_EmptySet DEF Claimed, Occupants, Holders
  <2> QED BY <2>1, <2>2 DEF CapInv, ScanComesFirst, DispatchedOnce, WorkHasASlot, GatesHold
<1>2. TypeInv /\ PaidInv /\ CapInv /\ [WorkerNext]_vars => CapInv'
  BY CapStep
<1>3. TypeInv /\ CapInv => CapacityIsKept
  BY GatesBoundWork
<1> QED BY <1>1, <1>2, <1>3, PaidAlways, PTL DEF WorkerSpec
=============================================================================
