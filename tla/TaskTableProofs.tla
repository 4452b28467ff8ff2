--------------------------- MODULE TaskTableProofs ---------------------------
(***************************************************************************)
(* What TaskTable promises, proved for every set of tasks, of keys and of  *)
(* dependencies. All of it rests on three facts about the cascade of a     *)
(* failure or a cancellation: it takes the task it starts from, it takes   *)
(* nothing else that is not queued, and it leaves no queued dependent of   *)
(* what it takes behind.                                                   *)
(***************************************************************************)
EXTENDS TaskTable, TLAPS

(***************************************************************************)
(* The cascade                                                             *)
(***************************************************************************)

(* A cascade ends the task it starts from, and otherwise queued tasks.     *)
LEMMA CascadeMembers ==
  ASSUME NEW t \in Task
  PROVE  /\ t \in Cascade(t)
         /\ \A u \in Cascade(t) : u \in Task /\ (u = t \/ status[u] = "queued")
<1>1. t \in Cascade(t)
  BY DEF Cascade
<1>2. ASSUME NEW u \in Cascade(t)
      PROVE  u \in Task /\ (u = t \/ status[u] = "queued")
  <2> DEFINE S == {t} \cup {v \in Task : status[v] = "queued"}
  <2>1. S \in SUBSET Task /\ t \in S
    OBVIOUS
  <2>2. \A v \in Task : (status[v] = "queued" /\ Dep[v] \in S) => v \in S
    OBVIOUS
  <2>3. u \in Task /\ u \in S
    BY <1>2, <2>1, <2>2 DEF Cascade
  <2> QED BY <2>3
<1> QED BY <1>1, <1>2

(* A queued dependent of what a cascade ends is ended by it too.           *)
LEMMA CascadeIsClosed ==
  ASSUME NEW t \in Task, NEW u \in Task, status[u] = "queued", Dep[u] \in Cascade(t)
  PROVE  u \in Cascade(t)
<1> SUFFICES ASSUME NEW S \in SUBSET Task, t \in S,
                    \A v \in Task : (status[v] = "queued" /\ Dep[v] \in S) => v \in S
             PROVE  u \in S
  BY DEF Cascade
<1>1. Dep[u] \in S
  BY DEF Cascade
<1> QED BY <1>1

(***************************************************************************)
(* Moves: what one step may do to one row. Every property below is argued  *)
(* from the moves instead of from the actions.                             *)
(***************************************************************************)

Move(t) ==
  \/ status'[t] = status[t]
  \/ status[t] = "absent" /\ status'[t] = "queued" /\ KeyFree(t)
  \/ status[t] = "queued" /\ status'[t] = "running" /\ DepMet(t)
  \/ status[t] = "running" /\ status'[t] \in {"queued", "succeeded", "cancelling"}
  \/ status[t] \in Active /\ status'[t] = "cancelled"
  \/ status[t] \in {"queued", "running"} /\ status'[t] = "failed"

(* Only one row is inserted per step, and nothing else moves then.         *)
OneInsert ==
  \A t, u \in Task :
    status[t] = "absent" /\ status'[t] # "absent" /\ u # t => status'[u] = status[u]

(* The event log follows the row, but for a silent requeue and for what    *)
(* cancel_all_queued announces late or not at all.                         *)
Logged(t) ==
  \/ status'[t] # status[t] /\ event'[t] = status'[t]
  \/ status'[t] = status[t] /\ event'[t] = event[t]
  \/ status[t] = "running" /\ status'[t] = "queued" /\ event'[t] = event[t]
  \/ /\ status[t] \in {"queued", "cancelled"} /\ status'[t] = "cancelled"
     /\ event'[t] \in {event[t], "cancelled"}

StepIsMoves ==
  /\ status' \in [Task -> Status] /\ event' \in [Task -> Status]
  /\ \A t \in Task : Move(t) /\ Logged(t)
  /\ OneInsert

(* A status function whose every entry is a legal move, published.         *)
LEMMA PublishLogs ==
  ASSUME TypeOK, NEW new \in [Task -> Status], Publish(new)
  PROVE  /\ status' = new
         /\ event' \in [Task -> Status]
         /\ \A t \in Task : Logged(t)
BY DEF TypeOK, Publish, Logged, Status

(* mark_failed moves the task and its queued dependents to failed.         *)
LEMMA FailedWriteMoves ==
  ASSUME TypeOK, NEW t \in Task, status[t] = "running", MarkFailedWrite(t)
  PROVE  StepIsMoves
<1> DEFINE new == [u \in Task |-> IF u \in Cascade(t) THEN "failed" ELSE status[u]]
<1>1. new \in [Task -> Status]
  BY DEF TypeOK, Status, Terminal
<1>2. status' = new /\ event' \in [Task -> Status] /\ \A u \in Task : Logged(u)
  BY <1>1, PublishLogs DEF MarkFailedWrite
<1>3. \A u \in Task : Move(u)
  BY <1>2, CascadeMembers DEF Move
<1>4. OneInsert
  BY <1>2, CascadeMembers DEF OneInsert
<1> QED BY <1>1, <1>2, <1>3, <1>4 DEF StepIsMoves

(* _mark_cancelled moves the task and its queued dependents to cancelled,  *)
(* and running dependents to cancelling.                                   *)
LEMMA CancelledWriteMoves ==
  ASSUME TypeOK, NEW t \in Task, status[t] \in Active, MarkCancelledWrite(t)
  PROVE  StepIsMoves
<1> DEFINE new == [u \in Task |-> IF u \in Cascade(t) THEN "cancelled"
                                  ELSE IF u \in Stirred(t) THEN "cancelling"
                                  ELSE status[u]]
<1>1. new \in [Task -> Status]
  BY DEF TypeOK, Status, Active, Terminal
<1>2. status' = new /\ event' \in [Task -> Status] /\ \A u \in Task : Logged(u)
  BY <1>1, PublishLogs DEF MarkCancelledWrite
<1>3. \A u \in Task : Move(u)
  BY <1>2, CascadeMembers DEF Move, Stirred, Active
<1>4. OneInsert
  BY <1>2, CascadeMembers DEF OneInsert, Stirred, Active
<1> QED BY <1>1, <1>2, <1>3, <1>4 DEF StepIsMoves

(* Any transaction that moves one row by one move, with its event.         *)
LEMMA SingleMove ==
  ASSUME TypeOK, NEW t \in Task, NEW s \in Status,
         Publish([status EXCEPT ![t] = s]),
         \/ status[t] = "absent" /\ s = "queued" /\ KeyFree(t)
         \/ status[t] = "queued" /\ s = "running" /\ DepMet(t)
         \/ status[t] = "running" /\ s \in {"succeeded", "cancelling"}
  PROVE  StepIsMoves
<1>1. [status EXCEPT ![t] = s] \in [Task -> Status]
  BY DEF TypeOK
<1>2. /\ status' = [status EXCEPT ![t] = s]
      /\ event' \in [Task -> Status] /\ \A u \in Task : Logged(u)
  BY <1>1, PublishLogs
<1>3. \A u \in Task : Move(u)
  BY <1>2 DEF Move, TypeOK
<1>4. OneInsert
  BY <1>2 DEF OneInsert, TypeOK
<1> QED BY <1>1, <1>2, <1>3, <1>4 DEF StepIsMoves

(* Every step of the queue is made of moves.                               *)
LEMMA StepsAreMoves ==
  ASSUME TypeOK, [Next]_tableVars
  PROVE  StepIsMoves /\ TypeOK'
<1> USE DEF Active, Terminal, Status
<1>u. ASSUME UNCHANGED <<status, event>> PROVE StepIsMoves
  BY <1>u DEF TypeOK, StepIsMoves, Move, Logged, OneInsert
<1>1. ASSUME NEW t \in Task, Enqueue(t) PROVE StepIsMoves /\ TypeOK'
  <2>1. StepIsMoves
    BY <1>1, SingleMove DEF Enqueue
  <2>2. order' \in Seq(Task) /\ seen' = seen /\ listed' = listed
    BY <1>1 DEF Enqueue, TypeOK
  <2> QED BY <2>1, <2>2 DEF StepIsMoves, TypeOK
<1>2. ASSUME NEW t \in Task, CancelRead(t) PROVE StepIsMoves /\ TypeOK'
  BY <1>2, <1>u DEF CancelRead, TypeOK
<1>3. ASSUME NEW t \in Task, CancelDispatch(t) PROVE StepIsMoves /\ TypeOK'
  <2>1. StepIsMoves
    <3>1. CASE seen[t] = "queued" /\ status[t] \in Active /\ MarkCancelledWrite(t)
      BY <3>1, CancelledWriteMoves
    <3>2. CASE status[t] = "running" /\ Publish([status EXCEPT ![t] = "cancelling"])
      BY <3>2, SingleMove
    <3>3. CASE UNCHANGED <<status, event>>
      BY <3>3, <1>u
    <3> QED BY <1>3, <3>1, <3>2, <3>3 DEF CancelDispatch, CancelWrite
  <2>2. order' = order /\ listed' = listed /\ seen' = [seen EXCEPT ![t] = "none"]
    BY <1>3 DEF CancelDispatch
  <2> QED BY <2>1, <2>2 DEF StepIsMoves, TypeOK
<1>4. ASSUME NEW t \in Task, ClaimNext(t) PROVE StepIsMoves /\ TypeOK'
  <2>1. StepIsMoves
    BY <1>4, SingleMove DEF ClaimNext, Claimable
  <2> QED BY <1>4, <2>1 DEF ClaimNext, StepIsMoves, TypeOK
<1>5. ASSUME NEW t \in Task, MarkSucceeded(t) PROVE StepIsMoves /\ TypeOK'
  <2>1. StepIsMoves
    BY <1>5, SingleMove DEF MarkSucceeded
  <2> QED BY <1>5, <2>1 DEF MarkSucceeded, StepIsMoves, TypeOK
<1>6. ASSUME NEW t \in Task, MarkFailed(t) PROVE StepIsMoves /\ TypeOK'
  <2>1. StepIsMoves
    BY <1>6, FailedWriteMoves DEF MarkFailed
  <2> QED BY <1>6, <2>1 DEF MarkFailed, StepIsMoves, TypeOK
<1>7. ASSUME NEW t \in Task, FinalizeCancelled(t) PROVE StepIsMoves /\ TypeOK'
  <2>1. StepIsMoves
    BY <1>7, CancelledWriteMoves DEF FinalizeCancelled
  <2> QED BY <1>7, <2>1 DEF FinalizeCancelled, StepIsMoves, TypeOK
<1>8. ASSUME NEW t \in Task, RequeueSingle(t) PROVE StepIsMoves /\ TypeOK'
  BY <1>8 DEF RequeueSingle, TypeOK, StepIsMoves, Move, Logged, OneInsert
<1>9. ASSUME SessionsLost PROVE StepIsMoves /\ TypeOK'
  BY <1>9, <1>u DEF SessionsLost, TypeOK
<1>10. ASSUME NEW p \in Project, CancelAllRead(p) \/ CancelAllWrite(p)
       PROVE  StepIsMoves /\ TypeOK'
  <2>1. CASE CancelAllRead(p)
    BY <2>1, <1>u DEF CancelAllRead, QueuedIn, TypeOK
  <2>2. CASE CancelAllWrite(p)
    <3>1. /\ status' = [t \in Task |-> IF t \in QueuedIn(p) THEN "cancelled" ELSE status[t]]
          /\ event' = [t \in Task |-> IF t \in listed[p] /\ status'[t] = "cancelled"
                                        THEN "cancelled" ELSE event[t]]
          /\ listed' = [listed EXCEPT ![p] = NoSweep] /\ UNCHANGED <<order, seen>>
      BY <2>2 DEF CancelAllWrite
    <3>2. status' \in [Task -> Status] /\ event' \in [Task -> Status]
      BY <3>1 DEF TypeOK
    <3>3. \A t \in Task : /\ status'[t] # status[t] => status[t] = "queued"
                          /\ status'[t] = status[t] \/ status'[t] = "cancelled"
      BY <3>1 DEF QueuedIn
    <3>4. \A t \in Task : /\ status'[t] # "cancelled" => event'[t] = event[t]
                          /\ event'[t] \in {event[t], "cancelled"}
      BY <3>1
    <3>5. (\A t \in Task : Move(t) /\ Logged(t)) /\ OneInsert
      BY <3>3, <3>4 DEF Move, Logged, OneInsert
    <3> QED BY <3>1, <3>2, <3>5 DEF StepIsMoves, TypeOK
  <2> QED BY <1>10, <2>1, <2>2
<1>11. ASSUME NEW S \in SUBSET Task, RequeueRunning(S) PROVE StepIsMoves /\ TypeOK'
  <2> DEFINE new == [t \in Task |-> IF t \in S THEN "queued" ELSE status[t]]
  <2>1. new \in [Task -> Status] /\ Publish(new) /\ UNCHANGED <<order, seen, listed>>
    BY <1>11 DEF RequeueRunning, TypeOK
  <2>2. status' = new /\ event' \in [Task -> Status] /\ \A t \in Task : Logged(t)
    BY <2>1, PublishLogs
  <2>3. (\A t \in Task : Move(t)) /\ OneInsert
    BY <1>11, <2>2 DEF Move, OneInsert, RequeueRunning
  <2> QED BY <2>1, <2>2, <2>3 DEF StepIsMoves, TypeOK
<1>12. ASSUME UNCHANGED tableVars PROVE StepIsMoves /\ TypeOK'
  BY <1>12, <1>u DEF tableVars, TypeOK
<1> QED
  BY <1>1, <1>2, <1>3, <1>4, <1>5, <1>6, <1>7, <1>8, <1>9, <1>10, <1>11, <1>12 DEF Next

(***************************************************************************)
(* The theorems                                                            *)
(***************************************************************************)

(* The tables always hold what their columns may hold.                     *)
THEOREM Typing == Spec => []TypeOK
<1>1. Init => TypeOK
  BY DEF Init, TypeOK, Status
<1>2. TypeOK /\ [Next]_tableVars => TypeOK'
  BY StepsAreMoves
<1> QED BY <1>1, <1>2, PTL DEF Spec

(* At most one active task per dedupe key, whatever interleaving of        *)
(* enqueues, requeues, claims and cancellations the callers produce.       *)
THEOREM Deduplication == Spec => []OneActivePerKey
<1>1. Init => OneActivePerKey
  BY DEF Init, OneActivePerKey, Active
<1>2. ASSUME TypeOK, OneActivePerKey, [Next]_tableVars PROVE OneActivePerKey'
  <2>1. StepIsMoves
    BY <1>2, StepsAreMoves
  <2> SUFFICES ASSUME NEW t \in Task, NEW u \in Task, Key[t] = Key[u],
                      status'[t] \in Active, status'[u] \in Active
               PROVE  t = u
    BY DEF OneActivePerKey
  <2>2. CASE status[t] = "absent"
    BY <2>1, <2>2 DEF StepIsMoves, Move, OneInsert, KeyFree, Active
  <2>3. CASE status[u] = "absent"
    BY <2>1, <2>3 DEF StepIsMoves, Move, OneInsert, KeyFree, Active
  <2>4. CASE status[t] # "absent" /\ status[u] # "absent"
    <3>1. status[t] \in Active /\ status[u] \in Active
      BY <2>1, <2>4 DEF StepIsMoves, Move, Active
    <3> QED BY <1>2, <3>1 DEF OneActivePerKey
  <2> QED BY <2>2, <2>3, <2>4
<1> QED BY <1>1, <1>2, Typing, PTL DEF Spec

(* No task is running, being cancelled or done before its dependency has   *)
(* succeeded: nothing moves a row out of succeeded.                        *)
THEOREM DependencyOrder == Spec => []RunsAfterDependency
<1>1. Init => RunsAfterDependency
  BY DEF Init, RunsAfterDependency
<1>2. ASSUME TypeOK, RunsAfterDependency, [Next]_tableVars PROVE RunsAfterDependency'
  <2>1. StepIsMoves
    BY <1>2, StepsAreMoves
  <2> SUFFICES ASSUME NEW t \in Task,
                      status'[t] \in {"running", "cancelling", "succeeded"},
                      Dep[t] # NoTask
               PROVE  status'[Dep[t]] = "succeeded"
    BY DEF RunsAfterDependency, DepMet
  <2>2. Dep[t] \in Task
    BY RowAssumption
  <2>3. status[Dep[t]] = "succeeded"
    BY <1>2, <2>1 DEF StepIsMoves, Move, RunsAfterDependency, DepMet, Active
  <2> QED BY <2>1, <2>2, <2>3 DEF StepIsMoves, Move, Active
<1> QED BY <1>1, <1>2, Typing, PTL DEF Spec

(* The task_events log tells the status of every task, but for a task put  *)
(* back in the queue and for one that cancel_all_queued took unread.       *)
THEOREM EventLog == Spec => []EventsTellTheStatus
<1>1. Init => EventsTellTheStatus
  BY DEF Init, EventsTellTheStatus
<1>2. ASSUME TypeOK, EventsTellTheStatus, [Next]_tableVars PROVE EventsTellTheStatus'
  <2>1. StepIsMoves
    BY <1>2, StepsAreMoves
  <2> SUFFICES ASSUME NEW t \in Task
               PROVE  \/ event'[t] = status'[t]
                      \/ (event'[t] = "running" /\ status'[t] = "queued")
                      \/ (event'[t] \in {"queued", "running"} /\ status'[t] = "cancelled")
    BY DEF EventsTellTheStatus
  <2> QED BY <1>2, <2>1 DEF StepIsMoves, Logged, EventsTellTheStatus
<1> QED BY <1>1, <1>2, Typing, PTL DEF Spec

(* When a task fails or is cancelled, every queued task that waited for it *)
(* ends in the same transaction.                                           *)
THEOREM NoStranding == Spec => NobodyIsStranded
<1>1. ASSUME TypeOK, [Next]_tableVars, NEW t \in Task,
             Dep[t] # NoTask, status[t] = "queued", status[Dep[t]] \in Active,
             status'[Dep[t]] \in {"failed", "cancelled"}
      PROVE  status'[t] \in {"failed", "cancelled"}
  <2>d. Dep[t] \in Task /\ ProjectOf[Dep[t]] = ProjectOf[t]
    BY <1>1, RowAssumption
  <2> USE DEF Active
  <2>f. ASSUME NEW r \in Task, MarkFailedWrite(r) PROVE status'[t] \in {"failed", "cancelled"}
    <3>1. Dep[t] \in Cascade(r)
      BY <1>1, <2>d, <2>f DEF MarkFailedWrite, Publish
    <3>2. t \in Cascade(r)
      BY <1>1, <3>1, CascadeIsClosed
    <3> QED BY <2>f, <3>2 DEF MarkFailedWrite, Publish
  <2>c. ASSUME NEW r \in Task, MarkCancelledWrite(r)
        PROVE  status'[t] \in {"failed", "cancelled"}
    <3>1. Dep[t] \in Cascade(r)
      BY <1>1, <2>d, <2>c DEF MarkCancelledWrite, Publish
    <3>2. t \in Cascade(r)
      BY <1>1, <3>1, CascadeIsClosed
    <3> QED BY <2>c, <3>2 DEF MarkCancelledWrite, Publish
  <2>a. ASSUME NEW p \in Project, CancelAllWrite(p)
        PROVE  status'[t] \in {"failed", "cancelled"}
    <3>1. status' = [u \in Task |-> IF u \in QueuedIn(p) THEN "cancelled" ELSE status[u]]
      BY <2>a DEF CancelAllWrite
    <3>2. Dep[t] \in QueuedIn(p)
      BY <1>1, <2>d, <3>1
    <3> QED BY <1>1, <2>d, <3>1, <3>2 DEF QueuedIn
  <2>o. ASSUME NEW r \in Task, NEW s \in Status \ {"failed", "cancelled"},
               status' = [status EXCEPT ![r] = s]
        PROVE  FALSE
    BY <1>1, <2>d, <2>o DEF TypeOK
  <2>1. CASE \E r \in Task : Enqueue(r) \/ ClaimNext(r) \/ MarkSucceeded(r) \/ RequeueSingle(r)
    BY <2>1, <2>o DEF Enqueue, ClaimNext, MarkSucceeded, RequeueSingle, Publish,
                      Status, Terminal
  <2>2. CASE \E r \in Task : MarkFailed(r)
    BY <2>2, <2>f DEF MarkFailed
  <2>3. CASE \E r \in Task : FinalizeCancelled(r)
    BY <2>3, <2>c DEF FinalizeCancelled
  <2>4. CASE \E r \in Task : CancelDispatch(r)
    <3>1. PICK r \in Task : CancelWrite(r)
      BY <2>4 DEF CancelDispatch
    <3>2. CASE MarkCancelledWrite(r)
      BY <3>2, <2>c
    <3>3. CASE Publish([status EXCEPT ![r] = "cancelling"])
      BY <3>3, <2>o DEF Publish, Status
    <3>4. CASE UNCHANGED status
      BY <1>1, <3>4
    <3> QED BY <3>1, <3>2, <3>3, <3>4 DEF CancelWrite
  <2>5. CASE UNCHANGED status
    BY <1>1, <2>5
  <2>6. CASE \E S \in SUBSET Task : RequeueRunning(S)
    BY <1>1, <2>d, <2>6 DEF RequeueRunning, Publish
  <2>7. UNCHANGED status \/ Next
    BY <1>1 DEF tableVars
  <2> QED
    BY <2>1, <2>2, <2>3, <2>4, <2>5, <2>6, <2>7, <2>a
       DEF Next, CancelRead, CancelAllRead, SessionsLost
<1>2. TypeOK /\ [Next]_tableVars => TakesDependentsAlong
  BY <1>1 DEF TakesDependentsAlong
<1> QED BY <1>2, Typing, PTL DEF Spec, NobodyIsStranded

(* The tables implement the life cycle of ADR 0006: cancelling leads to    *)
(* cancelled only, and a terminal status is never left.                    *)
THEOREM Refinement == Spec => FollowsLifecycle
<1>1. Init => Lifecycle!Init
  BY DEF Init, Lifecycle!Init
<1>2. ASSUME TypeOK, [Next]_tableVars PROVE [Lifecycle!Next]_status
  <2>1. StepIsMoves
    BY <1>2, StepsAreMoves
  <2>2. status' \in [Task -> Lifecycle!Status]
    BY <2>1 DEF StepIsMoves, Status, Active, Terminal,
                Lifecycle!Status, Lifecycle!Active, Lifecycle!Terminal
  <2>3. ASSUME NEW t \in Task
        PROVE  status'[t] = status[t] \/ <<status[t], status'[t]>> \in Lifecycle!Edge
    BY <2>1 DEF StepIsMoves, Move, Active, Lifecycle!Edge
  <2> QED BY <2>2, <2>3 DEF Lifecycle!Next
<1> QED BY <1>1, <1>2, Typing, PTL DEF Spec, FollowsLifecycle, Lifecycle!Spec
=============================================================================
