----------------------------- MODULE TaskTable -----------------------------
(***************************************************************************)
(* The generation queue's tasks and task_events tables, with one action    *)
(* per transaction of TaskRepository. Any caller (API handler, worker,     *)
(* agent tool) may run any of them at any time; GenerationWorker says      *)
(* which ones really do.                                                   *)
(*                                                                         *)
(* A task's identity stands for the columns written once by INSERT: its    *)
(* dedupe key, its project and its dependency. cancel_task and             *)
(* cancel_all_queued are two steps each, because what they write depends on*)
(* a SELECT that holds no lock (on SQLite no transaction is open yet, on   *)
(* PostgreSQL the read is not FOR UPDATE). Every other method starts with a*)
(* guarded UPDATE or rereads under one, and is atomic.                     *)
(***************************************************************************)
EXTENDS Sequences, Integers, FiniteSets

CONSTANTS
  Task,      \* the rows that may be inserted
  NoTask,    \* NULL in dependency_task_id
  Project,   \* the projects
  ProjectOf, \* the project of a task
  Key,       \* (project, task_type, resource_id, script_file) of a task
  Dep,       \* dependency_task_id of a task, or NoTask
  MaxOpen    \* bound: the cancel sessions that are open at a time

ASSUME NoTaskAssumption == NoTask \notin Task

(* A batch resolves its dependencies among the tasks it enqueued for the   *)
(* same project.                                                           *)
ASSUME RowAssumption ==
  /\ ProjectOf \in [Task -> Project]
  /\ Dep \in [Task -> Task \cup {NoTask}]
  /\ \A t \in Task : Dep[t] # NoTask => ProjectOf[Dep[t]] = ProjectOf[t]

VARIABLES
  status,  \* tasks.status; "absent" until the row is inserted
  event,   \* the status of the task's last task_events row
  order,   \* the inserted tasks in queued_at order
  seen,    \* what an open cancel_task session has read of the task
  listed   \* the tasks an open cancel_all_queued session has read, or NoSweep

tableVars == <<status, event, order, seen, listed>>

NoSweep == {NoTask}

Active == {"queued", "running", "cancelling"}
Terminal == {"succeeded", "failed", "cancelled"}
Status == Active \cup Terminal \cup {"absent"}

-----------------------------------------------------------------------------
(* Helpers                                                                 *)

DepMet(t) == Dep[t] # NoTask => status[Dep[t]] = "succeeded"

(* Mutant: the index of before ADR 0006.                                   *)
KeyFreeOfOld(t) ==
  \A u \in Task : Key[u] = Key[t] => status[u] \notin {"queued", "running"}

(* The idx_tasks_dedupe_active unique index: t's key is free.              *)
KeyFree(t) == \A u \in Task : Key[u] = Key[t] => status[u] \notin Active

(* t and every queued task whose dependencies lead to t through queued     *)
(* tasks: the least set that holds t and the queued dependents of its own  *)
(* members. Both recursions, of a failure and of a cancellation, visit it. *)
Cascade(t) ==
  { u \in Task : \A S \in SUBSET Task :
      (t \in S /\ \A v \in Task : (status[v] = "queued" /\ Dep[v] \in S) => v \in S)
        => u \in S }

(* The running direct dependents of what Cascade(t) ends.                  *)
Stirred(t) == {u \in Task : status[u] = "running" /\ Dep[u] \in Cascade(t)}

(* Status writes that append a task_events row in the same transaction.    *)
Publish(new) ==
  /\ status' = new
  /\ event' = [t \in Task |-> IF new[t] # status[t] THEN new[t] ELSE event[t]]

(* Mutant: the cascade takes the direct dependents only.                   *)
MarkFailedWriteDirect(t) ==
  Publish([u \in Task |-> IF u = t \/ (status[u] = "queued" /\ Dep[u] = t)
                            THEN "failed" ELSE status[u]])

(* Mutant: the failed dependents get no event.                             *)
MarkFailedWriteQuiet(t) ==
  /\ status' = [u \in Task |-> IF u \in Cascade(t) THEN "failed" ELSE status[u]]
  /\ event' = [event EXCEPT ![t] = "failed"]

MarkFailedWrite(t) ==
  Publish([u \in Task |-> IF u \in Cascade(t) THEN "failed" ELSE status[u]])

MarkCancelledWrite(t) ==
  Publish([u \in Task |-> IF u \in Cascade(t) THEN "cancelled"
                          ELSE IF u \in Stirred(t) THEN "cancelling"
                          ELSE status[u]])

Init ==
  /\ status = [t \in Task |-> "absent"]
  /\ event = [t \in Task |-> "absent"]
  /\ order = <<>>
  /\ seen = [t \in Task |-> "none"]
  /\ listed = [p \in Project |-> NoSweep]

-----------------------------------------------------------------------------
(* Transactions of the submitter                                           *)

(* The row's dependency was enqueued earlier in the same batch; nothing    *)
(* asks how it fared since. An enqueue whose key is taken returns the      *)
(* active task and writes nothing.                                         *)
Enqueue(t) ==
  /\ status[t] = "absent"
  /\ Dep[t] # NoTask => status[Dep[t]] # "absent"
  /\ KeyFree(t)
  /\ Publish([status EXCEPT ![t] = "queued"])
  /\ order' = Append(order, t)
  /\ UNCHANGED <<seen, listed>>

(* The open cancel sessions, which MaxOpen bounds.                         *)
Open == Cardinality({t \in Task : seen[t] # "none"})
        + Cardinality({p \in Project : listed[p] # NoSweep})

CancelRead(t) ==
  /\ Open < MaxOpen
  /\ status[t] # "absent"
  /\ seen[t] = "none"
  /\ seen' = [seen EXCEPT ![t] = status[t]]
  /\ UNCHANGED <<status, event, order, listed>>

(* The write goes by the status that was read. The guard of the cancelled  *)
(* write admits every active status, the one of the cancelling write only  *)
(* running; a row found in any other status is left alone.                 *)
CancelWrite(t) ==
  \/ /\ seen[t] = "queued" /\ status[t] \in Active
     /\ MarkCancelledWrite(t)
  \/ /\ seen[t] = "running" /\ status[t] = "running"
     /\ Publish([status EXCEPT ![t] = "cancelling"])
  \/ /\ ~(seen[t] = "queued" /\ status[t] \in Active)
     /\ ~(seen[t] = "running" /\ status[t] = "running")
     /\ UNCHANGED <<status, event>>

CancelDispatch(t) ==
  /\ seen[t] # "none"
  /\ CancelWrite(t)
  /\ seen' = [seen EXCEPT ![t] = "none"]
  /\ UNCHANGED <<order, listed>>

(* The tasks CancelDispatch(t) returns for an in-process cancel signal.    *)
CancelSignals(t) ==
  IF seen[t] = "running" /\ status[t] \in {"running", "cancelling"} THEN {t}
  ELSE IF seen[t] = "queued" /\ status[t] \in Active THEN Stirred(t) \ {t}
  ELSE {}

(* The server ended: sessions that had only read go without a trace.       *)
SessionsLost ==
  /\ seen' = [t \in Task |-> "none"]
  /\ listed' = [p \in Project |-> NoSweep]
  /\ UNCHANGED <<status, event, order>>

QueuedIn(p) == {t \in Task : status[t] = "queued" /\ ProjectOf[t] = p}

CancelAllRead(p) ==
  /\ Open < MaxOpen
  /\ listed[p] = NoSweep
  /\ listed' = [listed EXCEPT ![p] = QueuedIn(p)]
  /\ UNCHANGED <<status, event, order, seen>>

(* The UPDATE takes whatever is queued by now - no cascade, the dependents *)
(* of a queued task are queued themselves - but only the tasks that were   *)
(* read get an event, if they are cancelled by now, by whomever.           *)
CancelAllWrite(p) ==
  /\ listed[p] # NoSweep
  /\ status' = [t \in Task |-> IF t \in QueuedIn(p) THEN "cancelled" ELSE status[t]]
  /\ event' = [t \in Task |-> IF t \in listed[p] /\ status'[t] = "cancelled"
                                THEN "cancelled" ELSE event[t]]
  /\ listed' = [listed EXCEPT ![p] = NoSweep]
  /\ UNCHANGED <<order, seen>>

-----------------------------------------------------------------------------
(* Transactions of the worker                                              *)

(* Mutant: any ended dependency will do.                                   *)
ClaimableAfterAny(t) ==
  status[t] = "queued" /\ (Dep[t] # NoTask => status[Dep[t]] \in Terminal)

Claimable(t) == status[t] = "queued" /\ DepMet(t)

ClaimNext(t) ==
  /\ Claimable(t)
  /\ Publish([status EXCEPT ![t] = "running"])
  /\ UNCHANGED <<order, seen, listed>>

(* Mutant: a late success overwrites a cancellation under way.             *)
MarkSucceededLate(t) ==
  /\ status[t] \in {"running", "cancelling"}
  /\ Publish([status EXCEPT ![t] = "succeeded"])
  /\ UNCHANGED <<order, seen, listed>>

MarkSucceeded(t) ==
  /\ status[t] = "running"
  /\ Publish([status EXCEPT ![t] = "succeeded"])
  /\ UNCHANGED <<order, seen, listed>>

MarkFailed(t) ==
  /\ status[t] = "running"
  /\ MarkFailedWrite(t)
  /\ UNCHANGED <<order, seen, listed>>

FinalizeCancelled(t) ==
  /\ status[t] \in Active
  /\ MarkCancelledWrite(t)
  /\ UNCHANGED <<order, seen, listed>>

(* The worker's own UPDATE puts one claimed task back without an event.    *)
RequeueSingle(t) ==
  /\ status[t] = "running"
  /\ status' = [status EXCEPT ![t] = "queued"]
  /\ UNCHANGED <<event, order, seen, listed>>

(* The operators' rescue: up to its limit of running tasks at once.        *)
RequeueRunning(S) ==
  /\ S # {} /\ \A t \in S : status[t] = "running"
  /\ Publish([t \in Task |-> IF t \in S THEN "queued" ELSE status[t]])
  /\ UNCHANGED <<order, seen, listed>>

-----------------------------------------------------------------------------
Next ==
  \/ \E t \in Task :
       \/ Enqueue(t) \/ CancelRead(t) \/ CancelDispatch(t)
       \/ ClaimNext(t) \/ MarkSucceeded(t) \/ MarkFailed(t)
       \/ FinalizeCancelled(t) \/ RequeueSingle(t)
  \/ SessionsLost
  \/ \E p \in Project : CancelAllRead(p) \/ CancelAllWrite(p)
  \/ \E S \in SUBSET Task : RequeueRunning(S)

Spec == Init /\ [][Next]_tableVars

-----------------------------------------------------------------------------
(* Properties                                                              *)

TypeOK ==
  /\ status \in [Task -> Status]
  /\ event \in [Task -> Status]
  /\ order \in Seq(Task)
  /\ seen \in [Task -> Status \cup {"none"}]
  /\ listed \in [Project -> (SUBSET Task) \cup {NoSweep}]

(* Two active tasks never want the same resource: what the partial unique  *)
(* index of tasks and the enqueue that falls back on it are for. Statuses  *)
(* move back (requeue) and forth, and many at a time.                      *)
OneActivePerKey ==
  \A t, u \in Task : Key[t] = Key[u] /\ status[t] \in Active /\ status[u] \in Active
                       => t = u

(* A task is handed to a provider only once its dependency has succeeded,  *)
(* and that never stops being so: claim_next reads the dependency in its   *)
(* SELECT and writes without looking again. It also says that the branch   *)
(* of the cancel cascade for running dependents never has any.             *)
RunsAfterDependency ==
  \A t \in Task : status[t] \in {"running", "cancelling", "succeeded"} => DepMet(t)

(* A task that was waiting for a live dependency is not left waiting when  *)
(* the dependency fails or is cancelled, however long the chain between    *)
(* them: mark_failed, cancel_task, finalize_cancelled and cancel_all_queued*)
(* each take the queued dependents along in the same transaction.          *)
TakesDependentsAlong ==
  \A t \in Task :
    /\ Dep[t] # NoTask
    /\ status[t] = "queued"
    /\ status[Dep[t]] \in Active
    /\ status'[Dep[t]] \in {"failed", "cancelled"}
    => status'[t] \in {"failed", "cancelled"}

NobodyIsStranded == [][TakesDependentsAlong]_tableVars

(* A reader of task_events (the SSE stream of the tasks router) that       *)
(* replays the log knows every task's status, with two exceptions: a task  *)
(* its worker put back in the queue, which it still believes to be running,*)
(* and one that entered the queue between the two statements of            *)
(* cancel_all_queued, of whose cancellation it never hears.                *)
EventsTellTheStatus ==
  \A t \in Task : \/ event[t] = status[t]
                   \/ (event[t] = "running" /\ status[t] = "queued")
                   \/ (event[t] \in {"queued", "running"} /\ status[t] = "cancelled")

(* The ADR 0006 life cycle of every task.                                  *)
Lifecycle == INSTANCE TaskLifecycle WITH Task <- Task, status <- status
FollowsLifecycle == Lifecycle!Spec
=============================================================================
