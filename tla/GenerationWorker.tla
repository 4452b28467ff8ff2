-------------------------- MODULE GenerationWorker --------------------------
(***************************************************************************)
(* The server process around the task table: the API handlers that enqueue *)
(* and cancel, GenerationWorker's main loop, one coroutine per claimed     *)
(* task, the sub-tasks that resume orphans after a restart, the in-process *)
(* cancel signal, shutdown and crashes.                                    *)
(*                                                                         *)
(* One process at a time holds the worker (CONTEXT.md, docs/adr/0007), so  *)
(* the lease is not modelled here. Asyncio runs one step at a time between *)
(* two awaits: an action is the code from one await to the next. Database  *)
(* transactions do not fail, but for persisting the provider's job id,     *)
(* whose failure the code handles (Fail from "sent").                      *)
(***************************************************************************)
EXTENDS TaskTable

CONSTANTS
  Lane,       \* the (provider, media_type) pairs that have slots
  NoLane,     \* NULL in provider_id
  MediaOf,    \* the media type of a lane
  RowLane,    \* the lane of a task's provider_id column, or NoLane
  LaneOf,     \* the lane _extract_provider finds for the claimed task
  Resumable,  \* the video tasks whose provider implements resume_video
  Resends,    \* the tasks whose call may submit again after it was accepted
  MostSubmits,\* the attempts of _create_task times the rungs of the 413 ladder
  Capacities, \* the capacity tables the configuration may give
  Swept,      \* bound: the projects whose queue may be cancelled as a whole
  MaxStarts   \* bound: how often the process starts

ASSUME LaneAssumption ==
  /\ NoLane \notin Lane
  /\ RowLane \in [Task -> Lane \cup {NoLane}]
  /\ LaneOf \in [Task -> Lane]
  /\ Resumable \subseteq Task /\ Resends \subseteq Task
  /\ MostSubmits \in Nat
  /\ Capacities # {} /\ Capacities \subseteq [Lane -> Nat]
  /\ Swept \subseteq Project
  /\ MaxStarts \in Nat

MediaOrder == <<"image", "video", "audio">>

VARIABLES
  up,       \* the server process
  starts,   \* how often it has started
  loop,     \* where the worker's main loop stands
  cursor,   \* the media type it is claiming for
  held,     \* the task it has claimed and not yet placed, or NoTask
  orphan,   \* the orphans its start-up scan has listed, as it read them
  co,       \* the coroutine of a task
  resume,   \* the tasks whose coroutine is a resume sub-task
  slot,     \* the task's occupant in the SlotTable
  cap,      \* the CapacityTable
  permits,  \* the semaphore capacity of a lane's resume dispatcher
  ring,     \* cancel signals not yet delivered to the worker
  job,      \* the tasks whose provider_job_id is set
  submits,  \* how often a task was accepted by its provider
  tries     \* of these, how often by the latest call of its backend

loopVars == <<loop, cursor, held, orphan>>
coVars == <<co, resume, slot, permits>>
paidVars == <<job, submits, tries>>
workerVars == <<up, starts, loopVars, coVars, cap, ring, paidVars>>
vars == <<tableVars, workerVars>>

(* Coroutine states: new (created), wait (for the semaphore), entry (before*)
(* the try block), exec, sent (submitted), poll; ok, fail and cancel write *)
(* the outcome named; killed was cancelled outside every try block; drained*)
(* is being settled by the main loop; done has returned.                   *)
Running == {"new", "wait", "entry", "exec", "sent", "poll", "ok", "fail", "cancel"}
CoState == Running \cup {"none", "killed", "drained", "done"}

-----------------------------------------------------------------------------
(* The two tables of slots                                                 *)

Occupants(l) == {t \in Task : slot[t] # "free" /\ LaneOf[t] = l}

(* Mutant: off by one.                                                     *)
HasRoomForOneMore(l) == Cardinality(Occupants(l)) <= cap[l]

HasRoom(l) == Cardinality(Occupants(l)) < cap[l]

(* The black list of claim_next: a lane without capacity is not on it, so  *)
(* that its tasks are claimed and failed rather than left in silence.      *)
PoolFull == {l \in Lane : Occupants(l) # {} /\ cap[l] > 0 /\ ~HasRoom(l)}

Holders(l) == {t \in resume : LaneOf[t] = l /\ slot[t] = "inflight"}

(* The coroutine of a resumed task releases its slot itself; that of a     *)
(* claimed task leaves it to the main loop.                                *)
Return(t) ==
  /\ co' = [co EXCEPT ![t] = "done"]
  /\ slot' = IF t \in resume THEN [slot EXCEPT ![t] = "free"] ELSE slot
  /\ UNCHANGED <<resume, permits>>

MoveOn(t, to) ==
  /\ co' = [co EXCEPT ![t] = to]
  /\ UNCHANGED <<resume, slot, permits>>

(* mark_task_cancelled, and the signals it passes on.                      *)
Settle(t) ==
  \/ /\ FinalizeCancelled(t)
     /\ ring' = ring \cup (Stirred(t) \ {t})
  \/ status[t] \notin Active /\ UNCHANGED <<tableVars, ring>>

(* mark_task_failed, and mark_task_cancelled when that changed no row.     *)
FailOrSettle(t) ==
  \/ MarkFailed(t) /\ UNCHANGED ring
  \/ status[t] # "running" /\ Settle(t)

-----------------------------------------------------------------------------
(* The process                                                             *)

WorkerInit ==
  /\ Init
  /\ up = "down" /\ starts = 0
  /\ loop = "off" /\ cursor = 1 /\ held = NoTask
  /\ orphan = [t \in Task |-> "none"]
  /\ co = [t \in Task |-> "none"] /\ resume = {}
  /\ slot = [t \in Task |-> "free"]
  /\ permits = [l \in Lane |-> 0]
  /\ cap \in Capacities
  /\ ring = {} /\ job = {}
  /\ submits = [t \in Task |-> 0] /\ tries = submits

Start ==
  /\ up = "down" /\ starts < MaxStarts
  /\ up' = "up" /\ starts' = starts + 1
  /\ loop' = "list"
  /\ UNCHANGED <<tableVars, cursor, held, orphan, coVars, cap, ring, paidVars>>

(* What the process knew is gone; rows and provider jobs remain.           *)
Forget ==
  /\ up' = "down" /\ loop' = "off" /\ cursor' = 1 /\ held' = NoTask
  /\ orphan' = [t \in Task |-> "none"]
  /\ co' = [t \in Task |-> "none"] /\ resume' = {}
  /\ slot' = [t \in Task |-> "free"]
  /\ permits' = [l \in Lane |-> 0]
  /\ ring' = {}
  /\ seen' = [t \in Task |-> "none"]
  /\ listed' = [p \in Project |-> NoSweep]
  /\ UNCHANGED <<status, event, order, starts, cap, paidVars>>

Crash == up # "down" /\ Forget

(* worker.stop(): the main loop ends its cycle and then waits for every    *)
(* coroutine it knows, without draining again.                             *)
StopRequested ==
  /\ up = "up"
  /\ up' = "stopping"
  /\ UNCHANGED <<tableVars, starts, loopVars, coVars, cap, ring, paidVars>>

Exit ==
  /\ loop = "join"
  /\ \A t \in Task : co[t] \notin Running /\ orphan[t] = "none"
  /\ Forget

(* reload_limits(), after the configuration was edited.                    *)
Reload(c) ==
  /\ up = "up" /\ c # cap
  /\ cap' = c
  /\ UNCHANGED <<tableVars, up, starts, loopVars, coVars, ring, paidVars>>

-----------------------------------------------------------------------------
(* The API                                                                 *)

SubmitTask(t) ==
  /\ up # "down"
  /\ Enqueue(t)
  /\ UNCHANGED workerVars

UserCancelReads(t) ==
  /\ up # "down"
  /\ CancelRead(t)
  /\ UNCHANGED workerVars

UserCancels(t) ==
  /\ up # "down"
  /\ CancelDispatch(t)
  /\ ring' = ring \cup CancelSignals(t)
  /\ UNCHANGED <<up, starts, loopVars, coVars, cap, paidVars>>

UserCancelsAll(p) ==
  /\ up # "down"
  /\ CancelAllRead(p) \/ CancelAllWrite(p)
  /\ UNCHANGED workerVars

(* Where asyncio.Task.cancel() takes a coroutine. One that has not entered *)
(* its try block ends there and then. A write under way is shielded, and   *)
(* finds the row already cancelling, since the signal comes after that     *)
(* commit. A claimed task's failure write has no handler around it.        *)
Interrupted(t) ==
  CASE co[t] = "new" -> "killed"
    [] co[t] = "fail" /\ t \notin resume -> "killed"
    [] OTHER -> "cancel"

(* request_cancel: a task without an occupant, or done, is not found.      *)
Signal(t) ==
  /\ t \in ring
  /\ ring' = ring \ {t}
  /\ IF slot[t] # "free" /\ co[t] \in Running
       THEN MoveOn(t, Interrupted(t))
       ELSE UNCHANGED coVars
  /\ UNCHANGED <<tableVars, up, starts, loopVars, cap, paidVars>>

-----------------------------------------------------------------------------
(* The coroutines: _process_task, _run_one and _process_resume_task        *)

(* A claimed task goes on to a new call of its backend.                    *)
Enter(t) ==
  /\ co[t] = "new"
  /\ IF t \in resume
       THEN MoveOn(t, "wait") /\ UNCHANGED tries
       ELSE MoveOn(t, "exec") /\ tries' = [tries EXCEPT ![t] = 0]
  /\ UNCHANGED <<tableVars, up, starts, loopVars, cap, ring, job, submits>>

(* sem.acquire(): an occupant turns from pending to inflight, unless the   *)
(* worker is stopping; then the row stays as it is for the next start.     *)
Acquire(t) ==
  /\ co[t] = "wait"
  /\ Cardinality(Holders(LaneOf[t])) < permits[LaneOf[t]]
  /\ IF up = "stopping"
       THEN /\ co' = [co EXCEPT ![t] = "none"]
            /\ slot' = [slot EXCEPT ![t] = "free"]
       ELSE /\ co' = [co EXCEPT ![t] = "entry"]
            /\ slot' = [slot EXCEPT ![t] = "inflight"]
  /\ UNCHANGED <<tableVars, up, starts, loopVars, resume, permits, cap, ring, paidVars>>

ResumePoll(t) ==
  /\ co[t] = "entry"
  /\ MoveOn(t, "poll")
  /\ UNCHANGED <<tableVars, up, starts, loopVars, cap, ring, paidVars>>

(* The provider accepts the job; an attempt it did not accept leaves the   *)
(* call where it is, or fails it (Fail).                                   *)
Submit(t) ==
  /\ co[t] = "exec"
  /\ submits' = [submits EXCEPT ![t] = @ + 1]
  /\ tries' = [tries EXCEPT ![t] = @ + 1]
  /\ MoveOn(t, "sent")
  /\ UNCHANGED <<tableVars, up, starts, loopVars, cap, ring, job>>

(* A call with attempts left submits again: with_retry_async around the    *)
(* submission, or around the whole of generate, takes a lost response for a*)
(* transient error, and a 413 anywhere in generate sends smaller references*)
(* to a new one. The job accepted before goes on at the provider. A backend*)
(* with submit_post fails instead (AmbiguousSubmitError).                  *)
MaySubmitAgain(t) == t \in Resends /\ t \notin resume /\ tries[t] < MostSubmits

Resend(t) ==
  /\ co[t] \in {"sent", "poll"} /\ MaySubmitAgain(t)
  /\ MoveOn(t, "exec")
  /\ UNCHANGED <<tableVars, up, starts, loopVars, cap, ring, paidVars>>

(* Before polling begins, in a transaction of its own, whatever the status.*)
PersistJobId(t) ==
  /\ co[t] = "sent" /\ t \in Resumable
  /\ job' = job \cup {t}
  /\ MoveOn(t, "poll")
  /\ UNCHANGED <<tableVars, up, starts, loopVars, cap, ring, submits, tries>>

(* The provider delivers; a task that is not resumable waits in its call.  *)
Deliver(t) ==
  /\ co[t] = "poll" \/ (co[t] = "sent" /\ t \notin Resumable)
  /\ MoveOn(t, "ok")
  /\ UNCHANGED <<tableVars, up, starts, loopVars, cap, ring, paidVars>>

Fail(t) ==
  /\ co[t] \in {"exec", "sent", "poll"}
  /\ MoveOn(t, "fail")
  /\ UNCHANGED <<tableVars, up, starts, loopVars, cap, ring, paidVars>>

(* Mutant: nobody looks at the number of rows mark_succeeded changed.      *)
WriteOkUnchecked(t) ==
  /\ co[t] = "ok"
  /\ MarkSucceeded(t) \/ (status[t] # "running" /\ UNCHANGED tableVars)
  /\ Return(t)
  /\ UNCHANGED <<up, starts, loopVars, cap, ring, paidVars>>

(* The 0-rows protocol of ADR 0006: a success or a failure that changed no *)
(* row is followed by mark_task_cancelled.                                 *)
WriteOk(t) ==
  /\ co[t] = "ok"
  /\ \/ MarkSucceeded(t) /\ Return(t)
     \/ status[t] # "running" /\ UNCHANGED tableVars /\ MoveOn(t, "cancel")
  /\ UNCHANGED <<up, starts, loopVars, cap, ring, paidVars>>

WriteFail(t) ==
  /\ co[t] = "fail"
  /\ \/ MarkFailed(t) /\ Return(t)
     \/ status[t] # "running" /\ UNCHANGED tableVars /\ MoveOn(t, "cancel")
  /\ UNCHANGED <<up, starts, loopVars, cap, ring, paidVars>>

WriteCancel(t) ==
  /\ co[t] = "cancel"
  /\ Settle(t)
  /\ Return(t)
  /\ UNCHANGED <<up, starts, loopVars, cap, paidVars>>

-----------------------------------------------------------------------------
(* The main loop: settling what ended                                      *)

(* Mutant: an ended coroutine keeps its slot.                              *)
DrainWithoutRelease ==
  /\ loop = "top"
  /\ IF up = "stopping"
       THEN loop' = "join" /\ UNCHANGED coVars
       ELSE /\ loop' = "drain"
            /\ co' = [t \in Task |-> IF co[t] = "killed" THEN "drained" ELSE co[t]]
            /\ UNCHANGED <<resume, permits, slot>>
  /\ UNCHANGED <<tableVars, up, starts, cursor, held, orphan, cap, ring, paidVars>>

(* The top of a cycle. Pending occupants are never drained.                *)
Drain ==
  LET over == {t \in Task : slot[t] = "inflight" /\ co[t] \notin Running} IN
  /\ loop = "top"
  /\ IF up = "stopping"
       THEN loop' = "join" /\ UNCHANGED coVars
       ELSE /\ loop' = "drain"
            /\ slot' = [t \in Task |-> IF t \in over THEN "free" ELSE slot[t]]
            /\ co' = [t \in Task |-> IF t \in over /\ co[t] = "killed"
                                       THEN "drained" ELSE co[t]]
            /\ UNCHANGED <<resume, permits>>
  /\ UNCHANGED <<tableVars, up, starts, cursor, held, orphan, cap, ring, paidVars>>

DrainKilled(t) ==
  /\ loop = "drain" /\ co[t] = "drained"
  /\ Settle(t)
  /\ MoveOn(t, "done")
  /\ UNCHANGED <<up, starts, loopVars, cap, paidVars>>

DrainDone ==
  /\ loop = "drain" /\ \A t \in Task : co[t] # "drained"
  /\ loop' = "claim" /\ cursor' = 1
  /\ UNCHANGED <<tableVars, up, starts, held, orphan, coVars, cap, ring, paidVars>>

-----------------------------------------------------------------------------
(* The main loop: orphans, once per process                                *)

ListOrphans ==
  /\ loop = "list"
  /\ loop' = "scan"
  /\ orphan' = [t \in Task |-> IF status[t] \in {"running", "cancelling"}
                                THEN status[t] ELSE "none"]
  /\ UNCHANGED <<tableVars, up, starts, cursor, held, coVars, cap, ring, paidVars>>

(* Mutant: running orphans go back to the queue, as before ADR 0007.       *)
ScanOrphanRequeues(t) ==
  /\ loop = "scan"
  /\ orphan[t] \in {"running", "cancelling"}
  /\ IF status[t] = "running" THEN RequeueSingle(t) /\ UNCHANGED ring
                                ELSE Settle(t)
  /\ orphan' = [orphan EXCEPT ![t] = "none"]
  /\ UNCHANGED <<up, starts, loop, cursor, held, coVars, cap, paidVars>>

(* A cancelling orphan is settled. A running one is resumed when its job   *)
(* can be picked up again, and failed otherwise; it is never resubmitted.  *)
ScanOrphan(t) ==
  /\ loop = "scan"
  /\ \/ /\ orphan[t] = "cancelling"
        /\ Settle(t) /\ orphan' = [orphan EXCEPT ![t] = "none"]
     \/ /\ orphan[t] = "running" /\ ~(t \in Resumable /\ t \in job)
        /\ FailOrSettle(t) /\ orphan' = [orphan EXCEPT ![t] = "none"]
     \/ /\ orphan[t] = "running" /\ t \in Resumable /\ t \in job
        /\ orphan' = [orphan EXCEPT ![t] = "resume"]
        /\ UNCHANGED <<tableVars, ring>>
  /\ UNCHANGED <<up, starts, loop, cursor, held, coVars, cap, paidVars>>

Bucket(l) == {t \in Task : orphan[t] = "resume" /\ LaneOf[t] = l}

(* A lane's orphans become pending sub-tasks; without capacity the table   *)
(* is reloaded first, and if that does not help they are refused. The      *)
(* dispatcher gets its turn before the main loop's next claim returns.     *)
DispatchBucket(l) ==
  LET B == Bucket(l) IN
  /\ loop = "scan" /\ \A t \in Task : orphan[t] \in {"none", "resume", "refuse"}
  /\ B # {}
  /\ IF cap[l] > 0 THEN cap' = cap ELSE cap' \in Capacities
  /\ \/ /\ up = "up" /\ cap'[l] > 0
        /\ co' = [t \in Task |-> IF t \in B THEN "new" ELSE co[t]]
        /\ slot' = [t \in Task |-> IF t \in B THEN "pending" ELSE slot[t]]
        /\ resume' = resume \cup B
        /\ permits' = [permits EXCEPT ![l] = cap'[l]]
        /\ orphan' = [t \in Task |-> IF t \in B THEN "none" ELSE orphan[t]]
     \/ /\ up = "up" /\ cap'[l] = 0
        /\ orphan' = [t \in Task |-> IF t \in B THEN "refuse" ELSE orphan[t]]
        /\ UNCHANGED coVars
     \/ /\ up = "stopping"
        /\ orphan' = [t \in Task |-> IF t \in B THEN "none" ELSE orphan[t]]
        /\ UNCHANGED coVars
  /\ UNCHANGED <<tableVars, up, starts, loop, cursor, held, ring, paidVars>>

(* In the background, while the main loop goes on.                         *)
RefuseOrphan(t) ==
  /\ orphan[t] = "refuse"
  /\ FailOrSettle(t)
  /\ orphan' = [orphan EXCEPT ![t] = "none"]
  /\ UNCHANGED <<up, starts, loop, cursor, held, coVars, cap, paidVars>>

ScanDone ==
  /\ loop = "scan" /\ \A t \in Task : orphan[t] \in {"none", "refuse"}
  /\ loop' = "claim" /\ cursor' = 1
  /\ UNCHANGED <<tableVars, up, starts, held, orphan, coVars, cap, ring, paidVars>>

-----------------------------------------------------------------------------
(* The main loop: claiming                                                 *)

Eligible(t) ==
  /\ Claimable(t)
  /\ MediaOf[LaneOf[t]] = MediaOrder[cursor]
  /\ RowLane[t] \notin PoolFull

Before(t, u) == \E i, j \in DOMAIN order : i < j /\ order[i] = t /\ order[j] = u

(* The oldest eligible task. It is running from here on, although no       *)
(* occupant stands for it while _extract_provider is awaited.              *)
Claim(t) ==
  /\ loop = "claim"
  /\ Eligible(t) /\ \A u \in Task : Eligible(u) => ~Before(u, t)
  /\ ClaimNext(t)
  /\ loop' = "held" /\ held' = t
  /\ UNCHANGED <<up, starts, cursor, orphan, coVars, cap, ring, paidVars>>

(* Leave the inner loop: the next media type, or sleep until the next cycle*)
NextMedia ==
  IF cursor < Len(MediaOrder) THEN cursor' = cursor + 1 /\ loop' = "claim"
                              ELSE cursor' = 1 /\ loop' = "top"

NothingToClaim ==
  /\ loop = "claim" /\ \A t \in Task : ~Eligible(t)
  /\ NextMedia
  /\ UNCHANGED <<tableVars, up, starts, held, orphan, coVars, cap, ring, paidVars>>

(* Mutant: the task is dropped without being failed.                       *)
RefuseHeldSilently ==
  /\ loop = "held" /\ cap[LaneOf[held]] = 0
  /\ loop' = "claim" /\ held' = NoTask
  /\ UNCHANGED <<tableVars, up, starts, cursor, orphan, coVars, cap, ring, paidVars>>

(* No capacity at all: the task is failed, whatever mark_failed answers.   *)
RefuseHeld ==
  /\ loop = "held" /\ cap[LaneOf[held]] = 0
  /\ MarkFailed(held) \/ (status[held] # "running" /\ UNCHANGED tableVars)
  /\ loop' = "claim" /\ held' = NoTask
  /\ UNCHANGED <<up, starts, cursor, orphan, coVars, cap, ring, paidVars>>

(* Mutant: an update without its guard on the status.                      *)
PutBackHeldBlindly ==
  /\ loop = "held" /\ cap[LaneOf[held]] > 0 /\ ~HasRoom(LaneOf[held])
  /\ status' = [status EXCEPT ![held] = "queued"] /\ UNCHANGED <<event, order, seen, listed>>
  /\ NextMedia /\ held' = NoTask
  /\ UNCHANGED <<up, starts, orphan, coVars, cap, ring, paidVars>>

(* No free slot: the task is put back, whatever the update answers, and    *)
(* the loop over this media type is left until the next cycle.             *)
PutBackHeld ==
  /\ loop = "held" /\ cap[LaneOf[held]] > 0 /\ ~HasRoom(LaneOf[held])
  /\ RequeueSingle(held) \/ (status[held] # "running" /\ UNCHANGED tableVars)
  /\ NextMedia /\ held' = NoTask
  /\ UNCHANGED <<up, starts, orphan, coVars, cap, ring, paidVars>>

RegisterHeld ==
  /\ loop = "held" /\ HasRoom(LaneOf[held])
  /\ co' = [co EXCEPT ![held] = "new"]
  /\ slot' = [slot EXCEPT ![held] = "inflight"]
  /\ loop' = "claim" /\ held' = NoTask
  /\ UNCHANGED <<tableVars, up, starts, cursor, orphan, resume, permits, cap, ring, paidVars>>

-----------------------------------------------------------------------------
MainLoop ==
  \/ Drain \/ DrainDone \/ ListOrphans \/ ScanDone \/ NothingToClaim
  \/ RefuseHeld \/ PutBackHeld \/ RegisterHeld
  \/ \E t \in Task : DrainKilled(t) \/ ScanOrphan(t) \/ Claim(t)
  \/ \E l \in Lane : DispatchBucket(l)

Coroutine(t) ==
  \/ Enter(t) \/ Acquire(t) \/ ResumePoll(t) \/ Submit(t) \/ Resend(t)
  \/ PersistJobId(t) \/ Deliver(t) \/ Fail(t) \/ WriteOk(t) \/ WriteFail(t) \/ WriteCancel(t)

Background == \E t \in Task : Coroutine(t) \/ Signal(t) \/ RefuseOrphan(t)

Environment ==
  \/ Start \/ Crash \/ StopRequested \/ Exit
  \/ \E c \in Capacities : Reload(c)
  \/ \E p \in Swept : UserCancelsAll(p)
  \/ \E t \in Task : SubmitTask(t) \/ UserCancelReads(t) \/ UserCancels(t)

WorkerNext ==
  MainLoop \/ Background \/ Environment

WorkerSpec == WorkerInit /\ [][WorkerNext]_vars

(* The event loop runs whatever is ready, the main loop as much as the     *)
(* coroutines and callbacks around it, and a provider call ends: every     *)
(* backend's polling has a max_wait (docs/adr/0006). Between two starts a  *)
(* task takes finitely many steps, so fairness to all tasks together is    *)
(* enough.                                                                 *)
Fairness == WF_vars(MainLoop) /\ WF_vars(Background)

FairWorkerSpec == WorkerSpec /\ Fairness

-----------------------------------------------------------------------------
(* Properties                                                              *)

WorkerTypeOK ==
  /\ TypeOK
  /\ up \in {"down", "up", "stopping"} /\ starts \in 0..MaxStarts
  /\ loop \in {"off", "list", "scan", "top", "drain", "claim", "held", "join"}
  /\ cursor \in 1..3 /\ held \in Task \cup {NoTask}
  /\ orphan \in [Task -> {"none", "running", "cancelling", "resume", "refuse"}]
  /\ co \in [Task -> CoState] /\ resume \subseteq Task
  /\ slot \in [Task -> {"free", "pending", "inflight"}]
  /\ cap \in Capacities /\ permits \in [Lane -> Nat]
  /\ ring \subseteq Task /\ job \subseteq Task
  /\ submits \in [Task -> Nat] /\ tries \in [Task -> Nat]

(* However a task is requeued, crashed upon, orphaned, resumed or          *)
(* cancelled, one call of its backend makes all the submissions it is ever *)
(* charged for (docs/adr/0007: an orphan is never submitted again), and a  *)
(* call that does not resend is charged for one.                           *)
SubmittedByOneCall ==
  \A t \in Task : submits[t] = tries[t] /\ (t \notin Resends => submits[t] <= 1)

(* AmbiguousSubmitError: "此时自动重试会重复建任务 + 重复计费，故不重试" - *)
(* no task is submitted to its provider twice, whichever its backend.      *)
PaidForOnce == \A t \in Task : submits[t] <= 1

(* A sub-task that resumes a job polls one that was submitted and whose id *)
(* was persisted, by a call that ended with its process.                   *)
ResumesWhatWasSubmitted ==
  \A t \in resume : co[t] \in Running => t \in job /\ submits[t] >= 1

(* Shutdown waits for, and a cancel signal can reach, every coroutine that *)
(* runs: each has its occupant in the SlotTable, until it has ended.       *)
RunningCoroutinesHaveSlots ==
  \A t \in Task : co[t] \in Running => slot[t] # "free"

(* The 0-rows protocol leaves no row open: when a task's coroutine has     *)
(* returned, its row is terminal, whoever won the race for it.             *)
ReturnedMeansSettled == \A t \in Task : co[t] = "done" => status[t] \in Terminal

Live(t) == co[t] \in Running \cup {"drained"}
           \/ (co[t] = "killed" /\ slot[t] = "inflight")
           \/ orphan[t] # "none"

(* In a process past its scan, a running row is somebody's: the main loop  *)
(* has just claimed it, or a coroutine, a pending drain or the dispatcher  *)
(* will settle it. None is forgotten until the next restart.               *)
RunningRowsHaveAnOwner ==
  up = "up" /\ loop # "list" =>
    \A t \in Task : status[t] = "running" => held = t \/ Live(t)

(* ADR 0006: "收尾代码必须检查仓库写入是否生效 ... 否则任务会永远卡在      *)
(* cancelling" - the same of the cancelling rows.                          *)
CancellingRowsHaveAnOwner ==
  up = "up" /\ loop # "list" =>
    \A t \in Task : status[t] = "cancelling" => held = t \/ Live(t)

(* What works on a lane never exceeds its capacity while the configuration *)
(* stands, although claimed tasks and resumed orphans are admitted by two  *)
(* different gates (has_room and the dispatcher's semaphore).              *)
Working(l) ==
  {t \in Task : LaneOf[t] = l /\ co[t] \in {"exec", "sent", "poll"}}
CapacityIsKept ==
  \A l \in Lane : \E c \in Capacities : Cardinality(Working(l)) <= c[l]

(* The migration that took cancelling into the unique index: it "必须能拦住 *)
(* 同资源的新入队 ... 否则两个任务并发往同一输出文件写" - no two coroutines *)
(* work on one resource at a time.                                         *)
OneWriterPerResource ==
  \A t, u \in Task :
    /\ Key[t] = Key[u]
    /\ co[t] \in {"exec", "sent", "poll"} /\ co[u] \in {"exec", "sent", "poll"}
    => t = u

(* _run_one: "三种 cancel 路径都在这里兜底" and finally releases - a sub-  *)
(* task that was cancelled does not keep its slot.                         *)
Leaked(t) == co[t] = "killed" /\ slot[t] = "pending"
CancelledSubTaskFreesItsSlot == \A t \in Task : ~Leaked(t)

(* A cancelling row comes to be nobody's in two ways only: its sub-task was*)
(* killed before its first step and leaks, or it was cancelled while the   *)
(* main loop held it and the main loop, which refuses it or puts it back,  *)
(* does not ask whether its update changed a row. Every other coroutine,   *)
(* drain, scan and refusal lets go of a cancelling row by settling it.     *)
Stuck(t) ==
  /\ up = "up" /\ loop # "list"
  /\ status[t] = "cancelling" /\ held # t /\ ~Live(t)

StuckInTwoWays ==
  [][ \A t \in Task : Stuck(t)' =>
        \/ Stuck(t)
        \/ Leaked(t)'
        \/ held = t /\ (RefuseHeld \/ PutBackHeld) ]_vars

(* CONTEXT.md: a full pool "只阻塞该 provider 的 video 任务，不影响其他    *)
(* provider" - the loop does not turn away from a media type while a task  *)
(* of a lane with room is waiting in it.                                   *)
FullPoolBlocksOnlyItsOwn ==
  [][ loop = "held" /\ loop' \in {"claim", "top"} /\ cursor' # cursor =>
        \A t \in Task : Eligible(t) => ~HasRoom(LaneOf[t]) ]_vars

(* A cancellation ends: a cancelling task somebody owns becomes cancelled, *)
(* unless the process stops first (the next one settles it in its scan).   *)
(* The exception is the leak above.                                        *)
CancellationEnds ==
  \A t \in Task :
    (status[t] = "cancelling" /\ Live(t))
      ~> (status[t] = "cancelled" \/ up # "up" \/ Leaked(t))

(* A task whose dependency has succeeded is served, however often it       *)
(* bounces off a full pool: a coroutine works on it, or it ends or is being*)
(* cancelled without one. A slot that leaks is lost to its lane.           *)
WaitingTasksAreServed ==
  \A t \in Task :
    Claimable(t) ~> \/ co[t] \in Running
                    \/ status[t] \in Terminal \cup {"cancelling"}
                    \/ up # "up"
                    \/ \E u \in Task : Leaked(u)

(* Every step of the server is one of the queue's own transactions, a read *)
(* of it, or nothing to it: what holds of the tables whoever uses them     *)
(* holds under the worker, its restarts and the API.                       *)
UsesTheTable == Spec
=============================================================================
