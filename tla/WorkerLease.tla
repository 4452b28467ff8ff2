---------------------------- MODULE WorkerLease ----------------------------
(***************************************************************************)
(* The worker_lease row and the cycle of GenerationWorker._run_loop around *)
(* it: renew, rescan for orphans if need be, claim. GenerationWorker has   *)
(* the cycle of a process that is alone, in full; here a coroutine is one  *)
(* step long and capacity is left out, but there is time, there are calls  *)
(* to the database that raise, and there may be another process that       *)
(* competes for the lease (a restart that overlaps with its predecessor).  *)
(*                                                                         *)
(* Time is counted in ticks and only as far as anything compares it: the   *)
(* lease's remaining life, and for how long the process has missed it. A   *)
(* cycle may take any time, since nothing in it is timed.                  *)
(***************************************************************************)
EXTENDS TaskTable

CONSTANTS
  TTL,      \* TASK_WORKER_LEASE_TTL_SEC in ticks
  Overlap   \* whether another process may run at the same time

ASSUME LeaseAssumption == TTL \in Nat \ {0} /\ Overlap \in BOOLEAN

VARIABLES
  lease,   \* the row: its owner and the ticks until lease_until
  proc,    \* where this process's main loop stands
  owns,    \* _owns_lease
  lost,    \* ticks since _lease_lost_monotonic, or Never
  scanned, \* _orphan_handled_once
  found,   \* the rows the scan has yet to deal with, as it read them
  co,      \* the coroutines of this process
  alone    \* history: no other process has run yet

leaseVars == <<lease, proc, owns, lost, scanned, found, co, alone>>

Never == -1
Threshold == 3 * TTL

Places == {"off", "renew", "list", "exclude", "scan", "work", "sleep", "join", "fallen"}
Busy == {"run", "resume"}
Idle == [t \in Task |-> "none"]

(* Each process has an owner_id of its own; others are this one's          *)
(* predecessors and whatever runs next to it.                              *)
Owner == {"nobody", "this", "other"}
NoRow == [owner |-> "nobody", left |-> 0]

(* is_worker_online                                                        *)
Online == lease.left > 0

-----------------------------------------------------------------------------
LeaseInit ==
  /\ lease = NoRow
  /\ proc = "off" /\ owns = FALSE /\ lost = Never /\ scanned = FALSE
  /\ found = Idle /\ co = Idle
  /\ alone = TRUE

Boot ==
  /\ proc = "off"
  /\ proc' = "renew" /\ scanned' = FALSE /\ lost' = Never
  /\ UNCHANGED <<tableVars, lease, owns, found, co, alone>>

(* Mutant: the lease is back, so the scan is taken to have been done.      *)
RenewWithoutScan ==
  LET got == lease.owner \in {"this", "nobody"} \/ lease.left = 0 IN
  /\ proc = "renew"
  /\ owns' = got
  /\ lease' = IF got THEN [owner |-> "this", left |-> TTL] ELSE lease
  /\ co' = [t \in Task |-> IF co[t] = "done" THEN "none" ELSE co[t]]
  /\ proc' = IF got THEN "work" ELSE "sleep"
  /\ UNCHANGED <<tableVars, lost, scanned, found, alone>>

(* The row is one's own, or expired, or not there.                         *)
MayTake == lease.owner \in {"this", "nobody"} \/ lease.left = 0

(* The top of a cycle: acquire_or_renew_lease, the drain of what has ended,*)
(* and the bookkeeping of a lease that was lost or came back.              *)
Renew ==
  LET gone == owns /\ ~MayTake /\ lost = Never
      rescan == MayTake /\ lost > Threshold
  IN
  /\ proc = "renew"
  /\ owns' = MayTake
  /\ lease' = IF MayTake THEN [owner |-> "this", left |-> TTL] ELSE lease
  /\ co' = [t \in Task |-> IF co[t] = "done" THEN "none" ELSE co[t]]
  /\ lost' = IF gone THEN 0 ELSE IF MayTake THEN Never ELSE lost
  /\ scanned' = (scanned /\ ~rescan)
  /\ proc' = IF ~MayTake THEN "sleep" ELSE IF scanned' THEN "work" ELSE "list"
  /\ UNCHANGED <<tableVars, found, alone>>

(* list_orphan_tasks_on_start                                              *)
List ==
  /\ proc = "list"
  /\ found' = [t \in Task |-> IF status[t] \in {"running", "cancelling"}
                                THEN status[t] ELSE "none"]
  /\ proc' = "exclude"
  /\ UNCHANGED <<tableVars, lease, owns, lost, scanned, co, alone>>

(* Mutant: the process takes its own tasks for orphans.                    *)
ExcludeNothing ==
  /\ proc = "exclude"
  /\ proc' = "scan"
  /\ UNCHANGED <<tableVars, lease, owns, lost, scanned, found, co, alone>>

(* active_task_ids: what this process works on, or has yet to drain.       *)
Exclude ==
  /\ proc = "exclude"
  /\ found' = [t \in Task |-> IF co[t] = "none" THEN found[t] ELSE "none"]
  /\ proc' = "scan"
  /\ UNCHANGED <<tableVars, lease, owns, lost, scanned, co, alone>>

(* The last write of a coroutine or of the scan, with the 0-rows protocol: *)
(* mark_task_cancelled when the row was not running any more.              *)
SettleRow(t) ==
  \/ FinalizeCancelled(t)
  \/ status[t] \notin Active /\ UNCHANGED tableVars

EndRow(t) ==
  \/ MarkFailed(t)
  \/ status[t] # "running" /\ SettleRow(t)

ScanEnds(t) ==
  /\ proc = "scan"
  /\ \/ found[t] = "cancelling" /\ SettleRow(t)
     \/ found[t] = "running" /\ EndRow(t)
  /\ found' = [found EXCEPT ![t] = "none"]
  /\ UNCHANGED <<lease, proc, owns, lost, scanned, co, alone>>

(* A row whose job can be picked up gets a coroutine again.                *)
ScanResumes(t) ==
  /\ proc = "scan" /\ found[t] = "running"
  /\ co' = [co EXCEPT ![t] = "resume"]
  /\ found' = [found EXCEPT ![t] = "none"]
  /\ UNCHANGED <<tableVars, lease, proc, owns, lost, scanned, alone>>

ScanOver ==
  /\ proc = "scan" /\ found = Idle
  /\ scanned' = TRUE /\ proc' = "work"
  /\ UNCHANGED <<tableVars, lease, owns, lost, found, co, alone>>

(* Nothing looks at the lease again before the next cycle.                 *)
Take(t) ==
  /\ proc = "work"
  /\ ClaimNext(t)
  /\ co' = [co EXCEPT ![t] = "run"]
  /\ UNCHANGED <<lease, proc, owns, lost, scanned, found, alone>>

NextCycle ==
  /\ proc \in {"work", "sleep"}
  /\ proc' = "renew"
  /\ UNCHANGED <<tableVars, lease, owns, lost, scanned, found, co, alone>>

(* A resume sub-task leaves the SlotTable by itself; the other ends wait   *)
(* for the drain.                                                          *)
Finish(t) ==
  /\ co[t] \in Busy
  /\ \/ MarkSucceeded(t)
     \/ status[t] # "running" /\ SettleRow(t)
     \/ EndRow(t)
  /\ co' = [co EXCEPT ![t] = IF @ = "run" THEN "done" ELSE "none"]
  /\ UNCHANGED <<lease, proc, owns, lost, scanned, found, alone>>

(* stop(): the loop ends at the top of a cycle and waits for coroutines;   *)
(* meanwhile it does not renew.                                            *)
StopAtTop ==
  /\ proc = "renew"
  /\ proc' = "join"
  /\ UNCHANGED <<tableVars, lease, owns, lost, scanned, found, co, alone>>

(* release_lease deletes the row only if it is still one's own.            *)
Release == lease' = IF owns /\ lease.owner = "this" THEN NoRow ELSE lease

(* Nothing in the loop catches: when a call to the database raises, the    *)
(* loop is over while the server and its coroutines go on. The release in  *)
(* its finally block may raise as well.                                    *)
LoopRaises ==
  /\ proc \in {"renew", "list", "scan", "work"}
  /\ Release \/ UNCHANGED lease
  /\ proc' = "fallen" /\ owns' = FALSE /\ found' = Idle
  /\ UNCHANGED <<tableVars, lost, scanned, co, alone>>

Gone == proc' = "off" /\ owns' = FALSE /\ found' = Idle /\ co' = Idle

Leave ==
  /\ proc = "join" /\ \A t \in Task : co[t] \notin Busy
  /\ Release /\ Gone
  /\ UNCHANGED <<tableVars, lost, scanned, alone>>

Die ==
  /\ proc # "off"
  /\ lease' = IF lease.owner = "this" THEN [lease EXCEPT !.owner = "other"] ELSE lease
  /\ Gone
  /\ UNCHANGED <<tableVars, lost, scanned, alone>>

(* lost stops counting where nothing compares it any further.              *)
LeaseTick ==
  /\ lease' = [lease EXCEPT !.left = IF @ > 0 THEN @ - 1 ELSE 0]
  /\ lost' = IF lost \in 0..Threshold THEN lost + 1 ELSE lost
  /\ UNCHANGED <<tableVars, proc, owns, scanned, found, co, alone>>

(* The other process: it renews, leaves, claims - also when its lease has  *)
(* lapsed - and ends rows, its own or what it takes for orphans.           *)
Other ==
  /\ Overlap
  /\ \/ /\ lease.owner # "this" \/ lease.left = 0
        /\ lease' = [owner |-> "other", left |-> TTL] /\ UNCHANGED tableVars
     \/ lease.owner = "other" /\ lease' = NoRow /\ UNCHANGED tableVars
     \/ \E t \in Task :
          /\ ClaimNext(t) \/ MarkSucceeded(t)
             \/ (status[t] \in {"running", "cancelling"} /\ EndRow(t))
          /\ UNCHANGED lease
  /\ alone' = FALSE
  /\ UNCHANGED <<proc, owns, lost, scanned, found, co>>

-----------------------------------------------------------------------------
Process ==
  \/ Boot \/ Renew \/ List \/ Exclude \/ ScanOver \/ NextCycle
  \/ StopAtTop \/ Leave \/ Die \/ LoopRaises
  \/ \E t \in Task : ScanEnds(t) \/ ScanResumes(t) \/ Take(t) \/ Finish(t)

Requests ==
  /\ \E t \in Task : Enqueue(t) \/ CancelRead(t) \/ CancelDispatch(t)
  /\ UNCHANGED leaseVars

LeaseNext == Process \/ Other \/ LeaseTick \/ Requests

LeaseSpec == Init /\ LeaseInit /\ [][LeaseNext]_<<tableVars, leaseVars>>

-----------------------------------------------------------------------------
(* Properties                                                              *)

LeaseTypeOK ==
  /\ lease \in [owner : Owner, left : 0..TTL]
  /\ proc \in Places
  /\ owns \in BOOLEAN /\ scanned \in BOOLEAN /\ alone \in BOOLEAN
  /\ lost \in {Never} \cup 0..(Threshold + 1)
  /\ found \in [Task -> {"none", "running", "cancelling"}]
  /\ co \in [Task -> Busy \cup {"none", "done"}]

(* "self-active 防 self-preemption": a rescan after the lease came back     *)
(* never ends or resumes a row on which a coroutine of the same process is *)
(* still at work, although it lists the running rows before it asks which  *)
(* of them are its own, and coroutines end in between.                     *)
NoSelfPreemption ==
  \A t \in Task : proc = "scan" /\ found[t] # "none" => co[t] \notin Busy

(* As long as it is alone (CONTEXT.md: the worker is bundled with the one  *)
(* server process), a process past its scan has left no running row behind *)
(* that nobody works on: not after a crash, nor after its predecessor's    *)
(* loop fell over, nor while that one's lease had yet to expire.           *)
LoneWorkerLeavesNoOrphan ==
  \A t \in Task :
    alone /\ proc = "work" /\ status[t] = "running" => co[t] \in Busy
=============================================================================
