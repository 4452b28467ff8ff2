---------------------------- MODULE QueueClient ----------------------------
(***************************************************************************)
(* The callers of the generation queue that wait for what they asked for:  *)
(* batch_enqueue_and_wait of the agent's skills (enqueue_and_wait is a     *)
(* batch of one), on top of the table, whoever works on it. The worker is  *)
(* there or not, as it pleases (WorkerLease says when it is).              *)
(*                                                                         *)
(* The two reads of one poll (the task, the lease) are one step. A client  *)
(* measures its timeout and its offline grace with a clock of its own: the *)
(* model lets them pass at any poll, the grace not before a second poll.   *)
(***************************************************************************)
EXTENDS TaskTable

CONSTANTS
  Client,
  SpecsOf   \* a client's TaskSpecs: for each its key and the index of the
            \* spec whose resource_id it depends on, or 0

ASSUME ClientAssumption ==
  \A c \in Client :
    /\ SpecsOf[c] \in Seq([key : {Key[t] : t \in Task}, dep : Nat]) \ {<<>>}
    /\ \A i \in DOMAIN SpecsOf[c] : SpecsOf[c][i].dep < i

VARIABLES
  online,   \* is_worker_online: a worker holds an unexpired lease
  place,    \* where a client stands
  ids,      \* task_ids: the tasks its specs have become so far
  verdict,  \* what the wait for each of them returned or raised
  alarm     \* the waits whose offline_since is set

clientVars == <<place, ids, verdict, alarm>>
queueVars == <<tableVars, online, clientVars>>

Outcome == Terminal \cup {"timeout", "offline"}

-----------------------------------------------------------------------------
ClientInit ==
  /\ Init /\ online = FALSE
  /\ place = [c \in Client |-> "asking"]
  /\ ids = [c \in Client |-> <<>>]
  /\ verdict = [c \in Client |-> <<>>]
  /\ alarm = [c \in Client |-> {}]

Todo(c) == SpecsOf[c][Len(ids[c]) + 1]

DepId(c) == IF Todo(c).dep = 0 THEN NoTask ELSE ids[c][Todo(c).dep]

(* enqueue_task_only asks first whether a worker is there; if not, the     *)
(* batch ends with what it has enqueued so far left in the queue.          *)
AskOnline(c) ==
  /\ place[c] = "asking"
  /\ place' = [place EXCEPT ![c] = IF online THEN "enqueuing" ELSE "raised"]
  /\ UNCHANGED <<tableVars, online, ids, verdict, alarm>>

Proceed(c, t) ==
  /\ ids' = [ids EXCEPT ![c] = Append(@, t)]
  /\ place' = [place EXCEPT ![c] = IF Len(ids'[c]) < Len(SpecsOf[c])
                                     THEN "asking" ELSE "waiting"]
  /\ verdict' = [verdict EXCEPT ![c] = Append(@, "none")]
  /\ UNCHANGED <<online, alarm>>

(* A new row, or the active one that has the key.                          *)
EnqueueSpec(c, t) ==
  /\ place[c] = "enqueuing"
  /\ Key[t] = Todo(c).key
  /\ \/ Dep[t] = DepId(c) /\ Enqueue(t)
     \/ status[t] \in Active /\ UNCHANGED tableVars
  /\ Proceed(c, t)

EnqueueRaises(c) ==
  /\ place[c] = "enqueuing"
  /\ place' = [place EXCEPT ![c] = "raised"]
  /\ UNCHANGED <<tableVars, online, ids, verdict, alarm>>

Waits(c, i) ==
  /\ place[c] = "waiting"
  /\ i \in DOMAIN ids[c] /\ verdict[c][i] = "none"

Give(c, i, v) ==
  /\ verdict' = [verdict EXCEPT ![c][i] = v]
  /\ UNCHANGED <<tableVars, online, place, ids, alarm>>

(* Mutant: a task that is being cancelled is reported as cancelled.        *)
HearEarly(c, i) ==
  /\ Waits(c, i) /\ status[ids[c][i]] \in Terminal \cup {"cancelling"}
  /\ Give(c, i, IF status[ids[c][i]] \in Terminal THEN status[ids[c][i]] ELSE "cancelled")

Hear(c, i) ==
  /\ Waits(c, i) /\ status[ids[c][i]] \in Terminal
  /\ Give(c, i, status[ids[c][i]])

(* Mutant: only a task that runs can be too late.                          *)
TimeOutRunning(c, i) ==
  /\ Waits(c, i) /\ status[ids[c][i]] \in {"running", "cancelling"}
  /\ Give(c, i, "timeout")

TimeOut(c, i) ==
  /\ Waits(c, i) /\ status[ids[c][i]] \notin Terminal
  /\ Give(c, i, "timeout")

PollOnline(c, i) ==
  /\ Waits(c, i) /\ status[ids[c][i]] \notin Terminal
  /\ alarm' = [alarm EXCEPT ![c] = IF online THEN @ \ {i} ELSE @ \cup {i}]
  /\ UNCHANGED <<tableVars, online, place, ids, verdict>>

GiveUpOffline(c, i) ==
  /\ Waits(c, i) /\ status[ids[c][i]] \notin Terminal
  /\ ~online /\ i \in alarm[c]
  /\ Give(c, i, "offline")

Gather(c) ==
  /\ place[c] = "waiting"
  /\ \A i \in DOMAIN ids[c] : verdict[c][i] # "none"
  /\ place' = [place EXCEPT ![c] = "done"]
  /\ UNCHANGED <<tableVars, online, ids, verdict, alarm>>

-----------------------------------------------------------------------------
WorkerComesOrGoes ==
  /\ online' = ~online
  /\ UNCHANGED <<tableVars, clientVars>>

(* Cancellations, and the worker's own transactions.                       *)
OthersStep ==
  /\ \E t \in Task : \/ CancelRead(t) \/ CancelDispatch(t)
                     \/ ClaimNext(t) \/ MarkSucceeded(t) \/ MarkFailed(t)
                     \/ FinalizeCancelled(t) \/ RequeueSingle(t)
  /\ UNCHANGED <<online, clientVars>>

ClientStep(c) ==
  \/ AskOnline(c) \/ EnqueueRaises(c) \/ Gather(c)
  \/ \E t \in Task : EnqueueSpec(c, t)
  \/ \E i \in DOMAIN SpecsOf[c] :
       Hear(c, i) \/ TimeOut(c, i) \/ PollOnline(c, i) \/ GiveUpOffline(c, i)

QueueNext ==
  \/ \E c \in Client : ClientStep(c)
  \/ WorkerComesOrGoes
  \/ OthersStep

QueueSpec == ClientInit /\ [][QueueNext]_queueVars

(* A waiting client keeps polling and its clock advances: whatever becomes *)
(* of the task and of the worker, its timeout is reached in the end.       *)
Patience ==
  \A c \in Client :
    /\ WF_queueVars(Gather(c))
    /\ \A i \in DOMAIN SpecsOf[c] : WF_queueVars(TimeOut(c, i) \/ Hear(c, i))

FairQueueSpec == QueueSpec /\ Patience

-----------------------------------------------------------------------------
(* Properties                                                              *)

ClientTypeOK ==
  /\ TypeOK /\ online \in BOOLEAN
  /\ place \in [Client -> {"asking", "enqueuing", "waiting", "raised", "done"}]
  /\ \A c \in Client :
       /\ ids[c] \in Seq(Task) /\ Len(ids[c]) <= Len(SpecsOf[c])
       /\ verdict[c] \in Seq(Outcome \cup {"none"}) /\ Len(verdict[c]) = Len(ids[c])
       /\ alarm[c] \subseteq DOMAIN ids[c]

(* The success, failure or cancellation a caller was told of is what became*)
(* of the task, for good: whether it asked for the task itself or was given*)
(* another caller's, and whatever cascades, cancellations and returns to   *)
(* the queue went over the row meanwhile.                                  *)
WaitersHearTheTruth ==
  \A c \in Client : \A i \in DOMAIN verdict[c] :
    verdict[c][i] \in Terminal => status[ids[c][i]] = verdict[c][i]

(* Within a batch nothing succeeds before what it was made to depend on,   *)
(* although each spec may have been given a task somebody else enqueued -  *)
(* unless that happened to the dependent itself, whose dependency then is  *)
(* the other caller's.                                                     *)
BatchOrder ==
  \A c \in Client : \A i \in DOMAIN verdict[c] :
    LET d == SpecsOf[c][i].dep IN
    verdict[c][i] = "succeeded" /\ d # 0 /\ Dep[ids[c][i]] = ids[c][d]
      => status[ids[c][d]] = "succeeded"

(* Every batch that has been enqueued comes back, also when a dependent was*)
(* enqueued after its dependency had failed and stays queued for ever, and *)
(* when the worker is gone.                                                *)
EveryWaitEnds == \A c \in Client : place[c] = "waiting" ~> place[c] = "done"
=============================================================================
