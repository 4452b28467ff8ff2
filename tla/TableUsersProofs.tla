-------------------------- MODULE TableUsersProofs --------------------------
(***************************************************************************)
(* Two users of the task table. What the callers that wait for the queue   *)
(* may rely on, for every set of callers, batches and tasks, whoever else  *)
(* uses the tables and whether a worker is there or not; and what a worker *)
(* that loses its lease and gets it back does to its own tasks. Both rest  *)
(* on what TaskTableProofs says of the tables.                             *)
(***************************************************************************)
EXTENDS QueueClient, WorkerLease, TaskTableProofs

(*********************** The callers that wait ***************************)

(* A batch's ids and verdicts grow together, up to its last spec.          *)
Batches ==
  /\ ids \in [Client -> Seq(Task)]
  /\ verdict \in [Client -> Seq(Outcome \cup {"none"})]
  /\ \A c \in Client :
       /\ Len(verdict[c]) = Len(ids[c])
       /\ Len(ids[c]) <= Len(SpecsOf[c])
       /\ place[c] \in {"asking", "enqueuing"} => Len(ids[c]) < Len(SpecsOf[c])
  /\ place \in [Client -> {"asking", "enqueuing", "waiting", "raised", "done"}]

WaitInv == TypeOK /\ Batches /\ WaitersHearTheTruth

(* A step of a caller, or of the world around it, is a transaction of the  *)
(* tables, a read of them, or nothing to them.                             *)
LEMMA CallersStep ==
  ASSUME [QueueNext]_queueVars
  PROVE  [Next]_tableVars
<1>1. CASE \E c \in Client : ClientStep(c)
  BY <1>1 DEF ClientStep, AskOnline, EnqueueSpec, EnqueueRaises, Gather, Hear, TimeOut,
              PollOnline, GiveUpOffline, Give, Next
<1>2. CASE WorkerComesOrGoes \/ OthersStep \/ UNCHANGED queueVars
  BY <1>2 DEF WorkerComesOrGoes, OthersStep, Next, queueVars
<1> QED BY <1>1, <1>2 DEF QueueNext

(* The callers use the table as it is meant to be used, so that all that is*)
(* proved of the table holds under them.                                   *)
THEOREM CallersUseTheTable == QueueSpec => Spec
<1>1. ClientInit => Init
  BY DEF ClientInit
<1>2. [QueueNext]_queueVars => [Next]_tableVars
  BY CallersStep
<1> QED BY <1>1, <1>2, PTL DEF QueueSpec, Spec

(* A step that leaves the batches alone, but for their places.             *)
LEMMA BatchesFrame ==
  ASSUME Batches, UNCHANGED <<ids, verdict>>,
         place' \in [Client -> {"asking", "enqueuing", "waiting", "raised", "done"}],
         \A c \in Client : place'[c] \in {"asking", "enqueuing"}
                              => place[c] \in {"asking", "enqueuing"}
  PROVE  Batches'
BY DEF Batches

(* What was told stays so: an ended task does not move.                    *)
LEMMA ToldStays ==
  ASSUME WaitInv, [QueueNext]_queueVars, NEW t \in Task, status[t] \in Terminal
  PROVE  status'[t] = status[t]
<1>1. Move(t)
  BY CallersStep, StepsAreMoves DEF WaitInv, StepIsMoves
<1> QED BY <1>1 DEF Move, Terminal, Active

(* Nothing is told.                                                        *)
LEMMA NothingTold ==
  ASSUME WaitInv, [QueueNext]_queueVars, UNCHANGED <<ids, verdict>>
  PROVE  WaitersHearTheTruth'
<1> SUFFICES ASSUME NEW c \in Client, NEW i \in DOMAIN verdict[c], verdict[c][i] \in Terminal
             PROVE  status'[ids[c][i]] = verdict[c][i]
  BY DEF WaitersHearTheTruth
<1>1. ids[c][i] \in Task
  BY DEF WaitInv, Batches
<1>2. status[ids[c][i]] = verdict[c][i]
  BY DEF WaitInv, WaitersHearTheTruth
<1> QED BY <1>1, <1>2, ToldStays

(* A new wait begins.                                                      *)
LEMMA WaitBegins ==
  ASSUME WaitInv, [QueueNext]_queueVars, NEW c \in Client, NEW t \in Task,
         place[c] = "enqueuing", Proceed(c, t)
  PROVE  Batches' /\ WaitersHearTheTruth'
<1>1. /\ ids[c] \in Seq(Task) /\ verdict[c] \in Seq(Outcome \cup {"none"})
      /\ Len(verdict[c]) = Len(ids[c]) /\ Len(ids[c]) < Len(SpecsOf[c])
  BY DEF WaitInv, Batches
<1>2. /\ ids' = [ids EXCEPT ![c] = Append(@, t)]
      /\ verdict' = [verdict EXCEPT ![c] = Append(@, "none")]
      /\ place' = [place EXCEPT ![c] = IF Len(ids'[c]) < Len(SpecsOf[c])
                                          THEN "asking" ELSE "waiting"]
  BY DEF Proceed
<1>3. /\ ids'[c] = Append(ids[c], t) /\ verdict'[c] = Append(verdict[c], "none")
      /\ \A d \in Client : d # c => /\ ids'[d] = ids[d] /\ verdict'[d] = verdict[d]
                                     /\ place'[d] = place[d]
      /\ ids' = [d \in Client |-> ids'[d]] /\ verdict' = [d \in Client |-> verdict'[d]]
  BY <1>2 DEF WaitInv, Batches
<1>4. /\ ids'[c] \in Seq(Task) /\ Len(ids'[c]) = Len(ids[c]) + 1
      /\ \A i \in 1..Len(ids[c]) : ids'[c][i] = ids[c][i]
  BY <1>1, <1>3
<1>5. /\ verdict'[c] \in Seq(Outcome \cup {"none"})
      /\ Len(verdict'[c]) = Len(verdict[c]) + 1
      /\ \A i \in 1..Len(verdict[c]) : verdict'[c][i] = verdict[c][i]
      /\ verdict'[c][Len(verdict[c]) + 1] = "none"
  BY <1>1, <1>3
<1>6. Len(ids[c]) \in Nat /\ Len(SpecsOf[c]) \in Nat
  BY <1>1, ClientAssumption
<1>7. Batches'
  <2>1. ids' \in [Client -> Seq(Task)] /\ verdict' \in [Client -> Seq(Outcome \cup {"none"})]
    BY <1>3, <1>4, <1>5 DEF WaitInv, Batches
  <2>2. place' \in [Client -> {"asking", "enqueuing", "waiting", "raised", "done"}]
    BY <1>2 DEF WaitInv, Batches
  <2>3. /\ place'[c] \in {"asking", "enqueuing"} => Len(ids'[c]) < Len(SpecsOf[c])
        /\ Len(verdict'[c]) = Len(ids'[c]) /\ Len(ids'[c]) <= Len(SpecsOf[c])
    BY <1>1, <1>2, <1>4, <1>5, <1>6 DEF WaitInv, Batches
  <2> QED BY <1>3, <2>1, <2>2, <2>3 DEF WaitInv, Batches
<1>8. WaitersHearTheTruth'
  <2> SUFFICES ASSUME NEW d \in Client, NEW i \in DOMAIN verdict'[d],
                      verdict'[d][i] \in Terminal
               PROVE  status'[ids'[d][i]] = verdict'[d][i]
    BY DEF WaitersHearTheTruth
  <2>1. i \in DOMAIN verdict[d] /\ verdict'[d][i] = verdict[d][i] /\ ids'[d][i] = ids[d][i]
    <3>1. CASE d # c
      BY <1>3, <3>1
    <3>2. CASE d = c
      <4>1. i \in 1..(Len(verdict[c]) + 1)
        BY <1>5, <3>2
      <4>2. i # Len(verdict[c]) + 1
        BY <1>5, <3>2 DEF Terminal
      <4>3. i \in 1..Len(verdict[c]) /\ DOMAIN verdict[c] = 1..Len(verdict[c])
        BY <1>1, <1>6, <4>1, <4>2
      <4> QED BY <1>1, <1>4, <1>5, <3>2, <4>3
    <3> QED BY <3>1, <3>2
  <2>2. ids[d][i] \in Task
    BY <2>1 DEF WaitInv, Batches
  <2>3. status[ids[d][i]] = verdict[d][i]
    BY <2>1 DEF WaitInv, WaitersHearTheTruth
  <2> QED BY <2>1, <2>2, <2>3, ToldStays
<1> QED BY <1>7, <1>8

(* A wait ends with a verdict: what became of the task, or neither.        *)
LEMMA WaitEnds ==
  ASSUME WaitInv, [QueueNext]_queueVars, NEW c \in Client, NEW i \in DOMAIN ids[c],
         NEW v \in Outcome, v \in Terminal => status[ids[c][i]] = v,
         Give(c, i, v)
  PROVE  Batches' /\ WaitersHearTheTruth'
<1>1. /\ ids[c] \in Seq(Task) /\ verdict[c] \in Seq(Outcome \cup {"none"})
      /\ Len(verdict[c]) = Len(ids[c]) /\ i \in 1..Len(verdict[c])
  BY DEF WaitInv, Batches
<1>2. /\ verdict'[c] = [verdict[c] EXCEPT ![i] = v]
      /\ \A d \in Client : d # c => verdict'[d] = verdict[d]
      /\ verdict' = [d \in Client |-> verdict'[d]]
      /\ UNCHANGED <<status, ids, place>>
  BY DEF Give, WaitInv, Batches, tableVars
<1>3. /\ verdict'[c] \in Seq(Outcome \cup {"none"}) /\ Len(verdict'[c]) = Len(verdict[c])
      /\ verdict'[c][i] = v /\ DOMAIN verdict'[c] = DOMAIN verdict[c]
      /\ \A j \in DOMAIN verdict[c] : j # i => verdict'[c][j] = verdict[c][j]
  BY <1>1, <1>2
<1>4. Batches'
  BY <1>2, <1>3 DEF WaitInv, Batches
<1>5. WaitersHearTheTruth'
  BY <1>2, <1>3 DEF WaitInv, WaitersHearTheTruth
<1> QED BY <1>4, <1>5

(* WaitInv is inductive.                                                   *)
LEMMA WaitStep ==
  ASSUME WaitInv, [QueueNext]_queueVars
  PROVE  WaitInv'
<1>t. TypeOK'
  BY CallersStep, StepsAreMoves DEF WaitInv
<1>u. ASSUME UNCHANGED <<ids, verdict>>,
             place' \in [Client -> {"asking", "enqueuing", "waiting", "raised", "done"}],
             \A c \in Client : place'[c] \in {"asking", "enqueuing"}
                                  => place[c] \in {"asking", "enqueuing"}
      PROVE  WaitInv'
  BY <1>t, <1>u, BatchesFrame, NothingTold DEF WaitInv
<1>v. UNCHANGED <<ids, verdict, place>> => WaitInv'
  BY <1>u DEF WaitInv, Batches
<1>1. ASSUME NEW c \in Client, ClientStep(c) PROVE WaitInv'
  <2>1. CASE AskOnline(c) \/ EnqueueRaises(c) \/ Gather(c)
    BY <1>u, <2>1 DEF AskOnline, EnqueueRaises, Gather, WaitInv, Batches
  <2>2. ASSUME NEW t \in Task, EnqueueSpec(c, t) PROVE WaitInv'
    BY <1>t, <2>2, WaitBegins DEF EnqueueSpec, WaitInv
  <2>3. ASSUME NEW i \in DOMAIN SpecsOf[c], Hear(c, i) \/ TimeOut(c, i) \/ GiveUpOffline(c, i)
        PROVE  WaitInv'
    <3>1. i \in DOMAIN ids[c]
      BY <2>3 DEF Hear, TimeOut, GiveUpOffline, Waits
    <3>2. PICK v \in Outcome : Give(c, i, v) /\ (v \in Terminal => status[ids[c][i]] = v)
      BY <2>3 DEF Hear, TimeOut, GiveUpOffline, Outcome, Terminal
    <3> QED BY <1>t, <3>1, <3>2, WaitEnds DEF WaitInv
  <2>4. ASSUME NEW i \in DOMAIN SpecsOf[c], PollOnline(c, i) PROVE WaitInv'
    BY <1>v, <2>4 DEF PollOnline
  <2> QED BY <1>1, <2>1, <2>2, <2>3, <2>4 DEF ClientStep
<1>2. CASE WorkerComesOrGoes \/ OthersStep \/ UNCHANGED queueVars
  BY <1>v, <1>2 DEF WorkerComesOrGoes, OthersStep, queueVars, clientVars
<1> QED BY <1>1, <1>2 DEF QueueNext

(* WaitInv holds in every state.                                           *)
THEOREM WaitAlways == QueueSpec => []WaitInv
<1>1. ClientInit => WaitInv
  <2> SUFFICES ASSUME ClientInit PROVE WaitInv
    OBVIOUS
  <2>1. TypeOK
    BY DEF ClientInit, Init, TypeOK, Status
  <2>2. Batches
    <3>1. \A c \in Client : Len(SpecsOf[c]) > 0
      <4> SUFFICES ASSUME NEW c \in Client PROVE Len(SpecsOf[c]) > 0
        OBVIOUS
      <4> DEFINE R == [key : {Key[t] : t \in Task}, dep : Nat]
      <4>1. SpecsOf[c] \in Seq(R) /\ SpecsOf[c] # <<>>
        BY ClientAssumption
      <4> HIDE DEF R
      <4> QED BY <4>1
    <3>2. ids \in [Client -> Seq(Task)] /\ verdict \in [Client -> Seq(Outcome \cup {"none"})]
      BY DEF ClientInit
    <3>3. \A c \in Client : ids[c] = <<>> /\ verdict[c] = <<>> /\ place[c] = "asking"
      BY DEF ClientInit
    <3>4. place \in [Client -> {"asking", "enqueuing", "waiting", "raised", "done"}]
      BY DEF ClientInit
    <3> QED BY <3>1, <3>2, <3>3, <3>4 DEF Batches
  <2>3. WaitersHearTheTruth
    BY DEF ClientInit, WaitersHearTheTruth
  <2> QED BY <2>1, <2>2, <2>3 DEF WaitInv
<1> QED BY <1>1, WaitStep, PTL DEF QueueSpec

(* What a caller was told of its task is what became of it, for good.      *)
THEOREM CallersHearTheTruth == QueueSpec => []WaitersHearTheTruth
<1>1. WaitInv => WaitersHearTheTruth
  BY DEF WaitInv
<1> QED BY <1>1, WaitAlways, PTL

(* Nothing of a batch succeeds before what it depends on: the table never  *)
(* lets a task run before its dependency has succeeded, and the caller     *)
(* heard the truth of both.                                                *)
THEOREM BatchesKeepOrder == QueueSpec => []BatchOrder
<1>1. ASSUME WaitInv, RunsAfterDependency PROVE BatchOrder
  <2> SUFFICES ASSUME NEW c \in Client, NEW i \in DOMAIN verdict[c],
                      verdict[c][i] = "succeeded", SpecsOf[c][i].dep # 0,
                      Dep[ids[c][i]] = ids[c][SpecsOf[c][i].dep]
               PROVE  status[ids[c][SpecsOf[c][i].dep]] = "succeeded"
    BY DEF BatchOrder
  <2>1. /\ ids[c] \in Seq(Task) /\ verdict[c] \in Seq(Outcome \cup {"none"})
        /\ Len(verdict[c]) = Len(ids[c]) /\ Len(ids[c]) <= Len(SpecsOf[c])
    BY <1>1 DEF WaitInv, Batches
  <2>2. /\ i \in 1..Len(ids[c]) /\ ids[c][i] \in Task
        /\ SpecsOf[c] \in Seq([key : {Key[t] : t \in Task}, dep : Nat])
    BY <2>1, ClientAssumption
  <2>3. i \in DOMAIN SpecsOf[c] /\ SpecsOf[c][i].dep \in Nat /\ SpecsOf[c][i].dep < i
    <3>1. i \in 1..Len(SpecsOf[c])
      BY <2>1, <2>2
    <3>2. i \in DOMAIN SpecsOf[c] /\ SpecsOf[c][i] \in [key : {Key[t] : t \in Task}, dep : Nat]
      <4> DEFINE R == [key : {Key[t] : t \in Task}, dep : Nat]
      <4>1. SpecsOf[c] \in Seq(R)
        BY <2>2
      <4> HIDE DEF R
      <4>2. i \in DOMAIN SpecsOf[c] /\ SpecsOf[c][i] \in R
        BY <3>1, <4>1
      <4> QED BY <4>2 DEF R
    <3> QED BY <3>2, ClientAssumption
  <2>4. SpecsOf[c][i].dep \in 1..Len(ids[c])
    BY <2>1, <2>2, <2>3
  <2>5. ids[c][SpecsOf[c][i].dep] \in Task
    BY <2>1, <2>4
  <2>6. status[ids[c][i]] = "succeeded"
    BY <1>1 DEF WaitInv, WaitersHearTheTruth, Terminal
  <2> QED BY <1>1, <2>2, <2>5, <2>6, NoTaskAssumption DEF RunsAfterDependency, DepMet
<1>2. QueueSpec => []RunsAfterDependency
  BY CallersUseTheTable, DependencyOrder
<1> QED BY <1>1, <1>2, WaitAlways, PTL

(************************** The worker's lease ****************************)

(* A coroutine's or the scan's last write, as the table has it.            *)
LEMMA WritesAreTransactions ==
  ASSUME NEW t \in Task, EndRow(t) \/ SettleRow(t) \/ MarkSucceeded(t) \/ ClaimNext(t)
  PROVE  [Next]_tableVars
BY DEF EndRow, SettleRow, Next

(* A process that loses its lease, or runs beside another one, still uses  *)
(* the table as it is meant to be used: all that is proved of the tables   *)
(* holds of them also while two workers overlap.                           *)
THEOREM OverlapUsesTheTable == LeaseSpec => Spec
<1>1. ASSUME [LeaseNext]_<<tableVars, leaseVars>> PROVE [Next]_tableVars
  <2>1. CASE \/ Boot \/ Renew \/ List \/ Exclude \/ ScanOver \/ NextCycle
             \/ StopAtTop \/ Leave \/ Die \/ LoopRaises \/ LeaseTick
             \/ UNCHANGED <<tableVars, leaseVars>>
    BY <2>1 DEF Boot, Renew, List, Exclude, ScanOver, NextCycle, StopAtTop, Leave, Die,
                LoopRaises, LeaseTick
  <2>2. CASE \E t \in Task : ScanEnds(t) \/ ScanResumes(t) \/ Take(t) \/ Finish(t)
    BY <2>2, WritesAreTransactions DEF ScanEnds, ScanResumes, Take, Finish
  <2>3. CASE Other
    BY <2>3, WritesAreTransactions DEF Other
  <2>4. CASE Requests
    BY <2>4 DEF Requests, Next
  <2> QED BY <1>1, <2>1, <2>2, <2>3, <2>4 DEF LeaseNext, Process
<1> QED BY <1>1, PTL DEF LeaseSpec, Spec

(* A row that somebody has claimed.                                        *)
Past(t) == status[t] \notin {"absent", "queued"}

(* The transactions that make no row run. None of those of WorkerLease     *)
(* puts a task back into the queue.                                        *)
Quiet ==
  \/ UNCHANGED tableVars
  \/ \E t \in Task : \/ Enqueue(t) \/ CancelRead(t) \/ CancelDispatch(t)
                     \/ MarkSucceeded(t) \/ MarkFailed(t) \/ FinalizeCancelled(t)

LEMMA QuietRows ==
  ASSUME TypeOK, Quiet
  PROVE  /\ TypeOK'
         /\ \A u \in Task : /\ Past(u) => Past(u)'
                            /\ status'[u] = "running" => status[u] = "running"
<1>1. Quiet => [Next]_tableVars
  BY DEF Quiet, Next
<1>2. TypeOK'
  BY <1>1, StepsAreMoves
<1> SUFFICES ASSUME NEW u \in Task
             PROVE  /\ status'[u] \in {"absent", "queued"} => status[u] \in {"absent", "queued"}
                    /\ status'[u] = "running" => status[u] = "running"
  BY <1>2 DEF Past
<1>3. CASE UNCHANGED tableVars
  BY <1>3 DEF tableVars
<1>4. ASSUME NEW t \in Task, Enqueue(t) \/ CancelRead(t) \/ MarkSucceeded(t)
      PROVE  /\ status'[u] \in {"absent", "queued"} => status[u] \in {"absent", "queued"}
             /\ status'[u] = "running" => status[u] = "running"
  BY <1>4 DEF Enqueue, CancelRead, MarkSucceeded, Publish, TypeOK
<1>5. ASSUME NEW t \in Task, MarkFailedWrite(t) \/ MarkCancelledWrite(t)
      PROVE  /\ status'[u] \in {"absent", "queued"} => status[u] \in {"absent", "queued"}
             /\ status'[u] = "running" => status[u] = "running"
  BY <1>5 DEF MarkFailedWrite, MarkCancelledWrite, Publish
<1>6. ASSUME NEW t \in Task, CancelDispatch(t)
      PROVE  /\ status'[u] \in {"absent", "queued"} => status[u] \in {"absent", "queued"}
             /\ status'[u] = "running" => status[u] = "running"
  <2>1. CASE Publish([status EXCEPT ![t] = "cancelling"])
    BY <2>1 DEF Publish, TypeOK
  <2>2. CASE UNCHANGED <<status, event>>
    BY <2>2
  <2> QED BY <1>5, <1>6, <2>1, <2>2 DEF CancelDispatch, CancelWrite
<1> QED BY <1>3, <1>4, <1>5, <1>6 DEF Quiet, MarkFailed, FinalizeCancelled

(* A claim makes one row run, which was queued.                            *)
LEMMA ClaimRows ==
  ASSUME TypeOK, NEW t \in Task, ClaimNext(t)
  PROVE  /\ TypeOK' /\ status[t] = "queued" /\ status'[t] = "running"
         /\ \A u \in Task : u # t => status'[u] = status[u]
<1>1. TypeOK'
  BY StepsAreMoves DEF Next
<1> QED BY <1>1 DEF ClaimNext, Claimable, Publish, TypeOK

(* After its last write a row does not run.                                *)
LEMMA LastWriteEnds ==
  ASSUME TypeOK, NEW t \in Task, EndRow(t) \/ SettleRow(t) \/ MarkSucceeded(t)
  PROVE  status'[t] # "running" /\ Quiet
<1>1. t \in Cascade(t)
  BY CascadeMembers
<1>2. CASE MarkFailed(t)
  BY <1>1, <1>2 DEF MarkFailed, MarkFailedWrite, Publish, Quiet
<1>3. CASE FinalizeCancelled(t)
  BY <1>1, <1>3 DEF FinalizeCancelled, MarkCancelledWrite, Publish, Quiet
<1>4. CASE status[t] \notin Active /\ UNCHANGED tableVars
  BY <1>4 DEF Active, tableVars, Quiet
<1>5. CASE MarkSucceeded(t)
  BY <1>5 DEF MarkSucceeded, Publish, TypeOK, Quiet
<1> QED BY <1>2, <1>3, <1>4, <1>5 DEF EndRow, SettleRow

(* What a process knows of its tasks, and where it stands.                 *)
LeaseTypes ==
  /\ TypeOK
  /\ proc \in Places
  /\ owns \in BOOLEAN /\ scanned \in BOOLEAN /\ alone \in BOOLEAN
  /\ found \in [Task -> {"none", "running", "cancelling"}]
  /\ co \in [Task -> Busy \cup {"none", "done"}]

(* Only rows that were claimed have a coroutine or are found, and such a   *)
(* row is never queued again. So a lone process that is past its scan has a*)
(* coroutine for each running row, and during it at least has found it.    *)
Owned ==
  /\ \A t \in Task : co[t] # "none" \/ found[t] # "none" => Past(t)
  /\ \A t \in Task : co[t] = "done" \/ found[t] = "cancelling" => status[t] # "running"
  /\ proc = "work" => scanned
  /\ alone /\ proc # "off" /\ scanned
       => \A t \in Task : status[t] = "running" => co[t] \in Busy
  /\ alone /\ proc \in {"exclude", "scan"}
       => \A t \in Task : status[t] = "running" => co[t] \in Busy \/ found[t] = "running"

ScanInv == LeaseTypes /\ Owned /\ NoSelfPreemption

(* Steps that leave what the process knows of its tasks alone.             *)
LEMMA LeaseFrame ==
  ASSUME ScanInv, Quiet, UNCHANGED <<found, co>>,
         proc' \in Places, owns' \in BOOLEAN, scanned' \in BOOLEAN, alone' \in BOOLEAN,
         alone' => alone,
         proc' = "work" => scanned',
         proc' # "off" /\ scanned' => proc # "off" /\ scanned,
         proc' = "scan" => proc = "scan",
         proc' = "exclude" => proc = "exclude"
  PROVE  ScanInv'
<1>1. /\ TypeOK'
      /\ \A t \in Task : /\ Past(t) => Past(t)'
                         /\ status'[t] = "running" => status[t] = "running"
  BY QuietRows DEF ScanInv, LeaseTypes
<1>2. LeaseTypes' /\ NoSelfPreemption'
  BY <1>1 DEF ScanInv, LeaseTypes, NoSelfPreemption
<1>3. Owned'
  BY <1>1 DEF ScanInv, Owned
<1> QED BY <1>2, <1>3 DEF ScanInv

(* A step of the process itself keeps all that.                            *)
LEMMA ProcessStep ==
  ASSUME ScanInv, Process
  PROVE  ScanInv'
<1>t. TypeOK /\ LeaseTypes
  BY DEF ScanInv, LeaseTypes
<1>q. UNCHANGED tableVars => Quiet
  BY DEF Quiet
<1>u. UNCHANGED tableVars => UNCHANGED status /\ TypeOK' /\ \A t \in Task : Past(t)' = Past(t)
  BY <1>t, QuietRows, <1>q DEF tableVars, Past
<1>1. CASE Boot \/ NextCycle \/ StopAtTop \/ LoopRaises
  <2>1. CASE found' = found
    <3>1. /\ UNCHANGED <<tableVars, found, co, alone>>
          /\ proc' \in {"renew", "join", "fallen"} /\ owns' \in {owns, FALSE}
          /\ scanned' = FALSE \/ (scanned' = scanned /\ proc # "off")
      BY <1>1, <2>1 DEF Boot, NextCycle, StopAtTop, LoopRaises
    <3>2. /\ proc' \in Places /\ owns' \in BOOLEAN /\ scanned' \in BOOLEAN /\ alone' \in BOOLEAN
      BY <1>t, <3>1 DEF LeaseTypes, Places
    <3> QED BY <1>q, <3>1, <3>2, LeaseFrame
  <2>2. CASE LoopRaises
    <3>1. /\ UNCHANGED <<tableVars, scanned, co, alone>>
          /\ proc' = "fallen" /\ owns' = FALSE /\ found' = Idle
      BY <2>2 DEF LoopRaises
    <3>2. LeaseTypes' /\ NoSelfPreemption'
      BY <1>t, <1>u, <3>1 DEF LeaseTypes, NoSelfPreemption, Idle, Places
    <3>3. Owned'
      BY <1>u, <2>2, <3>1 DEF ScanInv, Owned, Idle, LoopRaises
    <3> QED BY <3>2, <3>3 DEF ScanInv
  <2> QED BY <1>1, <2>1, <2>2 DEF Boot, NextCycle, StopAtTop
<1>2. CASE Renew
  <2>1. /\ UNCHANGED <<tableVars, found, alone>>
        /\ co' = [t \in Task |-> IF co[t] = "done" THEN "none" ELSE co[t]]
        /\ proc' \in {"sleep", "work", "list"}
        /\ proc = "renew"
        /\ proc' = "work" => scanned'
        /\ scanned' => scanned
        /\ owns' \in BOOLEAN /\ scanned' \in BOOLEAN
    BY <1>t, <1>2 DEF Renew, MayTake, LeaseTypes
  <2>2. \A t \in Task : /\ co'[t] \in Busy <=> co[t] \in Busy
                        /\ co'[t] # "none" => co[t] # "none"
                        /\ co'[t] # "done"
    BY <1>t, <2>1 DEF LeaseTypes, Busy
  <2>3. LeaseTypes' /\ NoSelfPreemption'
    BY <1>t, <1>u, <2>1 DEF LeaseTypes, NoSelfPreemption, Places
  <2>4. Owned'
    BY <1>u, <2>1, <2>2 DEF ScanInv, Owned
  <2> QED BY <2>3, <2>4 DEF ScanInv
<1>3. CASE List
  <2>1. /\ UNCHANGED <<tableVars, owns, scanned, co, alone>>
        /\ \A t \in Task : /\ found'[t] = "running" <=> status[t] = "running"
                           /\ found'[t] = "cancelling" <=> status[t] = "cancelling"
                           /\ found'[t] \in {"none", "running", "cancelling"}
        /\ proc = "list" /\ proc' = "exclude"
        /\ found' \in [Task -> {"none", "running", "cancelling"}]
    BY <1>3 DEF List
  <2>2. LeaseTypes' /\ NoSelfPreemption'
    BY <1>t, <1>u, <2>1 DEF LeaseTypes, NoSelfPreemption, Places
  <2>3. \A t \in Task : found'[t] # "none" => Past(t)
    BY <2>1 DEF Past
  <2>4. Owned'
    BY <1>u, <2>1, <2>3 DEF ScanInv, Owned
  <2> QED BY <2>2, <2>4 DEF ScanInv
<1>4. CASE Exclude
  <2>1. /\ UNCHANGED <<tableVars, owns, scanned, co, alone>>
        /\ \A t \in Task : found'[t] = IF co[t] = "none" THEN found[t] ELSE "none"
        /\ proc = "exclude" /\ proc' = "scan"
        /\ found' = [t \in Task |-> found'[t]]
    BY <1>4 DEF Exclude
  <2>2. found' \in [Task -> {"none", "running", "cancelling"}]
    BY <1>t, <2>1 DEF LeaseTypes
  <2>3. LeaseTypes'
    BY <1>t, <1>u, <2>1, <2>2 DEF LeaseTypes, Places
  <2>4. NoSelfPreemption'
    BY <2>1 DEF NoSelfPreemption, Busy
  <2>5. Owned'
    BY <1>t, <1>u, <2>1 DEF ScanInv, Owned, LeaseTypes
  <2> QED BY <2>3, <2>4, <2>5 DEF ScanInv
<1>5. CASE ScanOver
  <2>1. /\ UNCHANGED <<tableVars, owns, found, co, alone>>
        /\ proc = "scan" /\ proc' = "work" /\ scanned' = TRUE
        /\ \A t \in Task : found[t] = "none"
    BY <1>5 DEF ScanOver, Idle
  <2>2. LeaseTypes' /\ NoSelfPreemption'
    BY <1>t, <1>u, <2>1 DEF LeaseTypes, NoSelfPreemption, Places
  <2>3. Owned'
    BY <1>u, <2>1 DEF ScanInv, Owned
  <2> QED BY <2>2, <2>3 DEF ScanInv
<1>6. CASE Leave \/ Die
  <2>1. /\ UNCHANGED <<tableVars, scanned, alone>> /\ proc' = "off" /\ owns' = FALSE
        /\ found' = Idle /\ co' = Idle
    BY <1>6 DEF Leave, Die, Gone
  <2>2. LeaseTypes' /\ NoSelfPreemption'
    BY <1>t, <1>u, <2>1 DEF LeaseTypes, NoSelfPreemption, Idle, Places
  <2>3. Owned'
    BY <2>1 DEF Owned, Idle
  <2> QED BY <2>2, <2>3 DEF ScanInv
<1>7. ASSUME NEW t \in Task, ScanEnds(t) PROVE ScanInv'
  <2>1. /\ UNCHANGED <<proc, owns, scanned, co, alone>> /\ proc = "scan"
        /\ found' = [found EXCEPT ![t] = "none"]
        /\ EndRow(t) \/ SettleRow(t)
    BY <1>7 DEF ScanEnds
  <2>2. status'[t] # "running" /\ Quiet
    BY <1>t, <2>1, LastWriteEnds
  <2>3. /\ TypeOK'
        /\ \A u \in Task : /\ Past(u) => Past(u)'
                           /\ status'[u] = "running" => status[u] = "running"
    BY <1>t, <2>2, QuietRows
  <2>4. /\ \A u \in Task : u # t => found'[u] = found[u]
        /\ found'[t] = "none" /\ found' \in [Task -> {"none", "running", "cancelling"}]
    BY <1>t, <2>1 DEF LeaseTypes
  <2>5. LeaseTypes' /\ NoSelfPreemption'
    BY <1>t, <2>1, <2>3, <2>4 DEF LeaseTypes, NoSelfPreemption, ScanInv
  <2>6. Owned'
    BY <2>1, <2>2, <2>3, <2>4 DEF ScanInv, Owned
  <2> QED BY <2>5, <2>6 DEF ScanInv
<1>8. ASSUME NEW t \in Task, ScanResumes(t) PROVE ScanInv'
  <2>1. /\ UNCHANGED <<tableVars, proc, owns, scanned, alone>> /\ proc = "scan"
        /\ found[t] = "running"
        /\ found' = [found EXCEPT ![t] = "none"] /\ co' = [co EXCEPT ![t] = "resume"]
    BY <1>8 DEF ScanResumes
  <2>2. /\ \A u \in Task : u # t => found'[u] = found[u] /\ co'[u] = co[u]
        /\ found'[t] = "none" /\ found' \in [Task -> {"none", "running", "cancelling"}]
        /\ co'[t] = "resume" /\ co' \in [Task -> Busy \cup {"none", "done"}]
    BY <1>t, <2>1 DEF LeaseTypes, Busy
  <2>3. LeaseTypes' /\ NoSelfPreemption'
    BY <1>t, <1>u, <2>1, <2>2 DEF LeaseTypes, NoSelfPreemption, ScanInv
  <2>4. Owned'
    BY <1>u, <2>1, <2>2 DEF ScanInv, Owned, Busy
  <2> QED BY <2>3, <2>4 DEF ScanInv
<1>9. ASSUME NEW t \in Task, Take(t) PROVE ScanInv'
  <2>1. /\ UNCHANGED <<proc, owns, scanned, found, alone>> /\ proc = "work"
        /\ ClaimNext(t) /\ co' = [co EXCEPT ![t] = "run"]
    BY <1>9 DEF Take
  <2>2. /\ TypeOK' /\ status[t] = "queued" /\ status'[t] = "running"
        /\ \A u \in Task : u # t => status'[u] = status[u]
    BY <1>t, <2>1, ClaimRows
  <2>3. /\ \A u \in Task : u # t => co'[u] = co[u]
        /\ co'[t] = "run" /\ co' \in [Task -> Busy \cup {"none", "done"}]
    BY <1>t, <2>1 DEF LeaseTypes, Busy
  <2>4. LeaseTypes' /\ NoSelfPreemption'
    BY <1>t, <2>1, <2>2, <2>3 DEF LeaseTypes, NoSelfPreemption
  <2>5. found[t] = "none"
    BY <2>2 DEF ScanInv, Owned, Past
  <2>6. Owned'
    BY <2>1, <2>2, <2>3, <2>5 DEF ScanInv, Owned, Past, Busy
  <2> QED BY <2>4, <2>6 DEF ScanInv
<1>10. ASSUME NEW t \in Task, Finish(t) PROVE ScanInv'
  <2>1. /\ UNCHANGED <<proc, owns, scanned, found, alone>>
        /\ co[t] \in Busy
        /\ MarkSucceeded(t) \/ EndRow(t) \/ SettleRow(t)
        /\ co' = [co EXCEPT ![t] = IF @ = "run" THEN "done" ELSE "none"]
    BY <1>10 DEF Finish
  <2>2. status'[t] # "running" /\ Quiet
    BY <1>t, <2>1, LastWriteEnds
  <2>3. /\ TypeOK'
        /\ \A u \in Task : /\ Past(u) => Past(u)'
                           /\ status'[u] = "running" => status[u] = "running"
    BY <1>t, <2>2, QuietRows
  <2>4. /\ \A u \in Task : u # t => co'[u] = co[u]
        /\ co'[t] \in {"none", "done"} /\ co' \in [Task -> Busy \cup {"none", "done"}]
    BY <1>t, <2>1 DEF LeaseTypes, Busy
  <2>5. LeaseTypes' /\ NoSelfPreemption'
    BY <1>t, <2>1, <2>3, <2>4 DEF LeaseTypes, NoSelfPreemption, ScanInv, Busy
  <2>6. co[t] # "none"
    BY <2>1 DEF Busy
  <2>7. Owned'
    BY <2>1, <2>2, <2>3, <2>4, <2>6 DEF ScanInv, Owned
  <2> QED BY <2>5, <2>7 DEF ScanInv
<1> QED BY <1>1, <1>2, <1>3, <1>4, <1>5, <1>6, <1>7, <1>8, <1>9, <1>10 DEF Process

(* So does a step of time, of the users and of the other process.          *)
LEMMA ScanStep ==
  ASSUME ScanInv, [LeaseNext]_<<tableVars, leaseVars>>
  PROVE  ScanInv'
<1>t. TypeOK /\ LeaseTypes
  BY DEF ScanInv, LeaseTypes
<1>1. CASE LeaseTick \/ Requests \/ UNCHANGED <<tableVars, leaseVars>>
  <2>1. UNCHANGED <<proc, owns, scanned, found, co, alone>>
    BY <1>1 DEF LeaseTick, Requests, leaseVars
  <2>2. Quiet
    BY <1>1 DEF LeaseTick, Requests, Quiet
  <2> QED BY <1>t, <2>1, <2>2, LeaseFrame DEF LeaseTypes, ScanInv, Owned
<1>2. CASE Other
  <2>1. UNCHANGED <<proc, owns, scanned, found, co>> /\ alone' = FALSE
    BY <1>2 DEF Other
  <2>2. CASE Quiet
    BY <1>t, <2>1, <2>2, LeaseFrame DEF LeaseTypes, ScanInv, Owned
  <2>3. ASSUME NEW t \in Task, ClaimNext(t) PROVE ScanInv'
    <3>1. /\ TypeOK' /\ status[t] = "queued" /\ status'[t] = "running"
          /\ \A u \in Task : u # t => status'[u] = status[u]
      BY <1>t, <2>3, ClaimRows
    <3>2. LeaseTypes' /\ NoSelfPreemption'
      BY <1>t, <2>1, <3>1 DEF LeaseTypes, NoSelfPreemption, ScanInv
    <3>3. co[t] = "none" /\ found[t] = "none"
      BY <3>1 DEF ScanInv, Owned, Past
    <3>4. Owned'
      BY <2>1, <3>1, <3>3 DEF ScanInv, Owned, Past
    <3> QED BY <3>2, <3>4 DEF ScanInv
  <2>4. Quiet \/ \E t \in Task : ClaimNext(t)
    BY <1>t, <1>2, LastWriteEnds DEF Other, Quiet
  <2> QED BY <2>2, <2>3, <2>4
<1> QED BY <1>1, <1>2, ProcessStep DEF LeaseNext

(* The invariant holds always.                                             *)
LEMMA ScanAlways == LeaseSpec => []ScanInv
<1>1. Init /\ LeaseInit => ScanInv
  <2> SUFFICES ASSUME Init, LeaseInit PROVE ScanInv
    OBVIOUS
  <2>1. TypeOK
    BY DEF Init, TypeOK, Status
  <2>2. LeaseTypes /\ NoSelfPreemption
    BY <2>1 DEF LeaseInit, LeaseTypes, NoSelfPreemption, Idle, Places
  <2>3. Owned
    BY DEF LeaseInit, Owned, Idle
  <2> QED BY <2>2, <2>3 DEF ScanInv
<1>2. ScanInv /\ [LeaseNext]_<<tableVars, leaseVars>> => ScanInv'
  BY ScanStep
<1> QED BY <1>1, <1>2, PTL DEF LeaseSpec

(* A process that scans again, after the lease came back to it, never finds*)
(* a row among the orphans that one of its own coroutines works on, however*)
(* time, database errors and another process come in between.              *)
THEOREM RescanSparesItsOwn == LeaseSpec => []NoSelfPreemption
<1>1. ScanInv => NoSelfPreemption
  BY DEF ScanInv
<1> QED BY <1>1, ScanAlways, PTL

(* While no other process has run, a worker that is past its scan has a    *)
(* coroutine for each running row: none waits for a scan that is not coming.*)
THEOREM NoOrphanIsLeft == LeaseSpec => []LoneWorkerLeavesNoOrphan
<1>1. ScanInv => LoneWorkerLeavesNoOrphan
  BY DEF ScanInv, Owned, LoneWorkerLeavesNoOrphan
<1> QED BY <1>1, ScanAlways, PTL
=============================================================================
