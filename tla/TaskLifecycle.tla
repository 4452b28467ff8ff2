--------------------------- MODULE TaskLifecycle ---------------------------
(***************************************************************************)
(* What the status guards of TaskRepository's updates are meant to allow   *)
(* together, however its callers interleave (docs/adr/0006): cancelling    *)
(* leads to cancelled and to nothing else, and the three terminal states   *)
(* are never left. A step may move several tasks at once (a failure or a   *)
(* cancellation takes the queued dependents with it).                      *)
(***************************************************************************)

CONSTANT Task

VARIABLE status

(* The values of tasks.status, and "absent" before the row is inserted.    *)
Active == {"queued", "running", "cancelling"}
Terminal == {"succeeded", "failed", "cancelled"}
Status == Active \cup Terminal \cup {"absent"}

(* running -> queued is the rescue of a claimed task whose provider has no *)
(* free slot; running -> cancelled is a cancellation that never went       *)
(* through the API (shutdown, a timeout), see _mark_cancelled.             *)
Edge == { <<"absent", "queued">>,
          <<"queued", "running">>, <<"running", "queued">>,
          <<"running", "succeeded">>,
          <<"running", "failed">>, <<"queued", "failed">>,
          <<"running", "cancelling">>,
          <<"cancelling", "cancelled">>,
          <<"queued", "cancelled">>, <<"running", "cancelled">> }

Init == status = [t \in Task |-> "absent"]

Next ==
  /\ status' \in [Task -> Status]
  /\ \A t \in Task : \/ status'[t] = status[t]
                     \/ <<status[t], status'[t]>> \in Edge

Spec == Init /\ [][Next]_status
=============================================================================
