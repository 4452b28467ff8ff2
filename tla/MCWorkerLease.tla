--------------------------- MODULE MCWorkerLease ---------------------------
(***************************************************************************)
(* WorkerLease as a system of its own, with requests and cancellations.    *)
(***************************************************************************)
EXTENDS WorkerLease

CONSTANTS t1, t2

MCProject == {"p"}
MCProjectOf == [t \in Task |-> "p"]
MCKey == [t \in Task |-> t]
NoDep == [t \in Task |-> NoTask]
=============================================================================
