------------------------- MODULE MCGenerationWorker -------------------------
(***************************************************************************)
(* GenerationWorker on small queues. Every instance has one project; tasks *)
(* are v (resumable videos of one provider), n (a video whose provider_id  *)
(* is NULL) and w (a video of another provider).                           *)
(***************************************************************************)
EXTENDS GenerationWorker, TLC

CONSTANTS v1, v2, n, w

MCProject == {"p"}
MCProjectOf == [t \in Task |-> "p"]
MCKey == [t \in Task |-> t]
SameKey == [t \in Task |-> "k"]

MCLane == {"A", "B"}
MCMediaOf == [l \in Lane |-> "video"]
MCLaneOf == [t \in Task |-> IF t = w THEN "B" ELSE "A"]
MCRowLane == [t \in Task |-> IF t = n THEN NoLane ELSE LaneOf[t]]

Either == Permutations({v1, v2})
NoDep == [t \in Task |-> NoTask]
Chain == [t \in Task |-> IF t = n THEN v1 ELSE NoTask]

TwoEach == {[l \in Lane |-> 2]}
OneEach == {[l \in Lane |-> 1]}
Switchable == {[l \in Lane |-> 1], [l \in Lane |-> IF l = "A" THEN 0 ELSE 1]}

(* The process starts on the database that an earlier one left behind when *)
(* it ended while v1's job was being polled.                               *)
RestartInit ==
  /\ status = [t \in Task |-> IF t = v1 THEN "running" ELSE "absent"]
  /\ event = status
  /\ order = <<v1>> /\ seen = [t \in Task |-> "none"]
  /\ listed = [p \in Project |-> NoSweep]
  /\ up = "down" /\ starts = 0
  /\ loop = "off" /\ cursor = 1 /\ held = NoTask
  /\ orphan = [t \in Task |-> "none"]
  /\ co = [t \in Task |-> "none"] /\ resume = {}
  /\ slot = [t \in Task |-> "free"]
  /\ permits = [l \in Lane |-> 0]
  /\ cap \in Capacities
  /\ ring = {} /\ job = {v1}
  /\ submits = [t \in Task |-> IF t = v1 THEN 1 ELSE 0] /\ tries = submits

RestartSpec == RestartInit /\ [][WorkerNext]_vars /\ Fairness
=============================================================================
