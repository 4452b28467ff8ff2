--------------------------- MODULE MCSessionActor ---------------------------
(***************************************************************************)
(* Three queries, an interrupt and a disconnect, issued in any order.      *)
(***************************************************************************)
EXTENDS SessionActor

CONSTANTS q1, q2, q3, i1, d1

MCCmd == {q1, q2, q3, i1, d1}
MCKind ==
  [c \in MCCmd |-> IF c = i1 THEN "interrupt"
                   ELSE IF c = d1 THEN "disconnect" ELSE "query"]
=============================================================================
