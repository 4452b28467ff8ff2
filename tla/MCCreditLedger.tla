-------------------------- MODULE MCCreditLedger --------------------------
(***************************************************************************)
(* CreditLedger with two calls that the balance can pay only one by one,   *)
(* and one order whose payment is notified twice; an administrator may     *)
(* take a credit away.                                                     *)
(***************************************************************************)
EXTENDS CreditLedger

CONSTANTS c1, c2, o, n1, n2, a1

MCOrderOf == [n \in Notice |-> o]
MCBy == [a \in Adjustment |-> -1]
MCWorth == [x \in Order |-> 2]
MCEstimate == [c \in Call |-> IF c = c1 THEN 1 ELSE 2]
=============================================================================
