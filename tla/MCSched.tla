------------------------------ MODULE MCSched ------------------------------
(* Instances of Sched.  The levels' quanta are scaled down from 10, 5, 2.  *)
EXTENDS Sched

Quanta == [p \in Level |-> IF p = PRIO_HIGH THEN 2 ELSE 1]
=============================================================================
