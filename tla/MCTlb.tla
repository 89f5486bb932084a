------------------------------- MODULE MCTlb -------------------------------
(* Two CPUs, two user tasks and two frames for one user page: frames are    *)
(* reused by another task while the flush interrupts are on their way.      *)
EXTENDS Tlb
=============================================================================
