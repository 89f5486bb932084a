------------------------------ MODULE MCMutex ------------------------------
(* The main task, which keeps its CPU, and two tasks that migrate compete   *)
(* for one mutex.                                                           *)
EXTENDS Mutex
=============================================================================
