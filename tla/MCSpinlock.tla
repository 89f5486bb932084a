----------------------------- MODULE MCSpinlock -----------------------------
(* The spinlock, and the lists of a run queue, which rest on one and are    *)
(* changed without it by prio_boost.  RqLists takes the lock for what the   *)
(* Spinlock part shows it to be, so a behaviour is one of either.           *)
(* Lock: three CPUs; counters of four values, so that they wrap after four  *)
(* acquisitions while up to three tickets are outstanding.                  *)
(* Lists: main, which keeps its CPU, and two user tasks, which move.        *)
EXTENDS Spinlock, RqLists

CONSTANT main
Base == [t \in Task |-> IF t = main THEN 0 ELSE 1]
Quanta == [p \in 0 .. 2 |-> IF p = 0 THEN 2 ELSE 1]

VARIABLE part

allvars == <<vars, rqvars, part>>

BothInit == Init /\ RqInit /\ part \in {"lock", "lists"}

Locking(A) == part = "lock" /\ A /\ UNCHANGED <<rqvars, part>>
Queueing(A) == part = "lists" /\ ~overlap /\ A /\ UNCHANGED <<vars, part>>

BothNext == Locking(Next) \/ (part = "lists" /\ RqNext /\ UNCHANGED <<vars, part>>)

(* A CPU that wants or has a spinlock goes on, except that the timer stops  *)
(* the task of its CPU.                                                     *)
BothSpec ==
    /\ BothInit /\ [][BothNext]_allvars
    /\ \A c \in Cpu : WF_allvars(Locking(Step(c)))
    /\ WF_allvars(Queueing(TickStep))
    /\ WF_allvars(Queueing(Runs(Body) /\ EnqueueStep(Body)))
    /\ \A a \in Remote : WF_allvars(Queueing(EnqueueStep(a) \/ StealStep(a)))
=============================================================================
