------------------------------- MODULE Mutex -------------------------------
(***************************************************************************)
(* mutex_lock and mutex_unlock of kernel/atomic/atomic.c, on top of the    *)
(* part of the scheduler they use: a task that yields while it is BLOCKED  *)
(* stays off the CPUs until somebody enqueues it.  Sections under          *)
(* wait_lock are one step.  A task runs on one CPU at a time here; what    *)
(* happens when it does not is the subject of Sched.                       *)
(***************************************************************************)
EXTENDS Integers, SequencesExt

CONSTANTS Task,
          Migratable,  \* the tasks with tid >= 10, homeless once descheduled
          NULL

VARIABLES count, owner, wait_list,  \* the mutex_t
          state,                    \* task->state
          running,                  \* the tasks some CPU executes
          queued,                   \* the tasks in a run queue
          homeless,                 \* the tasks with cpu_id = -1
          pc, task_to_wake,         \* per task: its step and local variable
          fault                     \* TRUE after a NULL cpu_context_t was used

mutex == <<count, owner, wait_list>>
sched == <<state, running, queued, homeless>>
vars == <<mutex, sched, pc, task_to_wake, fault>>

Init ==
    /\ count = 1 /\ owner = NULL /\ wait_list = <<>>
    /\ state = [t \in Task |-> "READY"]
    /\ running = {} /\ queued = Task /\ homeless = {}
    /\ pc = [t \in Task |-> "out"]
    /\ task_to_wake = [t \in Task |-> NULL]
    /\ fault = FALSE

At(t, from, to) == ~fault /\ t \in running /\ pc[t] = from /\ pc' = [pc EXCEPT ![t] = to]

-----------------------------------------------------------------------------
(* The scheduler: a CPU takes a queued task; a timer interrupt or a yield  *)
(* takes it off, and back to the queue if it is still RUNNING.             *)
Dispatch(t) ==
    /\ ~fault /\ t \in queued \ running
    /\ state' = [state EXCEPT ![t] = "RUNNING"]
    /\ running' = running \cup {t} /\ queued' = queued \ {t}
    /\ homeless' = homeless \ {t}
    /\ UNCHANGED <<mutex, pc, task_to_wake, fault>>

Deschedule(t) ==
    /\ running' = running \ {t}
    /\ IF state[t] = "RUNNING"
       THEN state' = [state EXCEPT ![t] = "READY"] /\ queued' = queued \cup {t}
       ELSE UNCHANGED <<state, queued>>
    /\ homeless' = IF t \in Migratable THEN homeless \cup {t} ELSE homeless

Preempt(t) ==
    /\ ~fault /\ t \in running
    /\ Deschedule(t)
    /\ UNCHANGED <<mutex, pc, task_to_wake, fault>>

-----------------------------------------------------------------------------
Call(t) == At(t, "out", "try") /\ UNCHANGED <<mutex, sched, task_to_wake, fault>>

(* mutex_lock, one turn of the loop: take the mutex, or block on it. *)
TryTake(t) ==
    /\ \/ /\ count > 0 /\ At(t, "try", "cs")
          /\ count' = 0 /\ owner' = t
          /\ UNCHANGED <<wait_list, state>>
       \/ /\ count = 0 /\ At(t, "try", "yield")
          /\ state' = [state EXCEPT ![t] = "BLOCKED"]
          /\ wait_list' = <<t>> \o wait_list
          /\ UNCHANGED <<count, owner>>
    /\ UNCHANGED <<running, queued, homeless, task_to_wake, fault>>

(* The sched_yield at the end of the turn. *)
Yield(t) ==
    /\ At(t, "yield", "try")
    /\ Deschedule(t)
    /\ UNCHANGED <<mutex, task_to_wake, fault>>

(* mutex_unlock: the last waiter to have come is taken off the list; only  *)
(* without one the mutex becomes free.                                     *)
Unlock(t) ==
    /\ owner' = NULL
    /\ \/ /\ wait_list # <<>> /\ At(t, "cs", "wake")
          /\ task_to_wake' = [task_to_wake EXCEPT ![t] = Head(wait_list)]
          /\ wait_list' = Tail(wait_list)
          /\ UNCHANGED count
       \/ /\ wait_list = <<>> /\ At(t, "cs", "out")
          /\ count' = 1
          /\ UNCHANGED <<wait_list, task_to_wake>>
    /\ UNCHANGED <<sched, fault>>

(* After wait_lock is released it is made READY and enqueued on the CPU    *)
(* its cpu_id names; there is none for -1.                                 *)
WakeWaiter(t) ==
    /\ At(t, "wake", "out")
    /\ LET w == task_to_wake[t] IN
       /\ state' = [state EXCEPT ![w] = "READY"]
       /\ fault' = (w \in homeless)
       /\ queued' = IF w \in homeless THEN queued ELSE queued \cup {w}
    /\ task_to_wake' = [task_to_wake EXCEPT ![t] = NULL]
    /\ UNCHANGED <<mutex, running, homeless>>

-----------------------------------------------------------------------------
Next == \E t \in Task : Dispatch(t) \/ Preempt(t) \/ Call(t) \/ TryTake(t) \/ Yield(t)
                        \/ Unlock(t) \/ WakeWaiter(t)

Spec == Init /\ [][Next]_vars

(* Queued tasks get a CPU again and again; a running task makes progress,  *)
(* whatever the timer does, and gives the mutex back.                      *)
FairSpec == Spec /\ \A t \in Task :
    WF_vars(Dispatch(t)) /\ SF_vars(TryTake(t) \/ Yield(t) \/ Unlock(t) \/ WakeWaiter(t))

-----------------------------------------------------------------------------
(* vfs.c: the node is blocked "for the reading time" and no longer: a task *)
(* that waits for the mutex gets it when the holders give it back, unless  *)
(* the kernel has stopped in a fault before.                               *)
MutexGranted == \A t \in Task : (pc[t] \in {"try", "yield"}) ~> (pc[t] = "cs" \/ fault)
=============================================================================
