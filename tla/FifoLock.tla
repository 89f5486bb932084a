------------------------------ MODULE FifoLock ------------------------------
(***************************************************************************)
(* What docs/kernel/atomic.md promises of a spinlock, without tickets: a   *)
(* queue of CPUs, granted strictly in the order of request, one at a time. *)
(* A trylock succeeds only when nobody holds or awaits the lock.           *)
(***************************************************************************)
EXTENDS Naturals, Sequences

CONSTANTS Cpu, NoCpu

VARIABLES queue,   \* the CPUs that asked and have not released, in request order
          inside   \* the CPU that was granted the lock, or NoCpu

vars == <<queue, inside>>

Init == queue = <<>> /\ inside = NoCpu

Waiting(c) == \E i \in DOMAIN queue : queue[i] = c

Request(c) ==
    /\ ~Waiting(c)
    /\ queue' = Append(queue, c)
    /\ UNCHANGED inside

Acquire(c) ==
    /\ inside = NoCpu
    /\ queue # <<>> /\ Head(queue) = c
    /\ inside' = c
    /\ UNCHANGED queue

TryAcquire(c) ==
    /\ queue = <<>>
    /\ queue' = <<c>>
    /\ inside' = c

Release(c) ==
    /\ inside = c
    /\ inside' = NoCpu
    /\ queue' = Tail(queue)

Next == \E c \in Cpu : Request(c) \/ Acquire(c) \/ TryAcquire(c) \/ Release(c)

Spec == Init /\ [][Next]_vars
=============================================================================
