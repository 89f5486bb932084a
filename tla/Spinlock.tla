------------------------------ MODULE Spinlock ------------------------------
(***************************************************************************)
(* The ticket spinlock of kernel/atomic/atomic.c: spin_lock, spin_unlock   *)
(* and spin_trylock, one action per access to the shared spinlock_t, so    *)
(* that every interleaving of the CPUs' loads, stores and atomic           *)
(* operations is explored.  ticket and current are unsigned integers that  *)
(* wrap at TicketMod (2^32 in the code).                                   *)
(*                                                                         *)
(* Definitions named ..._Bug are deliberately wrong variants of the one    *)
(* after them; they show that the properties notice such a mistake.        *)
(***************************************************************************)
EXTENDS Integers, FiniteSets

CONSTANTS Cpu,        \* the CPUs of cpu_table
          Bsp,        \* the bootstrap processor, alone until locks are enabled
          NoCpu,      \* last_cpu = -1
          TicketMod   \* number of values of the uint32_t counters

ASSUME SpinlockAssumption ==
    /\ IsFiniteSet(Cpu) /\ Bsp \in Cpu /\ NoCpu \notin Cpu
    /\ TicketMod \in Nat /\ Cardinality(Cpu) < TicketMod

VARIABLES ticket, current, last_cpu,  \* the spinlock_t
          g_lock_enabled,             \* main.c: 0 while the BSP boots alone
          pc,                         \* what each CPU is doing with the lock
          my_ticket,                  \* local my_ticket / current_ticket
          next                        \* local next of spin_unlock

lock == <<ticket, current, last_cpu>>
locals == <<my_ticket, next>>
vars == <<lock, g_lock_enabled, pc, locals>>

Counter == 0 .. TicketMod - 1

(* The successor of a uint32_t, and the tickets from b up to a, with wrap-around. *)
Inc(n) == IF n = TicketMod - 1 THEN 0 ELSE n + 1
Dist(a, b) == IF a >= b THEN a - b ELSE a - b + TicketMod

Goto(c, from, to) == pc[c] = from /\ pc' = [pc EXCEPT ![c] = to]

(* A local goes out of scope: its value is forgotten. *)
Forget(local, c) == [local EXCEPT ![c] = 0]

Init ==
    /\ ticket = 0 /\ current = 0 /\ last_cpu = NoCpu
    /\ g_lock_enabled = 0
    /\ pc = [c \in Cpu |-> "out"]
    /\ my_ticket = [c \in Cpu |-> 0]
    /\ next = [c \in Cpu |-> 0]

-----------------------------------------------------------------------------
(* Early boot: spin_lock and spin_unlock return at once.                   *)

BootLock(c) ==
    /\ g_lock_enabled = 0 /\ c = Bsp
    /\ Goto(c, "out", "boot")
    /\ UNCHANGED <<lock, g_lock_enabled, locals>>

BootUnlock(c) ==
    /\ g_lock_enabled = 0
    /\ Goto(c, "boot", "out")
    /\ UNCHANGED <<lock, g_lock_enabled, locals>>

(* kernel_main_high enables the locks between two calls, with no lock held. *)
EnableLocks ==
    /\ g_lock_enabled = 0 /\ pc[Bsp] = "out"
    /\ g_lock_enabled' = 1
    /\ UNCHANGED <<lock, pc, locals>>

-----------------------------------------------------------------------------
(* The CPUs that compared current with their ticket and are about to CAS.  *)
TryWindow == {c \in Cpu : pc[c] = "try_cas"}

(* Timing assumption: fewer than TicketMod tickets are issued between the  *)
(* load of current and the CAS of one spin_trylock.  The window is a few   *)
(* instructions long with interrupts off, and 2^32 acquisitions are not.   *)
TryWindowIsShort == \A c \in TryWindow : Inc(ticket) # my_ticket[c]

(* spin_lock: the fetch-and-add. *)
TakeTicket(c) ==
    /\ g_lock_enabled = 1 /\ TryWindowIsShort
    /\ Goto(c, "out", "spin")
    /\ my_ticket' = [my_ticket EXCEPT ![c] = ticket]
    /\ ticket' = Inc(ticket)
    /\ UNCHANGED <<current, last_cpu, g_lock_enabled, next>>

(* A loop on current < my_ticket instead of current != my_ticket. *)
SpinExit_Bug(c) ==
    /\ current >= my_ticket[c]
    /\ Goto(c, "spin", "won")
    /\ UNCHANGED <<lock, g_lock_enabled, locals>>

(* Whoever finds the lock free enters. *)
SpinExit_BargeBug(c) ==
    /\ last_cpu = NoCpu
    /\ Goto(c, "spin", "won")
    /\ UNCHANGED <<lock, g_lock_enabled, locals>>

(* spin_lock: the loop exits when current reaches my_ticket. *)
SpinExit(c) ==
    /\ current = my_ticket[c]
    /\ Goto(c, "spin", "won")
    /\ UNCHANGED <<lock, g_lock_enabled, locals>>

(* spin_lock and spin_trylock: last_cpu = get_cpu()->cpu_id. *)
RecordOwner(c) ==
    /\ Goto(c, "won", "cs")
    /\ last_cpu' = c
    /\ UNCHANGED <<ticket, current, g_lock_enabled, locals>>

-----------------------------------------------------------------------------
(* spin_unlock: last_cpu = -1, load of current, store of its successor.    *)

ClearOwner(c) ==
    /\ Goto(c, "cs", "unlock")
    /\ last_cpu' = NoCpu
    /\ UNCHANGED <<ticket, current, g_lock_enabled, locals>>

LoadCurrent(c) ==
    /\ Goto(c, "unlock", "store")
    /\ next' = [next EXCEPT ![c] = Inc(current)]
    /\ UNCHANGED <<lock, g_lock_enabled, my_ticket>>

StoreCurrent(c) ==
    /\ Goto(c, "store", "out")
    /\ current' = next[c]
    /\ next' = Forget(next, c)
    /\ my_ticket' = Forget(my_ticket, c)
    /\ UNCHANGED <<ticket, last_cpu, g_lock_enabled>>

-----------------------------------------------------------------------------
(* spin_trylock: load ticket, compare with current, compare-and-exchange.  *)
(* It does not test g_lock_enabled; its caller, schedule, first runs after *)
(* the flag is set.                                                        *)

TryLoad(c) ==
    /\ g_lock_enabled = 1
    /\ Goto(c, "out", "try_check")
    /\ my_ticket' = [my_ticket EXCEPT ![c] = ticket]
    /\ UNCHANGED <<lock, g_lock_enabled, next>>

(* A trylock that does not look at current. *)
TryCheck_Bug(c) ==
    /\ Goto(c, "try_check", "try_cas")
    /\ UNCHANGED <<lock, g_lock_enabled, locals>>

TryCheck(c) ==
    /\ IF current # my_ticket[c]
       THEN Goto(c, "try_check", "out") /\ my_ticket' = Forget(my_ticket, c)
       ELSE Goto(c, "try_check", "try_cas") /\ UNCHANGED my_ticket
    /\ UNCHANGED <<lock, g_lock_enabled, next>>

TryCas(c) ==
    /\ IF ticket = my_ticket[c]
       THEN /\ \A d \in TryWindow \ {c} : Inc(ticket) # my_ticket[d]
            /\ Goto(c, "try_cas", "won")
            /\ ticket' = Inc(ticket)
            /\ UNCHANGED my_ticket
       ELSE /\ Goto(c, "try_cas", "out")
            /\ my_ticket' = Forget(my_ticket, c)
            /\ UNCHANGED ticket
    /\ UNCHANGED <<current, last_cpu, g_lock_enabled, next>>

-----------------------------------------------------------------------------
Step(c) == SpinExit(c) \/ RecordOwner(c) \/ ClearOwner(c) \/ LoadCurrent(c)
           \/ StoreCurrent(c) \/ TryCheck(c) \/ TryCas(c)

Next ==
    \/ EnableLocks
    \/ \E c \in Cpu : \/ BootLock(c) \/ BootUnlock(c)
                      \/ TakeTicket(c) \/ TryLoad(c) \/ Step(c)

Spec == Init /\ [][Next]_vars

(* A CPU inside the lock's functions or its critical section runs on: the  *)
(* sections are straight-line code without blocking.  Nobody has to call.  *)
FairSpec == Spec /\ \A c \in Cpu : WF_vars(Step(c))

-----------------------------------------------------------------------------
Label == {"out", "boot", "spin", "won", "cs", "unlock", "store",
          "try_check", "try_cas"}

(* Every variable keeps its C type; the counters stay within their width. *)
TypeOK ==
    /\ ticket \in Counter /\ current \in Counter
    /\ last_cpu \in Cpu \cup {NoCpu}
    /\ g_lock_enabled \in {0, 1}
    /\ pc \in [Cpu -> Label]
    /\ my_ticket \in [Cpu -> Counter]
    /\ next \in [Cpu -> Counter]

(* A CPU between winning the lock and the store that releases it; between  *)
(* taking a ticket and that store.                                         *)
Holds(c) == pc[c] \in {"won", "cs", "unlock", "store"}
Queued(c) == pc[c] = "spin" \/ Holds(c)

(* Of any two CPUs that use spin_lock, spin_trylock and spin_unlock in any *)
(* interleaving, and across counter wrap-around, one at most is past the   *)
(* acquisition and before the releasing store.                             *)
MutualExclusion == \A c, d \in Cpu : Holds(c) /\ Holds(d) => c = d

(* docs/kernel/atomic.md: last_cpu is "the ID of the CPU core currently    *)
(* holding the lock": it names the CPU in the critical section, and is -1  *)
(* whenever the lock is free.                                              *)
OwnerRecorded ==
    /\ \A c \in Cpu : pc[c] = "cs" => last_cpu = c
    /\ (\A c \in Cpu : ~Holds(c)) => last_cpu = NoCpu

(* docs/kernel/atomic.md: "granted strictly in the order of request", and a *)
(* trylock wins only a free lock: the tickets implement a queue of CPUs.   *)
Fifo == INSTANCE FifoLock WITH
    queue <- [i \in 1 .. Dist(ticket, current) |->
                 CHOOSE c \in Cpu : Queued(c) /\ Dist(my_ticket[c], current) = i - 1],
    inside <- IF \E c \in Cpu : Holds(c) THEN CHOOSE c \in Cpu : Holds(c) ELSE NoCpu

ImplementsFifo == Fifo!Spec

(* The strengthening that makes MutualExclusion inductive: the tickets     *)
(* handed out and not released are distinct, lie in the window from        *)
(* current to ticket, and fill it; a holder's ticket is current; and a     *)
(* trylock whose CAS would succeed looks at a free lock.                   *)
TicketWindow ==
    /\ Dist(ticket, current) = Cardinality({c \in Cpu : Queued(c)})
    /\ \A c \in Cpu : Queued(c) => Dist(my_ticket[c], current) < Dist(ticket, current)
    /\ \A c, d \in Cpu : Queued(c) /\ Queued(d) /\ my_ticket[c] = my_ticket[d] => c = d
    /\ \A c \in Cpu : Holds(c) => my_ticket[c] = current
    /\ \A c \in Cpu : pc[c] = "store" => next[c] = Inc(current)
    /\ \A c \in Cpu : pc[c] = "try_cas" /\ ticket = my_ticket[c] => current = ticket

(* docs/kernel/atomic.md: no CPU "wait[s] indefinitely": one that took a   *)
(* ticket in spin_lock enters its critical section.                        *)
StarvationFree == \A c \in Cpu : (pc[c] = "spin") ~> (pc[c] = "cs")
=============================================================================
