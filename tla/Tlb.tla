-------------------------------- MODULE Tlb --------------------------------
(***************************************************************************)
(* Translation caches and page tables on several CPUs: vmm_unmap,           *)
(* vmm_unmap_range and sync_tlb of kernel/memory/vmm.c and vmm.h, their     *)
(* caller vma_unmap, the flush interrupt of idt.c and the CR3 load of       *)
(* schedule.  A page table is a function from pages to frames; the tables   *)
(* themselves are the subject of Vmm.  System calls and everything that     *)
(* holds vmm_lock_ run with interrupts off.                                 *)
(*                                                                         *)
(* Definitions named ..._Bug are deliberately wrong variants of the one    *)
(* after them; they show that the properties notice such a mistake.        *)
(***************************************************************************)
EXTENDS FiniteSets

CONSTANTS Cpu, Bsp,    \* Bsp runs main and the reaper
          Task,        \* address spaces of the user tasks
          Kernel,      \* that of kernel_pml4: main, idle and kernel tasks
          Page,        \* pages of the lower half
          Frame,       \* frames behind user pages
          Boot,        \* frame behind the identity mapping
          NULL

ASSUME TlbAssumption ==
    /\ Bsp \in Cpu /\ Kernel \notin Task /\ Boot \notin Frame
    /\ NULL \notin Cpu \cup Frame \cup {Boot}

Space == Task \cup {Kernel}
Place == {"run", "lock", "send", "wait", "free", "sync", "flush"}

VARIABLES pt,      \* what each space's page tables say
          cr3,     \* the space that each CPU has loaded
          tlb,     \* translations that each CPU has cached
          free,    \* free frames
          lock,    \* holder of vmm_lock_
          icr,     \* targets that have not yet accepted a CPU's broadcast
          irr,     \* CPUs with a flush interrupt pending
          pc, job  \* where an unmap is, its page and its frame

vars == <<pt, cr3, tlb, free, lock, icr, irr, pc, job>>

NoPages == [p \in Page |-> NULL]

(* vmm_init has identity-mapped low memory in the kernel's tables. *)
Init ==
    /\ pt = [s \in Space |-> IF s = Kernel THEN [p \in Page |-> Boot] ELSE NoPages]
    /\ cr3 = [c \in Cpu |-> Kernel] /\ tlb = [c \in Cpu |-> NoPages]
    /\ free = Frame /\ lock = NULL
    /\ icr = [c \in Cpu |-> {}] /\ irr = [c \in Cpu |-> FALSE]
    /\ pc = [c \in Cpu |-> "run"] /\ job \in [Cpu -> Page \X {NULL}]

Goto(c, l) == pc' = [pc EXCEPT ![c] = l]

(* The hardware walks the tables, for an access or ahead of one. *)
Touch(c, p) ==
    /\ tlb[c][p] = NULL /\ pt[cr3[c]][p] # NULL
    /\ tlb' = [tlb EXCEPT ![c][p] = pt[cr3[c]][p]]
    /\ UNCHANGED <<pt, cr3, free, lock, icr, irr, pc, job>>

(* CR3 is left alone when the kernel's space is next. *)
Switch_Bug(c, s) ==
    /\ pc[c] = "run" /\ s # cr3[c]
    /\ s \in Task => \A d \in Cpu : cr3[d] # s
    /\ cr3' = [cr3 EXCEPT ![c] = s]
    /\ tlb' = IF s = Kernel THEN tlb ELSE [tlb EXCEPT ![c] = NoPages]
    /\ UNCHANGED <<pt, free, lock, icr, irr, pc, job>>

(* schedule: a user task runs on one CPU at a time.  Writing CR3 flushes. *)
Switch(c, s) ==
    /\ pc[c] = "run" /\ s # cr3[c]
    /\ s \in Task => \A d \in Cpu : cr3[d] # s
    /\ cr3' = [cr3 EXCEPT ![c] = s]
    /\ tlb' = [tlb EXCEPT ![c] = NoPages]
    /\ UNCHANGED <<pt, free, lock, icr, irr, pc, job>>

(* vma_map backs a page of the running task. *)
Map(c, p) ==
    /\ pc[c] = "run" /\ cr3[c] \in Task /\ lock = NULL /\ pt[cr3[c]][p] = NULL
    /\ \E f \in free : pt' = [pt EXCEPT ![cr3[c]][p] = f] /\ free' = free \ {f}
    /\ tlb' = [tlb EXCEPT ![c][p] = NULL]
    /\ UNCHANGED <<cr3, lock, icr, irr, pc, job>>

-----------------------------------------------------------------------------
(* vma_unmap by the running task, which looks up the frame first, or the    *)
(* unmapping of low memory in main.                                         *)
Unmap(c, p) ==
    /\ pc[c] = "run" /\ pt[cr3[c]][p] # NULL
    /\ cr3[c] \in Task \/ c = Bsp
    /\ Goto(c, "lock") /\ job' = [job EXCEPT ![c] = <<p, pt[cr3[c]][p]>>]
    /\ UNCHANGED <<pt, cr3, tlb, free, lock, icr, irr>>

(* vmm_invlpg is missing. *)
Clear_Bug(c) ==
    /\ pc[c] = "lock" /\ lock = NULL
    /\ lock' = c
    /\ pt' = [pt EXCEPT ![cr3[c]][job[c][1]] = NULL]
    /\ Goto(c, "send")
    /\ UNCHANGED <<cr3, tlb, free, icr, irr, job>>

(* vmm_unmap has the lock: the entry is cleared and invalidated locally. *)
Clear(c) ==
    /\ pc[c] = "lock" /\ lock = NULL
    /\ lock' = c
    /\ pt' = [pt EXCEPT ![cr3[c]][job[c][1]] = NULL]
    /\ tlb' = [tlb EXCEPT ![c][job[c][1]] = NULL]
    /\ Goto(c, "send")
    /\ UNCHANGED <<cr3, free, icr, irr, job>>

(* The interrupt goes to the CPU itself. *)
Broadcast_Bug(c) ==
    /\ icr[c] = {}
    /\ icr' = [icr EXCEPT ![c] = {c}]

(* lapic_broadcast_ipi, to all CPUs but its own. *)
Broadcast(c) ==
    /\ icr[c] = {}
    /\ icr' = [icr EXCEPT ![c] = Cpu \ {c}]

Send(c) ==
    /\ pc[c] = "send" /\ Broadcast(c)
    /\ Goto(c, "wait")
    /\ UNCHANGED <<pt, cr3, tlb, free, lock, irr, job>>

(* lapic_wait_for_delivery: the others have accepted the interrupt. *)
Delivered(c) == icr[c] = {}

(* The interrupt is sent again and again. *)
Wait_RetryBug(c) ==
    /\ pc[c] = "wait" /\ Delivered(c)
    /\ Goto(c, "send")
    /\ UNCHANGED <<pt, cr3, tlb, free, lock, icr, irr, job>>

Wait(c) ==
    /\ pc[c] = "wait" /\ Delivered(c)
    /\ lock' = NULL
    /\ Goto(c, IF cr3[c] = Kernel THEN "run" ELSE "free")
    /\ UNCHANGED <<pt, cr3, tlb, free, icr, irr, job>>

(* vma_unmap returns the frame, and synchronises once more at its end. *)
FreeFrame(c) ==
    /\ pc[c] = "free"
    /\ free' = free \cup {job[c][2]}
    /\ Goto(c, "sync")
    /\ UNCHANGED <<pt, cr3, tlb, lock, icr, irr, job>>

Sync(c) ==
    /\ pc[c] = "sync" /\ Broadcast(c)
    /\ Goto(c, "flush")
    /\ UNCHANGED <<pt, cr3, tlb, free, lock, irr, job>>

SyncDone(c) ==
    /\ pc[c] = "flush" /\ Delivered(c)
    /\ Goto(c, "run")
    /\ UNCHANGED <<pt, cr3, tlb, free, lock, icr, irr, job>>

(* vmm_destroy_user_pml4, by the reaper.  The zombie's CPU is taken to have *)
(* left the space; Sched deals with a reaper that comes too early.  A task  *)
(* created later gets the frame of the PML4.                                *)
Destroy(c, s) ==
    /\ pc[c] = "run" /\ c = Bsp /\ cr3[c] = Kernel
    /\ \A d \in Cpu : cr3[d] # s
    /\ pt[s] # NoPages
    /\ pt' = [pt EXCEPT ![s] = NoPages]
    /\ free' = free \cup {pt[s][p] : p \in {q \in Page : pt[s][q] # NULL}}
    /\ Goto(c, "sync")
    /\ UNCHANGED <<cr3, tlb, lock, icr, irr, job>>

(* The local APIC of d accepts the interrupt. *)
Accept(c, d) ==
    /\ d \in icr[c]
    /\ icr' = [icr EXCEPT ![c] = @ \ {d}]
    /\ irr' = [irr EXCEPT ![d] = TRUE]
    /\ UNCHANGED <<pt, cr3, tlb, free, lock, pc, job>>

(* interrupt_dispatch: cpu_flush_tlb reloads CR3. *)
Flush(c) ==
    /\ pc[c] = "run" /\ irr[c]
    /\ irr' = [irr EXCEPT ![c] = FALSE]
    /\ tlb' = [tlb EXCEPT ![c] = NoPages]
    /\ UNCHANGED <<pt, cr3, free, lock, icr, pc, job>>

Step(c) == Clear(c) \/ Send(c) \/ Wait(c) \/ FreeFrame(c) \/ Sync(c) \/ SyncDone(c)

Next ==
    \/ \E c \in Cpu, p \in Page : Touch(c, p) \/ Map(c, p) \/ Unmap(c, p)
    \/ \E c \in Cpu, s \in Space : Switch(c, s)
    \/ \E c \in Cpu, s \in Task : Destroy(c, s)
    \/ \E c \in Cpu : Step(c) \/ Flush(c)
    \/ \E c, d \in Cpu : Accept(c, d)

(* Code under way continues, the APICs accept interrupts, and interrupts    *)
(* are handled once they are on again.  vmm_lock_ is a ticket lock: a CPU   *)
(* that waits for it gets it.                                               *)
Fairness ==
    /\ \A c \in Cpu : WF_vars(Step(c)) /\ SF_vars(Clear(c)) /\ WF_vars(Flush(c))
    /\ \A c, d \in Cpu : WF_vars(Accept(c, d))

Spec == Init /\ [][Next]_vars
FairSpec == Spec /\ Fairness

-----------------------------------------------------------------------------
(* The parts have their types, and vmm_lock_ is held exactly between the    *)
(* clearing of an entry and the delivery of the broadcast.                  *)
TypeOK ==
    /\ pt \in [Space -> [Page -> Frame \cup {Boot, NULL}]]
    /\ cr3 \in [Cpu -> Space]
    /\ tlb \in [Cpu -> [Page -> Frame \cup {Boot, NULL}]]
    /\ free \subseteq Frame /\ lock \in Cpu \cup {NULL}
    /\ icr \in [Cpu -> SUBSET Cpu] /\ irr \in [Cpu -> BOOLEAN]
    /\ pc \in [Cpu -> Place] /\ job \in [Cpu -> Page \X (Frame \cup {Boot, NULL})]
    /\ \A c \in Cpu : lock = c <=> pc[c] \in {"send", "wait"}

(* A CPU never holds a stale translation of the user task that it runs,     *)
(* although sync_tlb waits for no flush: the task has no second thread, and *)
(* a CPU that ran it earlier has loaded another CR3 since.                  *)
UserCoherent ==
    \A c \in Cpu, p \in Page :
        cr3[c] \in Task => tlb[c][p] \in {NULL, pt[cr3[c]][p]}

(* A stale translation in the kernel's space lasts only until the flush     *)
(* interrupt: it is being sent, on its way or pending on that CPU.          *)
StaleHasIpi ==
    \A c \in Cpu, p \in Page :
        cr3[c] = Kernel /\ tlb[c][p] \notin {NULL, pt[Kernel][p]} =>
            \/ irr[c]
            \/ \E d \in Cpu : c \in icr[d] \/ (d # c /\ pc[d] = "send" /\ cr3[d] = Kernel)

(* A frame is not free while a page table or a translation cache refers to  *)
(* it, and backs one page only.                                             *)
FramesExclusive ==
    /\ \A s \in Space, p \in Page : pt[s][p] \notin free
    /\ \A c \in Cpu, p \in Page : tlb[c][p] \notin free
    /\ \A s, t \in Task, p, q \in Page :
          pt[s][p] = pt[t][q] /\ pt[s][p] # NULL => s = t /\ p = q

(* Unmapping returns: no two CPUs wait for each other's flush, although     *)
(* each waits for the lock and for delivery with interrupts off.            *)
UnmapReturns == \A c \in Cpu : pc[c] = "lock" ~> pc[c] = "run"
=============================================================================
