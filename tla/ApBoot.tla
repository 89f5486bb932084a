------------------------------- MODULE ApBoot -------------------------------
(***************************************************************************)
(* Starting the application processors: smp_init, smp_init_cpu, boot_ap and *)
(* kernel_main_ap of kernel/smp/smp.c, and trampoline.asm.  The BSP fills   *)
(* one configuration block for one AP after the other; the started AP reads *)
(* it, sets trampoline_ready and initialises its context.  That context is  *)
(* in cpu_table before the AP starts, so that the schedulers of the other   *)
(* CPUs already look for work in its queue.  A context and a stack are      *)
(* named by the cpu_id they are made for, a CPU by its local APIC's id.     *)
(*                                                                         *)
(* Definitions named ..._Bug are deliberately wrong variants of the one    *)
(* after them; they show that the properties notice such a mistake.        *)
(***************************************************************************)
EXTENDS Integers, Sequences, FiniteSets

CONSTANTS ApicId, Bsp, \* local APIC ids
          Madt,        \* its entries: [lapic, enabled, apic_id]
          TicketMod,   \* 2^32: number of values of the tickets
          NoId

ASSUME ApBootAssumption ==
    /\ Bsp \in ApicId
    /\ Madt \in Seq([lapic : BOOLEAN, enabled : BOOLEAN, apic_id : ApicId])
    /\ \A i, j \in DOMAIN Madt : Madt[i].lapic /\ Madt[j].lapic
                                 /\ Madt[i].apic_id = Madt[j].apic_id => i = j
    /\ NoId \notin 0 .. Len(Madt)

Id == 0 .. Len(Madt)
OpenLock == [ticket |-> 0, current |-> 0]

VARIABLES main,        \* where the BSP's main task is in smp_init
          ptr,         \* next entry of the MADT
          cpu_count, target,
          config,      \* the block at AP_CONFIG_PHYS_ADDR
          cpu_table,   \* ids that have a context
          rq_lock,     \* of each context
          sipi,        \* CPUs with a start-up interrupt on its way
          ap,          \* where each other CPU is
          rdi, rsp,    \* context and stack that it has read
          ticket,      \* its my_ticket
          robs,        \* the context whose rq_lock a stealing CPU has
          robbed       \* history: contexts set up while a thief had them

boot == <<main, ptr, cpu_count, target>>
regs == <<rdi, rsp>>
locks == <<rq_lock, ticket, robs, robbed>>
apvars == <<boot, config, cpu_table, sipi, ap, regs, locks>>

ApInit ==
    /\ main = "scan" /\ ptr = 1 /\ cpu_count = 1 /\ target = Bsp
    /\ config = [stack |-> NoId, ctx |-> NoId, ready |-> FALSE]
    /\ cpu_table = {0} /\ rq_lock = [i \in Id |-> OpenLock]
    /\ sipi = {} /\ ap = [c \in ApicId |-> "off"]
    /\ rdi = [c \in ApicId |-> IF c = Bsp THEN 0 ELSE NoId] /\ rsp = rdi
    /\ ticket = [c \in ApicId |-> 0] /\ robs = [c \in ApicId |-> NoId]
    /\ robbed = {}

(* The main task goes on when the BSP is not in its scheduler. *)
Main(from, to) == main = from /\ main' = to /\ robs[Bsp] = NoId
Ap(a, from, to) == ap[a] = from /\ ap' = [ap EXCEPT ![a] = to]

-----------------------------------------------------------------------------
(* smp_init: the entries of enabled CPUs other than the BSP *)
Wanted(e) == e.lapic /\ e.enabled /\ e.apic_id # Bsp

Scan ==
    /\ ptr <= Len(Madt) /\ Wanted(Madt[ptr])
    /\ Main("scan", "prepare")
    /\ ptr' = ptr + 1 /\ target' = Madt[ptr].apic_id /\ cpu_count' = cpu_count + 1
    /\ UNCHANGED <<config, cpu_table, sipi, ap, regs, locks>>

Skip ==
    /\ ptr <= Len(Madt) /\ ~Wanted(Madt[ptr])
    /\ Main("scan", "scan")
    /\ ptr' = ptr + 1
    /\ UNCHANGED <<target, cpu_count, config, cpu_table, sipi, ap, regs, locks>>

Finish ==
    /\ ptr > Len(Madt) /\ Main("scan", "done")
    /\ UNCHANGED <<ptr, target, cpu_count, config, cpu_table, sipi, ap, regs, locks>>

(* cpu_id is the count before it was increased. *)
NewId == cpu_count - 1

(* smp_init_cpu: a zeroed context is made and registered. *)
Prepare ==
    /\ Main("prepare", "config")
    /\ cpu_table' = cpu_table \cup {NewId}
    /\ rq_lock' = [rq_lock EXCEPT ![NewId] = OpenLock]
    /\ UNCHANGED <<ptr, target, cpu_count, config, sipi, ap, regs, ticket, robs, robbed>>

Config ==
    /\ Main("config", "init")
    /\ config' = [stack |-> NewId, ctx |-> NewId, ready |-> FALSE]
    /\ UNCHANGED <<ptr, target, cpu_count, cpu_table, sipi, ap, regs, locks>>

(* boot_ap: INIT, then two start-up interrupts, with msleep after each.  A  *)
(* CPU obeys a start-up interrupt only while it waits for one.              *)
InitIpi ==
    /\ Main("init", "sipi1")
    /\ ap' = [ap EXCEPT ![target] = "reset"] /\ sipi' = sipi \ {target}
    /\ UNCHANGED <<ptr, target, cpu_count, config, cpu_table, regs, locks>>

Startup(S) == sipi' = IF ap[target] = "reset" THEN sipi \cup S ELSE sipi

(* The first may get lost, as the sequence provides for. *)
Sipi1 ==
    /\ Main("sipi1", "sipi2")
    /\ \E S \in {{}, {target}} : Startup(S)
    /\ UNCHANGED <<ptr, target, cpu_count, config, cpu_table, ap, regs, locks>>

(* It is not repeated. *)
Sipi2_Bug ==
    /\ Main("sipi2", "nap")
    /\ UNCHANGED <<ptr, target, cpu_count, config, cpu_table, sipi, ap, regs, locks>>

Sipi2 ==
    /\ Main("sipi2", "nap") /\ Startup({target})
    /\ UNCHANGED <<ptr, target, cpu_count, config, cpu_table, ap, regs, locks>>

Woken ==
    /\ Main("nap", "wait")
    /\ UNCHANGED <<ptr, target, cpu_count, config, cpu_table, sipi, ap, regs, locks>>

(* The loop on trampoline_ready *)
Wait ==
    /\ Main("wait", "scan") /\ config.ready
    /\ UNCHANGED <<ptr, target, cpu_count, config, cpu_table, sipi, ap, regs, locks>>

MainStep ==
    \/ Scan \/ Skip \/ Finish \/ Prepare \/ Config \/ InitIpi
    \/ Sipi1 \/ Sipi2 \/ Woken \/ Wait

-----------------------------------------------------------------------------
(* The hardware starts a CPU at the trampoline. *)
Start(a) ==
    /\ a \in sipi /\ Ap(a, "reset", "ctx") /\ sipi' = sipi \ {a}
    /\ UNCHANGED <<boot, config, cpu_table, regs, locks>>

ReadContext(a) ==
    /\ Ap(a, "ctx", "stack")
    /\ rdi' = [rdi EXCEPT ![a] = config.ctx]
    /\ UNCHANGED <<boot, config, cpu_table, sipi, rsp, locks>>

(* The flag is set before the stack is loaded. *)
ReadStack_Bug(a) ==
    \/ /\ Ap(a, "stack", "late") /\ config' = [config EXCEPT !.ready = TRUE]
       /\ UNCHANGED <<boot, cpu_table, sipi, regs, locks>>
    \/ /\ Ap(a, "late", "ready") /\ rsp' = [rsp EXCEPT ![a] = config.stack]
       /\ UNCHANGED <<boot, config, cpu_table, sipi, rdi, locks>>

ReadStack(a) ==
    /\ Ap(a, "stack", "ready")
    /\ rsp' = [rsp EXCEPT ![a] = config.stack]
    /\ UNCHANGED <<boot, config, cpu_table, sipi, rdi, locks>>

SetReady(a) ==
    /\ Ap(a, "ready", "entry")
    /\ config' = [config EXCEPT !.ready = TRUE]
    /\ UNCHANGED <<boot, cpu_table, sipi, regs, locks>>

(* kernel_main_ap: cpu_init_context clears the queues and sets up rq_lock. *)
InitContext(a) ==
    /\ Ap(a, "entry", "create")
    /\ rq_lock' = [rq_lock EXCEPT ![rdi[a]] = OpenLock]
    /\ robbed' = robbed \cup ({rdi[a]} \cap {robs[c] : c \in ApicId})
    /\ UNCHANGED <<boot, config, cpu_table, sipi, regs, ticket, robs>>

Trampoline(a) ==
    Start(a) \/ ReadContext(a) \/ ReadStack(a) \/ SetReady(a) \/ InitContext(a)

-----------------------------------------------------------------------------
Next32(n) == (n + 1) % TicketMod

(* enqueue_task and dequeue_task on the CPU's own queue: first for its test *)
(* task, then from schedule.                                                *)
SpinLock(a) ==
    /\ ap[a] \in {"create", "run"} /\ robs[a] = NoId
    /\ ap' = [ap EXCEPT ![a] = "spin"]
    /\ ticket' = [ticket EXCEPT ![a] = rq_lock[rdi[a]].ticket]
    /\ rq_lock' = [rq_lock EXCEPT ![rdi[a]].ticket = Next32(@)]
    /\ UNCHANGED <<boot, config, cpu_table, sipi, regs, robs, robbed>>

Acquired(a) ==
    /\ Ap(a, "spin", "queue") /\ rq_lock[rdi[a]].current = ticket[a]
    /\ UNCHANGED <<boot, config, cpu_table, sipi, regs, locks>>

SpinUnlock(a) ==
    /\ Ap(a, "queue", "run")
    /\ rq_lock' = [rq_lock EXCEPT ![rdi[a]].current = Next32(@)]
    /\ UNCHANGED <<boot, config, cpu_table, sipi, regs, ticket, robs, robbed>>

(* The BSP schedules while main sleeps. *)
Schedules(c) == ap[c] = "run" \/ (c = Bsp /\ main \in {"sipi1", "sipi2", "nap", "done"})

(* The queue is entered whoever has the lock. *)
Steal_Bug(c, i) ==
    /\ Schedules(c) /\ robs[c] = NoId
    /\ i \in cpu_table /\ i # rdi[c]
    /\ rq_lock' = [rq_lock EXCEPT ![i].ticket = Next32(@)]
    /\ robs' = [robs EXCEPT ![c] = i]
    /\ UNCHANGED <<boot, config, cpu_table, sipi, ap, regs, ticket, robbed>>

(* steal_task_from_cpu, of each registered CPU in turn: spin_trylock *)
Steal(c, i) ==
    /\ Schedules(c) /\ robs[c] = NoId
    /\ i \in cpu_table /\ i # rdi[c]
    /\ rq_lock[i].ticket = rq_lock[i].current
    /\ rq_lock' = [rq_lock EXCEPT ![i].ticket = Next32(@)]
    /\ robs' = [robs EXCEPT ![c] = i]
    /\ UNCHANGED <<boot, config, cpu_table, sipi, ap, regs, ticket, robbed>>

Stolen(c) ==
    /\ robs[c] # NoId
    /\ rq_lock' = [rq_lock EXCEPT ![robs[c]].current = Next32(@)]
    /\ robs' = [robs EXCEPT ![c] = NoId]
    /\ UNCHANGED <<boot, config, cpu_table, sipi, ap, regs, ticket, robbed>>

ApNext ==
    \/ MainStep
    \/ \E a \in ApicId : Trampoline(a) \/ SpinLock(a) \/ Acquired(a) \/ SpinUnlock(a)
    \/ \E c \in ApicId : Stolen(c) \/ \E i \in Id : Steal(c, i)

(* Every CPU runs, and main wakes up from msleep however often the BSP has  *)
(* scheduled meanwhile: schedule serves its own queue before it steals.     *)
Fairness ==
    /\ SF_apvars(MainStep)
    /\ \A a \in ApicId : WF_apvars(Trampoline(a)) /\ WF_apvars(Stolen(a))

ApSpec == ApInit /\ [][ApNext]_apvars
FairSpec == ApSpec /\ Fairness

-----------------------------------------------------------------------------
Entered == {a \in ApicId : ap[a] \notin {"off", "reset", "ctx", "stack", "late", "ready"}}
Owners(i) == {a \in ApicId : ap[a] = "queue" /\ rdi[a] = i} \cup {c \in ApicId : robs[c] = i}

(* The one configuration block serves the APs in turn: each enters          *)
(* kernel_main_ap with a context and a stack of its own, which belong       *)
(* together, and no two CPUs share them.  When smp_init has returned, these *)
(* are exactly the CPUs that the MADT enables, and every context in         *)
(* cpu_table is one of theirs.                                              *)
HandedOver ==
    /\ \A a \in Entered :
          /\ rdi[a] \in cpu_table \ {0} /\ rsp[a] = rdi[a]
          /\ \A b \in ApicId \ {a} : rdi[b] # rdi[a] /\ rsp[b] # rsp[a]
    /\ main = "done" =>
          /\ Entered = {Madt[i].apic_id : i \in {j \in DOMAIN Madt :
                            Madt[j].lapic /\ Madt[j].enabled}} \ {Bsp}
          /\ {rdi[a] : a \in Entered} = cpu_table \ {0}

(* smp_init returns although a start-up interrupt may get lost. *)
SmpInitReturns == <>(main = "done")

(* The queue of a CPU is in one CPU's hands at a time, from the moment that *)
(* its context is registered, unless cpu_init_context reset its rq_lock     *)
(* while a thief had it; from then on two CPUs can have the queue           *)
(* (docs/kernel/smp.md: "ensuring no race conditions during boot").         *)
QueueExclusive == \A i \in Id \ robbed : Cardinality(Owners(i)) <= 1
=============================================================================
