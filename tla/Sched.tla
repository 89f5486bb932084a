------------------------------- MODULE Sched -------------------------------
(***************************************************************************)
(* The SMP scheduler: kernel/sched/sched.c with the handlers that drive    *)
(* it, interrupt_dispatch (idt.c), msleep (timer.c), the blocking system   *)
(* calls (syscall_funcs.c) and the keyboard interrupt (ps2_kbd.c).         *)
(*                                                                         *)
(* Each CPU walks through the code of an interrupt or system call in the   *)
(* steps pc names; the steps of different CPUs interleave.  One step is    *)
(* one section under a spinlock (Spinlock shows that these exclude one     *)
(* another) or a few accesses to data that only this CPU or its current    *)
(* task uses.  prio_boost, which takes no lock, is one step all the same.  *)
(*                                                                         *)
(* Time is kept as differences to system_uptime_ms, in ticks of 5 ms, cut  *)
(* off below where the code no longer tells values apart.                  *)
(*                                                                         *)
(* Definitions named ..._Bug are deliberately wrong variants of the one    *)
(* after them; they show that the properties notice such a mistake.        *)
(***************************************************************************)
EXTENDS RunQueue, FiniteSets

CONSTANTS NCpu,          \* number of CPUs; CPU 0 is the BSP
          User, Kernel,  \* user tasks and kernel tasks (all have tid >= 10)
          Main,          \* the task made of the boot flow, tid 0
          Idle,          \* the idle task of whichever CPU it is the current of
          None,          \* NULL and cpu_id -1
          Calls,         \* the blocking calls the tasks make in this instance
          MaxSleep,      \* longest sleep, in ticks
          BoostPeriod,   \* PRIORITY_BOOST in ticks (20 in the code)
          KeyCap         \* keys the buffer holds (255 in the code)

Cpu == 0 .. NCpu - 1
Migratable == User \cup Kernel
Task == Migratable \cup {Main}
Prio == [t \in Task |-> IF t \in User THEN PRIO_NORMAL ELSE PRIO_HIGH]

ASSUME SchedAssumption ==
    /\ NCpu \in Nat \ {0} /\ MaxSleep \in Nat /\ BoostPeriod \in Nat \ {0} /\ KeyCap \in Nat
    /\ Calls \subseteq {"sleep", "kbd", "exit", "msleep"}
    /\ Main \notin Migratable /\ User \cap Kernel = {}
    /\ Idle \notin Task /\ None \notin Task \cup {Idle} \cup Cpu

VARIABLES
    \* per CPU
    rq, current, boost_in,  \* run queue, current_task, next_priority_boost - now
    sleeping_list,
    pc, stk,                \* step of the handler; whose stack and context run
    batch,                  \* ready_queue / tasks_to_wake, a local list
    picked, victim,         \* scheduled_next and the index of the steal loop
    \* per task
    state, cpu_id, left,    \* left: sleep_until - now, -1 when in the past
    at, scpu,               \* where its code is; the cpu read by make_task_sleep
    \* global
    blocked_task_list, dead_task_list,
    to_clean,               \* the reaper's local list
    freed,                  \* tasks whose task_t and stack were given to kfree
    phase,                  \* of main: "boot" before sti, "test", then "loop"
    keys,                   \* characters in kbd_buffer
    dropped                 \* history: tasks descheduled amid sched_make_task_sleep

cpuVars == <<rq, current, boost_in, sleeping_list, pc, stk, batch, picked, victim>>
taskVars == <<state, cpu_id, left, at, scpu>>
globalVars == <<blocked_task_list, dead_task_list, to_clean, freed, phase, keys, dropped>>
vars == <<cpuVars, taskVars, globalVars>>

Init ==
    /\ rq = [c \in Cpu |-> EmptyRq]
    /\ current = [c \in Cpu |-> IF c = 0 THEN Main ELSE Idle]
    /\ boost_in = [c \in Cpu |-> 0]
    /\ sleeping_list = [c \in Cpu |-> <<>>]
    /\ pc = [c \in Cpu |-> IF c = 0 THEN "task" ELSE "ap"]
    /\ stk = current
    /\ batch = [c \in Cpu |-> <<>>]
    /\ picked = [c \in Cpu |-> None] /\ victim = [c \in Cpu |-> 0]
    /\ state = [t \in Task |-> IF t = Main THEN "RUNNING" ELSE "READY"]
    /\ cpu_id = [t \in Task |-> IF t = Main THEN 0 ELSE None]
    /\ left = [t \in Task |-> -1]
    /\ at = [t \in Task |-> IF t = Main THEN "kernel" ELSE "new"]
    /\ scpu = [t \in Task |-> None]
    /\ blocked_task_list = <<>> /\ dead_task_list = <<>> /\ to_clean = <<>>
    /\ freed = {} /\ phase = "boot" /\ keys = 0 /\ dropped = {}

(* CPU c executes code of task t, not a handler. *)
Runs(c, t) == pc[c] = "task" /\ stk[c] = t

(* Interrupts are on in user mode, in kernel tasks, in the idle loop and   *)
(* in main after its sti; system calls run with IF = 0 (FMASK in cpu.c).   *)
Interruptible(c) ==
    /\ pc[c] = "task"
    /\ stk[c] = Main => phase # "boot"
    /\ stk[c] # Idle => at[stk[c]] \in {"user", "kernel", "ks_insert", "ks_yield"}

Goto(c, label) == pc' = [pc EXCEPT ![c] = label]
Move(t, label) == at' = [at EXCEPT ![t] = label]

(* enqueue_task(cpu, t): a homeless task is pinned to the CPU. *)
EnqueueOn(c, t) == rq' = [rq EXCEPT ![c] = Enqueue(@, t, Prio[t])]
Pinned(c, t) == [cpu_id EXCEPT ![t] = IF @ = None THEN c ELSE @]

-----------------------------------------------------------------------------
(* arch_task_spawn_elf and, last of all, arch_task_create in the boot flow, *)
(* and the user task each AP creates before its first interrupt:           *)
(* task_register enqueues the new task on the creating CPU.                *)
Spawn(c, t) ==
    /\ at[t] = "new"
    /\ \/ /\ Runs(c, Main) /\ at[Main] = "kernel" /\ UNCHANGED pc
          /\ phase = IF t \in User THEN "boot" ELSE "loop"
       \/ pc[c] = "ap" /\ t \in User /\ Goto(c, "task")
    /\ Move(t, IF t \in User THEN "user" ELSE "kernel")
    /\ EnqueueOn(c, t)
    /\ cpu_id' = [cpu_id EXCEPT ![t] = c]
    /\ UNCHANGED <<current, boost_in, sleeping_list, stk, batch, picked, victim,
                   state, left, scpu, globalVars>>

(* An AP whose arch_task_create_user returned NULL starts without a task. *)
StartIdle(c) ==
    /\ pc[c] = "ap" /\ Goto(c, "task")
    /\ UNCHANGED <<rq, current, boost_in, sleeping_list, stk, batch, picked, victim,
                   taskVars, globalVars>>

(* kernel_main_high: sti, and after the msleep test the endless loop. *)
MainOn(c) ==
    /\ Runs(c, Main) /\ at[Main] = "kernel"
    /\ \/ phase = "boot" /\ phase' = "test"
       \/ phase = "test" /\ phase' = "loop"
    /\ UNCHANGED <<cpuVars, taskVars, blocked_task_list, dead_task_list, to_clean, freed, keys,
                   dropped>>

-----------------------------------------------------------------------------
(* Vector 32, the LAPIC timer or the int $32 of sched_yield: the BSP        *)
(* advances the uptime, sched_update_sleepers cuts the expired tasks off    *)
(* the front of the CPU's own list and stacks them on ready_queue.          *)
Elapse(n, floor) == IF n > floor THEN n - 1 ELSE floor

(* now == sleep_until: a CPU that ticks late misses it. *)
Expired_LateBug(l, r) == CHOOSE n \in 0 .. Len(l) : /\ \A i \in 1 .. n : r[l[i]] = 0
                                                    /\ n < Len(l) => r[l[n + 1]] # 0

Expired(l, r) == CHOOSE n \in 0 .. Len(l) : /\ \A i \in 1 .. n : r[l[i]] <= 0
                                            /\ n < Len(l) => r[l[n + 1]] > 0

(* Where the interrupted code continues: a yield is over, a loop goes on. *)
After(c, t) == CASE at[t] = "ks_yield"  -> {"kernel"} \cup (IF Interruptible(c) THEN {"ks_yield"} ELSE {})
              [] at[t] = "kbd_yield" -> {"kbd"}
              [] OTHER               -> {at[t]}

Yielding(c) ==
    pc[c] = "task" /\ stk[c] # Idle /\ at[stk[c]] \in {"kbd_yield", "ks_yield", "zombie"}

Tick(c) ==
    /\ Interruptible(c) \/ Yielding(c)
    /\ left' = [t \in Task |-> IF c = 0 THEN Elapse(left[t], -1) ELSE left[t]]
    /\ boost_in' = [d \in Cpu |-> IF c = 0 THEN Elapse(boost_in[d], 0) ELSE boost_in[d]]
    /\ LET l == sleeping_list[c]  n == Expired(l, left') IN
       /\ sleeping_list' = [sleeping_list EXCEPT ![c] = SubSeq(l, n + 1, Len(l))]
       /\ batch' = [batch EXCEPT ![c] = Reverse(SubSeq(l, 1, n))]
       /\ Goto(c, IF n > 0 THEN "wake" ELSE "boost")
    /\ IF stk[c] = Idle THEN UNCHANGED at ELSE \E label \in After(c, stk[c]) : Move(stk[c], label)
    /\ UNCHANGED <<rq, current, stk, picked, victim, state, cpu_id, scpu, globalVars>>

(* The state is left SLEEPING. *)
Wake_Bug(c) ==
    /\ pc[c] = "wake"
    /\ EnqueueOn(c, Head(batch[c])) /\ cpu_id' = Pinned(c, Head(batch[c]))
    /\ batch' = [batch EXCEPT ![c] = Tail(@)]
    /\ Goto(c, IF Len(batch[c]) = 1 THEN "boost" ELSE "wake")
    /\ UNCHANGED <<current, boost_in, sleeping_list, stk, picked, victim, state, left, at, scpu,
                   globalVars>>

(* sched_update_sleepers: the tasks of ready_queue become READY one by one. *)
Wake(c) ==
    /\ pc[c] = "wake"
    /\ LET t == Head(batch[c]) IN
       /\ state' = [state EXCEPT ![t] = "READY"]
       /\ left' = [left EXCEPT ![t] = -1]
       /\ EnqueueOn(c, t) /\ cpu_id' = Pinned(c, t)
    /\ batch' = [batch EXCEPT ![c] = Tail(@)]
    /\ Goto(c, IF Len(batch[c]) = 1 THEN "boost" ELSE "wake")
    /\ UNCHANGED <<current, boost_in, sleeping_list, stk, picked, victim, at, scpu, globalVars>>

-----------------------------------------------------------------------------
(* schedule(frame), from vector 32 and at the end of sys_sleep.            *)

(* The boost is forgotten. *)
Boost_Bug(c) ==
    /\ pc[c] = "boost" /\ Goto(c, "requeue")
    /\ UNCHANGED <<rq, current, boost_in, sleeping_list, stk, batch, picked, victim, taskVars,
                   globalVars>>

Boost(c) ==
    /\ pc[c] = "boost" /\ Goto(c, "requeue")
    /\ IF boost_in[c] = 0
       THEN /\ rq' = [rq EXCEPT ![c] = PrioBoost(@)]
            /\ boost_in' = [boost_in EXCEPT ![c] = BoostPeriod]
       ELSE UNCHANGED <<rq, boost_in>>
    /\ UNCHANGED <<current, sleeping_list, stk, batch, picked, victim, taskVars, globalVars>>

(* What is between the two steps of msleep is on no list and not RUNNING. *)
Dropping(c) ==
    IF current[c] # Idle /\ at[current[c]] = "ks_insert" THEN dropped \cup {current[c]} ELSE dropped

(* Every current task is put back, whatever its state. *)
Requeue_Bug(c) ==
    /\ pc[c] = "requeue"
    /\ LET t == current[c] IN
       /\ IF t # Idle
          THEN /\ state' = [state EXCEPT ![t] = "READY"]
               /\ EnqueueOn(c, t) /\ cpu_id' = Pinned(c, t)
          ELSE UNCHANGED <<rq, state, cpu_id>>
       /\ Goto(c, IF t \in Migratable THEN "affinity" ELSE "pick")
    /\ dropped' = Dropping(c)
    /\ UNCHANGED <<current, boost_in, sleeping_list, stk, batch, picked, victim,
                   left, at, scpu, blocked_task_list, dead_task_list, to_clean, freed,
                   phase, keys>>

(* The queue is boosted after the task has been put back. *)
Requeue_BoostBug(c) ==
    /\ pc[c] = "requeue"
    /\ LET t == current[c] IN
       /\ IF t # Idle /\ state[t] = "RUNNING"
          THEN /\ state' = [state EXCEPT ![t] = "READY"]
               /\ EnqueueOn(c, t) /\ cpu_id' = Pinned(c, t) /\ Goto(c, "boost")
          ELSE /\ UNCHANGED <<rq, state, cpu_id>>
               /\ Goto(c, IF t \in Migratable THEN "affinity" ELSE "pick")
    /\ dropped' = Dropping(c)
    /\ UNCHANGED <<current, boost_in, sleeping_list, stk, batch, picked, victim,
                   left, at, scpu, blocked_task_list, dead_task_list, to_clean, freed,
                   phase, keys>>

(* A task that is still RUNNING goes back to the run queue; its context is *)
(* published here, before this CPU has left its stack.                     *)
Requeue(c) ==
    /\ pc[c] = "requeue"
    /\ LET t == current[c] IN
       /\ IF t # Idle /\ state[t] = "RUNNING"
          THEN /\ state' = [state EXCEPT ![t] = "READY"]
               /\ EnqueueOn(c, t) /\ cpu_id' = Pinned(c, t)
          ELSE UNCHANGED <<rq, state, cpu_id>>
       /\ Goto(c, IF t \in Migratable THEN "affinity" ELSE "pick")
    /\ dropped' = Dropping(c)
    /\ UNCHANGED <<current, boost_in, sleeping_list, stk, batch, picked, victim,
                   left, at, scpu, blocked_task_list, dead_task_list, to_clean, freed,
                   phase, keys>>

Affinity(c) ==
    /\ pc[c] = "affinity" /\ Goto(c, "pick")
    /\ cpu_id' = [cpu_id EXCEPT ![current[c]] = None]
    /\ UNCHANGED <<rq, current, boost_in, sleeping_list, stk, batch, picked, victim,
                   state, left, at, scpu, globalVars>>

(* The CPUs of the steal loop that are still to be tried, from i on. *)
Others(c, i) == {v \in Cpu : v >= i /\ v # c}
First(S) == CHOOSE v \in S : \A w \in S : v <= w

(* The loop goes on at the first CPU of S, or ends with the idle task. *)
TryNext(c, S) ==
    IF S = {} THEN /\ picked' = [picked EXCEPT ![c] = Idle]
                   /\ victim' = [victim EXCEPT ![c] = 0] /\ Goto(c, "switch")
              ELSE /\ victim' = [victim EXCEPT ![c] = First(S)]
                   /\ Goto(c, "steal") /\ UNCHANGED picked

Pick(c) ==
    /\ pc[c] = "pick"
    /\ \/ \E p \in Served(rq[c]) :
             /\ picked' = [picked EXCEPT ![c] = Head(rq[c].q[p])]
             /\ rq' = [rq EXCEPT ![c] = Dequeue(@, p)]
             /\ Goto(c, "switch") /\ UNCHANGED victim
       \/ /\ Served(rq[c]) = {}
          /\ rq' = [rq EXCEPT ![c] = DequeueNone(@)]
          /\ TryNext(c, Others(c, 0))
    /\ UNCHANGED <<current, boost_in, sleeping_list, stk, batch, taskVars, globalVars>>

(* steal_task_from_cpu; spin_trylock fails while another CPU has the lock. *)
StealFrom(c) ==
    /\ pc[c] = "steal"
    /\ LET v == victim[c] IN
       \/ \E p \in StealLevel(rq[v], Migratable) : \E i \in FirstIn(rq[v].q[p], Migratable) :
             /\ picked' = [picked EXCEPT ![c] = rq[v].q[p][i]]
             /\ rq' = [rq EXCEPT ![v] = Steal(@, p, i)]
             /\ victim' = [victim EXCEPT ![c] = 0] /\ Goto(c, "switch")
       \/ UNCHANGED rq /\ TryNext(c, Others(c, v + 1))
    /\ UNCHANGED <<current, boost_in, sleeping_list, stk, batch, taskVars, globalVars>>

(* State, affinity, current_task, stack pointers and cr3 of the next task, *)
(* and the stub's switch to its stack.                                     *)
Switch(c) ==
    /\ pc[c] = "switch" /\ Goto(c, "task")
    /\ LET t == picked[c] IN
       /\ current' = [current EXCEPT ![c] = t]
       /\ stk' = [stk EXCEPT ![c] = t]
       /\ IF t = Idle THEN UNCHANGED <<state, cpu_id>>
          ELSE /\ state' = [state EXCEPT ![t] = "RUNNING"]
               /\ cpu_id' = [cpu_id EXCEPT ![t] = c]
    /\ picked' = [picked EXCEPT ![c] = None]
    /\ UNCHANGED <<rq, boost_in, sleeping_list, batch, victim, left, at, scpu, globalVars>>

-----------------------------------------------------------------------------
(* sched_make_task_sleep.  The place of a task that sleeps n ticks is      *)
(* before the first entry of l that does not wake earlier.                 *)
Place(l, n) == CHOOSE i \in 1 .. Len(l) + 1 : /\ \A j \in 1 .. (i - 1) : left[l[j]] < n
                                              /\ i <= Len(l) => left[l[i]] >= n

(* From sys_sleep interrupts are off and the call is one step with respect *)
(* to this CPU; schedule(frame) follows without sched_update_sleepers.     *)
SysSleep(c, t, n) ==
    /\ "sleep" \in Calls /\ Runs(c, t) /\ at[t] = "user"
    /\ IF n = 0 THEN UNCHANGED <<state, left, sleeping_list>>
       ELSE /\ state' = [state EXCEPT ![t] = "SLEEPING"]
            /\ left' = [left EXCEPT ![t] = n]
            /\ sleeping_list' = [sleeping_list EXCEPT ![c] = InsertAt(@, Place(@, n), t)]
    /\ Goto(c, "boost")
    /\ UNCHANGED <<rq, current, boost_in, stk, batch, picked, victim, cpu_id, at, scpu, globalVars>>

(* From msleep of a kernel task interrupts are on until spin_irq_save, so  *)
(* the first assignments and the insertion are two steps.                  *)
MsleepMark(c, t, n) ==
    /\ Runs(c, t) /\ at[t] = "kernel" /\ n > 0
    /\ t = Main => phase # "loop"
    /\ "msleep" \in Calls
    /\ state' = [state EXCEPT ![t] = "SLEEPING"]
    /\ left' = [left EXCEPT ![t] = n]
    /\ scpu' = [scpu EXCEPT ![t] = c]
    /\ Move(t, "ks_insert")
    /\ UNCHANGED <<cpuVars, cpu_id, globalVars>>

MsleepInsert(c, t) ==
    /\ Runs(c, t) /\ at[t] = "ks_insert"
    /\ sleeping_list' = [sleeping_list EXCEPT ![scpu[t]] = InsertAt(@, Place(@, left[t]), t)]
    /\ scpu' = [scpu EXCEPT ![t] = None]
    /\ Move(t, "ks_yield")
    /\ UNCHANGED <<rq, current, boost_in, pc, stk, batch, picked, victim,
                   state, cpu_id, left, globalVars>>

-----------------------------------------------------------------------------
(* sys_read_kbd: pop a character; with none, block and yield, and again.   *)
(* The keyboard handler holds kbd_lock_ until its wake-ups are done.       *)
KbdPop(c, t) ==
    /\ "kbd" \in Calls /\ Runs(c, t) /\ at[t] \in {"user", "kbd"} /\ t \in User
    /\ pc[0] # "kwake"
    /\ keys' = Elapse(keys, 0)
    /\ Move(t, IF keys > 0 THEN "user" ELSE "kbd_block")
    /\ UNCHANGED <<cpuVars, state, cpu_id, left, scpu,
                   blocked_task_list, dead_task_list, to_clean, freed, phase, dropped>>

(* sched_block_current(REASON_KEYBOARD). *)
KbdBlock(c, t) ==
    /\ Runs(c, t) /\ at[t] = "kbd_block" /\ Move(t, "kbd_yield")
    /\ state' = [state EXCEPT ![t] = "BLOCKED"]
    /\ blocked_task_list' = <<t>> \o blocked_task_list
    /\ UNCHANGED <<cpuVars, cpu_id, left, scpu, dead_task_list, to_clean, freed, keys, phase,
                   dropped>>

(* The keyboard interrupt on the BSP: kbd_push_char drops a character when *)
(* the ring is full; sched_wakeup takes every waiter off the list.         *)
KeyPress(c) ==
    /\ c = 0 /\ "kbd" \in Calls /\ Interruptible(c)
    /\ keys' = IF keys < KeyCap THEN keys + 1 ELSE keys
    /\ batch' = [batch EXCEPT ![c] = Reverse(blocked_task_list)]
    /\ state' = [t \in Task |-> IF t \in ToSet(blocked_task_list) THEN "READY" ELSE state[t]]
    /\ blocked_task_list' = <<>>
    /\ Goto(c, IF blocked_task_list = <<>> THEN "task" ELSE "kwake")
    /\ UNCHANGED <<rq, current, boost_in, sleeping_list, stk, picked, victim,
                   cpu_id, left, at, scpu, dead_task_list, to_clean, freed, phase, dropped>>

(* Without the fallback a task that belongs to no CPU is dropped. *)
KbdWake_Bug(c) ==
    /\ pc[c] = "kwake"
    /\ LET t == Head(batch[c]) IN
       IF cpu_id[t] = None THEN UNCHANGED <<rq, cpu_id>>
                           ELSE EnqueueOn(cpu_id[t], t) /\ UNCHANGED cpu_id
    /\ batch' = [batch EXCEPT ![c] = Tail(@)]
    /\ Goto(c, IF Len(batch[c]) = 1 THEN "task" ELSE "kwake")
    /\ UNCHANGED <<current, boost_in, sleeping_list, stk, picked, victim,
                   state, left, at, scpu, globalVars>>

(* Each is enqueued on the CPU it belongs to, or here when it has none. *)
KbdWake(c) ==
    /\ pc[c] = "kwake"
    /\ LET t == Head(batch[c])
           target == IF cpu_id[t] = None THEN c ELSE cpu_id[t]
       IN  EnqueueOn(target, t) /\ cpu_id' = Pinned(target, t)
    /\ batch' = [batch EXCEPT ![c] = Tail(@)]
    /\ Goto(c, IF Len(batch[c]) = 1 THEN "task" ELSE "kwake")
    /\ UNCHANGED <<current, boost_in, sleeping_list, stk, picked, victim,
                   state, left, at, scpu, globalVars>>

-----------------------------------------------------------------------------
(* task_exit, by sys_exit or at the end of a kernel task. *)
TaskExit(c, t) ==
    /\ "exit" \in Calls /\ Runs(c, t) /\ t # Main /\ at[t] \in {"user", "kernel"}
    /\ state' = [state EXCEPT ![t] = "ZOMBIE"]
    /\ cpu_id' = [cpu_id EXCEPT ![t] = None]
    /\ dead_task_list' = <<t>> \o dead_task_list
    /\ Move(t, "zombie")
    /\ UNCHANGED <<cpuVars, left, scpu, blocked_task_list, to_clean, freed, keys, phase, dropped>>

(* The reaper is called wherever the BSP happens to be. *)
ReapTake_Bug(c) ==
    /\ c = 0 /\ pc[c] = "task" /\ dead_task_list # <<>>
    /\ freed' = freed \cup ToSet(dead_task_list) /\ dead_task_list' = <<>>
    /\ UNCHANGED <<cpuVars, taskVars, to_clean, blocked_task_list, phase, keys, dropped>>

(* sched_reap in the idle loop of the BSP: take the list, then free the    *)
(* page tables, the stack and the task_t of one zombie after the other.    *)
ReapTake(c) ==
    /\ c = 0 /\ Runs(c, Idle) /\ to_clean = <<>> /\ dead_task_list # <<>>
    /\ to_clean' = dead_task_list /\ dead_task_list' = <<>>
    /\ UNCHANGED <<cpuVars, taskVars, blocked_task_list, freed, keys, phase, dropped>>

ReapFree(c) ==
    /\ c = 0 /\ Runs(c, Idle) /\ to_clean # <<>>
    /\ freed' = freed \cup {Head(to_clean)}
    /\ to_clean' = Tail(to_clean)
    /\ UNCHANGED <<cpuVars, taskVars, blocked_task_list, dead_task_list, keys, phase, dropped>>

-----------------------------------------------------------------------------
Handler(c) == Wake(c) \/ Boost(c) \/ Requeue(c) \/ Affinity(c) \/ Pick(c) \/ StealFrom(c)
              \/ Switch(c) \/ KbdWake(c)
InCall(c, t) == MsleepInsert(c, t) \/ (at[t] = "kbd" /\ KbdPop(c, t)) \/ KbdBlock(c, t)
Reaper(c) == ReapTake(c) \/ ReapFree(c)

Next == \E c \in Cpu :
    \/ StartIdle(c) \/ MainOn(c) \/ Tick(c) \/ KeyPress(c) \/ Handler(c) \/ Reaper(c)
    \/ \E t \in Task : \/ Spawn(c, t) \/ InCall(c, t) \/ TaskExit(c, t)
                       \/ at[t] = "user" /\ KbdPop(c, t)
                       \/ \E n \in 0 .. MaxSleep : SysSleep(c, t, n) \/ MsleepMark(c, t, n)

Spec == Init /\ [][Next]_vars

(* Handlers and calls in progress run on.  Timer interrupts keep coming    *)
(* and stay pending in the LAPIC while interrupts are off: strong fairness. *)
Fairness == \A c \in Cpu : /\ WF_vars(Handler(c)) /\ WF_vars(StartIdle(c)) /\ WF_vars(MainOn(c))
                           /\ WF_vars(\E t \in Task : InCall(c, t))
                           /\ SF_vars(Tick(c)) /\ SF_vars(Reaper(c))

FairSpec == Spec /\ Fairness

-----------------------------------------------------------------------------
(* The places that own task t: a CPU that runs it (until schedule puts it  *)
(* back, or while it is itself about to enter a list), a position in one   *)
(* of the lists, or a handler about to switch to it.                       *)
Positions(kind, l, t) == {<<kind, i>> : i \in {j \in DOMAIN l : l[j] = t}}

Keeps(c, t) ==
    /\ pc[c] \in {"task", "wake", "kwake", "boost", "requeue"}
    /\ state[t] = "RUNNING" \/ at[t] = "ks_insert"

OnCpu(t) == {<<"cpu", c>> : c \in {d \in Cpu : current[d] = t /\ Keeps(d, t)}}
AsNext(t) == {<<"next", c>> : c \in {d \in Cpu : picked[d] = t}}
InRq(t) == UNION {Positions(<<"rq", c, p>>, rq[c].q[p], t) : c \in Cpu, p \in Level}
Asleep(t) == UNION {Positions(<<"asleep", c>>, sleeping_list[c], t) : c \in Cpu}
InBatch(t) == UNION {Positions(<<"batch", c>>, batch[c], t) : c \in Cpu}

Owners(t) ==
    OnCpu(t) \cup AsNext(t) \cup InRq(t) \cup Asleep(t) \cup InBatch(t)
    \cup Positions("blocked", blocked_task_list, t)
    \cup Positions("dead", dead_task_list, t) \cup Positions("clean", to_clean, t)

(* No task is lost and none is in two places: whatever the order of timer  *)
(* interrupts, yields, sleeps, steals and exits, a task that exists is     *)
(* owned by exactly one CPU or list, one that was freed by none.  The only *)
(* task that gets lost is one that a timer interrupt finds between the     *)
(* state change and the insertion of sched_make_task_sleep.                *)
OneOwner == \A t \in Task :
    Cardinality(Owners(t)) = IF at[t] = "new" \/ t \in freed \cup dropped THEN 0 ELSE 1

(* The list a task is on agrees with its state, so that schedule, which    *)
(* only looks at the state, decides rightly whether to requeue; and each   *)
(* sleeping_list is sorted by wake-up time, which is what lets             *)
(* sched_update_sleepers stop at the first task that is not due.           *)
ListsMatchState ==
    /\ \A c \in Cpu : /\ \A t \in Queued(rq[c]) : state[t] = "READY"
                      /\ \A t \in ToSet(sleeping_list[c]) : state[t] = "SLEEPING"
                      /\ \A i, j \in DOMAIN sleeping_list[c] :
                            i < j => left[sleeping_list[c][i]] <= left[sleeping_list[c][j]]
    /\ \A t \in ToSet(blocked_task_list) : state[t] = "BLOCKED"
    /\ \A t \in ToSet(dead_task_list) \cup ToSet(to_clean) : state[t] = "ZOMBIE"

(* The reaper never frees a task whose stack or page tables a CPU uses, or *)
(* that some list still refers to, and never a kernel task, whose page     *)
(* tables are the kernel's own (sched.c: "Only proper user tasks (TID >=   *)
(* 10) have full memory maps to destroy"; kernel tasks have such tids too). *)
ReapedIsUnused == \A t \in freed :
    /\ Owners(t) = {} /\ \A c \in Cpu : t \notin {stk[c], current[c]}
    /\ t \notin Kernel

(* scheduler&context.md: no starvation.  Every READY task runs, although    *)
(* higher levels may always have work: the priority boost lifts it.        *)
NoStarvation == \A t \in Task :
    (state[t] = "READY" /\ at[t] # "new") ~> (state[t] = "RUNNING")

(* A task that went to sleep runs again, or a timer interrupt hit it       *)
(* before it was on the sleeping list.                                     *)
SleepersWake == \A t \in Task :
    (state[t] = "SLEEPING") ~> (state[t] = "RUNNING" \/ t \in dropped)

(* syscalls.md: sys_read_kbd "Blocks the task until a key is available in   *)
(* the buffer".  A reader that waits while there is a key gets on, unless   *)
(* another reader takes the key.                                           *)
KeyDelivered == \A t \in User :
    (at[t] \in {"kbd_block", "kbd_yield", "kbd"} /\ keys > 0) ~> (at[t] = "user" \/ keys = 0)

(* Two CPUs never execute the code of one task, and never take it off at    *)
(* once: they are on its stack together only while one of them is leaving *)
(* it in schedule, after enqueue_task and before the switch.               *)
Leaving(c) == pc[c] \in {"affinity", "pick", "steal", "switch"}
StackShared == \A c, d \in Cpu :
    c # d /\ stk[c] = stk[d] /\ stk[c] # Idle => Leaving(c) \/ Leaving(d)
=============================================================================
