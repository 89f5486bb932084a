------------------------------ MODULE RqLists ------------------------------
(***************************************************************************)
(* The linked lists of one CPU's run queue, kernel/sched/sched.c, load by   *)
(* load and store by store: enqueue_task and steal_task_from_cpu under      *)
(* rq_lock, prio_boost without it.  Other CPUs steal from the queue and     *)
(* wake tasks into it; the code of the CPU's own task does so with          *)
(* interrupts on, and the timer's schedule comes on top of it.  rq_lock is  *)
(* the queue of those who have a ticket, as Spinlock justifies.  What       *)
(* schedule does under rq_lock with interrupts off is one step.             *)
(*                                                                         *)
(* Definitions named ..._Bug are deliberately wrong variants of the one    *)
(* after them; they show that the properties notice such a mistake.        *)
(***************************************************************************)
EXTENDS Integers, Sequences

CONSTANTS Task, Movable,    \* tasks; those with tid >= 10
          base_priority,    \* of each task
          priority_quanta,
          Remote,           \* other CPUs
          Body, Tick,       \* on the queue's own CPU: its task, and its timer
          NULL

Q == INSTANCE RunQueue
Level == Q!Level
Actor == Remote \cup {Body, Tick}

ASSUME RqListsAssumption ==
    /\ Movable \subseteq Task /\ base_priority \in [Task -> Level]
    /\ Body # Tick /\ {Body, Tick} \cap Remote = {} /\ NULL \notin Task

VARIABLES rq_head, rq_tail, rq_count, sched_next, current_quanta,
          rq_lock,          \* holder first, then who waits
          at,               \* per actor: its step and registers
          current_task, away, \* the CPU's task; tasks in no queue
          rq,               \* history: what the queue should hold
          overlap           \* history: a section met prio_boost on a level it moves

lists == <<rq_head, rq_tail, rq_count, sched_next, current_quanta>>
rqvars == <<lists, rq_lock, at, current_task, away, rq, overlap>>

Idle == [pc |-> "idle", p |-> Q!PRIO_HIGH, task |-> NULL, prev |-> NULL, x |-> NULL]

RqInit ==
    /\ rq_head = [p \in Level |-> NULL] /\ rq_tail = rq_head
    /\ rq_count = [p \in Level |-> 0] /\ current_quanta = rq_count
    /\ sched_next = [t \in Task |-> NULL]
    /\ rq_lock = <<>> /\ at = [a \in Actor |-> Idle]
    /\ current_task = NULL /\ away = Task
    /\ rq = Q!EmptyRq /\ overlap = FALSE

-----------------------------------------------------------------------------
(* The levels whose lists an actor is in the middle of changing *)
Moving == IF at[Tick].pc = "move" \/ at[Tick].pc = "tail" \/ at[Tick].pc = "clear"
          THEN {at[Tick].p, at[Tick].p + 1} ELSE {}
In(a) == IF a # Tick /\ at[a].pc \notin {"idle", "spin", "head"} THEN {at[a].p} ELSE {}

Runs(a) == a = Body => at[Tick].pc = "idle"
Has(a) == rq_lock # <<>> /\ Head(rq_lock) = a
Now(a, r) == /\ at' = [at EXCEPT ![a] = r]
             /\ overlap' = \E b \in Actor : (Moving \cap In(b) # {})'
Go(a, pc) == Now(a, [at[a] EXCEPT !.pc = pc])
Rest == UNCHANGED <<rq_count, current_quanta, rq_lock, current_task, away, rq>>

(* enqueue_task *)
EnqueueTicket(a, t) ==
    /\ at[a].pc = "idle" /\ t \in away /\ away' = away \ {t}
    /\ rq_lock' = Append(rq_lock, a)
    /\ Now(a, [Idle EXCEPT !.pc = "spin", !.task = t, !.p = base_priority[t]])
    /\ UNCHANGED <<lists, current_task, rq>>

EnqueueLocked(a) ==
    /\ at[a].pc = "spin" /\ Has(a)
    /\ current_quanta' = [current_quanta EXCEPT ![at[a].p] = 0]
    /\ sched_next' = [sched_next EXCEPT ![at[a].task] = NULL]
    /\ Now(a, [at[a] EXCEPT !.pc = "link", !.x = rq_tail[at[a].p]])
    /\ UNCHANGED <<rq_head, rq_tail, rq_count, rq_lock, current_task, away, rq>>

EnqueueLink(a) ==
    /\ at[a].pc = "link" /\ Go(a, "tail")
    /\ IF at[a].x # NULL
       THEN sched_next' = [sched_next EXCEPT ![at[a].x] = at[a].task] /\ UNCHANGED rq_head
       ELSE rq_head' = [rq_head EXCEPT ![at[a].p] = at[a].task] /\ UNCHANGED sched_next
    /\ UNCHANGED rq_tail /\ Rest

EnqueueTail(a) ==
    /\ at[a].pc = "tail" /\ Go(a, "count")
    /\ rq_tail' = [rq_tail EXCEPT ![at[a].p] = at[a].task]
    /\ UNCHANGED <<rq_head, sched_next>> /\ Rest

EnqueueDone(a) ==
    /\ at[a].pc = "count" /\ Now(a, Idle)
    /\ rq_count' = [rq_count EXCEPT ![at[a].p] = @ + 1]
    /\ rq' = Q!Enqueue(rq, at[a].task, at[a].p)
    /\ rq_lock' = Tail(rq_lock)
    /\ UNCHANGED <<rq_head, rq_tail, sched_next, current_quanta, current_task, away>>

EnqueueStep(a) == EnqueueLocked(a) \/ EnqueueLink(a) \/ EnqueueTail(a) \/ EnqueueDone(a)

-----------------------------------------------------------------------------
(* steal_task_from_cpu, by another CPU *)
StealTry(a) ==
    /\ at[a].pc = "idle" /\ rq_lock = <<>> /\ rq_lock' = <<a>>
    /\ Now(a, [Idle EXCEPT !.pc = "head"])
    /\ UNCHANGED <<lists, current_task, away, rq>>

(* The next level, or the end of the search *)
Onward(a) == IF at[a].p = Q!PRIO_LOW THEN [Idle EXCEPT !.pc = "none"]
             ELSE [Idle EXCEPT !.pc = "head", !.p = at[a].p + 1]

StealHead(a) ==
    /\ at[a].pc = "head"
    /\ LET t == rq_head[at[a].p] IN
       Now(a, IF t = NULL THEN Onward(a)
               ELSE [at[a] EXCEPT !.pc = "walk", !.task = t, !.prev = NULL])
    /\ UNCHANGED <<rq_head, rq_tail, sched_next>> /\ Rest

StealWalk(a) ==
    /\ at[a].pc = "walk"
    /\ LET t == at[a].task  n == sched_next[t] IN
       Now(a, IF t \in Movable THEN [at[a] EXCEPT !.pc = "unlink", !.x = n]
               ELSE IF n # NULL THEN [at[a] EXCEPT !.task = n, !.prev = t]
               ELSE Onward(a))
    /\ UNCHANGED <<rq_head, rq_tail, sched_next>> /\ Rest

StealUnlink(a) ==
    /\ at[a].pc = "unlink" /\ Go(a, "cut")
    /\ IF at[a].prev # NULL
       THEN sched_next' = [sched_next EXCEPT ![at[a].prev] = at[a].x] /\ UNCHANGED rq_head
       ELSE rq_head' = [rq_head EXCEPT ![at[a].p] = at[a].x] /\ UNCHANGED sched_next
    /\ UNCHANGED rq_tail /\ Rest

(* The tail stays at the stolen task. *)
StealCut_Bug(a) ==
    /\ at[a].pc = "cut" /\ Go(a, "stolen")
    /\ UNCHANGED <<rq_head, rq_tail, sched_next>> /\ Rest

StealCut(a) ==
    /\ at[a].pc = "cut" /\ Go(a, "stolen")
    /\ rq_tail' = [rq_tail EXCEPT ![at[a].p] = IF @ = at[a].task THEN at[a].prev ELSE @]
    /\ UNCHANGED <<rq_head, sched_next>> /\ Rest

StealDone(a) ==
    /\ at[a].pc = "stolen" /\ Now(a, Idle)
    /\ rq_count' = [rq_count EXCEPT ![at[a].p] = @ - 1]
    /\ sched_next' = [sched_next EXCEPT ![at[a].task] = NULL]
    /\ away' = away \cup {at[a].task} /\ rq_lock' = Tail(rq_lock)
    /\ \E i \in Q!FirstIn(rq.q[at[a].p], Movable) : rq' = Q!Steal(rq, at[a].p, i)
    /\ UNCHANGED <<rq_head, rq_tail, current_quanta, current_task>>

(* The lock is kept when there is nothing to steal. *)
StealNone_Bug(a) ==
    /\ at[a].pc = "none" /\ Now(a, Idle)
    /\ UNCHANGED <<lists, rq_lock, current_task, away, rq>>

StealNone(a) ==
    /\ at[a].pc = "none" /\ Now(a, Idle)
    /\ rq_lock' = Tail(rq_lock)
    /\ UNCHANGED <<lists, current_task, away, rq>>

StealStep(a) == \/ StealHead(a) \/ StealWalk(a) \/ StealUnlink(a)
                \/ StealCut(a) \/ StealDone(a) \/ StealNone(a)

-----------------------------------------------------------------------------
(* schedule, from the timer: every so often prio_boost (here, at any tick), *)
(* then the current task goes back and the next one is taken.               *)
TickBegins(pc) ==
    /\ at[Tick].pc = "idle" /\ Now(Tick, [Idle EXCEPT !.pc = pc])
    /\ UNCHANGED <<lists, rq_lock, current_task, away, rq>>

(* prio_boost: level p + 1 is appended to level p. *)
BoostCheck ==
    /\ at[Tick].pc = "check"
    /\ Now(Tick, IF at[Tick].p = Q!PRIO_LOW THEN [Idle EXCEPT !.pc = "put"]
                  ELSE IF rq_head[at[Tick].p + 1] = NULL THEN [at[Tick] EXCEPT !.p = @ + 1]
                  ELSE [at[Tick] EXCEPT !.pc = "move", !.x = rq_tail[at[Tick].p]])
    /\ UNCHANGED <<rq_head, rq_tail, sched_next>> /\ Rest

BoostMove ==
    LET p == at[Tick].p  x == at[Tick].x IN
    /\ at[Tick].pc = "move" /\ Go(Tick, "tail")
    /\ IF x # NULL
       THEN sched_next' = [sched_next EXCEPT ![x] = rq_head[p + 1]] /\ UNCHANGED rq_head
       ELSE rq_head' = [rq_head EXCEPT ![p] = rq_head[p + 1]] /\ UNCHANGED sched_next
    /\ UNCHANGED rq_tail /\ Rest

BoostTail ==
    LET p == at[Tick].p IN
    /\ at[Tick].pc = "tail" /\ Go(Tick, "clear")
    /\ rq_tail' = [rq_tail EXCEPT ![p] = rq_tail[p + 1]]
    /\ rq_count' = [rq_count EXCEPT ![p] = @ + rq_count[p + 1]]
    /\ UNCHANGED <<rq_head, sched_next, current_quanta, rq_lock, current_task, away, rq>>

BoostClear ==
    LET p == at[Tick].p IN
    /\ at[Tick].pc = "clear" /\ Now(Tick, [Idle EXCEPT !.pc = "check", !.p = p + 1])
    /\ rq_head' = [rq_head EXCEPT ![p + 1] = NULL]
    /\ rq_tail' = [rq_tail EXCEPT ![p + 1] = NULL]
    /\ rq_count' = [rq_count EXCEPT ![p + 1] = 0]
    /\ rq' = [rq EXCEPT !.q[p] = @ \o rq.q[p + 1], !.q[p + 1] = <<>>]
    /\ UNCHANGED <<sched_next, current_quanta, rq_lock, current_task, away>>

(* spin_lock; the task of an idle CPU is not put back. *)
TickTicket ==
    /\ at[Tick].pc = "get" \/ (at[Tick].pc = "put" /\ current_task # NULL)
    /\ \A i \in DOMAIN rq_lock : rq_lock[i] # Tick
    /\ rq_lock' = Append(rq_lock, Tick)
    /\ UNCHANGED <<lists, at, current_task, away, rq, overlap>>

TickIdle ==
    /\ at[Tick].pc = "put" /\ current_task = NULL /\ Go(Tick, "get")
    /\ UNCHANGED <<lists, rq_lock, current_task, away, rq>>

(* enqueue_task of the current task *)
TickPut ==
    LET t == current_task  p == base_priority[t]  x == rq_tail[p] IN
    /\ at[Tick].pc = "put" /\ Has(Tick) /\ Go(Tick, "get")
    /\ current_quanta' = [current_quanta EXCEPT ![p] = 0]
    /\ sched_next' = [u \in Task |-> IF u = t THEN NULL ELSE IF u = x THEN t ELSE sched_next[u]]
    /\ rq_head' = [rq_head EXCEPT ![p] = IF x = NULL THEN t ELSE @]
    /\ rq_tail' = [rq_tail EXCEPT ![p] = t]
    /\ rq_count' = [rq_count EXCEPT ![p] = @ + 1]
    /\ current_task' = NULL /\ rq' = Q!Enqueue(rq, t, p)
    /\ rq_lock' = Tail(rq_lock) /\ UNCHANGED away

(* dequeue_task goes by which levels are empty. *)
Heads == [q |-> [p \in Level |-> IF rq_head[p] = NULL THEN <<>> ELSE <<rq_head[p]>>],
          quanta |-> current_quanta]

TickGet ==
    /\ at[Tick].pc = "get" /\ Has(Tick) /\ Now(Tick, Idle)
    /\ IF Q!Served(Heads) = {}
       THEN /\ current_quanta' = [p \in Level |-> 0] /\ rq' = Q!DequeueNone(rq)
            /\ UNCHANGED <<rq_head, rq_tail, rq_count, current_task>>
       ELSE \E p \in Q!Served(Heads) :
            LET t == rq_head[p] IN
            /\ rq_head' = [rq_head EXCEPT ![p] = sched_next[t]]
            /\ rq_tail' = [rq_tail EXCEPT ![p] = IF sched_next[t] = NULL THEN NULL ELSE @]
            /\ rq_count' = [rq_count EXCEPT ![p] = @ - 1]
            /\ current_quanta' = Q!Charge(Heads, p)
            /\ current_task' = t /\ rq' = Q!Dequeue(rq, p)
    /\ rq_lock' = Tail(rq_lock) /\ UNCHANGED <<sched_next, away>>

TickStep == \/ BoostCheck \/ BoostMove \/ BoostTail \/ BoostClear
            \/ TickTicket \/ TickIdle \/ TickPut \/ TickGet

(* The current task blocks, sleeps or exits. *)
Leave ==
    /\ current_task # NULL /\ current_task' = NULL /\ away' = away \cup {current_task}
    /\ at[Body].pc = "idle" /\ at[Tick].pc = "idle"
    /\ UNCHANGED <<lists, rq_lock, at, rq, overlap>>

-----------------------------------------------------------------------------
RqNext ==
    /\ ~overlap
    /\ \/ \E a \in Remote \cup {Body} :
             Runs(a) /\ ((\E t \in Task : EnqueueTicket(a, t)) \/ EnqueueStep(a))
       \/ \E a \in Remote : StealTry(a) \/ StealStep(a)
       \/ \E pc \in {"check", "put"} : TickBegins(pc)
       \/ TickStep
       \/ Leave

-----------------------------------------------------------------------------
(* The list of level p holds s: from rq_head along sched_next to rq_tail. *)
Linked(p, s) ==
    /\ rq_count[p] = Len(s)
    /\ rq_head[p] = IF s = <<>> THEN NULL ELSE s[1]
    /\ rq_tail[p] = IF s = <<>> THEN NULL ELSE s[Len(s)]
    /\ \A i \in DOMAIN s : sched_next[s[i]] = IF i = Len(s) THEN NULL ELSE s[i + 1]

(* On every level that nobody is changing, the links, the count and the     *)
(* quanta are those of the sequence that the operators of RunQueue give:    *)
(* no task is lost or queued twice, though prio_boost takes no lock, until  *)
(* it moves a level while another CPU, or the task it has interrupted, is   *)
(* enqueueing to that level or stealing from it.                            *)
QueueIntact ==
    ~overlap => /\ \A p \in Level \ (Moving \cup UNION {In(a) : a \in Actor}) : Linked(p, rq.q[p])
                /\ \A p \in Level : rq_lock = <<>> => current_quanta[p] = rq.quanta[p]

(* schedule gets rq_lock and returns, unless the timer has come while the   *)
(* task of this CPU has a ticket of rq_lock, with interrupts on: then both  *)
(* wait for ever (task_register and mutex_unlock call enqueue_task so).      *)
ScheduleReturns ==
    (at[Tick].pc # "idle") ~> (at[Tick].pc = "idle" \/ overlap \/ at[Body].pc # "idle")
=============================================================================
