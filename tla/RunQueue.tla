------------------------------ MODULE RunQueue ------------------------------
(***************************************************************************)
(* The per-CPU run queue of kernel/sched/sched.c: the rq_* and             *)
(* current_quanta arrays of cpu_context_t as a record                      *)
(*                                                                         *)
(*     [q |-> [Level -> Seq(Task)], quanta |-> [Level -> Nat]]             *)
(*                                                                         *)
(* and the four functions that change it, each executed under rq_lock,     *)
(* except prio_boost, which takes no lock.  Level PRIO_IDLE never holds a  *)
(* task.                                                                   *)
(***************************************************************************)
EXTENDS Integers, Sequences

CONSTANT priority_quanta    \* [Level -> Nat]: 10, 5, 2 in the code

(* On lists, what SequencesExt also has.  That module brings some two       *)
(* hundred definitions into the context of every proof about the scheduler, *)
(* which makes them several times slower.                                   *)
ToSet(l) == {l[i] : i \in DOMAIN l}
Reverse(l) == [i \in 1 .. Len(l) |-> l[Len(l) - i + 1]]
InsertAt(l, i, x) == SubSeq(l, 1, i - 1) \o <<x>> \o SubSeq(l, i, Len(l))
RemoveAt(l, i) == SubSeq(l, 1, i - 1) \o SubSeq(l, i + 1, Len(l))

PRIO_HIGH == 0
PRIO_NORMAL == 1
PRIO_LOW == 2

Level == PRIO_HIGH .. PRIO_LOW

ASSUME RunQueueAssumption == priority_quanta \in [Level -> Nat \ {0}]

(* The queue of each level, and the runs it has had in its quantum. *)
EmptyRq == [q |-> [p \in Level |-> <<>>], quanta |-> [p \in Level |-> 0]]

(* The tasks in run queue r. *)
Queued(r) == UNION {ToSet(r.q[p]) : p \in Level}

(* enqueue_task: append at the base priority; the level's quantum restarts. *)
Enqueue(r, t, p) ==
    [q      |-> [r.q EXCEPT ![p] = Append(@, t)],
     quanta |-> [r.quanta EXCEPT ![p] = 0]]

(* dequeue_task passes over a level that is empty, or whose quantum is used *)
(* up while a lower level has work, and resets the quanta it passes.        *)
WorkBelow(r, p) == \E low \in Level : low > p /\ r.q[low] # <<>>
Exhausted(r, p) == r.quanta[p] >= priority_quanta[p]
Serves(r, p) == r.q[p] # <<>> /\ ~(Exhausted(r, p) /\ WorkBelow(r, p))

Served(r) == {p \in Level : Serves(r, p) /\ \A h \in Level : h < p => ~Serves(r, h)}

(* The quanta after serving level p; those of the levels passed are reset. *)
Charge(r, p) ==
    [l \in Level |-> IF l < p THEN 0
                     ELSE IF l > p THEN r.quanta[l]
                     ELSE IF Exhausted(r, p) THEN 1 ELSE r.quanta[p] + 1]

(* The run queue without the head of level p, and with nothing to serve. *)
Dequeue(r, p) == [q |-> [r.q EXCEPT ![p] = Tail(@)], quanta |-> Charge(r, p)]
DequeueNone(r) == [r EXCEPT !.quanta = [l \in Level |-> 0]]

(* steal_task_from_cpu: the first migratable task, highest level first.     *)
(* The quanta of the victim are left alone.                                *)
FirstIn(s, M) == {i \in DOMAIN s : s[i] \in M /\ \A j \in 1 .. (i - 1) : s[j] \notin M}
StealLevel(r, M) == {p \in Level : /\ FirstIn(r.q[p], M) # {}
                                   /\ \A h \in Level : h < p => FirstIn(r.q[h], M) = {}}

Steal(r, p, i) == [r EXCEPT !.q[p] = RemoveAt(@, i)]

(* prio_boost: every level's list is appended to the one above. *)
PrioBoost(r) ==
    [r EXCEPT !.q = [p \in Level |-> CASE p = PRIO_HIGH   -> r.q[PRIO_HIGH] \o r.q[PRIO_NORMAL]
                                       [] p = PRIO_NORMAL -> r.q[PRIO_LOW]
                                       [] p = PRIO_LOW    -> <<>>]]
=============================================================================
