---------------------------- MODULE SchedPlaces ----------------------------
(***************************************************************************)
(* The inductive invariant of the scheduler, for any number of tasks and   *)
(* of CPUs: every task has one place, and its state is the one that place  *)
(* calls for.  SchedProofs draws the conclusions.                          *)
(***************************************************************************)
EXTENDS SchedTypes

(***************************************************************************)
(* Each task has one place: the kind K[t] of what owns it, the CPU W[t]    *)
(* this belongs to, and the level L[t] of a run queue.  The functions are  *)
(* not part of the state; the invariant is that they exist.                *)
(***************************************************************************)
Kind == {"none", "cpu", "next", "rq", "asleep", "batch", "blocked", "dead", "clean"}

PlaceIn(K, t) ==
    /\ K[t] = "none" <=> at[t] = "new" \/ t \in freed \/ t \in dropped
    /\ K[t] = "blocked" <=> In(t, blocked_task_list)
    /\ K[t] = "dead" <=> In(t, dead_task_list)
    /\ K[t] = "clean" <=> In(t, to_clean)

PlaceOn(K, W, L, t, c) ==
    /\ (K[t] = "cpu" /\ W[t] = c) <=> (current[c] = t /\ Keeps(c, t))
    /\ (K[t] = "next" /\ W[t] = c) <=> picked[c] = t
    /\ (K[t] = "asleep" /\ W[t] = c) <=> In(t, sleeping_list[c])
    /\ (K[t] = "batch" /\ W[t] = c) <=> In(t, batch[c])
    /\ \A p \in Level : (K[t] = "rq" /\ W[t] = c /\ L[t] = p) <=> In(t, rq[c].q[p])

PlaceOf(K, W, L, t) == PlaceIn(K, t) /\ \A c \in Cpu : PlaceOn(K, W, L, t, c)

(* No list holds a task twice. *)
NoDup ==
    /\ Inj(blocked_task_list) /\ Inj(dead_task_list) /\ Inj(to_clean)
    /\ \A c \in Cpu : /\ Inj(sleeping_list[c]) /\ Inj(batch[c])
                      /\ \A p \in Level : Inj(rq[c].q[p])

(* The place of a task, its state and what its code is doing agree. *)
TaskInv(K, W, t) ==
    /\ K[t] \in {"rq", "next"} => state[t] = "READY"
    /\ K[t] = "asleep" => state[t] = "SLEEPING"
    /\ K[t] = "blocked" => state[t] = "BLOCKED"
    /\ K[t] = "batch" => state[t] \in {"SLEEPING", "READY"} /\ (pc[W[t]] = "kwake" => state[t] = "READY")
    /\ at[t] = "new" => state[t] = "READY"
    /\ at[t] = "ks_insert" => K[t] \in {"cpu", "none"} /\ state[t] = "SLEEPING"
    /\ at[t] = "zombie" <=> K[t] \in {"dead", "clean"} \/ t \in freed
    /\ at[t] = "zombie" => state[t] = "ZOMBIE"
    /\ at[t] = "kbd_yield" => K[t] = "blocked" /\ NCpu = 1 /\ current[0] = t /\ pc[0] = "task"
    /\ t \in dropped => at[t] = "ks_insert"

(* The current task of a CPU that has not begun to leave it. *)
StayInv(K, W, c, t) ==
    /\ at[t] # "new" /\ K[t] # "next"
    /\ K[t] = "asleep" => W[t] = c
    /\ K[t] \in {"rq", "batch"} => W[t] = c /\ pc[c] \notin {"task", "kwake"} /\ (NCpu = 1 \/ t = Main)
    /\ at[t] = "ks_insert" => scpu[t] = c
    /\ pc[c] \in {"task", "kwake"} /\ at[t] \in {"user", "kernel", "kbd", "kbd_block"} => state[t] = "RUNNING"
    /\ pc[c] \in {"task", "kwake"} /\ at[t] = "ks_yield" => K[t] \in {"cpu", "asleep"}

CpuInv(K, W, c) ==
    /\ \A t \in Task : current[c] = t /\ ~Leaving(c) => StayInv(K, W, c, t)
    /\ current[c] = Main \/ picked[c] = Main => c = 0

(* No two CPUs are on one task unless one of them is leaving it. *)
Apart == \A c, d \in Cpu : \A t \in Task :
    current[c] = t /\ current[d] = t /\ ~Leaving(c) /\ ~Leaving(d) => c = d

(* main never leaves the BSP. *)
MainInv(K, W) == K[Main] \in {"rq", "asleep", "batch", "cpu", "next"} => W[Main] = 0

Placed(K, W, L) ==
    /\ K \in [Task -> Kind] /\ W \in [Task -> Cpu] /\ L \in [Task -> Level]
    /\ \A t \in Task : PlaceOf(K, W, L, t)
    /\ NoDup
    /\ \A t \in Task : TaskInv(K, W, t)
    /\ \A c \in Cpu : CpuInv(K, W, c)
    /\ Apart
    /\ MainInv(K, W)

SchedInv == TypeOK /\ Control /\ \E K, W, L : Placed(K, W, L)

(* What the CPUs and calls must be: with more than one CPU a task that     *)
(* blocks in sys_read_kbd, or a kernel task in msleep, can be found by a   *)
(* second CPU before the first has left its stack.                         *)
Covered == NCpu = 1 \/ ("kbd" \notin Calls /\ ("msleep" \notin Calls \/ Kernel = {}))

(* The tasks of T move to other places, or one task does. *)
Rest(T, K, W, L, K2, W2, L2) ==
    /\ K2 \in [Task -> Kind] /\ W2 \in [Task -> Cpu] /\ L2 \in [Task -> Level]
    /\ \A t \in Task : t \notin T => K2[t] = K[t] /\ W2[t] = W[t] /\ L2[t] = L[t]

Moves(u, k, w, p, K, W, L, K2, W2, L2) ==
    K2[u] = k /\ W2[u] = w /\ L2[u] = p /\ Rest({u}, K, W, L, K2, W2, L2)

LEMMA OneMoves ==
    ASSUME NEW K \in [Task -> Kind], NEW W \in [Task -> Cpu], NEW L \in [Task -> Level],
           NEW u \in Task, NEW k \in Kind, NEW w \in Cpu, NEW p \in Level
    PROVE  Moves(u, k, w, p, K, W, L, [K EXCEPT ![u] = k], [W EXCEPT ![u] = w], [L EXCEPT ![u] = p])
  BY DEF Moves, Rest

(* A step that does not concern task u leaves it where it is. *)
SameIn(u) ==
    /\ at'[u] = "new" \/ u \in freed' \/ u \in dropped' <=> at[u] = "new" \/ u \in freed \/ u \in dropped
    /\ In(u, blocked_task_list') <=> In(u, blocked_task_list)
    /\ In(u, dead_task_list') <=> In(u, dead_task_list)
    /\ In(u, to_clean') <=> In(u, to_clean)

SameOn(u, c) ==
    /\ (current'[c] = u /\ Keeps(c, u)') <=> (current[c] = u /\ Keeps(c, u))
    /\ picked'[c] = u <=> picked[c] = u
    /\ In(u, sleeping_list'[c]) <=> In(u, sleeping_list[c])
    /\ In(u, batch'[c]) <=> In(u, batch[c])
    /\ \A p \in Level : In(u, rq'[c].q[p]) <=> In(u, rq[c].q[p])

LEMMA PlaceKept ==
    ASSUME NEW K, NEW W, NEW L, NEW K2, NEW W2, NEW L2, NEW u \in Task, PlaceOf(K, W, L, u),
           K2[u] = K[u], W2[u] = W[u], L2[u] = L[u], SameIn(u), \A c \in Cpu : SameOn(u, c)
    PROVE  PlaceOf(K2, W2, L2, u)'
<1>1. PlaceIn(K2, u)'
  BY DEF PlaceOf, PlaceIn, SameIn
<1>2. ASSUME NEW c \in Cpu PROVE PlaceOn(K2, W2, L2, u, c)'
  <2>1. PlaceOn(K, W, L, u, c) /\ SameOn(u, c)
    BY DEF PlaceOf
  <2> QED
    BY <2>1 DEF PlaceOn, SameOn
<1> QED
  BY <1>1, <1>2 DEF PlaceOf

(* What a step of CPU c in which the tasks of T move has to respect. *)
SameTask(u) ==
    /\ state'[u] = state[u] /\ at'[u] = at[u] /\ scpu'[u] = scpu[u]
    /\ (u \in freed' <=> u \in freed) /\ (u \in dropped' <=> u \in dropped)

OthersSame(c, T, K, W) ==
    /\ \A u \in Task : u \notin T => SameTask(u) /\ SameIn(u) /\ \A d \in Cpu : SameOn(u, d)
    /\ \A d \in Cpu : d # c => pc'[d] = pc[d] /\ current'[d] = current[d] /\ picked'[d] = picked[d]
    /\ \A u \in Task : u \notin T /\ K[u] = "batch" /\ W[u] = c /\ pc'[c] = "kwake" => pc[c] = "kwake"
    /\ \A u \in Task : u \notin T /\ at[u] = "kbd_yield" => current'[0] = u /\ pc'[0] = "task"

MovedRight(c, T, K2, W2, L2) ==
    /\ \A t \in T : PlaceOf(K2, W2, L2, t)' /\ TaskInv(K2, W2, t)'
    /\ NoDup'
    /\ \A t \in T : \A d \in Cpu : d # c /\ current[d] = t /\ ~Leaving(d) => StayInv(K2, W2, d, t)'

CpuRight(c, T, K2, W2) ==
    /\ \A u \in Task : current'[c] = u /\ ~Leaving(c)' =>
          \/ /\ u \notin T /\ current[c] = u /\ ~Leaving(c)
             /\ pc'[c] = pc[c] \/ pc'[c] \notin {"task", "kwake"}
          \/ StayInv(K2, W2, c, u)'
    /\ \A u \in Task : current'[c] = u /\ ~Leaving(c)' =>
          \/ current[c] = u /\ ~Leaving(c)
          \/ \A d \in Cpu : d # c /\ current[d] = u => Leaving(d)
    /\ current'[c] = Main \/ picked'[c] = Main => c = 0

LEMMA StepPlaced ==
    ASSUME NEW K, NEW W, NEW L, Placed(K, W, L), NEW c \in Cpu, NEW T, T \subseteq Task,
           NEW K2, NEW W2, NEW L2, Rest(T, K, W, L, K2, W2, L2),
           OthersSame(c, T, K, W), MovedRight(c, T, K2, W2, L2), CpuRight(c, T, K2, W2), MainInv(K2, W2)
    PROVE  \E K3, W3, L3 : Placed(K3, W3, L3)'
<1>0. /\ \A u \in Task : u \notin T => K2[u] = K[u] /\ W2[u] = W[u] /\ L2[u] = L[u]
      /\ 0 \in Cpu /\ W \in [Task -> Cpu]
  BY ConstantFacts DEF Rest, Placed
<1>1. ASSUME NEW u \in Task PROVE PlaceOf(K2, W2, L2, u)'
  <2>1. CASE u \in T
    BY <2>1 DEF MovedRight
  <2>2. CASE u \notin T
    <3>1. PlaceOf(K, W, L, u) /\ SameIn(u) /\ \A d \in Cpu : SameOn(u, d)
      BY <2>2 DEF Placed, OthersSame
    <3> QED
      BY <1>0, <2>2, <3>1, PlaceKept, Zenon
  <2> QED
    BY <2>1, <2>2
<1>2. ASSUME NEW u \in Task PROVE TaskInv(K2, W2, u)'
  <2>1. CASE u \in T
    BY <2>1, Zenon DEF MovedRight
  <2>2. CASE u \notin T
    <3>1. TaskInv(K, W, u) /\ SameTask(u) /\ K2[u] = K[u] /\ W2[u] = W[u] /\ W[u] \in Cpu
      BY <1>0, <2>2, Zenon DEF Placed, OthersSame
    <3>2. /\ K[u] = "batch" /\ pc'[W[u]] = "kwake" => pc[W[u]] = "kwake"
          /\ at[u] = "kbd_yield" => current'[0] = u /\ pc'[0] = "task"
      BY <2>2, <3>1, Zenon DEF OthersSame
    <3> QED
      BY <3>1, <3>2, Zenon DEF TaskInv, SameTask
  <2> QED
    BY <2>1, <2>2
<1>3. ASSUME NEW d \in Cpu, d # c PROVE CpuInv(K2, W2, d)'
  <2>1. CpuInv(K, W, d) /\ pc'[d] = pc[d] /\ current'[d] = current[d] /\ picked'[d] = picked[d]
    BY <1>3, Zenon DEF Placed, OthersSame
  <2>2. ASSUME NEW u \in Task, current'[d] = u, ~Leaving(d)' PROVE StayInv(K2, W2, d, u)'
    <3>1. current[d] = u /\ ~Leaving(d) /\ StayInv(K, W, d, u)
      BY <2>1, <2>2, Zenon DEF CpuInv, Leaving
    <3>2. CASE u \in T
      BY <1>3, <3>1, <3>2, Zenon DEF MovedRight
    <3>3. CASE u \notin T
      <4>1. SameTask(u) /\ K2[u] = K[u] /\ W2[u] = W[u]
        BY <1>0, <3>3, Zenon DEF OthersSame
      <4> QED
        BY <2>1, <3>1, <4>1, Zenon DEF StayInv, SameTask
    <3> QED
      BY <3>2, <3>3, Zenon
  <2> QED
    BY <2>1, <2>2, Zenon DEF CpuInv
<1>4. CpuInv(K2, W2, c)'
  <2>1. CpuInv(K, W, c)
    BY Zenon DEF Placed
  <2>2. ASSUME NEW u \in Task, current'[c] = u, ~Leaving(c)' PROVE StayInv(K2, W2, c, u)'
    <3>1. CASE /\ u \notin T /\ current[c] = u /\ ~Leaving(c)
               /\ pc'[c] = pc[c] \/ pc'[c] \notin {"task", "kwake"}
      <4>1. SameTask(u) /\ K2[u] = K[u] /\ W2[u] = W[u] /\ StayInv(K, W, c, u)
        BY <1>0, <2>1, <3>1, Zenon DEF OthersSame, CpuInv
      <4> QED
        BY <3>1, <4>1, Zenon DEF StayInv, SameTask
    <3> QED
      BY <2>2, <3>1, Zenon DEF CpuRight
  <2> QED
    BY <2>2 DEF CpuInv, CpuRight
<1>5. Apart'
  <2>1. SUFFICES ASSUME NEW a \in Cpu, NEW b \in Cpu, NEW u \in Task, current'[a] = u, current'[b] = u,
                        ~Leaving(a)', ~Leaving(b)'
                 PROVE  a = b
    BY Zenon DEF Apart
  <2>2. \A d \in Cpu : d # c => (current'[d] = current[d] /\ (Leaving(d)' <=> Leaving(d)))
    BY Zenon DEF OthersSame, Leaving
  <2>3. ASSUME NEW d \in Cpu, d # c, current'[c] = u, ~Leaving(c)', current[d] = u, ~Leaving(d) PROVE FALSE
    BY <2>3, Zenon DEF CpuRight, Placed, Apart
  <2> QED
    BY <2>1, <2>2, <2>3, Zenon DEF Placed, Apart
<1>6. Placed(K2, W2, L2)'
  <2>1. NoDup' /\ MainInv(K2, W2)'
    BY Zenon DEF MovedRight, MainInv
  <2>2. K2 \in [Task -> Kind] /\ W2 \in [Task -> Cpu] /\ L2 \in [Task -> Level]
    BY DEF Rest
  <2> QED
    BY <1>1, <1>2, <1>3, <1>4, <1>5, <2>1, <2>2, Zenon DEF Placed
<1> QED
  BY <1>6

LEMMA InEmpty == (\A x : ~In(x, <<>>)) /\ Inj(<<>>)
  BY DEF In, Inj

LEMMA ConsFacts ==
    ASSUME NEW S, NEW l \in Seq(S), NEW e \in S
    PROVE  /\ \A x : In(x, <<e>> \o l) <=> In(x, l) \/ x = e
           /\ Inj(l) /\ ~In(e, l) => Inj(<<e>> \o l)
<1>1. <<e>> \in Seq(S) /\ (\A x : In(x, <<e>>) <=> x = e) /\ Inj(<<e>>)
  BY DEF In, Inj
<1> DEFINE k == <<e>>
<1> HIDE DEF k
<1>2. k \in Seq(S) /\ (\A x : In(x, k) <=> x = e) /\ Inj(k)
  BY <1>1, Zenon DEF k
<1>3. /\ \A x : In(x, k \o l) <=> In(x, k) \/ In(x, l)
      /\ Inj(k) /\ Inj(l) /\ (\A x : ~(In(x, k) /\ In(x, l))) => Inj(k \o l)
  BY <1>2, ConcatFacts, Zenon
<1>4. /\ \A x : In(x, k \o l) <=> In(x, l) \/ x = e
      /\ Inj(l) /\ ~In(e, l) => Inj(k \o l)
  BY <1>2, <1>3
<1> QED
  BY <1>4 DEF k

LEMMA EnqueuePlaced ==
    ASSUME TypeOK, NEW c \in Cpu, NEW t \in Task, EnqueueOn(c, t)
    PROVE  /\ Prio[t] \in Level
           /\ \A x : \A d \in Cpu, p \in Level :
                 In(x, rq'[d].q[p]) <=> In(x, rq[d].q[p]) \/ (x = t /\ d = c /\ p = Prio[t])
           /\ ~In(t, rq[c].q[Prio[t]]) =>
                 \A d \in Cpu, p \in Level : Inj(rq[d].q[p]) => Inj(rq'[d].q[p])
<1>a. Prio[t] \in Level /\ rq \in [Cpu -> RqType] /\ rq[c] \in RqType
  BY ConstantFacts, Zenon DEF TypeOK
<1>b. rq[c].q \in [Level -> Seq(Task)] /\ rq[c].q[Prio[t]] \in Seq(Task)
  BY <1>a, Zenon DEF RqType
<1>c. Enqueue(rq[c], t, Prio[t]).q = [rq[c].q EXCEPT ![Prio[t]] = Append(rq[c].q[Prio[t]], t)]
  BY Zenon DEF Enqueue
<1> DEFINE p0 == Prio[t]
           r == rq[c]
           e == Enqueue(r, t, p0)
<1>1. p0 \in Level /\ rq \in [Cpu -> RqType] /\ r \in RqType /\ r.q \in [Level -> Seq(Task)] /\ r.q[p0] \in Seq(Task)
  BY <1>a, <1>b, Zenon
<1>2. rq' = [rq EXCEPT ![c] = e]
  BY Zenon DEF EnqueueOn
<1>3. e.q = [r.q EXCEPT ![p0] = Append(r.q[p0], t)]
  BY <1>c, Zenon
<1>4. /\ \A x : In(x, Append(r.q[p0], t)) <=> In(x, r.q[p0]) \/ x = t
      /\ Inj(r.q[p0]) /\ ~In(t, r.q[p0]) => Inj(Append(r.q[p0], t))
  <2> DEFINE l == r.q[p0]
  <2>1. l \in Seq(Task)
    BY <1>1, Zenon
  <2> HIDE DEF l
  <2>2. /\ \A x : In(x, Append(l, t)) <=> In(x, l) \/ x = t
        /\ Inj(l) /\ ~In(t, l) => Inj(Append(l, t))
    BY <2>1, AppendFacts, Zenon
  <2> QED
    BY <2>2, Zenon DEF l
<1>5. \A d \in Cpu, p \in Level : \/ d = c /\ p = p0 /\ rq'[d].q[p] = Append(r.q[p0], t)
                                  \/ ~(d = c /\ p = p0) /\ rq'[d].q[p] = rq[d].q[p]
  <2> HIDE DEF e
  <2> QED
    BY <1>1, <1>2, <1>3, Zenon
<1>6. r.q[p0] = rq[c].q[p0]
  BY Zenon
<1> HIDE DEF p0, r, e
<1>7. \A x : \A d \in Cpu, p \in Level : In(x, rq'[d].q[p]) <=> In(x, rq[d].q[p]) \/ (x = t /\ d = c /\ p = p0)
  BY <1>4, <1>5, <1>6, Zenon
<1>8. ~In(t, rq[c].q[p0]) => \A d \in Cpu, p \in Level : Inj(rq[d].q[p]) => Inj(rq'[d].q[p])
  BY <1>4, <1>5, <1>6, Zenon
<1> QED
  BY <1>1, <1>7, <1>8, Zenon DEF p0

(* The tasks a handler has still to wake, when it has woken the first. *)
LEMMA BatchPlaced ==
    ASSUME TypeOK, Control, NEW c \in Cpu, pc[c] \in {"wake", "kwake"}, NoDup,
           batch' = [batch EXCEPT ![c] = Tail(batch[c])]
    PROVE  /\ In(Head(batch[c]), batch[c])
           /\ \A x : \A d \in Cpu : In(x, batch'[d]) <=> In(x, batch[d]) /\ ~(d = c /\ x = Head(batch[c]))
           /\ \A d \in Cpu : Inj(batch'[d])
<1> DEFINE l == batch[c]
           h == Head(l)
<1>1. l \in Seq(Task) /\ l # <<>> /\ Inj(l) /\ batch \in [Cpu -> Seq(Task)]
  BY Zenon DEF TypeOK, Control, CpuControl, TaskControl, NoDup
<1>2. In(h, l) /\ Inj(Tail(l)) /\ \A x : In(x, Tail(l)) <=> In(x, l) /\ x # h
  <2> HIDE DEF l
  <2> QED
    BY <1>1, TailFacts, Zenon
<1>3. \A d \in Cpu : \/ d = c /\ batch'[d] = Tail(l) /\ batch[d] = l
                     \/ d # c /\ batch'[d] = batch[d]
  BY <1>1, Zenon
<1> HIDE DEF l, h
<1>4. \A x : \A d \in Cpu : In(x, batch'[d]) <=> In(x, batch[d]) /\ ~(d = c /\ x = h)
  BY <1>2, <1>3, Zenon
<1>5. \A d \in Cpu : Inj(batch'[d])
  BY <1>2, <1>3 DEF NoDup
<1> QED
  BY <1>2, <1>4, <1>5 DEF l, h

(* A task put on a sleeping list at its place. *)
LEMMA InsertPlaced ==
    ASSUME TypeOK, NEW c \in Cpu, NEW t \in Task, NEW n \in Int, NoDup, ~In(t, sleeping_list[c]),
           sleeping_list' = [sleeping_list EXCEPT ![c] = InsertAt(@, Place(@, n), t)]
    PROVE  /\ \A x : \A d \in Cpu : In(x, sleeping_list'[d]) <=> In(x, sleeping_list[d]) \/ (d = c /\ x = t)
           /\ \A d \in Cpu : Inj(sleeping_list'[d])
<1> DEFINE l == sleeping_list[c]
           i == Place(l, n)
           m == InsertAt(l, i, t)
<1>1. l \in Seq(Task) /\ left \in [Task -> Int] /\ sleeping_list \in [Cpu -> Seq(Task)] /\ Inj(l) /\ ~In(t, l)
  BY Zenon DEF TypeOK, NoDup
<1>2. i \in 1 .. Len(l) + 1
  <2> HIDE DEF l
  <2> QED
    BY <1>1, PlaceFacts, Zenon
<1>3. (\A x : In(x, m) <=> In(x, l) \/ x = t) /\ Inj(m)
  <2> HIDE DEF l, i
  <2> QED
    BY <1>1, <1>2, InsertFacts
<1>4. sleeping_list' = [sleeping_list EXCEPT ![c] = m]
  BY Zenon
<1>5. \A d \in Cpu : \/ d = c /\ sleeping_list'[d] = m /\ sleeping_list[d] = l
                     \/ d # c /\ sleeping_list'[d] = sleeping_list[d]
  <2> HIDE DEF m
  <2> QED
    BY <1>1, <1>4, Zenon
<1> HIDE DEF l, i, m
<1>6. \A x : \A d \in Cpu : In(x, sleeping_list'[d]) <=> In(x, sleeping_list[d]) \/ (d = c /\ x = t)
  BY <1>3, <1>5, Zenon
<1>7. \A d \in Cpu : Inj(sleeping_list'[d])
  BY <1>3, <1>5, Zenon DEF NoDup
<1> QED
  BY <1>6, <1>7

LEMMA PlacedSpawn ==
    ASSUME Covered, TypeOK, Control, NEW K, NEW W, NEW L, Placed(K, W, L),
           NEW c \in Cpu, NEW t \in Task, Spawn(c, t)
    PROVE  \E K2, W2, L2 : Placed(K2, W2, L2)'
<1>1. /\ at[t] = "new" /\ EnqueueOn(c, t)
      /\ pc' = pc \/ (pc[c] = "ap" /\ pc' = [pc EXCEPT ![c] = "task"])
      /\ at' = [at EXCEPT ![t] = IF t \in User THEN "user" ELSE "kernel"]
      /\ UNCHANGED <<current, sleeping_list, batch, picked, state, scpu>>
      /\ UNCHANGED <<blocked_task_list, dead_task_list, to_clean, freed, dropped>>
  BY Zenon DEF Spawn, Move, Goto, globalVars
<1>2. /\ K \in [Task -> Kind] /\ W \in [Task -> Cpu] /\ L \in [Task -> Level]
      /\ PlaceOf(K, W, L, t) /\ TaskInv(K, W, t) /\ K[t] = "none"
      /\ t \notin freed /\ t \notin dropped /\ state[t] = "READY" /\ t # Main
  BY <1>1, Zenon DEF Placed, PlaceOf, PlaceIn, TaskInv, Control, CpuControl, TaskControl
<1>3. /\ Prio[t] \in Level
      /\ \A x : \A d \in Cpu, p \in Level :
            In(x, rq'[d].q[p]) <=> In(x, rq[d].q[p]) \/ (x = t /\ d = c /\ p = Prio[t])
      /\ ~In(t, rq[c].q[Prio[t]]) => \A d \in Cpu, p \in Level : Inj(rq[d].q[p]) => Inj(rq'[d].q[p])
  BY <1>1, EnqueuePlaced, Zenon
<1>4. PICK K2, W2, L2 : Moves(t, "rq", c, Prio[t], K, W, L, K2, W2, L2)
  <2>1. "rq" \in Kind
    BY Zenon DEF Kind
  <2>2. Moves(t, "rq", c, Prio[t], K, W, L, [K EXCEPT ![t] = "rq"], [W EXCEPT ![t] = c], [L EXCEPT ![t] = Prio[t]])
    BY <1>2, <1>3, <2>1, OneMoves, Zenon
  <2> QED
    BY <2>2
<1>5. /\ \A d \in Cpu : /\ pc[d] = "ap" => current[d] = Idle
                        /\ pc'[d] = pc[d] \/ (d = c /\ pc[d] = "ap" /\ pc'[d] = "task")
      /\ \A u \in Task : u # t => at'[u] = at[u]
      /\ at'[t] \in {"user", "kernel"} /\ Idle \notin Task /\ 0 \in Cpu
  BY <1>1, ConstantFacts, CpuTypes, TaskTypes DEF Control, CpuControl, TaskControl
<1>6. \A d \in Cpu, u \in Task : current'[d] = u /\ Keeps(d, u)' <=> current[d] = u /\ Keeps(d, u)
  BY <1>1, <1>2, <1>5 DEF Keeps
<1>7. OthersSame(c, {t}, K, W)
  <2>1. \A u \in Task : u # t => SameTask(u) /\ SameIn(u)
    BY <1>1, <1>5, Zenon DEF SameTask, SameIn
  <2>2. \A u \in Task, d \in Cpu : u # t => SameOn(u, d)
    BY <1>1, <1>3, <1>6, Zenon DEF SameOn
  <2>3. \A u \in Task : at[u] = "kbd_yield" => current[0] = u /\ pc[0] = "task"
    BY DEF Placed, TaskInv
  <2> QED
    BY <1>1, <1>5, <2>1, <2>2, <2>3, Zenon DEF OthersSame
<1>8. PlaceOf(K2, W2, L2, t)'
  <2>1. PlaceIn(K2, t)'
    BY <1>1, <1>2, <1>4, <1>5, Zenon DEF PlaceOf, PlaceIn, Moves
  <2>2. ASSUME NEW d \in Cpu PROVE PlaceOn(K2, W2, L2, t, d)'
    <3>1. /\ ~(current[d] = t /\ Keeps(d, t)) /\ picked[d] # t /\ ~In(t, sleeping_list[d])
          /\ ~In(t, batch[d]) /\ \A p \in Level : ~In(t, rq[d].q[p])
      BY <1>2, Zenon DEF PlaceOf, PlaceOn
    <3>2. /\ ~(current'[d] = t /\ Keeps(d, t)') /\ picked'[d] # t /\ ~In(t, sleeping_list'[d])
          /\ ~In(t, batch'[d]) /\ \A p \in Level : In(t, rq'[d].q[p]) <=> (d = c /\ p = Prio[t])
      BY <1>1, <1>3, <1>6, <3>1, Zenon
    <3> QED
      BY <1>4, <3>2, Zenon DEF PlaceOn, Moves
  <2> QED
    BY <2>1, <2>2, Zenon DEF PlaceOf
<1>9. MovedRight(c, {t}, K2, W2, L2)
  <2>1. NoDup'
    <3>1. ~In(t, rq[c].q[Prio[t]])
      BY <1>2, <1>3, Zenon DEF PlaceOf, PlaceOn
    <3> QED
      BY <1>1, <1>3, <3>1, Zenon DEF Placed, NoDup
  <2>2. TaskInv(K2, W2, t)'
    BY <1>1, <1>2, <1>4, <1>5, Zenon DEF TaskInv, Moves
  <2>3. \A d \in Cpu : current[d] = t => Leaving(d)
    BY <1>1, Zenon DEF Placed, CpuInv, StayInv
  <2> QED
    BY <1>8, <2>1, <2>2, <2>3, Zenon DEF MovedRight
<1>10. CpuRight(c, {t}, K2, W2)
  <2>1. \A u \in Task : current[c] = u => pc'[c] = pc[c]
    BY <1>5, Zenon
  <2>2. current[c] = t => Leaving(c)
    BY <1>1, Zenon DEF Placed, CpuInv, StayInv
  <2> QED
    BY <1>1, <2>1, <2>2, Zenon DEF CpuRight, Placed, CpuInv, Leaving
<1>11. MainInv(K2, W2)
  BY <1>2, <1>4, ConstantFacts, Zenon DEF Placed, MainInv, Moves, Rest
<1>12. Rest({t}, K, W, L, K2, W2, L2) /\ {t} \subseteq Task
  BY <1>4, Zenon DEF Moves
<1> QED
  BY <1>7, <1>9, <1>10, <1>11, <1>12, StepPlaced, Zenon

LEMMA PlacedBoot ==
    ASSUME TypeOK, Control, NEW K, NEW W, NEW L, Placed(K, W, L),
           NEW c \in Cpu, StartIdle(c) \/ MainOn(c)
    PROVE  \E K2, W2, L2 : Placed(K2, W2, L2)'
<1>1. /\ UNCHANGED <<rq, current, sleeping_list, batch, picked, state, at, scpu>>
      /\ UNCHANGED <<blocked_task_list, dead_task_list, to_clean, freed, dropped>>
      /\ pc' = pc \/ (pc[c] = "ap" /\ pc' = [pc EXCEPT ![c] = "task"])
  BY Zenon DEF StartIdle, MainOn, Goto, cpuVars, taskVars, globalVars
<1>2. \A d \in Cpu : /\ pc[d] = "ap" => current[d] = Idle
                     /\ pc'[d] = pc[d] \/ (d = c /\ pc[d] = "ap" /\ pc'[d] = "task")
  BY <1>1, Zenon DEF TypeOK, Control, CpuControl, TaskControl
<1>3. \A d \in Cpu, u \in Task : current'[d] = u /\ Keeps(d, u)' <=> current[d] = u /\ Keeps(d, u)
  BY <1>1, <1>2, ConstantFacts, Zenon DEF Keeps
<1>4. OthersSame(c, {}, K, W)
  <2>1. \A u \in Task : SameTask(u) /\ SameIn(u) /\ \A d \in Cpu : SameOn(u, d)
    BY <1>1, <1>3, Zenon DEF SameTask, SameIn, SameOn
  <2>2. (\A u \in Task : at[u] = "kbd_yield" => current[0] = u /\ pc[0] = "task") /\ 0 \in Cpu
    BY ConstantFacts, Zenon DEF Placed, TaskInv
  <2> QED
    BY <1>1, <1>2, <2>1, <2>2, Zenon DEF OthersSame
<1>5. MovedRight(c, {}, K, W, L)
  BY <1>1, Zenon DEF MovedRight, Placed, NoDup
<1>6. CpuRight(c, {}, K, W)
  <2>1. \A u \in Task : current[c] = u => pc'[c] = pc[c]
    BY <1>2, ConstantFacts, Zenon
  <2> QED
    BY <1>1, <2>1, Zenon DEF CpuRight, Placed, CpuInv, Leaving
<1>7. Rest({}, K, W, L, K, W, L) /\ MainInv(K, W)
  BY Zenon DEF Rest, Placed
<1> QED
  BY <1>4, <1>5, <1>6, <1>7, StepPlaced, Zenon

LEMMA PlacedWake ==
    ASSUME Covered, TypeOK, Control, NEW K, NEW W, NEW L, Placed(K, W, L),
           NEW c \in Cpu, Wake(c)
    PROVE  \E K2, W2, L2 : Placed(K2, W2, L2)'
<1>0. PICK t \in Task : t = Head(batch[c])
  BY BatchFacts, Zenon DEF Wake
<1>1. /\ pc[c] = "wake" /\ state' = [state EXCEPT ![t] = "READY"] /\ EnqueueOn(c, t)
      /\ batch' = [batch EXCEPT ![c] = Tail(batch[c])]
      /\ pc' = [pc EXCEPT ![c] = IF Len(batch[c]) = 1 THEN "boost" ELSE "wake"]
      /\ UNCHANGED <<current, sleeping_list, picked, at, scpu>>
      /\ UNCHANGED <<blocked_task_list, dead_task_list, to_clean, freed, dropped>>
  BY <1>0, Zenon DEF Wake, Goto, globalVars
<1>2. /\ In(t, batch[c]) /\ \A x : \A d \in Cpu : In(x, batch'[d]) <=> In(x, batch[d]) /\ ~(d = c /\ x = t)
      /\ \A d \in Cpu : Inj(batch'[d])
  BY <1>0, <1>1, BatchPlaced, Zenon DEF Placed
<1>3. /\ K \in [Task -> Kind] /\ W \in [Task -> Cpu] /\ L \in [Task -> Level]
      /\ PlaceOf(K, W, L, t) /\ TaskInv(K, W, t) /\ K[t] = "batch" /\ W[t] = c
  BY <1>2, Zenon DEF Placed, PlaceOf, PlaceOn
<1>4. /\ at[t] \notin {"new", "zombie", "ks_insert", "kbd_yield"} /\ t \notin freed /\ t \notin dropped
      /\ state[t] # "RUNNING"
  BY <1>3, Zenon DEF PlaceOf, PlaceIn, TaskInv
<1>5. /\ Prio[t] \in Level
      /\ \A x : \A d \in Cpu, p \in Level :
            In(x, rq'[d].q[p]) <=> In(x, rq[d].q[p]) \/ (x = t /\ d = c /\ p = Prio[t])
      /\ ~In(t, rq[c].q[Prio[t]]) => \A d \in Cpu, p \in Level : Inj(rq[d].q[p]) => Inj(rq'[d].q[p])
  BY <1>1, EnqueuePlaced, Zenon
<1>6. PICK K2, W2, L2 : Moves(t, "rq", c, Prio[t], K, W, L, K2, W2, L2)
  <2>1. "rq" \in Kind
    BY DEF Kind
  <2>2. Moves(t, "rq", c, Prio[t], K, W, L, [K EXCEPT ![t] = "rq"], [W EXCEPT ![t] = c], [L EXCEPT ![t] = Prio[t]])
    BY <1>3, <1>5, <2>1, OneMoves, Zenon
  <2> QED
    BY <2>2
<1>7. /\ \A d \in Cpu : d # c => pc'[d] = pc[d]
      /\ pc'[c] \in {"wake", "boost"} /\ 0 \in Cpu
      /\ \A u \in Task : u # t => state'[u] = state[u]
      /\ state'[t] = "READY"
  BY <1>1, ConstantFacts, Zenon DEF TypeOK
<1>8. \A d \in Cpu, u \in Task : current'[d] = u /\ Keeps(d, u)' <=> current[d] = u /\ Keeps(d, u)
  BY <1>1, <1>4, <1>7, Zenon DEF Keeps
<1>9. OthersSame(c, {t}, K, W)
  <2>1. \A u \in Task : u # t => SameTask(u) /\ SameIn(u)
    BY <1>1, <1>7, Zenon DEF SameTask, SameIn
  <2>2. \A u \in Task, d \in Cpu : u # t => SameOn(u, d)
    BY <1>1, <1>2, <1>5, <1>8, Zenon DEF SameOn
  <2>3. \A u \in Task : at[u] = "kbd_yield" => current[0] = u /\ pc[0] = "task"
    BY Zenon DEF Placed, TaskInv
  <2> QED
    BY <1>1, <1>7, <2>1, <2>2, <2>3, Zenon DEF OthersSame
<1>10. PlaceOf(K2, W2, L2, t)'
  <2>1. PlaceIn(K2, t)'
    BY <1>1, <1>3, <1>4, <1>6, Zenon DEF PlaceOf, PlaceIn, Moves
  <2>2. ASSUME NEW d \in Cpu PROVE PlaceOn(K2, W2, L2, t, d)'
    <3>1. /\ ~(current[d] = t /\ Keeps(d, t)) /\ picked[d] # t /\ ~In(t, sleeping_list[d])
          /\ In(t, batch[d]) => d = c
          /\ \A p \in Level : ~In(t, rq[d].q[p])
      BY <1>3, Zenon DEF PlaceOf, PlaceOn
    <3>2. /\ ~(current'[d] = t /\ Keeps(d, t)') /\ picked'[d] # t /\ ~In(t, sleeping_list'[d])
          /\ ~In(t, batch'[d]) /\ \A p \in Level : In(t, rq'[d].q[p]) <=> (d = c /\ p = Prio[t])
      BY <1>1, <1>2, <1>5, <1>8, <3>1, Zenon
    <3> QED
      BY <1>6, <3>2, Zenon DEF PlaceOn, Moves
  <2> QED
    BY <2>1, <2>2, Zenon DEF PlaceOf
<1>11. StayInv(K, W, c, t) => StayInv(K2, W2, c, t)'
  BY <1>1, <1>3, <1>4, <1>6, <1>7, Zenon DEF StayInv, Moves
<1>12. MovedRight(c, {t}, K2, W2, L2)
  <2>1. NoDup'
    <3>1. ~In(t, rq[c].q[Prio[t]])
      BY <1>3, <1>5, Zenon DEF PlaceOf, PlaceOn
    <3> QED
      BY <1>1, <1>2, <1>5, <3>1, Zenon DEF Placed, NoDup
  <2>2. TaskInv(K2, W2, t)'
    BY <1>1, <1>3, <1>4, <1>6, <1>7, Zenon DEF TaskInv, Moves
  <2>3. \A d \in Cpu : d # c /\ current[d] = t => Leaving(d)
    BY <1>3, Zenon DEF Placed, CpuInv, StayInv
  <2> QED
    BY <1>10, <2>1, <2>2, <2>3, Zenon DEF MovedRight
<1>13. CpuRight(c, {t}, K2, W2)
  <2>1. ~Leaving(c) /\ CpuInv(K, W, c)
    BY <1>1, Zenon DEF Placed, Leaving
  <2> QED
    BY <1>1, <1>7, <1>11, <2>1, Zenon DEF CpuRight, CpuInv
<1>14. MainInv(K2, W2)
  BY <1>3, <1>6, ConstantFacts, Zenon DEF Placed, MainInv, Moves, Rest
<1>15. Rest({t}, K, W, L, K2, W2, L2) /\ {t} \subseteq Task
  BY <1>6, Zenon DEF Moves
<1> QED
  BY <1>9, <1>12, <1>13, <1>14, <1>15, StepPlaced, Zenon

(* A step in which CPU c gets on and no task moves. *)
Quiet(c) ==
    /\ UNCHANGED <<current, sleeping_list, batch, state, at, scpu>>
    /\ UNCHANGED <<blocked_task_list, dead_task_list, to_clean, freed, dropped>>
    /\ \A d \in Cpu, p \in Level : rq'[d].q[p] = rq[d].q[p]
    /\ \A d \in Cpu : d # c => pc'[d] = pc[d] /\ picked'[d] = picked[d]
    /\ \A u \in Task : picked'[c] = u <=> picked[c] = u
    /\ \A u \in Task : current[c] = u => (Keeps(c, u)' <=> Keeps(c, u))
    /\ \A u \in Task : c = 0 /\ current[0] = u /\ pc[0] = "task" => at[u] # "kbd_yield"
    /\ pc'[c] # "kwake"
    /\ Leaving(c)' \/ (~Leaving(c) /\ pc'[c] # "task")

LEMMA PlacedQuiet ==
    ASSUME TypeOK, Control, NEW K, NEW W, NEW L, Placed(K, W, L), NEW c \in Cpu, Quiet(c)
    PROVE  \E K2, W2, L2 : Placed(K2, W2, L2)'
<1>1. OthersSame(c, {}, K, W)
  <2>1. \A u \in Task : SameTask(u) /\ SameIn(u)
    BY Zenon DEF Quiet, SameTask, SameIn
  <2>2. \A u \in Task, d \in Cpu : current'[d] = u /\ Keeps(d, u)' <=> current[d] = u /\ Keeps(d, u)
    BY Zenon DEF Quiet, Keeps
  <2>3. \A u \in Task, d \in Cpu : SameOn(u, d)
    BY <2>2, Zenon DEF Quiet, SameOn
  <2>4. \A u \in Task : at[u] = "kbd_yield" => current'[0] = u /\ pc'[0] = "task"
    <3>1. (\A u \in Task : at[u] = "kbd_yield" => current[0] = u /\ pc[0] = "task") /\ 0 \in Cpu
      BY ConstantFacts, Zenon DEF Placed, TaskInv
    <3> QED
      BY <3>1, Zenon DEF Quiet
  <2> QED
    BY <2>1, <2>3, <2>4, Zenon DEF OthersSame, Quiet
<1>2. MovedRight(c, {}, K, W, L)
  BY Zenon DEF Quiet, MovedRight, Placed, NoDup
<1>3. CpuRight(c, {}, K, W)
  <2>1. CpuInv(K, W, c) /\ Main \in Task
    BY ConstantFacts DEF Placed
  <2> QED
    BY <2>1, Zenon DEF Quiet, CpuRight, CpuInv
<1>4. Rest({}, K, W, L, K, W, L) /\ MainInv(K, W)
  BY Zenon DEF Rest, Placed
<1> QED
  BY <1>1, <1>2, <1>3, <1>4, StepPlaced, Zenon

(* The levels of a run queue after prio_boost. *)
Lifted(p) == IF p = 0 THEN 0 ELSE p - 1

LEMMA BoostPlaced ==
    ASSUME TypeOK, NEW K, NEW W, NEW L, Placed(K, W, L), NEW c \in Cpu, rq' = [rq EXCEPT ![c] = PrioBoost(rq[c])]
    PROVE  /\ \A x \in Task : \A d \in Cpu, p \in Level : d # c => (In(x, rq'[d].q[p]) <=> In(x, rq[d].q[p]))
           /\ \A x \in Task : \A p \in Level :
                 In(x, rq'[c].q[p]) <=> K[x] = "rq" /\ W[x] = c /\ Lifted(L[x]) = p
           /\ \A d \in Cpu, p \in Level : Inj(rq'[d].q[p])
<1> DEFINE r == rq[c]
           e == PrioBoost(r)
<1>1. /\ r \in RqType /\ 0 \in Level /\ 1 \in Level /\ 2 \in Level /\ Level = {0, 1, 2} /\ rq \in [Cpu -> RqType]
      /\ r.q[0] \in Seq(Task) /\ r.q[1] \in Seq(Task)
  BY DEF TypeOK, RqType, Level, PRIO_HIGH, PRIO_LOW
<1>2. e.q = [l \in Level |-> IF l = 0 THEN r.q[0] \o r.q[1] ELSE IF l = 1 THEN r.q[2] ELSE <<>>]
  <2> HIDE DEF r
  <2> QED
    BY <1>1, RqFacts, Zenon
<1>3. /\ e.q[0] = r.q[0] \o r.q[1] /\ e.q[1] = r.q[2] /\ e.q[2] = <<>>
  <2> DEFINE g == e.q
             x == r.q[0] \o r.q[1]
             y == r.q[2]
  <2>1. g = [l \in Level |-> IF l = 0 THEN x ELSE IF l = 1 THEN y ELSE <<>>]
    BY <1>2, Zenon
  <2> HIDE DEF g, x, y
  <2>2. g[0] = x /\ g[1] = y /\ g[2] = <<>>
    BY <1>1, <2>1
  <2> QED
    BY <2>2, Zenon DEF g, x, y
<1>4. rq'[c] = e /\ \A d \in Cpu : d # c => rq'[d] = rq[d]
  <2> HIDE DEF e
  <2> QED
    BY <1>1, Zenon DEF e
<1>5. \A x \in Task, p \in Level : In(x, r.q[p]) <=> K[x] = "rq" /\ W[x] = c /\ L[x] = p
  BY Zenon DEF Placed, PlaceOf, PlaceOn
<1>6. \A d \in Cpu, p \in Level : Inj(rq[d].q[p])
  BY Zenon DEF Placed, NoDup
<1>7. Inj(r.q[0]) /\ Inj(r.q[1]) /\ Inj(r.q[2])
  BY <1>1, <1>6, Zenon
<1> HIDE DEF r, e
<1> DEFINE a == r.q[0]
           b == r.q[1]
<1>8. a \in Seq(Task) /\ b \in Seq(Task) /\ (\A x : In(x, a) => x \in Task)
  <2>1. a \in Seq(Task) /\ b \in Seq(Task)
    BY <1>1, Zenon
  <2> HIDE DEF a, b
  <2> QED
    BY <2>1 DEF In
<1>9. \A x : ~(In(x, a) /\ In(x, b))
  BY <1>1, <1>5, <1>8
<1>10. (\A x : In(x, a \o b) <=> In(x, a) \/ In(x, b)) /\ (Inj(a) /\ Inj(b) => Inj(a \o b))
  <2> HIDE DEF a, b
  <2> QED
    BY <1>8, <1>9, ConcatFacts, Zenon
<1>11. \A x \in Task : \A p \in Level : In(x, e.q[p]) <=> K[x] = "rq" /\ W[x] = c /\ Lifted(L[x]) = p
  <2>1. ASSUME NEW x \in Task
        PROVE  /\ In(x, e.q[0]) <=> K[x] = "rq" /\ W[x] = c /\ L[x] \in {0, 1}
               /\ In(x, e.q[1]) <=> K[x] = "rq" /\ W[x] = c /\ L[x] = 2
               /\ ~In(x, e.q[2])
    BY <1>1, <1>3, <1>5, <1>10, InEmpty
  <2>2. ASSUME NEW x \in Task
        PROVE  (Lifted(L[x]) = 0 <=> L[x] \in {0, 1}) /\ (Lifted(L[x]) = 1 <=> L[x] = 2) /\ Lifted(L[x]) # 2
    <3>1. L[x] \in {0, 1, 2}
      BY <1>1, Zenon DEF Placed
    <3> QED
      BY <3>1 DEF Lifted
  <2> QED
    BY <1>1, <2>1, <2>2, Zenon
<1>12. \A p \in Level : Inj(e.q[p])
  BY <1>1, <1>3, <1>7, <1>10, InEmpty, Zenon
<1> QED
  BY <1>4, <1>6, <1>11, <1>12, Zenon

LEMMA PlacedBoost ==
    ASSUME Covered, TypeOK, Control, NEW K, NEW W, NEW L, Placed(K, W, L), NEW c \in Cpu, Boost(c)
    PROVE  \E K2, W2, L2 : Placed(K2, W2, L2)'
<1>1. /\ pc[c] = "boost" /\ pc' = [pc EXCEPT ![c] = "requeue"]
      /\ UNCHANGED <<current, sleeping_list, batch, picked, state, at, scpu>>
      /\ UNCHANGED <<blocked_task_list, dead_task_list, to_clean, freed, dropped>>
  BY Zenon DEF Boost, Goto, taskVars, globalVars
<1>2. pc'[c] = "requeue" /\ \A d \in Cpu : d # c => pc'[d] = pc[d]
  BY <1>1, Zenon DEF TypeOK
<1>3. \A u \in Task, d \in Cpu : Keeps(d, u)' <=> Keeps(d, u)
  BY <1>1, <1>2, Zenon DEF Keeps
<1>4. ~Leaving(c) /\ ~Leaving(c)'
  BY <1>1, <1>2, Zenon DEF Leaving
<1>5. CASE rq' = rq
  <2>1. Quiet(c)
    BY <1>1, <1>2, <1>3, <1>4, <1>5, Zenon DEF Quiet
  <2> QED
    BY <2>1, PlacedQuiet, Zenon
<1>6. CASE rq' = [rq EXCEPT ![c] = PrioBoost(rq[c])]
  <2>1. /\ \A x \in Task : \A d \in Cpu, p \in Level : d # c => (In(x, rq'[d].q[p]) <=> In(x, rq[d].q[p]))
        /\ \A x \in Task : \A p \in Level :
              In(x, rq'[c].q[p]) <=> K[x] = "rq" /\ W[x] = c /\ Lifted(L[x]) = p
        /\ \A d \in Cpu, p \in Level : Inj(rq'[d].q[p])
    BY <1>6, BoostPlaced, Zenon
  <2>2. /\ K \in [Task -> Kind] /\ W \in [Task -> Cpu] /\ L \in [Task -> Level]
    BY Zenon DEF Placed
  <2>3. PICK T : T = {x \in Task : K[x] = "rq" /\ W[x] = c}
    BY Zenon
  <2>4. PICK L2 : L2 = [x \in Task |-> IF K[x] = "rq" /\ W[x] = c THEN Lifted(L[x]) ELSE L[x]]
    BY Zenon
  <2>5. /\ T \subseteq Task /\ \A x \in Task : x \in T <=> K[x] = "rq" /\ W[x] = c
        /\ L2 \in [Task -> Level] /\ \A x \in Task : L2[x] = IF x \in T THEN Lifted(L[x]) ELSE L[x]
    <3>1. \A p \in Level : Lifted(p) \in Level
      BY DEF Lifted, Level, PRIO_HIGH, PRIO_LOW
    <3> QED
      BY <2>2, <2>3, <2>4, <3>1
  <2>6. Rest(T, K, W, L, K, W, L2) /\ MainInv(K, W)
    BY <2>2, <2>5, Zenon DEF Rest, Placed
  <2>7. OthersSame(c, T, K, W)
    <3>1. \A u \in Task : u \notin T => SameTask(u) /\ SameIn(u)
      BY <1>1, Zenon DEF SameTask, SameIn
    <3>2. ASSUME NEW u \in Task, u \notin T, NEW d \in Cpu PROVE SameOn(u, d)
      <4>1. \A p \in Level : In(u, rq'[d].q[p]) <=> In(u, rq[d].q[p])
        <5>1. \A p \in Level : In(u, rq[c].q[p]) => K[u] = "rq" /\ W[u] = c
          BY Zenon DEF Placed, PlaceOf, PlaceOn
        <5> QED
          BY <2>1, <2>5, <3>2, <5>1, Zenon
      <4> QED
        BY <1>1, <1>3, <4>1, Zenon DEF SameOn
    <3>3. \A u \in Task : at[u] = "kbd_yield" => current[0] = u /\ pc[0] = "task"
      BY Zenon DEF Placed, TaskInv
    <3> QED
      BY <1>1, <1>2, <3>1, <3>2, <3>3, ConstantFacts, Zenon DEF OthersSame
  <2>8. ASSUME NEW t \in T PROVE PlaceOf(K, W, L2, t)' /\ TaskInv(K, W, t)' /\ t \in Task
    <3>1. t \in Task /\ K[t] = "rq" /\ W[t] = c /\ L2[t] = Lifted(L[t]) /\ PlaceOf(K, W, L, t) /\ TaskInv(K, W, t)
      BY <2>5, Zenon DEF Placed
    <3>2. PlaceIn(K, t)'
      BY <1>1, <3>1, Zenon DEF PlaceOf, PlaceIn
    <3>3. ASSUME NEW d \in Cpu PROVE PlaceOn(K, W, L2, t, d)'
      <4>1. PlaceOn(K, W, L, t, d)
        BY <3>1, Zenon DEF PlaceOf
      <4>2. \A p \in Level : In(t, rq'[d].q[p]) <=> d = c /\ L2[t] = p
        BY <2>1, <3>1, <4>1 DEF PlaceOn
      <4> QED
        BY <1>1, <1>3, <3>1, <4>1, <4>2, Zenon DEF PlaceOn
    <3>4. TaskInv(K, W, t)'
      BY <1>1, <1>2, <3>1, Zenon DEF TaskInv
    <3> QED
      BY <3>1, <3>2, <3>3, <3>4, Zenon DEF PlaceOf
  <2>9. ASSUME NEW t \in T, NEW d \in Cpu, current[d] = t, ~Leaving(d) PROVE d = c /\ StayInv(K, W, c, t)'
    <3>1. StayInv(K, W, d, t) /\ K[t] = "rq" /\ W[t] = c
      BY <2>5, <2>9, Zenon DEF Placed, CpuInv
    <3> QED
      BY <1>1, <1>2, <3>1, Zenon DEF StayInv
  <2>10. MovedRight(c, T, K, W, L2)
    <3>1. NoDup'
      BY <1>1, <2>1, Zenon DEF Placed, NoDup
    <3> QED
      BY <2>8, <2>9, <3>1, Zenon DEF MovedRight
  <2>11. CpuRight(c, T, K, W)
    <3>1. CpuInv(K, W, c)
      BY Zenon DEF Placed
    <3> QED
      BY <1>1, <1>2, <1>4, <2>9, <3>1, Zenon DEF CpuRight, CpuInv
  <2> QED
    BY <2>5, <2>6, <2>7, <2>10, <2>11, StepPlaced, Zenon
<1> QED
  BY <1>5, <1>6, Zenon DEF Boost

LEMMA PlacedRequeue ==
    ASSUME Covered, TypeOK, Control, NEW K, NEW W, NEW L, Placed(K, W, L), NEW c \in Cpu, Requeue(c)
    PROVE  \E K2, W2, L2 : Placed(K2, W2, L2)'
<1>1. /\ pc[c] = "requeue" /\ pc' = [pc EXCEPT ![c] = IF current[c] \in Migratable THEN "affinity" ELSE "pick"]
      /\ dropped' = Dropping(c)
      /\ UNCHANGED <<current, sleeping_list, batch, picked, at, scpu>>
      /\ UNCHANGED <<blocked_task_list, dead_task_list, to_clean, freed>>
  BY Zenon DEF Requeue, Goto
<1>2. /\ pc'[c] \in {"affinity", "pick"} /\ \A d \in Cpu : d # c => pc'[d] = pc[d]
      /\ 0 \in Cpu /\ Main \in Task /\ Idle \notin Task
  BY <1>1, ConstantFacts, Zenon DEF TypeOK
<1>3. ~Leaving(c) /\ Leaving(c)'
  BY <1>1, <1>2, Zenon DEF Leaving
<1>4. \A u \in Task : ~Keeps(c, u)'
  BY <1>2, Zenon DEF Keeps
<1>5. /\ K \in [Task -> Kind] /\ W \in [Task -> Cpu] /\ L \in [Task -> Level]
      /\ \A u \in Task : at[u] = "kbd_yield" => current[0] = u /\ pc[0] = "task"
  BY Zenon DEF Placed, TaskInv
<1>6. ASSUME NEW t \in Task, current[c] = t, state[t] = "RUNNING" PROVE \E K2, W2, L2 : Placed(K2, W2, L2)'
  <2>1. EnqueueOn(c, t) /\ state' = [state EXCEPT ![t] = "READY"]
    BY <1>2, <1>6, Zenon DEF Requeue
  <2>2. PlaceOf(K, W, L, t) /\ TaskInv(K, W, t) /\ K[t] = "cpu" /\ W[t] = c
    <3>1. Keeps(c, t)
      BY <1>1, <1>6 DEF Keeps
    <3> QED
      BY <1>6, <3>1 DEF Placed, PlaceOf, PlaceOn
  <2>3. /\ at[t] \notin {"new", "zombie", "ks_insert", "kbd_yield"} /\ t \notin freed /\ t \notin dropped
    BY <1>6, <2>2, Zenon DEF PlaceOf, PlaceIn, TaskInv
  <2>4. dropped' = dropped
    BY <1>1, <1>6, <2>3, Zenon DEF Dropping
  <2>5. /\ Prio[t] \in Level
        /\ \A x : \A d \in Cpu, p \in Level :
              In(x, rq'[d].q[p]) <=> In(x, rq[d].q[p]) \/ (x = t /\ d = c /\ p = Prio[t])
        /\ ~In(t, rq[c].q[Prio[t]]) => \A d \in Cpu, p \in Level : Inj(rq[d].q[p]) => Inj(rq'[d].q[p])
    BY <2>1, EnqueuePlaced, Zenon
  <2>6. PICK K2, W2, L2 : Moves(t, "rq", c, Prio[t], K, W, L, K2, W2, L2)
    <3>1. "rq" \in Kind
      BY DEF Kind
    <3>2. Moves(t, "rq", c, Prio[t], K, W, L, [K EXCEPT ![t] = "rq"], [W EXCEPT ![t] = c], [L EXCEPT ![t] = Prio[t]])
      BY <1>5, <2>5, <3>1, OneMoves, Zenon
    <3> QED
      BY <3>2
  <2>7. (\A u \in Task : u # t => state'[u] = state[u]) /\ state'[t] = "READY"
    BY <2>1, Zenon DEF TypeOK
  <2>8. \A d \in Cpu : current[d] = t => d = c \/ ~Keeps(d, t)
    BY <2>2, Zenon DEF PlaceOf, PlaceOn
  <2>9. \A d \in Cpu, u \in Task : u # t => (current'[d] = u /\ Keeps(d, u)' <=> current[d] = u /\ Keeps(d, u))
    BY <1>1, <1>2, <1>6, <2>7, Zenon DEF Keeps
  <2>10. OthersSame(c, {t}, K, W)
    <3>1. \A u \in Task : u # t => SameTask(u) /\ SameIn(u)
      BY <1>1, <2>4, <2>7, Zenon DEF SameTask, SameIn
    <3>2. \A u \in Task, d \in Cpu : u # t => SameOn(u, d)
      BY <1>1, <2>5, <2>9, Zenon DEF SameOn
    <3> QED
      BY <1>1, <1>2, <1>5, <3>1, <3>2, Zenon DEF OthersSame
  <2>11. PlaceOf(K2, W2, L2, t)'
    <3>1. PlaceIn(K2, t)'
      BY <1>1, <2>2, <2>3, <2>4, <2>6, Zenon DEF PlaceOf, PlaceIn, Moves
    <3>2. ASSUME NEW d \in Cpu PROVE PlaceOn(K2, W2, L2, t, d)'
      <4>1. /\ picked[d] # t /\ ~In(t, sleeping_list[d]) /\ ~In(t, batch[d])
            /\ \A p \in Level : ~In(t, rq[d].q[p])
        BY <2>2, Zenon DEF PlaceOf, PlaceOn
      <4>2. ~(current'[d] = t /\ Keeps(d, t)')
        BY <1>1, <1>2, <1>4, <2>3, <2>7, <2>8, Zenon DEF Keeps
      <4>3. /\ picked'[d] # t /\ ~In(t, sleeping_list'[d])
            /\ ~In(t, batch'[d]) /\ \A p \in Level : In(t, rq'[d].q[p]) <=> (d = c /\ p = Prio[t])
        BY <1>1, <2>5, <4>1, Zenon
      <4> QED
        BY <2>6, <4>2, <4>3, Zenon DEF PlaceOn, Moves
    <3> QED
      BY <3>1, <3>2 DEF PlaceOf
  <2>12. MovedRight(c, {t}, K2, W2, L2)
    <3>1. NoDup'
      <4>1. ~In(t, rq[c].q[Prio[t]])
        BY <2>2, <2>5, Zenon DEF PlaceOf, PlaceOn
      <4> QED
        BY <1>1, <2>5, <4>1, Zenon DEF Placed, NoDup
    <3>2. TaskInv(K2, W2, t)'
      BY <1>1, <2>2, <2>3, <2>4, <2>6, <2>7, Zenon DEF TaskInv, Moves
    <3>3. \A d \in Cpu : d # c /\ current[d] = t => Leaving(d)
      BY <1>3, <1>6, Zenon DEF Placed, Apart
    <3> QED
      BY <2>11, <3>1, <3>2, <3>3 DEF MovedRight
  <2>13. CpuRight(c, {t}, K2, W2)
    BY <1>1, <1>3, Zenon DEF CpuRight, Placed, CpuInv
  <2>14. MainInv(K2, W2)
    BY <1>2, <2>2, <2>6, Zenon DEF Placed, MainInv, Moves, Rest
  <2>15. Rest({t}, K, W, L, K2, W2, L2) /\ {t} \subseteq Task
    BY <2>6, Zenon DEF Moves
  <2> QED
    BY <2>10, <2>12, <2>13, <2>14, <2>15, StepPlaced
<1>7. ASSUME NEW t \in Task, current[c] = t, at[t] = "ks_insert" PROVE \E K2, W2, L2 : Placed(K2, W2, L2)'
  <2>1. PlaceOf(K, W, L, t) /\ TaskInv(K, W, t) /\ K[t] = "cpu" /\ W[t] = c /\ state[t] = "SLEEPING"
    <3>1. Keeps(c, t)
      BY <1>1, <1>7, Zenon DEF Keeps
    <3> QED
      BY <1>7, <3>1, Zenon DEF Placed, PlaceOf, PlaceOn, TaskInv
  <2>2. rq' = rq /\ state' = state /\ dropped' = dropped \cup {t}
    BY <1>1, <1>2, <1>7, <2>1, Zenon DEF Requeue, Dropping
  <2>3. PICK K2, W2, L2 : Moves(t, "none", c, L[t], K, W, L, K2, W2, L2)
    <3>1. "none" \in Kind /\ L[t] \in Level
      BY <1>5, Zenon DEF Kind
    <3>2. Moves(t, "none", c, L[t], K, W, L, [K EXCEPT ![t] = "none"], [W EXCEPT ![t] = c], [L EXCEPT ![t] = L[t]])
      BY <1>5, <3>1, OneMoves, Zenon
    <3> QED
      BY <3>2, Zenon
  <2>4. \A d \in Cpu : current[d] = t => d = c \/ ~Keeps(d, t)
    BY <2>1, Zenon DEF PlaceOf, PlaceOn
  <2>5. \A d \in Cpu, u \in Task : u # t => (current'[d] = u /\ Keeps(d, u)' <=> current[d] = u /\ Keeps(d, u))
    BY <1>1, <1>2, <1>7, <2>2, Zenon DEF Keeps
  <2>6. OthersSame(c, {t}, K, W)
    <3>1. \A u \in Task : u # t => SameTask(u) /\ SameIn(u)
      BY <1>1, <2>2, Zenon DEF SameTask, SameIn
    <3>2. \A u \in Task, d \in Cpu : u # t => SameOn(u, d)
      BY <1>1, <2>2, <2>5, Zenon DEF SameOn
    <3> QED
      BY <1>1, <1>2, <1>5, <3>1, <3>2, Zenon DEF OthersSame
  <2>7. PlaceOf(K2, W2, L2, t)'
    <3>1. PlaceIn(K2, t)'
      BY <1>1, <2>1, <2>2, <2>3, Zenon DEF PlaceOf, PlaceIn, Moves
    <3>2. ASSUME NEW d \in Cpu PROVE PlaceOn(K2, W2, L2, t, d)'
      <4>1. /\ picked[d] # t /\ ~In(t, sleeping_list[d]) /\ ~In(t, batch[d])
            /\ \A p \in Level : ~In(t, rq[d].q[p])
        BY <2>1, Zenon DEF PlaceOf, PlaceOn
      <4>2. ~(current'[d] = t /\ Keeps(d, t)')
        BY <1>1, <1>2, <1>4, <2>2, <2>4, Zenon DEF Keeps
      <4> QED
        BY <1>1, <2>2, <2>3, <4>1, <4>2, Zenon DEF PlaceOn, Moves
    <3> QED
      BY <3>1, <3>2 DEF PlaceOf
  <2>8. MovedRight(c, {t}, K2, W2, L2)
    <3>1. NoDup'
      BY <1>1, <2>2, Zenon DEF Placed, NoDup
    <3>2. TaskInv(K2, W2, t)'
      BY <1>1, <1>7, <2>1, <2>2, <2>3, Zenon DEF TaskInv, Moves
    <3>3. \A d \in Cpu : d # c /\ current[d] = t => Leaving(d)
      BY <1>3, <1>7, Zenon DEF Placed, Apart
    <3> QED
      BY <2>7, <3>1, <3>2, <3>3 DEF MovedRight
  <2>9. CpuRight(c, {t}, K2, W2)
    BY <1>1, <1>3, Zenon DEF CpuRight, Placed, CpuInv
  <2>10. MainInv(K2, W2)
    BY <1>2, <2>1, <2>3, Zenon DEF Placed, MainInv, Moves, Rest
  <2>11. Rest({t}, K, W, L, K2, W2, L2) /\ {t} \subseteq Task
    BY <2>3, Zenon DEF Moves
  <2> QED
    BY <2>6, <2>8, <2>9, <2>10, <2>11, StepPlaced
<1>8. CASE ~(current[c] # Idle /\ (state[current[c]] = "RUNNING" \/ at[current[c]] = "ks_insert"))
  <2>1. rq' = rq /\ state' = state /\ dropped' = dropped
    BY <1>1, <1>8, Zenon DEF Requeue, Dropping
  <2>2. \A u \in Task : current[c] = u => ~Keeps(c, u)
    BY <1>2, <1>8, Zenon DEF Keeps
  <2>3. Quiet(c)
    BY <1>1, <1>2, <1>3, <1>4, <2>1, <2>2, Zenon DEF Quiet
  <2> QED
    BY <2>3, PlacedQuiet
<1>9. current[c] \in Task \cup {Idle}
  BY DEF TypeOK
<1> QED
  BY <1>6, <1>7, <1>8, <1>9, Zenon

LEMMA PlacedAffinity ==
    ASSUME TypeOK, Control, NEW K, NEW W, NEW L, Placed(K, W, L), NEW c \in Cpu, Affinity(c)
    PROVE  \E K2, W2, L2 : Placed(K2, W2, L2)'
<1>1. /\ pc[c] = "affinity" /\ pc' = [pc EXCEPT ![c] = "pick"]
      /\ UNCHANGED <<rq, current, sleeping_list, batch, picked, state, at, scpu>>
      /\ UNCHANGED <<blocked_task_list, dead_task_list, to_clean, freed, dropped>>
  BY Zenon DEF Affinity, Goto, globalVars
<1>2. pc'[c] = "pick" /\ \A d \in Cpu : d # c => pc'[d] = pc[d]
  BY <1>1, Zenon DEF TypeOK
<1>3. Quiet(c)
  BY <1>1, <1>2, Zenon DEF Quiet, Keeps, Leaving
<1> QED
  BY <1>3, PlacedQuiet, Zenon

(* CPU c takes task u off the run queue of CPU v, to switch to it. *)
Takes(c, v, u) ==
    /\ pc[c] \in {"pick", "steal"} /\ pc' = [pc EXCEPT ![c] = "switch"]
    /\ picked' = [picked EXCEPT ![c] = u]
    /\ UNCHANGED <<current, sleeping_list, batch, state, at, scpu>>
    /\ UNCHANGED <<blocked_task_list, dead_task_list, to_clean, freed, dropped>>

TakenFrom(v, p, u, m) ==
    /\ In(u, rq[v].q[p]) /\ Inj(m) /\ \A x : In(x, m) <=> In(x, rq[v].q[p]) /\ x # u
    /\ \A d \in Cpu, l \in Level : rq'[d].q[l] = IF d = v /\ l = p THEN m ELSE rq[d].q[l]

LEMMA PlacedTake ==
    ASSUME Covered, TypeOK, Control, NEW K, NEW W, NEW L, Placed(K, W, L), NEW c \in Cpu, NEW v \in Cpu,
           NEW u \in Task, NEW q \in Level, NEW m, Takes(c, v, u), TakenFrom(v, q, u, m), v = c \/ u \in Migratable
    PROVE  \E K2, W2, L2 : Placed(K2, W2, L2)'
<1>1. /\ pc[c] \in {"pick", "steal"} /\ pc' = [pc EXCEPT ![c] = "switch"]
      /\ picked' = [picked EXCEPT ![c] = u]
      /\ UNCHANGED <<current, sleeping_list, batch, state, at, scpu>>
      /\ UNCHANGED <<blocked_task_list, dead_task_list, to_clean, freed, dropped>>
  BY Zenon DEF Takes
<1>2. /\ K \in [Task -> Kind] /\ W \in [Task -> Cpu] /\ L \in [Task -> Level]
      /\ PlaceOf(K, W, L, u) /\ TaskInv(K, W, u) /\ K[u] = "rq" /\ W[u] = v /\ L[u] = q
      /\ \A x \in Task : at[x] = "kbd_yield" => current[0] = x /\ pc[0] = "task"
  BY DEF Placed, PlaceOf, PlaceOn, TaskInv, TakenFrom
<1>3. /\ \A x \in Task : \A d \in Cpu, p \in Level : In(x, rq'[d].q[p]) <=> In(x, rq[d].q[p]) /\ x # u
      /\ \A d \in Cpu, p \in Level : Inj(rq'[d].q[p])
  <2>1. \A d \in Cpu, p \in Level : In(u, rq[d].q[p]) => d = v /\ p = q
    BY <1>2, Zenon DEF PlaceOf, PlaceOn
  <2> QED
    BY <2>1, Zenon DEF TakenFrom, Placed, NoDup
<1>4. /\ at[u] \notin {"new", "zombie", "ks_insert", "kbd_yield"} /\ u \notin freed /\ u \notin dropped
      /\ state[u] = "READY"
  BY <1>2, Zenon DEF PlaceOf, PlaceIn, TaskInv
<1>5. PICK K2, W2, L2 : Moves(u, "next", c, L[u], K, W, L, K2, W2, L2)
  <2>1. "next" \in Kind /\ L[u] \in Level
    BY <1>2, Zenon DEF Kind
  <2>2. Moves(u, "next", c, L[u], K, W, L, [K EXCEPT ![u] = "next"], [W EXCEPT ![u] = c], [L EXCEPT ![u] = L[u]])
    BY <1>2, <2>1, OneMoves, Zenon
  <2> QED
    BY <2>2, Zenon
<1>6. /\ pc'[c] = "switch" /\ \A d \in Cpu : d # c => pc'[d] = pc[d] /\ picked'[d] = picked[d]
      /\ 0 \in Cpu /\ Main \in Task /\ Main \notin Migratable /\ picked[c] = None /\ picked'[c] = u
      /\ Idle \notin Task /\ None \notin Task
  BY <1>1, ConstantFacts, Zenon DEF TypeOK, Control, CpuControl, TaskControl
<1>7. Leaving(c) /\ Leaving(c)'
  BY <1>1, <1>6 DEF Leaving
<1>8. \A d \in Cpu, x \in Task : current'[d] = x /\ Keeps(d, x)' <=> current[d] = x /\ Keeps(d, x)
  BY <1>1, <1>6, Zenon DEF Keeps
<1>9. OthersSame(c, {u}, K, W)
  <2>1. \A x \in Task : x # u => SameTask(x) /\ SameIn(x)
    BY <1>1, Zenon DEF SameTask, SameIn
  <2>2. \A x \in Task, d \in Cpu : x # u => SameOn(x, d)
    BY <1>1, <1>3, <1>6, <1>8, Zenon DEF SameOn
  <2> QED
    BY <1>1, <1>2, <1>6, <2>1, <2>2, Zenon DEF OthersSame
<1>10. PlaceOf(K2, W2, L2, u)'
  <2>1. PlaceIn(K2, u)'
    BY <1>1, <1>2, <1>4, <1>5, Zenon DEF PlaceOf, PlaceIn, Moves
  <2>2. ASSUME NEW d \in Cpu PROVE PlaceOn(K2, W2, L2, u, d)'
    <3>1. /\ ~(current[d] = u /\ Keeps(d, u)) /\ picked[d] # u /\ ~In(u, sleeping_list[d])
          /\ ~In(u, batch[d])
      BY <1>2, Zenon DEF PlaceOf, PlaceOn
    <3>2. /\ ~(current'[d] = u /\ Keeps(d, u)') /\ (picked'[d] = u <=> d = c) /\ ~In(u, sleeping_list'[d])
          /\ ~In(u, batch'[d]) /\ \A p \in Level : ~In(u, rq'[d].q[p])
      BY <1>1, <1>3, <1>6, <1>8, <3>1, Zenon
    <3> QED
      BY <1>5, <3>2, Zenon DEF PlaceOn, Moves
  <2> QED
    BY <2>1, <2>2, Zenon DEF PlaceOf
<1>11. \A d \in Cpu : d # c /\ current[d] = u => Leaving(d)
  <2>1. SUFFICES ASSUME NEW d \in Cpu, d # c, current[d] = u, ~Leaving(d) PROVE FALSE
    BY Zenon
  <2>2. W[u] = d /\ (NCpu = 1 \/ u = Main)
    BY <1>2, <2>1 DEF Placed, CpuInv, StayInv
  <2>3. u = Main
    BY <2>1, <2>2 DEF Cpu
  <2> QED
    BY <1>2, <1>6, <2>1, <2>2, <2>3, Zenon
<1>12. MovedRight(c, {u}, K2, W2, L2)
  <2>1. NoDup'
    BY <1>1, <1>3, Zenon DEF Placed, NoDup
  <2>2. TaskInv(K2, W2, u)'
    BY <1>1, <1>2, <1>4, <1>5, Zenon DEF TaskInv, Moves
  <2> QED
    BY <1>10, <1>11, <2>1, <2>2, Zenon DEF MovedRight
<1>13. u = Main => c = 0
  BY <1>2, <1>6, Zenon DEF Placed, MainInv
<1>14. CpuRight(c, {u}, K2, W2)
  BY <1>1, <1>6, <1>7, <1>13, Zenon DEF CpuRight, Placed, CpuInv
<1>15. MainInv(K2, W2)
  BY <1>5, <1>6, <1>13, Zenon DEF Placed, MainInv, Moves, Rest
<1>16. Rest({u}, K, W, L, K2, W2, L2) /\ {u} \subseteq Task
  BY <1>5, Zenon DEF Moves
<1> QED
  BY <1>9, <1>12, <1>14, <1>15, <1>16, StepPlaced, Zenon

(* The steal loop goes on or ends with the idle task. *)
LEMMA PlacedTryNext ==
    ASSUME TypeOK, Control, NEW K, NEW W, NEW L, Placed(K, W, L), NEW c \in Cpu, NEW i \in Nat,
           pc[c] \in {"pick", "steal"}, TryNext(c, Others(c, i)),
           \A d \in Cpu, p \in Level : rq'[d].q[p] = rq[d].q[p],
           UNCHANGED <<current, sleeping_list, batch, state, at, scpu>>,
           UNCHANGED <<blocked_task_list, dead_task_list, to_clean, freed, dropped>>
    PROVE  \E K2, W2, L2 : Placed(K2, W2, L2)'
<1>1. /\ \A d \in Cpu : d # c => pc'[d] = pc[d] /\ picked'[d] = picked[d]
      /\ pc'[c] \in {"steal", "switch"} /\ picked[c] = None /\ picked'[c] \in {Idle, None}
  <2>1. pc \in [Cpu -> Pc] /\ picked \in [Cpu -> Task \cup {Idle, None}] /\ picked[c] = None
    BY Zenon DEF TypeOK, Control, CpuControl, TaskControl
  <2>2. CASE picked' = [picked EXCEPT ![c] = Idle] /\ pc' = [pc EXCEPT ![c] = "switch"]
    BY <2>1, <2>2, Zenon
  <2>3. CASE picked' = picked /\ pc' = [pc EXCEPT ![c] = "steal"]
    BY <2>1, <2>3, Zenon
  <2> QED
    BY <2>2, <2>3, TryNextFacts, Zenon
<1>2. Idle \notin Task /\ None \notin Task
  BY ConstantFacts, Zenon
<1>3. Quiet(c)
  BY <1>1, <1>2, Zenon DEF Quiet, Keeps, Leaving
<1> QED
  BY <1>3, PlacedQuiet, Zenon

LEMMA PlacedPick ==
    ASSUME Covered, TypeOK, Control, NEW K, NEW W, NEW L, Placed(K, W, L), NEW c \in Cpu, Pick(c)
    PROVE  \E K2, W2, L2 : Placed(K2, W2, L2)'
<1>1. /\ pc[c] = "pick"
      /\ UNCHANGED <<current, sleeping_list, batch, state, at, scpu>>
      /\ UNCHANGED <<blocked_task_list, dead_task_list, to_clean, freed, dropped>>
  BY DEF Pick, taskVars, globalVars
<1>2. rq[c] \in RqType /\ rq \in [Cpu -> RqType] /\ 0 \in Level /\ 0 \in Nat
  BY DEF TypeOK, Level, PRIO_HIGH, PRIO_LOW
<1>3. CASE \E p \in Served(rq[c]) : /\ picked' = [picked EXCEPT ![c] = Head(rq[c].q[p])]
                                    /\ rq' = [rq EXCEPT ![c] = Dequeue(@, p)]
                                    /\ Goto(c, "switch") /\ UNCHANGED victim
  <2>1. PICK p \in Level : /\ rq[c].q[p] # <<>>
                           /\ picked' = [picked EXCEPT ![c] = Head(rq[c].q[p])]
                           /\ rq' = [rq EXCEPT ![c] = Dequeue(rq[c], p)]
                           /\ pc' = [pc EXCEPT ![c] = "switch"]
    BY <1>3, Zenon DEF Goto, Served, Serves
  <2> DEFINE l == rq[c].q[p]
             m == Tail(l)
             u == Head(l)
             n == Dequeue(rq[c], p)
  <2>2. l \in Seq(Task) /\ l # <<>> /\ Inj(l)
    BY <1>2, <2>1 DEF RqType, Placed, NoDup
  <2>3. u \in Task /\ In(u, l) /\ Inj(m) /\ \A x : In(x, m) <=> In(x, l) /\ x # u
    <3> HIDE DEF l
    <3> QED
      BY <2>2, TailFacts
  <2>4. n.q = [rq[c].q EXCEPT ![p] = m] /\ rq[c].q \in [Level -> Seq(Task)]
    BY <1>2, <2>1, RqFacts, Zenon DEF RqType
  <2>5. rq' = [rq EXCEPT ![c] = n] /\ picked' = [picked EXCEPT ![c] = u]
    BY <2>1
  <2>6. \A d \in Cpu, k \in Level : rq'[d].q[k] = IF d = c /\ k = p THEN m ELSE rq[d].q[k]
    <3> HIDE DEF n, m
    <3> QED
      BY <1>2, <2>4, <2>5
  <2>7. Takes(c, c, u)
    BY <1>1, <2>1, <2>5 DEF Takes
  <2>8. TakenFrom(c, p, u, m)
    <3> HIDE DEF m, u
    <3> QED
      BY <2>3, <2>6, Zenon DEF TakenFrom
  <2> HIDE DEF m, u
  <2> QED
    BY <2>3, <2>7, <2>8, PlacedTake, Zenon
<1>4. CASE rq' = [rq EXCEPT ![c] = DequeueNone(@)] /\ TryNext(c, Others(c, 0))
  <2>1. DequeueNone(rq[c]).q = rq[c].q
    BY <1>2, RqFacts, Zenon
  <2>2. \A d \in Cpu, p \in Level : rq'[d].q[p] = rq[d].q[p]
    BY <1>2, <1>4, <2>1
  <2> QED
    BY <1>1, <1>2, <1>4, <2>2, PlacedTryNext, Zenon
<1> QED
  BY <1>3, <1>4, Zenon DEF Pick

LEMMA StealFacts ==
    ASSUME NEW r \in RqType, NEW p \in Level, NEW i
    PROVE  Steal(r, p, i).q = [r.q EXCEPT ![p] = RemoveAt(r.q[p], i)]
<1>1. Steal(r, p, i) = [r EXCEPT !.q = [r.q EXCEPT ![p] = RemoveAt(r.q[p], i)]]
  BY DEF Steal
<1>2. \A g : [r EXCEPT !.q = g].q = g
  BY Zenon DEF RqType
<1> QED
  BY <1>1, <1>2, Zenon

LEMMA PlacedSteal ==
    ASSUME Covered, TypeOK, Control, NEW K, NEW W, NEW L, Placed(K, W, L), NEW c \in Cpu, StealFrom(c)
    PROVE  \E K2, W2, L2 : Placed(K2, W2, L2)'
<1> DEFINE v == victim[c]
<1>1. /\ pc[c] = "steal"
      /\ UNCHANGED <<current, sleeping_list, batch, state, at, scpu>>
      /\ UNCHANGED <<blocked_task_list, dead_task_list, to_clean, freed, dropped>>
  BY Zenon DEF StealFrom, taskVars, globalVars
<1>2. v \in Cpu /\ rq[v] \in RqType /\ rq \in [Cpu -> RqType] /\ v + 1 \in Nat
  <2>1. v \in Cpu /\ rq \in [Cpu -> RqType]
    BY Zenon DEF TypeOK
  <2> HIDE DEF v
  <2> QED
    BY <2>1, ConstantFacts
<1>3. CASE \E p \in StealLevel(rq[v], Migratable) : \E i \in FirstIn(rq[v].q[p], Migratable) :
             /\ picked' = [picked EXCEPT ![c] = rq[v].q[p][i]]
             /\ rq' = [rq EXCEPT ![v] = Steal(@, p, i)]
             /\ victim' = [victim EXCEPT ![c] = 0] /\ Goto(c, "switch")
  <2>0. PICK p \in Level : \E i \in DOMAIN rq[v].q[p] :
             /\ rq[v].q[p][i] \in Migratable
             /\ picked' = [picked EXCEPT ![c] = rq[v].q[p][i]]
             /\ rq' = [rq EXCEPT ![v] = Steal(rq[v], p, i)]
             /\ pc' = [pc EXCEPT ![c] = "switch"]
    BY <1>3, Zenon DEF StealLevel, FirstIn, Goto
  <2>1. PICK i \in DOMAIN rq[v].q[p] :
             /\ rq[v].q[p][i] \in Migratable
             /\ picked' = [picked EXCEPT ![c] = rq[v].q[p][i]]
             /\ rq' = [rq EXCEPT ![v] = Steal(rq[v], p, i)]
             /\ pc' = [pc EXCEPT ![c] = "switch"]
    BY <2>0, Zenon
  <2> HIDE DEF v
  <2> DEFINE l == rq[v].q[p]
             m == RemoveAt(l, i)
             u == l[i]
             n == Steal(rq[v], p, i)
  <2>2. l \in Seq(Task) /\ i \in 1 .. Len(l) /\ Inj(l)
    <3>1. l \in Seq(Task) /\ Inj(l) /\ i \in DOMAIN l
      BY <1>2 DEF RqType, Placed, NoDup
    <3> HIDE DEF l
    <3> QED
      BY <3>1
  <2>3. u \in Task /\ In(u, l) /\ Inj(m) /\ \A x : In(x, m) <=> In(x, l) /\ x # u
    <3> HIDE DEF l
    <3>1. u \in Task /\ In(u, l)
      BY <2>2 DEF In
    <3> QED
      BY <2>2, <3>1, RemoveFacts, Zenon
  <2>4. n.q = [rq[v].q EXCEPT ![p] = m] /\ rq[v].q \in [Level -> Seq(Task)]
    <3>1. i \in 1 .. Len(rq[v].q[p])
      BY <2>2, Zenon
    <3> DEFINE r == rq[v]
    <3> HIDE DEF r
    <3>2. r \in RqType /\ i \in 1 .. Len(r.q[p])
      BY <1>2, <3>1, Zenon DEF r
    <3>3. Steal(r, p, i).q = [r.q EXCEPT ![p] = RemoveAt(r.q[p], i)]
      BY <3>2, StealFacts
    <3>4. r.q \in [Level -> Seq(Task)]
      BY <3>2, Zenon DEF RqType
    <3> QED
      BY <3>3, <3>4, Zenon DEF r
  <2>5. rq' = [rq EXCEPT ![v] = n] /\ picked' = [picked EXCEPT ![c] = u] /\ u \in Migratable
    BY <2>1, Zenon
  <2>6. \A d \in Cpu, k \in Level : rq'[d].q[k] = IF d = v /\ k = p THEN m ELSE rq[d].q[k]
    <3> HIDE DEF n, m
    <3> QED
      BY <1>2, <2>4, <2>5, Zenon
  <2>7. Takes(c, v, u)
    BY <1>1, <2>1, <2>5, Zenon DEF Takes
  <2>8. TakenFrom(v, p, u, m)
    <3> HIDE DEF m, u
    <3> QED
      BY <2>3, <2>6, Zenon DEF TakenFrom
  <2> HIDE DEF m, u
  <2> QED
    BY <1>2, <2>3, <2>5, <2>7, <2>8, PlacedTake, Zenon
<1>4. CASE rq' = rq /\ TryNext(c, Others(c, v + 1))
  <2>1. \A d \in Cpu, p \in Level : rq'[d].q[p] = rq[d].q[p]
    BY <1>4, Zenon
  <2> QED
    BY <1>1, <1>2, <1>4, <2>1, PlacedTryNext, Zenon
<1> QED
  BY <1>3, <1>4, Zenon DEF StealFrom

LEMMA PlacedSwitch ==
    ASSUME Covered, TypeOK, Control, NEW K, NEW W, NEW L, Placed(K, W, L), NEW c \in Cpu, Switch(c)
    PROVE  \E K2, W2, L2 : Placed(K2, W2, L2)'
<1>1. /\ pc[c] = "switch" /\ pc' = [pc EXCEPT ![c] = "task"]
      /\ current' = [current EXCEPT ![c] = picked[c]] /\ picked' = [picked EXCEPT ![c] = None]
      /\ UNCHANGED <<rq, sleeping_list, batch, at, scpu>>
      /\ UNCHANGED <<blocked_task_list, dead_task_list, to_clean, freed, dropped>>
  BY Zenon DEF Switch, Goto, globalVars
<1>2. /\ pc'[c] = "task" /\ current'[c] = picked[c] /\ picked'[c] = None
      /\ \A d \in Cpu : d # c => pc'[d] = pc[d] /\ picked'[d] = picked[d] /\ current'[d] = current[d]
      /\ 0 \in Cpu /\ Main \in Task /\ Idle \notin Task /\ None \notin Task /\ Main # None
      /\ picked[c] \in Task \cup {Idle}
  BY <1>1, ConstantFacts DEF TypeOK, Control, CpuControl, TaskControl
<1>3. /\ K \in [Task -> Kind] /\ W \in [Task -> Cpu] /\ L \in [Task -> Level]
      /\ \A u \in Task : at[u] = "kbd_yield" => current'[0] = u /\ pc'[0] = "task"
      /\ picked[c] = Main => c = 0
  <2>1. \A u \in Task : at[u] = "kbd_yield" => current[0] = u /\ pc[0] = "task"
    BY Zenon DEF Placed, TaskInv
  <2> QED
    BY <1>1, <1>2, <2>1, Zenon DEF Placed, CpuInv
<1>4. Leaving(c) /\ ~Leaving(c)' /\ \A u \in Task : ~Keeps(c, u)
  BY <1>1, <1>2, Zenon DEF Leaving, Keeps
<1>5. CASE picked[c] = Idle
  <2>1. state' = state
    BY <1>5, Zenon DEF Switch
  <2>2. \A d \in Cpu, u \in Task : current'[d] = u /\ Keeps(d, u)' <=> current[d] = u /\ Keeps(d, u)
    BY <1>1, <1>2, <1>4, <1>5, <2>1 DEF Keeps
  <2>3. OthersSame(c, {}, K, W)
    <3>1. \A u \in Task : SameTask(u) /\ SameIn(u)
      BY <1>1, <2>1, Zenon DEF SameTask, SameIn
    <3>2. \A u \in Task, d \in Cpu : SameOn(u, d)
      BY <1>1, <1>2, <1>5, <2>2 DEF SameOn
    <3> QED
      BY <1>2, <1>3, <3>1, <3>2, Zenon DEF OthersSame
  <2>4. MovedRight(c, {}, K, W, L)
    BY <1>1, Zenon DEF MovedRight, Placed, NoDup
  <2>5. CpuRight(c, {}, K, W)
    BY <1>2, <1>5, Zenon DEF CpuRight
  <2>6. Rest({}, K, W, L, K, W, L) /\ MainInv(K, W) /\ {} \subseteq Task
    BY <1>3, Zenon DEF Rest, Placed
  <2> QED
    BY <2>3, <2>4, <2>5, <2>6, StepPlaced, Zenon
<1>6. ASSUME NEW t \in Task, picked[c] = t PROVE \E K2, W2, L2 : Placed(K2, W2, L2)'
  <2>1. state' = [state EXCEPT ![t] = "RUNNING"]
    BY <1>2, <1>6, Zenon DEF Switch
  <2>2. state'[t] = "RUNNING" /\ \A u \in Task : u # t => state'[u] = state[u]
    BY <2>1, Zenon DEF TypeOK
  <2>3. PlaceOf(K, W, L, t) /\ TaskInv(K, W, t) /\ K[t] = "next" /\ W[t] = c
    BY <1>6, Zenon DEF Placed, PlaceOf, PlaceOn
  <2>4. at[t] \notin {"new", "zombie", "ks_insert", "kbd_yield"} /\ t \notin freed /\ t \notin dropped
    BY <2>3, Zenon DEF PlaceOf, PlaceIn, TaskInv
  <2>5. PICK K2, W2, L2 : Moves(t, "cpu", c, L[t], K, W, L, K2, W2, L2)
    <3>1. "cpu" \in Kind /\ L[t] \in Level
      BY <1>3, Zenon DEF Kind
    <3>2. Moves(t, "cpu", c, L[t], K, W, L, [K EXCEPT ![t] = "cpu"], [W EXCEPT ![t] = c], [L EXCEPT ![t] = L[t]])
      BY <1>3, <3>1, OneMoves, Zenon
    <3> QED
      BY <3>2, Zenon
  <2>6. \A d \in Cpu : d # c /\ current[d] = t => Leaving(d)
    BY <2>3, Zenon DEF Placed, CpuInv, StayInv
  <2>7. \A d \in Cpu, u \in Task : u # t => (current'[d] = u /\ Keeps(d, u)' <=> current[d] = u /\ Keeps(d, u))
    BY <1>1, <1>2, <1>4, <1>6, <2>2 DEF Keeps
  <2>8. OthersSame(c, {t}, K, W)
    <3>1. \A u \in Task : u # t => SameTask(u) /\ SameIn(u)
      BY <1>1, <2>2, Zenon DEF SameTask, SameIn
    <3>2. \A u \in Task, d \in Cpu : u # t => SameOn(u, d)
      BY <1>1, <1>2, <1>6, <2>7 DEF SameOn
    <3> QED
      BY <1>2, <1>3, <3>1, <3>2, Zenon DEF OthersSame
  <2>9. PlaceOf(K2, W2, L2, t)'
    <3>1. PlaceIn(K2, t)'
      BY <1>1, <2>3, <2>4, <2>5, Zenon DEF PlaceOf, PlaceIn, Moves
    <3>2. ASSUME NEW d \in Cpu PROVE PlaceOn(K2, W2, L2, t, d)'
      <4>1. /\ picked[d] = t => d = c
            /\ ~In(t, sleeping_list[d]) /\ ~In(t, batch[d]) /\ \A p \in Level : ~In(t, rq[d].q[p])
        BY <2>3, Zenon DEF PlaceOf, PlaceOn
      <4>2. current'[d] = t /\ Keeps(d, t)' <=> d = c
        BY <1>2, <1>6, <2>2, <2>6, Zenon DEF Keeps, Leaving
      <4>3. /\ picked'[d] # t /\ ~In(t, sleeping_list'[d]) /\ ~In(t, batch'[d])
            /\ \A p \in Level : ~In(t, rq'[d].q[p])
        BY <1>1, <1>2, <4>1, Zenon
      <4> QED
        BY <2>5, <4>2, <4>3, Zenon DEF PlaceOn, Moves
    <3> QED
      BY <3>1, <3>2 DEF PlaceOf
  <2>10. MovedRight(c, {t}, K2, W2, L2)
    <3>1. NoDup'
      BY <1>1, Zenon DEF Placed, NoDup
    <3>2. TaskInv(K2, W2, t)'
      BY <1>1, <2>2, <2>3, <2>4, <2>5, Zenon DEF TaskInv, Moves
    <3> QED
      BY <2>6, <2>9, <3>1, <3>2, Zenon DEF MovedRight
  <2>11. StayInv(K2, W2, c, t)'
    BY <1>1, <1>2, <2>2, <2>4, <2>5, Zenon DEF StayInv, Moves
  <2>12. CpuRight(c, {t}, K2, W2)
    BY <1>2, <1>3, <1>6, <2>6, <2>11, Zenon DEF CpuRight
  <2>13. MainInv(K2, W2)
    BY <1>2, <2>3, <2>5 DEF Placed, MainInv, Moves, Rest
  <2>14. Rest({t}, K, W, L, K2, W2, L2) /\ {t} \subseteq Task
    BY <2>5, Zenon DEF Moves
  <2> QED
    BY <2>8, <2>10, <2>12, <2>13, <2>14, StepPlaced, Zenon
<1> QED
  BY <1>2, <1>5, <1>6, Zenon

(* A step of the code of task t, current on CPU c, after which its place    *)
(* has kind k.                                                             *)
CallStep(c, t, k) ==
    /\ pc[c] = "task" /\ current[c] = t /\ pc'[c] \in {"task", "boost"}
    /\ \A d \in Cpu : d # c => pc'[d] = pc[d]
    /\ UNCHANGED <<rq, current, batch, picked, to_clean, freed, dropped>>
    /\ \A u \in Task : u # t => state'[u] = state[u] /\ at'[u] = at[u] /\ scpu'[u] = scpu[u]
    /\ at'[t] # "new"

CallLists(c, t, k) ==
    /\ \A x : \A d \in Cpu : In(x, sleeping_list'[d]) <=> In(x, sleeping_list[d]) \/ (k = "asleep" /\ d = c /\ x = t)
    /\ \A x : In(x, blocked_task_list') <=> In(x, blocked_task_list) \/ (k = "blocked" /\ x = t)
    /\ \A x : In(x, dead_task_list') <=> In(x, dead_task_list) \/ (k = "dead" /\ x = t)
    /\ (state'[t] = "RUNNING" \/ at'[t] = "ks_insert") <=> k = "cpu"

LEMMA PlacedCall ==
    ASSUME TypeOK, Control, NEW K, NEW W, NEW L, Placed(K, W, L), NEW c \in Cpu, NEW t \in Task,
           NEW k \in {"cpu", "asleep", "blocked", "dead"}, K[t] = "cpu", W[t] = c,
           CallStep(c, t, k), CallLists(c, t, k), NoDup',
           \A K2, W2 : K2[t] = k /\ W2[t] = c => TaskInv(K2, W2, t)' /\ StayInv(K2, W2, c, t)'
    PROVE  \E K2, W2, L2 : Placed(K2, W2, L2)'
<1>1. /\ K \in [Task -> Kind] /\ W \in [Task -> Cpu] /\ L \in [Task -> Level]
      /\ PlaceOf(K, W, L, t) /\ 0 \in Cpu /\ Main \in Task
  BY ConstantFacts, Zenon DEF Placed
<1>2. PICK K2, W2, L2 : Moves(t, k, c, L[t], K, W, L, K2, W2, L2)
  <2>1. k \in Kind /\ L[t] \in Level
    BY <1>1, Zenon DEF Kind
  <2>2. Moves(t, k, c, L[t], K, W, L, [K EXCEPT ![t] = k], [W EXCEPT ![t] = c], [L EXCEPT ![t] = L[t]])
    BY <1>1, <2>1, OneMoves, Zenon
  <2> QED
    BY <2>2, Zenon
<1>3. ~Leaving(c) /\ ~Leaving(c)'
  BY Zenon DEF CallStep, Leaving
<1>4. \A d \in Cpu : d # c /\ current[d] = t => Leaving(d)
  BY <1>3, Zenon DEF CallStep, Placed, Apart
<1>5. \A d \in Cpu, u \in Task : u # t => (current'[d] = u /\ Keeps(d, u)' <=> current[d] = u /\ Keeps(d, u))
  BY Zenon DEF CallStep, Keeps
<1>6. OthersSame(c, {t}, K, W)
  <2>1. \A u \in Task : u # t => SameTask(u) /\ SameIn(u)
    <3> SUFFICES ASSUME NEW u \in Task, u # t PROVE SameTask(u) /\ SameIn(u)
      BY Zenon
    <3>1. state'[u] = state[u] /\ at'[u] = at[u] /\ scpu'[u] = scpu[u]
      BY Zenon DEF CallStep
    <3>2. to_clean' = to_clean /\ freed' = freed /\ dropped' = dropped
      BY Zenon DEF CallStep
    <3>3. /\ In(u, blocked_task_list') <=> In(u, blocked_task_list)
          /\ In(u, dead_task_list') <=> In(u, dead_task_list)
      BY DEF CallLists
    <3>4. SameTask(u)
      BY <3>1, <3>2, Zenon DEF SameTask
    <3>5. SameIn(u)
      BY <3>1, <3>2, <3>3, Zenon DEF SameIn
    <3> QED
      BY <3>4, <3>5, Zenon
  <2>2. ASSUME NEW u \in Task, NEW d \in Cpu, u # t PROVE SameOn(u, d)
    <3>1. rq' = rq /\ batch' = batch /\ picked' = picked
      BY Zenon DEF CallStep
    <3>2. In(u, sleeping_list'[d]) <=> In(u, sleeping_list[d])
      BY <2>2 DEF CallLists
    <3> QED
      BY <1>5, <2>2, <3>1, <3>2, Zenon DEF SameOn
  <2>3. \A u \in Task : at[u] = "kbd_yield" => current[0] = u /\ NCpu = 1
    BY Zenon DEF Placed, TaskInv
  <2>4. \A u \in Task : at[u] = "kbd_yield" => u = t
    BY <2>3 DEF CallStep, Cpu
  <2> QED
    BY <2>1, <2>2, <2>4, Zenon DEF OthersSame, CallStep
<1>7. PlaceOf(K2, W2, L2, t)'
  <2>1. PlaceIn(K2, t)'
    BY <1>1, <1>2, Zenon DEF PlaceOf, PlaceIn, Moves, CallStep, CallLists
  <2>2. ASSUME NEW d \in Cpu PROVE PlaceOn(K2, W2, L2, t, d)'
    <3>1. /\ picked[d] # t /\ ~In(t, sleeping_list[d]) /\ ~In(t, batch[d])
          /\ \A p \in Level : ~In(t, rq[d].q[p])
      BY <1>1, Zenon DEF PlaceOf, PlaceOn
    <3>2. (current'[d] = t /\ Keeps(d, t)') <=> (d = c /\ k = "cpu")
      BY <1>4, Zenon DEF Keeps, Leaving, CallStep, CallLists
    <3>3. /\ picked'[d] # t /\ ~In(t, batch'[d]) /\ \A p \in Level : ~In(t, rq'[d].q[p])
          /\ In(t, sleeping_list'[d]) <=> k = "asleep" /\ d = c
      BY <3>1, Zenon DEF CallStep, CallLists
    <3> QED
      BY <1>2, <3>2, <3>3, Zenon DEF PlaceOn, Moves
  <2> QED
    BY <2>1, <2>2, Zenon DEF PlaceOf
<1>8. TaskInv(K2, W2, t)' /\ StayInv(K2, W2, c, t)'
  BY <1>2, Zenon DEF Moves
<1>9. MovedRight(c, {t}, K2, W2, L2)
  BY <1>4, <1>7, <1>8, Zenon DEF MovedRight
<1>10. CpuRight(c, {t}, K2, W2)
  BY <1>3, <1>8, Zenon DEF CpuRight, CallStep, Placed, CpuInv
<1>11. MainInv(K2, W2)
  BY <1>1, <1>2, Zenon DEF Placed, MainInv, Moves, Rest
<1>12. Rest({t}, K, W, L, K2, W2, L2) /\ {t} \subseteq Task
  BY <1>2, Zenon DEF Moves
<1> QED
  BY <1>6, <1>9, <1>10, <1>11, <1>12, StepPlaced, Zenon

(* A task that executes its own code is owned by its CPU. *)
OwnCode(t) == at[t] \in {"user", "kernel", "kbd", "kbd_block", "ks_insert"}

CallerAt(K, W, L, c, t) ==
    /\ pc[c] = "task" /\ current[c] = t /\ K[t] = "cpu" /\ W[t] = c
    /\ TaskInv(K, W, t) /\ StayInv(K, W, c, t) /\ PlaceOf(K, W, L, t)
    /\ t \notin freed /\ t \notin dropped /\ NoDup
    /\ at[t] # "ks_insert" => state[t] = "RUNNING"

LEMMA CallerPlaced ==
    ASSUME TypeOK, NEW K, NEW W, NEW L, Placed(K, W, L), NEW c \in Cpu, NEW t \in Task, Runs(c, t), OwnCode(t)
    PROVE  CallerAt(K, W, L, c, t)
<1>1. pc[c] = "task" /\ current[c] = t
  BY Zenon DEF Runs, TypeOK
<1>2. TaskInv(K, W, t) /\ StayInv(K, W, c, t) /\ PlaceOf(K, W, L, t) /\ NoDup
  BY <1>1, Zenon DEF Placed, CpuInv, Leaving
<1>3. at[t] # "ks_insert" => state[t] = "RUNNING"
  BY <1>1, <1>2, Zenon DEF StayInv, OwnCode
<1>4. K[t] = "cpu" /\ W[t] = c
  BY <1>1, <1>2, <1>3, Zenon DEF PlaceOf, PlaceOn, Keeps, OwnCode
<1>5. t \notin freed /\ t \notin dropped
  BY <1>2, <1>4, Zenon DEF PlaceOf, PlaceIn
<1> QED
  BY <1>1, <1>2, <1>3, <1>4, <1>5, Zenon DEF CallerAt

LEMMA PlacedSysSleep ==
    ASSUME TypeOK, Control, NEW K, NEW W, NEW L, Placed(K, W, L), NEW c \in Cpu, NEW t \in Task,
           NEW n \in 0 .. MaxSleep, SysSleep(c, t, n)
    PROVE  \E K2, W2, L2 : Placed(K2, W2, L2)'
<1>1. /\ Runs(c, t) /\ at[t] = "user" /\ pc' = [pc EXCEPT ![c] = "boost"]
      /\ UNCHANGED <<rq, current, batch, picked, at, scpu>>
      /\ UNCHANGED <<blocked_task_list, dead_task_list, to_clean, freed, dropped>>
  BY Zenon DEF SysSleep, Goto, globalVars
<1>2. /\ pc[c] = "task" /\ current[c] = t /\ K[t] = "cpu" /\ W[t] = c
      /\ TaskInv(K, W, t) /\ StayInv(K, W, c, t) /\ PlaceOf(K, W, L, t)
      /\ t \notin freed /\ t \notin dropped /\ NoDup /\ state[t] = "RUNNING"
  <2>1. Runs(c, t) /\ OwnCode(t)
    BY <1>1, Zenon DEF OwnCode
  <2>2. CallerAt(K, W, L, c, t)
    BY <2>1, CallerPlaced, Zenon
  <2> QED
    BY <1>1, <2>2, Zenon DEF CallerAt
<1>3. pc'[c] = "boost" /\ \A d \in Cpu : d # c => pc'[d] = pc[d]
  BY <1>1 DEF TypeOK
<1>4. CASE n = 0
  <2>1. state' = state /\ sleeping_list' = sleeping_list
    BY <1>4 DEF SysSleep
  <2>2. Quiet(c)
    BY <1>1, <1>2, <1>3, <2>1, Zenon DEF Quiet, Keeps, Leaving
  <2> QED
    BY <2>2, PlacedQuiet
<1>5. CASE n # 0
  <2>1. /\ state' = [state EXCEPT ![t] = "SLEEPING"]
        /\ sleeping_list' = [sleeping_list EXCEPT ![c] = InsertAt(@, Place(@, n), t)]
    BY <1>5, Zenon DEF SysSleep
  <2>2. state'[t] = "SLEEPING" /\ \A u \in Task : u # t => state'[u] = state[u]
    BY <2>1, Zenon DEF TypeOK
  <2>3. n \in Int /\ ~In(t, sleeping_list[c])
    <3>1. n \in Int
      BY ConstantFacts
    <3>2. ~In(t, sleeping_list[c])
      BY <1>2, Zenon DEF PlaceOf, PlaceOn
    <3> QED
      BY <3>1, <3>2, Zenon
  <2>4. /\ \A x : \A d \in Cpu : In(x, sleeping_list'[d]) <=> In(x, sleeping_list[d]) \/ (d = c /\ x = t)
        /\ \A d \in Cpu : Inj(sleeping_list'[d])
    BY <1>2, <2>1, <2>3, InsertPlaced, Zenon
  <2>5. CallStep(c, t, "asleep")
    BY <1>1, <1>2, <1>3, <2>2, Zenon DEF CallStep
  <2>6. CallLists(c, t, "asleep")
    BY <1>1, <2>2, <2>4, Zenon DEF CallLists
  <2>7. NoDup'
    BY <1>1, <1>2, <2>4, Zenon DEF NoDup
  <2>8. ASSUME NEW K2, NEW W2, K2[t] = "asleep", W2[t] = c PROVE TaskInv(K2, W2, t)' /\ StayInv(K2, W2, c, t)'
    BY <1>1, <1>2, <1>3, <2>2, <2>8, Zenon DEF TaskInv, StayInv
  <2> QED
    BY <1>2, <2>5, <2>6, <2>7, <2>8, PlacedCall, Zenon
<1> QED
  BY <1>4, <1>5, Zenon

LEMMA PlacedMsleep ==
    ASSUME TypeOK, Control, NEW K, NEW W, NEW L, Placed(K, W, L), NEW c \in Cpu, NEW t \in Task,
           NEW n \in 0 .. MaxSleep, MsleepMark(c, t, n) \/ MsleepInsert(c, t)
    PROVE  \E K2, W2, L2 : Placed(K2, W2, L2)'
<1>1. CASE MsleepMark(c, t, n)
  <2>1. /\ Runs(c, t) /\ at[t] = "kernel" /\ pc' = pc /\ scpu' = [scpu EXCEPT ![t] = c]
        /\ state' = [state EXCEPT ![t] = "SLEEPING"] /\ at' = [at EXCEPT ![t] = "ks_insert"]
        /\ UNCHANGED <<rq, current, batch, picked, sleeping_list>>
        /\ UNCHANGED <<blocked_task_list, dead_task_list, to_clean, freed, dropped>>
    BY <1>1, Zenon DEF MsleepMark, Move, globalVars, cpuVars
  <2>2. /\ pc[c] = "task" /\ current[c] = t /\ K[t] = "cpu" /\ W[t] = c
        /\ TaskInv(K, W, t) /\ StayInv(K, W, c, t) /\ PlaceOf(K, W, L, t)
        /\ t \notin freed /\ t \notin dropped /\ NoDup /\ state[t] = "RUNNING"
    <3>1. Runs(c, t) /\ OwnCode(t)
      BY <2>1, Zenon DEF OwnCode
    <3>2. CallerAt(K, W, L, c, t)
      BY <3>1, CallerPlaced, Zenon
    <3> QED
      BY <2>1, <3>2, Zenon DEF CallerAt
  <2>3. /\ state'[t] = "SLEEPING" /\ at'[t] = "ks_insert" /\ scpu'[t] = c
        /\ \A u \in Task : u # t => state'[u] = state[u] /\ at'[u] = at[u] /\ scpu'[u] = scpu[u]
    BY <2>1 DEF TypeOK
  <2>4. CallStep(c, t, "cpu")
    BY <2>1, <2>2, <2>3, Zenon DEF CallStep
  <2>5. CallLists(c, t, "cpu")
    BY <2>1, <2>3, Zenon DEF CallLists
  <2>6. NoDup'
    BY <2>1, <2>2, Zenon DEF NoDup
  <2>7. ASSUME NEW K2, NEW W2, K2[t] = "cpu", W2[t] = c PROVE TaskInv(K2, W2, t)' /\ StayInv(K2, W2, c, t)'
    BY <2>1, <2>2, <2>3, <2>7, Zenon DEF TaskInv, StayInv
  <2> QED
    BY <2>2, <2>4, <2>5, <2>6, <2>7, PlacedCall, Zenon
<1>2. CASE MsleepInsert(c, t)
  <2>1. /\ Runs(c, t) /\ at[t] = "ks_insert" /\ pc' = pc /\ scpu' = [scpu EXCEPT ![t] = None]
        /\ sleeping_list' = [sleeping_list EXCEPT ![scpu[t]] = InsertAt(@, Place(@, left[t]), t)]
        /\ at' = [at EXCEPT ![t] = "ks_yield"]
        /\ UNCHANGED <<rq, current, batch, picked, state>>
        /\ UNCHANGED <<blocked_task_list, dead_task_list, to_clean, freed, dropped>>
    BY <1>2, Zenon DEF MsleepInsert, Move, globalVars
  <2>2. /\ pc[c] = "task" /\ current[c] = t /\ K[t] = "cpu" /\ W[t] = c
        /\ TaskInv(K, W, t) /\ StayInv(K, W, c, t) /\ PlaceOf(K, W, L, t)
        /\ t \notin freed /\ t \notin dropped /\ NoDup
    <3>1. Runs(c, t) /\ OwnCode(t)
      BY <2>1, Zenon DEF OwnCode
    <3>2. CallerAt(K, W, L, c, t)
      BY <3>1, CallerPlaced, Zenon
    <3> QED
      BY <2>1, <3>2, Zenon DEF CallerAt
  <2>3. /\ state[t] = "SLEEPING" /\ at'[t] = "ks_yield" /\ scpu[t] = c
        /\ \A u \in Task : u # t => state'[u] = state[u] /\ at'[u] = at[u] /\ scpu'[u] = scpu[u]
    BY <2>1, <2>2, Zenon DEF TypeOK, TaskInv, StayInv
  <2>4. left[t] \in Int /\ ~In(t, sleeping_list[c])
    BY <2>2, Zenon DEF PlaceOf, PlaceOn, TypeOK
  <2>5. sleeping_list' = [sleeping_list EXCEPT ![c] = InsertAt(@, Place(@, left[t]), t)]
    BY <2>1, <2>3, Zenon
  <2>6. /\ \A x : \A d \in Cpu : In(x, sleeping_list'[d]) <=> In(x, sleeping_list[d]) \/ (d = c /\ x = t)
        /\ \A d \in Cpu : Inj(sleeping_list'[d])
    BY <2>2, <2>4, <2>5, InsertPlaced, Zenon
  <2>7. CallStep(c, t, "asleep")
    BY <2>1, <2>2, <2>3, Zenon DEF CallStep
  <2>8. CallLists(c, t, "asleep")
    BY <2>1, <2>3, <2>6 DEF CallLists
  <2>9. NoDup'
    BY <2>1, <2>2, <2>6, Zenon DEF NoDup
  <2>10. ASSUME NEW K2, NEW W2, K2[t] = "asleep", W2[t] = c PROVE TaskInv(K2, W2, t)' /\ StayInv(K2, W2, c, t)'
    BY <2>1, <2>2, <2>3, <2>10, Zenon DEF TaskInv, StayInv
  <2> QED
    BY <2>2, <2>7, <2>8, <2>9, <2>10, PlacedCall, Zenon
<1> QED
  BY <1>1, <1>2, Zenon

LEMMA PlacedKbd ==
    ASSUME Covered, TypeOK, Control, NEW K, NEW W, NEW L, Placed(K, W, L), NEW c \in Cpu, NEW t \in Task,
           KbdPop(c, t) \/ KbdBlock(c, t)
    PROVE  \E K2, W2, L2 : Placed(K2, W2, L2)'
<1>1. CASE KbdPop(c, t)
  <2>1. /\ Runs(c, t) /\ at[t] \in {"user", "kbd"} /\ pc' = pc
        /\ at' = [at EXCEPT ![t] = IF keys > 0 THEN "user" ELSE "kbd_block"]
        /\ UNCHANGED <<rq, current, batch, picked, sleeping_list, state, scpu>>
        /\ UNCHANGED <<blocked_task_list, dead_task_list, to_clean, freed, dropped>>
    BY <1>1, Zenon DEF KbdPop, Move, cpuVars
  <2>2. /\ pc[c] = "task" /\ current[c] = t /\ K[t] = "cpu" /\ W[t] = c
        /\ TaskInv(K, W, t) /\ StayInv(K, W, c, t) /\ PlaceOf(K, W, L, t)
        /\ t \notin freed /\ t \notin dropped /\ NoDup /\ state[t] = "RUNNING"
    <3>1. Runs(c, t) /\ OwnCode(t)
      BY <2>1, Zenon DEF OwnCode
    <3>2. CallerAt(K, W, L, c, t)
      BY <3>1, CallerPlaced, Zenon
    <3> QED
      BY <2>1, <3>2, Zenon DEF CallerAt
  <2>3. /\ at'[t] \in {"user", "kbd_block"} /\ \A u \in Task : u # t => at'[u] = at[u]
    BY <2>1 DEF TypeOK
  <2>4. CallStep(c, t, "cpu")
    BY <2>1, <2>2, <2>3, Zenon DEF CallStep
  <2>5. CallLists(c, t, "cpu")
    BY <2>1, <2>2, <2>3, Zenon DEF CallLists
  <2>6. NoDup'
    BY <2>1, <2>2, Zenon DEF NoDup
  <2>7. ASSUME NEW K2, NEW W2, K2[t] = "cpu", W2[t] = c PROVE TaskInv(K2, W2, t)' /\ StayInv(K2, W2, c, t)'
    BY <2>1, <2>2, <2>3, <2>7, Zenon DEF TaskInv, StayInv
  <2> QED
    BY <2>2, <2>4, <2>5, <2>6, <2>7, PlacedCall, Zenon
<1>2. CASE KbdBlock(c, t)
  <2>1. /\ Runs(c, t) /\ at[t] = "kbd_block" /\ pc' = pc /\ at' = [at EXCEPT ![t] = "kbd_yield"]
        /\ state' = [state EXCEPT ![t] = "BLOCKED"] /\ blocked_task_list' = <<t>> \o blocked_task_list
        /\ UNCHANGED <<rq, current, batch, picked, sleeping_list, scpu>>
        /\ UNCHANGED <<dead_task_list, to_clean, freed, dropped>>
    BY <1>2, Zenon DEF KbdBlock, Move, cpuVars
  <2>2. /\ pc[c] = "task" /\ current[c] = t /\ K[t] = "cpu" /\ W[t] = c
        /\ TaskInv(K, W, t) /\ StayInv(K, W, c, t) /\ PlaceOf(K, W, L, t)
        /\ t \notin freed /\ t \notin dropped /\ NoDup /\ state[t] = "RUNNING"
    <3>1. Runs(c, t) /\ OwnCode(t)
      BY <2>1, Zenon DEF OwnCode
    <3>2. CallerAt(K, W, L, c, t)
      BY <3>1, CallerPlaced, Zenon
    <3> QED
      BY <2>1, <3>2, Zenon DEF CallerAt
  <2>3. /\ at'[t] = "kbd_yield" /\ state'[t] = "BLOCKED"
        /\ \A u \in Task : u # t => at'[u] = at[u] /\ state'[u] = state[u]
        /\ blocked_task_list \in Seq(Task)
    BY <2>1 DEF TypeOK
  <2>4. NCpu = 1 /\ c = 0
    <3>1. NCpu = 1
      BY <2>1, Zenon DEF Control, CpuControl, TaskControl, Covered
    <3> QED
      BY <3>1 DEF Cpu
  <2>5. ~In(t, blocked_task_list) /\ Inj(blocked_task_list)
    BY <2>2, Zenon DEF PlaceOf, PlaceIn, NoDup
  <2>6. /\ \A x : In(x, blocked_task_list') <=> In(x, blocked_task_list) \/ x = t
        /\ Inj(blocked_task_list')
    BY <2>1, <2>3, <2>5, ConsFacts
  <2>7. CallStep(c, t, "blocked")
    BY <2>1, <2>2, <2>3, Zenon DEF CallStep
  <2>8. CallLists(c, t, "blocked")
    BY <2>1, <2>3, <2>6, Zenon DEF CallLists
  <2>9. NoDup'
    BY <2>1, <2>2, <2>6, Zenon DEF NoDup
  <2>10. ASSUME NEW K2, NEW W2, K2[t] = "blocked", W2[t] = c PROVE TaskInv(K2, W2, t)' /\ StayInv(K2, W2, c, t)'
    BY <2>1, <2>2, <2>3, <2>4, <2>10, Zenon DEF TaskInv, StayInv
  <2> QED
    BY <2>2, <2>7, <2>8, <2>9, <2>10, PlacedCall, Zenon
<1> QED
  BY <1>1, <1>2, Zenon

LEMMA PlacedExit ==
    ASSUME TypeOK, Control, NEW K, NEW W, NEW L, Placed(K, W, L), NEW c \in Cpu, NEW t \in Task, TaskExit(c, t)
    PROVE  \E K2, W2, L2 : Placed(K2, W2, L2)'
<1>1. /\ Runs(c, t) /\ at[t] \in {"user", "kernel"} /\ pc' = pc /\ at' = [at EXCEPT ![t] = "zombie"]
      /\ state' = [state EXCEPT ![t] = "ZOMBIE"] /\ dead_task_list' = <<t>> \o dead_task_list
      /\ UNCHANGED <<rq, current, batch, picked, sleeping_list, scpu>>
      /\ UNCHANGED <<blocked_task_list, to_clean, freed, dropped>>
  BY Zenon DEF TaskExit, Move, cpuVars
<1>2. /\ pc[c] = "task" /\ current[c] = t /\ K[t] = "cpu" /\ W[t] = c
      /\ TaskInv(K, W, t) /\ StayInv(K, W, c, t) /\ PlaceOf(K, W, L, t)
      /\ t \notin freed /\ t \notin dropped /\ NoDup /\ state[t] = "RUNNING"
  <2>1. Runs(c, t) /\ OwnCode(t)
    BY <1>1, Zenon DEF OwnCode
  <2>2. CallerAt(K, W, L, c, t)
    BY <2>1, CallerPlaced, Zenon
  <2> QED
    BY <1>1, <2>2, Zenon DEF CallerAt
<1>3. /\ at'[t] = "zombie" /\ state'[t] = "ZOMBIE"
      /\ \A u \in Task : u # t => at'[u] = at[u] /\ state'[u] = state[u]
      /\ dead_task_list \in Seq(Task)
  BY <1>1 DEF TypeOK
<1>4. ~In(t, dead_task_list) /\ Inj(dead_task_list)
  BY <1>2, Zenon DEF PlaceOf, PlaceIn, NoDup
<1>5. (\A x : In(x, dead_task_list') <=> In(x, dead_task_list) \/ x = t) /\ Inj(dead_task_list')
  BY <1>1, <1>3, <1>4, ConsFacts, Zenon
<1>6. CallStep(c, t, "dead")
  BY <1>1, <1>2, <1>3, Zenon DEF CallStep
<1>7. CallLists(c, t, "dead")
  BY <1>1, <1>3, <1>5, Zenon DEF CallLists
<1>8. NoDup'
  BY <1>1, <1>2, <1>5, Zenon DEF NoDup
<1>9. ASSUME NEW K2, NEW W2, K2[t] = "dead", W2[t] = c PROVE TaskInv(K2, W2, t)' /\ StayInv(K2, W2, c, t)'
  BY <1>1, <1>2, <1>3, <1>9, Zenon DEF TaskInv, StayInv
<1> QED
  BY <1>2, <1>6, <1>7, <1>8, <1>9, PlacedCall, Zenon

LEMMA PlacedReap ==
    ASSUME TypeOK, Control, NEW K, NEW W, NEW L, Placed(K, W, L), NEW c \in Cpu, ReapTake(c) \/ ReapFree(c)
    PROVE  \E K2, W2, L2 : Placed(K2, W2, L2)'
<1>1. /\ c = 0 /\ pc[c] = "task" /\ current[c] = Idle
      /\ UNCHANGED <<rq, current, sleeping_list, pc, batch, picked, state, at, scpu>>
      /\ UNCHANGED <<blocked_task_list, dropped>>
  BY Zenon DEF ReapTake, ReapFree, Runs, TypeOK, cpuVars, taskVars
<1>2. /\ K \in [Task -> Kind] /\ W \in [Task -> Cpu] /\ L \in [Task -> Level]
      /\ \A u \in Task : PlaceOf(K, W, L, u) /\ TaskInv(K, W, u)
      /\ Idle \notin Task /\ Main \in Task /\ at[Main] # "zombie" /\ 0 \in Cpu
  BY ConstantFacts, Zenon DEF Placed, Control, CpuControl, TaskControl
<1>3. \A u \in Task : at[u] # "kbd_yield"
  BY <1>1, <1>2, Zenon DEF TaskInv
<1>4. \A u \in Task, d \in Cpu : Keeps(d, u)' <=> Keeps(d, u)
  BY <1>1, Zenon DEF Keeps
<1>5. PICK T : T = IF ReapTake(c) THEN {x \in Task : In(x, dead_task_list)} ELSE {Head(to_clean)}
  BY Zenon
<1>6. PICK k : k = IF ReapTake(c) THEN "clean" ELSE "none"
  OBVIOUS
<1>7. PICK K2 : K2 = [u \in Task |-> IF u \in T THEN k ELSE K[u]]
  BY Zenon
<1>8. /\ T \subseteq Task /\ k \in {"clean", "none"}
      /\ \A u \in T : K[u] \in {"dead", "clean"}
      /\ \A u \in Task : /\ ~In(u, dead_task_list') \/ u \notin T
                         /\ In(u, to_clean') /\ u \in T <=> k = "clean" /\ u \in T
                         /\ u \in freed' /\ u \in T <=> k = "none" /\ u \in T
                         /\ u \notin T => /\ In(u, dead_task_list') <=> In(u, dead_task_list)
                                          /\ In(u, to_clean') <=> In(u, to_clean)
                                          /\ u \in freed' <=> u \in freed
      /\ Inj(dead_task_list') /\ Inj(to_clean')
  <2>1. /\ \A u \in Task : In(u, dead_task_list) <=> K[u] = "dead"
        /\ \A u \in Task : In(u, to_clean) <=> K[u] = "clean"
        /\ \A u \in freed : K[u] = "none"
        /\ Inj(dead_task_list) /\ Inj(to_clean) /\ freed \subseteq Task
        /\ dead_task_list \in Seq(Task) /\ to_clean \in Seq(Task)
    BY <1>2, Zenon DEF PlaceOf, PlaceIn, Placed, NoDup, TypeOK
  <2>2. CASE ReapTake(c)
    <3>1. to_clean = <<>> /\ to_clean' = dead_task_list /\ dead_task_list' = <<>> /\ freed' = freed
      BY <2>2, Zenon DEF ReapTake
    <3>2. k = "clean" /\ T = {x \in Task : In(x, dead_task_list)}
      BY <1>5, <1>6, <2>2, Zenon
    <3>3. (\A x : ~In(x, to_clean) /\ ~In(x, dead_task_list')) /\ Inj(dead_task_list')
      BY <3>1, InEmpty, Zenon
    <3> QED
      BY <2>1, <3>1, <3>2, <3>3, Zenon
  <2>3. CASE ~ReapTake(c)
    <3>1. /\ to_clean # <<>> /\ freed' = freed \cup {Head(to_clean)} /\ to_clean' = Tail(to_clean)
          /\ dead_task_list' = dead_task_list
      BY <2>3, Zenon DEF ReapFree
    <3>2. k = "none" /\ T = {Head(to_clean)}
      BY <1>5, <1>6, <2>3, Zenon
    <3>3. /\ Head(to_clean) \in Task /\ In(Head(to_clean), to_clean) /\ Inj(to_clean')
          /\ \A x : In(x, to_clean') <=> In(x, to_clean) /\ x # Head(to_clean)
      BY <2>1, <3>1, TailFacts, Zenon
    <3> QED
      BY <2>1, <3>1, <3>2, <3>3, Zenon
  <2> QED
    BY <2>2, <2>3
<1>9. /\ K2 \in [Task -> Kind] /\ (\A u \in Task : u \in T => K2[u] = k)
      /\ \A u \in Task : u \notin T => K2[u] = K[u]
  BY <1>2, <1>7, <1>8, Zenon DEF Kind
<1>10. OthersSame(c, T, K, W)
  <2>1. \A u \in Task : u \notin T => SameTask(u) /\ SameIn(u)
    BY <1>1, <1>8, Zenon DEF SameTask, SameIn
  <2>2. \A u \in Task, d \in Cpu : u \notin T => SameOn(u, d)
    BY <1>1, <1>4, Zenon DEF SameOn
  <2> QED
    BY <1>1, <1>3, <2>1, <2>2, Zenon DEF OthersSame
<1>11. ASSUME NEW t \in T PROVE PlaceOf(K2, W, L, t)' /\ TaskInv(K2, W, t)' /\ at[t] = "zombie"
  <2>1. /\ t \in Task /\ K2[t] = k /\ K[t] \in {"dead", "clean"} /\ at[t] = "zombie" /\ state[t] = "ZOMBIE"
        /\ ~In(t, blocked_task_list) /\ t \notin dropped /\ t \notin freed
    BY <1>2, <1>8, <1>9, Zenon DEF TaskInv, PlaceOf, PlaceIn
  <2>2. ~In(t, dead_task_list') /\ (In(t, to_clean') <=> k = "clean") /\ (t \in freed' <=> k = "none")
    BY <1>8, <2>1, Zenon
  <2>3. PlaceIn(K2, t)'
    BY <1>1, <1>8, <2>1, <2>2, Zenon DEF PlaceIn
  <2>4. ASSUME NEW d \in Cpu PROVE PlaceOn(K2, W, L, t, d)'
    <3>1. /\ ~(current[d] = t /\ Keeps(d, t)) /\ picked[d] # t /\ ~In(t, sleeping_list[d])
          /\ ~In(t, batch[d]) /\ \A p \in Level : ~In(t, rq[d].q[p])
      BY <1>2, <2>1, Zenon DEF PlaceOf, PlaceOn
    <3>2. /\ ~(current'[d] = t /\ Keeps(d, t)') /\ picked'[d] # t /\ ~In(t, sleeping_list'[d])
          /\ ~In(t, batch'[d]) /\ \A p \in Level : ~In(t, rq'[d].q[p])
      BY <1>1, <1>4, <2>1, <3>1, Zenon
    <3> QED
      BY <1>8, <2>1, <3>2, Zenon DEF PlaceOn
  <2>5. TaskInv(K2, W, t)'
    BY <1>1, <1>8, <2>1, <2>2, Zenon DEF TaskInv
  <2> QED
    BY <2>1, <2>3, <2>4, <2>5, Zenon DEF PlaceOf
<1>12. MovedRight(c, T, K2, W, L)
  <2>1. NoDup'
    BY <1>1, <1>8, Zenon DEF Placed, NoDup
  <2>2. ASSUME NEW t \in T, NEW d \in Cpu PROVE StayInv(K2, W, d, t)'
    <3>1. t \in Task /\ K2[t] \in {"clean", "none"} /\ at'[t] = "zombie"
      BY <1>1, <1>8, <1>9, <1>11, Zenon
    <3> QED
      BY <3>1, Zenon DEF StayInv
  <2> QED
    BY <1>11, <2>1, <2>2, Zenon DEF MovedRight
<1>13. CpuRight(c, T, K2, W)
  BY <1>1, <1>2, Zenon DEF CpuRight
<1>14. MainInv(K2, W)
  <2>1. Main \notin T
    BY <1>2, <1>11, Zenon
  <2> QED
    BY <1>2, <1>9, <2>1, Zenon DEF MainInv, Placed
<1>15. Rest(T, K, W, L, K2, W, L)
  BY <1>2, <1>9, Zenon DEF Rest
<1> QED
  BY <1>8, <1>10, <1>12, <1>13, <1>14, <1>15, StepPlaced, Zenon

LEMMA PlacedKbdWake ==
    ASSUME Covered, TypeOK, Control, NEW K, NEW W, NEW L, Placed(K, W, L),
           NEW c \in Cpu, KbdWake(c)
    PROVE  \E K2, W2, L2 : Placed(K2, W2, L2)'
<1>0. PICK t \in Task : t = Head(batch[c])
  BY BatchFacts, Zenon DEF KbdWake
<1>1. /\ pc[c] = "kwake" /\ EnqueueOn(c, t)
      /\ batch' = [batch EXCEPT ![c] = Tail(batch[c])]
      /\ pc' = [pc EXCEPT ![c] = IF Len(batch[c]) = 1 THEN "task" ELSE "kwake"]
      /\ UNCHANGED <<current, sleeping_list, picked, state, at, scpu>>
      /\ UNCHANGED <<blocked_task_list, dead_task_list, to_clean, freed, dropped>>
  <2>1. /\ pc[c] = "kwake" /\ EnqueueOn(IF cpu_id[t] = None THEN c ELSE cpu_id[t], t)
        /\ batch' = [batch EXCEPT ![c] = Tail(batch[c])]
        /\ pc' = [pc EXCEPT ![c] = IF Len(batch[c]) = 1 THEN "task" ELSE "kwake"]
        /\ UNCHANGED <<current, sleeping_list, picked, state, at, scpu>>
        /\ UNCHANGED <<blocked_task_list, dead_task_list, to_clean, freed, dropped>>
    BY <1>0, Zenon DEF KbdWake, Goto, globalVars
  <2>2. NCpu = 1
    BY <2>1, Zenon DEF Control, CpuControl, TaskControl, Covered
  <2>3. (IF cpu_id[t] = None THEN c ELSE cpu_id[t]) = c
    BY <2>2 DEF TypeOK, Cpu
  <2> QED
    BY <2>1, <2>3, Zenon
<1>2. /\ In(t, batch[c]) /\ \A x : \A d \in Cpu : In(x, batch'[d]) <=> In(x, batch[d]) /\ ~(d = c /\ x = t)
      /\ \A d \in Cpu : Inj(batch'[d])
  BY <1>0, <1>1, BatchPlaced, Zenon DEF Placed
<1>3. /\ K \in [Task -> Kind] /\ W \in [Task -> Cpu] /\ L \in [Task -> Level]
      /\ PlaceOf(K, W, L, t) /\ TaskInv(K, W, t) /\ K[t] = "batch" /\ W[t] = c
  BY <1>2, Zenon DEF Placed, PlaceOf, PlaceOn
<1>4. /\ at[t] \notin {"new", "zombie", "ks_insert", "kbd_yield"} /\ t \notin freed /\ t \notin dropped
      /\ state[t] = "READY"
  BY <1>1, <1>3, Zenon DEF PlaceOf, PlaceIn, TaskInv
<1>5. /\ Prio[t] \in Level
      /\ \A x : \A d \in Cpu, p \in Level :
            In(x, rq'[d].q[p]) <=> In(x, rq[d].q[p]) \/ (x = t /\ d = c /\ p = Prio[t])
      /\ ~In(t, rq[c].q[Prio[t]]) => \A d \in Cpu, p \in Level : Inj(rq[d].q[p]) => Inj(rq'[d].q[p])
  BY <1>1, EnqueuePlaced, Zenon
<1>6. PICK K2, W2, L2 : Moves(t, "rq", c, Prio[t], K, W, L, K2, W2, L2)
  <2>1. "rq" \in Kind
    BY Zenon DEF Kind
  <2>2. Moves(t, "rq", c, Prio[t], K, W, L, [K EXCEPT ![t] = "rq"], [W EXCEPT ![t] = c], [L EXCEPT ![t] = Prio[t]])
    BY <1>3, <1>5, <2>1, OneMoves, Zenon
  <2> QED
    BY <2>2, Zenon
<1>7. /\ \A d \in Cpu : d # c => pc'[d] = pc[d]
      /\ pc'[c] \in {"kwake", "task"} /\ 0 \in Cpu /\ Main \in Task
  BY <1>1, ConstantFacts, Zenon DEF TypeOK
<1>8. \A d \in Cpu, u \in Task : current'[d] = u /\ Keeps(d, u)' <=> current[d] = u /\ Keeps(d, u)
  BY <1>1, <1>7, Zenon DEF Keeps
<1>9. OthersSame(c, {t}, K, W)
  <2>1. \A u \in Task : u # t => SameTask(u) /\ SameIn(u)
    BY <1>1, Zenon DEF SameTask, SameIn
  <2>2. \A u \in Task, d \in Cpu : u # t => SameOn(u, d)
    BY <1>1, <1>2, <1>5, <1>8, Zenon DEF SameOn
  <2>3. \A u \in Task : at[u] = "kbd_yield" => current[0] = u /\ pc[0] = "task"
    BY Zenon DEF Placed, TaskInv
  <2> QED
    BY <1>1, <1>7, <2>1, <2>2, <2>3, Zenon DEF OthersSame
<1>10. PlaceOf(K2, W2, L2, t)'
  <2>1. PlaceIn(K2, t)'
    BY <1>1, <1>3, <1>4, <1>6, Zenon DEF PlaceOf, PlaceIn, Moves
  <2>2. ASSUME NEW d \in Cpu PROVE PlaceOn(K2, W2, L2, t, d)'
    <3>1. /\ ~(current[d] = t /\ Keeps(d, t)) /\ picked[d] # t /\ ~In(t, sleeping_list[d])
          /\ In(t, batch[d]) => d = c
          /\ \A p \in Level : ~In(t, rq[d].q[p])
      BY <1>3, Zenon DEF PlaceOf, PlaceOn
    <3>2. /\ ~(current'[d] = t /\ Keeps(d, t)') /\ picked'[d] # t /\ ~In(t, sleeping_list'[d])
          /\ ~In(t, batch'[d]) /\ \A p \in Level : In(t, rq'[d].q[p]) <=> (d = c /\ p = Prio[t])
      BY <1>1, <1>2, <1>5, <1>8, <3>1, Zenon
    <3> QED
      BY <1>6, <3>2, Zenon DEF PlaceOn, Moves
  <2> QED
    BY <2>1, <2>2 DEF PlaceOf
<1>11. \A d \in Cpu : current[d] = t => Leaving(d)
  <2>1. \A d \in Cpu : current[d] = t /\ ~Leaving(d) => d = c /\ pc[d] # "kwake"
    BY <1>3, Zenon DEF Placed, CpuInv, StayInv
  <2> QED
    BY <1>1, <2>1, Zenon
<1>12. MovedRight(c, {t}, K2, W2, L2)
  <2>1. NoDup'
    <3>1. ~In(t, rq[c].q[Prio[t]])
      BY <1>3, <1>5, Zenon DEF PlaceOf, PlaceOn
    <3> QED
      BY <1>1, <1>2, <1>5, <3>1, Zenon DEF Placed, NoDup
  <2>2. TaskInv(K2, W2, t)'
    BY <1>1, <1>3, <1>4, <1>6, Zenon DEF TaskInv, Moves
  <2> QED
    BY <1>10, <1>11, <2>1, <2>2, Zenon DEF MovedRight
<1>13. CpuRight(c, {t}, K2, W2)
  <2>1. ~Leaving(c) /\ CpuInv(K, W, c)
    BY <1>1, Zenon DEF Placed, Leaving
  <2>2. ASSUME NEW u \in Task, current[c] = u PROVE StayInv(K2, W2, c, u)'
    <3>1. StayInv(K, W, c, u) /\ K2[u] = K[u] /\ W2[u] = W[u]
      BY <1>6, <1>11, <2>1, <2>2, Zenon DEF CpuInv, Moves, Rest
    <3> QED
      BY <1>1, <1>7, <3>1, Zenon DEF StayInv
  <2> QED
    BY <1>1, <2>1, <2>2, Zenon DEF CpuRight, CpuInv
<1>14. MainInv(K2, W2)
  BY <1>3, <1>6, <1>7, Zenon DEF Placed, MainInv, Moves, Rest
<1>15. Rest({t}, K, W, L, K2, W2, L2) /\ {t} \subseteq Task
  BY <1>6, Zenon DEF Moves
<1> QED
  BY <1>9, <1>12, <1>13, <1>14, <1>15, StepPlaced

LEMMA PlacedKeyPress ==
    ASSUME Covered, TypeOK, Control, NEW K, NEW W, NEW L, Placed(K, W, L), NEW c \in Cpu, KeyPress(c)
    PROVE  \E K2, W2, L2 : Placed(K2, W2, L2)'
<1>1. /\ c = 0 /\ "kbd" \in Calls /\ pc[c] = "task"
      /\ current[c] # Idle => at[current[c]] \in {"user", "kernel", "ks_insert", "ks_yield"}
      /\ batch' = [batch EXCEPT ![c] = Reverse(blocked_task_list)]
      /\ state' = [t \in Task |-> IF t \in ToSet(blocked_task_list) THEN "READY" ELSE state[t]]
      /\ blocked_task_list' = <<>>
      /\ pc' = [pc EXCEPT ![c] = IF blocked_task_list = <<>> THEN "task" ELSE "kwake"]
      /\ UNCHANGED <<rq, current, sleeping_list, picked, at, scpu>>
      /\ UNCHANGED <<dead_task_list, to_clean, freed, dropped>>
  BY Zenon DEF KeyPress, Goto, Interruptible, TypeOK
<1>2. /\ K \in [Task -> Kind] /\ W \in [Task -> Cpu] /\ L \in [Task -> Level]
      /\ \A u \in Task : PlaceOf(K, W, L, u) /\ TaskInv(K, W, u)
      /\ Idle \notin Task /\ Main \in Task /\ 0 \in Cpu /\ NCpu = 1 /\ \A d \in Cpu : d = c
  <2>1. NCpu = 1
    BY <1>1, Zenon DEF Covered
  <2> QED
    BY <1>1, <2>1, ConstantFacts DEF Placed, Cpu
<1>3. PICK T : T = {x \in Task : In(x, blocked_task_list)}
  BY Zenon
<1>4. PICK K2 : K2 = [u \in Task |-> IF u \in T THEN "batch" ELSE K[u]]
  BY Zenon
<1>5. PICK W2 : W2 = [u \in Task |-> IF u \in T THEN c ELSE W[u]]
  BY Zenon
<1>6. /\ T \subseteq Task /\ \A u \in Task : u \in T <=> In(u, blocked_task_list)
      /\ K2 \in [Task -> Kind] /\ W2 \in [Task -> Cpu]
      /\ \A u \in Task : u \in T => K2[u] = "batch" /\ W2[u] = c /\ K[u] = "blocked"
      /\ \A u \in Task : u \notin T => K2[u] = K[u] /\ W2[u] = W[u] /\ K[u] # "blocked"
  <2>1. T \subseteq Task /\ \A u \in Task : u \in T <=> In(u, blocked_task_list)
    BY <1>3, Zenon
  <2>2. \A u \in Task : u \in T <=> K[u] = "blocked"
    BY <1>2, <2>1, Zenon DEF PlaceOf, PlaceIn
  <2> QED
    BY <1>2, <1>4, <1>5, <2>1, <2>2 DEF Kind
<1>7. /\ pc'[c] \in {"task", "kwake"} /\ batch[c] = <<>>
      /\ \A x : In(x, batch'[c]) <=> In(x, blocked_task_list)
      /\ Inj(batch'[c]) /\ \A x : ~In(x, batch[c]) /\ ~In(x, blocked_task_list')
      /\ Inj(blocked_task_list')
  <2>1. blocked_task_list \in Seq(Task) /\ Inj(blocked_task_list)
    BY DEF TypeOK, Placed, NoDup
  <2>2. batch'[c] = Reverse(blocked_task_list) /\ pc'[c] \in {"task", "kwake"} /\ batch[c] = <<>>
    BY <1>1, Zenon DEF TypeOK, Control, CpuControl, TaskControl
  <2> QED
    <3>1. (\A x : In(x, Reverse(blocked_task_list)) <=> In(x, blocked_task_list)) /\ Inj(Reverse(blocked_task_list))
      BY <2>1, ReverseFacts, Zenon
    <3>2. blocked_task_list' = <<>>
      BY <1>1, Zenon
    <3> QED
      BY <2>2, <3>1, <3>2, InEmpty, Zenon
<1>8. /\ \A u \in Task : u \in T => state'[u] = "READY"
      /\ \A u \in Task : u \notin T => state'[u] = state[u]
  <2>1. \A u : u \in ToSet(blocked_task_list) <=> In(u, blocked_task_list)
    BY Zenon DEF ToSet, In
  <2> QED
    BY <1>1, <1>6, <2>1, Zenon
<1>9. \A u \in Task : at[u] # "kbd_yield"
  BY <1>1, <1>2, Zenon DEF TaskInv
<1>10. \A u \in Task : u \notin T => (Keeps(c, u)' <=> Keeps(c, u))
  BY <1>1, <1>7, <1>8, Zenon DEF Keeps
<1>11. OthersSame(c, T, K, W)
  <2>1. \A u \in Task : u \notin T => SameTask(u) /\ SameIn(u)
    BY <1>1, <1>6, <1>7, <1>8, Zenon DEF SameTask, SameIn
  <2>2. \A u \in Task, d \in Cpu : u \notin T => SameOn(u, d)
    <3>1. \A u \in Task : u \notin T => SameOn(u, c)
      BY <1>1, <1>6, <1>7, <1>10, Zenon DEF SameOn
    <3> QED
      BY <1>2, <3>1, Zenon
  <2>3. \A u \in Task : ~(K[u] = "batch" /\ W[u] = c)
    BY <1>2, <1>7 DEF PlaceOf, PlaceOn
  <2> QED
    BY <1>2, <1>9, <2>1, <2>2, <2>3, Zenon DEF OthersSame
<1>12. ASSUME NEW u \in Task, current[c] = u PROVE u \notin T /\ StayInv(K, W, c, u)
  <2>1. StayInv(K, W, c, u)
    BY <1>1, <1>12, Zenon DEF Placed, CpuInv, Leaving
  <2>2. at[u] \in {"user", "kernel", "ks_insert", "ks_yield"}
    BY <1>1, <1>2, <1>12, Zenon
  <2>3. K[u] # "blocked"
    BY <1>1, <1>2, <2>1, <2>2, Zenon DEF StayInv, TaskInv
  <2> QED
    BY <1>6, <2>1, <2>3, Zenon
<1>13. ASSUME NEW t \in T PROVE PlaceOf(K2, W2, L, t)' /\ TaskInv(K2, W2, t)'
  <2>1. /\ t \in Task /\ K2[t] = "batch" /\ W2[t] = c /\ K[t] = "blocked" /\ PlaceOf(K, W, L, t) /\ TaskInv(K, W, t)
        /\ state'[t] = "READY" /\ current[c] # t /\ In(t, blocked_task_list)
    BY <1>2, <1>6, <1>8, <1>12, Zenon
  <2>2. PlaceIn(K2, t)'
    BY <1>1, <1>7, <2>1, Zenon DEF PlaceOf, PlaceIn
  <2>3. PlaceOn(K2, W2, L, t, c)'
    <3>1. picked[c] # t /\ ~In(t, sleeping_list[c]) /\ \A p \in Level : ~In(t, rq[c].q[p])
      BY <2>1, Zenon DEF PlaceOf, PlaceOn
    <3> QED
      BY <1>1, <1>7, <2>1, <3>1, Zenon DEF PlaceOn
  <2>4. TaskInv(K2, W2, t)'
    BY <1>1, <1>9, <2>1, Zenon DEF TaskInv, PlaceOf, PlaceIn
  <2> QED
    BY <1>2, <2>2, <2>3, <2>4, Zenon DEF PlaceOf
<1>14. MovedRight(c, T, K2, W2, L)
  <2>1. NoDup'
    <3>1. \A d \in Cpu : Inj(batch'[d])
      BY <1>2, <1>7, Zenon
    <3> QED
      BY <1>1, <1>7, <3>1, Zenon DEF Placed, NoDup
  <2> QED
    BY <1>2, <1>13, <2>1, Zenon DEF MovedRight
<1>15. CpuRight(c, T, K2, W2)
  <2>1. ~Leaving(c) /\ CpuInv(K, W, c)
    BY <1>1, Zenon DEF Placed, Leaving
  <2>2. ASSUME NEW u \in Task, current[c] = u PROVE StayInv(K2, W2, c, u)'
    <3>1. StayInv(K, W, c, u) /\ K2[u] = K[u] /\ W2[u] = W[u] /\ state'[u] = state[u]
      BY <1>6, <1>8, <1>12, <2>2, Zenon
    <3> QED
      BY <1>1, <1>7, <3>1, Zenon DEF StayInv
  <2> QED
    BY <1>1, <2>1, <2>2, Zenon DEF CpuRight, CpuInv
<1>16. MainInv(K2, W2)
  BY <1>1, <1>2, <1>6, Zenon DEF MainInv, Placed
<1>17. Rest(T, K, W, L, K2, W2, L)
  BY <1>2, <1>6, Zenon DEF Rest
<1> QED
  BY <1>6, <1>11, <1>14, <1>15, <1>16, <1>17, StepPlaced, Zenon

(* What the timer interrupt does: a is the expired front of the sleeping   *)
(* list, b what stays on it.                                               *)
LEMMA TickFacts ==
    ASSUME TypeOK, Control, NEW c \in Cpu, Tick(c)
    PROVE  /\ pc[c] = "task" /\ pc'[c] \in {"wake", "boost"} /\ batch[c] = <<>>
           /\ \A d \in Cpu : d # c => /\ pc'[d] = pc[d] /\ sleeping_list'[d] = sleeping_list[d]
                                      /\ batch'[d] = batch[d]
           /\ UNCHANGED <<rq, current, picked, state, scpu>>
           /\ UNCHANGED <<blocked_task_list, dead_task_list, to_clean, freed, dropped>>
           /\ \A t \in Task : current[c] = t =>
                 at[t] \in {"user", "kernel", "ks_insert", "ks_yield", "kbd_yield", "zombie"}
           /\ \A t \in Task : \/ at'[t] = at[t] /\ (at[t] = "kbd_yield" => current[c] # t)
                              \/ current[c] = t /\ at[t] = "ks_yield" /\ at'[t] = "kernel"
                              \/ current[c] = t /\ at[t] = "kbd_yield" /\ at'[t] = "kbd"
           /\ Inj(sleeping_list[c]) =>
                 /\ Inj(sleeping_list'[c]) /\ Inj(batch'[c])
                 /\ \A x : /\ In(x, sleeping_list[c]) <=> In(x, sleeping_list'[c]) \/ In(x, batch'[c])
                           /\ ~(In(x, sleeping_list'[c]) /\ In(x, batch'[c]))
<1> DEFINE l == sleeping_list[c]
           n == Expired(l, left')
           a == SubSeq(l, 1, n)
           b == SubSeq(l, n + 1, Len(l))
<1>1. left' \in [Task -> Int]
  BY DEF Tick, TypeOK, Elapse
<1>2. l \in Seq(Task) /\ Len(l) \in Nat
  BY DEF TypeOK
<1>3. n \in 0 .. Len(l)
  <2> HIDE DEF l
  <2> QED
    BY <1>1, <1>2, ExpiredFacts, Zenon
<1>4. /\ sleeping_list' = [sleeping_list EXCEPT ![c] = b]
      /\ batch' = [batch EXCEPT ![c] = Reverse(a)]
      /\ pc' = [pc EXCEPT ![c] = IF n > 0 THEN "wake" ELSE "boost"]
  BY Zenon DEF Tick, Goto
<1>5. /\ a \in Seq(Task) /\ (\A x : In(x, l) <=> In(x, a) \/ In(x, b))
      /\ Inj(l) => Inj(a) /\ Inj(b) /\ \A x : ~(In(x, a) /\ In(x, b))
  <2> HIDE DEF l, n
  <2> QED
    BY <1>2, <1>3, SplitFacts, Zenon
<1> HIDE DEF n, l, a, b
<1>6. (\A x : In(x, Reverse(a)) <=> In(x, a)) /\ (Inj(a) => Inj(Reverse(a)))
  BY <1>5, ReverseFacts, Zenon
<1>7. sleeping_list'[c] = b /\ batch'[c] = Reverse(a) /\ pc'[c] \in {"wake", "boost"}
  BY <1>4, Zenon DEF TypeOK
<1>8. \A d \in Cpu : d # c => pc'[d] = pc[d] /\ sleeping_list'[d] = sleeping_list[d] /\ batch'[d] = batch[d]
  BY <1>4, Zenon DEF TypeOK
<1>9. /\ pc[c] = "task" /\ batch[c] = <<>>
      /\ \A t \in Task : current[c] = t =>
            at[t] \in {"user", "kernel", "ks_insert", "ks_yield", "kbd_yield", "zombie"}
  <2>1. (Interruptible(c) \/ Yielding(c)) /\ stk = current
    BY Zenon DEF Tick, TypeOK
  <2>2. pc[c] = "task" /\ batch[c] = <<>>
    BY <2>1 DEF Interruptible, Yielding, Control, CpuControl, TaskControl
  <2> QED
    BY <2>1, <2>2, ConstantFacts DEF Interruptible, Yielding
<1>10. /\ UNCHANGED <<rq, current, picked, state, scpu>>
       /\ UNCHANGED <<blocked_task_list, dead_task_list, to_clean, freed, dropped>>
  BY Zenon DEF Tick, globalVars
<1>11. \A t \in Task : \/ at'[t] = at[t] /\ (at[t] = "kbd_yield" => current[c] # t)
                       \/ current[c] = t /\ at[t] = "ks_yield" /\ at'[t] = "kernel"
                       \/ current[c] = t /\ at[t] = "kbd_yield" /\ at'[t] = "kbd"
  <2>1. CASE current[c] = Idle
    <3>1. at' = at
      BY <2>1, Zenon DEF Tick, TypeOK
    <3> QED
      BY <2>1, <3>1, ConstantFacts, Zenon
  <2>2. ASSUME NEW u \in Task, current[c] = u
        PROVE  \A t \in Task : \/ at'[t] = at[t] /\ (at[t] = "kbd_yield" => current[c] # t)
                               \/ current[c] = t /\ at[t] = "ks_yield" /\ at'[t] = "kernel"
                               \/ current[c] = t /\ at[t] = "kbd_yield" /\ at'[t] = "kbd"
    <3>1. PICK label \in After(c, u) : at' = [at EXCEPT ![u] = label]
      BY <2>2, ConstantFacts, Zenon DEF Tick, Move, TypeOK
    <3>2. at'[u] = label /\ \A t \in Task : t # u => at'[t] = at[t]
      BY <3>1, Zenon DEF TypeOK
    <3>3. \/ at[u] = "ks_yield" /\ label \in {"ks_yield", "kernel"}
          \/ at[u] = "kbd_yield" /\ label = "kbd"
          \/ at[u] \notin {"ks_yield", "kbd_yield"} /\ label = at[u]
      <4>1. CASE at[u] = "ks_yield"
        BY <4>1 DEF After
      <4>2. CASE at[u] = "kbd_yield"
        BY <4>2, Zenon DEF After
      <4>3. CASE at[u] \notin {"ks_yield", "kbd_yield"}
        BY <4>3, Zenon DEF After
      <4> QED
        BY <4>1, <4>2, <4>3, Zenon
    <3> QED
      BY <2>2, <3>2, <3>3, Zenon
  <2> QED
    BY <2>1, <2>2, Zenon DEF TypeOK
<1>12. Inj(sleeping_list[c]) =>
          /\ Inj(sleeping_list'[c]) /\ Inj(batch'[c])
          /\ \A x : /\ In(x, sleeping_list[c]) <=> In(x, sleeping_list'[c]) \/ In(x, batch'[c])
                    /\ ~(In(x, sleeping_list'[c]) /\ In(x, batch'[c]))
  BY <1>5, <1>6, <1>7, Zenon DEF l
<1> QED
  BY <1>7, <1>8, <1>9, <1>10, <1>11, <1>12, Zenon

LEMMA PlacedTick ==
    ASSUME Covered, TypeOK, Control, NEW K, NEW W, NEW L, Placed(K, W, L), NEW c \in Cpu, Tick(c)
    PROVE  \E K2, W2, L2 : Placed(K2, W2, L2)'
<1>1. /\ pc[c] = "task" /\ pc'[c] \in {"wake", "boost"} /\ batch[c] = <<>>
      /\ \A d \in Cpu : d # c => /\ pc'[d] = pc[d] /\ sleeping_list'[d] = sleeping_list[d]
                                 /\ batch'[d] = batch[d]
      /\ UNCHANGED <<rq, current, picked, state, scpu>>
      /\ UNCHANGED <<blocked_task_list, dead_task_list, to_clean, freed, dropped>>
      /\ \A t \in Task : current[c] = t =>
            at[t] \in {"user", "kernel", "ks_insert", "ks_yield", "kbd_yield", "zombie"}
      /\ \A t \in Task : \/ at'[t] = at[t] /\ (at[t] = "kbd_yield" => current[c] # t)
                         \/ current[c] = t /\ at[t] = "ks_yield" /\ at'[t] = "kernel"
                         \/ current[c] = t /\ at[t] = "kbd_yield" /\ at'[t] = "kbd"
  BY TickFacts, Zenon
<1>2. /\ Inj(sleeping_list'[c]) /\ Inj(batch'[c])
      /\ \A x : /\ In(x, sleeping_list[c]) <=> In(x, sleeping_list'[c]) \/ In(x, batch'[c])
                /\ ~(In(x, sleeping_list'[c]) /\ In(x, batch'[c]))
      /\ \A x : ~In(x, batch[c])
  <2>1. Inj(sleeping_list[c])
    BY Zenon DEF Placed, NoDup
  <2> QED
    <3>1. Inj(sleeping_list[c]) =>
             /\ Inj(sleeping_list'[c]) /\ Inj(batch'[c])
             /\ \A x : /\ In(x, sleeping_list[c]) <=> In(x, sleeping_list'[c]) \/ In(x, batch'[c])
                       /\ ~(In(x, sleeping_list'[c]) /\ In(x, batch'[c]))
      BY TickFacts, Zenon
    <3>2. \A x : ~In(x, batch[c])
      BY <1>1, InEmpty, Zenon
    <3> QED
      BY <2>1, <3>1, <3>2, Zenon
<1>3. /\ K \in [Task -> Kind] /\ W \in [Task -> Cpu] /\ L \in [Task -> Level]
      /\ \A u \in Task : PlaceOf(K, W, L, u) /\ TaskInv(K, W, u)
      /\ Idle \notin Task /\ Main \in Task /\ 0 \in Cpu /\ ~Leaving(c) /\ ~Leaving(c)'
  BY <1>1, ConstantFacts, Zenon DEF Placed, Leaving
<1>4. PICK E : E = {x \in Task : In(x, batch'[c])}
  BY Zenon
<1>5. PICK T : T = {x \in Task : x \in E \/ current[c] = x}
  BY Zenon
<1>6. PICK K2 : K2 = [u \in Task |-> IF u \in E THEN "batch" ELSE K[u]]
  BY Zenon
<1>7. /\ T \subseteq Task /\ \A u \in Task : u \in T <=> u \in E \/ current[c] = u
      /\ \A u \in Task : u \in E <=> In(u, batch'[c])
      /\ \A u \in E : u \in Task /\ K[u] = "asleep" /\ W[u] = c /\ K2[u] = "batch"
      /\ \A u \in Task : u \notin E => K2[u] = K[u]
      /\ K2 \in [Task -> Kind]
  <2>1. E \subseteq Task /\ \A u \in Task : u \in E <=> In(u, batch'[c])
    BY <1>4, Zenon
  <2>2. \A u \in E : K[u] = "asleep" /\ W[u] = c
    <3> SUFFICES ASSUME NEW u \in E PROVE K[u] = "asleep" /\ W[u] = c
      BY Zenon
    <3>1. PlaceOn(K, W, L, u, c) /\ In(u, sleeping_list[c])
      BY <1>2, <1>3, <2>1, Zenon DEF PlaceOf
    <3> QED
      BY <3>1, Zenon DEF PlaceOn
  <2> QED
    BY <1>3, <1>5, <1>6, <2>1, <2>2, Zenon DEF Kind
<1>8. \A u \in Task : at[u] = "kbd_yield" => current[c] = u
  <2> SUFFICES ASSUME NEW u \in Task, at[u] = "kbd_yield" PROVE current[c] = u
    BY Zenon
  <2>1. NCpu = 1 /\ current[0] = u
    BY <1>3, Zenon DEF TaskInv
  <2>2. c = 0
    BY <2>1 DEF Cpu
  <2> QED
    BY <2>1, <2>2, Zenon
<1>9. \A u \in Task : /\ at'[u] # "kbd_yield"
                      /\ at'[u] = "new" <=> at[u] = "new"
                      /\ at'[u] = "zombie" <=> at[u] = "zombie"
                      /\ at'[u] = "ks_insert" <=> at[u] = "ks_insert"
  BY <1>1, <1>8, Zenon
<1>10. \A d \in Cpu, u \in Task : Keeps(d, u)' <=> Keeps(d, u)
  BY <1>1, <1>9, Zenon DEF Keeps
<1>11. OthersSame(c, T, K, W)
  <2>1. \A u \in Task : u \notin T => SameTask(u) /\ SameIn(u)
    BY <1>1, <1>7, Zenon DEF SameTask, SameIn
  <2>2. \A u \in Task, d \in Cpu : u \notin T => SameOn(u, d)
    <3> SUFFICES ASSUME NEW u \in Task, NEW d \in Cpu, u \notin T PROVE SameOn(u, d)
      BY Zenon
    <3>1. /\ In(u, sleeping_list'[d]) <=> In(u, sleeping_list[d])
          /\ In(u, batch'[d]) <=> In(u, batch[d])
      BY <1>1, <1>2, <1>7, Zenon
    <3> QED
      BY <1>1, <1>10, <3>1, Zenon DEF SameOn
  <2> QED
    BY <1>1, <1>7, <1>8, <2>1, <2>2, Zenon DEF OthersSame
<1>12. ASSUME NEW t \in Task, current[c] = t PROVE StayInv(K, W, c, t) /\ StayInv(K2, W, c, t)'
  <2>1. StayInv(K, W, c, t) /\ TaskInv(K, W, t)
    BY <1>3, <1>12, Zenon DEF Placed, CpuInv
  <2>2. t \in E => NCpu = 1 \/ t = Main
    <3>1. SUFFICES ASSUME t \in E PROVE NCpu = 1 \/ t = Main
      BY Zenon
    <3>2. K[t] = "asleep"
      BY <1>7, <3>1, Zenon
    <3>3. at[t] = "ks_yield"
      BY <1>1, <1>12, <2>1, <3>2, Zenon DEF StayInv, TaskInv
    <3>4. "msleep" \in Calls /\ t \notin User
      BY <3>3, Zenon DEF Control, CpuControl, TaskControl, UserAt
    <3> QED
      BY <3>4, Zenon DEF Covered, Task, Migratable
  <2>3. K[t] \notin {"rq", "batch"} /\ at[t] # "new" /\ K[t] # "next"
    BY <1>1, <2>1, Zenon DEF StayInv
  <2>4. /\ K2[t] \in {"rq", "batch"} => t \in E /\ W[t] = c
        /\ K2[t] # "next" /\ (K2[t] = "asleep" => K[t] = "asleep")
    BY <1>7, <2>3, Zenon
  <2> QED
    BY <1>1, <1>9, <2>1, <2>2, <2>3, <2>4, Zenon DEF StayInv
<1>13. ASSUME NEW t \in T PROVE PlaceOf(K2, W, L, t)' /\ TaskInv(K2, W, t)'
  <2>1. t \in Task /\ PlaceOf(K, W, L, t) /\ TaskInv(K, W, t)
    BY <1>3, <1>7, Zenon
  <2>2. PlaceIn(K2, t)'
    BY <1>1, <1>7, <1>9, <2>1, Zenon DEF PlaceOf, PlaceIn
  <2>3. ASSUME NEW d \in Cpu PROVE PlaceOn(K2, W, L, t, d)'
    <3>1. PlaceOn(K, W, L, t, d)
      BY <2>1, Zenon DEF PlaceOf
    <3>2. CASE t \in E
      <4>1. /\ K[t] = "asleep" /\ W[t] = c /\ K2[t] = "batch" /\ In(t, batch'[c]) /\ ~In(t, sleeping_list'[c])
        BY <1>2, <1>7, <2>1, <3>2, Zenon
      <4>2. /\ ~(current[d] = t /\ Keeps(d, t)) /\ picked[d] # t /\ (In(t, sleeping_list[d]) => d = c)
            /\ ~In(t, batch[d]) /\ \A p \in Level : ~In(t, rq[d].q[p])
        BY <3>1, <4>1, Zenon DEF PlaceOn
      <4>3. /\ ~(current'[d] = t /\ Keeps(d, t)') /\ picked'[d] # t /\ ~In(t, sleeping_list'[d])
            /\ (In(t, batch'[d]) <=> d = c) /\ \A p \in Level : ~In(t, rq'[d].q[p])
        BY <1>1, <1>10, <2>1, <4>1, <4>2, Zenon
      <4> QED
        BY <4>1, <4>3, Zenon DEF PlaceOn
    <3>3. CASE t \notin E
      <4>1. /\ K2[t] = K[t] /\ (In(t, sleeping_list'[d]) <=> In(t, sleeping_list[d]))
            /\ In(t, batch'[d]) <=> In(t, batch[d])
        BY <1>1, <1>2, <1>7, <2>1, <3>3, Zenon
      <4> QED
        BY <1>1, <1>10, <2>1, <3>1, <4>1, Zenon DEF PlaceOn
    <3> QED
      BY <3>2, <3>3, Zenon
  <2>4. TaskInv(K2, W, t)'
    <3>1. K2[t] = "batch" => /\ state'[t] \in {"SLEEPING", "READY"}
                             /\ (pc'[W[t]] = "kwake" => state'[t] = "READY")
      <4>1. CASE t \in E
        BY <1>1, <1>7, <2>1, <4>1, Zenon DEF TaskInv
      <4>2. CASE t \notin E
        <5>1. K2[t] = "batch" => W[t] \in Cpu /\ W[t] # c
          BY <1>2, <1>3, <1>7, <2>1, <4>2, Zenon DEF PlaceOf, PlaceOn
        <5> QED
          BY <1>1, <1>7, <2>1, <4>2, <5>1, Zenon DEF TaskInv
      <4> QED
        BY <4>1, <4>2, Zenon
    <3>2. /\ K2[t] = K[t] \/ (K2[t] = "batch" /\ K[t] = "asleep")
      BY <1>7, <2>1, Zenon
    <3> QED
      BY <1>1, <1>9, <2>1, <3>1, <3>2, Zenon DEF TaskInv
  <2> QED
    BY <2>2, <2>3, <2>4, Zenon DEF PlaceOf
<1>14. MovedRight(c, T, K2, W, L)
  <2>1. NoDup'
    <3>1. \A d \in Cpu : Inj(sleeping_list'[d]) /\ Inj(batch'[d])
      BY <1>1, <1>2, Zenon DEF Placed, NoDup
    <3> QED
      BY <1>1, <3>1, Zenon DEF Placed, NoDup
  <2>2. ASSUME NEW t \in T, NEW d \in Cpu, d # c, current[d] = t PROVE Leaving(d)
    <3>1. CASE current[c] = t
      BY <1>3, <1>7, <2>2, <3>1, Zenon DEF Placed, Apart
    <3>2. CASE t \in E
      <4>1. t \in Task /\ K[t] = "asleep" /\ W[t] = c
        BY <1>7, <3>2, Zenon
      <4>2. ~Leaving(d) => StayInv(K, W, d, t)
        BY <2>2, <4>1, Zenon DEF Placed, CpuInv
      <4> QED
        BY <2>2, <4>1, <4>2, Zenon DEF StayInv
    <3> QED
      BY <1>7, <3>1, <3>2, Zenon
  <2> QED
    BY <1>13, <2>1, <2>2, Zenon DEF MovedRight
<1>15. CpuRight(c, T, K2, W)
  <2>1. CpuInv(K, W, c)
    BY Zenon DEF Placed
  <2> QED
    BY <1>1, <1>3, <1>12, <2>1, Zenon DEF CpuRight, CpuInv
<1>16. MainInv(K2, W)
  BY <1>3, <1>7, Zenon DEF MainInv, Placed
<1>17. Rest(T, K, W, L, K2, W, L)
  BY <1>3, <1>7, Zenon DEF Rest
<1> QED
  BY <1>7, <1>11, <1>14, <1>15, <1>16, <1>17, StepPlaced, Zenon

-----------------------------------------------------------------------------
LEMMA InitPlaced == Init => \E K, W, L : Placed(K, W, L)
<1> SUFFICES ASSUME Init PROVE \E K, W, L : Placed(K, W, L)
  BY Zenon
<1> USE ConstantFacts
<1>1. PICK K : K = [t \in Task |-> IF t = Main THEN "cpu" ELSE "none"]
  BY Zenon
<1>2. PICK W : W = [t \in Task |-> 0]
  BY Zenon
<1>3. 0 \in Level
  BY DEF Level, PRIO_HIGH, PRIO_LOW
<1>4. /\ K \in [Task -> Kind] /\ W \in [Task -> Cpu] /\ W \in [Task -> Level]
      /\ K[Main] = "cpu" /\ \A t \in Task : W[t] = 0 /\ (t # Main => K[t] = "none")
  BY <1>1, <1>2, <1>3, Zenon DEF Kind
<1>5. /\ \A c \in Cpu : /\ current[c] = IF c = 0 THEN Main ELSE Idle
                        /\ pc[c] = IF c = 0 THEN "task" ELSE "ap"
                        /\ picked[c] = None
      /\ \A t \in Task : /\ state[t] = IF t = Main THEN "RUNNING" ELSE "READY"
                         /\ at[t] = IF t = Main THEN "kernel" ELSE "new"
      /\ freed = {} /\ dropped = {}
  BY Zenon DEF Init
<1>6. /\ \A x : ~In(x, blocked_task_list) /\ ~In(x, dead_task_list) /\ ~In(x, to_clean)
      /\ \A x : \A c \in Cpu : /\ ~In(x, sleeping_list[c]) /\ ~In(x, batch[c])
                               /\ \A p \in Level : ~In(x, rq[c].q[p])
      /\ NoDup
  <2>1. /\ blocked_task_list = <<>> /\ dead_task_list = <<>> /\ to_clean = <<>>
        /\ \A c \in Cpu : sleeping_list[c] = <<>> /\ batch[c] = <<>> /\ \A p \in Level : rq[c].q[p] = <<>>
    BY Zenon DEF Init, EmptyRq
  <2> QED
    BY <2>1, InEmpty, Zenon DEF NoDup
<1>7. ASSUME NEW t \in Task PROVE PlaceOf(K, W, W, t) /\ TaskInv(K, W, t)
  <2>1. PlaceIn(K, t)
    BY <1>4, <1>5, <1>6, Zenon DEF PlaceIn
  <2>2. ASSUME NEW c \in Cpu PROVE PlaceOn(K, W, W, t, c)
    <3>1. current[c] = t /\ Keeps(c, t) <=> t = Main /\ c = 0
      BY <1>5, Zenon DEF Keeps
    <3> QED
      <4>1. W[t] = 0 /\ (K[t] = "cpu" <=> t = Main) /\ (K[t] = "cpu" \/ K[t] = "none")
        BY <1>4, Zenon
      <4>2. picked[c] # t
        BY <1>5, Zenon
      <4> QED
        BY <1>6, <3>1, <4>1, <4>2, Zenon DEF PlaceOn
  <2>3. TaskInv(K, W, t)
    BY <1>4, <1>5, Zenon DEF TaskInv
  <2> QED
    BY <2>1, <2>2, <2>3, Zenon DEF PlaceOf
<1>8. ASSUME NEW c \in Cpu PROVE CpuInv(K, W, c)
  BY <1>4, <1>5 DEF CpuInv, StayInv
<1>9. Apart /\ MainInv(K, W)
  BY <1>4, <1>5 DEF Apart, MainInv
<1> QED
  BY <1>4, <1>6, <1>7, <1>8, <1>9, Zenon DEF Placed

LEMMA PlacedSame ==
    ASSUME NEW K, NEW W, NEW L, Placed(K, W, L), UNCHANGED vars
    PROVE  \E K2, W2, L2 : Placed(K2, W2, L2)'
<1>1. /\ UNCHANGED <<rq, current, sleeping_list, pc, batch, picked, state, at, scpu>>
      /\ UNCHANGED <<blocked_task_list, dead_task_list, to_clean, freed, dropped>>
  BY Zenon DEF vars, cpuVars, taskVars, globalVars
<1>2. /\ NoDup' /\ Apart' /\ \A c \in Cpu, t \in Task : (Keeps(c, t)' <=> Keeps(c, t)) /\ (Leaving(c)' <=> Leaving(c))
  BY <1>1, Zenon DEF Placed, NoDup, Apart, Keeps, Leaving
<1>3. ASSUME NEW t \in Task PROVE PlaceOf(K, W, L, t)' /\ TaskInv(K, W, t)'
  <2>1. PlaceOf(K, W, L, t) /\ TaskInv(K, W, t)
    BY Zenon DEF Placed
  <2>2. PlaceOf(K, W, L, t)'
    BY <1>1, <1>2, <2>1, Zenon DEF PlaceOf, PlaceIn, PlaceOn
  <2> QED
    BY <1>1, <2>1, <2>2, Zenon DEF TaskInv
<1>4. ASSUME NEW c \in Cpu PROVE CpuInv(K, W, c)'
  <2>1. CpuInv(K, W, c)
    BY Zenon DEF Placed
  <2> QED
    BY <1>1, <1>2, <2>1, Zenon DEF CpuInv, StayInv
<1>5. Placed(K, W, L)'
  BY <1>2, <1>3, <1>4, Zenon DEF Placed, MainInv
<1> QED
  BY <1>5, Zenon

LEMMA PlacedNext ==
    ASSUME Covered
    PROVE  SchedInv /\ [Next]_vars => SchedInv'
<1> SUFFICES ASSUME SchedInv, [Next]_vars PROVE SchedInv'
  OBVIOUS
<1>1. TypeOK /\ Control /\ TypeOK' /\ Control'
  BY TypedNext, Zenon DEF SchedInv
<1>2. PICK K, W, L : Placed(K, W, L)
  BY Zenon DEF SchedInv
<1>3. CASE UNCHANGED vars
  BY <1>1, <1>2, <1>3, PlacedSame, Zenon DEF SchedInv
<1>4. CASE Next
  <2>1. PICK c \in Cpu :
             \/ StartIdle(c) \/ MainOn(c) \/ Tick(c) \/ KeyPress(c) \/ Wake(c) \/ Boost(c) \/ Requeue(c)
             \/ Affinity(c) \/ Pick(c) \/ StealFrom(c) \/ Switch(c) \/ KbdWake(c) \/ ReapTake(c) \/ ReapFree(c)
             \/ \E t \in Task : \/ Spawn(c, t) \/ MsleepInsert(c, t) \/ KbdPop(c, t) \/ KbdBlock(c, t)
                                \/ TaskExit(c, t)
                                \/ \E n \in 0 .. MaxSleep : SysSleep(c, t, n) \/ MsleepMark(c, t, n)
    BY <1>4, NextSteps, Zenon
  <2>2. CASE \/ StartIdle(c) \/ MainOn(c) \/ Tick(c) \/ KeyPress(c) \/ Wake(c) \/ Boost(c) \/ Requeue(c)
    BY <1>1, <1>2, <2>2, PlacedBoot, PlacedTick, PlacedKeyPress, PlacedWake, PlacedBoost, PlacedRequeue, Zenon DEF SchedInv
  <2>3. CASE \/ Affinity(c) \/ Pick(c) \/ StealFrom(c) \/ Switch(c) \/ KbdWake(c) \/ ReapTake(c) \/ ReapFree(c)
    BY <1>1, <1>2, <2>3, PlacedAffinity, PlacedPick, PlacedSteal, PlacedSwitch, PlacedKbdWake, PlacedReap, Zenon DEF SchedInv
  <2>4. ASSUME NEW t \in Task,
               \/ Spawn(c, t) \/ MsleepInsert(c, t) \/ KbdPop(c, t) \/ KbdBlock(c, t) \/ TaskExit(c, t)
               \/ \E n \in 0 .. MaxSleep : SysSleep(c, t, n) \/ MsleepMark(c, t, n)
        PROVE  SchedInv'
    <3>1. 0 \in 0 .. MaxSleep
      BY ConstantFacts
    <3>2. \E K2, W2, L2 : Placed(K2, W2, L2)'
      BY <1>1, <1>2, <2>4, <3>1, PlacedSpawn, PlacedMsleep, PlacedKbd, PlacedExit, PlacedSysSleep, Zenon
    <3> QED
      BY <1>1, <3>2, Zenon DEF SchedInv
  <2> QED
    BY <2>1, <2>2, <2>3, <2>4, Zenon
<1> QED
  BY <1>3, <1>4, Zenon

(* In every reachable state each task has one place, and its state, its    *)
(* place and the CPUs that are on its stack agree.                         *)
THEOREM TasksArePlaced ==
    ASSUME Covered
    PROVE  Spec => []SchedInv
<1>1. Init => SchedInv
  BY InitTyped, InitPlaced, Zenon DEF SchedInv
<1>2. SchedInv /\ [Next]_vars => SchedInv'
  BY PlacedNext
<1> QED
  BY <1>1, <1>2, PTL DEF Spec
=============================================================================
