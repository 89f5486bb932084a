---------------------------- MODULE SchedProofs ----------------------------
(***************************************************************************)
(* The properties of the scheduler, from the places of its tasks, for any  *)
(* number of tasks and of CPUs.                                            *)
(***************************************************************************)
EXTENDS SchedPlaces, FiniteSetTheorems

(* schedule publishes the context of the task it puts back before it has   *)
(* left its stack, yet no second CPU executes on a stack that is in use:   *)
(* one of any two CPUs on it is on its way off, for any number of CPUs and *)
(* tasks.                                                                  *)
THEOREM StacksAreNotShared ==
    ASSUME Covered
    PROVE  Spec => []StackShared
<1>1. SchedInv => StackShared
  BY DEF SchedInv, Placed, Apart, StackShared, TypeOK
<1> QED
  BY <1>1, TasksArePlaced, PTL

-----------------------------------------------------------------------------
LEMMA PositionsFacts ==
    ASSUME NEW k, NEW l, NEW t
    PROVE  /\ ~In(t, l) => Positions(k, l, t) = {}
           /\ In(t, l) /\ Inj(l) => \E z : Positions(k, l, t) = {z}
<1>1. ~In(t, l) => Positions(k, l, t) = {}
  BY DEF In, Positions
<1>2. ASSUME In(t, l), Inj(l) PROVE \E z : Positions(k, l, t) = {z}
  <2>1. PICK i \in DOMAIN l : l[i] = t
    BY <1>2 DEF In
  <2>2. {j \in DOMAIN l : l[j] = t} = {i}
    BY <1>2, <2>1 DEF Inj
  <2>3. Positions(k, l, t) = {<<k, i>>}
    BY <2>2 DEF Positions
  <2> QED
    BY <2>3, Zenon
<1> QED
  BY <1>1, <1>2, Zenon

(* One part holds the owner, the others are empty. *)
LEMMA PartFacts ==
    ASSUME NEW K, NEW W, NEW L, Placed(K, W, L), NEW t \in Task
    PROVE  /\ IF K[t] = "cpu" THEN \E z : OnCpu(t) = {z} ELSE OnCpu(t) = {}
           /\ IF K[t] = "next" THEN \E z : AsNext(t) = {z} ELSE AsNext(t) = {}
           /\ IF K[t] = "rq" THEN \E z : InRq(t) = {z} ELSE InRq(t) = {}
           /\ IF K[t] = "asleep" THEN \E z : Asleep(t) = {z} ELSE Asleep(t) = {}
           /\ IF K[t] = "batch" THEN \E z : InBatch(t) = {z} ELSE InBatch(t) = {}
<1>1. W[t] \in Cpu /\ L[t] \in Level /\ PlaceOf(K, W, L, t) /\ NoDup
  BY DEF Placed
<1>2. IF K[t] = "cpu" THEN \E z : OnCpu(t) = {z} ELSE OnCpu(t) = {}
  <2>1. \A d \in Cpu : (K[t] = "cpu" /\ W[t] = d) <=> (current[d] = t /\ Keeps(d, t))
    BY <1>1 DEF PlaceOf, PlaceOn
  <2>2. CASE K[t] = "cpu"
    <3>1. {d \in Cpu : current[d] = t /\ Keeps(d, t)} = {W[t]}
      BY <1>1, <2>1, <2>2
    <3>2. OnCpu(t) = {<<"cpu", W[t]>>}
      BY <3>1, Zenon DEF OnCpu
    <3> QED
      BY <2>2, <3>2, Zenon
  <2>3. CASE K[t] # "cpu"
    BY <2>1, <2>3, Zenon DEF OnCpu
  <2> QED
    BY <2>2, <2>3, Zenon
<1>3. IF K[t] = "next" THEN \E z : AsNext(t) = {z} ELSE AsNext(t) = {}
  <2>1. \A d \in Cpu : (K[t] = "next" /\ W[t] = d) <=> picked[d] = t
    BY <1>1, Zenon DEF PlaceOf, PlaceOn
  <2>2. CASE K[t] = "next"
    <3>1. {d \in Cpu : picked[d] = t} = {W[t]}
      BY <1>1, <2>1, <2>2
    <3>2. AsNext(t) = {<<"next", W[t]>>}
      BY <3>1 DEF AsNext
    <3> QED
      BY <2>2, <3>2, Zenon
  <2>3. CASE K[t] # "next"
    BY <2>1, <2>3, Zenon DEF AsNext
  <2> QED
    BY <2>2, <2>3, Zenon
<1>4. IF K[t] = "rq" THEN \E z : InRq(t) = {z} ELSE InRq(t) = {}
  <2>1. \A d \in Cpu, p \in Level : (K[t] = "rq" /\ W[t] = d /\ L[t] = p) <=> In(t, rq[d].q[p])
    BY <1>1 DEF PlaceOf, PlaceOn
  <2>2. \A d \in Cpu, p \in Level : ~(K[t] = "rq" /\ W[t] = d /\ L[t] = p)
                                    => Positions(<<"rq", d, p>>, rq[d].q[p], t) = {}
    BY <2>1, PositionsFacts
  <2>3. CASE K[t] = "rq"
    <3>1. PICK z : Positions(<<"rq", W[t], L[t]>>, rq[W[t]].q[L[t]], t) = {z}
      <4>1. In(t, rq[W[t]].q[L[t]]) /\ Inj(rq[W[t]].q[L[t]])
        BY <1>1, <2>1, <2>3 DEF NoDup
      <4> QED
        BY <4>1, PositionsFacts, Zenon
    <3> DEFINE P(d, p) == Positions(<<"rq", d, p>>, rq[d].q[p], t)
    <3>2. /\ P(W[t], L[t]) = {z} /\ InRq(t) = UNION {P(d, p) : d \in Cpu, p \in Level}
          /\ \A d \in Cpu, p \in Level : ~(W[t] = d /\ L[t] = p) => P(d, p) = {}
      BY <2>2, <3>1 DEF InRq
    <3> HIDE DEF P
    <3>3. \A y : y \in InRq(t) <=> \E d \in Cpu, p \in Level : y \in P(d, p)
      BY <3>2
    <3>4. \A y : y \in InRq(t) <=> y = z
      BY <1>1, <3>2, <3>3, Zenon
    <3> QED
      BY <2>3, <3>4
  <2>4. CASE K[t] # "rq"
    <3> DEFINE P(d, p) == Positions(<<"rq", d, p>>, rq[d].q[p], t)
    <3>1. InRq(t) = UNION {P(d, p) : d \in Cpu, p \in Level} /\ \A d \in Cpu, p \in Level : P(d, p) = {}
      BY <2>2, <2>4 DEF InRq
    <3> HIDE DEF P
    <3>2. InRq(t) = {}
      BY <3>1
    <3> QED
      BY <2>4, <3>2, Zenon
  <2> QED
    BY <2>3, <2>4, Zenon
<1>5. IF K[t] = "asleep" THEN \E z : Asleep(t) = {z} ELSE Asleep(t) = {}
  <2>1. \A d \in Cpu : (K[t] = "asleep" /\ W[t] = d) <=> In(t, sleeping_list[d])
    BY <1>1 DEF PlaceOf, PlaceOn
  <2>2. \A d \in Cpu : ~(K[t] = "asleep" /\ W[t] = d) => Positions(<<"asleep", d>>, sleeping_list[d], t) = {}
    BY <2>1, PositionsFacts
  <2>3. CASE K[t] = "asleep"
    <3>1. PICK z : Positions(<<"asleep", W[t]>>, sleeping_list[W[t]], t) = {z}
      <4>1. In(t, sleeping_list[W[t]]) /\ Inj(sleeping_list[W[t]])
        BY <1>1, <2>1, <2>3 DEF NoDup
      <4> QED
        BY <4>1, PositionsFacts, Zenon
    <3>2. \A y : y \in Asleep(t) <=> \E d \in Cpu : y \in Positions(<<"asleep", d>>, sleeping_list[d], t)
      BY Zenon DEF Asleep
    <3> DEFINE P(d) == Positions(<<"asleep", d>>, sleeping_list[d], t)
    <3>3. P(W[t]) = {z} /\ (\A d \in Cpu : W[t] # d => P(d) = {}) /\ \A y : y \in Asleep(t) <=> \E d \in Cpu : y \in P(d)
      BY <2>2, <3>1, <3>2, Zenon
    <3> HIDE DEF P
    <3>4. \A y : y \in Asleep(t) <=> y = z
      BY <1>1, <3>3
    <3> QED
      BY <2>3, <3>4
  <2>4. CASE K[t] # "asleep"
    BY <2>2, <2>4, Zenon DEF Asleep
  <2> QED
    BY <2>3, <2>4, Zenon
<1>6. IF K[t] = "batch" THEN \E z : InBatch(t) = {z} ELSE InBatch(t) = {}
  <2>1. \A d \in Cpu : (K[t] = "batch" /\ W[t] = d) <=> In(t, batch[d])
    BY <1>1, Zenon DEF PlaceOf, PlaceOn
  <2>2. \A d \in Cpu : ~(K[t] = "batch" /\ W[t] = d) => Positions(<<"batch", d>>, batch[d], t) = {}
    BY <2>1, PositionsFacts, Zenon
  <2>3. CASE K[t] = "batch"
    <3>1. PICK z : Positions(<<"batch", W[t]>>, batch[W[t]], t) = {z}
      <4>1. In(t, batch[W[t]]) /\ Inj(batch[W[t]])
        BY <1>1, <2>1, <2>3 DEF NoDup
      <4> QED
        BY <4>1, PositionsFacts, Zenon
    <3>2. \A y : y \in InBatch(t) <=> \E d \in Cpu : y \in Positions(<<"batch", d>>, batch[d], t)
      BY Zenon DEF InBatch
    <3> DEFINE P(d) == Positions(<<"batch", d>>, batch[d], t)
    <3>3. P(W[t]) = {z} /\ (\A d \in Cpu : W[t] # d => P(d) = {}) /\ \A y : y \in InBatch(t) <=> \E d \in Cpu : y \in P(d)
      BY <2>2, <3>1, <3>2, Zenon
    <3> HIDE DEF P
    <3>4. \A y : y \in InBatch(t) <=> y = z
      BY <1>1, <3>3
    <3> QED
      BY <2>3, <3>4
  <2>4. CASE K[t] # "batch"
    BY <2>2, <2>4, Zenon DEF InBatch
  <2> QED
    BY <2>3, <2>4
<1> QED
  BY <1>2, <1>3, <1>4, <1>5, <1>6, Zenon

LEMMA OwnersFacts ==
    ASSUME NEW K, NEW W, NEW L, Placed(K, W, L), NEW t \in Task
    PROVE  IF K[t] = "none" THEN Owners(t) = {} ELSE \E z : Owners(t) = {z}
<1> DEFINE B == Positions("blocked", blocked_task_list, t)
           D == Positions("dead", dead_task_list, t)
           C == Positions("clean", to_clean, t)
<1>1. Owners(t) = OnCpu(t) \cup AsNext(t) \cup InRq(t) \cup Asleep(t) \cup InBatch(t) \cup B \cup D \cup C
  BY Zenon DEF Owners
<1>2. /\ IF K[t] = "blocked" THEN \E z : B = {z} ELSE B = {}
      /\ IF K[t] = "dead" THEN \E z : D = {z} ELSE D = {}
      /\ IF K[t] = "clean" THEN \E z : C = {z} ELSE C = {}
  <2>1. PlaceIn(K, t) /\ NoDup
    BY DEF Placed, PlaceOf
  <2> QED
    BY <2>1, PositionsFacts, Zenon DEF PlaceIn, NoDup
<1>3. K[t] \in Kind
  BY DEF Placed
<1>4. /\ IF K[t] = "cpu" THEN \E z : OnCpu(t) = {z} ELSE OnCpu(t) = {}
      /\ IF K[t] = "next" THEN \E z : AsNext(t) = {z} ELSE AsNext(t) = {}
      /\ IF K[t] = "rq" THEN \E z : InRq(t) = {z} ELSE InRq(t) = {}
      /\ IF K[t] = "asleep" THEN \E z : Asleep(t) = {z} ELSE Asleep(t) = {}
      /\ IF K[t] = "batch" THEN \E z : InBatch(t) = {z} ELSE InBatch(t) = {}
  BY PartFacts, Zenon
<1> HIDE DEF B, D, C
<1>5. CASE K[t] = "none"
  BY <1>1, <1>2, <1>4, <1>5
<1>6. CASE K[t] \in {"cpu", "next", "rq", "asleep"}
  BY <1>1, <1>2, <1>4, <1>6, Zenon
<1>7. CASE K[t] \in {"batch", "blocked", "dead", "clean"}
  BY <1>1, <1>2, <1>4, <1>7, Zenon
<1> QED
  BY <1>3, <1>5, <1>6, <1>7, Zenon DEF Kind

(* No task is lost and none is in two places, for any number of CPUs and   *)
(* tasks: whatever the order of timer interrupts, yields, sleeps, steals   *)
(* and exits, a task that exists is on one list, on one CPU or about to be *)
(* switched to by one, and a freed or dropped one is nowhere.              *)
THEOREM TasksHaveOneOwner ==
    ASSUME Covered
    PROVE  Spec => []OneOwner
<1>1. SchedInv => OneOwner
  <2>1. SUFFICES ASSUME SchedInv, NEW t \in Task
                 PROVE  Cardinality(Owners(t)) = IF at[t] = "new" \/ t \in freed \cup dropped THEN 0 ELSE 1
    BY DEF OneOwner
  <2>2. PICK K, W, L : Placed(K, W, L)
    BY <2>1, Zenon DEF SchedInv
  <2>3. K[t] = "none" <=> at[t] = "new" \/ t \in freed \cup dropped
    BY <2>2, Zenon DEF Placed, PlaceOf, PlaceIn
  <2>4. IF K[t] = "none" THEN Owners(t) = {} ELSE \E z : Owners(t) = {z}
    BY <2>2, OwnersFacts, Zenon
  <2> QED
    BY <2>3, <2>4, FS_EmptySet, FS_Singleton, Zenon
<1> QED
  BY <1>1, TasksArePlaced, PTL

-----------------------------------------------------------------------------
(***************************************************************************)
(* The order of the sleeping lists, which needs the places: the wake-up    *)
(* time of a task only changes while it is on no sleeping list.            *)
(***************************************************************************)
InOrder(l, r) == \A i, j \in 1 .. Len(l) : i < j => r[l[i]] <= r[l[j]]

Sorted == \A c \in Cpu : InOrder(sleeping_list[c], left)

LEMMA OrderKept ==
    ASSUME NEW l \in Seq(Task), NEW r, NEW s, InOrder(l, r), \A x \in Task : In(x, l) => s[x] = r[x]
    PROVE  InOrder(l, s)
<1>1. \A i \in 1 .. Len(l) : l[i] \in Task /\ In(l[i], l)
  BY DEF In
<1> QED
  BY <1>1 DEF InOrder

(* A task that wakes at s[e] put before the first that does not wake earlier. *)
LEMMA OrderInsert ==
    ASSUME NEW l \in Seq(Task), NEW r \in [Task -> Int], NEW e \in Task, NEW n \in 1 .. Len(l) + 1,
           InOrder(l, r), \A j \in 1 .. (n - 1) : r[l[j]] < r[e], n <= Len(l) => r[l[n]] >= r[e]
    PROVE  InOrder(InsertAt(l, n, e), r)
<1> DEFINE m == InsertAt(l, n, e)
<1>1. /\ m \in Seq(Task) /\ Len(m) = Len(l) + 1
      /\ \A i \in 1 .. Len(l) + 1 : m[i] = IF i < n THEN l[i] ELSE IF i = n THEN e ELSE l[i - 1]
  BY InsertFacts
<1> HIDE DEF m
<1>2. Len(l) \in Nat /\ n \in Nat
  OBVIOUS
<1>3. \A i \in 1 .. Len(l) : r[l[i]] \in Int
  BY <1>2
<1>4. \A i \in 1 .. Len(l) : i >= n => r[l[i]] >= r[e]
  <2>1. SUFFICES ASSUME NEW i \in 1 .. Len(l), i >= n PROVE r[l[i]] >= r[e]
    OBVIOUS
  <2>2. n \in 1 .. Len(l) /\ r[l[n]] >= r[e] /\ r[l[n]] \in Int /\ r[l[i]] \in Int /\ r[e] \in Int
    BY <1>2, <1>3, <2>1
  <2>3. i = n \/ r[l[n]] <= r[l[i]]
    BY <1>2, <2>1, <2>2 DEF InOrder
  <2> QED
    BY <2>2, <2>3
<1>5. SUFFICES ASSUME NEW i \in 1 .. Len(l) + 1, NEW j \in 1 .. Len(l) + 1, i < j PROVE r[m[i]] <= r[m[j]]
  BY <1>1, Zenon DEF InOrder, m
<1>6. CASE j < n
  <2>1. m[i] = l[i] /\ m[j] = l[j] /\ i \in 1 .. Len(l) /\ j \in 1 .. Len(l)
    BY <1>1, <1>2, <1>5, <1>6
  <2> QED
    BY <1>5, <2>1 DEF InOrder
<1>7. CASE j = n
  <2>1. m[i] = l[i] /\ m[j] = e /\ i \in 1 .. (n - 1) /\ i \in 1 .. Len(l)
    BY <1>1, <1>2, <1>5, <1>7
  <2>2. r[l[i]] < r[e] /\ r[l[i]] \in Int /\ r[e] \in Int
    BY <1>3, <2>1, Zenon
  <2> QED
    BY <2>1, <2>2
<1>8. CASE j > n /\ i < n
  <2>1. m[i] = l[i] /\ m[j] = l[j - 1] /\ i \in 1 .. Len(l) /\ j - 1 \in 1 .. Len(l) /\ i < j - 1
    BY <1>1, <1>2, <1>5, <1>8
  <2> QED
    BY <2>1, Zenon DEF InOrder
<1>9. CASE j > n /\ i = n
  <2>1. m[i] = e /\ m[j] = l[j - 1] /\ j - 1 \in 1 .. Len(l) /\ j - 1 >= n
    BY <1>1, <1>2, <1>5, <1>9
  <2>2. r[l[j - 1]] >= r[e] /\ r[l[j - 1]] \in Int /\ r[e] \in Int
    BY <1>3, <1>4, <2>1, Zenon
  <2> QED
    BY <2>1, <2>2, Zenon
<1>10. CASE j > n /\ i > n
  <2>1. m[i] = l[i - 1] /\ m[j] = l[j - 1] /\ i - 1 \in 1 .. Len(l) /\ j - 1 \in 1 .. Len(l) /\ i - 1 < j - 1
    BY <1>1, <1>2, <1>5, <1>10
  <2> QED
    BY <2>1, Zenon DEF InOrder
<1> QED
  BY <1>2, <1>6, <1>7, <1>8, <1>9, <1>10

(* A tick lowers every wake-up time alike, and what is left of a list is   *)
(* in order.                                                               *)
LEMMA OrderTick ==
    ASSUME NEW l \in Seq(Task), NEW r \in [Task -> Int], NEW n \in 0 .. Len(l), InOrder(l, r)
    PROVE  /\ InOrder(l, [t \in Task |-> Elapse(r[t], -1)])
           /\ InOrder(SubSeq(l, n + 1, Len(l)), r)
<1>1. \A i \in 1 .. Len(l) : l[i] \in Task /\ r[l[i]] \in Int
  OBVIOUS
<1>2. \A a, b \in Int : a <= b => Elapse(a, -1) <= Elapse(b, -1)
  BY DEF Elapse
<1>3. InOrder(l, [t \in Task |-> Elapse(r[t], -1)])
  BY <1>1, <1>2, Zenon DEF InOrder
<1> DEFINE b == SubSeq(l, n + 1, Len(l))
<1>4. Len(b) = Len(l) - n /\ \A i \in 1 .. Len(l) - n : b[i] = l[i + n]
  BY SplitFacts
<1>5. InOrder(b, r)
  <2> HIDE DEF b
  <2>1. SUFFICES ASSUME NEW i \in 1 .. Len(b), NEW j \in 1 .. Len(b), i < j PROVE r[b[i]] <= r[b[j]]
    BY DEF InOrder
  <2>2. /\ i + n \in 1 .. Len(l) /\ j + n \in 1 .. Len(l) /\ i + n < j + n
        /\ b[i] = l[i + n] /\ b[j] = l[j + n]
    <3>1. Len(l) \in Nat /\ n \in Nat /\ i \in 1 .. Len(l) - n /\ j \in 1 .. Len(l) - n
      BY <1>4
    <3>2. i + n \in 1 .. Len(l) /\ j + n \in 1 .. Len(l) /\ i + n < j + n
      BY <2>1, <3>1
    <3> QED
      BY <1>4, <3>1, <3>2, Zenon
  <2> QED
    BY <2>2, Zenon DEF InOrder
<1> QED
  BY <1>3, <1>5, Zenon

LEMMA SortedTick ==
    ASSUME TypeOK, Sorted, NEW c \in Cpu, Tick(c)
    PROVE  Sorted'
<1> DEFINE l == sleeping_list[c]
           n == Expired(l, left')
           b == SubSeq(l, n + 1, Len(l))
<1>1. /\ left' = [t \in Task |-> IF c = 0 THEN Elapse(left[t], -1) ELSE left[t]]
      /\ sleeping_list' = [sleeping_list EXCEPT ![c] = b]
      /\ left' \in [Task -> Int] /\ left \in [Task -> Int] /\ sleeping_list \in [Cpu -> Seq(Task)]
  BY DEF Tick, TypeOK, Elapse
<1>2. ASSUME NEW d \in Cpu PROVE InOrder(sleeping_list[d], left')
  <2>1. sleeping_list[d] \in Seq(Task) /\ InOrder(sleeping_list[d], left) /\ 0 \in 0 .. Len(sleeping_list[d])
    BY <1>1 DEF Sorted
  <2>2. CASE c = 0
    <3>1. left' = [t \in Task |-> Elapse(left[t], -1)]
      BY <1>1, <2>2, Zenon
    <3> QED
      BY <1>1, <2>1, <3>1, OrderTick, Zenon
  <2>3. CASE c # 0
    <3>1. \A x \in Task : left'[x] = left[x]
      BY <1>1, <2>3, Zenon
    <3> QED
      BY <2>1, <3>1, OrderKept, Zenon
  <2> QED
    BY <2>2, <2>3, Zenon
<1>3. l \in Seq(Task) /\ InOrder(l, left')
  BY <1>1, <1>2, Zenon
<1>4. InOrder(b, left')
  <2> HIDE DEF l
  <2>1. n \in 0 .. Len(l)
    BY <1>1, <1>3, ExpiredFacts, Zenon
  <2> HIDE DEF n
  <2> QED
    BY <1>1, <1>3, <2>1, OrderTick, Zenon
<1>5. ASSUME NEW d \in Cpu PROVE InOrder(sleeping_list'[d], left')
  <2>1. sleeping_list'[d] = IF d = c THEN b ELSE sleeping_list[d]
    <3> HIDE DEF b
    <3> QED
      BY <1>1, Zenon
  <2> QED
    BY <1>2, <1>4, <2>1, Zenon
<1> QED
  BY <1>5, Zenon DEF Sorted

(* Task t, on no sleeping list, gets the wake-up time n and its place on   *)
(* the list of CPU c.                                                      *)
LEMMA SortedInsert ==
    ASSUME TypeOK, Sorted, NEW c \in Cpu, NEW t \in Task, NEW n \in Int, \A d \in Cpu : ~In(t, sleeping_list[d]),
           left' \in [Task -> Int], left'[t] = n, \A x \in Task : x # t => left'[x] = left[x],
           sleeping_list' = [sleeping_list EXCEPT ![c] = InsertAt(@, Place(@, n), t)]
    PROVE  Sorted'
<1>1. ASSUME NEW d \in Cpu PROVE sleeping_list[d] \in Seq(Task) /\ InOrder(sleeping_list[d], left')
  <2>1. /\ sleeping_list[d] \in Seq(Task) /\ InOrder(sleeping_list[d], left)
        /\ \A x \in Task : In(x, sleeping_list[d]) => left'[x] = left[x]
    BY DEF Sorted, TypeOK
  <2> QED
    BY <2>1, OrderKept, Zenon
<1> DEFINE l == sleeping_list[c]
           i == Place(l, n)
           m == InsertAt(l, i, t)
<1>2. l \in Seq(Task) /\ InOrder(l, left') /\ ~In(t, l) /\ left \in [Task -> Int]
  BY <1>1 DEF TypeOK
<1>3. InOrder(m, left')
  <2> HIDE DEF l
  <2>1. /\ i \in 1 .. Len(l) + 1
        /\ \A j \in 1 .. (i - 1) : left[l[j]] < n
        /\ i <= Len(l) => left[l[i]] >= n
    BY <1>2, PlaceFacts, Zenon
  <2> HIDE DEF i
  <2>2. \A j \in 1 .. Len(l) : l[j] \in Task /\ l[j] # t
    BY <1>2 DEF In
  <2>3. \A j \in 1 .. Len(l) : left'[l[j]] = left[l[j]]
    BY <2>2, Zenon
  <2>4. Len(l) \in Nat
    BY <1>2
  <2>5. /\ \A j \in 1 .. (i - 1) : left'[l[j]] < left'[t]
        /\ i <= Len(l) => left'[l[i]] >= left'[t]
    <3>1. ASSUME NEW j \in 1 .. (i - 1) PROVE left'[l[j]] < left'[t]
      <4>1. j \in 1 .. Len(l)
        BY <2>1, <2>4
      <4> QED
        BY <2>1, <2>3, <4>1, Zenon
    <3>2. ASSUME i <= Len(l) PROVE left'[l[i]] >= left'[t]
      <4>1. i \in 1 .. Len(l)
        BY <2>1, <2>4, <3>2
      <4> QED
        BY <2>1, <2>3, <3>2, <4>1, Zenon
    <3> QED
      BY <3>1, <3>2, Zenon
  <2> QED
    BY <1>2, <2>1, <2>5, OrderInsert, Zenon
<1>4. ASSUME NEW d \in Cpu PROVE InOrder(sleeping_list'[d], left')
  <2>1. sleeping_list'[d] = IF d = c THEN m ELSE sleeping_list[d]
    <3>1. sleeping_list' = [sleeping_list EXCEPT ![c] = m]
      BY Zenon
    <3> HIDE DEF m
    <3> QED
      BY <3>1, Zenon DEF TypeOK
  <2> QED
    BY <1>1, <1>3, <2>1, Zenon
<1> QED
  BY <1>4, Zenon DEF Sorted

(* The wake-up time of a task on no sleeping list changes. *)
LEMMA SortedOther ==
    ASSUME TypeOK, Sorted, sleeping_list' = sleeping_list,
           \A x \in Task : \A d \in Cpu : In(x, sleeping_list[d]) => left'[x] = left[x]
    PROVE  Sorted'
<1>1. ASSUME NEW d \in Cpu PROVE InOrder(sleeping_list[d], left')
  <2>1. /\ sleeping_list[d] \in Seq(Task) /\ InOrder(sleeping_list[d], left)
        /\ \A x \in Task : In(x, sleeping_list[d]) => left'[x] = left[x]
    BY Zenon DEF Sorted, TypeOK
  <2> QED
    BY <2>1, OrderKept, Zenon
<1> QED
  BY <1>1, Zenon DEF Sorted

LEMMA SortedNext ==
    ASSUME TypeOK, Control, NEW K, NEW W, NEW L, Placed(K, W, L), Sorted, [Next]_vars, TypeOK'
    PROVE  Sorted'
<1>0. ASSUME UNCHANGED <<sleeping_list, left>> PROVE Sorted'
  BY <1>0, SortedOther, Zenon
<1>1. CASE UNCHANGED vars
  BY <1>0, <1>1, Zenon DEF vars, cpuVars, taskVars
<1>2. CASE Next
  <2>1. PICK c \in Cpu :
             \/ StartIdle(c) \/ MainOn(c) \/ Tick(c) \/ KeyPress(c) \/ Wake(c) \/ Boost(c) \/ Requeue(c)
             \/ Affinity(c) \/ Pick(c) \/ StealFrom(c) \/ Switch(c) \/ KbdWake(c) \/ ReapTake(c) \/ ReapFree(c)
             \/ \E t \in Task : \/ Spawn(c, t) \/ MsleepInsert(c, t) \/ KbdPop(c, t) \/ KbdBlock(c, t)
                                \/ TaskExit(c, t)
                                \/ \E n \in 0 .. MaxSleep : SysSleep(c, t, n) \/ MsleepMark(c, t, n)
    BY <1>2, NextSteps, Zenon
  <2>2. CASE StartIdle(c) \/ MainOn(c) \/ KeyPress(c) \/ Boost(c) \/ Requeue(c) \/ Affinity(c)
    BY <1>0, <2>2, Zenon DEF StartIdle, MainOn, KeyPress, Boost, Requeue, Affinity, cpuVars, taskVars
  <2>3. CASE Pick(c) \/ StealFrom(c) \/ Switch(c) \/ KbdWake(c) \/ ReapTake(c) \/ ReapFree(c)
    BY <1>0, <2>3, Zenon DEF Pick, StealFrom, Switch, KbdWake, ReapTake, ReapFree, cpuVars, taskVars
  <2>4. CASE Tick(c)
    BY <2>4, SortedTick, Zenon
  <2>5. CASE Wake(c)
    <3>1. PICK t \in Task : t = Head(batch[c])
      BY <2>5, BatchFacts, Zenon DEF Wake
    <3>2. /\ pc[c] = "wake" /\ batch' = [batch EXCEPT ![c] = Tail(batch[c])]
          /\ left' = [left EXCEPT ![t] = -1] /\ sleeping_list' = sleeping_list
      BY <2>5, <3>1, Zenon DEF Wake
    <3>3. In(t, batch[c])
      BY <3>1, <3>2, BatchPlaced, Zenon DEF Placed
    <3>4. \A d \in Cpu : ~In(t, sleeping_list[d])
      BY <3>3 DEF Placed, PlaceOf, PlaceOn
    <3>5. \A x \in Task : x # t => left'[x] = left[x]
      BY <3>2, Zenon DEF TypeOK
    <3>6. \A x \in Task : \A d \in Cpu : In(x, sleeping_list[d]) => left'[x] = left[x]
      BY <3>4, <3>5, Zenon
    <3> QED
      BY <3>2, <3>6, SortedOther, Zenon
  <2>6. ASSUME NEW t \in Task,
               \/ Spawn(c, t) \/ MsleepInsert(c, t) \/ KbdPop(c, t) \/ KbdBlock(c, t) \/ TaskExit(c, t)
               \/ \E n \in 0 .. MaxSleep : SysSleep(c, t, n) \/ MsleepMark(c, t, n)
        PROVE  Sorted'
    <3>1. CASE Spawn(c, t) \/ KbdPop(c, t) \/ KbdBlock(c, t) \/ TaskExit(c, t)
      BY <1>0, <3>1, Zenon DEF Spawn, KbdPop, KbdBlock, TaskExit, cpuVars, taskVars
    <3>2. ASSUME Runs(c, t), at[t] \in {"user", "kernel", "ks_insert"}
          PROVE  (\A d \in Cpu : ~In(t, sleeping_list[d])) /\ (at[t] = "ks_insert" => scpu[t] = c)
      <4>1. K[t] = "cpu" /\ StayInv(K, W, c, t) /\ PlaceOf(K, W, L, t)
        <5>1. OwnCode(t)
          BY <3>2, Zenon DEF OwnCode
        <5>2. CallerAt(K, W, L, c, t)
          BY <3>2, <5>1, CallerPlaced, Zenon
        <5> QED
          BY <5>2, Zenon DEF CallerAt
      <4> QED
        BY <4>1, Zenon DEF PlaceOf, PlaceOn, StayInv
    <3>3. CASE MsleepInsert(c, t)
      <4>1. /\ Runs(c, t) /\ at[t] = "ks_insert" /\ left' = left
            /\ sleeping_list' = [sleeping_list EXCEPT ![scpu[t]] = InsertAt(@, Place(@, left[t]), t)]
        BY <3>3, Zenon DEF MsleepInsert
      <4>2. (\A d \in Cpu : ~In(t, sleeping_list[d])) /\ scpu[t] = c
        BY <3>2, <4>1, Zenon
      <4>3. sleeping_list' = [sleeping_list EXCEPT ![c] = InsertAt(@, Place(@, left[t]), t)]
        BY <4>1, <4>2, Zenon
      <4>4. left[t] \in Int /\ left' \in [Task -> Int] /\ left'[t] = left[t] /\ \A x \in Task : left'[x] = left[x]
        BY <4>1, Zenon DEF TypeOK
      <4> QED
        BY <4>2, <4>3, <4>4, SortedInsert, Zenon
    <3>4. ASSUME NEW n \in 0 .. MaxSleep, SysSleep(c, t, n) \/ MsleepMark(c, t, n) PROVE Sorted'
      <4>1. Runs(c, t) /\ at[t] \in {"user", "kernel", "ks_insert"}
        BY <3>4, Zenon DEF SysSleep, MsleepMark
      <4>2. \A d \in Cpu : ~In(t, sleeping_list[d])
        BY <3>2, <4>1, Zenon
      <4>3. CASE SysSleep(c, t, n) /\ n = 0
        BY <1>0, <4>3, Zenon DEF SysSleep
      <4>4. CASE SysSleep(c, t, n) /\ n # 0
        <5>1. /\ left' = [left EXCEPT ![t] = n]
              /\ sleeping_list' = [sleeping_list EXCEPT ![c] = InsertAt(@, Place(@, n), t)]
          BY <4>4 DEF SysSleep
        <5>2. n \in Int /\ left' \in [Task -> Int] /\ left'[t] = n /\ \A x \in Task : x # t => left'[x] = left[x]
          BY <5>1, ConstantFacts, Zenon DEF TypeOK
        <5> QED
          BY <4>2, <5>1, <5>2, SortedInsert, Zenon
      <4>5. CASE MsleepMark(c, t, n)
        <5>1. left' = [left EXCEPT ![t] = n] /\ sleeping_list' = sleeping_list
          BY <4>5, Zenon DEF MsleepMark, cpuVars
        <5>2. \A x \in Task : x # t => left'[x] = left[x]
          BY <5>1, Zenon DEF TypeOK
        <5>3. \A x \in Task : \A d \in Cpu : In(x, sleeping_list[d]) => left'[x] = left[x]
          BY <4>2, <5>2, Zenon
        <5> QED
          BY <5>1, <5>3, SortedOther, Zenon
      <4> QED
        BY <3>4, <4>3, <4>4, <4>5, Zenon
    <3> QED
      BY <2>6, <3>1, <3>3, <3>4, Zenon
  <2> QED
    BY <2>1, <2>2, <2>3, <2>4, <2>5, <2>6, Zenon
<1> QED
  BY <1>1, <1>2, Zenon

(* schedule decides by the state alone whether to put a task back, and     *)
(* sched_update_sleepers stops at the first task that is not due: both are *)
(* right, because the list a task is on agrees with its state and every    *)
(* sleeping_list is sorted by wake-up time.                                *)
THEOREM ListsAgreeWithStates ==
    ASSUME Covered
    PROVE  Spec => []ListsMatchState
<1>1. Init => SchedInv /\ Sorted
  <2>1. Init => \A c \in Cpu : sleeping_list[c] = <<>>
    BY DEF Init
  <2>2. Init => Sorted
    BY <2>1 DEF Sorted, InOrder
  <2> QED
    BY <2>2, InitTyped, InitPlaced, Zenon DEF SchedInv
<1>2. SchedInv /\ Sorted /\ [Next]_vars => SchedInv' /\ Sorted'
  <2> SUFFICES ASSUME SchedInv, Sorted, [Next]_vars PROVE SchedInv' /\ Sorted'
    OBVIOUS
  <2>1. SchedInv'
    BY PlacedNext, Zenon
  <2>2. PICK K, W, L : Placed(K, W, L)
    BY Zenon DEF SchedInv
  <2>3. TypeOK /\ Control /\ TypeOK'
    BY <2>1, Zenon DEF SchedInv
  <2> QED
    BY <2>1, <2>2, <2>3, SortedNext, Zenon
<1>3. SchedInv /\ Sorted => ListsMatchState
  <2> SUFFICES ASSUME SchedInv, Sorted PROVE ListsMatchState
    OBVIOUS
  <2>1. PICK K, W, L : Placed(K, W, L)
    BY Zenon DEF SchedInv
  <2>2. ASSUME NEW t \in Task
        PROVE  /\ \A c \in Cpu, p \in Level : In(t, rq[c].q[p]) => state[t] = "READY"
               /\ \A c \in Cpu : In(t, sleeping_list[c]) => state[t] = "SLEEPING"
               /\ In(t, blocked_task_list) => state[t] = "BLOCKED"
               /\ In(t, dead_task_list) \/ In(t, to_clean) => state[t] = "ZOMBIE"
    <3>1. PlaceOf(K, W, L, t) /\ TaskInv(K, W, t)
      BY <2>1, Zenon DEF Placed
    <3> QED
      BY <3>1, Zenon DEF PlaceOf, PlaceIn, PlaceOn, TaskInv
  <2>3. ASSUME NEW l \in Seq(Task), NEW t \in ToSet(l) PROVE t \in Task /\ In(t, l)
    BY DEF ToSet, In
  <2>4. /\ blocked_task_list \in Seq(Task) /\ dead_task_list \in Seq(Task) /\ to_clean \in Seq(Task)
        /\ \A c \in Cpu : sleeping_list[c] \in Seq(Task) /\ \A p \in Level : rq[c].q[p] \in Seq(Task)
    BY Zenon DEF SchedInv, TypeOK, RqType
  <2>5. ASSUME NEW c \in Cpu, NEW t \in Queued(rq[c]) PROVE state[t] = "READY"
    <3>1. PICK p \in Level : t \in ToSet(rq[c].q[p])
      BY Zenon DEF Queued
    <3> QED
      BY <2>2, <2>3, <2>4, <3>1
  <2>6. ASSUME NEW c \in Cpu, NEW t \in ToSet(sleeping_list[c]) PROVE state[t] = "SLEEPING"
    BY <2>2, <2>3, <2>4, Zenon
  <2>7. \A t \in ToSet(blocked_task_list) : state[t] = "BLOCKED"
    BY <2>2, <2>3, <2>4, Zenon
  <2>8. \A t \in ToSet(dead_task_list) \cup ToSet(to_clean) : state[t] = "ZOMBIE"
    BY <2>2, <2>3, <2>4, Zenon
  <2>9. ASSUME NEW c \in Cpu, NEW i \in DOMAIN sleeping_list[c], NEW j \in DOMAIN sleeping_list[c], i < j
        PROVE  left[sleeping_list[c][i]] <= left[sleeping_list[c][j]]
    <3>1. DOMAIN sleeping_list[c] = 1 .. Len(sleeping_list[c])
      BY <2>4
    <3> QED
      BY <2>9, <3>1, Zenon DEF Sorted, InOrder
  <2> QED
    BY <2>5, <2>6, <2>7, <2>8, <2>9, Zenon DEF ListsMatchState
<1> QED
  BY <1>1, <1>2, <1>3, PTL DEF Spec

-----------------------------------------------------------------------------
(***************************************************************************)
(* The reaper on one CPU.  Once main is in its endless loop it is always   *)
(* ready to run, so the idle task, which calls the reaper, never runs      *)
(* again; and only then are there kernel tasks.                            *)
(***************************************************************************)
LoopInv ==
    phase = "loop" => /\ at[Main] = "kernel" /\ state[Main] \in {"RUNNING", "READY"}
                      /\ ~In(Main, batch[0]) /\ current[0] # Idle /\ picked[0] # Idle

FreedInv == \A t \in Task : t \in freed \/ In(t, to_clean) => t \in User /\ current[0] # t

(* A run queue that holds a task has one to serve. *)
LEMMA ServedFacts ==
    ASSUME NEW r, NEW p \in Level, r.q[p] # <<>>
    PROVE  Served(r) # {}
<1>1. Level = {0, 1, 2} /\ p \in {0, 1, 2}
  BY DEF Level, PRIO_HIGH, PRIO_LOW
<1>2. Serves(r, 0) \/ Serves(r, 1) \/ Serves(r, 2)
  <2>1. r.q[2] # <<>> => Serves(r, 2)
    BY <1>1 DEF Serves, WorkBelow
  <2>2. r.q[2] = <<>> /\ r.q[1] # <<>> => Serves(r, 1)
    BY <1>1 DEF Serves, WorkBelow
  <2>3. r.q[2] = <<>> /\ r.q[1] = <<>> /\ r.q[0] # <<>> => Serves(r, 0)
    BY <1>1 DEF Serves, WorkBelow
  <2> QED
    BY <1>1, <2>1, <2>2, <2>3
<1>3. CASE Serves(r, 0)
  <2>1. 0 \in Served(r)
    BY <1>1, <1>3 DEF Served
  <2> QED
    BY <2>1, Zenon
<1>4. CASE ~Serves(r, 0) /\ Serves(r, 1)
  <2>1. 1 \in Served(r)
    BY <1>1, <1>4 DEF Served
  <2> QED
    BY <2>1, Zenon
<1>5. CASE ~Serves(r, 0) /\ ~Serves(r, 1) /\ Serves(r, 2)
  <2>1. 2 \in Served(r)
    BY <1>1, <1>5 DEF Served
  <2> QED
    BY <2>1, Zenon
<1> QED
  BY <1>2, <1>3, <1>4, <1>5, Zenon

(* Where main is while it loops and its CPU looks for the next task. *)
LEMMA MainQueued ==
    ASSUME NCpu = 1, TypeOK, Control, NEW K, NEW W, NEW L, Placed(K, W, L), LoopInv, phase = "loop",
           NEW c \in Cpu, pc[c] = "pick"
    PROVE  Served(rq[c]) # {}
<1>1. c = 0 /\ Main \in Task /\ 0 \in Cpu /\ None \notin Task
  BY ConstantFacts DEF Cpu
<1>2. /\ at[Main] = "kernel" /\ state[Main] \in {"RUNNING", "READY"} /\ ~In(Main, batch[0])
      /\ PlaceOf(K, W, L, Main) /\ TaskInv(K, W, Main) /\ K[Main] \in Kind /\ W[Main] \in Cpu /\ L[Main] \in Level
  BY <1>1, Zenon DEF LoopInv, Placed
<1>3. W[Main] = 0
  BY <1>1, <1>2 DEF Cpu
<1>4. K[Main] \notin {"none", "asleep", "blocked", "dead", "clean", "batch"}
  BY <1>1, <1>2, <1>3, Zenon DEF TaskInv, PlaceOf, PlaceIn, PlaceOn
<1>5. K[Main] \notin {"cpu", "next"}
  <2>1. ~Keeps(0, Main) /\ picked[0] = None
    BY <1>1, Zenon DEF Keeps, Control, CpuControl, TaskControl
  <2> QED
    BY <1>1, <1>2, <1>3, <2>1, Zenon DEF PlaceOf, PlaceOn
<1>6. K[Main] = "rq"
  BY <1>2, <1>4, <1>5, Zenon DEF Kind
<1>7. In(Main, rq[0].q[L[Main]])
  BY <1>1, <1>2, <1>3, <1>6, Zenon DEF PlaceOf, PlaceOn
<1>8. rq[0].q[L[Main]] # <<>>
  BY <1>7, InEmpty, Zenon
<1> QED
  BY <1>1, <1>2, <1>8, ServedFacts, Zenon

LEMMA LoopSame ==
    ASSUME LoopInv, phase' = phase, at'[Main] = at[Main],
           state'[Main] = state[Main] \/ state'[Main] \in {"RUNNING", "READY"},
           In(Main, batch'[0]) => In(Main, batch[0]), current'[0] = current[0],
           picked'[0] = picked[0] \/ picked'[0] # Idle
    PROVE  LoopInv'
  BY Zenon DEF LoopInv

LEMMA FreedSame ==
    ASSUME FreedInv, UNCHANGED <<freed, to_clean, current>>
    PROVE  FreedInv'
  BY Zenon DEF FreedInv

LEMMA LoopHandler ==
    ASSUME NCpu = 1, TypeOK, Control, NEW K, NEW W, NEW L, Placed(K, W, L), LoopInv, FreedInv, NEW c \in Cpu,
           Handler(c) \/ Tick(c) \/ KeyPress(c) \/ StartIdle(c) \/ MainOn(c)
    PROVE  LoopInv' /\ FreedInv'
<1>1. c = 0 /\ Main \in Task /\ Idle \notin Task /\ None # Idle /\ 0 \in Cpu
  BY ConstantFacts DEF Cpu
<1>2. CASE StartIdle(c) \/ Boost(c) \/ Affinity(c)
  <2>1. UNCHANGED <<phase, at, state, batch, current, picked, freed, to_clean>>
    BY <1>2, Zenon DEF StartIdle, Boost, Affinity, taskVars, globalVars
  <2> QED
    BY <2>1, LoopSame, FreedSame, Zenon
<1>3. CASE Requeue(c)
  <2>1. UNCHANGED <<phase, at, batch, current, picked, freed, to_clean>>
    BY <1>3, Zenon DEF Requeue
  <2>2. state'[Main] = state[Main] \/ state'[Main] \in {"RUNNING", "READY"}
    BY <1>1, <1>3, Zenon DEF Requeue, TypeOK
  <2> QED
    BY <2>1, <2>2, LoopSame, FreedSame, Zenon
<1>4. CASE Wake(c) \/ KbdWake(c)
  <2>1. /\ UNCHANGED <<phase, at, current, picked, freed, to_clean>>
        /\ batch' = [batch EXCEPT ![c] = Tail(batch[c])] /\ pc[c] \in {"wake", "kwake"}
        /\ state' = state \/ \E t \in Task : state' = [state EXCEPT ![t] = "READY"]
    <3>1. Wake(c) => Head(batch[c]) \in Task
      BY BatchFacts, Zenon DEF Wake
    <3> QED
      BY <1>4, <3>1, Zenon DEF Wake, KbdWake, globalVars
  <2>2. state'[Main] = state[Main] \/ state'[Main] \in {"RUNNING", "READY"}
    BY <1>1, <2>1, Zenon DEF TypeOK
  <2>3. In(Main, batch'[0]) => In(Main, batch[0])
    BY <1>1, <2>1, BatchPlaced, Zenon DEF Placed
  <2> QED
    BY <2>1, <2>2, <2>3, LoopSame, FreedSame, Zenon
<1>5. CASE Pick(c)
  <2>1. UNCHANGED <<phase, at, state, batch, current, freed, to_clean>> /\ pc[c] = "pick" /\ rq[c] \in RqType
    BY <1>5, Zenon DEF Pick, taskVars, globalVars, TypeOK
  <2>2. CASE phase # "loop"
    BY <2>1, <2>2, FreedSame, Zenon DEF LoopInv
  <2>3. CASE phase = "loop"
    <3>1. Served(rq[c]) # {}
      BY <2>1, <2>3, MainQueued, Zenon
    <3>2. PICK p \in Served(rq[c]) : picked' = [picked EXCEPT ![c] = Head(rq[c].q[p])]
      BY <1>5, <3>1, Zenon DEF Pick
    <3>3. rq[c].q[p] \in Seq(Task) /\ rq[c].q[p] # <<>>
      BY <2>1, Zenon DEF Served, Serves, RqType
    <3>4. Head(rq[c].q[p]) \in Task
      BY <3>3, TailFacts, Zenon
    <3>5. picked'[0] # Idle
      BY <1>1, <3>2, <3>4, Zenon DEF TypeOK
    <3> QED
      BY <2>1, <3>5, LoopSame, FreedSame, Zenon
  <2> QED
    BY <2>2, <2>3
<1>6. CASE StealFrom(c)
  <2>1. pc[c] = "steal" /\ victim[c] # c /\ victim[c] \in Cpu
    BY <1>6, Zenon DEF StealFrom, Control, CpuControl, TaskControl, TypeOK
  <2> QED
    BY <1>1, <2>1 DEF Cpu
<1>7. CASE Switch(c)
  <2>1. /\ UNCHANGED <<phase, at, batch, freed, to_clean>> /\ pc[c] = "switch"
        /\ current' = [current EXCEPT ![c] = picked[c]] /\ picked' = [picked EXCEPT ![c] = None]
    BY <1>7, Zenon DEF Switch, globalVars
  <2>2. current'[0] = picked[0] /\ picked'[0] = None /\ picked[0] \in Task \cup {Idle}
    BY <1>1, <2>1, Zenon DEF TypeOK, Control, CpuControl, TaskControl
  <2>3. state'[Main] = state[Main] \/ state'[Main] \in {"RUNNING", "READY"}
    BY <1>1, <1>7, <2>2, Zenon DEF Switch, TypeOK
  <2>4. LoopInv'
    BY <1>1, <2>1, <2>2, <2>3, Zenon DEF LoopInv
  <2>5. ASSUME NEW t \in Task, t \in freed \/ In(t, to_clean) PROVE picked[0] # t
    BY <1>1, <2>5, Zenon DEF Placed, PlaceOf, PlaceIn, PlaceOn
  <2> QED
    BY <2>1, <2>2, <2>4, <2>5, Zenon DEF FreedInv
<1>8. CASE Tick(c)
  <2>1. /\ UNCHANGED <<phase, current, picked, state, freed, to_clean>>
    BY <1>8, Zenon DEF Tick, globalVars
  <2>2. CASE phase # "loop"
    BY <2>1, <2>2, FreedSame, Zenon DEF LoopInv
  <2>3. CASE phase = "loop"
    <3>1. at[Main] = "kernel" /\ state[Main] \in {"RUNNING", "READY"}
      BY <2>3, Zenon DEF LoopInv
    <3>2. at'[Main] = at[Main]
      BY <1>1, <1>8, <3>1, TickFacts, Zenon
    <3>3. ~In(Main, sleeping_list[0]) /\ Inj(sleeping_list[c])
      BY <1>1, <3>1, Zenon DEF Placed, PlaceOf, PlaceOn, TaskInv, NoDup
    <3>4. ~In(Main, batch'[0])
      BY <1>1, <1>8, <3>3, TickFacts, Zenon
    <3> QED
      BY <2>1, <3>2, <3>4, LoopSame, FreedSame, Zenon
  <2> QED
    BY <2>2, <2>3
<1>9. CASE KeyPress(c)
  <2>1. /\ UNCHANGED <<phase, current, picked, at, freed, to_clean>>
        /\ batch' = [batch EXCEPT ![c] = Reverse(blocked_task_list)]
        /\ state' = [t \in Task |-> IF t \in ToSet(blocked_task_list) THEN "READY" ELSE state[t]]
    BY <1>9, Zenon DEF KeyPress
  <2>2. CASE phase # "loop"
    BY <2>1, <2>2, FreedSame, Zenon DEF LoopInv
  <2>3. CASE phase = "loop"
    <3>1. state[Main] \in {"RUNNING", "READY"}
      BY <2>3, Zenon DEF LoopInv
    <3>2. ~In(Main, blocked_task_list) /\ blocked_task_list \in Seq(Task)
      BY <1>1, <3>1, Zenon DEF Placed, PlaceOf, PlaceIn, TaskInv, TypeOK
    <3>3. ~In(Main, Reverse(blocked_task_list)) /\ batch'[0] = Reverse(blocked_task_list)
      BY <1>1, <2>1, <3>2, ReverseFacts DEF TypeOK
    <3>4. state'[Main] = state[Main] \/ state'[Main] \in {"RUNNING", "READY"}
      BY <1>1, <2>1, Zenon
    <3> QED
      BY <2>1, <3>3, <3>4, LoopSame, FreedSame, Zenon
  <2> QED
    BY <2>2, <2>3
<1>10. CASE MainOn(c)
  <2>1. /\ UNCHANGED <<current, picked, at, state, batch, freed, to_clean>>
        /\ Runs(c, Main) /\ at[Main] = "kernel"
    BY <1>10, Zenon DEF MainOn, cpuVars, taskVars
  <2>2. /\ pc[c] = "task" /\ current[c] = Main /\ K[Main] = "cpu" /\ PlaceOf(K, W, L, Main) /\ state[Main] = "RUNNING"
    <3>1. OwnCode(Main) /\ Main \in Task
      BY <2>1, ConstantFacts, Zenon DEF OwnCode
    <3>2. CallerAt(K, W, L, c, Main)
      BY <1>1, <2>1, <3>1, CallerPlaced, Zenon
    <3> QED
      BY <2>1, <3>2, Zenon DEF CallerAt
  <2>3. picked[0] = None /\ ~In(Main, batch[0])
    BY <1>1, <2>2, Zenon DEF Control, CpuControl, TaskControl, PlaceOf, PlaceOn
  <2> QED
    BY <1>1, <2>1, <2>2, <2>3, FreedSame, Zenon DEF LoopInv
<1> QED
  BY <1>2, <1>3, <1>4, <1>5, <1>6, <1>7, <1>8, <1>9, <1>10, Zenon DEF Handler

LEMMA LoopCall ==
    ASSUME NCpu = 1, TypeOK, Control, LoopInv, FreedInv, NEW c \in Cpu, NEW t \in Task,
           \/ Spawn(c, t) \/ MsleepInsert(c, t) \/ KbdPop(c, t) \/ KbdBlock(c, t) \/ TaskExit(c, t)
           \/ \E n \in 0 .. MaxSleep : SysSleep(c, t, n) \/ MsleepMark(c, t, n)
    PROVE  LoopInv' /\ FreedInv'
<1>1. Main \in Task /\ Main \notin User
  BY ConstantFacts, Zenon
<1>2. /\ UNCHANGED <<phase, batch, current, picked, freed, to_clean>>
      /\ phase = "loop" => t # Main
      /\ state' = state \/ \E s : state' = [state EXCEPT ![t] = s]
      /\ at' = at \/ \E a : at' = [at EXCEPT ![t] = a]
  <2>1. CASE Spawn(c, t)
    BY <2>1, Zenon DEF Spawn, Move, Control, CpuControl, TaskControl, globalVars
  <2>2. CASE MsleepInsert(c, t) \/ KbdBlock(c, t) \/ TaskExit(c, t)
    BY <2>2, Zenon DEF MsleepInsert, KbdBlock, TaskExit, Move, LoopInv, globalVars, cpuVars
  <2>3. CASE KbdPop(c, t)
    BY <1>1, <2>3, Zenon DEF KbdPop, Move, cpuVars
  <2>4. CASE \E n \in 0 .. MaxSleep : SysSleep(c, t, n)
    BY <2>4, Zenon DEF SysSleep, LoopInv, globalVars
  <2>5. CASE \E n \in 0 .. MaxSleep : MsleepMark(c, t, n)
    BY <2>5, Zenon DEF MsleepMark, Move, globalVars, cpuVars
  <2> QED
    BY <2>1, <2>2, <2>3, <2>4, <2>5, Zenon
<1>3. phase = "loop" => state'[Main] = state[Main] /\ at'[Main] = at[Main]
  BY <1>1, <1>2, Zenon DEF TypeOK
<1>4. LoopInv'
  BY <1>2, <1>3, Zenon DEF LoopInv
<1> QED
  BY <1>2, <1>4, FreedSame, Zenon

LEMMA LoopReap ==
    ASSUME NCpu = 1, TypeOK, Control, NEW K, NEW W, NEW L, Placed(K, W, L), LoopInv, FreedInv, NEW c \in Cpu,
           Reaper(c)
    PROVE  LoopInv' /\ FreedInv'
<1>1. /\ UNCHANGED <<phase, at, state, batch, current, picked>> /\ c = 0 /\ current[0] = Idle
  BY Zenon DEF Reaper, ReapTake, ReapFree, Runs, TypeOK, cpuVars, taskVars
<1>2. LoopInv'
  BY <1>1, Zenon DEF LoopInv
<1>3. Idle \notin Task /\ \A t \in Task : t # Main /\ t \notin Kernel => t \in User
  BY ConstantFacts, Zenon DEF Task, Migratable
<1>4. CASE ReapTake(c)
  <2>1. to_clean' = dead_task_list /\ freed' = freed
    BY <1>4, Zenon DEF ReapTake
  <2>2. ASSUME NEW t \in Task, In(t, dead_task_list) PROVE t \in User
    <3>1. at[t] = "zombie"
      BY <2>2, Zenon DEF Placed, PlaceOf, PlaceIn, TaskInv
    <3>2. phase # "loop"
      BY <1>1, Zenon DEF LoopInv
    <3> QED
      BY <1>3, <3>1, <3>2, Zenon DEF Control, CpuControl, TaskControl
  <2> QED
    BY <1>1, <1>2, <1>3, <2>1, <2>2, Zenon DEF FreedInv
<1>5. CASE ReapFree(c)
  <2>1. to_clean # <<>> /\ to_clean' = Tail(to_clean) /\ freed' = freed \cup {Head(to_clean)}
    BY <1>5, Zenon DEF ReapFree
  <2>2. to_clean \in Seq(Task) /\ Inj(to_clean)
    BY Zenon DEF TypeOK, Placed, NoDup
  <2>3. In(Head(to_clean), to_clean) /\ \A x : In(x, to_clean') => In(x, to_clean)
    BY <2>1, <2>2, TailFacts, Zenon
  <2> QED
    BY <1>1, <1>2, <2>1, <2>3, Zenon DEF FreedInv
<1> QED
  BY <1>4, <1>5, Zenon DEF Reaper

(* On one CPU the reaper never frees a task that a list refers to or that   *)
(* the CPU is on, and never a kernel task, whose page tables are the        *)
(* kernel's own: it only runs before main enters its loop, and kernel tasks *)
(* are only created afterwards.                                            *)
THEOREM ReaperIsSafe ==
    ASSUME NCpu = 1
    PROVE  Spec => []ReapedIsUnused
<1>0. Covered
  BY Zenon DEF Covered
<1>1. Init => SchedInv /\ LoopInv /\ FreedInv
  <2>1. Init => LoopInv /\ FreedInv
    BY InEmpty, Zenon DEF Init, LoopInv, FreedInv
  <2> QED
    BY <2>1, InitTyped, InitPlaced, Zenon DEF SchedInv
<1>2. SchedInv /\ LoopInv /\ FreedInv /\ [Next]_vars => SchedInv' /\ LoopInv' /\ FreedInv'
  <2> SUFFICES ASSUME SchedInv, LoopInv, FreedInv, [Next]_vars PROVE SchedInv' /\ LoopInv' /\ FreedInv'
    OBVIOUS
  <2>1. SchedInv'
    BY <1>0, PlacedNext, Zenon
  <2>2. PICK K, W, L : Placed(K, W, L)
    BY DEF SchedInv
  <2>3. TypeOK /\ Control
    BY Zenon DEF SchedInv
  <2>4. CASE UNCHANGED vars
    BY <2>1, <2>4, Zenon DEF LoopInv, FreedInv, vars, cpuVars, taskVars, globalVars
  <2>5. CASE Next
    <3>1. PICK c \in Cpu :
               \/ StartIdle(c) \/ MainOn(c) \/ Tick(c) \/ KeyPress(c) \/ Handler(c) \/ Reaper(c)
               \/ \E t \in Task : \/ Spawn(c, t) \/ MsleepInsert(c, t) \/ KbdPop(c, t) \/ KbdBlock(c, t)
                                  \/ TaskExit(c, t)
                                  \/ \E n \in 0 .. MaxSleep : SysSleep(c, t, n) \/ MsleepMark(c, t, n)
      BY <2>5, Zenon DEF Next, InCall
    <3>2. CASE \/ Handler(c) \/ Tick(c) \/ KeyPress(c) \/ StartIdle(c) \/ MainOn(c)
      BY <2>1, <2>2, <2>3, <3>2, LoopHandler, Zenon
    <3>3. CASE Reaper(c)
      BY <2>1, <2>2, <2>3, <3>3, LoopReap, Zenon
    <3>4. CASE \E t \in Task : \/ Spawn(c, t) \/ MsleepInsert(c, t) \/ KbdPop(c, t) \/ KbdBlock(c, t)
                               \/ TaskExit(c, t)
                               \/ \E n \in 0 .. MaxSleep : SysSleep(c, t, n) \/ MsleepMark(c, t, n)
      BY <2>1, <2>3, <3>4, LoopCall, Zenon
    <3> QED
      BY <3>1, <3>2, <3>3, <3>4, Zenon
  <2> QED
    BY <2>4, <2>5, Zenon
<1>3. SchedInv /\ FreedInv => ReapedIsUnused
  <2> SUFFICES ASSUME SchedInv, FreedInv, NEW t \in freed
               PROVE  Owners(t) = {} /\ (\A c \in Cpu : t \notin {stk[c], current[c]}) /\ t \notin Kernel
    BY DEF ReapedIsUnused
  <2>1. PICK K, W, L : Placed(K, W, L)
    BY Zenon DEF SchedInv
  <2>2. t \in Task /\ K[t] = "none" /\ stk = current
    BY <2>1, Zenon DEF SchedInv, TypeOK, Placed, PlaceOf, PlaceIn
  <2>3. Owners(t) = {}
    BY <2>1, <2>2, OwnersFacts, Zenon
  <2>4. t \in User /\ current[0] # t
    BY <2>2, Zenon DEF FreedInv
  <2>5. t \notin Kernel /\ \A c \in Cpu : c = 0
    BY <2>4, ConstantFacts DEF Cpu
  <2> QED
    BY <2>2, <2>3, <2>4, <2>5, Zenon
<1> QED
  BY <1>1, <1>2, <1>3, PTL DEF Spec
=============================================================================
