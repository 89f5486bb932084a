----------------------------- MODULE VfsProofs -----------------------------
(***************************************************************************)
(* Proofs for Vfs: for any tasks, nodes, directory contents and mounts, the *)
(* critical sections of a node exclude each other and nobody waits for a    *)
(* mutex while owning one.                                                  *)
(***************************************************************************)
EXTENDS Vfs, TLAPS

Searching == {"find", "inside", "cross", "entered"}
Waiting == {"find", "cross", "start"}

(* The types; a lookup that goes on has a node and names left. *)
TypeOK ==
    /\ ptr \in [Node -> Node \cup {NULL}]
    /\ count \in [Node -> {0, 1}] /\ owner \in [Node -> Task \cup {NULL}]
    /\ wait_list \in [Node -> Seq(Task)]
    /\ pc \in [Task -> {"out", "found", "start"} \cup Searching \cup Holding]
    /\ call \in [Task -> {"open", "mount", "io"}]
    /\ path \in [Task -> Seq(Name)] /\ token \in [Task -> Nat]
    /\ current \in [Task -> Node \cup {NULL}]
    /\ local_root \in [Task -> Node \cup {NULL}] /\ unused \subseteq Node
    /\ \A t \in Task : /\ pc[t] \in Searching => token[t] < Len(path[t])
                       /\ pc[t] \notin {"out", "found"} => current[t] \in Node
                       /\ pc[t] = "out" => token[t] = 0 /\ current[t] = vfs_root

Owned == \A t \in Task, n \in Node : owner[n] = t <=> pc[t] \in Holding /\ current[t] = n

(* A mutex is free only without an owner and without waiters; the converse  *)
(* fails, since mutex_unlock keeps it taken when it wakes a waiter.         *)
Free == \A n \in Node : count[n] = 1 => owner[n] = NULL /\ wait_list[n] = <<>>

(* Who waits is before the critical section of that node, in a step that    *)
(* only taking its mutex leaves.                                            *)
Queued == \A t \in Task, n \in Node : Waits(t, n) =>
    /\ current[t] = n
    /\ pc[t] \in Waiting \/ (pc[t] = "found" /\ call[t] = "mount")

(* The inductive invariant. *)
MutexOK ==
    /\ count \in [Node -> {0, 1}] /\ owner \in [Node -> Task \cup {NULL}]
    /\ wait_list \in [Node -> Seq(Task)]

VfsInv == TypeOK /\ Owned /\ Free /\ Queued

In(s, t) == \E i \in DOMAIN s : s[i] = t

(* Who is in front of a list is on it. *)
LEMMA PushIn ==
    ASSUME NEW S, NEW s \in Seq(S), NEW t \in S, NEW u
    PROVE  In(<<t>> \o s, u) <=> u = t \/ In(s, u)
<1> DEFINE q == <<t>> \o s
<1>1. q \in Seq(S) /\ Len(q) = Len(s) + 1 /\ q[1] = t
  OBVIOUS
<1>2. \A i \in DOMAIN s : q[i + 1] = s[i] /\ i + 1 \in DOMAIN q
  OBVIOUS
<1>3. \A j \in DOMAIN q : j = 1 \/ (j - 1 \in DOMAIN s /\ q[j] = s[j - 1])
  OBVIOUS
<1>4. 1 \in DOMAIN q
  BY <1>1
<1> HIDE DEF q
<1>5. u = t \/ In(s, u) => In(q, u)
  BY <1>1, <1>2, <1>4 DEF In
<1>6. In(q, u) => u = t \/ In(s, u)
  <2> SUFFICES ASSUME NEW j \in DOMAIN q, q[j] = u, u # t PROVE In(s, u)
    BY DEF In
  <2> QED
    BY <1>1, <1>3 DEF In
<1> QED
  BY <1>5, <1>6 DEF q

(* What is left of a list was on it. *)
LEMMA TailIn ==
    ASSUME NEW S, NEW s \in Seq(S), s # <<>>, NEW u, In(Tail(s), u)
    PROVE  In(s, u)
<1>1. PICK i \in DOMAIN Tail(s) : Tail(s)[i] = u
  BY DEF In
<1>2. i + 1 \in DOMAIN s /\ s[i + 1] = u
  BY <1>1
<1> QED
  BY <1>2 DEF In

LEMMA InitVfs == Init => VfsInv
  BY VfsAssumption DEF Init, VfsInv, TypeOK, Owned, Free, Queued, Waits, Holding, Searching, Waiting

(* A task that may wait for the node it is at takes its mutex or waits. *)
LEMMA LockStep ==
    ASSUME VfsInv, NEW t \in Task, NEW to \in Holding, Lock(t, current[t], to),
           pc[t] \in Waiting \/ (pc[t] = "found" /\ call[t] = "mount" /\ current[t] # NULL),
           to \in Searching => pc[t] \in Searching,
           UNCHANGED <<ptr, call, path, local_root, unused>>
    PROVE  VfsInv'
<1> DEFINE n == current[t]
<1>0. n \in Node /\ pc[t] \notin Holding
  BY DEF VfsInv, TypeOK, Waiting, Searching, Holding
<1>1. CASE count[n] > 0 /\ count' = [count EXCEPT ![n] = 0] /\ owner' = [owner EXCEPT ![n] = t]
           /\ Go(t, to) /\ UNCHANGED <<wait_list, current, token>>
  <2>1. count[n] = 1
    BY <1>0, <1>1 DEF VfsInv, TypeOK
  <2>2. TypeOK'
    BY <1>0, <1>1 DEF VfsInv, TypeOK, Go, Searching, Holding, Waiting
  <2>3. Owned'
    BY <1>0, <1>1, <2>1, VfsAssumption DEF VfsInv, TypeOK, Owned, Free, Go
  <2>4. Free'
    BY <1>0, <1>1 DEF VfsInv, TypeOK, Free
  <2>5. \A u \in Task, m \in Node : Waits(u, m) => u # t
    <3> SUFFICES ASSUME NEW m \in Node, Waits(t, m) PROVE FALSE
      OBVIOUS
    <3>1. m = n
      BY DEF VfsInv, Queued
    <3> QED
      BY <2>1, <3>1, <1>0 DEF VfsInv, Free, Waits
  <2>6. Queued'
    BY <1>1, <2>5 DEF VfsInv, TypeOK, Queued, Waits, Go
  <2> QED
    BY <2>2, <2>3, <2>4, <2>6 DEF VfsInv
<1>2. CASE count[n] = 0 /\ wait_list' = [wait_list EXCEPT ![n] = <<t>> \o @]
           /\ UNCHANGED <<count, owner, pc, current, token>>
  <2>1. <<t>> \o wait_list[n] \in Seq(Task)
    BY <1>0 DEF VfsInv, TypeOK
  <2>2. TypeOK'
    BY <1>0, <1>2, <2>1 DEF VfsInv, TypeOK
  <2>3. Owned' /\ Free'
    BY <1>0, <1>2 DEF VfsInv, TypeOK, Owned, Free
  <2>4. ASSUME NEW u \in Task, NEW m \in Node, Waits(u, m)'
        PROVE  Waits(u, m) \/ (u = t /\ m = n)
    <3>1. CASE m = n
      <4>1. In(<<t>> \o wait_list[n], u)
        BY <1>0, <1>2, <2>4, <3>1 DEF VfsInv, TypeOK, Waits, In
      <4>2. u = t \/ In(wait_list[n], u)
        BY <1>0, <4>1, PushIn DEF VfsInv, TypeOK
      <4> QED
        BY <3>1, <4>2 DEF Waits, In
    <3>2. CASE m # n
      BY <1>0, <1>2, <2>4, <3>2 DEF VfsInv, TypeOK, Waits
    <3> QED
      BY <3>1, <3>2
  <2>5. Queued'
    BY <1>2, <2>4 DEF VfsInv, Queued
  <2> QED
    BY <2>2, <2>3, <2>5 DEF VfsInv
<1> QED
  BY <1>1, <1>2 DEF Lock

(* A task that leaves a critical section has given the mutex back, and the  *)
(* waiters stay where they are.                                             *)
LEMMA UnlockStep ==
    ASSUME VfsInv, TypeOK', NEW t \in Task, pc[t] \in Holding, Unlock(current[t]),
           NEW to, to \notin Holding, Go(t, to),
           NEW n, current' = [current EXCEPT ![t] = n],
           NEW c, call' = [call EXCEPT ![t] = c]
    PROVE  Owned' /\ Free' /\ Queued'
<1> DEFINE m == current[t]
<1>1. m \in Node /\ owner[m] = t
  BY DEF VfsInv, TypeOK, Owned, Holding
<1>2. count[m] = 0
  BY <1>1, VfsAssumption DEF VfsInv, TypeOK, Free
<1>3. owner' = [owner EXCEPT ![m] = NULL]
  BY DEF Unlock
<1>4. Owned'
  BY <1>1, <1>3, VfsAssumption DEF VfsInv, TypeOK, Owned, Go
<1>5. \A u \in Task, k \in Node : Waits(u, k)' => Waits(u, k)
  <2>1. CASE wait_list[m] # <<>> /\ wait_list' = [wait_list EXCEPT ![m] = Tail(@)]
    <3> SUFFICES ASSUME NEW u \in Task, NEW k \in Node, Waits(u, k)' PROVE Waits(u, k)
      OBVIOUS
    <3>1. CASE k = m
      <4>1. In(Tail(wait_list[m]), u)
        BY <1>1, <2>1, <3>1 DEF VfsInv, TypeOK, Waits, In
      <4>2. In(wait_list[m], u)
        BY <1>1, <2>1, <4>1, TailIn DEF VfsInv, TypeOK
      <4> QED
        BY <3>1, <4>2 DEF Waits, In
    <3>2. CASE k # m
      BY <1>1, <2>1, <3>2 DEF VfsInv, TypeOK, Waits
    <3> QED
      BY <3>1, <3>2
  <2>2. CASE UNCHANGED wait_list
    BY <2>2 DEF Waits
  <2> QED
    BY <2>1, <2>2 DEF Unlock
<1>6. Free'
  <2>1. CASE wait_list[m] # <<>>
    BY <1>1, <1>2, <1>3, <2>1 DEF VfsInv, TypeOK, Free, Unlock
  <2>2. CASE wait_list[m] = <<>>
    BY <1>1, <1>3, <2>2 DEF VfsInv, TypeOK, Free, Unlock
  <2> QED
    BY <2>1, <2>2
<1>7. \A k \in Node : ~Waits(t, k)
  BY DEF VfsInv, Queued, Holding, Waiting
<1>8. Queued'
  BY <1>5, <1>7 DEF VfsInv, TypeOK, Queued, Go
<1> QED
  BY <1>4, <1>6, <1>8

(* A step of a task that neither owns nor waits, and leaves the mutexes     *)
(* alone.                                                                   *)
LEMMA OutsideStep ==
    ASSUME VfsInv, TypeOK', NEW t \in Task, UNCHANGED mutex,
           pc[t] = "out" \/ (pc[t] = "found" /\ (call[t] = "open" \/ current[t] = NULL)),
           NEW to, to \notin Holding, Go(t, to),
           NEW n, current' = [current EXCEPT ![t] = n],
           NEW c, call' = [call EXCEPT ![t] = c]
    PROVE  Owned' /\ Free' /\ Queued'
<1>1. \A k \in Node : ~Waits(t, k)
  BY VfsAssumption DEF VfsInv, Queued, Waiting
<1>2. pc[t] \notin Holding
  BY DEF Holding
<1>3. Owned' /\ Free'
  BY <1>2 DEF VfsInv, TypeOK, Owned, Free, Go, mutex
<1>4. Queued'
  BY <1>1 DEF VfsInv, TypeOK, Queued, Waits, Go, mutex
<1> QED
  BY <1>3, <1>4

(* The end of a call leaves the types as they are. *)
LEMMA EndTyped ==
    ASSUME TypeOK, NEW t \in Task, End(t), MutexOK',
           ptr' \in [Node -> Node \cup {NULL}], unused' \subseteq Node
    PROVE  TypeOK'
<1>1. /\ pc' \in [Task -> {"out", "found", "start"} \cup Searching \cup Holding]
      /\ call' \in [Task -> {"open", "mount", "io"}]
  BY DEF End, Go, TypeOK
<1>2. /\ path' \in [Task -> Seq(Name)] /\ token' \in [Task -> Nat]
  BY DEF End, TypeOK
<1>3. /\ current' \in [Task -> Node \cup {NULL}]
      /\ local_root' \in [Task -> Node \cup {NULL}]
  BY VfsAssumption DEF End, TypeOK
<1>4. ASSUME NEW u \in Task
      PROVE  /\ pc'[u] \in Searching => token'[u] < Len(path'[u])
             /\ pc'[u] \notin {"out", "found"} => current'[u] \in Node
             /\ pc'[u] = "out" => token'[u] = 0 /\ current'[u] = vfs_root
  <2>1. CASE u = t
    BY <2>1 DEF End, Go, TypeOK, Searching
  <2>2. CASE u # t
    BY <2>2 DEF End, Go, TypeOK
  <2> QED
    BY <2>1, <2>2
<1> QED
  BY <1>1, <1>2, <1>3, <1>4 DEF TypeOK, MutexOK

LEMMA NextVfs == VfsInv /\ [Next]_vars => VfsInv'
<1> SUFFICES ASSUME VfsInv, [Next]_vars PROVE VfsInv'
  OBVIOUS
<1> USE VfsAssumption
<1>1. ASSUME NEW t \in Task, NEW p \in Path, NEW c \in {"open", "mount"}, Begin(t, c, p),
             local_root' \in [Task -> Node \cup {NULL}], unused' \subseteq Node
      PROVE  VfsInv'
  <2>1. current' = [current EXCEPT ![t] = vfs_root]
    BY <1>1 DEF Begin, At, VfsInv, TypeOK
  <2>2. p # <<>> => 0 < Len(p)
    OBVIOUS
  <2>3. TypeOK'
    BY <1>1, <2>2 DEF Begin, At, Go, VfsInv, TypeOK, mutex, Searching, Holding
  <2>4. \E to : to \notin Holding /\ Go(t, to)
    BY <1>1 DEF Begin, Holding
  <2> QED
    BY <1>1, <2>1, <2>3, <2>4, OutsideStep DEF Begin, At, VfsInv
<1>2. ASSUME NEW t \in Task, LockDir(t) PROVE VfsInv'
  <2>1. CASE At(t, "find") /\ Lock(t, current[t], "inside")
    BY <1>2, <2>1, LockStep DEF LockDir, At, Waiting, Searching, Holding
  <2>2. CASE At(t, "cross") /\ Lock(t, current[t], "entered")
    BY <1>2, <2>2, LockStep DEF LockDir, At, Waiting, Searching, Holding
  <2> QED
    BY <1>2, <2>1, <2>2 DEF LockDir
<1>3. ASSUME NEW n \in Node, Unlock(n)
      PROVE  MutexOK'
  <2>1. wait_list[n] # <<>> => Tail(wait_list[n]) \in Seq(Task)
    BY DEF VfsInv, TypeOK
  <2>2. CASE wait_list[n] # <<>>
    <3> DEFINE rest == Tail(wait_list[n])
    <3>1. rest \in Seq(Task) /\ wait_list' = [wait_list EXCEPT ![n] = rest]
      BY <1>3, <2>1, <2>2 DEF Unlock
    <3> HIDE DEF rest
    <3>2. wait_list' \in [Node -> Seq(Task)]
      BY <3>1 DEF VfsInv, TypeOK
    <3> QED
      BY <1>3, <2>2, <3>2 DEF VfsInv, TypeOK, MutexOK, Unlock
  <2>3. CASE wait_list[n] = <<>>
    BY <1>3, <2>3 DEF VfsInv, TypeOK, MutexOK, Unlock
  <2> QED
    BY <2>2, <2>3
<1>4. ASSUME NEW t \in Task, Cross(t) PROVE VfsInv'
  <2>1. current[t] \in Node /\ pc[t] \in Holding
    BY <1>4 DEF Cross, At, VfsInv, TypeOK, Holding
  <2>2. MutexOK'
    BY <1>3, <1>4, <2>1 DEF Cross
  <2>3. TypeOK'
    BY <1>4, <2>1, <2>2 DEF MutexOK, Cross, At, Go, VfsInv, TypeOK, Searching, Holding
  <2>4. call' = [call EXCEPT ![t] = call[t]]
    BY <1>4 DEF Cross, VfsInv, TypeOK
  <2> QED
    BY <1>4, <2>1, <2>3, <2>4, UnlockStep DEF Cross, Holding, VfsInv
<1>5. ASSUME NEW t \in Task, FindDir(t) PROVE VfsInv'
  <2> DEFINE next == Child[current[t]][path[t][token[t] + 1]]
  <2>1. current[t] \in Node /\ pc[t] \in Holding /\ pc[t] \in Searching
    BY <1>5 DEF FindDir, At, VfsInv, TypeOK, Holding, Searching
  <2>2. next \in Node \cup {NULL} /\ token[t] + 1 \in Nat
    <3>1. token[t] \in Nat /\ token[t] < Len(path[t]) /\ path[t] \in Seq(Name)
      BY <2>1 DEF VfsInv, TypeOK
    <3>2. path[t][token[t] + 1] \in Name
      BY <3>1
    <3> QED
      BY <2>1, <3>1, <3>2
  <2>3. next # NULL /\ token[t] + 1 # Len(path[t]) => token[t] + 1 < Len(path[t])
    BY <2>1 DEF VfsInv, TypeOK
  <2>4. MutexOK'
    BY <1>3, <1>5, <2>1 DEF FindDir
  <2>5. TypeOK'
    BY <1>5, <2>1, <2>2, <2>3, <2>4 DEF MutexOK, FindDir, At, Go, VfsInv, TypeOK, Searching, Holding
  <2>6. call' = [call EXCEPT ![t] = call[t]]
    BY <1>5 DEF FindDir, VfsInv, TypeOK
  <2>7. \E to : to \notin Holding /\ Go(t, to)
    BY <1>5 DEF FindDir, Holding
  <2>8. current' = [current EXCEPT ![t] = next] /\ Unlock(current[t])
    BY <1>5 DEF FindDir
  <2> QED
    BY <2>1, <2>5, <2>6, <2>7, <2>8, UnlockStep DEF VfsInv
<1>6. ASSUME NEW t \in Task, Return(t) PROVE VfsInv'
  <2>1. TypeOK'
    BY <1>6 DEF Return, End, Go, VfsInv, TypeOK, mutex, Searching, Holding
  <2> QED
    BY <1>6, <2>1, OutsideStep DEF Return, End, At, Holding, VfsInv
<1>7. ASSUME NEW t \in Task, LockMountPoint(t) PROVE VfsInv'
  BY <1>7, LockStep DEF LockMountPoint, At, Searching, Holding
<1>8. ASSUME NEW t \in Task, SetPtr(t) PROVE VfsInv'
  <2>1. current[t] \in Node /\ pc[t] \in Holding
    BY <1>8 DEF SetPtr, At, VfsInv, TypeOK, Holding
  <2>2. MutexOK'
    BY <1>3, <1>8, <2>1 DEF SetPtr
  <2>3. ptr' \in [Node -> Node \cup {NULL}] /\ unused' \subseteq Node
    BY <1>8 DEF SetPtr, VfsInv, TypeOK
  <2>4. TypeOK'
    BY <1>8, <2>2, <2>3, EndTyped DEF SetPtr, VfsInv
  <2> QED
    BY <1>8, <2>1, <2>4, UnlockStep DEF SetPtr, End, Holding, VfsInv
<1>9. ASSUME NEW t \in Task, NEW n \in File, Io(t, n) PROVE VfsInv'
  <2>1. TypeOK'
    BY <1>9 DEF Io, At, Go, VfsInv, TypeOK, mutex, Searching, Holding
  <2> QED
    BY <1>9, <2>1, OutsideStep DEF Io, At, Holding, VfsInv
<1>10. ASSUME NEW t \in Task, LockFile(t) PROVE VfsInv'
  BY <1>10, LockStep DEF LockFile, At, Waiting, Searching, Holding
<1>11. ASSUME NEW t \in Task, IoDone(t) PROVE VfsInv'
  <2>1. current[t] \in Node /\ pc[t] \in Holding
    BY <1>11 DEF IoDone, At, VfsInv, TypeOK, Holding
  <2>2. MutexOK'
    BY <1>3, <1>11, <2>1 DEF IoDone
  <2>3. ptr' \in [Node -> Node \cup {NULL}] /\ unused' \subseteq Node
    BY <1>11 DEF IoDone, VfsInv, TypeOK
  <2>4. TypeOK'
    BY <1>11, <2>2, <2>3, EndTyped DEF IoDone, VfsInv
  <2> QED
    BY <1>11, <2>1, <2>4, UnlockStep DEF IoDone, End, Holding, VfsInv
<1>12. CASE UNCHANGED vars
  BY <1>12 DEF vars, mutex, local, VfsInv, TypeOK, Owned, Free, Queued, Waits
<1>13. ASSUME NEW t \in Task, NEW p \in Path, Open(t, p) PROVE VfsInv'
  BY <1>1, <1>13 DEF Open, VfsInv, TypeOK
<1>14. ASSUME NEW t \in Task, NEW p \in Path, NEW r \in unused, Mount(t, p, r) PROVE VfsInv'
  <2>1. local_root' \in [Task -> Node \cup {NULL}] /\ unused' \subseteq Node
    BY <1>14 DEF Mount, VfsInv, TypeOK
  <2> QED
    BY <1>1, <1>14, <2>1 DEF Mount
<1> QED
  BY <1>2, <1>4, <1>5, <1>6, <1>7, <1>8, <1>9, <1>10, <1>11, <1>12, <1>13, <1>14 DEF Next

(* Critical sections exclude each other on every node and nobody waits for  *)
(* a mutex while owning one, for any tasks, paths and mounts: vfs.c never   *)
(* deadlocks on the order of its locks.                                     *)
THEOREM Exclusive == Spec => []NodesExclusive
<1>1. VfsInv => NodesExclusive
  BY VfsAssumption DEF VfsInv, Owned, Queued, NodesExclusive, Waiting, Holding
<1> QED
  BY <1>1, InitVfs, NextVfs, PTL DEF Spec
=============================================================================
