-------------------------------- MODULE Vfs --------------------------------
(***************************************************************************)
(* The virtual file system, kernel/fs/vfs.c: path lookup across mount       *)
(* points, mounts and I/O, called by any number of tasks at once.  Nothing  *)
(* in the kernel calls it yet, so its interface is modelled as it stands.   *)
(* What a node contains is up to a file system driver and external.  ptr is *)
(* read and written under the mutex of its node: what a task does from      *)
(* taking a mutex to giving it back is one step.                            *)
(*                                                                         *)
(* Definitions named ..._Bug are deliberately wrong variants of the one    *)
(* after them; they show that the properties notice such a mistake.        *)
(***************************************************************************)
EXTENDS Integers, Sequences

CONSTANTS Task,
          Node, vfs_root,
          Name, Child,  \* finddir of a node for a name, NULL without an entry or ops
          Path,         \* sequences of names, <<>> for "/"
          LocalRoot,    \* nodes to mount, each once
          File,         \* nodes with the operations read and write
          May,          \* bound: the calls that each task makes
          NULL

ASSUME VfsAssumption ==
    /\ vfs_root \in Node /\ NULL \notin Node /\ NULL \notin Task
    /\ LocalRoot \subseteq Node /\ File \subseteq Node
    /\ Child \in [Node -> [Name -> Node \cup {NULL}]] /\ Path \subseteq Seq(Name)

VARIABLES ptr,          \* per node: what is mounted on it
          count, owner, wait_list, \* the mutex of each node
          pc,           \* per task: its step in the call it makes
          call,         \* per task: the call, "open", "mount" or "io"
          path, token,  \* per task: the path and the names found so far
          current,      \* per task: the node it is at
          local_root,   \* per task: the node it is to mount
          unused,       \* local roots not mounted yet
          seen,         \* history: per task, the values of ptr since its call began
          strayed       \* history: a mount was applied to a node that its path
                        \* does not lead to any more

mutex == <<count, owner, wait_list>>
local == <<pc, call, path, token, current, local_root>>
vars == <<ptr, mutex, local, unused, seen, strayed>>

Init ==
    /\ ptr = [n \in Node |-> NULL]
    /\ count = [n \in Node |-> 1] /\ owner = [n \in Node |-> NULL]
    /\ wait_list = [n \in Node |-> <<>>]
    /\ pc = [t \in Task |-> "out"] /\ call = [t \in Task |-> "open"]
    /\ path = [t \in Task |-> <<>>] /\ token = [t \in Task |-> 0]
    /\ current = [t \in Task |-> vfs_root]
    /\ local_root = [t \in Task |-> NULL] /\ unused = LocalRoot
    /\ seen = [t \in Task |-> {}] /\ strayed = FALSE

At(t, from) == pc[t] = from
Go(t, to) == pc' = [pc EXCEPT ![t] = to]

(* The call returns; its locals are gone. *)
End(t) ==
    /\ Go(t, "out") /\ call' = [call EXCEPT ![t] = "open"]
    /\ path' = [path EXCEPT ![t] = <<>>] /\ token' = [token EXCEPT ![t] = 0]
    /\ current' = [current EXCEPT ![t] = vfs_root]
    /\ local_root' = [local_root EXCEPT ![t] = NULL]

(* Where a path leads while ptr has the value mounted. *)
Enter(n, mounted) == IF mounted[n] # NULL THEN mounted[n] ELSE n

Resolve(p, mounted) ==
    LET walk[i \in 0 .. Len(p)] ==
            IF i = 0 THEN vfs_root
            ELSE IF walk[i - 1] = NULL THEN NULL
            ELSE Child[Enter(walk[i - 1], mounted)][p[i]]
    IN  walk[Len(p)]

-----------------------------------------------------------------------------
(* mutex_lock and mutex_unlock as in Mutex: who finds the mutex taken waits *)
(* on the list, and who is taken off it tries again, although the mutex is  *)
(* not given back then.                                                     *)
Lock(t, n, to) ==
    \/ /\ count[n] > 0
       /\ count' = [count EXCEPT ![n] = 0] /\ owner' = [owner EXCEPT ![n] = t] /\ Go(t, to)
       /\ UNCHANGED <<wait_list, current, token>>
    \/ /\ count[n] = 0 /\ \A i \in DOMAIN wait_list[n] : wait_list[n][i] # t
       /\ wait_list' = [wait_list EXCEPT ![n] = <<t>> \o @]
       /\ UNCHANGED <<count, owner, pc, current, token>>

Unlock(n) ==
    /\ owner' = [owner EXCEPT ![n] = NULL]
    /\ IF wait_list[n] # <<>>
       THEN wait_list' = [wait_list EXCEPT ![n] = Tail(@)] /\ UNCHANGED count
       ELSE count' = [count EXCEPT ![n] = 1] /\ UNCHANGED wait_list

-----------------------------------------------------------------------------
(* vfs_open and vfs_mount begin with vfs_find_path. *)
Begin(t, c, p) ==
    /\ At(t, "out") /\ c \in May[t] /\ Go(t, IF p = <<>> THEN "found" ELSE "find")
    /\ call' = [call EXCEPT ![t] = c] /\ path' = [path EXCEPT ![t] = p]
    /\ seen' = [seen EXCEPT ![t] = {ptr}]
    /\ UNCHANGED <<ptr, mutex, token, current, strayed>>

Open(t, p) == Begin(t, "open", p) /\ UNCHANGED <<local_root, unused>>

Mount(t, p, r) ==
    /\ Begin(t, "mount", p)
    /\ local_root' = [local_root EXCEPT ![t] = r] /\ unused' = unused \ {r}

(* The loop of vfs_find_path: lock the node; if something is mounted on it, *)
(* unlock it and go on there.                                               *)
LockDir(t) ==
    /\ \/ At(t, "find") /\ Lock(t, current[t], "inside")
       \/ At(t, "cross") /\ Lock(t, current[t], "entered")
    /\ UNCHANGED <<ptr, call, path, local_root, unused, seen, strayed>>

(* The mount point stays locked until the mounted root is. *)
Cross_Bug(t) ==
    /\ At(t, "inside") /\ ptr[current[t]] # NULL /\ Go(t, "cross")
    /\ current' = [current EXCEPT ![t] = ptr[current[t]]]
    /\ UNCHANGED <<ptr, mutex, call, path, token, local_root, unused, seen, strayed>>

Cross(t) ==
    /\ At(t, "inside") /\ ptr[current[t]] # NULL /\ Go(t, "cross")
    /\ Unlock(current[t])
    /\ current' = [current EXCEPT ![t] = ptr[current[t]]]
    /\ UNCHANGED <<ptr, call, path, token, local_root, unused, seen, strayed>>

(* A mount on the directory of the last name is overlooked. *)
FindDir_Bug(t) ==
    /\ \/ At(t, "entered")
       \/ At(t, "inside") /\ (ptr[current[t]] = NULL \/ token[t] + 1 = Len(path[t]))
    /\ Unlock(current[t])
    /\ LET next == Child[current[t]][path[t][token[t] + 1]] IN
       /\ current' = [current EXCEPT ![t] = next]
       /\ token' = [token EXCEPT ![t] = @ + 1]
       /\ Go(t, IF next = NULL \/ token[t] + 1 = Len(path[t]) THEN "found" ELSE "find")
    /\ UNCHANGED <<ptr, call, path, local_root, unused, seen, strayed>>

FindDir(t) ==
    /\ At(t, "entered") \/ (At(t, "inside") /\ ptr[current[t]] = NULL)
    /\ Unlock(current[t])
    /\ LET next == Child[current[t]][path[t][token[t] + 1]] IN
       /\ current' = [current EXCEPT ![t] = next]
       /\ token' = [token EXCEPT ![t] = @ + 1]
       /\ Go(t, IF next = NULL \/ token[t] + 1 = Len(path[t]) THEN "found" ELSE "find")
    /\ UNCHANGED <<ptr, call, path, local_root, unused, seen, strayed>>

(* vfs_open has its result, the lookup of vfs_mount may have failed. *)
Return(t) ==
    /\ At(t, "found") /\ (call[t] = "open" \/ current[t] = NULL)
    /\ End(t)
    /\ seen' = [seen EXCEPT ![t] = {}]
    /\ UNCHANGED <<ptr, mutex, unused, strayed>>

(* The rest of vfs_mount. *)
LockMountPoint(t) ==
    /\ At(t, "found") /\ call[t] = "mount" /\ current[t] # NULL
    /\ Lock(t, current[t], "mounting")
    /\ UNCHANGED <<ptr, call, path, local_root, unused, seen, strayed>>

SetPtr(t) ==
    /\ At(t, "mounting") /\ End(t)
    /\ ptr' = [ptr EXCEPT ![current[t]] = local_root[t]]
    /\ strayed' = (strayed \/ Resolve(path[t], ptr) # current[t])
    /\ seen' = [u \in Task |-> IF u = t \/ At(u, "out") THEN {} ELSE seen[u] \cup {ptr'}]
    /\ Unlock(current[t])
    /\ UNCHANGED unused

(* vfs_read and vfs_write *)
Io(t, node) ==
    /\ At(t, "out") /\ "io" \in May[t] /\ Go(t, "start")
    /\ call' = [call EXCEPT ![t] = "io"] /\ current' = [current EXCEPT ![t] = node]
    /\ UNCHANGED <<ptr, mutex, path, token, local_root, unused, seen, strayed>>

LockFile(t) ==
    /\ At(t, "start") /\ Lock(t, current[t], "reading")
    /\ UNCHANGED <<ptr, call, path, local_root, unused, seen, strayed>>

IoDone(t) ==
    /\ At(t, "reading") /\ End(t)
    /\ Unlock(current[t])
    /\ UNCHANGED <<ptr, unused, seen, strayed>>

(* What follows a mount that strayed is not modelled further. *)
Next == ~strayed /\ \E t \in Task :
    \/ \E p \in Path : Open(t, p) \/ \E r \in unused : Mount(t, p, r)
    \/ LockDir(t) \/ Cross(t) \/ FindDir(t) \/ Return(t)
    \/ LockMountPoint(t) \/ SetPtr(t)
    \/ \E n \in File : Io(t, n)
    \/ LockFile(t) \/ IoDone(t)

Spec == Init /\ [][Next]_vars

-----------------------------------------------------------------------------
Holding == {"inside", "entered", "mounting", "reading"}
Waits(t, n) == \E i \in DOMAIN wait_list[n] : wait_list[n][i] = t

(* A task is in the critical section of a node just when it owns its mutex, *)
(* and who waits for one owns none: vfs_find_path releases a directory      *)
(* before it locks the next, so lookups, mounts and I/O exclude each other  *)
(* on a node and never wait for each other in a circle, whatever is mounted *)
(* where.                                                                   *)
NodesExclusive ==
    \A t \in Task, n \in Node :
        /\ owner[n] = t <=> pc[t] \in Holding /\ current[t] = n
        /\ Waits(t, n) => \A m \in Node : owner[m] # t

(* vfs.c: lock crawling ensures "SMP safety", "preventing race conditions   *)
(* during concurrent path resolutions or mount operations".  A lookup holds *)
(* one lock at a time, and mounts pass it in between; it still returns what *)
(* its path led to at some moment of the call, unless a mount strays: its   *)
(* own lookup was overtaken by a mount above, and vfs_mount looks no more.  *)
LookupAtOneMoment == ~strayed =>
    \A t \in Task : pc[t] = "found" => \E mounted \in seen[t] : Resolve(path[t], mounted) = current[t]
=============================================================================
