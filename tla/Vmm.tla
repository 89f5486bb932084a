-------------------------------- MODULE Vmm --------------------------------
(***************************************************************************)
(* Page tables, kernel/memory/vmm.c: four levels of tables in physical      *)
(* frames, created on demand, shared in the kernel half, and torn down with *)
(* their task.  Pages are numbers and tables have Radix entries; the upper  *)
(* half of a PML4 is the kernel's.  Entry flags are left out: every table   *)
(* entry has the same, and no property is about those of a page.  The       *)
(* callers are vma_map, vma_unmap and vma_destroy_all of vma.c, in the form *)
(* that matters for frames (Vma has the areas themselves).  Mapping and     *)
(* unmapping hold vmm_lock_ with interrupts off.  Spawn has the tasks that  *)
(* take these steps.                                                        *)
(*                                                                         *)
(* Definitions named ..._Bug are deliberately wrong variants of the one    *)
(* after them; they show that the properties notice such a mistake.        *)
(***************************************************************************)
EXTENDS Integers, Sequences, FiniteSetsExt, SequencesExt

CONSTANTS Radix,      \* 512 in the kernel
          Frame,      \* frames of the physical memory manager, numbers
          Device,     \* a frame of a device, not among them
          Task,       \* user tasks
          MaxAreas,   \* areas of a task
          MaxLost,    \* mappings fail until so many frames are lost
          NULL

Index == 0 .. Radix - 1
User == 0 .. (Radix \div 2) * Radix^3 - 1     \* pages below the kernel half
KernelPage == Radix^4 - 1                     \* one that the kernel maps
Empty == [i \in Index |-> NULL]

VARIABLES mem,   \* [tab: contents of the table frames, free: free frames]
          cr3,   \* PML4 of each task; NULL without one
          kernel_pml4,
          areas, \* per task: [at, n, phys] of what vma_map has set up
          lost   \* history: frames that vma_map took and could not map

vmmvars == <<mem, cr3, kernel_pml4, areas, lost>>

(* PML4_IDX, PDPT_IDX, PD_IDX and PT_IDX are levels 0 to 3. *)
Idx(a, level) == (a \div Radix^(3 - level)) % Radix

(* pmm_alloc_frame for a table, which is cleared.  Which free frame it finds *)
(* (Pmm has the search) makes no difference here; it is the first.           *)
NewTable(m) == LET f == Min(m.free) IN
    [frame |-> f, m |-> [tab |-> [g \in DOMAIN m.tab \cup {f} |->
                                     IF g = f THEN Empty ELSE m.tab[g]],
                         free |-> m.free \ {f}]]
Store(m, t, i, f) == [m EXCEPT !.tab[t][i] = f]

-----------------------------------------------------------------------------
(* One round of the loop in _vmm_map_unlocked: from the table of one level  *)
(* to that of the next, created if it is missing.                           *)
Descend(w, a, level) ==
    LET e == w.m.tab[w.table][Idx(a, level)] IN
    IF w.table = NULL THEN w
    ELSE IF e # NULL THEN [w EXCEPT !.table = e]
    ELSE IF w.m.free = {} THEN [w EXCEPT !.table = NULL]
    ELSE LET new == NewTable(w.m) IN
         [m |-> Store(new.m, w.table, Idx(a, level), new.frame), table |-> new.frame]

MapPage(m, root, a, f) ==
    LET w == FoldLeft(LAMBDA v, level : Descend(v, a, level),
                      [m |-> m, table |-> root], <<0, 1, 2>>)
    IN  IF w.table = NULL THEN [m |-> w.m, ok |-> FALSE]
        ELSE [m |-> Store(w.m, w.table, Idx(a, 3), f), ok |-> TRUE]

(* The table of the last level for a; NULL if one on the way is missing. *)
Leaf(m, root, a) ==
    FoldLeft(LAMBDA t, level : IF t = NULL THEN NULL ELSE m.tab[t][Idx(a, level)],
             root, <<0, 1, 2>>)

(* vmm_virtual_to_physical *)
Translate(m, root, a) ==
    LET t == Leaf(m, root, a) IN IF t = NULL THEN NULL ELSE m.tab[t][Idx(a, 3)]

UnmapPage(m, root, a) ==
    LET t == Leaf(m, root, a) IN IF t = NULL THEN m ELSE Store(m, t, Idx(a, 3), NULL)

UnmapRange(m, root, a, n) ==
    FoldLeft(LAMBDA v, i : UnmapPage(v, root, a + i - 1), m, [i \in 1 .. n |-> i])

(* The page before the one that failed is forgotten. *)
MapRange_Bug(m, root, a, n, f) ==
    FoldLeft(LAMBDA v, i :
                IF ~v.ok THEN v
                ELSE LET r == MapPage(v.m, root, a + i - 1, f + i - 1) IN
                     IF r.ok THEN r
                     ELSE [m |-> UnmapRange(r.m, root, a, i - 2), ok |-> FALSE],
             [m |-> m, ok |-> TRUE], [i \in 1 .. n |-> i])

(* _vmm_map_range_unlocked: a page that fails takes the earlier ones back. *)
MapRange(m, root, a, n, f) ==
    FoldLeft(LAMBDA v, i :
                IF ~v.ok THEN v
                ELSE LET r == MapPage(v.m, root, a + i - 1, f + i - 1) IN
                     IF r.ok THEN r
                     ELSE [m |-> UnmapRange(r.m, root, a, i - 1), ok |-> FALSE],
             [m |-> m, ok |-> TRUE], [i \in 1 .. n |-> i])

(* What vmm_destroy_user_pml4 frees below a table of a level: the frames    *)
(* that its entries name, and what is below those that are tables.          *)
RECURSIVE Below(_, _, _, _)
Below(m, t, level, I) ==
    LET E == {m.tab[t][i] : i \in I} \ {NULL} IN
    E \cup IF level = 3 THEN {} ELSE UNION {Below(m, e, level + 1, Index) : e \in E}

UserHalf == 0 .. Radix \div 2 - 1
Lower(m, root) == Below(m, root, 0, UserHalf)

-----------------------------------------------------------------------------
(* vmm_init has built the kernel's tables; the last mappings in them, those *)
(* of the APICs, are made before the first task is created.  Of the identity *)
(* mapping that kernel_main_high removes, the tables stay.                   *)
VmmInit ==
    LET root == Min(Frame)
        m == NewTable([tab |-> <<>>, free |-> Frame]).m
        identity == MapPage(m, root, 0, Device).m
    IN  /\ kernel_pml4 = root
        /\ mem = UnmapPage(MapPage(identity, root, KernelPage, Device).m, root, 0)
        /\ cr3 = [s \in Task |-> NULL] /\ areas = [s \in Task |-> {}] /\ lost = {}

(* All of it is copied. *)
Inherited_Bug(root) == mem.tab[root]

(* The kernel half of a new PML4. *)
Inherited(root) ==
    [i \in Index |-> IF i \in UserHalf THEN NULL ELSE mem.tab[root][i]]

(* vmm_create_user_pml4 *)
Create(s) ==
    /\ cr3[s] = NULL /\ mem.free # {}
    /\ LET new == NewTable(mem) IN
       /\ cr3' = [cr3 EXCEPT ![s] = new.frame]
       /\ mem' = [new.m EXCEPT !.tab[new.frame] = Inherited(kernel_pml4)]
    /\ UNCHANGED <<kernel_pml4, areas, lost>>

Pages(r) == r.at .. r.at + r.n - 1
Runs(n) == {f \in mem.free : f .. f + n - 1 \subseteq mem.free}

(* vma_map takes the frames, maps them and succeeds, whatever vmm_map_range *)
(* has met with.                                                            *)
VmaMap(s, a, n) ==
    /\ cr3[s] # NULL /\ Cardinality(areas[s]) < MaxAreas
    /\ a .. a + n - 1 \subseteq User
    /\ \A r \in areas[s] : Pages(r) \cap (a .. a + n - 1) = {}
    /\ Runs(n) # {}
    /\ LET f == Min(Runs(n))
           r == MapRange([mem EXCEPT !.free = @ \ (f .. f + n - 1)], cr3[s], a, n, f)
       IN  /\ r.ok \/ Cardinality(lost) < MaxLost
           /\ mem' = r.m
           /\ lost' = IF r.ok THEN lost ELSE lost \cup (f .. f + n - 1)
           /\ areas' = [areas EXCEPT ![s] = @ \cup {[at |-> a, n |-> n, phys |-> f]}]
    /\ UNCHANGED <<cr3, kernel_pml4>>

(* One page in vma_unmap: translated, unmapped and freed. *)
Release(m, root, a) ==
    LET f == Translate(m, root, a) IN
    IF f = NULL THEN m ELSE [UnmapPage(m, root, a) EXCEPT !.free = @ \cup {f}]

(* vma_unmap of the last k pages of an area. *)
VmaUnmap(s, r, k) ==
    /\ cr3[s] # NULL /\ r \in areas[s] /\ k \in 1 .. r.n
    /\ mem' = FoldLeft(LAMBDA m, i : Release(m, cr3[s], r.at + r.n - k + i - 1),
                       mem, [i \in 1 .. k |-> i])
    /\ areas' = [areas EXCEPT ![s] =
          (@ \ {r}) \cup IF k = r.n THEN {} ELSE {[r EXCEPT !.n = @ - k]}]
    /\ UNCHANGED <<cr3, kernel_pml4, lost>>

(* The pages are freed, and of the tables only the PML4. *)
Destroy_Bug(s) ==
    /\ cr3[s] # NULL
    /\ LET gone == (Lower(mem, cr3[s]) \ DOMAIN mem.tab) \cup {cr3[s]} IN
       mem' = [tab |-> [t \in DOMAIN mem.tab \ gone |-> mem.tab[t]],
               free |-> mem.free \cup gone]
    /\ cr3' = [cr3 EXCEPT ![s] = NULL]
    /\ areas' = [areas EXCEPT ![s] = {}]
    /\ UNCHANGED <<kernel_pml4, lost>>

(* vma_destroy_all and vmm_destroy_user_pml4: everything below the lower    *)
(* half is freed, each table after all that it leads to, and the PML4 last. *)
Destroy(s) ==
    /\ cr3[s] # NULL
    /\ LET gone == Lower(mem, cr3[s]) \cup {cr3[s]} IN
       mem' = [tab |-> [t \in DOMAIN mem.tab \ gone |-> mem.tab[t]],
               free |-> mem.free \cup gone]
    /\ cr3' = [cr3 EXCEPT ![s] = NULL]
    /\ areas' = [areas EXCEPT ![s] = {}]
    /\ UNCHANGED <<kernel_pml4, lost>>

-----------------------------------------------------------------------------
Live == {s \in Task : cr3[s] # NULL}
InUse == Below(mem, kernel_pml4, 0, Index) \cup {kernel_pml4}
         \cup UNION {Lower(mem, cr3[s]) \cup {cr3[s]} : s \in Live}

(* What the tables lead to is never free, and no frame is reached on two    *)
(* paths: a table or page of one task is in no other task's tables.  Only   *)
(* the kernel half is shared, and every address space has all of it.        *)
TablesDisjoint ==
    /\ InUse \cap mem.free = {}
    /\ \A s, t \in Live : s # t => Lower(mem, cr3[s]) \cap Lower(mem, cr3[t]) = {}
    /\ LET shared == {cr3[s] : s \in Live} \X (Index \ UserHalf)
           own == {e \in (DOMAIN mem.tab) \X Index : mem.tab[e[1]][e[2]] # NULL} \ shared
       IN  Cardinality({mem.tab[e[1]][e[2]] : e \in own}) = Cardinality(own)
    /\ \A s \in Live, i \in Index \ UserHalf : mem.tab[cr3[s]][i] = mem.tab[kernel_pml4][i]

(* An area is mapped to its own frames from end to end, or, when a table    *)
(* was missing, not at all; no other mapping or unmapping changes that, and *)
(* nothing is mapped that is not in an area.                                *)
AreasTranslate ==
    \A s \in Live :
        /\ \A r \in areas[s] :
              \/ \A p \in Pages(r) : Translate(mem, cr3[s], p) = r.phys + (p - r.at)
              \/ \A p \in Pages(r) : Translate(mem, cr3[s], p) = NULL
        /\ \A p \in User :
              Translate(mem, cr3[s], p) # NULL => \E r \in areas[s] : p \in Pages(r)
=============================================================================
