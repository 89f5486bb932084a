-------------------------------- MODULE Vma --------------------------------
(***************************************************************************)
(* The areas of one task, kernel/memory/vma.c: a red-black tree and a list  *)
(* over the same descriptors, the user pages they cover and the frames      *)
(* behind these.  Addresses are in pages.  vma_mutex makes each operation   *)
(* one step; only the task itself and, after it, the reaper call them.      *)
(*                                                                         *)
(* Definitions named ..._Bug are deliberately wrong variants of the one    *)
(* after them; they show that the properties notice such a mistake.        *)
(***************************************************************************)
EXTENDS VmaTree, FiniteSetsExt, SequencesExt

CONSTANTS Desc,      \* descriptors that kmalloc can return, numbers
          MaxPage,   \* pages are 0 .. MaxPage - 1
          Pages,     \* the sizes asked for
          Flags,
          NumFrames, \* frames of the machine
          Allowed    \* what callers may ask for: "merge" over a used range,
                     \* "full" and "part" unmaps

VARIABLES tree,      \* vma_tree_root and the descriptors
          list,      \* vma_list_head and its successors
          vma_count,
          mapped,    \* user pages with a present entry
          nfree,     \* frames in the physical memory manager
          fault,     \* history: vma_map has read through NULL
          pruned     \* history: a node was removed from the tree

vmavars == <<tree, list, vma_count, mapped, nfree, fault, pruned>>

Span(a, n) == a .. (a + n - 1)
Area(d) == tree.n[d].vm_start .. (tree.n[d].vm_end - 1)
Node(a, n, f) == [vm_start |-> a, vm_end |-> a + n, vm_flags |-> f, color |-> "red",
                  left |-> NULL, right |-> NULL, parent |-> NULL]

(* vma_init_task *)
VmaInit ==
    /\ tree = [root |-> NULL, n |-> <<>>] /\ list = <<>> /\ vma_count = 0
    /\ mapped = {} /\ nfree = NumFrames
    /\ fault = FALSE /\ pruned = FALSE

-----------------------------------------------------------------------------
(* vma_map, step 1: the first area of the list that ends at addr and has    *)
(* the same flags grows.  Whether the new range is free is not asked.       *)
MergesAt(i, addr, flags) ==
    LET fits(j) == tree.n[list[j]].vm_end = addr /\ tree.n[list[j]].vm_flags = flags
    IN  fits(i) /\ \A j \in 1 .. (i - 1) : ~fits(j)

Overlaps(addr, n) == \E i \in DOMAIN list : Span(addr, n) \cap Area(list[i]) # {}

MapExpand(addr, n, flags) ==
    /\ ~fault /\ nfree >= n
    /\ Overlaps(addr, n) => "merge" \in Allowed
    /\ \E i \in DOMAIN list :
          /\ MergesAt(i, addr, flags)
          /\ tree' = [tree EXCEPT !.n[list[i]].vm_end = @ + n]
    /\ mapped' = mapped \cup Span(addr, n) /\ nfree' = nfree - n
    /\ UNCHANGED <<list, vma_count, fault, pruned>>

(* vma_map, steps 2 to 8.  Without a descriptor or frames the call fails    *)
(* and leaves everything as it was.                                         *)
MapNew(addr, n, flags) ==
    /\ ~fault /\ nfree >= n /\ DOMAIN tree.n # Desc
    /\ ~\E i \in DOMAIN list : MergesAt(i, addr, flags)
    /\ ~Overlaps(addr, n)
    /\ LET d == Min(Desc \ DOMAIN tree.n)
           new == [x \in DOMAIN tree.n \cup {d} |-> IF x = d THEN Node(addr, n, flags) ELSE tree.n[x]]
           placed == Insert([tree EXCEPT !.n = new], d)
       IN  /\ list' = <<d>> \o list
           /\ fault' = Faults(placed, d)
           /\ tree' = IF fault' THEN placed ELSE Fixup(placed, d)
    /\ vma_count' = vma_count + 1
    /\ mapped' = mapped \cup Span(addr, n) /\ nfree' = nfree - n
    /\ UNCHANGED pruned

(* vma_unmap: the pages of the range are released one by one; then the area *)
(* that holds addr loses its tail, or goes, or is left alone.               *)
Asked(d, addr, n) ==
    IF addr + n = tree.n[d].vm_end THEN addr > tree.n[d].vm_start \/ "full" \in Allowed
    ELSE "part" \in Allowed

(* A trimmed area keeps its last page. *)
TrimArea_Bug(d, addr, n) ==
    IF addr > tree.n[d].vm_start /\ addr + n >= tree.n[d].vm_end
    THEN /\ tree' = [tree EXCEPT !.n[d].vm_end = addr + 1]
         /\ UNCHANGED <<list, vma_count>>
    ELSE IF addr <= tree.n[d].vm_start /\ addr + n >= tree.n[d].vm_end
    THEN /\ tree' = Delete(tree, d)
         /\ list' = SelectSeq(list, LAMBDA x : x # d)
         /\ vma_count' = vma_count - 1
    ELSE UNCHANGED <<tree, list, vma_count>>

TrimArea(d, addr, n) ==
    IF addr > tree.n[d].vm_start /\ addr + n >= tree.n[d].vm_end
    THEN /\ tree' = [tree EXCEPT !.n[d].vm_end = addr]
         /\ UNCHANGED <<list, vma_count>>
    ELSE IF addr <= tree.n[d].vm_start /\ addr + n >= tree.n[d].vm_end
    THEN /\ tree' = Delete(tree, d)
         /\ list' = SelectSeq(list, LAMBDA x : x # d)
         /\ vma_count' = vma_count - 1
    ELSE UNCHANGED <<tree, list, vma_count>>

Unmap(addr, n) ==
    LET d == Find(tree, addr) IN
    /\ ~fault
    /\ d # NULL /\ Asked(d, addr, n)
    /\ mapped' = mapped \ Span(addr, n)
    /\ nfree' = nfree + Cardinality(mapped \cap Span(addr, n))
    /\ TrimArea(d, addr, n)
    /\ pruned' = (pruned \/ list' # list)
    /\ UNCHANGED fault

(* vma_destroy_all, after which the descriptors serve another task.  The    *)
(* frames go back with the page tables.                                     *)
DestroyAll ==
    /\ ~fault /\ list # <<>>
    /\ tree' = [root |-> NULL, n |-> <<>>] /\ list' = <<>> /\ vma_count' = 0
    /\ mapped' = {} /\ nfree' = nfree + Cardinality(mapped)
    /\ pruned' = FALSE /\ UNCHANGED fault

VmaNext ==
    \/ \E addr \in 0 .. MaxPage - 1, n \in Pages :
          /\ addr + n <= MaxPage
          /\ \/ \E f \in Flags : MapExpand(addr, n, f) \/ MapNew(addr, n, f)
             \/ Unmap(addr, n)
    \/ DestroyAll

-----------------------------------------------------------------------------
(* The tree is a search tree over exactly the descriptors of the list, with *)
(* matching parent links and no page in two areas, after any mixture of     *)
(* insertions, rotations, growth, trims and removals; and vma_find agrees   *)
(* with a search of the whole list.                                         *)
TreeMatchesList ==
    LET order == InOrder(tree, tree.root) IN
    /\ DOMAIN tree.n = ToSet(list) /\ ToSet(order) = ToSet(list)
    /\ Len(order) = Len(list) /\ vma_count = Len(list)
    /\ \A i, j \in DOMAIN order :
          i < j => tree.n[order[i]].vm_end <= tree.n[order[j]].vm_start
    /\ ParentsMatch(tree)
    /\ \A a \in 0 .. MaxPage - 1 :
          LET d == Find(tree, a) IN
          IF d = NULL THEN \A x \in ToSet(list) : a \notin Area(x)
                      ELSE d \in ToSet(list) /\ a \in Area(d)

(* vma.md: "Balanced Red-Black Tree".  Insertions, growth and trims keep it *)
(* so, and the fixup, which reads the parent of a red parent without a      *)
(* test, never reads through NULL.  vma_unmap removes a node without any    *)
(* recolouring: the colours say nothing from then on, a red node can become *)
(* the root, and the next insertion below it faults.                        *)
RedBlack == ~pruned => ~fault /\ IsRedBlack(tree)

(* The pages of the areas are the mapped pages: what is unmapped leaves its *)
(* area; and every frame is behind one of them or free, so nothing leaks.   *)
AreasAreMapped ==
    /\ UNION {Area(list[i]) : i \in DOMAIN list} = mapped
    /\ nfree + Cardinality(mapped) = NumFrames
=============================================================================
