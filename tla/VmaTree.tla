------------------------------ MODULE VmaTree ------------------------------
(***************************************************************************)
(* The red-black tree of kernel/memory/vma.c as operators.  A tree is a     *)
(* record of its root and of its nodes n, a function from descriptors to    *)
(* their fields.  The mirror-image halves of the code are one definition    *)
(* with the side as a parameter.                                            *)
(*                                                                         *)
(* Definitions named ..._Bug are deliberately wrong variants of the one    *)
(* after them; they show that the properties notice such a mistake.        *)
(***************************************************************************)
EXTENDS Integers, Sequences

CONSTANT NULL

Other(side) == IF side = "left" THEN "right" ELSE "left"

(* vma_rotate_left for side = "left", vma_rotate_right for "right" *)
Rotate(T, x, side) ==
    LET o == Other(side)
        y == T.n[x][o]
        b == T.n[y][side]
        p == T.n[x].parent
        n1 == [T.n EXCEPT ![x][o] = b, ![y].parent = p]
        n2 == IF b # NULL THEN [n1 EXCEPT ![b].parent = x] ELSE n1
        n3 == IF p = NULL THEN n2
              ELSE [n2 EXCEPT ![p][IF n2[p][side] = x THEN side ELSE o] = y]
    IN  [root |-> IF p = NULL THEN y ELSE T.root,
         n    |-> [n3 EXCEPT ![y][side] = x, ![x].parent = y]]

Colour(T, x, c) == [T EXCEPT !.n[x].color = c]

(* The uncle is not recoloured with the parent. *)
FixStep_Bug(T, z) ==
    LET p == T.n[z].parent
        g == T.n[p].parent
        side == IF T.n[g].left = p THEN "left" ELSE "right"
        y == T.n[g][Other(side)]
    IN  IF y # NULL /\ T.n[y].color = "red"
        THEN [tree |-> Colour(Colour(T, p, "black"), g, "red"), z |-> g]
        ELSE LET inner == z = T.n[p][Other(side)]
                 z1 == IF inner THEN p ELSE z
                 T1 == IF inner THEN Rotate(T, p, side) ELSE T
                 p1 == T1.n[z1].parent
                 g1 == T1.n[p1].parent
             IN  [tree |-> Rotate(Colour(Colour(T1, p1, "black"), g1, "red"), g1, Other(side)),
                  z |-> z1]

(* One turn of the loop of vma_insert_fixup, for a red parent: the tree and *)
(* the node that the next turn looks at.                                    *)
FixStep(T, z) ==
    LET p == T.n[z].parent
        g == T.n[p].parent
        side == IF T.n[g].left = p THEN "left" ELSE "right"
        y == T.n[g][Other(side)]
    IN  IF y # NULL /\ T.n[y].color = "red"
        THEN [tree |-> Colour(Colour(Colour(T, p, "black"), y, "black"), g, "red"), z |-> g]
        ELSE LET inner == z = T.n[p][Other(side)]
                 z1 == IF inner THEN p ELSE z
                 T1 == IF inner THEN Rotate(T, p, side) ELSE T
                 p1 == T1.n[z1].parent
                 g1 == T1.n[p1].parent
             IN  [tree |-> Rotate(Colour(Colour(T1, p1, "black"), g1, "red"), g1, Other(side)),
                  z |-> z1]

(* vma_insert_fixup.  The loop reads the parent of a red parent without a   *)
(* test; Faults says that it would read through NULL.                       *)
RedParent(T, z) == T.n[z].parent # NULL /\ T.n[T.n[z].parent].color = "red"

RECURSIVE Fixup(_, _)
Fixup(T, z) ==
    IF RedParent(T, z) THEN LET s == FixStep(T, z) IN Fixup(s.tree, s.z)
    ELSE Colour(T, T.root, "black")

RECURSIVE Faults(_, _)
Faults(T, z) ==
    RedParent(T, z) /\ (\/ T.n[T.n[z].parent].parent = NULL
                        \/ LET s == FixStep(T, z) IN Faults(s.tree, s.z))

(* The descent of vma_map to the place of the new node z. *)
RECURSIVE Place(_, _, _)
Place(T, node, z) ==
    LET side == IF T.n[z].vm_start < T.n[node].vm_start THEN "left" ELSE "right" IN
    IF T.n[node][side] = NULL
    THEN [T EXCEPT !.n[node][side] = z, !.n[z].parent = node]
    ELSE Place(T, T.n[node][side], z)

Insert(T, z) == IF T.root = NULL THEN [T EXCEPT !.root = z] ELSE Place(T, T.root, z)

(* The removal in vma_unmap: the right subtree is hung below the rightmost  *)
(* node of the left one; nothing is recoloured.                             *)
RECURSIVE Rightmost(_, _)
Rightmost(T, x) == IF T.n[x].right = NULL THEN x ELSE Rightmost(T, T.n[x].right)

Replace(T, v, r) ==
    LET p == T.n[v].parent
        n1 == IF p = NULL THEN T.n
              ELSE [T.n EXCEPT ![p][IF T.n[p].left = v THEN "left" ELSE "right"] = r]
        n2 == IF r # NULL THEN [n1 EXCEPT ![r].parent = p] ELSE n1
    IN  [root |-> IF p = NULL THEN r ELSE T.root,
         n    |-> [x \in DOMAIN n2 \ {v} |-> n2[x]]]

(* The right subtree of the removed node is dropped. *)
Delete_Bug(T, v) == Replace(T, v, IF T.n[v].left # NULL THEN T.n[v].left ELSE T.n[v].right)

Delete(T, v) ==
    LET l == T.n[v].left
        r == T.n[v].right
        T1 == IF l # NULL /\ r # NULL
              THEN [T EXCEPT !.n[Rightmost(T, l)].right = r, !.n[r].parent = Rightmost(T, l)]
              ELSE T
    IN  Replace(T1, v, IF l # NULL THEN l ELSE r)

(* vma_find *)
RECURSIVE FindFrom(_, _, _)
FindFrom(T, curr, addr) ==
    IF curr = NULL \/ addr \in T.n[curr].vm_start .. (T.n[curr].vm_end - 1) THEN curr
    ELSE FindFrom(T, T.n[curr][IF addr < T.n[curr].vm_start THEN "left" ELSE "right"], addr)

Find(T, addr) == FindFrom(T, T.root, addr)

-----------------------------------------------------------------------------
(* The nodes of the subtree at x, in order. *)
RECURSIVE InOrder(_, _)
InOrder(T, x) ==
    IF x = NULL THEN <<>>
    ELSE InOrder(T, T.n[x].left) \o <<x>> \o InOrder(T, T.n[x].right)

(* The number of black nodes on the paths below x, or -1 if they differ. *)
RECURSIVE BlackHeight(_, _)
BlackHeight(T, x) ==
    IF x = NULL THEN 0
    ELSE LET l == BlackHeight(T, T.n[x].left)
             r == BlackHeight(T, T.n[x].right)
         IN  IF l = -1 \/ l # r THEN -1
             ELSE IF T.n[x].color = "black" THEN l + 1 ELSE l

IsRedBlack(T) ==
    /\ T.root # NULL => T.n[T.root].color = "black"
    /\ \A x \in DOMAIN T.n : ~(T.n[x].color = "red" /\ RedParent(T, x))
    /\ BlackHeight(T, T.root) # -1

ParentsMatch(T) ==
    \A x \in DOMAIN T.n :
        LET p == T.n[x].parent IN
        IF p = NULL THEN T.root = x ELSE x \in {T.n[p].left, T.n[p].right}
=============================================================================
