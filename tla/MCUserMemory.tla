---------------------------- MODULE MCUserMemory ----------------------------
(* The areas of a task, and the heap that the system calls keep in one of   *)
(* them; UserHeap models the area it needs itself, so a behaviour is one of *)
(* either.                                                                  *)
(* Areas: up to four on five pages, of one or two pages and two kinds of    *)
(* flags, enough for every case of the fixup, for the removal of nodes with *)
(* two children and for the reuse of descriptors.                           *)
(* Heap: half a page less 8 bytes, so that two blocks end at a page         *)
(* boundary; one page and a half; more than four pages; up to nine pages.   *)
EXTENDS Vma, UserHeap

VARIABLE part

allvars == <<vmavars, heapvars, part>>

BothInit == VmaInit /\ HeapInit /\ part \in {"areas", "heap"}

BothNext == \/ part = "areas" /\ VmaNext /\ UNCHANGED <<heapvars, part>>
            \/ part = "heap" /\ HeapNext /\ UNCHANGED <<vmavars, part>>

BothSpec == BothInit /\ [][BothNext]_allvars

Alike == Permutations(Flags)
=============================================================================
