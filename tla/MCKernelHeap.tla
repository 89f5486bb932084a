---------------------------- MODULE MCKernelHeap ----------------------------
(* The slabs behind kmalloc for small requests and its own heap for large   *)
(* ones.  They meet only in the frame allocator, which each component       *)
(* models as a set of frames, so a behaviour is one of either.              *)
(* Slabs: tiers of three and of one object per page (1024 and 2048 bytes);  *)
(* two caches share three frames, and run out of them.                      *)
(* Heap: requests of 2064, 2520 and 5000 bytes on a machine of five frames: *)
(* the first two fit into one page one at a time and leave remainders of    *)
(* different sizes, the last needs two frames.  Frame 2 belongs to another  *)
(* component, so that neighbours on the chain need not be adjacent.         *)
EXTENDS Slab, Kmalloc

VARIABLE part

vars == <<slabvars, heapvars, part>>

Init == SlabInit /\ HeapInit /\ part \in {"slabs", "heap"}

Next == \/ part = "slabs" /\ SlabNext /\ UNCHANGED <<heapvars, part>>
        \/ part = "heap" /\ HeapNext /\ UNCHANGED <<slabvars, part>>

Spec == Init /\ [][Next]_vars

Alike == Permutations(Cpu)
=============================================================================
