-------------------------------- MODULE Slab --------------------------------
(***************************************************************************)
(* The slab allocator, kernel/memory/slab.c.  A slab is named by its frame *)
(* and an object by its slab and its place in it.  The list fields are kept *)
(* as pointers, since what goes wrong with a list goes wrong there.  Both   *)
(* operations hold the lock of one cache with interrupts off; the caches    *)
(* meet only in the frame allocator, so each operation is one step.         *)
(*                                                                         *)
(* Definitions named ..._Bug are deliberately wrong variants of the one    *)
(* after them; they show that the properties notice such a mistake.        *)
(***************************************************************************)
EXTENDS Integers, Sequences, FiniteSetsExt, SequencesExt

CONSTANTS cache_sizes,  \* a subset of 16, 32, ..., 2048
          Request,      \* the sizes asked for
          Frames,       \* frames the physical memory manager can hand out
          NoSlab        \* NULL as the address of a slab

PAGE_SIZE == 4096
SlabHeader == 56        \* sizeof(slab_t)
Aligned == 64           \* the header rounded up to 16
List == {"partial_slabs", "full_slabs", "empty_slabs"}
Slab == Frames \cup {0} \* frame 0 stands for a NULL frame
Pointer == Slab \cup {NoSlab}

VARIABLES links,        \* list heads of the caches; next and prev of the slabs
          slabs,        \* parent_cache, free_list and free_count of the slabs
          spare,       \* frames not handed out
          live          \* history: objects that callers hold

slabvars == <<links, slabs, spare, live>>

-----------------------------------------------------------------------------
SlabListRemove(ls, k, l, s) ==
    LET p == ls.prev[s]
        n == ls.next[s]
        next == IF p # NoSlab THEN [ls.next EXCEPT ![p] = n] ELSE ls.next
        prev == IF n # NoSlab THEN [ls.prev EXCEPT ![n] = p] ELSE ls.prev
    IN  [head |-> IF ls.head[k][l] = s THEN [ls.head EXCEPT ![k][l] = next[s]] ELSE ls.head,
         next |-> [next EXCEPT ![s] = NoSlab],
         prev |-> [prev EXCEPT ![s] = NoSlab]]

SlabListPush(ls, k, l, s) ==
    LET h == ls.head[k][l]
        prev == [ls.prev EXCEPT ![s] = NoSlab]
    IN  [head |-> [ls.head EXCEPT ![k][l] = s],
         next |-> [ls.next EXCEPT ![s] = h],
         prev |-> IF h # NoSlab THEN [prev EXCEPT ![h] = s] ELSE prev]

Move(ls, k, from, to, s) == SlabListPush(SlabListRemove(ls, k, from, s), k, to, s)

(* The number of objects in slab_grow, and in slab_cache_free. *)
GrowObjs(k) == (PAGE_SIZE - Aligned) \div k

(* The page is divided without regard to the header. *)
FreeObjs_Bug(k) == PAGE_SIZE \div k

FreeObjs(k) == (PAGE_SIZE - SlabHeader) \div k

(* slab_grow *)
Fresh(k) == [parent_cache |-> k,
             free_list |-> [i \in 1 .. GrowObjs(k) |-> i],
             free_count |-> GrowObjs(k)]

(* The frame is not tested for NULL: without memory the slab is built in    *)
(* frame 0.  The next time slab_grow would do so again, over a slab in use; *)
(* the model does not go on there.                                          *)
Granted == IF spare # {} THEN spare ELSE {0} \ DOMAIN slabs

-----------------------------------------------------------------------------
(* slab_init leaves one empty slab in each cache. *)
NoLinks == [head |-> [k \in cache_sizes |-> [l \in List |-> NoSlab]],
            next |-> [s \in Slab |-> NoSlab], prev |-> [s \in Slab |-> NoSlab]]

(* The k-th cache has the k-th frame. *)
First(k) == Quantify(cache_sizes, LAMBDA j : j <= k)

SlabInit ==
    /\ links = [NoLinks EXCEPT !.head =
                   [k \in cache_sizes |-> [l \in List |-> IF l = "empty_slabs" THEN First(k) ELSE NoSlab]]]
    /\ slabs = [s \in {First(k) : k \in cache_sizes} |->
                   Fresh(CHOOSE k \in cache_sizes : First(k) = s)]
    /\ spare = Frames \ {First(k) : k \in cache_sizes}
    /\ live = {}

(* slab_alloc takes the smallest cache that fits. *)
Tier(size) == Min({k \in cache_sizes : size <= k})

(* slab_cache_alloc, once it has the slab s to take an object from. *)
TakeFrom(k, s, ls, sl) ==
    LET obj == Head(sl[s].free_list)
        n == sl[s].free_count - 1
    IN  /\ live' = live \cup {<<s, obj>>}
        /\ slabs' = [sl EXCEPT ![s].free_list = Tail(@), ![s].free_count = n]
        /\ links' = IF n = 0 THEN Move(ls, k, "partial_slabs", "full_slabs", s) ELSE ls

AllocPartial(k) ==
    LET s == links.head[k]["partial_slabs"] IN
    /\ s # NoSlab
    /\ TakeFrom(k, s, links, slabs)
    /\ UNCHANGED spare

AllocEmpty(k) ==
    LET s == links.head[k]["empty_slabs"] IN
    /\ links.head[k]["partial_slabs"] = NoSlab /\ s # NoSlab
    /\ TakeFrom(k, s, Move(links, k, "empty_slabs", "partial_slabs", s), slabs)
    /\ UNCHANGED spare

AllocGrow(k) ==
    /\ links.head[k]["partial_slabs"] = NoSlab /\ links.head[k]["empty_slabs"] = NoSlab
    /\ \E s \in Granted :
          /\ spare' = spare \ {s}
          /\ LET ls == SlabListPush(links, k, "empty_slabs", s)
                 sl == [t \in DOMAIN slabs \cup {s} |-> IF t = s THEN Fresh(k) ELSE slabs[t]]
             IN  TakeFrom(k, s, Move(ls, k, "empty_slabs", "partial_slabs", s), sl)

SlabAlloc(size) ==
    \/ AllocPartial(Tier(size))
    \/ AllocEmpty(Tier(size))
    \/ AllocGrow(Tier(size))

(* slab_free and slab_cache_free: the cache is the one in the header. *)
SlabFree(s, obj) ==
    LET k == slabs[s].parent_cache
        n == slabs[s].free_count + 1
    IN  /\ <<s, obj>> \in live /\ live' = live \ {<<s, obj>>}
        /\ slabs' = [slabs EXCEPT ![s].free_list = <<obj>> \o @, ![s].free_count = n]
        /\ links' = IF n = 1 THEN Move(links, k, "full_slabs", "partial_slabs", s)
                    ELSE IF n = FreeObjs(k) THEN Move(links, k, "partial_slabs", "empty_slabs", s)
                    ELSE links
        /\ UNCHANGED spare

SlabNext == \/ \E size \in Request : SlabAlloc(size)
            \/ \E o \in live : SlabFree(o[1], o[2])

-----------------------------------------------------------------------------
(* The list l of cache k, followed for at most one step per slab. *)
RECURSIVE Walk(_, _)
Walk(s, n) == IF s = NoSlab \/ n = 0 THEN <<>> ELSE <<s>> \o Walk(links.next[s], n - 1)
OnList(k, l) == Walk(links.head[k][l], Cardinality(Slab) + 1)

WellLinked ==
    /\ \A k \in cache_sizes, l \in List :
          LET q == OnList(k, l) IN
          /\ IsInjective(q)
          /\ \A i \in DOMAIN q : /\ slabs[q[i]].parent_cache = k
                                 /\ links.prev[q[i]] = IF i = 1 THEN NoSlab ELSE q[i - 1]
    /\ \A s \in DOMAIN slabs :
          Quantify(cache_sizes \X List, LAMBDA kl : \E i \in DOMAIN OnList(kl[1], kl[2]) :
                                                        OnList(kl[1], kl[2])[i] = s) = 1

(* Every object of a slab is either with a caller or exactly once in the    *)
(* free list, and free_count counts that list.  slab.md: the three lists    *)
(* tell apart the slabs with no, with some and with only free objects, so   *)
(* that a cache grows only when all its objects are in use.  Every slab is  *)
(* on one list, of its own cache, and the lists are well linked although    *)
(* slab_list_remove does not check that the slab is on the list it is told. *)
(* A slab that has one object only is partial when it is free, since        *)
(* slab_cache_free looks for a full slab first.                             *)
SlabsSound ==
    /\ \A s \in DOMAIN slabs :
          LET free == ToSet(slabs[s].free_list)
              held == {o[2] : o \in {p \in live : p[1] = s}}
          IN  /\ IsInjective(slabs[s].free_list)
              /\ slabs[s].free_count = Len(slabs[s].free_list)
              /\ free \cap held = {}
              /\ free \cup held = 1 .. GrowObjs(slabs[s].parent_cache)
    /\ WellLinked
    /\ \A k \in cache_sizes, l \in List :
          \A s \in ToSet(OnList(k, l)) :
              CASE l = "full_slabs"    -> slabs[s].free_count = 0
                [] l = "empty_slabs"   -> slabs[s].free_count = GrowObjs(k)
                [] l = "partial_slabs" -> /\ slabs[s].free_count > 0
                                          /\ GrowObjs(k) > 1 => slabs[s].free_count < GrowObjs(k)
=============================================================================
