------------------------------ MODULE Kmalloc ------------------------------
(***************************************************************************)
(* The first-fit heap of kernel/memory/kmalloc.c, which serves the requests *)
(* above 2048 bytes.  Addresses and sizes are in units of 8 bytes, so that  *)
(* a page has 512 and a header 5 units.  A block is named by the address    *)
(* of its header.  The two critical sections of kmalloc are two steps:      *)
(* heap_lock_ is free while the frames are allocated.                       *)
(*                                                                         *)
(* Definitions named ..._Bug are deliberately wrong variants of the one    *)
(* after them; they show that the properties notice such a mistake.        *)
(***************************************************************************)
EXTENDS Integers, Sequences, FiniteSetsExt, SequencesExt

CONSTANTS Cpu,
          Size,          \* sizes asked for, in units
          NumFrames,     \* frames of the machine, numbered from 0
          Taken,         \* those that others hold
          NULL

Page == 512
Header == 5              \* sizeof(m_header_t) = 40
MinBlock == 2            \* HEAP_MIN_BLOCK_SIZE = 16

VARIABLES hdr,           \* the headers written so far, by address
          frames,        \* frames not handed out
          held,          \* history: blocks that callers hold
          pc,            \* "idle", or "expand" between the critical sections
          size, last, new_block, \* the locals of kmalloc in between
          stale          \* history: last was not the last block any more

heapvars == <<hdr, frames, held, pc, size, last, new_block, stale>>

heap_start == 0

Block(sz, free, nxt, prv) == [size |-> sz, is_free |-> free, next |-> nxt, prev |-> prv]
End(h, b) == b + Header + h[b].size
AlignUp16(n) == n + (n % 2)
Write(h, b, r) == [a \in DOMAIN h \cup {b} |-> IF a = b THEN r ELSE h[a]]

(* The blocks on the chain, in its order. *)
RECURSIVE ChainFrom(_, _)
ChainFrom(h, b) == IF b = NULL THEN <<>> ELSE <<b>> \o ChainFrom(h, h[b].next)
Chain == ChainFrom(hdr, heap_start)

(* A merged header is payload: it is remembered only while a block of the  *)
(* chain, a caller or the local of a pending kmalloc still leads to it.     *)
Remember(h, inUse) ==
    LET roots == (ToSet(ChainFrom(h, heap_start)) \cup inUse) \ {NULL}
    IN  Restrict(h, (roots \cup {h[b].prev : b \in roots} \cup {h[b].next : b \in roots}) \cap DOMAIN h)

-----------------------------------------------------------------------------
(* kmalloc_init *)
HeapInit ==
    /\ hdr = Write(<<>>, heap_start, Block(Page - Header, TRUE, NULL, NULL))
    /\ frames = (1 .. NumFrames - 1) \ Taken
    /\ held = {}
    /\ pc = [c \in Cpu |-> "idle"] /\ size = [c \in Cpu |-> 0]
    /\ last = [c \in Cpu |-> NULL] /\ new_block = [c \in Cpu |-> NULL] /\ stale = FALSE

(* The room for the header of the remainder is forgotten. *)
Split_Bug(h, b, sz) ==
    IF h[b].size >= sz + Header + MinBlock
    THEN LET n == b + Header + sz
             x == h[b].next
             h1 == Write(h, n, Block(h[b].size - sz, TRUE, x, b))
             h2 == IF x # NULL THEN [h1 EXCEPT ![x].prev = n] ELSE h1
         IN  [h2 EXCEPT ![b].size = sz, ![b].next = n]
    ELSE h

(* Cut a block of sz units off b when what remains can be a block. *)
Split(h, b, sz) ==
    IF h[b].size >= sz + Header + MinBlock
    THEN LET n == b + Header + sz
             x == h[b].next
             h1 == Write(h, n, Block(h[b].size - sz - Header, TRUE, x, b))
             h2 == IF x # NULL THEN [h1 EXCEPT ![x].prev = n] ELSE h1
         IN  [h2 EXCEPT ![b].size = sz, ![b].next = n]
    ELSE h

Fits(b, sz) == hdr[b].is_free /\ hdr[b].size >= sz

(* kmalloc: the first block of the chain that is free and large enough. *)
AllocFit(c, sz) ==
    /\ pc[c] = "idle"
    /\ \E i \in DOMAIN Chain :
          /\ Fits(Chain[i], sz) /\ \A j \in 1 .. (i - 1) : ~Fits(Chain[j], sz)
          /\ hdr' = [Split(hdr, Chain[i], sz) EXCEPT ![Chain[i]].is_free = FALSE]
          /\ held' = held \cup {Chain[i]}
    /\ UNCHANGED <<frames, pc, size, last, new_block, stale>>

(* kmalloc: no block fits.  The lock is released and frames are taken;     *)
(* without frames the call returns NULL.                                   *)
NeedFrames(sz) == (sz + Header + Page - 1) \div Page
Runs(n) == {f \in frames : f .. (f + n - 1) \subseteq frames}

AllocFrames(c, sz) ==
    /\ pc[c] = "idle"
    /\ \A i \in DOMAIN Chain : ~Fits(Chain[i], sz)
    /\ Runs(NeedFrames(sz)) # {}
    /\ LET f == Min(Runs(NeedFrames(sz))) IN
       /\ frames' = frames \ (f .. (f + NeedFrames(sz) - 1))
       /\ new_block' = [new_block EXCEPT ![c] = f * Page]
    /\ last' = [last EXCEPT ![c] = Last(Chain)]
    /\ size' = [size EXCEPT ![c] = sz]
    /\ pc' = [pc EXCEPT ![c] = "expand"]
    /\ UNCHANGED <<hdr, held, stale>>

(* The second critical section appends the block behind the last block     *)
(* that the first one saw.                                                  *)
LinkBehind(h, b, l, sz) ==
    [Split(Write(h, b, Block(NeedFrames(sz) * Page - Header, FALSE, NULL, l)), b, sz)
        EXCEPT ![l].next = b]

Expand(c) ==
    /\ pc[c] = "expand"
    /\ held' = held \cup {new_block[c]}
    /\ pc' = [pc EXCEPT ![c] = "idle"] /\ size' = [size EXCEPT ![c] = 0]
    /\ last' = [last EXCEPT ![c] = NULL] /\ new_block' = [new_block EXCEPT ![c] = NULL]
    /\ hdr' = Remember(LinkBehind(hdr, new_block[c], last[c], size[c]), held' \cup Range(last'))
    /\ stale' = (stale \/ last[c] # Last(Chain))
    /\ UNCHANGED frames

(* kfree: merge with the next block, then with the previous one, when they  *)
(* are free and adjacent.                                                   *)
Absorb(h, b) ==
    LET n == h[b].next
        x == h[n].next
        h1 == [h EXCEPT ![b].size = @ + h[n].size + Header, ![b].next = x]
    IN  IF x # NULL THEN [h1 EXCEPT ![x].prev = b] ELSE h1

MergeNext(h, b) ==
    LET n == h[b].next IN
    IF n # NULL /\ h[n].is_free /\ End(h, b) = n THEN Absorb(h, b) ELSE h

MergePrev(h, b) ==
    LET p == h[b].prev
        x == h[b].next
        h1 == [h EXCEPT ![p].size = @ + h[b].size + Header, ![p].next = x]
    IN  IF p # NULL /\ h[p].is_free /\ End(h, p) = b
        THEN IF x # NULL THEN [h1 EXCEPT ![x].prev = p] ELSE h1
        ELSE h

Kfree(c, b) ==
    /\ pc[c] = "idle"
    /\ b \in held /\ held' = held \ {b}
    /\ hdr' = Remember(MergePrev(MergeNext([hdr EXCEPT ![b].is_free = TRUE], b), b),
                       held' \cup Range(last))
    /\ UNCHANGED <<frames, pc, size, last, new_block, stale>>

(* What a stale link leads to is not followed any further. *)
HeapNext == ~stale /\ \E c \in Cpu :
    \/ \E sz \in Size : AllocFit(c, AlignUp16(sz)) \/ AllocFrames(c, AlignUp16(sz))
    \/ Expand(c)
    \/ \E b \in held : Kfree(c, b)

-----------------------------------------------------------------------------
(* The frames of the heap: those handed out, except to a pending Expand. *)
HeapFrames ==
    ((0 .. NumFrames - 1) \ (frames \cup Taken))
    \ UNION {(new_block[c] \div Page) .. (new_block[c] \div Page + NeedFrames(size[c]) - 1) :
                 c \in {d \in Cpu : pc[d] = "expand"}}
OnChain == ToSet(Chain)

(* The properties hold as long as every expansion finds the last block     *)
(* where its first critical section saw it.  Once another CPU has appended *)
(* a block, or has split, merged or freed that one, the new block falls    *)
(* off the chain or takes another's place on it.                           *)

(* The blocks of the chain tile the frames of the heap: first fit, split,  *)
(* expansion and both merges lose no memory and hand none out twice; prev  *)
(* is the inverse of next, which kfree relies on; no two neighbours are     *)
(* both free and adjacent, since kfree merges at once; and the allocated    *)
(* blocks of the chain are exactly those that callers hold (kmalloc.md: a   *)
(* new block is appended "to the heap chain").                              *)
BlocksTile == ~stale =>
    /\ \A a, b \in OnChain : a < b => End(hdr, a) <= b
    /\ \A b \in OnChain : (b \div Page) .. ((End(hdr, b) - 1) \div Page) \subseteq HeapFrames
    /\ MapThenSumSet(LAMBDA b : Header + hdr[b].size, OnChain) = Page * Cardinality(HeapFrames)
    /\ \A i \in DOMAIN Chain : hdr[Chain[i]].prev = IF i = 1 THEN NULL ELSE Chain[i - 1]
    /\ \A i \in 1 .. (Len(Chain) - 1) :
          ~(/\ hdr[Chain[i]].is_free /\ hdr[Chain[i + 1]].is_free
            /\ End(hdr, Chain[i]) = Chain[i + 1])
    /\ held = {b \in OnChain : ~hdr[b].is_free}
=============================================================================
