------------------------------ MODULE UserHeap ------------------------------
(***************************************************************************)
(* The heap of a user task: sys_malloc_handler and sys_free_handler of      *)
(* kernel/syscall/syscall_funcs.c on top of the heap area that vma_map and  *)
(* vma_unmap keep for it.  Addresses are bytes.  The handlers run with      *)
(* interrupts off on behalf of the only thread of the task.  Sums do not    *)
(* wrap: requests within 16 bytes of 2^64 are left out.                     *)
(*                                                                         *)
(* Definitions named ..._Bug are deliberately wrong variants of the one    *)
(* after them; they show that the properties notice such a mistake.        *)
(***************************************************************************)
EXTENDS Integers, FiniteSets

CONSTANTS Sizes,       \* what the program asks for
          heap_start,  \* behind the last segment, page aligned
          HeapLimit,   \* bytes of heap that there are frames for
          MaxBlocks    \* blocks the program holds at a time

PAGE_SIZE == 4096
Aligned(n, k) == n % k = 0
AlignTo16(n) == ((n + 15) \div 16) * 16
AlignToPage(n) == ((n + 4095) \div 4096) * 4096

ASSUME HeapAssumption ==
    /\ Sizes \subseteq Nat \ {0}
    /\ heap_start \in Nat /\ Aligned(heap_start, 4096)
    /\ HeapLimit \in Nat /\ MaxBlocks \in Nat

VARIABLES heap_curr, heap_end,  \* of the task
          vm_end,               \* of its heap area
          blocks                \* history: [addr, size] the program holds

heapvars == <<heap_curr, heap_end, vm_end, blocks>>

(* arch_task_create_user and elf_load map four pages. *)
HeapInit ==
    /\ heap_curr = heap_start
    /\ heap_end = heap_start + 4 * PAGE_SIZE /\ vm_end = heap_start + 4 * PAGE_SIZE
    /\ blocks = {}

Grant(size) ==
    /\ heap_curr' = heap_curr + AlignTo16(size)
    /\ blocks' = blocks \cup {[addr |-> heap_curr, size |-> size]}

(* sys_malloc: the block fits below heap_end. *)
MallocFits(size) ==
    /\ heap_curr + AlignTo16(size) <= heap_end
    /\ Grant(size)
    /\ UNCHANGED <<heap_end, vm_end>>

(* The new pages are counted from the size alone, rounded down. *)
Needed_Bug(size) == (size \div PAGE_SIZE) * PAGE_SIZE

(* sys_malloc: the area is extended first.  vma_map grows the area that     *)
(* ends at heap_end; without frames sys_malloc returns 0.                   *)
Needed(size) == AlignToPage(heap_curr + size - heap_end)

VmaMap(addr, size) == addr = vm_end /\ vm_end' = vm_end + size

MallocGrows(size) ==
    /\ heap_curr + AlignTo16(size) > heap_end
    /\ heap_end + Needed(size) <= heap_start + HeapLimit
    /\ VmaMap(heap_end, Needed(size))
    /\ heap_end' = heap_end + Needed(size)
    /\ Grant(size)

(* The pages behind curr that sys_free gives back: when four pages are      *)
(* unused, all but the first of them.                                       *)
Released(curr) ==
    LET gap == heap_end - curr IN
    IF gap >= 4 * PAGE_SIZE THEN ((gap - PAGE_SIZE) \div PAGE_SIZE) * PAGE_SIZE ELSE 0

UnmapStart(curr) ==
    IF heap_end - Released(curr) < curr THEN AlignToPage(curr)
    ELSE heap_end - Released(curr)

(* vma_unmap, called by sys_free: it fails if no area holds addr, and moves *)
(* the end of the area if the range reaches it.  heap_end follows only when *)
(* the call succeeds.                                                       *)
Trim(addr, size) ==
    IF heap_start <= addr /\ addr < vm_end
    THEN /\ heap_end' = addr
         /\ vm_end' = IF addr > heap_start /\ addr + size >= vm_end THEN addr ELSE vm_end
    ELSE UNCHANGED <<heap_end, vm_end>>

(* sys_free.  Only the topmost block moves heap_curr. *)
Free(b) ==
    /\ blocks' = blocks \ {b}
    /\ IF b.addr + AlignTo16(b.size) # heap_curr
       THEN UNCHANGED <<heap_curr, heap_end, vm_end>>
       ELSE /\ heap_curr' = b.addr
            /\ IF Released(b.addr) > 0 THEN Trim(UnmapStart(b.addr), Released(b.addr))
               ELSE UNCHANGED <<heap_end, vm_end>>

HeapNext ==
    \/ /\ Cardinality(blocks) < MaxBlocks
       /\ \E size \in Sizes : MallocFits(size) \/ MallocGrows(size)
    \/ \E b \in blocks : Free(b)

HeapSpec == HeapInit /\ [][HeapNext]_heapvars

-----------------------------------------------------------------------------
(* The pointers keep the alignment that the rounding in both handlers       *)
(* relies on.                                                               *)
HeapTypeOK ==
    /\ heap_curr \in Nat /\ heap_end \in Nat /\ vm_end \in Nat
    /\ Aligned(heap_curr, 16) /\ Aligned(heap_end, 4096)
    /\ \A b \in blocks : b.addr \in Nat /\ b.size \in Sizes /\ Aligned(b.addr, 16)

(* The heap ends where its area ends, although each layer keeps its own     *)
(* boundary: sys_malloc can always extend it and sys_free always trims it.  *)
HeapMatchesArea == heap_end = vm_end

(* Every block that sys_malloc has given the program is mapped, all of it,  *)
(* and no two overlap, however the heap has grown and shrunk since.         *)
BlocksSound ==
    /\ \A b \in blocks : heap_start <= b.addr /\ b.addr + b.size <= vm_end
    /\ \A b, d \in blocks :
          b # d => b.addr + b.size <= d.addr \/ d.addr + d.size <= b.addr
=============================================================================
