------------------------------- MODULE Spawn -------------------------------
(***************************************************************************)
(* The making of user tasks, arch_task_create_user and arch_task_spawn_elf  *)
(* of kernel/arch/x86_64/sched/context.c with elf_load of kernel/fs/elf.c,  *)
(* on the page tables of Vmm, and what becomes of their memory until they   *)
(* are reaped.  Several processors make tasks at a time: each call of       *)
(* vma_map and each copy is a step.  Virtual addresses of an image are in   *)
(* units, PageUnits of them to a page; what a frame holds is Zero, a page   *)
(* of a segment, or whatever was there before.  Of the kernel heap there    *)
(* are only the frames it takes; kmalloc, and with it vma_map, may fail at  *)
(* any time.                                                                *)
(*                                                                         *)
(* Definitions named ..._Bug are deliberately wrong variants of the one    *)
(* after them; they show that the properties notice such a mistake.        *)
(***************************************************************************)
EXTENDS Vmm

CONSTANTS PageUnits,
          Images,     \* what tasks are made of, in order: [elf, phdr], the
                      \* latter the program headers to load
          FixedHeap,  \* where arch_task_create_user puts the heap, 0x406000
          HeapPages,  \* four in the kernel
          StackPage,  \* the last of the user half but one
          Grows,      \* pages by which a heap grows or shrinks
          Left        \* frames that the kernel heap leaves when it grows

VARIABLES step,      \* of each task: what is done next, "ready" when registered
          image, seg, \* what is loaded, and the segment that is
          heap_start, heap_end,
          objects,   \* of the kernel heap: the task and its kernel stack
          kheap,     \* frames of the kernel heap
          next_tid,
          data,      \* what the frames of pages hold, NULL for the others
          partial    \* history: tasks that run without all of their memory

spawnvars == <<step, image, seg, heap_start, heap_end, objects, kheap, next_tid, data, partial>>
vars == <<vmmvars, spawnvars>>

Zero == <<>>
Up(x) == (x + PageUnits - 1) \div PageUnits
At(h) == h.p_vaddr \div PageUnits
Header(s) == image[s].phdr[seg[s]]
MaxVaddr(im) == Max({h.p_vaddr + h.p_memsz : h \in Range(im.phdr)})

Init ==
    /\ VmmInit
    /\ step = [s \in Task |-> "none"] /\ image = [s \in Task |-> NULL]
    /\ seg = [s \in Task |-> 0] /\ objects = [s \in Task |-> {}]
    /\ heap_start = [s \in Task |-> 0] /\ heap_end = [s \in Task |-> 0]
    /\ kheap = {} /\ next_tid = 1
    /\ data = [f \in Frame |-> NULL] /\ partial = {}

Goto(s, where) == step' = [step EXCEPT ![s] = where]

(* The frames of the pages that a step leaves in use keep what they hold. *)
Keep == data' = [f \in Frame |-> IF f \in mem'.free THEN NULL ELSE data[f]]

(* The descriptor and the stack are freed. *)
Forget(s) ==
    /\ Goto(s, "none")
    /\ objects' = [objects EXCEPT ![s] = {}] /\ image' = [image EXCEPT ![s] = NULL]
    /\ heap_start' = [heap_start EXCEPT ![s] = 0] /\ heap_end' = [heap_end EXCEPT ![s] = 0]
    /\ partial' = partial \ {s}

(* task_alloc_base; one that finds no memory leaves nothing behind. *)
AllocBase(s) ==
    /\ step[s] = "none" /\ next_tid <= Len(Images)
    /\ Goto(s, "pml4")
    /\ next_tid' = next_tid + 1
    /\ objects' = [objects EXCEPT ![s] = {"task", "stack"}]
    /\ image' = [image EXCEPT ![s] = Images[next_tid]] /\ seg' = [seg EXCEPT ![s] = 1]
    /\ UNCHANGED <<vmmvars, heap_start, heap_end, kheap, data, partial>>

CreatePml4(s) ==
    /\ step[s] = "pml4"
    /\ \/ /\ Create(s) /\ Goto(s, "load")
          /\ UNCHANGED <<objects, image, heap_start, heap_end, partial>>
       \/ mem.free = {} /\ Forget(s) /\ UNCHANGED vmmvars
    /\ UNCHANGED <<seg, kheap, next_tid, data>>

(* vma_map returns 0.  The frames it took are cleared, mapped or not. *)
Mapped(s, a, n) ==
    /\ VmaMap(s, a, n)
    /\ data' = [f \in Frame |-> IF f \in mem.free \ mem'.free /\ f \notin DOMAIN mem'.tab
                                THEN Zero ELSE data[f]]
    /\ partial' = IF lost' = lost THEN partial ELSE partial \cup {s}

(* vma_map returns an error, or the file is not an ELF image.  The task is  *)
(* given up as it is: neither the descriptor nor the stack, the areas or    *)
(* the tables are freed.                                                    *)
Abandon(s) == Goto(s, "abandoned") /\ UNCHANGED <<vmmvars, data, partial>>

(* elf_load: an area for the segment; arch_task_create_user: for the code. *)
MapSegment(s) ==
    /\ step[s] = "load" /\ seg[s] <= Len(image[s].phdr)
    /\ \/ /\ Header(s).p_vaddr % PageUnits = 0
          /\ Mapped(s, At(Header(s)), Up(Header(s).p_memsz))
          /\ Goto(s, "copy")
       \/ Abandon(s)
    /\ UNCHANGED <<image, seg, heap_start, heap_end, objects, kheap, next_tid>>

Write(h, to) ==
    [f \in Frame |-> IF f \in Range(to) THEN <<h, CHOOSE p \in DOMAIN to : to[p] = f>>
                     ELSE data[f]]

(* All of the segment is copied, not only what the file has of it. *)
CopyElf_Bug(s, h) ==
    Write(h, [p \in 0 .. Up(h.p_memsz) - 1 |-> Translate(mem, cr3[s], At(h) + p)])

(* elf_copy_segment translates page by page, up to one that is missing. *)
CopyElf(s, h) ==
    Write(h, [p \in 0 .. Up(h.p_filesz) - 1 |-> Translate(mem, cr3[s], At(h) + p)])

(* arch_task_create_user translates the first and copies on from there; if  *)
(* it is missing, to physical address 0, below all frames.                  *)
CopyCode(s, h) ==
    LET first == Translate(mem, cr3[s], At(h)) IN
    IF first = NULL THEN data ELSE Write(h, [p \in 0 .. Up(h.p_filesz) - 1 |-> first + p])

Copy(s) ==
    /\ step[s] = "copy"
    /\ data' = IF image[s].elf THEN CopyElf(s, Header(s)) ELSE CopyCode(s, Header(s))
    /\ seg' = [seg EXCEPT ![s] = @ + 1]
    /\ Goto(s, "load")
    /\ UNCHANGED <<vmmvars, image, heap_start, heap_end, objects, kheap, next_tid, partial>>

(* The page after the last segment, even if that ends with its page. *)
HeapStart(im) ==
    IF im.elf THEN (MaxVaddr(im) + PageUnits) \div PageUnits ELSE FixedHeap

(* The heap.  elf_load goes on without it when vma_map fails; it comes      *)
(* before the stack there, and last in arch_task_create_user.               *)
MapHeap(s) ==
    /\ \/ step[s] = "load" /\ seg[s] > Len(image[s].phdr) /\ image[s].elf
       \/ step[s] = "heap"
    /\ LET start == HeapStart(image[s]) IN
       /\ heap_start' = [heap_start EXCEPT ![s] = start]
       /\ heap_end' = [heap_end EXCEPT ![s] = start + HeapPages]
       /\ \/ Mapped(s, start, HeapPages) /\ Goto(s, IF image[s].elf THEN "stack" ELSE "ready")
          \/ /\ image[s].elf
             /\ Goto(s, "stack") /\ partial' = partial \cup {s}
             /\ UNCHANGED <<vmmvars, data>>
          \/ ~image[s].elf /\ Abandon(s)
    /\ UNCHANGED <<image, seg, objects, kheap, next_tid>>

MapStack(s) ==
    /\ \/ step[s] = "load" /\ seg[s] > Len(image[s].phdr) /\ ~image[s].elf
       \/ step[s] = "stack"
    /\ \/ Mapped(s, StackPage, 1) /\ Goto(s, IF image[s].elf THEN "ready" ELSE "heap")
       \/ Abandon(s)
    /\ UNCHANGED <<image, seg, heap_start, heap_end, objects, kheap, next_tid>>

(* sys_malloc extends the heap, sys_free takes back the end of it. *)
Grow(s, n) ==
    /\ step[s] = "ready"
    /\ Mapped(s, heap_end[s], n)
    /\ heap_end' = [heap_end EXCEPT ![s] = @ + n]
    /\ UNCHANGED <<step, image, seg, heap_start, objects, kheap, next_tid>>

Shrink(s, k) ==
    /\ step[s] = "ready"
    /\ \E r \in areas[s] :
          /\ r.at >= heap_start[s] /\ r.at + r.n = heap_end[s]
          /\ VmaUnmap(s, r, k)
    /\ heap_end' = [heap_end EXCEPT ![s] = @ - k]
    /\ Keep
    /\ UNCHANGED <<step, image, seg, heap_start, objects, kheap, next_tid, partial>>

(* sched_reap of a task that has exited. *)
Reap(s) ==
    /\ step[s] = "ready"
    /\ Destroy(s) /\ Forget(s) /\ Keep
    /\ UNCHANGED <<seg, kheap, next_tid>>

(* kmalloc takes frames, and does not return them.  It does so once here,   *)
(* and leaves few.                                                          *)
KernelHeapGrows(n) ==
    /\ kheap = {} /\ Cardinality(mem.free) > n
    /\ kheap' = {f \in mem.free : Cardinality({g \in mem.free : g > f}) >= n}
    /\ mem' = [mem EXCEPT !.free = @ \ kheap']
    /\ UNCHANGED <<cr3, kernel_pml4, areas, lost, step, image, seg, heap_start, heap_end,
                   objects, next_tid, data, partial>>

Next ==
    \/ \E s \in Task :
          \/ AllocBase(s) \/ CreatePml4(s) \/ MapSegment(s) \/ Copy(s) \/ MapHeap(s) \/ MapStack(s)
          \/ \E n \in Grows : Grow(s, n) \/ Shrink(s, n)
          \/ Reap(s)
    \/ \E n \in Left : KernelHeapGrows(n)

Spec == Init /\ [][Next]_vars

-----------------------------------------------------------------------------
(* vma.c: the teardown "releases EVERYTHING".  Every frame is free, the     *)
(* kernel heap's or in the tables of the kernel or of a task that is not    *)
(* reaped yet, and never two of these.  What is missing is what vma_map     *)
(* could not map for want of a table: vmm_map_range returns void, and       *)
(* vma_map does not free it.  A task whose creation has failed after its    *)
(* PML4 was made is never reaped and keeps all it has.                      *)
NoLeak ==
    /\ Frame \subseteq mem.free \cup kheap \cup InUse \cup lost
    /\ InUse \cap (mem.free \cup kheap \cup lost) = {}
    /\ \A s \in Task : step[s] = "none" => cr3[s] = NULL /\ areas[s] = {} /\ objects[s] = {}

(* What a task finds in its memory at page p of its address space. *)
Holds(s, p, what) ==
    LET f == Translate(mem, cr3[s], p) IN f # NULL /\ data[f] = what

(* A task that is registered has all of its image in place: the pages of    *)
(* the file, zeros behind them and zeros in the stack and the heap, and     *)
(* nothing that is made, copied or torn down for another task changes that. *)
(* The exceptions are the tasks that vma_map has told all was well when a   *)
(* table was missing, and those that elf_load has left without a heap.      *)
ImageInPlace ==
    \A s \in Task : step[s] = "ready" /\ s \notin partial =>
        /\ \A k \in DOMAIN image[s].phdr : LET h == image[s].phdr[k] IN
              \A p \in 0 .. Up(h.p_memsz) - 1 :
                  Holds(s, At(h) + p, IF p < Up(h.p_filesz) THEN <<h, p>> ELSE Zero)
        /\ \A p \in {StackPage} \cup (heap_start[s] .. heap_end[s] - 1) : Holds(s, p, Zero)
=============================================================================
