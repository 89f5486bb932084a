-------------------------------- MODULE Pmm --------------------------------
(***************************************************************************)
(* The physical memory manager, kernel/memory/pmm.c: a bitmap with one bit *)
(* per frame and a search hint per CPU.  Every operation holds pmm_lock_   *)
(* with interrupts off and is one step.  The sizes that the code fixes     *)
(* (8 bits, 8 bytes, 4096 bytes, 256 frames) are constants here.           *)
(*                                                                         *)
(* Definitions named ..._Bug are deliberately wrong variants of the one    *)
(* after them; they show that the properties notice such a mistake.        *)
(***************************************************************************)
EXTENDS Integers, Sequences

CONSTANTS Cpu,
          NoCpu,        \* get_cpu() = NULL, the BSP before cpu_init_bsp
          ByteBits,     \* frames per byte of the bitmap
          QwordBytes,   \* bytes the search for runs skips at once
          PageBytes,    \* PAGE_SIZE
          LowFrames,    \* frames of the first 1 MB
          FixedFrames,  \* AP_CONFIG_PHYS_ADDR and TRAMPOLINE_PHYS_ADDR
          memory_map,   \* descriptors [type, start, num_pages] of UEFI
          kernel_base, kernel_frames,
          MaxCount,     \* the longest run asked for
          NULL


-----------------------------------------------------------------------------
(* pmm_init.  First pass: the highest frame gives the size, cut off to     *)
(* whole bytes.                                                            *)
EndOf(d) == d.start + d.num_pages
bitmap_size ==
    LET last == CHOOSE i \in DOMAIN memory_map :
                    \A j \in DOMAIN memory_map : EndOf(memory_map[i]) >= EndOf(memory_map[j])
    IN  EndOf(memory_map[last]) \div ByteBits

Byte == 0 .. bitmap_size - 1
Frame == 0 .. bitmap_size * ByteBits - 1

(* Second pass: the first conventional region that is large enough. *)
Fits(d) == d.type = "conventional" /\ d.num_pages * PageBytes >= bitmap_size
BitmapAt ==
    memory_map[CHOOSE i \in DOMAIN memory_map :
                   Fits(memory_map[i]) /\ \A j \in 1 .. (i - 1) : ~Fits(memory_map[j])].start
BitmapFrames == BitmapAt .. BitmapAt + (bitmap_size + PageBytes - 1) \div PageBytes - 1

(* Third pass, and the frames that are locked after it. *)
Usable == UNION {memory_map[i].start .. EndOf(memory_map[i]) - 1 :
                    i \in {j \in DOMAIN memory_map : memory_map[j].type \in {"conventional", "boot_data"}}}
Locked == (0 .. LowFrames - 1) \cup (kernel_base .. kernel_base + kernel_frames) \cup BitmapFrames

ASSUME PmmAssumption ==
    /\ bitmap_size \in Nat \ {0} /\ ByteBits \in Nat \ {0} /\ QwordBytes \in Nat \ {0}
    /\ PageBytes \in Nat \ {0} /\ LowFrames \in Nat \ {0} /\ MaxCount \in Nat
    /\ NoCpu \notin Cpu /\ NULL \notin Frame
    /\ \E i \in DOMAIN memory_map : Fits(memory_map[i])

-----------------------------------------------------------------------------
VARIABLES used,            \* the frames whose bit is 1
          pmm_last_index,  \* of each cpu_context_t
          online,          \* the CPUs whose context is set up
          out,             \* history: frames handed out and not freed
          result           \* what the last pmm_alloc_frame returned

vars == <<used, pmm_last_index, online, out, result>>

(* The kernel region is not locked. *)
Init_Bug ==
    /\ used = Frame \ (Usable \ ((0 .. LowFrames - 1) \cup BitmapFrames))
    /\ pmm_last_index = [c \in Cpu |-> 0]
    /\ online = {} /\ out = {} /\ result = 0

Init ==
    /\ used = Frame \ (Usable \ Locked)
    /\ pmm_last_index = [c \in Cpu |-> 0]
    /\ online = {} /\ out = {} /\ result = 0

(* The free frames of byte i, of which __builtin_ctz finds the lowest. *)
FreeIn(i) == {f \in Frame : f \div ByteBits = i} \ used
Lowest(S) == CHOOSE f \in S : \A g \in S : f <= g

Hint(c) == IF c \in Cpu THEN pmm_last_index[c] ELSE 0
SetHint(c, i) == pmm_last_index' = IF c \in Cpu THEN [pmm_last_index EXCEPT ![c] = i]
                                   ELSE pmm_last_index

(* The bytes in which the search from the hint stops: it skips full bytes  *)
(* and a byte whose first free frame is frame 0.                           *)
Stops(h) == {i \in Byte : i >= h /\ FreeIn(i) # {} /\ Lowest(FreeIn(i)) # 0}

(* The next search starts behind the byte that was used. *)
AllocFrame_Bug(c) ==
    \/ /\ Stops(Hint(c)) # {}
       /\ LET i == Lowest(Stops(Hint(c)))  f == Lowest(FreeIn(i)) IN
          /\ used' = used \cup {f} /\ out' = out \cup {f} /\ result' = f
          /\ SetHint(c, IF i < bitmap_size - 1 THEN i + 1 ELSE i) /\ UNCHANGED online
    \/ /\ Stops(Hint(c)) = {} /\ result' = NULL
       /\ UNCHANGED <<used, out, pmm_last_index, online>>

(* The bit is not set. *)
AllocFrame_MarkBug(c) ==
    \/ /\ Stops(Hint(c)) # {}
       /\ LET i == Lowest(Stops(Hint(c)))  f == Lowest(FreeIn(i)) IN
          /\ UNCHANGED used /\ out' = out \cup {f} /\ result' = f
          /\ SetHint(c, i) /\ UNCHANGED online
    \/ /\ Stops(Hint(c)) = {} /\ result' = NULL
       /\ UNCHANGED <<used, out, pmm_last_index, online>>

(* pmm_alloc_frame *)
AllocFrame(c) ==
    \/ /\ Stops(Hint(c)) # {}
       /\ LET i == Lowest(Stops(Hint(c)))  f == Lowest(FreeIn(i)) IN
          /\ used' = used \cup {f} /\ out' = out \cup {f} /\ result' = f
          /\ SetHint(c, i) /\ UNCHANGED online
    \/ /\ Stops(Hint(c)) = {} /\ result' = NULL
       /\ UNCHANGED <<used, out, pmm_last_index, online>>

(* pmm_alloc_frames: the first run of count free frames that starts in a   *)
(* whole quadword; the hints are not used.                                 *)
Run(s, count) == s .. s + count - 1
Starts(count) == {s \in Frame : /\ s \div (QwordBytes * ByteBits) < bitmap_size \div QwordBytes
                                /\ Run(s, count) \subseteq Frame \ used}

AllocFrames(c, count) ==
    /\ Starts(count) # {}
    /\ LET S == Run(Lowest(Starts(count)), count) IN used' = used \cup S /\ out' = out \cup S
    /\ UNCHANGED <<pmm_last_index, online, result>>

(* pmm_free_frame, of a frame that the caller was given. *)
FreeFrame(c, f) ==
    /\ f \in out /\ out' = out \ {f}
    /\ used' = used \ {f}
    /\ IF f \div ByteBits < Hint(c) THEN SetHint(c, f \div ByteBits) ELSE UNCHANGED pmm_last_index
    /\ result' = 0 /\ UNCHANGED online

(* cpu_init_bsp and smp_init_cpu clear a new context, the hint with it.   *)
(* For every CPU but the first, smp_init_cpu also writes the configuration *)
(* block and the trampoline to two fixed frames, whatever is there.  What  *)
(* they allocate are AllocFrame and AllocFrames steps of the caller.       *)
BitsIn(F) == {f \in Frame : BitmapAt + (f \div ByteBits) \div PageBytes \in F}
Overwritten == IF online = {} THEN {} ELSE BitsIn(FixedFrames \cap BitmapFrames)

InitCpu(c) ==
    /\ c \in Cpu \ online
    /\ online' = online \cup {c}
    /\ pmm_last_index' = [pmm_last_index EXCEPT ![c] = 0]
    /\ \E S \in SUBSET Overwritten : used' = (used \ Overwritten) \cup S
    /\ UNCHANGED <<out, result>>

(* Until cpu_init_bsp the BSP runs without a context. *)
Caller == IF online = {} THEN {NoCpu} ELSE online

Next == \/ \E c \in Caller : \/ AllocFrame(c)
                             \/ \E count \in 1 .. MaxCount : AllocFrames(c, count)
                             \/ \E f \in out : FreeFrame(c, f)
        \/ \E c \in Cpu : InitCpu(c)

Spec == Init /\ [][Next]_vars

-----------------------------------------------------------------------------
(* Every variable keeps its C type; the hints stay within the bitmap. *)
TypeOK ==
    /\ online \subseteq Cpu /\ used \subseteq Frame /\ out \subseteq Frame
    /\ pmm_last_index \in [Cpu -> Nat]
    /\ \A c \in Cpu : pmm_last_index[c] = 0 \/ pmm_last_index[c] \in Byte
    /\ result \in Frame \cup {NULL}

(* pmm.c: the bitmap protects "the first 1MB, the kernel, and the bitmap    *)
(* itself".  What callers hold is usable memory outside these, and is      *)
(* marked; and what is not marked is usable memory, too.                   *)
FramesAccounted ==
    /\ out \subseteq (used \cap Usable) \ Locked
    /\ Frame \ used \subseteq Usable \ Locked

(* A caller is told that there is no memory, which vmm_map reports as "Out  *)
(* of memory for page tables", only when every frame is in use.  This is   *)
(* so as long as one CPU runs: pmm_free_frame lowers only the hint of its  *)
(* own CPU, and pmm_alloc_frame does not look below the hint.              *)
Alone == \A c, d \in online : c = d
OutOfMemoryIsReal == Alone /\ result = NULL => used = Frame

(* No frame is handed out twice: see FrameSource. *)
Source == INSTANCE FrameSource WITH avail <- Frame \ used
ImplementsFrameSource == Source!Spec
=============================================================================
