----------------------------- MODULE BootLoader -----------------------------
(***************************************************************************)
(* The UEFI loader, boot/src: it loads the kernel image and the ramdisk,    *)
(* and leaves boot services with a memory map that is still true, from      *)
(* which pmm_init takes what the kernel may use.  The firmware is external: *)
(* its timers and drivers allocate and free memory between any two calls of *)
(* the loader.  Memory is a type per page; an allocation from a pool takes  *)
(* a page.  Addresses within the image are in units, of which a page has    *)
(* PageUnits.  Graphics and ACPI are looked up and change nothing here.     *)
(*                                                                         *)
(* Definitions named ..._Bug are deliberately wrong variants of the one    *)
(* after them; they show that the properties notice such a mistake.        *)
(***************************************************************************)
EXTENDS Integers, Sequences, FiniteSets

CONSTANTS Pages,          \* pages of the machine, numbered from 0
          FirstMap,       \* their types when the loader starts
          KernelPage,     \* the page at 0x2000000
          PageUnits,
          Images,         \* program headers a kernel can have
          RamdiskPages,
          Stack,          \* the page that holds BootInfo, on the loader's stack
          MaxChanges,     \* bound: allocations and releases by the firmware
          NoPage

VARIABLES mem,            \* per page: its type
          pc, seg,        \* the loader's step; the next program header
          phdrs,          \* the program headers of the kernel
          kernel, image,  \* pages of the image, and its contents by unit
          ramdisk,        \* pages of the ramdisk
          buffer,         \* the page of the memory map, or NoPage
          mmap, mmap_size, \* its contents; size in descriptors
          key_valid,      \* map_key is that of the present map
          changes         \* by the firmware

loaded == <<phdrs, kernel, image, ramdisk>>
map == <<buffer, mmap, mmap_size, key_valid>>
bootvars == <<mem, pc, seg, loaded, map, changes>>

Page == 0 .. Pages - 1
Types == {"conventional", "boot_data", "loader_code", "loader_data", "reserved"}

ASSUME BootAssumption ==
    /\ Pages \in Nat \ {0} /\ KernelPage \in Nat /\ RamdiskPages \in Nat
    /\ FirstMap \in [Page -> Types] /\ Stack \in Page /\ NoPage \notin Page

(* GetMemoryMap describes each run of pages of one type. *)
Descriptors(m) == Cardinality({p \in Page : p = 0 \/ m[p] # m[p - 1]})

Retype(S, type) == mem' = [p \in Page |-> IF p \in S THEN type ELSE mem[p]]
Free(S) == \A p \in S : p \in Page /\ mem[p] = "conventional"

-----------------------------------------------------------------------------
(* A unit of the image is <<header, place>> once it is read from the file,  *)
(* Zero once it is cleared, and <<>> before.                                *)
Zero == <<0, 0>>

Load(ph) == ph.load /\ ph.memsz # 0
Loadable == {i \in DOMAIN phdrs : Load(phdrs[i])}
lo == CHOOSE a \in {phdrs[i].vaddr : i \in Loadable} : \A i \in Loadable : a <= phdrs[i].vaddr
SegEnd(ph) == ph.vaddr + ph.memsz
hi == CHOOSE a \in {SegEnd(phdrs[i]) : i \in Loadable} : \A i \in Loadable : a >= SegEnd(phdrs[i])
ImagePages == (hi - lo + PageUnits - 1) \div PageUnits

BootInit ==
    /\ mem = FirstMap /\ changes = 0
    /\ pc = "open" /\ seg = 1
    /\ phdrs \in Images
    /\ kernel = {} /\ image = <<>> /\ ramdisk = {}
    /\ buffer = NoPage /\ mmap = FirstMap /\ mmap_size = 0 /\ key_valid = FALSE

(* boot_panic halts; so does every error that init_kernel returns. *)
Panic(at) == pc = at /\ pc' = "panic" /\ UNCHANGED <<mem, seg, loaded, map, changes>>

(* open_kernel_file and load_kernel_elf: the file is opened and its headers *)
(* are read and checked, in a pool that is freed again; a failure of any of *)
(* this is Panic("open").  The pages of the image are at a fixed address;   *)
(* they hold whatever they held before.                                     *)
AllocateImage ==
    LET S == KernelPage .. KernelPage + ImagePages - 1 IN
    /\ pc = "open" /\ Loadable # {} /\ Free(S)
    /\ pc' = "segments"
    /\ kernel' = S /\ Retype(S, "loader_code") /\ key_valid' = FALSE
    /\ image' = [u \in 0 .. ImagePages * PageUnits - 1 |-> <<>>]
    /\ UNCHANGED <<seg, phdrs, ramdisk, buffer, mmap, mmap_size, changes>>

(* The rest behind the file's part is not cleared. *)
LoadSegment_Bug ==
    /\ pc = "segments" /\ seg <= Len(phdrs) /\ seg' = seg + 1
    /\ LET ph == phdrs[seg]  at == ph.vaddr - lo IN
       image' = [u \in DOMAIN image |->
                    IF Load(ph) /\ u \in at .. at + ph.filesz - 1 THEN <<seg, u - at>> ELSE image[u]]
    /\ UNCHANGED <<mem, pc, phdrs, kernel, ramdisk, map, changes>>

(* A segment: filesz units from the file, memsz - filesz of zero. *)
LoadSegment ==
    /\ pc = "segments" /\ seg <= Len(phdrs) /\ seg' = seg + 1
    /\ LET ph == phdrs[seg]  at == ph.vaddr - lo IN
       image' = [u \in DOMAIN image |->
                    IF ~Load(ph) \/ u \notin at .. at + ph.memsz - 1 THEN image[u]
                    ELSE IF u < at + ph.filesz THEN <<seg, u - at>> ELSE Zero]
    /\ UNCHANGED <<mem, pc, phdrs, kernel, ramdisk, map, changes>>

(* init_ramdisk *)
LoadRamdisk ==
    /\ pc = "segments" /\ seg > Len(phdrs) /\ pc' = "probe"
    /\ \E p \in Page :
          LET S == p .. p + RamdiskPages - 1 IN
          Free(S) /\ ramdisk' = S /\ Retype(S, "loader_data")
    /\ key_valid' = FALSE
    /\ UNCHANGED <<seg, phdrs, kernel, image, buffer, mmap, mmap_size, changes>>

-----------------------------------------------------------------------------
(* final_memory_map_and_exit.  The first call asks for the size. *)
Probe ==
    /\ pc = "probe" /\ pc' = "allocate"
    /\ mmap_size' = Descriptors(mem) + 4
    /\ UNCHANGED <<mem, seg, loaded, buffer, mmap, key_valid, changes>>

AllocateMap ==
    /\ pc = "allocate" /\ pc' = "get"
    /\ \E p \in Page : Free({p}) /\ buffer' = p /\ Retype({p}, "loader_data")
    /\ key_valid' = FALSE
    /\ UNCHANGED <<seg, loaded, mmap, mmap_size, changes>>

GetMap ==
    /\ pc = "get" /\ Descriptors(mem) <= mmap_size /\ pc' = "exit"
    /\ mmap' = mem /\ mmap_size' = Descriptors(mem) /\ key_valid' = TRUE
    /\ UNCHANGED <<mem, seg, loaded, buffer, changes>>

Reallocate(size) ==
    /\ pc' = "allocate" /\ mmap_size' = size
    /\ buffer' = NoPage /\ Retype({buffer}, "conventional") /\ key_valid' = FALSE
    /\ UNCHANGED <<seg, loaded, mmap, changes>>

(* The buffer is made anew as large as before. *)
TooSmall_Bug == pc = "get" /\ Descriptors(mem) > mmap_size /\ Reallocate(mmap_size)

(* EFI_BUFFER_TOO_SMALL *)
TooSmall == pc = "get" /\ Descriptors(mem) > mmap_size /\ Reallocate(Descriptors(mem) + 4)

(* The status of ExitBootServices is not looked at. *)
Exit_Bug ==
    /\ pc = "exit" /\ pc' = "kernel"
    /\ UNCHANGED <<mem, seg, loaded, map, changes>>

(* ExitBootServices accepts the key of the present map only. *)
Exit ==
    /\ pc = "exit" /\ key_valid /\ pc' = "kernel"
    /\ UNCHANGED <<mem, seg, loaded, map, changes>>

ExitFails == pc = "exit" /\ ~key_valid /\ Reallocate(mmap_size + 2)

Loader == \/ AllocateImage \/ LoadSegment \/ LoadRamdisk
          \/ Probe \/ AllocateMap \/ GetMap \/ TooSmall \/ Exit \/ ExitFails
          \/ \E at \in {"open", "segments", "probe", "allocate"} : Panic(at)

-----------------------------------------------------------------------------
(* The firmware takes a page, or gives one of its own back. *)
Firmware ==
    /\ pc # "kernel" /\ changes < MaxChanges /\ changes' = changes + 1
    /\ \E p \in Page \ {Stack} :
          \/ mem[p] = "conventional" /\ Retype({p}, "boot_data")
          \/ mem[p] = "boot_data" /\ Retype({p}, "conventional")
    /\ key_valid' = FALSE
    /\ UNCHANGED <<pc, seg, loaded, buffer, mmap, mmap_size>>

BootNext == Loader \/ Firmware

-----------------------------------------------------------------------------
(* pmm_init unlocks conventional memory and that of boot services. *)
Unlocked(m) == {p \in Page : m[p] \in {"conventional", "boot_data"}}

(* Whatever the firmware does between the calls, the kernel starts with a   *)
(* map that is true, and neither its image, nor the ramdisk, nor the map it *)
(* is reading is in the memory that pmm_init takes for free; nor BootInfo,  *)
(* if the firmware keeps the loader's stack outside of boot services data.  *)
MapIsTrue ==
    pc = "kernel" =>
        /\ mmap = mem /\ mmap_size = Descriptors(mem)
        /\ Unlocked(mmap) \cap (kernel \cup ramdisk \cup {buffer}) = {}
        /\ FirstMap[Stack] \notin {"conventional", "boot_data"} => Stack \notin Unlocked(mmap)

(* The kernel starts with every loadable segment in its place, what the     *)
(* file does not hold cleared, whatever the pages held before.              *)
ImageLoaded ==
    pc = "kernel" => \A i \in Loadable : \A k \in 0 .. phdrs[i].memsz - 1 :
        LET u == phdrs[i].vaddr - lo + k IN
        /\ KernelPage + u \div PageUnits \in kernel
        /\ image[u] = IF k < phdrs[i].filesz THEN <<i, k>> ELSE Zero

(* The loader does not go on asking for the map for ever: once the firmware *)
(* is quiet it enters the kernel, unless it has halted.                     *)
LoaderEnds == (pc # "open") ~> (pc \in {"kernel", "panic"})
=============================================================================
