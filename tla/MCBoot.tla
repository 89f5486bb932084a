------------------------------- MODULE MCBoot -------------------------------
(* From the firmware to the frame allocator: the loader, and pmm_init with  *)
(* the calls that follow it.  The allocator is checked on a map of its own, *)
(* so a behaviour is one of either.                                         *)
(* Loader: twelve pages, four changes by the firmware, which are enough to  *)
(* make the map outgrow its buffer; an image with a gap that it must clear, *)
(* one whose headers are not in order, and one without a segment to load.   *)
(* Allocator: bytes of two bits, quadwords of two bytes: a bitmap of seven  *)
(* bytes, the last one outside every whole quadword.  The first region that *)
(* can hold the bitmap lies above the low frames.                           *)
EXTENDS Pmm, BootLoader

Segment(l, v, f, m) == [load |-> l, vaddr |-> v, filesz |-> f, memsz |-> m]

Kernels == {<<Segment(TRUE, 10, 2, 2), Segment(FALSE, 0, 1, 1), Segment(TRUE, 12, 0, 1)>>,
            <<Segment(TRUE, 13, 1, 2), Segment(TRUE, 10, 2, 3)>>,
            <<Segment(FALSE, 1, 1, 1)>>}

Memory == [p \in 0 .. Pages - 1 |-> IF p = 0 THEN "reserved"
                                    ELSE IF p = 1 THEN "loader_data" ELSE "conventional"]

Region(t, s, n) == [type |-> t, start |-> s, num_pages |-> n]

HighMap == <<Region("conventional", 0, 1), Region("reserved", 1, 1),
             Region("conventional", 2, 7), Region("boot_data", 9, 1),
             Region("reserved", 10, 1), Region("conventional", 11, 3)>>

VARIABLE part

allvars == <<vars, bootvars, part>>

BothInit == Init /\ BootInit /\ part \in {"loader", "allocator"}

LoaderPart(A) == part = "loader" /\ A /\ UNCHANGED <<vars, part>>

BothNext == \/ LoaderPart(BootNext)
            \/ part = "allocator" /\ Next /\ UNCHANGED <<bootvars, part>>

(* The loader runs on: nothing of it waits for anything but itself. *)
BothSpec == BothInit /\ [][BothNext]_allvars /\ WF_allvars(LoaderPart(Loader))
=============================================================================
