---------------------------- MODULE FrameSource ----------------------------
(***************************************************************************)
(* What the physical memory manager promises its callers: a frame that was *)
(* handed out is not handed out again before it is given back.             *)
(***************************************************************************)
EXTENDS Integers

CONSTANT Frame

VARIABLES avail, out    \* frames that can be handed out; frames in use by callers

vars == <<avail, out>>

Init == avail \subseteq Frame /\ out = {}

Take(S) ==
    /\ S \subseteq avail /\ S \cap out = {}
    /\ avail' = avail \ S
    /\ out' = out \cup S

Give(f) ==
    /\ f \in out
    /\ avail' = avail \cup {f}
    /\ out' = out \ {f}

Next == (\E S \in SUBSET avail : Take(S)) \/ (\E f \in Frame : Give(f))

Spec == Init /\ [][Next]_vars
=============================================================================
