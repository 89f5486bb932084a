----------------------------- MODULE MCConsole -----------------------------
(* The log and the keyboard, which share no state: a behaviour is one of    *)
(* either, chosen by part.                                                  *)
EXTENDS SerialLog, Keyboard

VARIABLE part

vars == <<logvars, kbdvars, part>>

Init == LogInit /\ KbdInit /\ part \in {"log", "keyboard"}

Next == \/ part = "log" /\ LogNext /\ UNCHANGED <<kbdvars, part>>
        \/ part = "keyboard" /\ KbdNext /\ UNCHANGED <<logvars, part>>

(* main goes on after every interrupt and the holder of a spinlock with     *)
(* interrupts off runs to its end; the port is ready again and again.       *)
Spec == /\ Init /\ [][Next]_vars
        /\ WF_vars(part = "log" /\ ~raced /\ Putc /\ UNCHANGED <<kbdvars, part>>)
        /\ WF_vars(part = "log" /\ ~raced /\ Flush /\ UNCHANGED <<kbdvars, part>>)
        /\ SF_vars(/\ part = "log" /\ ~raced /\ FlushTail /\ flush' = "index"
                   /\ UNCHANGED <<kbdvars, part>>)
=============================================================================
