------------------------------ MODULE MCApBoot ------------------------------
(* Two CPUs to start, between them an I/O APIC's entry and a disabled CPU.  *)
EXTENDS ApBoot

CONSTANTS bsp, a1, a2, dead

Lapic(c, on) == [lapic |-> TRUE, enabled |-> on, apic_id |-> c]
MCMadt == <<Lapic(bsp, TRUE), Lapic(a1, TRUE), Lapic(dead, FALSE),
            [lapic |-> FALSE, enabled |-> TRUE, apic_id |-> a1], Lapic(a2, TRUE)>>
=============================================================================
