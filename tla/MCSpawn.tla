------------------------------ MODULE MCSpawn ------------------------------
(* Two entries per table: eight user pages below four tables of the last    *)
(* level.  The data segment of the program and the code of the function     *)
(* take two pages; those of the former are in different tables.  There are  *)
(* not frames enough for both tasks at their largest.                       *)
EXTENDS Spawn

Segment(a, m, f) == [p_vaddr |-> a, p_memsz |-> m, p_filesz |-> f]
Program == [elf |-> TRUE, phdr |-> <<Segment(0, 2, 2), Segment(2, 3, 1)>>]
Function == [elf |-> FALSE, phdr |-> <<Segment(4, 4, 4)>>]
TestImages == <<Program, Function>>
Alike == Permutations(Task)
=============================================================================
