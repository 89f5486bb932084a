-------------------------- MODULE UserMemoryProofs --------------------------
(***************************************************************************)
(* Proofs about the memory of the user tasks.                               *)
(* The translation caches, for any sets of CPUs, tasks, pages and frames:   *)
(* that a CPU's translations agree with the tables of the user task it runs *)
(* rests on OneLoader: a user space is loaded on one CPU at a time, so that *)
(* the CPU that changes a space is the only one that can cache it.  That    *)
(* frames are not reused too early needs the frames that an unmap has taken *)
(* out of the tables and not yet freed (InHand).                            *)
(* The heap of a task, for every set of request sizes, every page aligned   *)
(* heap_start and every limit on frames and blocks.                         *)
(***************************************************************************)
EXTENDS Tlb, UserHeap, TLAPS

(* A user space is loaded on at most one CPU. *)
OneLoader ==
    \A c, d \in Cpu : c # d /\ cr3[c] = cr3[d] => cr3[c] = Kernel

(* Kernel tables and caches hold only the identity mapping, user tables     *)
(* only frames that are not free, each of them once.                        *)
Tables ==
    /\ \A p \in Page : pt[Kernel][p] \in {Boot, NULL}
    /\ \A c \in Cpu, p \in Page : cr3[c] = Kernel => tlb[c][p] \in {Boot, NULL}
    /\ \A s \in Task, p \in Page : pt[s][p] = NULL \/ pt[s][p] \in Frame \ free
    /\ \A s, t \in Task, p, q \in Page :
          pt[s][p] = pt[t][q] /\ pt[s][p] # NULL => s = t /\ p = q

(* An unmap of a user page between the clearing of the entry and the return *)
(* of its frame.                                                            *)
Busy(c) == pc[c] \in {"send", "wait", "free"} /\ cr3[c] \in Task

(* The frame of such an unmap is in no table, not free, and no other CPU's. *)
InHand ==
    /\ \A c \in Cpu : pc[c] = "free" => cr3[c] \in Task
    /\ \A c \in Cpu : pc[c] = "lock" /\ cr3[c] \in Task =>
          pt[cr3[c]][job[c][1]] = job[c][2] /\ job[c][2] # NULL
    /\ \A c \in Cpu : Busy(c) => job[c][2] \in Frame \ free
    /\ \A c \in Cpu, s \in Task, p \in Page : Busy(c) => pt[s][p] # job[c][2]
    /\ \A c, d \in Cpu : Busy(c) /\ Busy(d) /\ c # d => job[c][2] # job[d][2]

TlbInv == TypeOK /\ OneLoader /\ UserCoherent /\ Tables /\ InHand /\ StaleHasIpi

-----------------------------------------------------------------------------
(* Every action keeps the types and the pairing of vmm_lock_ with the place *)
(* of its holder.                                                           *)
LEMMA TypeInductive == TlbInv /\ [Next]_vars => TypeOK'
<1> SUFFICES ASSUME TypeOK, Tables, InHand, [Next]_vars PROVE TypeOK'
  BY DEF TlbInv
<1> USE TlbAssumption DEF TypeOK, Space, Place, Goto, NoPages
<1>1. ASSUME NEW c \in Cpu, NEW p \in Page, Touch(c, p) PROVE TypeOK'
  BY <1>1 DEF Touch
<1>2. ASSUME NEW c \in Cpu, NEW p \in Page, Map(c, p) PROVE TypeOK'
  BY <1>2 DEF Map
<1>3. ASSUME NEW c \in Cpu, NEW p \in Page, Unmap(c, p) PROVE TypeOK'
  BY <1>3 DEF Unmap
<1>4. ASSUME NEW c \in Cpu, NEW s \in Space, Switch(c, s) PROVE TypeOK'
  BY <1>4 DEF Switch
<1>5. ASSUME NEW c \in Cpu, NEW s \in Task, Destroy(c, s) PROVE TypeOK'
  <2>1. free' \subseteq Frame
    BY <1>5 DEF Destroy, Tables
  <2>2. pt' \in [Space -> [Page -> Frame \cup {Boot, NULL}]]
    BY <1>5 DEF Destroy
  <2>3. pc' \in [Cpu -> Place] /\ \A d \in Cpu : lock' = d <=> pc'[d] \in {"send", "wait"}
    BY <1>5 DEF Destroy
  <2> QED
    BY <1>5, <2>1, <2>2, <2>3 DEF Destroy
<1>6. ASSUME NEW c \in Cpu, Clear(c) PROVE TypeOK'
  BY <1>6 DEF Clear
<1>7. ASSUME NEW c \in Cpu, Send(c) PROVE TypeOK'
  BY <1>7 DEF Send, Broadcast
<1>8. ASSUME NEW c \in Cpu, Wait(c) PROVE TypeOK'
  BY <1>8 DEF Wait
<1>9. ASSUME NEW c \in Cpu, FreeFrame(c) PROVE TypeOK'
  BY <1>9 DEF FreeFrame, InHand, Busy
<1>10. ASSUME NEW c \in Cpu, Sync(c) PROVE TypeOK'
  BY <1>10 DEF Sync, Broadcast
<1>11. ASSUME NEW c \in Cpu, SyncDone(c) PROVE TypeOK'
  BY <1>11 DEF SyncDone
<1>12. ASSUME NEW c \in Cpu, Flush(c) PROVE TypeOK'
  BY <1>12 DEF Flush
<1>13. ASSUME NEW c \in Cpu, NEW d \in Cpu, Accept(c, d) PROVE TypeOK'
  BY <1>13 DEF Accept
<1>14. CASE UNCHANGED vars
  BY <1>14 DEF vars
<1> QED
  BY <1>1, <1>2, <1>3, <1>4, <1>5, <1>6, <1>7, <1>8, <1>9, <1>10, <1>11, <1>12,
     <1>13, <1>14 DEF Next, Step

-----------------------------------------------------------------------------
(* A translation of the kernel's space goes stale only in Clear, which is   *)
(* about to send; sending, accepting and handling take the interrupt one    *)
(* step further, and the last of them drops the translation.                *)
LEMMA StaleInductive == TlbInv /\ TypeOK' /\ [Next]_vars => StaleHasIpi'
<1> SUFFICES ASSUME TypeOK, TypeOK', Tables, StaleHasIpi, [Next]_vars,
                    NEW e \in Cpu, NEW r \in Page, cr3'[e] = Kernel,
                    tlb'[e][r] \notin {NULL, pt'[Kernel][r]}
             PROVE  \/ irr'[e]
                    \/ \E d \in Cpu : \/ e \in icr'[d]
                                      \/ d # e /\ pc'[d] = "send" /\ cr3'[d] = Kernel
  BY DEF TlbInv, StaleHasIpi
<1> DEFINE Coming == \/ irr[e]
                     \/ \E d \in Cpu : \/ e \in icr[d]
                                       \/ d # e /\ pc[d] = "send" /\ cr3[d] = Kernel
<1>0. cr3[e] = Kernel /\ tlb[e][r] \notin {NULL, pt[Kernel][r]} => Coming
  BY DEF StaleHasIpi
<1> USE TlbAssumption DEF Goto, NoPages
<1>1. ASSUME NEW c \in Cpu, NEW p \in Page, Touch(c, p) PROVE Coming'
  BY <1>0, <1>1 DEF Touch, TypeOK, Space
<1>2. ASSUME NEW c \in Cpu, NEW p \in Page, Map(c, p) PROVE Coming'
  BY <1>0, <1>2 DEF Map, TypeOK, Space
<1>3. ASSUME NEW c \in Cpu, NEW p \in Page, Unmap(c, p) PROVE Coming'
  BY <1>0, <1>3 DEF Unmap, TypeOK
<1>4. ASSUME NEW c \in Cpu, NEW s \in Space, Switch(c, s) PROVE Coming'
  BY <1>0, <1>4 DEF Switch, TypeOK
<1>5. ASSUME NEW c \in Cpu, NEW s \in Task, Destroy(c, s) PROVE Coming'
  BY <1>0, <1>5 DEF Destroy, TypeOK, Space
<1>6. ASSUME NEW c \in Cpu, Clear(c) PROVE Coming'
  BY <1>0, <1>6 DEF Clear, TypeOK, Space
<1>7. ASSUME NEW c \in Cpu, Send(c) PROVE Coming'
  BY <1>0, <1>7 DEF Send, Broadcast, TypeOK
<1>8. ASSUME NEW c \in Cpu, Wait(c) PROVE Coming'
  BY <1>0, <1>8 DEF Wait, TypeOK
<1>9. ASSUME NEW c \in Cpu, FreeFrame(c) PROVE Coming'
  BY <1>0, <1>9 DEF FreeFrame, TypeOK
<1>10. ASSUME NEW c \in Cpu, Sync(c) PROVE Coming'
  BY <1>0, <1>10 DEF Sync, Broadcast, TypeOK
<1>11. ASSUME NEW c \in Cpu, SyncDone(c) PROVE Coming'
  BY <1>0, <1>11 DEF SyncDone, TypeOK
<1>12. ASSUME NEW c \in Cpu, Flush(c) PROVE Coming'
  BY <1>0, <1>12 DEF Flush, TypeOK
<1>13. ASSUME NEW c \in Cpu, NEW d \in Cpu, Accept(c, d) PROVE Coming'
  BY <1>0, <1>13 DEF Accept, TypeOK
<1>14. CASE UNCHANGED vars
  BY <1>0, <1>14 DEF vars
<1> QED
  BY <1>1, <1>2, <1>3, <1>4, <1>5, <1>6, <1>7, <1>8, <1>9, <1>10, <1>11, <1>12,
     <1>13, <1>14 DEF Next, Step

-----------------------------------------------------------------------------
(* Only the CPU that has a user space loaded changes its tables while it is *)
(* loaded, and it invalidates the page; loading a space starts empty.       *)
LEMMA CoherentInductive ==
    TlbInv /\ TypeOK' /\ [Next]_vars => OneLoader' /\ UserCoherent'
<1> SUFFICES ASSUME TypeOK, TypeOK', OneLoader, UserCoherent, [Next]_vars
             PROVE  OneLoader' /\ UserCoherent'
  BY DEF TlbInv
<1> USE TlbAssumption DEF Goto, NoPages
<1>1. ASSUME NEW c \in Cpu, NEW p \in Page, Touch(c, p) PROVE OneLoader' /\ UserCoherent'
  BY <1>1 DEF Touch, TypeOK, OneLoader, UserCoherent, Space
<1>2. ASSUME NEW c \in Cpu, NEW p \in Page, Map(c, p) PROVE OneLoader' /\ UserCoherent'
  BY <1>2 DEF Map, TypeOK, OneLoader, UserCoherent, Space
<1>3. ASSUME NEW c \in Cpu, NEW p \in Page, Unmap(c, p) PROVE OneLoader' /\ UserCoherent'
  BY <1>3 DEF Unmap, TypeOK, OneLoader, UserCoherent, Space
<1>4. ASSUME NEW c \in Cpu, NEW s \in Space, Switch(c, s) PROVE OneLoader' /\ UserCoherent'
  BY <1>4 DEF Switch, TypeOK, OneLoader, UserCoherent, Space
<1>5. ASSUME NEW c \in Cpu, NEW s \in Task, Destroy(c, s) PROVE OneLoader' /\ UserCoherent'
  BY <1>5 DEF Destroy, TypeOK, OneLoader, UserCoherent, Space
<1>6. ASSUME NEW c \in Cpu, Clear(c) PROVE OneLoader' /\ UserCoherent'
  BY <1>6 DEF Clear, TypeOK, OneLoader, UserCoherent, Space
<1>7. ASSUME NEW c \in Cpu, Send(c) PROVE OneLoader' /\ UserCoherent'
  BY <1>7 DEF Send, Broadcast, TypeOK, OneLoader, UserCoherent, Space
<1>8. ASSUME NEW c \in Cpu, Wait(c) PROVE OneLoader' /\ UserCoherent'
  BY <1>8 DEF Wait, TypeOK, OneLoader, UserCoherent, Space
<1>9. ASSUME NEW c \in Cpu, FreeFrame(c) PROVE OneLoader' /\ UserCoherent'
  BY <1>9 DEF FreeFrame, TypeOK, OneLoader, UserCoherent, Space
<1>10. ASSUME NEW c \in Cpu, Sync(c) PROVE OneLoader' /\ UserCoherent'
  BY <1>10 DEF Sync, Broadcast, TypeOK, OneLoader, UserCoherent, Space
<1>11. ASSUME NEW c \in Cpu, SyncDone(c) PROVE OneLoader' /\ UserCoherent'
  BY <1>11 DEF SyncDone, TypeOK, OneLoader, UserCoherent, Space
<1>12. ASSUME NEW c \in Cpu, Flush(c) PROVE OneLoader' /\ UserCoherent'
  BY <1>12 DEF Flush, TypeOK, OneLoader, UserCoherent, Space
<1>13. ASSUME NEW c \in Cpu, NEW d \in Cpu, Accept(c, d) PROVE OneLoader' /\ UserCoherent'
  BY <1>13 DEF Accept, TypeOK, OneLoader, UserCoherent, Space
<1>14. CASE UNCHANGED vars
  BY <1>14 DEF vars, TypeOK, OneLoader, UserCoherent, Space
<1> QED
  BY <1>1, <1>2, <1>3, <1>4, <1>5, <1>6, <1>7, <1>8, <1>9, <1>10, <1>11, <1>12,
     <1>13, <1>14 DEF Next, Step

-----------------------------------------------------------------------------
(* Tables receive free frames only, and frames are freed only when they are *)
(* in hand, or together with the whole space that they belong to.           *)
LEMMA TablesInductive == TlbInv /\ TypeOK' /\ [Next]_vars => Tables'
<1> SUFFICES ASSUME TypeOK, TypeOK', OneLoader, Tables, InHand, [Next]_vars
             PROVE  Tables'
  BY DEF TlbInv
<1> USE TlbAssumption DEF Goto, NoPages
<1>1. ASSUME NEW c \in Cpu, NEW p \in Page, Touch(c, p) PROVE Tables'
  BY <1>1 DEF Touch, TypeOK, Tables, Space
<1>2. ASSUME NEW c \in Cpu, NEW p \in Page, Map(c, p) PROVE Tables'
  BY <1>2 DEF Map, TypeOK, Tables, Space
<1>3. ASSUME NEW c \in Cpu, NEW p \in Page, Unmap(c, p) PROVE Tables'
  BY <1>3 DEF Unmap, TypeOK, Tables, Space
<1>4. ASSUME NEW c \in Cpu, NEW s \in Space, Switch(c, s) PROVE Tables'
  BY <1>4 DEF Switch, TypeOK, Tables, Space
<1>5. ASSUME NEW c \in Cpu, NEW s \in Task, Destroy(c, s) PROVE Tables'
  BY <1>5 DEF Destroy, TypeOK, Tables, Space
<1>6. ASSUME NEW c \in Cpu, Clear(c) PROVE Tables'
  BY <1>6 DEF Clear, TypeOK, Tables, Space
<1>7. ASSUME NEW c \in Cpu, Send(c) PROVE Tables'
  BY <1>7 DEF Send, Broadcast, TypeOK, Tables, Space
<1>8. ASSUME NEW c \in Cpu, Wait(c) PROVE Tables'
  BY <1>8 DEF Wait, TypeOK, Tables, Space
<1>9. ASSUME NEW c \in Cpu, FreeFrame(c) PROVE Tables'
  BY <1>9 DEF FreeFrame, InHand, Busy, TypeOK, Tables, Space
<1>10. ASSUME NEW c \in Cpu, Sync(c) PROVE Tables'
  BY <1>10 DEF Sync, Broadcast, TypeOK, Tables, Space
<1>11. ASSUME NEW c \in Cpu, SyncDone(c) PROVE Tables'
  BY <1>11 DEF SyncDone, TypeOK, Tables, Space
<1>12. ASSUME NEW c \in Cpu, Flush(c) PROVE Tables'
  BY <1>12 DEF Flush, TypeOK, Tables, Space
<1>13. ASSUME NEW c \in Cpu, NEW d \in Cpu, Accept(c, d) PROVE Tables'
  BY <1>13 DEF Accept, TypeOK, Tables, Space
<1>14. CASE UNCHANGED vars
  BY <1>14 DEF vars, TypeOK, Tables, Space
<1> QED
  BY <1>1, <1>2, <1>3, <1>4, <1>5, <1>6, <1>7, <1>8, <1>9, <1>10, <1>11, <1>12,
     <1>13, <1>14 DEF Next, Step

-----------------------------------------------------------------------------
(* A frame taken out of a table was in one place only, and stays in hand    *)
(* until FreeFrame.                                                         *)
LEMMA InHandInductive == TlbInv /\ TypeOK' /\ [Next]_vars => InHand'
<1> SUFFICES ASSUME TypeOK, TypeOK', OneLoader, Tables, InHand, [Next]_vars
             PROVE  InHand'
  BY DEF TlbInv
<1> USE TlbAssumption DEF Goto, NoPages
<1>1. ASSUME NEW c \in Cpu, NEW p \in Page, Touch(c, p) PROVE InHand'
  BY <1>1 DEF Touch, TypeOK, InHand, Busy, Space
<1>2. ASSUME NEW c \in Cpu, NEW p \in Page, Map(c, p) PROVE InHand'
  BY <1>2 DEF Map, OneLoader, Tables, TypeOK, InHand, Busy, Space
<1>3. ASSUME NEW c \in Cpu, NEW p \in Page, Unmap(c, p) PROVE InHand'
  BY <1>3 DEF Unmap, Tables, TypeOK, InHand, Busy, Space
<1>4. ASSUME NEW c \in Cpu, NEW s \in Space, Switch(c, s) PROVE InHand'
  BY <1>4 DEF Switch, TypeOK, InHand, Busy, Space
<1>5. ASSUME NEW c \in Cpu, NEW s \in Task, Destroy(c, s) PROVE InHand'
  BY <1>5 DEF Destroy, Tables, TypeOK, InHand, Busy, Space
<1>6. ASSUME NEW c \in Cpu, Clear(c) PROVE InHand'
  BY <1>6 DEF Clear, OneLoader, Tables, TypeOK, InHand, Busy, Space
<1>7. ASSUME NEW c \in Cpu, Send(c) PROVE InHand'
  BY <1>7 DEF Send, Broadcast, TypeOK, InHand, Busy, Space
<1>8. ASSUME NEW c \in Cpu, Wait(c) PROVE InHand'
  BY <1>8 DEF Wait, TypeOK, InHand, Busy, Space
<1>9. ASSUME NEW c \in Cpu, FreeFrame(c) PROVE InHand'
  BY <1>9 DEF FreeFrame, TypeOK, InHand, Busy, Space
<1>10. ASSUME NEW c \in Cpu, Sync(c) PROVE InHand'
  BY <1>10 DEF Sync, Broadcast, TypeOK, InHand, Busy, Space
<1>11. ASSUME NEW c \in Cpu, SyncDone(c) PROVE InHand'
  BY <1>11 DEF SyncDone, TypeOK, InHand, Busy, Space
<1>12. ASSUME NEW c \in Cpu, Flush(c) PROVE InHand'
  BY <1>12 DEF Flush, TypeOK, InHand, Busy, Space
<1>13. ASSUME NEW c \in Cpu, NEW d \in Cpu, Accept(c, d) PROVE InHand'
  BY <1>13 DEF Accept, TypeOK, InHand, Busy, Space
<1>14. CASE UNCHANGED vars
  BY <1>14 DEF vars, TypeOK, InHand, Busy, Space
<1> QED
  BY <1>1, <1>2, <1>3, <1>4, <1>5, <1>6, <1>7, <1>8, <1>9, <1>10, <1>11, <1>12,
     <1>13, <1>14 DEF Next, Step

-----------------------------------------------------------------------------
(* The invariant holds when the kernel's tables are loaded and in every step *)
(* of the CPUs and their APICs.                                             *)
THEOREM TlbInductive == Spec => []TlbInv
<1>1. Init => TlbInv
  <2> SUFFICES ASSUME Init PROVE TlbInv
    OBVIOUS
  <2>1. TypeOK
    BY TlbAssumption DEF Init, TypeOK, Space, Place, NoPages
  <2>2. OneLoader /\ UserCoherent /\ StaleHasIpi
    BY TlbAssumption DEF Init, OneLoader, UserCoherent, StaleHasIpi, NoPages, Space
  <2>3. Tables
    BY TlbAssumption DEF Init, Tables, NoPages, Space
  <2>4. InHand
    BY TlbAssumption DEF Init, InHand, Busy
  <2> QED
    BY <2>1, <2>2, <2>3, <2>4 DEF TlbInv
<1>2. TlbInv /\ [Next]_vars => TlbInv'
  BY TypeInductive, StaleInductive, CoherentInductive, TablesInductive, InHandInductive
     DEF TlbInv
<1> QED
  BY <1>1, <1>2, PTL DEF Spec

(* Types are kept, and vmm_lock_ is held exactly from the clearing of an    *)
(* entry to the delivery of the broadcast.                                  *)
THEOREM TypeCorrect == Spec => []TypeOK
BY TlbInductive, PTL DEF TlbInv

(* No CPU ever uses a stale translation of the user task that it runs,      *)
(* although sync_tlb does not wait for any flush.                           *)
THEOREM UserTranslationsCurrent == Spec => []UserCoherent
BY TlbInductive, PTL DEF TlbInv

(* A stale translation of the kernel's space has a flush on its way. *)
THEOREM KernelFlushComing == Spec => []StaleHasIpi
BY TlbInductive, PTL DEF TlbInv

(* vma_unmap frees a frame only when no table and no cache refers to it. *)
THEOREM FramesSafe == Spec => []FramesExclusive
<1>1. TlbInv => FramesExclusive
  <2> SUFFICES ASSUME TlbInv PROVE FramesExclusive
    OBVIOUS
  <2>1. free \subseteq Frame /\ NULL \notin free /\ Boot \notin free
    BY TlbAssumption DEF TlbInv, TypeOK
  <2>2. \A s \in Space, p \in Page : pt[s][p] \notin free
    BY <2>1 DEF TlbInv, Tables, Space
  <2>3. \A c \in Cpu, p \in Page : tlb[c][p] \notin free
    <3> SUFFICES ASSUME NEW c \in Cpu, NEW p \in Page PROVE tlb[c][p] \notin free
      OBVIOUS
    <3>1. CASE cr3[c] = Kernel
      BY <2>1, <3>1 DEF TlbInv, Tables
    <3>2. CASE cr3[c] \in Task
      BY <2>1, <2>2, <3>2 DEF TlbInv, UserCoherent, Space
    <3> QED
      BY <3>1, <3>2 DEF TlbInv, TypeOK, Space
  <2> QED
    BY <2>2, <2>3 DEF FramesExclusive, TlbInv, Tables
<1> QED
  BY <1>1, TlbInductive, PTL

-----------------------------------------------------------------------------
(* The strengthening: both boundaries agree, heap_curr lies between the     *)
(* ends of the heap, and the blocks, each rounded up to 16 bytes, lie below *)
(* heap_curr and apart from one another.                                    *)
HeapInv ==
    /\ HeapTypeOK
    /\ HeapMatchesArea
    /\ heap_start <= heap_curr /\ heap_curr <= heap_end
    /\ \A b \in blocks :
          heap_start <= b.addr /\ b.addr + AlignTo16(b.size) <= heap_curr
    /\ \A b, d \in blocks : b # d =>
          \/ b.addr + AlignTo16(b.size) <= d.addr
          \/ d.addr + AlignTo16(d.size) <= b.addr

-----------------------------------------------------------------------------
(* Rounding up to 16 bytes yields the least multiple of 16 that is enough   *)
(* (aligned_size in both handlers).                                         *)
LEMMA AlignTo16Least ==
    ASSUME NEW n \in Nat \ {0}
    PROVE  /\ AlignTo16(n) \in Nat /\ Aligned(AlignTo16(n), 16) /\ n <= AlignTo16(n)
           /\ \A c \in Int : Aligned(c, 16) /\ n <= c => AlignTo16(n) <= c
BY SMT DEF Aligned, AlignTo16

(* Rounding up to pages yields whole pages that are enough (aligned_needed  *)
(* in sys_malloc).                                                          *)
LEMMA AlignToPageEnough ==
    ASSUME NEW n \in Int
    PROVE  AlignToPage(n) \in Int /\ Aligned(AlignToPage(n), 4096) /\ n <= AlignToPage(n)
BY SMT DEF Aligned, AlignToPage

(* Sums and differences of multiples of 16 are multiples of 16. *)
LEMMA Multiples16 ==
    ASSUME NEW a \in Int, NEW b \in Int, Aligned(a, 16), Aligned(b, 16)
    PROVE  Aligned(a + b, 16) /\ Aligned(a - b, 16)
BY SMT DEF Aligned

(* Sums and differences of whole pages are whole pages. *)
LEMMA Multiples4096 ==
    ASSUME NEW a \in Int, NEW b \in Int, Aligned(a, 4096), Aligned(b, 4096)
    PROVE  Aligned(a + b, 4096) /\ Aligned(a - b, 4096)
BY SMT DEF Aligned

(* The distance from a multiple of 16 to a page boundary is one. *)
LEMMA DistanceToPage ==
    ASSUME NEW a \in Int, NEW b \in Int, NEW c \in Int,
           Aligned(a, 4096), Aligned(b, 4096), Aligned(c, 16)
    PROVE  Aligned(a + b - c, 16)
BY SMT DEF Aligned

(* What sys_free gives back is whole pages and leaves at least one page     *)
(* between heap_curr and heap_end.                                          *)
LEMMA ReleasedKeepsPage ==
    ASSUME HeapTypeOK, NEW curr \in Nat, curr <= heap_end
    PROVE  /\ Released(curr) \in Nat /\ Aligned(Released(curr), 4096)
           /\ Released(curr) > 0 =>
                 curr + PAGE_SIZE <= heap_end - Released(curr)
BY SMT DEF HeapTypeOK, Aligned, Released, PAGE_SIZE

(* The blocks are typed, and so is the room that each takes. *)
LEMMA BlockTypes ==
    ASSUME HeapTypeOK, NEW b \in blocks
    PROVE  /\ b.addr \in Nat /\ b.size \in Sizes /\ Aligned(b.addr, 16)
           /\ b.size \in Nat /\ AlignTo16(b.size) \in Nat
           /\ b.size <= AlignTo16(b.size) /\ 0 < AlignTo16(b.size)
<1>1. b.addr \in Nat /\ b.size \in Sizes /\ Aligned(b.addr, 16)
  BY DEF HeapTypeOK
<1>2. b.size \in Nat \ {0}
  <2>1. Sizes \subseteq Nat \ {0}
    BY HeapAssumption
  <2> QED
    BY <1>1, <2>1
<1>3. AlignTo16(b.size) \in Nat /\ b.size <= AlignTo16(b.size)
  BY <1>2, AlignTo16Least
<1> QED
  BY <1>1, <1>2, <1>3

-----------------------------------------------------------------------------
(* A granted block is aligned, starts where every other block has ended and *)
(* ends where the next one starts.                                          *)
LEMMA GrantKeeps ==
    ASSUME HeapInv, NEW size \in Sizes, Grant(size),
           heap_end' \in Nat, Aligned(heap_end', 4096), vm_end' = heap_end',
           heap_curr + AlignTo16(size) <= heap_end'
    PROVE  HeapInv'
<1> DEFINE new == [addr |-> heap_curr, size |-> size]
<1>1. size \in Nat \ {0}
  BY HeapAssumption
<1>2. /\ AlignTo16(size) \in Nat /\ Aligned(AlignTo16(size), 16)
  BY <1>1, AlignTo16Least
<1>3. heap_curr \in Nat /\ Aligned(heap_curr, 16) /\ heap_start \in Nat
  BY HeapAssumption DEF HeapInv, HeapTypeOK
<1>4. heap_curr' \in Nat /\ Aligned(heap_curr', 16) /\ heap_curr <= heap_curr'
  <2>1. heap_curr' = heap_curr + AlignTo16(size)
    BY DEF Grant
  <2>2. Aligned(heap_curr + AlignTo16(size), 16)
    <3> DEFINE a == AlignTo16(size)
    <3> SUFFICES Aligned(heap_curr + a, 16)
      OBVIOUS
    <3>1. a \in Int /\ Aligned(a, 16) /\ heap_curr \in Int
      BY <1>2, <1>3
    <3> HIDE DEF a
    <3> QED
      BY <1>3, <3>1, Multiples16
  <2> QED
    BY <1>2, <1>3, <2>1, <2>2
<1>5. blocks' = blocks \cup {new} /\ new.addr = heap_curr /\ new.size = size
  BY DEF Grant
<1>6. \A b \in blocks : /\ b.addr \in Nat /\ b.size \in Sizes /\ Aligned(b.addr, 16)
                        /\ AlignTo16(b.size) \in Nat
  BY BlockTypes DEF HeapInv
<1> HIDE DEF new
<1>7. HeapTypeOK'
  <2>1. \A b \in blocks' : b.addr \in Nat /\ b.size \in Sizes /\ Aligned(b.addr, 16)
    BY <1>3, <1>5, <1>6
  <2>2. vm_end' \in Nat
    OBVIOUS
  <2> QED
    BY <1>4, <2>1, <2>2 DEF HeapTypeOK
<1>8. \A b \in blocks' :
         heap_start <= b.addr /\ b.addr + AlignTo16(b.size) <= heap_curr'
  BY <1>2, <1>3, <1>4, <1>5, <1>6 DEF HeapInv, Grant
<1>9. \A b, d \in blocks' : b # d =>
         \/ b.addr + AlignTo16(b.size) <= d.addr
         \/ d.addr + AlignTo16(d.size) <= b.addr
  BY <1>5, <1>6 DEF HeapInv
<1>10. heap_start <= heap_curr' /\ heap_curr' <= heap_end'
  BY <1>3, <1>4 DEF HeapInv, Grant
<1> QED
  BY <1>7, <1>8, <1>9, <1>10 DEF HeapInv, HeapMatchesArea

(* The pages that sys_malloc maps are enough for the rounded-up block,      *)
(* although it computes them from the size before rounding.                 *)
LEMMA GrownIsEnough ==
    ASSUME HeapInv, NEW size \in Sizes
    PROVE  /\ heap_end + Needed(size) \in Nat
           /\ Aligned(heap_end + Needed(size), 4096)
           /\ heap_curr + AlignTo16(size) <= heap_end + Needed(size)
<1>1. size \in Nat \ {0}
  BY HeapAssumption
<1>2. /\ heap_curr \in Nat /\ Aligned(heap_curr, 16)
      /\ heap_end \in Nat /\ Aligned(heap_end, 4096)
  BY DEF HeapInv, HeapTypeOK
<1>3. /\ Needed(size) \in Int /\ Aligned(Needed(size), 4096)
      /\ heap_curr + size - heap_end <= Needed(size)
  <2>1. heap_curr + size - heap_end \in Int
    BY <1>1, <1>2
  <2> QED
    BY <2>1, AlignToPageEnough DEF Needed
<1> DEFINE need == Needed(size)
           room == AlignTo16(size)
<1>4. need \in Int /\ Aligned(need, 4096) /\ heap_curr + size - heap_end <= need
  BY <1>3
<1>5. /\ room \in Nat
      /\ \A c \in Int : Aligned(c, 16) /\ size <= c => room <= c
  BY <1>1, AlignTo16Least
<1> HIDE DEF need, room
<1>6. heap_end + need \in Nat /\ heap_curr + size <= heap_end + need
  BY <1>1, <1>2, <1>4
<1>7. Aligned(heap_end + need, 4096)
  BY <1>2, <1>4, Multiples4096
<1>8. Aligned(heap_end + need - heap_curr, 16)
  BY <1>2, <1>4, DistanceToPage
<1>9. room <= heap_end + need - heap_curr
  <2>1. heap_end + need - heap_curr \in Int /\ size <= heap_end + need - heap_curr
    BY <1>1, <1>2, <1>4
  <2> QED
    BY <1>5, <1>8, <2>1
<1>10. heap_curr + room <= heap_end + need
  BY <1>2, <1>4, <1>5, <1>9
<1> QED
  BY <1>6, <1>7, <1>10 DEF need, room

(* Freeing the topmost block gives its room back; all other blocks lie      *)
(* below it, and no page of theirs is released.                             *)
LEMMA FreeKeeps ==
    ASSUME HeapInv, NEW b \in blocks, Free(b)
    PROVE  HeapInv'
<1>1. \A d \in blocks : /\ d.addr \in Nat /\ d.size \in Sizes /\ Aligned(d.addr, 16)
                        /\ AlignTo16(d.size) \in Nat /\ d.size <= AlignTo16(d.size)
                        /\ 0 < AlignTo16(d.size)
  BY BlockTypes DEF HeapInv
<1>2. blocks' \subseteq blocks /\ b \notin blocks'
  BY DEF Free
<1>3. /\ heap_curr \in Nat /\ heap_end \in Nat /\ Aligned(heap_end, 4096)
      /\ heap_start \in Nat /\ vm_end = heap_end
  BY HeapAssumption DEF HeapInv, HeapTypeOK, HeapMatchesArea
<1>4. CASE b.addr + AlignTo16(b.size) # heap_curr
  BY <1>2, <1>4 DEF HeapInv, HeapTypeOK, HeapMatchesArea, Free
<1>5. CASE b.addr + AlignTo16(b.size) = heap_curr
  <2>1. heap_curr' = b.addr /\ b.addr <= heap_end /\ heap_start <= b.addr
    BY <1>1, <1>3, <1>5 DEF Free, HeapInv
  <2>2. \A d \in blocks' :
           heap_start <= d.addr /\ d.addr + AlignTo16(d.size) <= heap_curr'
    BY <1>1, <1>2, <1>3, <1>5, <2>1 DEF HeapInv
  <2>3. /\ heap_end' \in Nat /\ Aligned(heap_end', 4096)
        /\ vm_end' = heap_end' /\ heap_curr' <= heap_end'
    <3>1. /\ Released(b.addr) \in Nat /\ Aligned(Released(b.addr), 4096)
          /\ Released(b.addr) > 0 =>
                b.addr + PAGE_SIZE <= heap_end - Released(b.addr)
      BY <1>1, <2>1, ReleasedKeepsPage DEF HeapInv
    <3>2. CASE Released(b.addr) > 0
      <4>1. UnmapStart(b.addr) = heap_end - Released(b.addr)
        BY <1>1, <1>3, <3>1, <3>2 DEF UnmapStart, PAGE_SIZE
      <4>2. Trim(heap_end - Released(b.addr), Released(b.addr))
        BY <1>5, <3>2, <4>1 DEF Free
      <4>3. Aligned(heap_end - Released(b.addr), 4096)
        BY <1>3, <3>1, Multiples4096
      <4>4. /\ heap_start < heap_end - Released(b.addr)
            /\ heap_end - Released(b.addr) < vm_end
            /\ heap_end - Released(b.addr) \in Nat
            /\ b.addr <= heap_end - Released(b.addr)
        BY <1>1, <1>3, <2>1, <3>1, <3>2 DEF PAGE_SIZE
      <4>5. heap_end' = heap_end - Released(b.addr) /\ vm_end' = heap_end'
        BY <1>3, <3>1, <4>2, <4>4 DEF Trim
      <4> QED
        BY <2>1, <4>3, <4>4, <4>5
    <3>3. CASE ~(Released(b.addr) > 0)
      BY <1>3, <1>5, <2>1, <3>3 DEF Free
    <3> QED
      BY <3>2, <3>3
  <2>4. HeapTypeOK'
    <3>1. heap_curr' \in Nat /\ Aligned(heap_curr', 16) /\ vm_end' \in Nat
      BY <1>1, <2>1, <2>3
    <3>2. \A d \in blocks' : d.addr \in Nat /\ d.size \in Sizes /\ Aligned(d.addr, 16)
      BY <1>1, <1>2
    <3> QED
      BY <2>3, <3>1, <3>2 DEF HeapTypeOK
  <2>5. \A c, d \in blocks' : c # d =>
           \/ c.addr + AlignTo16(c.size) <= d.addr
           \/ d.addr + AlignTo16(d.size) <= c.addr
    BY <1>2 DEF HeapInv
  <2> QED
    BY <2>1, <2>2, <2>3, <2>4, <2>5 DEF HeapInv, HeapMatchesArea
<1> QED
  BY <1>4, <1>5

-----------------------------------------------------------------------------
(* The invariant holds initially and every call of either handler keeps it. *)
THEOREM HeapInductive == HeapSpec => []HeapInv
<1>1. HeapInit => HeapInv
  BY HeapAssumption DEF Aligned, HeapInit, HeapInv, HeapTypeOK, HeapMatchesArea, PAGE_SIZE
<1>2. HeapInv /\ [HeapNext]_heapvars => HeapInv'
  <2> SUFFICES ASSUME HeapInv, [HeapNext]_heapvars PROVE HeapInv'
    OBVIOUS
  <2>1. ASSUME NEW size \in Sizes, MallocFits(size) PROVE HeapInv'
    <3>1. /\ heap_end' \in Nat /\ Aligned(heap_end', 4096) /\ vm_end' = heap_end'
          /\ heap_curr + AlignTo16(size) <= heap_end' /\ Grant(size)
      BY <2>1 DEF MallocFits, HeapInv, HeapTypeOK, HeapMatchesArea
    <3> QED
      BY <3>1, GrantKeeps
  <2>2. ASSUME NEW size \in Sizes, MallocGrows(size) PROVE HeapInv'
    <3>1. /\ heap_end' = heap_end + Needed(size) /\ vm_end' = heap_end'
          /\ Grant(size)
      BY <2>2 DEF MallocGrows, VmaMap
    <3> QED
      BY <3>1, GrownIsEnough, GrantKeeps
  <2>3. ASSUME NEW b \in blocks, Free(b) PROVE HeapInv'
    BY <2>3, FreeKeeps
  <2>4. CASE UNCHANGED heapvars
    BY <2>4 DEF heapvars, HeapInv, HeapTypeOK, HeapMatchesArea
  <2> QED
    BY <2>1, <2>2, <2>3, <2>4 DEF HeapNext
<1> QED
  BY <1>1, <1>2, PTL DEF HeapSpec

(* sys_malloc and sys_free keep the alignments that their rounding uses. *)
THEOREM HeapTypeCorrect == HeapSpec => []HeapTypeOK
BY HeapInductive, PTL DEF HeapInv

(* The heap of the task and the area behind it always end at one address.   *)
THEOREM AreaMatches == HeapSpec => []HeapMatchesArea
BY HeapInductive, PTL DEF HeapInv

(* No block that the program holds ever loses a page, and no two blocks     *)
(* share a byte.                                                            *)
THEOREM BlocksSafe == HeapSpec => []BlocksSound
<1>1. HeapInv => BlocksSound
  <2> SUFFICES ASSUME HeapInv PROVE BlocksSound
    OBVIOUS
  <2>1. /\ heap_curr \in Nat /\ heap_end \in Nat /\ heap_start \in Nat
        /\ vm_end = heap_end
    BY HeapAssumption DEF HeapInv, HeapTypeOK, HeapMatchesArea
  <2>2. \A b \in blocks : /\ b.addr \in Nat /\ b.size \in Nat
                          /\ AlignTo16(b.size) \in Nat /\ b.size <= AlignTo16(b.size)
    BY BlockTypes DEF HeapInv
  <2>3. \A b \in blocks : heap_start <= b.addr /\ b.addr + b.size <= vm_end
    BY <2>1, <2>2 DEF HeapInv
  <2>4. \A b, d \in blocks :
           b # d => b.addr + b.size <= d.addr \/ d.addr + d.size <= b.addr
    BY <2>2 DEF HeapInv
  <2> QED
    BY <2>3, <2>4 DEF BlocksSound
<1> QED
  BY <1>1, HeapInductive, PTL
=============================================================================
