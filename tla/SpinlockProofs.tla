--------------------------- MODULE SpinlockProofs ---------------------------
(***************************************************************************)
(* Mutual exclusion of the ticket spinlock for any finite set of CPUs and  *)
(* any counter width with more values than CPUs.                           *)
(***************************************************************************)
EXTENDS Spinlock, FiniteSetTheorems, TLAPS

Waiters == {c \in Cpu : Queued(c)}

(* More than one counter value, so that a step moves the counter. *)
LEMMA ModFact == TicketMod \in Nat /\ TicketMod > 1
<1>1. Cardinality(Cpu) \in Nat /\ Cardinality(Cpu) # 0
  BY SpinlockAssumption, FS_CardinalityType, FS_EmptySet
<1>. QED
  BY <1>1, SpinlockAssumption

(* A counter stays a counter when it is incremented, and zero is one. *)
LEMMA IncType == 0 \in Counter /\ \A n \in Counter : Inc(n) \in Counter
  BY ModFact DEF Counter, Inc

(* The distance from current to a ticket, with wrap-around: it tells       *)
(* tickets apart, grows with the ticket and shrinks with current.          *)
LEMMA DistFacts ==
    ASSUME NEW a \in Counter, NEW b \in Counter
    PROVE  /\ Dist(a, b) \in Nat /\ Dist(a, b) < TicketMod
           /\ Dist(a, b) = 0 <=> a = b
           /\ Dist(a, b) < TicketMod - 1 => Dist(Inc(a), b) = Dist(a, b) + 1
           /\ a # b => Dist(a, Inc(b)) = Dist(a, b) - 1
  BY ModFact DEF Counter, Inc, Dist

(* Adding one CPU to, or removing one from, the waiters counts it. *)
LEMMA WaitersFacts ==
    /\ IsFiniteSet(Waiters) /\ Cardinality(Waiters) \in Nat
    /\ \A c \in Cpu : c \notin Waiters =>
           /\ Cardinality(Waiters \cup {c}) = Cardinality(Waiters) + 1
           /\ Cardinality(Waiters) < TicketMod - 1
    /\ \A c \in Waiters : Cardinality(Waiters \ {c}) = Cardinality(Waiters) - 1
    /\ Cardinality(Waiters) = 0 <=> Waiters = {}
<1>1. Waiters \in SUBSET Cpu
  BY DEF Waiters
<1>2. IsFiniteSet(Waiters) /\ Cardinality(Waiters) \in Nat
  BY <1>1, SpinlockAssumption, FS_Subset, FS_CardinalityType
<1>3. ASSUME NEW c \in Cpu, c \notin Waiters
      PROVE  /\ Cardinality(Waiters \cup {c}) = Cardinality(Waiters) + 1
             /\ Cardinality(Waiters) < TicketMod - 1
  <2>1. Cardinality(Waiters \cup {c}) = Cardinality(Waiters) + 1
    BY <1>2, <1>3, FS_AddElement
  <2>2. Cardinality(Waiters \cup {c}) <= Cardinality(Cpu) /\ Cardinality(Cpu) \in Nat
    BY <1>1, SpinlockAssumption, FS_Subset, FS_CardinalityType
  <2>. QED
    BY <1>2, <2>1, <2>2, SpinlockAssumption
<1>4. \A c \in Waiters : Cardinality(Waiters \ {c}) = Cardinality(Waiters) - 1
  BY <1>2, FS_RemoveElement
<1>5. Cardinality(Waiters) = 0 <=> Waiters = {}
  BY <1>2, FS_EmptySet
<1>. QED
  BY <1>2, <1>3, <1>4, <1>5

-----------------------------------------------------------------------------
(* The counters and locals keep their types in every behaviour of the lock. *)
THEOREM TypeCorrect == Spec => []TypeOK
<1>1. Init => TypeOK
  BY IncType, SpinlockAssumption DEF Init, TypeOK, Counter, Label
<1>2. TypeOK /\ [Next]_vars => TypeOK'
  <2> SUFFICES ASSUME TypeOK, [Next]_vars PROVE TypeOK'
    OBVIOUS
  <2> USE DEF TypeOK, Label, Goto, lock, locals
  <2>1. CASE EnableLocks
    BY <2>1 DEF EnableLocks
  <2>2. ASSUME NEW c \in Cpu, BootLock(c) \/ BootUnlock(c) PROVE TypeOK'
    BY <2>2 DEF BootLock, BootUnlock
  <2>3. ASSUME NEW c \in Cpu, TakeTicket(c) \/ TryLoad(c) PROVE TypeOK'
    BY <2>3, IncType DEF TakeTicket, TryLoad
  <2>4. ASSUME NEW c \in Cpu, SpinExit(c) \/ RecordOwner(c) \/ ClearOwner(c) PROVE TypeOK'
    BY <2>4 DEF SpinExit, RecordOwner, ClearOwner
  <2>5. ASSUME NEW c \in Cpu, LoadCurrent(c) PROVE TypeOK'
    BY <2>5, IncType DEF LoadCurrent
  <2>6. ASSUME NEW c \in Cpu, StoreCurrent(c) PROVE TypeOK'
    BY <2>6, IncType DEF StoreCurrent, Forget
  <2>7. ASSUME NEW c \in Cpu, TryCheck(c) PROVE TypeOK'
    BY <2>7, IncType DEF TryCheck, Forget
  <2>8. ASSUME NEW c \in Cpu, TryCas(c) PROVE TypeOK'
    BY <2>8, IncType DEF TryCas, Forget
  <2>9. CASE UNCHANGED vars
    BY <2>9 DEF vars
  <2>. QED
    BY <2>1, <2>2, <2>3, <2>4, <2>5, <2>6, <2>7, <2>8, <2>9 DEF Next, Step
<1>. QED
  BY <1>1, <1>2, PTL DEF Spec

-----------------------------------------------------------------------------
(* TicketWindow is kept by every step of every CPU. *)
LEMMA WindowStep == TypeOK /\ TicketWindow /\ [Next]_vars => TicketWindow'
<1> SUFFICES ASSUME TypeOK, TicketWindow, [Next]_vars PROVE TicketWindow'
  OBVIOUS
<1>0. ticket \in Counter /\ current \in Counter
      /\ (\A c \in Cpu : my_ticket[c] \in Counter /\ next[c] \in Counter)
      /\ Dist(ticket, current) = Cardinality(Waiters)
  BY DEF TypeOK, TicketWindow, Waiters
(* Steps that move no ticket and change nobody's place in the queue. *)
<1>1. ASSUME Waiters' = Waiters, UNCHANGED <<ticket, current>>,
             \A c \in Cpu : Queued(c)' => my_ticket'[c] = my_ticket[c],
             \A c \in Cpu : Holds(c)' => my_ticket[c] = current,
             \A c \in Cpu : pc'[c] = "store" => next'[c] = Inc(current),
             \A c \in Cpu : pc'[c] = "try_cas" /\ ticket = my_ticket'[c] => current = ticket
      PROVE  TicketWindow'
  <2>1. \A c \in Cpu : Queued(c)' <=> Queued(c)
    BY <1>1 DEF Waiters
  <2>2. \A c \in Cpu : Holds(c)' => Queued(c)'
    BY DEF Queued
  <2>. QED
    BY <1>0, <1>1, <2>1, <2>2 DEF TicketWindow, Waiters
<1> USE DEF Goto, lock, locals
<1>2. CASE EnableLocks
  BY <1>2, <1>1 DEF EnableLocks, TicketWindow, Waiters, Queued, Holds
<1>3. ASSUME NEW c \in Cpu, BootLock(c) \/ BootUnlock(c) PROVE TicketWindow'
  <2>1. Waiters' = Waiters
    BY <1>3 DEF BootLock, BootUnlock, Waiters, Queued, Holds, TypeOK
  <2>. QED
    BY <1>3, <1>1, <2>1 DEF BootLock, BootUnlock, TicketWindow, Queued, Holds, TypeOK
<1>4. ASSUME NEW c \in Cpu, TakeTicket(c) PROVE TicketWindow'
  <2>1. /\ c \notin Waiters /\ Waiters' = Waiters \cup {c}
        /\ ticket' = Inc(ticket) /\ current' = current /\ next' = next
        /\ my_ticket' = [my_ticket EXCEPT ![c] = ticket]
        /\ pc' = [pc EXCEPT ![c] = "spin"]
    BY <1>4 DEF TakeTicket, Waiters, Queued, Holds, TypeOK
  <2>2. Dist(ticket, current) < TicketMod - 1
    BY <1>0, <2>1, WaitersFacts
  <2>3. Dist(Inc(ticket), current) = Dist(ticket, current) + 1 /\ Dist(ticket, current) \in Nat
    BY <1>0, <2>2, DistFacts
  <2>4. Cardinality(Waiters') = Dist(ticket', current')
    BY <1>0, <2>1, <2>3, WaitersFacts
  <2>5. ASSUME NEW d \in Cpu, Queued(d)', d # c
        PROVE  Queued(d) /\ my_ticket'[d] = my_ticket[d]
    BY <2>1, <2>5 DEF Queued, Holds, TypeOK
  <2>6. ASSUME NEW d \in Cpu, Queued(d)
        PROVE  /\ Dist(my_ticket[d], current) \in Nat /\ my_ticket[d] # ticket
               /\ Dist(my_ticket[d], current) < Dist(ticket, current)
    <3>1. Dist(my_ticket[d], current) < Dist(ticket, current)
      BY <2>6 DEF TicketWindow
    <3>2. Dist(my_ticket[d], current) \in Nat
      BY <1>0, DistFacts
    <3>. QED
      BY <2>3, <3>1, <3>2
  <2>7. my_ticket'[c] = ticket
    BY <2>1 DEF TypeOK
  <2>8. \A d \in Cpu : Queued(d)' => Dist(my_ticket'[d], current') < Dist(ticket', current')
    BY <2>1, <2>3, <2>5, <2>6, <2>7 DEF TicketWindow
  <2>9. \A d, e \in Cpu : Queued(d)' /\ Queued(e)' /\ my_ticket'[d] = my_ticket'[e] => d = e
    BY <2>5, <2>6, <2>7 DEF TicketWindow
  <2>10. \A d \in Cpu : Holds(d)' => my_ticket'[d] = current'
    BY <2>1 DEF Holds, TicketWindow, TypeOK
  <2>11. \A d \in Cpu : pc'[d] = "store" => next'[d] = Inc(current')
    BY <2>1 DEF TicketWindow, TypeOK
  <2>12. \A d \in Cpu : pc'[d] = "try_cas" /\ ticket' = my_ticket'[d] => current' = ticket'
    BY <1>4, <2>1 DEF TakeTicket, TryWindowIsShort, TryWindow, TypeOK
  <2>. QED
    BY <2>4, <2>8, <2>9, <2>10, <2>11, <2>12 DEF TicketWindow, Waiters
<1>5. ASSUME NEW c \in Cpu, SpinExit(c) \/ RecordOwner(c) \/ ClearOwner(c) PROVE TicketWindow'
  <2>1. Waiters' = Waiters
    BY <1>5 DEF SpinExit, RecordOwner, ClearOwner, Waiters, Queued, Holds, TypeOK
  <2>. QED
    BY <1>5, <1>1, <2>1 DEF SpinExit, RecordOwner, ClearOwner, TicketWindow, Queued, Holds, TypeOK
<1>6. ASSUME NEW c \in Cpu, LoadCurrent(c) PROVE TicketWindow'
  <2>1. Waiters' = Waiters
    BY <1>6 DEF LoadCurrent, Waiters, Queued, Holds, TypeOK
  <2>. QED
    BY <1>6, <1>1, <2>1 DEF LoadCurrent, TicketWindow, Queued, Holds, TypeOK
<1>7. ASSUME NEW c \in Cpu, TryLoad(c) \/ TryCheck(c) PROVE TicketWindow'
  <2>1. Waiters' = Waiters
    BY <1>7 DEF TryLoad, TryCheck, Waiters, Queued, Holds, TypeOK
  <2>. QED
    BY <1>7, <1>1, <2>1 DEF TryLoad, TryCheck, Forget, TicketWindow, Queued, Holds, TypeOK
<1>8. ASSUME NEW c \in Cpu, StoreCurrent(c) PROVE TicketWindow'
  <2>1. /\ c \in Waiters /\ Waiters' = Waiters \ {c}
        /\ ticket' = ticket /\ current' = Inc(current)
        /\ \A d \in Cpu : d # c => /\ my_ticket'[d] = my_ticket[d] /\ next'[d] = next[d]
                                   /\ pc'[d] = pc[d]
        /\ pc'[c] = "out" /\ my_ticket[c] = current
    BY <1>8 DEF StoreCurrent, Forget, Waiters, Queued, Holds, TypeOK, TicketWindow
  <2>2. Queued(c) /\ ~Queued(c)' /\ ~Holds(c)'
    BY <2>1 DEF Waiters, Queued, Holds
  <2>3. ticket # current /\ Dist(ticket, current) \in Nat
    <3>1. Dist(my_ticket[c], current) < Dist(ticket, current)
      BY <2>2 DEF TicketWindow
    <3>2. Dist(ticket, current) \in Nat
      BY <1>0, DistFacts
    <3>. QED
      BY <2>1, <3>1, <3>2
  <2>4. Dist(ticket', current') = Dist(ticket, current) - 1
    BY <1>0, <2>1, <2>3, DistFacts
  <2>5. Cardinality(Waiters') = Dist(ticket', current')
    BY <1>0, <2>1, <2>4, WaitersFacts
  <2>6. ASSUME NEW d \in Cpu, Queued(d)'
        PROVE  d # c /\ Queued(d) /\ my_ticket'[d] = my_ticket[d] /\ my_ticket[d] # current
    BY <2>1, <2>2, <2>6 DEF Queued, Holds, TicketWindow
  <2>7. ASSUME NEW d \in Cpu, Queued(d)'
        PROVE  Dist(my_ticket'[d], current') < Dist(ticket', current')
    <3>1. Dist(my_ticket[d], current) < Dist(ticket, current)
      BY <2>6, <2>7 DEF TicketWindow
    <3>2. Dist(my_ticket[d], Inc(current)) = Dist(my_ticket[d], current) - 1
      BY <1>0, <2>6, <2>7, DistFacts
    <3>3. Dist(my_ticket[d], current) \in Nat
      BY <1>0, DistFacts
    <3>. QED
      BY <2>1, <2>3, <2>4, <2>6, <2>7, <3>1, <3>2, <3>3
  <2>8. \A d, e \in Cpu : Queued(d)' /\ Queued(e)' /\ my_ticket'[d] = my_ticket'[e] => d = e
    BY <2>6 DEF TicketWindow
  <2>9. \A d \in Cpu : d # c => ~Holds(d) /\ ~Holds(d)'
    BY <2>1, <2>2 DEF TicketWindow, Queued, Holds
  <2>10. \A d \in Cpu : /\ Holds(d)' => my_ticket'[d] = current'
                        /\ pc'[d] = "store" => next'[d] = Inc(current')
    BY <2>2, <2>9 DEF Holds
  <2>11. \A d \in Cpu : pc'[d] = "try_cas" /\ ticket' = my_ticket'[d] => current' = ticket'
    BY <2>1, <2>3 DEF TicketWindow
  <2>. QED
    BY <2>5, <2>7, <2>8, <2>10, <2>11 DEF TicketWindow, Waiters
<1>9. ASSUME NEW c \in Cpu, TryCas(c) PROVE TicketWindow'
  <2>1. CASE ticket # my_ticket[c]
    <3>1. Waiters' = Waiters
      BY <1>9, <2>1 DEF TryCas, Waiters, Queued, Holds, TypeOK
    <3>. QED
      BY <1>9, <1>1, <2>1, <3>1 DEF TryCas, Forget, TicketWindow, Queued, Holds, TypeOK
  <2>2. CASE ticket = my_ticket[c]
    <3>1. current = ticket
      BY <1>9, <2>2 DEF TryCas, TicketWindow
    <3>2. Waiters = {}
      BY <1>0, <3>1, DistFacts, WaitersFacts
    <3>3. /\ ticket' = Inc(ticket) /\ current' = current /\ my_ticket' = my_ticket
          /\ next' = next /\ pc' = [pc EXCEPT ![c] = "won"]
      BY <1>9, <2>2 DEF TryCas
    <3>4. Waiters' = {c} /\ \A d \in Cpu : Queued(d)' => d = c
      BY <3>2, <3>3 DEF Waiters, Queued, Holds, TypeOK
    <3>5. Dist(ticket', current') = 1 /\ Dist(current, current) = 0
      BY <1>0, <3>1, <3>3, DistFacts, ModFact
    <3>6. Cardinality(Waiters') = Dist(ticket', current')
      BY <3>4, <3>5, FS_Singleton
    <3>7. \A d \in Cpu : Queued(d)' => Dist(my_ticket'[d], current') < Dist(ticket', current')
      BY <2>2, <3>1, <3>3, <3>4, <3>5
    <3>8. \A d \in Cpu : /\ Holds(d)' => my_ticket'[d] = current'
                         /\ pc'[d] = "store" => next'[d] = Inc(current')
      BY <2>2, <3>1, <3>3, <3>4 DEF Queued, TypeOK, TicketWindow
    <3>9. \A d \in Cpu : pc'[d] = "try_cas" /\ ticket' = my_ticket'[d] => current' = ticket'
      BY <1>9, <2>2, <3>3 DEF TryCas, TryWindow, TypeOK
    <3>. QED
      BY <3>4, <3>6, <3>7, <3>8, <3>9 DEF TicketWindow, Waiters
  <2>. QED
    BY <2>1, <2>2
<1>10. CASE UNCHANGED vars
  BY <1>10, <1>1 DEF vars, TicketWindow, Waiters, Queued, Holds
<1>. QED
  BY <1>2, <1>3, <1>4, <1>5, <1>6, <1>7, <1>8, <1>9, <1>10 DEF Next, Step

(* The ticket window holds in every behaviour of the lock. *)
THEOREM Window == Spec => []TicketWindow
<1>1. Init => TicketWindow
  <2> SUFFICES ASSUME Init PROVE TicketWindow
    OBVIOUS
  <2>1. Waiters = {}
    BY DEF Init, Waiters, Queued, Holds
  <2>2. Cardinality(Waiters) = 0 /\ Dist(ticket, current) = 0
    BY <2>1, FS_EmptySet, IncType, DistFacts DEF Init
  <2>. QED
    BY <2>2 DEF Init, TicketWindow, Waiters, Queued, Holds
<1>. QED
  BY <1>1, WindowStep, TypeCorrect, PTL DEF Spec

(* At most one CPU is between acquisition and release of a spinlock,       *)
(* however spin_lock, spin_trylock and spin_unlock interleave and wherever *)
(* the counters wrap.                                                      *)
THEOREM Exclusion == Spec => []MutualExclusion
<1>1. TicketWindow => MutualExclusion
  BY DEF TicketWindow, MutualExclusion, Queued
<1>. QED
  BY <1>1, Window, PTL

(* last_cpu names the CPU in the critical section and is -1 when the lock  *)
(* is free: a consequence of mutual exclusion, not of the assignments alone. *)
THEOREM Owner == Spec => []OwnerRecorded
<1> DEFINE Inv == OwnerRecorded /\ \A c \in Cpu : pc[c] \in {"won", "unlock", "store"} => last_cpu = NoCpu
<1>1. Init => Inv
  BY DEF Init, OwnerRecorded, Holds
<1>2. TypeOK /\ MutualExclusion /\ MutualExclusion' /\ Inv /\ [Next]_vars => Inv'
  <2> SUFFICES ASSUME TypeOK, MutualExclusion, MutualExclusion', Inv, [Next]_vars PROVE Inv'
    OBVIOUS
  <2> USE DEF TypeOK, OwnerRecorded, MutualExclusion, Holds, Goto, lock, locals
  <2>1. CASE EnableLocks \/ UNCHANGED vars
    BY <2>1 DEF EnableLocks, vars
  <2>2. ASSUME NEW c \in Cpu, BootLock(c) \/ BootUnlock(c) \/ TakeTicket(c) \/ TryLoad(c) PROVE Inv'
    BY <2>2 DEF BootLock, BootUnlock, TakeTicket, TryLoad
  <2>3. ASSUME NEW c \in Cpu, SpinExit(c) \/ LoadCurrent(c) PROVE Inv'
    BY <2>3 DEF SpinExit, LoadCurrent
  <2>4. ASSUME NEW c \in Cpu, RecordOwner(c) \/ ClearOwner(c) PROVE Inv'
    BY <2>4 DEF RecordOwner, ClearOwner
  <2>5. ASSUME NEW c \in Cpu, StoreCurrent(c) PROVE Inv'
    BY <2>5 DEF StoreCurrent
  <2>6. ASSUME NEW c \in Cpu, TryCheck(c) \/ TryCas(c) PROVE Inv'
    BY <2>6 DEF TryCheck, TryCas
  <2>. QED
    BY <2>1, <2>2, <2>3, <2>4, <2>5, <2>6 DEF Next, Step
<1>. QED
  BY <1>1, <1>2, TypeCorrect, Exclusion, PTL DEF Spec
=============================================================================
