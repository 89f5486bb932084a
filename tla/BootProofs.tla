----------------------------- MODULE BootProofs -----------------------------
(***************************************************************************)
(* Proofs from the firmware to the started CPUs.  The physical memory       *)
(* manager: for every bitmap size, memory map and set of CPUs.  The loader: *)
(* for any machine, any kernel and any behaviour of the firmware between    *)
(* the loader's calls.  The start of the other CPUs: for any number of them *)
(* and any MADT that names each at most once.                               *)
(***************************************************************************)
EXTENDS Pmm, BootLoader, ApBoot, WellFoundedInduction, TLAPS

(* The start of the other CPUs.  What matters of the state is which CPUs    *)
(* smp_init has been through and what the one that it is at has read of the *)
(* configuration block.                                                     *)
Launching == {"sipi1", "sipi2", "nap", "wait"}
Mid == {"prepare", "config", "init"} \cup Launching
Inside == {"entry", "create", "run", "spin", "queue"}

(* The CPUs that the MADT wants before entry n, and those smp_init is done  *)
(* with.                                                                    *)
Seen(n) == {Madt[i].apic_id : i \in {j \in DOMAIN Madt : j < n /\ Wanted(Madt[j])}}
Before == IF main \in Mid THEN Seen(ptr - 1) ELSE Seen(ptr)

ApTypeOK ==
    /\ main \in {"scan", "done"} \cup Mid
    /\ ptr \in 1 .. Len(Madt) + 1 /\ cpu_count \in 1 .. ptr
    /\ main = "done" => ptr = Len(Madt) + 1
    /\ config \in [stack : Id \cup {NoId}, ctx : Id \cup {NoId}, ready : BOOLEAN]
    /\ ap \in [ApicId -> {"off", "reset", "ctx", "stack", "ready"} \cup Inside]
    /\ rdi \in [ApicId -> Id \cup {NoId}] /\ rsp \in [ApicId -> Id \cup {NoId}]
    /\ rdi[Bsp] = 0 /\ rsp[Bsp] = 0
    /\ cpu_table = 0 .. (IF main = "prepare" THEN cpu_count - 2 ELSE cpu_count - 1)

(* The CPU being started is the one of the last entry; the block is filled  *)
(* for it before it is woken, and the flag is set only by it.               *)
Target ==
    main \in Mid => /\ ptr > 1 /\ cpu_count > 1
                    /\ Wanted(Madt[ptr - 1]) /\ target = Madt[ptr - 1].apic_id
                    /\ main \in Launching <=> ap[target] # "off"
                    /\ main \in Launching \cup {"init"} =>
                          /\ config.ctx = NewId /\ config.stack = NewId
                          /\ config.ready => ap[target] \in Inside

(* Every other CPU has not been touched or has come through. *)
Others ==
    \A a \in ApicId : (main \in Mid /\ a = target) \/ IF a \in Before THEN ap[a] \in Inside ELSE ap[a] = "off"

(* What a CPU has read so far *)
Registers ==
    \A a \in ApicId \ {Bsp} :
        /\ ap[a] \in {"off", "reset", "ctx"} => rdi[a] = NoId /\ rsp[a] = NoId
        /\ ap[a] = "stack" => rdi[a] = NewId /\ rsp[a] = NoId
        /\ ap[a] = "ready" => rdi[a] = NewId /\ rsp[a] = NewId
        /\ ap[a] \in Inside => rdi[a] \in 1 .. NewId /\ rsp[a] = rdi[a]

(* The contexts are given out one by one, each to one CPU. *)
Given ==
    /\ \A a, b \in Before : rdi[a] = rdi[b] => a = b
    /\ \A a \in Before : main \in Mid => rdi[a] # NewId
    /\ \A i \in 1 .. NewId : (main \in Mid /\ i = NewId) \/ \E a \in Before : rdi[a] = i
    /\ main \in Mid /\ ap[target] \in Inside => rdi[target] = NewId

ApInv == ApTypeOK /\ Target /\ Others /\ Registers /\ Given

-----------------------------------------------------------------------------
(* The entry at ptr is one of a CPU not seen yet. *)
LEMMA SeenNext ==
    ASSUME NEW n \in 1 .. Len(Madt)
    PROVE  /\ Wanted(Madt[n]) => Seen(n + 1) = Seen(n) \cup {Madt[n].apic_id}
           /\ ~Wanted(Madt[n]) => Seen(n + 1) = Seen(n)
           /\ Wanted(Madt[n]) => Madt[n].apic_id \notin Seen(n)
<1>1. \A j \in DOMAIN Madt : j \in Nat /\ (j < n + 1 <=> j < n \/ j = n)
  BY ApBootAssumption
<1>2. n \in DOMAIN Madt
  BY ApBootAssumption
<1>3. \A x : x \in Seen(n + 1) <=> x \in Seen(n) \/ (Wanted(Madt[n]) /\ x = Madt[n].apic_id)
  BY <1>1, <1>2 DEF Seen
<1>4. Wanted(Madt[n]) => Madt[n].apic_id \notin Seen(n)
  <2> SUFFICES ASSUME Wanted(Madt[n]), Madt[n].apic_id \in Seen(n) PROVE FALSE
    OBVIOUS
  <2>1. PICK j \in DOMAIN Madt : j < n /\ Wanted(Madt[j]) /\ Madt[j].apic_id = Madt[n].apic_id
    BY DEF Seen
  <2>2. Madt[j].lapic /\ Madt[n].lapic
    BY <2>1 DEF Wanted
  <2>3. j = n
    BY <1>2, <2>1, <2>2, ApBootAssumption
  <2> QED
    BY <1>1, <2>1, <2>3
<1>5. Wanted(Madt[n]) => Seen(n + 1) = Seen(n) \cup {Madt[n].apic_id}
  BY <1>3, Zenon
<1>6. ~Wanted(Madt[n]) => Seen(n + 1) = Seen(n)
  BY <1>3, Zenon
<1> QED
  BY <1>4, <1>5, <1>6

(* The CPUs seen are not the BSP. *)
LEMMA SeenCpus == ASSUME NEW n PROVE Seen(n) \subseteq ApicId \ {Bsp}
<1> DEFINE Entry == [lapic : BOOLEAN, enabled : BOOLEAN, apic_id : ApicId]
<1>1. Madt \in Seq(Entry)
  BY ApBootAssumption
<1>2. \A e \in Entry : e.apic_id \in ApicId
  OBVIOUS
<1> HIDE DEF Entry
<1>3. \A j \in DOMAIN Madt : Madt[j] \in Entry
  BY <1>1
<1> QED
  BY <1>2, <1>3 DEF Seen, Wanted

(* The CPU being started is listed in the MADT, and is not the BSP. *)
LEMMA TargetListed ==
    ASSUME ApInv, main \in Mid
    PROVE  target \in ApicId \ {Bsp}
<1>1. ptr - 1 \in 1 .. Len(Madt) /\ Wanted(Madt[ptr - 1]) /\ target = Madt[ptr - 1].apic_id
  BY ApBootAssumption DEF ApInv, ApTypeOK, Target
<1>2. target \in Seen((ptr - 1) + 1)
  BY <1>1, SeenNext, Zenon
<1> QED
  BY <1>2, SeenCpus, Zenon

LEMMA InitAp == ApInit => ApInv
<1> SUFFICES ASSUME ApInit PROVE ApInv
  OBVIOUS
<1> USE ApBootAssumption
<1>1. Len(Madt) \in Nat
  OBVIOUS
<1>2. Seen(1) = {}
  BY DEF Seen
<1>3. main = "scan" /\ "scan" \notin Mid
  BY DEF ApInit, Mid, Launching
<1>4. ApTypeOK
  BY <1>1, <1>3 DEF ApInit, ApTypeOK, Id
<1>5. Before = {} /\ NewId = 0
  BY <1>2, <1>3 DEF ApInit, Before, NewId
<1>6. Target /\ Others
  BY <1>3, <1>5 DEF ApInit, Target, Others
<1>7. Registers
  BY DEF ApInit, Registers, Inside
<1>8. Given
  BY <1>3, <1>5 DEF Given
<1> QED
  BY <1>4, <1>6, <1>7, <1>8 DEF ApInv

-----------------------------------------------------------------------------
(* A step of a CPU that has come through changes none of this. *)
LEMMA InsideStep ==
    ASSUME ApInv, NEW a \in ApicId, ap[a] \in Inside, NEW to \in Inside,
           ap' = [ap EXCEPT ![a] = to], UNCHANGED <<boot, config, cpu_table, regs>>
    PROVE  ApInv'
<1>1. Before' = Before /\ NewId' = NewId
  BY DEF Before, Seen, NewId, boot
<1>2. \A b \in ApicId : ap'[b] = ap[b] \/ (ap[b] \in Inside /\ ap'[b] \in Inside)
  BY DEF ApInv, ApTypeOK
<1>3. \A x \in Inside : x \notin {"off", "reset", "ctx", "stack", "ready"}
  BY DEF Inside
<1>4. ApTypeOK'
  BY DEF ApInv, ApTypeOK, boot, regs
<1>5. Target' /\ Others'
  <2>1. main' = main /\ ptr' = ptr /\ cpu_count' = cpu_count /\ target' = target
    BY DEF boot
  <2>2. ASSUME main \in Mid PROVE target \in ApicId
    BY <2>2, TargetListed
  <2>3. Target'
    BY <1>1, <1>2, <1>3, <2>1, <2>2 DEF ApInv, Target, Wanted
  <2>4. Others'
    BY <1>1, <1>2, <1>3, <2>1 DEF ApInv, Others
  <2> QED
    BY <2>3, <2>4
<1>6. Registers'
  BY <1>1, <1>2, <1>3 DEF ApInv, Registers, regs
<1>7. Given'
  BY <1>1, <1>2, <1>3 DEF ApInv, Given, regs, boot
<1> QED
  BY <1>4, <1>5, <1>6, <1>7 DEF ApInv

(* main goes on with a CPU, and nothing of the others changes. *)
LEMMA MainOn ==
    ASSUME ApInv, main \in Launching, main' \in Launching,
           UNCHANGED <<ptr, target, cpu_count, config, cpu_table, ap, regs>>
    PROVE  ApInv'
<1>1. main \in Mid /\ main' \in Mid /\ main' # "prepare" /\ main # "prepare" /\ main' # "done"
  BY DEF Mid, Launching
<1>2. Before' = Before /\ NewId' = NewId
  BY <1>1 DEF Before, Seen, NewId
<1>3. ApTypeOK'
  BY <1>1 DEF ApInv, ApTypeOK, regs
<1>4. Target' /\ Others'
  BY <1>1, <1>2 DEF ApInv, Target, Others
<1>5. Registers' /\ Given'
  BY <1>1, <1>2 DEF ApInv, Registers, Given, regs
<1> QED
  BY <1>3, <1>4, <1>5 DEF ApInv

(* A CPU on its way through the trampoline is the target. *)
LEMMA OnItsWay ==
    ASSUME ApInv, NEW a \in ApicId, ap[a] \in {"reset", "ctx", "stack", "ready"}
    PROVE  /\ a = target /\ a # Bsp /\ main \in Launching /\ main \in Mid
           /\ config.ctx = NewId /\ config.stack = NewId /\ config.ready = FALSE
           /\ NewId \in 1 .. Len(Madt) /\ a \notin Before
<1>1. ap[a] \notin Inside /\ ap[a] # "off"
  BY DEF Inside
<1>2. main \in Mid /\ a = target
  BY <1>1 DEF ApInv, Others
<1>3. main \in Launching /\ ~config.ready /\ config.ctx = NewId /\ config.stack = NewId
  BY <1>1, <1>2 DEF ApInv, Target
<1>4. config.ready = FALSE
  BY <1>3 DEF ApInv, ApTypeOK
<1>5. ptr - 1 \in 1 .. Len(Madt) /\ Wanted(Madt[ptr - 1]) /\ a = Madt[ptr - 1].apic_id
  BY <1>2, ApBootAssumption DEF ApInv, ApTypeOK, Target
<1>6. NewId \in 1 .. Len(Madt)
  BY <1>2, ApBootAssumption DEF ApInv, ApTypeOK, Target, NewId
<1>7. a \notin Before
  BY <1>2, <1>5, SeenNext DEF Before
<1> QED
  BY <1>2, <1>3, <1>4, <1>5, <1>6, <1>7 DEF Wanted

(* The target takes a step through the trampoline. *)
LEMMA TrampolineStep ==
    ASSUME ApInv, NEW a \in ApicId, Start(a) \/ ReadContext(a) \/ ReadStack(a) \/ SetReady(a)
    PROVE  ApInv'
<1>1. ap[a] \in {"reset", "ctx", "stack", "ready"}
  BY DEF Start, ReadContext, ReadStack, SetReady, Ap
<1>2. /\ a = target /\ a # Bsp /\ main \in Launching /\ main \in Mid
      /\ config.ctx = NewId /\ config.stack = NewId /\ config.ready = FALSE
      /\ NewId \in 1 .. Len(Madt) /\ a \notin Before
  BY <1>1, OnItsWay, Zenon
<1>3. /\ Before' = Before /\ NewId' = NewId /\ main' = main /\ target' = target
      /\ ptr' = ptr /\ cpu_count' = cpu_count /\ cpu_table' = cpu_table
  BY Zenon DEF Start, ReadContext, ReadStack, SetReady, boot, Before, Seen, NewId
<1>4. /\ \A b \in ApicId \ {a} : ap'[b] = ap[b] /\ rdi'[b] = rdi[b] /\ rsp'[b] = rsp[b]
      /\ ap'[a] \in {"ctx", "stack", "ready", "entry"}
  BY DEF Start, ReadContext, ReadStack, SetReady, Ap, regs, ApInv, ApTypeOK
<1>5. /\ config'.ctx = NewId /\ config'.stack = NewId
      /\ config'.ready => ap'[a] = "entry"
      /\ config' \in [stack : Id \cup {NoId}, ctx : Id \cup {NoId}, ready : BOOLEAN]
  <2>1. config \in [stack : Id \cup {NoId}, ctx : Id \cup {NoId}, ready : BOOLEAN]
    BY Zenon DEF ApInv, ApTypeOK
  <2>2. CASE config' = config
    BY <1>2, <2>1, <2>2
  <2>3. CASE SetReady(a)
    <3>1. config' = [config EXCEPT !.ready = TRUE] /\ ap' = [ap EXCEPT ![a] = "entry"]
      BY <2>3, Zenon DEF SetReady, Ap
    <3>2. ap'[a] = "entry"
      BY <3>1 DEF ApInv, ApTypeOK
    <3>3. config'.ctx = config.ctx /\ config'.stack = config.stack
      BY <2>1, <3>1
    <3>4. config' \in [stack : Id \cup {NoId}, ctx : Id \cup {NoId}, ready : BOOLEAN]
      BY <2>1, <3>1
    <3> QED
      BY <1>2, <3>2, <3>3, <3>4, Zenon
  <2>4. SetReady(a) \/ config' = config
    BY Zenon DEF Start, ReadContext, ReadStack
  <2> QED
    BY <2>2, <2>3, <2>4, Zenon
<1>6. /\ ap'[a] = "ctx" => rdi'[a] = NoId /\ rsp'[a] = NoId
      /\ ap'[a] = "stack" => rdi'[a] = NewId /\ rsp'[a] = NoId
      /\ ap'[a] \in {"ready", "entry"} => rdi'[a] = NewId /\ rsp'[a] = NewId
  BY <1>2 DEF Start, ReadContext, ReadStack, SetReady, Ap, regs, ApInv, ApTypeOK, Registers
<1>7. ApTypeOK'
  <2>1. /\ ap' \in [ApicId -> {"off", "reset", "ctx", "stack", "ready"} \cup Inside]
        /\ rdi' \in [ApicId -> Id \cup {NoId}] /\ rsp' \in [ApicId -> Id \cup {NoId}]
    BY <1>2 DEF Start, ReadContext, ReadStack, SetReady, Ap, regs, ApInv, ApTypeOK, Inside
  <2>2. rdi'[Bsp] = 0 /\ rsp'[Bsp] = 0
    BY <1>2, <1>4, ApBootAssumption DEF ApInv, ApTypeOK
  <2> QED
    BY <1>3, <1>5, <2>1, <2>2 DEF ApInv, ApTypeOK
<1>8. Target'
  BY <1>2, <1>3, <1>4, <1>5 DEF ApInv, Target, Inside, Wanted
<1>9. Others'
  BY <1>2, <1>3, <1>4 DEF ApInv, Others
<1>10. Registers'
  <2>1. ASSUME NEW b \in ApicId \ {Bsp}, b # a
        PROVE  ap'[b] = ap[b] /\ rdi'[b] = rdi[b] /\ rsp'[b] = rsp[b]
    BY <1>4, <2>1
  <2>2. \A x \in Inside : x \notin {"off", "reset", "ctx", "stack", "ready"}
    BY DEF Inside
  <2>3. ap'[a] \in Inside => rdi'[a] = NewId /\ rsp'[a] = NewId
    BY <1>4, <1>6 DEF Inside
  <2>4. NewId \in 1 .. NewId
    BY <1>2, ApBootAssumption
  <2> QED
    BY <1>3, <1>4, <1>6, <2>1, <2>2, <2>3, <2>4 DEF ApInv, Registers
<1>11. Given'
  <2>1. \A b \in Before : rdi'[b] = rdi[b]
    BY <1>2, <1>4, SeenCpus DEF Before
  <2>2. ap'[a] \in Inside => rdi'[a] = NewId
    BY <1>4, <1>6 DEF Inside
  <2>3. /\ \A b, d \in Before : rdi[b] = rdi[d] => b = d
        /\ \A b \in Before : main \in Mid => rdi[b] # NewId
        /\ \A n \in 1 .. NewId : (main \in Mid /\ n = NewId) \/ \E b \in Before : rdi[b] = n
    BY Zenon DEF ApInv, Given
  <2> QED
    <3>1. \A b, d \in Before : rdi'[b] = rdi'[d] => b = d
      BY <2>1, <2>3, Zenon
    <3>2. \A b \in Before : main \in Mid => rdi'[b] # NewId
      BY <2>1, <2>3, Zenon
    <3>3. \A n \in 1 .. NewId : (main \in Mid /\ n = NewId) \/ \E b \in Before : rdi'[b] = n
      BY <2>1, <2>3, Zenon
    <3> QED
      BY <1>2, <1>3, <2>2, <3>1, <3>2, <3>3, Zenon DEF Given
<1> QED
  BY <1>7, <1>8, <1>9, <1>10, <1>11 DEF ApInv

(* smp_init takes the next entry. *)
LEMMA ScanStep == ASSUME ApInv, Scan PROVE ApInv'
<1> USE ApBootAssumption
<1>1. /\ main = "scan" /\ main' = "prepare" /\ main \notin Mid /\ main' \in Mid
      /\ main' \notin Launching \cup {"init"}
      /\ ptr \in 1 .. Len(Madt) /\ Wanted(Madt[ptr]) /\ ptr' = ptr + 1
      /\ target' = Madt[ptr].apic_id /\ cpu_count' = cpu_count + 1 /\ NewId' = NewId + 1
      /\ UNCHANGED <<config, cpu_table, ap, rdi, rsp>>
  BY DEF Scan, Main, Mid, Launching, regs, NewId, ApInv, ApTypeOK
<1>2. Before' = Before /\ Before = Seen(ptr)
  BY <1>1 DEF Before, Seen, ApInv, ApTypeOK
<1>3. \A a \in ApicId : IF a \in Before THEN ap[a] \in Inside ELSE ap[a] = "off"
  BY <1>1 DEF ApInv, Others
<1>4. target' \in ApicId /\ target' \notin Before /\ "off" \notin Inside
  <2>1. target' \in Seen(ptr + 1)
    BY <1>1, SeenNext
  <2> QED
    BY <1>1, <1>2, <2>1, SeenNext, SeenCpus DEF Inside
<1>5. ApTypeOK'
  BY <1>1 DEF ApInv, ApTypeOK
<1>6. Target'
  BY <1>1, <1>3, <1>4 DEF ApInv, ApTypeOK, Target
<1>7. Others'
  BY <1>1, <1>2, <1>3 DEF Others
<1>8. NewId \in Nat /\ Before \subseteq ApicId \ {Bsp}
  BY SeenCpus DEF ApInv, ApTypeOK, NewId, Before
<1>9. Registers'
  <2>1. \A a \in ApicId : ap[a] \in Inside \/ ap[a] = "off"
    BY <1>3
  <2> QED
    BY <1>1, <1>8, <2>1 DEF ApInv, Registers, Inside
<1>10. Given'
  <2>1. \A a \in Before : rdi[a] \in 1 .. NewId
    BY <1>3, <1>8 DEF ApInv, Registers
  <2> QED
    <3>1. \A a \in Before : rdi[a] # NewId + 1
      BY <1>8, <2>1
    <3>2. \A i \in 1 .. NewId + 1 : i = NewId + 1 \/ i \in 1 .. NewId
      BY <1>8
    <3>3. \A i \in 1 .. NewId : \E a \in Before : rdi[a] = i
      BY <1>1 DEF ApInv, Given
    <3>4. ap[target'] \notin Inside
      BY <1>3, <1>4
    <3>5. \A a, b \in Before : rdi[a] = rdi[b] => a = b
      BY DEF ApInv, Given
    <3> QED
      BY <1>1, <1>2, <3>1, <3>2, <3>3, <3>4, <3>5 DEF Given
<1> QED
  BY <1>5, <1>6, <1>7, <1>9, <1>10 DEF ApInv

(* It skips an entry, or is at the end. *)
LEMMA SkipStep == ASSUME ApInv, Skip \/ Finish PROVE ApInv'
<1> USE ApBootAssumption
<1>1. /\ main = "scan" /\ main' \in {"scan", "done"} /\ main \notin Mid /\ main' \notin Mid
      /\ ptr' \in 1 .. Len(Madt) + 1 /\ ptr' >= ptr
      /\ main' = "done" => ptr' = Len(Madt) + 1
      /\ UNCHANGED <<cpu_count, config, cpu_table, ap, rdi, rsp>> /\ NewId' = NewId
  BY DEF Skip, Finish, Main, Mid, Launching, regs, NewId, ApInv, ApTypeOK
<1>2. Before' = Before
  <2>1. Before = Seen(ptr) /\ Before' = Seen(ptr')
    BY <1>1 DEF Before, Seen
  <2>2. CASE Skip
    <3>1. ptr \in 1 .. Len(Madt) /\ ~Wanted(Madt[ptr]) /\ ptr' = ptr + 1
      BY <2>2 DEF Skip, ApInv, ApTypeOK
    <3> QED
      BY <2>1, <3>1, SeenNext
  <2>3. CASE Finish
    BY <2>1, <2>3 DEF Finish
  <2> QED
    BY <2>2, <2>3
<1>3. ApTypeOK'
  BY <1>1 DEF ApInv, ApTypeOK
<1>4. Target' /\ Others'
  BY <1>1, <1>2 DEF ApInv, Target, Others
<1>5. Registers' /\ Given'
  BY <1>1, <1>2 DEF ApInv, Registers, Given
<1> QED
  BY <1>3, <1>4, <1>5 DEF ApInv

(* The context is registered and the block filled. *)
LEMMA FillStep == ASSUME ApInv, Prepare \/ Config PROVE ApInv'
<1>1. /\ main \in {"prepare", "config"} /\ main' \in {"config", "init"}
      /\ main' = "init" <=> Config
      /\ main \in Mid /\ main' \in Mid /\ main \notin Launching /\ main' \notin Launching
      /\ UNCHANGED <<ptr, target, cpu_count, ap, rdi, rsp>> /\ NewId' = NewId
  BY DEF Prepare, Config, Main, Mid, Launching, regs, NewId
<1>2. Before' = Before
  BY <1>1 DEF Before, Seen
<1>3. cpu_table' = 0 .. cpu_count - 1
  <2>1. CASE Prepare
    <3>1. cpu_table = 0 .. cpu_count - 2 /\ cpu_count \in Nat /\ cpu_count > 1
      BY <1>1, <2>1, ApBootAssumption DEF Prepare, Main, ApInv, ApTypeOK, Target
    <3>2. \A x : x \in 0 .. cpu_count - 1 <=> x \in 0 .. cpu_count - 2 \/ x = cpu_count - 1
      BY <3>1
    <3> QED
      BY <2>1, <3>1, <3>2, Zenon DEF Prepare, NewId
  <2>2. CASE Config
    BY <2>2 DEF Config, Main, ApInv, ApTypeOK
  <2> QED
    BY <2>1, <2>2
<1>4. NewId \in Id
  BY <1>1, ApBootAssumption DEF ApInv, ApTypeOK, Target, NewId, Id
<1>5. ApTypeOK'
  <2>1. config' \in [stack : Id \cup {NoId}, ctx : Id \cup {NoId}, ready : BOOLEAN]
    <3>1. CASE Prepare
      BY <3>1 DEF Prepare, ApInv, ApTypeOK
    <3>2. CASE Config
      BY <1>4, <3>2 DEF Config
    <3> QED
      BY <3>1, <3>2
  <2> QED
    BY <1>1, <1>3, <2>1 DEF ApInv, ApTypeOK
<1>6. Target'
  <2>1. main' = "init" => config'.ctx = NewId /\ config'.stack = NewId /\ config'.ready = FALSE
    BY <1>1 DEF Config
  <2> QED
    BY <1>1, <2>1 DEF ApInv, Target, Wanted
<1>7. Others' /\ Registers' /\ Given'
  BY <1>1, <1>2 DEF ApInv, Others, Registers, Given
<1> QED
  BY <1>5, <1>6, <1>7 DEF ApInv

(* INIT resets the CPU, which until then is off. *)
LEMMA InitStep == ASSUME ApInv, InitIpi PROVE ApInv'
<1> USE ApBootAssumption
<1>1. /\ main = "init" /\ main' = "sipi1" /\ main \in Mid /\ main' \in Mid
      /\ main \notin Launching /\ main' \in Launching
      /\ UNCHANGED <<ptr, target, cpu_count, config, cpu_table, rdi, rsp>> /\ NewId' = NewId
  BY DEF InitIpi, Main, Mid, Launching, regs, NewId
<1>2. Before' = Before
  BY <1>1 DEF Before, Seen
<1>3. target \in ApicId \ {Bsp} /\ ap[target] = "off"
  BY <1>1, TargetListed DEF ApInv, Target
<1>4. /\ ap'[target] = "reset" /\ \A b \in ApicId \ {target} : ap'[b] = ap[b]
      /\ ap' \in [ApicId -> {"off", "reset", "ctx", "stack", "ready"} \cup Inside]
  BY <1>3 DEF InitIpi, ApInv, ApTypeOK
<1>5. ApTypeOK'
  BY <1>1, <1>4 DEF ApInv, ApTypeOK
<1>6. "off" \notin Inside /\ "reset" \notin Inside
  BY DEF Inside
<1>7. Target' /\ Others'
  BY <1>1, <1>2, <1>3, <1>4, <1>6 DEF ApInv, Target, Others, Wanted
<1>8. Registers' /\ Given'
  BY <1>1, <1>2, <1>3, <1>4, <1>6 DEF ApInv, Registers, Given
<1> QED
  BY <1>5, <1>7, <1>8 DEF ApInv

(* The flag is set: the CPU has come through, with the newest context. *)
LEMMA WaitStep == ASSUME ApInv, Wait PROVE ApInv'
<1> USE ApBootAssumption
<1>1. /\ main = "wait" /\ main' = "scan" /\ main \in Mid /\ main' \notin Mid
      /\ main \in Launching /\ config.ready
      /\ UNCHANGED <<ptr, target, cpu_count, config, cpu_table, ap, rdi, rsp>> /\ NewId' = NewId
  BY DEF Wait, Main, Mid, Launching, regs, NewId
<1>2. ap[target] \in Inside /\ rdi[target] = NewId
  BY <1>1 DEF ApInv, Target, Given
<1>3. Before' = Before \cup {target}
  <2>1. ptr - 1 \in 1 .. Len(Madt) /\ Wanted(Madt[ptr - 1]) /\ target = Madt[ptr - 1].apic_id
    BY <1>1 DEF ApInv, ApTypeOK, Target
  <2>2. Seen((ptr - 1) + 1) = Seen(ptr - 1) \cup {target}
    BY <2>1, SeenNext
  <2>3. (ptr - 1) + 1 = ptr
    BY DEF ApInv, ApTypeOK
  <2>4. Before' = Seen(ptr) /\ Before = Seen(ptr - 1)
    BY <1>1, Zenon DEF Before, Seen
  <2> QED
    BY <2>2, <2>3, <2>4
<1>4. ApTypeOK'
  BY <1>1 DEF ApInv, ApTypeOK
<1>5. Target' /\ Others'
  BY <1>1, <1>2, <1>3, Zenon DEF ApInv, Target, Others
<1>6. Registers' /\ Given'
  BY <1>1, <1>2, <1>3 DEF ApInv, Registers, Given
<1> QED
  BY <1>4, <1>5, <1>6 DEF ApInv

LEMMA NextAp == ApInv /\ [ApNext]_apvars => ApInv'
<1> SUFFICES ASSUME ApInv, [ApNext]_apvars PROVE ApInv'
  OBVIOUS
<1>1. CASE Scan
  BY <1>1, ScanStep
<1>2. CASE Skip \/ Finish
  BY <1>2, SkipStep
<1>3. CASE Prepare \/ Config
  BY <1>3, FillStep
<1>4. CASE InitIpi
  BY <1>4, InitStep
<1>5. CASE Sipi1 \/ Sipi2 \/ Woken
  <2>1. main \in Launching /\ main' \in Launching
    BY <1>5 DEF Sipi1, Sipi2, Woken, Main, Launching
  <2>2. UNCHANGED <<ptr, target, cpu_count, config, cpu_table, ap, regs>>
    BY <1>5 DEF Sipi1, Sipi2, Woken
  <2> QED
    BY <2>1, <2>2, MainOn
<1>6. CASE Wait
  BY <1>6, WaitStep
<1>7. ASSUME NEW a \in ApicId, Start(a) \/ ReadContext(a) \/ ReadStack(a) \/ SetReady(a)
      PROVE  ApInv'
  BY <1>7, TrampolineStep
<1>8. ASSUME NEW a \in ApicId, InitContext(a) \/ SpinLock(a) \/ Acquired(a) \/ SpinUnlock(a)
      PROVE  ApInv'
  <2>1. ap[a] \in Inside
    BY <1>8 DEF InitContext, SpinLock, Acquired, SpinUnlock, Ap, Inside
  <2>2. \E to \in Inside : ap' = [ap EXCEPT ![a] = to]
    <3>1. /\ InitContext(a) => ap' = [ap EXCEPT ![a] = "create"]
          /\ SpinLock(a) => ap' = [ap EXCEPT ![a] = "spin"]
          /\ Acquired(a) => ap' = [ap EXCEPT ![a] = "queue"]
          /\ SpinUnlock(a) => ap' = [ap EXCEPT ![a] = "run"]
      BY Zenon DEF InitContext, SpinLock, Acquired, SpinUnlock, Ap
    <3>2. "create" \in Inside /\ "spin" \in Inside /\ "queue" \in Inside /\ "run" \in Inside
      BY DEF Inside
    <3> QED
      BY <1>8, <3>1, <3>2, Zenon
  <2>3. UNCHANGED <<boot, config, cpu_table, regs>>
    BY <1>8 DEF InitContext, SpinLock, Acquired, SpinUnlock
  <2> QED
    BY <2>1, <2>2, <2>3, InsideStep, Zenon
<1>9. CASE (\E c \in ApicId : Stolen(c) \/ \E i \in Id : Steal(c, i)) \/ UNCHANGED apvars
  <2>1. UNCHANGED <<main, ptr, cpu_count, target, config, cpu_table, ap, rdi, rsp>>
    BY <1>9, Zenon DEF Stolen, Steal, apvars, boot, regs
  <2>2. Before' = Before /\ NewId' = NewId
    BY <2>1 DEF Before, Seen, NewId
  <2>3. ApTypeOK'
    BY <2>1 DEF ApInv, ApTypeOK
  <2>4. Registers' /\ Given'
    BY <2>1, <2>2, Zenon DEF ApInv, Registers, Given
  <2>5. Target' /\ Others'
    BY <2>1, <2>2, Zenon DEF ApInv, Target, Others
  <2> QED
    BY <2>3, <2>4, <2>5, Zenon DEF ApInv
<1> QED
  BY <1>1, <1>2, <1>3, <1>4, <1>5, <1>6, <1>7, <1>8, <1>9 DEF ApNext, MainStep, Trampoline

-----------------------------------------------------------------------------
(* What holds between smp_init and the CPUs gives each its own context. *)
LEMMA ApSafe == ApInv => HandedOver
<1> SUFFICES ASSUME ApInv PROVE HandedOver
  OBVIOUS
<1> USE ApBootAssumption
<1>1. Entered = {a \in ApicId : ap[a] \in Inside}
  <2>1. \A a \in ApicId : ap[a] \in Inside <=>
                 ap[a] \notin {"off", "reset", "ctx", "stack", "late", "ready"}
    BY DEF ApInv, ApTypeOK, Inside
  <2> QED
    BY <2>1, Zenon DEF Entered
<1>2. Before \subseteq ApicId \ {Bsp} /\ cpu_count \in Nat /\ cpu_count > 0 /\ NewId \in Nat
  BY SeenCpus DEF Before, ApInv, ApTypeOK, NewId
<1>3. \A a \in ApicId : ap[a] \in Inside => a # Bsp /\ (a \in Before \/ (main \in Mid /\ a = target))
  <2>1. "off" \notin Inside
    BY DEF Inside
  <2>2. main \in Mid => target # Bsp
    BY DEF ApInv, Target, Wanted
  <2> QED
    BY <1>2, <2>1, <2>2 DEF ApInv, Others
<1>4. ASSUME NEW a \in ApicId, ap[a] \in Inside
      PROVE  /\ rdi[a] \in 1 .. NewId /\ rsp[a] = rdi[a] /\ rdi[a] \in cpu_table \ {0}
             /\ \A b \in ApicId \ {a} : rdi[b] # rdi[a] /\ rsp[b] # rsp[a]
  <2>1. rdi[a] \in 1 .. NewId /\ rsp[a] = rdi[a] /\ a # Bsp
    BY <1>3, <1>4 DEF ApInv, Registers
  <2>2. rdi[a] \in cpu_table \ {0}
    <3>1. CASE main = "prepare"
      <4>1. main \in Mid /\ main \notin Launching /\ "off" \notin Inside
        BY <3>1 DEF Mid, Launching, Inside
      <4>2. ap[target] = "off"
        BY <4>1 DEF ApInv, Target
      <4>3. rdi[a] # NewId
        BY <1>3, <1>4, <4>1, <4>2 DEF ApInv, Given
      <4> QED
        BY <1>2, <2>1, <3>1, <4>3 DEF ApInv, ApTypeOK, NewId
    <3>2. CASE main # "prepare"
      BY <1>2, <2>1, <3>2 DEF ApInv, ApTypeOK, NewId
    <3> QED
      BY <3>1, <3>2
  <2>3. ASSUME NEW b \in ApicId \ {a} PROVE rdi[b] # rdi[a] /\ rsp[b] # rsp[a]
    <3>1. rdi[a] # NoId /\ rdi[a] # 0
      BY <1>2, <2>1 DEF ApInv, ApTypeOK, NewId
    <3>2. CASE b = Bsp
      BY <2>1, <3>1, <3>2 DEF ApInv, ApTypeOK
    <3>3. CASE b # Bsp /\ ap[b] \in Inside
      <4>1. rdi[b] # rdi[a]
        <5>1. /\ a \in Before \/ (main \in Mid /\ a = target)
              /\ b \in Before \/ (main \in Mid /\ b = target)
          BY <1>3, <1>4, <3>3, Zenon
        <5> QED
          BY <1>4, <2>3, <3>3, <5>1, Zenon DEF ApInv, Given
      <4>2. rsp[b] = rdi[b]
        BY <3>3, Zenon DEF ApInv, Registers
      <4> QED
        BY <2>1, <4>1, <4>2, Zenon
    <3>4. CASE ap[b] \in {"off", "reset", "ctx"} /\ b # Bsp
      BY <2>1, <3>1, <3>4 DEF ApInv, Registers
    <3>5. CASE ap[b] \in {"stack", "ready"} /\ b # Bsp
      <4>1. b = target /\ main \in Mid
        BY <3>5, OnItsWay, Zenon
      <4>2. rdi[a] # NewId
        BY <1>3, <1>4, <2>3, <4>1 DEF ApInv, Given
      <4> QED
        BY <2>1, <3>1, <3>5, <4>2 DEF ApInv, Registers
    <3> QED
      BY <3>2, <3>3, <3>4, <3>5 DEF ApInv, ApTypeOK
  <2> QED
    BY <2>1, <2>2, <2>3
<1>5. ASSUME main = "done"
      PROVE  /\ Entered = {Madt[i].apic_id : i \in {j \in DOMAIN Madt :
                            Madt[j].lapic /\ Madt[j].enabled}} \ {Bsp}
             /\ {rdi[a] : a \in Entered} = cpu_table \ {0}
  <2>1. main \notin Mid /\ "off" \notin Inside /\ main # "prepare" /\ ptr = Len(Madt) + 1
    BY <1>5 DEF Mid, Launching, Inside, ApInv, ApTypeOK
  <2>2. Entered = Before
    <3>1. \A a \in ApicId : ap[a] \in Inside <=> a \in Before
      BY <2>1 DEF ApInv, Others
    <3> QED
      BY <1>1, <1>2, <3>1, Zenon
  <2>3. Before = {Madt[i].apic_id : i \in {j \in DOMAIN Madt :
                            Madt[j].lapic /\ Madt[j].enabled}} \ {Bsp}
    <3>1. \A j \in DOMAIN Madt : j < ptr
      BY <2>1
    <3> QED
      BY <2>1, <3>1 DEF Before, Seen, Wanted
  <2>4. cpu_table \ {0} = 1 .. NewId
    BY <1>2, <2>1 DEF ApInv, ApTypeOK, NewId
  <2>5. {rdi[a] : a \in Entered} = 1 .. NewId
    <3>1. \A a \in Entered : rdi[a] \in 1 .. NewId
      BY <1>1, <1>4
    <3>2. \A i \in 1 .. NewId : \E a \in Entered : rdi[a] = i
      BY <2>1, <2>2 DEF ApInv, Given
    <3> QED
      BY <3>1, <3>2
  <2> QED
    BY <2>2, <2>3, <2>4, <2>5
<1>6. \A a \in Entered : a \in ApicId /\ ap[a] \in Inside
  BY <1>1
<1> QED
  BY <1>4, <1>5, <1>6, Zenon DEF HandedOver

(* However many CPUs the MADT lists, smp_init hands each its own context    *)
(* and stack through the one configuration block, and when it returns it    *)
(* has started exactly those that are enabled.                              *)
THEOREM Handed == ApSpec => []HandedOver
<1>1. ApSpec => []ApInv
  BY InitAp, NextAp, PTL DEF ApSpec
<1> QED
  BY <1>1, ApSafe, PTL

-----------------------------------------------------------------------------
(* What the search for the lowest zero bit or byte returns. *)
LEMMA LowestIsLeast ==
    ASSUME NEW S, S \subseteq Nat, S # {}
    PROVE  Lowest(S) \in S /\ \A g \in S : Lowest(S) <= g
<1> DEFINE R == OpToRel(<, Nat)
<1>1. \E x \in S : \A y \in S : ~(<<y, x>> \in R)
  <2>1. IsWellFoundedOn(R, Nat)
    BY NatLessThanWellFounded, Zenon
  <2> HIDE DEF R
  <2> QED
    BY <2>1, WFMin, Zenon
<1>2. PICK x \in S : \A y \in S : ~(<<y, x>> \in R)
  BY <1>1, Zenon
<1>3. ASSUME NEW y \in S
      PROVE  x <= y
  <2>1. ~(y < x)
    BY <1>2, Zenon DEF OpToRel
  <2> HIDE DEF R
  <2> QED
    BY <2>1
<1> HIDE DEF R
<1> QED
  BY <1>3, Zenon DEF Lowest

LEMMA FramesAreNatural == Frame \subseteq Nat /\ Byte \subseteq Nat /\ 0 \in Frame
<1>1. bitmap_size * ByteBits >= 1
  BY PmmAssumption, Z3
<1> QED
  BY <1>1, PmmAssumption DEF Frame, Byte

(* The frame and the byte that pmm_alloc_frame takes. *)
LEMMA AllocTakesFree ==
    ASSUME NEW h, Stops(h) # {}
    PROVE  /\ Lowest(Stops(h)) \in Stops(h)
           /\ \A j \in Stops(h) : Lowest(Stops(h)) <= j
           /\ Lowest(FreeIn(Lowest(Stops(h)))) \in Frame \ used
           /\ Lowest(FreeIn(Lowest(Stops(h)))) # 0
<1>1. Lowest(Stops(h)) \in Stops(h) /\ \A j \in Stops(h) : Lowest(Stops(h)) <= j
  <2>1. Stops(h) \subseteq Nat
    BY FramesAreNatural, Zenon DEF Stops
  <2> QED
    BY <2>1, LowestIsLeast
<1> DEFINE i == Lowest(Stops(h))
<1>2. FreeIn(i) # {} /\ Lowest(FreeIn(i)) # 0
  BY <1>1 DEF Stops
<1>3. FreeIn(i) \subseteq Nat /\ FreeIn(i) \subseteq Frame \ used
  BY FramesAreNatural, Zenon DEF FreeIn
<1>4. Lowest(FreeIn(i)) \in FreeIn(i)
  BY <1>2, <1>3, LowestIsLeast
<1> QED
  BY <1>1, <1>2, <1>3, <1>4

LEMMA RunIsFree ==
    ASSUME NEW count, Starts(count) # {}
    PROVE  Run(Lowest(Starts(count)), count) \subseteq Frame \ used
<1>1. Starts(count) \subseteq Nat
  BY FramesAreNatural, Zenon DEF Starts
<1>2. Lowest(Starts(count)) \in Starts(count)
  BY <1>1, LowestIsLeast
<1> QED
  BY <1>2 DEF Starts

LEMMA ByteOfFrame ==
    ASSUME NEW f \in Frame
    PROVE  f \div ByteBits \in Byte
<1>1. f \in Nat /\ f < bitmap_size * ByteBits /\ bitmap_size \in Nat /\ ByteBits \in Nat \ {0}
  BY PmmAssumption DEF Frame
<1> DEFINE q == f \div ByteBits
<1>2. q \in Nat /\ q * ByteBits <= f
  BY <1>1, Z3
<1>3. q < bitmap_size
  BY <1>1, <1>2, Z3
<1> QED
  BY <1>1, <1>2, <1>3 DEF Byte

-----------------------------------------------------------------------------
(* The bitmap is never written outside its frames, and the hints stay      *)
(* inside it, whatever pmm_init was given.                                 *)
THEOREM TypeCorrect == Spec => []TypeOK
<1>1. Init => TypeOK
  BY FramesAreNatural DEF Init, TypeOK
<1>2. TypeOK /\ [Next]_vars => TypeOK'
  <2> SUFFICES ASSUME TypeOK, [Next]_vars PROVE TypeOK'
    OBVIOUS
  <2>1. ASSUME NEW c \in Caller, AllocFrame(c) PROVE TypeOK'
    <3>1. CASE Stops(Hint(c)) = {}
      BY <2>1, <3>1 DEF AllocFrame, TypeOK
    <3>2. CASE Stops(Hint(c)) # {}
      <4> DEFINE i == Lowest(Stops(Hint(c)))
                 f == Lowest(FreeIn(i))
      <4>1. i \in Byte /\ i \in Nat /\ f \in Frame
        BY <3>2, AllocTakesFree, FramesAreNatural, Zenon DEF Stops
      <4>2. used' = used \cup {f} /\ out' = out \cup {f} /\ result' = f
            /\ SetHint(c, i) /\ online' = online
        BY <2>1, <3>2 DEF AllocFrame
      <4> HIDE DEF i, f
      <4> QED
        BY <4>1, <4>2 DEF TypeOK, SetHint
    <3> QED
      BY <3>1, <3>2
  <2>2. ASSUME NEW c \in Caller, NEW count \in 1 .. MaxCount, AllocFrames(c, count)
        PROVE  TypeOK'
    <3>1. Run(Lowest(Starts(count)), count) \subseteq Frame
      BY <2>2, RunIsFree DEF AllocFrames
    <3> QED
      BY <2>2, <3>1 DEF AllocFrames, TypeOK
  <2>3. ASSUME NEW c \in Caller, NEW f \in out, FreeFrame(c, f) PROVE TypeOK'
    <3>1. f \in Frame /\ f \div ByteBits \in Byte /\ f \div ByteBits \in Nat
      BY ByteOfFrame, FramesAreNatural, Zenon DEF TypeOK
    <3>2. online' = online /\ used' = used \ {f} /\ out' = out \ {f} /\ result' = 0
      BY <2>3 DEF FreeFrame
    <3>3. pmm_last_index' = pmm_last_index \/ SetHint(c, f \div ByteBits)
      BY <2>3 DEF FreeFrame
    <3> DEFINE b == f \div ByteBits
    <3> HIDE DEF b
    <3>4. b \in Byte /\ b \in Nat /\ (pmm_last_index' = pmm_last_index \/ SetHint(c, b))
      BY <3>1, <3>3 DEF b
    <3> QED
      BY <3>2, <3>4, FramesAreNatural DEF TypeOK, SetHint
  <2>4. ASSUME NEW c \in Cpu, InitCpu(c) PROVE TypeOK'
    <3>1. Overwritten \subseteq Frame
      BY DEF Overwritten, BitsIn
    <3> QED
      BY <2>4, <3>1 DEF InitCpu, TypeOK
  <2>5. CASE UNCHANGED vars
    BY <2>5 DEF vars, TypeOK
  <2> QED
    BY <2>1, <2>2, <2>3, <2>4, <2>5 DEF Next
<1> QED
  BY <1>1, <1>2, PTL DEF Spec

-----------------------------------------------------------------------------
(* The bitmap is out of the way of the frames that smp_init_cpu writes. *)
BitmapApart == FixedFrames \cap BitmapFrames = {}

LEMMA NothingOverwritten == BitmapApart => Overwritten = {}
BY DEF BitmapApart, Overwritten, BitsIn

(* pmm.c: when the bitmap does not lie in a frame that smp_init_cpu writes, *)
(* only usable memory outside the first 1 MB, the kernel and the bitmap is *)
(* ever free or handed out, and what is handed out stays marked.           *)
THEOREM Accounted == BitmapApart => (Spec => []FramesAccounted)
<1> SUFFICES ASSUME BitmapApart PROVE Spec => []FramesAccounted
  OBVIOUS
<1>1. Init => FramesAccounted
  BY DEF Init, FramesAccounted
<1>2. TypeOK /\ FramesAccounted /\ [Next]_vars => FramesAccounted'
  <2> SUFFICES ASSUME TypeOK, FramesAccounted, [Next]_vars PROVE FramesAccounted'
    OBVIOUS
  <2>1. ASSUME NEW c \in Caller, AllocFrame(c) PROVE FramesAccounted'
    <3>1. CASE Stops(Hint(c)) = {}
      BY <2>1, <3>1 DEF AllocFrame, FramesAccounted
    <3>2. CASE Stops(Hint(c)) # {}
      <4> DEFINE f == Lowest(FreeIn(Lowest(Stops(Hint(c)))))
      <4>1. f \in Frame \ used
        BY <3>2, AllocTakesFree
      <4>2. used' = used \cup {f} /\ out' = out \cup {f}
        BY <2>1, <3>2 DEF AllocFrame
      <4> HIDE DEF f
      <4> QED
        BY <4>1, <4>2 DEF FramesAccounted
    <3> QED
      BY <3>1, <3>2
  <2>2. ASSUME NEW c \in Caller, NEW count \in 1 .. MaxCount, AllocFrames(c, count)
        PROVE  FramesAccounted'
    <3> DEFINE S == Run(Lowest(Starts(count)), count)
    <3>1. S \subseteq Frame \ used
      BY <2>2, RunIsFree DEF AllocFrames
    <3>2. used' = used \cup S /\ out' = out \cup S
      BY <2>2 DEF AllocFrames
    <3> HIDE DEF S
    <3> QED
      BY <3>1, <3>2 DEF FramesAccounted
  <2>3. ASSUME NEW c \in Caller, NEW f \in out, FreeFrame(c, f) PROVE FramesAccounted'
    BY <2>3 DEF FreeFrame, FramesAccounted
  <2>4. ASSUME NEW c \in Cpu, InitCpu(c) PROVE FramesAccounted'
    <3>1. used' = used /\ out' = out
      BY <2>4, NothingOverwritten DEF InitCpu
    <3> QED
      BY <3>1 DEF FramesAccounted
  <2>5. CASE UNCHANGED vars
    BY <2>5 DEF vars, FramesAccounted
  <2> QED
    BY <2>1, <2>2, <2>3, <2>4, <2>5 DEF Next
<1> QED
  BY <1>1, <1>2, TypeCorrect, PTL DEF Spec

(* Under the same condition the manager implements FrameSource: no frame   *)
(* is handed out again before pmm_free_frame.                              *)
THEOREM Implements == BitmapApart => (Spec => ImplementsFrameSource)
<1> SUFFICES ASSUME BitmapApart PROVE Spec => ImplementsFrameSource
  OBVIOUS
<1>1. Init => Source!Init
  BY DEF Init, Source!Init
<1>2. TypeOK /\ FramesAccounted /\ [Next]_vars => [Source!Next]_Source!vars
  <2> SUFFICES ASSUME TypeOK, FramesAccounted, [Next]_vars
               PROVE  [Source!Next]_Source!vars
    OBVIOUS
  <2> USE DEF Source!vars
  <2>1. ASSUME NEW S, S \subseteq Frame \ used, used' = used \cup S, out' = out \cup S
        PROVE  Source!Next
    <3>1. S \in SUBSET (Frame \ used) /\ S \cap out = {}
      BY <2>1 DEF FramesAccounted
    <3>2. Source!Take(S)
      BY <2>1, <3>1 DEF Source!Take
    <3> QED
      BY <3>1, <3>2 DEF Source!Next
  <2>2. ASSUME NEW c \in Caller, AllocFrame(c) PROVE [Source!Next]_Source!vars
    <3>1. CASE Stops(Hint(c)) = {}
      BY <2>2, <3>1 DEF AllocFrame
    <3>2. CASE Stops(Hint(c)) # {}
      <4> DEFINE f == Lowest(FreeIn(Lowest(Stops(Hint(c)))))
      <4>1. f \in Frame \ used
        BY <3>2, AllocTakesFree
      <4>2. used' = used \cup {f} /\ out' = out \cup {f}
        BY <2>2, <3>2 DEF AllocFrame
      <4> HIDE DEF f
      <4> QED
        BY <2>1, <4>1, <4>2, Zenon
    <3> QED
      BY <3>1, <3>2
  <2>3. ASSUME NEW c \in Caller, NEW count \in 1 .. MaxCount, AllocFrames(c, count)
        PROVE  [Source!Next]_Source!vars
    <3> DEFINE S == Run(Lowest(Starts(count)), count)
    <3>1. S \subseteq Frame \ used
      BY <2>3, RunIsFree DEF AllocFrames
    <3>2. used' = used \cup S /\ out' = out \cup S
      BY <2>3 DEF AllocFrames
    <3> HIDE DEF S
    <3> QED
      BY <2>1, <3>1, <3>2
  <2>4. ASSUME NEW c \in Caller, NEW f \in out, FreeFrame(c, f) PROVE Source!Next
    <3>1. f \in Frame /\ used' = used \ {f} /\ out' = out \ {f}
      BY <2>4 DEF FreeFrame, TypeOK
    <3>2. Source!Give(f)
      BY <3>1 DEF Source!Give
    <3> QED
      BY <3>1, <3>2 DEF Source!Next
  <2>5. ASSUME NEW c \in Cpu, InitCpu(c) PROVE [Source!Next]_Source!vars
    <3>1. used' = used /\ out' = out
      BY <2>5, NothingOverwritten DEF InitCpu
    <3> QED
      BY <3>1
  <2>6. CASE UNCHANGED vars
    BY <2>6 DEF vars
  <2> QED
    BY <2>2, <2>3, <2>4, <2>5, <2>6 DEF Next
<1> QED
  BY <1>1, <1>2, TypeCorrect, Accounted, PTL DEF Spec, ImplementsFrameSource, Source!Spec

-----------------------------------------------------------------------------
(* While one CPU runs its hint is a lower bound: no frame below it is free. *)
(* Frame 0, which the search cannot return, is never free.                 *)
Hints ==
    /\ 0 \in used /\ 0 \notin out
    /\ \A c \in Cpu \ online : pmm_last_index[c] = 0
    /\ \A c \in Cpu : \A f \in Frame \ used : f \div ByteBits >= pmm_last_index[c]
    /\ result = NULL => used = Frame

HintInv == Alone => Hints

LEMMA BytesAreNatural ==
    ASSUME NEW f \in Frame
    PROVE  f \div ByteBits \in Nat
BY ByteOfFrame, FramesAreNatural, Zenon

(* A search that starts at or below every free frame finds one. *)
LEMMA SearchFinds ==
    ASSUME NEW h \in Nat, 0 \in used, NEW f \in Frame \ used, f \div ByteBits >= h
    PROVE  f \div ByteBits \in Stops(h)
<1> DEFINE i == f \div ByteBits
<1>1. i \in Byte
  BY ByteOfFrame
<1>2. f \in FreeIn(i) /\ FreeIn(i) \subseteq Nat /\ FreeIn(i) \cap used = {}
  BY FramesAreNatural, Zenon DEF FreeIn
<1>3. Lowest(FreeIn(i)) \in FreeIn(i)
  BY <1>2, LowestIsLeast
<1> HIDE DEF i
<1>4. FreeIn(i) # {} /\ Lowest(FreeIn(i)) # 0
  BY <1>2, <1>3
<1>5. i >= h
  BY DEF i
<1> QED
  BY <1>1, <1>4, <1>5 DEF Stops, i

(* Until a second CPU is up pmm_alloc_frame fails only when every frame is *)
(* in use: the per-CPU hint loses nothing.                                 *)
THEOREM HintSound == Spec => []OutOfMemoryIsReal
<1>1. Init => HintInv
  <2> SUFFICES ASSUME Init PROVE Hints
    BY DEF HintInv
  <2>1. 0 \in Locked
    BY PmmAssumption DEF Locked
  <2>2. 0 \in used
    BY <2>1, FramesAreNatural DEF Init
  <2>3. ASSUME NEW c \in Cpu, NEW f \in Frame \ used PROVE f \div ByteBits >= pmm_last_index[c]
    <3>1. pmm_last_index[c] = 0
      BY DEF Init
    <3>2. f \div ByteBits \in Nat
      BY BytesAreNatural
    <3> QED
      BY <3>1, <3>2
  <2>4. result # NULL
    BY PmmAssumption, FramesAreNatural DEF Init
  <2> QED
    BY <2>2, <2>3, <2>4 DEF Hints, Init
<1>2. TypeOK /\ HintInv /\ [Next]_vars => HintInv'
  <2> SUFFICES ASSUME TypeOK, HintInv, [Next]_vars, Alone' PROVE Hints'
    BY DEF HintInv
  <2>0. ASSUME online' = online PROVE Alone /\ Hints
    BY <2>0 DEF Alone, HintInv
  <2>1. ASSUME NEW c \in Caller, AllocFrame(c) PROVE Hints'
    <3> online' = online
      BY <2>1 DEF AllocFrame
    <3> Alone /\ Hints
      BY <2>0
    <3>0. Hint(c) \in Nat /\ \A f \in Frame \ used : f \div ByteBits >= Hint(c)
      BY BytesAreNatural DEF Hint, TypeOK, Hints
    <3>1. CASE Stops(Hint(c)) = {}
      <4>1. Frame \ used = {}
        BY <3>0, <3>1, SearchFinds DEF Hints
      <4>2. UNCHANGED <<used, out, pmm_last_index, online>>
        BY <2>1, <3>1 DEF AllocFrame
      <4> QED
        BY <4>1, <4>2 DEF Hints, TypeOK
    <3>2. CASE Stops(Hint(c)) # {}
      <4> DEFINE i == Lowest(Stops(Hint(c)))
                 f == Lowest(FreeIn(i))
      <4>1. f \in Frame \ used /\ f # 0 /\ \A j \in Stops(Hint(c)) : i <= j
        BY <3>2, AllocTakesFree
      <4>2. \A g \in Frame \ used : g \div ByteBits >= i
        <5>1. ASSUME NEW g \in Frame \ used PROVE g \div ByteBits >= i
          <6>1. g \div ByteBits \in Stops(Hint(c))
            BY <3>0, SearchFinds DEF Hints
          <6>2. i \in Nat /\ g \div ByteBits \in Nat
            BY <3>2, AllocTakesFree, FramesAreNatural, BytesAreNatural, Zenon DEF Stops
          <6> QED
            BY <4>1, <6>1, <6>2
        <5> QED
          BY <5>1
      <4>3. used' = used \cup {f} /\ out' = out \cup {f} /\ result' = f /\ SetHint(c, i)
        BY <2>1, <3>2 DEF AllocFrame
      <4> HIDE DEF i, f
      <4>4. \A d \in Cpu : pmm_last_index'[d] \in {pmm_last_index[d], i}
        BY <4>3 DEF SetHint, TypeOK
      <4>5. ASSUME NEW d \in Cpu, NEW g \in Frame \ used'
            PROVE  g \div ByteBits >= pmm_last_index'[d]
        BY <4>2, <4>3, <4>4 DEF Hints
      <4>6. result' # NULL
        BY <4>1, <4>3, PmmAssumption
      <4>7. ASSUME NEW d \in Cpu \ online' PROVE pmm_last_index'[d] = 0
        <5>1. c # d
          BY <4>7, PmmAssumption DEF Caller
        <5> QED
          BY <4>3, <4>7, <5>1 DEF SetHint, TypeOK, Hints
      <4> QED
        BY <4>1, <4>3, <4>5, <4>6, <4>7 DEF Hints
    <3> QED
      BY <3>1, <3>2
  <2>2. ASSUME NEW c \in Caller, NEW count \in 1 .. MaxCount, AllocFrames(c, count)
        PROVE  Hints'
    <3> DEFINE S == Run(Lowest(Starts(count)), count)
    <3>1. S \subseteq Frame \ used
      BY <2>2, RunIsFree DEF AllocFrames
    <3>2. used' = used \cup S /\ out' = out \cup S
          /\ UNCHANGED <<pmm_last_index, online, result>>
      BY <2>2 DEF AllocFrames
    <3> HIDE DEF S
    <3>3. Hints
      BY <2>0, <3>2
    <3>4. ASSUME NEW d \in Cpu, NEW g \in Frame \ used'
          PROVE  g \div ByteBits >= pmm_last_index'[d]
      BY <3>2, <3>3 DEF Hints
    <3> QED
      BY <3>1, <3>2, <3>3, <3>4 DEF Hints
  <2>3. ASSUME NEW c \in Caller, NEW f \in out, FreeFrame(c, f) PROVE Hints'
    <3>1. used' = used \ {f} /\ out' = out \ {f} /\ result' = 0 /\ online' = online
      BY <2>3 DEF FreeFrame
    <3> Alone /\ Hints
      BY <2>0, <3>1
    <3>2. f \in Frame /\ f # 0
      BY DEF Hints, TypeOK
    <3>3. ASSUME NEW d \in Cpu
          PROVE  /\ pmm_last_index'[d] <= pmm_last_index[d]
                 /\ pmm_last_index'[d] <= f \div ByteBits
                 /\ pmm_last_index'[d] \in Nat
      <4>1. f \div ByteBits \in Nat /\ pmm_last_index[d] \in Nat
        BY <3>2, BytesAreNatural DEF TypeOK
      <4>2. CASE c = d
        <5>1. Hint(c) = pmm_last_index[d]
          BY <4>2 DEF Hint
        <5>2. IF f \div ByteBits < pmm_last_index[d]
              THEN pmm_last_index' = [pmm_last_index EXCEPT ![d] = f \div ByteBits]
              ELSE pmm_last_index' = pmm_last_index
          BY <2>3, <4>2, <5>1 DEF FreeFrame, SetHint
        <5> QED
          BY <4>1, <5>2 DEF TypeOK
      <4>3. CASE c # d
        <5>1. d \notin online
          BY <4>3 DEF Caller, Alone
        <5>2. pmm_last_index[d] = 0
          BY <5>1 DEF Hints
        <5>3. pmm_last_index'[d] = pmm_last_index[d]
          BY <2>3, <4>3 DEF FreeFrame, SetHint, TypeOK
        <5>4. \A n \in Nat : 0 <= n
          OBVIOUS
        <5> QED
          BY <4>1, <5>2, <5>3, <5>4, Zenon
      <4> QED
        BY <4>2, <4>3
    <3>4. ASSUME NEW d \in Cpu, NEW g \in Frame \ used'
          PROVE  g \div ByteBits >= pmm_last_index'[d]
      <4>1. g \div ByteBits \in Nat /\ pmm_last_index[d] \in Nat
        BY BytesAreNatural DEF TypeOK
      <4>2. CASE g = f
        BY <3>3, <4>1, <4>2
      <4>3. CASE g \in Frame \ used
        BY <3>3, <4>1, <4>3 DEF Hints
      <4> QED
        BY <3>1, <4>2, <4>3
    <3>5. ASSUME NEW d \in Cpu \ online' PROVE pmm_last_index'[d] = 0
      <4>1. pmm_last_index[d] = 0
        BY <3>1, <3>5 DEF Hints
      <4> QED
        BY <3>3, <4>1
    <3>6. result' # NULL
      BY <3>1, PmmAssumption, FramesAreNatural
    <3> QED
      BY <3>1, <3>2, <3>4, <3>5, <3>6 DEF Hints
  <2>4. ASSUME NEW c \in Cpu, InitCpu(c) PROVE Hints'
    <3>1. online = {}
      BY <2>4 DEF InitCpu, Alone
    <3>2. used' = used /\ out' = out /\ result' = result
      BY <2>4, <3>1 DEF InitCpu, Overwritten
    <3>3. Hints
      BY <3>1 DEF Alone, HintInv
    <3>4. ASSUME NEW d \in Cpu PROVE pmm_last_index'[d] = 0
      BY <2>4, <3>1, <3>3 DEF InitCpu, TypeOK, Hints
    <3>5. ASSUME NEW d \in Cpu, NEW g \in Frame \ used'
          PROVE  g \div ByteBits >= pmm_last_index'[d]
      BY <3>4, BytesAreNatural
    <3> QED
      BY <3>2, <3>3, <3>4, <3>5 DEF Hints
  <2>5. CASE UNCHANGED vars
    <3>1. online' = online /\ (Hints' <=> Hints)
      BY <2>5 DEF vars, Hints
    <3> QED
      BY <2>0, <3>1
  <2> QED
    BY <2>1, <2>2, <2>3, <2>4, <2>5 DEF Next
<1>3. HintInv => OutOfMemoryIsReal
  BY DEF HintInv, Hints, OutOfMemoryIsReal
<1> QED
  BY <1>1, <1>2, <1>3, TypeCorrect, PTL DEF Spec

-----------------------------------------------------------------------------
(* The loader. *)

Keeps == {"get", "exit", "kernel"}  \* the steps that have a buffer

(* What the loader has allocated is its own: nobody else changes the type   *)
(* of such a page, and it changes only that of the buffer, which is neither *)
(* in the image, in the ramdisk nor in the stack.                           *)
Owns ==
    /\ mem \in [Page -> Types]
    /\ \A p \in kernel : p \in Page /\ mem[p] = "loader_code"
    /\ \A p \in ramdisk : p \in Page /\ mem[p] = "loader_data"
    /\ pc \in Keeps => buffer \in Page \ ramdisk /\ mem[buffer] = "loader_data"
    /\ FirstMap[Stack] \notin {"conventional", "boot_data"} =>
          mem[Stack] = FirstMap[Stack] /\ buffer # Stack

(* A key that is valid is that of the map which the loader has. *)
KeySound ==
    /\ key_valid \in BOOLEAN
    /\ key_valid => /\ mmap = mem /\ mmap_size = Descriptors(mem)
                    /\ pc \in {"exit", "kernel"}
    /\ pc = "kernel" => key_valid

BootInv == Owns /\ KeySound

LEMMA InitBoot == BootInit => BootInv
  BY BootAssumption, Zenon DEF BootInit, BootInv, Owns, KeySound, Keeps

(* A page that was free and is the loader's now. *)
LEMMA RetypeStep ==
    ASSUME Owns, NEW S, NEW type \in Types, Free(S), Retype(S, type)
    PROVE  /\ mem' \in [Page -> Types] /\ S \subseteq Page
           /\ \A p \in S : mem'[p] = type /\ p \notin kernel /\ p \notin ramdisk
           /\ \A p \in Page \ S : mem'[p] = mem[p]
           /\ FirstMap[Stack] \notin {"conventional", "boot_data"} => Stack \notin S
  BY DEF Owns, Free, Retype

LEMMA NextBoot == BootInv /\ [BootNext]_bootvars => BootInv'
<1> SUFFICES ASSUME BootInv, [BootNext]_bootvars PROVE BootInv'
  OBVIOUS
<1> USE BootAssumption
<1>1. CASE AllocateImage
  <2> DEFINE S == KernelPage .. KernelPage + ImagePages - 1
  <2>1. Free(S) /\ Retype(S, "loader_code") /\ kernel' = S
    BY <1>1 DEF AllocateImage
  <2> HIDE DEF S
  <2>2. Owns'
    BY <1>1, <2>1, RetypeStep, Zenon DEF AllocateImage, BootInv, Owns, Keeps, Types
  <2> QED
    BY <1>1, <2>2, Zenon DEF AllocateImage, BootInv, KeySound
<1>2. CASE LoadSegment
  BY <1>2, Zenon DEF LoadSegment, BootInv, Owns, KeySound, map
<1>3. CASE LoadRamdisk
  <2>1. PICK S : Free(S) /\ ramdisk' = S /\ Retype(S, "loader_data")
    BY <1>3 DEF LoadRamdisk
  <2>2. Owns'
    BY <1>3, <2>1, RetypeStep, Zenon DEF LoadRamdisk, BootInv, Owns, Keeps, Types
  <2> QED
    BY <1>3, <2>2, Zenon DEF LoadRamdisk, BootInv, KeySound
<1>4. CASE Probe
  BY <1>4 DEF Probe, BootInv, Owns, KeySound, loaded, Keeps
<1>5. CASE AllocateMap
  <2>1. PICK p \in Page : Free({p}) /\ buffer' = p /\ Retype({p}, "loader_data")
    BY <1>5 DEF AllocateMap
  <2>2. Owns'
    BY <1>5, <2>1, RetypeStep DEF AllocateMap, BootInv, Owns, Keeps, Types, loaded
  <2> QED
    BY <1>5, <2>2, Zenon DEF AllocateMap, BootInv, KeySound
<1>6. CASE GetMap
  <2>1. Owns'
    BY <1>6 DEF GetMap, BootInv, Owns, loaded, Keeps
  <2> QED
    BY <1>6, <2>1 DEF GetMap, BootInv, KeySound
<1>7. ASSUME pc \in {"get", "exit"}, NEW size, Reallocate(size) PROVE BootInv'
  <2>1. Owns'
    BY <1>7 DEF Reallocate, Retype, BootInv, Owns, Keeps, loaded, Types
  <2> QED
    BY <1>7, <2>1, Zenon DEF Reallocate, BootInv, KeySound
<1>8. CASE TooSmall
  BY <1>7, <1>8 DEF TooSmall
<1>9. CASE Exit
  BY <1>9 DEF Exit, BootInv, Owns, KeySound, loaded, map, Keeps
<1>10. CASE ExitFails
  BY <1>7, <1>10 DEF ExitFails
<1>11. ASSUME NEW at \in {"open", "segments", "probe", "allocate"}, Panic(at) PROVE BootInv'
  BY <1>11 DEF Panic, BootInv, Owns, KeySound, loaded, map, Keeps
<1>12. CASE Firmware
  <2>1. Owns'
    BY <1>12 DEF Firmware, Retype, BootInv, Owns, Keeps, loaded, Types
  <2> QED
    BY <1>12, <2>1, Zenon DEF Firmware, BootInv, KeySound
<1>13. CASE UNCHANGED bootvars
  BY <1>13 DEF bootvars, loaded, map, BootInv, Owns, KeySound
<1> QED
  BY <1>1, <1>2, <1>3, <1>4, <1>5, <1>6, <1>8, <1>9, <1>10, <1>11, <1>12, <1>13
     DEF BootNext, Loader

(* The kernel starts with a true map, and neither its image, the ramdisk,   *)
(* the map nor BootInfo (when the stack is not boot services data) is in    *)
(* what pmm_init takes for free, for any machine and any firmware.          *)
THEOREM MapTrue == BootInit /\ [][BootNext]_bootvars => []MapIsTrue
<1>1. BootInv => MapIsTrue
  BY BootAssumption DEF BootInv, Owns, KeySound, MapIsTrue, Unlocked, Keeps
<1> QED
  BY <1>1, InitBoot, NextBoot, PTL
=============================================================================
