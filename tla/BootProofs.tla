----------------------------- MODULE BootProofs -----------------------------
(***************************************************************************)
(* Proofs about the start of the other CPUs, for every number of CPUs,     *)
(* every size of a stack and every machine: BootInv is an invariant, and   *)
(* StacksPrivate, SchedulesLast and LapicExact follow from it.             *)
(***************************************************************************)
EXTENDS Boot, TLAPS, FiniteSetTheorems

LEMMA Numbers ==
  /\ NHW \in Nat \ {0} /\ NCPU \in Nat \ {0} /\ NCPU <= NHW
  /\ 0 \in Cpus /\ Cpus = 0 .. NHW - 1 /\ 0 .. NCPU - 1 \subseteq Cpus
  /\ None \notin Nat /\ NoCpu = None /\ NoCpu \notin Cpus
<1>1. NCPU \in Nat \ {0}
  BY BootMemAssumption
<1>2. NHW \in Nat /\ NHW >= NCPU
  BY BootAssumption
<1> QED BY <1>1, <1>2 DEF Cpus, None, NoCpu

LEMMA CpuSet == 0 \in Cpus /\ Cpus \subseteq Nat
BY Numbers

LEMMA Counts ==
  ASSUME TableInv
  PROVE  /\ ncpu \in Nat /\ c \in Nat /\ ncpu <= NCPU
         /\ \A h \in 0 .. ncpu - 1 : h \in Cpus
<1>1. ncpu \in 0 .. NCPU /\ c \in 0 .. NCPU
  BY DEF TableInv
<1> QED BY ONLY <1>1, Numbers

LEMMA NoneIsNot == None \notin Nat /\ NoCpu # 0
BY Numbers

LEMMA Addresses ==
  /\ MMIOBASE \in Nat /\ MMIOBASE > 0
  /\ LAPIC \in Nat /\ LAPIC # 0
  /\ \A h \in 0 .. NCPU - 1 : MMIOBASE + 3 + h \in Virtual
<1>1. NPT \in Nat \ {0} /\ KWIN \in Nat \ {0} /\ NCPU \in Nat /\ NCPU + 3 <= NPT
  BY BootMemAssumption
<1>2. KWIN * NPT \in Nat
  BY <1>1
<1>3. MMIOBASE \in Nat /\ MMIOBASE > 0
  BY <1>1 DEF MMIOBASE
<1>4. ASSUME NEW h \in 0 .. NCPU - 1
      PROVE  MMIOBASE + 3 + h \in Virtual
  <2> DEFINE window == KWIN * NPT
  <2>1. window \in Nat
    BY <1>2
  <2> HIDE DEF window
  <2>2. MMIOBASE + 3 + h \in 0 .. KERNBASE + window - 1
    BY <1>1, <2>1 DEF MMIOBASE, KERNBASE
  <2> QED BY <2>2 DEF Virtual, window
<1> QED BY <1>3, <1>4, BootMemAssumption DEF LAPIC

(* The stacks of the CPUs are apart from each other and from the boot      *)
(* stack.                                                                  *)
LEMMA StacksApart ==
  /\ Stack(bootstack) # None
  /\ \A g \in Nat : /\ Stack(percpu_kstacks(g)) # None
                    /\ Stack(percpu_kstacks(g)) # Stack(bootstack)
                    /\ \A h \in Nat : g # h =>
                         Stack(percpu_kstacks(g)) # Stack(percpu_kstacks(h))
<1>1. KSTK \in Nat \ {0} /\ NPT \in Nat /\ EXTPHYSMEM \in Nat
  BY BootMemAssumption
<1>2. \A g \in Nat : g * KSTK \in Nat
  BY <1>1
<1>3. ASSUME NEW g \in Nat, NEW h \in Nat, g < h
      PROVE  g * KSTK < h * KSTK
  <2>1. PICK d \in Nat \ {0} : h = g + d
    <3>1. h - g \in Nat \ {0} /\ h = g + (h - g)
      BY <1>3
    <3> QED BY <3>1
  <2>2. h * KSTK = g * KSTK + d * KSTK
    BY <1>1, <2>1
  <2>3. d * KSTK > 0
    BY <1>1, <2>1
  <2> QED BY <1>1, <1>2, <2>2, <2>3
<1>4. \A g \in Nat : \A h \in Nat : g # h => g * KSTK # h * KSTK
  BY <1>2, <1>3
<1> DEFINE top(g) == g * KSTK
<1>5. \A g \in Nat : top(g) \in Nat /\ \A h \in Nat : g # h => top(g) # top(h)
  BY <1>2, <1>4
<1>6. \A g \in Nat : percpu_kstacks(g) = bootstack + KSTK + top(g)
  BY DEF percpu_kstacks
<1> HIDE DEF top
<1> DEFINE low == KERNBASE + bootstack + KSTK - 1
<1>7. low \in Nat /\ Stack(bootstack) = low
  BY <1>1 DEF Stack, KERNBASE, bootstack
<1>8. \A g \in Nat : Stack(percpu_kstacks(g)) = low + KSTK + top(g)
  BY <1>1, <1>5, <1>6 DEF Stack, KERNBASE, bootstack
<1> HIDE DEF low
<1>9. \A g \in Nat : low + KSTK + top(g) \in Nat /\ low + KSTK + top(g) # low
  BY <1>1, <1>5, <1>7
<1>10. \A g \in Nat : \A h \in Nat : g # h => low + KSTK + top(g) # low + KSTK + top(h)
  BY <1>1, <1>5, <1>7
<1> QED BY <1>7, <1>8, <1>9, <1>10, Numbers

-----------------------------------------------------------------------------
LEMMA MmioBase == MMIOBASE \in Nat /\ MMIOBASE > 0 /\ LAPIC # 0
BY Addresses

LEMMA InitInv == Init => BootInv
<1> SUFFICES ASSUME Init PROVE BootInv
  OBVIOUS
<1> USE Numbers, Addresses
<1>1. TableInv
  BY DEF Init, MemInit, TableInv, Untested, Tested, Stopped, AfterMp, AfterLapic, Locked
<1>2. StartInv
  <2>1. \A h \in Cpus \ {0} : CpuInv(h)
    BY DEF Init, MemInit, CpuInv, Phase
  <2> QED BY <2>1 DEF Init, MemInit, StartInv
<1>3. MmioInv
  <2>1. \A h \in Cpus : MmioCpu(h)
    BY DEF Init, MemInit, MmioCpu, AfterLapic, Queued
  <2> QED BY <2>1 DEF Init, MemInit, MmioInv, Untested, Stopped, AfterLapic
<1> QED BY <1>1, <1>2, <1>3 DEF BootInv

(* What mem_init does with base: a self-test takes three pages of MMIO     *)
(* space, once.                                                            *)
LEMMA MemStep ==
  ASSUME MemNext
  PROVE  /\ \/ bsp \in Untested /\ bsp' \in Untested \cup Stopped /\ base' = base
            \/ bsp \in Untested /\ bsp' \in Tested /\ base' = base + 3
            \/ bsp \in Tested /\ bsp' \in Tested \cup Stopped /\ base' = base
         /\ DOMAIN pte' = DOMAIN pte
<1> USE DEF Untested, Tested, Stopped, spaceVars
<1>1. CASE Detect
  BY <1>1 DEF Detect
<1>2. CASE BootAlloc
  BY <1>2 DEF BootAlloc, boot_alloc
<1>3. CASE PageInit \/ PageInitBase \/ PageInitSkipsHole
  BY <1>3 DEF PageInit, PageInitBase, PageInitSkipsHole
<1>4. CASE PageInitExt \/ PageInitEnds
  BY <1>4 DEF PageInitExt, PageInitEnds, memVars
<1>5. CASE CheckList
  BY <1>5 DEF CheckList
<1>6. CASE CheckAlloc
  BY <1>6 DEF CheckAlloc, memVars
<1>7. CASE CheckPage
  BY <1>7 DEF CheckPage
<1>8. CASE CheckInstalled
  BY <1>8 DEF CheckInstalled
<1>9. CASE MapTable
  BY <1>9 DEF MapTable
<1>10. CASE MapEntry
  BY <1>10 DEF MapEntry
<1>11. CASE MapNext \/ CheckKern
  BY <1>11 DEF MapNext, CheckKern, memVars
<1> QED BY <1>1, <1>2, <1>3, <1>4, <1>5, <1>6, <1>7, <1>8, <1>9, <1>10, <1>11
        DEF MemNext

-----------------------------------------------------------------------------
(* The steps of the boot processor up to lapic_init: the other CPUs are    *)
(* halted.                                                                 *)
LEMMA CpuKept ==
  ASSUME NEW g \in Cpus, CpuInv(g), UNCHANGED <<c, mpentry_kstack>>,
         pc'[g] = pc[g], esp'[g] = esp[g], cpu_status'[g] = cpu_status[g],
         bsp' = "wait" <=> bsp = "wait", bsp = "running" => bsp' = "running"
  PROVE  CpuInv(g)'
<1>1. Phase(g)'
  BY DEF CpuInv, Phase
<1> QED BY <1>1 DEF CpuInv

(* What is left of StartInv when the other CPUs do not move, and while     *)
(* none of them has been started.                                          *)
LEMMA StartKept ==
  ASSUME StartInv, UNCHANGED <<pc, esp, ts_esp0, cpu_status, c, mpentry_kstack>>,
         bsp' = "wait" <=> bsp = "wait", bsp = "running" => bsp' = "running"
  PROVE  StartInv'
BY CpuKept DEF StartInv

LEMMA Quiet ==
  ASSUME BootInv, c = 0
  PROVE  \A h \in Cpus \ {0} : /\ pc[h] = "halted" /\ cpu_status[h] = "CPU_UNUSED"
                               /\ saved[h] = None
<1> SUFFICES ASSUME NEW h \in Cpus \ {0}
             PROVE  pc[h] = "halted" /\ cpu_status[h] = "CPU_UNUSED" /\ saved[h] = None
  OBVIOUS
<1>1. h > 0 /\ h \in Nat
  BY Numbers
<1>2. pc[h] = "halted" /\ cpu_status[h] = "CPU_UNUSED"
  <2>1. Phase(h)
    BY DEF BootInv, StartInv, CpuInv
  <2> QED BY ONLY c = 0, <1>1, <2>1 DEF Phase
<1>3. saved[h] = None
  BY <1>2 DEF BootInv, MmioInv, MmioCpu, Queued
<1> QED BY <1>2, <1>3

LEMMA MemKeeps ==
  ASSUME BootInv, MemNext, UNCHANGED smpVars
  PROVE  BootInv'
<1> USE DEF BootInv
<1>1. UNCHANGED <<pc, cr3, esp, ts_esp0, entry, ismp, ncpu, lapicaddr, cpu_status,
                  code, c, mpentry_kstack, lapic, saved, lock, created>>
  BY DEF smpVars, cpuVars, mpVars, apVars, lapicVars
<1>2. bsp \in Untested \cup Tested /\ bsp' \in Untested \cup Tested \cup Stopped
  BY MemStep
<1>3. TableInv'
  BY <1>1, <1>2 DEF TableInv, Untested, Tested, Stopped, AfterMp, AfterLapic, Locked
<1>4. StartInv'
  BY <1>1, <1>2, StartKept DEF Untested, Tested, Stopped
<1>5. \A h \in Cpus : saved[h] = None /\ pc[h] = "halted" /\ ~Reserving(h)
  <2>1. c = 0 /\ bsp # "lapic"
    BY <1>2 DEF TableInv, Untested, Tested
  <2>2. saved[0] = None /\ pc[0] = "halted"
    BY <1>2, CpuSet DEF StartInv, MmioInv, MmioCpu, Untested, Tested, AfterLapic
  <2> QED BY <2>1, <2>2, Quiet DEF Reserving
<1>6. lapic = 0
  BY <1>5 DEF MmioInv
<1>7. MmioInv'
  <2>1. bsp' \in Untested => base' = MMIOBASE
    BY MemStep DEF MmioInv, Untested, Tested, Stopped
  <2>2. bsp \in Tested => base = MMIOBASE + 3
    <3>1. bsp \in Tested => base \in MMIOBASE + 3 .. MMIOBASE + 3 + NHW
                            /\ ~(MMIOBASE + 3 + 0 < base)
      BY <1>5, CpuSet DEF MmioInv, Untested, Tested, Stopped
    <3> QED BY <3>1, MmioBase
  <2>3. bsp' \in Tested => base' = MMIOBASE + 3
    BY <2>2, MemStep DEF MmioInv, Untested, Tested, Stopped
  <2>4. bsp' \in Stopped => base' \in {MMIOBASE, MMIOBASE + 3}
    BY <2>2, MemStep DEF MmioInv, Untested, Tested, Stopped
  <2>5. DOMAIN pte' = Virtual
    BY MemStep DEF MmioInv
  <2>6. \A h \in Cpus : ~(MMIOBASE + 3 + h < MMIOBASE + 3)
    BY CpuSet, MmioBase
  <2>7. MMIOBASE + 3 \in MMIOBASE + 3 .. MMIOBASE + 3 + NHW
    BY MmioBase, Numbers
  <2>8. \A h \in Cpus : MmioCpu(h)'
    BY <1>1, <1>2, <1>5 DEF MmioCpu, Untested, Tested, Stopped, AfterLapic, Queued
  <2>9. bsp' \notin AfterLapic /\ (bsp' \notin Untested \cup Stopped => bsp' \in Tested)
    BY <1>2 DEF Untested, Tested, Stopped, AfterLapic
  <2> QED BY <1>1, <1>5, <1>6, <2>1, <2>3, <2>4, <2>5, <2>6, <2>7, <2>8, <2>9 DEF MmioInv
<1> QED BY <1>3, <1>4, <1>7

(* A step within mem_init or before lapic_init that leaves memory, the     *)
(* local APIC, the other CPUs and boot_aps alone keeps MmioInv.            *)
LEMMA MmioKept ==
  ASSUME MmioInv, TableInv, UNCHANGED <<pc, base, pte, lapic, saved>>,
         bsp \notin AfterLapic \cup {"lapic"}, bsp' \notin AfterLapic \cup {"lapic"},
         bsp \in Untested <=> bsp' \in Untested,
         bsp \in Stopped <=> bsp' \in Stopped
  PROVE  MmioInv'
<1>1. \A h \in Cpus : MmioCpu(h)' /\ (Reserving(h)' <=> Reserving(h))
  BY DEF MmioInv, MmioCpu, Reserving
<1> QED BY <1>1 DEF MmioInv

LEMMA LoadKernPgdirKeeps == BootInv /\ LoadKernPgdir => BootInv'
<1> SUFFICES ASSUME BootInv, LoadKernPgdir PROVE BootInv'
  OBVIOUS
<1> USE CpuSet DEF BootInv, LoadKernPgdir, Boots, memVars, spaceVars, mpVars, apVars, lapicVars
<1>1. TableInv'
  BY DEF TableInv, Untested, Tested, Stopped, AfterMp, AfterLapic, Locked
<1>2. StartInv'
  BY StartKept
<1>3. MmioInv'
  BY MmioKept DEF Untested, Stopped, AfterLapic
<1> QED BY <1>1, <1>2, <1>3

LEMMA TrapInitKeeps == BootInv /\ TrapInit => BootInv'
<1> SUFFICES ASSUME BootInv, TrapInit PROVE BootInv'
  OBVIOUS
<1> USE CpuSet DEF BootInv, TrapInit, Boots, memVars, spaceVars, mpVars, apVars, lapicVars
<1>1. TableInv'
  BY DEF TableInv, Untested, Tested, Stopped, AfterMp, AfterLapic, Locked
<1>2. StartInv'
  <2>1. \A h \in Cpus \ {0} : CpuInv(h)'
    BY CpuKept DEF StartInv
  <2> QED BY <2>1 DEF StartInv, trap_init_percpu, cpunum
<1>3. MmioInv'
  BY MmioKept DEF Untested, Stopped, AfterLapic
<1> QED BY <1>1, <1>2, <1>3

LEMMA EntryKeeps == BootInv /\ Entry => BootInv'
<1> SUFFICES ASSUME BootInv, Entry PROVE BootInv'
  OBVIOUS
<1>1. /\ UNCHANGED <<bsp, pc, esp, ts_esp0, lapicaddr, cpu_status, c, mpentry_kstack,
                     lapic, saved, lock, created, base, pte>>
      /\ bsp = "entries" /\ ncpu' \in {ncpu, AddCpu}
  BY DEF Entry, memVars, spaceVars, cpuVars, apVars, lapicVars
<1>2. ncpu' \in 0 .. NCPU
  <2>1. ncpu \in 0 .. NCPU
    BY DEF BootInv, TableInv
  <2> QED BY ONLY <1>1, <2>1, Numbers DEF AddCpu
<1>3. TableInv'
  BY <1>1, <1>2 DEF BootInv, TableInv, AfterMp, AfterLapic
<1>4. StartInv'
  BY <1>1, StartKept DEF BootInv
<1>5. MmioInv'
  BY <1>1, MmioKept DEF BootInv, AfterLapic
<1> QED BY <1>3, <1>4, <1>5 DEF BootInv

LEMMA NoTableKeeps == BootInv /\ NoTable => BootInv'
<1> SUFFICES ASSUME BootInv, NoTable PROVE BootInv'
  OBVIOUS
<1>1. /\ UNCHANGED <<pc, esp, ts_esp0, ncpu, lapicaddr, cpu_status, c, mpentry_kstack,
                     lapic, saved, lock, created, base, pte>>
      /\ bsp = "mp_init" /\ bsp' = "lapic_init"
  BY DEF NoTable, Boots, memVars, spaceVars, cpuVars, mpVars, apVars, lapicVars
<1>2. ncpu = 0 /\ lapicaddr = 0
  BY <1>1 DEF BootInv, TableInv, AfterMp, AfterLapic
<1>3. TableInv'
  BY <1>1, <1>2, Numbers DEF BootInv, TableInv, AfterMp, AfterLapic, Locked
<1>4. StartInv'
  BY <1>1, StartKept DEF BootInv
<1>5. MmioInv'
  BY <1>1, MmioKept DEF BootInv, Untested, Stopped, AfterLapic
<1> QED BY <1>3, <1>4, <1>5 DEF BootInv

LEMMA HasTableKeeps == BootInv /\ HasTable => BootInv'
<1> SUFFICES ASSUME BootInv, HasTable PROVE BootInv'
  OBVIOUS
<1>1. /\ UNCHANGED <<pc, esp, ts_esp0, ncpu, cpu_status, c, mpentry_kstack,
                     lapic, saved, lock, created, base, pte>>
      /\ bsp = "mp_init" /\ bsp' = "entries" /\ lapicaddr' = LAPIC
  BY DEF HasTable, Boots, memVars, spaceVars, cpuVars, apVars, lapicVars
<1>2. TableInv'
  BY <1>1 DEF BootInv, TableInv, AfterMp, AfterLapic, Locked
<1>3. StartInv'
  BY <1>1, StartKept DEF BootInv
<1>4. MmioInv'
  BY <1>1, MmioKept DEF BootInv, Untested, Stopped, AfterLapic
<1> QED BY <1>2, <1>3, <1>4 DEF BootInv

LEMMA MpInitKeeps == BootInv /\ MpInit => BootInv'
<1> SUFFICES ASSUME BootInv, MpInit PROVE BootInv'
  OBVIOUS
<1>1. /\ UNCHANGED <<pc, esp, ts_esp0, c, mpentry_kstack, lapic, saved, lock, created, base,
                     pte>>
      /\ bsp = "entries" /\ bsp' = "lapic_init"
      /\ cpu_status' = [cpu_status EXCEPT ![0] = "CPU_STARTED"]
      /\ \/ UNCHANGED <<ncpu, lapicaddr>>
         \/ ncpu' = 1 /\ lapicaddr' = 0
  BY DEF MpInit, Boots, memVars, spaceVars, cpuVars, apVars, lapicVars
<1>2. lapicaddr = LAPIC /\ ncpu \in 0 .. NCPU /\ LAPIC # 0
  BY <1>1, Addresses DEF BootInv, TableInv
<1>3. /\ DOMAIN cpu_status' = Cpus /\ cpu_status'[0] = "CPU_STARTED"
      /\ \A h \in Cpus \ {0} : cpu_status'[h] = cpu_status[h]
  BY <1>1, Numbers DEF BootInv, StartInv
<1>4. ncpu' \in 0 .. NCPU /\ lapicaddr' \in {0, LAPIC} /\ (lapicaddr' = 0 => ncpu' <= 1)
  BY ONLY <1>1, <1>2, Numbers
<1>5. TableInv'
  BY <1>1, <1>3, <1>4 DEF BootInv, TableInv, AfterMp, AfterLapic, Locked
<1>6. StartInv'
  <2>1. \A h \in Cpus \ {0} : CpuInv(h)'
    BY <1>1, <1>3, CpuKept DEF BootInv, StartInv
  <2> QED BY <1>1, <1>3, <2>1 DEF BootInv, StartInv
<1>7. MmioInv'
  BY <1>1, MmioKept DEF BootInv, Untested, Stopped, AfterLapic
<1> QED BY <1>5, <1>6, <1>7 DEF BootInv

LEMMA LapicInitKeeps == BootInv /\ LapicInit => BootInv'
<1> SUFFICES ASSUME BootInv, LapicInit PROVE BootInv'
  OBVIOUS
<1> USE CpuSet DEF BootInv
<1>1. /\ UNCHANGED <<pc, esp, ts_esp0, ncpu, lapicaddr, cpu_status, c, mpentry_kstack,
                     lock, created>>
      /\ bsp \in {"lapic_init", "lapic"} /\ bsp' \in {"lapic", "lock"}
  BY DEF LapicInit, Boots, smpVars, cpuVars, mpVars, apVars
<1>2. TableInv'
  BY <1>1 DEF TableInv, LapicInit, Boots, Untested, Tested, Stopped, AfterMp, AfterLapic, Locked
<1>3. StartInv'
  BY <1>1, StartKept
<1>4. \A h \in Cpus \ {0} : pc[h] = "halted" /\ saved[h] = None
  <2>1. c = 0
    BY <1>1 DEF TableInv
  <2> QED BY <2>1, Quiet
<1>5. CASE bsp = "lapic_init"
  <2>1. saved[0] = None /\ lapic = 0
    <3>1. saved[0] = None
      BY <1>5, CpuSet DEF MmioInv, MmioCpu, AfterLapic
    <3> QED BY <1>4, <3>1 DEF MmioInv
  <2>2. base = MMIOBASE + 3
    <3>1. base \in MMIOBASE + 3 .. MMIOBASE + 3 + NHW /\ ~(MMIOBASE + 3 + 0 < base)
      BY <1>5, <2>1, CpuSet DEF MmioInv, Untested, Stopped
    <3> QED BY <3>1, MmioBase
  <2>3. \A h \in Cpus : ~(MMIOBASE + 3 + h < MMIOBASE + 3)
    BY CpuSet, MmioBase
  <2>4. CASE lapicaddr = 0
    <3>1. UNCHANGED <<base, pte, lapic, saved>> /\ bsp' = "lock"
      BY <1>5, <2>4, MmioBase DEF LapicInit, Boots, memVars, spaceVars, smpVars, lapicVars
    <3>2. \A h \in Cpus : MmioCpu(h)'
      BY <1>1, <1>4, <2>1, <2>4, <3>1 DEF MmioCpu, Queued
    <3>3. MmioInv'
      BY <1>1, <1>4, <1>5, <2>1, <2>2, <2>3, <2>4, <3>1, <3>2
         DEF MmioInv, Untested, Stopped
    <3> QED BY <1>2, <1>3, <3>3
  <2>5. CASE lapicaddr # 0
    <3>1. /\ bsp' = "lapic" /\ UNCHANGED <<base, lapic>>
          /\ pte' = [pte EXCEPT ![base] = LAPIC]
          /\ saved' = [saved EXCEPT ![0] = base]
      BY <1>5, <2>5 DEF LapicInit, Boots, mmio_map, TableInv
    <3>2. base \in Virtual
      <4>1. 0 \in 0 .. NCPU - 1 /\ base = MMIOBASE + 3 + 0
        BY <2>2, MmioBase, Numbers
      <4> QED BY ONLY <4>1, Addresses
    <3>3. pte'[base] = LAPIC /\ DOMAIN pte' = Virtual /\ DOMAIN saved' = Cpus
      BY <3>1, <3>2 DEF MmioInv
    <3>4. saved'[0] = base /\ \A h \in Cpus \ {0} : saved'[h] = None
      BY <1>4, <3>1, CpuSet DEF MmioInv
    <3>5. base = MMIOBASE + 3 + 0 /\ base # None
      BY <2>2, MmioBase, NoneIsNot
    <3>6. \A h \in Cpus : MmioCpu(h)'
      BY <1>1, <1>4, <2>5, <3>1, <3>3, <3>4, <3>5 DEF MmioCpu, Queued
    <3>7. \A h \in Cpus : saved'[h] # None => Reserving(h)'
      BY <3>1, <3>4 DEF Reserving
    <3>8. MmioInv'
      BY <1>5, <2>1, <2>2, <2>3, <3>1, <3>3, <3>6, <3>7
         DEF MmioInv, Untested, Stopped, AfterLapic
    <3> QED BY <1>2, <1>3, <3>8
  <2> QED BY <2>4, <2>5
<1>6. CASE bsp = "lapic"
  <2>1. /\ bsp' = "lock" /\ UNCHANGED <<pte, saved>>
        /\ base' = saved[0] + 1 /\ lapic' = saved[0]
    BY <1>6 DEF LapicInit, Boots, mmio_reserve
  <2>2. lapicaddr # 0 /\ saved[0] # None
    BY <1>6, CpuSet, MmioBase DEF TableInv, MmioInv, MmioCpu
  <2>3. saved[0] = MMIOBASE + 3
    <3>1. saved[0] = MMIOBASE + 3 + 0
      BY <2>2, CpuSet DEF MmioInv, MmioCpu
    <3> QED BY <3>1, MmioBase
  <2>4. \A h \in Cpus : MmioCpu(h)'
    BY <1>1, <1>6, <2>1, <2>2 DEF MmioInv, MmioCpu, AfterLapic
  <2>5. \A h \in Cpus : ~Reserving(h)'
    BY <1>1, <1>4, <2>1 DEF Reserving
  <2>6. /\ base' \in MMIOBASE + 3 .. MMIOBASE + 3 + NHW
        /\ \A h \in Cpus : MMIOBASE + 3 + h < base' <=> h = 0
        /\ lapic' # 0
    BY ONLY <2>1, <2>3, CpuSet, MmioBase, Numbers
  <2>7. MmioInv'
    BY <1>4, <2>1, <2>2, <2>4, <2>5, <2>6, CpuSet DEF MmioInv, Untested, Stopped
  <2> QED BY <1>2, <1>3, <2>7
<1> QED BY <1>1, <1>5, <1>6

-----------------------------------------------------------------------------
(* boot_aps and what follows it.  None of it touches the MMIO space; the   *)
(* step that starts a CPU moves it only to its entry code.                 *)
Outside == {"halted", "entry", "paged", "stacked", "lapic_init"}
Inside == {"percpu", "up"} \cup Queued

LEMMA MmioKeptLater ==
  ASSUME MmioInv, UNCHANGED <<lapicaddr, base, pte, lapic, saved>>,
         bsp \in AfterLapic, bsp' \in AfterLapic,
         \A h \in Cpus \ {0} : \/ pc[h] \in Outside /\ pc'[h] \in Outside
                               \/ pc[h] \in Inside /\ pc'[h] \in Inside
                               \/ pc[h] = pc'[h]
  PROVE  MmioInv'
<1>1. \A h \in Cpus : Reserving(h)' <=> Reserving(h)
  BY DEF Reserving, AfterLapic, Outside, Inside, Queued
<1>2. \A h \in Cpus \ {0} : (pc[h] \in {"lapic", "percpu", "up"} \cup Queued)
                             <=> (pc'[h] \in {"lapic", "percpu", "up"} \cup Queued)
  BY DEF Outside, Inside, Queued
<1>3. \A h \in Cpus : MmioCpu(h)'
  BY <1>2 DEF MmioInv, MmioCpu
<1>4. bsp' \notin Untested \cup Stopped /\ bsp \notin Untested \cup Stopped
  BY DEF AfterLapic, Untested, Stopped
<1> QED BY <1>1, <1>3, <1>4, Zenon DEF MmioInv

LEMMA BootApsKeeps ==
  BootInv /\ (LockKernel \/ CopyEntry \/ SkipSelf \/ AllStarted \/ EnvCreate \/ BspLeaves)
    => BootInv'
<1> SUFFICES ASSUME BootInv,
                    LockKernel \/ CopyEntry \/ SkipSelf \/ AllStarted \/ EnvCreate \/ BspLeaves
             PROVE  BootInv'
  OBVIOUS
<1> USE CpuSet DEF BootInv
<1>1. /\ UNCHANGED <<base, pte, pc, esp, ts_esp0, ncpu, lapicaddr, cpu_status, lapic, saved,
                     mpentry_kstack>>
      /\ bsp \in AfterLapic /\ bsp' \in AfterLapic
  BY DEF LockKernel, CopyEntry, SkipSelf, AllStarted, EnvCreate, BspLeaves, Boots, AfterLapic,
         memVars, spaceVars, smpVars, cpuVars, mpVars, apVars, lapicVars
<1>2. MmioInv'
  BY <1>1, MmioKeptLater
<1>3. CASE SkipSelf
  <2>1. bsp = "boot_aps" /\ c = 0 /\ c' = 1 /\ 0 < ncpu /\ UNCHANGED <<bsp, lock, created>>
    BY <1>3 DEF SkipSelf, cpunum
  <2>2. TableInv'
    <3>1. c' \in 0 .. NCPU
      BY ONLY <2>1, Numbers
    <3> QED BY <1>1, <2>1, <3>1 DEF TableInv, AfterMp, AfterLapic, Locked
  <2>3. ASSUME NEW h \in Cpus \ {0}
        PROVE  CpuInv(h)'
    <3>1. pc[h] = "halted" /\ cpu_status[h] = "CPU_UNUSED"
      BY <2>1, Quiet
    <3>2. h \in Nat /\ h >= 1
      OBVIOUS
    <3>3. Phase(h)'
      BY ONLY <1>1, <2>1, <3>1, <3>2 DEF Phase
    <3> QED BY <1>1, <3>1, <3>3, Zenon DEF StartInv, CpuInv
  <2>4. StartInv'
    BY <1>1, <2>3 DEF StartInv
  <2> QED BY <1>2, <2>2, <2>4
<1>4. CASE LockKernel \/ CopyEntry \/ AllStarted \/ EnvCreate \/ BspLeaves
  <2>1. /\ UNCHANGED c /\ bsp # "wait" /\ bsp' # "wait"
        /\ bsp # "running"
    BY <1>4 DEF LockKernel, CopyEntry, AllStarted, EnvCreate, BspLeaves, Boots,
                smpVars, apVars
  <2>2. TableInv'
    <3>1. CASE LockKernel \/ CopyEntry
      <4>1. /\ bsp \in {"lock", "copy"} /\ bsp' \in {"copy", "boot_aps"} /\ lock' = 0
            /\ UNCHANGED created
        BY <3>1 DEF LockKernel, CopyEntry, Boots, TakesLock, TableInv, Locked
      <4> QED BY <1>1, <2>1, <4>1 DEF TableInv, AfterMp, AfterLapic
    <3>2. CASE AllStarted
      BY <1>1, <2>1, <3>2 DEF AllStarted, Boots, smpVars,
         TableInv, AfterMp, AfterLapic, Locked
    <3>3. CASE EnvCreate \/ BspLeaves
      BY <1>1, <2>1, <3>3 DEF EnvCreate, BspLeaves, Boots,
         TableInv, AfterMp, AfterLapic, Locked
    <3> QED BY <1>4, <3>1, <3>2, <3>3
  <2>3. StartInv'
    BY <1>1, <2>1, StartKept
  <2> QED BY <1>2, <2>2, <2>3
<1> QED BY <1>3, <1>4

LEMMA StartApKeeps == BootInv /\ StartAp => BootInv'
<1> SUFFICES ASSUME BootInv, StartAp PROVE BootInv'
  OBVIOUS
<1> USE CpuSet DEF BootInv
<1>1. /\ bsp = "boot_aps" /\ bsp' = "wait" /\ c < ncpu /\ c # 0
      /\ mpentry_kstack' = Stack(percpu_kstacks(c))
      /\ pc' = [pc EXCEPT ![c] = "entry"]
      /\ UNCHANGED <<base, pte, esp, ts_esp0, ncpu, lapicaddr, cpu_status, lapic, saved, c,
                     lock, created>>
  BY DEF StartAp, Boots, cpunum, memVars, spaceVars, mpVars, lapicVars
<1>2. c \in Cpus \ {0} /\ pc[c] = "halted" /\ cpu_status[c] = "CPU_UNUSED"
  <2>1. c \in Cpus \ {0}
    BY <1>1, Numbers DEF TableInv
  <2>2. Phase(c)
    BY <2>1, Zenon DEF StartInv, CpuInv
  <2> QED BY <1>1, <2>1, <2>2 DEF Phase
<1>3. TableInv'
  BY <1>1 DEF TableInv, Untested, Tested, Stopped, AfterMp, AfterLapic, Locked
<1>4. StartInv'
  <2>1. /\ DOMAIN pc' = Cpus /\ pc'[c] = "entry"
        /\ \A h \in Cpus : h # c => pc'[h] = pc[h]
    BY <1>1, <1>2 DEF StartInv
  <2>2. ASSUME NEW h \in Cpus \ {0}, h # c
        PROVE  CpuInv(h)'
    <3>1. CpuInv(h)
      BY DEF StartInv
    <3>2. pc[h] \notin Setup
      BY ONLY <1>1, <3>1 DEF CpuInv, Phase, Setup, Early, Queued
    <3>3. Phase(h)'
      BY ONLY <1>1, <2>1, <2>2, <3>1 DEF CpuInv, Phase
    <3> QED BY ONLY <1>1, <2>1, <2>2, <3>1, <3>2, <3>3 DEF CpuInv, Setup, Early
  <2>3. CpuInv(c)'
    <3>1. esp[c] = None
      BY <1>2 DEF StartInv, CpuInv
    <3> QED BY ONLY <1>1, <1>2, <2>1, <3>1 DEF CpuInv, Phase, Setup, Early
  <2> QED BY <1>1, <1>2, <2>1, <2>2, <2>3 DEF StartInv
<1>5. MmioInv'
  <2>1. \A h \in Cpus \ {0} : pc'[h] = pc[h] \/ (pc[h] \in Outside /\ pc'[h] \in Outside)
    BY <1>1, <1>2 DEF StartInv, Outside
  <2> QED BY <1>1, <2>1, MmioKeptLater DEF AfterLapic
<1> QED BY <1>3, <1>4, <1>5

LEMMA WaitApKeeps == BootInv /\ WaitAp => BootInv'
<1> SUFFICES ASSUME BootInv, WaitAp PROVE BootInv'
  OBVIOUS
<1> USE CpuSet DEF BootInv
<1>1. /\ bsp = "wait" /\ bsp' = "boot_aps" /\ c' = c + 1
      /\ cpu_status[c] = "CPU_STARTED"
      /\ UNCHANGED <<base, pte, pc, esp, ts_esp0, ncpu, lapicaddr, cpu_status, lapic, saved,
                     mpentry_kstack, lock, created>>
  BY DEF WaitAp, IsUp, Boots, memVars, spaceVars, cpuVars, mpVars, lapicVars
<1>2. c \in Cpus \ {0} /\ c < ncpu /\ c' \in 0 .. NCPU
  BY <1>1, Numbers DEF TableInv
<1>3. TableInv'
  BY <1>1, <1>2 DEF TableInv, Untested, Tested, Stopped, AfterMp, AfterLapic, Locked
<1>4. StartInv'
  <2>1. ASSUME NEW h \in Cpus \ {0}
        PROVE  CpuInv(h)'
    <3>1. CpuInv(h) /\ h \in Nat /\ c \in Nat
      BY <1>2 DEF StartInv
    <3>2. /\ bsp = "wait" /\ bsp' = "boot_aps" /\ c' = c + 1 /\ UNCHANGED <<pc, cpu_status>>
          /\ h = c => cpu_status[h] = "CPU_STARTED"
      BY ONLY <1>1
    <3>3. (h >= c' <=> h > c) /\ (h < c' <=> h <= c)
      BY ONLY <3>1, <3>2
    <3>4. Phase(h)'
      BY ONLY <3>1, <3>2, <3>3 DEF CpuInv, Phase
    <3> QED BY ONLY <1>1, <3>1, <3>4 DEF CpuInv
  <2> QED BY <1>1, <2>1 DEF StartInv
<1>5. MmioInv'
  BY <1>1, MmioKeptLater DEF AfterLapic
<1> QED BY <1>3, <1>4, <1>5

-----------------------------------------------------------------------------
(* A CPU that is being set up is the one that the boot processor waits     *)
(* for, and the local APIC is known.                                       *)
LEMMA Awaited ==
  ASSUME BootInv, NEW h \in Cpus, pc[h] \in Setup
  PROVE  /\ h # 0 /\ h = c /\ bsp = "wait" /\ h < ncpu /\ h \in 1 .. NCPU - 1
         /\ cpu_status[h] = "CPU_UNUSED"
         /\ lapicaddr = LAPIC /\ lapic # 0
         /\ \A g \in Cpus \ {0, h} : pc[g] \notin Setup
<1> USE CpuSet DEF BootInv
<1>1. h # 0
  BY DEF StartInv, Setup, Early
<1>2. h = c /\ bsp = "wait" /\ cpu_status[h] = "CPU_UNUSED"
  <2>1. Phase(h)
    BY <1>1 DEF StartInv, CpuInv
  <2> QED BY <2>1 DEF Phase, Setup, Early, Queued
<1>3. h < ncpu /\ h \in 1 .. NCPU - 1 /\ lapicaddr = LAPIC
  BY <1>1, <1>2, Numbers DEF TableInv, AfterMp, AfterLapic
<1>4. lapic # 0
  BY <1>2, <1>3, Addresses DEF MmioInv, AfterLapic
<1>5. \A g \in Cpus \ {0, h} : pc[g] \notin Setup
  BY <1>2 DEF StartInv, CpuInv, Phase, Setup, Early, Queued
<1> QED BY <1>1, <1>2, <1>3, <1>4, <1>5

(* A step of one CPU leaves the others alone.                              *)
LEMMA OthersKept ==
  ASSUME StartInv, NEW h \in Cpus \ {0}, UNCHANGED <<bsp, c, mpentry_kstack>>,
         DOMAIN pc' = Cpus /\ DOMAIN esp' = Cpus /\ DOMAIN cpu_status' = Cpus,
         \A g \in Cpus \ {h} : /\ pc'[g] = pc[g] /\ esp'[g] = esp[g]
                               /\ cpu_status'[g] = cpu_status[g],
         DOMAIN ts_esp0' = Cpus,
         \A g \in Cpus : ts_esp0'[g] \in {None, Stack(percpu_kstacks(g))},
         CpuInv(h)'
  PROVE  StartInv'
<1>1. \A g \in Cpus \ {0} : CpuInv(g)'
  BY CpuKept DEF StartInv
<1>2. 0 \in Cpus \ {h}
  BY Numbers
<1> QED BY <1>1, <1>2 DEF StartInv

(* The steps of mpentry.S and mp_main that do not touch the MMIO space.    *)
LEMMA EarlyKeeps ==
  ASSUME BootInv, NEW h \in Cpus, TurnOnPaging(h) \/ LoadStack(h) \/ MpMain(h)
  PROVE  BootInv'
<1> USE CpuSet DEF BootInv
<1>1. /\ UNCHANGED <<bsp, base, pte, ts_esp0, ncpu, lapicaddr, cpu_status, lapic, saved, c,
                     mpentry_kstack, lock, created>>
      /\ pc[h] \in Early
  BY DEF TurnOnPaging, LoadStack, MpMain, Runs, memVars, spaceVars, mpVars, apVars, lapicVars,
         Early
<1>2. pc[h] \in Setup
  BY <1>1 DEF Setup
<1>3. /\ pc'[h] \in {"paged", "stacked", "lapic_init"} /\ DOMAIN pc' = Cpus
      /\ \A g \in Cpus \ {h} : pc'[g] = pc[g]
  BY Zenon DEF TurnOnPaging, LoadStack, MpMain, Runs, StartInv
<1>4. /\ esp'[h] = IF pc'[h] = "paged" THEN None ELSE Stack(percpu_kstacks(h))
      /\ \A g \in Cpus \ {h} : esp'[g] = esp[g]
      /\ DOMAIN esp' = Cpus
  <2>1. h # 0
    BY <1>2, Awaited
  <2>2. CASE TurnOnPaging(h)
    BY <2>1, <2>2 DEF TurnOnPaging, Runs, StartInv, CpuInv
  <2>3. CASE LoadStack(h)
    BY <2>1, <2>3 DEF LoadStack, Runs, StartInv, CpuInv
  <2>4. CASE MpMain(h)
    BY <2>1, <2>4 DEF MpMain, Runs, StartInv, CpuInv
  <2> QED BY <2>2, <2>3, <2>4
<1>5. TableInv'
  BY <1>1 DEF TableInv
<1>6. StartInv'
  <2>1. pc'[h] \in Setup /\ (pc'[h] \in {"entry", "paged"} => pc[h] = "entry")
    BY <1>3 DEF TurnOnPaging, LoadStack, MpMain, Runs, StartInv, Setup, Early
  <2>2. h # 0 /\ h = c /\ bsp = "wait" /\ cpu_status[h] = "CPU_UNUSED"
    BY <1>2, Awaited
  <2>3. pc[h] = "entry" => mpentry_kstack = Stack(percpu_kstacks(h))
    BY <2>2 DEF StartInv, CpuInv
  <2>4. CpuInv(h)'
    BY ONLY <1>1, <1>3, <1>4, <2>1, <2>2, <2>3 DEF CpuInv, Phase
  <2> QED BY <1>1, <1>3, <1>4, <2>2, <2>4, OthersKept, Zenon DEF StartInv
<1>7. MmioInv'
  <2>1. bsp \in AfterLapic
    BY <1>2, Awaited DEF AfterLapic
  <2>2. pc[h] \in Outside /\ pc'[h] \in Outside
    BY <1>1, <1>3 DEF Outside, Early
  <2> QED BY <1>1, <1>3, <2>1, <2>2, MmioKeptLater
<1> QED BY <1>5, <1>6, <1>7

(* trap_init_percpu, and the store that the boot processor waits for.      *)
LEMMA LateKeeps ==
  ASSUME BootInv, NEW h \in Cpus, ApTrapInit(h) \/ ApStarted(h)
  PROVE  BootInv'
<1> USE CpuSet DEF BootInv
<1>1. /\ UNCHANGED <<bsp, base, pte, esp, ncpu, lapicaddr, lapic, saved, c, mpentry_kstack,
                     lock, created>>
      /\ pc[h] \in {"percpu", "up"}
  BY DEF ApTrapInit, ApStarted, Runs, memVars, spaceVars, mpVars, apVars, lapicVars
<1>2. pc[h] \in Setup
  BY <1>1 DEF Setup
<1>3. /\ pc'[h] \in {"up", "lock"} /\ DOMAIN pc' = Cpus
      /\ \A g \in Cpus \ {h} : pc'[g] = pc[g]
  BY Zenon DEF ApTrapInit, ApStarted, Runs, StartInv
<1>4. h # 0 /\ cpunum(h) = h
  BY <1>2, Awaited DEF cpunum
<1>5. /\ cpu_status'[h] = IF pc'[h] = "lock" THEN "CPU_STARTED" ELSE "CPU_UNUSED"
      /\ \A g \in Cpus \ {h} : cpu_status'[g] = cpu_status[g]
      /\ DOMAIN cpu_status' = Cpus
  <2>1. CASE ApTrapInit(h)
    BY <1>2, <2>1, Awaited DEF ApTrapInit, Runs, StartInv, mpVars
  <2>2. CASE ApStarted(h)
    BY <1>4, <2>2 DEF ApStarted, Runs, StartInv
  <2> QED BY <2>1, <2>2
<1>6. DOMAIN ts_esp0' = Cpus /\ \A g \in Cpus : ts_esp0'[g] \in {None, Stack(percpu_kstacks(g))}
  BY <1>4 DEF ApTrapInit, ApStarted, trap_init_percpu, StartInv
<1>7. TableInv'
  BY <1>1, <1>4, <1>5 DEF TableInv
<1>8. StartInv'
  <2>1. h = c /\ bsp = "wait"
    BY <1>2, Awaited
  <2>2. esp[h] = Stack(percpu_kstacks(h))
    BY <1>1, <1>4, Zenon DEF StartInv, CpuInv
  <2>3. CpuInv(h)'
    BY ONLY <1>1, <1>3, <1>5, <2>1, <2>2 DEF CpuInv, Phase, Setup, Queued
  <2> QED BY <1>1, <1>3, <1>4, <1>5, <1>6, <2>3, OthersKept, Zenon DEF StartInv
<1>9. MmioInv'
  <2>1. bsp \in AfterLapic
    BY <1>2, Awaited DEF AfterLapic
  <2>2. pc[h] \in Inside /\ pc'[h] \in Inside
    BY <1>1, <1>3 DEF Inside, Queued
  <2> QED BY <1>1, <1>3, <2>1, <2>2, MmioKeptLater
<1> QED BY <1>7, <1>8, <1>9

(* The lock is free only once the boot processor has left the scheduler.   *)
LEMMA LockKeeps ==
  ASSUME BootInv, NEW h \in Cpus, ApLock(h) \/ ApLeaves(h)
  PROVE  BootInv'
<1> USE CpuSet DEF BootInv
<1>1. /\ UNCHANGED <<bsp, base, pte, esp, ts_esp0, ncpu, lapicaddr, cpu_status, lapic, saved,
                     c, mpentry_kstack, created>>
      /\ pc[h] \in {"lock", "sched"}
      /\ pc[h] = "lock" => lock = NoCpu
  BY DEF ApLock, ApLeaves, Runs, memVars, spaceVars, mpVars, apVars, lapicVars
<1>2. /\ pc'[h] \in {"sched", "running"} /\ DOMAIN pc' = Cpus
      /\ \A g \in Cpus \ {h} : pc'[g] = pc[g]
  BY Zenon DEF ApLock, ApLeaves, Runs, StartInv
<1>3. h # 0
  BY <1>1 DEF StartInv
<1>4. bsp = "running"
  <2>1. CASE pc[h] = "sched"
    BY <1>3, <2>1 DEF StartInv, CpuInv
  <2>2. CASE pc[h] = "lock"
    <3>1. lock # 0
      BY <1>1, <2>2, NoneIsNot
    <3>2. bsp \notin Locked
      BY <3>1 DEF TableInv
    <3>3. h <= c
      <4>1. h \in Nat /\ c \in Nat
        BY Counts
      <4>2. Phase(h)
        BY <1>3 DEF StartInv, CpuInv
      <4> QED BY ONLY <2>2, <4>1, <4>2 DEF Phase, Setup, Early
    <3>4. c # 0
      BY <1>3, <3>3 DEF TableInv
    <3> QED BY <3>2, <3>4 DEF TableInv, Locked
  <2> QED BY <1>1, <2>1, <2>2
<1>5. TableInv'
  BY <1>1, <1>4 DEF TableInv, Locked
<1>6. StartInv'
  <2>1. CpuInv(h)
    BY <1>3 DEF StartInv
  <2>2. CpuInv(h)'
    BY ONLY <1>1, <1>2, <1>4, <2>1 DEF CpuInv, Phase, Setup, Early, Queued
  <2> QED BY <1>1, <1>2, <1>3, <2>2, OthersKept DEF StartInv
<1>7. MmioInv'
  <2>1. pc[h] \in Inside /\ pc'[h] \in Inside
    BY <1>1, <1>2 DEF Inside, Queued
  <2> QED BY <1>1, <1>2, <1>4, <2>1, MmioKeptLater DEF AfterLapic
<1> QED BY <1>5, <1>6, <1>7

(* mmio_map_region on another CPU: all CPUs before it have their pages, so *)
(* the one at base has its number, and no other CPU moves base meanwhile.  *)
LEMMA MmioKeeps ==
  ASSUME BootInv, NEW h \in Cpus, ApMmio(h) \/ ApLapic(h)
  PROVE  BootInv'
<1> USE CpuSet DEF BootInv
<1>1. /\ UNCHANGED <<bsp, esp, ts_esp0, ncpu, lapicaddr, cpu_status, c, mpentry_kstack, lock,
                     created>>
      /\ pc[h] \in {"lapic_init", "lapic"}
  BY DEF ApMmio, ApLapic, Runs, mpVars, apVars
<1>2. pc[h] \in Setup
  BY <1>1 DEF Setup
<1>3. /\ pc'[h] = (IF pc[h] = "lapic_init" THEN "lapic" ELSE "percpu") /\ DOMAIN pc' = Cpus
      /\ \A g \in Cpus \ {h} : pc'[g] = pc[g]
  BY <1>1, Zenon DEF ApMmio, ApLapic, Runs, StartInv
<1>4. /\ h # 0 /\ h = c /\ bsp = "wait" /\ h \in 1 .. NCPU - 1 /\ lapicaddr = LAPIC
      /\ lapic # 0 /\ cpu_status[h] = "CPU_UNUSED"
  BY <1>2, Awaited
<1>5. TableInv'
  BY <1>1 DEF TableInv
<1>6. StartInv'
  <2>1. /\ pc'[h] \in Setup /\ pc'[h] \notin {"halted", "entry", "paged"}
        /\ pc[h] \notin {"halted", "entry", "paged"}
    BY <1>1, <1>3 DEF Setup, Early
  <2>2. esp[h] = Stack(percpu_kstacks(h))
    BY <1>4, <2>1, Zenon DEF StartInv, CpuInv
  <2>3. CpuInv(h)'
    BY ONLY <1>1, <1>4, <2>1, <2>2 DEF CpuInv, Phase, Setup, Early
  <2> QED BY <1>1, <1>3, <1>4, <2>3, OthersKept DEF StartInv
<1>7. \A g \in Cpus : ~Reserving(g) \/ g = h
  <2>1. \A g \in Cpus \ {0, h} : pc[g] \notin Setup
    BY <1>2, Awaited
  <2> QED BY <1>4, <2>1 DEF Reserving, Setup
<1>8. \A g \in Cpus : g < h => saved[g] # None
  <2>1. saved[0] # None
    BY <1>4, CpuSet, MmioBase DEF MmioInv, MmioCpu, AfterLapic
  <2>2. \A g \in Cpus \ {0} : g < h => pc[g] \in Queued
    <3> SUFFICES ASSUME NEW g \in Cpus \ {0}, g < h PROVE pc[g] \in Queued
      OBVIOUS
    <3>1. Phase(g) /\ g \in Nat /\ h \in Nat
      BY CpuSet DEF StartInv, CpuInv
    <3> QED BY ONLY g < h, <1>4, <3>1 DEF Phase
  <2> QED BY <2>1, <2>2 DEF MmioInv, MmioCpu
<1>9. /\ base \in MMIOBASE + 3 .. MMIOBASE + 3 + NHW
      /\ \A g \in Cpus : (saved[g] # None /\ ~Reserving(g)) <=> MMIOBASE + 3 + g < base
  BY <1>4 DEF MmioInv, Untested, Stopped
<1>10. saved[h] = None \/ Reserving(h)
  BY <1>1, <1>4 DEF MmioInv, MmioCpu, Reserving, Queued
<1>11. base = MMIOBASE + 3 + h
  <2>1. ~(MMIOBASE + 3 + h < base)
    BY ONLY <1>9, <1>10, h \in Cpus
  <2>2. h - 1 \in Cpus /\ h - 1 < h /\ h - 1 # h
    BY ONLY <1>4, Numbers
  <2>3. MMIOBASE + 3 + (h - 1) < base
    BY ONLY <1>7, <1>8, <1>9, <2>2
  <2> QED BY ONLY <1>4, <1>9, <2>1, <2>3, MmioBase
<1>12. base \in Nat /\ base # None
  BY ONLY <1>4, <1>11, MmioBase, NoneIsNot
<1>13. CASE pc[h] = "lapic_init"
  <2>1. /\ UNCHANGED <<base, lapic>>
        /\ pte' = [pte EXCEPT ![base] = LAPIC]
        /\ saved' = [saved EXCEPT ![h] = base]
    BY <1>4, <1>13 DEF ApMmio, ApLapic, Runs, mmio_map
  <2>2. base \in Virtual
    <3>1. MMIOBASE + 3 + h \in Virtual
      BY ONLY <1>4, Addresses
    <3> QED BY ONLY <1>11, <3>1
  <2>3. saved[h] = None
    BY <1>4, <1>13 DEF MmioInv, MmioCpu, Queued
  <2>4. DOMAIN pte' = Virtual /\ pte'[base] = LAPIC
        /\ \A v \in Virtual \ {base} : pte'[v] = pte[v]
    BY <2>1, <2>2 DEF MmioInv
  <2>5. DOMAIN saved' = Cpus /\ saved'[h] = base /\ \A g \in Cpus \ {h} : saved'[g] = saved[g]
    BY <2>1 DEF MmioInv
  <2>6. ASSUME NEW g \in Cpus, g # h
        PROVE  saved[g] # None => saved[g] \in Virtual \ {base}
    <3> SUFFICES ASSUME saved[g] # None PROVE saved[g] \in Virtual \ {base}
      OBVIOUS
    <3>1. saved[g] = MMIOBASE + 3 + g
      BY DEF MmioInv, MmioCpu
    <3>2. MMIOBASE + 3 + g < base
      BY ONLY <1>7, <1>9, <2>6, saved[g] # None
    <3>3. g \in 0 .. NCPU - 1 /\ MMIOBASE + 3 + g # base
      BY ONLY <1>4, <1>11, <3>2, g \in Cpus, CpuSet, MmioBase, Numbers
    <3>4. MMIOBASE + 3 + g \in Virtual
      BY ONLY <3>3, Addresses
    <3> QED BY ONLY <3>1, <3>3, <3>4
  <2>7. \A g \in Cpus : MmioCpu(g)'
    <3>1. MmioCpu(h)'
      BY ONLY <1>3, <1>4, <1>11, <1>12, <1>13, <2>4, <2>5 DEF MmioCpu
    <3>2. ASSUME NEW g \in Cpus, g # h PROVE MmioCpu(g)'
      <4>1. MmioCpu(g)
        BY DEF MmioInv
      <4>2. saved'[g] = saved[g] /\ pc'[g] = pc[g]
        BY ONLY <1>3, <2>5, <3>2
      <4>3. saved[g] # None => pte'[saved[g]] = pte[saved[g]]
        BY ONLY <2>4, <2>6, <3>2
      <4> QED BY ONLY <1>1, <4>1, <4>2, <4>3 DEF MmioCpu
    <3> QED BY ONLY <3>1, <3>2
  <2>8. \A g \in Cpus : Reserving(g)' <=> g = h
    BY ONLY <1>1, <1>3, <1>4, <1>7, <1>13 DEF Reserving
  <2>9. ASSUME NEW g \in Cpus
        PROVE  (saved'[g] # None /\ ~Reserving(g)') <=> MMIOBASE + 3 + g < base'
    <3>1. CASE g = h
      BY ONLY <1>4, <1>11, <2>1, <2>8, <3>1, MmioBase, g \in Cpus
    <3>2. CASE g # h
      BY ONLY <1>7, <1>9, <2>1, <2>5, <2>8, <3>2, g \in Cpus
    <3> QED BY <3>1, <3>2
  <2>10. lapic' = 0 \/ \E g \in Cpus : saved'[g] # None /\ lapic' = saved'[g]
    BY <2>1, <2>3, <2>5 DEF MmioInv
  <2>11. bsp' \notin Untested \cup Stopped
    BY <1>1, <1>4 DEF Untested, Stopped
  <2>12. MmioInv'
    BY ONLY <1>4, <1>9, <2>1, <2>4, <2>5, <2>7, <2>9, <2>10, <2>11 DEF MmioInv
  <2> QED BY <1>5, <1>6, <2>12
<1>14. CASE pc[h] = "lapic"
  <2>1. UNCHANGED <<pte, saved>> /\ base' = saved[h] + 1 /\ lapic' = saved[h]
    BY <1>14 DEF ApMmio, ApLapic, Runs, mmio_reserve
  <2>2. saved[h] = MMIOBASE + 3 + h /\ saved[h] # None
    BY <1>4, <1>14 DEF MmioInv, MmioCpu
  <2>3. \A g \in Cpus : ~Reserving(g)'
    BY ONLY <1>1, <1>3, <1>4, <1>7, <1>14 DEF Reserving
  <2>4. ASSUME NEW g \in Cpus
        PROVE  (saved'[g] # None /\ ~Reserving(g)') <=> MMIOBASE + 3 + g < base'
    <3>1. CASE g = h
      BY ONLY <1>4, <2>1, <2>2, <2>3, <3>1, MmioBase, g \in Cpus
    <3>2. CASE g # h
      <4>1. (saved[g] # None) <=> MMIOBASE + 3 + g < base
        BY ONLY <1>7, <1>9, <3>2, g \in Cpus
      <4>2. MMIOBASE + 3 + g < base <=> MMIOBASE + 3 + g < base'
        BY ONLY <1>4, <1>11, <2>1, <2>2, <3>2, g \in Cpus, CpuSet, MmioBase
      <4> QED BY ONLY <2>1, <2>3, <4>1, <4>2, g \in Cpus
    <3> QED BY <3>1, <3>2
  <2>5. base' \in MMIOBASE + 3 .. MMIOBASE + 3 + NHW /\ lapic' # 0
    <3>1. base' = MMIOBASE + 3 + (h + 1) /\ lapic' = MMIOBASE + 3 + h
      BY ONLY <1>4, <2>1, <2>2, MmioBase
    <3>2. h \in Nat /\ h + 1 <= NHW /\ NHW \in Nat
      BY ONLY <1>4, Numbers
    <3> QED BY ONLY <3>1, <3>2, MmioBase
  <2>6. \A g \in Cpus : MmioCpu(g)'
    BY <1>1, <1>3, <1>4, <1>14, <2>1 DEF MmioInv, MmioCpu
  <2>7. bsp' \notin Untested \cup Stopped
    BY <1>1, <1>4 DEF Untested, Stopped
  <2>8. MmioInv'
    BY <2>1, <2>2, <2>4, <2>5, <2>6, <2>7 DEF MmioInv
  <2> QED BY <1>5, <1>6, <2>8
<1> QED BY <1>1, <1>13, <1>14

-----------------------------------------------------------------------------
LEMMA NextInv == BootInv /\ [Next]_vars => BootInv'
<1> SUFFICES ASSUME BootInv, [Next]_vars PROVE BootInv'
  OBVIOUS
<1>1. CASE UNCHANGED vars
  <2>1. UNCHANGED <<bsp, base, pte, pc, esp, ts_esp0, ncpu, lapicaddr, cpu_status, lapic,
                    saved, c, mpentry_kstack, lock, created>>
    BY <1>1 DEF vars, memVars, spaceVars, smpVars, cpuVars, mpVars, apVars, lapicVars
  <2>2. TableInv'
    BY <2>1 DEF BootInv, TableInv
  <2>3. StartInv'
    BY <2>1, StartKept DEF BootInv
  <2>4. MmioInv'
    BY <2>1 DEF BootInv, MmioInv, MmioCpu, Reserving
  <2> QED BY <2>2, <2>3, <2>4 DEF BootInv
<1>2. CASE BspNext
  BY <1>2, MemKeeps, LoadKernPgdirKeeps, TrapInitKeeps, NoTableKeeps, HasTableKeeps,
     EntryKeeps, MpInitKeeps, LapicInitKeeps, BootApsKeeps, StartApKeeps, WaitApKeeps
     DEF BspNext
<1>3. ASSUME NEW h \in Cpus, ApNext(h) PROVE BootInv'
  BY <1>3, EarlyKeeps, MmioKeeps, LateKeeps, LockKeeps DEF ApNext
<1> QED BY <1>1, <1>2, <1>3 DEF Next

(* BootInv is an invariant: the boot processor and the CPU that it waits   *)
(* for are the only ones that are not halted or queued for the lock.       *)
THEOREM BootInvariance == Spec => []BootInv
BY InitInv, NextInv, PTL DEF Spec

(* No two CPUs share a page of a stack, for any number of CPUs and size of *)
(* a stack: mpentry_kstack is not overwritten before its CPU has read it.  *)
THEOREM StackSafety == Spec => []StacksPrivate
<1>1. BootInv => StacksPrivate
  <2> SUFFICES ASSUME BootInv, NEW g \in Cpus, NEW h \in Cpus, g # h
               PROVE  /\ esp[g] # None => esp[g] # esp[h]
                      /\ ts_esp0[g] # None => ts_esp0[g] \notin {ts_esp0[h], esp[h]}
    BY DEF StacksPrivate
  <2>1. g \in Nat /\ h \in Nat
    BY Numbers
  <2>2. \A k \in Cpus : /\ ts_esp0[k] \in {None, Stack(percpu_kstacks(k))}
                        /\ esp[k] \in {None, Stack(percpu_kstacks(k))} \/
                           (k = 0 /\ esp[k] = Stack(bootstack))
    BY DEF BootInv, StartInv, CpuInv
  <2> QED BY <2>1, <2>2, StacksApart
<1> QED BY <1>1, BootInvariance, PTL

(* No CPU is in the scheduler before the environments are created and all  *)
(* CPUs of the table are up.                                               *)
THEOREM ScheduleSafety == Spec => []SchedulesLast
<1>1. BootInv => SchedulesLast
  <2> SUFFICES ASSUME BootInv PROVE SchedulesLast
    OBVIOUS
  <2> USE CpuSet DEF BootInv
  <2>1. created => ncpu = 0 \/ cpu_status[0] = "CPU_STARTED"
    BY DEF TableInv, AfterMp, AfterLapic
  <2>2. ASSUME NEW h \in Cpus, pc[h] \in {"sched", "running"}
        PROVE  created /\ \A k \in 0 .. ncpu - 1 : cpu_status[k] = "CPU_STARTED"
    <3>1. h # 0 /\ bsp = "running"
      BY <2>2 DEF StartInv, CpuInv
    <3>2. created /\ c >= ncpu
      BY <3>1 DEF TableInv
    <3>3. ASSUME NEW k \in 0 .. ncpu - 1
          PROVE  cpu_status[k] = "CPU_STARTED"
      <4>1. k \in Cpus /\ k \in Nat /\ c \in Nat /\ k < c
        <5>1. ncpu \in Nat /\ c \in Nat /\ k \in Cpus
          BY Counts
        <5> QED BY ONLY <3>2, <5>1, k \in 0 .. ncpu - 1
      <4>2. CASE k = 0
        <5>1. ncpu # 0
          BY ONLY <4>2, k \in 0 .. ncpu - 1
        <5> QED BY <2>1, <3>2, <4>2, <5>1
      <4>3. CASE k # 0
        <5>1. Phase(k)
          BY <4>1, <4>3 DEF StartInv, CpuInv
        <5> QED BY ONLY <4>1, <5>1 DEF Phase
      <4> QED BY <4>2, <4>3
    <3> QED BY <3>2, <3>3
  <2> QED BY <2>1, <2>2 DEF SchedulesLast
<1> QED BY <1>1, BootInvariance, PTL

(* Every CPU that has called mmio_map_region has a page of its own that    *)
(* maps the local APIC, and base counts them, although no lock is held.    *)
THEOREM LapicSafety == Spec => []LapicExact
<1>1. BootInv => LapicExact
  <2> SUFFICES ASSUME BootInv PROVE LapicExact
    OBVIOUS
  <2> USE DEF BootInv
  <2>1. lapic # 0 => pte[lapic] = LAPIC
    BY DEF MmioInv, MmioCpu
  <2>2. \A g, h \in Cpus : saved[g] # None /\ g # h => saved[g] # saved[h]
    <3>1. \A h \in Cpus : saved[h] \in {None, MMIOBASE + 3 + h}
      BY DEF MmioInv, MmioCpu
    <3> QED BY ONLY <3>1, CpuSet, MmioBase
  <2> DEFINE S == {h \in Cpus :
                     saved[h] # None /\ (IF h = 0 THEN bsp # "lapic" ELSE pc[h] # "lapic")}
  <2>3. base > MMIOBASE => base = MMIOBASE + 3 + Cardinality(S)
    <3>1. CASE bsp \in Untested \cup Stopped
      <4>1. S = {}
        <5>1. c = 0
          BY <3>1 DEF TableInv, Untested, Stopped
        <5>2. saved[0] = None
          BY <3>1, CpuSet DEF MmioInv, MmioCpu, Untested, Stopped, AfterLapic
        <5> QED BY <5>1, <5>2, Quiet
      <4>2. Cardinality(S) = 0
        BY <4>1, FS_EmptySet
      <4>3. base \in {MMIOBASE, MMIOBASE + 3}
        BY <3>1 DEF MmioInv
      <4> HIDE DEF S
      <4> QED BY <4>2, <4>3, MmioBase
    <3>2. CASE bsp \notin Untested \cup Stopped
      <4> DEFINE n == base - (MMIOBASE + 3)
      <4>1. base \in MMIOBASE + 3 .. MMIOBASE + 3 + NHW
        BY <3>2 DEF MmioInv
      <4>2. \A h \in Cpus : h \in S <=> MMIOBASE + 3 + h < base
        BY <3>2 DEF MmioInv, Reserving
      <4>3. n \in 0 .. NHW /\ base = MMIOBASE + 3 + n
        BY <4>1, MmioBase, Numbers
      <4>4. S = 0 .. n - 1
        <5> HIDE DEF n
        <5>1. \A h \in Cpus : MMIOBASE + 3 + h < base <=> h \in 0 .. n - 1
          BY <4>3, CpuSet, MmioBase
        <5>2. 0 .. n - 1 \subseteq Cpus /\ S \subseteq Cpus
          BY <4>3, Numbers
        <5> HIDE DEF S, n
        <5> QED BY <4>2, <5>1, <5>2
      <4> HIDE DEF S, n
      <4>5. Cardinality(0 .. n - 1) = n
        BY <4>3, FS_Interval
      <4> QED BY <4>3, <4>4, <4>5, MmioBase
    <3> QED BY <3>1, <3>2
  <2> QED BY <2>1, <2>2, <2>3 DEF LapicExact
<1> QED BY <1>1, BootInvariance, PTL
=============================================================================
