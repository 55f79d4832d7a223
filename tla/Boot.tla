-------------------------------- MODULE Boot --------------------------------
(***************************************************************************)
(* How the machine starts, up to the first call of the scheduler on every  *)
(* CPU: i386_init, boot_aps and mp_main of kern/init.c, mp_init of         *)
(* kern/mpconfig.c, lapic_init and lapic_startap of kern/lapic.c, and      *)
(* kern/mpentry.S.  Memory is set up first, as BootMem has it.             *)
(*                                                                         *)
(* CPU 0 is the boot processor.  The others are halted until it starts     *)
(* them, and then run with it: through mpentry.S on physical addresses,    *)
(* then on entry_pgdir, then on a stack, then in C on kern_pgdir.  They    *)
(* hold no lock before lock_kernel; what keeps them apart is that the boot *)
(* processor starts one at a time and holds the kernel lock meanwhile.     *)
(***************************************************************************)
EXTENDS BootMem

CONSTANT
  NHW                 \* bound on the CPUs of a machine, at least NCPU

Cpus == 0 .. NHW - 1
NoCpu == None
LAPIC == MAXPAGES     \* a page of physical addresses above all memory
Stack(s) == KERNBASE + s + KSTK - 1     \* the page on top of a stack

(* The entries of the table are in the order of the APIC ids, and the boot *)
(* processor is the first of the processors.                               *)
ASSUME BootAssumption ==
  /\ NHW \in Nat /\ NHW >= NCPU
  /\ \A m \in Machines :
       /\ m.mp \in {"EBDA", "base", "E0000", "F0000", "none"} /\ m.ebda \in BOOLEAN
       /\ m.table \in {"good", "default", "signature", "checksum", "version", "extended"}
       /\ m.cpus \in 1 .. NHW
       /\ Len(SelectSeq(m.entries, LAMBDA t : t = "MPPROC")) = m.cpus

VARIABLES
  pc,                 \* where the other CPUs are
  cr3, esp,           \* of each CPU
  ts_esp0,            \* the stack that a trap switches to, by index into cpus[]
  entry,              \* entries of the table that mp_init has seen
  ismp, ncpu, lapicaddr,
  cpu_status,
  lapic,              \* virtual page of the local APIC, 0 at first
  saved,              \* local of mmio_map_region, on each CPU
  code,               \* has the entry code been copied to MPENTRY_PADDR?
  c,                  \* local of boot_aps
  mpentry_kstack,
  lock,               \* who holds the kernel lock
  created             \* have the first environments been created?

cpuVars == <<pc, cr3, esp, ts_esp0>>
mpVars == <<entry, ismp, ncpu, lapicaddr, cpu_status>>
apVars == <<code, c, mpentry_kstack>>
lapicVars == <<lapic, saved>>
smpVars == <<cpuVars, mpVars, apVars, lapicVars, lock, created>>
vars == <<memVars, bsp, smpVars>>

Init ==
  /\ MemInit
  /\ pc = [h \in Cpus |-> "halted"]
  /\ cr3 = [h \in Cpus |-> IF h = 0 THEN "entry_pgdir" ELSE "off"]
  /\ esp = [h \in Cpus |-> IF h = 0 THEN Stack(bootstack) ELSE None]
  /\ ts_esp0 = [k \in Cpus |-> None]
  /\ entry = 0 /\ ismp = FALSE /\ ncpu = 0 /\ lapicaddr = 0
  /\ cpu_status = [k \in Cpus |-> "CPU_UNUSED"]
  /\ lapic = 0 /\ saved = [h \in Cpus |-> None]
  /\ code = FALSE /\ c = 0 /\ mpentry_kstack = None
  /\ lock = NoCpu /\ created = FALSE

(* Steps of the boot processor that leave memory alone.                    *)
Boots(l, next) == bsp = l /\ bsp' = next

-----------------------------------------------------------------------------
(* The end of mem_init loads kern_pgdir; then env_init and trap_init.      *)
LoadKernPgdir ==
  /\ Boots("lcr3", "check_list0")
  /\ cr3' = [cr3 EXCEPT ![0] = "kern_pgdir"]
  /\ UNCHANGED <<memVars, pc, esp, ts_esp0, mpVars, apVars, lapicVars, lock, created>>

(* trap_init_percpu on CPU h, whose number is 0 while lapic is null.       *)
cpunum_First(h) == 0
cpunum(h) == IF lapic = 0 THEN 0 ELSE h
trap_init_percpu(h) ==
  ts_esp0' = [ts_esp0 EXCEPT ![cpunum(h)] = Stack(percpu_kstacks(cpunum(h)))]
TrapInit ==
  /\ Boots("percpu", "mp_init")
  /\ trap_init_percpu(0)
  /\ UNCHANGED <<memVars, pc, cr3, esp, mpVars, apVars, lapicVars, lock, created>>

(* mpsearch and mpconfig: where the structure is looked for, and what is   *)
(* tested of the table.                                                    *)
mpsearch == \/ machine.ebda /\ machine.mp = "EBDA"
            \/ ~machine.ebda /\ machine.mp = "base"
            \/ machine.mp = "F0000"
mpconfig == mpsearch /\ machine.table = "good"

(* mp_init: without a table it returns with ncpu still 0; otherwise the    *)
(* entries, one per step, and the end of the function.                     *)
NoTable ==
  /\ Boots("mp_init", "lapic_init") /\ ~mpconfig
  /\ UNCHANGED <<memVars, cpuVars, mpVars, apVars, lapicVars, lock, created>>
HasTable ==
  /\ Boots("mp_init", "entries") /\ mpconfig
  /\ ismp' = TRUE /\ lapicaddr' = LAPIC
  /\ UNCHANGED <<memVars, cpuVars, entry, ncpu, cpu_status, apVars, lapicVars, lock,
                 created>>
AddCpu == IF ncpu < NCPU THEN ncpu + 1 ELSE ncpu
Entry ==
  /\ bsp = "entries" /\ entry < Len(machine.entries)
  /\ CASE machine.entries[entry + 1] = "MPPROC" ->
            ncpu' = AddCpu /\ entry' = entry + 1 /\ UNCHANGED ismp
       [] machine.entries[entry + 1] = "other" ->
            entry' = entry + 1 /\ UNCHANGED <<ncpu, ismp>>
       [] OTHER -> ismp' = FALSE /\ entry' = Len(machine.entries) /\ UNCHANGED ncpu
  /\ UNCHANGED <<memVars, bsp, cpuVars, lapicaddr, cpu_status, apVars, lapicVars, lock,
                 created>>
MpInit ==
  /\ Boots("entries", "lapic_init") /\ entry = Len(machine.entries)
  /\ cpu_status' = [cpu_status EXCEPT ![0] = "CPU_STARTED"]
  /\ IF ismp THEN UNCHANGED <<ncpu, lapicaddr>> ELSE ncpu' = 1 /\ lapicaddr' = 0
  /\ UNCHANGED <<memVars, cpuVars, entry, ismp, apVars, lapicVars, lock, created>>

-----------------------------------------------------------------------------
(* mmio_map_region, as lapic_init calls it, in two steps: the page is      *)
(* mapped at base, then base is moved and lapic set.                       *)
mmio_map(h) ==
  /\ pte' = [pte EXCEPT ![base] = lapicaddr]
  /\ saved' = [saved EXCEPT ![h] = base]
mmio_reserve_Kept(h) == UNCHANGED base /\ lapic' = saved[h]
mmio_reserve(h) ==
  /\ base' = saved[h] + 1
  /\ lapic' = saved[h]
unmappedVars == <<machine, sizeVars, nextfree, boot, listVars, i, prev, pgdir, region, off>>

LapicInit ==
  \/ /\ Boots("lapic_init", "lock") /\ lapicaddr = 0
     /\ UNCHANGED <<memVars, smpVars>>
  \/ /\ Boots("lapic_init", "lapic") /\ lapicaddr # 0
     /\ mmio_map(0)
     /\ UNCHANGED <<unmappedVars, base, cpuVars, mpVars, apVars, lapic, lock, created>>
  \/ /\ Boots("lapic", "lock")
     /\ mmio_reserve(0)
     /\ UNCHANGED <<unmappedVars, pte, cpuVars, mpVars, apVars, saved, lock, created>>

-----------------------------------------------------------------------------
(* boot_aps, with the kernel lock held.                                    *)
TakesLock == lock = NoCpu /\ lock' = 0
LockKernel ==
  /\ Boots("lock", "copy") /\ TakesLock
  /\ UNCHANGED <<memVars, cpuVars, mpVars, apVars, lapicVars, created>>
CopyEntry ==
  /\ Boots("copy", "boot_aps")
  /\ code' = TRUE
  /\ UNCHANGED <<memVars, cpuVars, mpVars, c, mpentry_kstack, lapicVars, lock, created>>
SkipSelf ==
  /\ bsp = "boot_aps" /\ c < ncpu /\ c = cpunum(0)
  /\ c' = c + 1
  /\ UNCHANGED <<memVars, bsp, cpuVars, mpVars, code, mpentry_kstack, lapicVars, lock,
                 created>>
(* The startup interrupt makes a halted CPU with that APIC id run at       *)
(* MPENTRY_PADDR; the second one finds it running.                         *)
StartAp ==
  /\ Boots("boot_aps", "wait") /\ c < ncpu /\ c # cpunum(0)
  /\ mpentry_kstack' = Stack(percpu_kstacks(c))
  /\ pc' = [pc EXCEPT ![c] = "entry"]
  /\ UNCHANGED <<memVars, cr3, esp, ts_esp0, mpVars, code, c, lapicVars, lock, created>>
IsUp_Unchecked == TRUE
IsUp == cpu_status[c] = "CPU_STARTED"
WaitAp ==
  /\ Boots("wait", "boot_aps") /\ IsUp
  /\ c' = c + 1
  /\ UNCHANGED <<memVars, cpuVars, mpVars, code, mpentry_kstack, lapicVars, lock, created>>
AllStarted ==
  /\ Boots("boot_aps", "create") /\ c >= ncpu
  /\ UNCHANGED <<memVars, smpVars>>

(* ENV_CREATE, kbd_intr, sched_yield; the scheduler lets the lock go when  *)
(* it runs an environment or halts.                                        *)
EnvCreate ==
  /\ Boots("create", "sched")
  /\ created' = TRUE
  /\ UNCHANGED <<memVars, cpuVars, mpVars, apVars, lapicVars, lock>>
BspLeaves ==
  /\ Boots("sched", "running")
  /\ lock' = NoCpu
  /\ UNCHANGED <<memVars, cpuVars, mpVars, apVars, lapicVars, created>>

-----------------------------------------------------------------------------
(* mpentry.S and mp_main, on CPU h.                                        *)
Runs(h, l, next) == pc[h] = l /\ pc' = [pc EXCEPT ![h] = next]

EntryPgdir_Kernel == "kern_pgdir"
EntryPgdir == "entry_pgdir"
TurnOnPaging(h) ==
  /\ Runs(h, "entry", "paged")
  /\ cr3' = [cr3 EXCEPT ![h] = EntryPgdir]
  /\ UNCHANGED <<memVars, bsp, esp, ts_esp0, mpVars, apVars, lapicVars, lock, created>>
LoadStack(h) ==
  /\ Runs(h, "paged", "stacked")
  /\ esp' = [esp EXCEPT ![h] = mpentry_kstack]
  /\ UNCHANGED <<memVars, bsp, cr3, ts_esp0, mpVars, apVars, lapicVars, lock, created>>
MpMain(h) ==
  /\ Runs(h, "stacked", "lapic_init")
  /\ cr3' = [cr3 EXCEPT ![h] = "kern_pgdir"]
  /\ UNCHANGED <<memVars, bsp, esp, ts_esp0, mpVars, apVars, lapicVars, lock, created>>
ApMmio(h) ==
  /\ Runs(h, "lapic_init", "lapic")
  /\ mmio_map(h)
  /\ UNCHANGED <<unmappedVars, base, bsp, cr3, esp, ts_esp0, mpVars, apVars, lapic, lock,
                 created>>
ApLapic(h) ==
  /\ Runs(h, "lapic", "percpu")
  /\ mmio_reserve(h)
  /\ UNCHANGED <<unmappedVars, pte, bsp, cr3, esp, ts_esp0, mpVars, apVars, saved, lock,
                 created>>
ApTrapInit(h) ==
  /\ Runs(h, "percpu", "up")
  /\ trap_init_percpu(h)
  /\ UNCHANGED <<memVars, bsp, cr3, esp, mpVars, apVars, lapicVars, lock, created>>
ApStarted(h) ==
  /\ Runs(h, "up", "lock")
  /\ cpu_status' = [cpu_status EXCEPT ![cpunum(h)] = "CPU_STARTED"]
  /\ UNCHANGED <<memVars, bsp, cr3, esp, ts_esp0, entry, ismp, ncpu, lapicaddr, apVars,
                 lapicVars, lock, created>>
ApLock(h) ==
  /\ Runs(h, "lock", "sched")
  /\ lock = NoCpu /\ lock' = h
  /\ UNCHANGED <<memVars, bsp, cr3, esp, ts_esp0, mpVars, apVars, lapicVars, created>>
ApLeaves(h) ==
  /\ Runs(h, "sched", "running")
  /\ lock' = NoCpu
  /\ UNCHANGED <<memVars, bsp, cr3, esp, ts_esp0, mpVars, apVars, lapicVars, created>>

BspNext ==
  \/ MemNext /\ UNCHANGED smpVars
  \/ LoadKernPgdir \/ TrapInit \/ NoTable \/ HasTable \/ Entry \/ MpInit \/ LapicInit
  \/ LockKernel \/ CopyEntry \/ SkipSelf \/ StartAp \/ WaitAp \/ AllStarted
  \/ EnvCreate \/ BspLeaves
ApNext(h) ==
  \/ TurnOnPaging(h) \/ LoadStack(h) \/ MpMain(h) \/ ApMmio(h) \/ ApLapic(h)
  \/ ApTrapInit(h) \/ ApStarted(h) \/ ApLock(h) \/ ApLeaves(h)
Next == BspNext \/ \E h \in Cpus : ApNext(h)
Spec == Init /\ [][Next]_vars

(* Every CPU goes on executing.  None takes the lock twice here, so a      *)
(* spinning CPU needs no more than that.                                   *)
FairSpec == Spec /\ WF_vars(BspNext) /\ \A h \in Cpus : WF_vars(ApNext(h))

-----------------------------------------------------------------------------
Early == {"entry", "paged", "stacked"}
Setup == Early \cup {"lapic_init", "lapic", "percpu", "up"}
TypeOK ==
  /\ page_free_list \in Pages /\ npages \in 0 .. MAXPAGES
  /\ pp_ref \in [Pages -> 0 .. 1] /\ pp_link \in [Pages -> Pages]
  /\ pgdir \in [0 .. 5 + KWIN -> Pages]
  /\ pc \in [Cpus -> {"halted", "lock", "sched", "running"} \cup Setup]
  /\ esp \in [Cpus -> Virtual \cup {None}] /\ lock \in Cpus \cup {NoCpu}
  /\ ncpu \in 0 .. NCPU /\ c \in 0 .. NCPU

(* Where a CPU executes, and its stack; before mp_main is called it runs   *)
(* at the low address of the entry code.                                   *)
Eip(h) == IF pc[h] \in Early THEN MPENTRY ELSE KERNBASE + text
Maps(h, va) == CASE cr3[h] = "entry_pgdir" -> entry_pgdir(va)
                 [] cr3[h] = "kern_pgdir" -> va2pa(va)
                 [] OTHER -> va

(* Whatever page directory a CPU has loaded, it maps the code that the CPU *)
(* executes, the entry code included, and its stack, to the right pages.   *)
AlwaysMapped ==
  /\ TypeOK
  /\ \A h \in Cpus : pc[h] # "halted" \/ h = 0 =>
       /\ Maps(h, Eip(h)) = (IF Eip(h) = MPENTRY THEN MPENTRY ELSE text)
       /\ Eip(h) = MPENTRY => code
       /\ esp[h] # None => Maps(h, esp[h]) = esp[h] - KERNBASE

(* No two CPUs have a page of a stack in common, neither the one they      *)
(* start on nor the one a trap switches to.                                *)
StacksPrivate ==
  \A g, h \in Cpus : g # h =>
    /\ esp[g] # None => esp[g] # esp[h]
    /\ ts_esp0[g] # None => ts_esp0[g] \notin {ts_esp0[h], esp[h]}

(* The CPUs change kern_pgdir, base and lapic without a lock, and yet each *)
(* has its own page of MMIO, and lapic is one that is mapped.              *)
LapicExact ==
  /\ lapic # 0 => pte[lapic] = LAPIC
  /\ \A g, h \in Cpus : saved[g] # None /\ g # h => saved[g] # saved[h]
  /\ base > MMIOBASE => base = MMIOBASE + 3 + Cardinality({h \in Cpus :
       saved[h] # None /\ (IF h = 0 THEN bsp # "lapic" ELSE pc[h] # "lapic")})

(* No CPU is in the scheduler before the environments are created and all  *)
(* CPUs of the table are up.                                               *)
SchedulesLast ==
  /\ \A h \in Cpus : pc[h] \in {"sched", "running"} =>
       created /\ \A k \in 0 .. ncpu - 1 : cpu_status[k] = "CPU_STARTED"
  /\ created => ncpu = 0 \/ cpu_status[0] = "CPU_STARTED"

(* The inductive invariant behind the last three, for every number of      *)
(* CPUs.  Where the boot processor is: in mem_init before and after the    *)
(* self-test that moves base, past mp_init, past lapic_init, and in        *)
(* boot_aps with the kernel lock held.                                     *)
Untested == {"detect", "kern_pgdir", "pages", "envs", "page_init", "base", "ext",
             "check_list", "check_alloc", "check_page"}
Tested == {"map", "check_list0", "check_installed", "lcr3", "percpu"}
Stopped == {"panic", "reset"}
AfterLapic == {"lock", "copy", "boot_aps", "wait", "create", "sched", "running"}
AfterMp == {"lapic_init", "lapic"} \cup AfterLapic
Locked == {"copy", "boot_aps", "wait", "create", "sched"}
Queued == {"lock", "sched", "running"}

(* What the boot processor knows of the table, and that it has the lock.   *)
TableInv ==
  /\ bsp \in Untested \cup Tested \cup Stopped \cup {"mp_init", "entries"} \cup AfterMp
  /\ ncpu \in 0 .. NCPU /\ c \in 0 .. NCPU /\ lapicaddr \in {0, LAPIC}
  /\ bsp \notin {"entries"} \cup AfterMp => ncpu = 0 /\ lapicaddr = 0
  /\ bsp \in {"entries", "lapic"} => lapicaddr = LAPIC
  /\ bsp \in AfterMp => /\ lapicaddr = 0 => ncpu <= 1
                        /\ ncpu # 0 => cpu_status[0] = "CPU_STARTED"
  /\ bsp \in Locked => lock = 0
  /\ bsp \notin {"boot_aps", "wait", "create", "sched", "running"} => c = 0
  /\ bsp = "wait" => c # 0 /\ c < ncpu
  /\ bsp \in {"create", "sched", "running"} => c >= ncpu
  /\ created <=> bsp \in {"sched", "running"}

(* Only the CPU that the boot processor waits for is being set up.         *)
Phase(h) ==
  \/ /\ pc[h] = "halted" /\ cpu_status[h] = "CPU_UNUSED"
     /\ h >= c /\ (h = c => bsp # "wait")
  \/ pc[h] \in Setup /\ cpu_status[h] = "CPU_UNUSED" /\ bsp = "wait" /\ h = c
  \/ /\ pc[h] \in Queued /\ cpu_status[h] = "CPU_STARTED"
     /\ h < c \/ (h = c /\ bsp = "wait")
CpuInv(h) ==
  /\ Phase(h)
  /\ pc[h] \in {"sched", "running"} => bsp = "running"
  /\ esp[h] = IF pc[h] \in {"halted", "entry", "paged"} THEN None
              ELSE Stack(percpu_kstacks(h))
  /\ pc[h] \in {"entry", "paged"} => mpentry_kstack = Stack(percpu_kstacks(h))
StartInv ==
  /\ DOMAIN pc = Cpus /\ DOMAIN esp = Cpus /\ DOMAIN ts_esp0 = Cpus
  /\ DOMAIN cpu_status = Cpus
  /\ pc[0] = "halted" /\ esp[0] = Stack(bootstack)
  /\ \A h \in Cpus \ {0} : CpuInv(h)
  /\ \A h \in Cpus : ts_esp0[h] \in {None, Stack(percpu_kstacks(h))}

(* CPU h gets the page of MMIO space with its own number.                  *)
Reserving(h) == IF h = 0 THEN bsp = "lapic" ELSE pc[h] = "lapic"
MmioCpu(h) ==
  /\ saved[h] \in {None, MMIOBASE + 3 + h}
  /\ saved[h] # None <=>
       IF h = 0 THEN bsp \in {"lapic"} \cup AfterLapic /\ lapicaddr # 0
       ELSE pc[h] \in {"lapic", "percpu", "up"} \cup Queued
  /\ saved[h] # None => pte[saved[h]] = LAPIC
MmioInv ==
  /\ DOMAIN pte = Virtual /\ DOMAIN saved = Cpus
  /\ bsp \in Untested => base = MMIOBASE
  /\ bsp \in Stopped => base \in {MMIOBASE, MMIOBASE + 3}
  /\ bsp \notin Untested \cup Stopped =>
       /\ base \in MMIOBASE + 3 .. MMIOBASE + 3 + NHW
       /\ \A h \in Cpus : (saved[h] # None /\ ~Reserving(h)) <=> MMIOBASE + 3 + h < base
  /\ \A h \in Cpus : MmioCpu(h)
  /\ lapic = 0 \/ \E h \in Cpus : saved[h] # None /\ lapic = saved[h]
  /\ bsp \in AfterLapic /\ lapicaddr # 0 => lapic # 0

(* The inductive invariant: the boot processor starts one CPU at a time,   *)
(* and each has its own stack and page of MMIO when it queues for the lock. *)
BootInv == TableInv /\ StartInv /\ MmioInv

(* A machine with enough memory boots: none of the asserts of mem_init's   *)
(* self-tests fails, nothing is written to memory that is not mapped yet,  *)
(* and the boot processor and every CPU that the firmware's table lists,   *)
(* up to NCPU, get through the scheduler.                                  *)
Listed == IF mpconfig /\ "unknown" \notin Range(machine.entries)
          THEN {h \in Cpus : h < machine.cpus /\ h < NCPU} ELSE {0}
BootCompletes ==
  <>(\/ bsp \in {"panic", "reset"} /\ ~Enough
     \/ bsp = "running" /\ \A h \in Listed \ {0} : pc[h] = "running")
=============================================================================
