--------------------------------- MODULE Smp ---------------------------------
(***************************************************************************)
(* Environments, CPUs, the big kernel lock and the scheduler of JOS.       *)
(*                                                                         *)
(* Every CPU runs its own copy of the kernel: it executes some environment *)
(* in user mode, traps, spins for the big kernel lock, handles the trap,   *)
(* and leaves the kernel through env_run or sched_halt.  The module keeps  *)
(* the whole life cycle of an environment (env_alloc, env_run, env_destroy,*)
(* env_free, blocking and waking in IPC) and every interleaving of the     *)
(* CPUs.  Between lock_kernel and unlock_kernel a CPU takes one step per   *)
(* function of the kernel; the other CPUs run user code or spin meanwhile. *)
(*                                                                         *)
(* Memory is left to module Vm: here an address space is named by the      *)
(* environment slot that owns it, and a memory error of a system call is a *)
(* nondeterministic failure.                                               *)
(***************************************************************************)
EXTENDS Integers, Sequences, Functions

CONSTANTS
  Cpus,       \* the CPUs found by mp_init
  BootCpu,    \* the CPU that runs i386_init
  NENV,       \* size of the envs[] array
  NINIT,      \* environments i386_init creates before the first sched_yield
  NGEN,       \* generations of an envid_t: 2^31 / (1 << ENVGENSHIFT) - 1
  Traps,      \* the traps that occur in this instance
  Calls,      \* the system calls the user programs of this instance make
  Liberties,  \* uses of the calls that the user library never makes
  NoEnv, NoCpu, KernPgdir   \* NULL curenv, free lock, kern_pgdir

Slots == 0 .. NENV - 1

(* An envid_t is a generation and a slot in bit fields of their own; 0 is  *)
(* the caller's name for itself and the id of a slot never used.           *)
ZeroId == <<0, 0>>
EnvIds == {ZeroId} \cup ((1 .. NGEN) \X Slots)

ASSUME ConstantsAssumption ==
  /\ NENV \in Nat \ {0} /\ NGEN \in Nat \ {0, 1}
  /\ NINIT \in 1 .. NENV
  /\ BootCpu \in Cpus /\ NoCpu \notin Cpus
  /\ NoEnv \notin Slots /\ KernPgdir \notin Slots
  /\ Traps \subseteq {"SYSCALL", "TIMER", "DEVICE", "PGFLT", "OTHER"}

VARIABLES
  env_status, env_id, env_parent_id, env_runs,  \* struct Env, per slot
  env_ipc_recving,
  env_free_list,    \* slots, the head first
  curenv,           \* cpu_env of each CPU
  cr3,              \* slot whose page directory the CPU has loaded
  cpu_status,
  kernel_lock,      \* the CPU holding the big kernel lock, or NoCpu
  pc,               \* where each CPU is
  trapno,           \* the trap a CPU is handling
  panicstr          \* has the kernel panicked?

envVars == <<env_status, env_id, env_parent_id, env_runs, env_ipc_recving,
             env_free_list>>
cpuVars == <<curenv, cr3, cpu_status, kernel_lock>>
vars == <<envVars, cpuVars, pc, trapno, panicstr>>

Status == {"ENV_FREE", "ENV_DYING", "ENV_RUNNABLE", "ENV_RUNNING",
           "ENV_NOT_RUNNABLE"}

Trapnos == Traps \cup {"NONE"}

(* user, pop: outside the kernel, in user mode or restoring the registers. *)
(* start, trap, wake: spinning in lock_kernel, called by mp_main, by a     *)
(* trap from user mode, by a trap that ended a halt.                       *)
(* entry, dispatch, ret, sched, monitor: in the kernel, lock held.         *)
(* halted, dead: hlt in sched_halt, hlt after another CPU's panic.         *)
Phases == {"user", "pop", "start", "trap", "wake", "entry", "dispatch",
           "ret", "sched", "monitor", "halted", "dead"}

InKernel(c) == pc[c] \in {"entry", "dispatch", "ret", "sched", "monitor"}

-----------------------------------------------------------------------------
(* After i386_init: the application processors have been started one by    *)
(* one and wait for the lock in mp_main, the first NINIT slots hold the    *)
(* environments made by env_create, and the boot CPU, which holds the lock,*)
(* is about to call sched_yield.                                           *)
Init ==
  /\ env_status = [e \in Slots |-> IF e < NINIT THEN "ENV_RUNNABLE"
                                                ELSE "ENV_FREE"]
  /\ env_id = [e \in Slots |-> IF e < NINIT THEN <<1, e>> ELSE ZeroId]
  /\ env_parent_id = [e \in Slots |-> ZeroId]
  /\ env_runs = [e \in Slots |-> 0]
  /\ env_ipc_recving = [e \in Slots |-> FALSE]
  /\ env_free_list = [i \in 1 .. NENV - NINIT |-> NINIT + i - 1]
  /\ curenv = [c \in Cpus |-> NoEnv]
  /\ cr3 = [c \in Cpus |-> KernPgdir]
  /\ cpu_status = [c \in Cpus |-> "CPU_STARTED"]
  /\ kernel_lock = BootCpu
  /\ pc = [c \in Cpus |-> IF c = BootCpu THEN "sched" ELSE "start"]
  /\ trapno = [c \in Cpus |-> "NONE"]
  /\ panicstr = FALSE

Goto(c, phase) == pc' = [pc EXCEPT ![c] = phase]

(* trap_dispatch is over: back in trap(), or in a function that never      *)
(* returns to it.                                                          *)
EndTrap(c, phase) ==
  /\ Goto(c, phase)
  /\ trapno' = [trapno EXCEPT ![c] = "NONE"]

-----------------------------------------------------------------------------
(* Entering the kernel.                                                    *)

(* trap(), up to the first lock_kernel: an environment traps.              *)
TrapUser(c, no) ==
  /\ pc[c] = "user"
  /\ IF panicstr THEN Goto(c, "dead") /\ UNCHANGED trapno
                 ELSE /\ Goto(c, "trap")
                      /\ trapno' = [trapno EXCEPT ![c] = no]
  /\ UNCHANGED <<envVars, cpuVars, panicstr>>

(* The same for an interrupt that ends a halt: cpu_status tells trap() to  *)
(* take the lock although the trap comes from kernel mode.                 *)
TrapHalted(c, no) ==
  /\ pc[c] = "halted"
  /\ IF panicstr THEN /\ Goto(c, "dead")
                      /\ UNCHANGED <<cpu_status, trapno>>
                 ELSE /\ cpu_status' = [cpu_status EXCEPT ![c] = "CPU_STARTED"]
                      /\ Goto(c, "wake")
                      /\ trapno' = [trapno EXCEPT ![c] = no]
  /\ UNCHANGED <<envVars, curenv, cr3, kernel_lock, panicstr>>

(* The xchg of spin_lock finds the lock free.                              *)
LockIsFree == kernel_lock = NoCpu

LockKernel(c) ==
  /\ pc[c] \in {"start", "trap", "wake"}
  /\ LockIsFree
  /\ kernel_lock' = c
  /\ Goto(c, CASE pc[c] = "start" -> "sched"
               [] pc[c] = "trap" -> "entry"
               [] pc[c] = "wake" -> "dispatch")
  /\ UNCHANGED <<envVars, curenv, cr3, cpu_status, trapno, panicstr>>

-----------------------------------------------------------------------------
(* Environments.                                                           *)

(* env_free switches to kern_pgdir before it frees the current directory.  *)
PgdirAfterFree_NotSwitched(c, e) == cr3[c]
PgdirAfterFree(c, e) == IF e = curenv[c] THEN KernPgdir ELSE cr3[c]

PushFree(e) == <<e>> \o env_free_list

(* env_free by CPU c.  The slot keeps its env_id for the next generation.  *)
EnvFree(c, e) ==
  /\ env_status' = [env_status EXCEPT ![e] = "ENV_FREE"]
  /\ env_free_list' = PushFree(e)
  /\ cr3' = [cr3 EXCEPT ![c] = PgdirAfterFree(c, e)]

(* env_destroy by CPU c, called from a trap handler.                       *)
EnvDestroy(c, e) ==
  \/ /\ env_status[e] = "ENV_RUNNING" /\ curenv[c] # e
     /\ env_status' = [env_status EXCEPT ![e] = "ENV_DYING"]
     /\ EndTrap(c, "ret")
     /\ UNCHANGED <<env_free_list, cr3, curenv>>
  \/ /\ ~(env_status[e] = "ENV_RUNNING" /\ curenv[c] # e)
     /\ EnvFree(c, e)
     /\ IF curenv[c] = e
        THEN curenv' = [curenv EXCEPT ![c] = NoEnv] /\ EndTrap(c, "sched")
        ELSE UNCHANGED curenv /\ EndTrap(c, "ret")

ENVX(id) == id[2]

(* An id is the bits from ENVGENSHIFT up, which the mask ~(NENV - 1)       *)
(* leaves, and the slot below.  So env_id + (1 << ENVGENSHIFT) is one more *)
(* in the upper bits.  They are those of an int32_t: NGEN is the greatest  *)
(* that is positive, and one more wraps round to the least.                *)
Wrapped(g) == IF g > NGEN THEN g - 2 * (NGEN + 1) ELSE g
NextGeneration_Constant(id) == 1
NextGeneration(id) ==
  LET generation == Wrapped(id[1] + 1)
  IN  IF generation <= 0 THEN 1 ELSE generation

StopRecving_Forgotten(e) == env_ipc_recving
StopRecving(e) == [env_ipc_recving EXCEPT ![e] = FALSE]

(* env_alloc takes slot e for a child of environment id parent.            *)
EnvAlloc(e, parent, status) ==
  /\ env_free_list # <<>> /\ e = Head(env_free_list)
  /\ env_id' = [env_id EXCEPT ![e] = <<NextGeneration(@), e>>]
  /\ env_parent_id' = [env_parent_id EXCEPT ![e] = parent]
  /\ env_status' = [env_status EXCEPT ![e] = status]
  /\ env_runs' = [env_runs EXCEPT ![e] = 0]
  /\ env_ipc_recving' = StopRecving(e)
  /\ env_free_list' = Tail(env_free_list)

(* A context switch sends the old environment back to the run queue.       *)
SwitchedFrom(c, f) ==
  IF f = curenv[c] /\ env_status[f] = "ENV_RUNNING" THEN "ENV_RUNNABLE"
                                                    ELSE env_status[f]

(* env_run by CPU c, up to unlock_kernel.  env_runs only tells whether the *)
(* environment has ever run.                                               *)
EnvRun(c, e) ==
  /\ env_status' = [f \in Slots |-> IF f = e THEN "ENV_RUNNING"
                                            ELSE SwitchedFrom(c, f)]
  /\ env_runs' = [env_runs EXCEPT ![e] = 1]
  /\ curenv' = [curenv EXCEPT ![c] = e]
  /\ cr3' = [cr3 EXCEPT ![c] = e]
  /\ kernel_lock' = NoCpu
  /\ EndTrap(c, "pop")
  /\ UNCHANGED <<env_id, env_parent_id, env_ipc_recving, env_free_list,
                 cpu_status, panicstr>>

(* env_pop_tf, which runs after the lock has been released.                *)
EnvPopTf(c) ==
  /\ pc[c] = "pop"
  /\ Goto(c, "user")
  /\ UNCHANGED <<envVars, cpuVars, trapno, panicstr>>

-----------------------------------------------------------------------------
(* Leaving the kernel: sched_yield and sched_halt.                         *)

Runnable_OrRunning ==
  {e \in Slots : env_status[e] \in {"ENV_RUNNABLE", "ENV_RUNNING"}}
Runnable == {e \in Slots : env_status[e] = "ENV_RUNNABLE"}

(* CPU c's circular search, and how far it goes before it looks at slot e. *)
SearchStart_Zero(c) == 0
SearchStart(c) == IF curenv[c] = NoEnv THEN 0 ELSE (curenv[c] + 1) % NENV
SearchDistance(c, e) == (e + NENV - SearchStart(c)) % NENV

FirstRunnable(c, e) ==
  /\ e \in Runnable
  /\ \A f \in Runnable : SearchDistance(c, e) <= SearchDistance(c, f)

CurrentStillRunning(c) ==
  curenv[c] # NoEnv /\ env_status[curenv[c]] = "ENV_RUNNING"

SchedRunNext(c) ==
  /\ pc[c] = "sched"
  /\ \E e \in Slots : FirstRunnable(c, e) /\ EnvRun(c, e)

SchedRunSame(c) ==
  /\ pc[c] = "sched"
  /\ Runnable = {} /\ CurrentStillRunning(c)
  /\ EnvRun(c, curenv[c])

NothingToRun_NoDying ==
  \A e \in Slots : env_status[e] \notin {"ENV_RUNNABLE", "ENV_RUNNING"}
NothingToRun ==
  \A e \in Slots : env_status[e] \in {"ENV_FREE", "ENV_NOT_RUNNABLE"}

SchedHalt(c) ==
  /\ pc[c] = "sched"
  /\ Runnable = {} /\ ~CurrentStillRunning(c)
  /\ ~NothingToRun
  /\ curenv' = [curenv EXCEPT ![c] = NoEnv]
  /\ cr3' = [cr3 EXCEPT ![c] = KernPgdir]
  /\ cpu_status' = [cpu_status EXCEPT ![c] = "CPU_HALTED"]
  /\ kernel_lock' = NoCpu
  /\ Goto(c, "halted")
  /\ UNCHANGED <<envVars, trapno, panicstr>>

(* No environment can ever run again: the kernel monitor, lock held.       *)
SchedMonitor(c) ==
  /\ pc[c] = "sched"
  /\ Runnable = {} /\ NothingToRun
  /\ Goto(c, "monitor")
  /\ UNCHANGED <<envVars, cpuVars, trapno, panicstr>>

(* The monitor reads commands for ever and changes nothing here.           *)
Monitor(c) == pc[c] = "monitor" /\ UNCHANGED vars

-----------------------------------------------------------------------------
(* Handling a trap, lock held.                                             *)

IsZombie_Unchecked(c) == FALSE
IsZombie(c) == env_status[curenv[c]] = "ENV_DYING"

(* trap() after lock_kernel, for a trap from user mode: assert(curenv),    *)
(* then a zombie is freed and never returns to user mode.                  *)
TrapEntry(c) ==
  /\ pc[c] = "entry"
  /\ curenv[c] # NoEnv
  /\ IF IsZombie(c)
     THEN /\ EnvFree(c, curenv[c])
          /\ curenv' = [curenv EXCEPT ![c] = NoEnv]
          /\ EndTrap(c, "sched")
     ELSE /\ Goto(c, "dispatch")
          /\ UNCHANGED <<env_status, env_free_list, cr3, curenv, trapno>>
  /\ UNCHANGED <<env_id, env_parent_id, env_runs, env_ipc_recving,
                 cpu_status, kernel_lock, panicstr>>

(* The end of trap(): resume the current environment if that makes sense.  *)
TrapReturn(c) ==
  /\ pc[c] = "ret"
  /\ IF CurrentStillRunning(c)
     THEN EnvRun(c, curenv[c])
     ELSE /\ Goto(c, "sched")
          /\ UNCHANGED <<envVars, cpuVars, trapno, panicstr>>

Dispatching(c, no) == pc[c] = "dispatch" /\ trapno[c] = no

(* The clock: acknowledge and call sched_yield.                            *)
DispatchTimer(c) ==
  /\ Dispatching(c, "TIMER")
  /\ EndTrap(c, "sched")
  /\ UNCHANGED <<envVars, cpuVars, panicstr>>

(* Keyboard, serial line, spurious interrupt, breakpoint.                  *)
DispatchDevice(c) ==
  /\ Dispatching(c, "DEVICE")
  /\ EndTrap(c, "ret")
  /\ UNCHANGED <<envVars, cpuVars, panicstr>>

(* page_fault_handler: run the environment's upcall, or destroy it when it *)
(* has none or when its exception stack is not usable.                     *)
DispatchPageFault(c) ==
  /\ Dispatching(c, "PGFLT")
  /\ \/ EnvRun(c, curenv[c])
     \/ /\ EnvDestroy(c, curenv[c])
        /\ UNCHANGED <<env_id, env_parent_id, env_runs, env_ipc_recving,
                       cpu_status, kernel_lock, panicstr>>

(* Any other trap destroys the environment that caused it.                 *)
DispatchOther(c) ==
  /\ Dispatching(c, "OTHER")
  /\ EnvDestroy(c, curenv[c])
  /\ UNCHANGED <<env_id, env_parent_id, env_runs, env_ipc_recving,
                 cpu_status, kernel_lock, panicstr>>

-----------------------------------------------------------------------------
(* System calls.                                                           *)

Syscall(c, call) == Dispatching(c, "SYSCALL") /\ call \in Calls

(* The slots envid2env finds for an envid: one, or none for -E_BAD_ENV.    *)
Envid2env(c, id, checkperm) ==
  IF id = ZeroId THEN {curenv[c]}
  ELSE {e \in {ENVX(id)} :
          /\ env_status[e] # "ENV_FREE" /\ env_id[e] = id
          /\ checkperm => \/ e = curenv[c]
                          \/ env_parent_id[e] = env_id[curenv[c]]}

(* A call that returns without touching environments or CPUs: the console  *)
(* and memory calls, sys_getenvid, sys_env_set_pgfault_upcall, and every   *)
(* call that fails, for instance sys_exofork without memory, an envid that *)
(* is stale or not a child's, a send whose page cannot be transferred.     *)
SysNoChange(c) ==
  /\ Dispatching(c, "SYSCALL")
  /\ EndTrap(c, "ret")
  /\ UNCHANGED <<envVars, cpuVars, panicstr>>

SysYield(c) ==
  /\ Syscall(c, "yield")
  /\ EndTrap(c, "sched")
  /\ UNCHANGED <<envVars, cpuVars, panicstr>>

SysExofork(c) ==
  /\ Syscall(c, "exofork")
  /\ \E e \in Slots : EnvAlloc(e, env_id[curenv[c]], "ENV_NOT_RUNNABLE")
  /\ EndTrap(c, "ret")
  /\ UNCHANGED <<cpuVars, panicstr>>

(* The user library destroys an environment at most once: exit destroys    *)
(* the caller, spawn a child that it never started.  The only environments *)
(* that are dying are those that their parent has destroyed already.       *)
MayDestroy(e) == env_status[e] = "ENV_DYING" => "destroy" \in Liberties

SysEnvDestroy(c, id) ==
  /\ Syscall(c, "destroy")
  /\ \E e \in Envid2env(c, id, TRUE) : MayDestroy(e) /\ EnvDestroy(c, e)
  /\ UNCHANGED <<env_id, env_parent_id, env_runs, env_ipc_recving,
                 cpu_status, kernel_lock, panicstr>>

(* fork and spawn set the status of a child once, to start it.             *)
MaySetStatus(e, status) ==
  \/ "status" \in Liberties
  \/ /\ status = "ENV_RUNNABLE"
     /\ env_status[e] = "ENV_NOT_RUNNABLE" /\ env_runs[e] = 0

SysEnvSetStatus(c, id, status) ==
  /\ Syscall(c, "status")
  /\ \E e \in Envid2env(c, id, TRUE) :
       /\ MaySetStatus(e, status)
       /\ env_status' = [env_status EXCEPT ![e] = status]
  /\ EndTrap(c, "ret")
  /\ UNCHANGED <<env_id, env_parent_id, env_runs, env_ipc_recving,
                 env_free_list, cpuVars, panicstr>>

(* _panic by CPU c: the monitor for ever, and the lock is never released.  *)
Panic(c) ==
  /\ panicstr' = TRUE
  /\ EndTrap(c, "monitor")
  /\ UNCHANGED cpuVars

(* sys_env_set_trapframe panics when envid2env fails.  The registers it    *)
(* sets for a child are not modelled; spawn only names a child it has just *)
(* made.                                                                   *)
SysEnvSetTrapframeBadEnv(c, id) ==
  /\ Syscall(c, "trapframe") /\ "trapframe" \in Liberties
  /\ Envid2env(c, id, TRUE) = {}
  /\ Panic(c)
  /\ UNCHANGED envVars

SysIpcTrySend(c, id) ==
  /\ Syscall(c, "ipc")
  /\ \E e \in Envid2env(c, id, FALSE) :
       /\ env_ipc_recving[e]
       /\ env_ipc_recving' = StopRecving(e)
       /\ env_status' = [env_status EXCEPT ![e] = "ENV_RUNNABLE"]
  /\ EndTrap(c, "ret")
  /\ UNCHANGED <<env_id, env_parent_id, env_runs, env_free_list, cpuVars,
                 panicstr>>

SysIpcRecv(c) ==
  /\ Syscall(c, "ipc")
  /\ env_ipc_recving' = [env_ipc_recving EXCEPT ![curenv[c]] = TRUE]
  /\ env_status' = [env_status EXCEPT ![curenv[c]] = "ENV_NOT_RUNNABLE"]
  /\ EndTrap(c, "sched")
  /\ UNCHANGED <<env_id, env_parent_id, env_runs, env_free_list, cpuVars,
                 panicstr>>

-----------------------------------------------------------------------------
Interrupts == Traps \cap {"TIMER", "DEVICE"}

Trap(c) ==
  \/ \E no \in Traps : TrapUser(c, no)
  \/ \E no \in Interrupts : TrapHalted(c, no)

SystemCalls(c) ==
  \/ SysNoChange(c)
  \/ SysYield(c)
  \/ SysExofork(c)
  \/ \E id \in EnvIds : SysEnvDestroy(c, id)
  \/ \E id \in EnvIds, s \in {"ENV_RUNNABLE", "ENV_NOT_RUNNABLE"} :
       SysEnvSetStatus(c, id, s)
  \/ \E id \in EnvIds : SysEnvSetTrapframeBadEnv(c, id)
  \/ \E id \in EnvIds : SysIpcTrySend(c, id)
  \/ SysIpcRecv(c)

Dispatch(c) ==
  \/ DispatchTimer(c) \/ DispatchDevice(c) \/ DispatchPageFault(c)
  \/ DispatchOther(c) \/ SystemCalls(c)

Scheduler(c) ==
  \/ SchedRunNext(c) \/ SchedRunSame(c) \/ SchedHalt(c) \/ SchedMonitor(c)

(* The steps a CPU takes by itself once it has left user mode or a halt.   *)
KernelStep(c) ==
  \/ TrapEntry(c) \/ TrapReturn(c) \/ Dispatch(c) \/ Scheduler(c)
  \/ EnvPopTf(c)

Next ==
  \E c \in Cpus : Trap(c) \/ LockKernel(c) \/ KernelStep(c) \/ Monitor(c)

Spec == Init /\ [][Next]_vars

(* The clock keeps ticking: a CPU that is in user mode, or halted, again   *)
(* and again is interrupted by the timer again and again (lapic_init makes *)
(* it periodic, env_alloc and sched_halt enable interrupts, a tick that    *)
(* arrives in the kernel stays pending).  A CPU in the kernel goes on, and *)
(* one that spins for the lock obtains it in the end: unlock_kernel pauses *)
(* so that another CPU gets its turn.                                      *)
Fairness ==
  \A c \in Cpus :
    /\ WF_vars(KernelStep(c))
    /\ SF_vars(LockKernel(c))
    /\ SF_vars(TrapUser(c, "TIMER"))
    /\ WF_vars(TrapHalted(c, "TIMER"))

FairSpec == Spec /\ Fairness

-----------------------------------------------------------------------------
TypeOK ==
  /\ env_status \in [Slots -> Status]
  /\ env_id \in [Slots -> EnvIds]
  /\ env_parent_id \in [Slots -> EnvIds]
  /\ env_runs \in [Slots -> {0, 1}]
  /\ env_ipc_recving \in [Slots -> BOOLEAN]
  /\ env_free_list \in Seq(Slots)
  /\ curenv \in [Cpus -> Slots \cup {NoEnv}]
  /\ cr3 \in [Cpus -> Slots \cup {KernPgdir}]
  /\ cpu_status \in [Cpus -> {"CPU_STARTED", "CPU_HALTED"}]
  /\ kernel_lock \in Cpus \cup {NoCpu}
  /\ pc \in [Cpus -> Phases]
  /\ trapno \in [Cpus -> Trapnos]
  /\ panicstr \in BOOLEAN

(* The big kernel lock does its job: the CPUs that execute kernel code     *)
(* under the lock are exactly its holder, whichever of the six ways in and *)
(* out (mp_main, trap from user mode, trap from a halt, env_run,           *)
(* sched_halt, monitor) they took.                                         *)
KernelMutex == \A c \in Cpus : InKernel(c) <=> kernel_lock = c

(* sched_yield never gives an environment to a CPU while another CPU still *)
(* has it as curenv, in user mode or on its way in or out of the kernel.   *)
OneCpu ==
  \A c, d \in Cpus : c # d /\ curenv[c] = curenv[d] => curenv[c] = NoEnv

(* A CPU never executes on the page directory of a freed environment, and  *)
(* in user mode it executes on that of its current one: env_free switches  *)
(* to kern_pgdir itself and leaves running environments of other CPUs to   *)
(* those CPUs.                                                             *)
AddressSpaceAlive ==
  \A c \in Cpus :
    /\ cr3[c] # KernPgdir => env_status[cr3[c]] # "ENV_FREE"
    /\ pc[c] \in {"user", "pop"} => cr3[c] = curenv[c]

(* An environment marked running or dying is the current one of some CPU.  *)
(* sched_yield skips both, and only that CPU can run it on or reap it, so  *)
(* one that no CPU has would be lost.                                      *)
RunningIsCurrent ==
  \A e \in Slots : env_status[e] \in {"ENV_RUNNING", "ENV_DYING"}
                      => \E c \in Cpus : curenv[c] = e

(* env_free_list holds every free slot once and nothing else.              *)
FreeListExact ==
  /\ Range(env_free_list) = {e \in Slots : env_status[e] = "ENV_FREE"}
  /\ IsInjective(env_free_list)

(* An environment that accepts a message is blocked: sys_ipc_try_send,     *)
(* which marks its target runnable, cannot hit one that is running.        *)
ReceiverIsBlocked ==
  \A e \in Slots : env_ipc_recving[e] /\ env_status[e] # "ENV_FREE"
                      => env_status[e] = "ENV_NOT_RUNNABLE"

(* sched_halt enters the monitor, for good and with the lock, only when no *)
(* other CPU is executing an environment.                                  *)
MonitorIsFinal ==
  \A c, d \in Cpus : pc[c] = "monitor" /\ ~panicstr
                        => pc[d] \notin {"user", "pop", "trap"}

(* env_alloc gives the new tenant of a slot an id that differs from the    *)
(* last tenant's, so that envid2env refuses the old id.                    *)
NewTenantNewId ==
  [][\A e \in Slots : env_status[e] = "ENV_FREE" /\ env_status'[e] # "ENV_FREE"
                         => env_id'[e] # env_id[e]]_vars

(* A zombie can only be freed: no scheduler, IPC, page-fault or status     *)
(* path brings a destroyed environment back.                               *)
ZombieStaysDead ==
  [][\A e \in Slots : env_status[e] = "ENV_DYING"
                         => env_status'[e] \in {"ENV_DYING", "ENV_FREE"}]_vars

(* After a panic the environments are frozen: the panicking CPU keeps the  *)
(* lock and the others stop at their next trap.                            *)
PanicFreezes == [][panicstr => UNCHANGED envVars]_vars

(* A zombie is freed by the next trap of the CPU that runs it, unless the  *)
(* kernel has panicked.                                                    *)
ZombieReaped ==
  \A e \in Slots :
    env_status[e] = "ENV_DYING" ~> env_status[e] = "ENV_FREE" \/ panicstr

(* Round robin: a runnable environment gets a CPU.                         *)
RunnableRuns ==
  \A e \in Slots :
    env_status[e] = "ENV_RUNNABLE" ~> env_status[e] # "ENV_RUNNABLE"

-----------------------------------------------------------------------------
(* The inductive invariant behind the safety properties, for user programs *)
(* that respect Disciplined.                                               *)
Disciplined == Liberties \cap {"status", "destroy"} = {}

CurrentIs(c, statuses) == curenv[c] # NoEnv /\ env_status[curenv[c]] \in statuses

(* What each phase of a CPU knows about its curenv without looking: a CPU  *)
(* outside the kernel can only find that its environment has been marked   *)
(* dying, and the code past the zombie test relies on a running one.       *)
CurrentOfPhase ==
  \A c \in Cpus :
    /\ pc[c] \in {"user", "pop", "trap", "entry"}
         => CurrentIs(c, {"ENV_RUNNING", "ENV_DYING"})
    /\ pc[c] = "dispatch" => \/ CurrentIs(c, {"ENV_RUNNING"})
                             \/ curenv[c] = NoEnv /\ trapno[c] \in Interrupts
    /\ pc[c] = "ret" => curenv[c] = NoEnv \/ CurrentIs(c, {"ENV_RUNNING"})
    /\ pc[c] \in {"sched", "monitor"}
         => \/ curenv[c] = NoEnv
            \/ CurrentIs(c, {"ENV_RUNNING", "ENV_NOT_RUNNABLE"})
    /\ pc[c] = "dead"
         => curenv[c] = NoEnv \/ CurrentIs(c, {"ENV_RUNNING", "ENV_DYING"})
    /\ pc[c] \in {"start", "wake", "halted"} => curenv[c] = NoEnv
    /\ pc[c] = "wake" => trapno[c] \in Interrupts

(* The page directory a CPU has loaded is that of its curenv or the        *)
(* kernel's, and a curenv has been run.                                    *)
CurrentPgdir ==
  \A c \in Cpus :
    /\ cr3[c] \in {KernPgdir, curenv[c]}
    /\ pc[c] \in {"user", "pop"} => cr3[c] = curenv[c]
    /\ curenv[c] # NoEnv => env_runs[curenv[c]] = 1

(* A receiver has run, so that its parent no longer starts it.             *)
ReceiverHasRun ==
  \A e \in Slots : env_ipc_recving[e] /\ env_status[e] # "ENV_FREE"
                      => env_runs[e] = 1

(* Why a CPU is in the monitor, and that a panic leaves one there.         *)
MonitorReason ==
  /\ \A c \in Cpus : pc[c] = "monitor" => panicstr \/ NothingToRun
  /\ panicstr => \E c \in Cpus : pc[c] = "monitor"

Inv ==
  /\ TypeOK
  /\ KernelMutex
  /\ OneCpu
  /\ CurrentOfPhase
  /\ CurrentPgdir
  /\ RunningIsCurrent
  /\ ReceiverIsBlocked
  /\ ReceiverHasRun
  /\ FreeListExact
  /\ MonitorReason
=============================================================================
