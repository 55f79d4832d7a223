------------------------------ MODULE SmpProofs ------------------------------
(***************************************************************************)
(* Proofs about Smp: the inductive invariant Inv for every number of CPUs, *)
(* slots and generations, and the safety properties that follow from it.   *)
(***************************************************************************)
EXTENDS Smp, SequenceTheorems, TLAPS

-----------------------------------------------------------------------------
(* The environment free list.                                              *)

(* Pushing an element, as env_free does, adds it and nothing else.         *)
LEMMA PushRange ==
  ASSUME NEW S, NEW q \in Seq(S), NEW e \in S
  PROVE  /\ <<e>> \o q \in Seq(S)
         /\ Range(<<e>> \o q) = Range(q) \cup {e}
         /\ IsInjective(q) /\ e \notin Range(q) => IsInjective(<<e>> \o q)
<1> DEFINE p == <<e>> \o q
<1>1. /\ p \in Seq(S) /\ DOMAIN p = 1 .. Len(q) + 1
      /\ Len(q) \in Nat /\ DOMAIN q = 1 .. Len(q)
      /\ p[1] = e /\ \A i \in 1 .. Len(q) : p[i + 1] = q[i]
  OBVIOUS
<1> HIDE DEF p
<1>2. Range(p) = Range(q) \cup {e}
  <2>1. ASSUME NEW i \in DOMAIN p PROVE p[i] \in Range(q) \cup {e}
    <3>1. i = 1 \/ (i - 1 \in 1 .. Len(q) /\ (i - 1) + 1 = i)
      BY <1>1
    <3> QED BY <1>1, <3>1 DEF Range
  <2>2. ASSUME NEW i \in DOMAIN q PROVE q[i] \in Range(p)
    <3>1. i + 1 \in DOMAIN p /\ p[i + 1] = q[i]
      BY <1>1
    <3> QED BY <3>1 DEF Range
  <2>3. e \in Range(p)
    BY <1>1 DEF Range
  <2> QED BY <2>1, <2>2, <2>3 DEF Range
<1>3. ASSUME IsInjective(q), e \notin Range(q) PROVE IsInjective(p)
  <2> SUFFICES ASSUME NEW i \in DOMAIN p, NEW j \in DOMAIN p, p[i] = p[j]
               PROVE  i = j
    BY DEF IsInjective
  <2>1. ASSUME NEW k \in DOMAIN p
        PROVE  k = 1 \/ (k - 1 \in DOMAIN q /\ p[k] = q[k - 1])
    <3>1. k = 1 \/ (k - 1 \in 1 .. Len(q) /\ (k - 1) + 1 = k)
      BY <1>1
    <3> QED BY <1>1, <3>1
  <2>2. \A k \in DOMAIN q : q[k] # e
    BY <1>3 DEF Range
  <2> QED BY <1>1, <1>3, <2>1, <2>2 DEF IsInjective
<1> QED BY <1>1, <1>2, <1>3 DEF p

(* Popping the head, as env_alloc does, removes it and nothing else.       *)
LEMMA PopRange ==
  ASSUME NEW S, NEW q \in Seq(S), q # <<>>
  PROVE  /\ Head(q) \in S /\ Head(q) \in Range(q) /\ Tail(q) \in Seq(S)
         /\ IsInjective(q) => /\ Range(Tail(q)) = Range(q) \ {Head(q)}
                           /\ IsInjective(Tail(q))
<1> DEFINE t == Tail(q)
<1>1. /\ t \in Seq(S) /\ DOMAIN t = 1 .. Len(q) - 1
      /\ Len(q) \in Nat \ {0} /\ DOMAIN q = 1 .. Len(q)
      /\ Head(q) = q[1] /\ q[1] \in S
      /\ \A i \in 1 .. Len(q) - 1 : t[i] = q[i + 1]
  OBVIOUS
<1> HIDE DEF t
<1>2. Head(q) \in Range(q)
  BY <1>1 DEF Range
<1>3. ASSUME IsInjective(q) PROVE IsInjective(t) /\ Range(t) = Range(q) \ {Head(q)}
  <2>1. IsInjective(t)
    <3> SUFFICES ASSUME NEW i \in DOMAIN t, NEW j \in DOMAIN t, t[i] = t[j]
                 PROVE  i = j
      BY DEF IsInjective
    <3>1. i + 1 \in DOMAIN q /\ j + 1 \in DOMAIN q /\ q[i + 1] = q[j + 1]
      BY <1>1
    <3>2. i + 1 = j + 1
      BY <1>3, <3>1 DEF IsInjective
    <3> QED BY <1>1, <3>2
  <2>2. ASSUME NEW i \in DOMAIN t PROVE t[i] \in Range(q) \ {Head(q)}
    <3>1. i + 1 \in DOMAIN q /\ 1 \in DOMAIN q /\ t[i] = q[i + 1] /\ i + 1 # 1
      BY <1>1
    <3> QED BY <1>1, <1>3, <3>1 DEF Range, IsInjective
  <2>3. ASSUME NEW i \in DOMAIN q, q[i] # Head(q) PROVE q[i] \in Range(t)
    <3>1. i - 1 \in DOMAIN t /\ t[i - 1] = q[i]
      BY <1>1, <2>3
    <3> QED BY <3>1 DEF Range
  <2> QED BY <2>1, <2>2, <2>3 DEF Range
<1> QED BY <1>1, <1>2, <1>3 DEF t

-----------------------------------------------------------------------------
(* The steps of the kernel.                                                *)

(* While a CPU is in the kernel, every other CPU is outside it, and its    *)
(* curenv, if any, is running or dying and is nobody else's.               *)
LEMMA OthersOutside ==
  ASSUME Inv, NEW c \in Cpus, InKernel(c), NEW d \in Cpus, d # c
  PROVE  /\ ~InKernel(d) /\ kernel_lock = c
         /\ curenv[d] = NoEnv \/ CurrentIs(d, {"ENV_RUNNING", "ENV_DYING"})
         /\ curenv[d] # NoEnv => curenv[d] # curenv[c]
<1>1. kernel_lock = c /\ ~InKernel(d)
  BY DEF Inv, KernelMutex
<1>2. pc[d] \in Phases
  BY DEF Inv, TypeOK
<1> QED BY <1>1, <1>2 DEF Inv, CurrentOfPhase, OneCpu, InKernel, Phases

(* env_run of a runnable environment, or of the current running one.       *)
LEMMA EnvRunInv ==
  ASSUME Inv, NEW c \in Cpus, pc[c] \in {"dispatch", "ret", "sched"},
         NEW e \in Slots,
         \/ env_status[e] = "ENV_RUNNABLE"
         \/ curenv[c] = e /\ env_status[e] = "ENV_RUNNING",
         EnvRun(c, e)
  PROVE  Inv'
<1> USE ConstantsAssumption DEF EnvRun, SwitchedFrom, EndTrap, Goto
<1>1. TypeOK'
  BY DEF Inv, TypeOK, Trapnos, Phases, Status
<1>2. KernelMutex'
  BY DEF Inv, KernelMutex, TypeOK, InKernel
<1>3. \A d \in Cpus : d # c /\ curenv[d] # NoEnv => curenv[d] # e
  BY OthersOutside DEF Inv, TypeOK, CurrentIs, InKernel
<1>4. OneCpu'
  BY <1>3 DEF Inv, OneCpu, TypeOK
<1>5. CurrentOfPhase'
  BY <1>3 DEF Inv, CurrentOfPhase, CurrentIs, TypeOK, OneCpu
<1>6. CurrentPgdir'
  BY <1>3 DEF Inv, CurrentPgdir, TypeOK
<1>7. RunningIsCurrent'
  <2> SUFFICES ASSUME NEW f \in Slots,
                      env_status'[f] \in {"ENV_RUNNING", "ENV_DYING"}
               PROVE  \E d \in Cpus : curenv'[d] = f
    BY DEF RunningIsCurrent
  <2>1. CASE f = e
    BY <2>1 DEF Inv, TypeOK
  <2>2. CASE f # e
    <3>1. curenv[c] # f /\ env_status[f] \in {"ENV_RUNNING", "ENV_DYING"}
      BY <2>2 DEF Inv, TypeOK, CurrentOfPhase, CurrentIs
    <3>2. PICK d \in Cpus : curenv[d] = f
      BY <3>1 DEF Inv, RunningIsCurrent
    <3> QED BY <3>1, <3>2 DEF Inv, TypeOK
  <2> QED BY <2>1, <2>2
<1>8. ReceiverIsBlocked' /\ ReceiverHasRun'
  BY DEF Inv, ReceiverIsBlocked, ReceiverHasRun, TypeOK
<1>9. FreeListExact'
  BY DEF Inv, FreeListExact, TypeOK
<1>10. MonitorReason'
  BY DEF Inv, MonitorReason, KernelMutex, TypeOK, InKernel
<1> QED BY <1>1, <1>2, <1>4, <1>5, <1>6, <1>7, <1>8, <1>9, <1>10 DEF Inv

(* Entering the kernel changes no environment: a trap from user mode or    *)
(* from a halt, the lock, and env_pop_tf on the way out.                   *)
LEMMA EntryInv ==
  ASSUME Inv, NEW c \in Cpus,
         Trap(c) \/ LockKernel(c) \/ EnvPopTf(c)
  PROVE  Inv'
<1> USE DEF Trap, TrapUser, TrapHalted, LockKernel, EnvPopTf, LockIsFree, Goto,
            envVars, cpuVars
<1>1. TypeOK'
  <2> USE DEF Inv, TypeOK, Phases
  <2>1. ASSUME NEW no \in Trapnos, TrapUser(c, no) \/ TrapHalted(c, no)
        PROVE TypeOK'
    BY <2>1
  <2>2. CASE LockKernel(c)
    BY <2>2
  <2>3. CASE EnvPopTf(c)
    BY <2>3
  <2> QED BY <2>1, <2>2, <2>3 DEF Interrupts, Trapnos
<1>2. KernelMutex'
  BY ConstantsAssumption DEF Inv, KernelMutex, TypeOK, InKernel
<1>3. CurrentOfPhase'
  BY DEF Inv, CurrentOfPhase, CurrentIs, TypeOK
<1>4. CurrentPgdir'
  BY DEF Inv, CurrentPgdir, CurrentOfPhase, TypeOK
<1>5. OneCpu' /\ RunningIsCurrent'
  BY DEF Inv, OneCpu, RunningIsCurrent
<1>6. ReceiverIsBlocked' /\ ReceiverHasRun' /\ FreeListExact'
  BY DEF Inv, ReceiverIsBlocked, ReceiverHasRun, FreeListExact
<1>7. MonitorReason'
  BY DEF Inv, MonitorReason, TypeOK, NothingToRun
<1> QED BY <1>1, <1>2, <1>3, <1>4, <1>5, <1>6, <1>7 DEF Inv

(* A step of trap() that only moves on: from the zombie test to            *)
(* trap_dispatch, from there to the end of trap() or to sched_yield.       *)
LEMMA MoveOnInv ==
  ASSUME Inv, NEW c \in Cpus, NEW phase \in {"dispatch", "ret", "sched"},
         pc[c] \in {"entry", "dispatch", "ret"},
         phase = "dispatch" => CurrentIs(c, {"ENV_RUNNING"}),
         curenv[c] = NoEnv \/ CurrentIs(c, {"ENV_RUNNING"}),
         Goto(c, phase), trapno' \in [Cpus -> Trapnos],
         \A d \in Cpus \ {c} : trapno'[d] = trapno[d],
         UNCHANGED <<envVars, cpuVars, panicstr>>
  PROVE  Inv'
<1> USE ConstantsAssumption DEF Goto, envVars, cpuVars
<1>1. TypeOK'
  BY DEF Inv, TypeOK, Trapnos, Phases
<1>2. KernelMutex'
  BY DEF Inv, KernelMutex, TypeOK, InKernel
<1>3. CurrentOfPhase'
  BY DEF Inv, CurrentOfPhase, CurrentIs, TypeOK
<1>4. CurrentPgdir'
  BY DEF Inv, CurrentPgdir, TypeOK
<1>5. OneCpu' /\ RunningIsCurrent'
  BY DEF Inv, OneCpu, RunningIsCurrent
<1>6. ReceiverIsBlocked' /\ ReceiverHasRun' /\ FreeListExact'
  BY DEF Inv, ReceiverIsBlocked, ReceiverHasRun, FreeListExact
<1>7. MonitorReason'
  BY DEF Inv, MonitorReason, TypeOK, NothingToRun
<1> QED BY <1>1, <1>2, <1>3, <1>4, <1>5, <1>6, <1>7 DEF Inv

(* EndTrap records the end of the trap of its own CPU and of no other.     *)
LEMMA EndTrapTrapno ==
  ASSUME Inv, NEW c \in Cpus, NEW phase, EndTrap(c, phase)
  PROVE  /\ Goto(c, phase) /\ trapno' \in [Cpus -> Trapnos]
         /\ \A d \in Cpus \ {c} : trapno'[d] = trapno[d]
  BY DEF EndTrap, Inv, TypeOK, Trapnos

(* A system call that returns and changes no curenv and no curenv's        *)
(* status keeps every CPU's part of CurrentOfPhase.                        *)
LEMMA ReturnPhase ==
  ASSUME Inv, NEW c \in Cpus, CurrentIs(c, {"ENV_RUNNING"}),
         UNCHANGED curenv, EndTrap(c, "ret"),
         \A d \in Cpus : curenv[d] # NoEnv
                           => env_status'[curenv[d]] = env_status[curenv[d]]
  PROVE  CurrentOfPhase'
<1>1. \A d \in Cpus, S \in SUBSET Status : CurrentIs(d, S) => CurrentIs(d, S)'
  BY ConstantsAssumption DEF CurrentIs
<1>2. pc'[c] = "ret" /\ \A d \in Cpus \ {c} : pc'[d] = pc[d] /\ trapno'[d] = trapno[d]
  BY DEF EndTrap, Goto, Inv, TypeOK
<1>3. CurrentIs(c, {"ENV_RUNNING"})'
  BY <1>1 DEF Status
<1> QED BY <1>1, <1>2, <1>3 DEF Inv, CurrentOfPhase, Status

(* The end of a trap that changed nothing else.                            *)
LEMMA EndTrapInv ==
  ASSUME Inv, NEW c \in Cpus, NEW phase \in {"ret", "sched"},
         pc[c] = "dispatch", curenv[c] = NoEnv \/ CurrentIs(c, {"ENV_RUNNING"}),
         EndTrap(c, phase), UNCHANGED <<envVars, cpuVars, panicstr>>
  PROVE  Inv'
<1>1. /\ Goto(c, phase) /\ trapno' \in [Cpus -> Trapnos]
      /\ \A d \in Cpus \ {c} : trapno'[d] = trapno[d]
  BY EndTrapTrapno
<1> QED BY <1>1, MoveOnInv

(* sched_halt, whether the CPU halts or enters the monitor.                *)
LEMMA SchedHaltInv ==
  ASSUME Inv, NEW c \in Cpus, SchedHalt(c) \/ SchedMonitor(c)
  PROVE  Inv'
<1> USE ConstantsAssumption DEF SchedHalt, SchedMonitor, Goto, envVars, cpuVars
<1>1. TypeOK'
  <2>1. CASE SchedHalt(c)
    BY <2>1 DEF Inv, TypeOK, Phases
  <2>2. CASE SchedMonitor(c)
    BY <2>2 DEF Inv, TypeOK, Phases
  <2> QED BY <2>1, <2>2
<1>2. KernelMutex'
  BY DEF Inv, KernelMutex, TypeOK, InKernel
<1>3. CurrentOfPhase'
  BY DEF Inv, CurrentOfPhase, CurrentIs, TypeOK
<1>4. CurrentPgdir' /\ OneCpu'
  <2>1. CASE SchedHalt(c)
    <3>1. /\ curenv'[c] = NoEnv /\ cr3'[c] = KernPgdir /\ pc'[c] = "halted"
          /\ \A d \in Cpus \ {c} : /\ curenv'[d] = curenv[d]
                                  /\ cr3'[d] = cr3[d] /\ pc'[d] = pc[d]
          /\ env_runs' = env_runs
      BY <2>1 DEF Inv, TypeOK
    <3>2. CurrentPgdir'
      BY <3>1 DEF Inv, CurrentPgdir
    <3>3. OneCpu'
      BY <3>1 DEF Inv, OneCpu
    <3> QED BY <3>2, <3>3
  <2>2. CASE SchedMonitor(c)
    <3>1. /\ UNCHANGED <<curenv, cr3, env_runs>> /\ pc'[c] = "monitor"
          /\ \A d \in Cpus \ {c} : pc'[d] = pc[d]
      BY <2>2 DEF Inv, TypeOK
    <3> QED BY <3>1 DEF Inv, CurrentPgdir, OneCpu
  <2> QED BY <2>1, <2>2
<1>5. RunningIsCurrent'
  <2> SUFFICES ASSUME NEW f \in Slots,
                      env_status[f] \in {"ENV_RUNNING", "ENV_DYING"}
               PROVE  \E d \in Cpus : curenv'[d] = f
    BY DEF RunningIsCurrent
  <2>1. PICK d \in Cpus : curenv[d] = f
    BY DEF Inv, RunningIsCurrent
  <2>2. SchedHalt(c) => d # c
    BY <2>1 DEF Inv, TypeOK, CurrentOfPhase, CurrentIs, CurrentStillRunning
  <2> QED BY <2>1, <2>2 DEF Inv, TypeOK
<1>6. ReceiverIsBlocked' /\ ReceiverHasRun' /\ FreeListExact'
  BY DEF Inv, ReceiverIsBlocked, ReceiverHasRun, FreeListExact
<1>7. MonitorReason'
  BY DEF Inv, MonitorReason, TypeOK, NothingToRun
<1> QED BY <1>1, <1>2, <1>3, <1>4, <1>5, <1>6, <1>7 DEF Inv

-----------------------------------------------------------------------------
(* The end of an environment.                                              *)

(* What env_free does to the table and its free list.                      *)
LEMMA EnvFreeList ==
  ASSUME Inv, NEW c \in Cpus, NEW e \in Slots, env_status[e] # "ENV_FREE",
         EnvFree(c, e)
  PROVE  /\ env_free_list' \in Seq(Slots) /\ FreeListExact'
         /\ env_status' \in [Slots -> Status]
<1> USE DEF EnvFree, PushFree
<1>1. env_status' \in [Slots -> Status]
  BY DEF Inv, TypeOK, Status
<1>2. /\ Range(env_free_list) = {f \in Slots : env_status[f] = "ENV_FREE"}
      /\ IsInjective(env_free_list) /\ env_free_list \in Seq(Slots)
  BY DEF Inv, TypeOK, FreeListExact
<1>3. /\ env_free_list' \in Seq(Slots) /\ IsInjective(env_free_list')
      /\ Range(env_free_list') = Range(env_free_list) \cup {e}
  BY <1>2, PushRange
<1>4. Range(env_free_list') = {f \in Slots : env_status'[f] = "ENV_FREE"}
  BY <1>2, <1>3 DEF Inv, TypeOK
<1> QED BY <1>1, <1>3, <1>4 DEF FreeListExact

(* A CPU frees its own curenv: a zombie on entry, or an environment that   *)
(* destroys itself or is destroyed for a fault.                            *)
LEMMA FreeCurrentInv ==
  ASSUME Inv, NEW c \in Cpus, pc[c] \in {"entry", "dispatch"}, curenv[c] # NoEnv,
         EnvFree(c, curenv[c]), curenv' = [curenv EXCEPT ![c] = NoEnv],
         EndTrap(c, "sched"),
         UNCHANGED <<env_id, env_parent_id, env_runs, env_ipc_recving,
                     cpu_status, kernel_lock, panicstr>>
  PROVE  Inv'
<1> DEFINE e == curenv[c]
<1>1. /\ e \in Slots /\ env_status[e] # "ENV_FREE" /\ InKernel(c)
      /\ env_status' = [env_status EXCEPT ![e] = "ENV_FREE"]
      /\ cr3' = [cr3 EXCEPT ![c] = KernPgdir]
  BY DEF Inv, TypeOK, CurrentOfPhase, CurrentIs, EnvFree, PgdirAfterFree, InKernel
<1>2. \A d \in Cpus \ {c} : curenv[d] # e
  BY <1>1, OthersOutside
<1>3. FreeListExact' /\ TypeOK'
  BY <1>1, EnvFreeList, ConstantsAssumption
     DEF Inv, TypeOK, Trapnos, Phases, EndTrap, Goto
<1> USE ConstantsAssumption DEF EndTrap, Goto
<1>4. KernelMutex'
  BY DEF Inv, KernelMutex, TypeOK, InKernel
<1>5. OneCpu' /\ CurrentPgdir'
  BY <1>1 DEF Inv, OneCpu, CurrentPgdir, TypeOK
<1>6. CurrentOfPhase'
  BY <1>1, <1>2 DEF Inv, CurrentOfPhase, CurrentIs, TypeOK
<1>7. RunningIsCurrent'
  BY <1>1, <1>2 DEF Inv, RunningIsCurrent, TypeOK
<1>8. ReceiverIsBlocked' /\ ReceiverHasRun'
  BY <1>1 DEF Inv, ReceiverIsBlocked, ReceiverHasRun, TypeOK
<1>9. MonitorReason'
  BY <1>1 DEF Inv, MonitorReason, TypeOK, KernelMutex, InKernel
<1> QED BY <1>3, <1>4, <1>5, <1>6, <1>7, <1>8, <1>9 DEF Inv

(* env_destroy of another environment, which is not a zombie yet: one that *)
(* runs on another CPU is marked, any other is nobody's curenv and is      *)
(* freed at once.                                                          *)
LEMMA DestroyOtherInv ==
  ASSUME Inv, NEW c \in Cpus, pc[c] = "dispatch", CurrentIs(c, {"ENV_RUNNING"}),
         NEW e \in Slots, e # curenv[c],
         env_status[e] \notin {"ENV_FREE", "ENV_DYING"}, EnvDestroy(c, e),
         UNCHANGED <<env_id, env_parent_id, env_runs, env_ipc_recving,
                     cpu_status, kernel_lock, panicstr>>
  PROVE  Inv'
<1> USE ConstantsAssumption DEF EndTrap, Goto
<1>1. InKernel(c) /\ UNCHANGED curenv /\ EndTrap(c, "ret") /\ UNCHANGED cr3
  BY DEF InKernel, EnvDestroy, EnvFree, PgdirAfterFree, Inv, TypeOK
<1>2. \A d \in Cpus \ {c} : CurrentIs(d, {"ENV_RUNNING", "ENV_DYING"})
                              \/ curenv[d] = NoEnv
  BY <1>1, OthersOutside
<1>3. FreeListExact' /\ TypeOK'
  <2>1. CASE EnvFree(c, e)
    BY <1>1, <2>1, EnvFreeList DEF Inv, TypeOK, Trapnos, Phases
  <2>2. CASE ~EnvFree(c, e)
    BY <1>1, <2>2 DEF Inv, TypeOK, Trapnos, Phases, Status, EnvDestroy,
                      FreeListExact
  <2> QED BY <2>1, <2>2
<1>4. \/ /\ env_status[e] = "ENV_RUNNING"
         /\ env_status' = [env_status EXCEPT ![e] = "ENV_DYING"]
      \/ /\ env_status[e] # "ENV_RUNNING"
         /\ env_status' = [env_status EXCEPT ![e] = "ENV_FREE"]
  BY DEF EnvDestroy, EnvFree
<1>5. KernelMutex'
  BY <1>1 DEF Inv, KernelMutex, TypeOK, InKernel
<1>6. OneCpu' /\ CurrentPgdir'
  BY <1>1 DEF Inv, OneCpu, CurrentPgdir, TypeOK
<1>7. CurrentOfPhase'
  <2>1. \A d \in Cpus \ {c} : CurrentIs(d, {"ENV_RUNNING", "ENV_DYING"})'
                                \/ curenv'[d] = NoEnv
    BY <1>1, <1>2, <1>4 DEF Inv, CurrentIs, TypeOK
  <2>2. CurrentIs(c, {"ENV_RUNNING"})'
    BY <1>1, <1>4 DEF Inv, CurrentIs, TypeOK
  <2>3. \A d \in Cpus \ {c} : ~InKernel(d) /\ pc'[d] = pc[d]
                              /\ trapno'[d] = trapno[d]
    BY <1>1, OthersOutside DEF Inv, TypeOK
  <2>4. pc'[c] = "ret"
    BY <1>1 DEF EndTrap, Goto, Inv, TypeOK
  <2>5. ASSUME NEW d \in Cpus \ {c}
        PROVE  /\ pc'[d] \in {"user", "pop", "trap", "entry"}
                    => CurrentIs(d, {"ENV_RUNNING", "ENV_DYING"})'
               /\ pc'[d] \in {"start", "wake", "halted"} => curenv'[d] = NoEnv
               /\ pc'[d] = "wake" => trapno'[d] \in Interrupts
    <3>1. /\ pc[d] \in {"user", "pop", "trap", "entry"}
               => CurrentIs(d, {"ENV_RUNNING", "ENV_DYING"})
          /\ pc[d] \in {"start", "wake", "halted"} => curenv[d] = NoEnv
          /\ pc[d] = "wake" => trapno[d] \in Interrupts
      BY DEF Inv, CurrentOfPhase
    <3>2. CurrentIs(d, {"ENV_RUNNING", "ENV_DYING"}) => curenv[d] # NoEnv
      BY ConstantsAssumption DEF CurrentIs
    <3> QED BY <1>1, <2>1, <2>3, <3>1, <3>2
  <2> QED BY <2>1, <2>2, <2>3, <2>4, <2>5 DEF CurrentOfPhase, InKernel
<1>8. RunningIsCurrent'
  BY <1>1, <1>4 DEF Inv, RunningIsCurrent, TypeOK
<1>9. ReceiverIsBlocked' /\ ReceiverHasRun'
  BY <1>4 DEF Inv, ReceiverIsBlocked, ReceiverHasRun, TypeOK
<1>10. MonitorReason'
  BY <1>1, <1>4 DEF Inv, MonitorReason, TypeOK, KernelMutex, InKernel
<1> QED BY <1>3, <1>5, <1>6, <1>7, <1>8, <1>9, <1>10 DEF Inv

-----------------------------------------------------------------------------
(* System calls that change the environment table.                         *)

(* sys_exofork takes a free slot, which is nobody's curenv.                *)
LEMMA ExoforkInv ==
  ASSUME Inv, NEW c \in Cpus, SysExofork(c)
  PROVE  Inv'
<1> USE DEF SysExofork, EnvAlloc, EndTrap, Goto, cpuVars
<1>1. pc[c] = "dispatch" /\ CurrentIs(c, {"ENV_RUNNING"}) /\ InKernel(c)
  BY DEF Syscall, Dispatching, Inv, CurrentOfPhase, InKernel, Interrupts
<1>2. PICK e \in Slots : EnvAlloc(e, env_id[curenv[c]], "ENV_NOT_RUNNABLE")
  OBVIOUS
<1>3. /\ Range(env_free_list) = {f \in Slots : env_status[f] = "ENV_FREE"}
      /\ IsInjective(env_free_list) /\ env_free_list \in Seq(Slots)
  BY DEF Inv, TypeOK, FreeListExact
<1>4. /\ env_status[e] = "ENV_FREE" /\ env_free_list' \in Seq(Slots)
      /\ IsInjective(env_free_list')
      /\ Range(env_free_list') = Range(env_free_list) \ {e}
  BY <1>2, <1>3, PopRange
<1>5. FreeListExact'
  BY <1>2, <1>3, <1>4 DEF FreeListExact, Inv, TypeOK
<1>6. env_id' \in [Slots -> EnvIds] /\ env_parent_id' \in [Slots -> EnvIds]
  <2>1. env_id[e] \in EnvIds /\ env_id[curenv[c]] \in EnvIds
    BY <1>1, ConstantsAssumption DEF Inv, TypeOK, CurrentIs
  <2>2. NextGeneration(env_id[e]) \in 1 .. NGEN
    BY <2>1, ConstantsAssumption DEF NextGeneration, Wrapped, EnvIds, ZeroId
  <2> QED BY <1>2, <2>1, <2>2 DEF Inv, TypeOK, EnvIds
<1>7. TypeOK'
  BY <1>2, <1>4, <1>6 DEF Inv, TypeOK, Status, Phases, Trapnos, StopRecving
<1>8. \A d \in Cpus : curenv[d] # e
  <2>1. \A d \in Cpus \ {c} : curenv[d] = NoEnv \/ CurrentIs(d, {"ENV_RUNNING", "ENV_DYING"})
    BY <1>1, OthersOutside
  <2> QED BY <1>1, <1>4, <2>1, ConstantsAssumption DEF CurrentIs
<1>9. KernelMutex'
  BY <1>1 DEF Inv, KernelMutex, TypeOK, InKernel
<1>10. OneCpu' /\ CurrentPgdir'
  <2>1. OneCpu'
    BY <1>2 DEF Inv, OneCpu
  <2>2. \A d \in Cpus : curenv[d] # NoEnv => env_runs'[curenv[d]] = 1
    BY <1>2, <1>8 DEF Inv, CurrentPgdir, TypeOK
  <2>3. \A d \in Cpus : pc'[d] \in {"user", "pop"} => pc[d] \in {"user", "pop"}
    BY <1>2 DEF Inv, TypeOK
  <2> QED BY <1>2, <2>1, <2>2, <2>3 DEF Inv, CurrentPgdir
<1>11. CurrentOfPhase'
  <2>1. \A d \in Cpus : curenv[d] # NoEnv
                          => env_status'[curenv[d]] = env_status[curenv[d]]
    BY <1>2, <1>8 DEF Inv, TypeOK
  <2> QED BY <1>1, <1>2, <2>1, ReturnPhase
<1>12. RunningIsCurrent'
  BY <1>1, <1>2 DEF Inv, RunningIsCurrent, TypeOK
<1>13. ReceiverIsBlocked' /\ ReceiverHasRun'
  BY <1>2 DEF Inv, ReceiverIsBlocked, ReceiverHasRun, TypeOK, StopRecving
<1>14. MonitorReason'
  BY <1>1 DEF Inv, MonitorReason, TypeOK, KernelMutex, InKernel
<1> QED BY <1>5, <1>7, <1>9, <1>10, <1>11, <1>12, <1>13, <1>14 DEF Inv

(* A system call makes an environment runnable that was blocked and is     *)
(* nobody's curenv: sys_env_set_status for a child that never ran, and     *)
(* sys_ipc_try_send for a receiver.                                        *)
LEMMA MakeRunnableInv ==
  ASSUME Inv, NEW c \in Cpus, pc[c] = "dispatch", CurrentIs(c, {"ENV_RUNNING"}),
         NEW e \in Slots, env_status[e] = "ENV_NOT_RUNNABLE",
         env_status' = [env_status EXCEPT ![e] = "ENV_RUNNABLE"],
         \/ UNCHANGED env_ipc_recving /\ env_runs[e] = 0
         \/ env_ipc_recving' = StopRecving(e),
         EndTrap(c, "ret"),
         UNCHANGED <<env_id, env_parent_id, env_runs, env_free_list, cpuVars,
                     panicstr>>
  PROVE  Inv'
<1> USE ConstantsAssumption DEF EndTrap, Goto, cpuVars, StopRecving
<1>1. InKernel(c) /\ \A d \in Cpus : curenv[d] # e
  BY OthersOutside DEF InKernel, CurrentIs
<1>2. TypeOK'
  BY DEF Inv, TypeOK, Status, Phases, Trapnos
<1>3. KernelMutex'
  BY DEF Inv, KernelMutex, TypeOK, InKernel
<1>4. OneCpu' /\ CurrentPgdir'
  BY DEF Inv, OneCpu, CurrentPgdir, TypeOK
<1>5. CurrentOfPhase'
  <2>1. \A d \in Cpus : curenv[d] # NoEnv
                          => env_status'[curenv[d]] = env_status[curenv[d]]
    BY <1>1 DEF Inv, TypeOK
  <2> QED BY <2>1, ReturnPhase
<1>6. RunningIsCurrent'
  BY DEF Inv, RunningIsCurrent, TypeOK
<1>7. ReceiverIsBlocked' /\ ReceiverHasRun'
  BY DEF Inv, ReceiverIsBlocked, ReceiverHasRun, TypeOK
<1>8. FreeListExact'
  BY DEF Inv, FreeListExact, TypeOK
<1>9. MonitorReason'
  BY <1>1 DEF Inv, MonitorReason, TypeOK, KernelMutex, InKernel
<1> QED BY <1>2, <1>3, <1>4, <1>5, <1>6, <1>7, <1>8, <1>9 DEF Inv

(* sys_ipc_recv blocks the caller, which has run.                          *)
LEMMA IpcRecvInv ==
  ASSUME Inv, NEW c \in Cpus, SysIpcRecv(c)
  PROVE  Inv'
<1> USE DEF SysIpcRecv, EndTrap, Goto, cpuVars
<1>1. /\ pc[c] = "dispatch" /\ CurrentIs(c, {"ENV_RUNNING"}) /\ InKernel(c)
      /\ curenv[c] \in Slots
  BY DEF Syscall, Dispatching, Inv, TypeOK, CurrentIs, CurrentOfPhase, InKernel,
         Interrupts
<1>2. \A d \in Cpus \ {c} : curenv[d] # curenv[c]
  BY <1>1 DEF Inv, OneCpu, CurrentIs
<1>3. TypeOK'
  BY <1>1 DEF Inv, TypeOK, Status, Phases, Trapnos
<1>4. KernelMutex'
  BY <1>1 DEF Inv, KernelMutex, TypeOK, InKernel
<1>5. OneCpu' /\ CurrentPgdir'
  BY <1>1 DEF Inv, OneCpu, CurrentPgdir, TypeOK
<1>6. CurrentOfPhase'
  BY <1>1, <1>2 DEF Inv, CurrentOfPhase, CurrentIs, TypeOK
<1>7. RunningIsCurrent'
  BY <1>1 DEF Inv, RunningIsCurrent, TypeOK
<1>8. ReceiverIsBlocked' /\ ReceiverHasRun'
  BY <1>1 DEF Inv, ReceiverIsBlocked, ReceiverHasRun, TypeOK, CurrentPgdir, CurrentIs
<1>9. FreeListExact'
  BY <1>1 DEF Inv, FreeListExact, TypeOK, CurrentIs
<1>10. MonitorReason'
  BY <1>1 DEF Inv, MonitorReason, TypeOK, KernelMutex, InKernel
<1> QED BY <1>3, <1>4, <1>5, <1>6, <1>7, <1>8, <1>9, <1>10 DEF Inv

(* A panic sends a CPU to the monitor with the lock.                       *)
LEMMA PanicInv ==
  ASSUME Inv, NEW c \in Cpus, pc[c] = "dispatch", CurrentIs(c, {"ENV_RUNNING"}),
         Panic(c), UNCHANGED envVars
  PROVE  Inv'
<1> USE DEF Panic, EndTrap, Goto, cpuVars, envVars
<1>1. TypeOK'
  BY DEF Inv, TypeOK, Phases, Trapnos
<1>2. KernelMutex'
  BY DEF Inv, KernelMutex, TypeOK, InKernel
<1>3. CurrentOfPhase'
  BY DEF Inv, CurrentOfPhase, CurrentIs, TypeOK
<1>4. OneCpu' /\ CurrentPgdir' /\ RunningIsCurrent'
  BY DEF Inv, OneCpu, CurrentPgdir, RunningIsCurrent, TypeOK
<1>5. ReceiverIsBlocked' /\ ReceiverHasRun' /\ FreeListExact'
  BY DEF Inv, ReceiverIsBlocked, ReceiverHasRun, FreeListExact
<1>6. MonitorReason'
  BY DEF Inv, MonitorReason, TypeOK
<1> QED BY <1>1, <1>2, <1>3, <1>4, <1>5, <1>6 DEF Inv

-----------------------------------------------------------------------------
(* The invariant and its consequences.                                     *)

(* A function on 1..n is a sequence: env_init builds the list that way.    *)
LEMMA FunctionIsSeq ==
  ASSUME NEW S, NEW n \in Nat, NEW f \in [1 .. n -> S]
  PROVE  f \in Seq(S)
  BY SeqDef

(* The state that i386_init leaves satisfies the invariant.                *)
LEMMA InitInv == Init => Inv
<1> SUFFICES ASSUME Init PROVE Inv
  OBVIOUS
<1> USE ConstantsAssumption DEF Init
<1>1. \A e \in Slots : e < NINIT => <<1, e>> \in EnvIds
  BY DEF EnvIds
<1>2. env_free_list \in Seq(Slots) /\ DOMAIN env_free_list = 1 .. NENV - NINIT
  <2>1. env_free_list \in [1 .. NENV - NINIT -> Slots] /\ NENV - NINIT \in Nat
    BY DEF Slots
  <2> QED BY <2>1, FunctionIsSeq
<1>3. TypeOK
  BY <1>1, <1>2 DEF TypeOK, EnvIds, Status, Phases, Trapnos
<1>4. FreeListExact
  <2>1. \A e \in Slots : ~(e < NINIT) => e - NINIT + 1 \in 1 .. NENV - NINIT
    BY DEF Slots
  <2>2. \A i \in 1 .. NENV - NINIT : NINIT + i - 1 \in Slots /\ ~(NINIT + i - 1 < NINIT)
    BY DEF Slots
  <2>3. Range(env_free_list) \subseteq {e \in Slots : env_status[e] = "ENV_FREE"}
    BY <2>2 DEF Range
  <2>4. ASSUME NEW e \in Slots, env_status[e] = "ENV_FREE"
        PROVE  e \in Range(env_free_list)
    <3>1. ~(e < NINIT)
      BY <2>4
    <3>2. env_free_list[e - NINIT + 1] = e
      BY <2>1, <3>1 DEF Slots
    <3> QED BY <1>2, <2>1, <3>1, <3>2 DEF Range
  <2>5. IsInjective(env_free_list)
    BY DEF IsInjective
  <2> QED BY <2>3, <2>4, <2>5 DEF FreeListExact
<1>5. KernelMutex
  BY DEF KernelMutex, InKernel
<1>6. OneCpu /\ CurrentOfPhase /\ CurrentPgdir /\ MonitorReason
  BY DEF OneCpu, CurrentOfPhase, CurrentPgdir, MonitorReason
<1>7. RunningIsCurrent /\ ReceiverIsBlocked /\ ReceiverHasRun
  BY DEF RunningIsCurrent, ReceiverIsBlocked, ReceiverHasRun
<1> QED BY <1>3, <1>4, <1>5, <1>6, <1>7 DEF Inv

(* What envid2env returns to a CPU that handles a system call.             *)
LEMMA Envid2envLive ==
  ASSUME Inv, NEW c \in Cpus, CurrentIs(c, {"ENV_RUNNING"}),
         NEW id \in EnvIds, NEW checkperm, NEW e \in Envid2env(c, id, checkperm)
  PROVE  e \in Slots /\ env_status[e] # "ENV_FREE"
<1>1. CASE id = ZeroId
  BY <1>1 DEF Envid2env, CurrentIs, Inv, TypeOK
<1>2. CASE id # ZeroId
  BY <1>2 DEF Envid2env, EnvIds, ENVX
<1> QED BY <1>1, <1>2

(* Every system call of syscall() preserves the invariant.                 *)
LEMMA SystemCallInv ==
  ASSUME Disciplined, Inv, NEW c \in Cpus, SystemCalls(c)
  PROVE  Inv'
<1>1. pc[c] = "dispatch" /\ CurrentIs(c, {"ENV_RUNNING"})
  <2>1. Dispatching(c, "SYSCALL")
    BY DEF SystemCalls, SysNoChange, SysYield, SysExofork, SysEnvDestroy,
           SysEnvSetStatus, SysEnvSetTrapframeBadEnv, SysIpcTrySend, SysIpcRecv,
           Syscall
  <2> QED BY <2>1 DEF Dispatching, Inv, CurrentOfPhase, Interrupts
<1>2. CASE SysNoChange(c) \/ SysYield(c)
  <2>1. CASE SysNoChange(c)
    <3>1. EndTrap(c, "ret") /\ UNCHANGED <<envVars, cpuVars, panicstr>>
      BY <2>1 DEF SysNoChange
    <3> QED BY <1>1, <3>1, EndTrapInv
  <2>2. CASE SysYield(c)
    <3>1. EndTrap(c, "sched") /\ UNCHANGED <<envVars, cpuVars, panicstr>>
      BY <2>2 DEF SysYield
    <3> QED BY <1>1, <3>1, EndTrapInv
  <2> QED BY <1>2, <2>1, <2>2
<1>3. CASE SysExofork(c)
  BY <1>3, ExoforkInv
<1>4. ASSUME NEW id \in EnvIds, SysEnvDestroy(c, id) PROVE Inv'
  <2>1. PICK e \in Envid2env(c, id, TRUE) : MayDestroy(e) /\ EnvDestroy(c, e)
    BY <1>4 DEF SysEnvDestroy
  <2>2. e \in Slots /\ env_status[e] \notin {"ENV_FREE", "ENV_DYING"}
    BY <1>1, <2>1, Envid2envLive DEF MayDestroy, Disciplined
  <2>3. CASE e = curenv[c]
    BY <1>1, <1>4, <2>1, <2>3, FreeCurrentInv
       DEF EnvDestroy, SysEnvDestroy, CurrentIs
  <2>4. CASE e # curenv[c]
    BY <1>1, <1>4, <2>1, <2>2, <2>4, DestroyOtherInv DEF SysEnvDestroy
  <2> QED BY <2>3, <2>4
<1>5. ASSUME NEW id \in EnvIds, NEW s \in {"ENV_RUNNABLE", "ENV_NOT_RUNNABLE"},
             SysEnvSetStatus(c, id, s)
      PROVE  Inv'
  <2>1. PICK e \in Envid2env(c, id, TRUE) :
               /\ MaySetStatus(e, s)
               /\ env_status' = [env_status EXCEPT ![e] = s]
    BY <1>5 DEF SysEnvSetStatus
  <2>2. e \in Slots
    BY <1>1, <2>1, Envid2envLive
  <2>3. s = "ENV_RUNNABLE" /\ env_status[e] = "ENV_NOT_RUNNABLE" /\ env_runs[e] = 0
    BY <2>1 DEF MaySetStatus, Disciplined
  <2> QED BY <1>1, <1>5, <2>1, <2>2, <2>3, MakeRunnableInv DEF SysEnvSetStatus
<1>6. ASSUME NEW id \in EnvIds, SysEnvSetTrapframeBadEnv(c, id) PROVE Inv'
  BY <1>1, <1>6, PanicInv DEF SysEnvSetTrapframeBadEnv
<1>7. ASSUME NEW id \in EnvIds, SysIpcTrySend(c, id) PROVE Inv'
  <2>1. PICK e \in Envid2env(c, id, FALSE) :
               /\ env_ipc_recving[e]
               /\ env_ipc_recving' = StopRecving(e)
               /\ env_status' = [env_status EXCEPT ![e] = "ENV_RUNNABLE"]
    BY <1>7 DEF SysIpcTrySend
  <2>2. e \in Slots /\ env_status[e] = "ENV_NOT_RUNNABLE"
    BY <1>1, <2>1, Envid2envLive DEF Inv, ReceiverIsBlocked
  <2> QED BY <1>1, <1>7, <2>1, <2>2, MakeRunnableInv DEF SysIpcTrySend
<1>8. CASE SysIpcRecv(c)
  BY <1>8, IpcRecvInv
<1> QED BY <1>2, <1>3, <1>4, <1>5, <1>6, <1>7, <1>8 DEF SystemCalls

(* Every step preserves the invariant: one case per action of Next.        *)
LEMMA NextInv ==
  ASSUME Disciplined, Inv, [Next]_vars
  PROVE  Inv'
<1>1. CASE UNCHANGED vars
  <2> USE <1>1 DEF vars, envVars, cpuVars, Inv
  <2>1. TypeOK'
    BY DEF TypeOK
  <2>2. KernelMutex' /\ OneCpu'
    BY DEF KernelMutex, InKernel, OneCpu
  <2>3. CurrentOfPhase' /\ CurrentPgdir'
    BY DEF CurrentOfPhase, CurrentIs, CurrentPgdir
  <2>4. RunningIsCurrent' /\ ReceiverIsBlocked' /\ ReceiverHasRun'
    BY DEF RunningIsCurrent, ReceiverIsBlocked, ReceiverHasRun
  <2>5. FreeListExact' /\ MonitorReason'
    BY DEF FreeListExact, MonitorReason, NothingToRun
  <2> QED BY <2>1, <2>2, <2>3, <2>4, <2>5
<1> SUFFICES ASSUME NEW c \in Cpus,
                    Trap(c) \/ LockKernel(c) \/ KernelStep(c) \/ Monitor(c)
             PROVE  Inv'
  BY <1>1 DEF Next
<1>2. CASE Trap(c) \/ LockKernel(c) \/ EnvPopTf(c)
  BY <1>2, EntryInv
<1>3. CASE TrapEntry(c)
  <2>1. CASE IsZombie(c)
    BY <1>3, <2>1, FreeCurrentInv DEF TrapEntry
  <2>2. CASE ~IsZombie(c)
    <3>1. CurrentIs(c, {"ENV_RUNNING"})
      BY <1>3, <2>2 DEF TrapEntry, IsZombie, Inv, CurrentOfPhase, CurrentIs
    <3> QED BY <1>3, <2>2, <3>1, MoveOnInv
            DEF TrapEntry, Inv, TypeOK, envVars, cpuVars
  <2> QED BY <2>1, <2>2
<1>4. CASE TrapReturn(c)
  <2>1. CASE CurrentStillRunning(c)
    BY <1>4, <2>1, EnvRunInv DEF TrapReturn, CurrentStillRunning, Inv, TypeOK
  <2>2. CASE ~CurrentStillRunning(c)
    <3>1. /\ pc[c] = "ret" /\ Goto(c, "sched") /\ UNCHANGED trapno
          /\ UNCHANGED <<envVars, cpuVars, panicstr>>
      BY <1>4, <2>2 DEF TrapReturn
    <3>2. curenv[c] = NoEnv \/ CurrentIs(c, {"ENV_RUNNING"})
      BY <3>1 DEF Inv, CurrentOfPhase
    <3>3. trapno' \in [Cpus -> Trapnos]
      BY <3>1 DEF Inv, TypeOK
    <3>4. \A d \in Cpus \ {c} : trapno'[d] = trapno[d]
      BY <3>1
    <3> QED BY <3>1, <3>2, <3>3, <3>4, MoveOnInv
  <2> QED BY <2>1, <2>2
<1>5. CASE DispatchTimer(c) \/ DispatchDevice(c)
  <2>1. pc[c] = "dispatch" /\ (curenv[c] = NoEnv \/ CurrentIs(c, {"ENV_RUNNING"}))
    BY <1>5 DEF DispatchTimer, DispatchDevice, Dispatching, Inv, CurrentOfPhase
  <2>2. /\ EndTrap(c, "sched") \/ EndTrap(c, "ret")
        /\ UNCHANGED <<envVars, cpuVars, panicstr>>
    BY <1>5 DEF DispatchTimer, DispatchDevice
  <2> QED BY <2>1, <2>2, EndTrapInv
<1>6. CASE DispatchPageFault(c) \/ DispatchOther(c)
  <2>1. pc[c] = "dispatch" /\ CurrentIs(c, {"ENV_RUNNING"}) /\ curenv[c] \in Slots
    BY <1>6 DEF DispatchPageFault, DispatchOther, Dispatching, Inv, TypeOK,
                CurrentOfPhase, CurrentIs, Interrupts
  <2>2. CASE EnvRun(c, curenv[c])
    BY <2>1, <2>2, EnvRunInv DEF CurrentIs
  <2>3. CASE ~EnvRun(c, curenv[c])
    BY <1>6, <2>1, <2>3, FreeCurrentInv
       DEF DispatchPageFault, DispatchOther, EnvDestroy, CurrentIs
  <2> QED BY <2>2, <2>3
<1>7. CASE SystemCalls(c)
  BY <1>7, SystemCallInv
<1>8. CASE SchedRunNext(c) \/ SchedRunSame(c)
  BY <1>8, EnvRunInv
     DEF SchedRunNext, SchedRunSame, FirstRunnable, Runnable, CurrentStillRunning,
         Inv, TypeOK
<1>9. CASE SchedHalt(c) \/ SchedMonitor(c)
  BY <1>9, SchedHaltInv
<1>10. CASE Monitor(c)
  BY <1>1, <1>10 DEF Monitor
<1> QED BY <1>2, <1>3, <1>4, <1>5, <1>6, <1>7, <1>8, <1>9, <1>10
        DEF KernelStep, Dispatch, Scheduler

(* The inductive invariant holds of the kernel for every number of CPUs,   *)
(* environments and generations, whatever the user programs do within      *)
(* Disciplined.                                                            *)
THEOREM Invariance ==
  ASSUME Disciplined
  PROVE  Spec => []Inv
<1>1. Init => Inv
  BY InitInv
<1>2. Inv /\ [Next]_vars => Inv'
  BY NextInv
<1> QED BY <1>1, <1>2, PTL DEF Spec

(* The variables keep their types.                                         *)
THEOREM TypeCorrect ==
  ASSUME Disciplined
  PROVE  Spec => []TypeOK
<1>1. Inv => TypeOK
  BY DEF Inv
<1> QED BY <1>1, Invariance, PTL

(* At most one CPU executes kernel code: lock_kernel and unlock_kernel are *)
(* paired on every path through trap, env_run and sched_halt.              *)
THEOREM KernelMutualExclusion ==
  ASSUME Disciplined
  PROVE  Spec => []KernelMutex
<1>1. Inv => KernelMutex
  BY DEF Inv
<1> QED BY <1>1, Invariance, PTL

(* No environment is on two CPUs.                                          *)
THEOREM OneCpuPerEnvironment ==
  ASSUME Disciplined
  PROVE  Spec => []OneCpu
<1>1. Inv => OneCpu
  BY DEF Inv
<1> QED BY <1>1, Invariance, PTL

(* No CPU executes in the address space of a freed environment.            *)
THEOREM AddressSpaceSafety ==
  ASSUME Disciplined
  PROVE  Spec => []AddressSpaceAlive
<1>1. ASSUME Inv, NEW c \in Cpus, curenv[c] # NoEnv
      PROVE  env_status[curenv[c]] # "ENV_FREE"
  <2>1. pc[c] \in Phases
    BY <1>1 DEF Inv, TypeOK
  <2> QED BY <1>1, <2>1 DEF Inv, CurrentOfPhase, CurrentIs, Phases
<1>2. Inv => AddressSpaceAlive
  <2> SUFFICES ASSUME Inv, NEW c \in Cpus, cr3[c] # KernPgdir
               PROVE  env_status[cr3[c]] # "ENV_FREE"
    BY DEF AddressSpaceAlive, Inv, CurrentPgdir
  <2>1. cr3[c] = curenv[c]
    BY DEF Inv, CurrentPgdir
  <2>2. curenv[c] # NoEnv
    BY <2>1, ConstantsAssumption DEF Inv, TypeOK
  <2> QED BY <1>1, <2>1, <2>2
<1> QED BY <1>2, Invariance, PTL

(* The monitor is entered only when every environment has stopped.         *)
THEOREM MonitorSafety ==
  ASSUME Disciplined
  PROVE  Spec => []MonitorIsFinal
<1>1. Inv => MonitorIsFinal
  BY DEF Inv, TypeOK, CurrentOfPhase, CurrentIs, MonitorReason, NothingToRun, MonitorIsFinal
<1> QED BY <1>1, Invariance, PTL

(* An environment that is running or dying always has a CPU: none is lost  *)
(* between sched_yield, which skips it, and the CPU that should reap it.   *)
THEOREM RunningHasCpu ==
  ASSUME Disciplined
  PROVE  Spec => []RunningIsCurrent
<1>1. Inv => RunningIsCurrent
  BY DEF Inv
<1> QED BY <1>1, Invariance, PTL

(* env_free_list and the statuses agree: no slot is lost or given twice.   *)
THEOREM FreeListSafety ==
  ASSUME Disciplined
  PROVE  Spec => []FreeListExact
<1>1. Inv => FreeListExact
  BY DEF Inv
<1> QED BY <1>1, Invariance, PTL

(* sys_ipc_try_send never makes a running environment runnable.            *)
THEOREM ReceiverSafety ==
  ASSUME Disciplined
  PROVE  Spec => []ReceiverIsBlocked
<1>1. Inv => ReceiverIsBlocked
  BY DEF Inv
<1> QED BY <1>1, Invariance, PTL

(* A destroyed environment stays destroyed until env_free: the zombie test *)
(* at the head of trap() comes before everything that could revive it.     *)
THEOREM ZombieSafety ==
  ASSUME Disciplined
  PROVE  Spec => ZombieStaysDead
<1> DEFINE Dead == \A e \in Slots : env_status[e] = "ENV_DYING"
                      => env_status'[e] \in {"ENV_DYING", "ENV_FREE"}
<1>1. ASSUME Inv, [Next]_vars PROVE [Dead]_vars
  <2> SUFFICES ASSUME NEW e \in Slots, env_status[e] = "ENV_DYING",
                      NEW c \in Cpus, Trap(c) \/ LockKernel(c) \/ KernelStep(c)
               PROVE  env_status'[e] \in {"ENV_DYING", "ENV_FREE"}
    BY <1>1 DEF Next, Monitor
  <2> USE <1>1
  <2>1. CASE Trap(c) \/ LockKernel(c) \/ EnvPopTf(c) \/ SchedHalt(c) \/ SchedMonitor(c)
    BY <2>1 DEF Trap, TrapUser, TrapHalted, LockKernel, EnvPopTf, SchedHalt,
                SchedMonitor, envVars
  <2>2. ASSUME NEW f \in Slots, EnvRun(c, f), env_status[f] # "ENV_DYING"
        PROVE  env_status'[e] = "ENV_DYING"
    BY <2>2 DEF EnvRun, SwitchedFrom
  <2>3. ASSUME NEW f \in Slots, EnvDestroy(c, f)
        PROVE  env_status'[e] \in {"ENV_DYING", "ENV_FREE"}
    BY <2>3 DEF EnvDestroy, EnvFree, Inv, TypeOK
  <2>4. CASE TrapEntry(c)
    BY <2>4 DEF TrapEntry, EnvFree, Inv, TypeOK
  <2>5. CASE TrapReturn(c)
    BY <2>2, <2>5 DEF TrapReturn, CurrentStillRunning, Inv, TypeOK, envVars
  <2>6. CASE SchedRunNext(c) \/ SchedRunSame(c)
    BY <2>2, <2>6 DEF SchedRunNext, SchedRunSame, FirstRunnable, Runnable,
                      CurrentStillRunning, Inv, TypeOK
  <2>7. CASE DispatchTimer(c) \/ DispatchDevice(c)
    BY <2>7 DEF DispatchTimer, DispatchDevice, envVars
  <2>8. CASE DispatchPageFault(c) \/ DispatchOther(c)
    <3>1. CurrentIs(c, {"ENV_RUNNING"}) /\ curenv[c] \in Slots
      BY <2>8 DEF DispatchPageFault, DispatchOther, Dispatching, Inv, TypeOK,
                  CurrentOfPhase, CurrentIs, Interrupts
    <3> QED BY <2>2, <2>3, <2>8, <3>1 DEF DispatchPageFault, DispatchOther, CurrentIs
  <2>9. CASE SystemCalls(c)
    <3>1. CurrentIs(c, {"ENV_RUNNING"})
      BY <2>9 DEF SystemCalls, SysNoChange, SysYield, SysExofork, SysEnvDestroy,
                  SysEnvSetStatus, SysEnvSetTrapframeBadEnv, SysIpcTrySend,
                  SysIpcRecv, Syscall, Dispatching, Inv, CurrentOfPhase, Interrupts
    <3>2. CASE SysNoChange(c) \/ SysYield(c)
      BY <3>2 DEF SysNoChange, SysYield, envVars
    <3>3. CASE SysExofork(c)
      <4>1. PICK f \in Slots : EnvAlloc(f, env_id[curenv[c]], "ENV_NOT_RUNNABLE")
        BY <3>3 DEF SysExofork
      <4>2. env_status[f] = "ENV_FREE"
        BY <4>1, PopRange DEF EnvAlloc, Inv, TypeOK, FreeListExact
      <4> QED BY <4>1, <4>2 DEF EnvAlloc, Inv, TypeOK
    <3>4. ASSUME NEW id \in EnvIds, SysEnvDestroy(c, id)
          PROVE  env_status'[e] \in {"ENV_DYING", "ENV_FREE"}
      BY <2>3, <3>1, <3>4, Envid2envLive DEF SysEnvDestroy
    <3>5. ASSUME NEW id \in EnvIds, NEW s, SysEnvSetStatus(c, id, s)
          PROVE  env_status'[e] \in {"ENV_DYING", "ENV_FREE"}
      BY <3>1, <3>5, Envid2envLive
         DEF SysEnvSetStatus, MaySetStatus, Disciplined, Inv, TypeOK
    <3>6. ASSUME NEW id \in EnvIds, SysEnvSetTrapframeBadEnv(c, id)
          PROVE  env_status'[e] \in {"ENV_DYING", "ENV_FREE"}
      BY <3>6 DEF SysEnvSetTrapframeBadEnv, envVars
    <3>7. ASSUME NEW id \in EnvIds, SysIpcTrySend(c, id)
          PROVE  env_status'[e] \in {"ENV_DYING", "ENV_FREE"}
      BY <3>1, <3>7, Envid2envLive
         DEF SysIpcTrySend, Inv, TypeOK, ReceiverIsBlocked
    <3>8. CASE SysIpcRecv(c)
      BY <3>1, <3>8 DEF SysIpcRecv, CurrentIs, Inv, TypeOK
    <3> QED BY <2>9, <3>2, <3>3, <3>4, <3>5, <3>6, <3>7, <3>8 DEF SystemCalls
  <2> QED BY <2>1, <2>4, <2>5, <2>6, <2>7, <2>8, <2>9
          DEF KernelStep, Dispatch, Scheduler
<1> QED BY <1>1, Invariance, PTL DEF Spec, ZombieStaysDead

(* Consecutive tenants of a slot differ in the generation.                 *)
LEMMA NewGeneration ==
  ASSUME NEW id \in EnvIds, NEW e
  PROVE  <<NextGeneration(id), e>> # id
<1>1. NGEN \in Nat /\ NGEN # 1 /\ NGEN # 0
  BY ConstantsAssumption
<1>2. id[1] \in 0 .. NGEN
  BY <1>1 DEF EnvIds, ZeroId
<1>3. NextGeneration(id) # id[1]
  <2>1. CASE id[1] = NGEN
    BY <1>1, <2>1 DEF NextGeneration, Wrapped
  <2>2. CASE id[1] # NGEN
    BY <1>1, <1>2, <2>2 DEF NextGeneration, Wrapped
  <2> QED BY <2>1, <2>2
<1> QED BY <1>3

(* envid2env refuses the id of a slot's last tenant: only env_alloc takes  *)
(* a slot from ENV_FREE, and the id it makes is another one, also when the *)
(* generation wraps around.                                                *)
THEOREM StaleIdSafety ==
  ASSUME Disciplined
  PROVE  Spec => NewTenantNewId
<1> DEFINE New(e) == env_status[e] = "ENV_FREE" /\ env_status'[e] # "ENV_FREE"
                       => env_id'[e] # env_id[e]
<1>1. ASSUME Inv, [Next]_vars PROVE [\A e \in Slots : New(e)]_vars
  <2> SUFFICES ASSUME NEW e \in Slots, env_status[e] = "ENV_FREE",
                      NEW c \in Cpus, Trap(c) \/ LockKernel(c) \/ KernelStep(c)
               PROVE  env_status'[e] = "ENV_FREE" \/ env_id'[e] # env_id[e]
    BY <1>1 DEF Next, Monitor
  <2> USE <1>1
  <2>1. CASE Trap(c) \/ LockKernel(c) \/ EnvPopTf(c) \/ SchedHalt(c) \/ SchedMonitor(c)
    BY <2>1 DEF Trap, TrapUser, TrapHalted, LockKernel, EnvPopTf, SchedHalt,
                SchedMonitor, envVars
  <2>2. ASSUME NEW f \in Slots, EnvRun(c, f), env_status[f] # "ENV_FREE"
        PROVE  env_status'[e] = "ENV_FREE"
    BY <2>2 DEF EnvRun, SwitchedFrom
  <2>3. ASSUME NEW f \in Slots, EnvDestroy(c, f), env_status[f] # "ENV_FREE"
        PROVE  env_status'[e] = "ENV_FREE"
    BY <2>3 DEF EnvDestroy, EnvFree, Inv, TypeOK
  <2>4. CASE TrapEntry(c)
    BY <2>4 DEF TrapEntry, EnvFree, Inv, TypeOK
  <2>5. CASE TrapReturn(c)
    BY <2>2, <2>5 DEF TrapReturn, CurrentStillRunning, Inv, TypeOK, envVars
  <2>6. CASE SchedRunNext(c) \/ SchedRunSame(c)
    BY <2>2, <2>6 DEF SchedRunNext, SchedRunSame, FirstRunnable, Runnable,
                      CurrentStillRunning, Inv, TypeOK
  <2>7. CASE DispatchTimer(c) \/ DispatchDevice(c)
    BY <2>7 DEF DispatchTimer, DispatchDevice, envVars
  <2>8. CASE DispatchPageFault(c) \/ DispatchOther(c)
    <3>1. CurrentIs(c, {"ENV_RUNNING"}) /\ curenv[c] \in Slots
      BY <2>8 DEF DispatchPageFault, DispatchOther, Dispatching, Inv, TypeOK,
                  CurrentOfPhase, CurrentIs, Interrupts
    <3> QED BY <2>2, <2>3, <2>8, <3>1 DEF DispatchPageFault, DispatchOther, CurrentIs
  <2>9. CASE SystemCalls(c)
    <3>1. CurrentIs(c, {"ENV_RUNNING"}) /\ curenv[c] \in Slots
      BY <2>9 DEF SystemCalls, SysNoChange, SysYield, SysExofork, SysEnvDestroy,
                  SysEnvSetStatus, SysEnvSetTrapframeBadEnv, SysIpcTrySend,
                  SysIpcRecv, Syscall, Dispatching, Inv, TypeOK, CurrentOfPhase,
                  CurrentIs, Interrupts
    <3>2. CASE SysNoChange(c) \/ SysYield(c)
      BY <3>2 DEF SysNoChange, SysYield, envVars
    <3>3. CASE SysExofork(c)
      <4>1. PICK f \in Slots : EnvAlloc(f, env_id[curenv[c]], "ENV_NOT_RUNNABLE")
        BY <3>3 DEF SysExofork
      <4>2. CASE f # e
        BY <4>1, <4>2 DEF EnvAlloc, Inv, TypeOK
      <4>3. CASE f = e
        <5>1. env_id'[e] = <<NextGeneration(env_id[e]), e>>
          BY <4>1, <4>3 DEF EnvAlloc, Inv, TypeOK
        <5>2. env_id[e] \in EnvIds
          BY DEF Inv, TypeOK
        <5> QED BY <5>1, <5>2, NewGeneration, Zenon
      <4> QED BY <4>2, <4>3
    <3>4. ASSUME NEW id \in EnvIds, SysEnvDestroy(c, id)
          PROVE  env_status'[e] = "ENV_FREE"
      BY <2>3, <3>1, <3>4, Envid2envLive DEF SysEnvDestroy
    <3>5. ASSUME NEW id \in EnvIds, NEW s, SysEnvSetStatus(c, id, s)
          PROVE  env_status'[e] = "ENV_FREE"
      <4>1. PICK f \in Envid2env(c, id, TRUE) : env_status' = [env_status EXCEPT ![f] = s]
        BY <3>5 DEF SysEnvSetStatus
      <4>2. f # e
        BY <3>1, Envid2envLive
      <4> QED BY <4>1, <4>2 DEF Inv, TypeOK
    <3>6. ASSUME NEW id \in EnvIds, SysEnvSetTrapframeBadEnv(c, id)
          PROVE  env_status'[e] = "ENV_FREE"
      BY <3>6 DEF SysEnvSetTrapframeBadEnv, envVars
    <3>7. ASSUME NEW id \in EnvIds, SysIpcTrySend(c, id)
          PROVE  env_status'[e] = "ENV_FREE"
      <4>1. PICK f \in Envid2env(c, id, FALSE) :
                   env_status' = [env_status EXCEPT ![f] = "ENV_RUNNABLE"]
        BY <3>7 DEF SysIpcTrySend
      <4>2. f # e
        BY <3>1, Envid2envLive
      <4> QED BY <4>1, <4>2 DEF Inv, TypeOK
    <3>8. CASE SysIpcRecv(c)
      BY <3>1, <3>8 DEF SysIpcRecv, CurrentIs, Inv, TypeOK
    <3> QED BY <2>9, <3>2, <3>3, <3>4, <3>5, <3>6, <3>7, <3>8 DEF SystemCalls
  <2> QED BY <2>1, <2>4, <2>5, <2>6, <2>7, <2>8, <2>9
          DEF KernelStep, Dispatch, Scheduler
<1> QED BY <1>1, Invariance, PTL DEF Spec, NewTenantNewId

(* After a panic no environment changes: the panicking CPU is in the       *)
(* monitor with the lock, and every change needs the lock.                 *)
THEOREM PanicSafety ==
  ASSUME Disciplined
  PROVE  Spec => PanicFreezes
<1>1. ASSUME Inv, [Next]_vars PROVE [panicstr => UNCHANGED envVars]_vars
  <2> SUFFICES ASSUME panicstr, NEW c \in Cpus,
                      Trap(c) \/ LockKernel(c) \/ KernelStep(c)
               PROVE  UNCHANGED envVars
    BY <1>1 DEF Next, Monitor
  <2>1. pc[c] \notin {"entry", "dispatch", "ret", "sched"}
    BY <1>1 DEF Inv, MonitorReason, KernelMutex, InKernel
  <2>2. Trap(c) \/ LockKernel(c) \/ EnvPopTf(c)
    BY <2>1 DEF KernelStep, TrapEntry, TrapReturn, Dispatch, Scheduler,
                DispatchTimer, DispatchDevice, DispatchPageFault, DispatchOther,
                SystemCalls, SysNoChange, SysYield, SysExofork, SysEnvDestroy,
                SysEnvSetStatus, SysEnvSetTrapframeBadEnv, SysIpcTrySend,
                SysIpcRecv, Syscall, Dispatching,
                SchedRunNext, SchedRunSame, SchedHalt, SchedMonitor
  <2> QED BY <2>2 DEF Trap, TrapUser, TrapHalted, LockKernel, EnvPopTf
<1> QED BY <1>1, Invariance, PTL DEF Spec, PanicFreezes
=============================================================================
