--------------------------------- MODULE Vm ----------------------------------
(***************************************************************************)
(* The system calls of JOS that change address spaces: page allocation,    *)
(* mapping and unmapping, creation of an environment, IPC with page        *)
(* transfer, and the release of everything when an environment is freed    *)
(* (kern/syscall.c, kern/env.c).                                           *)
(*                                                                         *)
(* A system call runs with the big kernel lock and is one step; the loops  *)
(* of env_free are a sequence of steps in which nothing else happens.      *)
(* Which CPU runs an environment, and when one is freed, is the subject of *)
(* module Smp: here any environment that is not blocked makes the next     *)
(* call, and any environment may be freed between two calls.               *)
(***************************************************************************)
EXTENDS Pmap

CONSTANTS
  InitEnv,    \* the environment made by env_create
  InitVa,     \* the address load_icode maps for it
  ZeroVa,     \* the address 0
  Programs    \* what the user programs may do: the system calls they make
              \* and the uses of them that the user library never makes

ASSUME VmAssumption ==
  /\ InitEnv \in Envs /\ InitVa \in Vas /\ ZeroVa \in Vas
  /\ NPAGES >= 3

VARIABLES
  program,           \* what the user programs of this behaviour do
  mem,               \* the memory record of module Pmap
  env_parent,        \* the live parent of each environment, or None
  env_ipc_recving, env_ipc_dstva, env_ipc_perm,   \* struct Env
  freeing,           \* the environment env_free is working on, or None
  err,               \* the error code the last system call returned
  asked,             \* history: the dstva of the sys_ipc_recv in progress
  lost               \* history: pages sys_page_alloc took and forgot

ipcVars == <<env_ipc_recving, env_ipc_dstva, env_ipc_perm, asked>>
vars == <<program, mem, env_parent, ipcVars, freeing, err, lost>>

E_BAD_ENV == 2
E_INVAL == 3
E_NO_MEM == 4
E_NO_FREE_ENV == 5
E_IPC_NOT_RECV == 7

(* Arguments: an address may be valid, at or above UTOP, or not aligned    *)
(* (the last two are the same to the memory calls); a permission may have  *)
(* none of PTE_P, PTE_U, the one thing that the calls refuse.              *)
VaArgs == Vas \cup {"UTOP", "unaligned"}
PermArgs == Perms \cup {"none"}

Live == {e \in Envs : mem.pgdir[e] # None}

(* envid2env with checkperm.                                               *)
MayChange(cur, e) == e \in Live /\ (e = cur \/ env_parent[e] = cur)

-----------------------------------------------------------------------------
(* After env_create: pages 1, 2 and 3 are the page directory, a page table *)
(* and a page of the first environment.                                    *)
Init ==
  /\ program \in Programs
  /\ mem = [free  |-> 4 .. NPAGES,
            ref   |-> [p \in Pages |-> IF p <= 3 THEN 1 ELSE 0],
            pgdir |-> [e \in Envs |-> IF e = InitEnv THEN 1 ELSE None],
            pde   |-> [e \in Envs |-> [d \in Pdxs |->
                        IF e = InitEnv /\ d = PDX[InitVa] THEN 2 ELSE None]],
            pte   |-> [e \in Envs |-> [va \in Vas |->
                        IF e = InitEnv /\ va = InitVa
                        THEN [page |-> 3, perm |-> "w"] ELSE None]],
            panic |-> FALSE]
  /\ env_parent = [e \in Envs |-> None]
  /\ env_ipc_recving = [e \in Envs |-> FALSE]
  /\ env_ipc_dstva = [e \in Envs |-> ZeroVa]
  /\ env_ipc_perm = [e \in Envs |-> "none"]
  /\ freeing = None
  /\ err = 0
  /\ asked = [e \in Envs |-> None]
  /\ lost = {}

(* Environment cur is running and makes a system call.                     *)
Calling(cur, call) ==
  call \in program.calls /\ freeing = None /\ cur \in Live /\ ~env_ipc_recving[cur]

(* A call returns the error code without any other effect.                 *)
Fail(code) ==
  err' = code /\ UNCHANGED <<mem, env_parent, ipcVars, freeing, lost>>

(* A memory call succeeds and leaves memory n.                             *)
Done(n) ==
  mem' = n /\ err' = 0 /\ UNCHANGED <<env_parent, ipcVars, freeing, lost>>

-----------------------------------------------------------------------------
(* sys_page_alloc.                                                         *)

PageAllocFails(cur, e, va, perm) ==
  \/ (va \notin Vas \/ perm = "none") /\ Fail(E_INVAL)
  \/ va \in Vas /\ perm # "none" /\ mem.free = {} /\ Fail(E_NO_MEM)

(* The environment is looked up after the page has been taken.             *)
PageAllocBadEnv(cur, e) ==
  /\ mem.free # {} /\ ~MayChange(cur, e)
  /\ "badenv" \in program.liberties
  /\ mem' = PageAlloc(mem) /\ lost' = lost \cup {FreePage(mem)}
  /\ err' = -E_BAD_ENV
  /\ UNCHANGED <<env_parent, ipcVars, freeing>>

(* The new page is mapped, or given back when there is no page table.      *)
PageAllocInsert_Keeps(cur, e, va, perm) ==
  LET p == FreePage(mem)
      n == PageAlloc(mem)
  IN  /\ mem.free # {} /\ MayChange(cur, e)
      /\ \/ /\ WalkFails(n, e, va)
            /\ mem' = n /\ err' = -E_NO_MEM
            /\ UNCHANGED <<env_parent, ipcVars, freeing, lost>>
         \/ ~WalkFails(n, e, va) /\ Done(PageInsert(n, e, p, va, perm))
PageAllocInsert(cur, e, va, perm) ==
  LET p == FreePage(mem)
      n == PageAlloc(mem)
  IN  /\ mem.free # {} /\ MayChange(cur, e)
      /\ \/ /\ WalkFails(n, e, va)
            /\ mem' = PageFree(n, p) /\ err' = -E_NO_MEM
            /\ UNCHANGED <<env_parent, ipcVars, freeing, lost>>
         \/ ~WalkFails(n, e, va) /\ Done(PageInsert(n, e, p, va, perm))

SysPageAlloc(cur, e, va, perm) ==
  /\ Calling(cur, "page_alloc")
  /\ \/ PageAllocFails(cur, e, va, perm)
     \/ va \in Vas /\ perm # "none" /\ PageAllocBadEnv(cur, e)
     \/ va \in Vas /\ perm # "none" /\ PageAllocInsert(cur, e, va, perm)

-----------------------------------------------------------------------------
(* May the page at srcva in e be mapped elsewhere with this permission?    *)
Grantable_Upgrade(e, srcva, perm) ==
  PageLookup(mem, e, srcva) # None /\ perm # "none"
Grantable(e, srcva, perm) ==
  /\ PageLookup(mem, e, srcva) # None /\ perm # "none"
  /\ perm = "w" => PageLookup(mem, e, srcva).perm = "w"

SysPageMap(cur, src, srcva, dst, dstva, perm) ==
  LET permitted == MayChange(cur, src) /\ MayChange(cur, dst)
      valid == srcva \in Vas /\ dstva \in Vas
  IN  /\ Calling(cur, "page_map")
      /\ \/ ~permitted /\ Fail(-E_BAD_ENV)
         \/ permitted /\ ~valid /\ Fail(-E_INVAL)
         \/ permitted /\ valid /\ ~Grantable(src, srcva, perm) /\ Fail(-E_INVAL)
         \/ /\ permitted /\ valid /\ Grantable(src, srcva, perm)
            /\ WalkFails(mem, dst, dstva) /\ Fail(-E_NO_MEM)
         \/ /\ permitted /\ valid /\ Grantable(src, srcva, perm)
            /\ ~WalkFails(mem, dst, dstva)
            /\ Done(PageInsert(mem, dst, PageLookup(mem, src, srcva).page,
                               dstva, perm))

SysPageUnmap(cur, e, va) ==
  /\ Calling(cur, "page_unmap")
  /\ \/ ~MayChange(cur, e) /\ Fail(-E_BAD_ENV)
     \/ MayChange(cur, e) /\ va \notin Vas /\ Fail(-E_INVAL)
     \/ MayChange(cur, e) /\ va \in Vas /\ Done(PageRemove(mem, e, va))

-----------------------------------------------------------------------------
(* sys_exofork: env_alloc clears env_ipc_recving and no other IPC field.   *)
SysExofork(cur) ==
  /\ Calling(cur, "exofork")
  /\ \/ Live = Envs /\ Fail(-E_NO_FREE_ENV)
     \/ Live # Envs /\ mem.free = {} /\ Fail(-E_NO_MEM)
     \/ \E e \in Envs \ Live :
          /\ mem.free # {}
          /\ mem' = EnvSetupVm(mem, e)
          /\ env_parent' = [env_parent EXCEPT ![e] = cur]
          /\ env_ipc_recving' = [env_ipc_recving EXCEPT ![e] = FALSE]
          /\ err' = 0
          /\ UNCHANGED <<env_ipc_dstva, env_ipc_perm, asked, freeing, lost>>

(* env_free, in the order of the code: the pages of every page table, the  *)
(* table, in the end the page directory.                                   *)
EnvFreeBegin(e) ==
  /\ freeing = None /\ e \in Live
  /\ freeing' = e /\ err' = 0
  /\ UNCHANGED <<mem, env_parent, ipcVars, lost>>

EnvFreePage(e, va) ==
  /\ freeing = e /\ PageLookup(mem, e, va) # None
  /\ mem' = PageRemove(mem, e, va)
  /\ UNCHANGED <<env_parent, ipcVars, freeing, err, lost>>

TableEmpty(e, d) == \A va \in Vas : PDX[va] = d => mem.pte[e][va] = None

EnvFreeTable(e, d) ==
  /\ freeing = e /\ mem.pde[e][d] # None /\ TableEmpty(e, d)
  /\ mem' = PageDecref([mem EXCEPT !.pde[e][d] = None], mem.pde[e][d])
  /\ UNCHANGED <<env_parent, ipcVars, freeing, err, lost>>

(* The children of e are orphans: e's id never names a caller again.       *)
EnvFreeDirectory(e) ==
  /\ freeing = e /\ \A d \in Pdxs : mem.pde[e][d] = None
  /\ mem' = PageDecref([mem EXCEPT !.pgdir[e] = None], mem.pgdir[e])
  /\ env_parent' = [f \in Envs |-> IF env_parent[f] = e THEN None
                                                        ELSE env_parent[f]]
  /\ freeing' = None
  /\ asked' = [asked EXCEPT ![e] = None]
  /\ UNCHANGED <<env_ipc_recving, env_ipc_dstva, env_ipc_perm, err, lost>>

-----------------------------------------------------------------------------
(* IPC.                                                                    *)

(* The address is stored only if a page is asked for.                      *)
Stored_NotAtAll(cur, dstva) == env_ipc_dstva
Stored(cur, dstva) ==
  IF dstva = "UTOP" THEN env_ipc_dstva ELSE [env_ipc_dstva EXCEPT ![cur] = dstva]
SysIpcRecv(cur, dstva) ==
  /\ Calling(cur, "ipc")
  /\ \/ dstva = "unaligned" /\ Fail(-E_INVAL)
     \/ /\ dstva # "unaligned"
        /\ env_ipc_dstva' = Stored(cur, dstva)
        /\ env_ipc_recving' = [env_ipc_recving EXCEPT ![cur] = TRUE]
        /\ asked' = [asked EXCEPT ![cur] = dstva]
        /\ err' = 0
        /\ UNCHANGED <<mem, env_parent, env_ipc_perm, freeing, lost>>

(* The receiver gets the message, with permission perm, and runs again.    *)
Deliver(e, perm) ==
  /\ env_ipc_perm' = [env_ipc_perm EXCEPT ![e] = perm]
  /\ env_ipc_recving' = [env_ipc_recving EXCEPT ![e] = FALSE]
  /\ asked' = [asked EXCEPT ![e] = None]
  /\ err' = 0
  /\ UNCHANGED <<env_parent, env_ipc_dstva, freeing, lost>>

(* A send with a page.  The address 0 counts as no address, but the        *)
(* permission is reported all the same.                                    *)
SendPage(cur, e, srcva, perm) ==
  LET dstva == env_ipc_dstva[e]
  IN  \/ srcva = "unaligned" /\ Fail(-E_INVAL)
      \/ srcva \in Vas /\ ~Grantable(cur, srcva, perm) /\ Fail(-E_INVAL)
      \/ /\ srcva \in Vas /\ Grantable(cur, srcva, perm)
         /\ dstva # ZeroVa /\ WalkFails(mem, e, dstva) /\ Fail(-E_NO_MEM)
      \/ /\ srcva \in Vas /\ Grantable(cur, srcva, perm)
         /\ dstva = ZeroVa /\ UNCHANGED mem /\ Deliver(e, perm)
      \/ /\ srcva \in Vas /\ Grantable(cur, srcva, perm)
         /\ dstva # ZeroVa /\ ~WalkFails(mem, e, dstva)
         /\ mem' = PageInsert(mem, e, PageLookup(mem, cur, srcva).page, dstva,
                              perm)
         /\ Deliver(e, perm)

SysIpcTrySend(cur, e, srcva, perm) ==
  /\ Calling(cur, "ipc")
  /\ \/ e \notin Live /\ Fail(-E_BAD_ENV)
     \/ e \in Live /\ ~env_ipc_recving[e] /\ Fail(-E_IPC_NOT_RECV)
     \/ /\ e \in Live /\ env_ipc_recving[e]
        /\ srcva = "UTOP" /\ UNCHANGED mem /\ Deliver(e, "none")
     \/ /\ e \in Live /\ env_ipc_recving[e]
        /\ srcva # "UTOP" /\ SendPage(cur, e, srcva, perm)

-----------------------------------------------------------------------------
EnvFree(e) ==
  \/ EnvFreeBegin(e)
  \/ \E va \in Vas : EnvFreePage(e, va)
  \/ \E d \in Pdxs : EnvFreeTable(e, d)
  \/ EnvFreeDirectory(e)

Syscall(cur) ==
  \/ \E e \in Envs, va \in VaArgs \ {"UTOP"}, perm \in PermArgs :
       SysPageAlloc(cur, e, va, perm)
  \/ \E e \in Envs, va \in VaArgs, perm \in PermArgs :
       SysIpcTrySend(cur, e, va, perm)
  \/ \E src, dst \in Envs, srcva, dstva \in VaArgs \ {"UTOP"},
       perm \in PermArgs :
       SysPageMap(cur, src, srcva, dst, dstva, perm)
  \/ \E e \in Envs, va \in VaArgs \ {"UTOP"} : SysPageUnmap(cur, e, va)
  \/ \E dstva \in VaArgs : SysIpcRecv(cur, dstva)
  \/ SysExofork(cur)

Next == (\E e \in Envs : Syscall(e) \/ EnvFree(e)) /\ UNCHANGED program

Spec == Init /\ [][Next]_vars

-----------------------------------------------------------------------------
(* The memory is well formed, and page_free has not panicked: it was never *)
(* given a page that still had references.                                 *)
TypeOK ==
  /\ program \in Programs
  /\ mem \in Memories /\ ~mem.panic
  /\ env_parent \in [Envs -> Envs \cup {None}]
  /\ env_ipc_recving \in [Envs -> BOOLEAN]
  /\ env_ipc_dstva \in [Envs -> Vas]
  /\ env_ipc_perm \in [Envs -> PermArgs]
  /\ freeing \in Envs \cup {None}
  /\ err \in Int
  /\ asked \in [Envs -> Vas \cup {"UTOP", None}]
  /\ lost \subseteq Pages

(* pp_ref is the number of pointers to the page, through every allocation, *)
(* replacement of a mapping, page transfer and release.                    *)
RefExact == \A p \in Pages : mem.ref[p] = Refs(mem, p)

(* The free list has exactly the pages that nothing points to: no page in  *)
(* use is handed out a second time, and none is lost but the ones that     *)
(* sys_page_alloc has taken before it found that the caller may not change *)
(* the environment it was asked about.                                     *)
FreeExact ==
  /\ \A p \in mem.free : mem.ref[p] = 0
  /\ {p \in Pages : Refs(mem, p) = 0} = mem.free \cup lost
  /\ mem.free \cap lost = {}

(* A page that is a page directory or a page table has no other use: no    *)
(* environment maps it, and no other environment uses it.                  *)
TablesPrivate ==
  \A p \in Pages :
    PgdirRefs(mem, p) # {} \/ PdeRefs(mem, p) # {} => Refs(mem, p) = 1

(* What is mapped is reachable for env_free: a mapping has its page table, *)
(* and a page table its directory.                                         *)
TablesComplete ==
  \A e \in Envs :
    /\ \A va \in Vas : mem.pte[e][va] # None => mem.pde[e][PDX[va]] # None
    /\ \A d \in Pdxs : mem.pde[e][d] # None => mem.pgdir[e] # None

(* Pages and page tables are consistent through every sequence of calls,   *)
(* transfers and releases, with memory running out in any of them: counts  *)
(* are exact, tables have one owner, and env_free reaches what is mapped.  *)
MemoryInv == TypeOK /\ RefExact /\ TablesPrivate /\ TablesComplete

(* A system call that fails has changed no memory: what it had allocated   *)
(* is given back, and no mapping is half made, in a send no less than in a *)
(* memory call.  The one exception is -E_BAD_ENV of sys_page_alloc, which  *)
(* costs a page of the free list and nothing else.                         *)
FailureIsAtomic ==
  [][err' # 0 => /\ mem' = [mem EXCEPT !.free = @ \ lost']
                 /\ lost' # lost => err' = -E_BAD_ENV]_vars

(* Write access to a page in use only comes from write access: neither     *)
(* sys_page_map nor IPC turns a read-only mapping into a writable one.     *)
NoWriteUpgrade ==
  [][\A e \in Envs, va \in Vas :
       LET new == mem'.pte[e][va]
       IN  new # None /\ new # mem.pte[e][va] /\ new.perm = "w"
             => \/ new.page \in mem.free
                \/ \E f \in Envs, w \in Vas : mem.pte[f][w] = new]_vars

(* A receiver that asks sys_ipc_recv for a page at an address other than 0 *)
(* is told the truth: with a permission it has got there, with that        *)
(* permission, a page that some environment had mapped, and without one    *)
(* nothing; nothing else of its memory changes, whatever it and the        *)
(* earlier environments of its slot had asked for before.                  *)
PageArrives ==
  [][\A e \in Envs :
       /\ e \in Live /\ env_ipc_recving[e] /\ ~env_ipc_recving'[e]
       /\ asked[e] # "UTOP" /\ asked[e] # ZeroVa
       => LET new == mem'.pte[e][asked[e]]
          IN  /\ \A va \in Vas \ {asked[e]} : mem'.pte[e][va] = mem.pte[e][va]
              /\ IF env_ipc_perm'[e] = "none" THEN new = mem.pte[e][asked[e]]
                 ELSE /\ new # None /\ new.perm = env_ipc_perm'[e]
                      /\ \E f \in Envs, va \in Vas :
                           /\ mem.pte[f][va] # None
                           /\ mem.pte[f][va].page = new.page]_vars

(* What the comment of sys_ipc_try_send says of a receiver that asks for   *)
(* no page (dstva at UTOP): "then no page mapping is transferred".         *)
NothingUnasked ==
  [][\A e \in Envs :
       e \in Live /\ env_ipc_recving[e] /\ ~env_ipc_recving'[e] /\ asked[e] = "UTOP"
         => mem'.pte[e] = mem.pte[e]]_vars
=============================================================================
