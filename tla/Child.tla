-------------------------------- MODULE Child --------------------------------
(***************************************************************************)
(* How an environment makes another one in user space: fork with its       *)
(* copy-on-write pages and its page fault handler (lib/fork.c,             *)
(* lib/pgfault.c), and spawn, which builds a program image page by page    *)
(* (lib/spawn.c).  Each step is one system call, or one access to memory,  *)
(* of one environment; the kernel's side of the calls is module Vm.        *)
(*                                                                         *)
(* An environment has a stack, the pages of its program's segments, a page *)
(* it shares with its relatives (PTE_SHARE: a struct Fd, a pipe) and, while *)
(* spawn reads a program, the struct Fd of that file.  A page holds one    *)
(* value.  mem is what the program of an environment believes to have in   *)
(* its pages: what it wrote there, or what it was given at its birth.      *)
(*                                                                         *)
(* Every call pushes onto the stack, so a step inside fork or spawn first  *)
(* needs a writable stack; what it pushes lies below what the child will   *)
(* use, and is not part of the value of the stack page.                    *)
(***************************************************************************)
EXTENDS Integers, Sequences, FiniteSets

CONSTANTS
  Envs, First,       \* environments, and the one that runs at first
  NFRAMES,           \* number of physical pages
  Values,            \* of a page
  Segments,          \* of every program: page, perm, and is it in the file?
  Image,             \* the values a spawned program starts with
  Calls,             \* subset of {"fork", "spawn", "exit"}
  None

Frames == 1 .. NFRAMES
Data == {Segments[k].page : k \in {j \in DOMAIN Segments : Segments[j].perm = "w"}}
Private == {Segments[k].page : k \in DOMAIN Segments} \cup {"stack"}
Pages == Private \cup {"lib", "prog"}
AllPages == Pages \cup {"PFTEMP", "UTEMP", "xstack"}

Stored == Data \cup {"stack"}        \* the private pages that are written
Faulting == [page : Stored, step : {"alloc", "copy", "map", "unmap"}]

(* The order in which the loops over an address space meet the pages.      *)
PageOrder == [k \in DOMAIN Segments |-> Segments[k].page]
             \o <<"lib", "prog", "stack">>

(* Segments do not overlap: user/user.ld puts the data on a page of its    *)
(* own.                                                                    *)
ASSUME ChildAssumption ==
  /\ First \in Envs /\ None \notin Envs \cup Int \cup Faulting
  /\ NFRAMES \in Nat /\ Len(PageOrder) <= NFRAMES
  /\ 0 \in Values /\ Image \in [Private -> Values]
  /\ Segments \in Seq([page : STRING, perm : {"ro", "w"}, file : BOOLEAN])
  /\ \A k \in DOMAIN Segments :
       /\ Segments[k].page \notin {"lib", "prog", "stack", "PFTEMP", "UTEMP", "xstack"}
       /\ ~Segments[k].file => Image[Segments[k].page] = 0
       /\ \A j \in DOMAIN Segments : Segments[j].page = Segments[k].page => j = k

VARIABLES
  status,            \* free, building (ENV_NOT_RUNNABLE), run, panic, gone,
                     \* or killed by a page fault it could not handle
  pt,                \* page tables: a frame and a permission
  content,           \* of the frames
  upcall,            \* environments with an env_pgfault_upcall
  handler,           \* environments with a _pgfault_handler
  fault,             \* the page fault being handled: its page and step
  pc, at,            \* where an environment is; the index of its loop
  child, parent,     \* the child being made, and whose child one is
  leaked,            \* environments in which spawn left something behind
  mem, shm           \* what the programs believe

procVars == <<status, upcall, handler, fault, pc, at, child, parent, leaked>>
vars == <<procVars, pt, content, mem, shm>>

NoPage == [frame |-> None, perm |-> "none"]
Page(f, p) == [frame |-> f, perm |-> p]
Mapped(e, v) == pt[e][v].frame # None
Writable(e, v) == pt[e][v].perm \in {"w", "share"}
FdFrame == 0           \* the file server's page of an open program file

(* A frame is free when no page table has it; which of the free ones       *)
(* page_alloc takes does not matter.                                       *)
Free == Frames \ {pt[e][v].frame : e \in Envs, v \in AllPages}
page_alloc == CHOOSE f \in Free : TRUE

-----------------------------------------------------------------------------
(* The first environment is one that was spawned: its program's segments   *)
(* have the permissions spawn gives them, and it has a shared page.        *)
FirstTable ==
  [v \in AllPages |->
     IF v \notin Pages \ {"prog"} THEN NoPage
     ELSE LET k == CHOOSE j \in DOMAIN PageOrder : PageOrder[j] = v
          IN  Page(k, CASE v = "lib" -> "share"
                        [] v \in Data \cup {"stack"} -> "w"
                        [] OTHER -> "ro")]

Init ==
  /\ status = [e \in Envs |-> IF e = First THEN "run" ELSE "free"]
  /\ pt = [e \in Envs |-> IF e = First THEN FirstTable
                          ELSE [v \in AllPages |-> NoPage]]
  /\ content = [f \in Frames |-> 0]
  /\ upcall = {} /\ handler = {} /\ leaked = {}
  /\ fault = [e \in Envs |-> None]
  /\ pc = [e \in Envs |-> "user"]
  /\ at = [e \in Envs |-> 0]
  /\ child = [e \in Envs |-> None]
  /\ parent = [e \in Envs |-> None]
  /\ mem = [e \in Envs |-> [v \in Private |-> 0]]
  /\ shm = 0

(* What the next instructions at a point write to: the stack and, for the  *)
(* variables _pgfault_handler and thisenv, the data of the program.        *)
Needs(point) ==
  {"stack"} \cup (IF point \in {"sethandler", "childret"} THEN Data ELSE {})

Ready(e, point) ==
  /\ status[e] = "run" /\ fault[e] = None /\ pc[e] = point
  /\ \A v \in Needs(point) : Writable(e, v)

Goto(e, point) == pc' = [pc EXCEPT ![e] = point]
Becomes(e, s) == status' = [status EXCEPT ![e] = s]
Map(e, v, entry) == pt' = [pt EXCEPT ![e][v] = entry]
Fill(f, x) == content' = [content EXCEPT ![f] = x]

(* user panic: the environment stays, in the kernel's monitor.             *)
panic(e) ==
  /\ Becomes(e, "panic")
  /\ UNCHANGED <<pt, content, upcall, handler, fault, pc, at, child, parent, leaked>>

(* sys_page_alloc: a page of zeroes.  With no free page it returns the     *)
(* positive E_NO_MEM, for which the stub of the system call panics; with a *)
(* page but none left for a page table, an error that its caller sees.     *)
sys_page_alloc(e, v, perm) ==
  /\ Free # {}
  /\ Map(e, v, Page(page_alloc, perm))
  /\ Fill(page_alloc, 0)
NoTable == \A f, g \in Free : f = g

-----------------------------------------------------------------------------
(* Programs, and page faults.                                              *)

(* The kernel's page_fault_handler: the upcall, on the exception stack, or *)
(* the end of the environment.                                             *)
TakeFault(e, v) ==
  /\ \/ /\ e \in upcall /\ Writable(e, "xstack")
        /\ fault' = [fault EXCEPT ![e] = [page |-> v, step |-> "alloc"]]
        /\ UNCHANGED <<status, pt>>
     \/ /\ ~(e \in upcall /\ Writable(e, "xstack"))
        /\ Becomes(e, "killed")
        /\ pt' = [pt EXCEPT ![e] = [w \in AllPages |-> NoPage]]
        /\ UNCHANGED fault
  /\ UNCHANGED <<content, upcall, handler, pc, at, child, parent, leaked, mem, shm>>

(* A program stores into its data or into the shared page.                 *)
Write(e, v, x) ==
  /\ Ready(e, "user") /\ v \in Data \cup {"lib"}
  /\ Writable(e, v)
  /\ Fill(pt[e][v].frame, x)
  /\ IF v = "lib" THEN shm' = x /\ UNCHANGED mem
     ELSE mem' = [mem EXCEPT ![e][v] = x] /\ UNCHANGED shm
  /\ UNCHANGED <<procVars, pt>>

(* A store, of the program or of the library code it is in, that faults.   *)
Faults(e, v) ==
  /\ status[e] = "run" /\ fault[e] = None
  /\ v \in Needs(pc[e]) \/ (pc[e] = "user" /\ v \in Data)
  /\ ~Writable(e, v)
  /\ TakeFault(e, v)

(* pgfault, one system call or copy at a time.                             *)
Handling(e, step) == status[e] = "run" /\ fault[e] # None /\ fault[e].step = step
Then(e, step) == fault' = [fault EXCEPT ![e].step = step]

(* A fault that is not a write to a copy-on-write page ends the program:   *)
(* pgfault panics.                                                         *)
PgfaultAlloc(e) ==
  /\ Handling(e, "alloc")
  /\ \/ /\ pt[e][fault[e].page].perm = "cow"
        /\ sys_page_alloc(e, "PFTEMP", "w")
        /\ Then(e, "copy")
        /\ UNCHANGED <<status, upcall, handler, pc, at, child, parent, leaked>>
     \/ /\ pt[e][fault[e].page].perm = "cow" /\ NoTable
        /\ panic(e)
     \/ /\ pt[e][fault[e].page].perm # "cow"
        /\ Becomes(e, "killed")
        /\ UNCHANGED <<pt, content, upcall, handler, fault, pc, at, child, parent,
                       leaked>>
  /\ UNCHANGED <<mem, shm>>

PgfaultCopy(e) ==
  /\ Handling(e, "copy")
  /\ Fill(pt[e]["PFTEMP"].frame, content[pt[e][fault[e].page].frame])
  /\ Then(e, "map")
  /\ UNCHANGED <<status, upcall, handler, pc, at, child, parent, leaked, pt, mem, shm>>

PgfaultMap(e) ==
  /\ Handling(e, "map")
  /\ Map(e, fault[e].page, Page(pt[e]["PFTEMP"].frame, "w"))
  /\ Then(e, "unmap")
  /\ UNCHANGED <<status, upcall, handler, pc, at, child, parent, leaked, content,
                 mem, shm>>

PgfaultUnmap(e) ==
  /\ Handling(e, "unmap")
  /\ Map(e, "PFTEMP", NoPage)
  /\ fault' = [fault EXCEPT ![e] = None]
  /\ UNCHANGED <<status, upcall, handler, pc, at, child, parent, leaked, content,
                 mem, shm>>

(* exit: the kernel frees the address space.                               *)
Exit(e) ==
  /\ Ready(e, "user") /\ "exit" \in Calls
  /\ Becomes(e, "gone")
  /\ pt' = [pt EXCEPT ![e] = [v \in AllPages |-> NoPage]]
  /\ UNCHANGED <<upcall, handler, fault, pc, at, child, parent, leaked, content,
                 mem, shm>>

-----------------------------------------------------------------------------
(* fork.                                                                   *)

BeginFork(e) ==
  /\ Ready(e, "user") /\ "fork" \in Calls
  /\ Goto(e, IF e \in handler THEN "sethandler" ELSE "makexstack")
  /\ UNCHANGED <<status, upcall, handler, fault, at, child, parent, leaked, pt,
                 content, mem, shm>>

(* set_pgfault_handler.                                                    *)
MakeXstack(e) ==
  /\ Ready(e, "makexstack")
  /\ \/ /\ sys_page_alloc(e, "xstack", "w")
        /\ Goto(e, "setupcall")
        /\ UNCHANGED <<status, upcall, handler, fault, at, child, parent, leaked>>
     \/ NoTable /\ panic(e)
  /\ UNCHANGED <<mem, shm>>

SetUpcall(e) ==
  /\ Ready(e, "setupcall")
  /\ upcall' = upcall \cup {e} /\ Goto(e, "sethandler")
  /\ UNCHANGED <<status, handler, fault, at, child, parent, leaked, pt, content,
                 mem, shm>>

SetHandler(e) ==
  /\ Ready(e, "sethandler")
  /\ handler' = handler \cup {e} /\ Goto(e, "exofork")
  /\ UNCHANGED <<status, upcall, fault, at, child, parent, leaked, pt, content,
                 mem, shm>>

(* sys_exofork: the child has the parent's registers and no memory.        *)
Exofork(e, c, point, believes) ==
  /\ status[c] = "free"
  /\ Becomes(c, "building")
  /\ child' = [child EXCEPT ![e] = c]
  /\ parent' = [parent EXCEPT ![c] = e]
  /\ pc' = [pc EXCEPT ![e] = point, ![c] = IF point = "dup" THEN "childret" ELSE "user"]
  /\ at' = [at EXCEPT ![e] = 1]
  /\ mem' = [mem EXCEPT ![c] = believes]
  /\ UNCHANGED <<upcall, fault, pt, content, shm>>

ForkExofork(e) ==
  /\ Ready(e, "exofork")
  /\ \/ \E c \in Envs :
          /\ Exofork(e, c, "dup", mem[e])
          /\ handler' = handler \cup {c}
          /\ leaked' = IF e \in leaked THEN leaked \cup {c} ELSE leaked
     \/ /\ Free = {} \/ \A c \in Envs : status[c] # "free"
        /\ panic(e) /\ UNCHANGED <<mem, shm>>

(* duppage, for each page that is mapped.  A page that may be written is   *)
(* mapped copy-on-write in the child, and then ...                         *)
ChildPerm(perm) == IF perm \in {"share", "ro"} THEN perm ELSE "cow"

MapsRest == UNCHANGED <<status, upcall, handler, fault, child, parent, leaked,
                        content, mem, shm>>
NextPage(e) == at' = [at EXCEPT ![e] = @ + 1]

Duppage(e) ==
  /\ Ready(e, "dup") /\ at[e] <= Len(PageOrder)
  /\ LET v == PageOrder[at[e]]
         perm == pt[e][v].perm
     IN  \/ ~Mapped(e, v) /\ NextPage(e) /\ UNCHANGED <<pt, pc>>
         \/ /\ Mapped(e, v)
            /\ Map(child[e], v, Page(pt[e][v].frame, ChildPerm(perm)))
            /\ IF ChildPerm(perm) = "cow" THEN Goto(e, "remap") /\ UNCHANGED at
               ELSE NextPage(e) /\ UNCHANGED pc
  /\ MapsRest

(* ... in the parent too, with the page that the child has.                *)
RemapPerm_Own(perm) == perm
RemapPerm(perm) == "cow"
Remap(e) ==
  /\ Ready(e, "remap")
  /\ LET v == PageOrder[at[e]]
     IN  Map(e, v, Page(pt[child[e]][v].frame, RemapPerm(pt[e][v].perm)))
  /\ NextPage(e) /\ Goto(e, "dup")
  /\ MapsRest

(* A system call that maps a page may find no memory for a page table.     *)
MapFails(e) ==
  /\ Free = {}
  /\ pc[e] \in {"dup", "mapsegment"} /\ Ready(e, pc[e])
  /\ panic(e)
  /\ UNCHANGED <<mem, shm>>

(* Then the page fault upcall, the exception stack, and the child may run. *)
ChildUpcall(e) ==
  /\ Ready(e, "dup") /\ at[e] > Len(PageOrder)
  /\ upcall' = IF e \in upcall THEN upcall \cup {child[e]} ELSE upcall
  /\ Goto(e, "childxstack")
  /\ UNCHANGED <<status, handler, fault, at, child, parent, leaked, pt, content,
                 mem, shm>>

ChildXstack_Later(e) ==
  /\ Ready(e, "childxstack") /\ Goto(e, "start")
  /\ UNCHANGED <<status, upcall, handler, fault, at, child, parent, leaked, pt,
                 content, mem, shm>>
ChildXstack(e) ==
  /\ Ready(e, "childxstack")
  /\ \/ /\ sys_page_alloc(child[e], "xstack", "w")
        /\ Goto(e, "start")
        /\ UNCHANGED <<status, upcall, handler, fault, at, child, parent, leaked>>
     \/ NoTable /\ panic(e)
  /\ UNCHANGED <<mem, shm>>

(* sys_env_set_status(child, ENV_RUNNABLE), of fork and of spawn.          *)
Start(e) ==
  /\ Ready(e, "start")
  /\ Becomes(child[e], "run")
  /\ child' = [child EXCEPT ![e] = None] /\ Goto(e, "user")
  /\ UNCHANGED <<upcall, handler, fault, at, parent, leaked, pt, content, mem, shm>>

(* The child, where exofork returns 0, sets thisenv.                       *)
ChildReturns(e) ==
  /\ Ready(e, "childret")
  /\ Goto(e, "user")
  /\ UNCHANGED <<status, upcall, handler, fault, at, child, parent, leaked, pt,
                 content, mem, shm>>

-----------------------------------------------------------------------------
(* spawn.                                                                  *)

(* spawn gives up, having left something behind or not.                    *)
Returns(e, leaks) ==
  /\ Goto(e, "user")
  /\ child' = [child EXCEPT ![e] = None]
  /\ leaked' = IF leaks THEN leaked \cup {e} ELSE leaked
  /\ UNCHANGED <<upcall, handler, fault, at, parent>>
Continues(e, point) ==
  /\ Goto(e, point)
  /\ UNCHANGED <<status, upcall, handler, fault, at, child, parent, leaked>>

(* The program file is opened, which shares its struct Fd, and its header  *)
(* read.                                                                   *)
SpawnOpen(e) ==
  /\ Ready(e, "user") /\ "spawn" \in Calls /\ ~Mapped(e, "prog")
  /\ Map(e, "prog", Page(FdFrame, "share"))
  /\ Continues(e, "header")
  /\ UNCHANGED <<content, mem, shm>>

SpawnHeader(e) ==
  /\ Ready(e, "header")
  /\ \/ Continues(e, "spawnfork") /\ UNCHANGED pt
     \/ Map(e, "prog", NoPage) /\ Returns(e, FALSE) /\ UNCHANGED status
  /\ UNCHANGED <<content, mem, shm>>

SpawnExofork(e) ==
  /\ Ready(e, "spawnfork")
  /\ \/ /\ \E c \in Envs : Exofork(e, c, "initstack", Image)
        /\ UNCHANGED <<handler, leaked>>
     \/ /\ Free = {} \/ \A c \in Envs : status[c] # "free"
        /\ Returns(e, TRUE)
        /\ UNCHANGED <<status, pt, content, mem, shm>>

(* init_stack: the arguments are put into a page at UTEMP, which is mapped *)
(* as the child's stack and then unmapped.  The arguments may not fit, or  *)
(* there is no page table for UTEMP; without a page, the stub panics.      *)
InitStack(e) ==
  /\ Ready(e, "initstack")
  /\ \/ /\ Free # {}
        /\ Map(e, "UTEMP", Page(page_alloc, "w"))
        /\ Fill(page_alloc, Image["stack"])
        /\ Continues(e, "mapstack")
     \/ Returns(e, TRUE) /\ UNCHANGED <<status, pt, content>>
     \/ Free = {} /\ panic(e)
  /\ UNCHANGED <<mem, shm>>

MapStack(e) ==
  /\ Ready(e, "mapstack")
  /\ \/ /\ Map(child[e], "stack", Page(pt[e]["UTEMP"].frame, "w"))
        /\ Continues(e, "unmapstack")
     \/ /\ Free = {}
        /\ Map(e, "UTEMP", NoPage) /\ Returns(e, TRUE) /\ UNCHANGED status
  /\ UNCHANGED <<content, mem, shm>>

UnmapStack(e) ==
  /\ Ready(e, "unmapstack")
  /\ Map(e, "UTEMP", NoPage)
  /\ Continues(e, "segment")
  /\ UNCHANGED <<content, mem, shm>>

(* map_segment: a page of zeroes, or one read from the file at UTEMP.      *)
(* Without a page the stub panics, and neither the child nor the file is   *)
(* cleaned up; the way out below is for a missing page table.              *)
Segment(e) ==
  /\ Ready(e, "segment") /\ at[e] <= Len(Segments)
  /\ LET s == Segments[at[e]]
     IN  \/ /\ s.file
            /\ sys_page_alloc(e, "UTEMP", "w")
            /\ Continues(e, "readsegment")
         \/ /\ ~s.file
            /\ sys_page_alloc(child[e], s.page, s.perm)
            /\ NextPage(e)
            /\ UNCHANGED <<status, upcall, handler, fault, pc, child, parent, leaked>>
         \/ NoTable /\ Free # {} /\ Continues(e, "error") /\ UNCHANGED <<pt, content>>
         \/ Free = {} /\ panic(e)
  /\ UNCHANGED <<mem, shm>>

ReadSegment(e) ==
  /\ Ready(e, "readsegment")
  /\ \/ /\ Fill(pt[e]["UTEMP"].frame, Image[Segments[at[e]].page])
        /\ Continues(e, "mapsegment")
     \/ Continues(e, "error") /\ UNCHANGED content
  /\ UNCHANGED <<pt, mem, shm>>

MapSegment(e) ==
  /\ Ready(e, "mapsegment")
  /\ LET s == Segments[at[e]]
     IN  Map(child[e], s.page, Page(pt[e]["UTEMP"].frame, s.perm))
  /\ Continues(e, "unmapsegment")
  /\ UNCHANGED <<content, mem, shm>>

UnmapSegment(e) ==
  /\ Ready(e, "unmapsegment")
  /\ Map(e, "UTEMP", NoPage)
  /\ NextPage(e) /\ Goto(e, "segment")
  /\ MapsRest

(* The file is closed before the shared pages are copied.                  *)
CloseProgram(e) ==
  /\ Ready(e, "segment") /\ at[e] > Len(Segments)
  /\ Map(e, "prog", NoPage)
  /\ at' = [at EXCEPT ![e] = 1] /\ Goto(e, "copyshared")
  /\ MapsRest

(* copy_shared_pages, which does not look at what sys_page_map returns.    *)
CopyShared(e) ==
  /\ Ready(e, "copyshared") /\ at[e] <= Len(PageOrder)
  /\ LET v == PageOrder[at[e]]
     IN  IF pt[e][v].perm = "share"
         THEN \/ Map(child[e], v, pt[e][v])
              \/ Free = {} /\ UNCHANGED pt
         ELSE UNCHANGED pt
  /\ NextPage(e) /\ UNCHANGED pc
  /\ MapsRest

SetTrapframe(e) ==
  /\ Ready(e, "copyshared") /\ at[e] > Len(PageOrder)
  /\ Continues(e, "start")
  /\ UNCHANGED <<pt, content, mem, shm>>

(* The way out after an error: the child is destroyed, the file closed.    *)
SpawnError_ChildLeft(e) ==
  /\ Ready(e, "error")
  /\ Map(e, "prog", NoPage)
  /\ Returns(e, FALSE)
  /\ UNCHANGED <<status, content, mem, shm>>
SpawnError(e) ==
  /\ Ready(e, "error")
  /\ Becomes(child[e], "gone")
  /\ pt' = [pt EXCEPT ![child[e]] = [v \in AllPages |-> NoPage],
                      ![e]["prog"] = NoPage]
  /\ Returns(e, FALSE)
  /\ UNCHANGED <<content, mem, shm>>

-----------------------------------------------------------------------------
Pgfault(e) == PgfaultAlloc(e) \/ PgfaultCopy(e) \/ PgfaultMap(e) \/ PgfaultUnmap(e)

fork(e) ==
  \/ BeginFork(e) \/ MakeXstack(e) \/ SetUpcall(e) \/ SetHandler(e)
  \/ ForkExofork(e) \/ Duppage(e) \/ Remap(e) \/ ChildUpcall(e)
  \/ ChildXstack(e) \/ ChildReturns(e)

spawn(e) ==
  \/ SpawnOpen(e) \/ SpawnHeader(e) \/ SpawnExofork(e) \/ InitStack(e)
  \/ MapStack(e) \/ UnmapStack(e) \/ Segment(e) \/ ReadSegment(e)
  \/ MapSegment(e) \/ UnmapSegment(e) \/ CloseProgram(e) \/ CopyShared(e)
  \/ SetTrapframe(e) \/ SpawnError(e)

Next ==
  \/ \E e \in Envs, v \in AllPages, x \in Values : Write(e, v, x)
  \/ \E e \in Envs, v \in AllPages : Faults(e, v)
  \/ \E e \in Envs :
       Pgfault(e) \/ Exit(e) \/ fork(e) \/ spawn(e) \/ Start(e) \/ MapFails(e)

Spec == Init /\ [][Next]_vars

-----------------------------------------------------------------------------
TypeOK ==
  /\ status \in [Envs -> {"free", "building", "run", "panic", "gone", "killed"}]
  /\ \A e \in Envs, v \in AllPages :
       /\ pt[e][v].frame \in Frames \cup {None, FdFrame}
       /\ pt[e][v].perm \in {"none", "ro", "w", "cow", "share"}
       /\ (pt[e][v].frame = None) = (pt[e][v].perm = "none")
  /\ content \in [Frames -> Values]
  /\ \A e \in Envs : child[e] # None => status[child[e]] = "building"

(* Copy-on-write is invisible: through any interleaving of forks, page     *)
(* faults and exits, a running environment finds in its own pages what it  *)
(* wrote there, or what its parent had at the fork or the file held at the *)
(* spawn, and never what another environment writes.  A page with          *)
(* PTE_SHARE is the same, writable page for all that have it, and holds    *)
(* what the last of them wrote.                                            *)
Isolation ==
  /\ TypeOK
  /\ \A e \in Envs, v \in Private :
       /\ status[e] = "run" => Mapped(e, v)
       /\ status[e] \in {"run", "building"} /\ Mapped(e, v) =>
            content[pt[e][v].frame] = mem[e][v]
  /\ \A e \in Envs : Mapped(e, "lib") =>
       /\ pt[e]["lib"].perm = "share"
       /\ content[pt[e]["lib"].frame] = shm

(* No environment dies of a page fault: whoever has a copy-on-write page   *)
(* and may run also has the upcall, the exception stack and the handler,   *)
(* even for the very first instruction of a child.                         *)
NoFatalFault ==
  \A e \in Envs :
    /\ status[e] # "killed"
    /\ fault[e] # None => e \in handler

(* spawn leaves no open file and no half-made child when it returns, except *)
(* on its two early returns (no new environment, no initial stack), and a  *)
(* spawned program does not inherit the file it was loaded from.  What     *)
(* else is half-made belongs to a fork or spawn that has not returned: it  *)
(* is still at work, or it ran out of pages, panicked in sys_page_alloc,   *)
(* and left child and file as they were.                                   *)
SpawnCleansUp ==
  \A e \in Envs :
    /\ pc[e] = "user" /\ Mapped(e, "prog") => e \in leaked
    /\ status[e] = "building" =>
         \/ child[parent[e]] = e /\ status[parent[e]] \in {"run", "panic"}
         \/ parent[e] \in leaked

-----------------------------------------------------------------------------
(* The inductive invariant behind the three.                               *)

ForkPoints == {"dup", "remap", "childxstack"}
SpawnPoints == {"initstack", "mapstack", "unmapstack", "segment", "readsegment",
                "mapsegment", "unmapsegment", "copyshared", "error"}
Points == {"user", "makexstack", "setupcall", "sethandler", "exofork", "childret",
           "start", "header", "spawnfork"} \cup ForkPoints \cup SpawnPoints

(* Each page has permissions of its kind.                                  *)
PermsOf(v) ==
  CASE v \in Stored -> {"w", "cow"}
    [] v \in {"lib", "prog"} -> {"share"}
    [] v \in {"PFTEMP", "UTEMP", "xstack"} -> {"w"}
    [] OTHER -> {"ro"}
EntriesOf(v) ==
  {NoPage} \cup [frame : IF v = "prog" THEN {FdFrame} ELSE Frames, perm : PermsOf(v)]

TableType ==
  /\ pt \in [Envs -> [AllPages -> [frame : Frames \cup {None, FdFrame},
                                  perm : {"none", "ro", "w", "cow", "share"}]]]
  /\ \A e \in Envs, v \in AllPages : pt[e][v] \in EntriesOf(v)
ProcType ==
  /\ status \in [Envs -> {"free", "building", "run", "panic", "gone"}]
  /\ upcall \subseteq Envs /\ handler \subseteq Envs /\ leaked \subseteq Envs
  /\ fault \in [Envs -> Faulting \cup {None}]
  /\ pc \in [Envs -> Points] /\ at \in [Envs -> Nat]
  /\ child \in [Envs -> Envs \cup {None}] /\ parent \in [Envs -> Envs \cup {None}]
ValueType ==
  /\ content \in [Frames -> Values]
  /\ mem \in [Envs -> [Private -> Values]] /\ shm \in Values

(* Who builds whom: an environment that is being built does nothing, and   *)
(* one other environment at most is working on it.                         *)
Family(e) ==
  /\ status[e] = "free" =>
       /\ e \notin upcall /\ e \notin handler /\ e \notin leaked
       /\ \A v \in AllPages : pt[e][v] = NoPage
  /\ status[e] \in {"free", "building"} => fault[e] = None /\ child[e] = None
  /\ child[e] # None => status[child[e]] = "building" /\ parent[child[e]] = e
  /\ child[e] # None <=> pc[e] \in ForkPoints \cup SpawnPoints \cup {"start"}

(* Two page-table entries have the same frame only when both are read-only *)
(* or copy-on-write entries for the same page, entries for the shared page, *)
(* or for the moment: a page that pgfault has put into place and not yet   *)
(* removed from PFTEMP, one that spawn has given to the child and not yet  *)
(* removed from UTEMP, one that duppage has mapped in the child and not    *)
(* yet made copy-on-write in the parent.                                   *)
Moving(e, v, d, w) ==
  \/ /\ fault[e] # None /\ fault[e].step = "unmap"
     /\ v = "PFTEMP" /\ d = e /\ w = fault[e].page
  \/ pc[e] = "unmapstack" /\ v = "UTEMP" /\ d = child[e] /\ w = "stack"
  \/ pc[e] = "unmapsegment" /\ v = "UTEMP" /\ d = child[e] /\ w = Segments[at[e]].page
  \/ pc[e] = "remap" /\ v = PageOrder[at[e]] /\ d = child[e] /\ w = v
Shares(e, v, d, w) ==
  \/ v = w /\ pt[e][v].perm \in {"cow", "ro", "share"}
           /\ pt[d][w].perm \in {"cow", "ro", "share"}
  \/ Moving(e, v, d, w) \/ Moving(d, w, e, v)
Sharing ==
  \A e, d \in Envs, v, w \in AllPages :
    pt[e][v].frame \in Frames /\ pt[e][v].frame = pt[d][w].frame
      => (e = d /\ v = w) \/ Shares(e, v, d, w)

(* Everybody's shared page is the same one.                                *)
OneLib == \A e, d \in Envs : Mapped(e, "lib") /\ Mapped(d, "lib")
                                => pt[e]["lib"].frame = pt[d]["lib"].frame

(* What is in the pages, and in those under way to their place.            *)
Holding(e, v, x) == Mapped(e, v) /\ content[pt[e][v].frame] = x
Contents(e) ==
  /\ status[e] \in {"run", "building"} =>
       \A v \in Private : Mapped(e, v) => Holding(e, v, mem[e][v])
  /\ Mapped(e, "lib") => Holding(e, "lib", shm)
Transit(e) ==
  /\ fault[e] # None =>
       /\ fault[e].step # "unmap" => pt[e][fault[e].page].perm = "cow"
       /\ fault[e].step # "alloc" => Mapped(e, "PFTEMP")
       /\ fault[e].step = "map" /\ status[e] = "run" =>
            Holding(e, "PFTEMP", mem[e][fault[e].page])
  /\ pc[e] = "mapstack" => Holding(e, "UTEMP", Image["stack"])
  /\ pc[e] = "readsegment" => Mapped(e, "UTEMP")
  /\ pc[e] = "mapsegment" => Holding(e, "UTEMP", Image[Segments[at[e]].page])

(* A running environment has all its pages.                                *)
Complete(e) == \A v \in Private : Mapped(e, v)
Present(e) == status[e] = "run" => Complete(e)

(* Who may have copy-on-write pages can handle the faults on them.         *)
Prepared(e) == e \in upcall /\ Mapped(e, "xstack")
Handlers(e) ==
  /\ status[e] = "run" /\ e \in handler => Prepared(e)
  /\ \A v \in AllPages : pt[e][v].perm = "cow" => e \in handler
  /\ fault[e] # None => e \in handler
  /\ pc[e] = "setupcall" => Mapped(e, "xstack")
  /\ pc[e] = "sethandler" => Prepared(e)
  /\ pc[e] = "exofork" => e \in handler

(* How far an environment has come with its child c; n is where it is in   *)
(* the pages or segments.                                                  *)
Pagewise(c, n) == \A j \in 1 .. n : PageOrder[j] \in Private => Mapped(c, PageOrder[j])
Forking(e, c, n) ==
  pc[e] \in ForkPoints =>
    /\ mem[c] = mem[e] /\ e \in handler /\ c \in handler
    /\ e \in leaked => c \in leaked
    /\ pc[e] = "dup" => n \in 1 .. Len(PageOrder) + 1 /\ Pagewise(c, n - 1)
    /\ pc[e] = "remap" => /\ n \in 1 .. Len(PageOrder) /\ Pagewise(c, n)
                          /\ PageOrder[n] \in Stored /\ pt[c][PageOrder[n]].perm = "cow"
    /\ pc[e] = "childxstack" => c \in upcall /\ Complete(c)
Spawning(e, c, n) ==
  pc[e] \in SpawnPoints =>
    /\ mem[c] = Image /\ c \notin handler
    /\ pc[e] \in {"initstack", "mapstack", "unmapstack"} => n = 1
    /\ pc[e] \notin {"initstack", "mapstack", "error"} => Mapped(c, "stack")
    /\ pc[e] = "segment" => n \in 1 .. Len(Segments) + 1
    /\ pc[e] \in {"readsegment", "mapsegment", "unmapsegment"} => n \in 1 .. Len(Segments)
    /\ pc[e] \in {"segment", "readsegment", "mapsegment"} => Pagewise(c, n - 1)
    /\ pc[e] = "unmapsegment" => Pagewise(c, n)
    /\ pc[e] = "copyshared" => n # 0 /\ Complete(c)
Starting(e, c) == pc[e] = "start" => Complete(c) /\ (c \in handler => Prepared(c))
Built(e) ==
  \A c \in {child[e]} \ {None}, n \in {at[e]} :
    Forking(e, c, n) /\ Spawning(e, c, n) /\ Starting(e, c)

(* Where the program file may be open.                                     *)
ProgOpen(e) ==
  /\ Mapped(e, "prog") =>
       \/ e \in leaked \/ pc[e] \in {"header", "spawnfork"}
       \/ pc[e] \in SpawnPoints \ {"copyshared"}
  /\ status[e] = "building" => pc[e] \in {"user", "childret"}
  /\ pc[e] = "copyshared" => ~Mapped(e, "prog")

(* Somebody is building what is not built, unless spawn forgot it.         *)
Watched(e) ==
  status[e] = "building" =>
    /\ parent[e] \in Envs /\ status[parent[e]] \notin {"free", "building"}
    /\ \/ child[parent[e]] = e /\ status[parent[e]] \in {"run", "panic"}
       \/ parent[e] \in leaked

ChildInv ==
  /\ TableType /\ ProcType /\ ValueType /\ Sharing /\ OneLib
  /\ \A e \in Envs : /\ Family(e) /\ Contents(e) /\ Transit(e) /\ Present(e)
                     /\ Handlers(e) /\ Built(e) /\ ProgOpen(e) /\ Watched(e)
=============================================================================
