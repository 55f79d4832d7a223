# A TLA+ model of the JOS exokernel

JOS is a small exokernel for multiprocessor x86 machines: a kernel that
schedules environments, multiplexes physical pages and passes messages, and
user-level code that builds fork, pipes, files and a shell on top of it. This
directory specifies the parts of it in which the order of events matters, from
the first instructions of the kernel to a pipeline typed at the shell, checks
them with TLC, and proves the central invariants with TLAPS. All paths below are
relative to `src/lab/`.

## 1. Inventory

| Component | State it keeps | Operations | Module |
|---|---|---|---|
| Start-up `kern/init.c`, `kern/mpconfig.c`, `kern/lapic.c`, `kern/mpentry.S` | `cpus[]`, `mpentry_kstack`, `lapic` | `i386_init`, `mp_init`, `boot_aps`, `mp_main`, `lapic_init` | `Boot` |
| Memory set-up `kern/pmap.c`, `kern/entrypgdir.c` | `nextfree`, `pages`, `kern_pgdir`, `base` of MMIO | `mem_init`, `boot_alloc`, `page_init`, `mmio_map_region` | `BootMem`, `Boot` |
| Environments `kern/env.c` | `envs[]`: status, id, parent, page directory, IPC fields; free list | `env_alloc`, `env_run`, `env_destroy`, `env_free` | `Smp`, `Vm` |
| Scheduler, lock, traps `kern/sched.c`, `kern/spinlock.[ch]`, `kern/trap.c` | `curenv`, `cpu_status`, one lock | `sched_yield`, `sched_halt`, `trap` | `Smp` |
| System calls, IPC `kern/syscall.c` | `env_ipc_*` | 14 calls | `Smp`, `Vm` |
| Pages and page tables `kern/pmap.c` | free list, `pp_ref`, directories, tables | `page_alloc` ... `page_remove` | `Pmap`, `Vm` |
| fork, spawn `lib/fork.c`, `lib/pgfault.c`, `lib/spawn.c` | copy-on-write and shared mappings, a half-built child | `fork`, `duppage`, `pgfault`, `spawn` | `Child` |
| Pipes, descriptors `lib/pipe.c`, `lib/fd.c` | a shared ring; pages in the descriptor table | read, write, `pipeisclosed`, close, `dup` | `Pipe`, `Channel` |
| File system `fs/fs.c`, `fs/bc.c`, `fs/test.c` | block cache, bitmap, super block, `struct File`, the disk | create, read, write, truncate, flush, sync | `Fs` |
| File server and client `fs/serv.c`, `lib/file.c`, `lib/ipc.c` | open-file table, request pages, offsets | one request at a time by IPC | `FsServ` |
| Console `kern/console.c`, `lib/console.c`, `lib/readline.c` | device queues, `shift`, input ring, line, screen | `kbd_intr`, `serial_intr`, `cons_getc`, `readline`, `cga_putc` | `Console` |
| Shell `user/sh.c`, `lib/wait.c` | descriptors of the stages of a line | `runcmd`, `wait` | `Shell` |
| Boot loader, formatting, strings, debug symbols | - | sequential code | not modelled |

What is hard here, and what makes each part correct:

* *CPUs that run at the same time.* Kernel code runs under one lock, which is
  released before the CPU has left the kernel. No environment may run on two
  CPUs, none on a freed page directory. While the machine starts there is no lock:
  one CPU at a time is started and waited for.
* *Life cycles.* Slots, ids, open-file entries, pages and disk blocks are reused;
  an old name must not reach a new owner.
* *Ownership.* Reference counts, free lists and the bitmap must be exact through
  sharing, replacement, failure for want of memory or disk, and release.
* *User-level sharing without locks.* Pipes compare two reference counts read at
  different times; copy-on-write relies on the order of mappings; offsets lie in
  pages that several environments and the server write.
* *Partners that die, machines that stop.* The file server answers clients that
  may be dead; the disk may stop between two writes; a pipeline's stage may end
  before its neighbours.

`PROJECT.json` lists the components and, under `hazards`, the individual lines at
which these things can go wrong, with the properties that would notice.

## 2. Modules

```
BootMem --> Boot --- BootProofs       Smp --- SmpProofs        Pmap --> Vm
Pipe --- PipeProofs                   FsServ --- FsServProofs  Fs
  \-(refines)-> Channel               Console --- ConsoleProofs
Child --- ChildFacts --- ChildSpawnProofs --- ChildProofs      Shell
```

and an `MC` module with the instances for TLC for each.

| Module | State and step |
|---|---|
| `BootMem` | `mem_init` on the boot processor, one page of a loop per step, its self-tests included; sizes in fractions of a page, so that rounding is real; a link to page 0 is the null pointer |
| `Boot` | extends `BootMem`: the search for the firmware's table, the local APICs, and each other CPU from real mode through `mpentry.S` to the scheduler. A step is what a CPU does between two accesses to shared variables |
| `Smp` | the variables carry the names of the source; per CPU a program counter `pc` (`user`, `trap`, `entry`, `dispatch`, `sched`, `ret`, `pop`, ...); a step is one kernel function between taking and releasing the lock |
| `Pmap` | the functions of `kern/pmap.c` as operators on a memory record; no variables |
| `Vm` | system calls on memory, `sys_exofork`, page transfer by IPC, `env_free`; a call is one step (it runs under the lock, `Smp` justifies that), the loops of `env_free` are several |
| `Child` | page tables with permissions and contents; one system call or one access to memory per step, so that faults happen inside `fork` and in the handler's neighbours. What a program believes to have in memory is kept beside what the frames hold |
| `Channel` | what a pipe promises: a bounded FIFO queue |
| `Pipe` | one access to shared memory or one system call per step; the clock may strike between any two |
| `Fs` | the functions of `fs.c` as operators on a session record; a request changes the cache in one step, then its disk writes follow one per step, and the machine may stop between any two of them and start again from whatever is on the disk |
| `FsServ` | the request loop and the client calls, with the IPC between them as steps of both sides; of the one file only the size matters. `faults` of a program say what else happens: clients are killed, the disk is full, memory runs out |
| `Console` | scan codes and characters are the real numbers; an interrupt or a poll moves one per step |
| `Shell` | the environments of one command line and their descriptors; `fork` and `spawn` are what `Child` promises. A pipe is a number of units; that a reader or writer first finds it empty or full and then, in a second step, the other end closed, is as in `Pipe`. That the answer is true is `ClosedIsReal`, on one CPU |

Data is abstracted to what the properties tell apart. An `envid_t` is a pair of
its upper bits, which are the generation, and the slot; an address space in `Smp`
is named by the slot that owns it;
a page in `Child` and a block in `Fs` hold one value; a byte in a pipe is its
number in the stream; a command line is a sequence of tokens; `env_runs` in
`Pipe` is one bit, "run again since the last look". A system call that fails
without effect is `SysNoChange` in `Smp`. In `Child` and `FsServ` memory that
runs out is two cases, because the code makes them differ: with no page at all
`sys_page_alloc` returns `E_NO_MEM` as a positive number (`kern/syscall.c:244`)
and the stub panics (`lib/syscall.c:34`); with a page and no page table it
returns `-E_NO_MEM`, which its caller handles.

Some variables are there for the properties only and no guard reads them: `asked`
(what the receiver's latest `sys_ipc_recv` said) and `lost` in `Vm`, `start` and
`promise` in `Fs`, `leaked` in `Child`, `taken` and `opened` in `FsServ`.

`Liberties` (in `Smp`, and per program in `Vm`) names uses of system calls that
the user library never makes: `status` (changing the status of an environment
that has been started), `destroy` (destroying one that is already dying),
`trapframe` and `badenv` (naming an environment that does not exist). The runs
include `trapframe` and `badenv`.

**How the modules fit.** `Boot` ends where `Smp` begins: environments created,
lock taken, CPUs in `sched_yield`. `Smp` shows that kernel code is executed by
one CPU at a time, which makes a system call one step of `Vm`, `Child`, `Pipe`
and `FsServ`; that every runnable environment runs is the fairness the user-level
modules assume. `Vm` shows that counts and mappings are exact, on which `Pipe`
(counts of a pipe's pages), `FsServ` (count of a `struct Fd`) and `Child` rely.
`Fs` is under `FsServ`; `Channel` and `Child` are under `Shell`.

## 3. Runs

| Run | Instance | States | Shows |
|---|---|---|---|
| `Boot_start` | up to 4 CPUs of which `NCPU` = 3 are used; memories of 10 to 27 pages; firmware tables that are missing, damaged, too long or end early; fair | 9,798 | the free list is exact; what a CPU executes and its stack are mapped; stacks and APIC pages are private; with enough memory every CPU reaches the scheduler |
| `Smp_safety` | 2 CPUs, 3 slots, 2 generations | 3,755,097 | one CPU per environment, live page directories, the monitor only when no other CPU executes an environment |
| `Smp_reap` | 2 CPUs, 2 slots, 3 generations, every trap, panics; fair | 173,766 | the inductive invariant of the proofs; zombies and old ids do not come back; every zombie is freed |
| `Smp_roundrobin` | 2 CPUs, 4 environments that yield and exchange messages; fair | 11,248 | every runnable environment gets a CPU |
| `Vm_memory` | 2 environments, 5 pages, 2 addresses, memory calls or page transfer with wrong ids | 597,373 | exact counts and free list, private and complete page tables, what a failed call may cost, no upgrade to writable, a page asked for arrives at the address asked for |
| `Vm_unasked` | the same, programs that only exchange pages | violated | a receiver that asks for no page gets one (section 5) |
| `Child_cow` | 3 environments, 10 frames, read-only text, data, stack and a shared page | about 482,000 | isolation, sharing, no fatal fault, what spawn cleans up |
| `Pipe_channel` | 1 CPU, ring of 2, calls of 2 bytes; a writer and a reader, or environments that dup, close and ask; fair | 154,726 | `Pipe` implements `Channel`; order; `pipeisclosed` tells the truth; waiting calls end when the other end is closed |
| `Fs_disk` | 9 blocks, 2 names, 2 files per directory block, files of 2 blocks, 6 requests, 3 starts | 433,074 | from a sound disk: blocks used once and never lost, a request changes one file, panics have a cause; what flush and sync promise across stops |
| `FsServ_requests` | 2 clients, 2 entries, ids modulo 8, eight kinds of programs; fair | 582,754 | descriptors and open-file table agree; positions are given out once; panics have a cause; requests are answered |
| `Console_line` | buffer of 3, line of 4, screen of 2 by 3, device FIFO of 2, three sessions; fair | 712,646 | input stays in order; modifiers; the screen shows the line; polling finds input |
| `Shell_lines` | all lines of up to 3 tokens and 11 longer ones, pipes of 1; fair | 260,323 | ends of file are final; the shell waits for the line; pipelines finish, and deliver what no reader has left behind by an early end |

Every property of every passing run has a mutant in `PROJECT.json`: a small plausible
error in one definition that makes TLC find that property violated.

**Bounds.** *Smp*: two CPUs are the smallest number at which one CPU's step can
meet the other's; three slots give a parent, a child and a sibling, so that
destroying, reusing a slot and sending to a third party happen; two or three
generations make ids wrap. Four environments on two CPUs leave two waiting, which
is what the order of the search is about. *Vm*: five pages are enough for two
directories, two tables and a shared page, and few enough that every allocation
of every call fails in some state. *Child*: three environments give a
grandchild and a sibling; ten frames let two of them finish a fork or a spawn and
let the third fail at any of its allocations. *Pipe*: a ring of two bytes with
writes of two fills, empties and wraps; `MAXBYTES` bounds the bytes written in
all, and cuts no call short. *Fs*: nine blocks, of which six hold data, fill up
within the six requests of `MAXOPS`; one direct and one indirect block make both
kinds of pointers matter; three starts (`MAXBOOTS`) are a stop, and a second one
in a session that began from what the first left.
*FsServ*: with ids modulo 8 and two entries the ids wrap after four opens.
*Console*: a buffer of three is overrun by the four and five characters of
a session, a screen of two rows scrolls. *Boot*: a page has 8 units, a table 23
entries; the memories range from none above the hole to all of the window, ending
inside and at the end of a page. *Shell*: three stages have a middle one with two
pipes; pipes of one unit block writers of two.

`Smp_safety` identifies states that differ by a permutation of the CPUs: only
`Init` names the boot CPU, and neither the next-state relation nor the invariants
do. The runs of `Vm` use a view without `err` and `env_ipc_perm`, which neither an
action nor an invariant reads; the properties of those two are action properties of
their new values, which TLC evaluates on every step. `Child_cow` identifies states that differ by a
permutation of the
environments other than the first (`sys_exofork` may take any free one), and uses
a view that forgets the numbers of frames and the content
of free ones, on which neither an action nor an invariant depends. Deadlock is
checked in `Smp`. The other modules may stop: environments exit, the requests or
keys of a session are used up, the machine is up or has panicked.

**Fairness.** *Boot*: every CPU goes on. *Smp*: a CPU in the kernel goes on; a
CPU that spins obtains the lock in the end (`unlock_kernel` pauses so that others
get a turn); the local APIC's timer is periodic and interrupts are enabled in
user mode and in `sched_halt`. *Pipe*: the clock ticks, every environment is run
again (what `Smp_roundrobin` shows), and an environment that is run executes.
`CallsEnd` further assumes that from some time on the clock does not strike
between the two looks at `env_runs`, a few instructions in a quantum of many
thousands. *FsServ*: the server and a client that has its answer go on, and some
client that tries to send succeeds when the server receives; no particular client
is promised a turn, as `ipc_send` spins without a queue. *Shell*: every
environment that can go on does. *Console*: only the reader is fair; no
interrupt is needed.

## 4. Proofs

All theorems hold for every value of the constants that satisfies the named
assumption of the module. None of the safety properties is inductive alone; each
proof module has one lemma per action for an inductive invariant. `Inv` is also
an invariant of `Smp_reap`; `RingInv`, `ServInv`, `BufferInv`, `BootInv` and
`ChildInv` hold in the instances of their components' runs as well, but are left to the proofs.

`SmpProofs`, for every number of CPUs, slots and generations and every choice of
traps and calls, under `Disciplined` (no liberty `status` or `destroy`):
`Invariance` (`Inv`), and from it `TypeCorrect`, `KernelMutualExclusion`,
`OneCpuPerEnvironment`, `AddressSpaceSafety`, `MonitorSafety`, `RunningHasCpu`,
`FreeListSafety`, `ReceiverSafety`, and the action properties `ZombieSafety`,
`PanicSafety` and `StaleIdSafety`. `Inv` adds what ties the program counter of a
CPU to its `curenv` and `cr3` (`CurrentOfPhase`, `CurrentPgdir`), and that an
environment waiting for a message is neither running nor waiting to be started
(`ReceiverIsBlocked`, `ReceiverHasRun`): without the last, a parent could start a
child that is blocked in `sys_ipc_recv`, and a send would make an environment
runnable that a CPU is running.

`PipeProofs`, for every buffer size, count and number of CPUs, if one environment
writes and one reads (`OneWriterOneReader`): `RingInvariance` and
`DeliveredInOrder`. `RingInv` says that the places from `p_rpos` to `p_wpos` hold
the bytes of these numbers, and what each end may rely on between its test and
its own advance (`CallInvariant`): the other end can only make its condition more
true. The arithmetic is one lemma, `ModDistinct`: positions less than a lap apart
use different places.

`FsServProofs`, for any number of clients, descriptors and entries and any
`IDMOD` that `MAXOPEN` divides: `ServInvariance`, and from it
`DescriptorSafety`, `LookupSafety`, `OffsetSafety` and `PanicSafety`. The last
names the causes of a panic of the server: a client that was killed, a full disk in
a request that may take a block (`BlockRequests`), no memory in one that may take a
page (`PageRequests`). `ServInv` adds that an id always has the index of its entry
(adding `MAXOPEN` modulo a
multiple of it keeps the remainder, lemma `ModShift`), that a client in a request
still holds the descriptor it asks about, and that the server works for a client
that waits or was killed. The reference count of a `struct Fd` is the number of
descriptors that map it, so an entry that `openfile_alloc` finds with one
reference is mapped by no client.

`ConsoleProofs`, for every size of the buffer and every session:
`BufferInvariance`, `InputInOrder`, `LossSafety`. `BufferInv` numbers the
characters as they are put in and says that the ones from `rpos` to `wpos` are
the latest; an overrun makes `wpos` pass `rpos`, and the distance starts again
from zero, so what is forgotten is exactly one lap.

`BootProofs`, for any number of CPUs, any size of stacks and tables and any
machines that satisfy `BootMemAssumption` and `BootAssumption`:
`BootInvariance`, `StackSafety`, `ScheduleSafety`, `LapicSafety`. `BootInv` has
three parts: what the boot processor knows of the table when it starts the others
(`TableInv`); that at most the CPU it waits for is between `halted` and the lock
(`StartInv`), which is why `mpentry_kstack` is read before it is written again;
and that CPU `h` gets the page of MMIO space with its number (`MmioInv`), because
`lapic_init` of one CPU is over before the next one starts.

`ChildProofs`, for any number of environments, frames and segments and any
program image that satisfies `ChildAssumption`: `ChildInvariant`, and from it
`ForksAreIsolated` (`Isolation`), `FaultsAreHandled` (`NoFatalFault`) and
`SpawnIsClean` (`SpawnCleansUp`). The last says that what a spawn has left behind is
accounted for: by one of its two early returns, or by a parent that panicked when
there was no page. `Isolation` is far from inductive. `ChildInv`
adds

* who may have a frame in common (`Sharing`): the same page of two environments
  if neither has it writable without a fault, or a page that is just being moved
  by one of three pairs of calls (`Moving`: `pgfault` between its map and its
  unmap, `spawn` between map and unmap at `UTEMP`, `duppage` between its two
  maps, when the parent's entry may still be writable while the child's is not);
* what the temporary pages hold between two calls (`Transit`);
* how far a child is built and that it has the memory its parent believes it to
  have (`Forking`, `Spawning`, `Starting`), so that it is complete when
  `sys_env_set_status` starts it (`Present`);
* that whoever has a copy-on-write page has handler, upcall and exception stack
  once it runs (`Handlers`).

`ChildFacts` has the facts about page tables, what a step leaves of the
invariant of the environments it does not touch (`Bystander`: their tables are
the same, and no frame of theirs changes its content), and stores, faults and
exit; `ChildSpawnProofs` has the steps of `spawn`; `ChildProofs` those of `fork`.
The argument that a store is seen by nobody else is `WriteExclusive`: a writable
frame has one mapping, because an environment whose program runs has no `Moving`
pair open and is no longer a child in the making.

**Only model-checked.** Liveness, which is beyond the prover. The invariants of
`Vm` and `FreeExact` of `BootMem`, which compare counters with the
cardinality of sets of pointers or follow linked lists. The invariants of `Fs`
and `Shell`, whose operators are long compositions on one record or walk through
lists of pending calls. `AlwaysMapped`, which needs the
content of every page table. The refinement of `Channel` and `ClosedIsReal`,
which speak of the reference counts of two pages at two times.

## 5. Where the code and its documents disagree

`Vm_unasked` checks what the comment of `sys_ipc_try_send` says: "If the sender
wants to send a page but the receiver isn't asking for one, then no page mapping is
transferred" (`kern/syscall.c:392-393`). TLC finds it violated: `sys_ipc_recv` stores
the address only when it is below `UTOP` (`:494-499`), so the page goes to the address
of an earlier receive, possibly of the slot's former environment. The library is not
affected: `ipc_recv` asks for no page with address 0 (`lib/ipc.c:27`), which is stored,
and nothing is mapped there (`kern/syscall.c:451`), although the permission is announced.
`PageArrives` is about the receivers that do ask.

The next group follows from the models when an instance is changed as said.

* `Smp_safety` with liberty `destroy` violates `AddressSpaceAlive`: a second
  `env_destroy` of a dying environment frees it while another CPU executes it
  (`kern/env.c:511-513` "A zombie environment will be freed the next time it
  traps to the kernel").
* `Smp_safety` with liberty `status` violates `OneCpu`:
  `sys_env_set_status` on a running child gives it to a second CPU
  (`kern/sched.c:26-27` "Never choose an environment that's currently running on
  another CPU").
* `Smp_roundrobin` on one CPU with three slots and the calls `exofork`, `status`
  and `destroy` violates `RunnableRuns`: after an exit the search starts at slot
  0, and short-lived environments in low slots starve a higher one. This is why
  `Smp_roundrobin` has a fixed population.
* `Vm_memory` with `REFMOD = 2` violates `MemoryInv`: `pp_ref` has 16 bits and
  no check.
* `Pipe_channel` on two CPUs violates `ClosedIsReal`: `env_runs` does not notice a
  close on another CPU. It is violated on one CPU too when one environment asks
  while another forks a third: fork maps descriptors before the pipe's page.

The last group is part of the models' actions, and the properties name it.

* `sys_page_alloc` loses the page it has taken when the environment does not exist
  or is not the caller's (`kern/syscall.c:247-248`). `FreeExact` and
  `FailureIsAtomic` say that these pages, `lost`, are the only ones.
* `sys_page_alloc` returns `E_INVAL` and `E_NO_MEM` as positive numbers
  (`kern/syscall.c:235,239,244`; its comment says `-E_NO_MEM`). The stub panics on
  them, so that callers never reach the error paths they have for it: the file server
  in `openfile_alloc` and `bc_pgfault`, `spawn` in `init_stack` and `map_segment`.
* The server panics when its client was killed (`fs/serv.c:370`), and in a read, a
  write or a create on a full disk: `file_get_block` stores the error as a block
  number (`fs/fs.c:201`); only a missing indirect block is an error
  (`:167`). A client panics that calls `sync` after a fork.
* A server that stopped while `fs_test` was rewriting `/newmotd` panics at every later
  start (`fs/test.c:50`).
* A reader of a pipe may see the end of the file with bytes left: it does not
  look at the positions again after the closed test (`lib/pipe.c:118-124`, "pipe is
  empty", "if all the writers are gone, note eof"). `EndOfFile` of `Channel`
  therefore only asks that no writer is left, and `PromptMeansDone` of `Shell` allows
  units that were left behind so.
* `runcmd` returns at once when the command left of a pipe is empty
  (`user/sh.c:129-133`; line 17 "Do not return until the shell command is
  finished").
* `alloc_block` flushes the data block (`fs/fs.c:74`; its comment says "immediately
  flush the changed bitmap block"). After a stop the disk may therefore have files
  whose blocks the bitmap calls free. Nothing repairs it: `fs_init` and `fs_test`
  start from what they find, `bc_pgfault` panics on such a block, or `alloc_block`
  hands it out again and two files share it. `Fs` follows all of that. `start.sound`
  tells whether the disk was in order when the server started; `BlocksExact`,
  `OneFileChanges` and the absence of other panics (`PanicOnlyWhenFull`) are claimed
  for sessions that start from a sound disk. A promise made by a flush ends when
  the server starts from a disk that is not; one made by a sync does not
  (`PromiseKept`): the file stays whole through sessions in which others are torn.
* `dir_alloc_file`, and `dir_lookup` in a directory with a hole, take a block for
  directory entries without clearing it (`fs/fs.c:208-266`). The properties of `Fs`
  end there, and where a block used twice makes the server take data for entries or
  pointers (`stale`).
* `spawn` returns from the failure of `sys_exofork` and of `init_stack` without
  closing the file, and from the second without destroying the child
  (`lib/spawn.c:102,110`), where `map_segment`'s failures clean up.
* `boot_alloc` returns 0 when memory ends (`kern/pmap.c:80` "should panic").
* The search for the firmware's table looks from 0xF0000 on
  (`kern/mpconfig.c:96-100` says 0xE0000).
* `ts_esp0` is an address in `percpu_kstacks[]` in the window at `KERNBASE`
  (`kern/trap.c:129`), not below `KSTACKTOP`: the guard pages of
  `kern/pmap.c:262-281` guard nothing.
* `mmio_map_region` does not compare with `MMIOLIM`, as its comment asks; with
  at most `NCPU` calls it need not.

Outside the models: `sys_env_set_trapframe` panics for a bad id
where its comment promises `-E_BAD_ENV`; `page_init` leaves `pages[0].pp_ref` at 0;
and `ctlmap` has Home at 0x97 (`kern/console.c:300`).

## 6. Not modelled

* The boot loader, formatting, strings and debug symbols are sequential; the
  registers of the IDE driver, the interrupt controllers, the APIC and the
  parallel port are pure input and output.
* ELF loading by the kernel, segment registers, the layout of trap frames and of
  the user exception stack carry no state another component of the models reads.
* The TLB. `page_insert` relies on the page directory being loaded again on the
  way out of the kernel, and other CPUs are not told of a removed mapping.
* `user_mem_check` only decides whether a call prints or destroys its caller.
* Two writers of one pipe, and positions beyond 2^31.
* Paths with more than one directory, writes that cross blocks, `bc_init`'s
  self-test, and disks beyond one page table of the cache. What the server makes of
  bytes that were written as something else.
* `Shell`: fork or pipe failing for want of memory, `cat` with file arguments.
* `Boot`: tables in an order other than that of the APIC ids or without the boot
  processor first, and base memory that ends within two pages of `MPENTRY_PADDR`.

## 7. What would come next

A model of the TLB under `Child`; the counts of `Vm` as an inductive invariant
proved for any number of pages; and `ClosedIsReal` and with it the refinement of
`Channel` as theorems.
