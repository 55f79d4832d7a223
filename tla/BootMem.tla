------------------------------- MODULE BootMem -------------------------------
(***************************************************************************)
(* How the boot processor builds the kernel's memory: mem_init of          *)
(* kern/pmap.c and what it calls, down to one page of a loop per step.     *)
(*                                                                         *)
(* Addresses are page numbers, and sizes are in units of which a page has  *)
(* PGSIZE.  Physical memory is base memory, a hole, and from EXTPHYSMEM on *)
(* the kernel: a page of code, the boot stack, the stacks of the CPUs.     *)
(* Virtual memory is one page table each for the low addresses, UENVS,     *)
(* UPAGES, UVPT, MMIO and the kernel stacks, and KWIN of them at KERNBASE. *)
(* A link to page 0 is the null pointer: page 0 is never on the free list. *)
(***************************************************************************)
EXTENDS Integers, Sequences, FiniteSets, Functions

CONSTANTS
  PGSIZE,             \* units in a page
  NPT,                \* entries of a page table
  IOPHYSMEM,          \* first page of the hole
  EXTPHYSMEM,         \* first page of extended memory
  MPENTRY,            \* the page of MPENTRY_PADDR
  NCPU, KSTK, KGAP,   \* kernel stacks, and the pages of one and of its guard
  KWIN,               \* page tables of the window at KERNBASE
  PAGEINFO, ENVS,     \* size of a struct PageInfo, and of the array envs
  MAXPAGES,           \* bound on the pages of a machine
  Machines            \* its memory (base, ext, and the kernel's end, in
                      \* units), and what the firmware says of its CPUs

UENVS == NPT
UPAGES == 2 * NPT
UVPT == 3 * NPT
MMIOBASE == 4 * NPT
KSTACKTOP == 6 * NPT
KERNBASE == 6 * NPT
Pages == 0 .. MAXPAGES - 1
Virtual == 0 .. KERNBASE + KWIN * NPT - 1
None == -1
PDX(va) == va \div NPT
ROUNDUP(n) == (n + PGSIZE - 1) \div PGSIZE      \* in pages

text == EXTPHYSMEM
bootstack == EXTPHYSMEM + 1
percpu_kstacks(i) == bootstack + KSTK + i * KSTK

ASSUME BootMemAssumption ==
  /\ {PGSIZE, NPT, NCPU, KSTK, KGAP, KWIN, PAGEINFO, ENVS} \subseteq Nat \ {0}
  /\ {MPENTRY, IOPHYSMEM, EXTPHYSMEM, MAXPAGES} \subseteq Nat \ {0}
  /\ MPENTRY < IOPHYSMEM
  /\ IOPHYSMEM < EXTPHYSMEM /\ EXTPHYSMEM < NPT
  /\ NCPU * (KSTK + KGAP) <= NPT /\ NCPU + 3 <= NPT
  /\ \A m \in Machines : /\ m.base <= IOPHYSMEM * PGSIZE
                         /\ m.base >= (MPENTRY + 2) * PGSIZE
                         /\ ROUNDUP(m.end) >= percpu_kstacks(NCPU)
                         /\ EXTPHYSMEM + m.ext \div PGSIZE <= MAXPAGES
  /\ MAXPAGES <= KWIN * NPT /\ PAGEINFO * MAXPAGES <= NPT * PGSIZE

VARIABLES
  machine,                    \* the machine of this behaviour
  bsp,                        \* where the boot processor is
  npages, npages_basemem,
  nextfree,                   \* of boot_alloc
  boot,                       \* first page of kern_pgdir, pages and envs
  pp_ref, pp_link, page_free_list,
  i, prev,                    \* locals of page_init
  pgdir, pte,                 \* kern_pgdir, and the entries of its tables
  region, off,                \* progress of the calls of boot_map_region
  base                        \* of mmio_map_region

listVars == <<pp_ref, pp_link, page_free_list>>
sizeVars == <<npages, npages_basemem>>
spaceVars == <<pgdir, pte, region, off, base>>
memVars == <<machine, sizeVars, nextfree, boot, listVars, i, prev, spaceVars>>

MemInit ==
  /\ machine \in Machines
  /\ bsp = "detect"
  /\ npages = 0 /\ npages_basemem = 0
  /\ nextfree = ROUNDUP(machine.end)
  /\ boot = [kern_pgdir |-> 0, pages |-> 0, envs |-> 0]
  /\ pp_ref = [p \in Pages |-> 0] /\ pp_link = [p \in Pages |-> 0]
  /\ page_free_list = 0 /\ i = 0 /\ prev = 0
  /\ pgdir = [d \in 0 .. 5 + KWIN |-> 0] /\ pte = [v \in Virtual |-> None]
  /\ region = 1 /\ off = 0
  /\ base = MMIOBASE

-----------------------------------------------------------------------------
(* i386_detect_memory                                                      *)
Detect ==
  /\ bsp = "detect" /\ bsp' = "kern_pgdir"
  /\ npages_basemem' = machine.base \div PGSIZE
  /\ npages' = LET ext == machine.ext \div PGSIZE
               IN  IF ext # 0 THEN EXTPHYSMEM + ext ELSE npages_basemem'
  /\ UNCHANGED <<machine, nextfree, boot, listVars, i, prev, spaceVars>>

(* What the kernel can write to until it has loaded kern_pgdir.            *)
entry_pgtable == [p \in 0 .. NPT - 1 |-> p]
entry_pgdir(va) == IF PDX(va) \in {0, PDX(KERNBASE)} THEN entry_pgtable[va % NPT] ELSE None
IsLow(p) == entry_pgdir(KERNBASE + p) = p

(* boot_alloc.  Out of memory it returns 0.  The callers clear what they   *)
(* get: that faults at 0, where entry_pgdir is read-only, and above the    *)
(* 4 MB of entry_pgdir.  There is no handler yet: the machine is reset.    *)
boot_alloc(what, n, next) ==
  /\ nextfree' = nextfree + ROUNDUP(n)
  /\ IF nextfree' > npages \/ ~IsLow(nextfree' - 1)
     THEN bsp' = "reset" /\ UNCHANGED boot
     ELSE boot' = [boot EXCEPT ![what] = nextfree] /\ bsp' = next

(* The three calls of mem_init.  The directory maps itself at UVPT.        *)
BootAlloc ==
  /\ \/ bsp = "kern_pgdir" /\ boot_alloc("kern_pgdir", PGSIZE, "pages")
     \/ bsp = "pages" /\ boot_alloc("pages", PAGEINFO * npages, "envs")
     \/ bsp = "envs" /\ boot_alloc("envs", ENVS, "page_init")
  /\ pgdir' = [pgdir EXCEPT ![PDX(UVPT)] = boot'.kern_pgdir]
  /\ UNCHANGED <<machine, sizeVars, listVars, i, prev, pte, region, off, base>>

-----------------------------------------------------------------------------
(* page_init: all pages are in use, then base memory is linked, then what  *)
(* follows the kernel.                                                     *)
PageInit ==
  /\ bsp = "page_init" /\ bsp' = "base"
  /\ pp_ref' = [p \in Pages |-> IF p \in 1 .. npages - 1 THEN 1 ELSE 0]
  /\ page_free_list' = 0 /\ prev' = 0 /\ i' = 1
  /\ UNCHANGED <<machine, sizeVars, nextfree, boot, pp_link, spaceVars>>

Skipped_None == FALSE
Skipped == i = MPENTRY
PageInitBase ==
  /\ bsp = "base" /\ i < npages_basemem
  /\ i' = i + 1
  /\ IF Skipped THEN UNCHANGED <<listVars, prev>>
     ELSE /\ pp_ref' = [pp_ref EXCEPT ![i] = 0]
          /\ prev' = i
          /\ IF page_free_list = 0
             THEN page_free_list' = i /\ pp_link' = [pp_link EXCEPT ![i] = 0]
             ELSE /\ pp_link' = [pp_link EXCEPT ![i] = 0, ![prev] = i, ![i - 1] = i]
                  /\ UNCHANGED page_free_list
  /\ UNCHANGED <<machine, bsp, sizeVars, nextfree, boot, spaceVars>>

PageInitSkipsHole ==
  /\ bsp = "base" /\ i >= npages_basemem
  /\ bsp' = "ext" /\ prev' = i - 1 /\ i' = nextfree
  /\ UNCHANGED <<machine, sizeVars, nextfree, boot, listVars, spaceVars>>

PageInitExt ==
  /\ bsp = "ext" /\ i < npages
  /\ pp_ref' = [pp_ref EXCEPT ![i] = 0]
  /\ pp_link' = [pp_link EXCEPT ![i] = 0, ![prev] = i]
  /\ prev' = i /\ i' = i + 1
  /\ UNCHANGED <<machine, bsp, sizeVars, nextfree, boot, page_free_list, spaceVars>>
PageInitEnds ==
  /\ bsp = "ext" /\ i >= npages /\ bsp' = "check_list"
  /\ UNCHANGED memVars

-----------------------------------------------------------------------------
(* The free list as a sequence, by following the links.                    *)
Nth(n) == LET nth[k \in 0 .. n] == IF k = 0 THEN page_free_list ELSE pp_link[nth[k - 1]]
          IN  nth[n]
FreeList == LET len == Cardinality({k \in 0 .. MAXPAGES : Nth(k) # 0})
            IN  [k \in 1 .. len |-> Nth(k - 1)]
(* The links that make seq the free list.                                  *)
Relink(seq) ==
  /\ page_free_list' = seq[1]
  /\ pp_link' = [p \in Pages |->
       IF p \in Range(seq)
       THEN LET k == CHOOSE k \in DOMAIN seq : seq[k] = p
            IN  IF k < Len(seq) THEN seq[k + 1] ELSE 0
       ELSE pp_link[p]]

(* check_page_free_list(1) puts the pages that entry_pgdir maps in front,  *)
(* in the order they had.                                                  *)
LowFirst(seq) ==
  SelectSeq(seq, IsLow) \o SelectSeq(seq, LAMBDA p : ~IsLow(p))
OnFreeList(free) ==
  /\ \A p \in free : /\ p \notin {0, IOPHYSMEM, EXTPHYSMEM - 1, EXTPHYSMEM, MPENTRY}
                     /\ p < EXTPHYSMEM \/ p >= nextfree
  /\ \E p \in free : p < EXTPHYSMEM
  /\ \E p \in free : p >= EXTPHYSMEM
CheckList ==
  /\ bsp \in {"check_list", "check_list0"}
  /\ IF ~OnFreeList(Range(FreeList))
     THEN bsp' = "panic" /\ UNCHANGED <<page_free_list, pp_link>>
     ELSE IF bsp = "check_list"
     THEN bsp' = "check_alloc" /\ Relink(LowFirst(FreeList))
     ELSE bsp' = "check_installed" /\ UNCHANGED <<page_free_list, pp_link>>
  /\ UNCHANGED <<machine, sizeVars, nextfree, boot, pp_ref, i, prev, spaceVars>>

(* The self-tests give back what they take, in another order:              *)
(* check_page_alloc in the same, check_page with the first three reversed  *)
(* and then a page table and three pages of address space spent on MMIO,   *)
(* check_page_installed_pgdir with the second and the third swapped.       *)
CheckAlloc ==
  /\ bsp = "check_alloc"
  /\ bsp' = IF Len(FreeList) < 3 THEN "panic"
            ELSE IF ~IsLow(FreeList[3]) THEN "reset" ELSE "check_page"
  /\ UNCHANGED memVars
CheckPage ==
  /\ bsp = "check_page" /\ bsp' = "map"
  /\ LET f == FreeList
     IN  /\ Relink(<<f[2], f[1]>> \o SubSeq(f, 4, Len(f)))
         /\ pgdir' = [pgdir EXCEPT ![PDX(MMIOBASE)] = f[3]]
         /\ pp_ref' = [pp_ref EXCEPT ![f[3]] = 1]
  /\ base' = base + 3
  /\ UNCHANGED <<machine, sizeVars, nextfree, boot, i, prev, pte, region, off>>
CheckInstalled ==
  /\ bsp = "check_installed"
  /\ LET f == FreeList
     IN  IF Len(f) < 3
         THEN bsp' = "panic" /\ UNCHANGED <<page_free_list, pp_link>>
         ELSE /\ bsp' = "percpu"
              /\ Relink(<<f[1], f[3], f[2]>> \o SubSeq(f, 4, Len(f)))
  /\ UNCHANGED <<machine, sizeVars, nextfree, boot, pp_ref, i, prev, spaceVars>>

-----------------------------------------------------------------------------
(* What mem_init and mem_init_mp map, in order.                            *)
KstackTop(c) == KSTACKTOP - c * (KSTK + KGAP)
Kstack(c) == [va |-> KstackTop(c) - KSTK, pa |-> percpu_kstacks(c), size |-> KSTK]
Regions ==
  << [va |-> UPAGES, pa |-> boot.pages, size |-> ROUNDUP(PAGEINFO * npages)],
     [va |-> UENVS, pa |-> boot.envs, size |-> ROUNDUP(ENVS)],
     [va |-> KSTACKTOP - KSTK, pa |-> bootstack, size |-> KSTK],
     [va |-> KERNBASE, pa |-> 0, size |-> KWIN * NPT] >>
  \o [c \in 1 .. NCPU |-> Kstack(c - 1)]

(* boot_map_region: for each page, the table if there is none (pgdir_walk, *)
(* page_alloc), and the entry.  A new table is cleared through the mapping *)
(* that entry_pgdir makes.                                                 *)
MapTable ==
  /\ bsp = "map" /\ region <= Len(Regions) /\ off < Regions[region].size
  /\ LET d == PDX(Regions[region].va + off)
     IN  /\ pgdir[d] = 0
         /\ IF page_free_list = 0
            THEN bsp' = "panic" /\ UNCHANGED <<listVars, pgdir>>
            ELSE IF ~IsLow(page_free_list)
            THEN bsp' = "reset" /\ UNCHANGED <<listVars, pgdir>>
            ELSE /\ pgdir' = [pgdir EXCEPT ![d] = page_free_list]
                 /\ pp_ref' = [pp_ref EXCEPT ![page_free_list] = 1]
                 /\ pp_link' = [pp_link EXCEPT ![page_free_list] = 0]
                 /\ page_free_list' = pp_link[page_free_list]
                 /\ UNCHANGED bsp
  /\ UNCHANGED <<machine, sizeVars, nextfree, boot, i, prev, pte, region, off, base>>
MapEntry ==
  /\ bsp = "map" /\ region <= Len(Regions) /\ off < Regions[region].size
  /\ LET r == Regions[region]
     IN  /\ pgdir[PDX(r.va + off)] # 0
         /\ pte' = [pte EXCEPT ![r.va + off] = r.pa + off]
  /\ off' = off + 1
  /\ UNCHANGED <<machine, bsp, sizeVars, nextfree, boot, listVars, i, prev, pgdir,
                 region, base>>
MapNext ==
  /\ bsp = "map" /\ region <= Len(Regions) /\ off >= Regions[region].size
  /\ region' = region + 1 /\ off' = 0
  /\ UNCHANGED <<machine, bsp, sizeVars, nextfree, boot, listVars, i, prev, pgdir,
                 pte, base>>

(* check_kern_pgdir, with check_va2pa, then the directory is loaded.       *)
va2pa(va) == IF pgdir[PDX(va)] = 0 THEN None ELSE pte[va]
KernPgdirChecks ==
  /\ \A k \in 0 .. ROUNDUP(PAGEINFO * npages) - 1 : va2pa(UPAGES + k) = boot.pages + k
  /\ \A k \in 0 .. ROUNDUP(ENVS) - 1 : va2pa(UENVS + k) = boot.envs + k
  /\ \A k \in 0 .. npages - 1 : va2pa(KERNBASE + k) = k
  /\ \A n \in 0 .. NCPU - 1 :
       LET bottom == KSTACKTOP - (KSTK + KGAP) * (n + 1)
       IN  /\ \A k \in 0 .. KSTK - 1 : va2pa(bottom + KGAP + k) = percpu_kstacks(n) + k
           /\ \A k \in 0 .. KGAP - 1 : va2pa(bottom + k) = None
  /\ {d \in DOMAIN pgdir : pgdir[d] = 0} = {0}
CheckKern ==
  /\ bsp = "map" /\ region > Len(Regions)
  /\ bsp' = IF KernPgdirChecks THEN "lcr3" ELSE "panic"
  /\ UNCHANGED memVars

MemNext ==
  \/ Detect \/ BootAlloc
  \/ PageInit \/ PageInitBase \/ PageInitSkipsHole \/ PageInitExt \/ PageInitEnds
  \/ CheckList \/ CheckAlloc \/ CheckPage \/ CheckInstalled
  \/ MapTable \/ MapEntry \/ MapNext \/ CheckKern

-----------------------------------------------------------------------------
(* The page tables, and when the free list is built.                       *)
Tables == {pgdir[d] : d \in DOMAIN pgdir} \ {0, boot.kern_pgdir}
ListBuilt == bsp \notin {"detect", "kern_pgdir", "pages", "envs", "page_init", "base",
                         "ext", "reset", "panic"}

(* From page_init on the free list has exactly the pages that nobody uses: *)
(* neither page 0 nor the one at MPENTRY_PADDR, not the hole, the kernel   *)
(* or what boot_alloc gave out, and no page table; none is lost, and none  *)
(* is on the list twice.                                                   *)
FreeExact ==
  ListBuilt =>
    LET f == FreeList
    IN  /\ Range(f) = ((1 .. npages_basemem - 1) \cup (nextfree .. npages - 1))
                         \ ({MPENTRY} \cup Tables)
        /\ \A j, k \in DOMAIN f : j # k => f[j] # f[k]

(* A machine has enough memory if the kernel's data fits below 4 MB and    *)
(* leaves extended memory free, and a page of base memory is left when the *)
(* page tables are made.                                                   *)
TablesNeeded == KWIN + 4
Enough ==
  /\ nextfree < npages /\ nextfree <= NPT
  /\ npages_basemem - 2 > TablesNeeded
  /\ npages_basemem - 2 + (npages - nextfree) >= TablesNeeded + 3
=============================================================================
