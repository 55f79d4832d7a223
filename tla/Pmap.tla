-------------------------------- MODULE Pmap ---------------------------------
(***************************************************************************)
(* Physical pages and address spaces of JOS (kern/pmap.c, and the memory   *)
(* part of kern/env.c), as operators on a memory record m:                 *)
(*   free   the pages on page_free_list                                    *)
(*   ref    pp_ref of each page, an unsigned integer modulo REFMOD         *)
(*   pgdir  the page that is the page directory of each environment        *)
(*   pde    the page tables of its user part                               *)
(*   pte    the page and the permission at each user address               *)
(*   panic  has page_free refused a page?                                  *)
(* An entry that is not present is None.  Page-table pages are private to  *)
(* an environment, so their entries are kept by environment and address.   *)
(***************************************************************************)
EXTENDS Integers, FiniteSets

CONSTANTS
  NPAGES,   \* physical pages that page_init puts on the free list
  REFMOD,   \* 2^16: pp_ref is a uint16_t
  Envs,     \* slots of envs[]
  Vas,      \* page-aligned user addresses below UTOP
  Pdxs,     \* page-directory entries of the user part
  PDX,      \* the entry an address belongs to
  None

Pages == 1 .. NPAGES
Perms == {"r", "w"}   \* PTE_P | PTE_U, without and with PTE_W

ASSUME PmapAssumption ==
  /\ NPAGES \in Nat /\ REFMOD \in Nat \ {0, 1}
  /\ IsFiniteSet(Envs) /\ IsFiniteSet(Vas) /\ IsFiniteSet(Pdxs)
  /\ PDX \in [Vas -> Pdxs]
  /\ None \notin Pages /\ None \notin [page : Pages, perm : Perms]

-----------------------------------------------------------------------------
(* The pages on the free list are all alike, so which one is the head does *)
(* not matter.                                                             *)
FreePage(m) == CHOOSE p \in m.free : TRUE

PageAlloc(m) == [m EXCEPT !.free = @ \ {FreePage(m)}, !.ref[FreePage(m)] = 0]

PageFree(m, p) ==
  IF m.ref[p] # 0 THEN [m EXCEPT !.panic = TRUE]
                  ELSE [m EXCEPT !.free = @ \cup {p}]

Incref(m, p) == [m EXCEPT !.ref[p] = (@ + 1) % REFMOD]

PageDecref(m, p) ==
  LET n == [m EXCEPT !.ref[p] = (@ - 1) % REFMOD]
  IN  IF n.ref[p] = 0 THEN PageFree(n, p) ELSE n

-----------------------------------------------------------------------------
(* pgdir_walk finds a page table, or makes one if a page is free.          *)
HasTable(m, e, va) == m.pde[e][PDX[va]] # None
WalkFails(m, e, va) == ~HasTable(m, e, va) /\ m.free = {}
PgdirWalk(m, e, va) ==
  IF HasTable(m, e, va) THEN m
  ELSE [Incref(PageAlloc(m), FreePage(m))
          EXCEPT !.pde[e][PDX[va]] = FreePage(m)]

PageLookup(m, e, va) == IF HasTable(m, e, va) THEN m.pte[e][va] ELSE None

PageRemove_EntryKept(m, e, va) ==
  LET entry == PageLookup(m, e, va)
  IN  IF entry = None THEN m ELSE PageDecref(m, entry.page)
PageRemove(m, e, va) ==
  LET entry == PageLookup(m, e, va)
  IN  IF entry = None THEN m
      ELSE [PageDecref(m, entry.page) EXCEPT !.pte[e][va] = None]

SetEntry(m, e, p, va, perm) ==
  [m EXCEPT !.pte[e][va] = [page |-> p, perm |-> perm]]

(* page_insert, unless pgdir_walk fails.                                   *)
PageInsert_RemoveFirst(m, e, p, va, perm) ==
  Incref(SetEntry(PageRemove(PgdirWalk(m, e, va), e, va), e, p, va, perm), p)
PageInsert(m, e, p, va, perm) ==
  LET n == PgdirWalk(m, e, va)
      old == n.pte[e][va]
  IN  IF old # None /\ old.page = p THEN SetEntry(n, e, p, va, perm)
      ELSE Incref(SetEntry(PageRemove(n, e, va), e, p, va, perm), p)

(* env_setup_vm, when a page is free.                                      *)
EnvSetupVm(m, e) ==
  [Incref(PageAlloc(m), FreePage(m)) EXCEPT !.pgdir[e] = FreePage(m),
                                            !.pde[e] = [d \in Pdxs |-> None],
                                            !.pte[e] = [va \in Vas |-> None]]

-----------------------------------------------------------------------------
(* The pointers to page p: page directories of environments, page-directory*)
(* entries, page-table entries.                                            *)
PgdirRefs(m, p) == {e \in Envs : m.pgdir[e] = p}
PdeRefs(m, p) == {x \in Envs \X Pdxs : m.pde[x[1]][x[2]] = p}
PteRefs(m, p) ==
  {x \in Envs \X Vas : m.pte[x[1]][x[2]] # None /\ m.pte[x[1]][x[2]].page = p}
Refs(m, p) == Cardinality(PgdirRefs(m, p)) + Cardinality(PdeRefs(m, p))
                + Cardinality(PteRefs(m, p))

Memories ==
  [free : SUBSET Pages,
   ref : [Pages -> 0 .. REFMOD - 1],
   pgdir : [Envs -> Pages \cup {None}],
   pde : [Envs -> [Pdxs -> Pages \cup {None}]],
   pte : [Envs -> [Vas -> [page : Pages, perm : Perms] \cup {None}]],
   panic : BOOLEAN]
=============================================================================
