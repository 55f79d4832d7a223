---------------------------- MODULE ChildProofs -----------------------------
(***************************************************************************)
(* Proofs about Child: for any number of environments, frames and segments *)
(* copy-on-write is invisible, no environment dies of a page fault, and    *)
(* spawn cleans up.                                                        *)
(***************************************************************************)
EXTENDS ChildSpawnProofs

-----------------------------------------------------------------------------
(* fork.                                                                   *)

(* The exception stack, for the first fork of an environment.              *)
LEMMA MakeXstackInv ==
  ASSUME ChildInv, NEW e \in Envs, MakeXstack(e)
  PROVE  ChildInv'
<1>1. TableType /\ ProcType /\ ValueType /\ Sharing /\ OneLib /\ Local(e)
  BY Zenon DEF ChildInv, Local
<1>2. /\ status[e] = "run" /\ fault[e] = None /\ pc[e] = "makexstack"
      /\ UNCHANGED <<mem, shm>>
  BY Zenon DEF MakeXstack, Ready
<1>3. CASE panic(e)
  BY <1>2, <1>3, PanicInv, Zenon
<1>4. CASE /\ sys_page_alloc(e, "xstack", "w") /\ Goto(e, "setupcall")
           /\ UNCHANGED <<status, upcall, handler, fault, at, child, parent, leaked>>
  <2>1. "xstack" \in AllPages \ {"lib", "prog"} /\ "w" \in PermsOf("xstack") /\ 0 \in Values
        /\ "xstack" \notin Private
    BY PageFacts, PermFacts, ChildAssumption, Zenon
  <2>2. /\ TableType' /\ content' \in [Frames -> Values] /\ OneLib' /\ PlaceOnly(e, "xstack")
        /\ pt'[e]["xstack"].frame # None /\ pt'[e]["xstack"].perm = "w"
        /\ \A d \in Envs, w \in AllPages : pt[d][w].frame # pt'[e]["xstack"].frame
        /\ \A d \in Envs : Steady(d)
    BY <1>1, <1>4, <2>1, AllocFacts DEF sys_page_alloc, PlaceOnly
  <2>3. Onward(e, "setupcall", at[e]) /\ at[e] \in Nat
    BY <1>1, <1>2, <1>4, Zenon DEF Goto, Onward, ProcType
  <2>4. pc'[e] = "setupcall" /\ OnlyPlace(e) /\ ProcType'
    BY <1>1, <2>3, OnwardFacts, Zenon DEF Points
  <2>5. ValueType'
    BY <1>1, <1>2, <2>2, Zenon DEF ValueType
  <2>6. Sharing'
    <3>1. MovesOn
      BY <1>1, <1>2, <2>3, OnwardMoves, Zenon DEF Points
    <3>2. OnlyNew(e, "xstack")
      BY <2>2, Zenon DEF OnlyNew, PlaceOnly
    <3> QED BY <1>1, <2>1, <3>1, <3>2, SharingKept, Zenon
  <2>7. child[e] = None
    BY <1>2, Apart, Zenon DEF ForkPoints, SpawnPoints
  <2>8. \A w \in AllPages \ {"xstack"} : pt'[e][w] = pt[e][w]
    BY <2>2, Zenon DEF PlaceOnly
  <2>9. Contents(e)'
    BY <1>1, <1>2, <1>4, <2>2, <2>8, PageFacts, ContentsKept, Zenon DEF Local
  <2>10. Mapped(e, "xstack")' /\ \A w \in AllPages : Mapped(e, w) => Mapped(e, w)'
    BY <2>2, <2>8, Zenon DEF Mapped
  <2>11. Handlers(e)'
    <3>1. \A w \in AllPages : pt'[e][w].perm = "cow" => pt[e][w].perm = "cow"
      BY <2>2, <2>8, Zenon
    <3> QED BY <1>1, <1>2, <1>4, <2>4, <2>10, <3>1, Zenon DEF Local, Handlers, Prepared
  <2>12. ProgOpen(e)'
    <3>1. Mapped(e, "prog")' <=> Mapped(e, "prog")
      BY <2>8, PageFacts, Zenon DEF Mapped
    <3> QED BY <1>1, <1>2, <1>4, <2>4, <3>1, Zenon DEF Local, ProgOpen, SpawnPoints
  <2>13. Local(e)'
    BY <1>1, <1>2, <1>4, <2>4, <2>7, <2>9, <2>10, <2>11, <2>12, PageFacts, AloneLocal, Zenon
       DEF Local, ForkPoints, SpawnPoints
  <2> QED BY <1>2, <2>1, <2>2, <2>4, <2>5, <2>6, <2>13, PlaceKeeps, Zenon
<1> QED BY <1>3, <1>4, Zenon DEF MakeXstack

LEMMA ForkExoforkInv ==
  ASSUME ChildInv, NEW e \in Envs, ForkExofork(e)
  PROVE  ChildInv'
<1>1. ValueType
  BY Zenon DEF ChildInv
<1>2. status[e] = "run" /\ fault[e] = None /\ pc[e] = "exofork"
  BY Zenon DEF ForkExofork, Ready
<1>3. CASE panic(e) /\ UNCHANGED <<mem, shm>>
  BY <1>2, <1>3, PanicInv, Zenon
<1>4. ASSUME NEW c \in Envs, Exofork(e, c, "dup", mem[e]), handler' = handler \cup {c},
             leaked' = IF e \in leaked THEN leaked \cup {c} ELSE leaked
      PROVE  ChildInv'
  <2>1. PICK m \in [Private -> Values] : m = mem[e]
    BY <1>1, Zenon DEF ValueType
  <2> QED BY <1>2, <1>4, <2>1, ExoforkKeeps, Zenon
<1> QED BY <1>3, <1>4, Zenon DEF ForkExofork

(* The child of a fork.                                                    *)
LEMMA Forked ==
  ASSUME ChildInv, NEW e \in Envs, status[e] = "run", pc[e] \in ForkPoints
  PROVE  \E c \in Envs, n \in Nat :
           /\ child[e] = c /\ at[e] = n /\ c # e /\ status[c] = "building"
           /\ Local(c) /\ Forking(e, c, n)
<1>1. ProcType /\ \A d \in Envs : Local(d)
  BY Zenon DEF ChildInv, Local
<1>2. PICK c \in Envs, n \in Nat :
        child[e] = c /\ at[e] = n /\ status[c] = "building" /\ Forking(e, c, n)
  BY <1>1, Making, Zenon
<1> QED BY <1>1, <1>2, Zenon

(* What remains to be shown of a step between sys_exofork and the child's  *)
(* start.                                                                  *)
LEMMA ForkStep ==
  ASSUME ChildInv, NEW e \in Envs, NEW c \in Envs, NEW p \in ForkPoints \cup {"start"},
         NEW n \in Nat, NEW a \in {e, c}, NEW v \in AllPages,
         status[e] = "run", fault[e] = None, pc[e] \in ForkPoints, child[e] = c, e \in handler,
         Onward(e, p, n), PlaceOnly(a, v), TableType', content' \in [Frames -> Values],
         \A d \in Envs : d # e => Steady(d),
         a = e => v \in Private /\ Mapped(e, v)',
         Contents(e)', Forking(e, c, n)', Starting(e, c)',
         Local(c)', Sharing', OneLib'
  PROVE  ChildInv'
<1>1. ProcType /\ ValueType /\ Local(e)
  BY Zenon DEF ChildInv, Local
<1>2. c # e /\ status[c] = "building" /\ parent[c] = e
  BY Apart, FrameFacts, Zenon
<1>3. p \in Points
  BY Zenon DEF Points
<1>4. pc'[e] = p /\ at'[e] = n /\ OnlyPlace(e) /\ ProcType'
  BY <1>1, <1>3, OnwardFacts, Zenon
<1>5. ValueType'
  BY <1>1, <1>4, Zenon DEF ValueType, OnlyPlace
<1>6. /\ status' = status /\ fault'[e] = None /\ child'[e] = c /\ parent' = parent
      /\ upcall' = upcall /\ handler' = handler /\ leaked' = leaked
  BY Zenon DEF Onward
<1>7. \A w \in Private \cup {"xstack"} : Mapped(e, w) => Mapped(e, w)'
  <2>1. \A w \in Private \cup {"xstack"} : w \in AllPages
    BY PageFacts, Zenon
  <2> QED BY <1>2, <2>1, PlaceFacts, Zenon
<1>8. Mapped(e, "prog")' => e \in leaked
  <2>1. "prog" \in AllPages /\ "prog" \notin Private
    BY PageFacts, Zenon
  <2>2. Mapped(e, "prog")' <=> Mapped(e, "prog")
    BY <1>2, <2>1, PlaceFacts, Zenon
  <2> QED BY <1>1, <2>2, Zenon DEF Local, ProgOpen, ForkPoints, SpawnPoints
<1>9. p \notin SpawnPoints
  BY Zenon DEF ForkPoints, SpawnPoints
<1>10. Spawning(e, c, n)' /\ Transit(e)'
  BY <1>4, <1>6, <1>9, Idle, Zenon DEF Spawning, SpawnPoints
<1>11. Local(e)'
  BY <1>1, <1>2, <1>4, <1>6, <1>7, <1>8, <1>9, <1>10, MakingLocal, Zenon DEF SpawnPoints
<1> QED BY <1>4, <1>5, <1>11, PlaceKeeps, Zenon

(* One page more is there.                                                 *)
LEMMA PagewiseNext ==
  ASSUME NEW c \in Envs, NEW n \in 1 .. Len(PageOrder), Mapped(c, PageOrder[n])',
         Pagewise(c, n - 1)'
  PROVE  Pagewise(c, n)'
<1>1. \A j \in 1 .. n : j \in 1 .. n - 1 \/ j = n
  BY OrderFacts
<1> QED BY <1>1, Zenon DEF Pagewise

(* duppage finds nothing to map.                                           *)
LEMMA SkipPageInv ==
  ASSUME ChildInv, NEW e \in Envs, NEW c \in Envs, NEW n \in 1 .. Len(PageOrder), NEW k \in Nat,
         status[e] = "run", fault[e] = None, pc[e] = "dup", child[e] = c, at[e] = n,
         Forking(e, c, n), ~Mapped(e, PageOrder[n]), k = n + 1,
         Onward(e, "dup", k), UNCHANGED <<pt, content>>
  PROVE  ChildInv'
<1>1. /\ TableType /\ ProcType /\ ValueType /\ Sharing /\ OneLib /\ Local(e) /\ Local(c)
      /\ "UTEMP" \in AllPages
  BY PageFacts, Zenon DEF ChildInv, Local
<1>2. pc[e] \in ForkPoints /\ "dup" \in Points /\ c # e /\ status[c] = "building"
  BY Apart, FrameFacts, Zenon DEF ForkPoints, Points
<1>3. /\ pc'[e] = "dup" /\ OnlyPlace(e) /\ status' = status /\ mem' = mem /\ shm' = shm
      /\ handler' = handler /\ leaked' = leaked
  BY <1>1, <1>2, OnwardFacts, Zenon DEF Onward
<1>4. /\ TableType' /\ content' \in [Frames -> Values] /\ PlaceOnly(c, "UTEMP")
      /\ OnlyNew(c, "UTEMP") /\ PlaceOnly(e, "UTEMP") /\ \A d \in Envs : Steady(d)
  BY <1>1, Zenon DEF TableType, ValueType, PlaceOnly, OnlyNew, Steady
<1>5. /\ mem[c] = mem[e] /\ e \in handler /\ c \in handler /\ (e \in leaked => c \in leaked)
      /\ Pagewise(c, n - 1)
  BY <1>2, Zenon DEF Forking
<1>6. Pagewise(c, n)
  <2>1. PageOrder[n] \notin Private
    BY <1>1, Zenon DEF Local, Present, Complete
  <2>2. \A j \in 1 .. n : j \in 1 .. n - 1 \/ j = n
    BY OrderFacts
  <2> QED BY <1>5, <2>1, <2>2, Zenon DEF Pagewise
<1>7. Forking(e, c, k)'
  <2>1. Pagewise(c, n)'
    BY <1>6, Zenon DEF Pagewise, Mapped
  <2>2. k \in 1 .. Len(PageOrder) + 1 /\ k - 1 = n
    BY OrderFacts
  <2> QED BY <1>3, <1>5, <2>1, <2>2, Zenon DEF Forking
<1>8. Starting(e, c)'
  BY <1>3, Zenon DEF Starting
<1>9. Contents(e)'
  BY <1>1, <1>3, Zenon DEF Local, Contents, Holding, Mapped
<1>10. Local(c)'
  BY <1>1, <1>2, <1>3, <1>4, EmbryoAlone, Zenon
<1>11. Sharing' /\ OneLib'
  <2>1. MovesOn
    BY <1>1, <1>2, OnwardMoves, Zenon
  <2> QED BY <1>1, <1>4, <2>1, SharingKept, OneLibKept, Zenon
<1> QED BY <1>1, <1>2, <1>4, <1>5, <1>7, <1>8, <1>9, <1>10, <1>11, ForkStep, Zenon DEF ForkPoints

(* A page of the parent that others share is, in each of them, the same    *)
(* page, and not to be written without a fault, or by all.                 *)
LEMMA ParentShares ==
  ASSUME ChildInv, NEW e \in Envs, NEW v \in AllPages, NEW d \in Envs, NEW w \in AllPages,
         status[e] = "run", fault[e] = None, pc[e] = "dup",
         pt[e][v].frame \in Frames, pt[d][w].frame = pt[e][v].frame, ~(d = e /\ w = v)
  PROVE  w = v /\ pt[d][w].perm \in {"cow", "ro", "share"}
<1>1. Sharing /\ \A g \in Envs : child[g] # e
  BY Apart, Zenon DEF ChildInv
<1>2. Shares(e, v, d, w)
  BY <1>1, Zenon DEF Sharing
<1>3. ~Moving(e, v, d, w) /\ ~Moving(d, w, e, v)
  BY <1>1, Zenon DEF Moving
<1> QED BY <1>2, <1>3, Zenon DEF Shares

(* What the child may do with a page of its parent.                        *)
LEMMA ChildPermCases ==
  ASSUME NEW x
  PROVE  /\ x = "w" \/ x = "cow" => ChildPerm(x) = "cow"
         /\ x = "ro" => ChildPerm(x) = "ro"
         /\ x = "share" => ChildPerm(x) = "share"
BY Zenon DEF ChildPerm

LEMMA ChildPermFacts ==
  ASSUME TableType, NEW e \in Envs, NEW v \in AllPages, v \in Pages, Mapped(e, v)
  PROVE  \E q \in {"cow", "ro", "share"} :
           /\ q = ChildPerm(pt[e][v].perm) /\ q \in PermsOf(v)
           /\ q = "cow" <=> v \in Stored
           /\ q # "cow" => pt[e][v].perm = q
<1>1. PICK x : x = pt[e][v].perm
  BY Zenon
<1>2. /\ x # "none" /\ (v \in Stored => x \in {"w", "cow"})
      /\ v \in Private \ Stored => x = "ro"
      /\ v \in {"lib", "prog"} => x = "share"
  BY <1>1, TableFacts, Zenon DEF Mapped
<1>3. CASE v \in Stored
  BY <1>1, <1>2, <1>3, ChildPermCases, PermFacts, Zenon
<1>4. CASE v \in Private \ Stored
  BY <1>1, <1>2, <1>4, ChildPermCases, PermFacts, Zenon
<1>5. CASE v \in {"lib", "prog"}
  <2>1. v \notin Stored
    BY <1>5, PageFacts, Zenon
  <2> QED BY <1>1, <1>2, <1>5, <2>1, ChildPermCases, PermFacts, Zenon
<1> QED BY <1>3, <1>4, <1>5, Zenon DEF Pages

(* The child's page is the parent's, with permission q, and where fork     *)
(* goes on.                                                                *)
DupPerm(e, v, q) ==
  /\ q \in PermsOf(v) /\ (q = "cow" <=> v \in Stored)
  /\ q # "cow" => pt[e][v].perm = q
DupPlace(q, p, n, k) ==
  IF q = "cow" THEN p = "remap" /\ k = n ELSE p = "dup" /\ k = n + 1

LEMMA DupEntry ==
  ASSUME TableType, NEW e \in Envs, NEW v \in AllPages, NEW q, DupPerm(e, v, q), Mapped(e, v)
  PROVE  /\ pt[e][v].frame # None
         /\ Page(pt[e][v].frame, q) \in EntriesOf(v)
         /\ Page(pt[e][v].frame, q).frame = pt[e][v].frame
         /\ Page(pt[e][v].frame, q).perm = q
<1>1. q \in PermsOf(v)
  BY Zenon DEF DupPerm
<1>2. PICK f : f = pt[e][v].frame
  BY Zenon
<1>3. f # None /\ (f \in Frames \/ (v = "prog" /\ f = FdFrame)) /\ (v = "prog" => f \notin Frames)
  BY <1>2, TableFacts, Zenon DEF Mapped
<1>4. CASE v = "prog"
  <2>1. f = FdFrame /\ q = "share"
    BY <1>1, <1>3, <1>4, PermFacts, Zenon
  <2> QED BY <1>2, <1>3, <1>4, <2>1, PageEntry, Zenon
<1>5. CASE v # "prog"
  <2>1. f \in Frames /\ v \in AllPages \ {"prog"}
    BY <1>3, <1>5, Zenon
  <2> QED BY <1>1, <1>2, <1>3, <2>1, PageEntry, Zenon
<1> QED BY <1>4, <1>5, Zenon

LEMMA DupMaps ==
  ASSUME TableType, NEW e \in Envs, NEW c \in Envs, NEW v \in AllPages, NEW q,
         DupPerm(e, v, q), Mapped(e, v), Map(c, v, Page(pt[e][v].frame, q))
  PROVE  /\ TableType' /\ PlaceOnly(c, v)
         /\ pt'[c][v].frame = pt[e][v].frame /\ pt'[c][v].perm = q /\ Mapped(c, v)'
<1>1. PICK x \in EntriesOf(v) :
        /\ x = Page(pt[e][v].frame, q) /\ x.frame = pt[e][v].frame /\ x.perm = q
        /\ x.frame # None
  BY DupEntry
<1>2. Map(c, v, x)
  BY <1>1, Zenon
<1>3. /\ TableType'
      /\ \A d \in Envs, w \in AllPages : pt'[d][w] = IF d = c /\ w = v THEN x ELSE pt[d][w]
  BY <1>2, MapFacts
<1> QED BY <1>1, <1>3, Zenon DEF PlaceOnly, Mapped

LEMMA DupLib ==
  ASSUME OneLib, NEW e \in Envs, NEW c \in Envs, NEW v \in AllPages, Mapped(e, v),
         PlaceOnly(c, v), pt'[c][v].frame = pt[e][v].frame
  PROVE  OneLib'
<1>1. CASE v = "lib"
  <2>1. \A d \in Envs : Mapped(d, "lib") => pt[d]["lib"].frame = pt[e]["lib"].frame
    BY <1>1, Zenon DEF OneLib
  <2>2. ASSUME NEW d \in Envs, Mapped(d, "lib")'
        PROVE  pt'[d]["lib"].frame = pt[e]["lib"].frame
    BY <1>1, <2>1, <2>2, Zenon DEF Mapped, PlaceOnly
  <2> QED BY <2>2, Zenon DEF OneLib
<1>2. CASE v # "lib"
  BY <1>2, OneLibKept, Zenon
<1> QED BY <1>1, <1>2, Zenon

(* duppage maps a page of the parent in the child.                         *)
LEMMA GivePageInv ==
  ASSUME ChildInv, NEW e \in Envs, NEW c \in Envs, NEW n \in 1 .. Len(PageOrder), NEW k \in Nat,
         status[e] = "run", fault[e] = None, pc[e] = "dup", child[e] = c, at[e] = n,
         Forking(e, c, n), NEW v \in Pages, PageOrder[n] = v, Mapped(e, v),
         NEW q \in {"cow", "ro", "share"}, DupPerm(e, v, q),
         Map(c, v, Page(pt[e][v].frame, q)), NEW p \in {"dup", "remap"}, DupPlace(q, p, n, k),
         Onward(e, p, k), UNCHANGED content
  PROVE  ChildInv'
<1>1. TableType /\ ProcType /\ ValueType /\ Sharing /\ OneLib /\ Local(e) /\ Local(c)
  BY Zenon DEF ChildInv, Local
<1>2. /\ pc[e] \in ForkPoints /\ p \in ForkPoints /\ p \in Points /\ c # e
      /\ status[c] = "building"
  BY Apart, FrameFacts, Zenon DEF ForkPoints, Points
<1>3. /\ pc'[e] = p /\ at'[e] = k /\ child'[e] = c /\ OnlyPlace(e) /\ status' = status
      /\ mem' = mem /\ shm' = shm /\ handler' = handler /\ leaked' = leaked
  BY <1>1, <1>2, OnwardFacts, Zenon DEF Onward
<1>4. /\ mem[c] = mem[e] /\ e \in handler /\ c \in handler /\ (e \in leaked => c \in leaked)
      /\ Pagewise(c, n - 1)
  BY <1>2, Zenon DEF Forking
<1>5. /\ v \in AllPages /\ v \notin {"PFTEMP", "UTEMP", "xstack"}
      /\ v \in Private \/ v \in {"lib", "prog"}
  BY PageFacts, Zenon DEF Pages, AllPages
<1>6. PICK f : f = pt[e][v].frame /\ f # None
  BY Zenon DEF Mapped
<1>9. /\ TableType' /\ PlaceOnly(c, v) /\ pt'[c][v].frame = f /\ pt'[c][v].perm = q
      /\ Mapped(c, v)'
  BY <1>1, <1>5, <1>6, DupMaps
<1>10. content' \in [Frames -> Values] /\ \A d \in Envs : Steady(d)
  BY <1>1, Zenon DEF ValueType, Steady
<1>11. OneLib'
  BY <1>1, <1>5, <1>6, <1>9, DupLib, Zenon
<1>12. Sharing'
  <2>1. MovesOn
    BY <1>1, <1>2, OnwardMoves, Zenon
  <2>2. /\ q = "cow" => Moving(e, v, c, v)'
        /\ q # "cow" => pt[e][v].perm \in {"cow", "ro", "share"}
    BY <1>3, Zenon DEF Moving, DupPlace, DupPerm
  <2>3. ASSUME NEW d \in Envs, NEW w \in AllPages, ~(d = c /\ w = v),
               pt'[d][w].frame \in Frames, pt'[d][w].frame = f
        PROVE  Shares(d, w, c, v)'
    <3>1. pt'[d][w] = pt[d][w] /\ f \in Frames /\ pt[d][w].frame = f
      BY <1>9, <2>3, Zenon DEF PlaceOnly
    <3>2. CASE d = e /\ w = v
      BY <1>9, <2>2, <3>1, <3>2, Zenon DEF Shares
    <3>3. CASE ~(d = e /\ w = v)
      <4>1. pt[e][v].frame \in Frames /\ pt[d][w].frame = pt[e][v].frame
        BY <1>6, <3>1, Zenon
      <4>2. w = v /\ pt[d][w].perm \in {"cow", "ro", "share"}
        BY <1>5, <3>3, <4>1, ParentShares
      <4> QED BY <1>9, <3>1, <4>2, Zenon DEF Shares
    <3> QED BY <3>2, <3>3, Zenon
  <2> QED BY <1>1, <1>5, <1>9, <2>1, <2>3, SharingPlace, Zenon
<1>13. Contents(e)'
  <2>1. \A w \in Private \cup {"lib"} : pt'[e][w] = pt[e][w]
    BY <1>2, <1>9, PageFacts, Zenon DEF PlaceOnly
  <2> QED BY <1>1, <1>3, <1>10, <2>1, ContentsKept, Zenon DEF Local
<1>14. Pagewise(c, n)'
  <2>1. Pagewise(c, n - 1)'
    BY <1>4, <1>5, <1>9, PlaceFacts, Zenon
  <2> QED BY <1>9, <2>1, PagewiseNext, Zenon
<1>15. Forking(e, c, k)'
  <2>1. CASE q = "cow"
    <3>1. p = "remap" /\ k = n /\ v \in Stored
      BY <2>1, Zenon DEF DupPlace, DupPerm
    <3> QED BY <1>3, <1>4, <1>9, <1>14, <2>1, <3>1, Zenon DEF Forking
  <2>2. CASE q # "cow"
    <3>1. p = "dup" /\ k = n + 1
      BY <2>2, Zenon DEF DupPlace
    <3>2. k \in 1 .. Len(PageOrder) + 1 /\ k - 1 = n
      BY <3>1, OrderFacts, OneFurther
    <3> QED BY <1>3, <1>4, <1>14, <3>1, <3>2, Zenon DEF Forking
  <2> QED BY <2>1, <2>2, Zenon
<1>16. Starting(e, c)'
  BY <1>3, Zenon DEF Starting
<1>17. Local(c)'
  <2>1. v \in Private => Holding(c, v, mem[c][v])'
    <3>1. v \in Private => content[f] = mem[e][v]
      BY <1>1, <1>6, Zenon DEF Local, Contents, Holding
    <3> QED BY <1>3, <1>4, <1>9, <3>1, Zenon DEF Holding
  <2>2. v = "lib" => Holding(c, "lib", shm)'
    <3>1. v = "lib" => content[f] = shm
      BY <1>1, <1>6, Zenon DEF Local, Contents, Holding
    <3> QED BY <1>3, <1>9, <3>1, Zenon DEF Holding
  <2>3. v = "prog" => c \in leaked
    BY <1>1, <1>4, Zenon DEF Local, ProgOpen, SpawnPoints
  <2> QED BY <1>1, <1>2, <1>3, <1>4, <1>5, <1>9, <1>10, <2>1, <2>2, <2>3, EmbryoKept, Zenon
<1> QED BY <1>2, <1>4, <1>5, <1>9, <1>10, <1>11, <1>12, <1>13, <1>15, <1>16, <1>17, ForkStep, Zenon

LEMMA DuppageInv ==
  ASSUME ChildInv, NEW e \in Envs, Duppage(e)
  PROVE  ChildInv'
<1>1. /\ ProcType /\ status[e] = "run" /\ fault[e] = None /\ pc[e] = "dup"
      /\ at[e] <= Len(PageOrder) /\ MapsRest
  BY Zenon DEF Duppage, Ready, ChildInv
<1>2. PICK c \in Envs, m \in Nat : child[e] = c /\ at[e] = m /\ Forking(e, c, m)
  BY <1>1, Forked, Zenon DEF ForkPoints
<1>3. PICK n \in 1 .. Len(PageOrder) : m = n
  BY <1>1, <1>2, OrderFacts DEF Forking, ForkPoints
<1>4. PICK v \in Pages : PageOrder[n] = v
  BY <1>3, OrderFacts, Zenon
<1>5. PICK k \in Nat : k = n + 1
  BY <1>2, <1>3
<1>6. NextPage(e) /\ UNCHANGED pc => Onward(e, "dup", k)
  <2>1. at[e] + 1 = k
    BY <1>2, <1>3, <1>5
  <2>2. pc = [pc EXCEPT ![e] = "dup"]
    BY <1>1, Zenon DEF ProcType
  <2>3. NextPage(e) => at' = [at EXCEPT ![e] = k]
    BY <2>1 DEF NextPage
  <2> QED BY <1>1, <2>2, <2>3, Zenon DEF MapsRest, Onward
<1>7. Goto(e, "remap") /\ UNCHANGED at => Onward(e, "remap", n)
  BY <1>1, <1>2, <1>3, Zenon DEF Goto, MapsRest, Onward, ProcType
<1>8. UNCHANGED content
  BY <1>1, Zenon DEF MapsRest
<1>9. \/ ~Mapped(e, v) /\ NextPage(e) /\ UNCHANGED <<pt, pc>>
      \/ /\ Mapped(e, v) /\ Map(c, v, Page(pt[e][v].frame, ChildPerm(pt[e][v].perm)))
         /\ IF ChildPerm(pt[e][v].perm) = "cow" THEN Goto(e, "remap") /\ UNCHANGED at
            ELSE NextPage(e) /\ UNCHANGED pc
  BY <1>2, <1>3, <1>4, Zenon DEF Duppage
<1>10. CASE ~Mapped(e, v) /\ NextPage(e) /\ UNCHANGED <<pt, pc>>
  BY <1>1, <1>2, <1>3, <1>4, <1>5, <1>6, <1>8, <1>10, SkipPageInv, Zenon
<1>11. CASE /\ Mapped(e, v) /\ Map(c, v, Page(pt[e][v].frame, ChildPerm(pt[e][v].perm)))
            /\ IF ChildPerm(pt[e][v].perm) = "cow" THEN Goto(e, "remap") /\ UNCHANGED at
               ELSE NextPage(e) /\ UNCHANGED pc
  <2>1. TableType /\ v \in AllPages
    BY PageFacts, Zenon DEF ChildInv, AllPages
  <2>2. PICK q \in {"cow", "ro", "share"} :
          /\ q = ChildPerm(pt[e][v].perm) /\ q \in PermsOf(v)
          /\ q = "cow" <=> v \in Stored
          /\ q # "cow" => pt[e][v].perm = q
    BY <1>11, <2>1, ChildPermFacts, Zenon
  <2>6. DupPerm(e, v, q)
    BY <2>2, Zenon DEF DupPerm
  <2>3. /\ Mapped(e, v) /\ Map(c, v, Page(pt[e][v].frame, q))
        /\ q = "cow" => Goto(e, "remap") /\ UNCHANGED at
        /\ q # "cow" => NextPage(e) /\ UNCHANGED pc
    BY <1>11, <2>2, Zenon
  <2>4. CASE q = "cow"
    <3>1. DupPlace(q, "remap", n, n) /\ n \in Nat
      BY <1>3, <2>4, Zenon DEF DupPlace
    <3> QED BY <1>1, <1>2, <1>3, <1>4, <1>7, <1>8, <2>3, <2>4, <2>6, <3>1, GivePageInv, Zenon
  <2>5. CASE q # "cow"
    <3>1. DupPlace(q, "dup", n, k)
      BY <1>5, <2>5, Zenon DEF DupPlace
    <3> QED BY <1>1, <1>2, <1>3, <1>4, <1>5, <1>6, <1>8, <2>3, <2>5, <2>6, <3>1, GivePageInv, Zenon
  <2> QED BY <2>4, <2>5, Zenon
<1> QED BY <1>9, <1>10, <1>11, Zenon

(* The parent's page is copy-on-write now too, as the child's.             *)
LEMMA RemapInv ==
  ASSUME ChildInv, NEW e \in Envs, Remap(e)
  PROVE  ChildInv'
<1>1. TableType /\ ProcType /\ ValueType /\ Sharing /\ OneLib /\ \A d \in Envs : Local(d)
  BY Zenon DEF ChildInv, Local
<1>2. /\ status[e] = "run" /\ fault[e] = None /\ pc[e] = "remap" /\ pc[e] \in ForkPoints
      /\ UNCHANGED <<status, upcall, handler, fault, child, parent, leaked, content, mem, shm>>
  BY Zenon DEF Remap, Ready, MapsRest, ForkPoints
<1>3. PICK c \in Envs, m \in Nat :
        /\ child[e] = c /\ at[e] = m /\ c # e /\ status[c] = "building" /\ Forking(e, c, m)
  BY <1>2, Forked, Zenon
<1>4. PICK n \in 1 .. Len(PageOrder) : m = n
  BY <1>2, <1>3, Zenon DEF Forking
<1>5. /\ mem[c] = mem[e] /\ e \in handler /\ c \in handler /\ (e \in leaked => c \in leaked)
      /\ Pagewise(c, n) /\ PageOrder[n] \in Stored /\ pt[c][PageOrder[n]].perm = "cow"
  BY <1>2, <1>3, <1>4, Zenon DEF Forking
<1>6. PICK v \in Stored : PageOrder[n] = v
  BY <1>5, Zenon
<1>7. v \in Private /\ v \in AllPages \ {"prog"} /\ v # "lib" /\ "cow" \in PermsOf(v)
  BY PageFacts, PermFacts, Zenon
<1>8. PICK f \in Frames : f = pt[c][v].frame /\ f # None /\ content[f] = mem[e][v]
  <2>1. pt[c][v].frame \in Frames /\ Mapped(c, v)
    BY <1>1, <1>5, <1>6, <1>7, TableFacts, Zenon DEF Mapped
  <2>2. Holding(c, v, mem[c][v])
    BY <1>1, <1>3, <1>7, <2>1, Zenon DEF Local, Contents
  <2> QED BY <1>5, <2>1, <2>2, Zenon DEF Holding, Mapped
<1>9. TableType' /\ PlaceOnly(e, v) /\ pt'[e][v].frame = f /\ pt'[e][v].perm = "cow"
  <2>1. Map(e, v, Page(f, "cow"))
    BY <1>3, <1>4, <1>6, <1>8, Zenon DEF Remap, RemapPerm
  <2>2. /\ Page(f, "cow") \in EntriesOf(v)
        /\ Page(f, "cow").frame = f /\ Page(f, "cow").perm = "cow"
    BY <1>7, PageEntry, Zenon
  <2> QED BY <1>1, <1>7, <2>1, <2>2, MapFacts DEF PlaceOnly
<1>10. PICK k \in Nat : k = n + 1
  BY <1>3, <1>4
<1>11. Onward(e, "dup", k)
  BY <1>2, <1>3, <1>4, <1>10, Zenon DEF Remap, Goto, NextPage, Onward
<1>12. pc'[e] = "dup" /\ OnlyPlace(e)
  BY <1>1, <1>11, OnwardFacts, Zenon DEF Points, ForkPoints
<1>13. \A d \in Envs : child[d] # e /\ (d # e => child[d] # c)
  BY <1>2, <1>3, Apart, FrameFacts
<1>14. Sharing'
  <2>1. OthersMove(e, v)
    <3> SUFFICES ASSUME NEW d \in Envs, NEW g \in Envs, NEW w \in AllPages, NEW u \in AllPages,
                        Moving(d, w, g, u), ~(d = e /\ w = v)
                 PROVE  Moving(d, w, g, u)'
      BY Zenon DEF OthersMove
    <3>1. d # e
      BY <1>2, <1>3, <1>4, <1>6, Zenon DEF Moving
    <3>2. pc'[d] = pc[d] /\ at'[d] = at[d]
      BY <1>12, <3>1, Zenon DEF OnlyPlace
    <3> QED BY <1>2, <3>2, Zenon DEF Moving
  <2>2. ASSUME NEW d \in Envs, NEW w \in AllPages, ~(d = e /\ w = v), pt'[d][w].frame = f
        PROVE  Shares(d, w, e, v)'
    <3>1. pt'[d][w] = pt[d][w]
      BY <1>9, <2>2, Zenon DEF PlaceOnly
    <3>2. CASE d = c /\ w = v
      BY <1>5, <1>6, <1>9, <3>1, <3>2, Zenon DEF Shares
    <3>3. CASE ~(d = c /\ w = v)
      <4>1. Shares(c, v, d, w)
        BY <1>1, <1>7, <1>8, <3>1, <2>2, <3>3, Zenon DEF Sharing
      <4>2. fault[c] = None /\ pc[c] \in {"user", "childret"}
        BY <1>1, <1>3, EmbryoLocal, Zenon DEF Embryo
      <4>3. ~Moving(c, v, d, w)
        BY <4>2, Zenon DEF Moving
      <4>4. ~Moving(d, w, c, v)
        BY <1>2, <1>3, <1>4, <1>6, <1>13, <2>2, <4>2, Zenon DEF Moving
      <4>5. v = w /\ pt[d][w].perm \in {"cow", "ro", "share"}
        BY <4>1, <4>3, <4>4, Zenon DEF Shares
      <4> QED BY <1>9, <3>1, <4>5, Zenon DEF Shares
    <3> QED BY <3>2, <3>3, Zenon
  <2> QED BY <1>1, <1>7, <1>9, <2>1, <2>2, SharingOthers, Zenon
<1>15. OneLib'
  BY <1>1, <1>7, <1>9, OneLibKept, Zenon
<1>16. \A d \in Envs : Steady(d)
  BY <1>2, Zenon DEF Steady
<1>17. Contents(e)'
  <2>1. \A w \in Private \cup {"lib"} : w # v => pt'[e][w] = pt[e][w]
    BY <1>9, PageFacts, Zenon DEF PlaceOnly
  <2>2. Holding(e, v, mem[e][v])'
    BY <1>2, <1>8, <1>9, Zenon DEF Holding, Mapped
  <2>3. Contents(e)
    BY <1>1, Zenon DEF Local
  <2> QED BY <1>2, <1>7, <2>1, <2>2, <2>3, Zenon DEF Contents, Holding, Mapped
<1>18. Mapped(e, v)' /\ content' \in [Frames -> Values]
  BY <1>1, <1>2, <1>8, <1>9, Zenon DEF Mapped, ValueType
<1>19. Forking(e, c, k)' /\ Starting(e, c)'
  <2>1. Pagewise(c, n)'
    BY <1>5, <1>7, <1>9, <1>18, PlaceFacts, Zenon
  <2>2. k \in 1 .. Len(PageOrder) + 1 /\ k - 1 = n
    BY <1>10, OrderFacts
  <2> QED BY <1>2, <1>5, <1>12, <2>1, <2>2, Zenon DEF Forking, Starting
<1>20. Local(c)'
  BY <1>1, <1>3, <1>7, <1>9, <1>12, <1>16, EmbryoAlone, Zenon
<1> QED BY <1>2, <1>3, <1>5, <1>7, <1>9, <1>11, <1>14, <1>15, <1>16, <1>17, <1>18, <1>19,
           <1>20, ForkStep, Zenon DEF ForkPoints

(* All pages are there, and the child has the parent's upcall.             *)
LEMMA ChildUpcallInv ==
  ASSUME ChildInv, NEW e \in Envs, ChildUpcall(e)
  PROVE  ChildInv'
<1>1. /\ TableType /\ ProcType /\ ValueType /\ Sharing /\ OneLib
      /\ \A d \in Envs : Local(d) /\ Watched(d)
  BY Zenon DEF ChildInv, Local
<1>2. /\ status[e] = "run" /\ fault[e] = None /\ pc[e] = "dup" /\ pc[e] \in ForkPoints
      /\ pc' = [pc EXCEPT ![e] = "childxstack"] /\ at[e] > Len(PageOrder)
      /\ UNCHANGED <<status, handler, fault, at, child, parent, leaked, pt, content, mem, shm>>
  BY Zenon DEF ChildUpcall, Ready, Goto, ForkPoints
<1>3. PICK c \in Envs, n \in Nat :
        /\ child[e] = c /\ at[e] = n /\ c # e /\ status[c] = "building" /\ Forking(e, c, n)
  BY <1>2, Forked, Zenon
<1>4. /\ mem[c] = mem[e] /\ e \in handler /\ c \in handler /\ (e \in leaked => c \in leaked)
      /\ n \in 1 .. Len(PageOrder) + 1 /\ Pagewise(c, n - 1)
  BY <1>2, <1>3, Zenon DEF Forking
<1>5. Complete(c)
  <2>1. n - 1 = Len(PageOrder)
    BY <1>2, <1>3, <1>4, OrderFacts
  <2>2. \A w \in Private : \E j \in 1 .. Len(PageOrder) : PageOrder[j] = w
    BY OrderFacts, Zenon DEF Pages
  <2> QED BY <1>4, <2>1, <2>2, Zenon DEF Pagewise, Complete
<1>6. upcall' = upcall \cup {c}
  <2>1. e \in upcall
    BY <1>1, <1>2, <1>4, Zenon DEF Local, Handlers, Prepared
  <2> QED BY <1>3, <2>1, Zenon DEF ChildUpcall
<1>7. /\ pc'[e] = "childxstack" /\ pc'[e] \in ForkPoints /\ parent[c] = e
      /\ \A d \in Envs : child[d] # e /\ (d # e => child[d] # c)
  BY <1>1, <1>2, <1>3, Apart, FrameFacts DEF ProcType, ForkPoints
<1>8. TableType' /\ ProcType' /\ ValueType'
  BY <1>1, <1>2, <1>6, Zenon DEF TableType, ProcType, ValueType, Points, ForkPoints
<1>9. Sharing' /\ OneLib'
  BY <1>1, <1>2, StillSharing, Zenon DEF ProcType
<1>10. \A d \in Envs : Steady(d) /\ Watched(d)' /\ (d # e /\ d # c => Same(d))
  BY <1>1, <1>2, <1>6, Zenon DEF Steady, Watched, Same, ProcType
<1>11. \A d \in Envs, w \in AllPages : Mapped(d, w)' <=> Mapped(d, w)
  BY <1>2, Zenon DEF Mapped
<1>12. Forking(e, c, n)' /\ Spawning(e, c, n)' /\ Starting(e, c)'
  <2>1. Complete(c)'
    BY <1>5, <1>11, PageFacts, Zenon DEF Complete
  <2> QED BY <1>2, <1>4, <1>6, <1>7, <2>1, Zenon DEF Forking, Spawning, Starting, SpawnPoints
<1>13. Contents(e)' /\ Transit(e)'
  <2>1. Contents(e)'
    BY <1>1, <1>2, Zenon DEF Local, Contents, Holding, Mapped
  <2> QED BY <1>2, <1>7, <2>1, Idle, Zenon
<1>14. Mapped(e, "prog")' => e \in leaked
  BY <1>1, <1>2, <1>11, PageFacts, Zenon DEF Local, ProgOpen, SpawnPoints
<1>15. Local(e)'
  BY <1>1, <1>2, <1>3, <1>4, <1>6, <1>7, <1>11, <1>12, <1>13, <1>14, PageFacts, MakingLocal, Zenon
<1>16. Local(c)'
  <2>1. Embryo(c)
    BY <1>1, <1>3, EmbryoLocal, Zenon
  <2>2. Contents(c)'
    BY <1>2, <2>1, Zenon DEF Embryo, Contents, Holding, Mapped
  <2>3. Mapped(c, "prog")' => c \in leaked
    BY <1>11, <2>1, PageFacts, Zenon DEF Embryo
  <2>4. Embryo(c)'
    BY <1>1, <1>2, <1>3, <2>1, <2>2, <2>3, Zenon DEF Embryo, ProcType
  <2> QED BY <2>4, EmbryoLocal, Zenon
<1> QED BY <1>2, <1>7, <1>8, <1>9, <1>10, <1>15, <1>16, StepKeeps, Zenon

LEMMA ChildXstackInv ==
  ASSUME ChildInv, NEW e \in Envs, ChildXstack(e)
  PROVE  ChildInv'
<1>1. TableType /\ ProcType /\ ValueType /\ Sharing /\ \A d \in Envs : Local(d)
  BY Zenon DEF ChildInv, Local
<1>2. /\ status[e] = "run" /\ fault[e] = None /\ pc[e] = "childxstack" /\ pc[e] \in ForkPoints
      /\ UNCHANGED <<mem, shm>>
  BY Zenon DEF ChildXstack, Ready, ForkPoints
<1>3. CASE panic(e)
  BY <1>2, <1>3, PanicInv, Zenon
<1>4. CASE /\ sys_page_alloc(child[e], "xstack", "w") /\ Goto(e, "start")
           /\ UNCHANGED <<status, upcall, handler, fault, at, child, parent, leaked>>
  <2>1. PICK c \in Envs, n \in Nat :
          /\ child[e] = c /\ at[e] = n /\ c # e /\ status[c] = "building" /\ Forking(e, c, n)
    BY <1>2, Forked, Zenon
  <2>2. e \in handler /\ c \in upcall /\ Complete(c)
    BY <1>2, <2>1, Zenon DEF Forking
  <2>3. /\ "xstack" \in AllPages \ {"lib", "prog"} /\ "w" \in PermsOf("xstack") /\ 0 \in Values
        /\ "xstack" \notin Private
    BY PageFacts, PermFacts, ChildAssumption, Zenon
  <2>4. /\ TableType' /\ content' \in [Frames -> Values] /\ OneLib' /\ PlaceOnly(c, "xstack")
        /\ pt'[c]["xstack"].frame # None /\ pt'[c]["xstack"].perm = "w"
        /\ \A d \in Envs, w \in AllPages : pt[d][w].frame # pt'[c]["xstack"].frame
        /\ \A d \in Envs : Steady(d)
    <3>1. sys_page_alloc(c, "xstack", "w") /\ OneLib
      BY <1>4, <2>1, Zenon DEF ChildInv
    <3> QED BY <1>1, <2>3, <3>1, AllocFacts DEF sys_page_alloc, PlaceOnly
  <2>5. Onward(e, "start", n)
    BY <1>1, <1>2, <1>4, <2>1, Zenon DEF Goto, Onward, ProcType
  <2>6. pc'[e] = "start" /\ OnlyPlace(e) /\ "start" \in Points
    BY <1>1, <2>5, OnwardFacts, Zenon DEF Points
  <2>7. Sharing'
    <3>1. MovesOn
      BY <1>1, <1>2, <2>5, <2>6, OnwardMoves, Zenon
    <3>2. OnlyNew(c, "xstack")
      BY <2>4, Zenon DEF OnlyNew, PlaceOnly
    <3> QED BY <1>1, <2>3, <3>1, <3>2, SharingKept, Zenon
  <2>8. Contents(e)'
    <3>1. \A w \in Private \cup {"lib"} : pt'[e][w] = pt[e][w]
      BY <2>1, <2>4, PageFacts DEF PlaceOnly
    <3> QED BY <1>1, <1>2, <1>4, <2>4, <3>1, ContentsKept, Zenon DEF Local
  <2>9. Forking(e, c, n)' /\ Starting(e, c)'
    <3>1. Complete(c)' /\ Mapped(c, "xstack")'
      BY <2>2, <2>3, <2>4, PlaceFacts, Zenon DEF Mapped
    <3> QED BY <1>4, <2>2, <2>6, <3>1, Zenon DEF Forking, Starting, Prepared, ForkPoints
  <2>10. Local(c)'
    BY <1>1, <2>1, <2>3, <2>4, <2>6, EmbryoKept, Zenon
  <2> QED BY <1>2, <2>1, <2>2, <2>3, <2>4, <2>5, <2>7, <2>8, <2>9, <2>10, ForkStep, Zenon
<1> QED BY <1>3, <1>4, Zenon DEF ChildXstack

(* The child may run now: all its pages are there and, if it has           *)
(* copy-on-write pages, so are its upcall and its exception stack.         *)
LEMMA StartInv ==
  ASSUME ChildInv, NEW e \in Envs, Start(e)
  PROVE  ChildInv'
<1>1. /\ TableType /\ ProcType /\ ValueType /\ Sharing /\ OneLib
      /\ \A d \in Envs : Local(d) /\ Watched(d)
  BY Zenon DEF ChildInv, Local
<1>2. /\ status[e] = "run" /\ fault[e] = None /\ pc[e] = "start"
      /\ status' = [status EXCEPT ![child[e]] = "run"]
      /\ child' = [child EXCEPT ![e] = None] /\ pc' = [pc EXCEPT ![e] = "user"]
      /\ UNCHANGED <<upcall, handler, fault, at, parent, leaked, pt, content, mem, shm>>
  BY Zenon DEF Start, Ready, Becomes, Goto
<1>3. PICK c \in Envs :
        /\ child[e] = c /\ c # e /\ status[c] = "building" /\ child[c] = None
        /\ fault[c] = None /\ pc[c] \in {"user", "childret"} /\ parent[c] = e
        /\ \A d \in Envs : child[d] # e /\ (d # e => child[d] # c)
  BY <1>2, Apart
<1>4. Complete(c) /\ (c \in handler => Prepared(c))
  <2>1. Starting(e, c)
    BY <1>1, <1>2, <1>3, Making, Zenon
  <2> QED BY <1>2, <2>1, Zenon DEF Starting
<1>5. TableType' /\ ProcType' /\ ValueType'
  BY <1>1, <1>2, <1>3, Zenon DEF TableType, ProcType, ValueType, Points
<1>6. Sharing' /\ OneLib'
  <2>1. MovesOn /\ OnlyNew(e, "UTEMP") /\ "UTEMP" \in AllPages
    BY <1>1, <1>2, PageFacts DEF MovesOn, OnlyNew, Moving, ProcType
  <2>2. OneLib'
    BY <1>1, <1>2, Zenon DEF OneLib, Mapped
  <2> QED BY <1>1, <2>1, <2>2, SharingKept, Zenon
<1>7. \A d \in Envs : Steady(d) /\ (d # e /\ d # c => Same(d))
  BY <1>1, <1>2, <1>3, Zenon DEF Steady, Same, ProcType
<1>8. \A d \in Envs : Watched(d)'
  BY <1>1, <1>2, <1>3, Zenon DEF Watched, ProcType
<1>9. /\ status'[e] = "run" /\ child'[e] = None /\ pc'[e] = "user"
      /\ status'[c] = "run" /\ child'[c] = None /\ pc'[c] = pc[c]
  BY <1>1, <1>2, <1>3, Zenon DEF ProcType
<1>10. \A d \in Envs, w \in AllPages : Mapped(d, w)' <=> Mapped(d, w)
  BY <1>2, Zenon DEF Mapped
<1>11. Local(e)'
  <2>1. Contents(e)'
    BY <1>1, <1>2, <1>9, Zenon DEF Local, Contents, Mapped, Holding
  <2>2. Handlers(e)' /\ ProgOpen(e)'
    BY <1>1, <1>2, <1>9, <1>10, PageFacts, Zenon DEF Local, Handlers, Prepared, ProgOpen, SpawnPoints
  <2>3. Present(e) /\ \A w \in Private : Mapped(e, w) => Mapped(e, w)'
    BY <1>1, <1>10, PageFacts, Zenon DEF Local
  <2> QED BY <1>2, <1>9, <2>1, <2>2, <2>3, AloneLocal, Zenon DEF ForkPoints, SpawnPoints
<1>12. Local(c)'
  <2>1. Embryo(c)
    BY <1>1, <1>3, EmbryoLocal, Zenon
  <2>2. Contents(c)'
    BY <1>2, <1>3, <1>9, <2>1, Zenon DEF Embryo, Contents, Mapped, Holding
  <2>3. Family(c)' /\ Transit(c)' /\ Built(c)'
    BY <1>2, <1>3, <1>9, Zenon DEF Family, Transit, Built, ForkPoints, SpawnPoints
  <2>4. Present(c)' /\ Handlers(c)' /\ ProgOpen(c)'
    BY <1>2, <1>3, <1>4, <1>9, <1>10, <2>1, PageFacts, Zenon
       DEF Embryo, Present, Complete, Handlers, Prepared, ProgOpen
  <2> QED BY <2>2, <2>3, <2>4, Zenon DEF Local
<1> QED BY <1>2, <1>3, <1>5, <1>6, <1>7, <1>8, <1>11, <1>12, StepKeeps, Zenon

LEMMA MapFailsInv ==
  ASSUME ChildInv, NEW e \in Envs, MapFails(e)
  PROVE  ChildInv'
BY PanicInv, Zenon DEF MapFails, Ready

-----------------------------------------------------------------------------
(* All together.                                                           *)
LEMMA NextInv == ChildInv /\ [Next]_vars => ChildInv'
<1> SUFFICES ASSUME ChildInv, [Next]_vars PROVE ChildInv'
  BY Zenon
<1>1. ASSUME NEW e \in Envs, NEW v \in AllPages, NEW x \in Values, Write(e, v, x) PROVE ChildInv'
  BY <1>1, WriteInv, Zenon
<1>2. ASSUME NEW e \in Envs, NEW v \in AllPages, Faults(e, v) PROVE ChildInv'
  BY <1>2, FaultsInv, Zenon
<1>3. ASSUME NEW e \in Envs, Pgfault(e) PROVE ChildInv'
  BY <1>3, PgfaultAllocInv, PgfaultCopyInv, PgfaultMapInv, PgfaultUnmapInv, Zenon DEF Pgfault
<1>4. ASSUME NEW e \in Envs, fork(e) PROVE ChildInv'
  BY <1>4, BeginForkInv, MakeXstackInv, SetUpcallInv, SetHandlerInv, ForkExoforkInv, DuppageInv,
     RemapInv, ChildUpcallInv, ChildXstackInv, ChildReturnsInv, Zenon DEF fork
<1>5. ASSUME NEW e \in Envs, spawn(e) PROVE ChildInv'
  BY <1>5, SpawnInv, Zenon
<1>6. ASSUME NEW e \in Envs, Exit(e) \/ Start(e) \/ MapFails(e) PROVE ChildInv'
  BY <1>6, ExitInv, StartInv, MapFailsInv, Zenon
<1>7. CASE UNCHANGED vars
  <2>1. UNCHANGED <<status, upcall, handler, fault, pc, at, child, parent, leaked, pt, content, mem, shm>>
    BY <1>7, Zenon DEF vars, procVars
  <2>2. TableType' /\ ProcType' /\ ValueType' /\ Sharing' /\ OneLib'
    <3>1. TableType' /\ ProcType' /\ ValueType'
      BY <2>1, Zenon DEF ChildInv, TableType, ProcType, ValueType
    <3>2. OneLib'
      BY <2>1, Zenon DEF ChildInv, OneLib, Mapped
    <3>3. Sharing'
      <4> SUFFICES ASSUME NEW d \in Envs, NEW g \in Envs, NEW v \in AllPages, NEW w \in AllPages,
                          pt[d][v].frame \in Frames, pt[d][v].frame = pt[g][w].frame,
                          ~(d = g /\ v = w)
                   PROVE  Shares(d, v, g, w)'
        BY <2>1, Zenon DEF Sharing
      <4>1. Shares(d, v, g, w)
        BY Zenon DEF ChildInv, Sharing
      <4>2. Moving(d, v, g, w) => Moving(d, v, g, w)'
        BY <2>1 DEF Moving
      <4>3. Moving(g, w, d, v) => Moving(g, w, d, v)'
        BY <2>1 DEF Moving
      <4> QED BY <2>1, <4>1, <4>2, <4>3, Zenon DEF Shares
    <3> QED BY <3>1, <3>2, <3>3, Zenon
  <2>3. \A d \in Envs : Same(d) /\ Steady(d) /\ Watched(d)'
    BY <2>1, Zenon DEF ChildInv, Same, Steady, Watched
  <2>4. ASSUME NEW d \in Envs PROVE Local(d)'
    <3>1. TableType /\ ProcType /\ Local(d)
      BY Zenon DEF ChildInv, Local
    <3>2. child[d] # None => Same(child[d])
      BY <2>3, <3>1, Zenon DEF ProcType
    <3> QED BY <2>1, <2>3, <3>1, <3>2, Bystander, Zenon
  <2> QED BY <2>2, <2>3, <2>4, Zenon DEF ChildInv, Local
<1> QED BY <1>1, <1>2, <1>3, <1>4, <1>5, <1>6, <1>7, Zenon DEF Next

(* The bookkeeping of fork, spawn and the page fault handler is always     *)
(* consistent: which frames are shared, what the pages hold, how far a     *)
(* child is built and who can handle its faults.                           *)
THEOREM ChildInvariant == Spec => []ChildInv
<1>1. Init => ChildInv
  BY InitInv, Zenon
<1>2. ChildInv /\ [Next]_vars => ChildInv'
  BY NextInv, Zenon
<1> QED BY <1>1, <1>2, PTL DEF Spec

(* Copy-on-write fork is invisible, for any number of environments, pages  *)
(* and frames: a running environment finds in its own pages what it wrote  *)
(* or inherited, and the shared page holds what the last writer put there. *)
THEOREM ForksAreIsolated == Spec => []Isolation
<1>1. ChildInv => Isolation
  <2> SUFFICES ASSUME ChildInv PROVE Isolation
    BY Zenon
  <2>1. /\ TableType /\ ProcType /\ ValueType
        /\ \A e \in Envs : Family(e) /\ Contents(e) /\ Present(e)
    BY Zenon DEF ChildInv
  <2>2. TypeOK
    <3>1. \A e \in Envs, v \in AllPages :
            /\ pt[e][v].frame \in Frames \cup {None, FdFrame}
            /\ pt[e][v].perm \in {"none", "ro", "w", "cow", "share"}
            /\ (pt[e][v].frame = None) = (pt[e][v].perm = "none")
      BY <2>1, TableFacts, Zenon
    <3> QED BY <2>1, <3>1 DEF TypeOK, ProcType, ValueType, Family
  <2>3. \A e \in Envs, v \in Private :
          /\ status[e] = "run" => Mapped(e, v)
          /\ status[e] \in {"run", "building"} /\ Mapped(e, v) => content[pt[e][v].frame] = mem[e][v]
    BY <2>1, Zenon DEF Contents, Present, Complete, Holding
  <2>4. \A e \in Envs : Mapped(e, "lib") =>
          pt[e]["lib"].perm = "share" /\ content[pt[e]["lib"].frame] = shm
    BY <2>1, TableFacts, PageFacts DEF Contents, Holding, Mapped
  <2> QED BY <2>2, <2>3, <2>4, Zenon DEF Isolation
<1> QED BY <1>1, ChildInvariant, PTL

(* No environment is killed by a page fault that copy-on-write causes, not *)
(* even a child on its very first instruction.                             *)
THEOREM FaultsAreHandled == Spec => []NoFatalFault
<1>1. ChildInv => NoFatalFault
  BY Zenon DEF ChildInv, ProcType, Handlers, NoFatalFault
<1> QED BY <1>1, ChildInvariant, PTL

(* A spawn that returns leaves behind neither the open program file nor a  *)
(* half-made child, but for its two early returns; every other half-made   *)
(* child is the one its parent is at work on, or panicked over.            *)
THEOREM SpawnIsClean == Spec => []SpawnCleansUp
<1>1. ChildInv => SpawnCleansUp
  BY Zenon DEF ChildInv, ProgOpen, Watched, SpawnCleansUp, SpawnPoints
<1> QED BY <1>1, ChildInvariant, PTL
=============================================================================
