-------------------------- MODULE ChildSpawnProofs --------------------------
(***************************************************************************)
(* spawn, step by step, preserves the invariant of Child.                  *)
(***************************************************************************)
EXTENDS ChildFacts

-----------------------------------------------------------------------------
(* The steps between sys_exofork and the end of spawn: e goes on to p, its *)
(* index is n, and one page of its own, or one of its child c, changes.    *)
Onward(e, p, n) ==
  /\ pc' = [pc EXCEPT ![e] = p] /\ at' = [at EXCEPT ![e] = n]
  /\ UNCHANGED <<status, upcall, handler, fault, child, parent, leaked, mem, shm>>

LEMMA OnwardFacts ==
  ASSUME ProcType, NEW e \in Envs, NEW p \in Points, NEW n \in Nat, Onward(e, p, n)
  PROVE  /\ pc'[e] = p /\ at'[e] = n /\ OnlyPlace(e) /\ ProcType'
<1>1. pc'[e] = p /\ at'[e] = n
  BY Zenon DEF Onward, ProcType
<1>2. OnlyPlace(e)
  BY Zenon DEF Onward, OnlyPlace, ProcType
<1>3. ProcType'
  BY Zenon DEF Onward, ProcType
<1> QED BY <1>1, <1>2, <1>3, Zenon

(* No page that was under way is forgotten.                                *)
LEMMA OnwardMoves ==
  ASSUME ProcType, NEW e \in Envs, NEW p \in Points, NEW n \in Nat, Onward(e, p, n),
         pc[e] # "remap", fault[e] = None,
         pc[e] \in {"unmapstack", "unmapsegment"} => pt'[e]["UTEMP"].frame \notin Frames
  PROVE  MovesOn
<1>1. /\ fault' = fault /\ child' = child
      /\ \A d \in Envs : d # e => pc'[d] = pc[d] /\ at'[d] = at[d]
  BY Zenon DEF Onward, ProcType
<1> SUFFICES ASSUME NEW d \in Envs, NEW g \in Envs, NEW w \in AllPages, NEW u \in AllPages,
                    Moving(d, w, g, u), pt[d][w].frame \in Frames, pt'[d][w] = pt[d][w]
             PROVE  Moving(d, w, g, u)'
  BY Zenon DEF MovesOn
<1>2. CASE d # e
  BY <1>1, <1>2, Zenon DEF Moving
<1>3. CASE d = e
  BY <1>3, Zenon DEF Moving
<1> QED BY <1>2, <1>3, Zenon

(* What remains to be shown of such a step.                                *)
LEMMA SpawnStep ==
  ASSUME ChildInv, NEW e \in Envs, NEW c \in Envs, NEW p \in SpawnPoints \cup {"start"},
         NEW n \in Nat, NEW a \in {e, c}, NEW v \in AllPages \ {"xstack"},
         status[e] = "run", fault[e] = None, pc[e] \in SpawnPoints, child[e] = c,
         Onward(e, p, n), PlaceOnly(a, v), TableType', content' \in [Frames -> Values],
         \A d \in Envs : d # e => Steady(d),
         a = e => v \notin Private /\ pt'[e][v].perm # "cow",
         p \in {"copyshared", "start"} => ~Mapped(e, "prog")',
         Contents(e)', Transit(e)', Spawning(e, c, n)', Starting(e, c)',
         Local(c)', Sharing', OneLib'
  PROVE  ChildInv'
<1>1. ProcType /\ ValueType /\ Local(e)
  BY Zenon DEF ChildInv, Local
<1>2. c # e /\ status[c] = "building" /\ parent[c] = e
  BY Apart, FrameFacts, Zenon
<1>3. p \in Points
  BY Zenon DEF Points
<1>4. pc'[e] = p /\ at'[e] = n /\ OnlyPlace(e) /\ ProcType'
  BY <1>1, <1>3, OnwardFacts, Zenon
<1>5. ValueType'
  BY <1>1, <1>4, Zenon DEF ValueType, OnlyPlace
<1>6. /\ status' = status /\ fault'[e] = None /\ child'[e] = c /\ parent' = parent
      /\ upcall' = upcall /\ handler' = handler /\ leaked' = leaked
  BY Zenon DEF Onward
<1>7. \A w \in Private \cup {"xstack"} : Mapped(e, w) => Mapped(e, w)'
  <2>1. \A w \in Private \cup {"xstack"} : w \in AllPages /\ ~(e = a /\ w = v)
    BY <1>2, PageFacts, Zenon
  <2> QED BY <2>1, PlaceFacts, Zenon
<1>8. \A w \in AllPages : pt'[e][w].perm = "cow" => pt[e][w].perm = "cow" \/ e \in handler
  BY <1>2, Zenon DEF PlaceOnly
<1>9. Forking(e, c, n)'
  BY <1>4, Zenon DEF Forking, ForkPoints, SpawnPoints
<1>10. Local(e)'
  BY <1>1, <1>2, <1>4, <1>6, <1>7, <1>8, <1>9, MakingLocal, Zenon
<1> QED BY <1>4, <1>5, <1>10, PlaceKeeps, Zenon

(* The child of a spawn.                                                   *)
LEMMA Spawned ==
  ASSUME ChildInv, NEW e \in Envs, status[e] = "run", pc[e] \in SpawnPoints
  PROVE  \E c \in Envs, n \in Nat :
           /\ child[e] = c /\ at[e] = n /\ c # e /\ status[c] = "building"
           /\ Local(c) /\ Spawning(e, c, n)
<1>1. ProcType /\ \A d \in Envs : Local(d)
  BY Zenon DEF ChildInv, Local
<1>2. PICK c \in Envs, n \in Nat :
        child[e] = c /\ at[e] = n /\ status[c] = "building" /\ Spawning(e, c, n)
  BY <1>1, Making, Zenon
<1> QED BY <1>1, <1>2, Zenon

-----------------------------------------------------------------------------
(* Steps that change no page of the child.                                 *)

(* Its own pages other than UTEMP and the program file are as they were.   *)
LEMMA OwnStep ==
  ASSUME ChildInv, NEW e \in Envs, NEW c \in Envs, NEW p \in SpawnPoints \cup {"start"},
         NEW n \in Nat, NEW v \in {"UTEMP", "prog"},
         status[e] = "run", fault[e] = None, pc[e] \in SpawnPoints, child[e] = c,
         Onward(e, p, n), PlaceOnly(e, v), TableType', content' \in [Frames -> Values],
         \A d \in Envs : Steady(d), OnlyNew(e, v), pt'[e][v].perm # "cow",
         pc[e] \in {"unmapstack", "unmapsegment"} => pt'[e]["UTEMP"].frame \notin Frames,
         p \in {"copyshared", "start"} => ~Mapped(e, "prog")',
         Transit(e)', Spawning(e, c, n)', Starting(e, c)'
  PROVE  ChildInv'
<1>1. TableType /\ ProcType /\ Sharing /\ OneLib /\ \A d \in Envs : Local(d)
  BY Zenon DEF ChildInv, Local
<1>2. c # e /\ status[c] = "building" /\ p \in Points /\ pc[e] # "remap"
  BY Apart, FrameFacts, Zenon DEF Points, SpawnPoints
<1>3. v \in AllPages \ {"xstack"} /\ v \notin Private /\ v # "lib"
  BY PageFacts, Zenon
<1>4. OnlyPlace(e)
  BY <1>1, <1>2, OnwardFacts, Zenon
<1>5. Contents(e)'
  <2>1. \A w \in Private \cup {"lib"} : pt'[e][w] = pt[e][w]
    BY <1>3, PageFacts, Zenon DEF PlaceOnly
  <2>2. Contents(e) /\ status' = status /\ shm' = shm /\ mem' = mem
    BY <1>1, <1>4, Zenon DEF Local, OnlyPlace
  <2> QED BY <1>1, <2>1, <2>2, ContentsKept, Zenon
<1>6. Sharing' /\ OneLib'
  <2>1. MovesOn
    BY <1>1, <1>2, OnwardMoves, Zenon
  <2> QED BY <1>1, <1>3, <2>1, SharingKept, OneLibKept, Zenon
<1>7. Local(c)'
  BY <1>1, <1>2, <1>3, <1>4, EmbryoAlone, Zenon
<1> QED BY <1>3, <1>5, <1>6, <1>7, SpawnStep, Zenon

(* No page changes at all.                                                 *)
LEMMA PlainStep ==
  ASSUME ChildInv, NEW e \in Envs, NEW c \in Envs, NEW p \in SpawnPoints \cup {"start"},
         NEW n \in Nat,
         status[e] = "run", fault[e] = None, child[e] = c,
         pc[e] \in SpawnPoints \ {"unmapstack", "unmapsegment"},
         Onward(e, p, n), UNCHANGED <<pt, content>>,
         p \in {"copyshared", "start"} => pc[e] = "copyshared",
         p \notin {"mapstack", "readsegment", "mapsegment"},
         Spawning(e, c, n)', Starting(e, c)'
  PROVE  ChildInv'
<1>1. TableType /\ ProcType /\ ValueType /\ ProgOpen(e)
  BY Zenon DEF ChildInv
<1>2. TableType' /\ content' \in [Frames -> Values]
  BY <1>1, Zenon DEF TableType, ValueType
<1>3. "UTEMP" \in AllPages /\ pt'[e]["UTEMP"].perm # "cow"
  BY <1>1, TableFacts, PageFacts, Zenon
<1>4. PlaceOnly(e, "UTEMP") /\ OnlyNew(e, "UTEMP") /\ \A d \in Envs : Steady(d)
  BY Zenon DEF PlaceOnly, OnlyNew, Steady
<1>5. pc'[e] = p /\ fault'[e] = None
  BY <1>1, Zenon DEF Onward, ProcType
<1>6. Transit(e)'
  BY <1>5, Idle, Zenon
<1>7. p \in {"copyshared", "start"} => ~Mapped(e, "prog")'
  BY <1>1, Zenon DEF ProgOpen, Mapped
<1> QED BY <1>2, <1>3, <1>4, <1>6, <1>7, OwnStep, Zenon

LEMMA SetTrapframeInv ==
  ASSUME ChildInv, NEW e \in Envs, SetTrapframe(e)
  PROVE  ChildInv'
<1>1. status[e] = "run" /\ fault[e] = None /\ pc[e] = "copyshared" /\ ProcType
  BY Zenon DEF SetTrapframe, Ready, ChildInv
<1>2. PICK c \in Envs, n \in Nat : child[e] = c /\ at[e] = n /\ Spawning(e, c, n)
  BY <1>1, Spawned, Zenon DEF SpawnPoints
<1>3. Onward(e, "start", n) /\ UNCHANGED <<pt, content>>
  BY <1>1, <1>2, Zenon DEF SetTrapframe, Continues, Goto, Onward, ProcType
<1>4. pc'[e] = "start" /\ handler' = handler
  BY <1>1, <1>3, Zenon DEF Onward, ProcType
<1>5. Complete(c) /\ c \notin handler
  BY <1>1, <1>2, Zenon DEF Spawning, SpawnPoints
<1>6. Complete(c)'
  BY <1>3, <1>5, Zenon DEF Complete, Mapped
<1>7. Spawning(e, c, n)' /\ Starting(e, c)'
  BY <1>4, <1>5, <1>6, Zenon DEF Spawning, Starting, SpawnPoints
<1> QED BY <1>1, <1>2, <1>3, <1>7, PlainStep, Zenon DEF SpawnPoints

(* On to the error exit, with nothing changed yet.                         *)
LEMMA ToErrorInv ==
  ASSUME ChildInv, NEW e \in Envs, status[e] = "run", fault[e] = None,
         pc[e] \in {"segment", "readsegment"}, Continues(e, "error"),
         UNCHANGED <<pt, content, mem, shm>>
  PROVE  ChildInv'
<1>1. ProcType
  BY Zenon DEF ChildInv
<1>2. PICK c \in Envs, n \in Nat : child[e] = c /\ at[e] = n /\ Spawning(e, c, n)
  BY Spawned, Zenon DEF SpawnPoints
<1>3. Onward(e, "error", n)
  BY <1>1, <1>2, Zenon DEF Continues, Goto, Onward, ProcType
<1>4. pc'[e] = "error" /\ handler' = handler /\ mem' = mem
  BY <1>1, <1>3, Zenon DEF Onward, ProcType
<1>5. mem[c] = Image /\ c \notin handler
  BY <1>2, Zenon DEF Spawning, SpawnPoints
<1>6. Spawning(e, c, n)' /\ Starting(e, c)'
  BY <1>4, <1>5, Zenon DEF Spawning, Starting
<1> QED BY <1>2, <1>3, <1>6, PlainStep, Zenon DEF SpawnPoints

(* UTEMP is unmapped again, and the next segment is up.                    *)
LEMMA DropUtempInv ==
  ASSUME ChildInv, NEW e \in Envs, NEW c \in Envs, NEW k \in Nat, NEW n \in Nat,
         status[e] = "run", fault[e] = None, child[e] = c, Spawning(e, c, k),
         \/ pc[e] = "unmapstack" /\ n = 1
         \/ pc[e] = "unmapsegment" /\ n = k + 1,
         Map(e, "UTEMP", NoPage), Onward(e, "segment", n), UNCHANGED content
  PROVE  ChildInv'
<1>1. TableType /\ ProcType /\ ValueType /\ pc[e] \in SpawnPoints
  BY Zenon DEF ChildInv, SpawnPoints
<1>2. /\ TableType' /\ PlaceOnly(e, "UTEMP") /\ OnlyNew(e, "UTEMP")
      /\ pt'[e]["UTEMP"].perm # "cow" /\ pt'[e]["UTEMP"].frame \notin Frames
  BY <1>1, RemovedFacts, PageFacts, Zenon
<1>3. /\ pc'[e] = "segment" /\ fault'[e] = None /\ mem' = mem /\ handler' = handler
      /\ content' \in [Frames -> Values]
  BY <1>1, Zenon DEF Onward, ProcType, ValueType
<1>4. Transit(e)'
  BY <1>3, Idle, Zenon
<1>5. mem[c] = Image /\ c \notin handler /\ Mapped(c, "stack")
  BY <1>1, Zenon DEF Spawning
<1>6. n \in 1 .. Len(Segments) + 1 /\ Pagewise(c, n - 1)
  <2>1. CASE pc[e] = "unmapstack"
    BY <2>1, SegmentType DEF Pagewise
  <2>2. CASE pc[e] = "unmapsegment"
    <3>1. k \in 1 .. Len(Segments) /\ Pagewise(c, k)
      BY <1>1, <2>2, Zenon DEF Spawning
    <3>2. n - 1 = k /\ n \in 1 .. Len(Segments) + 1
      BY <2>2, <3>1, SegmentType
    <3> QED BY <3>1, <3>2, Zenon
  <2> QED BY <2>1, <2>2, Zenon
<1>7. Mapped(c, "stack")' /\ Pagewise(c, n - 1)'
  BY <1>2, <1>5, <1>6, PlaceFacts, PageFacts
<1>8. Spawning(e, c, n)' /\ Starting(e, c)'
  BY <1>3, <1>5, <1>6, <1>7, Zenon DEF Spawning, Starting
<1>9. \A d \in Envs : Steady(d)
  BY Zenon DEF Steady
<1> QED BY <1>1, <1>2, <1>3, <1>4, <1>8, <1>9, OwnStep, Zenon DEF SpawnPoints

LEMMA UnmapStackInv ==
  ASSUME ChildInv, NEW e \in Envs, UnmapStack(e)
  PROVE  ChildInv'
<1>1. /\ status[e] = "run" /\ fault[e] = None /\ pc[e] = "unmapstack" /\ ProcType
      /\ Map(e, "UTEMP", NoPage) /\ UNCHANGED content
  BY Zenon DEF UnmapStack, Ready, ChildInv
<1>2. PICK c \in Envs, n \in Nat : child[e] = c /\ at[e] = n /\ Spawning(e, c, n)
  BY <1>1, Spawned, Zenon DEF SpawnPoints
<1>3. n = 1
  BY <1>1, <1>2, Zenon DEF Spawning, SpawnPoints
<1>4. Onward(e, "segment", n)
  BY <1>1, <1>2, Zenon DEF UnmapStack, Continues, Goto, Onward, ProcType
<1> QED BY <1>1, <1>2, <1>3, <1>4, DropUtempInv, Zenon

LEMMA UnmapSegmentInv ==
  ASSUME ChildInv, NEW e \in Envs, UnmapSegment(e)
  PROVE  ChildInv'
<1>1. /\ status[e] = "run" /\ fault[e] = None /\ pc[e] = "unmapsegment"
      /\ Map(e, "UTEMP", NoPage) /\ UNCHANGED content
  BY Zenon DEF UnmapSegment, Ready, MapsRest
<1>2. PICK c \in Envs, k \in Nat : child[e] = c /\ at[e] = k /\ Spawning(e, c, k)
  BY <1>1, Spawned, Zenon DEF SpawnPoints
<1>3. PICK n \in Nat : n = k + 1
  OBVIOUS
<1>4. Onward(e, "segment", n)
  BY <1>2, <1>3, Zenon DEF UnmapSegment, NextPage, Goto, MapsRest, Onward
<1> QED BY <1>1, <1>2, <1>3, <1>4, DropUtempInv, Zenon

(* All segments are there, and the file is closed.                         *)
LEMMA CloseProgramInv ==
  ASSUME ChildInv, NEW e \in Envs, CloseProgram(e)
  PROVE  ChildInv'
<1>1. TableType /\ ProcType /\ ValueType
  BY Zenon DEF ChildInv
<1>2. /\ status[e] = "run" /\ fault[e] = None /\ pc[e] = "segment"
      /\ Map(e, "prog", NoPage) /\ Onward(e, "copyshared", 1) /\ UNCHANGED content
  BY Zenon DEF CloseProgram, Ready, MapsRest, Goto, Onward
<1>3. PICK c \in Envs, n \in Nat : child[e] = c /\ at[e] = n /\ Spawning(e, c, n)
  BY <1>2, Spawned, Zenon DEF SpawnPoints
<1>4. n > Len(Segments)
  BY <1>3, Zenon DEF CloseProgram
<1>5. /\ n \in 1 .. Len(Segments) + 1 /\ Mapped(c, "stack") /\ Pagewise(c, n - 1)
      /\ mem[c] = Image /\ c \notin handler
  BY <1>2, <1>3, Zenon DEF Spawning, SpawnPoints
<1>6. Complete(c)
  <2>1. n - 1 = Len(Segments)
    BY <1>4, <1>5, SegmentType
  <2>2. \A j \in 1 .. Len(Segments) : Mapped(c, Segments[j].page)
    BY <1>5, <2>1, OrderFacts, SegmentFacts, Zenon DEF Pagewise
  <2>3. Private = {Segments[j].page : j \in 1 .. Len(Segments)} \cup {"stack"}
    BY SegmentType, Zenon DEF Private
  <2> QED BY <1>5, <2>2, <2>3, Zenon DEF Complete
<1>7. /\ TableType' /\ PlaceOnly(e, "prog") /\ OnlyNew(e, "prog")
      /\ pt'[e]["prog"].perm # "cow" /\ ~Mapped(e, "prog")'
  BY <1>1, <1>2, RemovedFacts, PageFacts, Zenon
<1>8. /\ pc'[e] = "copyshared" /\ fault'[e] = None /\ mem' = mem /\ handler' = handler
      /\ content' \in [Frames -> Values]
  BY <1>1, <1>2, Zenon DEF Onward, ProcType, ValueType
<1>9. Complete(c)' /\ Mapped(c, "stack")'
  BY <1>5, <1>6, <1>7, PlaceFacts, PageFacts, Zenon
<1>10. Spawning(e, c, 1)' /\ Starting(e, c)'
  BY <1>5, <1>8, <1>9 DEF Spawning, Starting
<1>11. Transit(e)'
  BY <1>8, Idle, Zenon
<1>12. \A d \in Envs : Steady(d)
  BY <1>2, Zenon DEF Steady
<1> QED BY <1>2, <1>3, <1>7, <1>8, <1>10, <1>11, <1>12, OwnStep, Zenon DEF SpawnPoints

(* The spawning environment has a new page at UTEMP.                       *)
LEMMA UtempInv ==
  ASSUME ChildInv, NEW e \in Envs, NEW c \in Envs, NEW n \in Nat,
         status[e] = "run", fault[e] = None, child[e] = c, Spawning(e, c, n),
         NEW p \in {"mapstack", "readsegment"}, NEW x \in Values,
         p = "mapstack" => pc[e] = "initstack" /\ x = Image["stack"],
         p = "readsegment" => pc[e] = "segment" /\ n <= Len(Segments),
         Free # {}, Map(e, "UTEMP", Page(page_alloc, "w")), Fill(page_alloc, x),
         Onward(e, p, n)
  PROVE  ChildInv'
<1>1. TableType /\ ProcType /\ ValueType /\ pc[e] \in SpawnPoints
  BY Zenon DEF ChildInv, SpawnPoints
<1>2. "UTEMP" \in AllPages \ {"lib", "prog"} /\ "w" \in PermsOf("UTEMP")
  BY PageFacts, PermFacts, Zenon
<1>3. /\ TableType' /\ content' \in [Frames -> Values]
      /\ PlaceOnly(e, "UTEMP") /\ \A d \in Envs : Steady(d)
      /\ pt'[e]["UTEMP"].frame # None /\ pt'[e]["UTEMP"].perm = "w"
      /\ content'[pt'[e]["UTEMP"].frame] = x
      /\ \A d \in Envs, w \in AllPages : pt[d][w].frame # pt'[e]["UTEMP"].frame
  BY <1>1, <1>2, AllocFacts DEF PlaceOnly
<1>4. OnlyNew(e, "UTEMP")
  BY <1>3, Zenon DEF OnlyNew, PlaceOnly
<1>5. pc'[e] = p /\ at'[e] = n /\ fault'[e] = None /\ mem' = mem /\ handler' = handler
  BY <1>1, Zenon DEF Onward, ProcType
<1>6. Transit(e)'
  <2>1. Mapped(e, "UTEMP")' /\ Holding(e, "UTEMP", x)'
    BY <1>3, Zenon DEF Mapped, Holding
  <2> QED BY <1>5, <2>1, Zenon DEF Transit
<1>7. mem[c] = Image /\ c \notin handler
  BY <1>1, Zenon DEF Spawning
<1>8. Spawning(e, c, n)'
  <2>1. CASE p = "mapstack"
    <3>1. n = 1
      BY <1>1, <2>1, Zenon DEF Spawning
    <3> QED BY <1>5, <1>7, <2>1, <3>1, Zenon DEF Spawning
  <2>2. CASE p = "readsegment"
    <3>1. n \in 1 .. Len(Segments) + 1 /\ Mapped(c, "stack") /\ Pagewise(c, n - 1)
      BY <1>1, <2>2, Zenon DEF Spawning
    <3>2. n \in 1 .. Len(Segments)
      BY <2>2, <3>1, SegmentType
    <3>3. c # e
      BY Apart, FrameFacts, Zenon
    <3>4. Mapped(c, "stack")' /\ Pagewise(c, n - 1)'
      BY <1>2, <1>3, <3>1, <3>3, PlaceFacts, PageFacts, Zenon
    <3> QED BY <1>5, <1>7, <2>2, <3>2, <3>4, Zenon DEF Spawning
  <2> QED BY <2>1, <2>2, Zenon
<1>9. Starting(e, c)'
  BY <1>5, Zenon DEF Starting
<1> QED BY <1>1, <1>3, <1>4, <1>5, <1>6, <1>8, <1>9, OwnStep, Zenon DEF SpawnPoints

(* Reading the file changes the page at UTEMP, which nobody else has.      *)
LEMMA ReadSegmentInv ==
  ASSUME ChildInv, NEW e \in Envs, ReadSegment(e)
  PROVE  ChildInv'
<1>1. TableType /\ ProcType /\ ValueType /\ Sharing /\ OneLib /\ \A d \in Envs : Local(d)
  BY Zenon DEF ChildInv, Local
<1>2. status[e] = "run" /\ fault[e] = None /\ pc[e] = "readsegment" /\ UNCHANGED <<pt, mem, shm>>
  BY Zenon DEF ReadSegment, Ready
<1>3. CASE Continues(e, "error") /\ UNCHANGED content
  BY <1>2, <1>3, ToErrorInv, Zenon
<1>4. CASE Fill(pt[e]["UTEMP"].frame, Image[Segments[at[e]].page]) /\ Continues(e, "mapsegment")
  <2>1. PICK c \in Envs, n \in Nat :
          /\ child[e] = c /\ at[e] = n /\ c # e /\ status[c] = "building"
          /\ Spawning(e, c, n)
    BY <1>2, Spawned, Zenon DEF SpawnPoints
  <2>2. /\ n \in 1 .. Len(Segments) /\ mem[c] = Image /\ c \notin handler
        /\ Mapped(c, "stack") /\ Pagewise(c, n - 1)
    BY <1>2, <2>1, Zenon DEF Spawning, SpawnPoints
  <2>3. PICK x \in Values : x = Image[Segments[n].page]
    BY <2>2, SegmentFacts, ChildAssumption, Zenon
  <2>4. PICK f \in Frames :
          /\ f = pt[e]["UTEMP"].frame
          /\ \A d \in Envs, w \in AllPages : pt[d][w].frame = f => d = e /\ w = "UTEMP"
    <3>1. Mapped(e, "UTEMP")
      BY <1>1, <1>2, Zenon DEF Local, Transit
    <3> QED BY <1>2, <3>1, TempExclusive, Zenon
  <2>5. /\ content' \in [Frames -> Values]
        /\ \A g \in Frames : content'[g] = IF g = f THEN x ELSE content[g]
    <3>1. Fill(f, x)
      BY <1>4, <2>1, <2>3, <2>4, Zenon
    <3> QED BY <1>1, <3>1, FillFacts, Zenon DEF ValueType
  <2>6. Onward(e, "mapsegment", n)
    BY <1>1, <1>2, <1>4, <2>1, Zenon DEF Continues, Goto, Onward, ProcType
  <2>7. /\ pc'[e] = "mapsegment" /\ at'[e] = n /\ fault'[e] = None
        /\ mem' = mem /\ handler' = handler /\ status' = status
    BY <1>1, <1>2, <2>6, Zenon DEF Onward, ProcType
  <2>8. "UTEMP" \in AllPages \ {"xstack"} /\ "UTEMP" \notin Private \cup {"lib"}
    BY PageFacts, Zenon
  <2>9. TableType' /\ PlaceOnly(e, "UTEMP") /\ OnlyNew(e, "UTEMP")
    BY <1>1, <1>2, Zenon DEF TableType, PlaceOnly, OnlyNew
  <2>10. \A d \in Envs : d # e => Steady(d)
    BY <2>4, <2>5, Zenon DEF Steady
  <2>11. pt'[e]["UTEMP"].perm # "cow"
    BY <1>1, <1>2, <2>8, TableFacts, Zenon
  <2>12. Contents(e)'
    <3>1. \A w \in Private \cup {"lib"} :
            pt[e][w].frame # None => content'[pt[e][w].frame] = content[pt[e][w].frame]
      BY <1>1, <2>4, <2>5, <2>8, PageFacts, TableFacts
    <3>2. Contents(e)
      BY <1>1, Zenon DEF Local
    <3> QED BY <1>2, <2>7, <3>1, <3>2, Zenon DEF Contents, Holding, Mapped
  <2>13. Transit(e)'
    <3>1. Holding(e, "UTEMP", Image[Segments[n].page])'
      BY <1>2, <2>3, <2>4, <2>5, FrameFacts, Zenon DEF Holding, Mapped
    <3> QED BY <2>7, <3>1, Zenon DEF Transit
  <2>14. Spawning(e, c, n)' /\ Starting(e, c)'
    <3>1. Mapped(c, "stack")' /\ Pagewise(c, n - 1)'
      BY <1>2, <2>2, Zenon DEF Mapped, Pagewise
    <3> QED BY <2>2, <2>7, <3>1, Zenon DEF Spawning, Starting
  <2>15. Local(c)'
    <3>1. OnlyPlace(e)
      BY <1>1, <2>6, OnwardFacts, Zenon DEF Points, SpawnPoints
    <3> QED BY <1>1, <2>1, <2>8, <2>9, <2>10, <3>1, EmbryoAlone, Zenon
  <2>16. Sharing' /\ OneLib'
    <3>1. MovesOn
      BY <1>1, <1>2, <2>6, OnwardMoves, Zenon DEF Points, SpawnPoints
    <3> QED BY <1>1, <2>8, <2>9, <3>1, SharingKept, OneLibKept, Zenon
  <2> QED BY <1>2, <2>1, <2>5, <2>6, <2>8, <2>9, <2>10, <2>11, <2>12, <2>13, <2>14,
             <2>15, <2>16, SpawnStep, Zenon DEF SpawnPoints
<1> QED BY <1>3, <1>4, Zenon DEF ReadSegment

-----------------------------------------------------------------------------
(* Steps that give the child a page.                                       *)
LEMMA ChildStep ==
  ASSUME ChildInv, NEW e \in Envs, NEW c \in Envs, NEW p \in SpawnPoints, NEW n \in Nat,
         NEW v \in Private \cup {"lib"},
         status[e] = "run", fault[e] = None, pc[e] \in SpawnPoints, child[e] = c,
         Onward(e, p, n), PlaceOnly(c, v), TableType', content' \in [Frames -> Values],
         \A d \in Envs : Steady(d), pt'[c][v].perm # "cow",
         v \in Private => Holding(c, v, mem[c][v])',
         v = "lib" => Holding(c, "lib", shm)',
         p = "copyshared" => pc[e] = "copyshared",
         p \notin {"mapstack", "readsegment", "mapsegment"},
         Spawning(e, c, n)', Sharing', OneLib'
  PROVE  ChildInv'
<1>1. TableType /\ ProcType /\ \A d \in Envs : Local(d)
  BY Zenon DEF ChildInv, Local
<1>2. c # e /\ status[c] = "building" /\ p \in Points
  BY Apart, FrameFacts, Zenon DEF Points
<1>3. v \in AllPages \ {"xstack"} /\ v # "prog"
  BY PageFacts, Zenon
<1>4. OnlyPlace(e) /\ pc'[e] = p /\ fault'[e] = None
  BY <1>1, <1>2, OnwardFacts, Zenon DEF Onward
<1>5. Contents(e)'
  <2>1. \A w \in Private \cup {"lib"} : pt'[e][w] = pt[e][w]
    BY <1>2, PageFacts, Zenon DEF PlaceOnly
  <2>2. Contents(e) /\ status' = status /\ shm' = shm /\ mem' = mem
    BY <1>1, <1>4, Zenon DEF Local, OnlyPlace
  <2> QED BY <1>1, <2>1, <2>2, ContentsKept, Zenon
<1>6. Transit(e)'
  BY <1>4, Idle, Zenon
<1>7. Starting(e, c)'
  BY <1>4, Zenon DEF Starting, SpawnPoints
<1>8. Local(c)'
  BY <1>1, <1>2, <1>3, <1>4, EmbryoKept, Zenon
<1>9. p \in {"copyshared", "start"} => ~Mapped(e, "prog")'
  <2>1. Mapped(e, "prog")' <=> Mapped(e, "prog")
    BY <1>2, <1>3, PlaceFacts, PageFacts, Zenon
  <2>2. pc[e] = "copyshared" => ~Mapped(e, "prog")
    BY <1>1, Zenon DEF Local, ProgOpen
  <2> QED BY <2>1, <2>2, Zenon DEF SpawnPoints
<1> QED BY <1>2, <1>3, <1>5, <1>6, <1>7, <1>8, <1>9, SpawnStep, Zenon

(* The page at UTEMP becomes a page of the child.                          *)
LEMMA GiveInv ==
  ASSUME ChildInv, NEW e \in Envs, NEW c \in Envs, NEW n \in Nat,
         status[e] = "run", fault[e] = None, child[e] = c, Spawning(e, c, n), at[e] = n,
         NEW q \in {"unmapstack", "unmapsegment"}, NEW v \in Private, NEW p \in PermsOf(v) \ {"cow"},
         q = "unmapstack" => pc[e] = "mapstack" /\ v = "stack",
         q = "unmapsegment" => pc[e] = "mapsegment" /\ v = Segments[n].page,
         Map(c, v, Page(pt[e]["UTEMP"].frame, p)), Onward(e, q, n), UNCHANGED content
  PROVE  ChildInv'
<1>1. TableType /\ ProcType /\ ValueType /\ Sharing /\ OneLib /\ Transit(e)
  BY Zenon DEF ChildInv
<1>2. c # e /\ pc[e] \in SpawnPoints /\ q \in Points /\ mem[c] = Image /\ c \notin handler
  BY Apart, FrameFacts, Zenon DEF Points, SpawnPoints, Spawning
<1>3. v \in AllPages /\ v # "prog" /\ v # "lib" /\ "UTEMP" \in AllPages
  BY PageFacts, Zenon
<1>4. PICK f \in Frames :
        /\ f = pt[e]["UTEMP"].frame /\ content[f] = mem[c][v] /\ f # None
        /\ \A d \in Envs, w \in AllPages : pt[d][w].frame = f => d = e /\ w = "UTEMP"
  <2>1. Holding(e, "UTEMP", mem[c][v])
    BY <1>1, <1>2, Zenon DEF Transit
  <2>2. Mapped(e, "UTEMP")
    BY <2>1, Zenon DEF Holding
  <2> QED BY <2>1, <2>2, TempExclusive, Zenon DEF Holding, Mapped
<1>5. /\ TableType' /\ PlaceOnly(c, v) /\ pt'[c][v].frame = f /\ pt'[c][v].perm = p
  <2>1. Map(c, v, Page(f, p))
    BY <1>4, Zenon
  <2>2. Page(f, p) \in EntriesOf(v) /\ Page(f, p).frame = f /\ Page(f, p).perm = p
    BY <1>3, PageEntry, Zenon
  <2>3. /\ TableType'
        /\ \A d \in Envs, w \in AllPages :
             pt'[d][w] = IF d = c /\ w = v THEN Page(f, p) ELSE pt[d][w]
    BY <1>1, <1>3, <2>1, <2>2, MapFacts
  <2> QED BY <1>3, <2>2, <2>3, Zenon DEF PlaceOnly
<1>6. /\ pc'[e] = q /\ at'[e] = n /\ child'[e] = c /\ mem' = mem /\ handler' = handler
      /\ content' \in [Frames -> Values]
  BY <1>1, Zenon DEF Onward, ProcType, ValueType
<1>7. Sharing' /\ OneLib'
  <2>1. MovesOn
    BY <1>1, <1>2, OnwardMoves, Zenon
  <2>2. Moving(e, "UTEMP", c, v)'
    BY <1>6, Zenon DEF Moving
  <2>3. ASSUME NEW d \in Envs, NEW w \in AllPages, ~(d = c /\ w = v), pt'[d][w].frame = f
        PROVE  Shares(d, w, c, v)'
    <3>1. d = e /\ w = "UTEMP"
      BY <1>4, <1>5, <2>3 DEF PlaceOnly
    <3> QED BY <2>2, <3>1, Zenon DEF Shares
  <2> QED BY <1>1, <1>3, <1>5, <2>1, <2>3, SharingPlace, OneLibKept, Zenon
<1>8. Holding(c, v, mem[c][v])' /\ Mapped(c, v)'
  BY <1>4, <1>5, <1>6, Zenon DEF Holding, Mapped
<1>9. Spawning(e, c, n)'
  <2>1. CASE q = "unmapstack"
    <3>1. n = 1
      BY <1>2, <2>1, Zenon DEF Spawning
    <3> QED BY <1>2, <1>6, <1>8, <2>1, <3>1, Zenon DEF Spawning
  <2>2. CASE q = "unmapsegment"
    <3>1. n \in 1 .. Len(Segments) /\ Mapped(c, "stack") /\ Pagewise(c, n - 1)
      BY <1>2, <2>2, Zenon DEF Spawning
    <3>2. Mapped(c, "stack")' /\ Pagewise(c, n - 1)'
      BY <1>3, <1>5, <1>8, <3>1, PlaceFacts, PageFacts
    <3>3. PageOrder[n] = v /\ \A j \in 1 .. n : j \in 1 .. n - 1 \/ j = n
      BY <2>2, <3>1, OrderFacts
    <3>4. Pagewise(c, n)'
      BY <1>8, <3>2, <3>3, Zenon DEF Pagewise
    <3> QED BY <1>2, <1>6, <2>2, <3>1, <3>2, <3>4, Zenon DEF Spawning
  <2> QED BY <2>1, <2>2, Zenon
<1>10. \A d \in Envs : Steady(d)
  BY Zenon DEF Steady
<1> QED BY <1>2, <1>3, <1>5, <1>6, <1>7, <1>8, <1>9, <1>10, ChildStep, Zenon DEF SpawnPoints

LEMMA MapSegmentInv ==
  ASSUME ChildInv, NEW e \in Envs, MapSegment(e)
  PROVE  ChildInv'
<1>1. /\ status[e] = "run" /\ fault[e] = None /\ pc[e] = "mapsegment" /\ ProcType
      /\ Map(child[e], Segments[at[e]].page, Page(pt[e]["UTEMP"].frame, Segments[at[e]].perm))
      /\ Continues(e, "unmapsegment") /\ UNCHANGED <<content, mem, shm>>
  BY Zenon DEF MapSegment, Ready, ChildInv
<1>2. PICK c \in Envs, n \in Nat : child[e] = c /\ at[e] = n /\ Spawning(e, c, n)
  BY <1>1, Spawned, Zenon DEF SpawnPoints
<1>3. n \in 1 .. Len(Segments)
  BY <1>1, <1>2, Zenon DEF Spawning, SpawnPoints
<1>4. PICK v \in Private : v = Segments[n].page
  BY <1>3, SegmentFacts, Zenon
<1>5. PICK p \in PermsOf(v) \ {"cow"} : p = Segments[n].perm
  BY <1>3, <1>4, SegmentFacts, PermFacts
<1>6. Map(c, v, Page(pt[e]["UTEMP"].frame, p))
  BY <1>1, <1>2, <1>4, <1>5, Zenon
<1>7. Onward(e, "unmapsegment", n)
  BY <1>1, <1>2, Zenon DEF Continues, Goto, Onward, ProcType
<1> QED BY <1>1, <1>2, <1>4, <1>6, <1>7, GiveInv, Zenon

(* A segment that is not in the file is a page of zeroes of the child.     *)
LEMMA ZeroSegmentInv ==
  ASSUME ChildInv, NEW e \in Envs, NEW c \in Envs, NEW n \in 1 .. Len(Segments), NEW k \in Nat,
         status[e] = "run", fault[e] = None, pc[e] = "segment",
         child[e] = c, at[e] = n, Spawning(e, c, n), ~Segments[n].file, k = n + 1,
         sys_page_alloc(c, Segments[n].page, Segments[n].perm), Onward(e, "segment", k)
  PROVE  ChildInv'
<1>1. TableType /\ ProcType /\ ValueType /\ Sharing /\ OneLib
  BY Zenon DEF ChildInv
<1>2. /\ pc[e] \in SpawnPoints /\ Mapped(c, "stack")
      /\ Pagewise(c, n - 1) /\ mem[c] = Image /\ c \notin handler
  BY Zenon DEF Spawning, SpawnPoints
<1>3. /\ k \in 1 .. Len(Segments) + 1 /\ k - 1 = n
      /\ \A j \in 1 .. n : j \in 1 .. n - 1 \/ j = n
  BY SegmentType, OneFurther
<1>4. PICK v \in Private : v = Segments[n].page /\ PageOrder[n] = v /\ Image[v] = 0
  BY SegmentFacts, OrderFacts, Zenon
<1>5. PICK p \in PermsOf(v) \ {"cow"} : p = Segments[n].perm
  BY <1>4, SegmentFacts, PermFacts
<1>6. v \in AllPages \ {"lib", "prog"}
  BY PageFacts, Zenon
<1>7. /\ TableType' /\ content' \in [Frames -> Values] /\ OneLib' /\ PlaceOnly(c, v)
      /\ pt'[c][v].frame # None /\ pt'[c][v].perm = p /\ content'[pt'[c][v].frame] = 0
      /\ \A d \in Envs, w \in AllPages : pt[d][w].frame # pt'[c][v].frame
      /\ \A d \in Envs : Steady(d)
  <2>1. Free # {} /\ Map(c, v, Page(page_alloc, p)) /\ Fill(page_alloc, 0) /\ 0 \in Values
    BY <1>4, <1>5, ChildAssumption, Zenon DEF sys_page_alloc
  <2> QED BY <1>1, <1>6, <2>1, AllocFacts DEF PlaceOnly
<1>9. pc'[e] = "segment" /\ mem' = mem /\ handler' = handler
  BY <1>1, Zenon DEF Onward, ProcType
<1>10. Sharing'
  <2>1. MovesOn
    BY <1>1, <1>9, OnwardMoves, Zenon DEF Points, SpawnPoints
  <2>2. OnlyNew(c, v)
    BY <1>7, Zenon DEF OnlyNew, PlaceOnly
  <2> QED BY <1>1, <1>6, <2>1, <2>2, SharingKept, Zenon
<1>11. Mapped(c, v)' /\ Holding(c, v, mem[c][v])'
  BY <1>2, <1>4, <1>7, <1>9, Zenon DEF Mapped, Holding
<1>12. Spawning(e, c, k)'
  <2>1. Pagewise(c, n - 1)'
    BY <1>2, <1>6, <1>7, <1>11, PlaceFacts, Zenon
  <2>2. Mapped(c, "stack")'
    <3>1. "stack" \in AllPages
      BY PageFacts, Zenon
    <3> QED BY <1>2, <1>6, <1>7, <1>11, <3>1, PlaceFacts, Zenon
  <2>3. Pagewise(c, n)'
    BY <1>3, <1>4, <1>11, <2>1, Zenon DEF Pagewise
  <2> QED BY <1>2, <1>3, <1>9, <2>2, <2>3, Zenon DEF Spawning
<1> QED BY <1>2, <1>6, <1>7, <1>9, <1>10, <1>11, <1>12, ChildStep, Zenon DEF SpawnPoints

LEMMA SegmentInv ==
  ASSUME ChildInv, NEW e \in Envs, Segment(e)
  PROVE  ChildInv'
<1>1. /\ status[e] = "run" /\ fault[e] = None /\ pc[e] = "segment" /\ at[e] <= Len(Segments)
      /\ UNCHANGED <<mem, shm>> /\ ProcType
  BY Zenon DEF Segment, Ready, ChildInv
<1>2. PICK c \in Envs, n \in Nat : child[e] = c /\ at[e] = n /\ Spawning(e, c, n)
  BY <1>1, Spawned, Zenon DEF SpawnPoints
<1>3. CASE sys_page_alloc(e, "UTEMP", "w") /\ Continues(e, "readsegment")
  <2>1. Onward(e, "readsegment", n)
    BY <1>1, <1>2, <1>3, Zenon DEF Continues, Goto, Onward, ProcType
  <2> QED BY <1>1, <1>2, <1>3, <2>1, UtempInv, ChildAssumption, Zenon DEF sys_page_alloc
<1>4. CASE /\ ~Segments[at[e]].file
           /\ sys_page_alloc(child[e], Segments[at[e]].page, Segments[at[e]].perm) /\ NextPage(e)
           /\ UNCHANGED <<status, upcall, handler, fault, pc, child, parent, leaked>>
  <2>1. n \in 1 .. Len(Segments)
    BY <1>1, <1>2, SegmentType DEF Spawning, SpawnPoints
  <2>2. /\ ~Segments[n].file
        /\ sys_page_alloc(c, Segments[n].page, Segments[n].perm)
    BY <1>2, <1>4, Zenon
  <2>3. PICK k \in Nat : k = n + 1
    BY <1>2
  <2>4. Onward(e, "segment", k)
    BY <1>1, <1>2, <1>4, <2>3, Zenon DEF NextPage, Onward, ProcType
  <2> QED BY <1>1, <1>2, <2>1, <2>2, <2>3, <2>4, ZeroSegmentInv, Zenon
<1>5. CASE Continues(e, "error") /\ UNCHANGED <<pt, content>>
  BY <1>1, <1>5, ToErrorInv, Zenon
<1>6. CASE panic(e)
  BY <1>1, <1>6, PanicInv, Zenon
<1> QED BY <1>3, <1>4, <1>5, <1>6, Zenon DEF Segment

(* copy_shared_pages: the child gets the shared page, and only that one.   *)
LEMMA CopySharedInv ==
  ASSUME ChildInv, NEW e \in Envs, CopyShared(e)
  PROVE  ChildInv'
<1>1. /\ TableType /\ ProcType /\ ValueType /\ Sharing /\ OneLib /\ Contents(e) /\ ProgOpen(e)
  BY Zenon DEF ChildInv
<1>2. /\ status[e] = "run" /\ fault[e] = None /\ pc[e] = "copyshared"
      /\ UNCHANGED <<status, upcall, handler, fault, pc, child, parent, leaked, content, mem, shm>>
  BY Zenon DEF CopyShared, Ready, MapsRest
<1>3. PICK c \in Envs, n \in Nat :
        child[e] = c /\ at[e] = n /\ c # e /\ Spawning(e, c, n)
  BY <1>2, Spawned, Zenon DEF SpawnPoints
<1>4. /\ n # 0 /\ Complete(c) /\ Mapped(c, "stack") /\ mem[c] = Image /\ c \notin handler
  BY <1>2, <1>3, Zenon DEF Spawning, SpawnPoints
<1>5. n \in 1 .. Len(PageOrder)
  <2>1. at[e] <= Len(PageOrder)
    BY Zenon DEF CopyShared
  <2> QED BY <1>3, <1>4, <2>1, OrderFacts
<1>6. PICK k \in Nat : k = n + 1 /\ k # 0
  OBVIOUS
<1>7. Onward(e, "copyshared", k)
  BY <1>1, <1>2, <1>3, <1>6, Zenon DEF CopyShared, NextPage, Onward, ProcType
<1>8. /\ pc'[e] = "copyshared" /\ fault'[e] = None /\ mem' = mem /\ handler' = handler
      /\ content' \in [Frames -> Values]
  BY <1>1, <1>2, Zenon DEF ValueType
<1>9. ASSUME Complete(c)', Mapped(c, "stack")' PROVE Spawning(e, c, k)' /\ Starting(e, c)'
  BY <1>4, <1>6, <1>8, <1>9, Zenon DEF Spawning, Starting
<1>10. CASE UNCHANGED pt
  <2>1. Complete(c)' /\ Mapped(c, "stack")'
    BY <1>4, <1>10, Zenon DEF Complete, Mapped
  <2> QED BY <1>2, <1>3, <1>7, <1>9, <1>10, <2>1, PlainStep, Zenon DEF SpawnPoints
<1>11. ASSUME NEW v \in AllPages, pt[e][v].perm = "share", Map(c, v, pt[e][v])
       PROVE  ChildInv'
  <2>1. v = "lib" /\ "lib" \in AllPages /\ "lib" \notin Private
    <3>1. pt[e]["prog"].perm = "none"
      BY <1>1, <1>2, TableFacts, PageFacts, Zenon DEF ProgOpen, Mapped
    <3> QED BY <1>1, <1>11, <3>1, TableFacts, PageFacts, Zenon
  <2>2. PICK f \in Frames : f = pt[e]["lib"].frame /\ f # None /\ content[f] = shm
    <3>1. pt[e]["lib"].frame \in Frames /\ pt[e]["lib"].frame # None
      BY <1>1, <1>11, <2>1, TableFacts, Zenon
    <3> QED BY <1>1, <3>1, Zenon DEF Contents, Holding, Mapped
  <2>3. /\ TableType' /\ PlaceOnly(c, "lib") /\ pt'[c]["lib"] = pt[e]["lib"]
        /\ pt'[e]["lib"] = pt[e]["lib"]
    <3>1. Map(c, "lib", pt[e]["lib"]) /\ pt[e]["lib"] \in EntriesOf("lib")
      BY <1>1, <1>11, <2>1, Zenon DEF TableType
    <3> QED BY <1>1, <1>3, <2>1, <3>1, MapFacts DEF PlaceOnly
  <2>4. OneLib'
    <3>1. \A d \in Envs : pt'[d]["lib"].frame = f \/ pt'[d]["lib"].frame = None
      BY <1>1, <1>3, <2>1, <2>2, <2>3 DEF OneLib, Mapped, PlaceOnly
    <3> QED BY <3>1, Zenon DEF OneLib, Mapped
  <2>5. Sharing'
    <3>1. MovesOn
      BY <1>1, <1>2, <1>7, OnwardMoves, Zenon DEF Points, SpawnPoints
    <3>2. \A d \in Envs, w \in AllPages : ~Moving(e, "lib", d, w)
      BY <1>2, Zenon DEF Moving
    <3>3. ASSUME NEW d \in Envs, NEW w \in AllPages, Moving(d, w, e, "lib") PROVE FALSE
      BY <1>2, <3>3, Apart DEF Moving
    <3>4. ASSUME NEW d \in Envs, NEW w \in AllPages, ~(d = c /\ w = "lib"),
                 pt'[d][w].frame = pt'[c]["lib"].frame
          PROVE  Shares(d, w, c, "lib")'
      <4>1. pt'[d][w] = pt[d][w] /\ pt[d][w].frame = f
        BY <2>2, <2>3, <3>4, Zenon DEF PlaceOnly
      <4>2. w = "lib" /\ pt[d][w].perm \in {"cow", "ro", "share"}
        <5>1. CASE d = e /\ w = "lib"
          BY <1>11, <2>1, <5>1, Zenon
        <5>2. CASE ~(d = e /\ w = "lib")
          <6>1. Shares(e, "lib", d, w)
            BY <1>1, <2>1, <2>2, <4>1, <5>2, Zenon DEF Sharing
          <6> QED BY <3>2, <3>3, <6>1, Zenon DEF Shares
        <5> QED BY <5>1, <5>2, Zenon
      <4>3. pt'[d][w].perm \in {"cow", "ro", "share"} /\ pt'[c]["lib"].perm = "share"
        BY <1>11, <2>1, <2>3, <4>1, <4>2, Zenon
      <4> QED BY <4>2, <4>3, Zenon DEF Shares
    <3> QED BY <1>1, <2>1, <2>3, <3>1, <3>4, SharingPlace, Zenon
  <2>6. Complete(c)' /\ Mapped(c, "stack")'
    BY <1>4, <2>1, <2>3, PlaceFacts, PageFacts, Zenon
  <2>7. Holding(c, "lib", shm)' /\ pt'[c]["lib"].perm # "cow"
    BY <1>2, <1>11, <2>1, <2>2, <2>3, Zenon DEF Holding, Mapped
  <2>8. \A d \in Envs : Steady(d)
    BY <1>2, Zenon DEF Steady
  <2> QED BY <1>2, <1>3, <1>7, <1>8, <1>9, <2>1, <2>3, <2>4, <2>5, <2>6, <2>7, <2>8,
             ChildStep, Zenon DEF SpawnPoints
<1>12. PageOrder[n] \in AllPages
  BY <1>5, OrderFacts, Zenon DEF AllPages
<1> QED BY <1>3, <1>10, <1>11, <1>12, Zenon DEF CopyShared

-----------------------------------------------------------------------------
(* The beginning and the ends of spawn.                                    *)
LEMMA HandlersKept ==
  ASSUME NEW e \in Envs, Handlers(e), status'[e] = status[e], fault'[e] = None,
         pc'[e] \notin {"setupcall", "sethandler", "exofork"},
         upcall' = upcall, handler' = handler,
         Mapped(e, "xstack") => Mapped(e, "xstack")',
         \A w \in AllPages : pt'[e][w].perm = "cow" => pt[e][w].perm = "cow"
  PROVE  Handlers(e)'
BY Zenon DEF Handlers, Prepared

(* Before there is a child, and after.                                     *)
LEMMA ChildlessStep ==
  ASSUME ChildInv, NEW e \in Envs, NEW v \in {"prog", "UTEMP"}, NEW p \in {"user", "header", "spawnfork"},
         status[e] = "run", fault[e] = None,
         pc[e] \notin {"remap", "unmapstack", "unmapsegment"},
         PlaceOnly(e, v), TableType', pt'[e][v] = pt[e][v] \/ pt'[e][v].frame \notin Frames,
         pt'[e][v].perm = "cow" => pt[e][v].perm = "cow",
         pc' = [pc EXCEPT ![e] = p], child' = [child EXCEPT ![e] = None],
         (leaked' = leaked /\ child[e] = None) \/ leaked' = leaked \cup {e},
         UNCHANGED <<status, upcall, handler, fault, at, parent, content, mem, shm>>,
         Mapped(e, "prog")' => e \in leaked' \/ p # "user"
  PROVE  ChildInv'
<1>1. /\ TableType /\ ProcType /\ ValueType /\ Sharing /\ OneLib
      /\ \A d \in Envs : Local(d) /\ Watched(d)
  BY Zenon DEF ChildInv, Local
<1>2. v \in AllPages /\ v \notin Private \cup {"lib", "xstack"}
  BY PageFacts, Zenon
<1>3. /\ pc'[e] = p /\ child'[e] = None
      /\ \A d \in Envs : d # e => pc'[d] = pc[d] /\ child'[d] = child[d]
      /\ leaked' \subseteq Envs /\ \A d \in Envs : d \in leaked => d \in leaked'
      /\ \A d \in Envs : d # e => (d \in leaked' <=> d \in leaked)
      /\ child[e] # None => e \in leaked'
  BY <1>1, Zenon DEF ProcType
<1>4. ProcType' /\ ValueType'
  BY <1>1, <1>3, Zenon DEF ProcType, ValueType, Points
<1>5. Sharing' /\ OneLib'
  <2>1. MovesOn
    <3> SUFFICES ASSUME NEW d \in Envs, NEW g \in Envs, NEW w \in AllPages, NEW u \in AllPages,
                        Moving(d, w, g, u)
                 PROVE  Moving(d, w, g, u)'
      BY Zenon DEF MovesOn
    <3>1. CASE d # e
      BY <1>3, <3>1, Zenon DEF Moving
    <3>2. CASE d = e
      BY <3>2, Zenon DEF Moving
    <3> QED BY <3>1, <3>2, Zenon
  <2>2. OnlyNew(e, v)
    BY Zenon DEF OnlyNew, PlaceOnly
  <2> QED BY <1>1, <1>2, <2>1, <2>2, SharingKept, OneLibKept, Zenon
<1>6. \A d \in Envs : Steady(d) /\ (d # e => Same(d)) /\ child[d] # e
  <2>1. \A d \in Envs : Steady(d) /\ child[d] # e
    BY Apart DEF Steady
  <2>2. \A d \in Envs : d # e => Same(d)
    BY <1>3, Zenon DEF Same, PlaceOnly
  <2> QED BY <2>1, <2>2, Zenon
<1>7. ASSUME NEW d \in Envs PROVE Watched(d)'
  <2> SUFFICES ASSUME status[d] = "building" PROVE Watched(d)'
    BY Zenon DEF Watched
  <2>1. parent[d] \in Envs /\ status[parent[d]] \notin {"free", "building"}
        /\ \/ child[parent[d]] = d /\ status[parent[d]] \in {"run", "panic"}
           \/ parent[d] \in leaked
    BY <1>1, Zenon DEF Watched
  <2>2. child'[parent[d]] = child[parent[d]] \/ parent[d] \in leaked' \/ child[parent[d]] # d
    BY <1>3, <2>1, FrameFacts, Zenon
  <2> QED BY <1>3, <2>1, <2>2, Zenon DEF Watched
<1>8. \A w \in AllPages : w # v => pt'[e][w] = pt[e][w] /\ (Mapped(e, w)' <=> Mapped(e, w))
  BY Zenon DEF PlaceOnly, Mapped
<1>9. Contents(e)'
  <2>1. \A w \in Private \cup {"lib"} : pt'[e][w] = pt[e][w]
    BY <1>2, <1>8, PageFacts, Zenon
  <2> QED BY <1>1, <1>6, <2>1, ContentsKept, Zenon DEF Local
<1>10. Handlers(e)'
  <2>1. \A w \in AllPages : pt'[e][w].perm = "cow" => pt[e][w].perm = "cow"
    BY <1>8, Zenon
  <2>2. Mapped(e, "xstack") => Mapped(e, "xstack")'
    BY <1>2, <1>8, PageFacts, Zenon
  <2> QED BY <1>1, <1>3, <2>1, <2>2, HandlersKept, Zenon DEF Local
<1>11. ProgOpen(e)'
  BY <1>3, Zenon DEF ProgOpen
<1>12. Local(e)'
  <2>1. \A w \in Private : Mapped(e, w) => Mapped(e, w)'
    BY <1>2, <1>8, PageFacts, Zenon
  <2>2. p \notin ForkPoints \cup SpawnPoints \cup {"start"}
    BY Zenon DEF ForkPoints, SpawnPoints
  <2> QED BY <1>1, <1>3, <1>9, <1>10, <1>11, <2>1, <2>2, AloneLocal, Zenon DEF Local
<1> QED BY <1>4, <1>5, <1>6, <1>7, <1>12, StepKeeps, Zenon

(* spawn returns to its caller, with an error.                             *)
LEMMA ReturnsInv ==
  ASSUME ChildInv, NEW e \in Envs, status[e] = "run", fault[e] = None,
         pc[e] \notin {"remap", "unmapstack", "unmapsegment"},
         NEW v \in {"prog", "UTEMP"}, NEW leaks \in BOOLEAN,
         Map(e, v, NoPage) \/ (leaks /\ UNCHANGED pt), Returns(e, leaks),
         leaks \/ (v = "prog" /\ child[e] = None),
         UNCHANGED <<status, content, mem, shm>>
  PROVE  ChildInv'
<1>1. TableType /\ ProcType /\ v \in AllPages
  BY PageFacts, Zenon DEF ChildInv
<1>2. /\ TableType' /\ PlaceOnly(e, v)
      /\ pt'[e][v] = pt[e][v] \/ pt'[e][v].frame \notin Frames
      /\ pt'[e][v].perm = "cow" => pt[e][v].perm = "cow"
      /\ leaks \/ ~Mapped(e, v)'
  <2>1. CASE UNCHANGED pt /\ leaks
    BY <1>1, <2>1, Zenon DEF TableType, PlaceOnly
  <2>2. CASE Map(e, v, NoPage)
    BY <1>1, <2>2, RemovedFacts, Zenon
  <2> QED BY <2>1, <2>2, Zenon
<1>3. /\ pc' = [pc EXCEPT ![e] = "user"] /\ child' = [child EXCEPT ![e] = None]
      /\ leaked' = (IF leaks THEN leaked \cup {e} ELSE leaked)
      /\ UNCHANGED <<upcall, handler, fault, at, parent>>
  BY Zenon DEF Returns, Goto
<1>4. (leaked' = leaked /\ child[e] = None) \/ leaked' = leaked \cup {e}
  BY <1>3, Zenon
<1>5. Mapped(e, "prog")' => e \in leaked'
  BY <1>2, <1>3, Zenon
<1> QED BY <1>2, <1>3, <1>4, <1>5, ChildlessStep, Zenon

LEMMA SpawnOpenInv ==
  ASSUME ChildInv, NEW e \in Envs, SpawnOpen(e)
  PROVE  ChildInv'
<1>1. TableType /\ ProcType
  BY Zenon DEF ChildInv
<1>2. /\ status[e] = "run" /\ fault[e] = None /\ pc[e] = "user"
      /\ Map(e, "prog", Page(FdFrame, "share")) /\ pc' = [pc EXCEPT ![e] = "header"]
      /\ UNCHANGED <<status, upcall, handler, fault, at, child, parent, leaked, content, mem, shm>>
  BY Zenon DEF SpawnOpen, Ready, Continues, Goto
<1>3. /\ TableType' /\ pt'[e]["prog"].frame \notin Frames /\ pt'[e]["prog"].perm = "share"
      /\ PlaceOnly(e, "prog")
  <2>1. /\ "prog" \in AllPages /\ Page(FdFrame, "share") \in EntriesOf("prog")
        /\ Page(FdFrame, "share").frame = FdFrame /\ Page(FdFrame, "share").perm = "share"
    BY PageFacts, PageEntry, Zenon
  <2> QED BY <1>1, <1>2, <2>1, MapFacts, FrameFacts DEF PlaceOnly
<1>4. child[e] = None /\ child' = [child EXCEPT ![e] = None]
  BY <1>1, <1>2, Apart DEF ProcType, ForkPoints, SpawnPoints
<1> QED BY <1>2, <1>3, <1>4, ChildlessStep, Zenon

LEMMA SpawnHeaderInv ==
  ASSUME ChildInv, NEW e \in Envs, SpawnHeader(e)
  PROVE  ChildInv'
<1>1. TableType /\ ProcType
  BY Zenon DEF ChildInv
<1>2. /\ status[e] = "run" /\ fault[e] = None /\ pc[e] = "header"
      /\ UNCHANGED <<content, mem, shm>>
  BY Zenon DEF SpawnHeader, Ready
<1>3. child[e] = None
  BY <1>2, Apart, Zenon DEF ForkPoints, SpawnPoints
<1>4. CASE Continues(e, "spawnfork") /\ UNCHANGED pt
  <2>1. /\ pc' = [pc EXCEPT ![e] = "spawnfork"] /\ child' = [child EXCEPT ![e] = None]
        /\ UNCHANGED <<status, upcall, handler, fault, at, parent, leaked>>
    BY <1>1, <1>3, <1>4, Zenon DEF Continues, Goto, ProcType
  <2>2. TableType' /\ PlaceOnly(e, "prog")
    BY <1>1, <1>4, Zenon DEF TableType, PlaceOnly
  <2> QED BY <1>2, <1>3, <1>4, <2>1, <2>2, ChildlessStep, Zenon
<1>5. CASE Map(e, "prog", NoPage) /\ Returns(e, FALSE) /\ UNCHANGED status
  BY <1>2, <1>3, <1>5, ReturnsInv, Zenon
<1> QED BY <1>4, <1>5, Zenon DEF SpawnHeader

LEMMA SpawnExoforkInv ==
  ASSUME ChildInv, NEW e \in Envs, SpawnExofork(e)
  PROVE  ChildInv'
<1>1. status[e] = "run" /\ fault[e] = None /\ pc[e] = "spawnfork"
  BY Zenon DEF SpawnExofork, Ready
<1>2. CASE Returns(e, TRUE) /\ UNCHANGED <<status, pt, content, mem, shm>>
  BY <1>1, <1>2, ReturnsInv, Zenon
<1>3. ASSUME NEW c \in Envs, Exofork(e, c, "initstack", Image), UNCHANGED <<handler, leaked>>
      PROVE  ChildInv'
  <2>1. PICK m \in [Private -> Values] : m = Image
    BY ChildAssumption, Zenon
  <2> QED BY <1>1, <1>3, <2>1, ExoforkKeeps, Zenon
<1> QED BY <1>2, <1>3, Zenon DEF SpawnExofork

LEMMA InitStackInv ==
  ASSUME ChildInv, NEW e \in Envs, InitStack(e)
  PROVE  ChildInv'
<1>1. /\ status[e] = "run" /\ fault[e] = None /\ pc[e] = "initstack" /\ ProcType
      /\ UNCHANGED <<mem, shm>>
  BY Zenon DEF InitStack, Ready, ChildInv
<1>2. CASE Returns(e, TRUE) /\ UNCHANGED <<status, pt, content>>
  BY <1>1, <1>2, ReturnsInv, Zenon
<1>3. CASE /\ Free # {} /\ Map(e, "UTEMP", Page(page_alloc, "w"))
           /\ Fill(page_alloc, Image["stack"]) /\ Continues(e, "mapstack")
  <2>1. PICK c \in Envs, n \in Nat : child[e] = c /\ at[e] = n /\ Spawning(e, c, n)
    BY <1>1, Spawned, Zenon DEF SpawnPoints
  <2>2. PICK x \in Values : x = Image["stack"]
    BY ChildAssumption, PageFacts, Zenon
  <2>3. Onward(e, "mapstack", n) /\ Fill(page_alloc, x)
    BY <1>1, <1>3, <2>1, <2>2, Zenon DEF Continues, Goto, Onward, ProcType
  <2> QED BY <1>1, <1>3, <2>1, <2>2, <2>3, UtempInv, Zenon
<1>4. CASE panic(e)
  BY <1>1, <1>4, PanicInv, Zenon
<1> QED BY <1>2, <1>3, <1>4, Zenon DEF InitStack

LEMMA MapStackInv ==
  ASSUME ChildInv, NEW e \in Envs, MapStack(e)
  PROVE  ChildInv'
<1>1. /\ status[e] = "run" /\ fault[e] = None /\ pc[e] = "mapstack" /\ ProcType
      /\ UNCHANGED <<content, mem, shm>>
  BY Zenon DEF MapStack, Ready, ChildInv
<1>2. CASE Map(e, "UTEMP", NoPage) /\ Returns(e, TRUE) /\ UNCHANGED status
  BY <1>1, <1>2, ReturnsInv, Zenon
<1>3. CASE /\ Map(child[e], "stack", Page(pt[e]["UTEMP"].frame, "w")) /\ Continues(e, "unmapstack")
  <2>1. PICK c \in Envs, n \in Nat : child[e] = c /\ at[e] = n /\ Spawning(e, c, n)
    BY <1>1, Spawned, Zenon DEF SpawnPoints
  <2>2. "stack" \in Private /\ "w" \in PermsOf("stack") \ {"cow"}
    BY PageFacts, PermFacts, Zenon
  <2>3. Map(c, "stack", Page(pt[e]["UTEMP"].frame, "w")) /\ Onward(e, "unmapstack", n)
    BY <1>1, <1>3, <2>1, Zenon DEF Continues, Goto, Onward, ProcType
  <2> QED BY <1>1, <2>1, <2>2, <2>3, GiveInv, Zenon
<1> QED BY <1>2, <1>3, Zenon DEF MapStack

(* The way out after an error: the child has no pages any more.            *)
LEMMA SpawnErrorInv ==
  ASSUME ChildInv, NEW e \in Envs, SpawnError(e)
  PROVE  ChildInv'
<1>1. /\ TableType /\ ProcType /\ ValueType /\ Sharing /\ OneLib
      /\ \A d \in Envs : Local(d) /\ Watched(d)
  BY Zenon DEF ChildInv, Local
<1>2. /\ status[e] = "run" /\ fault[e] = None /\ pc[e] = "error"
      /\ status' = [status EXCEPT ![child[e]] = "gone"]
      /\ pc' = [pc EXCEPT ![e] = "user"] /\ child' = [child EXCEPT ![e] = None]
      /\ UNCHANGED <<upcall, handler, fault, at, parent, leaked, content, mem, shm>>
  BY Zenon DEF SpawnError, Ready, Returns, Becomes, Goto
<1>3. PICK c \in Envs :
        /\ child[e] = c /\ c # e /\ status[c] = "building" /\ child[c] = None
        /\ fault[c] = None /\ pc[c] \in {"user", "childret"} /\ parent[c] = e
        /\ \A d \in Envs : child[d] # e /\ (d # e => child[d] # c)
  BY <1>2, Apart DEF SpawnPoints
<1>4. /\ TableType'
      /\ \A d \in Envs, w \in AllPages :
           pt'[d][w] = IF d = c \/ (d = e /\ w = "prog") THEN NoPage ELSE pt[d][w]
  <2>1. pt' = [pt EXCEPT ![c] = [v \in AllPages |-> NoPage], ![e]["prog"] = NoPage]
    BY <1>3, Zenon DEF SpawnError
  <2>2. NoPage \in [frame : Frames \cup {None, FdFrame}, perm : {"none", "ro", "w", "cow", "share"}]
        /\ "prog" \in AllPages
    BY PageFacts, Zenon DEF NoPage
  <2>3. \A d \in Envs, w \in AllPages :
          pt'[d][w] = IF d = c \/ (d = e /\ w = "prog") THEN NoPage ELSE pt[d][w]
    BY <1>1, <1>3, <2>1, <2>2, Zenon DEF TableType
  <2>4. pt' \in [Envs -> [AllPages -> [frame : Frames \cup {None, FdFrame},
                                      perm : {"none", "ro", "w", "cow", "share"}]]]
    BY <1>1, <1>3, <2>1, <2>2, Zenon DEF TableType
  <2> QED BY <1>1, <2>3, <2>4, PageEntry, Zenon DEF TableType
<1>5. /\ status'[e] = "run" /\ child'[e] = None /\ pc'[e] = "user"
      /\ status'[c] = "gone" /\ child'[c] = None /\ pc'[c] = pc[c]
      /\ \A d \in Envs : d # c => status'[d] = status[d]
      /\ \A d \in Envs : d # e => child'[d] = child[d] /\ pc'[d] = pc[d]
  BY <1>1, <1>2, <1>3, Zenon DEF ProcType
<1>6. /\ NoPage.frame = None /\ NoPage.perm = "none" /\ NoPage.frame \notin Frames
      /\ \A w \in AllPages : pt'[c][w] = NoPage /\ (w # "prog" => pt'[e][w] = pt[e][w])
      /\ pt'[e]["prog"] = NoPage /\ "prog" \in AllPages
  BY <1>3, <1>4, PageEntry, FrameFacts, PageFacts
<1>7. /\ ~Mapped(e, "prog")' /\ \A w \in AllPages : ~Mapped(c, w)'
      /\ \A w \in AllPages : w # "prog" => (Mapped(e, w)' <=> Mapped(e, w))
  BY <1>6, Zenon DEF Mapped
<1>8. ProcType' /\ ValueType'
  BY <1>1, <1>2, <1>3, Zenon DEF ProcType, ValueType, Points
<1>9. OneLib'
  <2>1. \A d \in Envs : pt'[d]["lib"] = pt[d]["lib"] \/ pt'[d]["lib"].frame = None
    BY <1>4, <1>6, PageFacts
  <2> QED BY <1>1, <2>1 DEF OneLib, Mapped
<1>10. Sharing'
  <2>1. MovesOn
    <3> SUFFICES ASSUME NEW d \in Envs, NEW g \in Envs, NEW w \in AllPages, NEW u \in AllPages,
                        Moving(d, w, g, u)
                 PROVE  Moving(d, w, g, u)'
      BY Zenon DEF MovesOn
    <3>1. CASE d # e
      BY <1>2, <1>5, <3>1, Zenon DEF Moving
    <3>2. CASE d = e
      BY <1>2, <3>2, Zenon DEF Moving
    <3> QED BY <3>1, <3>2, Zenon
  <2>2. OnlyNew(e, "prog")
    BY <1>4, <1>6, Zenon DEF OnlyNew
  <2> QED BY <1>1, <1>6, <2>1, <2>2, SharingKept, Zenon
<1>11. \A d \in Envs : Steady(d) /\ (d # e /\ d # c => Same(d))
  <2>1. \A d \in Envs : Steady(d)
    BY <1>2, Zenon DEF Steady
  <2>2. \A d \in Envs : d # e /\ d # c => Same(d)
    BY <1>2, <1>4, <1>5, Zenon DEF Same
  <2> QED BY <2>1, <2>2, Zenon
<1>12. ASSUME NEW d \in Envs PROVE Watched(d)'
  <2> SUFFICES ASSUME status'[d] = "building" PROVE Watched(d)'
    BY Zenon DEF Watched
  <2>1. d # c /\ status[d] = "building"
    BY <1>5, Zenon
  <2>2. /\ parent[d] \in Envs /\ status[parent[d]] \notin {"free", "building"}
        /\ \/ child[parent[d]] = d /\ status[parent[d]] \in {"run", "panic"}
           \/ parent[d] \in leaked
    BY <1>1, <2>1, Zenon DEF Watched
  <2>3. parent[d] # c
    BY <1>3, <2>2, Zenon
  <2> QED BY <1>2, <1>3, <1>5, <2>1, <2>2, <2>3 DEF Watched
<1>13. Local(e)'
  <2>1. Contents(e)'
    <3>1. \A w \in Private \cup {"lib"} : pt'[e][w] = pt[e][w]
      BY <1>6, PageFacts, Zenon
    <3> QED BY <1>1, <1>2, <1>5, <1>11, <3>1, ContentsKept, Zenon DEF Local
  <2>2. Handlers(e)'
    <3>1. \A w \in AllPages : pt'[e][w].perm = "cow" => pt[e][w].perm = "cow"
      BY <1>6, Zenon
    <3>2. Mapped(e, "xstack") => Mapped(e, "xstack")'
      BY <1>7, PageFacts, Zenon
    <3> QED BY <1>1, <1>2, <1>5, <3>1, <3>2, HandlersKept, Zenon DEF Local
  <2>3. ProgOpen(e)'
    BY <1>5, <1>7, Zenon DEF ProgOpen
  <2>4. \A w \in Private : Mapped(e, w) => Mapped(e, w)'
    BY <1>7, PageFacts, Zenon
  <2> QED BY <1>1, <1>2, <1>5, <2>1, <2>2, <2>3, <2>4, AloneLocal, Zenon
          DEF Local, ForkPoints, SpawnPoints
<1>14. Local(c)'
  <2>1. Family(c)' /\ Transit(c)' /\ Contents(c)'
    BY <1>2, <1>3, <1>5, <1>7, PageFacts, Zenon DEF Family, Transit, Contents, ForkPoints, SpawnPoints
  <2>2. Built(c)' /\ Present(c)' /\ ProgOpen(c)'
    BY <1>3, <1>5, <1>7, PageFacts, Zenon DEF Built, Present, ProgOpen
  <2>3. Handlers(c)'
    BY <1>2, <1>3, <1>5, <1>6, Zenon DEF Handlers
  <2> QED BY <2>1, <2>2, <2>3, Zenon DEF Local
<1> QED BY <1>2, <1>3, <1>4, <1>8, <1>9, <1>10, <1>11, <1>12, <1>13, <1>14, StepKeeps, Zenon

(* spawn as a whole.                                                       *)
LEMMA SpawnInv ==
  ASSUME ChildInv, NEW e \in Envs, spawn(e)
  PROVE  ChildInv'
BY SpawnOpenInv, SpawnHeaderInv, SpawnExoforkInv, InitStackInv, MapStackInv, UnmapStackInv,
   SegmentInv, ReadSegmentInv, MapSegmentInv, UnmapSegmentInv, CloseProgramInv, CopySharedInv,
   SetTrapframeInv, SpawnErrorInv, Zenon DEF spawn
=============================================================================
