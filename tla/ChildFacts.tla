----------------------------- MODULE ChildFacts -----------------------------
(***************************************************************************)
(* What the proofs about Child rest on: its constants and page tables, the *)
(* initial states, what a step leaves of the invariant of the              *)
(* environments that it does not touch, and the steps of an environment    *)
(* outside fork and spawn: stores, page faults, exit.                      *)
(***************************************************************************)
EXTENDS Child, TLAPS

-----------------------------------------------------------------------------
(* Facts about the constants.                                              *)

LEMMA FrameFacts ==
  /\ Frames \subseteq Nat /\ None \notin Frames /\ FdFrame \notin Frames
  /\ None # FdFrame /\ None \notin Envs /\ None \notin Faulting
BY ChildAssumption DEF Frames, FdFrame

(* The kinds of pages are disjoint.                                        *)
LEMMA PageFacts ==
  /\ Stored \subseteq Private /\ "stack" \in Stored /\ Private \subseteq AllPages
  /\ {"lib", "prog", "PFTEMP", "UTEMP", "xstack"} \subseteq AllPages
  /\ {"lib", "prog", "PFTEMP", "UTEMP", "xstack"} \cap Private = {}
  /\ AllPages = Private \cup {"lib", "prog", "PFTEMP", "UTEMP", "xstack"}
<1>1. \A k \in DOMAIN Segments :
        Segments[k].page \notin {"lib", "prog", "stack", "PFTEMP", "UTEMP", "xstack"}
  BY ChildAssumption, Zenon
<1> QED BY <1>1, Zenon DEF Stored, Data, Private, Pages, AllPages

LEMMA SegmentType ==
  /\ Len(Segments) \in Nat /\ DOMAIN Segments = 1 .. Len(Segments)
  /\ \A k \in 1 .. Len(Segments) :
       Segments[k] \in [page : STRING, perm : {"ro", "w"}, file : BOOLEAN]
<1> DEFINE S == [page : STRING, perm : {"ro", "w"}, file : BOOLEAN]
<1>1. Segments \in Seq(S)
  BY ChildAssumption, Zenon
<1> HIDE DEF S
<1>2. /\ Len(Segments) \in Nat /\ DOMAIN Segments = 1 .. Len(Segments)
      /\ \A k \in 1 .. Len(Segments) : Segments[k] \in S
  BY <1>1
<1> QED BY <1>2, Zenon DEF S

(* A segment is stored into if and only if it was mapped writable.         *)
LEMMA SegmentFacts ==
  ASSUME NEW k \in 1 .. Len(Segments)
  PROVE  /\ Segments[k].page \in Private /\ Segments[k].page # "stack"
         /\ Segments[k].perm \in {"ro", "w"} /\ Segments[k].file \in BOOLEAN
         /\ Segments[k].page \in Stored <=> Segments[k].perm = "w"
         /\ ~Segments[k].file => Image[Segments[k].page] = 0
<1>1. k \in DOMAIN Segments /\ Segments[k].perm \in {"ro", "w"} /\ Segments[k].file \in BOOLEAN
  BY SegmentType, Zenon
<1>2. /\ Segments[k].page \notin {"lib", "prog", "stack", "PFTEMP", "UTEMP", "xstack"}
      /\ ~Segments[k].file => Image[Segments[k].page] = 0
      /\ \A j \in DOMAIN Segments : Segments[j].page = Segments[k].page => j = k
  BY <1>1, ChildAssumption, Zenon
<1>3. Segments[k].page \in Private
  BY <1>1, Zenon DEF Private
<1>4. Segments[k].page \in Data <=> Segments[k].perm = "w"
  BY <1>1, <1>2, Zenon DEF Data
<1> QED BY <1>1, <1>2, <1>3, <1>4, Zenon DEF Stored

LEMMA LengthOfConcat ==
  ASSUME NEW S, NEW s \in Seq(S), NEW t \in Seq(S)
  PROVE  Len(s \o t) = Len(s) + Len(t)
OBVIOUS

(* The loops over an address space meet every page of it.                  *)
LEMMA OrderFacts ==
  /\ Len(PageOrder) \in Nat /\ Len(PageOrder) = Len(Segments) + 3
  /\ Len(Segments) \in Nat /\ DOMAIN PageOrder = 1 .. Len(PageOrder)
  /\ \A k \in 1 .. Len(PageOrder) : PageOrder[k] \in Pages
  /\ \A k \in 1 .. Len(Segments) : PageOrder[k] = Segments[k].page
  /\ \A v \in Pages : \E k \in 1 .. Len(PageOrder) : PageOrder[k] = v
<1> DEFINE s == [k \in DOMAIN Segments |-> Segments[k].page]
           t == <<"lib", "prog", "stack">>
<1>1. /\ Len(Segments) \in Nat /\ DOMAIN Segments = 1 .. Len(Segments)
      /\ \A k \in 1 .. Len(Segments) : Segments[k].page \in Pages
      /\ "lib" \in Pages /\ "prog" \in Pages /\ "stack" \in Pages
  BY SegmentType, Zenon DEF Pages, Private
<1>2. s \in Seq(Pages) /\ Len(s) = Len(Segments)
  <2>1. s \in [1 .. Len(Segments) -> Pages]
    BY <1>1, Zenon
  <2> QED BY <1>1, <2>1
<1>s. \A k \in 1 .. Len(Segments) : s[k] = Segments[k].page
  BY <1>1, Zenon
<1>3. Len(t) = 3 /\ t[1] = "lib" /\ t[2] = "prog" /\ t[3] = "stack"
  BY Zenon
<1>t. t \in Seq(Pages)
  BY <1>1
<1>4. PageOrder = s \o t
  BY Zenon DEF PageOrder
<1> HIDE DEF s, t
<1>5. /\ Len(PageOrder) = Len(Segments) + 3
      /\ DOMAIN PageOrder = 1 .. Len(PageOrder)
      /\ \A k \in 1 .. Len(PageOrder) :
           PageOrder[k] = IF k <= Len(s) THEN s[k] ELSE t[k - Len(s)]
  <2>1. /\ PageOrder \in Seq(Pages) /\ Len(PageOrder) = Len(s) + Len(t)
        /\ \A k \in 1 .. Len(s) + Len(t) :
             PageOrder[k] = IF k <= Len(s) THEN s[k] ELSE t[k - Len(s)]
    <3>1. PageOrder \in Seq(Pages)
      BY <1>2, <1>t, <1>4
    <3>2. Len(PageOrder) = Len(s) + Len(t)
      BY <1>2, <1>t, <1>4, LengthOfConcat, Zenon
    <3>3. ASSUME NEW k \in 1 .. Len(s) + Len(t)
          PROVE  PageOrder[k] = IF k <= Len(s) THEN s[k] ELSE t[k - Len(s)]
      BY <1>2, <1>t, <1>4
    <3> QED BY <3>1, <3>2, <3>3, Zenon
  <2> QED BY <1>2, <1>3, <2>1
<1>6. \A k \in 1 .. Len(Segments) : PageOrder[k] = Segments[k].page
  BY <1>1, <1>2, <1>s, <1>5
<1>7. /\ PageOrder[Len(Segments) + 1] = "lib"
      /\ PageOrder[Len(Segments) + 2] = "prog"
      /\ PageOrder[Len(Segments) + 3] = "stack"
  BY <1>1, <1>2, <1>3, <1>5
<1>8. \A k \in 1 .. Len(PageOrder) :
        \/ k \in 1 .. Len(Segments)
        \/ k = Len(Segments) + 1 \/ k = Len(Segments) + 2 \/ k = Len(Segments) + 3
  <2> SUFFICES ASSUME NEW k \in 1 .. Len(PageOrder), k \notin 1 .. Len(Segments)
               PROVE  k = Len(Segments) + 1 \/ k = Len(Segments) + 2 \/ k = Len(Segments) + 3
    BY Zenon
  <2>1. k \in Int /\ k > Len(Segments) /\ k <= Len(Segments) + 3
    BY <1>1, <1>5
  <2> QED BY <1>1, <2>1
<1>9. /\ Len(Segments) + 1 \in 1 .. Len(PageOrder)
      /\ Len(Segments) + 2 \in 1 .. Len(PageOrder)
      /\ Len(Segments) + 3 \in 1 .. Len(PageOrder)
      /\ 1 .. Len(Segments) \subseteq 1 .. Len(PageOrder)
      /\ Len(PageOrder) \in Nat
  BY <1>1, <1>5
<1>10. Pages = {Segments[k].page : k \in 1 .. Len(Segments)} \cup {"lib", "prog", "stack"}
  BY <1>1, Zenon DEF Pages, Private
<1>11. \A k \in 1 .. Len(PageOrder) : PageOrder[k] \in Pages
  BY <1>6, <1>7, <1>8, <1>10, Zenon
<1>12. ASSUME NEW v \in Pages PROVE \E k \in 1 .. Len(PageOrder) : PageOrder[k] = v
  <2>1. CASE \E k \in 1 .. Len(Segments) : v = Segments[k].page
    BY <2>1, <1>6, <1>9, Zenon
  <2>2. CASE v \in {"lib", "prog", "stack"}
    BY <2>2, <1>7, <1>9, Zenon
  <2> QED BY <1>10, <2>1, <2>2, Zenon
<1> QED BY <1>1, <1>5, <1>6, <1>9, <1>11, <1>12, Zenon

(* The permissions of a page, by its kind.                                 *)
LEMMA OneFurther ==
  ASSUME NEW m \in Nat, NEW n \in 1 .. m, NEW k \in Nat, k = n + 1
  PROVE  /\ k \in 1 .. m + 1 /\ k - 1 = n /\ k # 0
         /\ \A j \in 1 .. n : j \in 1 .. n - 1 \/ j = n
OBVIOUS

LEMMA PermFacts ==
  /\ \A v \in Stored : PermsOf(v) = {"w", "cow"}
  /\ PermsOf("lib") = {"share"} /\ PermsOf("prog") = {"share"}
  /\ PermsOf("PFTEMP") = {"w"} /\ PermsOf("UTEMP") = {"w"} /\ PermsOf("xstack") = {"w"}
  /\ \A v \in Private \ Stored : PermsOf(v) = {"ro"}
<1>1. \A v \in Stored : PermsOf(v) = {"w", "cow"}
  BY PageFacts, Zenon DEF PermsOf
<1>2. "lib" \notin Stored /\ "prog" \notin Stored /\ "PFTEMP" \notin Stored
      /\ "UTEMP" \notin Stored /\ "xstack" \notin Stored
  BY PageFacts, Zenon
<1>3. PermsOf("lib") = {"share"} /\ PermsOf("prog") = {"share"}
  BY <1>2, Zenon DEF PermsOf
<1>4. PermsOf("PFTEMP") = {"w"} /\ PermsOf("UTEMP") = {"w"} /\ PermsOf("xstack") = {"w"}
  BY <1>2, Zenon DEF PermsOf
<1>5. \A v \in Private \ Stored : PermsOf(v) = {"ro"}
  <2> SUFFICES ASSUME NEW v \in Private \ Stored PROVE PermsOf(v) = {"ro"}
    BY Zenon
  <2>1. v \notin {"lib", "prog"} /\ v \notin {"PFTEMP", "UTEMP", "xstack"}
    BY PageFacts, Zenon
  <2> QED BY <2>1, Zenon DEF PermsOf
<1> QED BY <1>1, <1>3, <1>4, <1>5, Zenon

(* No two places of that order are the same page.                          *)
LEMMA FirstTableFacts ==
  /\ \A v \in AllPages : FirstTable[v] \in EntriesOf(v)
  /\ \A v, w \in AllPages :
       FirstTable[v].frame # None /\ FirstTable[v].frame = FirstTable[w].frame => v = w
  /\ \A v \in Private \cup {"lib"} : FirstTable[v].frame # None
  /\ \A v \in AllPages : FirstTable[v].perm # "cow"
  /\ FirstTable["prog"] = NoPage
<1> DEFINE place(v) == CHOOSE j \in DOMAIN PageOrder : PageOrder[j] = v
<1>1. DOMAIN PageOrder = 1 .. Len(PageOrder)
  BY OrderFacts, Zenon
<1>2. \A v \in Pages : place(v) \in 1 .. Len(PageOrder) /\ PageOrder[place(v)] = v
  BY <1>1, OrderFacts, Zenon
<1>3. \A v \in Pages : place(v) \in Frames
  BY <1>2, OrderFacts, ChildAssumption DEF Frames
<1>4. \A v, w \in Pages : place(v) = place(w) => v = w
  BY <1>2, Zenon
<1> DEFINE kind(v) == CASE v = "lib" -> "share"
                        [] v \in Data \cup {"stack"} -> "w"
                        [] OTHER -> "ro"
<1>5. \A v \in AllPages :
        FirstTable[v] = IF v \in Pages \ {"prog"} THEN Page(place(v), kind(v)) ELSE NoPage
  BY Zenon DEF FirstTable, Page
<1> HIDE DEF place
<1>6. ASSUME NEW v \in Pages \ {"prog"} PROVE kind(v) \in PermsOf(v) /\ kind(v) # "cow"
  <2>1. CASE v = "lib"
    BY <2>1, PermFacts, PageFacts, Zenon DEF Stored
  <2>2. CASE v \in Stored
    BY <2>2, PermFacts, PageFacts, Zenon DEF Stored
  <2>3. CASE v # "lib" /\ v \notin Stored
    BY <2>3, PermFacts, Zenon DEF Stored, Pages
  <2> QED BY <2>1, <2>2, <2>3, Zenon
<1>7. Pages = Private \cup {"lib", "prog"} /\ Pages \subseteq AllPages
  BY Zenon DEF Pages, AllPages
<1> HIDE DEF kind
<1>8. ASSUME NEW v \in AllPages PROVE FirstTable[v] \in EntriesOf(v)
  <2>1. CASE v \in Pages \ {"prog"}
    <3>1. place(v) \in (IF v = "prog" THEN {FdFrame} ELSE Frames) /\ kind(v) \in PermsOf(v)
      BY <2>1, <1>3, <1>6, Zenon
    <3>2. FirstTable[v] = [frame |-> place(v), perm |-> kind(v)]
      BY <2>1, <1>5, Zenon DEF Page
    <3> QED BY <3>1, <3>2 DEF EntriesOf
  <2>2. CASE v \notin Pages \ {"prog"}
    BY <2>2, <1>5, Zenon DEF EntriesOf
  <2> QED BY <2>1, <2>2, Zenon
<1>9. \A v \in AllPages :
        /\ v \in Pages \ {"prog"} => FirstTable[v].frame = place(v) /\ FirstTable[v].perm = kind(v)
        /\ v \notin Pages \ {"prog"} => FirstTable[v].frame = None /\ FirstTable[v].perm = "none"
  <2> SUFFICES ASSUME NEW v \in AllPages
               PROVE  /\ v \in Pages \ {"prog"} => /\ FirstTable[v].frame = place(v)
                                                  /\ FirstTable[v].perm = kind(v)
                      /\ v \notin Pages \ {"prog"} => /\ FirstTable[v].frame = None
                                                     /\ FirstTable[v].perm = "none"
    BY Zenon
  <2>1. CASE v \in Pages \ {"prog"}
    <3>1. FirstTable[v] = [frame |-> place(v), perm |-> kind(v)]
      BY <2>1, <1>5, Zenon DEF Page
    <3> QED BY <2>1, <3>1
  <2>2. CASE v \notin Pages \ {"prog"}
    BY <2>2, <1>5 DEF NoPage
  <2> QED BY <2>1, <2>2, Zenon
<1>10. FirstTable["prog"] = NoPage
  BY <1>5, PageFacts, Zenon
<1>11. \A v \in Private \cup {"lib"} : v \in Pages \ {"prog"} /\ v \in AllPages
  BY <1>7, PageFacts, Zenon
<1>12. \A v \in Private \cup {"lib"} : FirstTable[v].frame # None
  BY <1>3, <1>9, <1>11, FrameFacts
<1>13. \A v \in AllPages : FirstTable[v].perm # "cow"
  BY <1>6, <1>9, Zenon
<1> QED
  BY <1>4, <1>8, <1>9, <1>10, <1>12, <1>13

-----------------------------------------------------------------------------
(* Facts about the pages, from the types.                                  *)

(* page_alloc returns a page that is in no page table.                     *)
LEMMA AllocFresh ==
  ASSUME Free # {}
  PROVE  /\ page_alloc \in Frames
         /\ \A e \in Envs, v \in AllPages : pt[e][v].frame # page_alloc
<1>1. page_alloc \in Free
  BY Zenon DEF page_alloc
<1> QED BY <1>1 DEF Free

LEMMA EntryFacts ==
  ASSUME NEW v \in AllPages, NEW x \in EntriesOf(v)
  PROVE  /\ x.frame = None <=> x.perm = "none"
         /\ x.frame = None \/ x.frame \in Frames \/ (v = "prog" /\ x.frame = FdFrame)
         /\ v = "prog" => x.frame \notin Frames
         /\ x.frame = None <=> x = NoPage
         /\ x.perm \in {"none", "ro", "w", "cow", "share"}
         /\ v \in Stored => x.perm \in {"none", "w", "cow"}
         /\ v \in Private \ Stored => x.perm \in {"none", "ro"}
         /\ v \in {"lib", "prog"} => x.perm \in {"none", "share"}
         /\ v \in {"PFTEMP", "UTEMP", "xstack"} => x.perm \in {"none", "w"}
<1>1. CASE x = NoPage
  BY <1>1, FrameFacts, Zenon DEF NoPage
<1>2. CASE x # NoPage
  <2>1. x \in [frame : IF v = "prog" THEN {FdFrame} ELSE Frames, perm : PermsOf(v)]
    BY <1>2, Zenon DEF EntriesOf
  <2>2. x.frame \in (IF v = "prog" THEN {FdFrame} ELSE Frames) /\ x.perm \in PermsOf(v)
    BY <2>1, Zenon
  <2>3. x.frame # None /\ (v = "prog" => x.frame \notin Frames)
    BY <2>2, FrameFacts, Zenon
  <2>4. CASE v \in Stored
    BY <2>2, <2>3, <2>4, PermFacts, PageFacts, <1>2, Zenon
  <2>5. CASE v \in Private \ Stored
    BY <2>2, <2>3, <2>5, PermFacts, PageFacts, <1>2, Zenon
  <2>6. CASE v \in {"lib", "prog"}
    BY <2>2, <2>3, <2>6, PermFacts, PageFacts, <1>2, Zenon
  <2>7. CASE v \in {"PFTEMP", "UTEMP", "xstack"}
    BY <2>2, <2>3, <2>7, PermFacts, PageFacts, <1>2, Zenon
  <2> QED BY <2>4, <2>5, <2>6, <2>7, PageFacts, Zenon
<1> QED BY <1>1, <1>2, Zenon

LEMMA PageEntry ==
  /\ \A f, p : Page(f, p).frame = f /\ Page(f, p).perm = p
  /\ NoPage.frame = None /\ NoPage.perm = "none"
  /\ \A v \in AllPages : NoPage \in EntriesOf(v)
  /\ \A v \in AllPages \ {"prog"}, f \in Frames : \A p \in PermsOf(v) : Page(f, p) \in EntriesOf(v)
  /\ Page(FdFrame, "share") \in EntriesOf("prog")
BY PermFacts, Zenon DEF Page, NoPage, EntriesOf

LEMMA TableFacts ==
  ASSUME TableType
  PROVE  \A e \in Envs, v \in AllPages :
           /\ pt[e][v].frame = None <=> pt[e][v].perm = "none"
           /\ pt[e][v].frame = None \/ pt[e][v].frame \in Frames
                                   \/ (v = "prog" /\ pt[e][v].frame = FdFrame)
           /\ v = "prog" => pt[e][v].frame \notin Frames
           /\ pt[e][v].frame = None <=> pt[e][v] = NoPage
           /\ pt[e][v].perm \in {"none", "ro", "w", "cow", "share"}
           /\ v \in Stored => pt[e][v].perm \in {"none", "w", "cow"}
           /\ v \in Private \ Stored => pt[e][v].perm \in {"none", "ro"}
           /\ v \in {"lib", "prog"} => pt[e][v].perm \in {"none", "share"}
           /\ v \in {"PFTEMP", "UTEMP", "xstack"} => pt[e][v].perm \in {"none", "w"}
BY EntryFacts, Zenon DEF TableType

(* What the elementary changes do, page by page and frame by frame.        *)
LEMMA MapFacts ==
  ASSUME TableType, NEW e \in Envs, NEW v \in AllPages, NEW x \in EntriesOf(v), Map(e, v, x)
  PROVE  /\ TableType'
         /\ \A d \in Envs, w \in AllPages : pt'[d][w] = IF d = e /\ w = v THEN x ELSE pt[d][w]
<1>1. x \in [frame : Frames \cup {None, FdFrame}, perm : {"none", "ro", "w", "cow", "share"}]
  <2>1. x = NoPage \/ x \in [frame : IF v = "prog" THEN {FdFrame} ELSE Frames, perm : PermsOf(v)]
    BY Zenon DEF EntriesOf
  <2>2. x.frame \in Frames \cup {None, FdFrame}
        /\ x.perm \in {"none", "ro", "w", "cow", "share"}
    BY EntryFacts, Zenon
  <2> QED BY <2>1, <2>2, Zenon DEF NoPage
<1>2. \A d \in Envs, w \in AllPages : pt'[d][w] = IF d = e /\ w = v THEN x ELSE pt[d][w]
  BY Zenon DEF Map, TableType
<1>3. pt' \in [Envs -> [AllPages -> [frame : Frames \cup {None, FdFrame},
                                    perm : {"none", "ro", "w", "cow", "share"}]]]
  BY <1>1, Zenon DEF Map, TableType
<1> QED BY <1>2, <1>3, Zenon DEF TableType

LEMMA ClearFacts ==
  ASSUME TableType, NEW e \in Envs, pt' = [pt EXCEPT ![e] = [v \in AllPages |-> NoPage]]
  PROVE  /\ TableType'
         /\ \A d \in Envs, w \in AllPages : pt'[d][w] = IF d = e THEN NoPage ELSE pt[d][w]
<1>1. NoPage \in [frame : Frames \cup {None, FdFrame}, perm : {"none", "ro", "w", "cow", "share"}]
  BY Zenon DEF NoPage
<1>2. \A d \in Envs, w \in AllPages : pt'[d][w] = IF d = e THEN NoPage ELSE pt[d][w]
  BY Zenon DEF TableType
<1>3. pt' \in [Envs -> [AllPages -> [frame : Frames \cup {None, FdFrame},
                                    perm : {"none", "ro", "w", "cow", "share"}]]]
  BY <1>1, Zenon DEF TableType
<1> QED BY <1>2, <1>3, PageEntry, Zenon DEF TableType

LEMMA FillFacts ==
  ASSUME content \in [Frames -> Values], NEW f \in Frames, NEW x \in Values, Fill(f, x)
  PROVE  /\ content' \in [Frames -> Values]
         /\ \A g \in Frames : content'[g] = IF g = f THEN x ELSE content[g]
BY Zenon DEF Fill

-----------------------------------------------------------------------------
(* Initially.                                                              *)
LEMMA InitInv == Init => ChildInv
<1> SUFFICES ASSUME Init PROVE ChildInv
  BY Zenon
<1>1. TableType
  <2>1. \A e \in Envs, v \in AllPages : pt[e][v] \in EntriesOf(v)
    BY FirstTableFacts, PageEntry, Zenon DEF Init
  <2>2. pt \in [Envs -> [AllPages -> [frame : Frames \cup {None, FdFrame},
                                     perm : {"none", "ro", "w", "cow", "share"}]]]
    <3> DEFINE E == [frame : Frames \cup {None, FdFrame},
                     perm : {"none", "ro", "w", "cow", "share"}]
    <3>1. NoPage \in E
      BY Zenon DEF NoPage
    <3>2. ASSUME NEW v \in AllPages PROVE FirstTable[v] \in E
      <4>1. FirstTable[v] = NoPage
            \/ FirstTable[v] \in [frame : IF v = "prog" THEN {FdFrame} ELSE Frames, perm : PermsOf(v)]
        BY FirstTableFacts, Zenon DEF EntriesOf
      <4>2. FirstTable[v].frame \in Frames \cup {None, FdFrame}
            /\ FirstTable[v].perm \in {"none", "ro", "w", "cow", "share"}
        BY FirstTableFacts, EntryFacts
      <4> QED BY <3>1, <4>1, <4>2, Zenon
    <3> HIDE DEF E
    <3>3. FirstTable = [v \in AllPages |-> FirstTable[v]]
      BY DEF FirstTable
    <3>4. FirstTable \in [AllPages -> E] /\ [v \in AllPages |-> NoPage] \in [AllPages -> E]
      BY <3>1, <3>2, <3>3, Zenon
    <3>5. pt \in [Envs -> [AllPages -> E]]
      BY <3>4, Zenon DEF Init
    <3> QED BY <3>5, Zenon DEF E
  <2> QED BY <2>1, <2>2, Zenon DEF TableType
<1>t. ProcType /\ ValueType
  BY ChildAssumption, Zenon DEF Init, ProcType, ValueType, Points
<1>2. \A e \in Envs, v \in AllPages : 
        /\ e = First => pt[e][v] = FirstTable[v]
        /\ e # First => pt[e][v] = NoPage
  BY Zenon DEF Init
<1>3. Sharing
  BY <1>2, FirstTableFacts, PageEntry, FrameFacts DEF Sharing
<1>4. OneLib
  BY <1>2, FirstTableFacts, PageEntry, PageFacts DEF OneLib, Mapped
<1>5. ASSUME NEW e \in Envs PROVE Family(e)
  BY <1>2, Zenon DEF Init, Family, ForkPoints, SpawnPoints
<1>6. ASSUME NEW e \in Envs PROVE Contents(e) /\ Transit(e)
  <2>1. \A v \in AllPages : pt[e][v].frame # None /\ v # "prog" => content[pt[e][v].frame] = 0
    BY <1>1, TableFacts, Zenon DEF Init
  <2> QED BY <2>1, PageFacts, Zenon DEF Init, Contents, Transit, Mapped, Holding
<1>7. ASSUME NEW e \in Envs PROVE Built(e)
  BY Zenon DEF Init, Built
<1>8. ASSUME NEW e \in Envs PROVE Handlers(e) /\ Present(e)
  BY <1>2, FirstTableFacts, PageEntry, Zenon DEF Init, Handlers, Present, Complete, Mapped
<1>9. ASSUME NEW e \in Envs PROVE ProgOpen(e) /\ Watched(e)
  BY <1>2, FirstTableFacts, PageEntry, PageFacts, Zenon DEF Init, ProgOpen, Watched, Mapped
<1> QED BY <1>1, <1>t, <1>3, <1>4, <1>5, <1>6, <1>7, <1>8, <1>9, Zenon DEF ChildInv

-----------------------------------------------------------------------------
(* An environment that a step leaves alone, and whose child, if it is      *)
(* building one, the step leaves alone, keeps its part of the invariant.   *)

Same(d) ==
  /\ status'[d] = status[d] /\ fault'[d] = fault[d] /\ pc'[d] = pc[d] /\ at'[d] = at[d]
  /\ child'[d] = child[d] /\ parent'[d] = parent[d] /\ mem'[d] = mem[d]
  /\ \A w \in AllPages : pt'[d][w] = pt[d][w]
  /\ d \in upcall' <=> d \in upcall
  /\ d \in handler' <=> d \in handler
  /\ d \in leaked' <=> d \in leaked
Steady(d) ==
  \A w \in AllPages : pt[d][w].frame \in Frames
                       => content'[pt[d][w].frame] = content[pt[d][w].frame]
Local(d) ==
  /\ Family(d) /\ Contents(d) /\ Transit(d) /\ Present(d)
  /\ Handlers(d) /\ Built(d) /\ ProgOpen(d)

(* What is mapped in an environment depends on its page table only.        *)
LEMMA MappedKept ==
  ASSUME NEW d, \A w \in AllPages : pt'[d][w] = pt[d][w]
  PROVE  /\ \A w \in AllPages : Mapped(d, w)' <=> Mapped(d, w)
         /\ Complete(d)' <=> Complete(d)
         /\ \A n : Pagewise(d, n)' <=> Pagewise(d, n)
<1>1. \A w \in AllPages : Mapped(d, w)' <=> Mapped(d, w)
  BY Zenon DEF Mapped
<1>2. \A w \in Private : w \in AllPages
  BY PageFacts, Zenon
<1> QED BY <1>1, <1>2, Zenon DEF Complete, Pagewise

(* The same of the progress that its parent has made with it.              *)
LEMMA MakingKept ==
  ASSUME NEW e \in Envs, NEW c \in Envs, NEW n, Same(c),
         pc'[e] = pc[e], mem'[e] = mem[e],
         e \in handler' <=> e \in handler, e \in leaked' <=> e \in leaked
  PROVE  /\ Forking(e, c, n) => Forking(e, c, n)'
         /\ Spawning(e, c, n) => Spawning(e, c, n)'
         /\ Starting(e, c) => Starting(e, c)'
<1>1. /\ mem'[c] = mem[c] /\ (c \in upcall' <=> c \in upcall)
      /\ (c \in handler' <=> c \in handler) /\ (c \in leaked' <=> c \in leaked)
      /\ \A w \in AllPages : pt'[c][w] = pt[c][w]
  BY Zenon DEF Same
<1>2. /\ \A w \in AllPages : Mapped(c, w)' <=> Mapped(c, w)
      /\ Complete(c)' <=> Complete(c)
      /\ \A k : Pagewise(c, k)' <=> Pagewise(c, k)
  BY <1>1, MappedKept, Zenon
<1>3. Forking(e, c, n) => Forking(e, c, n)'
  BY <1>1, <1>2, PageFacts, Zenon DEF Forking
<1>4. Spawning(e, c, n) => Spawning(e, c, n)'
  BY <1>1, <1>2, PageFacts, Zenon DEF Spawning
<1>5. Starting(e, c) => Starting(e, c)'
  BY <1>1, <1>2, PageFacts, Zenon DEF Starting, Prepared
<1> QED BY <1>3, <1>4, <1>5, Zenon

LEMMA BuiltKept ==
  ASSUME ProcType, NEW e \in Envs, Built(e), child[e] # None => Same(child[e]),
         pc'[e] = pc[e], at'[e] = at[e], child'[e] = child[e], mem'[e] = mem[e],
         e \in handler' <=> e \in handler, e \in leaked' <=> e \in leaked
  PROVE  Built(e)'
<1> SUFFICES ASSUME NEW c \in {child[e]} \ {None}, NEW n \in {at[e]}
             PROVE  (Forking(e, c, n) /\ Spawning(e, c, n) /\ Starting(e, c))'
  BY Zenon DEF Built
<1>1. c \in Envs /\ Same(c)
  BY Zenon DEF ProcType
<1>2. Forking(e, c, n) /\ Spawning(e, c, n) /\ Starting(e, c)
  BY Zenon DEF Built
<1> QED BY <1>1, <1>2, MakingKept, Zenon

LEMMA Bystander ==
  ASSUME TableType, ProcType, NEW d \in Envs, Local(d), Same(d), Steady(d), shm' = shm,
         child[d] # None => Same(child[d])
  PROVE  Local(d)'
<1>1. \A w \in AllPages \ {"prog"} :
        pt[d][w].frame # None => content'[pt[d][w].frame] = content[pt[d][w].frame]
  BY TableFacts, Zenon DEF Steady
<1>2. fault[d] # None => fault[d].page \in AllPages
  BY PageFacts, Zenon DEF ProcType, Faulting
<1>s. \A w \in AllPages : pt'[d][w] = pt[d][w]
  BY Zenon DEF Same
<1>m. (\A w \in AllPages : Mapped(d, w)' <=> Mapped(d, w)) /\ (Complete(d)' <=> Complete(d))
  BY <1>s, MappedKept, Zenon
<1>3. Family(d)'
  BY Zenon DEF Local, Same, Family
<1>4. Contents(d)'
  BY <1>1, PageFacts DEF Local, Same, Contents, Holding, Mapped
<1>5. Transit(d)'
  <2>1. /\ Mapped(d, "PFTEMP")' <=> Mapped(d, "PFTEMP")
        /\ Mapped(d, "UTEMP")' <=> Mapped(d, "UTEMP")
        /\ \A x : Holding(d, "PFTEMP", x) => Holding(d, "PFTEMP", x)'
        /\ \A x : Holding(d, "UTEMP", x) => Holding(d, "UTEMP", x)'
    BY <1>1, <1>s, <1>m, PageFacts, Zenon DEF Holding, Mapped
  <2>2. fault[d] # None => pt'[d][fault[d].page].perm = pt[d][fault[d].page].perm
    BY <1>2, <1>s, Zenon
  <2>3. Transit(d) /\ status'[d] = status[d] /\ fault'[d] = fault[d] /\ pc'[d] = pc[d]
        /\ at'[d] = at[d] /\ mem'[d] = mem[d]
    BY Zenon DEF Local, Same
  <2> QED BY <2>1, <2>2, <2>3, Zenon DEF Transit
<1>6. Built(d)'
  BY BuiltKept, Zenon DEF Local, Same
<1>7. Handlers(d)' /\ Present(d)' /\ ProgOpen(d)'
  BY <1>m, PageFacts DEF Local, Same, Handlers, Prepared, Present, ProgOpen
<1> QED BY <1>3, <1>4, <1>5, <1>6, <1>7, Zenon DEF Local

(* What is enough to keep the contents of an environment's pages.          *)
LEMMA ContentsKept ==
  ASSUME TableType, NEW d \in Envs, Contents(d), Steady(d), shm' = shm, mem'[d] = mem[d],
         status'[d] \in {"run", "building"} => status[d] \in {"run", "building"},
         \A w \in Private \cup {"lib"} : pt'[d][w] = pt[d][w] \/ pt'[d][w].frame = None
  PROVE  Contents(d)'
<1>1. \A w \in Private \cup {"lib"} :
        pt[d][w].frame # None => content'[pt[d][w].frame] = content[pt[d][w].frame]
  BY TableFacts, PageFacts DEF Steady
<1> QED BY <1>1, Zenon DEF Contents, Holding, Mapped

(* A step of the page fault handler leaves the progress of fork and spawn  *)
(* as it is.                                                               *)
LEMMA ProgressKept ==
  ASSUME ProcType, NEW e \in Envs, Local(e), child[e] # None => Same(child[e]),
         status'[e] = status[e], pc'[e] = pc[e], at'[e] = at[e], child'[e] = child[e],
         mem'[e] = mem[e], upcall' = upcall, handler' = handler, leaked' = leaked,
         status[e] = "run", e \in handler,
         \A w \in AllPages \ {"PFTEMP"} : Mapped(e, w)' <=> Mapped(e, w),
         \A w \in AllPages : pt'[e][w].perm = "cow" => pt[e][w].perm = "cow"
  PROVE  Family(e)' /\ Present(e)' /\ Built(e)' /\ Handlers(e)' /\ ProgOpen(e)'
<1>1. \A w \in Private \cup {"prog", "xstack"} : w \in AllPages \ {"PFTEMP"}
  BY PageFacts, Zenon
<1>2. Family(e)'
  BY Zenon DEF Local, Family, Same
<1>3. Built(e)'
  BY BuiltKept, Zenon DEF Local
<1>4. Present(e)' /\ Handlers(e)' /\ ProgOpen(e)'
  BY <1>1, Zenon DEF Local, Present, Complete, Handlers, Prepared, ProgOpen
<1> QED BY <1>2, <1>3, <1>4, Zenon

(* Outside of the page fault handler, and of spawn when it has a page at   *)
(* UTEMP, nothing is under way.                                            *)
LEMMA Idle ==
  ASSUME NEW e \in Envs, fault'[e] = None,
         pc'[e] \notin {"mapstack", "readsegment", "mapsegment"}
  PROVE  Transit(e)'
BY Zenon DEF Transit

(* An environment that has no child, after a step of its own.              *)
LEMMA AloneLocal ==
  ASSUME NEW e \in Envs, Present(e), status[e] = "run", status'[e] = "run", fault'[e] = None,
         child'[e] = None, pc'[e] \notin ForkPoints \cup SpawnPoints \cup {"start"},
         \A w \in Private : Mapped(e, w) => Mapped(e, w)',
         Contents(e)', Handlers(e)', ProgOpen(e)'
  PROVE  Local(e)'
<1>1. Family(e)'
  BY Zenon DEF Family
<1>2. Transit(e)'
  BY Idle, Zenon DEF SpawnPoints
<1>3. Present(e)' /\ Built(e)'
  BY Zenon DEF Present, Complete, Built
<1> QED BY <1>1, <1>2, <1>3, Zenon DEF Local

(* One that goes on with its child c.                                      *)
LEMMA MakingLocal ==
  ASSUME NEW e \in Envs, NEW c \in Envs, NEW n \in Nat, Local(e),
         status[e] = "run", pc[e] \in ForkPoints \cup SpawnPoints,
         pc'[e] \in ForkPoints \cup SpawnPoints \cup {"start"},
         status'[e] = "run", fault'[e] = None, child'[e] = c, at'[e] = n,
         status'[c] = "building", parent'[c] = e,
         e \in upcall' <=> e \in upcall, e \in handler' <=> e \in handler,
         e \in leaked' <=> e \in leaked,
         \A w \in Private \cup {"xstack"} : Mapped(e, w) => Mapped(e, w)',
         \A w \in AllPages : pt'[e][w].perm = "cow" => pt[e][w].perm = "cow" \/ e \in handler,
         Mapped(e, "prog")' => e \in leaked \/ pc'[e] \in SpawnPoints,
         pc'[e] = "copyshared" => ~Mapped(e, "prog")',
         Contents(e)', Transit(e)', Forking(e, c, n)', Spawning(e, c, n)', Starting(e, c)'
  PROVE  Local(e)'
<1>1. Family(e)'
  BY FrameFacts, Zenon DEF Family
<1>2. Present(e)'
  BY Zenon DEF Local, Present, Complete
<1>3. Built(e)'
  BY Zenon DEF Built
<1>4. Handlers(e)'
  BY Zenon DEF Local, Handlers, Prepared, ForkPoints, SpawnPoints
<1>5. ProgOpen(e)'
  BY Zenon DEF Local, ProgOpen, ForkPoints, SpawnPoints
<1> QED BY <1>1, <1>2, <1>3, <1>4, <1>5, Zenon DEF Local

(* A step that touches one environment, or one and its child.              *)
LEMMA StepKeeps ==
  ASSUME ChildInv, NEW e \in Envs, NEW c \in Envs, shm' = shm,
         \A d \in Envs : d # e /\ d # c =>
            Same(d) /\ Steady(d) /\ child[d] # e /\ child[d] # c,
         Local(e)', Local(c)',
         TableType', ProcType', ValueType', Sharing', OneLib', \A d \in Envs : Watched(d)'
  PROVE  ChildInv'
<1>1. ASSUME NEW d \in Envs, d # e, d # c PROVE Local(d)'
  <2>1. TableType /\ ProcType /\ Local(d)
    BY Zenon DEF ChildInv, Local
  <2>2. child[d] # None => Same(child[d])
    BY <1>1, <2>1, Zenon DEF ProcType
  <2> QED BY <1>1, <2>1, <2>2, Bystander, Zenon
<1>2. \A d \in Envs : Local(d)'
  BY <1>1, Zenon
<1> QED BY <1>2, Zenon DEF ChildInv, Local

(* A running environment is nobody's child any more, and its child has     *)
(* done nothing yet.                                                       *)
LEMMA Apart ==
  ASSUME ChildInv, NEW e \in Envs, status[e] = "run"
  PROVE  /\ \A d \in Envs : child[d] # e
         /\ child[e] # None =>
              /\ child[e] \in Envs /\ child[e] # e /\ status[child[e]] = "building"
              /\ child[child[e]] = None /\ fault[child[e]] = None
              /\ pc[child[e]] \in {"user", "childret"} /\ parent[child[e]] = e
              /\ \A d \in Envs : d # e => child[d] # child[e]
         /\ child[e] # None <=> pc[e] \in ForkPoints \cup SpawnPoints \cup {"start"}
BY ChildAssumption DEF ChildInv, ProcType, Family, ProgOpen

(* The child under way, and the place.                                     *)
LEMMA Making ==
  ASSUME ProcType, NEW e \in Envs, Local(e),
         pc[e] \in ForkPoints \cup SpawnPoints \cup {"start"}
  PROVE  \E c \in Envs, n \in Nat :
           /\ child[e] = c /\ at[e] = n /\ status[c] = "building" /\ parent[c] = e
           /\ Forking(e, c, n) /\ Spawning(e, c, n) /\ Starting(e, c)
<1>1. /\ child[e] # None /\ child[e] \in Envs /\ at[e] \in Nat
      /\ status[child[e]] = "building" /\ parent[child[e]] = e
  BY Zenon DEF Local, Family, ProcType
<1>2. PICK c \in Envs, n \in Nat : child[e] = c /\ at[e] = n
  BY <1>1, Zenon
<1>3. c \in {child[e]} \ {None} /\ n \in {at[e]}
  BY <1>1, <1>2, Zenon
<1>4. Forking(e, c, n) /\ Spawning(e, c, n) /\ Starting(e, c)
  BY <1>3, Zenon DEF Local, Built
<1> QED BY <1>1, <1>2, <1>4, Zenon

(* Pages stay as they are or go; a new one is one that nobody has.         *)
OnlyNew(e, v) ==
  /\ \A d \in Envs, w \in AllPages :
       ~(d = e /\ w = v) => pt'[d][w] = pt[d][w] \/ pt'[d][w].frame \notin Frames
  /\ \/ pt'[e][v] = pt[e][v] \/ pt'[e][v].frame \notin Frames
     \/ \A d \in Envs, w \in AllPages : pt[d][w].frame # pt'[e][v].frame
MovesOn ==
  \A d, g \in Envs, w, u \in AllPages :
    Moving(d, w, g, u) /\ pt[d][w].frame \in Frames
    /\ pt'[d][w] = pt[d][w] /\ pt'[g][u] = pt[g][u]
      => Moving(d, w, g, u)'

LEMMA SharingKept ==
  ASSUME Sharing, NEW e \in Envs, NEW v \in AllPages, OnlyNew(e, v), MovesOn
  PROVE  Sharing'
BY DEF Sharing, Shares, OnlyNew, MovesOn

(* The page tables stay, and whoever moves a page does so still.           *)
LEMMA MovingKept ==
  ASSUME NEW d \in Envs, NEW g \in Envs, NEW w \in AllPages, NEW u \in AllPages,
         Moving(d, w, g, u), fault'[d] = fault[d],
         pc[d] \in {"remap", "unmapstack", "unmapsegment"} =>
            pc'[d] = pc[d] /\ at'[d] = at[d] /\ child'[d] = child[d]
  PROVE  Moving(d, w, g, u)'
BY Zenon DEF Moving

LEMMA StillSharing ==
  ASSUME Sharing, OneLib, pt' = pt, NEW e \in Envs,
         \A d \in Envs : /\ fault'[d] = fault[d]
                         /\ pc[d] \in {"remap", "unmapstack", "unmapsegment"} =>
                              pc'[d] = pc[d] /\ at'[d] = at[d] /\ child'[d] = child[d]
  PROVE  Sharing' /\ OneLib'
<1>1. OnlyNew(e, "lib") /\ "lib" \in AllPages
  BY PageFacts, Zenon DEF OnlyNew
<1>2. MovesOn
  <2> SUFFICES ASSUME NEW d \in Envs, NEW g \in Envs, NEW w \in AllPages, NEW u \in AllPages,
                      Moving(d, w, g, u)
               PROVE  Moving(d, w, g, u)'
    BY Zenon DEF MovesOn
  <2> QED BY MovingKept, Zenon
<1>3. OneLib'
  BY Zenon DEF OneLib, Mapped
<1> QED BY <1>1, <1>2, <1>3, SharingKept, Zenon

(* A step that changes one entry of one page table.                        *)
PlaceOnly(a, v) ==
  \A d \in Envs, w \in AllPages : ~(d = a /\ w = v) => pt'[d][w] = pt[d][w]

LEMMA PlaceFacts ==
  ASSUME NEW a \in Envs, NEW v \in AllPages, PlaceOnly(a, v)
  PROVE  /\ \A d \in Envs, w \in AllPages :
              ~(d = a /\ w = v) => (Mapped(d, w)' <=> Mapped(d, w))
         /\ v \notin Private \/ Mapped(a, v)' =>
              \A d \in Envs : /\ Complete(d) => Complete(d)'
                             /\ \A n : Pagewise(d, n) => Pagewise(d, n)'
<1>1. ASSUME NEW d \in Envs, NEW w \in AllPages, ~(d = a /\ w = v)
      PROVE  Mapped(d, w)' <=> Mapped(d, w)
  BY <1>1, Zenon DEF PlaceOnly, Mapped
<1>2. ASSUME v \notin Private \/ Mapped(a, v)', NEW d \in Envs, NEW w \in Private
      PROVE  Mapped(d, w) => Mapped(d, w)'
  <2>1. w \in AllPages
    BY PageFacts, Zenon
  <2> QED BY <1>1, <1>2, <2>1, Zenon
<1>3. ASSUME v \notin Private \/ Mapped(a, v)', NEW d \in Envs
      PROVE  Complete(d) => Complete(d)'
  BY <1>2, <1>3, Zenon DEF Complete
<1>4. ASSUME v \notin Private \/ Mapped(a, v)', NEW d \in Envs, NEW n
      PROVE  Pagewise(d, n) => Pagewise(d, n)'
  BY <1>2, <1>4, Zenon DEF Pagewise
<1> QED BY <1>1, <1>3, <1>4, Zenon

(* The frames of two entries, when one of the two is the changed one.      *)
OthersMove(c, v) ==
  \A d, g \in Envs, w, u \in AllPages :
    Moving(d, w, g, u) /\ pt[d][w].frame \in Frames
    /\ ~(d = c /\ w = v) /\ ~(g = c /\ u = v)
      => Moving(d, w, g, u)'

LEMMA SharingOthers ==
  ASSUME Sharing, NEW c \in Envs, NEW v \in AllPages, PlaceOnly(c, v), OthersMove(c, v),
         \A d \in Envs, w \in AllPages :
            ~(d = c /\ w = v) /\ pt'[d][w].frame \in Frames /\ pt'[d][w].frame = pt'[c][v].frame
              => Shares(d, w, c, v)'
  PROVE  Sharing'
<1> SUFFICES ASSUME NEW d \in Envs, NEW g \in Envs, NEW w \in AllPages, NEW u \in AllPages,
                    pt'[d][w].frame \in Frames, pt'[d][w].frame = pt'[g][u].frame,
                    ~(d = g /\ w = u)
             PROVE  Shares(d, w, g, u)'
  BY Zenon DEF Sharing
<1>1. CASE ~(d = c /\ w = v) /\ ~(g = c /\ u = v)
  <2>1. pt'[d][w] = pt[d][w] /\ pt'[g][u] = pt[g][u]
    BY <1>1, Zenon DEF PlaceOnly
  <2>2. Shares(d, w, g, u)
    BY <2>1, Zenon DEF Sharing
  <2>3. /\ Moving(d, w, g, u) => Moving(d, w, g, u)'
        /\ Moving(g, u, d, w) => Moving(g, u, d, w)'
    BY <1>1, <2>1, Zenon DEF OthersMove
  <2> QED BY <2>1, <2>2, <2>3, Zenon DEF Shares
<1>2. CASE g = c /\ u = v
  BY <1>2, Zenon
<1>3. CASE d = c /\ w = v
  <2>1. Shares(g, u, d, w)'
    BY <1>3, Zenon
  <2> QED BY <2>1, Zenon DEF Shares
<1> QED BY <1>1, <1>2, <1>3, Zenon

LEMMA OthersToo ==
  ASSUME NEW c \in Envs, NEW v \in AllPages, PlaceOnly(c, v), MovesOn
  PROVE  OthersMove(c, v)
<1>1. ASSUME NEW d \in Envs, NEW g \in Envs, NEW w \in AllPages, NEW u \in AllPages,
             Moving(d, w, g, u), pt[d][w].frame \in Frames,
             ~(d = c /\ w = v), ~(g = c /\ u = v)
      PROVE  Moving(d, w, g, u)'
  <2>1. pt'[d][w] = pt[d][w] /\ pt'[g][u] = pt[g][u]
    BY <1>1, Zenon DEF PlaceOnly
  <2> QED BY <1>1, <2>1, Zenon DEF MovesOn
<1> QED BY <1>1, Zenon DEF OthersMove

LEMMA SharingPlace ==
  ASSUME Sharing, NEW c \in Envs, NEW v \in AllPages, PlaceOnly(c, v), MovesOn,
         \A d \in Envs, w \in AllPages :
            ~(d = c /\ w = v) /\ pt'[d][w].frame \in Frames /\ pt'[d][w].frame = pt'[c][v].frame
              => Shares(d, w, c, v)'
  PROVE  Sharing'
<1>1. OthersMove(c, v)
  BY OthersToo, Zenon
<1> QED BY <1>1, SharingOthers, Zenon

(* Everybody's shared page, when another page changes.                     *)
LEMMA OneLibKept ==
  ASSUME OneLib, NEW a \in Envs, NEW v \in AllPages, PlaceOnly(a, v), v # "lib"
  PROVE  OneLib'
<1>1. \A d \in Envs : pt'[d]["lib"] = pt[d]["lib"]
  BY PageFacts, Zenon DEF PlaceOnly
<1> QED BY <1>1, Zenon DEF OneLib, Mapped

(* A step of e that changes, besides its own place, one entry of its own   *)
(* page table or of its child's.                                           *)
OnlyPlace(e) ==
  /\ \A d \in Envs : d # e => pc'[d] = pc[d] /\ at'[d] = at[d] /\ fault'[d] = fault[d]
  /\ UNCHANGED <<status, upcall, handler, child, parent, leaked, mem, shm>>

LEMMA PlaceKeeps ==
  ASSUME ChildInv, NEW e \in Envs, NEW c \in Envs, NEW a \in {e, c}, NEW v \in AllPages,
         status[e] = "run", c = e \/ child[e] = c, OnlyPlace(e), PlaceOnly(a, v),
         \A d \in Envs : d # e => Steady(d),
         Local(e)', Local(c)', TableType', ProcType', ValueType', Sharing', OneLib'
  PROVE  ChildInv'
<1>1. \A d \in Envs : child[d] # e /\ (d # e => child[d] # c)
  BY Apart, FrameFacts
<1>2. \A d \in Envs : d # e /\ d # c => Same(d)
  BY Zenon DEF OnlyPlace, PlaceOnly, Same
<1>3. \A d \in Envs : Watched(d)'
  BY Zenon DEF ChildInv, OnlyPlace, Watched
<1>4. shm' = shm
  BY Zenon DEF OnlyPlace
<1> QED BY <1>1, <1>2, <1>3, <1>4, StepKeeps, Zenon

-----------------------------------------------------------------------------
(* An environment that is being built does nothing: this is what there is  *)
(* to show about it.                                                       *)
Embryo(c) ==
  /\ status[c] = "building" /\ fault[c] = None /\ child[c] = None
  /\ pc[c] \in {"user", "childret"} /\ Contents(c)
  /\ \A v \in AllPages : pt[c][v].perm = "cow" => c \in handler
  /\ Mapped(c, "prog") => c \in leaked

LEMMA EmbryoLocal ==
  ASSUME NEW c \in Envs
  PROVE  /\ Embryo(c)' => Local(c)'
         /\ Local(c) /\ status[c] = "building" => Embryo(c)
<1>1. ASSUME Embryo(c)' PROVE Local(c)'
  <2>1. Family(c)' /\ Transit(c)'
    BY <1>1, Zenon DEF Embryo, Family, Transit, ForkPoints, SpawnPoints
  <2>2. Present(c)' /\ Built(c)' /\ Handlers(c)' /\ ProgOpen(c)'
    BY <1>1, Zenon DEF Embryo, Present, Built, Handlers, ProgOpen
  <2> QED BY <1>1, <2>1, <2>2, Zenon DEF Embryo, Local
<1>2. Local(c) /\ status[c] = "building" => Embryo(c)
  BY Zenon DEF Local, Embryo, Family, Handlers, ProgOpen, SpawnPoints
<1> QED BY <1>1, <1>2, Zenon

(* The child has a new page, with what it is to have there.                *)
LEMMA EmbryoKept ==
  ASSUME TableType, NEW e \in Envs, NEW c \in Envs \ {e}, NEW v \in AllPages,
         Local(c), status[c] = "building", OnlyPlace(e), PlaceOnly(c, v), Steady(c),
         v \in Private => Holding(c, v, mem[c][v])',
         v = "lib" => Holding(c, "lib", shm)',
         pt'[c][v].perm = "cow" => c \in handler,
         v = "prog" => c \in leaked
  PROVE  Local(c)'
<1>1. Embryo(c)
  BY EmbryoLocal, Zenon
<1>2. /\ status'[c] = "building" /\ fault'[c] = None /\ child'[c] = None
      /\ pc'[c] \in {"user", "childret"} /\ mem' = mem /\ shm' = shm
      /\ handler' = handler /\ leaked' = leaked
  BY <1>1, Zenon DEF OnlyPlace, Embryo
<1>3. \A w \in AllPages : w # v => pt'[c][w] = pt[c][w]
  BY Zenon DEF PlaceOnly
<1>4. ASSUME NEW w \in Private \cup {"lib"}, NEW x, w # v, Mapped(c, w)', Mapped(c, w) => Holding(c, w, x)
      PROVE  Holding(c, w, x)'
  <2>1. w \in AllPages /\ w # "prog" /\ pt'[c][w] = pt[c][w]
    BY <1>3, <1>4, PageFacts, Zenon
  <2>2. pt[c][w].frame \in Frames
    BY <1>4, <2>1, TableFacts DEF Mapped
  <2>3. content'[pt[c][w].frame] = content[pt[c][w].frame]
    BY <2>1, <2>2, Zenon DEF Steady
  <2> QED BY <1>4, <2>1, <2>3, Zenon DEF Holding, Mapped
<1>5. Contents(c)'
  <2>1. ASSUME NEW w \in Private, Mapped(c, w)' PROVE Holding(c, w, mem[c][w])'
    <3>1. CASE w = v
      BY <3>1, Zenon
    <3>2. CASE w # v
      <4>1. Mapped(c, w) => Holding(c, w, mem[c][w])
        BY <1>1, Zenon DEF Embryo, Contents
      <4> QED BY <1>2, <1>4, <2>1, <3>2, <4>1, Zenon
    <3> QED BY <3>1, <3>2, Zenon
  <2>2. ASSUME Mapped(c, "lib")' PROVE Holding(c, "lib", shm)'
    <3>1. Mapped(c, "lib") => Holding(c, "lib", shm)
      BY <1>1, Zenon DEF Embryo, Contents
    <3> QED BY <1>2, <1>4, <2>2, <3>1, Zenon
  <2> QED BY <1>2, <2>1, <2>2, Zenon DEF Contents
<1>6. \A w \in AllPages : pt'[c][w].perm = "cow" => c \in handler
  BY <1>1, <1>3, Zenon DEF Embryo
<1>7. Mapped(c, "prog")' => c \in leaked
  BY <1>1, <1>3, PageFacts, Zenon DEF Embryo, Mapped
<1>8. Embryo(c)'
  BY <1>2, <1>5, <1>6, <1>7, Zenon DEF Embryo
<1> QED BY <1>8, EmbryoLocal, Zenon

(* The child is left as it is.                                             *)
LEMMA EmbryoAlone ==
  ASSUME TableType, ProcType, NEW e \in Envs, NEW c \in Envs \ {e}, NEW v \in AllPages,
         Local(c), status[c] = "building", OnlyPlace(e), PlaceOnly(e, v), Steady(c)
  PROVE  Local(c)'
<1>1. Same(c) /\ shm' = shm
  BY Zenon DEF OnlyPlace, PlaceOnly, Same
<1>2. child[c] = None
  BY EmbryoLocal, Zenon DEF Embryo
<1> QED BY <1>1, <1>2, Bystander, Zenon

(* A step that only moves on, or sets a mark of the environment itself.    *)
LEMMA QuietKeeps ==
  ASSUME ChildInv, NEW e \in Envs, status[e] = "run", NEW p \in Points,
         pc[e] \notin {"remap", "unmapstack", "unmapsegment"},
         pc' = [pc EXCEPT ![e] = p],
         upcall' \in {upcall, upcall \cup {e}}, handler' \in {handler, handler \cup {e}},
         UNCHANGED <<status, fault, at, child, parent, leaked, pt, content, mem, shm>>,
         Local(e)'
  PROVE  ChildInv'
<1>1. /\ TableType /\ ProcType /\ ValueType /\ Sharing /\ OneLib
      /\ \A d \in Envs : Watched(d)
  BY Zenon DEF ChildInv
<1>2. TableType' /\ ProcType' /\ ValueType'
  BY <1>1, Zenon DEF TableType, ProcType, ValueType
<1>3. Sharing' /\ OneLib'
  BY <1>1, StillSharing, Zenon DEF ProcType
<1>4. \A d \in Envs : Steady(d) /\ Watched(d)' /\ (d # e => Same(d)) /\ child[d] # e
  BY <1>1, Apart DEF Steady, Watched, Same, ProcType
<1> QED BY <1>2, <1>3, <1>4, StepKeeps, Zenon

(* A user panic, wherever a call finds no memory.                          *)
LEMMA PanicInv ==
  ASSUME ChildInv, NEW e \in Envs, status[e] = "run", panic(e), UNCHANGED <<mem, shm>>
  PROVE  ChildInv'
<1>1. TableType /\ ProcType /\ ValueType /\ Sharing /\ OneLib /\ Local(e)
      /\ \A d \in Envs : Watched(d)
  BY Zenon DEF ChildInv, Local
<1>2. /\ status' = [status EXCEPT ![e] = "panic"]
      /\ UNCHANGED <<upcall, handler, fault, pc, at, child, parent,
                     leaked, pt, content, mem, shm>>
  BY Zenon DEF panic, Becomes
<1>3. /\ \A d \in Envs : child[d] # e
      /\ child[e] # None => child[e] \in Envs /\ child[e] # e
  BY Apart, Zenon
<1>4. TableType' /\ ProcType' /\ ValueType'
  BY <1>1, <1>2, Zenon DEF TableType, ProcType, ValueType
<1>5. Sharing' /\ OneLib'
  BY <1>1, <1>2, StillSharing, Zenon
<1>6. \A d \in Envs : Steady(d) /\ Watched(d)' /\ (d # e => Same(d))
  BY <1>1, <1>2, Zenon DEF Steady, Watched, Same, ProcType
<1>7. Local(e)'
  <2>1. Family(e)' /\ Contents(e)' /\ Transit(e)'
    BY <1>1, <1>2, <1>3, Zenon DEF Local, Family, Contents, Transit, Mapped, Holding, ProcType
  <2>2. Built(e)'
    <3>1. \A d \in Envs : d # e => Same(d)
      BY <1>6, Zenon
    <3> QED BY <1>1, <1>2, <1>3, <3>1, BuiltKept, Zenon DEF Local
  <2>3. (\A w \in AllPages : Mapped(e, w)' <=> Mapped(e, w)) /\ status'[e] = "panic"
    BY <1>1, <1>2, Zenon DEF Mapped, ProcType
  <2>4. Present(e)' /\ Handlers(e)' /\ ProgOpen(e)'
    BY <1>1, <1>2, <2>3, PageFacts, Zenon DEF Local, Present, Handlers, Prepared, ProgOpen
  <2> QED BY <2>1, <2>2, <2>4, Zenon DEF Local
<1> QED BY <1>2, <1>3, <1>4, <1>5, <1>6, <1>7, StepKeeps, Zenon

(* A new page: nobody else has its frame.                                  *)
LEMMA AllocFacts ==
  ASSUME TableType, ValueType, NEW a \in Envs, NEW v \in AllPages \ {"lib", "prog"},
         NEW p \in PermsOf(v), NEW x \in Values,
         Free # {}, Map(a, v, Page(page_alloc, p)), Fill(page_alloc, x)
  PROVE  /\ TableType' /\ content' \in [Frames -> Values]
         /\ \A d \in Envs, w \in AllPages : ~(d = a /\ w = v) => pt'[d][w] = pt[d][w]
         /\ pt'[a][v].frame \in Frames /\ pt'[a][v].frame # None /\ pt'[a][v].perm = p
         /\ content'[pt'[a][v].frame] = x
         /\ \A d \in Envs, w \in AllPages : pt[d][w].frame # pt'[a][v].frame
         /\ \A d \in Envs : Steady(d)
         /\ OneLib => OneLib'
<1>1. page_alloc \in Frames /\ \A d \in Envs, w \in AllPages : pt[d][w].frame # page_alloc
  BY AllocFresh, Zenon
<1>2. /\ Page(page_alloc, p) \in EntriesOf(v)
      /\ Page(page_alloc, p).frame = page_alloc /\ Page(page_alloc, p).perm = p
  BY <1>1, PageEntry, Zenon
<1>3. /\ TableType'
      /\ \A d \in Envs, w \in AllPages :
           pt'[d][w] = IF d = a /\ w = v THEN Page(page_alloc, p) ELSE pt[d][w]
  BY <1>2, MapFacts
<1>4. /\ content' \in [Frames -> Values]
      /\ \A g \in Frames : content'[g] = IF g = page_alloc THEN x ELSE content[g]
  BY <1>1, FillFacts, Zenon DEF ValueType
<1>5. \A d \in Envs : Steady(d)
  BY <1>1, <1>4, Zenon DEF Steady
<1>6. OneLib => OneLib'
  BY <1>3, PageFacts DEF OneLib, Mapped
<1> QED BY <1>1, <1>2, <1>3, <1>4, <1>5, <1>6, FrameFacts

(* A page that is not yet, or no longer, given away at PFTEMP or UTEMP.    *)
LEMMA TempExclusive ==
  ASSUME ChildInv, NEW e \in Envs, NEW t \in {"PFTEMP", "UTEMP"}, Mapped(e, t),
         t = "PFTEMP" => fault[e] = None \/ fault[e].step # "unmap",
         t = "UTEMP" => pc[e] \notin {"unmapstack", "unmapsegment"}
  PROVE  /\ pt[e][t].frame \in Frames
         /\ \A d \in Envs, w \in AllPages : pt[d][w].frame = pt[e][t].frame => d = e /\ w = t
<1>1. /\ TableType /\ ProcType /\ Sharing /\ \A d \in Envs : Local(d)
      /\ t \in AllPages /\ t \notin Private
  BY PageFacts, Zenon DEF ChildInv, Local
<1>2. pt[e][t].frame \in Frames /\ pt[e][t].perm = "w"
  BY <1>1, TableFacts, Zenon DEF Mapped
<1>3. \A d \in Envs :
        /\ fault[d] # None => fault[d].page \in Private
        /\ pc[d] = "unmapsegment" => Segments[at[d]].page \in Private
        /\ pc[d] = "remap" => PageOrder[at[d]] \in Private
  <2> SUFFICES ASSUME NEW d \in Envs
               PROVE  /\ fault[d] # None => fault[d].page \in Private
                      /\ pc[d] = "unmapsegment" => Segments[at[d]].page \in Private
                      /\ pc[d] = "remap" => PageOrder[at[d]] \in Private
    BY Zenon
  <2>1. fault[d] # None => fault[d].page \in Private
    BY <1>1, PageFacts, Zenon DEF ProcType, Faulting
  <2>2. pc[d] = "unmapsegment" => at[d] \in 1 .. Len(Segments)
    BY <1>1, Making DEF SpawnPoints, Spawning
  <2>3. pc[d] = "remap" => PageOrder[at[d]] \in Private
    BY <1>1, PageFacts, Making, Zenon DEF ForkPoints, Forking
  <2> QED BY <2>1, <2>2, <2>3, SegmentFacts, Zenon
<1>4. "stack" \in Private
  BY PageFacts, Zenon
<1>5. ASSUME NEW d \in Envs, NEW w \in AllPages
      PROVE  ~Moving(e, t, d, w) /\ ~Moving(d, w, e, t)
  BY <1>1, <1>3, <1>4, Zenon DEF Moving
<1> QED BY <1>1, <1>2, <1>5, Zenon DEF Sharing, Shares

(* The child takes over what its parent believes, or the image of a        *)
(* program, and has no pages yet.                                          *)
LEMMA ExoforkKeeps ==
  ASSUME ChildInv, NEW e \in Envs, NEW c \in Envs, NEW p \in {"dup", "initstack"},
         NEW m \in [Private -> Values],
         status[e] = "run", fault[e] = None,
         p = "dup" => /\ pc[e] = "exofork" /\ m = mem[e] /\ handler' = handler \cup {c}
                      /\ leaked' = IF e \in leaked THEN leaked \cup {c} ELSE leaked,
         p = "initstack" => pc[e] = "spawnfork" /\ m = Image /\ UNCHANGED <<handler, leaked>>,
         Exofork(e, c, p, m)
  PROVE  ChildInv'
<1>1. /\ TableType /\ ProcType /\ ValueType /\ Sharing /\ OneLib
      /\ \A d \in Envs : Local(d) /\ Watched(d)
  BY Zenon DEF ChildInv, Local
<1>2. /\ status[c] = "free" /\ c # e
      /\ status' = [status EXCEPT ![c] = "building"]
      /\ child' = [child EXCEPT ![e] = c] /\ parent' = [parent EXCEPT ![c] = e]
      /\ pc' = [pc EXCEPT ![e] = p, ![c] = IF p = "dup" THEN "childret" ELSE "user"]
      /\ at' = [at EXCEPT ![e] = 1] /\ mem' = [mem EXCEPT ![c] = m]
      /\ UNCHANGED <<upcall, fault, pt, content, shm>>
  BY Zenon DEF Exofork, Becomes
<1>3. /\ c \notin upcall /\ c \notin handler /\ c \notin leaked /\ fault[c] = None /\ child[c] = None
      /\ \A v \in AllPages : pt[c][v].frame = None /\ pt[c][v].perm = "none"
      /\ child[e] = None /\ \A d \in Envs : child[d] # e /\ child[d] # c
  <2>1. /\ c \notin upcall /\ c \notin handler /\ c \notin leaked /\ fault[c] = None
        /\ child[c] = None /\ \A v \in AllPages : pt[c][v] = NoPage
    BY <1>1, <1>2, Zenon DEF Local, Family
  <2>2. child[e] = None /\ \A d \in Envs : child[d] # e
    BY Apart, Zenon DEF ForkPoints, SpawnPoints
  <2>3. \A d \in Envs : child[d] # c
    BY <1>1, <1>2, FrameFacts, Zenon DEF Local, Family
  <2> QED BY <2>1, <2>2, <2>3, PageEntry, Zenon
<1>4. /\ status'[e] = "run" /\ child'[e] = c /\ pc'[e] = p /\ at'[e] = 1 /\ mem'[e] = mem[e]
      /\ status'[c] = "building" /\ child'[c] = None /\ parent'[c] = e
      /\ pc'[c] \in {"user", "childret"} /\ mem'[c] = m
  BY <1>1, <1>2, <1>3, Zenon DEF ProcType, ValueType
<1>5. TableType' /\ ProcType' /\ ValueType'
  <2>1. handler' \subseteq Envs /\ leaked' \subseteq Envs
    BY <1>1, Zenon DEF ProcType
  <2>2. pc' \in [Envs -> Points] /\ at' \in [Envs -> Nat]
    BY <1>1, <1>2, Zenon DEF ProcType, Points, ForkPoints, SpawnPoints
  <2> QED BY <1>1, <1>2, <2>1, <2>2, Zenon DEF TableType, ProcType, ValueType
<1>6. Sharing' /\ OneLib'
  <2>1. pc[c] \notin {"remap", "unmapstack", "unmapsegment"}
    BY <1>1, <1>2, <1>3, Zenon DEF Local, Family, ForkPoints, SpawnPoints
  <2>2. pc[e] \notin {"remap", "unmapstack", "unmapsegment"}
    BY Zenon
  <2>3. \A d \in Envs : d # e /\ d # c => pc'[d] = pc[d] /\ at'[d] = at[d] /\ child'[d] = child[d]
    BY <1>1, <1>2, Zenon DEF ProcType
  <2> QED BY <1>1, <1>2, <2>1, <2>2, <2>3, StillSharing, Zenon
<1>7. \A d \in Envs : Steady(d) /\ (d # e /\ d # c => Same(d))
  BY <1>1, <1>2, Zenon DEF Steady, Same, ProcType, ValueType
<1>8. ASSUME NEW d \in Envs PROVE Watched(d)'
  <2>1. \A g \in leaked : g \in leaked'
    BY Zenon DEF ProcType
  <2>2. CASE d = c
    BY <1>2, <1>4, <2>2, Zenon DEF Watched
  <2>3. CASE d # c
    <3>1. status'[d] = status[d] /\ parent'[d] = parent[d]
      BY <1>1, <1>2, <2>3, Zenon DEF ProcType
    <3>2. ASSUME status[d] = "building"
          PROVE  /\ status'[parent[d]] = status[parent[d]]
                 /\ parent[d] # e => child'[parent[d]] = child[parent[d]]
      BY <1>1, <1>2, <3>2, Zenon DEF Watched, ProcType
    <3> QED BY <1>1, <1>3, <2>1, <3>1, <3>2, FrameFacts, Zenon DEF Watched
  <2> QED BY <2>2, <2>3, Zenon
<1>9. Local(e)'
  <2>1. \A w \in AllPages : Mapped(e, w)' <=> Mapped(e, w)
    BY <1>2, Zenon DEF Mapped
  <2>2. Contents(e)' /\ Transit(e)'
    <3>1. Local(e)
      BY <1>1, Zenon
    <3>2. Contents(e)'
      BY <1>2, <1>4, <3>1, Zenon DEF Local, Contents, Mapped, Holding
    <3> QED BY <1>2, <1>4, <3>2, Idle
  <2>3. Family(e)' /\ Present(e)'
    <3>1. Family(e)'
      BY <1>2, <1>4, FrameFacts, Zenon DEF Family, ForkPoints, SpawnPoints
    <3>2. Present(e)'
      BY <1>1, <1>2, <2>1, PageFacts, Zenon DEF Local, Present, Complete
    <3> QED BY <3>1, <3>2, Zenon
  <2>4. Handlers(e)' /\ ProgOpen(e)'
    <3>1. pc[e] \in {"exofork", "spawnfork"} /\ (e \in handler' <=> e \in handler)
          /\ (e \in leaked' <=> e \in leaked)
      BY <1>2, Zenon
    <3>2. Handlers(e) /\ ProgOpen(e)
      BY <1>1, Zenon DEF Local
    <3> QED BY <1>2, <1>4, <2>1, <3>1, <3>2, PageFacts, Zenon
            DEF Handlers, Prepared, ProgOpen, SpawnPoints
  <2>5. Built(e)'
    <3>1. 1 \in 1 .. Len(PageOrder) + 1 /\ \A j \in 1 .. 1 - 1 : FALSE
      BY OrderFacts
    <3>2. p = "dup" => e \in handler /\ e \in handler' /\ c \in handler'
                       /\ (e \in leaked' => c \in leaked')
      BY <1>1, <1>2, Zenon DEF Local, Handlers
    <3>3. p = "initstack" => c \notin handler'
      BY <1>3, Zenon
    <3>4. Forking(e, c, 1)'
      BY <1>4, <3>1, <3>2, Zenon DEF Forking, Pagewise, ForkPoints
    <3>5. Spawning(e, c, 1)' /\ Starting(e, c)'
      BY <1>4, <3>3, Zenon DEF Spawning, Starting, SpawnPoints
    <3> QED BY <1>4, <3>4, <3>5, Zenon DEF Built
  <2> QED BY <2>2, <2>3, <2>4, <2>5, Zenon DEF Local
<1>10. Local(c)'
  <2>1. Embryo(c)'
    BY <1>2, <1>3, <1>4, PageFacts, Zenon DEF Embryo, Contents, Mapped
  <2> QED BY <2>1, EmbryoLocal, Zenon
<1> QED BY <1>2, <1>3, <1>5, <1>6, <1>7, <1>8, <1>9, <1>10, StepKeeps, Zenon

(* A page of the spawning environment is unmapped.                         *)
LEMMA RemovedFacts ==
  ASSUME TableType, NEW e \in Envs, NEW v \in AllPages, Map(e, v, NoPage)
  PROVE  /\ TableType' /\ PlaceOnly(e, v) /\ OnlyNew(e, v)
         /\ pt'[e][v].frame = None /\ pt'[e][v].perm = "none"
         /\ pt'[e][v].frame \notin Frames /\ ~Mapped(e, v)'
<1>1. NoPage \in EntriesOf(v) /\ NoPage.frame = None /\ NoPage.perm = "none"
  BY PageEntry, Zenon
<1>2. /\ TableType'
      /\ \A d \in Envs, w \in AllPages : pt'[d][w] = IF d = e /\ w = v THEN NoPage ELSE pt[d][w]
  BY <1>1, MapFacts
<1>3. pt'[e][v] = NoPage /\ PlaceOnly(e, v)
  BY <1>2, Zenon DEF PlaceOnly
<1>4. OnlyNew(e, v)
  BY <1>1, <1>3, FrameFacts, Zenon DEF OnlyNew, PlaceOnly
<1> QED BY <1>1, <1>2, <1>3, <1>4, FrameFacts, Zenon DEF Mapped

-----------------------------------------------------------------------------
(* A store of a program.                                                   *)

(* Nobody else has the frame of a page that may be written, but for the    *)
(* shared page.                                                            *)
LEMMA WriteExclusive ==
  ASSUME ChildInv, NEW e \in Envs, NEW v \in Data \cup {"lib"},
         status[e] = "run", fault[e] = None, pc[e] = "user", Writable(e, v)
  PROVE  /\ v \in AllPages /\ v \in Stored \cup {"lib"} /\ pt[e][v].frame \in Frames
         /\ \A d \in Envs, w \in AllPages :
              pt[d][w].frame = pt[e][v].frame => w = v /\ (v # "lib" => d = e)
<1>1. TableType /\ Sharing
  BY Zenon DEF ChildInv
<1>2. v \in AllPages /\ v \in Stored \cup {"lib"} /\ v \notin {"PFTEMP", "UTEMP"}
  BY PageFacts, Zenon DEF Stored
<1>3. pt[e][v].frame \in Frames /\ (v # "lib" => pt[e][v].perm = "w")
  BY <1>1, <1>2, TableFacts, PageFacts, Zenon DEF Writable
<1>4. \A d \in Envs : child[d] # e
  BY Apart, Zenon
<1>5. ASSUME NEW d \in Envs, NEW w \in AllPages
      PROVE  ~Moving(e, v, d, w) /\ ~Moving(d, w, e, v)
  BY <1>2, <1>4, Zenon DEF Moving
<1>6. ASSUME NEW d \in Envs, NEW w \in AllPages, pt[d][w].frame = pt[e][v].frame
      PROVE  w = v /\ (v # "lib" => d = e)
  <2>1. (e = d /\ v = w) \/ Shares(e, v, d, w)
    BY <1>1, <1>2, <1>3, <1>6, Zenon DEF Sharing
  <2> QED BY <1>3, <1>5, <2>1, Zenon DEF Shares
<1> QED BY <1>2, <1>3, <1>6, Zenon

LEMMA WriteInv ==
  ASSUME ChildInv, NEW e \in Envs, NEW v \in AllPages, NEW x \in Values, Write(e, v, x)
  PROVE  ChildInv'
<1>1. /\ TableType /\ ProcType /\ ValueType /\ Sharing /\ OneLib
      /\ \A d \in Envs : Local(d) /\ Watched(d)
  BY Zenon DEF ChildInv, Local
<1>2. /\ status[e] = "run" /\ fault[e] = None /\ pc[e] = "user"
      /\ v \in Data \cup {"lib"} /\ Writable(e, v) /\ Fill(pt[e][v].frame, x)
      /\ UNCHANGED <<status, upcall, handler, fault, pc, at, child, parent, leaked, pt>>
  BY Zenon DEF Write, Ready, procVars
<1>3. /\ v = "lib" => shm' = x /\ mem' = mem
      /\ v # "lib" => mem' = [mem EXCEPT ![e][v] = x] /\ shm' = shm
  BY Zenon DEF Write
<1>4. PICK f \in Frames :
        /\ f = pt[e][v].frame /\ f # None /\ v \in Stored \cup {"lib"}
        /\ \A d \in Envs, w \in AllPages : pt[d][w].frame = f => w = v /\ (v # "lib" => d = e)
  <2>1. /\ pt[e][v].frame \in Frames /\ v \in Stored \cup {"lib"}
        /\ \A d \in Envs, w \in AllPages :
             pt[d][w].frame = pt[e][v].frame => w = v /\ (v # "lib" => d = e)
    BY <1>2, WriteExclusive, Zenon
  <2> QED BY <2>1, FrameFacts, Zenon
<1>5. /\ content' \in [Frames -> Values]
      /\ \A g \in Frames : content'[g] = IF g = f THEN x ELSE content[g]
  BY <1>1, <1>2, <1>4, FillFacts DEF ValueType
<1>6. /\ mem' \in [Envs -> [Private -> Values]]
      /\ \A d \in Envs, w \in Private : mem'[d][w] = IF d = e /\ w = v THEN x ELSE mem[d][w]
      /\ \A d \in Envs : d # e => mem'[d] = mem[d]
  BY <1>1, <1>3, <1>4, PageFacts DEF ValueType
<1>7. TableType' /\ ProcType' /\ ValueType'
  <2>1. TableType' /\ ProcType'
    BY <1>1, <1>2, Zenon DEF TableType, ProcType
  <2> QED BY <1>1, <1>3, <1>5, <1>6, <2>1, Zenon DEF ValueType
<1>8. Sharing' /\ OneLib'
  BY <1>1, <1>2 DEF Sharing, OneLib, Shares, Moving, Mapped
<1>9. \A d \in Envs, w \in AllPages : Mapped(d, w)' <=> Mapped(d, w)
  BY <1>2, Zenon DEF Mapped
<1>10. ASSUME NEW d \in Envs PROVE Watched(d)' /\ Family(d)'
  <2>1. Watched(d)'
    BY <1>1, <1>2, Zenon DEF Watched
  <2>2. Family(d)
    BY <1>1, Zenon DEF Local
  <2> QED BY <1>2, <2>1, <2>2 DEF Family
<1>11. ASSUME NEW d \in Envs PROVE Present(d)' /\ Handlers(d)' /\ ProgOpen(d)'
  BY <1>1, <1>2, <1>9, PageFacts, Zenon DEF Local, Present, Complete, Handlers, Prepared, ProgOpen
<1>12. ASSUME NEW d \in Envs PROVE Built(d)'
  <2>1. child[e] = None /\ child[d] # e
    BY <1>2, Apart DEF ForkPoints, SpawnPoints
  <2>2. CASE d = e
    BY <1>2, <2>1, <2>2, Zenon DEF Built
  <2>3. CASE d # e
    <3>1. child[d] # None => Same(child[d])
      BY <1>1, <1>2, <1>6, <2>1, Zenon DEF Same, ProcType
    <3> QED BY <1>1, <1>2, <1>6, <2>3, <3>1, BuiltKept, Zenon DEF Local
  <2> QED BY <2>2, <2>3, Zenon
<1>13. ASSUME NEW d \in Envs PROVE Contents(d)'
  <2>0. Contents(d)
    BY <1>1, Zenon DEF Local
  <2>1. ASSUME NEW w \in Private \cup {"lib"}, Mapped(d, w)
        PROVE  /\ pt[d][w].frame \in Frames
               /\ content'[pt[d][w].frame] = IF pt[d][w].frame = f THEN x
                                             ELSE content[pt[d][w].frame]
    BY <1>1, <1>5, <2>1, TableFacts, PageFacts DEF Mapped
  <2>2. ASSUME NEW w \in Private, status[d] \in {"run", "building"}, Mapped(d, w)
        PROVE  content'[pt[d][w].frame] = mem'[d][w]
    <3>1. content[pt[d][w].frame] = mem[d][w] /\ w \in AllPages /\ w # "lib"
      BY <2>0, <2>2, PageFacts, Zenon DEF Contents, Holding
    <3>2. pt[d][w].frame = f <=> d = e /\ w = v
      BY <1>4, <3>1, Zenon
    <3> QED BY <1>6, <2>1, <2>2, <3>1, <3>2, Zenon
  <2>3. ASSUME Mapped(d, "lib") PROVE content'[pt[d]["lib"].frame] = shm'
    <3>1. content[pt[d]["lib"].frame] = shm /\ "lib" \in AllPages
      BY <2>0, <2>3, PageFacts, Zenon DEF Contents, Holding
    <3>2. CASE v = "lib"
      BY <1>1, <1>3, <1>4, <2>1, <2>3, <3>2, Zenon DEF OneLib, Mapped
    <3>3. CASE v # "lib"
      BY <1>3, <1>4, <2>1, <2>3, <3>1, <3>3, Zenon
    <3> QED BY <3>2, <3>3, Zenon
  <2> QED BY <1>2, <1>9, <2>2, <2>3, PageFacts, Zenon DEF Contents, Holding
<1>14. ASSUME NEW d \in Envs PROVE Transit(d)'
  <2>1. ASSUME NEW w \in {"UTEMP", "PFTEMP"}, NEW y, Holding(d, w, y) PROVE Holding(d, w, y)'
    <3>1. w \in AllPages /\ w # v /\ w # "prog"
      BY <1>4, PageFacts, Zenon
    <3>2. pt[d][w].frame \in Frames /\ pt[d][w].frame # f
      BY <1>1, <1>4, <2>1, <3>1, TableFacts, Zenon DEF Holding, Mapped
    <3> QED BY <1>2, <1>5, <2>1, <3>2, Zenon DEF Holding, Mapped
  <2>2. fault[d] # None => d # e
    BY <1>2, Zenon
  <2>3. Transit(d) /\ "PFTEMP" \in AllPages /\ "UTEMP" \in AllPages
    BY <1>1, PageFacts, Zenon DEF Local
  <2> QED BY <1>2, <1>6, <1>9, <2>1, <2>2, <2>3, Zenon DEF Transit
<1> QED BY <1>7, <1>8, <1>10, <1>11, <1>12, <1>13, <1>14, Zenon DEF ChildInv

-----------------------------------------------------------------------------
(* The steps of set_pgfault_handler that change no page, and the child's   *)
(* first step.                                                             *)
LEMMA QuietStep ==
  ASSUME ChildInv, NEW e \in Envs, NEW p \in {"user", "makexstack", "sethandler", "exofork"},
         status[e] = "run", fault[e] = None,
         pc[e] \in {"user", "setupcall", "sethandler", "childret"},
         pc' = [pc EXCEPT ![e] = p],
         upcall' \in {upcall, upcall \cup {e}}, handler' \in {handler, handler \cup {e}},
         UNCHANGED <<status, fault, at, child, parent, leaked, pt, content, mem, shm>>,
         Handlers(e)'
  PROVE  ChildInv'
<1>1. ProcType /\ Local(e)
  BY Zenon DEF ChildInv, Local
<1>2. child[e] = None
  BY Apart, Zenon DEF ForkPoints, SpawnPoints
<1>3. pc'[e] = p
  BY <1>1, Zenon DEF ProcType
<1>4. Contents(e)'
  BY <1>1, Zenon DEF Local, Contents, Holding, Mapped
<1>5. ProgOpen(e)'
  BY <1>1, <1>3, Zenon DEF Local, ProgOpen, Mapped, SpawnPoints
<1>6. \A w \in Private : Mapped(e, w) => Mapped(e, w)'
  BY Zenon DEF Mapped
<1>7. Local(e)'
  BY <1>1, <1>2, <1>3, <1>4, <1>5, <1>6, AloneLocal, Zenon DEF Local, ForkPoints, SpawnPoints
<1> QED BY <1>7, QuietKeeps, Zenon DEF Points

LEMMA BeginForkInv ==
  ASSUME ChildInv, NEW e \in Envs, BeginFork(e)
  PROVE  ChildInv'
<1>1. ProcType /\ Handlers(e)
  BY Zenon DEF ChildInv
<1>2. /\ status[e] = "run" /\ fault[e] = None /\ pc[e] = "user"
      /\ UNCHANGED <<status, upcall, handler, fault, at, child, parent,
                     leaked, pt, content, mem, shm>>
  BY Zenon DEF BeginFork, Ready
<1>3. PICK p \in {"makexstack", "sethandler"} :
        pc' = [pc EXCEPT ![e] = p] /\ (p = "sethandler" => e \in handler)
  BY Zenon DEF BeginFork, Goto
<1>4. pc'[e] = p
  BY <1>1, <1>3, Zenon DEF ProcType
<1>5. Handlers(e)'
  BY <1>1, <1>2, <1>3, <1>4, Zenon DEF Handlers, Prepared, Mapped
<1> QED BY <1>2, <1>3, <1>5, QuietStep, Zenon

LEMMA SetUpcallInv ==
  ASSUME ChildInv, NEW e \in Envs, SetUpcall(e)
  PROVE  ChildInv'
<1>1. ProcType /\ Handlers(e)
  BY Zenon DEF ChildInv
<1>2. /\ status[e] = "run" /\ fault[e] = None /\ pc[e] = "setupcall"
      /\ pc' = [pc EXCEPT ![e] = "sethandler"] /\ upcall' = upcall \cup {e}
      /\ UNCHANGED <<status, handler, fault, at, child, parent, leaked,
                     pt, content, mem, shm>>
  BY Zenon DEF SetUpcall, Ready, Goto
<1>3. pc'[e] = "sethandler"
  BY <1>1, <1>2, Zenon DEF ProcType
<1>4. Handlers(e)'
  BY <1>1, <1>2, <1>3, Zenon DEF Handlers, Prepared, Mapped
<1> QED BY <1>2, <1>4, QuietStep, Zenon

LEMMA SetHandlerInv ==
  ASSUME ChildInv, NEW e \in Envs, SetHandler(e)
  PROVE  ChildInv'
<1>1. ProcType /\ Handlers(e)
  BY Zenon DEF ChildInv
<1>2. /\ status[e] = "run" /\ fault[e] = None /\ pc[e] = "sethandler"
      /\ pc' = [pc EXCEPT ![e] = "exofork"] /\ handler' = handler \cup {e}
      /\ UNCHANGED <<status, upcall, fault, at, child, parent, leaked,
                     pt, content, mem, shm>>
  BY Zenon DEF SetHandler, Ready, Goto
<1>3. pc'[e] = "exofork"
  BY <1>1, <1>2, Zenon DEF ProcType
<1>4. Handlers(e)'
  BY <1>1, <1>2, <1>3, Zenon DEF Handlers, Prepared, Mapped
<1> QED BY <1>2, <1>4, QuietStep, Zenon

LEMMA ChildReturnsInv ==
  ASSUME ChildInv, NEW e \in Envs, ChildReturns(e)
  PROVE  ChildInv'
<1>1. ProcType /\ Handlers(e)
  BY Zenon DEF ChildInv
<1>2. /\ status[e] = "run" /\ fault[e] = None /\ pc[e] = "childret"
      /\ pc' = [pc EXCEPT ![e] = "user"]
      /\ UNCHANGED <<status, upcall, handler, fault, at, child, parent,
                     leaked, pt, content, mem, shm>>
  BY Zenon DEF ChildReturns, Ready, Goto
<1>3. pc'[e] = "user"
  BY <1>1, <1>2, Zenon DEF ProcType
<1>4. Handlers(e)'
  BY <1>1, <1>2, <1>3, Zenon DEF Handlers, Prepared, Mapped
<1> QED BY <1>2, <1>4, QuietStep, Zenon

-----------------------------------------------------------------------------
(* The page fault handler: each of its steps changes one page of the       *)
(* environment, and leaves what it was doing as it is.                     *)
LEMMA FaultStep ==
  ASSUME ChildInv, NEW e \in Envs, NEW v \in Stored \cup {"PFTEMP"},
         NEW x \in Faulting \cup {None}, status[e] = "run", e \in handler,
         fault' = [fault EXCEPT ![e] = x],
         UNCHANGED <<status, upcall, handler, pc, at, child, parent, leaked, mem, shm>>,
         PlaceOnly(e, v), v = "PFTEMP" \/ Mapped(e, v)',
         pt'[e][v].perm = "cow" => pt[e][v].perm = "cow",
         TableType', content' \in [Frames -> Values], \A d \in Envs : d # e => Steady(d),
         Contents(e)', Transit(e)', Sharing'
  PROVE  ChildInv'
<1>1. ProcType /\ ValueType /\ OneLib /\ Local(e)
  BY Zenon DEF ChildInv, Local
<1>2. ProcType' /\ ValueType'
  BY <1>1, Zenon DEF ProcType, ValueType
<1>3. OnlyPlace(e)
  BY <1>1, Zenon DEF OnlyPlace, ProcType
<1>4. v \in AllPages /\ v # "lib"
  BY PageFacts, Zenon
<1>5. OneLib'
  BY <1>1, <1>4, OneLibKept, Zenon
<1>6. child[e] # None => Same(child[e])
  <2>1. child[e] # None => child[e] \in Envs /\ child[e] # e
    BY Apart, Zenon
  <2>2. \A d \in Envs : d # e => Same(d)
    BY <1>3, Zenon DEF OnlyPlace, PlaceOnly, Same
  <2> QED BY <2>1, <2>2, Zenon
<1>7. \A w \in AllPages \ {"PFTEMP"} : Mapped(e, w)' <=> Mapped(e, w)
  <2>1. v # "PFTEMP" => Mapped(e, v)
    BY <1>1, PageFacts, Zenon DEF Local, Present, Complete
  <2> QED BY <1>4, <2>1, PlaceFacts, Zenon
<1>8. \A w \in AllPages : pt'[e][w].perm = "cow" => pt[e][w].perm = "cow"
  BY Zenon DEF PlaceOnly
<1>9. Family(e)' /\ Present(e)' /\ Built(e)' /\ Handlers(e)' /\ ProgOpen(e)'
  BY <1>1, <1>6, <1>7, <1>8, ProgressKept, Zenon
<1>10. Local(e)'
  BY <1>9, Zenon DEF Local
<1> QED BY <1>2, <1>3, <1>4, <1>5, <1>10, PlaceKeeps, Zenon

LEMMA FaultMoves ==
  ASSUME ProcType, NEW e \in Envs, NEW x, fault' = [fault EXCEPT ![e] = x],
         UNCHANGED <<pc, at, child>>,
         fault[e] # None /\ fault[e].step = "unmap" => pt'[e]["PFTEMP"].frame \notin Frames
  PROVE  MovesOn
<1>1. \A d \in Envs : d # e => fault'[d] = fault[d]
  BY Zenon DEF ProcType
<1> SUFFICES ASSUME NEW d \in Envs, NEW g \in Envs, NEW w \in AllPages, NEW u \in AllPages,
                    Moving(d, w, g, u), pt[d][w].frame \in Frames, pt'[d][w] = pt[d][w]
             PROVE  Moving(d, w, g, u)'
  BY Zenon DEF MovesOn
<1>2. CASE d # e
  BY <1>1, <1>2, Zenon DEF Moving
<1>3. CASE d = e
  BY <1>3, Zenon DEF Moving
<1> QED BY <1>2, <1>3, Zenon

(* What spawn has at UTEMP meanwhile stays there.                          *)
LEMMA FaultTransit ==
  ASSUME TableType, NEW e \in Envs, Transit(e), UNCHANGED <<pc, at>>,
         pt'[e]["UTEMP"] = pt[e]["UTEMP"],
         pt[e]["UTEMP"].frame \in Frames =>
           content'[pt[e]["UTEMP"].frame] = content[pt[e]["UTEMP"].frame],
         fault'[e] # None =>
           /\ fault'[e].step # "unmap" => pt'[e][fault'[e].page].perm = "cow"
           /\ fault'[e].step # "alloc" => Mapped(e, "PFTEMP")'
           /\ fault'[e].step = "map" => Holding(e, "PFTEMP", mem[e][fault[e].page])'
  PROVE  Transit(e)'
<1>1. "UTEMP" \in AllPages
  BY PageFacts, Zenon
<1>2. Mapped(e, "UTEMP") => pt[e]["UTEMP"].frame \in Frames
  BY <1>1, TableFacts, Zenon DEF Mapped
<1>3. /\ Mapped(e, "UTEMP") => Mapped(e, "UTEMP")'
      /\ \A y : Holding(e, "UTEMP", y) => Holding(e, "UTEMP", y)'
  BY <1>2, Zenon DEF Mapped, Holding
<1> QED BY <1>3, Zenon DEF Transit

LEMMA ThenFacts ==
  ASSUME ProcType, NEW e \in Envs, fault[e] # None,
         NEW s \in {"alloc", "copy", "map", "unmap"}, Then(e, s)
  PROVE  \E v \in Stored, x \in Faulting :
           /\ fault[e].page = v /\ fault' = [fault EXCEPT ![e] = x]
           /\ fault'[e] = x /\ x # None /\ x.page = v /\ x.step = s
<1>1. fault[e] \in Faulting
  BY Zenon DEF ProcType
<1>2. fault[e].page \in Stored
  BY <1>1, Zenon DEF Faulting
<1>3. PICK x : x = [fault[e] EXCEPT !.step = s]
  BY Zenon
<1>4. x \in Faulting /\ x.page = fault[e].page /\ x.step = s
  BY <1>1, <1>3, Zenon DEF Faulting
<1>5. fault' = [fault EXCEPT ![e] = x]
  BY <1>3, Zenon DEF Then
<1>6. fault'[e] = x
  BY <1>5, Zenon DEF ProcType
<1> QED BY <1>2, <1>4, <1>5, <1>6, FrameFacts, Zenon

LEMMA PgfaultAllocInv ==
  ASSUME ChildInv, NEW e \in Envs, PgfaultAlloc(e)
  PROVE  ChildInv'
<1>1. TableType /\ ProcType /\ ValueType /\ Sharing /\ Local(e)
  BY Zenon DEF ChildInv, Local
<1>2. status[e] = "run" /\ fault[e] # None /\ fault[e].step = "alloc" /\ UNCHANGED <<mem, shm>>
  BY Zenon DEF PgfaultAlloc, Handling
<1>3. pt[e][fault[e].page].perm = "cow" /\ e \in handler
  BY <1>1, <1>2, Zenon DEF Local, Transit, Handlers
<1>4. CASE panic(e)
  BY <1>2, <1>4, PanicInv, Zenon
<1>5. CASE /\ sys_page_alloc(e, "PFTEMP", "w") /\ Then(e, "copy")
           /\ UNCHANGED <<status, upcall, handler, pc, at, child, parent, leaked>>
  <2>1. PICK v \in Stored, x \in Faulting :
          /\ fault[e].page = v /\ fault' = [fault EXCEPT ![e] = x]
          /\ fault'[e] = x /\ x # None /\ x.page = v /\ x.step = "copy"
    BY <1>1, <1>2, <1>5, ThenFacts, Zenon
  <2>2. "PFTEMP" \in AllPages \ {"lib", "prog"} /\ "w" \in PermsOf("PFTEMP") /\ 0 \in Values
    BY PageFacts, PermFacts, ChildAssumption, Zenon
  <2>3. /\ TableType' /\ content' \in [Frames -> Values] /\ PlaceOnly(e, "PFTEMP")
        /\ pt'[e]["PFTEMP"].frame # None /\ pt'[e]["PFTEMP"].perm = "w"
        /\ \A d \in Envs, w \in AllPages : pt[d][w].frame # pt'[e]["PFTEMP"].frame
        /\ \A d \in Envs : Steady(d)
    <3>1. Free # {} /\ Map(e, "PFTEMP", Page(page_alloc, "w")) /\ Fill(page_alloc, 0)
      BY <1>5, Zenon DEF sys_page_alloc
    <3>2. /\ TableType' /\ content' \in [Frames -> Values]
          /\ \A d \in Envs, w \in AllPages : ~(d = e /\ w = "PFTEMP") => pt'[d][w] = pt[d][w]
          /\ pt'[e]["PFTEMP"].frame # None /\ pt'[e]["PFTEMP"].perm = "w"
          /\ \A d \in Envs, w \in AllPages : pt[d][w].frame # pt'[e]["PFTEMP"].frame
          /\ \A d \in Envs : Steady(d)
      BY <1>1, <2>2, <3>1, AllocFacts
    <3> QED BY <3>2, Zenon DEF PlaceOnly
  <2>4. Sharing'
    <3>1. MovesOn
      BY <1>1, <1>2, <1>5, <2>1, FaultMoves, Zenon
    <3>2. OnlyNew(e, "PFTEMP")
      BY <2>3, Zenon DEF OnlyNew, PlaceOnly
    <3> QED BY <1>1, <2>2, <3>1, <3>2, SharingKept, Zenon
  <2>5. \A w \in AllPages \ {"PFTEMP"} : pt'[e][w] = pt[e][w]
    BY <2>3, Zenon DEF PlaceOnly
  <2>6. Contents(e)'
    BY <1>1, <1>2, <1>5, <2>3, <2>5, PageFacts, ContentsKept, Zenon DEF Local
  <2>7. Transit(e)'
    <3>1. "UTEMP" \in AllPages \ {"PFTEMP"} /\ v \in AllPages \ {"PFTEMP"}
      BY PageFacts, Zenon
    <3>2. pt'[e]["UTEMP"] = pt[e]["UTEMP"] /\ pt'[e][v].perm = "cow" /\ Mapped(e, "PFTEMP")'
      BY <1>3, <2>1, <2>3, <2>5, <3>1, Zenon DEF Mapped
    <3>3. pt[e]["UTEMP"].frame \in Frames =>
            content'[pt[e]["UTEMP"].frame] = content[pt[e]["UTEMP"].frame]
      BY <2>3, <3>1, Zenon DEF Steady
    <3> QED BY <1>1, <1>5, <2>1, <3>2, <3>3, FaultTransit, Zenon DEF Local
  <2> QED BY <1>2, <1>3, <1>5, <2>1, <2>3, <2>4, <2>6, <2>7, FaultStep, Zenon
<1> QED BY <1>3, <1>4, <1>5, Zenon DEF PgfaultAlloc

(* The new page is filled while nobody else has it.                        *)
LEMMA PgfaultCopyInv ==
  ASSUME ChildInv, NEW e \in Envs, PgfaultCopy(e)
  PROVE  ChildInv'
<1>1. TableType /\ ProcType /\ ValueType /\ Sharing /\ Local(e)
  BY Zenon DEF ChildInv, Local
<1>2. /\ status[e] = "run" /\ fault[e] # None /\ fault[e].step = "copy"
      /\ Fill(pt[e]["PFTEMP"].frame, content[pt[e][fault[e].page].frame]) /\ Then(e, "map")
      /\ UNCHANGED <<status, upcall, handler, pc, at, child, parent, leaked, pt, mem, shm>>
  BY Zenon DEF PgfaultCopy, Handling
<1>3. PICK v \in Stored, x \in Faulting :
        /\ fault[e].page = v /\ fault' = [fault EXCEPT ![e] = x]
        /\ fault'[e] = x /\ x # None /\ x.page = v /\ x.step = "map"
  BY <1>1, <1>2, ThenFacts, Zenon
<1>4. pt[e][v].perm = "cow" /\ e \in handler /\ Mapped(e, "PFTEMP")
  BY <1>1, <1>2, <1>3, Zenon DEF Local, Transit, Handlers
<1>5. PICK f \in Frames :
        /\ f = pt[e]["PFTEMP"].frame /\ f # None
        /\ \A d \in Envs, w \in AllPages : pt[d][w].frame = f => d = e /\ w = "PFTEMP"
  <2>1. /\ pt[e]["PFTEMP"].frame \in Frames
        /\ \A d \in Envs, w \in AllPages :
             pt[d][w].frame = pt[e]["PFTEMP"].frame => d = e /\ w = "PFTEMP"
    BY <1>2, <1>4, TempExclusive, Zenon
  <2> QED BY <2>1, FrameFacts, Zenon
<1>6. v \in Private /\ v \in AllPages /\ v # "PFTEMP"
  BY PageFacts, Zenon
<1>7. PICK y \in Values : y = content[pt[e][v].frame] /\ y = mem[e][v]
  <2>1. Mapped(e, v)
    BY <1>1, <1>2, <1>6, Zenon DEF Local, Present, Complete
  <2>2. Holding(e, v, mem[e][v])
    BY <1>1, <1>2, <1>6, <2>1, Zenon DEF Local, Contents
  <2>3. mem[e][v] \in Values
    BY <1>1, <1>6, Zenon DEF ValueType
  <2> QED BY <2>2, <2>3, Zenon DEF Holding
<1>8. /\ content' \in [Frames -> Values]
      /\ \A g \in Frames : content'[g] = IF g = f THEN y ELSE content[g]
  <2>1. Fill(f, y)
    BY <1>2, <1>3, <1>5, <1>7, Zenon
  <2> QED BY <1>1, <2>1, FillFacts, Zenon DEF ValueType
<1>9. TableType' /\ PlaceOnly(e, "PFTEMP") /\ OnlyNew(e, "PFTEMP") /\ "PFTEMP" \in AllPages
  BY <1>1, <1>2, PageFacts, Zenon DEF TableType, PlaceOnly, OnlyNew
<1>10. \A d \in Envs : d # e => Steady(d)
  BY <1>5, <1>8, Zenon DEF Steady
<1>11. \A w \in AllPages \ {"PFTEMP"} :
         pt[e][w].frame \in Frames => content'[pt[e][w].frame] = content[pt[e][w].frame]
  BY <1>5, <1>8, Zenon
<1>12. Sharing'
  <2>1. MovesOn
    BY <1>1, <1>2, <1>3, FaultMoves, Zenon
  <2> QED BY <1>1, <1>9, <2>1, SharingKept, Zenon
<1>13. Contents(e)'
  <2>1. \A w \in Private \cup {"lib"} :
          pt[e][w].frame # None => content'[pt[e][w].frame] = content[pt[e][w].frame]
    BY <1>1, <1>11, PageFacts, TableFacts
  <2>2. Contents(e)
    BY <1>1, Zenon DEF Local
  <2> QED BY <1>2, <2>1, <2>2, Zenon DEF Contents, Holding, Mapped
<1>14. Transit(e)'
  <2>1. Mapped(e, "PFTEMP")' /\ Holding(e, "PFTEMP", mem[e][v])'
    BY <1>2, <1>5, <1>7, <1>8, Zenon DEF Mapped, Holding
  <2>2. "UTEMP" \in AllPages \ {"PFTEMP"}
    BY PageFacts, Zenon
  <2>3. pt[e]["UTEMP"].frame \in Frames =>
          content'[pt[e]["UTEMP"].frame] = content[pt[e]["UTEMP"].frame]
    BY <1>11, <2>2, Zenon
  <2> QED BY <1>1, <1>2, <1>3, <1>4, <2>1, <2>3, FaultTransit, Zenon DEF Local
<1> QED BY <1>2, <1>3, <1>4, <1>8, <1>9, <1>10, <1>12, <1>13, <1>14, FaultStep, Zenon

(* It takes the place of the copy-on-write page.                           *)
LEMMA PgfaultMapInv ==
  ASSUME ChildInv, NEW e \in Envs, PgfaultMap(e)
  PROVE  ChildInv'
<1>1. TableType /\ ProcType /\ ValueType /\ Sharing /\ Local(e)
  BY Zenon DEF ChildInv, Local
<1>2. /\ status[e] = "run" /\ fault[e] # None /\ fault[e].step = "map"
      /\ Map(e, fault[e].page, Page(pt[e]["PFTEMP"].frame, "w")) /\ Then(e, "unmap")
      /\ UNCHANGED <<status, upcall, handler, pc, at, child, parent, leaked, content, mem, shm>>
  BY Zenon DEF PgfaultMap, Handling
<1>3. PICK v \in Stored, x \in Faulting :
        /\ fault[e].page = v /\ fault' = [fault EXCEPT ![e] = x]
        /\ fault'[e] = x /\ x # None /\ x.page = v /\ x.step = "unmap"
  BY <1>1, <1>2, ThenFacts, Zenon
<1>4. Holding(e, "PFTEMP", mem[e][v]) /\ e \in handler
  BY <1>1, <1>2, <1>3, Zenon DEF Local, Transit, Handlers
<1>5. PICK f \in Frames :
        /\ f = pt[e]["PFTEMP"].frame /\ f # None /\ content[f] = mem[e][v]
        /\ \A d \in Envs, w \in AllPages : pt[d][w].frame = f => d = e /\ w = "PFTEMP"
  <2>1. Mapped(e, "PFTEMP")
    BY <1>4, Zenon DEF Holding
  <2> QED BY <1>2, <1>4, <2>1, TempExclusive, Zenon DEF Holding, Mapped
<1>6. /\ v \in Private /\ v \in AllPages \ {"prog"} /\ "w" \in PermsOf(v)
      /\ v \notin {"PFTEMP", "UTEMP", "lib"} /\ "PFTEMP" \in AllPages /\ "UTEMP" \in AllPages
  BY PageFacts, PermFacts, Zenon
<1>7. TableType' /\ PlaceOnly(e, v) /\ pt'[e][v].frame = f /\ pt'[e][v].perm = "w"
  <2>1. Page(f, "w") \in EntriesOf(v) /\ Page(f, "w").frame = f /\ Page(f, "w").perm = "w"
    BY <1>6, PageEntry, Zenon
  <2>2. Map(e, v, Page(f, "w"))
    BY <1>2, <1>3, <1>5, Zenon
  <2> QED BY <1>1, <1>6, <2>1, <2>2, MapFacts DEF PlaceOnly
<1>8. Sharing'
  <2>1. MovesOn
    BY <1>1, <1>2, <1>3, FaultMoves, Zenon
  <2>2. Moving(e, "PFTEMP", e, v)'
    BY <1>3, Zenon DEF Moving
  <2>3. ASSUME NEW d \in Envs, NEW w \in AllPages, ~(d = e /\ w = v), pt'[d][w].frame = f
        PROVE  Shares(d, w, e, v)'
    <3>1. d = e /\ w = "PFTEMP"
      BY <1>5, <1>7, <2>3, Zenon DEF PlaceOnly
    <3> QED BY <2>2, <3>1, Zenon DEF Shares
  <2> QED BY <1>1, <1>6, <1>7, <2>1, <2>3, SharingPlace, Zenon
<1>9. pt'[e]["UTEMP"] = pt[e]["UTEMP"] /\ pt'[e]["PFTEMP"] = pt[e]["PFTEMP"]
  BY <1>6, <1>7, Zenon DEF PlaceOnly
<1>10. Transit(e)'
  <2>1. Mapped(e, "PFTEMP")'
    BY <1>5, <1>9, Zenon DEF Mapped
  <2> QED BY <1>1, <1>2, <1>3, <1>9, <2>1, FaultTransit, Zenon DEF Local
<1>11. Contents(e)'
  <2>1. \A w \in Private \cup {"lib"} : w # v => pt'[e][w] = pt[e][w]
    BY <1>7, PageFacts, Zenon DEF PlaceOnly
  <2>2. Holding(e, v, mem[e][v])'
    BY <1>2, <1>5, <1>7, Zenon DEF Holding, Mapped
  <2>3. Contents(e)
    BY <1>1, Zenon DEF Local
  <2> QED BY <1>2, <1>6, <2>1, <2>2, <2>3, Zenon DEF Contents, Holding, Mapped
<1>12. \A d \in Envs : Steady(d)
  BY <1>2, Zenon DEF Steady
<1>13. Mapped(e, v)' /\ content' \in [Frames -> Values]
  BY <1>1, <1>2, <1>5, <1>7, Zenon DEF Mapped, ValueType
<1> QED BY <1>2, <1>3, <1>4, <1>7, <1>8, <1>10, <1>11, <1>12, <1>13, FaultStep, Zenon

LEMMA PgfaultUnmapInv ==
  ASSUME ChildInv, NEW e \in Envs, PgfaultUnmap(e)
  PROVE  ChildInv'
<1>1. TableType /\ ProcType /\ ValueType /\ Sharing /\ Local(e)
  BY Zenon DEF ChildInv, Local
<1>2. /\ status[e] = "run" /\ fault[e] # None /\ fault[e].step = "unmap"
      /\ Map(e, "PFTEMP", NoPage) /\ fault' = [fault EXCEPT ![e] = None]
      /\ UNCHANGED <<status, upcall, handler, pc, at, child, parent, leaked, content, mem, shm>>
  BY Zenon DEF PgfaultUnmap, Handling
<1>3. "PFTEMP" \in AllPages /\ e \in handler /\ fault'[e] = None
  BY <1>1, <1>2, PageFacts, Zenon DEF Local, Handlers, ProcType
<1>4. /\ TableType' /\ PlaceOnly(e, "PFTEMP") /\ OnlyNew(e, "PFTEMP")
      /\ pt'[e]["PFTEMP"].frame \notin Frames /\ pt'[e]["PFTEMP"].perm # "cow"
  BY <1>1, <1>2, <1>3, RemovedFacts, Zenon
<1>5. Sharing'
  <2>1. MovesOn
    BY <1>1, <1>2, <1>4, FaultMoves, Zenon
  <2> QED BY <1>1, <1>3, <1>4, <2>1, SharingKept, Zenon
<1>6. \A d \in Envs : Steady(d)
  BY <1>2, Zenon DEF Steady
<1>7. \A w \in AllPages \ {"PFTEMP"} : pt'[e][w] = pt[e][w]
  BY <1>4, Zenon DEF PlaceOnly
<1>8. Contents(e)'
  BY <1>1, <1>2, <1>6, <1>7, PageFacts, ContentsKept, Zenon DEF Local
<1>9. Transit(e)'
  <2>1. pt'[e]["UTEMP"] = pt[e]["UTEMP"]
    BY <1>7, PageFacts, Zenon
  <2> QED BY <1>1, <1>2, <1>3, <2>1, FaultTransit, Zenon DEF Local
<1>10. content' \in [Frames -> Values]
  BY <1>1, <1>2, Zenon DEF ValueType
<1> QED BY <1>2, <1>3, <1>4, <1>5, <1>6, <1>8, <1>9, <1>10, FaultStep, Zenon

(* Whoever faults has a copy-on-write page, and so the means to handle the *)
(* fault: the kernel does not destroy it.                                  *)
LEMMA FaultsInv ==
  ASSUME ChildInv, NEW e \in Envs, NEW v \in AllPages, Faults(e, v)
  PROVE  ChildInv'
<1>1. TableType /\ ProcType /\ ValueType /\ Sharing /\ Local(e)
  BY Zenon DEF ChildInv, Local
<1>2. /\ status[e] = "run" /\ fault[e] = None /\ v \in Stored
      /\ pt[e][v].perm \notin {"w", "share"} /\ TakeFault(e, v)
  BY Zenon DEF Faults, Needs, Writable, Stored
<1>3. pt[e][v].perm = "cow"
  <2>1. Mapped(e, v)
    BY <1>1, <1>2, PageFacts, Zenon DEF Local, Present, Complete
  <2> QED BY <1>1, <1>2, <2>1, TableFacts, Zenon DEF Mapped
<1>4. e \in handler /\ e \in upcall /\ Mapped(e, "xstack")
  BY <1>1, <1>2, <1>3, Zenon DEF Local, Handlers, Prepared
<1>5. Writable(e, "xstack")
  <2>1. pt[e]["xstack"].frame # None /\ "xstack" \in AllPages
    BY <1>4, PageFacts, Zenon DEF Mapped
  <2>2. pt[e]["xstack"].perm = "w"
    BY <1>1, <2>1, TableFacts, Zenon
  <2> QED BY <2>2, Zenon DEF Writable
<1>6. PICK x \in Faulting : x = [page |-> v, step |-> "alloc"]
  BY <1>2, Zenon DEF Faulting
<1>7. /\ fault' = [fault EXCEPT ![e] = x]
      /\ UNCHANGED <<status, pt, content, upcall, handler, pc, at, child, parent, leaked, mem, shm>>
  BY <1>2, <1>4, <1>5, <1>6, Zenon DEF TakeFault
<1>8. fault'[e] = x /\ x.page = v /\ x.step = "alloc"
  BY <1>1, <1>6, <1>7, Zenon DEF ProcType
<1>9. /\ TableType' /\ content' \in [Frames -> Values] /\ "PFTEMP" \in AllPages
      /\ PlaceOnly(e, "PFTEMP") /\ OnlyNew(e, "PFTEMP") /\ \A d \in Envs : Steady(d)
  BY <1>1, <1>7, PageFacts, Zenon DEF TableType, ValueType, PlaceOnly, OnlyNew, Steady
<1>10. Sharing'
  <2>1. MovesOn
    BY <1>1, <1>2, <1>7, FaultMoves, Zenon
  <2> QED BY <1>1, <1>9, <2>1, SharingKept, Zenon
<1>11. Contents(e)'
  BY <1>1, <1>7, Zenon DEF Local, Contents, Holding, Mapped
<1>12. Transit(e)'
  BY <1>1, <1>3, <1>7, <1>8, FaultTransit, Zenon DEF Local
<1> QED BY <1>2, <1>4, <1>7, <1>9, <1>10, <1>11, <1>12, FaultStep, Zenon

(* An environment that exits leaves its pages to the others.               *)
LEMMA ExitInv ==
  ASSUME ChildInv, NEW e \in Envs, Exit(e)
  PROVE  ChildInv'
<1>1. /\ TableType /\ ProcType /\ ValueType /\ Sharing /\ OneLib
      /\ Local(e) /\ \A d \in Envs : Watched(d)
  BY Zenon DEF ChildInv, Local
<1>2. /\ status[e] = "run" /\ fault[e] = None /\ pc[e] = "user"
      /\ status' = [status EXCEPT ![e] = "gone"]
      /\ pt' = [pt EXCEPT ![e] = [v \in AllPages |-> NoPage]]
      /\ UNCHANGED <<upcall, handler, fault, pc, at, child, parent, leaked, content, mem, shm>>
  BY Zenon DEF Exit, Ready, Becomes
<1>3. NoPage.frame = None /\ NoPage.perm = "none" /\ None \notin Frames
  BY PageEntry, FrameFacts, Zenon
<1>4. /\ TableType'
      /\ \A d \in Envs, w \in AllPages : pt'[d][w] = IF d = e THEN NoPage ELSE pt[d][w]
  BY <1>1, <1>2, ClearFacts, Zenon
<1>5. ProcType' /\ ValueType'
  BY <1>1, <1>2, Zenon DEF ProcType, ValueType
<1>6. OneLib'
  <2>1. \A d \in Envs : Mapped(d, "lib")' => Mapped(d, "lib") /\ pt'[d]["lib"] = pt[d]["lib"]
    BY <1>3, <1>4, PageFacts, Zenon DEF Mapped
  <2> QED BY <1>1, <2>1 DEF OneLib
<1>7. Sharing'
  <2>1. MovesOn
    BY <1>2 DEF MovesOn, Moving
  <2>2. OnlyNew(e, "stack") /\ "stack" \in AllPages
    BY <1>3, <1>4, PageFacts DEF OnlyNew
  <2> QED BY <1>1, <2>1, <2>2, SharingKept, Zenon
<1>8. \A d \in Envs : Watched(d)' /\ child[d] # e /\ Steady(d) /\ (d # e => Same(d))
  <2>1. child[e] = None /\ \A d \in Envs : child[d] # e /\ Steady(d)
    <3>1. child[e] = None
      BY <1>1, <1>2, Zenon DEF Local, Family, ForkPoints, SpawnPoints
    <3>2. \A d \in Envs : child[d] # e
      BY <1>2, Apart
    <3> QED BY <1>2, <3>1, <3>2, Zenon DEF Steady
  <2>2. \A d \in Envs : d # e => status'[d] = status[d]
    BY <1>1, <1>2, Zenon DEF ProcType
  <2>3. status'[e] = "gone"
    BY <1>1, <1>2, Zenon DEF ProcType
  <2>4. \A d \in Envs : d # e => Same(d)
    <3> SUFFICES ASSUME NEW d \in Envs, d # e PROVE Same(d)
      OBVIOUS
    <3>1. \A w \in AllPages : pt'[d][w] = pt[d][w]
      BY <1>4, Zenon
    <3> QED BY <1>2, <2>2, <3>1 DEF Same
  <2>5. ASSUME NEW d \in Envs PROVE Watched(d)'
    <3> SUFFICES ASSUME status'[d] = "building" PROVE Watched(d)'
      BY Zenon DEF Watched
    <3>1. d # e /\ status[d] = "building" /\ Watched(d)
      BY <1>1, <2>2, <2>3, Zenon
    <3>2. PICK q \in Envs : q = parent[d]
      BY <3>1, Zenon DEF Watched
    <3>3. status'[q] \notin {"free", "building"}
      BY <2>2, <2>3, <3>1, <3>2, Zenon DEF Watched
    <3>4. (child[q] = d /\ status[q] \in {"run", "panic"}) \/ q \in leaked
      BY <3>1, <3>2, Zenon DEF Watched
    <3>5. CASE q = e
      BY <1>2, <2>1, <3>2, <3>3, <3>4, <3>5, FrameFacts, Zenon DEF Watched
    <3>6. CASE q # e
      BY <1>2, <2>2, <3>2, <3>3, <3>4, <3>6, Zenon DEF Watched
    <3> QED BY <3>5, <3>6, Zenon
  <2> QED BY <2>1, <2>4, <2>5, Zenon
<1>9. Local(e)'
  <2>1. /\ status'[e] = "gone" /\ child[e] = None
        /\ \A w \in AllPages : ~Mapped(e, w)' /\ pt'[e][w].perm # "cow"
    BY <1>1, <1>2, <1>3, <1>4, Apart DEF ProcType, Mapped, ForkPoints, SpawnPoints
  <2>2. Family(e)' /\ Transit(e)' /\ Built(e)'
    BY <1>2, <2>1, Zenon DEF Family, Transit, Built, ForkPoints, SpawnPoints
  <2>3. Contents(e)' /\ Present(e)' /\ Handlers(e)' /\ ProgOpen(e)'
    BY <1>2, <2>1, PageFacts, Zenon DEF Contents, Present, Handlers, ProgOpen
  <2> QED BY <2>2, <2>3, Zenon DEF Local
<1> QED BY <1>2, <1>4, <1>5, <1>6, <1>7, <1>8, <1>9, StepKeeps, Zenon
=============================================================================
