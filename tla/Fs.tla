--------------------------------- MODULE Fs ----------------------------------
(***************************************************************************)
(* The file system of JOS (fs/fs.c), its block cache (fs/bc.c) and the     *)
(* disk under it (fs/ide.c).                                               *)
(*                                                                         *)
(* The file server works on one request at a time, in memory; flush_block  *)
(* writes a block of the cache to the disk at once.  So a request changes  *)
(* memory in one step, and is followed by the disk writes it makes, one    *)
(* step each, before it is answered: the machine may stop between any two  *)
(* of them, and starts again with what is on the disk, whatever that is.   *)
(*                                                                         *)
(* Sizes and offsets are in blocks, and a read or a write is of one block. *)
(* The functions of fs.c are operators on a session record m:              *)
(*   root, free, blk   the cached super block, bitmap and other blocks     *)
(*   mapped            the blocks that are in the cache                    *)
(*   disk, log         the disk after the writes made so far, and these    *)
(*                     writes, each as the disk after it                   *)
(*   ret               what the function returned                          *)
(*   panic, stale      has the server panicked?  has it taken bytes of     *)
(*                     another kind for struct Files or pointers?          *)
(***************************************************************************)
EXTENDS Integers, Sequences, FiniteSets, FiniteSetsExt

CONSTANTS
  NBLOCKS,             \* super->s_nblocks
  NDIRECT, NINDIRECT,
  BLKFILES,            \* struct Files in a block of a directory
  Names,               \* names of the clients' files in the root directory
  Motd,                \* the name /newmotd, of a file they leave alone
  Files,               \* the files fsformat may put there, as sequences
  Bytes,               \* what a client can write into a block
  MAXOPS, MAXBOOTS,    \* bounds on the requests and the starts of the server
  None

MAXFILE == NDIRECT + NINDIRECT
Sizes == 0 .. MAXFILE + 1         \* a size is not checked against the limit
Blocks == 3 .. NBLOCKS - 1        \* after the super block and the bitmap
Numbers == {0} \cup Blocks        \* 0 is the null pointer of block numbers
Slots == 1 .. BLKFILES

E_NO_DISK == 9
E_NOT_FOUND == 11
E_INVAL == 3
Message == 9                      \* what fs_test expects in /newmotd

ASSUME FsAssumption ==
  /\ NBLOCKS \in Nat /\ NBLOCKS >= 6
  /\ NDIRECT \in Nat \ {0} /\ NINDIRECT \in Nat /\ BLKFILES \in Nat \ {0}
  /\ {None, Motd} \cap Names = {} /\ None # Motd /\ Bytes \subseteq Nat \ {0, Message}
  /\ MAXOPS \in Nat /\ MAXBOOTS \in Nat

NoFile == [name |-> None, size |-> 0,
           direct |-> [k \in 0 .. NDIRECT - 1 |-> 0], indirect |-> 0]

(* A block holds data, pointers or struct Files.  The model does not       *)
(* follow the server when it takes one for another: see Misread.           *)
Cleared == [data |-> 0, ptr |-> [k \in 0 .. NINDIRECT - 1 |-> 0],
            file |-> [s \in Slots |-> NoFile]]

VARIABLES
  mem,       \* what the server has in memory (without the writes)
  disk,      \* what is on the disk
  log,       \* the writes the request under way has still to make
  request,   \* that request, or None
  promise,   \* what the last flush or sync promised about each file
  start,     \* the disk the server started from: was it sound, and how
             \* many blocks were lost on it?
  ops, boots

vars == <<mem, disk, log, request, promise, start, ops, boots>>

-----------------------------------------------------------------------------
(* Results and panics.  A panic ends the server.                           *)

Returns(m, r) == [m EXCEPT !.ret = r]
Panic(m) == [m EXCEPT !.panic = TRUE]
With(m, Op(_)) == Op(m)
Then(m, Op(_)) == IF m.panic \/ m.ret < 0 THEN m ELSE Op(m)

(* for (k in S, in increasing order) Op(m, k).                             *)
ForEach(m, S, Op(_, _)) ==
  MapThenFoldSet(LAMBDA k, x : IF x.panic THEN x ELSE Op(x, k),
                 m, LAMBDA k : k, Max, S)

(* bc_pgfault brings a block in from the disk when it is first touched;    *)
(* until then blk has it as it is there.                                   *)
Touch(m, b) ==
  IF b \in m.mapped THEN m
  ELSE LET n == [m EXCEPT !.mapped = @ \cup {b}]
       IN  IF b \in m.free THEN Panic(n) ELSE n

(* flush_block writes every block that is in the cache, dirty or not.  A   *)
(* write that does not change the disk is left out.                        *)
Flush(m, b) ==
  LET d == IF b = 1 THEN [m.disk EXCEPT !.root = m.root]
           ELSE IF b = 2 THEN [m.disk EXCEPT !.free = m.free]
           ELSE [m.disk EXCEPT !.blk[b] = m.blk[b]]
  IN  IF m.panic \/ b \notin m.mapped \/ d = m.disk THEN m
      ELSE [m EXCEPT !.disk = d, !.log = Append(@, d)]

-----------------------------------------------------------------------------
(* Blocks.                                                                 *)

FreeBlock(m, b) == IF b = 0 THEN Panic(m) ELSE [m EXCEPT !.free = @ \cup {b}]

(* alloc_block takes the first free block.  What it flushes is the block,  *)
(* and not the bitmap.                                                     *)
AllocBlock(m) ==
  IF m.free = {} THEN Returns(m, -E_NO_DISK)
  ELSE LET b == Min(m.free)
       IN  Returns(Flush([m EXCEPT !.free = @ \ {b}], b), b)

(* A struct File f is the root in the super block, or slot f[2] of block   *)
(* f[1] of the root directory.                                             *)
Root == <<1, 0>>
File(m, f) == IF f = Root THEN m.root ELSE m.blk[f[1]].file[f[2]]
SetFile(m, f, r) == IF f = Root THEN [m EXCEPT !.root = r]
                    ELSE [m EXCEPT !.blk[f[1]].file[f[2]] = r]

(* The pointer to block n of f: *ppdiskbno of file_block_walk.             *)
Pointer(m, f, n) ==
  IF n < NDIRECT THEN File(m, f).direct[n]
  ELSE m.blk[File(m, f).indirect].ptr[n - NDIRECT]
SetPointer(m, f, n, b) ==
  IF n < NDIRECT THEN SetFile(m, f, [File(m, f) EXCEPT !.direct[n] = b])
  ELSE [m EXCEPT !.blk[File(m, f).indirect].ptr[n - NDIRECT] = b]

HasBlock(m, f, n) ==
  /\ n < MAXFILE /\ (n < NDIRECT \/ File(m, f).indirect # 0)
  /\ Pointer(m, f, n) # 0

(* file_block_walk makes a cleared indirect block when it has to.  If f    *)
(* itself lies in that block, which the bitmap says is free, the pointer   *)
(* to it is gone and diskaddr panics.                                      *)
NewIndirect(m, f) ==
  Then(AllocBlock(m), LAMBDA x :
    With([Touch(SetFile(x, f, [File(x, f) EXCEPT !.indirect = x.ret]), x.ret)
            EXCEPT !.blk[x.ret] = Cleared], LAMBDA y :
      IF File(y, f).indirect = 0 THEN Panic(y) ELSE Returns(Flush(y, x.ret), 0)))

BlockWalk(m, f, n, alloc) ==
  IF n >= MAXFILE THEN Returns(m, -E_INVAL)
  ELSE IF n < NDIRECT THEN Returns(m, 0)
  ELSE IF File(m, f).indirect # 0 THEN Returns(Touch(m, File(m, f).indirect), 0)
  ELSE IF alloc THEN NewIndirect(m, f) ELSE Returns(m, -E_NOT_FOUND)

(* file_get_block returns the block.  When the disk is full it stores the  *)
(* error code as a block number, which diskaddr then refuses.              *)
GetBlock(m, f, n) ==
  Then(BlockWalk(m, f, n, TRUE), LAMBDA w :
    IF Pointer(w, f, n) # 0 THEN Returns(w, Pointer(w, f, n))
    ELSE With(AllocBlock(w), LAMBDA a :
           IF a.ret < 0 THEN Panic(a) ELSE SetPointer(a, f, n, a.ret)))

(* file_free_block; *ptr is looked at only when there is one.              *)
FreeFileBlock_Dangling(m, f, n) ==
  With(BlockWalk(m, f, n, FALSE), LAMBDA w :
    IF w.ret < 0 \/ Pointer(w, f, n) = 0 THEN Returns(w, 0)
    ELSE FreeBlock(w, Pointer(w, f, n)))
FreeFileBlock_NoTest(m, f, n) ==
  With(BlockWalk(m, f, n, FALSE), LAMBDA w :
    IF w.ret < 0 THEN Returns(w, 0)
    ELSE SetPointer(FreeBlock(w, Pointer(w, f, n)), f, n, 0))
FreeFileBlock(m, f, n) ==
  With(BlockWalk(m, f, n, FALSE), LAMBDA w :
    IF w.ret < 0 \/ Pointer(w, f, n) = 0 THEN Returns(w, 0)
    ELSE SetPointer(FreeBlock(w, Pointer(w, f, n)), f, n, 0))

FileBlocks(m, f) == 0 .. File(m, f).size - 1

FreeFileBlocks(m, f, n) ==
  ForEach(m, n .. File(m, f).size - 1, LAMBDA x, k : FreeFileBlock(x, f, k))
FileTruncateBlocks_Lost(m, f, n) ==
  With(FreeFileBlocks(m, f, n), LAMBDA t :
    IF n <= NDIRECT THEN SetFile(t, f, [File(t, f) EXCEPT !.indirect = 0]) ELSE t)
FileTruncateBlocks(m, f, n) ==
  With(FreeFileBlocks(m, f, n), LAMBDA t :
    IF n <= NDIRECT /\ File(t, f).indirect # 0
    THEN SetFile(FreeBlock(t, File(t, f).indirect), f,
                 [File(t, f) EXCEPT !.indirect = 0])
    ELSE t)

FileSetSize(m, f, n) ==
  With(IF File(m, f).size > n THEN FileTruncateBlocks(m, f, n) ELSE m, LAMBDA t :
    Flush(SetFile(t, f, [File(t, f) EXCEPT !.size = n]), f[1]))

(* file_flush: the data, the block f is in, in the end the indirect block. *)
FlushData(m, f) ==
  ForEach(m, FileBlocks(m, f), LAMBDA x, k :
    With(BlockWalk(x, f, k, FALSE), LAMBDA w :
      IF w.ret < 0 \/ Pointer(w, f, k) = 0 THEN w ELSE Flush(w, Pointer(w, f, k))))
FileFlush(m, f) ==
  With(Flush(FlushData(m, f), f[1]), LAMBDA e :
    IF File(e, f).indirect = 0 THEN e ELSE Flush(e, File(e, f).indirect))

(* fs_sync goes through the blocks in order.                               *)
FsSync_NotTheBitmap(m) == ForEach(m, 3 .. NBLOCKS - 1, Flush)
FsSync(m) == ForEach(m, 1 .. NBLOCKS - 1, Flush)

-----------------------------------------------------------------------------
(* Files and the root directory.                                           *)

(* The struct Files of the directory in order, and the one with a name.    *)
Entry(m, p) == <<Pointer(m, Root, p \div BLKFILES), (p % BLKFILES) + 1>>
Positions(m) ==
  {p \in 0 .. m.root.size * BLKFILES - 1 : HasBlock(m, Root, p \div BLKFILES)}
Named(m, name) == {p \in Positions(m) : File(m, Entry(m, p)).name = name}
Has(m, name) == Named(m, name) # {}
Lookup(m, name) == Entry(m, Min(Named(m, name)))

(* Block k of the directory, a new one if there is none.  Nothing clears a *)
(* new block: when it has been in use before, the bytes found there are    *)
(* taken for the names, sizes and blocks of files.                         *)
DirBlock(m, k) ==
  Then(GetBlock(m, Root, k), LAMBDA x :
    [Touch(x, x.ret) EXCEPT
       !.stale = @ \/ (~HasBlock(m, Root, k) /\ x.blk[x.ret] # Cleared)])

(* dir_lookup, for a name that is not there, looks into every block of the *)
(* directory.  fs_test does so for /not-found when the server starts, so   *)
(* that a later lookup finds all of them in the cache.                     *)
DirLookup(m) ==
  ForEach(m, FileBlocks(m, Root), LAMBDA x, k :
    Then(x, LAMBDA y : DirBlock(y, k)))

(* dir_alloc_file returns a free struct File, in a new block if need be.   *)
DirAllocFile(m) ==
  IF Has(m, None) THEN [m |-> m, f |-> Lookup(m, None)]
  ELSE With(DirBlock([m EXCEPT !.root.size = @ + 1], m.root.size), LAMBDA grown :
         [m |-> grown, f |-> <<grown.ret, 1>>])

FileCreate(m, name) ==
  Then(DirLookup(m), LAMBDA x :
    With(DirAllocFile(x), LAMBDA a :
      IF a.m.ret < 0 \/ a.m.panic \/ a.m.stale THEN a.m
      ELSE Returns(FileFlush(SetFile(a.m, a.f,
                               [File(a.m, a.f) EXCEPT !.name = name]), Root), 0)))

(* file_read of block n, which makes the block if the file has a hole.     *)
FileRead(m, f, n) ==
  IF n >= File(m, f).size THEN Returns(m, 0)
  ELSE Then(GetBlock(m, f, n), LAMBDA x : Touch(x, x.ret))

(* serve_write sets the size itself, so that file_write never calls        *)
(* file_set_size and never flushes.                                        *)
FileWrite(m, f, n, v) ==
  LET s == SetFile(m, f, [File(m, f) EXCEPT !.size = Max({@, n + 1})])
  IN  Then(GetBlock(s, f, n), LAMBDA x :
        Then(Touch(x, x.ret), LAMBDA y :
          [y EXCEPT !.blk[y.ret] = [Cleared EXCEPT !.data = v]]))

-----------------------------------------------------------------------------
(* The pointers to blocks, each with the struct File and the place it is.  *)
AllFiles(m) ==
  {Root} \cup {Entry(m, p) : p \in {q \in Positions(m) :
                                      File(m, Entry(m, q)).name # None}}
Indices(m, f) == {k \in 0 .. MAXFILE - 1 : HasBlock(m, f, k)}
PointersOf(m, f) ==
  {<<Pointer(m, f, k), f, k>> : k \in Indices(m, f)}
  \cup (IF File(m, f).indirect = 0 THEN {}
        ELSE {<<File(m, f).indirect, f, MAXFILE>>})
Pointers(m) == UNION {PointersOf(m, f) : f \in AllFiles(m)}
BlocksIn(P) == {x[1] : x \in P}

(* After the machine stopped at a bad moment a block may be in use twice.  *)
(* Then a block of the directory may come to hold data or pointers, or an  *)
(* indirect block data or struct Files.                                    *)
Misread(m) ==
  \/ \E k \in Indices(m, Root) :
       m.blk[Pointer(m, Root, k)] # [Cleared EXCEPT !.file = m.blk[Pointer(m, Root, k)].file]
  \/ \E f \in AllFiles(m) :
       LET i == File(m, f).indirect
       IN  i # 0 /\ m.blk[i] # [Cleared EXCEPT !.ptr = m.blk[i].ptr]

(* A disk is sound when no block belongs to two files or twice to one,     *)
(* none that belongs to a file is free, and none is taken for what it is   *)
(* not.  A block is lost that is neither in use nor free.                  *)
Disjoint(m) ==
  LET P == Pointers(m)
  IN  Cardinality(BlocksIn(P)) = Cardinality(P) /\ BlocksIn(P) \cap m.free = {}
Lost(m) == Cardinality(Blocks \ (BlocksIn(Pointers(m)) \cup m.free))
StartOf(d) == [sound |-> Disjoint(d) /\ ~Misread(d), lost |-> Lost(d)]

-----------------------------------------------------------------------------
(* The server starts: fs_init, then fs_test, which takes a block and       *)
(* forgets it, reads /newmotd, truncates it and writes it again.           *)
Session(m) == [root |-> m.root, free |-> m.free, blk |-> m.blk,
               mapped |-> {1, 2}, disk |-> m, log |-> <<>>,
               ret |-> 0, panic |-> FALSE, stale |-> FALSE]
Memory(m) == [root |-> m.root, free |-> m.free, blk |-> m.blk,
              mapped |-> m.mapped, panic |-> m.panic,
              stale |-> m.stale \/ Misread(m)]
FirstBlock(m, f) == Then(GetBlock(m, f, 0), LAMBDA x : Touch(x, x.ret))
Rewritten(m, f) ==
  With(FirstBlock(FileSetSize(FileSetSize(FileFlush(m, f), f, 0), f, 1), f), LAMBDA x :
    IF x.panic THEN x ELSE FileFlush([x EXCEPT !.blk[x.ret].data = Message], f))
FsTest(m, f) ==
  With(FirstBlock(m, f), LAMBDA x :
    IF x.panic \/ x.blk[x.ret].data # Message THEN Panic(x) ELSE Rewritten(x, f))
Start(d) ==
  With(AllocBlock(Session(d)), LAMBDA a :
    IF a.ret < 0 THEN Panic(a)
    ELSE With(DirLookup(a), LAMBDA m :
           IF m.panic \/ m.ret < 0 \/ ~Has(m, Motd) THEN Panic(m)
           ELSE FsTest(m, Lookup(m, Motd))))

(* The disk as fsformat leaves it: block 3 is the root directory, block 4  *)
(* is /newmotd, and the other files are empty.                             *)
InitDisk(names) ==
  [root |-> [NoFile EXCEPT !.size = 1, !.direct[0] = 3],
   free |-> 5 .. NBLOCKS - 1,
   blk  |-> [b \in Blocks |->
              IF b = 3 THEN [Cleared EXCEPT !.file = [s \in Slots |->
                 IF s = 1 THEN [NoFile EXCEPT !.name = Motd, !.size = 1, !.direct[0] = 4]
                 ELSE IF s <= Len(names) + 1 THEN [NoFile EXCEPT !.name = names[s - 1]]
                 ELSE NoFile]]
              ELSE IF b = 4 THEN [Cleared EXCEPT !.data = Message]
              ELSE Cleared]]

-----------------------------------------------------------------------------
Init ==
  \E names \in Files : \E m \in {Start(InitDisk(names))} :
    /\ mem = Memory(m) /\ disk = InitDisk(names) /\ log = m.log
    /\ request = (IF m.log = <<>> THEN None ELSE <<"start", None>>)
    /\ promise = [n \in Names |-> None] /\ start = StartOf(InitDisk(names))
    /\ ops = 0 /\ boots = 1

(* What a client sees of a file: its size, and its blocks or holes.        *)
View(m, n) ==
  IF ~Has(m, n) THEN None
  ELSE LET f == Lookup(m, n)
       IN  [k \in FileBlocks(m, f) |->
              IF HasBlock(m, f, k) THEN m.blk[Pointer(m, f, k)].data ELSE None]

(* A promise about a file ends when the file changes; a sync or a flush    *)
(* makes one when it is answered, which is when its writes are made, if    *)
(* the server started from a sound disk.                                   *)
Kept(m, n) == IF View(m, n) = View(mem, n) THEN promise[n] ELSE None
Granted(req, m, n, p) ==
  IF m.panic \/ ~start.sound THEN p
  ELSE IF req[1] = "sync" THEN [by |-> "sync", view |-> View(m, n)]
  ELSE IF req = <<"flush", n>> /\ p = None
       THEN [by |-> "flush", view |-> View(m, n)]
  ELSE p

(* The server takes a request, works on it in memory, and has the writes   *)
(* of m still to make.                                                     *)
Serve(req, m) ==
  /\ request = None /\ ~mem.panic /\ ~mem.stale /\ ops < MAXOPS
  /\ mem' = Memory(m) /\ log' = m.log /\ ops' = ops + 1
  /\ \/ /\ m.log = <<>> /\ request' = None
        /\ promise' = [n \in Names |-> Granted(req, m, n, Kept(m, n))]
     \/ /\ m.log # <<>> /\ request' = req
        /\ promise' = [n \in Names |-> Kept(m, n)]
  /\ UNCHANGED <<disk, start, boots>>

(* ide_write of the next block.                                            *)
WriteBack ==
  /\ log # <<>>
  /\ disk' = Head(log) /\ log' = Tail(log)
  /\ \/ /\ Len(log) = 1 /\ request' = None
        /\ promise' = [n \in Names |-> Granted(request, mem, n, promise[n])]
     \/ Len(log) > 1 /\ UNCHANGED <<request, promise>>
  /\ UNCHANGED <<mem, start, ops, boots>>

Now == [root |-> mem.root, free |-> mem.free, blk |-> mem.blk,
        mapped |-> mem.mapped, disk |-> disk, log |-> <<>>,
        ret |-> 0, panic |-> FALSE, stale |-> FALSE]

(* A write changes the block it is about.                                  *)
NewByte(m, f, k) ==
  Min(IF HasBlock(m, f, k) THEN Bytes \ {m.blk[Pointer(m, f, k)].data}
                           ELSE Bytes)

ServeCreate(n) == ~Has(mem, n) /\ Serve(<<"create", n>>, FileCreate(Now, n))
ServeFile(n) ==
  /\ Has(mem, n)
  /\ LET f == Lookup(mem, n)
     IN  \/ \E k \in FileBlocks(mem, f) :
              Serve(<<"read", n>>, FileRead(Now, f, k))
         \/ \E k \in 0 .. MAXFILE :
              Serve(<<"write", n>>, FileWrite(Now, f, k, NewByte(mem, f, k)))
         \/ \E k \in 0 .. MAXFILE : Serve(<<"set_size", n>>, FileSetSize(Now, f, k))
         \/ Serve(<<"flush", n>>, FileFlush(Now, f))
ServeSync == Serve(<<"sync", None>>, FsSync(Now))

(* The machine stops at any moment, between two disk writes or after a     *)
(* panic, and starts again with what is on the disk.  The promise of a     *)
(* flush is then worth something only if the disk is sound.                *)
Restart ==
  /\ boots < MAXBOOTS
  /\ \E m \in {Start(disk)} :
       /\ mem' = Memory(m) /\ log' = m.log
       /\ request' = IF m.log = <<>> THEN None ELSE <<"start", None>>
  /\ start' = StartOf(disk)
  /\ promise' = [n \in Names |->
       IF promise[n] # None /\ promise[n].by = "flush" /\ ~start'.sound THEN None
       ELSE promise[n]]
  /\ boots' = boots + 1
  /\ UNCHANGED <<disk, ops>>

Next ==
  \/ \E n \in Names : ServeCreate(n) \/ ServeFile(n)
  \/ ServeSync \/ WriteBack \/ Restart

Spec == Init /\ [][Next]_vars

-----------------------------------------------------------------------------
FileRecords ==
  [name : Names \cup {Motd, None}, size : Sizes,
   direct : [0 .. NDIRECT - 1 -> Numbers], indirect : Numbers]
Contents ==
  [data : Bytes \cup {0, Message}, ptr : [0 .. NINDIRECT - 1 -> Numbers],
   file : [Slots -> FileRecords]]

(* Sizes and block numbers stay in their ranges, on the disk too.          *)
TypeOK ==
  /\ mem.root \in FileRecords /\ mem.free \subseteq Blocks
  /\ mem.blk \in [Blocks -> Contents]
  /\ mem.mapped \subseteq 1 .. NBLOCKS - 1
  /\ disk.root \in FileRecords /\ disk.free \subseteq Blocks
  /\ disk.blk \in [Blocks -> Contents]

(* Through every sequence of requests on a sound disk, with holes, with    *)
(* indirect blocks and when it is full, memory stays consistent:           *)
(* alloc_block hands out no block that is in use, and truncation forgets   *)
(* none; no more blocks are lost than were at the start, and the one that  *)
(* fs_test takes.                                                          *)
BlocksExact ==
  /\ TypeOK
  /\ start.sound => mem.stale \/ (Disjoint(mem) /\ Lost(mem) <= start.lost + 1)

(* On a sound disk a request changes what one file holds and leaves every  *)
(* other file as it is, also when it reuses blocks the other one has given *)
(* up.                                                                     *)
OneFileChanges ==
  [][boots' = boots /\ start.sound /\ mem' # mem /\ ~mem'.stale =>
       Cardinality({n \in Names : View(mem', n) # View(mem, n)}) <= 1]_vars

(* The server panics when file_get_block needs a block and the disk is     *)
(* full, when it starts and /newmotd is not whole, which is so when the    *)
(* machine stopped while fs_test was writing it again, and when it started *)
(* from a disk that was not sound.  From a sound one it meets no bad block *)
(* number and reads no free block.                                         *)
PanicOnlyWhenFull ==
  mem.panic => \/ mem.free = {} \/ View(disk, Motd) # [k \in {0} |-> Message]
               \/ ~start.sound

(* The blocks dir_lookup and file_read go through to read file n.          *)
PathBlocks(m, n) ==
  LET k == Min(Named(m, n)) \div BLKFILES
      f == Lookup(m, n)
  IN  {Pointer(m, Root, j) : j \in 0 .. k}
      \cup (IF k < NDIRECT THEN {} ELSE {m.root.indirect})
      \cup BlocksIn(PointersOf(m, f))

(* What flush and sync promise.  A file that has been flushed or synced,   *)
(* and not changed since, is on the disk as it was then, at every moment   *)
(* at which the machine may stop, whatever the server does for other files *)
(* in the meantime.  After a sync it can also be read when the machine     *)
(* starts again: the bitmap on the disk has its blocks in use, so that     *)
(* bc_pgfault does not panic on them and alloc_block does not give them    *)
(* away, and so it stays whole even when the machine stopped while other   *)
(* files were half written.  (A flush does not promise that: alloc_block   *)
(* does not write the bitmap.)                                             *)
PromiseKept ==
  \A n \in Names : promise[n] # None =>
    /\ View(disk, n) = promise[n].view
    /\ promise[n].by = "sync" /\ Has(disk, n)
         => disk.free \cap PathBlocks(disk, n) = {}
=============================================================================
