------------------------------- MODULE FsServ --------------------------------
(***************************************************************************)
(* The file server and its clients: the request loop and the table of open *)
(* files (fs/serv.c), the client side (lib/file.c, lib/fd.c) and the IPC   *)
(* library between them (lib/ipc.c).                                       *)
(*                                                                         *)
(* An open file is an entry of opentab and a page with a struct Fd, which  *)
(* the server shares with the clients that have the file open.  There is   *)
(* no close request: the server reads the reference count of the page to   *)
(* learn that an entry is free again, and trusts that no client is left    *)
(* with a stale struct Fd.  A client sends its request page and then waits *)
(* for the answer; both sides of ipc_send spin until the other receives.   *)
(*                                                                         *)
(* The file system under the server is module Fs; here there is one file,  *)
(* of which only the size matters, in units of one request.                *)
(***************************************************************************)
EXTENDS Integers, FiniteSets, FiniteSetsExt

CONSTANTS
  Clients, First,   \* environments, and the one that runs at first
  Fds,              \* file descriptor numbers
  MAXOPEN,          \* entries of opentab
  IDMOD,            \* 2^32: o_fileid is a uint32_t
  MAXSIZE,          \* bound on the size of the file
  Programs,         \* the calls the clients make and the faults they meet
  None

Entries == 0 .. MAXOPEN - 1
Modes == {"O_RDONLY", "O_WRONLY", "O_RDWR"}

ASSUME FsServAssumption ==
  /\ IsFiniteSet(Clients) /\ First \in Clients
  /\ Fds \subseteq Nat /\ IsFiniteSet(Fds)
  /\ MAXOPEN \in Nat \ {0} /\ MAXSIZE \in Nat
  /\ IDMOD \in Nat \ {0} /\ IDMOD % MAXOPEN = 0
  /\ \A p \in Programs : p.modes \subseteq Modes
  /\ None \notin Int /\ None \notin Clients

VARIABLES
  program,      \* what the clients of this behaviour do
  alive,
  fd,           \* the entry whose struct Fd is mapped at a descriptor
  opened,       \* the file id open obtained for the descriptor
  buf,          \* fsipcbuf of a client: its own page, or copy-on-write
  pc, call,     \* where a client is, in which call, on which descriptor
  o_fileid,     \* opentab
  fd_id, fd_offset, fd_omode,   \* the struct Fd of each entry
  size,         \* of the file
  server,       \* where the server is
  whom, req,    \* the request it works on
  r, pg,        \* its answer
  taken         \* the parts of the file moved through an entry since open

clientVars == <<alive, fd, opened, buf, pc, call>>
tableVars == <<o_fileid, fd_id, fd_offset, fd_omode, taken>>
serverVars == <<server, whom, req, r, pg>>
vars == <<program, clientVars, tableVars, size, serverVars>>

E_INVAL == 3
E_NO_MEM == 4
E_NO_DISK == 9
E_MAX_OPEN == 10
NoCall == [op |-> "none", fd |-> 0, from |-> 0, fileid |-> 0,
           mode |-> "O_RDONLY", trunc |-> FALSE]

(* The entry of opentab that a file id belongs to.                         *)
Index(fileid) == fileid % MAXOPEN

(* pageref(o_fd) > 1: the server, once it has the page, never unmaps it.   *)
Shared(i) == \E c \in Clients, f \in Fds : fd[c][f] = i

-----------------------------------------------------------------------------
Init ==
  /\ program \in Programs
  /\ alive = {First}
  /\ fd = [c \in Clients |-> [f \in Fds |-> None]]
  /\ opened = [c \in Clients |-> [f \in Fds |-> None]]
  /\ buf = [c \in Clients |-> "own"]
  /\ pc = [c \in Clients |-> IF c = First THEN "user" ELSE "unborn"]
  /\ call = [c \in Clients |-> NoCall]
  /\ o_fileid = [i \in Entries |-> i]                       \* serve_init
  /\ fd_id = [i \in Entries |-> 0]
  /\ fd_offset = [i \in Entries |-> 0]
  /\ fd_omode = [i \in Entries |-> "O_RDONLY"]
  /\ taken = [i \in Entries |-> {}]
  /\ size = 0
  /\ server = "recv" /\ whom = None /\ req = NoCall /\ r = 0 /\ pg = None

At(c, point) == c \in alive /\ pc[c] = point
Goto(c, point) == pc' = [pc EXCEPT ![c] = point]
Makes(c, op) == At(c, "user") /\ op \in program.calls
Open(c) == {f \in Fds : fd[c][f] # None}

-----------------------------------------------------------------------------
(* The client.                                                             *)

(* A client writes its request into fsipcbuf, which gives it its own copy  *)
(* of the page, and calls fsipc.  sync is the one call that has nothing to *)
(* write.                                                                  *)
Request_Unwritten(c, q) ==
  call' = [call EXCEPT ![c] = q] /\ UNCHANGED buf
Request(c, q) ==
  /\ call' = [call EXCEPT ![c] = q]
  /\ buf' = IF q.op = "sync" THEN buf ELSE [buf EXCEPT ![c] = "own"]

Begin(c, q) ==
  /\ Makes(c, q.op) /\ Request(c, q)
  /\ Goto(c, "send")
  /\ UNCHANGED <<program, alive, fd, opened, tableVars, size, serverVars>>

(* open takes the first free descriptor.                                   *)
BeginOpen(c, mode, trunc) ==
  \E f \in Fds \ Open(c) :
    /\ \A g \in Fds \ Open(c) : f <= g
    /\ Begin(c, [NoCall EXCEPT !.op = "open", !.fd = f, !.mode = mode,
                               !.trunc = trunc])

(* The calls on an open descriptor.  read, write and ftruncate look at the *)
(* mode; close flushes the file first, and so does dup when its target is  *)
(* open.                                                                   *)
Allowed(op, mode) ==
  /\ op = "read" => mode # "O_WRONLY"
  /\ op \in {"write", "trunc"} => mode # "O_RDONLY"
BeginOn(c, op, f, from) ==
  /\ {f, from} \subseteq Open(c) /\ Allowed(op, fd_omode[fd[c][f]])
  /\ op # "dup" => from = f
  /\ Begin(c, [NoCall EXCEPT !.op = op, !.fd = f, !.from = from,
                             !.fileid = fd_id[fd[c][f]]])

(* dup onto a descriptor that is not open: only the mapping.               *)
Dup(c, from, f) ==
  /\ Makes(c, "dup") /\ from \in Open(c) /\ f \notin Open(c)
  /\ fd' = [fd EXCEPT ![c][f] = fd[c][from]]
  /\ opened' = [opened EXCEPT ![c][f] = opened[c][from]]
  /\ UNCHANGED <<program, alive, buf, pc, call, tableVars, size, serverVars>>

(* sync, and a request with a code the server does not know.               *)
BeginOther(c, op) == Begin(c, [NoCall EXCEPT !.op = op])

(* ipc_send to the server.  The kernel refuses to send a page writable     *)
(* that the sender may not write, or that it finds no page table for, and  *)
(* ipc_send panics.  (A client that has no memory for its own copy of the  *)
(* request page panics a little earlier.)                                  *)
Send(c) ==
  /\ At(c, "send") /\ server = "recv"
  /\ \/ /\ buf[c] = "own"
        /\ Goto(c, "sent")
        /\ server' = "serve" /\ whom' = c /\ req' = call[c]
        /\ r' = 0 /\ pg' = None
     \/ /\ buf[c] # "own" \/ "nomem" \in program.faults
        /\ Goto(c, "panic") /\ UNCHANGED serverVars
  /\ UNCHANGED <<program, alive, fd, opened, buf, call, tableVars, size>>

(* A request without a page, which the library never makes, is dropped by  *)
(* the server: the client waits for ever.                                  *)
SendNothing(c) ==
  /\ At(c, "user") /\ "nopage" \in program.faults /\ server = "recv"
  /\ Goto(c, "dropped")
  /\ UNCHANGED <<program, alive, fd, opened, buf, call, tableVars, size,
                 serverVars>>

(* The client calls ipc_recv for the answer.                               *)
Receive(c) ==
  /\ At(c, "sent")
  /\ Goto(c, "wait")
  /\ UNCHANGED <<program, alive, fd, opened, buf, call, tableVars, size,
                 serverVars>>

(* close unmaps the struct Fd after the flush, whatever it returned; dup   *)
(* then maps the other one, unless it was dup(f, f) and there is none.     *)
Becomes(table, c) ==
  IF call[c].from = call[c].fd THEN None ELSE table[c][call[c].from]
Unmap(c) ==
  /\ At(c, "unmap")
  /\ fd' = [fd EXCEPT ![c][call[c].fd] = Becomes(fd, c)]
  /\ opened' = [opened EXCEPT ![c][call[c].fd] = Becomes(opened, c)]
  /\ call' = [call EXCEPT ![c] = NoCall]
  /\ Goto(c, "user")
  /\ UNCHANGED <<program, alive, buf, tableVars, size, serverVars>>

(* seek is a store into the shared struct Fd.                              *)
Seek(c, f, offset) ==
  /\ Makes(c, "seek") /\ f \in Open(c)
  /\ fd_offset' = [fd_offset EXCEPT ![fd[c][f]] = offset]
  /\ UNCHANGED <<program, clientVars, o_fileid, fd_id, fd_omode, taken, size,
                 serverVars>>

(* fork: the child shares the struct Fds; fsipcbuf becomes copy-on-write   *)
(* for both.  The child is a new environment: env ids are not used again.  *)
Fork(c, d) ==
  /\ Makes(c, "fork") /\ pc[d] = "unborn"
  /\ alive' = alive \cup {d}
  /\ fd' = [fd EXCEPT ![d] = fd[c]]
  /\ opened' = [opened EXCEPT ![d] = opened[c]]
  /\ buf' = [buf EXCEPT ![c] = "cow", ![d] = "cow"]
  /\ pc' = [pc EXCEPT ![d] = "user"]
  /\ call' = [call EXCEPT ![d] = NoCall]
  /\ UNCHANGED <<program, tableVars, size, serverVars>>

(* The end of an environment, between two calls or (a fault) inside one.   *)
Die(c) ==
  /\ c \in alive /\ (pc[c] = "user" \/ "kill" \in program.faults)
  /\ alive' = alive \ {c}
  /\ fd' = [fd EXCEPT ![c] = [f \in Fds |-> None]]
  /\ opened' = [opened EXCEPT ![c] = [f \in Fds |-> None]]
  /\ buf' = [buf EXCEPT ![c] = "own"]
  /\ call' = [call EXCEPT ![c] = NoCall]
  /\ Goto(c, "dead")
  /\ UNCHANGED <<program, tableVars, size, serverVars>>

-----------------------------------------------------------------------------
(* The server.                                                             *)

Answer_ErrorsUnsent(code, page) ==
  server' = (IF code < 0 THEN "recv" ELSE "reply") /\ r' = code /\ pg' = page
Answer(code, page) == server' = "reply" /\ r' = code /\ pg' = page

(* The file system under a handler may need a block of the disk (for a new *)
(* name in a directory, or for a hole in the file that is read or written) *)
(* and a page (for a block that is not in the cache yet, for the struct Fd *)
(* of an entry used for the first time).  On a full disk file_get_block    *)
(* takes the error of alloc_block for a block number, and diskaddr panics; *)
(* without a free page sys_page_alloc returns a positive number, and the   *)
(* system call stub panics.                                                *)
BlockRequests == {"open", "read", "write"}
PageRequests == BlockRequests \cup {"trunc", "close", "dup"}
Exhausted ==
  \/ "full" \in program.faults /\ req.op \in BlockRequests
  \/ "nomem" \in program.faults /\ req.op \in PageRequests
Panic == server' = "panic" /\ UNCHANGED <<r, pg>>

(* openfile_alloc takes the first entry that nobody else has mapped.  The  *)
(* new file id is returned as an int: from the middle of its range on it   *)
(* looks like an error.                                                    *)
Available_Shared(i) == TRUE
Available(i) == ~Shared(i)
IsAlloc(i) == Available(i) /\ \A j \in Entries : j < i => ~Available(j)
NextId(i) == (o_fileid[i] + MAXOPEN) % IDMOD
IsNegative(id) == 2 * id >= IDMOD

NewFd(i) ==
  /\ o_fileid' = [o_fileid EXCEPT ![i] = NextId(i)]
  /\ fd_offset' = [fd_offset EXCEPT ![i] = 0]
  /\ taken' = [taken EXCEPT ![i] = {}]

(* serve_open; the file system may refuse, or panic, after the entry is    *)
(* taken.  Before that there may be no page for the struct Fd, or no page  *)
(* table, which is an error.                                               *)
ServeOpen ==
  /\ server = "serve" /\ req.op = "open"
  /\ \/ /\ \A i \in Entries : ~Available(i)
        /\ Answer(-E_MAX_OPEN, None)
        /\ UNCHANGED <<tableVars, size>>
     \/ /\ "nomem" \in program.faults /\ \E i \in Entries : Available(i)
        /\ Panic \/ Answer(-E_NO_MEM, None)
        /\ UNCHANGED <<tableVars, size>>
     \/ \E i \in Entries :
          /\ IsAlloc(i) /\ NewFd(i)
          /\ \/ /\ ~IsNegative(NextId(i)) /\ Answer(0, i)
                /\ fd_id' = [fd_id EXCEPT ![i] = NextId(i)]
                /\ fd_omode' = [fd_omode EXCEPT ![i] = req.mode]
                /\ size' = IF req.trunc THEN 0 ELSE size
             \/ /\ Answer(-1, None) \/ (~IsNegative(NextId(i)) /\ Exhausted /\ Panic)
                /\ fd_id' = [fd_id EXCEPT ![i] = 0]
                /\ fd_omode' = [fd_omode EXCEPT ![i] = "O_RDONLY"]
                /\ UNCHANGED size
  /\ UNCHANGED <<program, clientVars, whom, req>>

(* openfile_lookup.                                                        *)
Entry == Index(req.fileid)
Found == Shared(Entry) /\ o_fileid[Entry] = req.fileid

OnFile == req.op \notin {"open", "sync", "badcode"}
NotFound ==
  /\ server = "serve"
  /\ req.op = "badcode" \/ (OnFile /\ ~Found)
  /\ Answer(-E_INVAL, None)
  /\ UNCHANGED <<program, clientVars, tableVars, size, whom, req>>

(* serve_read and serve_write move the data at the offset; a write makes   *)
(* the file larger first.  Both may meet a full disk: it is an error when  *)
(* the block that is missing is the indirect block, else a panic ...       *)
InReach == IF req.op = "read" THEN fd_offset[Entry] < size
                              ELSE fd_offset[Entry] < MAXSIZE
Move ==
  /\ server = "serve" /\ req.op \in {"read", "write"} /\ Found
  /\ size' = IF req.op = "write" /\ InReach
             THEN Max({size, fd_offset[Entry] + 1}) ELSE size
  /\ \/ /\ InReach
        /\ taken' = [taken EXCEPT ![Entry] = @ \cup {fd_offset[Entry]}]
        /\ server' = "advance" /\ r' = 1 /\ UNCHANGED pg
     \/ /\ ~InReach
        /\ Answer(IF req.op = "read" THEN 0 ELSE -E_INVAL, None)
        /\ UNCHANGED taken
     \/ InReach /\ "full" \in program.faults /\ Answer(-E_NO_DISK, None) /\ UNCHANGED taken
     \/ InReach /\ Exhausted /\ Panic /\ UNCHANGED taken
  /\ UNCHANGED <<program, clientVars, o_fileid, fd_id, fd_offset, fd_omode,
                 whom, req>>

(* ... and then advance the offset in the shared page.                     *)
Advance_NotShared ==
  /\ server = "advance" /\ Answer(r, None)
  /\ UNCHANGED <<program, clientVars, tableVars, size, whom, req>>
Advance ==
  /\ server = "advance" /\ Answer(r, None)
  /\ fd_offset' = [fd_offset EXCEPT ![Entry] = @ + r]
  /\ UNCHANGED <<program, clientVars, o_fileid, fd_id, fd_omode, taken, size,
                 whom, req>>

(* serve_set_size, serve_flush, serve_stat, serve_sync.  The first two may *)
(* have to read the indirect block.                                        *)
ServeOther ==
  /\ server = "serve"
  /\ \/ /\ \/ req.op = "trunc" /\ Found /\ size' \in 0 .. MAXSIZE
           \/ req.op \in {"close", "dup", "stat"} /\ Found /\ UNCHANGED size
           \/ req.op = "sync" /\ UNCHANGED size
        /\ Answer(0, None)
     \/ /\ req.op \in {"trunc", "close", "dup"} /\ Found
        /\ Exhausted /\ Panic /\ UNCHANGED size
  /\ UNCHANGED <<program, clientVars, tableVars, whom, req>>

(* What the client does with the answer.                                   *)
Delivered(c) ==
  /\ fd' = IF pg = None THEN fd ELSE [fd EXCEPT ![c][call[c].fd] = pg]
  /\ opened' = IF pg = None THEN opened
               ELSE [opened EXCEPT ![c][call[c].fd] = fd_id[pg]]
  /\ \/ call[c].op \in {"close", "dup"} /\ Goto(c, "unmap") /\ UNCHANGED call
     \/ /\ call[c].op \notin {"close", "dup"} /\ Goto(c, "user")
        /\ call' = [call EXCEPT ![c] = NoCall]

(* ipc_send of the answer, which spins until the client receives, and      *)
(* panics when it is gone or the kernel has no page table for the page     *)
(* that goes with it; then the server unmaps the request.                  *)
Reply ==
  /\ server = "reply"
  /\ \/ /\ whom \in alive /\ pc[whom] = "wait"
        /\ Delivered(whom)
        /\ server' = "recv" /\ whom' = None /\ req' = NoCall /\ r' = 0 /\ pg' = None
     \/ /\ \/ whom \notin alive
           \/ pc[whom] = "wait" /\ pg # None /\ "nomem" \in program.faults
        /\ Panic /\ UNCHANGED <<fd, opened, pc, call, whom, req>>
  /\ UNCHANGED <<program, alive, buf, tableVars, size>>

-----------------------------------------------------------------------------
BeginCall(c) ==
  \/ \E mode \in program.modes, trunc \in BOOLEAN : BeginOpen(c, mode, trunc)
  \/ \E op \in {"read", "write", "trunc", "stat", "close", "dup"}, f, g \in Fds :
       BeginOn(c, op, f, g)
  \/ \E op \in {"sync", "badcode"} : BeginOther(c, op)

Client(c) == Send(c) \/ Receive(c) \/ Unmap(c)
Server == ServeOpen \/ NotFound \/ Move \/ Advance \/ ServeOther \/ Reply

Next ==
  \/ \E c \in Clients : BeginCall(c) \/ Client(c) \/ SendNothing(c) \/ Die(c)
  \/ \E c \in Clients, f, g \in Fds : Dup(c, f, g)
  \/ \E c \in Clients, f \in Fds, n \in 0 .. MAXSIZE : Seek(c, f, n)
  \/ \E c, d \in Clients : Fork(c, d)
  \/ Server

Spec == Init /\ [][Next]_vars

(* Every environment gets the CPU again and again.  That does not mean     *)
(* that one particular client that spins in ipc_send ever meets a server   *)
(* that receives.                                                          *)
Fairness ==
  /\ WF_vars(Server)
  /\ \A c \in Clients : WF_vars(Receive(c) \/ Unmap(c))
  /\ WF_vars(\E c \in Clients : Send(c))

FairSpec == Spec /\ Fairness

-----------------------------------------------------------------------------
TypeOK ==
  /\ program \in Programs
  /\ alive \subseteq Clients
  /\ fd \in [Clients -> [Fds -> Entries \cup {None}]]
  /\ opened \in [Clients -> [Fds -> (0 .. IDMOD - 1) \cup {None}]]
  /\ buf \in [Clients -> {"own", "cow"}]
  /\ pc \in [Clients -> {"unborn", "user", "send", "sent", "wait", "unmap",
                        "dropped", "panic", "dead"}]
  /\ o_fileid \in [Entries -> 0 .. IDMOD - 1]
  /\ fd_id \in [Entries -> 0 .. IDMOD - 1]
  /\ fd_offset \in [Entries -> 0 .. MAXSIZE + 1]
  /\ fd_omode \in [Entries -> Modes]
  /\ taken \in [Entries -> SUBSET Nat]
  /\ size \in 0 .. MAXSIZE
  /\ server \in {"recv", "serve", "advance", "reply", "panic"}
  /\ whom \in Clients \cup {None}
  /\ pg \in Entries \cup {None}

(* openfile_alloc never gives a client's struct Fd to another open: through *)
(* fork, dup, close, failed opens and the wrap-around of file ids, what a  *)
(* descriptor maps is still the opening it was opened for, and opentab     *)
(* still knows it by that id.                                              *)
FdStaysOpen ==
  \A c \in Clients, f \in Fds :
    fd[c][f] # None =>
      /\ fd_id[fd[c][f]] = opened[c][f]
      /\ o_fileid[fd[c][f]] = opened[c][f]
      /\ Index(opened[c][f]) = fd[c][f]

(* openfile_lookup refuses no request of a live client: the id it read from *)
(* the struct Fd is the id of an entry that is still in use.               *)
OpenIsFound ==
  server = "serve" /\ OnFile /\ whom \in alive => Found

(* Environments that share a descriptor after fork or dup share its offset *)
(* too: serve_read and serve_write hand out every position once, whoever   *)
(* asks, as long as nobody seeks.                                          *)
EachPositionOnce ==
  "seek" \notin program.calls =>
    \A i \in Entries :
      taken[i] = 0 .. fd_offset[i] - (IF server = "advance" /\ Entry = i
                                      THEN 0 ELSE 1)

(* The file server panics only when the client it works for was killed in  *)
(* the middle of the request, or for want of a disk block in a request     *)
(* that may take one, or for want of memory in a request that may take a   *)
(* page: no other sequence of calls, forks and deaths brings it down.      *)
(* With memory, a client's request is refused by the kernel only in sync,  *)
(* the one call that does not write the request page after a fork.         *)
ServerPanicCause ==
  server = "panic" => \/ pc[whom] = "dead" /\ "kill" \in program.faults
                      \/ Exhausted
PanicsHaveACause ==
  /\ ServerPanicCause
  /\ \A c \in Clients : pc[c] = "panic" =>
       \/ call[c].op = "sync" /\ {"fork", "sync"} \subseteq program.calls
       \/ "nomem" \in program.faults

(* What the calls in progress rely on: a client in a call holds the        *)
(* descriptor it asks about, whose id it has put into the request ...      *)
OnDescriptor == {"read", "write", "trunc", "stat", "close", "dup"}
Requests == [op : {"none", "open", "sync", "badcode"} \cup OnDescriptor,
             fd : Nat, from : Nat, fileid : 0 .. IDMOD - 1, mode : Modes,
             trunc : BOOLEAN]
HoldsDescriptor(c) ==
  c \in alive /\ pc[c] \in {"send", "sent", "wait", "unmap"} =>
    /\ call[c].op # "none"
    /\ pc[c] = "unmap" => call[c].op \in {"close", "dup"}
    /\ call[c].op = "open" => call[c].fd \in Fds
    /\ call[c].op \in OnDescriptor =>
         /\ {call[c].fd, call[c].from} \subseteq Fds
         /\ fd[c][call[c].fd] # None
         /\ opened[c][call[c].fd] = call[c].fileid

(* ... a client has a page it shares copy-on-write only after a fork, and  *)
(* sends it only in sync ...                                               *)
BufferInv(c) ==
  /\ buf[c] = "cow" => "fork" \in program.calls
  /\ pc[c] \in {"send", "panic"} /\ call[c].op = "sync" => "sync" \in program.calls
  /\ pc[c] = "send" /\ buf[c] = "cow" => call[c].op = "sync"
  /\ pc[c] = "panic" => \/ call[c].op = "sync" /\ "fork" \in program.calls
                        \/ "nomem" \in program.faults

(* ... and the server works for a client that waits, or was killed.        *)
ServerInv ==
  /\ server \in {"serve", "advance", "reply"} =>
       /\ whom \in Clients /\ pc[whom] \in {"sent", "wait", "dead"}
       /\ IF whom \in alive THEN req = call[whom] /\ pc[whom] # "dead"
                             ELSE pc[whom] = "dead" /\ "kill" \in program.faults
  /\ server = "panic" => whom \in Clients
  /\ ServerPanicCause
  /\ server = "advance" => r = 1 /\ Entry \in Entries /\ fd_offset[Entry] <= MAXSIZE
  /\ pg # None => /\ server \in {"reply", "panic"} /\ req.op = "open"
                  /\ fd_id[pg] = o_fileid[pg]

(* The inductive invariant of the server and its clients.                  *)
ServInv ==
  /\ TypeOK /\ call \in [Clients -> Requests] /\ req \in Requests
  /\ \A i \in Entries : Index(o_fileid[i]) = i
  /\ FdStaysOpen
  /\ \A c \in Clients : HoldsDescriptor(c) /\ BufferInv(c)
  /\ ServerInv
  /\ EachPositionOnce

(* Every request the server has accepted is answered, unless its client is *)
(* killed or the server runs out of disk blocks or memory over it: the two *)
(* ipc_sends that spin on each other never both spin.                      *)
AcceptedIsAnswered ==
  \A c \in Clients :
    whom = c ~> \/ whom # c /\ pc[c] \in {"user", "unmap"}
                \/ c \notin alive
                \/ server = "panic" /\ Exhausted
=============================================================================
