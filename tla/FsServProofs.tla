---------------------------- MODULE FsServProofs -----------------------------
(***************************************************************************)
(* The table of open files of the file server, for any number of clients,  *)
(* descriptors and entries, and however file ids wrap around.              *)
(***************************************************************************)
EXTENDS FsServ, TLAPS

(* Numbers that differ by a multiple of n have the same remainder.         *)
LEMMA ModShift ==
  ASSUME NEW n \in Nat \ {0}, NEW a \in Nat, NEW b \in Nat, NEW q \in Int,
         b = a + n * q
  PROVE  b % n = a % n
<1> DEFINE qa == a \div n
           qb == b \div n
           d == qb - (qa + q)
<1>1. qa \in Int /\ qb \in Int /\ a = n * qa + (a % n) /\ b = n * qb + (b % n)
  BY SMT
<1>2. a % n \in 0 .. n - 1 /\ b % n \in 0 .. n - 1
  BY SMT
<1> HIDE DEF qa, qb
<1>3. d \in Int /\ n * d = (a % n) - (b % n)
  <2>1. n * d = n * qb - (n * qa + n * q)
    <3>1. n * (qa + q) = n * qa + n * q
      BY <1>1
    <3>2. \A s \in Int : n * (qb - s) = n * qb - n * s
      BY <1>1
    <3>3. qa + q \in Int
      BY <1>1
    <3> QED BY <3>1, <3>2, <3>3
  <2>2. n * qb - (n * qa + n * q) = (a % n) - (b % n)
    <3> DEFINE u == n * qa
               v == n * qb
               w == n * q
    <3>1. u \in Int /\ v \in Int /\ w \in Int
      BY <1>1
    <3>2. a = u + (a % n) /\ b = v + (b % n) /\ b = a + w
      BY <1>1
    <3> HIDE DEF u, v, w
    <3>3. v - (u + w) = (a % n) - (b % n)
      BY <1>2, <3>1, <3>2
    <3> QED BY <3>3 DEF u, v, w
  <2> QED BY <1>1, <2>1, <2>2
<1> HIDE DEF d
<1>4. CASE d <= -1
  <2>1. n * d <= -n
    BY <1>3, <1>4
  <2> QED BY <1>2, <1>3, <2>1
<1>5. CASE d >= 1
  <2>1. n * d >= n
    BY <1>3, <1>5
  <2> QED BY <1>2, <1>3, <2>1
<1>6. CASE d = 0
  <2>1. n * d = 0
    BY <1>6
  <2> QED BY <1>2, <1>3, <2>1
<1> QED BY <1>3, <1>4, <1>5, <1>6

(* The next file id of an entry is one that leads back to the entry, also  *)
(* when it wraps around.                                                   *)
LEMMA NextIdEntry ==
  ASSUME NEW x \in 0 .. IDMOD - 1
  PROVE  /\ (x + MAXOPEN) % IDMOD \in 0 .. IDMOD - 1
         /\ ((x + MAXOPEN) % IDMOD) % MAXOPEN = x % MAXOPEN
<1>1. MAXOPEN \in Nat \ {0} /\ IDMOD \in Nat \ {0} /\ IDMOD % MAXOPEN = 0
  BY FsServAssumption
<1> DEFINE k == IDMOD \div MAXOPEN
<1>2. k \in Int /\ IDMOD = MAXOPEN * k
  <2>1. k \in Int /\ IDMOD = MAXOPEN * k + (IDMOD % MAXOPEN)
    BY <1>1, SMT
  <2> QED BY <1>1, <2>1
<1> HIDE DEF k
<1>3. k >= 1
  <2>1. CASE k <= 0
    <3>1. MAXOPEN * k <= 0
      BY <1>1, <1>2, <2>1
    <3> QED BY <1>1, <1>2, <3>1
  <2> QED BY <1>2, <2>1
<1>4. MAXOPEN <= IDMOD
  BY <1>1, <1>2, <1>3
<1>5. CASE x + MAXOPEN < IDMOD
  <2>1. (x + MAXOPEN) % IDMOD = x + MAXOPEN
    BY <1>1, <1>5, SMT
  <2>2. (x + MAXOPEN) % MAXOPEN = x % MAXOPEN
    <3>1. PICK one \in Int : one = 1
      OBVIOUS
    <3>2. x + MAXOPEN = x + MAXOPEN * one /\ x \in Nat /\ x + MAXOPEN \in Nat
      BY <1>1, <3>1
    <3> QED BY <1>1, <3>2, ModShift
  <2> QED BY <1>1, <1>5, <2>1, <2>2
<1>6. CASE x + MAXOPEN >= IDMOD
  <2> DEFINE y == (x + MAXOPEN) - IDMOD
  <2>1. y \in Nat /\ y < IDMOD
    BY <1>1, <1>4, <1>6
  <2>2. (x + MAXOPEN) % IDMOD = y
    <3>1. x + MAXOPEN = y + IDMOD * 1 /\ x + MAXOPEN \in Nat
      BY <1>1
    <3>2. (x + MAXOPEN) % IDMOD = y % IDMOD
      BY <1>1, <2>1, <3>1, ModShift
    <3>3. y % IDMOD = y
      BY <1>1, <2>1, SMT
    <3> QED BY <3>2, <3>3
  <2>3. y % MAXOPEN = x % MAXOPEN
    <3>1. PICK q \in Int : q = 1 - k
      BY <1>2
    <3>2. MAXOPEN * q = MAXOPEN - MAXOPEN * k
      BY <1>1, <1>2, <3>1
    <3>3. y = x + MAXOPEN * q /\ x \in Nat
      BY <1>1, <1>2, <3>2
    <3> HIDE DEF y
    <3> QED BY <1>1, <2>1, <3>3, ModShift
  <2> QED BY <1>1, <2>1, <2>2, <2>3
<1> QED BY <1>1, <1>5, <1>6

(* The larger of two sizes.                                                *)
LEMMA MaxPair ==
  ASSUME NEW a \in Int, NEW b \in Int
  PROVE  Max({a, b}) \in {a, b} /\ Max({a, b}) >= a /\ Max({a, b}) >= b
<1>1. \E x \in {a, b} : \A y \in {a, b} : x >= y
  <2>1. CASE a >= b
    BY <2>1
  <2>2. CASE b >= a
    BY <2>2
  <2> QED BY <2>1, <2>2
<1> QED BY <1>1 DEF Max

(* An index into a table of n entries.                                     *)
LEMMA ModRange ==
  ASSUME NEW n \in Nat \ {0}, NEW a \in Nat
  PROVE  a % n \in 0 .. n - 1
BY SMT

(* What most steps need of the constants.                                  *)
LEMMA Bounds ==
  /\ MAXOPEN \in Nat \ {0} /\ IDMOD \in Nat \ {0} /\ MAXSIZE \in Nat
  /\ Fds \subseteq Nat /\ None \notin Int /\ First \in Clients
  /\ \A p \in Programs : p.modes \subseteq Modes
BY FsServAssumption

LEMMA SmallNumbers ==
  /\ 0 \in 0 .. IDMOD - 1 /\ 0 \in 0 .. MAXSIZE /\ 0 \in 0 .. MAXSIZE + 1
  /\ \A n \in 0 .. MAXSIZE : n \in 0 .. MAXSIZE + 1 /\ n + 1 \in 0 .. MAXSIZE + 1
  /\ \A n \in 0 .. MAXSIZE + 1 : n \in Nat /\ (n < MAXSIZE => n + 1 \in 0 .. MAXSIZE)
  /\ \A n \in 0 .. MAXSIZE + 1 : n <= MAXSIZE => n \in 0 .. MAXSIZE
  /\ \A n \in 0 .. MAXSIZE : n <= MAXSIZE /\ n \in Nat
<1>1. MAXSIZE \in Nat /\ IDMOD \in Nat \ {0}
  BY Bounds
<1> QED BY <1>1

(* The positions handed out, before and after one more.                    *)
LEMMA OneMore ==
  ASSUME NEW n \in Nat
  PROVE  /\ (0 .. n - 1) \cup {n} = 0 .. n - 0
         /\ 0 .. (n + 1) - 1 = 0 .. n - 0
         /\ 0 .. 0 - 1 = {}
OBVIOUS

(* Changing one entry of a table of tables by a legal value.               *)
LEMMA TableUpdate ==
  ASSUME NEW S, NEW T, NEW E, NEW F \in [S -> [T -> E]], NEW a \in S, NEW b \in T,
         NEW e \in E
  PROVE  /\ [F EXCEPT ![a][b] = e] \in [S -> [T -> E]]
         /\ \A x \in S, y \in T : [F EXCEPT ![a][b] = e][x][y]
                                  = IF x = a /\ y = b THEN e ELSE F[x][y]
<1>1. [F[a] EXCEPT ![b] = e] \in [T -> E]
  OBVIOUS
<1> QED BY <1>1

(* The empty call is a request.                                            *)
LEMMA NoCallType == NoCall \in Requests
BY Bounds DEF NoCall, Requests, Modes

LEMMA InitInv == Init => ServInv
<1> SUFFICES ASSUME Init PROVE ServInv
  OBVIOUS
<1> USE Bounds
<1>1. MAXOPEN \in Nat \ {0} /\ IDMOD \in Nat \ {0} /\ MAXOPEN <= IDMOD
  <2>1. CASE IDMOD < MAXOPEN
    <3>1. IDMOD % MAXOPEN = IDMOD
      BY <2>1, SMT
    <3> QED BY <3>1, FsServAssumption
  <2> QED BY <2>1
<1>2. TypeOK
  BY <1>1 DEF Init, TypeOK, Entries, Modes
<1>3. call \in [Clients -> Requests] /\ req \in Requests
  BY NoCallType DEF Init
<1>4. ASSUME NEW i \in Entries PROVE Index(o_fileid[i]) = i
  <2>1. i \in Nat /\ i < MAXOPEN
    BY <1>1 DEF Entries
  <2>2. i % MAXOPEN = i
    BY <1>1, <2>1, SMT
  <2> QED BY <2>2 DEF Init, Index
<1>5. FdStaysOpen
  BY DEF Init, FdStaysOpen
<1>6. ASSUME NEW c \in Clients PROVE HoldsDescriptor(c) /\ BufferInv(c)
  BY DEF Init, HoldsDescriptor, BufferInv
<1>7. ServerInv
  BY DEF Init, ServerInv, ServerPanicCause
<1>8. EachPositionOnce
  BY DEF Init, EachPositionOnce
<1> QED BY <1>2, <1>3, <1>4, <1>5, <1>6, <1>7, <1>8 DEF ServInv

-----------------------------------------------------------------------------
(* The steps of the clients.                                               *)

(* A step that leaves the tables and the server alone and changes nothing  *)
(* of the other clients preserves the invariant if it preserves the        *)
(* client's own part of it.                                                *)
ClientStep(c) ==
  /\ UNCHANGED <<program, tableVars, size, serverVars>>
  /\ \A d \in Clients \ {c} :
       /\ (d \in alive') = (d \in alive)
       /\ fd'[d] = fd[d] /\ opened'[d] = opened[d] /\ buf'[d] = buf[d]
       /\ pc'[d] = pc[d] /\ call'[d] = call[d]
ClientTypes ==
  /\ alive \subseteq Clients
  /\ fd \in [Clients -> [Fds -> Entries \cup {None}]]
  /\ opened \in [Clients -> [Fds -> (0 .. IDMOD - 1) \cup {None}]]
  /\ buf \in [Clients -> {"own", "cow"}]
  /\ pc \in [Clients -> {"unborn", "user", "send", "sent", "wait", "unmap",
                        "dropped", "panic", "dead"}]
  /\ call \in [Clients -> Requests]
ClientFds(c) ==
  \A f \in Fds : fd[c][f] # None =>
    /\ fd_id[fd[c][f]] = opened[c][f]
    /\ o_fileid[fd[c][f]] = opened[c][f]
    /\ Index(opened[c][f]) = fd[c][f]

LEMMA ClientStepInv ==
  ASSUME ServInv, NEW c \in Clients, ClientStep(c), ClientTypes',
         ClientFds(c)', HoldsDescriptor(c)', BufferInv(c)', ServerInv'
  PROVE  ServInv'
<1> USE DEF ClientStep, tableVars, serverVars
<1>1. TypeOK' /\ (call \in [Clients -> Requests])' /\ (req \in Requests)'
  BY DEF ServInv, TypeOK, ClientTypes
<1>2. (\A i \in Entries : Index(o_fileid[i]) = i)'
  BY DEF ServInv
<1>3. FdStaysOpen'
  <2> SUFFICES ASSUME NEW d \in Clients PROVE ClientFds(d)'
    BY DEF FdStaysOpen, ClientFds
  <2>1. CASE d # c
    <3>1. fd'[d] = fd[d] /\ opened'[d] = opened[d] /\ UNCHANGED <<o_fileid, fd_id>>
      BY <2>1
    <3>2. ClientFds(d)
      BY DEF ServInv, FdStaysOpen, ClientFds
    <3> HIDE DEF ClientStep, tableVars, serverVars
    <3> QED BY <3>1, <3>2 DEF ClientFds
  <2> QED BY <2>1
<1>4. ASSUME NEW d \in Clients PROVE HoldsDescriptor(d)' /\ BufferInv(d)'
  <2>1. CASE d # c
    <3>1. HoldsDescriptor(d) /\ BufferInv(d)
      BY DEF ServInv
    <3> QED BY <2>1, <3>1 DEF HoldsDescriptor, BufferInv
  <2> QED BY <2>1
<1>5. EachPositionOnce'
  BY DEF ServInv, EachPositionOnce, Entry
<1> QED BY <1>1, <1>2, <1>3, <1>4, <1>5 DEF ServInv

(* A request as the library makes it.                                      *)
GoodRequest(c, q) ==
  /\ q \in Requests /\ q.op # "none"
  /\ q.op = "open" => q.fd \in Fds
  /\ q.op \in OnDescriptor =>
       /\ {q.fd, q.from} \subseteq Fds
       /\ fd[c][q.fd] # None /\ opened[c][q.fd] = q.fileid

LEMMA BeginInv ==
  ASSUME ServInv, NEW c \in Clients, NEW q, GoodRequest(c, q), Begin(c, q)
  PROVE  ServInv'
<1>1. /\ c \in alive /\ pc[c] = "user" /\ q.op \in program.calls
      /\ call' = [call EXCEPT ![c] = q] /\ pc' = [pc EXCEPT ![c] = "send"]
      /\ buf' = (IF q.op = "sync" THEN buf ELSE [buf EXCEPT ![c] = "own"])
      /\ UNCHANGED <<program, alive, fd, opened, tableVars, size, serverVars>>
  BY DEF Begin, Makes, At, Request, Goto
<1>2. ClientTypes'
  BY <1>1 DEF ServInv, TypeOK, ClientTypes, GoodRequest
<1>3. ClientStep(c)
  BY <1>1 DEF ClientStep, ServInv, TypeOK
<1>4. pc'[c] = "send" /\ call'[c] = q
  BY <1>1 DEF ServInv, TypeOK
<1>5. ClientFds(c)'
  BY <1>1 DEF ServInv, FdStaysOpen, ClientFds, tableVars
<1>6. HoldsDescriptor(c)'
  BY <1>1, <1>4 DEF HoldsDescriptor, GoodRequest
<1>7. BufferInv(c)'
  BY <1>1, <1>4 DEF BufferInv, ServInv, TypeOK
<1>8. ServerInv'
  <2>1. server \in {"serve", "advance", "reply"} => whom # c
    BY <1>1 DEF ServInv, ServerInv
  <2> QED BY <1>1, <2>1 DEF ServInv, TypeOK, ServerInv, ServerPanicCause, Exhausted,
                            Entry, tableVars, serverVars
<1> QED BY <1>2, <1>3, <1>5, <1>6, <1>7, <1>8, ClientStepInv

LEMMA BeginCallInv ==
  ASSUME ServInv, NEW c \in Clients, BeginCall(c)
  PROVE  ServInv'
<1>1. ASSUME NEW mode \in program.modes, NEW trunc \in BOOLEAN, BeginOpen(c, mode, trunc)
      PROVE  ServInv'
  <2>1. PICK f \in Fds : Begin(c, [NoCall EXCEPT !.op = "open", !.fd = f, !.mode = mode,
                                                !.trunc = trunc])
    BY <1>1 DEF BeginOpen
  <2>2. mode \in Modes /\ f \in Nat
    BY Bounds DEF ServInv, TypeOK
  <2> DEFINE q == [NoCall EXCEPT !.op = "open", !.fd = f, !.mode = mode, !.trunc = trunc]
  <2>3. q \in Requests
    BY <2>2, NoCallType DEF Requests
  <2>4. q.op = "open" /\ q.fd = f
    BY DEF NoCall
  <2>5. GoodRequest(c, q)
    BY <2>3, <2>4 DEF GoodRequest, OnDescriptor
  <2> QED BY <2>1, <2>5, BeginInv
<1>2. ASSUME NEW op \in OnDescriptor, NEW f \in Fds, NEW g \in Fds, BeginOn(c, op, f, g)
      PROVE  ServInv'
  <2> DEFINE q == [NoCall EXCEPT !.op = op, !.fd = f, !.from = g,
                                 !.fileid = fd_id[fd[c][f]]]
  <2>1. Begin(c, q) /\ fd[c][f] # None
    BY <1>2 DEF BeginOn, Open
  <2>2. fd_id[fd[c][f]] = opened[c][f] /\ fd_id[fd[c][f]] \in 0 .. IDMOD - 1
    BY <2>1 DEF ServInv, FdStaysOpen, TypeOK
  <2>3. GoodRequest(c, q)
    BY <2>1, <2>2, Bounds DEF GoodRequest, NoCall, Requests, OnDescriptor, Modes
  <2> QED BY <2>1, <2>3, BeginInv
<1>3. ASSUME NEW op \in {"sync", "badcode"}, BeginOther(c, op)
      PROVE  ServInv'
  <2> DEFINE q == [NoCall EXCEPT !.op = op]
  <2>1. q \in Requests
    BY NoCallType DEF Requests
  <2>2. q.op = op
    BY DEF NoCall
  <2>3. GoodRequest(c, q)
    BY <2>1, <2>2 DEF GoodRequest, OnDescriptor
  <2> QED BY <1>3, <2>3, BeginInv DEF BeginOther
<1> QED BY <1>1, <1>2, <1>3 DEF BeginCall, OnDescriptor

(* Other steps of a client: the server's part holds if it holds for that   *)
(* client.                                                                 *)
LEMMA ServerKept ==
  ASSUME ServInv, NEW c \in Clients, ClientStep(c),
         server \in {"serve", "advance", "reply"} /\ whom = c =>
           /\ pc'[c] \in {"sent", "wait", "dead"}
           /\ IF c \in alive' THEN req = call'[c] /\ pc'[c] # "dead"
                              ELSE pc'[c] = "dead" /\ "kill" \in program.faults,
         server = "panic" /\ whom = c /\ pc[c] = "dead" => pc'[c] = "dead"
  PROVE  ServerInv'
<1>1. UNCHANGED <<program, o_fileid, fd_id, fd_offset, server, whom, req, r, pg>>
  BY DEF ClientStep, tableVars, serverVars
<1>2. ServerInv
  BY DEF ServInv
<1>3. CASE whom = c
  BY <1>1, <1>2, <1>3 DEF ServerInv, ServerPanicCause, Exhausted, Entry
<1>4. CASE whom # c
  <2>1. whom \in Clients => /\ (whom \in alive') = (whom \in alive)
                           /\ pc'[whom] = pc[whom] /\ call'[whom] = call[whom]
    BY <1>4 DEF ClientStep
  <2> QED BY <1>1, <1>2, <2>1 DEF ServerInv, ServerPanicCause, Exhausted, Entry
<1> QED BY <1>3, <1>4

LEMMA DupInv ==
  ASSUME ServInv, NEW c \in Clients, NEW from \in Fds, NEW f \in Fds, Dup(c, from, f)
  PROVE  ServInv'
<1> USE DEF ServInv, TypeOK
<1>1. /\ pc[c] = "user" /\ fd[c][from] # None
      /\ fd' = [fd EXCEPT ![c][f] = fd[c][from]]
      /\ opened' = [opened EXCEPT ![c][f] = opened[c][from]]
      /\ UNCHANGED <<program, alive, buf, pc, call, tableVars, size, serverVars>>
  BY DEF Dup, Makes, At, Open
<1>2. ClientTypes' /\ ClientStep(c)
  BY <1>1, TableUpdate DEF ClientTypes, ClientStep
<1>3. ClientFds(c)'
  BY <1>1 DEF FdStaysOpen, ClientFds, tableVars
<1>4. HoldsDescriptor(c)' /\ BufferInv(c)'
  BY <1>1 DEF HoldsDescriptor, BufferInv
<1>5. ServerInv'
  BY <1>1, <1>2, ServerKept DEF ServerInv
<1> QED BY <1>2, <1>3, <1>4, <1>5, ClientStepInv

LEMMA WaitInv ==
  ASSUME ServInv, NEW c \in Clients, SendNothing(c) \/ Receive(c)
  PROVE  ServInv'
<1> USE DEF ServInv, TypeOK
<1>1. /\ \/ pc[c] = "user" /\ pc' = [pc EXCEPT ![c] = "dropped"]
         \/ pc[c] = "sent" /\ pc' = [pc EXCEPT ![c] = "wait"]
      /\ UNCHANGED <<program, alive, fd, opened, buf, call, tableVars, size, serverVars>>
  BY DEF SendNothing, Receive, At, Goto
<1>2. ClientTypes' /\ ClientStep(c)
  BY <1>1 DEF ClientTypes, ClientStep
<1>3. ClientFds(c)'
  BY <1>1 DEF FdStaysOpen, ClientFds, tableVars
<1>4. HoldsDescriptor(c)' /\ BufferInv(c)'
  BY <1>1 DEF HoldsDescriptor, BufferInv
<1>5. ServerInv'
  BY <1>1, <1>2, ServerKept DEF ServerInv
<1> QED BY <1>2, <1>3, <1>4, <1>5, ClientStepInv

LEMMA UnmapInv ==
  ASSUME ServInv, NEW c \in Clients, Unmap(c)
  PROVE  ServInv'
<1> DEFINE f == call[c].fd
<1>1. /\ c \in alive /\ pc[c] = "unmap" /\ pc' = [pc EXCEPT ![c] = "user"]
      /\ fd' = [fd EXCEPT ![c][f] = Becomes(fd, c)]
      /\ opened' = [opened EXCEPT ![c][f] = Becomes(opened, c)]
      /\ call' = [call EXCEPT ![c] = NoCall]
      /\ UNCHANGED <<program, alive, buf, tableVars, size, serverVars>>
  BY DEF Unmap, At, Goto
<1>2. {call[c].fd, call[c].from} \subseteq Fds
  BY <1>1 DEF HoldsDescriptor, OnDescriptor, ServInv
<1>9. /\ fd \in [Clients -> [Fds -> Entries \cup {None}]]
      /\ opened \in [Clients -> [Fds -> (0 .. IDMOD - 1) \cup {None}]]
  BY DEF ServInv, TypeOK
<1>3. /\ Becomes(fd, c) \in Entries \cup {None}
      /\ Becomes(opened, c) \in (0 .. IDMOD - 1) \cup {None}
  BY <1>2, <1>9 DEF Becomes
<1>10. /\ fd' \in [Clients -> [Fds -> Entries \cup {None}]]
       /\ \A g \in Fds : fd'[c][g] = IF g = f THEN Becomes(fd, c) ELSE fd[c][g]
  BY <1>1, <1>2, <1>3, <1>9, TableUpdate
<1>11. /\ opened' \in [Clients -> [Fds -> (0 .. IDMOD - 1) \cup {None}]]
       /\ \A g \in Fds : opened'[c][g] = IF g = f THEN Becomes(opened, c)
                                                   ELSE opened[c][g]
  BY <1>1, <1>2, <1>3, <1>9, TableUpdate
<1>4. ClientTypes'
  BY <1>1, <1>10, <1>11, NoCallType DEF ClientTypes, ServInv, TypeOK
<1>5. ClientStep(c)
  BY <1>1 DEF ClientStep, ServInv, TypeOK
<1>6. ClientFds(c)'
  <2> SUFFICES ASSUME NEW g \in Fds, fd'[c][g] # None
               PROVE  /\ fd_id[fd'[c][g]] = opened'[c][g]
                      /\ o_fileid[fd'[c][g]] = opened'[c][g]
                      /\ Index(opened'[c][g]) = fd'[c][g]
    BY <1>1 DEF ClientFds, tableVars
  <2>1. CASE g = f
    <3>1. fd'[c][g] = Becomes(fd, c) /\ opened'[c][g] = Becomes(opened, c)
      BY <1>10, <1>11, <2>1
    <3>2. ClientFds(c)
      BY DEF ServInv, FdStaysOpen, ClientFds
    <3> QED BY <1>2, <3>1, <3>2 DEF Becomes, ClientFds
  <2>2. CASE g # f
    <3>1. fd'[c][g] = fd[c][g] /\ opened'[c][g] = opened[c][g]
      BY <1>10, <1>11, <2>2
    <3> QED BY <3>1 DEF FdStaysOpen, ServInv
  <2> QED BY <2>1, <2>2
<1>7. HoldsDescriptor(c)' /\ BufferInv(c)'
  BY <1>1 DEF HoldsDescriptor, BufferInv, ServInv, TypeOK
<1>8. ServerInv'
  BY <1>1, <1>5, ServerKept DEF ServerInv, ServInv
<1> QED BY <1>4, <1>5, <1>6, <1>7, <1>8, ClientStepInv

LEMMA DieInv ==
  ASSUME ServInv, NEW c \in Clients, Die(c)
  PROVE  ServInv'
<1> USE DEF ServInv, TypeOK
<1>1. /\ c \in alive /\ (pc[c] = "user" \/ "kill" \in program.faults)
      /\ alive' = alive \ {c} /\ pc' = [pc EXCEPT ![c] = "dead"]
      /\ fd' = [fd EXCEPT ![c] = [f \in Fds |-> None]]
      /\ opened' = [opened EXCEPT ![c] = [f \in Fds |-> None]]
      /\ buf' = [buf EXCEPT ![c] = "own"]
      /\ call' = [call EXCEPT ![c] = NoCall]
      /\ UNCHANGED <<program, tableVars, size, serverVars>>
  BY DEF Die, Goto
<1>2. ClientTypes'
  BY <1>1, NoCallType DEF ClientTypes
<1>3. ClientStep(c)
  BY <1>1 DEF ClientStep
<1>4. ClientFds(c)'
  BY <1>1 DEF ClientFds
<1>5. HoldsDescriptor(c)' /\ BufferInv(c)'
  BY <1>1 DEF HoldsDescriptor, BufferInv
<1>6. ServerInv'
  <2>1. server \in {"serve", "advance", "reply"} /\ whom = c => "kill" \in program.faults
    BY <1>1 DEF ServerInv
  <2> QED BY <1>1, <1>3, <2>1, ServerKept
<1> QED BY <1>2, <1>3, <1>4, <1>5, <1>6, ClientStepInv

(* fork: the child is a client that was never served, and starts with what *)
(* its parent has.                                                         *)
LEMMA ForkInv ==
  ASSUME ServInv, NEW c \in Clients, NEW d \in Clients, Fork(c, d)
  PROVE  ServInv'
<1> USE DEF ServInv, TypeOK
<1>1. /\ c \in alive /\ pc[c] = "user" /\ pc[d] = "unborn" /\ c # d
      /\ "fork" \in program.calls
      /\ alive' = alive \cup {d} /\ fd' = [fd EXCEPT ![d] = fd[c]]
      /\ opened' = [opened EXCEPT ![d] = opened[c]]
      /\ buf' = [buf EXCEPT ![c] = "cow", ![d] = "cow"]
      /\ pc' = [pc EXCEPT ![d] = "user"]
      /\ call' = [call EXCEPT ![d] = NoCall]
      /\ UNCHANGED <<program, o_fileid, fd_id, fd_offset, fd_omode, taken, size,
                     server, whom, req, r, pg>>
  BY DEF Fork, Makes, At, tableVars, serverVars
<1>2. TypeOK' /\ (call \in [Clients -> Requests])' /\ (req \in Requests)'
  BY <1>1, NoCallType
<1>3. (\A i \in Entries : Index(o_fileid[i]) = i)'
  BY <1>1
<1>4. FdStaysOpen'
  <2> SUFFICES ASSUME NEW b \in Clients PROVE ClientFds(b)'
    BY DEF FdStaysOpen, ClientFds
  <2>1. PICK p \in Clients : fd'[b] = fd[p] /\ opened'[b] = opened[p]
    BY <1>1
  <2>2. ClientFds(p)
    BY DEF FdStaysOpen, ClientFds
  <2>3. UNCHANGED <<o_fileid, fd_id>>
    BY <1>1
  <2> HIDE DEF ServInv, TypeOK
  <2> QED BY <2>1, <2>2, <2>3 DEF ClientFds
<1>5. ASSUME NEW b \in Clients PROVE HoldsDescriptor(b)' /\ BufferInv(b)'
  <2>1. HoldsDescriptor(b) /\ BufferInv(b)
    OBVIOUS
  <2>2. CASE b = d
    BY <1>1, <2>2 DEF HoldsDescriptor, BufferInv
  <2>3. CASE b = c
    BY <1>1, <2>1, <2>3 DEF HoldsDescriptor, BufferInv
  <2>4. CASE b \notin {c, d}
    BY <1>1, <2>1, <2>4 DEF HoldsDescriptor, BufferInv
  <2> QED BY <2>2, <2>3, <2>4
<1>6. ServerInv'
  <2>1. server \in {"serve", "advance", "reply"} => whom # d
    BY <1>1 DEF ServerInv
  <2> QED BY <1>1, <2>1 DEF ServerInv, ServerPanicCause, Exhausted, Entry
<1>7. EachPositionOnce'
  BY <1>1 DEF EachPositionOnce, Entry
<1> QED BY <1>2, <1>3, <1>4, <1>5, <1>6, <1>7

LEMMA SeekInv ==
  ASSUME ServInv, NEW c \in Clients, NEW f \in Fds, NEW n \in 0 .. MAXSIZE, Seek(c, f, n)
  PROVE  ServInv'
<1> USE DEF ServInv, TypeOK
<1>1. /\ "seek" \in program.calls
      /\ fd_offset' = [fd_offset EXCEPT ![fd[c][f]] = n]
      /\ UNCHANGED <<program, alive, fd, opened, buf, pc, call, o_fileid, fd_id,
                     fd_omode, taken, size, server, whom, req, r, pg>>
  BY DEF Seek, Makes, clientVars, serverVars
<1>2. fd_offset' \in [Entries -> 0 .. MAXSIZE + 1]
  BY <1>1, SmallNumbers
<1>3. TypeOK' /\ (call \in [Clients -> Requests])' /\ (req \in Requests)'
  BY <1>1, <1>2
<1>4. FdStaysOpen'
  BY <1>1 DEF FdStaysOpen
<1>5. ASSUME NEW b \in Clients PROVE HoldsDescriptor(b)' /\ BufferInv(b)'
  BY <1>1 DEF HoldsDescriptor, BufferInv
<1>6. ServerInv'
  <2>1. server = "advance" => fd_offset'[Entry] <= MAXSIZE
    <3>1. server = "advance" => Entry \in Entries /\ fd_offset[Entry] <= MAXSIZE
      BY DEF ServerInv
    <3> QED BY <1>1, <3>1, SmallNumbers
  <2> QED BY <1>1, <2>1 DEF ServerInv, ServerPanicCause, Exhausted, Entry
<1>7. EachPositionOnce'
  BY <1>1 DEF EachPositionOnce
<1> QED BY <1>1, <1>3, <1>4, <1>5, <1>6, <1>7

LEMMA SendInv ==
  ASSUME ServInv, NEW c \in Clients, Send(c)
  PROVE  ServInv'
<1> USE DEF ServInv, TypeOK
<1>1. /\ c \in alive /\ pc[c] = "send" /\ server = "recv"
      /\ UNCHANGED <<program, alive, fd, opened, buf, call, o_fileid, fd_id, fd_offset,
                     fd_omode, taken, size>>
      /\ \/ /\ buf[c] = "own" /\ pc' = [pc EXCEPT ![c] = "sent"]
            /\ server' = "serve" /\ whom' = c /\ req' = call[c] /\ pg' = None
         \/ /\ buf[c] = "cow" \/ "nomem" \in program.faults
            /\ pc' = [pc EXCEPT ![c] = "panic"]
            /\ UNCHANGED <<server, whom, req, r, pg>>
  BY DEF Send, At, Goto, tableVars, serverVars
<1>2. TypeOK' /\ (call \in [Clients -> Requests])' /\ (req \in Requests)'
  <2>1. pc' = [pc EXCEPT ![c] = "sent"] \/ pc' = [pc EXCEPT ![c] = "panic"]
    BY <1>1
  <2>2. pc' \in [Clients -> {"unborn", "user", "send", "sent", "wait", "unmap",
                             "dropped", "panic", "dead"}]
    BY <2>1
  <2>3. /\ server' \in {"recv", "serve"} /\ whom' \in Clients \cup {None}
        /\ req' \in Requests /\ pg' \in Entries \cup {None}
    <3>1. call[c] \in Requests /\ None \in Entries \cup {None}
      OBVIOUS
    <3>2. whom \in Clients \cup {None} /\ req \in Requests /\ pg \in Entries \cup {None}
      OBVIOUS
    <3> HIDE DEF ServInv, TypeOK
    <3> QED BY <1>1, <3>1, <3>2
  <2> QED BY <1>1, <2>2, <2>3
<1>3. FdStaysOpen'
  <2>1. FdStaysOpen /\ UNCHANGED <<fd, opened, fd_id, o_fileid>>
    BY <1>1
  <2> HIDE DEF ServInv, TypeOK
  <2> QED BY <2>1 DEF FdStaysOpen
<1>4. ASSUME NEW b \in Clients PROVE HoldsDescriptor(b)' /\ BufferInv(b)'
  <2>1. HoldsDescriptor(b) /\ BufferInv(b)
    OBVIOUS
  <2>2. CASE b = c
    BY <1>1, <2>1, <2>2 DEF HoldsDescriptor, BufferInv
  <2>3. CASE b # c
    BY <1>1, <2>1, <2>3 DEF HoldsDescriptor, BufferInv
  <2> QED BY <2>2, <2>3
<1>5. ServerInv'
  BY <1>1 DEF ServerInv, ServerPanicCause
<1>6. EachPositionOnce'
  <2>1. server # "advance" /\ server' # "advance"
    BY <1>1
  <2> QED BY <1>1, <2>1 DEF EachPositionOnce
<1> QED BY <1>1, <1>2, <1>3, <1>4, <1>5, <1>6

-----------------------------------------------------------------------------
(* The steps of the server.                                                *)

(* A descriptor that a client holds leads openfile_lookup to its entry.    *)
LEMMA Lookup ==
  ASSUME ServInv, server = "serve", OnFile, whom \in alive
  PROVE  Found /\ Entry \in Entries
<1>1. /\ whom \in Clients /\ req = call[whom] /\ pc[whom] \in {"sent", "wait"}
      /\ HoldsDescriptor(whom) /\ req \in Requests
  BY DEF ServInv, ServerInv
<1>2. req.op \in OnDescriptor
  BY <1>1 DEF HoldsDescriptor, OnFile, Requests
<1>3. req.fd \in Fds /\ fd[whom][req.fd] # None /\ opened[whom][req.fd] = req.fileid
  BY <1>1, <1>2 DEF HoldsDescriptor
<1>4. /\ o_fileid[fd[whom][req.fd]] = req.fileid
      /\ Entry = fd[whom][req.fd]
  BY <1>1, <1>3 DEF ServInv, FdStaysOpen, Entry
<1> QED BY <1>1, <1>3, <1>4 DEF Found, Shared, ServInv, TypeOK

(* A handler ends with an answer, or with a panic that has a cause.        *)
Ends == server' = "reply" \/ (server' = "panic" /\ Exhausted)

(* Requests that change no entry of the table.                             *)
LEMMA ServeOtherInv ==
  ASSUME ServInv, NotFound \/ ServeOther
  PROVE  ServInv'
<1> USE DEF ServInv, TypeOK
<1>1. /\ server = "serve" /\ Ends /\ pg' = None
      /\ size' \in 0 .. MAXSIZE
      /\ UNCHANGED <<program, alive, fd, opened, buf, pc, call, o_fileid, fd_id,
                     fd_offset, fd_omode, taken, whom, req>>
  <2>1. server = "serve" => pg = None
    BY DEF ServerInv
  <2> QED BY <2>1 DEF NotFound, ServeOther, Answer, Panic, Ends, clientVars, tableVars
<1>2. TypeOK' /\ (call \in [Clients -> Requests])' /\ (req \in Requests)'
  BY <1>1 DEF Ends
<1>3. FdStaysOpen'
  BY <1>1 DEF FdStaysOpen
<1>4. ASSUME NEW b \in Clients PROVE HoldsDescriptor(b)' /\ BufferInv(b)'
  BY <1>1 DEF HoldsDescriptor, BufferInv
<1>5. ServerInv'
  BY <1>1 DEF ServerInv, ServerPanicCause, Exhausted, Ends
<1>6. EachPositionOnce'
  <2>1. server # "advance" /\ server' # "advance"
    BY <1>1 DEF Ends
  <2> QED BY <1>1, <2>1 DEF EachPositionOnce
<1> QED BY <1>1, <1>2, <1>3, <1>4, <1>5, <1>6

(* serve_open takes an entry that no client has mapped.                    *)
LEMMA ServeOpenInv ==
  ASSUME ServInv, ServeOpen
  PROVE  ServInv'
<1> USE DEF ServInv, TypeOK
<1>1. /\ server = "serve" /\ req.op = "open" /\ Ends
      /\ UNCHANGED <<program, alive, fd, opened, buf, pc, call, whom, req>>
  BY DEF ServeOpen, Answer, Panic, Exhausted, PageRequests, BlockRequests, Ends, clientVars
<1>6. pg = None
  BY <1>1 DEF ServerInv
<1>2. ASSUME NEW b \in Clients PROVE HoldsDescriptor(b)' /\ BufferInv(b)'
  BY <1>1 DEF HoldsDescriptor, BufferInv
<1>3. server # "advance" /\ server' # "advance"
  BY <1>1 DEF Ends
<1>4. CASE pg' = None /\ UNCHANGED <<tableVars, size>>
  <2>1. UNCHANGED <<o_fileid, fd_id, fd_offset, fd_omode, taken, size>>
    BY <1>4 DEF tableVars
  <2>2. TypeOK' /\ (call \in [Clients -> Requests])' /\ (req \in Requests)'
    BY <1>1, <1>4, <2>1 DEF Ends
  <2>3. FdStaysOpen' /\ ServerInv'
    BY <1>1, <1>4, <2>1 DEF FdStaysOpen, ServerInv, ServerPanicCause, Exhausted, Ends
  <2>4. EachPositionOnce'
    BY <1>1, <1>3, <2>1 DEF EachPositionOnce
  <2> QED BY <1>2, <2>1, <2>2, <2>3, <2>4
<1>5. ASSUME NEW i \in Entries, ~Shared(i), NewFd(i),
             \/ /\ pg' = i /\ fd_id' = [fd_id EXCEPT ![i] = NextId(i)]
                /\ fd_omode' = [fd_omode EXCEPT ![i] = req.mode]
                /\ size' = IF req.trunc THEN 0 ELSE size
             \/ /\ pg' = None /\ fd_id' = [fd_id EXCEPT ![i] = 0]
                /\ fd_omode' = [fd_omode EXCEPT ![i] = "O_RDONLY"]
                /\ UNCHANGED size
      PROVE  ServInv'
  <2>1. /\ o_fileid' = [o_fileid EXCEPT ![i] = NextId(i)]
        /\ fd_offset' = [fd_offset EXCEPT ![i] = 0] /\ taken' = [taken EXCEPT ![i] = {}]
    BY <1>5 DEF NewFd
  <2>2. NextId(i) \in 0 .. IDMOD - 1 /\ Index(NextId(i)) = i
    BY NextIdEntry DEF NextId, Index
  <2>3. req.mode \in Modes
    BY DEF Requests
  <2>4. TypeOK'
    <3>1. o_fileid' \in [Entries -> 0 .. IDMOD - 1]
      BY <2>1, <2>2
    <3>2. fd_id' \in [Entries -> 0 .. IDMOD - 1]
      BY <1>5, <2>2, SmallNumbers
    <3>3. fd_offset' \in [Entries -> 0 .. MAXSIZE + 1]
      BY <2>1, SmallNumbers
    <3>4. fd_omode' \in [Entries -> Modes]
      BY <1>5, <2>3 DEF Modes
    <3>5. size' \in 0 .. MAXSIZE
      BY <1>5, SmallNumbers
    <3>6. pg' \in Entries \cup {None}
      BY <1>5
    <3>7. taken' \in [Entries -> SUBSET Nat]
      BY <2>1
    <3> QED BY <1>1, <3>1, <3>2, <3>3, <3>4, <3>5, <3>6, <3>7 DEF Ends
  <2>5. (\A k \in Entries : Index(o_fileid[k]) = k)'
    BY <2>1, <2>2
  <2>6. FdStaysOpen'
    <3> SUFFICES ASSUME NEW c \in Clients PROVE ClientFds(c)'
      BY DEF FdStaysOpen, ClientFds
    <3>1. ClientFds(c)
      BY DEF FdStaysOpen, ClientFds
    <3>2. fd'[c] = fd[c] /\ opened'[c] = opened[c]
      BY <1>1
    <3>3. ASSUME NEW f \in Fds, fd[c][f] # None
          PROVE  fd_id'[fd[c][f]] = fd_id[fd[c][f]]
                 /\ o_fileid'[fd[c][f]] = o_fileid[fd[c][f]]
      <4>1. fd[c][f] # i
        BY <1>5 DEF Shared
      <4> QED BY <1>5, <2>1, <3>3, <4>1
    <3> HIDE DEF ServInv, TypeOK
    <3> QED BY <3>1, <3>2, <3>3 DEF ClientFds
  <2>7. ServerInv'
    <3>1. pg' # None => fd_id'[pg'] = o_fileid'[pg']
      BY <1>5, <2>1, Bounds DEF Entries
    <3> QED BY <1>1, <3>1 DEF ServerInv, ServerPanicCause, Exhausted, Ends
  <2>8. EachPositionOnce'
    <3> SUFFICES ASSUME "seek" \notin program.calls, NEW k \in Entries,
                        taken[k] = 0 .. fd_offset[k] - 1
                 PROVE  taken'[k] = 0 .. fd_offset'[k] - 1
      BY <1>1, <1>3 DEF EachPositionOnce
    <3>1. CASE k = i
      <4>1. taken'[k] = {} /\ fd_offset'[k] = 0
        BY <2>1, <3>1
      <4> HIDE DEF ServInv, TypeOK
      <4> QED BY <4>1, OneMore
    <3>2. CASE k # i
      BY <2>1, <3>2
    <3> QED BY <3>1, <3>2
  <2> QED BY <1>1, <1>2, <2>4, <2>5, <2>6, <2>7, <2>8
<1> QED BY <1>4, <1>5, <1>6 DEF ServeOpen, Answer, Panic, IsAlloc, Available

(* serve_read and serve_write move the part at the offset ...              *)
LEMMA MoveInv ==
  ASSUME ServInv, Move
  PROVE  ServInv'
<1> USE DEF ServInv, TypeOK
<1>1. /\ server = "serve" /\ req.op \in {"read", "write"} /\ Found
      /\ UNCHANGED <<program, alive, fd, opened, buf, pc, call, o_fileid, fd_id,
                     fd_offset, fd_omode, whom, req>>
  BY DEF Move, clientVars
<1>2. Entry \in Entries
  <2>1. req.fileid \in Nat
    <3>1. req \in Requests
      OBVIOUS
    <3> HIDE DEF ServInv, TypeOK
    <3>2. req.fileid \in 0 .. IDMOD - 1
      BY <3>1 DEF Requests
    <3>3. IDMOD \in Nat
      BY Bounds
    <3> QED BY <3>2, <3>3
  <2> QED BY <2>1, Bounds, ModRange DEF Entry, Index, Entries
<1>3. size' \in 0 .. MAXSIZE
  <2>1. size' = IF req.op = "write" /\ InReach THEN Max({size, fd_offset[Entry] + 1})
                                               ELSE size
    BY DEF Move
  <2>2. size \in 0 .. MAXSIZE /\ fd_offset[Entry] \in 0 .. MAXSIZE + 1
    BY <1>2
  <2> HIDE DEF ServInv, TypeOK
  <2>3. CASE req.op = "write" /\ InReach
    <3>1. fd_offset[Entry] < MAXSIZE
      BY <2>3 DEF InReach
    <3>2. size \in Int /\ fd_offset[Entry] + 1 \in Int
      BY <2>2
    <3>3. size' \in {size, fd_offset[Entry] + 1}
      BY <2>1, <2>3, <3>2, MaxPair
    <3> QED BY <2>2, <3>1, <3>3, SmallNumbers
  <2> QED BY <2>1, <2>2, <2>3
<1>4. FdStaysOpen'
  BY <1>1 DEF FdStaysOpen
<1>5. ASSUME NEW b \in Clients PROVE HoldsDescriptor(b)' /\ BufferInv(b)'
  BY <1>1 DEF HoldsDescriptor, BufferInv
<1>6. pg = None
  BY <1>1 DEF ServerInv
<1>7. CASE /\ InReach /\ taken' = [taken EXCEPT ![Entry] = @ \cup {fd_offset[Entry]}]
           /\ server' = "advance" /\ r' = 1 /\ UNCHANGED pg
  <2>1. fd_offset[Entry] <= MAXSIZE /\ fd_offset[Entry] \in Nat
    <3>1. fd_offset[Entry] < MAXSIZE \/ fd_offset[Entry] < size
      BY <1>1, <1>7 DEF InReach
    <3>2. size \in 0 .. MAXSIZE /\ fd_offset[Entry] \in 0 .. MAXSIZE + 1 /\ MAXSIZE \in Nat
      BY <1>2, Bounds
    <3> HIDE DEF ServInv, TypeOK
    <3> QED BY <3>1, <3>2
  <2>2. taken' \in [Entries -> SUBSET Nat]
    BY <1>7, <2>1
  <2>3. TypeOK' /\ (call \in [Clients -> Requests])' /\ (req \in Requests)'
    BY <1>1, <1>3, <1>7, <2>2
  <2>4. ServerInv'
    BY <1>1, <1>2, <1>6, <1>7, <2>1 DEF ServerInv, ServerPanicCause, Exhausted, Entry
  <2>5. EachPositionOnce'
    <3> SUFFICES ASSUME "seek" \notin program.calls, NEW k \in Entries,
                        taken[k] = 0 .. fd_offset[k] - 1
                 PROVE  taken'[k] = 0 .. fd_offset[k] - (IF Entry = k THEN 0 ELSE 1)
      BY <1>1, <1>7 DEF EachPositionOnce, Entry
    <3>1. CASE k # Entry
      BY <1>7, <3>1
    <3>2. CASE k = Entry
      <4>1. taken'[k] = (0 .. fd_offset[k] - 1) \cup {fd_offset[k]}
        BY <1>7, <3>2
      <4>2. fd_offset[k] \in Nat
        BY <2>1, <3>2
      <4> HIDE DEF ServInv, TypeOK
      <4> QED BY <3>2, <4>1, <4>2, OneMore
    <3> QED BY <3>1, <3>2
  <2> QED BY <1>1, <1>4, <1>5, <2>3, <2>4, <2>5
<1>8. CASE Ends /\ pg' = None /\ UNCHANGED taken
  <2>1. TypeOK' /\ (call \in [Clients -> Requests])' /\ (req \in Requests)'
    BY <1>1, <1>3, <1>8 DEF Ends
  <2>2. ServerInv'
    BY <1>1, <1>8 DEF ServerInv, ServerPanicCause, Exhausted, Ends
  <2>3. EachPositionOnce'
    <3>1. server # "advance" /\ server' # "advance"
      BY <1>1, <1>8 DEF Ends
    <3> QED BY <1>1, <1>8, <3>1 DEF EachPositionOnce
  <2> QED BY <1>1, <1>4, <1>5, <2>1, <2>2, <2>3
<1> QED BY <1>6, <1>7, <1>8 DEF Move, Answer, Panic, Ends

(* ... and then advance the offset.                                        *)
LEMMA AdvanceInv ==
  ASSUME ServInv, Advance
  PROVE  ServInv'
<1> USE DEF ServInv, TypeOK
<1>1. /\ server = "advance" /\ server' = "reply" /\ pg' = None
      /\ fd_offset' = [fd_offset EXCEPT ![Entry] = @ + r]
      /\ UNCHANGED <<program, alive, fd, opened, buf, pc, call, o_fileid, fd_id,
                     fd_omode, taken, size, whom, req>>
  BY DEF Advance, Answer, clientVars
<1>2. /\ r = 1 /\ Entry \in Entries /\ fd_offset[Entry] <= MAXSIZE
      /\ fd_offset[Entry] \in 0 .. MAXSIZE + 1 /\ fd_offset[Entry] \in Nat
  <2>1. r = 1 /\ Entry \in Entries /\ fd_offset[Entry] <= MAXSIZE
    BY <1>1 DEF ServerInv
  <2> QED BY <2>1, SmallNumbers
<1>3. fd_offset' \in [Entries -> 0 .. MAXSIZE + 1]
  <2>1. fd_offset[Entry] + r \in 0 .. MAXSIZE + 1
    BY <1>2, SmallNumbers
  <2> QED BY <1>1, <2>1
<1>4. TypeOK' /\ (call \in [Clients -> Requests])' /\ (req \in Requests)'
  BY <1>1, <1>3
<1>5. FdStaysOpen'
  BY <1>1 DEF FdStaysOpen
<1>6. ASSUME NEW b \in Clients PROVE HoldsDescriptor(b)' /\ BufferInv(b)'
  BY <1>1 DEF HoldsDescriptor, BufferInv
<1>7. ServerInv'
  BY <1>1 DEF ServerInv, ServerPanicCause
<1>8. EachPositionOnce'
  <2> SUFFICES ASSUME "seek" \notin program.calls, NEW k \in Entries,
                      taken[k] = 0 .. fd_offset[k] - (IF Entry = k THEN 0 ELSE 1)
               PROVE  taken[k] = 0 .. fd_offset'[k] - 1
    BY <1>1 DEF EachPositionOnce
  <2>1. CASE k # Entry
    BY <1>1, <2>1
  <2>2. CASE k = Entry
    <3>1. fd_offset'[k] = fd_offset[k] + 1
      BY <1>1, <1>2, <2>2
    <3>2. fd_offset[k] \in Nat
      BY <1>2, <2>2
    <3> HIDE DEF ServInv, TypeOK
    <3> QED BY <2>2, <3>1, <3>2, OneMore
  <2> QED BY <2>1, <2>2
<1> QED BY <1>1, <1>4, <1>5, <1>6, <1>7, <1>8

(* The answer: a page with a struct Fd goes to the client that opened it.  *)
LEMMA ReplyInv ==
  ASSUME ServInv, Reply
  PROVE  ServInv'
<1> USE DEF ServInv, TypeOK
<1>1. /\ server = "reply" /\ whom \in Clients
      /\ UNCHANGED <<program, alive, buf, o_fileid, fd_id, fd_offset, fd_omode, taken,
                     size>>
  BY DEF Reply, tableVars, ServerInv
<1>2. CASE /\ \/ whom \notin alive
              \/ pc[whom] = "wait" /\ pg # None /\ "nomem" \in program.faults
           /\ server' = "panic"
           /\ UNCHANGED <<fd, opened, pc, call, whom, req, r, pg>>
  <2>1. TypeOK' /\ (call \in [Clients -> Requests])' /\ (req \in Requests)'
    BY <1>1, <1>2
  <2>2. FdStaysOpen'
    BY <1>1, <1>2 DEF FdStaysOpen
  <2>3. ASSUME NEW b \in Clients PROVE HoldsDescriptor(b)' /\ BufferInv(b)'
    BY <1>1, <1>2 DEF HoldsDescriptor, BufferInv
  <2>4. ServerInv'
    <3>1. (pc[whom] = "dead" /\ "kill" \in program.faults) \/ Exhausted
      BY <1>1, <1>2 DEF ServerInv, Exhausted, PageRequests, BlockRequests
    <3> QED BY <1>1, <1>2, <3>1 DEF ServerInv, ServerPanicCause, Exhausted
  <2>5. EachPositionOnce'
    <3>1. server # "advance" /\ server' # "advance"
      BY <1>1, <1>2
    <3> QED BY <1>1, <3>1 DEF EachPositionOnce
  <2> QED BY <1>1, <2>1, <2>2, <2>3, <2>4, <2>5
<1>3. CASE /\ whom \in alive /\ Delivered(whom)
           /\ server' = "recv" /\ whom' = None /\ req' = NoCall /\ pg' = None
  <2> DEFINE c == whom
             f == call[c].fd
  <2>1. /\ c \in Clients /\ req = call[c] /\ pc[c] \in {"sent", "wait"}
        /\ HoldsDescriptor(c)
    BY <1>1, <1>3 DEF ServerInv
  <2>2. pg # None => call[c].op = "open" /\ f \in Fds /\ pg \in Entries
    BY <1>3, <2>1 DEF ServerInv, HoldsDescriptor
  <2>3. /\ fd' = (IF pg = None THEN fd ELSE [fd EXCEPT ![c][f] = pg])
        /\ opened' = (IF pg = None THEN opened ELSE [opened EXCEPT ![c][f] = fd_id[pg]])
        /\ \/ /\ call[c].op \in {"close", "dup"} /\ pc' = [pc EXCEPT ![c] = "unmap"]
              /\ UNCHANGED call
           \/ pc' = [pc EXCEPT ![c] = "user"] /\ call' = [call EXCEPT ![c] = NoCall]
    BY <1>3 DEF Delivered, Goto
  <2>9. /\ fd \in [Clients -> [Fds -> Entries \cup {None}]]
        /\ opened \in [Clients -> [Fds -> (0 .. IDMOD - 1) \cup {None}]]
        /\ \A k \in Entries : fd_id[k] \in (0 .. IDMOD - 1) \cup {None}
    OBVIOUS
  <2>10. /\ fd' \in [Clients -> [Fds -> Entries \cup {None}]]
         /\ \A b \in Clients, g \in Fds :
              fd'[b][g] = IF pg # None /\ b = c /\ g = f THEN pg ELSE fd[b][g]
    <3>1. c \in Clients
      BY <2>1
    <3> HIDE DEF ServInv, TypeOK, c, f
    <3>2. CASE pg = None
      BY <2>3, <2>9, <3>2
    <3>3. CASE pg # None
      BY <2>2, <2>3, <2>9, <3>1, <3>3, TableUpdate
    <3> QED BY <3>2, <3>3
  <2>11. /\ opened' \in [Clients -> [Fds -> (0 .. IDMOD - 1) \cup {None}]]
         /\ \A b \in Clients, g \in Fds :
              opened'[b][g] = IF pg # None /\ b = c /\ g = f THEN fd_id[pg]
                                                            ELSE opened[b][g]
    <3>1. c \in Clients
      BY <2>1
    <3> HIDE DEF ServInv, TypeOK, c, f
    <3>2. CASE pg = None
      BY <2>3, <2>9, <3>2
    <3>3. CASE pg # None
      BY <2>2, <2>3, <2>9, <3>1, <3>3, TableUpdate
    <3> QED BY <3>2, <3>3
  <2> HIDE DEF c
  <2>4. TypeOK' /\ (call \in [Clients -> Requests])' /\ (req \in Requests)'
    <3>2. pc' \in [Clients -> {"unborn", "user", "send", "sent", "wait", "unmap",
                               "dropped", "panic", "dead"}]
      BY <2>3
    <3>3. call' \in [Clients -> Requests]
      BY <2>3, NoCallType
    <3> QED BY <1>1, <1>3, <2>10, <2>11, <3>2, <3>3, NoCallType
  <2>5. FdStaysOpen'
    <3> SUFFICES ASSUME NEW b \in Clients, NEW g \in Fds, fd'[b][g] # None
                 PROVE  /\ fd_id[fd'[b][g]] = opened'[b][g]
                        /\ o_fileid[fd'[b][g]] = opened'[b][g]
                        /\ Index(opened'[b][g]) = fd'[b][g]
      BY <1>1 DEF FdStaysOpen
    <3>1. CASE fd'[b][g] = fd[b][g] /\ opened'[b][g] = opened[b][g]
      <4>1. FdStaysOpen
        OBVIOUS
      <4> HIDE DEF ServInv, TypeOK
      <4> QED BY <3>1, <4>1 DEF FdStaysOpen
    <3>2. CASE pg # None /\ fd'[b][g] = pg /\ opened'[b][g] = fd_id[pg]
      <4>1. pg \in Entries /\ fd_id[pg] = o_fileid[pg] /\ Index(o_fileid[pg]) = pg
        BY <2>2, <3>2 DEF ServerInv
      <4> HIDE DEF ServInv, TypeOK
      <4> QED BY <3>2, <4>1
    <3> HIDE DEF ServInv, TypeOK
    <3> QED BY <2>10, <2>11, <3>1, <3>2
  <2>6. ASSUME NEW b \in Clients PROVE HoldsDescriptor(b)' /\ BufferInv(b)'
    <3>1. HoldsDescriptor(b) /\ BufferInv(b)
      OBVIOUS
    <3>2. CASE b # c
      <4>1. fd'[b] = fd[b] /\ opened'[b] = opened[b]
        BY <2>1, <2>2, <2>3, <3>2
      <4>2. pc'[b] = pc[b] /\ call'[b] = call[b]
        BY <2>3, <3>2
      <4> HIDE DEF ServInv, TypeOK
      <4> QED BY <1>1, <3>1, <4>1, <4>2 DEF HoldsDescriptor, BufferInv
    <3>3. CASE b = c
      <4>1. CASE pc' = [pc EXCEPT ![c] = "user"] /\ call' = [call EXCEPT ![c] = NoCall]
        BY <1>1, <3>1, <3>3, <4>1 DEF HoldsDescriptor, BufferInv
      <4>2. CASE /\ call[c].op \in {"close", "dup"} /\ pc' = [pc EXCEPT ![c] = "unmap"]
                 /\ UNCHANGED call
        <5>1. pg = None /\ UNCHANGED <<fd, opened>>
          BY <2>2, <2>3, <4>2
        <5> QED BY <1>1, <2>1, <3>1, <3>3, <4>2, <5>1 DEF HoldsDescriptor, BufferInv
      <4> QED BY <2>3, <4>1, <4>2
    <3> QED BY <3>2, <3>3
  <2>7. ServerInv'
    BY <1>3 DEF ServerInv, ServerPanicCause
  <2>8. EachPositionOnce'
    <3>1. server # "advance" /\ server' # "advance"
      BY <1>1, <1>3
    <3> QED BY <1>1, <3>1 DEF EachPositionOnce
  <2> QED BY <1>1, <2>4, <2>5, <2>6, <2>7, <2>8
<1> QED BY <1>2, <1>3 DEF Reply, Panic

(* Every step preserves the invariant.                                     *)
LEMMA NextInv ==
  ASSUME ServInv, [Next]_vars
  PROVE  ServInv'
<1>1. CASE UNCHANGED vars
  <2>1. UNCHANGED <<program, alive, fd, opened, buf, pc, call, o_fileid, fd_id, fd_offset,
                    fd_omode, taken, size, server, whom, req, r, pg>>
    BY <1>1 DEF vars, clientVars, tableVars, serverVars
  <2>2. TypeOK' /\ (call \in [Clients -> Requests])' /\ (req \in Requests)'
    BY <2>1 DEF ServInv, TypeOK
  <2>3. (\A i \in Entries : Index(o_fileid[i]) = i)' /\ FdStaysOpen'
    BY <2>1 DEF ServInv, FdStaysOpen
  <2>4. ASSUME NEW c \in Clients PROVE HoldsDescriptor(c)' /\ BufferInv(c)'
    <3>1. HoldsDescriptor(c) /\ BufferInv(c)
      BY DEF ServInv
    <3> QED BY <2>1, <3>1 DEF HoldsDescriptor, BufferInv
  <2>5. ServerInv' /\ EachPositionOnce'
    BY <2>1 DEF ServInv, ServerInv, ServerPanicCause, Exhausted, EachPositionOnce, Entry
  <2> QED BY <2>2, <2>3, <2>4, <2>5 DEF ServInv
<1>2. ASSUME NEW c \in Clients, BeginCall(c) \/ Client(c) \/ SendNothing(c) \/ Die(c)
      PROVE  ServInv'
  BY <1>2, BeginCallInv, SendInv, WaitInv, UnmapInv, DieInv DEF Client
<1>3. CASE Server
  BY <1>3, ServeOpenInv, ServeOtherInv, MoveInv, AdvanceInv, ReplyInv DEF Server
<1> QED BY <1>1, <1>2, <1>3, DupInv, SeekInv, ForkInv DEF Next

-----------------------------------------------------------------------------
(* The server and its clients keep their invariant, for any number of      *)
(* clients, descriptors and entries of opentab.                            *)
THEOREM ServInvariance == Spec => []ServInv
BY InitInv, NextInv, PTL DEF Spec

(* What a descriptor maps is still the opening it was opened for.          *)
THEOREM DescriptorSafety == Spec => []FdStaysOpen
<1>1. ServInv => FdStaysOpen
  BY DEF ServInv
<1> QED BY <1>1, ServInvariance, PTL

(* openfile_lookup refuses no request of a live client.                    *)
THEOREM LookupSafety == Spec => []OpenIsFound
<1>1. ServInv => OpenIsFound
  BY Lookup DEF OpenIsFound
<1> QED BY <1>1, ServInvariance, PTL

(* A shared offset hands out every position once.                          *)
THEOREM OffsetSafety == Spec => []EachPositionOnce
<1>1. ServInv => EachPositionOnce
  BY DEF ServInv
<1> QED BY <1>1, ServInvariance, PTL

(* The server panics only for a killed client, or for want of a disk block *)
(* or of memory; a client only in sync after a fork, or for want of memory. *)
THEOREM PanicSafety == Spec => []PanicsHaveACause
<1>1. ServInv => PanicsHaveACause
  BY DEF ServInv, ServerInv, BufferInv, PanicsHaveACause
<1> QED BY <1>1, ServInvariance, PTL
=============================================================================
