-------------------------------- MODULE Pipe ---------------------------------
(***************************************************************************)
(* The pipes of the user library (lib/pipe.c, with close and dup of        *)
(* lib/fd.c and the sharing of pages by fork of lib/fork.c).               *)
(*                                                                         *)
(* A pipe is a page with a ring buffer and two positions, mapped into      *)
(* every environment that has one of its ends open, next to the page of    *)
(* that end's struct Fd.  There is no lock: the environments read and      *)
(* write the page as they run, and learn that the other end is closed by   *)
(* comparing the reference counts of the two pages.  One step is one       *)
(* access to shared memory or one system call.                             *)
(***************************************************************************)
EXTENDS Integers, FiniteSets, Sequences

CONSTANTS
  Procs,        \* environments
  Creator,      \* the one that calls pipe
  Fds,          \* file descriptor numbers
  NCPU,         \* CPUs the environments run on
  PIPEBUFSIZ,
  COUNT,        \* bytes asked for in one read or write
  MAXBYTES,     \* bound on the bytes written in all
  Programs,     \* the calls the environments make, each in its program
  None

Nothing == 0      \* the bytes themselves are 1, 2, ...
Eof == -1
Ends == {"r", "w"}

ASSUME PipeAssumption ==
  /\ IsFiniteSet(Procs) /\ Creator \in Procs
  /\ Fds \subseteq Nat /\ {0, 1} \subseteq Fds /\ IsFiniteSet(Fds)
  /\ NCPU \in Nat \ {0} /\ PIPEBUFSIZ \in Nat \ {0} /\ COUNT \in Nat \ {0}
  /\ None \notin Ends /\ None \notin Int /\ None \notin Procs

VARIABLES
  calls,    \* what the environments of this behaviour do
  fd,       \* the end whose struct Fd is mapped at each descriptor, or None
  data,     \* is the pipe mapped at fd2data of the descriptor?
  p_rpos, p_wpos, p_buf,
  alive, oncpu,
  env_runs, \* has the environment been run again since it last looked?
  pc, op,   \* where it is, and in which call
  at,       \* the descriptor the call is about
  arg,      \* the descriptor dup makes, the child fork makes
  i,        \* bytes moved so far
  byte,     \* the byte a reader has taken
  refs,     \* the two results of pageref
  got       \* what a reader received last, over all environments

pageVars == <<fd, data>>
ringVars == <<p_rpos, p_wpos, p_buf, got>>
cpuVars == <<alive, oncpu, env_runs>>
callVars == <<op, at, arg, i, byte, refs>>
vars == <<calls, pageVars, ringVars, cpuVars, pc, callVars>>

IsLowest(f, S) == f \in S /\ \A g \in S : f <= g
Open(p) == {f \in Fds : fd[p][f] # None}

(* pageref of the struct Fd of an end, and of the pipe.                    *)
FdRef(end) == Cardinality({x \in Procs \X Fds : fd[x[1]][x[2]] = end})
PipeRef == Cardinality({x \in Procs \X Fds : data[x[1]][x[2]]})

NoRefs == [fd |-> None, pipe |-> None]

-----------------------------------------------------------------------------
(* pipe has just returned in Creator: pfd[0] = 0 and pfd[1] = 1.           *)
Init ==
  /\ calls \in Programs
  /\ fd = [p \in Procs |-> [f \in Fds |->
             IF p = Creator /\ f = 0 THEN "r"
             ELSE IF p = Creator /\ f = 1 THEN "w" ELSE None]]
  /\ data = [p \in Procs |-> [f \in Fds |-> p = Creator /\ f \in {0, 1}]]
  /\ p_rpos = 0 /\ p_wpos = 0
  /\ p_buf = [k \in 0 .. PIPEBUFSIZ - 1 |-> Nothing]
  /\ alive = {Creator} /\ oncpu = {Creator}
  /\ env_runs = [p \in Procs |-> FALSE]
  /\ pc = [p \in Procs |-> "user"]
  /\ op = [p \in Procs |-> "none"]
  /\ at = [p \in Procs |-> 0]
  /\ arg = [p \in Procs |-> None]
  /\ i = [p \in Procs |-> 0]
  /\ byte = [p \in Procs |-> Nothing]
  /\ refs = [p \in Procs |-> NoRefs]
  /\ got = Nothing

Goto(p, point) == pc' = [pc EXCEPT ![p] = point]
At(p, point) == p \in oncpu /\ pc[p] = point

Begin(p, call, f, a) ==
  /\ At(p, "user") /\ call \in calls[p]
  /\ op' = [op EXCEPT ![p] = call]
  /\ at' = [at EXCEPT ![p] = f]
  /\ arg' = [arg EXCEPT ![p] = a]
  /\ i' = [i EXCEPT ![p] = 0]
  /\ byte' = [byte EXCEPT ![p] = Nothing]
  /\ refs' = [refs EXCEPT ![p] = NoRefs]

(* The call is over; nothing of its local state survives.                  *)
Return(p) ==
  /\ Goto(p, "user")
  /\ op' = [op EXCEPT ![p] = "none"]
  /\ at' = [at EXCEPT ![p] = 0]
  /\ arg' = [arg EXCEPT ![p] = None]
  /\ i' = [i EXCEPT ![p] = 0]
  /\ byte' = [byte EXCEPT ![p] = Nothing]
  /\ refs' = [refs EXCEPT ![p] = NoRefs]

-----------------------------------------------------------------------------
(* read, write and pipeisclosed.                                           *)

(* read and write check the mode of the descriptor.                        *)
BeginMove(p, f) ==
  /\ \/ fd[p][f] = "r" /\ Begin(p, "read", f, None)
     \/ /\ fd[p][f] = "w" /\ p_wpos + COUNT <= MAXBYTES
        /\ Begin(p, "write", f, None)
  /\ Goto(p, "test")
  /\ UNCHANGED <<pageVars, ringVars, cpuVars>>

BeginIsClosed(p, f) ==
  /\ f \in Open(p)
  /\ Begin(p, "isclosed", f, None)
  /\ Goto(p, "runs")
  /\ UNCHANGED <<pageVars, ringVars, cpuVars>>

(* A reader finds the pipe empty, a writer finds it full.                  *)
Blocked_OffByOne(p) == \/ op[p] = "read" /\ p_rpos = p_wpos
                       \/ op[p] = "write" /\ p_wpos > p_rpos + PIPEBUFSIZ
Blocked(p) == \/ op[p] = "read" /\ p_rpos = p_wpos
              \/ op[p] = "write" /\ p_wpos >= p_rpos + PIPEBUFSIZ

MovedAll(p) == i[p] >= COUNT

(* The head of the loops of devpipe_read and devpipe_write.  A reader that *)
(* has something returns it rather than wait.                              *)
Test(p) ==
  /\ At(p, "test")
  /\ \/ MovedAll(p) /\ Return(p)
     \/ /\ ~MovedAll(p) /\ Blocked(p) /\ op[p] = "read" /\ i[p] > 0
        /\ Return(p)
     \/ /\ ~MovedAll(p) /\ ~Blocked(p)
        /\ Goto(p, "move") /\ UNCHANGED callVars
     \/ /\ ~MovedAll(p) /\ Blocked(p) /\ ~(op[p] = "read" /\ i[p] > 0)
        /\ Goto(p, "runs") /\ UNCHANGED callVars
  /\ UNCHANGED <<pageVars, ringVars, cpuVars>>

(* Take or store the byte, then advance the position.                      *)
Move(p) ==
  /\ At(p, "move")
  /\ \/ /\ op[p] = "read"
        /\ byte' = [byte EXCEPT ![p] = p_buf[p_rpos % PIPEBUFSIZ]]
        /\ UNCHANGED p_buf
     \/ /\ op[p] = "write"
        /\ p_buf' = [p_buf EXCEPT ![p_wpos % PIPEBUFSIZ] = p_wpos + 1]
        /\ UNCHANGED byte
  /\ Goto(p, "advance")
  /\ UNCHANGED <<pageVars, p_rpos, p_wpos, got, cpuVars, op, at, arg, i, refs>>

Advance(p) ==
  /\ At(p, "advance")
  /\ \/ /\ op[p] = "read"
        /\ p_rpos' = p_rpos + 1 /\ got' = byte[p]
        /\ UNCHANGED p_wpos
     \/ /\ op[p] = "write"
        /\ p_wpos' = p_wpos + 1
        /\ UNCHANGED <<p_rpos, got>>
  /\ i' = [i EXCEPT ![p] = @ + 1]
  /\ byte' = [byte EXCEPT ![p] = Nothing]
  /\ Goto(p, "test")
  /\ UNCHANGED <<pageVars, p_buf, cpuVars, op, at, arg, refs>>

(* _pipeisclosed: n = env_runs, the two counts in the order the compiler   *)
(* chooses, and env_runs again.                                            *)
ReadRuns(p) ==
  /\ At(p, "runs")
  /\ env_runs' = [env_runs EXCEPT ![p] = FALSE]
  /\ refs' = [refs EXCEPT ![p] = NoRefs]
  /\ Goto(p, "refs")
  /\ UNCHANGED <<pageVars, ringVars, alive, oncpu, op, at, arg, i, byte>>

ReadRefs(p) ==
  /\ At(p, "refs")
  /\ \/ /\ refs[p].fd = None
        /\ refs' = [refs EXCEPT ![p].fd = FdRef(fd[p][at[p]])]
     \/ /\ refs[p].pipe = None
        /\ refs' = [refs EXCEPT ![p].pipe = PipeRef]
  /\ Goto(p, IF None \in {refs'[p].fd, refs'[p].pipe} THEN "refs" ELSE "compare")
  /\ UNCHANGED <<pageVars, ringVars, cpuVars, op, at, arg, i, byte>>

RunAgain_Ignored(p) == FALSE
RunAgain(p) == env_runs[p]
SaysClosed_PipeCount(p) == ~RunAgain(p) /\ refs[p].pipe = 1
SaysClosed(p) == ~RunAgain(p) /\ refs[p].fd = refs[p].pipe

(* A reader or writer whose other end is open yields the CPU and looks     *)
(* again when it next runs.                                                *)
Compare(p) ==
  /\ At(p, "compare")
  /\ \/ /\ RunAgain(p)
        /\ Goto(p, "runs") /\ UNCHANGED <<callVars, got, oncpu>>
     \/ /\ ~RunAgain(p) /\ (op[p] = "isclosed" \/ SaysClosed(p))
        /\ got' = IF op[p] = "read" THEN Eof ELSE got
        /\ Return(p) /\ UNCHANGED oncpu
     \/ /\ ~RunAgain(p) /\ op[p] # "isclosed" /\ ~SaysClosed(p)
        /\ Goto(p, "test") /\ oncpu' = oncpu \ {p}
        /\ refs' = [refs EXCEPT ![p] = NoRefs]
        /\ UNCHANGED <<op, at, arg, i, byte, got>>
  /\ UNCHANGED <<pageVars, p_rpos, p_wpos, p_buf, alive, env_runs>>

-----------------------------------------------------------------------------
(* close, dup, fork and exit: one system call on the mappings per step.    *)

UnmapFd(p, f) == fd' = [fd EXCEPT ![p][f] = None]

(* devpipe_close unmaps the struct Fd first, then the pipe.                *)
Close(p, f) ==
  /\ f \in Open(p)
  /\ Begin(p, "close", f, None)
  /\ UnmapFd(p, f)
  /\ Goto(p, "close2")
  /\ UNCHANGED <<data, ringVars, cpuVars>>

Close2(p) ==
  /\ At(p, "close2")
  /\ data' = [data EXCEPT ![p][at[p]] = FALSE]
  /\ Return(p)
  /\ UNCHANGED <<fd, ringVars, cpuVars>>

(* dup closes the new descriptor, then maps the pipe, then the struct Fd,  *)
(* each from the old one.                                                  *)
Dup(p, f, g) ==
  /\ f \in Open(p)
  /\ Begin(p, "dup", f, g)
  /\ IF g \in Open(p) THEN UnmapFd(p, g) /\ Goto(p, "dupclose")
                      ELSE UNCHANGED fd /\ Goto(p, "dup")
  /\ UNCHANGED <<data, ringVars, cpuVars>>

DupClose(p) ==
  /\ At(p, "dupclose")
  /\ data' = [data EXCEPT ![p][arg[p]] = FALSE]
  /\ Goto(p, "dup")
  /\ UNCHANGED <<fd, ringVars, cpuVars, callVars>>

DupMap(p) ==
  /\ At(p, "dup")
  /\ data' = [data EXCEPT ![p][arg[p]] = data[p][at[p]]]
  /\ Goto(p, "dup2")
  /\ UNCHANGED <<fd, ringVars, cpuVars, callVars>>

DupMap2(p) ==
  /\ At(p, "dup2")
  /\ fd' = [fd EXCEPT ![p][arg[p]] = fd[p][at[p]]]
  /\ Return(p)
  /\ UNCHANGED <<data, ringVars, cpuVars>>

(* fork gives the child the shared pages in the order of their addresses:  *)
(* every struct Fd comes before every data page.                           *)
Fork(p, q) ==
  /\ q \notin alive /\ Open(q) = {} /\ \A f \in Fds : ~data[q][f]
  /\ Begin(p, "fork", 0, q)
  /\ Goto(p, "fork")
  /\ UNCHANGED <<pageVars, ringVars, cpuVars>>

UncopiedFds(p, q) == Open(p) \ Open(q)
UncopiedData(p, q) == {f \in Fds : data[p][f] /\ ~data[q][f]}

DupPage(p) ==
  /\ At(p, "fork")
  /\ \E f \in Fds :
       \/ /\ IsLowest(f, UncopiedFds(p, arg[p]))
          /\ fd' = [fd EXCEPT ![arg[p]][f] = fd[p][f]]
          /\ UNCHANGED data
       \/ /\ UncopiedFds(p, arg[p]) = {}
          /\ IsLowest(f, UncopiedData(p, arg[p]))
          /\ data' = [data EXCEPT ![arg[p]][f] = TRUE]
          /\ UNCHANGED fd
  /\ UNCHANGED <<ringVars, cpuVars, pc, callVars>>

StartChild(p) ==
  /\ At(p, "fork")
  /\ UncopiedFds(p, arg[p]) = {} /\ UncopiedData(p, arg[p]) = {}
  /\ alive' = alive \cup {arg[p]}
  /\ Return(p)
  /\ UNCHANGED <<pageVars, ringVars, oncpu, env_runs>>

(* exit closes every descriptor and then destroys the environment.         *)
Exit(p) ==
  /\ At(p, "user") /\ "exit" \in calls[p] /\ Open(p) = {}
  /\ alive' = alive \ {p} /\ oncpu' = oncpu \ {p}
  /\ UNCHANGED <<pageVars, ringVars, env_runs, pc, callVars>>

(* An environment dies, for a fault of its own or because another one     *)
(* destroys it: env_free removes its mappings.                             *)
Kill(p) ==
  /\ p \in alive /\ "die" \in calls[p]
  /\ p \in oncpu \/ \E q \in oncpu : pc[q] = "user"
  /\ alive' = alive \ {p} /\ oncpu' = oncpu \ {p}
  /\ fd' = [fd EXCEPT ![p] = [f \in Fds |-> None]]
  /\ data' = [data EXCEPT ![p] = [f \in Fds |-> FALSE]]
  /\ Return(p)
  /\ UNCHANGED <<ringVars, env_runs>>

-----------------------------------------------------------------------------
(* The scheduler of module Smp, seen from user mode.                       *)

Preempt(p) ==
  /\ p \in oncpu
  /\ oncpu' = oncpu \ {p}
  /\ UNCHANGED <<pageVars, ringVars, alive, env_runs, pc, callVars>>

Run(p) ==
  /\ p \in alive \ oncpu /\ Cardinality(oncpu) < NCPU
  /\ oncpu' = oncpu \cup {p}
  /\ env_runs' = [env_runs EXCEPT ![p] = TRUE]
  /\ UNCHANGED <<pageVars, ringVars, alive, pc, callVars>>

-----------------------------------------------------------------------------
BeginCall(p) ==
  \/ \E f \in Fds : BeginMove(p, f) \/ BeginIsClosed(p, f) \/ Close(p, f)
  \/ \E f, g \in Fds : Dup(p, f, g)
  \/ \E q \in Procs : Fork(p, q)
  \/ Exit(p)

(* The rest of a call that has begun.                                      *)
Continue(p) ==
  \/ Test(p) \/ Move(p) \/ Advance(p)
  \/ ReadRuns(p) \/ ReadRefs(p) \/ Compare(p)
  \/ Close2(p) \/ DupClose(p) \/ DupMap(p) \/ DupMap2(p)
  \/ DupPage(p) \/ StartChild(p)

Step(p) == BeginCall(p) \/ Continue(p) \/ Kill(p) \/ Preempt(p) \/ Run(p)
Next == (\E p \in Procs : Step(p)) /\ UNCHANGED calls

Spec == Init /\ [][Next]_vars

(* The clock keeps ticking; by round robin, every environment that is      *)
(* alive gets the CPU again and again and executes.                        *)
Fairness ==
  /\ WF_vars((\E p \in Procs : Preempt(p)) /\ UNCHANGED calls)
  /\ \A p \in Procs : /\ SF_vars(Run(p) /\ UNCHANGED calls)
                      /\ SF_vars(Continue(p) /\ UNCHANGED calls)

FairSpec == Spec /\ Fairness

-----------------------------------------------------------------------------
Points == {"user", "test", "move", "advance", "runs", "refs", "compare",
           "close2", "dupclose", "dup", "dup2", "fork"}
Ops == {"none", "read", "write", "isclosed", "close", "dup", "fork"}

TypeOK ==
  /\ calls \in Programs
  /\ fd \in [Procs -> [Fds -> Ends \cup {None}]]
  /\ data \in [Procs -> [Fds -> BOOLEAN]]
  /\ p_rpos \in Nat /\ p_wpos \in p_rpos .. p_rpos + PIPEBUFSIZ
  /\ p_buf \in [0 .. PIPEBUFSIZ - 1 -> Nat]
  /\ oncpu \subseteq alive /\ alive \subseteq Procs
  /\ env_runs \in [Procs -> BOOLEAN]
  /\ pc \in [Procs -> Points]
  /\ op \in [Procs -> Ops]
  /\ at \in [Procs -> Fds]
  /\ arg \in [Procs -> Fds \cup Procs \cup {None}]
  /\ i \in [Procs -> 0 .. COUNT]
  /\ byte \in [Procs -> Nat]
  /\ got \in Nat \cup {Eof}

Holds(end) == \E p \in Procs, f \in Fds : fd[p][f] = end

(* Through all the races of the ring buffer and of the two counts, a pipe  *)
(* with one writing and one reading environment is a channel.              *)
Ring == INSTANCE Channel WITH
  CAP <- PIPEBUFSIZ, Bytes <- 1 .. MAXBYTES,
  queue <- [k \in 1 .. p_wpos - p_rpos |-> p_buf[(p_rpos + k - 1) % PIPEBUFSIZ]],
  writable <- Holds("w"), readable <- Holds("r")
IsChannel == Ring!Spec

(* Even on several CPUs, the reader gets every byte once and in order: the *)
(* last one it got is the p_rpos-th that was written.                      *)
InOrder == got \in {p_rpos, Eof}

(* The discipline under which the ring needs no lock.                      *)
OneWriterOneReader ==
  \A c \in Programs, p, q \in Procs, call \in {"read", "write"} :
    call \in c[p] /\ call \in c[q] => p = q

(* What an environment in the middle of a call relies on, between its test *)
(* of the positions and its own change of one of them.                     *)
Moving(p) == pc[p] \in {"move", "advance"}
CallInvariant(p) ==
  /\ op[p] # "none" => op[p] \in calls[p]
  /\ pc[p] = "fork" => arg[p] \in Procs
  /\ Moving(p) => i[p] < COUNT
  /\ Moving(p) /\ op[p] = "read" => p_rpos < p_wpos
  /\ Moving(p) /\ op[p] = "write" => p_wpos < p_rpos + PIPEBUFSIZ
  /\ pc[p] = "advance" /\ op[p] = "read" => byte[p] = p_rpos + 1
  /\ pc[p] = "advance" /\ op[p] = "write"
       => p_buf[p_wpos % PIPEBUFSIZ] = p_wpos + 1

(* The part of the buffer between the positions holds what was written.    *)
Contents ==
  \A k \in p_rpos .. p_wpos - 1 : p_buf[k % PIPEBUFSIZ] = k + 1

(* The inductive invariant of the ring on any number of CPUs: whatever the *)
(* reader and the writer do in between, the bytes from p_rpos to p_wpos    *)
(* are in place and each end's view of the positions is good enough.       *)
RingInv ==
  /\ TypeOK
  /\ InOrder
  /\ Contents
  /\ \A p \in Procs : CallInvariant(p)

(* _pipeisclosed says that the other end is closed only when nobody has it *)
(* open, however dup and close of other environments interleave.           *)
Other(end) == IF end = "r" THEN "w" ELSE "r"
ClosedIsReal ==
  \A p \in Procs : pc[p] = "compare" /\ SaysClosed(p) /\ p \in oncpu
                      => ~Holds(Other(fd[p][at[p]]))

(* A quantum is much longer than _pipeisclosed: from some time on the      *)
(* clock does not strike inside it.                                        *)
CheckUninterrupted ==
  <>[][\A p \in Procs : pc[p] \in {"refs", "compare"} => ~Preempt(p)]_vars

(* A call to read or write ends once the other end has been closed, by     *)
(* close, exit or the death of the last environment that had it open.      *)
CallsEnd ==
  CheckUninterrupted =>
    \A p \in Procs :
      op[p] \in {"read", "write"} /\ ~Holds(Other(fd[p][at[p]]))
        ~> op[p] \notin {"read", "write"}
=============================================================================
