-------------------------------- MODULE Shell --------------------------------
(***************************************************************************)
(* The shell (user/sh.c): how a line of commands becomes environments that *)
(* are joined by pipes and files, and how the shell waits for them         *)
(* (lib/wait.c).  fork, spawn and the pipe are the promises of modules     *)
(* Child and Channel; here the descriptors that every environment has open *)
(* matter, because a reader learns that its input ended, and a writer that *)
(* nobody reads, from the descriptors other environments still hold.       *)
(* That pipeisclosed tells the truth about them is what module Pipe shows  *)
(* of environments on one CPU.                                             *)
(*                                                                         *)
(* Stage k of a line is parsed and run by environment <<"run", k>>, a copy *)
(* of the shell, which spawns the program <<"prog", k>>.  A line is a      *)
(* sequence of tokens: words, "<", ">", "|" and the symbols the shell does *)
(* not know.  The first word of a stage says what its program does: "gen"  *)
(* writes (echo), "cat" copies, "quit" does neither, "none" is not in the  *)
(* file system; after "<" or ">" the word "nofile" cannot be opened.       *)
(***************************************************************************)
EXTENDS Integers, Sequences, FiniteSets, FiniteSetsExt

CONSTANTS
  Lines,        \* the command lines
  STAGES,       \* the most stages of a line
  MAXFD,        \* descriptors of an environment
  MAXARGS,      \* argc may not exceed this
  UNITS,        \* what "gen" writes, and what a file holds
  PIPEBUF       \* capacity of a pipe

Stages == 1 .. STAGES
Fds == 0 .. MAXFD - 1
Runs == {<<"run", k>> : k \in Stages}
Progs == {<<"prog", k>> : k \in Stages}
Procs == Runs \cup Progs

ASSUME ShellAssumption ==
  /\ STAGES \in Nat \ {0} /\ MAXFD \in Nat /\ MAXFD >= 4
  /\ MAXARGS \in Nat \ {0} /\ UNITS \in Nat /\ PIPEBUF \in Nat \ {0}

VARIABLES
  line,         \* the line that was typed
  sh,           \* the shell: prompt, wait, done
  pc,           \* where an environment is; "free" when there is none
  fd,           \* its open descriptors
  todo,         \* the dup and close calls it is about to make
  pos, argc,    \* the parser of a stage: next token, words so far
  name,         \* the first word
  spawned,      \* spawn succeeded
  pipe_child,   \* the stage has a right-hand part
  pipe,         \* contents of the pipe that stage k writes
  left, held,   \* a program: what it may still take, what it has to write
  asks,         \* it has found its pipe empty or full: is the other end closed?
  eof,          \* the pipes whose end a program has seen
  output        \* how much reached the console or a file

runVars == <<todo, pos, argc, name, spawned, pipe_child>>
progVars == <<pipe, left, held, asks, eof, output>>
vars == <<line, sh, pc, fd, runVars, progVars>>

Console == [dev |-> "cons", pipe |-> 0]
File == [dev |-> "file", pipe |-> 0]
ReadEnd(k) == [dev |-> "read", pipe |-> k]
WriteEnd(k) == [dev |-> "write", pipe |-> k]
Closed == [dev |-> "closed", pipe |-> 0]

Holds(end) == \E p \in Procs, f \in Fds : fd[p][f] = end
FreeFds(p) == {f \in Fds : fd[p][f] = Closed}
FirstFree(p) == Min(FreeFds(p))
SecondFree(p) == Min(FreeFds(p) \ {FirstFree(p)})

Dup(from, to) == [op |-> "dup", from |-> from, to |-> to]
Close(f) == [op |-> "close", from |-> f, to |-> f]
close_all == [k \in 1 .. MAXFD |-> Close(k - 1)]

-----------------------------------------------------------------------------
Init ==
  /\ line \in Lines
  /\ sh = "prompt"
  /\ pc = [p \in Procs |-> "free"]
  /\ fd = [p \in Procs |-> [f \in Fds |-> Closed]]
  /\ todo = [p \in Procs |-> <<>>]
  /\ pos = [k \in Stages |-> 1]
  /\ argc = [k \in Stages |-> 0]
  /\ name = [k \in Stages |-> "none"]
  /\ spawned = [k \in Stages |-> FALSE]
  /\ pipe_child = [k \in Stages |-> FALSE]
  /\ pipe = [k \in Stages |-> 0]
  /\ left = [k \in Stages |-> 0]
  /\ held = [k \in Stages |-> 0]
  /\ asks = [k \in Stages |-> FALSE]
  /\ eof = {}
  /\ output = 0

Goto(p, point) == pc' = [pc EXCEPT ![p] = point]
At(p, point) == pc[p] = point /\ todo[p] = <<>>

(* umain: a line is run by a forked copy of the shell, which has the       *)
(* console as descriptors 0 and 1; the shell waits for that copy only.     *)
ForkLine ==
  /\ sh = "prompt"
  /\ sh' = "wait"
  /\ Goto(<<"run", 1>>, "parse")
  /\ fd' = [fd EXCEPT ![<<"run", 1>>] =
              [f \in Fds |-> IF f \in {0, 1} THEN Console ELSE Closed]]
  /\ UNCHANGED <<line, runVars, progVars>>

Prompt ==
  /\ sh = "wait" /\ pc[<<"run", 1>>] = "free"
  /\ sh' = "done"
  /\ UNCHANGED <<line, pc, fd, runVars, progVars>>

-----------------------------------------------------------------------------
(* The descriptor calls of an environment, one after the other.            *)
Step(p) ==
  /\ todo[p] # <<>>
  /\ LET c == Head(todo[p])
     IN  fd' = [fd EXCEPT ![p][c.to] =
                  IF c.op = "dup" THEN fd[p][c.from] ELSE Closed]
  /\ todo' = [todo EXCEPT ![p] = Tail(@)]
  /\ UNCHANGED <<line, sh, pc, pos, argc, name, spawned, pipe_child, progVars>>

(* exit: close_all, and the environment is destroyed.                      *)
exit(p) == Goto(p, "exit") /\ todo' = [todo EXCEPT ![p] = close_all]
Destroy(p) ==
  /\ At(p, "exit")
  /\ Goto(p, "free")
  /\ UNCHANGED <<line, sh, fd, runVars, progVars>>

-----------------------------------------------------------------------------
(* runcmd: one token at a time.                                            *)
Token(j) == IF j > Len(line) THEN "end" ELSE line[j]
IsWord(t) == t \notin {"end", "<", ">", "|", "&"}
Parses(k, t) == At(<<"run", k>>, "parse") /\ Token(pos[k]) = t
Skip(k, n) == pos' = [pos EXCEPT ![k] = @ + n]

Word(k) ==
  LET p == <<"run", k>>
      t == Token(pos[k])
  IN  /\ At(p, "parse") /\ IsWord(t)
      /\ \/ /\ argc[k] = MAXARGS
            /\ exit(p) /\ UNCHANGED <<pos, argc, name>>
         \/ /\ argc[k] < MAXARGS
            /\ argc' = [argc EXCEPT ![k] = @ + 1]
            /\ name' = IF argc[k] = 0 THEN [name EXCEPT ![k] = t] ELSE name
            /\ Skip(k, 1) /\ UNCHANGED <<pc, todo>>
      /\ UNCHANGED <<line, sh, fd, spawned, pipe_child, progVars>>

(* "<" and ">": the file is opened on the first free descriptor and moved  *)
(* to 0 or 1.                                                              *)
Moved(f, to) == IF f = to THEN <<>> ELSE <<Dup(f, to), Close(f)>>
Redirect(k, t, to) ==
  LET p == <<"run", k>>
      file == Token(pos[k] + 1)
      f == FirstFree(p)
  IN  /\ Parses(k, t)
      /\ \/ /\ ~IsWord(file) \/ file = "nofile"
            /\ exit(p) /\ UNCHANGED <<fd, pos>>
         \/ /\ IsWord(file) /\ file # "nofile"
            /\ fd' = [fd EXCEPT ![p][f] = File]
            /\ todo' = [todo EXCEPT ![p] = Moved(f, to)]
            /\ Skip(k, 2) /\ UNCHANGED pc
      /\ UNCHANGED <<line, sh, argc, name, spawned, pipe_child, progVars>>

(* "|": the copy goes on with the rest of the line and reads from the      *)
(* pipe; this environment writes to it and runs what it has.  A stage has  *)
(* no more than two descriptors open here, so that there is room for two.  *)
ReaderCloses(p0, p1) == Moved(p0, 0) \o <<Close(p1)>>
WriterCloses_First(p0, p1) == <<Close(p1), Dup(p1, 1), Close(p0)>>
WriterCloses(p0, p1) == Moved(p1, 1) \o <<Close(p0)>>
Pipe(k) ==
  LET p == <<"run", k>>
      q == <<"run", k + 1>>
      p0 == FirstFree(p)
      p1 == SecondFree(p)
      both == [fd[p] EXCEPT ![p0] = ReadEnd(k), ![p1] = WriteEnd(k)]
  IN  /\ Parses(k, "|")
      /\ k < STAGES
      /\ fd' = [fd EXCEPT ![p] = both, ![q] = both]
      /\ pc' = [pc EXCEPT ![p] = "runit", ![q] = "parse"]
      /\ todo' = [todo EXCEPT ![p] = WriterCloses(p0, p1),
                              ![q] = ReaderCloses(p0, p1)]
      /\ pos' = [pos EXCEPT ![k + 1] = pos[k] + 1]
      /\ pipe_child' = [pipe_child EXCEPT ![k] = TRUE]
      /\ UNCHANGED <<line, sh, argc, name, spawned, progVars>>

EndOfLine(k) ==
  /\ Parses(k, "end")
  /\ Goto(<<"run", k>>, "runit")
  /\ UNCHANGED <<line, sh, fd, runVars, progVars>>

(* A symbol the shell does not know: it panics, and never exits.           *)
BadToken(k) ==
  /\ Parses(k, "&")
  /\ Goto(<<"run", k>>, "panic")
  /\ UNCHANGED <<line, sh, fd, runVars, progVars>>

-----------------------------------------------------------------------------
(* An empty command returns to umain, which exits.                         *)
Empty(k) ==
  /\ At(<<"run", k>>, "runit") /\ argc[k] = 0
  /\ exit(<<"run", k>>)
  /\ UNCHANGED <<line, sh, fd, pos, argc, name, spawned, pipe_child, progVars>>

(* spawn: the program inherits the descriptors; then this environment      *)
(* closes its own before it waits.                                         *)
BeforeWait_KeepsOpen == <<>>
BeforeWait == close_all
Spawn(k) ==
  LET p == <<"run", k>>
      q == <<"prog", k>>
  IN  /\ At(p, "runit") /\ argc[k] > 0
      /\ IF name[k] = "none" THEN UNCHANGED <<fd, spawned, left>> /\ Goto(p, "wait")
         ELSE /\ fd' = [fd EXCEPT ![q] = fd[p]]
              /\ pc' = [pc EXCEPT ![p] = "wait", ![q] = name[k]]
              /\ spawned' = [spawned EXCEPT ![k] = TRUE]
              /\ left' = [left EXCEPT ![k] = UNITS]
      /\ todo' = [todo EXCEPT ![p] = BeforeWait]
      /\ UNCHANGED <<line, sh, pos, argc, name, pipe_child, pipe, held, asks, eof,
                     output>>

(* wait returns when the environment is gone; it yields until then.        *)
wait(p) == pc[p] = "free"

(* wait(r), then wait(pipe_child), then exit.                              *)
Wait_ProgramOnly(k) ==
  /\ At(<<"run", k>>, "wait")
  /\ spawned[k] => wait(<<"prog", k>>)
  /\ exit(<<"run", k>>)
  /\ UNCHANGED <<line, sh, fd, pos, argc, name, spawned, pipe_child, progVars>>
Wait(k) ==
  /\ At(<<"run", k>>, "wait")
  /\ spawned[k] => wait(<<"prog", k>>)
  /\ pipe_child[k] => wait(<<"run", k + 1>>)
  /\ exit(<<"run", k>>)
  /\ UNCHANGED <<line, sh, fd, pos, argc, name, spawned, pipe_child, progVars>>

-----------------------------------------------------------------------------
(* The programs: cat reads descriptor 0 and writes descriptor 1, the other *)
(* ones only write.                                                        *)
Input(k) == fd[<<"prog", k>>][0]
Sink(k) == fd[<<"prog", k>>][1]
Reads(k) == At(<<"prog", k>>, "cat") /\ held[k] = 0
Writes(k) == \/ At(<<"prog", k>>, "cat") /\ held[k] = 1
             \/ At(<<"prog", k>>, "gen") /\ left[k] > 0

(* devpipe_read finds the pipe empty, devpipe_write finds it full; only    *)
(* then do they ask whether the other end is closed, and they do not look  *)
(* at the pipe again before they believe the answer.                       *)
Blocked(k) ==
  \/ Reads(k) /\ Input(k).dev = "read" /\ pipe[Input(k).pipe] = 0
  \/ Writes(k) /\ Sink(k).dev = "write" /\ pipe[Sink(k).pipe] = PIPEBUF
OtherEnd(k) == IF Reads(k) THEN WriteEnd(Input(k).pipe) ELSE ReadEnd(Sink(k).pipe)
FoundClosed(k) == asks[k] /\ ~Holds(OtherEnd(k))

FindsBlocked(k) ==
  /\ Blocked(k) /\ ~asks[k]
  /\ asks' = [asks EXCEPT ![k] = TRUE]
  /\ UNCHANGED <<line, sh, pc, fd, runVars, pipe, left, held, eof, output>>

(* The other end is open: sys_yield, and the loop starts again.            *)
LooksAgain(k) ==
  /\ asks[k] /\ Holds(OtherEnd(k))
  /\ asks' = [asks EXCEPT ![k] = FALSE]
  /\ UNCHANGED <<line, sh, pc, fd, runVars, pipe, left, held, eof, output>>

Take(k) ==
  \/ /\ Input(k).dev = "file" /\ left[k] > 0
     /\ left' = [left EXCEPT ![k] = @ - 1] /\ UNCHANGED pipe
  \/ /\ Input(k).dev = "read" /\ ~asks[k] /\ pipe[Input(k).pipe] > 0
     /\ pipe' = [pipe EXCEPT ![Input(k).pipe] = @ - 1] /\ UNCHANGED left

AtEnd(k) ==
  \/ Input(k).dev = "file" /\ left[k] = 0
  \/ Input(k).dev = "read" /\ FoundClosed(k)

CatReads(k) ==
  /\ Reads(k)
  /\ \/ /\ Take(k)
        /\ held' = [held EXCEPT ![k] = 1]
        /\ UNCHANGED <<pc, todo, asks, eof>>
     \/ /\ AtEnd(k)
        /\ asks' = [asks EXCEPT ![k] = FALSE]
        /\ eof' = eof \cup {Input(k).pipe} /\ exit(<<"prog", k>>)
        /\ UNCHANGED <<left, pipe, held>>
  /\ UNCHANGED <<line, sh, fd, pos, argc, name, spawned, pipe_child, output>>

(* A write to a pipe that is not full succeeds whether or not anybody has  *)
(* its read end; one to a full pipe fails when nobody has.                 *)
Put(k) ==
  \/ /\ Sink(k).dev \in {"cons", "file"}
     /\ output' = output + 1 /\ UNCHANGED pipe
  \/ /\ Sink(k).dev = "write" /\ ~asks[k] /\ pipe[Sink(k).pipe] < PIPEBUF
     /\ pipe' = [pipe EXCEPT ![Sink(k).pipe] = @ + 1] /\ UNCHANGED output

(* cat panics when a write fails.                                          *)
CatWrites(k) ==
  LET p == <<"prog", k>>
  IN  /\ Writes(k) /\ At(p, "cat")
      /\ \/ Put(k) /\ held' = [held EXCEPT ![k] = 0] /\ UNCHANGED <<pc, asks>>
         \/ /\ FoundClosed(k) /\ Goto(p, "panic")
            /\ asks' = [asks EXCEPT ![k] = FALSE]
            /\ UNCHANGED <<held, pipe, output>>
      /\ UNCHANGED <<line, sh, fd, runVars, left, eof>>

(* The other programs do not look at what write returns.                   *)
GenWrites(k) ==
  /\ Writes(k) /\ At(<<"prog", k>>, "gen")
  /\ \/ Put(k) /\ UNCHANGED asks
     \/ /\ FoundClosed(k) /\ asks' = [asks EXCEPT ![k] = FALSE]
        /\ UNCHANGED <<pipe, output>>
  /\ left' = [left EXCEPT ![k] = @ - 1]
  /\ UNCHANGED <<line, sh, pc, fd, runVars, held, eof>>

Ends(k) ==
  /\ At(<<"prog", k>>, "quit") \/ (At(<<"prog", k>>, "gen") /\ left[k] = 0)
  /\ exit(<<"prog", k>>)
  /\ UNCHANGED <<line, sh, fd, pos, argc, name, spawned, pipe_child, progVars>>

-----------------------------------------------------------------------------
Run(k) ==
  \/ Word(k) \/ Redirect(k, "<", 0) \/ Redirect(k, ">", 1) \/ Pipe(k)
  \/ EndOfLine(k) \/ BadToken(k) \/ Empty(k) \/ Spawn(k) \/ Wait(k)

Prog(k) ==
  \/ FindsBlocked(k) \/ LooksAgain(k) \/ CatReads(k) \/ CatWrites(k)
  \/ GenWrites(k) \/ Ends(k)

Next ==
  \/ ForkLine \/ Prompt
  \/ \E k \in Stages : Run(k) \/ Prog(k)
  \/ \E p \in Procs : Step(p) \/ Destroy(p)

Spec == Init /\ [][Next]_vars

(* Every environment gets the CPU again and again (module Smp), and what   *)
(* it waits for in a loop stays true once it is true.                      *)
Fairness ==
  /\ WF_vars(ForkLine \/ Prompt)
  /\ \A k \in Stages :
       /\ WF_vars(Run(k) \/ Step(<<"run", k>>) \/ Destroy(<<"run", k>>))
       /\ WF_vars(Prog(k) \/ Step(<<"prog", k>>) \/ Destroy(<<"prog", k>>))

FairSpec == Spec /\ Fairness

-----------------------------------------------------------------------------
TypeOK ==
  /\ line \in Lines /\ sh \in {"prompt", "wait", "done"}
  /\ \A k \in Stages :
       /\ pc[<<"run", k>>] \in {"free", "parse", "runit", "wait", "exit", "panic"}
       /\ pc[<<"prog", k>>] \in {"free", "cat", "gen", "quit", "exit", "panic"}
       /\ pos[k] \in 1 .. Len(line) + 1 /\ argc[k] \in 0 .. MAXARGS
       /\ pipe[k] \in 0 .. PIPEBUF /\ left[k] \in 0 .. UNITS /\ held[k] \in 0 .. 1
  /\ \A p \in Procs : pc[p] = "free" => todo[p] = <<>> /\ FreeFds(p) = Fds

(* A program that sees the end of a pipe sees the end of what was written: *)
(* the stage to its left has spawned its program, and that has stopped.    *)
(* The environments of runcmd keep the write end open until then, in every *)
(* order in which the two stages are set up.                               *)
EofIsFinal ==
  \A k \in eof \cap Stages :
    /\ pc[<<"run", k>>] \in {"wait", "exit", "free"}
    /\ pc[<<"prog", k>>] \in {"exit", "free", "panic"}

(* The shell prompts again only when every environment of the line is gone *)
(* (for lines without an empty command in front of a pipe).  Then, in a    *)
(* pipeline of cats, every unit the first program wrote has reached its    *)
(* end, or lies in a pipe whose reader saw the pipe empty, then its other  *)
(* end closed, and did not see what was written in between.                *)
IsPipeline == /\ Len(line) % 2 = 1 /\ line[1] = "gen"
              /\ \A j \in 2 .. Len(line) :
                   line[j] = IF j % 2 = 0 THEN "|" ELSE "cat"
PromptMeansDone ==
  /\ TypeOK
  /\ sh = "done" /\ (\A k \in Stages : pipe_child[k] => argc[k] > 0) =>
       \A p \in Procs : pc[p] = "free"
  /\ sh = "done" /\ IsPipeline =>
       /\ output + MapThenSumSet(LAMBDA k : pipe[k], Stages) = UNITS
       /\ \A k \in Stages : pipe[k] > 0 => k \in eof

(* Every line comes to an end, unless one of its environments panics (an   *)
(* unknown symbol, a cat whose output nobody reads) or reads the keyboard. *)
LineFinishes ==
  sh = "wait" ~>
    \/ sh = "done"
    \/ \E p \in Procs : pc[p] = "panic"
    \/ \E k \in Stages : pc[<<"prog", k>>] = "cat" /\ Input(k) = Console
=============================================================================
