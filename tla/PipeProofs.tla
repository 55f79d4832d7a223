----------------------------- MODULE PipeProofs ------------------------------
(***************************************************************************)
(* The ring of a pipe with one writer and one reader is safe without a     *)
(* lock, for any size of the ring and any number of CPUs.                  *)
(***************************************************************************)
EXTENDS Pipe, TLAPS

(* Positions less than a lap apart use different places of the ring.       *)
LEMMA ModDistinct ==
  ASSUME NEW n \in Nat \ {0}, NEW a \in Nat, NEW b \in Nat, a < b, b < a + n
  PROVE  a % n # b % n
<1>1. SUFFICES ASSUME a % n = b % n PROVE FALSE
  OBVIOUS
<1> DEFINE qa == a \div n
           qb == b \div n
           d == qb - qa
<1>2. qa \in Int /\ qb \in Int /\ a = n * qa + (a % n) /\ b = n * qb + (b % n)
  BY SMT
<1>3. a % n \in Int
  BY SMT
<1> HIDE DEF qa, qb
<1>4. d \in Int /\ n * d = b - a
  <2>1. n * qb - n * qa = b - a
    BY <1>1, <1>2, <1>3
  <2>2. n * (qb - qa) = n * qb - n * qa
    BY <1>2
  <2> QED BY <1>2, <2>1, <2>2
<1> HIDE DEF d
<1>5. CASE d <= 0
  BY <1>4, <1>5
<1>6. CASE d >= 1
  <2>1. n * d >= n
    BY <1>4, <1>6
  <2> QED BY <1>4, <2>1
<1> QED BY <1>4, <1>5, <1>6

(* A position modulo the size is a place of the ring.                      *)
LEMMA ModRange ==
  ASSUME NEW n \in Nat \ {0}, NEW a \in Nat
  PROVE  a % n \in 0 .. n - 1
BY SMT

(* The state after pipe() satisfies the invariant.                         *)
LEMMA InitRing == Init => RingInv
BY PipeAssumption DEF Init, RingInv, TypeOK, InOrder, Contents, CallInvariant,
   Moving, Points, Ops, Ends, Nothing, Eof, NoRefs

(* Changing one entry of a table of tables by a legal value.               *)
LEMMA TableUpdate ==
  ASSUME NEW S, NEW T, NEW E, NEW F \in [S -> [T -> E]], NEW a, NEW b,
         NEW e \in E
  PROVE  [F EXCEPT ![a][b] = e] \in [S -> [T -> E]]
<1>1. CASE a \in S
  <2>1. [F[a] EXCEPT ![b] = e] \in [T -> E]
    BY <1>1
  <2> QED BY <2>1
<1>2. CASE a \notin S
  BY <1>2
<1> QED BY <1>1, <1>2

(* What the tables of mappings contain.                                    *)
LEMMA Mapped ==
  ASSUME TypeOK
  PROVE  /\ fd \in [Procs -> [Fds -> Ends \cup {None}]]
         /\ data \in [Procs -> [Fds -> BOOLEAN]]
         /\ \A p \in Procs, f \in Fds : fd[p][f] \in Ends \cup {None}
         /\ \A p \in Procs, f \in Fds : data[p][f] \in BOOLEAN
         /\ \A p \in Procs : at[p] \in Fds
BY DEF TypeOK

(* A step of environment p that leaves the ring and the others alone.      *)
OutsideRing(p) ==
  /\ UNCHANGED <<calls, p_rpos, p_wpos, p_buf>> /\ got' \in {got, Eof}
  /\ \A q \in Procs \ {p} :
       /\ pc'[q] = pc[q] /\ op'[q] = op[q] /\ arg'[q] = arg[q]
       /\ i'[q] = i[q] /\ byte'[q] = byte[q]

(* Such a step preserves the invariant if it preserves p's own part of it. *)
LEMMA OutsideRingStep ==
  ASSUME RingInv, NEW p \in Procs, OutsideRing(p), TypeOK', CallInvariant(p)'
  PROVE  RingInv'
<1>1. InOrder' /\ Contents'
  BY DEF RingInv, OutsideRing, InOrder, Contents
<1>2. ASSUME NEW q \in Procs PROVE CallInvariant(q)'
  BY DEF RingInv, OutsideRing, CallInvariant, Moving
<1> QED BY <1>1, <1>2 DEF RingInv

(* The two halves of the type invariant that quiet steps may disturb.      *)
MapsOK ==
  /\ fd \in [Procs -> [Fds -> Ends \cup {None}]]
  /\ data \in [Procs -> [Fds -> BOOLEAN]]
LocalsOK ==
  /\ oncpu \subseteq alive /\ alive \subseteq Procs
  /\ env_runs \in [Procs -> BOOLEAN]
  /\ pc \in [Procs -> Points]
  /\ op \in [Procs -> Ops]
  /\ at \in [Procs -> Fds]
  /\ arg \in [Procs -> Fds \cup Procs \cup {None}]
  /\ i \in [Procs -> 0 .. COUNT]
  /\ byte \in [Procs -> Nat]
  /\ got \in Nat \cup {Eof}

(* The steps that leave the ring alone do so.                              *)
LEMMA QuietOutside ==
  ASSUME RingInv, UNCHANGED calls, NEW p \in Procs,
         \/ BeginCall(p) \/ Test(p) \/ ReadRuns(p) \/ ReadRefs(p) \/ Compare(p)
         \/ Close2(p) \/ DupClose(p) \/ DupMap(p) \/ DupMap2(p)
         \/ DupPage(p) \/ StartChild(p) \/ Kill(p) \/ Preempt(p) \/ Run(p)
  PROVE  OutsideRing(p)
<1> USE DEF RingInv, TypeOK, OutsideRing, pageVars, ringVars, cpuVars, callVars
<1>1. ASSUME NEW f \in Fds, BeginMove(p, f) PROVE OutsideRing(p)
  BY <1>1 DEF BeginMove, Begin, Goto, At
<1>2. ASSUME NEW f \in Fds, BeginIsClosed(p, f) PROVE OutsideRing(p)
  BY <1>2 DEF BeginIsClosed, Begin, Goto, At
<1>3. ASSUME NEW f \in Fds, Close(p, f) PROVE OutsideRing(p)
  BY <1>3 DEF Close, UnmapFd, Begin, Goto, At
<1>4. ASSUME NEW f \in Fds, NEW g \in Fds, Dup(p, f, g) PROVE OutsideRing(p)
  BY <1>4 DEF Dup, UnmapFd, Begin, Goto, At
<1>5. ASSUME NEW q \in Procs, Fork(p, q) PROVE OutsideRing(p)
  BY <1>5 DEF Fork, Begin, Goto, At
<1>6. CASE Test(p)
  BY <1>6 DEF Test, Return, Goto, At, MovedAll, Blocked
<1>7. CASE ReadRuns(p)
  BY <1>7 DEF ReadRuns, Goto, At
<1>8. CASE ReadRefs(p)
  BY <1>8 DEF ReadRefs, Goto, At
<1>9. CASE Compare(p)
  BY <1>9 DEF Compare, Return, Goto, At
<1>10. CASE Close2(p)
  BY <1>10 DEF Close2, Return, Goto, At
<1>11. CASE DupClose(p)
  BY <1>11 DEF DupClose, Goto, At
<1>12. CASE DupMap(p)
  BY <1>12 DEF DupMap, Goto, At
<1>13. CASE DupMap2(p)
  BY <1>13 DEF DupMap2, Return, Goto, At
<1>14. CASE DupPage(p)
  BY <1>14 DEF DupPage, At
<1>15. CASE StartChild(p)
  BY <1>15 DEF StartChild, Return, Goto, At
<1>16. CASE Exit(p)
  BY <1>16 DEF Exit, At
<1>17. CASE Kill(p)
  BY <1>17 DEF Kill, Return, Goto
<1>18. CASE Preempt(p)
  BY <1>18 DEF Preempt
<1>19. CASE Run(p)
  BY <1>19 DEF Run
<1> QED BY <1>1, <1>2, <1>3, <1>4, <1>5, <1>6, <1>7, <1>8, <1>9, <1>10,
        <1>11, <1>12, <1>13, <1>14, <1>15, <1>16, <1>17, <1>18, <1>19 DEF BeginCall

(* They keep the types of the mappings.                                    *)
LEMMA QuietMaps ==
  ASSUME RingInv, NEW p \in Procs,
         \/ BeginCall(p) \/ Test(p) \/ ReadRuns(p) \/ ReadRefs(p) \/ Compare(p)
         \/ Close2(p) \/ DupClose(p) \/ DupMap(p) \/ DupMap2(p)
         \/ DupPage(p) \/ StartChild(p) \/ Kill(p) \/ Preempt(p) \/ Run(p)
  PROVE  MapsOK'
<1> USE Mapped DEF RingInv, MapsOK, pageVars
<1>1. ASSUME NEW f \in Fds, BeginMove(p, f) PROVE MapsOK'
  BY <1>1 DEF BeginMove, Begin, Goto, At
<1>2. ASSUME NEW f \in Fds, BeginIsClosed(p, f) PROVE MapsOK'
  BY <1>2 DEF BeginIsClosed, Begin, Goto, At
<1>3. ASSUME NEW f \in Fds, Close(p, f) PROVE MapsOK'
  BY <1>3, TableUpdate DEF Close, UnmapFd
<1>4. ASSUME NEW f \in Fds, NEW g \in Fds, Dup(p, f, g) PROVE MapsOK'
  <2>1. CASE g \in Open(p)
    <3>1. fd' = [fd EXCEPT ![p][g] = None] /\ UNCHANGED data
      BY <1>4, <2>1 DEF Dup, UnmapFd
    <3> QED BY <3>1, TableUpdate
  <2>2. CASE g \notin Open(p)
    BY <1>4, <2>2 DEF Dup
  <2> QED BY <2>1, <2>2
<1>5. ASSUME NEW q \in Procs, Fork(p, q) PROVE MapsOK'
  BY <1>5 DEF Fork, Begin, Goto, At
<1>6. CASE Test(p)
  BY <1>6 DEF Test, Return, Goto, At, MovedAll, Blocked
<1>7. CASE ReadRuns(p)
  BY <1>7 DEF ReadRuns, Goto, At
<1>8. CASE ReadRefs(p)
  BY <1>8 DEF ReadRefs, Goto, At
<1>9. CASE Compare(p)
  BY <1>9 DEF Compare, Return, Goto, At
<1>10. CASE Close2(p)
  BY <1>10, TableUpdate DEF Close2
<1>11. CASE DupClose(p)
  BY <1>11, TableUpdate DEF DupClose
<1>12. CASE DupMap(p)
  BY <1>12, TableUpdate DEF DupMap
<1>13. CASE DupMap2(p)
  BY <1>13, TableUpdate DEF DupMap2
<1>14. CASE DupPage(p)
  <2>1. PICK f \in Fds :
          \/ fd' = [fd EXCEPT ![arg[p]][f] = fd[p][f]] /\ UNCHANGED data
          \/ data' = [data EXCEPT ![arg[p]][f] = TRUE] /\ UNCHANGED fd
    BY <1>14 DEF DupPage
  <2>2. CASE fd' = [fd EXCEPT ![arg[p]][f] = fd[p][f]] /\ UNCHANGED data
    BY <2>2, TableUpdate
  <2>3. CASE data' = [data EXCEPT ![arg[p]][f] = TRUE] /\ UNCHANGED fd
    BY <2>3, TableUpdate
  <2> QED BY <2>1, <2>2, <2>3
<1>15. CASE StartChild(p)
  BY <1>15 DEF StartChild, Return, Goto, At
<1>16. CASE Exit(p)
  BY <1>16 DEF Exit, At
<1>17. CASE Kill(p)
  BY <1>17 DEF Kill, Return, Goto
<1>18. CASE Preempt(p)
  BY <1>18 DEF Preempt
<1>19. CASE Run(p)
  BY <1>19 DEF Run
<1> QED BY <1>1, <1>2, <1>3, <1>4, <1>5, <1>6, <1>7, <1>8, <1>9, <1>10,
        <1>11, <1>12, <1>13, <1>14, <1>15, <1>16, <1>17, <1>18, <1>19 DEF BeginCall

(* The types of a call's local state when it begins and when it is over.   *)
LEMMA BeginTypes ==
  ASSUME TypeOK, NEW p \in Procs, NEW call \in Ops, NEW f \in Fds,
         NEW a \in Fds \cup Procs \cup {None}, Begin(p, call, f, a)
  PROVE  /\ op' \in [Procs -> Ops] /\ at' \in [Procs -> Fds]
         /\ arg' \in [Procs -> Fds \cup Procs \cup {None}]
         /\ i' \in [Procs -> 0 .. COUNT] /\ byte' \in [Procs -> Nat]
BY PipeAssumption DEF TypeOK, Begin, Nothing

(* Return leaves the local state of a fresh environment.                   *)
LEMMA ReturnTypes ==
  ASSUME TypeOK, NEW p \in Procs, Return(p)
  PROVE  /\ pc' \in [Procs -> Points]
         /\ op' \in [Procs -> Ops] /\ at' \in [Procs -> Fds]
         /\ arg' \in [Procs -> Fds \cup Procs \cup {None}]
         /\ i' \in [Procs -> 0 .. COUNT] /\ byte' \in [Procs -> Nat]
BY PipeAssumption DEF TypeOK, Return, Goto, Nothing, Points, Ops

(* They keep the types of the local state.                                 *)
LEMMA QuietTypes ==
  ASSUME RingInv, NEW p \in Procs,
         \/ BeginCall(p) \/ Test(p) \/ ReadRuns(p) \/ ReadRefs(p) \/ Compare(p)
         \/ Close2(p) \/ DupClose(p) \/ DupMap(p) \/ DupMap2(p)
         \/ DupPage(p) \/ StartChild(p) \/ Kill(p) \/ Preempt(p) \/ Run(p)
  PROVE  LocalsOK'
<1> USE PipeAssumption DEF RingInv, TypeOK, LocalsOK, CallInvariant, Points, Ops,
        pageVars, ringVars, cpuVars, callVars, Nothing, Eof
<1>1. ASSUME NEW f \in Fds, BeginMove(p, f) PROVE LocalsOK'
  <2>1. \/ Begin(p, "read", f, None) \/ Begin(p, "write", f, None)
    BY <1>1 DEF BeginMove
  <2>2. pc' = [pc EXCEPT ![p] = "test"] /\ UNCHANGED <<ringVars, cpuVars>>
    BY <1>1 DEF BeginMove, Goto
  <2> QED BY <2>1, <2>2, BeginTypes
<1>2. ASSUME NEW f \in Fds, BeginIsClosed(p, f) PROVE LocalsOK'
  <2>1. Begin(p, "isclosed", f, None) /\ UNCHANGED <<ringVars, cpuVars>>
    BY <1>2 DEF BeginIsClosed
  <2>2. pc' \in [Procs -> Points]
    BY <1>2 DEF BeginIsClosed, Goto
  <2> QED BY <2>1, <2>2, BeginTypes
<1>3. ASSUME NEW f \in Fds, Close(p, f) PROVE LocalsOK'
  <2>1. Begin(p, "close", f, None) /\ UNCHANGED <<ringVars, cpuVars>>
    BY <1>3 DEF Close
  <2>2. pc' \in [Procs -> Points]
    BY <1>3 DEF Close, Goto
  <2> QED BY <2>1, <2>2, BeginTypes
<1>4. ASSUME NEW f \in Fds, NEW g \in Fds, Dup(p, f, g) PROVE LocalsOK'
  <2>1. Begin(p, "dup", f, g) /\ UNCHANGED <<ringVars, cpuVars>>
    BY <1>4 DEF Dup
  <2>2. pc' \in [Procs -> Points]
    BY <1>4 DEF Dup, Goto
  <2> QED BY <2>1, <2>2, BeginTypes
<1>5. ASSUME NEW q \in Procs, Fork(p, q) PROVE LocalsOK'
  <2>1. Begin(p, "fork", 0, q) /\ UNCHANGED <<ringVars, cpuVars>>
    BY <1>5 DEF Fork
  <2>2. pc' \in [Procs -> Points]
    BY <1>5 DEF Fork, Goto
  <2> QED BY <2>1, <2>2, BeginTypes
<1>6. CASE Test(p)
  <2>1. UNCHANGED <<ringVars, cpuVars>>
    BY <1>6 DEF Test
  <2>2. CASE Return(p)
    BY <2>1, <2>2, ReturnTypes
  <2>3. CASE (Goto(p, "move") \/ Goto(p, "runs")) /\ UNCHANGED callVars
    <3>1. pc' \in [Procs -> Points]
      BY <2>3 DEF Goto
    <3> QED BY <2>1, <2>3, <3>1
  <2> QED BY <1>6, <2>2, <2>3 DEF Test
<1>7. CASE ReadRuns(p)
  BY <1>7 DEF ReadRuns, Goto, At
<1>8. CASE ReadRefs(p)
  BY <1>8 DEF ReadRefs, Goto, At
<1>9. CASE Compare(p)
  <2>1. /\ UNCHANGED <<alive, env_runs>> /\ oncpu' \subseteq oncpu
        /\ got' \in {got, Eof}
    BY <1>9 DEF Compare
  <2>2. CASE Return(p)
    BY <2>1, <2>2, ReturnTypes
  <2>3. CASE (Goto(p, "runs") \/ Goto(p, "test"))
             /\ UNCHANGED <<op, at, arg, i, byte>>
    <3>1. pc' \in [Procs -> Points]
      BY <2>3 DEF Goto
    <3> QED BY <2>1, <2>3, <3>1
  <2> QED BY <1>9, <2>2, <2>3 DEF Compare
<1>10. CASE Close2(p)
  <2>1. Return(p) /\ UNCHANGED <<ringVars, cpuVars>>
    BY <1>10 DEF Close2
  <2> QED BY <2>1, ReturnTypes
<1>11. CASE DupClose(p)
  BY <1>11 DEF DupClose, Goto, At
<1>12. CASE DupMap(p)
  BY <1>12 DEF DupMap, Goto, At
<1>13. CASE DupMap2(p)
  <2>1. Return(p) /\ UNCHANGED <<ringVars, cpuVars>>
    BY <1>13 DEF DupMap2
  <2> QED BY <2>1, ReturnTypes
<1>14. CASE DupPage(p)
  BY <1>14 DEF DupPage, At
<1>15. CASE StartChild(p)
  <2>1. /\ Return(p) /\ UNCHANGED <<ringVars, oncpu, env_runs>>
        /\ alive' = alive \cup {arg[p]} /\ arg[p] \in Procs
    BY <1>15 DEF StartChild, At
  <2> QED BY <2>1, ReturnTypes
<1>16. CASE Exit(p)
  BY <1>16 DEF Exit, At
<1>17. CASE Kill(p)
  <2>1. /\ Return(p) /\ UNCHANGED <<ringVars, env_runs>>
        /\ alive' = alive \ {p} /\ oncpu' = oncpu \ {p}
    BY <1>17 DEF Kill
  <2> QED BY <2>1, ReturnTypes
<1>18. CASE Preempt(p)
  BY <1>18 DEF Preempt
<1>19. CASE Run(p)
  BY <1>19 DEF Run
<1> QED BY <1>1, <1>2, <1>3, <1>4, <1>5, <1>6, <1>7, <1>8, <1>9, <1>10,
        <1>11, <1>12, <1>13, <1>14, <1>15, <1>16, <1>17, <1>18, <1>19 DEF BeginCall

(* The writer is at most one lap ahead of the reader.                      *)
LEMMA Positions ==
  ASSUME TypeOK
  PROVE  /\ p_rpos \in Nat /\ p_wpos \in Nat /\ PIPEBUFSIZ \in Nat \ {0}
         /\ p_rpos <= p_wpos /\ p_wpos <= p_rpos + PIPEBUFSIZ
BY PipeAssumption DEF TypeOK

(* An end that is not blocked has something to move.                       *)
LEMMA NotBlocked ==
  ASSUME TypeOK, NEW p \in Procs, ~Blocked(p)
  PROVE  /\ op[p] = "read" => p_rpos < p_wpos
         /\ op[p] = "write" => p_wpos < p_rpos + PIPEBUFSIZ
BY Positions DEF Blocked

(* A call that begins, or is over, is not moving a byte.                   *)
LEMMA ReturnCalls ==
  ASSUME TypeOK, NEW p \in Procs, Return(p)
  PROVE  CallInvariant(p)'
<1>1. pc'[p] = "user" /\ op'[p] = "none"
  BY DEF TypeOK, Return, Goto
<1> QED BY <1>1 DEF CallInvariant, Moving

LEMMA BeginCalls ==
  ASSUME TypeOK, NEW p \in Procs, NEW call, NEW f, NEW a, NEW point \in Points,
         UNCHANGED calls, Begin(p, call, f, a), Goto(p, point), point \notin {"move", "advance"},
         point = "fork" => a \in Procs
  PROVE  CallInvariant(p)'
<1>1. pc'[p] = point /\ op'[p] = call /\ arg'[p] = a /\ call \in calls[p]
  BY DEF TypeOK, Begin, Goto
<1> QED BY <1>1 DEF CallInvariant, Moving

(* They keep p's part of the invariant.                                    *)
LEMMA QuietCalls ==
  ASSUME RingInv, UNCHANGED calls, NEW p \in Procs,
         \/ BeginCall(p) \/ Test(p) \/ ReadRuns(p) \/ ReadRefs(p) \/ Compare(p)
         \/ Close2(p) \/ DupClose(p) \/ DupMap(p) \/ DupMap2(p)
         \/ DupPage(p) \/ StartChild(p) \/ Kill(p) \/ Preempt(p) \/ Run(p)
  PROVE  CallInvariant(p)'
<1> USE DEF RingInv
<1>1. ASSUME NEW f \in Fds, BeginMove(p, f) PROVE CallInvariant(p)'
  <2>1. /\ Begin(p, "read", f, None) \/ Begin(p, "write", f, None)
        /\ Goto(p, "test")
    BY <1>1 DEF BeginMove
  <2> QED BY <2>1, BeginCalls DEF Points
<1>2. ASSUME NEW f \in Fds, BeginIsClosed(p, f) PROVE CallInvariant(p)'
  BY <1>2, BeginCalls DEF BeginIsClosed, Points
<1>3. ASSUME NEW f \in Fds, Close(p, f) PROVE CallInvariant(p)'
  BY <1>3, BeginCalls DEF Close, Points
<1>4. ASSUME NEW f \in Fds, NEW g \in Fds, Dup(p, f, g) PROVE CallInvariant(p)'
  <2>1. Begin(p, "dup", f, g) /\ (Goto(p, "dupclose") \/ Goto(p, "dup"))
    BY <1>4 DEF Dup
  <2> QED BY <2>1, BeginCalls DEF Points
<1>5. ASSUME NEW q \in Procs, Fork(p, q) PROVE CallInvariant(p)'
  BY <1>5, BeginCalls DEF Fork, Points
<1>6. CASE Test(p)
  <2>1. UNCHANGED <<p_rpos, p_wpos, p_buf>>
    BY <1>6 DEF Test, ringVars
  <2>2. CASE Return(p)
    BY <2>2, ReturnCalls
  <2>3. CASE ~MovedAll(p) /\ ~Blocked(p) /\ Goto(p, "move") /\ UNCHANGED callVars
    <3>1. pc'[p] = "move" /\ op'[p] = op[p] /\ i'[p] = i[p]
      BY <2>3 DEF Goto, callVars, TypeOK
    <3>2. i[p] < COUNT
      BY <2>3, PipeAssumption DEF MovedAll, TypeOK
    <3>3. /\ op[p] = "read" => p_rpos < p_wpos
          /\ op[p] = "write" => p_wpos < p_rpos + PIPEBUFSIZ
      BY <2>3, NotBlocked
    <3> QED BY <2>1, <3>1, <3>2, <3>3 DEF CallInvariant, Moving
  <2>4. CASE Goto(p, "runs") /\ UNCHANGED callVars
    <3>1. pc'[p] = "runs" /\ op'[p] = op[p]
      BY <2>4 DEF Goto, callVars, TypeOK
    <3> QED BY <3>1 DEF CallInvariant, Moving
  <2> QED BY <1>6, <2>2, <2>3, <2>4 DEF Test
<1>7. CASE ReadRuns(p) \/ ReadRefs(p)
  <2>1. pc'[p] \in {"refs", "compare"} /\ op'[p] = op[p]
    BY <1>7 DEF ReadRuns, ReadRefs, Goto, TypeOK, callVars
  <2> QED BY <2>1 DEF CallInvariant, Moving
<1>9. CASE Compare(p)
  <2>1. CASE Return(p)
    BY <2>1, ReturnCalls
  <2>2. CASE (Goto(p, "runs") \/ Goto(p, "test")) /\ UNCHANGED op
    <3>1. pc'[p] \in {"runs", "test"} /\ op'[p] = op[p]
      BY <2>2 DEF Goto, TypeOK
    <3> QED BY <3>1 DEF CallInvariant, Moving
  <2> QED BY <1>9, <2>1, <2>2 DEF Compare, callVars
<1>10. CASE Close2(p) \/ DupMap2(p) \/ StartChild(p) \/ Kill(p)
  <2>1. Return(p)
    BY <1>10 DEF Close2, DupMap2, StartChild, Kill
  <2> QED BY <2>1, ReturnCalls
<1>11. CASE DupClose(p) \/ DupMap(p)
  <2>1. pc'[p] \in {"dup", "dup2"} /\ op'[p] = op[p]
    BY <1>11 DEF DupClose, DupMap, Goto, TypeOK, callVars
  <2> QED BY <2>1 DEF CallInvariant, Moving
<1>12. CASE DupPage(p) \/ Exit(p) \/ Preempt(p) \/ Run(p)
  <2>1. UNCHANGED <<pc, op, arg, i, byte, p_rpos, p_wpos, p_buf>>
    BY <1>12 DEF DupPage, Exit, Preempt, Run, callVars, ringVars
  <2> QED BY <2>1 DEF CallInvariant, Moving
<1> QED BY <1>1, <1>2, <1>3, <1>4, <1>5, <1>6, <1>7, <1>9, <1>10, <1>11, <1>12
        DEF BeginCall

(* Two environments are not in read, or in write, at the same time.        *)
LEMMA OneAtATime ==
  ASSUME OneWriterOneReader, RingInv, NEW p \in Procs, NEW q \in Procs, q # p,
         op[p] \in {"read", "write"}
  PROVE  op[q] # op[p]
<1>1. SUFFICES ASSUME op[q] = op[p] PROVE FALSE
  OBVIOUS
<1>2. calls \in Programs
  BY DEF RingInv, TypeOK
<1>3. op[p] \in calls[p] /\ op[p] \in calls[q]
  BY <1>1 DEF RingInv, CallInvariant
<1> QED BY <1>2, <1>3 DEF OneWriterOneReader

(* Storing or taking a byte: only the writer changes the buffer, and only  *)
(* at a place that is not between the positions.                           *)
LEMMA MoveStep ==
  ASSUME OneWriterOneReader, RingInv, UNCHANGED calls, NEW p \in Procs, Move(p)
  PROVE  RingInv'
<1> USE PipeAssumption DEF RingInv
<1>1. /\ p \in oncpu /\ pc[p] = "move" /\ pc' = [pc EXCEPT ![p] = "advance"]
      /\ UNCHANGED <<fd, data, p_rpos, p_wpos, got, alive, oncpu, env_runs,
                     op, at, arg, i>>
  BY DEF Move, At, Goto, pageVars, cpuVars
<1>2. p_rpos % PIPEBUFSIZ \in 0 .. PIPEBUFSIZ - 1
  BY ModRange, Positions
<1>3. p_wpos % PIPEBUFSIZ \in 0 .. PIPEBUFSIZ - 1
  BY ModRange, Positions
<1>4. InOrder'
  BY <1>1 DEF InOrder
<1>5. CASE op[p] = "read"
  <2>1. /\ byte' = [byte EXCEPT ![p] = p_buf[p_rpos % PIPEBUFSIZ]]
        /\ UNCHANGED p_buf
    BY <1>5 DEF Move
  <2>2. p_rpos < p_wpos
    BY <1>1, <1>5 DEF CallInvariant, Moving
  <2>3. p_buf[p_rpos % PIPEBUFSIZ] = p_rpos + 1
    <3>1. p_rpos \in p_rpos .. p_wpos - 1
      BY <2>2, Positions
    <3> QED BY <3>1 DEF Contents
  <2>4. TypeOK'
    <3>1. pc' \in [Procs -> Points] /\ byte' \in [Procs -> Nat]
      BY <1>1, <1>2, <2>1 DEF TypeOK, Points
    <3> QED BY <1>1, <2>1, <3>1 DEF TypeOK
  <2>5. Contents'
    BY <1>1, <2>1 DEF Contents
  <2>6. ASSUME NEW q \in Procs PROVE CallInvariant(q)'
    <3>1. CASE q = p
      BY <1>1, <1>5, <2>1, <2>2, <2>3, <3>1 DEF CallInvariant, Moving, TypeOK
    <3>2. CASE q # p
      BY <1>1, <2>1, <3>2 DEF CallInvariant, Moving, TypeOK
    <3> QED BY <3>1, <3>2
  <2> QED BY <1>4, <2>4, <2>5, <2>6
<1>6. CASE op[p] = "write"
  <2>1. /\ p_buf' = [p_buf EXCEPT ![p_wpos % PIPEBUFSIZ] = p_wpos + 1]
        /\ UNCHANGED byte
    BY <1>6 DEF Move
  <2>2. p_wpos < p_rpos + PIPEBUFSIZ
    BY <1>1, <1>6 DEF CallInvariant, Moving
  <2>3. p_buf'[p_wpos % PIPEBUFSIZ] = p_wpos + 1
    BY <1>3, <2>1 DEF TypeOK
  <2>4. TypeOK'
    <3>1. pc' \in [Procs -> Points] /\ p_buf' \in [0 .. PIPEBUFSIZ - 1 -> Nat]
      BY <1>1, <1>3, <2>1 DEF TypeOK, Points
    <3> QED BY <1>1, <2>1, <3>1 DEF TypeOK
  <2>5. Contents'
    <3>1. ASSUME NEW k \in p_rpos .. p_wpos - 1
          PROVE  p_buf'[k % PIPEBUFSIZ] = k + 1
      <4>1. k \in Nat /\ k < p_wpos /\ p_wpos < k + PIPEBUFSIZ /\ p_wpos \in Nat
        BY <2>2 DEF TypeOK
      <4>2. k % PIPEBUFSIZ # p_wpos % PIPEBUFSIZ
        BY <4>1, ModDistinct
      <4>3. k % PIPEBUFSIZ \in 0 .. PIPEBUFSIZ - 1
        BY <4>1, ModRange
      <4>4. p_buf[k % PIPEBUFSIZ] = k + 1
        BY DEF Contents
      <4> QED BY <2>1, <4>2, <4>3, <4>4 DEF TypeOK
    <3> QED BY <1>1, <3>1 DEF Contents
  <2>6. ASSUME NEW q \in Procs PROVE CallInvariant(q)'
    <3>1. CASE q = p
      BY <1>1, <1>6, <2>1, <2>2, <2>3, <3>1 DEF CallInvariant, Moving, TypeOK
    <3>2. CASE q # p
      <4>1. op[q] # "write"
        BY <1>6, <3>2, OneAtATime
      <4> QED BY <1>1, <2>1, <3>2, <4>1 DEF CallInvariant, Moving, TypeOK
    <3> QED BY <3>1, <3>2
  <2> QED BY <1>4, <2>4, <2>5, <2>6
<1> QED BY <1>5, <1>6 DEF Move

(* Advancing a position: each end moves only its own.                      *)
LEMMA AdvanceStep ==
  ASSUME OneWriterOneReader, RingInv, UNCHANGED calls, NEW p \in Procs, Advance(p)
  PROVE  RingInv'
<1> USE PipeAssumption DEF RingInv
<1>1. /\ p \in oncpu /\ pc[p] = "advance" /\ pc' = [pc EXCEPT ![p] = "test"]
      /\ i' = [i EXCEPT ![p] = @ + 1] /\ byte' = [byte EXCEPT ![p] = Nothing]
      /\ UNCHANGED <<fd, data, p_buf, alive, oncpu, env_runs, op, at, arg>>
  BY DEF Advance, At, Goto, pageVars, cpuVars
<1>2. /\ pc' \in [Procs -> Points] /\ i' \in [Procs -> 0 .. COUNT]
      /\ byte' \in [Procs -> Nat]
  <2>1. i[p] + 1 \in 0 .. COUNT
    BY <1>1, SMTT(30) DEF CallInvariant, Moving, TypeOK
  <2> QED BY <1>1, <2>1 DEF TypeOK, Points, Nothing
<1>3. CASE op[p] = "read"
  <2>1. p_rpos' = p_rpos + 1 /\ got' = byte[p] /\ UNCHANGED p_wpos
    BY <1>3 DEF Advance
  <2>2. p_rpos < p_wpos /\ byte[p] = p_rpos + 1
    BY <1>1, <1>3 DEF CallInvariant, Moving
  <2>3. TypeOK'
    <3>1. /\ p_rpos' \in Nat /\ p_wpos' \in p_rpos' .. p_rpos' + PIPEBUFSIZ
          /\ got' \in Nat \cup {Eof}
      BY <2>1, <2>2, Positions, SMTT(30) DEF TypeOK
    <3> QED BY <1>1, <1>2, <3>1 DEF TypeOK
  <2>4. InOrder' /\ Contents'
    <3>1. InOrder'
      BY <2>1, <2>2 DEF InOrder
    <3>2. ASSUME NEW k \in p_rpos .. p_wpos - 1
          PROVE  p_buf[k % PIPEBUFSIZ] = k + 1
      BY DEF Contents
    <3>3. p_rpos' .. p_wpos' - 1 \subseteq p_rpos .. p_wpos - 1
      BY <2>1, Positions
    <3> QED BY <1>1, <3>1, <3>2, <3>3 DEF Contents
  <2>5. ASSUME NEW q \in Procs PROVE CallInvariant(q)'
    <3>1. CASE q = p
      BY <1>1, <3>1 DEF CallInvariant, Moving, TypeOK
    <3>2. CASE q # p
      <4>1. op[q] # "read"
        BY <1>3, <3>2, OneAtATime
      <4>2. /\ pc'[q] = pc[q] /\ op'[q] = op[q] /\ arg'[q] = arg[q]
            /\ i'[q] = i[q] /\ byte'[q] = byte[q]
        BY <1>1, <3>2 DEF TypeOK
      <4>3. Moving(q) /\ op[q] = "write" => p_wpos < p_rpos + PIPEBUFSIZ
        BY DEF CallInvariant
      <4>4. Moving(q) /\ op[q] = "write" => p_wpos < p_rpos' + PIPEBUFSIZ
        BY <2>1, <4>3, Positions
      <4> QED BY <1>1, <2>1, <4>1, <4>2, <4>4 DEF CallInvariant, Moving
    <3> QED BY <3>1, <3>2
  <2> QED BY <2>3, <2>4, <2>5
<1>4. CASE op[p] = "write"
  <2>1. p_wpos' = p_wpos + 1 /\ UNCHANGED <<p_rpos, got>>
    BY <1>4 DEF Advance
  <2>2. /\ p_wpos < p_rpos + PIPEBUFSIZ
        /\ p_buf[p_wpos % PIPEBUFSIZ] = p_wpos + 1
    BY <1>1, <1>4 DEF CallInvariant, Moving
  <2>3. TypeOK'
    <3>1. /\ p_rpos' \in Nat /\ p_wpos' \in p_rpos' .. p_rpos' + PIPEBUFSIZ
          /\ got' \in Nat \cup {Eof}
      BY <2>1, <2>2, Positions DEF TypeOK
    <3> QED BY <1>1, <1>2, <3>1 DEF TypeOK
  <2>4. InOrder' /\ Contents'
    <3>1. InOrder'
      BY <2>1 DEF InOrder
    <3>2. ASSUME NEW k \in p_rpos' .. p_wpos' - 1
          PROVE  p_buf[k % PIPEBUFSIZ] = k + 1
      <4>1. k \in p_rpos .. p_wpos - 1 \/ k = p_wpos
        BY <2>1, Positions
      <4> QED BY <2>2, <4>1 DEF Contents
    <3> QED BY <1>1, <3>1, <3>2 DEF Contents
  <2>5. ASSUME NEW q \in Procs PROVE CallInvariant(q)'
    <3>1. CASE q = p
      BY <1>1, <3>1 DEF CallInvariant, Moving, TypeOK
    <3>2. CASE q # p
      <4>1. op[q] # "write"
        BY <1>4, <3>2, OneAtATime
      <4>2. /\ pc'[q] = pc[q] /\ op'[q] = op[q] /\ arg'[q] = arg[q]
            /\ i'[q] = i[q] /\ byte'[q] = byte[q]
        BY <1>1, <3>2 DEF TypeOK
      <4>3. Moving(q) /\ op[q] = "read" => p_rpos < p_wpos
        BY DEF CallInvariant
      <4>4. Moving(q) /\ op[q] = "read" => p_rpos < p_wpos'
        BY <2>1, <4>3, Positions
      <4> QED BY <2>1, <4>1, <4>2, <4>4 DEF CallInvariant, Moving
    <3> QED BY <3>1, <3>2
  <2> QED BY <2>3, <2>4, <2>5
<1> QED BY <1>3, <1>4 DEF Advance

(* Every step preserves the invariant.                                     *)
LEMMA NextRing ==
  ASSUME OneWriterOneReader, RingInv, [Next]_vars
  PROVE  RingInv'
<1>1. CASE UNCHANGED vars
  BY <1>1 DEF vars, pageVars, ringVars, cpuVars, callVars, RingInv, TypeOK,
     InOrder, Contents, CallInvariant, Moving
<1>2. ASSUME NEW p \in Procs, Step(p), UNCHANGED calls
      PROVE  RingInv'
  <2>1. CASE Move(p)
    BY <1>2, <2>1, MoveStep
  <2>2. CASE Advance(p)
    BY <1>2, <2>2, AdvanceStep
  <2>3. CASE ~Move(p) /\ ~Advance(p)
    <3>1. OutsideRing(p) /\ MapsOK' /\ LocalsOK' /\ CallInvariant(p)'
      BY <1>2, <2>3, QuietOutside, QuietMaps, QuietTypes, QuietCalls
         DEF Step, Continue
    <3>2. TypeOK'
      BY <3>1 DEF MapsOK, LocalsOK, OutsideRing, RingInv, TypeOK
    <3> QED BY <3>1, <3>2, OutsideRingStep
  <2> QED BY <2>1, <2>2, <2>3
<1> QED BY <1>1, <1>2 DEF Next

-----------------------------------------------------------------------------
(* The ring of lib/pipe.c with one writer and one reader keeps its         *)
(* invariant on any number of CPUs, for any size of the buffer.            *)
THEOREM RingInvariance ==
  ASSUME OneWriterOneReader
  PROVE  Spec => []RingInv
<1>1. RingInv /\ [Next]_vars => RingInv'
  BY NextRing
<1> QED BY InitRing, <1>1, PTL DEF Spec

(* devpipe_read delivers the bytes of devpipe_write once and in order,     *)
(* without a lock.                                                         *)
THEOREM DeliveredInOrder ==
  ASSUME OneWriterOneReader
  PROVE  Spec => []InOrder
<1>1. RingInv => InOrder
  BY DEF RingInv
<1> QED BY RingInvariance, <1>1, PTL
=============================================================================
