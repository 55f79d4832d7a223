------------------------------- MODULE MCPipe --------------------------------
(* Instances of Pipe for TLC: who makes which calls.                       *)
EXTENDS Pipe, TLC

CONSTANTS p1, p2

(* The creator writes and its child reads; both close descriptors at any   *)
(* time, and may die.                                                      *)
WriteRead ==
  p1 :> {"write", "fork", "close", "exit", "die"}
    @@ p2 :> {"read", "close", "exit", "die"}

(* The creator asks whether the pipe is closed while its child dups and    *)
(* closes descriptors, as in user/testpiperace2.c.                         *)
AskAndDup ==
  p1 :> {"isclosed", "fork", "close"} @@ p2 :> {"close", "dup"}

MCPrograms == {WriteRead, AskAndDup}
=============================================================================
