------------------------------ MODULE MCFsServ -------------------------------
(* Instances of FsServ for TLC.                                            *)
EXTENDS FsServ

(* What the clients of a behaviour do: move data through a descriptor they *)
(* share; move data, duplicate and close until the file ids wrap around;   *)
(* open, close and die anywhere in a request; seek in a descriptor that is *)
(* being read; use the other requests; sync after a fork; move data on a   *)
(* disk that fills up; run out of memory.                                  *)
Program(calls, modes, faults) == [calls |-> calls, modes |-> modes, faults |-> faults]
MCPrograms ==
  { Program({"open", "write", "fork"}, {"O_RDWR"}, {}),
    Program({"open", "read", "write", "close", "dup"}, {"O_RDWR"}, {}),
    Program({"open", "close", "fork"}, {"O_RDONLY"}, {"kill", "nopage"}),
    Program({"open", "read", "seek", "fork"}, {"O_RDWR"}, {}),
    Program({"open", "read", "close", "stat", "trunc", "sync", "badcode"},
            {"O_WRONLY", "O_RDONLY"}, {}),
    Program({"open", "close", "sync", "fork"}, {"O_RDONLY"}, {}),
    Program({"open", "read", "write", "fork"}, {"O_RDWR"}, {"full"}),
    Program({"open", "read", "trunc", "close", "dup"}, {"O_RDWR"}, {"nomem"}) }
=============================================================================
