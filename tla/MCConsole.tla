------------------------------ MODULE MCConsole ------------------------------
(* Instances of Console for TLC.                                           *)
EXTENDS Console

(* Shift, right Ctrl, Caps Lock, A and the Up key; Ctrl-D and the other    *)
(* device at the same time; and a serial line that erases, sends more than *)
(* a line or the screen holds, and is read between other output.           *)
MCSessions ==
  { [keys |-> {42, 29 + 256, 58, 30, 72 + 256}, chars |-> {}, inputs |-> 4,
     prints |-> {}, outputs |-> 0],
    [keys |-> {29 + 256, 28, 32}, chars |-> {0, 66}, inputs |-> 4,
     prints |-> {}, outputs |-> 0],
    [keys |-> {}, chars |-> {127, 13, 66, 67}, inputs |-> 5,
     prints |-> {9, 13, 8, 66}, outputs |-> 2] }
=============================================================================
