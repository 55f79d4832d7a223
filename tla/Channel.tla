------------------------------- MODULE Channel -------------------------------
(***************************************************************************)
(* What a pipe promises to one writer and one reader: the bytes arrive in  *)
(* order, none is lost, repeated or made up, no more than CAP are on their *)
(* way, the reader is told about the end only when nobody can write any    *)
(* more, and an end that has been closed stays closed.                     *)
(***************************************************************************)
EXTENDS Naturals, Sequences

CONSTANTS CAP, Bytes, Nothing, Eof

VARIABLES
  queue,     \* bytes on their way
  got,       \* what the reader received last
  writable,  \* does somebody hold the write end?
  readable   \* does somebody hold the read end?

vars == <<queue, got, writable, readable>>

Init == queue = <<>> /\ got = Nothing /\ writable = TRUE /\ readable = TRUE

Put(b) ==
  /\ writable = TRUE /\ Len(queue) < CAP
  /\ queue' = Append(queue, b)
  /\ UNCHANGED <<got, writable, readable>>

Get ==
  /\ readable = TRUE /\ queue # <<>>
  /\ got' = Head(queue)
  /\ queue' = Tail(queue)
  /\ UNCHANGED <<writable, readable>>

EndOfFile ==
  /\ writable = FALSE
  /\ got' = Eof
  /\ UNCHANGED <<queue, writable, readable>>

Close ==
  /\ writable' \in {writable, FALSE}
  /\ readable' \in {readable, FALSE}
  /\ UNCHANGED <<queue, got>>

Next == (\E b \in Bytes : Put(b)) \/ Get \/ EndOfFile \/ Close

Spec == Init /\ [][Next]_vars
=============================================================================
