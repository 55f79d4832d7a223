---------------------------- MODULE ConsoleProofs ----------------------------
(***************************************************************************)
(* The input buffer of kern/console.c, which has no test for being full:   *)
(* what an overrun loses, and that it never mixes up the order, for every  *)
(* size of the buffer.                                                     *)
(***************************************************************************)
EXTENDS Console, TLAPS

(* Numbers that differ by a multiple of n have the same remainder.         *)
LEMMA ModShift ==
  ASSUME NEW n \in Nat \ {0}, NEW a \in Int, NEW b \in Int, NEW q \in Int,
         b = a + n * q
  PROVE  b % n = a % n
<1> DEFINE qa == a \div n
           qb == b \div n
           d == qb - (qa + q)
<1>1. qa \in Int /\ qb \in Int /\ a = n * qa + (a % n) /\ b = n * qb + (b % n)
  BY SMT
<1>2. a % n \in 0 .. n - 1 /\ b % n \in 0 .. n - 1
  BY SMT
<1> HIDE DEF qa, qb
<1>3. d \in Int /\ n * d = (a % n) - (b % n)
  <2>1. n * d = n * qb - (n * qa + n * q)
    <3>1. n * (qa + q) = n * qa + n * q
      BY <1>1
    <3>2. \A s \in Int : n * (qb - s) = n * qb - n * s
      BY <1>1
    <3>3. qa + q \in Int
      BY <1>1
    <3> QED BY <3>1, <3>2, <3>3
  <2>2. n * qb - (n * qa + n * q) = (a % n) - (b % n)
    <3> DEFINE u == n * qa
               v == n * qb
               w == n * q
    <3>1. u \in Int /\ v \in Int /\ w \in Int
      BY <1>1
    <3>2. a = u + (a % n) /\ b = v + (b % n) /\ b = a + w
      BY <1>1
    <3> HIDE DEF u, v, w
    <3>3. v - (u + w) = (a % n) - (b % n)
      BY <1>2, <3>1, <3>2
    <3> QED BY <3>3 DEF u, v, w
  <2> QED BY <1>1, <2>1, <2>2
<1> HIDE DEF d
<1>4. CASE d <= -1
  <2>1. n * d <= -n
    BY <1>3, <1>4
  <2> QED BY <1>2, <1>3, <2>1
<1>5. CASE d >= 1
  <2>1. n * d >= n
    BY <1>3, <1>5
  <2> QED BY <1>2, <1>3, <2>1
<1>6. CASE d = 0
  <2>1. n * d = 0
    BY <1>6
  <2> QED BY <1>2, <1>3, <2>1
<1> QED BY <1>3, <1>4, <1>5, <1>6

(* One lap more or less does not change the remainder.                     *)
LEMMA Laps ==
  ASSUME NEW n \in Nat \ {0}, NEW a \in Int
  PROVE  (a + n) % n = a % n /\ (a \in 0 .. n - 1 => a % n = a)
<1>1. PICK one \in Int : one = 1
  OBVIOUS
<1>2. a + n = a + n * one /\ a + n \in Int
  BY <1>1
<1>3. (a + n) % n = a % n
  BY <1>2, ModShift
<1>4. a \in 0 .. n - 1 => a % n = a
  BY SMT
<1> QED BY <1>3, <1>4

LEMMA BufferSize == CONSBUFSIZE \in Nat \ {0}
BY ConsoleAssumption

(* The number of waiting characters, as the two positions give it.         *)
LEMMA WaitingAhead ==
  ASSUME cons.rpos \in 0 .. CONSBUFSIZE - 1, cons.wpos \in 0 .. CONSBUFSIZE - 1
  PROVE  Waiting = Ahead(cons.wpos, cons.rpos)
<1>1. CASE cons.wpos >= cons.rpos
  <2>1. cons.wpos - cons.rpos \in 0 .. CONSBUFSIZE - 1
    BY <1>1, BufferSize
  <2>2. (cons.wpos - cons.rpos) % CONSBUFSIZE = cons.wpos - cons.rpos
    <3> DEFINE d == cons.wpos - cons.rpos
    <3>1. d \in Int /\ d \in 0 .. CONSBUFSIZE - 1
      BY <2>1, BufferSize
    <3> HIDE DEF d
    <3>2. d % CONSBUFSIZE = d
      BY <3>1, Laps, BufferSize
    <3> QED BY <3>2 DEF d
  <2> QED BY <1>1, <2>2 DEF Waiting, Ahead
<1>2. CASE cons.wpos < cons.rpos
  <2>1. /\ (cons.wpos - cons.rpos) + CONSBUFSIZE \in 0 .. CONSBUFSIZE - 1
        /\ cons.wpos - cons.rpos \in Int
    BY <1>2, BufferSize
  <2>2. ((cons.wpos - cons.rpos) + CONSBUFSIZE) % CONSBUFSIZE
          = (cons.wpos - cons.rpos) % CONSBUFSIZE
    BY <2>1, Laps, BufferSize
  <2>3. ((cons.wpos - cons.rpos) + CONSBUFSIZE) % CONSBUFSIZE
          = (cons.wpos - cons.rpos) + CONSBUFSIZE
    BY <2>1, Laps, BufferSize
  <2> QED BY <1>2, <2>2, <2>3, BufferSize DEF Waiting, Ahead
<1> QED BY <1>1, <1>2, BufferSize

LEMMA InitBuffer == Init => BufferInv
<1> SUFFICES ASSUME Init PROVE BufferInv
  OBVIOUS
<1>1. cons.rpos = 0 /\ cons.wpos = 0 /\ cons.n = 0 /\ taken = 0 /\ last = 0
  BY DEF Init
<1>2. DOMAIN cons = {"buf", "rpos", "wpos", "n"} /\ DOMAIN cons.buf = 0 .. CONSBUFSIZE - 1
  BY DEF Init
<1>3. Ahead(cons.wpos, cons.rpos) = 0
  BY <1>1, BufferSize DEF Ahead
<1>4. (cons.n - taken - Ahead(cons.wpos, cons.rpos)) % CONSBUFSIZE = 0
  <2>1. cons.n - taken - Ahead(cons.wpos, cons.rpos) = 0
    BY <1>1, <1>3
  <2>2. 0 % CONSBUFSIZE = 0
    BY Laps, BufferSize
  <2> QED BY <2>1, <2>2
<1> QED BY <1>1, <1>2, <1>3, <1>4, BufferSize DEF BufferInv

(* A character is put in: cons_intr, whoever calls it.                     *)
LEMMA PutBuffer ==
  ASSUME BufferInv, NEW ch, cons' = Put(cons, ch), UNCHANGED <<taken, last>>
  PROVE  BufferInv'
<1> DEFINE N == CONSBUFSIZE
           w == cons.wpos
<1>1. N \in Nat \ {0} /\ w \in 0 .. N - 1 /\ cons.rpos \in 0 .. N - 1
  BY BufferSize DEF BufferInv
<1>2. CASE ch = 0
  <2>1. cons' = cons
    BY <1>2 DEF Put
  <2> QED BY <2>1 DEF BufferInv, Ahead
<1>3. CASE ch # 0
  <2>1. /\ cons'.rpos = cons.rpos /\ cons'.n = cons.n + 1
        /\ cons'.wpos = Advance(w)
        /\ cons'.buf = [cons.buf EXCEPT ![w] = [num |-> cons.n + 1, c |-> ch]]
        /\ DOMAIN cons' = DOMAIN cons
    BY <1>3 DEF Put, BufferInv
  <2>2. Advance(w) \in 0 .. N - 1
    BY <1>1 DEF Advance
  <2>3. \A p \in 0 .. N - 1 :
          Ahead(cons'.wpos, p) = IF Ahead(cons.wpos, p) = N - 1 THEN 0 ELSE Ahead(cons.wpos, p) + 1
    BY <1>1, <2>1 DEF Ahead, Advance
  <2>4. \A p \in 0 .. N - 1 : Ahead(cons.wpos, p) \in 0 .. N - 1 /\ (Ahead(cons.wpos, p) = 0 <=> p = w)
    BY <1>1 DEF Ahead
  <2>5. Ahead(cons'.wpos, cons'.rpos) = IF Ahead(cons.wpos, cons.rpos) = N - 1 THEN 0 ELSE Ahead(cons.wpos, cons.rpos) + 1
    BY <1>1, <2>1, <2>3
  <2> DEFINE A == Ahead(cons.wpos, cons.rpos)
             B == Ahead(cons'.wpos, cons'.rpos)
  <2>6. A \in 0 .. N - 1 /\ cons.n \in Nat /\ taken \in Nat /\ last \in Nat /\ last <= cons.n - A
    BY <1>1, <2>4 DEF BufferInv
  <2>7. last' <= cons'.n - Ahead(cons'.wpos, cons'.rpos)
    <3> HIDE DEF A, B
    <3>1. B = IF A = N - 1 THEN 0 ELSE A + 1
      BY <2>5 DEF A, B
    <3>2. last <= cons.n + 1 - B /\ B \in Int
      BY <1>1, <2>6, <3>1
    <3> QED BY <2>1, <2>6, <3>2 DEF B
  <2>8. ASSUME NEW p \in 0 .. N - 1, Ahead(cons'.wpos, p) \in 1 .. Ahead(cons'.wpos, cons'.rpos)
        PROVE  cons'.buf[p].num = cons'.n - Ahead(cons'.wpos, p) + 1
    <3>1. A # N - 1 /\ B = A + 1
      BY <1>1, <2>5, <2>8
    <3>2. Ahead(cons'.wpos, p) = Ahead(cons.wpos, p) + 1
      BY <2>3, <2>8
    <3>3. CASE p = w
      <4>1. Ahead(cons.wpos, p) = 0
        BY <2>4, <3>3
      <4>2. cons'.buf[p].num = cons.n + 1
        BY <1>1, <2>1, <3>3 DEF BufferInv
      <4> QED BY <2>1, <2>6, <3>2, <4>1, <4>2
    <3>4. CASE p # w
      <4>1. Ahead(cons.wpos, p) \in 1 .. A
        BY <2>4, <2>6, <2>8, <3>1, <3>2, <3>4
      <4>2. cons.buf[p].num = cons.n - Ahead(cons.wpos, p) + 1
        BY <4>1 DEF BufferInv
      <4>3. cons'.buf[p] = cons.buf[p]
        BY <2>1, <3>4 DEF BufferInv
      <4> QED BY <2>1, <2>4, <2>6, <3>2, <4>2, <4>3
    <3> QED BY <3>3, <3>4
  <2>9. (cons'.n - taken' - Ahead(cons'.wpos, cons'.rpos)) % N = 0
    <3> DEFINE x == cons.n - taken - A
               y == cons.n + 1 - taken - B
    <3>1. x % N = 0
      BY DEF BufferInv
    <3>2. B = IF A = N - 1 THEN 0 ELSE A + 1
      BY <2>5
    <3> HIDE DEF A, B
    <3>3. x \in Int /\ B \in Int /\ (y = x \/ y = x + N)
      BY <1>1, <2>6, <3>2
    <3>4. y % N = 0
      <4> HIDE DEF x, y
      <4> QED BY <1>1, <3>1, <3>3, Laps
    <3>5. cons'.n - taken' - Ahead(cons'.wpos, cons'.rpos) = y
      BY <2>1, <2>6, <3>3 DEF B
    <3> QED BY <3>4, <3>5
  <2>10. DOMAIN cons'.buf = 0 .. N - 1
    BY <2>1 DEF BufferInv
  <2> QED BY <1>1, <2>1, <2>2, <2>6, <2>7, <2>8, <2>9, <2>10 DEF BufferInv
<1> QED BY <1>2, <1>3

(* The character the reader takes is newer than the last one it took.      *)
LEMMA GetcBuffer ==
  ASSUME BufferInv, Getc
  PROVE  BufferInv' /\ last' > last
<1> DEFINE N == CONSBUFSIZE
           p == cons.rpos
           A == Ahead(cons.wpos, cons.rpos)
           B == Ahead(cons'.wpos, cons'.rpos)
<1>1. /\ N \in Nat \ {0} /\ p \in 0 .. N - 1 /\ cons.wpos \in 0 .. N - 1
      /\ cons.n \in Nat /\ taken \in Nat /\ last \in Nat /\ p # cons.wpos
  BY BufferSize DEF BufferInv, Getc
<1>2. /\ cons'.rpos = Advance(p) /\ cons'.n = cons.n /\ cons'.wpos = cons.wpos
      /\ cons'.buf = cons.buf /\ DOMAIN cons' = DOMAIN cons
      /\ taken' = taken + 1 /\ last' = cons.buf[p].num
  BY DEF Getc, BufferInv
<1>3. Advance(p) \in 0 .. N - 1
  BY <1>1 DEF Advance
<1>4. A \in 1 .. N - 1 /\ B = A - 1
  BY <1>1, <1>2 DEF Ahead, Advance
<1>5. \A q \in 0 .. N - 1 : Ahead(cons'.wpos, q) = Ahead(cons.wpos, q) /\ Ahead(cons.wpos, q) \in Int
  BY <1>1, <1>2 DEF Ahead
<1>6. last <= cons.n - A /\ (cons.n - taken - A) % N = 0
  BY DEF BufferInv
<1>7. last' = cons.n - A + 1
  <2>1. \A q \in 0 .. N - 1 : Ahead(cons.wpos, q) \in 1 .. A =>
          cons.buf[q].num = cons.n - Ahead(cons.wpos, q) + 1
    BY DEF BufferInv
  <2>2. A \in 1 .. A
    BY <1>1, <1>4
  <2> HIDE DEF BufferInv, Getc
  <2>3. cons.buf[p].num = cons.n - A + 1
    BY ONLY <1>1, <2>1, <2>2
  <2> QED BY <1>2, <2>3
<1> HIDE DEF A, B
<1>8. last' > last /\ last' \in Nat /\ last' <= cons.n - B
  BY <1>1, <1>4, <1>6, <1>7
<1>9. (cons.n - (taken + 1) - B) % N = 0
  <2>1. cons.n - (taken + 1) - B = cons.n - taken - A
    BY <1>1, <1>4
  <2> QED BY <1>6, <2>1
<1>10. ASSUME NEW q \in 0 .. N - 1, Ahead(cons'.wpos, q) \in 1 .. B
       PROVE  cons'.buf[q].num = cons'.n - Ahead(cons'.wpos, q) + 1
  <2>1. Ahead(cons.wpos, q) \in 1 .. A
    BY <1>4, <1>5, <1>10
  <2>2. cons.buf[q].num = cons.n - Ahead(cons.wpos, q) + 1
    BY <2>1 DEF BufferInv, A
  <2> QED BY <1>2, <1>5, <2>2
<1>11. DOMAIN cons' = {"buf", "rpos", "wpos", "n"} /\ DOMAIN cons'.buf = 0 .. N - 1
  BY <1>2 DEF BufferInv
<1>12. taken' \in Nat
  BY <1>1, <1>2
<1> QED BY <1>1, <1>2, <1>3, <1>8, <1>9, <1>10, <1>11, <1>12 DEF BufferInv, B

(* Every other step leaves the buffer alone, so the invariant is kept and  *)
(* what the reader has taken last only grows.                              *)
LEMMA NextBuffer ==
  ASSUME BufferInv, [Next]_vars
  PROVE  BufferInv' /\ (last' # last => last' > last)
<1>1. CASE UNCHANGED <<cons, taken, last>>
  BY <1>1 DEF BufferInv, Ahead
<1>2. CASE kbd_intr
  <2>1. \E ch : cons' = Put(cons, ch)
    BY <1>2 DEF kbd_intr
  <2>2. UNCHANGED <<taken, last>>
    BY <1>2 DEF kbd_intr, readerVars
  <2> QED BY <2>1, <2>2, PutBuffer
<1>3. CASE serial_intr
  <2>1. cons' = Put(cons, Head(com)) /\ UNCHANGED <<taken, last>>
    BY <1>3 DEF serial_intr, readerVars
  <2> QED BY <2>1, PutBuffer
<1>4. CASE Getc
  BY <1>4, GetcBuffer
<1>5. CASE Edit
  BY <1>1, <1>5 DEF Edit
<1>6. CASE PrintsTab \/ Readline
  BY <1>1, <1>6 DEF PrintsTab, Readline
<1>7. ASSUME NEW k \in session.keys, Press(k) \/ Release(k)
      PROVE  UNCHANGED <<cons, taken, last>>
  BY <1>7 DEF Press, Release, readerVars
<1>8. ASSUME NEW ch \in session.chars, Serial(ch)
      PROVE  UNCHANGED <<cons, taken, last>>
  BY <1>8 DEF Serial, readerVars
<1>9. ASSUME NEW ch \in session.prints, Prints(ch)
      PROVE  UNCHANGED <<cons, taken, last>>
  BY <1>9 DEF Prints
<1>10. CASE UNCHANGED vars
  BY <1>1, <1>10 DEF vars, readerVars
<1> QED BY <1>1, <1>2, <1>3, <1>4, <1>5, <1>6, <1>7, <1>8, <1>9, <1>10
        DEF Next, Reader, Poll

-----------------------------------------------------------------------------
(* The input buffer keeps its invariant, for every size.                   *)
THEOREM BufferInvariance == Spec => []BufferInv
<1>1. BufferInv /\ [Next]_vars => BufferInv'
  BY NextBuffer
<1> QED BY InitBuffer, <1>1, PTL DEF Spec

(* Characters come out of the buffer in order and at most once.            *)
THEOREM InputInOrder == Spec => InOrder
<1>1. BufferInv /\ [Next]_vars => [last' # last => last' > last]_vars
  BY NextBuffer
<1> QED BY <1>1, BufferInvariance, PTL DEF Spec, InOrder

(* What an overrun loses are whole buffers.                                *)
THEOREM LossSafety == Spec => []LossInLaps
<1>1. BufferInv => LossInLaps
  BY WaitingAhead DEF BufferInv, LossInLaps
<1> QED BY <1>1, BufferInvariance, PTL
=============================================================================
