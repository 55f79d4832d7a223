------------------------------- MODULE Console -------------------------------
(***************************************************************************)
(* The console: keyboard and serial port, the circular input buffer and    *)
(* the display (kern/console.c), and the environment that reads a line     *)
(* through them (lib/console.c, lib/readline.c).                           *)
(*                                                                         *)
(* Keys send scan codes, which wait in the keyboard controller; characters *)
(* wait in the serial port.  An interrupt, or a reader's sys_cgetc, moves  *)
(* them into the buffer, one per step, and sys_cgetc goes on until both    *)
(* devices are empty.  The buffer has no test for being full.  Scan codes  *)
(* and characters are the real numbers, of a small set of keys.            *)
(***************************************************************************)
EXTENDS Integers, Sequences, SequencesExt

CONSTANTS
  CONSBUFSIZE,      \* of the input buffer
  BUFLEN,           \* of the line in readline
  CRT_COLS, CRT_ROWS,
  Sessions,         \* what is typed and printed: keys, by their scan codes (256
                    \* is added for one that is sent with the prefix E0),
                    \* serial characters, characters that a program prints,
                    \* and bounds on their numbers
  FIFO              \* bound on what waits in a device

CRT_SIZE == CRT_COLS * CRT_ROWS
E0 == 224
KEY_UP == 226
Space == 32

ASSUME ConsoleAssumption ==
  /\ CONSBUFSIZE \in Nat \ {0} /\ BUFLEN \in Nat \ {0}
  /\ CRT_COLS \in Nat \ {0} /\ CRT_ROWS \in Nat \ {0, 1}
  /\ FIFO \in Nat
  /\ \A s \in Sessions : s.chars \subseteq 0 .. 255

VARIABLES
  session,            \* what happens in this behaviour
  held, caps,         \* keys that are down; is Caps Lock on?
  kb, com,            \* scan codes and characters that wait in the devices
  shift,              \* static shift of kbd_proc_data
  cons,               \* buf, rpos, wpos, and n: how many were ever put in
  taken, last,        \* characters taken out, and the number of the last one
  pc, c,              \* the reader, and the character it got
  line,               \* buf[0 .. i-1] of readline
  crt_buf, crt_pos,
  tab,                \* spaces of a tab that are still to be written
  inputs, outputs     \* bounded counters

deviceVars == <<held, caps, kb, com, inputs>>
screenVars == <<crt_buf, crt_pos, tab>>
readerVars == <<taken, last, pc, c, line, screenVars, outputs>>
vars == <<session, deviceVars, shift, cons, readerVars>>

-----------------------------------------------------------------------------
(* The tables of the keyboard, for a few of the keys.                      *)
Shiftcode(d) ==
  CASE d \in {29, 157} -> {"CTL"}
    [] d \in {42, 54} -> {"SHIFT"}
    [] OTHER -> {}
Togglecode(d) == IF d = 58 THEN {"CAPSLOCK"} ELSE {}

normalmap(d) == CASE d = 30 -> 97 [] d = 32 -> 100 [] d = 28 -> 10 [] d = 14 -> 8
                  [] d = 200 -> KEY_UP [] OTHER -> 0
shiftmap(d) == CASE d = 30 -> 65 [] d = 32 -> 68 [] OTHER -> normalmap(d)
ctlmap(d) == CASE d = 30 -> 1 [] d = 32 -> 4 [] d = 28 -> 13
               [] d = 200 -> KEY_UP [] OTHER -> 0
Charcode(s, d) ==
  IF "CTL" \in s THEN ctlmap(d) ELSE IF "SHIFT" \in s THEN shiftmap(d)
  ELSE normalmap(d)

OtherCase(ch) == CASE ch \in 97 .. 122 -> ch - 32 [] ch \in 65 .. 90 -> ch + 32
                   [] OTHER -> ch

(* kbd_proc_data, on one scan code: the new shift and a character, or 0.   *)
kbd_proc_data_NoEscape(s, data) ==
  IF data = E0 THEN [shift |-> s, c |-> 0]
  ELSE IF data >= 128
  THEN [shift |-> s \ Shiftcode(data), c |-> 0]
  ELSE LET t == SymDiff(s \cup Shiftcode(data), Togglecode(data))
       IN  [shift |-> t, c |-> Charcode(t, data)]
kbd_proc_data(s, data) ==
  IF data = E0 THEN [shift |-> s \cup {"E0ESC"}, c |-> 0]
  ELSE IF data >= 128
  THEN LET d == IF "E0ESC" \in s THEN data ELSE data - 128
       IN  [shift |-> s \ (Shiftcode(d) \cup {"E0ESC"}), c |-> 0]
  ELSE LET d == IF "E0ESC" \in s THEN data + 128 ELSE data
           t == SymDiff((s \ {"E0ESC"}) \cup Shiftcode(d), Togglecode(d))
           ch == Charcode(t, d)
       IN  [shift |-> t, c |-> IF "CAPSLOCK" \in t THEN OtherCase(ch) ELSE ch]

(* cons_intr, on one character: 0 is dropped, and nothing stops wpos from  *)
(* running into rpos.                                                      *)
Advance(pos) == IF pos + 1 = CONSBUFSIZE THEN 0 ELSE pos + 1
Put(b, ch) ==
  IF ch = 0 THEN b
  ELSE [b EXCEPT !.buf = [@ EXCEPT ![b.wpos] = [num |-> b.n + 1, c |-> ch]],
                 !.wpos = Advance(@), !.n = @ + 1]

-----------------------------------------------------------------------------
(* The display.  A cell holds a character; cga_putc scrolls when the       *)
(* cursor leaves the screen.                                               *)
Cells == 0 .. CRT_SIZE - 1
Scroll(d) ==
  IF d.pos < CRT_SIZE THEN d
  ELSE [buf |-> [j \in Cells |-> IF j + CRT_COLS \in Cells THEN d.buf[j + CRT_COLS]
                                 ELSE Space],
        pos |-> d.pos - CRT_COLS]

PutCell(d, ch) ==
  Scroll(CASE ch = 8 /\ d.pos > 0 ->
                [buf |-> [d.buf EXCEPT ![d.pos - 1] = Space], pos |-> d.pos - 1]
           [] ch = 8 /\ d.pos = 0 -> d
           [] ch = 10 -> [d EXCEPT !.pos = @ + CRT_COLS - (@ % CRT_COLS)]
           [] ch = 13 -> [d EXCEPT !.pos = @ - (@ % CRT_COLS)]
           [] OTHER -> [buf |-> [d.buf EXCEPT ![d.pos] = ch], pos |-> d.pos + 1])

cga_putc(ch) ==
  LET d == PutCell([buf |-> crt_buf, pos |-> crt_pos], ch)
  IN  crt_buf' = d.buf /\ crt_pos' = d.pos

-----------------------------------------------------------------------------
Init ==
  /\ session \in Sessions
  /\ held = {} /\ caps = FALSE /\ kb = <<>> /\ com = <<>>
  /\ shift = {}
  /\ cons = [buf |-> [j \in 0 .. CONSBUFSIZE - 1 |-> [num |-> 0, c |-> 0]],
             rpos |-> 0, wpos |-> 0, n |-> 0]
  /\ taken = 0 /\ last = 0
  /\ pc = "program" /\ c = 0 /\ line = <<>>
  /\ crt_buf = [j \in Cells |-> Space] /\ crt_pos = 0 /\ tab = 0
  /\ inputs = 0 /\ outputs = 0

(* The keyboard: make and break codes.                                     *)
Codes(k, break) ==
  (IF k >= 256 THEN <<E0>> ELSE <<>>) \o <<(k % 256) + (IF break THEN 128 ELSE 0)>>

Press(k) ==
  /\ k \notin held /\ inputs < session.inputs /\ Len(kb) < FIFO
  /\ held' = held \cup {k}
  /\ caps' = IF k = 58 THEN ~caps ELSE caps
  /\ kb' = kb \o Codes(k, FALSE)
  /\ inputs' = inputs + 1
  /\ UNCHANGED <<session, com, shift, cons, readerVars>>

Release(k) ==
  /\ k \in held /\ Len(kb) < FIFO
  /\ held' = held \ {k}
  /\ kb' = kb \o Codes(k, TRUE)
  /\ UNCHANGED <<session, caps, com, shift, cons, readerVars, inputs>>

Serial(ch) ==
  /\ inputs < session.inputs /\ Len(com) < FIFO
  /\ com' = Append(com, ch)
  /\ inputs' = inputs + 1
  /\ UNCHANGED <<session, held, caps, kb, shift, cons, readerVars>>

(* kbd_intr and serial_intr: one turn of the loop in cons_intr.            *)
kbd_intr ==
  /\ kb # <<>>
  /\ LET k == kbd_proc_data(shift, Head(kb))
     IN  shift' = k.shift /\ cons' = Put(cons, k.c)
  /\ kb' = Tail(kb)
  /\ UNCHANGED <<session, held, caps, com, readerVars, inputs>>

serial_intr ==
  /\ com # <<>>
  /\ cons' = Put(cons, Head(com))
  /\ com' = Tail(com)
  /\ UNCHANGED <<session, held, caps, kb, shift, readerVars, inputs>>

-----------------------------------------------------------------------------
(* The reader: a program prints, and calls readline.  A tab is printed as  *)
(* five spaces.                                                            *)
Prints(ch) ==
  /\ pc = "program" /\ tab = 0 /\ outputs < session.outputs
  /\ IF ch = 9 THEN tab' = 5 /\ UNCHANGED <<crt_buf, crt_pos>>
     ELSE cga_putc(ch) /\ UNCHANGED tab
  /\ outputs' = outputs + 1
  /\ UNCHANGED <<session, deviceVars, shift, cons, taken, last, pc, c, line>>

PrintsTab ==
  /\ tab > 0 /\ tab' = tab - 1
  /\ cga_putc(Space)
  /\ UNCHANGED <<session, deviceVars, shift, cons, taken, last, pc, c, line, outputs>>

Readline ==
  /\ pc = "program" /\ tab = 0
  /\ pc' = "getc" /\ line' = <<>>
  /\ UNCHANGED <<session, deviceVars, shift, cons, taken, last, c, screenVars,
                 outputs>>

(* sys_cgetc: cons_getc polls both devices until they have nothing more,   *)
(* then takes a character.  With none, devcons_read yields and asks again. *)
Polls_Never == FALSE
Polls == pc = "getc"
Poll == Polls /\ (serial_intr \/ kbd_intr)

Getc_Newest ==
  /\ pc = "getc" /\ kb = <<>> /\ com = <<>> /\ cons.rpos # cons.wpos
  /\ LET w == (cons.wpos - 1) % CONSBUFSIZE
     IN  /\ cons' = [cons EXCEPT !.wpos = w]
         /\ taken' = taken + 1 /\ last' = cons.buf[w].num /\ c' = cons.buf[w].c
  /\ pc' = "edit"
  /\ UNCHANGED <<session, deviceVars, shift, line, screenVars, outputs>>
Getc ==
  /\ pc = "getc" /\ kb = <<>> /\ com = <<>> /\ cons.rpos # cons.wpos
  /\ cons' = [cons EXCEPT !.rpos = Advance(@)]
  /\ taken' = taken + 1 /\ last' = cons.buf[cons.rpos].num
  /\ pc' = "edit" /\ c' = cons.buf[cons.rpos].c
  /\ UNCHANGED <<session, deviceVars, shift, line, screenVars, outputs>>

(* What readline does with the character: it echoes, then edits its line.  *)
Erases(ch) == ch \in {8, 127} /\ line # <<>>
Stores(ch) == ~Erases(ch) /\ ch >= Space /\ Len(line) < BUFLEN - 1
EchoErase_Keeps(ch) == UNCHANGED <<crt_buf, crt_pos>>
EchoErase(ch) == cga_putc(8)
Edit ==
  /\ pc = "edit"
  /\ \/ Erases(c) /\ EchoErase(c) /\ line' = Front(line) /\ pc' = "getc"
     \/ Stores(c) /\ cga_putc(c) /\ line' = Append(line, c) /\ pc' = "getc"
     \/ c \in {10, 13} /\ cga_putc(10) /\ line' = <<>> /\ pc' = "program"
     \/ c = 4 /\ line' = <<>> /\ pc' = "program" /\ UNCHANGED <<crt_buf, crt_pos>>
     \/ /\ ~Erases(c) /\ ~Stores(c) /\ c \notin {4, 10, 13}
        /\ pc' = "getc" /\ UNCHANGED <<line, crt_buf, crt_pos>>
  /\ c' = 0
  /\ UNCHANGED <<session, deviceVars, shift, cons, taken, last, tab, outputs>>

-----------------------------------------------------------------------------
Reader == PrintsTab \/ Readline \/ Poll \/ Getc \/ Edit

Next ==
  \/ \E k \in session.keys : Press(k) \/ Release(k)
  \/ \E ch \in session.chars : Serial(ch)
  \/ kbd_intr \/ serial_intr
  \/ \E ch \in session.prints : Prints(ch)
  \/ Reader

Spec == Init /\ [][Next]_vars

(* The reader runs again and again; the interrupts need not come at all.   *)
FairSpec == Spec /\ WF_vars(Reader)

-----------------------------------------------------------------------------
TypeOK ==
  /\ shift \subseteq {"SHIFT", "CTL", "CAPSLOCK", "E0ESC"}
  /\ cons.rpos \in 0 .. CONSBUFSIZE - 1 /\ cons.wpos \in 0 .. CONSBUFSIZE - 1
  /\ pc \in {"program", "getc", "edit"} /\ c \in 0 .. 255
  /\ Len(line) < BUFLEN
  /\ crt_pos \in Cells /\ tab \in 0 .. 5 /\ DOMAIN crt_buf = Cells

(* Characters come out of the input buffer in the order in which they went *)
(* in, each at most once, even when the writer overran the reader.         *)
InOrder == [][last' # last => last' > last]_vars

(* What an overrun loses are whole buffers: the characters that are neither *)
(* taken nor waiting are a multiple of CONSBUFSIZE, and none are lost as   *)
(* long as fewer than that wait.                                           *)
Waiting == (cons.wpos - cons.rpos) % CONSBUFSIZE
LossInLaps == (cons.n - taken - Waiting) % CONSBUFSIZE = 0

(* The inductive invariant behind both: the characters between rpos and    *)
(* wpos are the last ones that were put in, and the reader has none of     *)
(* them, however often the writer overran it.                              *)
Ahead(w, pos) == IF w >= pos THEN w - pos ELSE w - pos + CONSBUFSIZE
BufferInv ==
  /\ DOMAIN cons = {"buf", "rpos", "wpos", "n"}
  /\ DOMAIN cons.buf = 0 .. CONSBUFSIZE - 1
  /\ cons.rpos \in 0 .. CONSBUFSIZE - 1 /\ cons.wpos \in 0 .. CONSBUFSIZE - 1
  /\ cons.n \in Nat /\ taken \in Nat /\ last \in Nat
  /\ last <= cons.n - Ahead(cons.wpos, cons.rpos)
  /\ \A pos \in 0 .. CONSBUFSIZE - 1 :
       Ahead(cons.wpos, pos) \in 1 .. Ahead(cons.wpos, cons.rpos) =>
         cons.buf[pos].num = cons.n - Ahead(cons.wpos, pos) + 1
  /\ (cons.n - taken - Ahead(cons.wpos, cons.rpos)) % CONSBUFSIZE = 0

(* Once the scan codes are processed, shift says which modifiers are down  *)
(* and whether Caps Lock is on, and no escape is pending, however the      *)
(* codes of a key were spread over interrupts.                             *)
ModifiersMatch ==
  kb = <<>> =>
    /\ ("SHIFT" \in shift) = (42 \in held)
    /\ ("CTL" \in shift) = (29 + 256 \in held)
    /\ ("CAPSLOCK" \in shift) = caps
    /\ "E0ESC" \notin shift

(* What stands before the cursor is the line readline holds: echo, erase,  *)
(* wrap-around and scrolling agree with the editing of the buffer.         *)
EchoShowsLine ==
  /\ TypeOK
  /\ pc = "getc" /\ Len(line) <= CRT_SIZE - CRT_COLS =>
       /\ Len(line) <= crt_pos
       /\ \A j \in 1 .. Len(line) : crt_buf[crt_pos - Len(line) + j - 1] = line[j]

(* Input reaches the reader without any interrupt: cons_getc polls.        *)
InputArrives ==
  (kb # <<>> \/ com # <<>>) ~> (kb = <<>> /\ com = <<>> /\ cons.rpos = cons.wpos)
=============================================================================
