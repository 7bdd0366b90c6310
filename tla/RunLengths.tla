----------------------------- MODULE RunLengths -----------------------------
(***************************************************************************)
(* Scan lines of efax/efaxlib.c as run lengths, and what is done to them.  *)
(* A line is a sequence of runs, white and black in turn and white first;  *)
(* a bitmap line is a sequence of 0 (white) and 1 (black).                 *)
(*                                                                         *)
(* What each operator should do to the picture is in the modules that use  *)
(* it; names that end in _Bug are seeded faults.                           *)
(***************************************************************************)
EXTENDS Integers, Sequences, FiniteSetsExt, SequencesExt

CONSTANTS
  ByteBits,   \* 8
  MakeUp,     \* 64: runs from this length on need a make-up code
  MAXRUNLEN   \* 2560 + 63: the longest run there are codes for

ASSUME RunLengthsAssumption ==
  /\ ByteBits \in Nat \ {0} /\ MakeUp \in Nat \ {0}
  /\ MAXRUNLEN \in Nat /\ MAXRUNLEN % MakeUp = MakeUp - 1

Width(runs) == FoldLeft(+, 0, runs)
WidthTo(runs, n) == Width(SubSeq(runs, 1, n))

Colour(i) == (i + 1) % 2
Pixels(runs) == FlattenSeq([i \in DOMAIN runs |-> [j \in 1..runs[i] |-> Colour(i)]])

xpadOdd_Bug(runs, pad) ==
  IF pad >= 0 THEN Append(runs, pad)
  ELSE LET left == [n \in 0..Len(runs) |-> pad + Width(runs) - WidthTo(runs, n)]
           cut  == {n \in 0..Len(runs) : left[n] >= 0}
           n    == IF cut = {} THEN 0 ELSE Max(cut)
       IN Append(SubSeq(runs, 1, n), IF cut = {} THEN 0 ELSE left[n])

\* Pad with white on the right, or cut off as many pixels.
xpad(runs, pad) ==
  IF pad >= 0
  THEN IF Len(runs) % 2 = 1 THEN Append(Front(runs), Last(runs) + pad) ELSE Append(runs, pad)
  ELSE LET left == [n \in 0..Len(runs) |-> pad + Width(runs) - WidthTo(runs, n)]
           cut  == {n \in 0..Len(runs) : left[n] >= 0}
           n    == IF cut = {} THEN 0 ELSE Max(cut)
       IN Append(SubSeq(runs, 1, n), IF cut = {} THEN 0 ELSE left[n])

\* Shift right by s pixels, or left: the runs shifted out become empty.
xshift(runs, s) ==
  IF s >= 0 THEN <<runs[1] + s>> \o Tail(runs)
  ELSE LET enough == {n \in DOMAIN runs : s + WidthTo(runs, n) >= 0}
           k == IF enough = {} THEN Len(runs) ELSE Min(enough)
       IN [n \in DOMAIN runs |-> IF n < k THEN 0
                                 ELSE IF n = k THEN s + WidthTo(runs, k) ELSE runs[n]]

\* Scale by xs / 256.  Ends of runs are rounded, not the runs.
xscale(runs, xs) ==
  LET End(n) == (WidthTo(runs, n) * xs + 128) \div 256
  IN [n \in DOMAIN runs |-> End(n) - End(n - 1)]

\* Swap the colours.
xinvert(runs) == IF runs[1] = 0 THEN Tail(runs) ELSE <<0>> \o runs

\* A run of colour col goes to the line c.
PutRun(c, col, len) ==
  IF Colour(Len(c)) = col THEN Append(Front(c), Last(c) + len) ELSE Append(c, len)

\* The runs of a bitmap line: a pixel goes on with a run or begins one.
bittorun(bits) == FoldLeft(LAMBDA runs, bit : PutRun(runs, bit, 1), <<0>>, bits)

\* Lay one line over another: the shorter of the two runs at hand is put, black
\* if either is; when one line has ended the other goes on alone.
runor(a, b) ==
  LET Step(m, k) ==
        CASE m.a # <<>> /\ m.b # <<>> ->
               LET col == IF Colour(m.i) = 1 \/ Colour(m.j) = 1 THEN 1 ELSE 0
                   x == Head(m.a)  y == Head(m.b)
               IN IF x <= y THEN [m EXCEPT !.c = PutRun(@, col, x), !.a = Tail(@), !.i = @ + 1,
                                           !.b = <<y - x>> \o Tail(@)]
                  ELSE [m EXCEPT !.c = PutRun(@, col, y), !.b = Tail(@), !.j = @ + 1,
                                 !.a = <<x - y>> \o Tail(@)]
          [] m.a # <<>> /\ m.b = <<>> ->
               [m EXCEPT !.c = PutRun(@, Colour(m.i), Head(m.a)), !.a = Tail(@), !.i = @ + 1]
          [] m.a = <<>> /\ m.b # <<>> ->
               [m EXCEPT !.c = PutRun(@, Colour(m.j), Head(m.b)), !.b = Tail(@), !.j = @ + 1]
          [] OTHER -> m
  IN FoldLeft(Step, [a |-> a, b |-> b, i |-> 1, j |-> 1, c |-> <<0>>],
              [k \in 1..(Len(a) + Len(b)) |-> k]).c

\* The bitmap of a line; its last run fills up the last byte.
runtobit(runs) ==
  LET p == Pixels(runs)
      fill == (-Len(p)) % ByteBits
  IN p \o [n \in 1..fill |-> Colour(Len(runs))]

----------------------------------------------------------------------------
(* T.4.  A code stands for itself; numbers are run lengths plus one, as in   *)
(* the decoding tables, so that none is 0, and EOLCODE is -1.               *)

EOLCODE == -1

\* A make-up code for what is more than 63, and a terminating code; a run there
\* are no codes for is cut short.
runtocode(runs) ==
  LET len(n) == IF runs[n] > MAXRUNLEN THEN MAXRUNLEN ELSE runs[n]
  IN FlattenSeq([n \in DOMAIN runs |->
       IF len(n) >= MakeUp THEN <<(len(n) \div MakeUp) * MakeUp + 1, (len(n) % MakeUp) + 1>>
       ELSE <<len(n) + 1>>])

\* readruns(), readfaxruns(): the runs of the codes before an EOL.
coderuns(codes) ==
  LET Step(m, c) == IF m.up > 0 THEN [runs |-> Append(m.runs, m.up + c - 2), up |-> 0]
                    ELSE IF c > MakeUp THEN [m EXCEPT !.up = c]
                    ELSE [m EXCEPT !.runs = Append(@, c - 1)]
      m == FoldLeft(Step, [runs |-> <<>>, up |-> 0], codes)
  IN IF m.up > 0 THEN Append(m.runs, m.up - 1) ELSE m.runs

=============================================================================
