------------------------------ MODULE TextPrint ------------------------------
(***************************************************************************)
(* How text is put on pages: begin_print_impl(), paginate() and            *)
(* draw_page_impl() of text_print_manager.cpp.  The print system says how  *)
(* high a page is, the layout how high each line; then the print system    *)
(* asks for pages, in the order and as often as it likes.                  *)
(*                                                                         *)
(* Lines are counted from 0, as in the code; line n is Texts[.][n + 1].    *)
(***************************************************************************)
EXTENDS Naturals, Sequences

CONSTANTS
  Texts,        \* sequences of heights of lines
  PageHeights,
  MaxDraws      \* bound: pages asked for

ASSUME TextAssumption ==
  /\ Texts \subseteq Seq(Nat) /\ PageHeights \subseteq Nat \ {0} /\ MaxDraws \in Nat

VARIABLES
  laid,          \* the text and the height of a page
  firstLines,    \* pages: the first line of each page
  current_line,  \* where the iterator of the layout is
  drawn,         \* pages drawn, with the lines put on them
  asked          \* how many were asked for

textVars == <<laid, firstLines, current_line, drawn, asked>>

InitText ==
  /\ laid = [lines |-> <<>>, height |-> 0] /\ firstLines = <<>>
  /\ current_line = 0 /\ drawn = {} /\ asked = 0

Breaks_Bug(sum, h, height) == sum > height

\* Does a line of height h begin a new page?
Breaks(sum, h, height) == sum + h > height

\* One more line of height h: on the page, or the first of a new one.
WithLine(m, line, h, height) ==
  IF Breaks(m.sum, h, height)
  THEN [pages |-> Append(m.pages, line), sum |-> h]
  ELSE [m EXCEPT !.sum = @ + h]

paginate(lines, height) ==
  LET after[n \in 0..Len(lines)] ==
        IF n = 0 THEN [pages |-> <<0>>, sum |-> 0]
        ELSE WithLine(after[n - 1], n - 1, lines[n], height)
  IN after[Len(lines)].pages

begin_print ==
  /\ firstLines = <<>>
  /\ \E lines \in Texts, height \in PageHeights :
       /\ laid' = [lines |-> lines, height |-> height]
       /\ firstLines' = paginate(lines, height)
  /\ current_line' = 0
  /\ UNCHANGED <<drawn, asked>>

\* One past the last line of page n, counted from 0.
end_line(n) ==
  IF n = Len(firstLines) - 1 THEN Len(laid.lines) ELSE firstLines[n + 2]

\* The iterator only goes forward: for a page before it, it starts again.
From(start_line) == IF start_line < current_line THEN 0 ELSE current_line

\* A number that is no page draws nothing.
draw_page ==
  /\ firstLines # <<>> /\ asked < MaxDraws /\ asked' = asked + 1
  /\ \E n \in 0..Len(firstLines) :
       IF n >= Len(firstLines) THEN UNCHANGED <<current_line, drawn>>
       ELSE LET start_line == firstLines[n + 1]
                passed == {l \in 0..Len(laid.lines) : From(start_line) <= l /\ l < end_line(n)}
            IN /\ drawn' = drawn \cup {<<n, {l \in passed : l >= start_line}>>}
               /\ current_line' = IF passed = {} THEN From(start_line) ELSE end_line(n)
  /\ UNCHANGED <<laid, firstLines>>

NextText == begin_print \/ draw_page

SpecText == InitText /\ [][NextText]_textVars

----------------------------------------------------------------------------
(* Properties *)

\* One past the last line of the n-th page, and the lines of page n of the code.
Past(n) == IF n < Len(firstLines) THEN firstLines[n + 1] ELSE Len(laid.lines)
LinesOf(n) == {l \in 0..(Len(laid.lines) - 1) : firstLines[n + 1] <= l /\ l < Past(n + 1)}

\* Where each line begins in the layout, and where the last one ends.
Tops(lines) ==
  LET top[n \in 0..Len(lines)] == IF n = 0 THEN 0 ELSE top[n - 1] + lines[n]
  IN top

\* The pages hold every line once and in order, no more of them than fit, unless
\* it is one line higher than the page, and a page is begun only when it must
\* be (paginate()).
PagesFit ==
  firstLines # <<>> =>
    LET top == Tops(laid.lines)
    IN /\ firstLines[1] = 0
       /\ \A n \in 1..Len(firstLines) :
            /\ firstLines[n] <= Past(n)
            /\ \/ top[Past(n)] <= top[firstLines[n]] + laid.height
               \/ Past(n) = firstLines[n] + 1
            /\ n < Len(firstLines) =>
                 /\ Past(n) < Len(laid.lines)
                 /\ top[Past(n) + 1] > top[firstLines[n]] + laid.height

\* A page that is drawn has its own lines, all and no others, whatever pages
\* were drawn before it and in what order (draw_page_impl(): "can that happen?").
DrawnAsLaidOut == \A d \in drawn : d[2] = LinesOf(d[1])

\* Every line of the text is on one page that is drawn, and where it belongs.
TextPrinted == PagesFit /\ DrawnAsLaidOut

=============================================================================
