------------------------------- MODULE FaxPage -------------------------------
(***************************************************************************)
(* The data of one page: send_data() of efax/efax.c at one end of the line *)
(* and receive_data() with readfaxruns() at the other.  The sender puts a  *)
(* header on the page, halves its lines if the session asks for it, makes  *)
(* them as wide as the session has agreed, encrypts the runs and codes     *)
(* them; the receiver undoes that up to RTC.                               *)
(***************************************************************************)
EXTENDS RunLengths, FiniteSets

CONSTANTS
  PageSources,  \* pages: sequences of bitmap lines, those that have pixels
  HeaderRows,   \* the text of the header: HDRCHRH lines
  HDRSPCE,      \* 20: white lines put above the page
  HDRSTRT,      \* 4: the line the header begins on
  PageWidth,    \* pagewidth[session[WD]]
  Resolutions2, \* pairs <<local[VR], session[VR]>>
  Keystream,    \* the words encrypt() gives for the key, of the same key at both ends;
                \* for a line with more runs than that they come round
  RTCEOL,       \* 5
  MaxDamage     \* bound: faults of the line

HDRCHRH == Len(HeaderRows)

\* A run combined with n bits of a word; those above them stay as they are.
xor[n \in 0..ByteBits] ==
  [a \in Nat |-> [b \in Nat |->
     IF n = 0 THEN a ELSE 2 * xor[n - 1][a \div 2][b \div 2] + ((a + b) % 2)]]

ASSUME FaxPageAssumption ==
  /\ \A source \in PageSources : source \in Seq(Seq({0, 1}) \ {<<>>})
  /\ HeaderRows \in Seq(Seq({0, 1}))
  /\ \A vr \in Resolutions2 : vr \in Nat \X Nat
  /\ HDRSPCE \in Nat /\ HDRSTRT \in Nat /\ PageWidth \in Nat \ {0}
  /\ (HDRSTRT + HDRCHRH) % 2 = 0
  /\ RTCEOL \in Nat /\ RTCEOL > 1 /\ MaxDamage \in Nat
  /\ Keystream \in Seq(Nat) \ {<<>>}
  /\ \* a run stays one there are codes for
     \A n \in 0..PageWidth, k \in DOMAIN Keystream : xor[ByteBits][n][Keystream[k]] <= MAXRUNLEN

VARIABLES
  tx,     \* the sender: source, line, skip, last
  wire,   \* what is on the line: the codes of each line, without the EOL
  rx      \* the receiver: line, eolcnt, lines written, outcome

faxPageVars == <<tx, wire, rx>>

----------------------------------------------------------------------------
(* send_data() *)

Decimates(vr) == vr[1] > vr[2]

\* Lines that are laid in pairs one over the other: all of them, or those of the
\* header when the page is of low resolution.
Halved_Bug(vr, line) == Decimates(vr)

Halved(vr, line) == Decimates(vr) \/ (line < HDRSTRT + HDRCHRH /\ vr[1] = 0)

\* A line of the page: white above it, then from the file.
SourceLine(source, line) ==
  IF line < HDRSPCE THEN <<PageWidth>> ELSE bittorun(source[line - HDRSPCE + 1])

HasSource(source, line) == line < HDRSPCE + Len(source)

\* ... with the header over it.
PageLine(source, line) ==
  IF line \in HDRSTRT..(HDRSTRT + HDRCHRH - 1)
  THEN runor(SourceLine(source, line), bittorun(HeaderRows[line - HDRSTRT + 1]))
  ELSE SourceLine(source, line)

\* Each run is combined with the low byte of a word of the keystream, which
\* begins anew with every line.
Word(i) == Keystream[((i - 1) % Len(Keystream)) + 1]

encrypt(runs) == [i \in DOMAIN runs |-> xor[ByteBits][runs[i]][Word(i)]]

\* Made as wide as the session has it.
ToWidth(runs) ==
  IF Width(runs) = PageWidth THEN runs ELSE xpad(runs, PageWidth - Width(runs))

\* A line without pixels is not sent.
Sends(runs) ==
  wire' = IF Width(runs) = 0 THEN wire
          ELSE Append(wire, runtocode(encrypt(ToWidth(runs))))

InitFaxPage == tx = [pc |-> "start"] /\ wire = <<>> /\ rx = [pc |-> "wait"]

\* FILL and an EOL come first.
PageBegins ==
  /\ tx.pc = "start"
  /\ \E source \in PageSources, vr \in Resolutions2 :
       tx' = [pc |-> "line", source |-> source, vr |-> vr, line |-> 0, skip |-> 0,
              last |-> <<>>, damage |-> 0]
  /\ wire' = <<<<>>>>
  /\ UNCHANGED rx

SendsLine ==
  /\ tx.pc = "line" /\ HasSource(tx.source, tx.line)
  /\ LET runs == PageLine(tx.source, tx.line)
         halved == Halved(tx.vr, tx.line)
     IN \/ /\ halved /\ tx.skip % 2 = 0        \* kept for the next
           /\ tx' = [tx EXCEPT !.line = @ + 1, !.skip = @ + 1, !.last = runs]
           /\ UNCHANGED wire
        \/ /\ halved /\ tx.skip % 2 = 1
           /\ tx' = [tx EXCEPT !.line = @ + 1, !.skip = @ + 1]
           /\ Sends(runor(runs, tx.last))
        \/ /\ ~halved
           /\ tx' = [tx EXCEPT !.line = @ + 1]
           /\ Sends(runs)
  /\ UNCHANGED rx

\* RTC: EOLs with nothing before them.
SendsRTC ==
  /\ tx.pc = "line" /\ ~HasSource(tx.source, tx.line)
  /\ wire' = wire \o [n \in 1..RTCEOL |-> <<>>]
  /\ tx' = [tx EXCEPT !.pc = "sent"]
  /\ rx' = [pc |-> "data", line |-> 0, eolcnt |-> 0, lines |-> <<>>]

----------------------------------------------------------------------------
(* The line *)

\* An EOL is not recognised: two lines are read as one.
LosesEOL ==
  /\ tx.pc = "sent" /\ rx.line = 0 /\ tx.damage < MaxDamage
  /\ \E n \in 2..(Len(wire) - RTCEOL - 1) :
       wire' = SubSeq(wire, 1, n - 1) \o <<wire[n] \o wire[n + 1]>>
                 \o SubSeq(wire, n + 2, Len(wire))
  /\ tx' = [tx EXCEPT !.damage = @ + 1]
  /\ UNCHANGED rx

\* The carrier goes before the page is over.
LosesCarrier ==
  /\ tx.pc = "sent" /\ rx.line = 0 /\ tx.damage < MaxDamage
  /\ \E n \in 1..(Len(wire) - 1) : wire' = SubSeq(wire, 1, n)
  /\ tx' = [tx EXCEPT !.damage = @ + 1]
  /\ UNCHANGED rx

----------------------------------------------------------------------------
(* receive_data() *)

\* readfaxruns(): lines without pixels are counted.
eolcnt(runs) == IF Width(runs) > 0 THEN 0 ELSE rx.eolcnt + 1

\* The first line is what comes before the first EOL.
Kept(runs) == Width(runs) > 0 /\ rx.line > 0

ReceivesLine ==
  /\ rx.pc = "data" /\ wire # <<>>
  /\ LET runs == coderuns(Head(wire))
         ends == eolcnt(runs) >= RTCEOL
     IN rx' = [rx EXCEPT !.eolcnt = eolcnt(runs), !.line = @ + 1,
                         !.pc = IF ends THEN "rtc" ELSE "data",
                         !.lines = IF ~ends /\ Kept(runs) THEN Append(@, encrypt(runs)) ELSE @]
  /\ wire' = Tail(wire)
  /\ UNCHANGED tx

\* DLE-ETX without RTC.
DataEnds ==
  /\ rx.pc = "data" /\ wire = <<>>
  /\ rx' = [rx EXCEPT !.pc = "cut"]
  /\ UNCHANGED <<tx, wire>>

NextFaxPage ==
  PageBegins \/ SendsLine \/ SendsRTC \/ LosesEOL \/ LosesCarrier \/ ReceivesLine \/ DataEnds

SpecFaxPage == InitFaxPage /\ [][NextFaxPage]_faxPageVars

----------------------------------------------------------------------------
(* Properties *)

\* What source line n, counted from 0, is as a picture: white or the file, and
\* the header over it.
Ink2(source, n, x) ==
  \/ n >= HDRSPCE /\ LET l == source[n - HDRSPCE + 1] IN x \in DOMAIN l /\ l[x] = 1
  \/ n \in HDRSTRT..(HDRSTRT + HDRCHRH - 1)
       /\ LET h == HeaderRows[n - HDRSTRT + 1] IN x \in DOMAIN h /\ h[x] = 1

Picture(source, lines) ==
  [x \in 1..PageWidth |-> IF \E n \in lines : Ink2(source, n, x) THEN 1 ELSE 0]

\* The source lines that make up line k of the fax, counted from 1.
Sources(vr, k) ==
  LET h == (HDRSTRT + HDRCHRH) \div 2
  IN CASE Decimates(vr) -> {2 * k - 2, 2 * k - 1}
       [] ~Decimates(vr) /\ vr[1] = 0 /\ k <= h -> {2 * k - 2, 2 * k - 1}
       [] ~Decimates(vr) /\ vr[1] = 0 /\ k > h -> {k + h - 1}
       [] OTHER -> {k - 1}

\* The lines of the fax: those whose source lines the page has.
Expected(source, vr) ==
  {k \in 1..(HDRSPCE + Len(source)) : \A n \in Sources(vr, k) : HasSource(source, n)}

\* Line k of the fax as it is sent, before it is encrypted.
SentLine(source, vr, k) ==
  LET first == Min(Sources(vr, k))
      last  == Max(Sources(vr, k))
  IN ToWidth(IF first = last THEN PageLine(source, last)
             ELSE runor(PageLine(source, last), PageLine(source, first)))

\* No line of the page is encrypted into one without pixels, which the receiver
\* would take for a part of RTC.  It is a matter of the runs, not of the picture:
\* a line laid over another may have empty runs.
NoneVanishes(source, vr) ==
  \A k \in Expected(source, vr) : Width(encrypt(SentLine(source, vr, k))) > 0

\* Over a good line the page that is written is the page that was sent, with its
\* header, line for line: padding, halving, encryption and coding at one end and
\* their inverses at the other agree on where a line begins and ends.
PageArrives ==
  rx.pc = "rtc" /\ tx.damage = 0 /\ NoneVanishes(tx.source, tx.vr) =>
    /\ Len(rx.lines) = Cardinality(Expected(tx.source, tx.vr))
    /\ \A k \in Expected(tx.source, tx.vr) :
         Pixels(rx.lines[k]) = Picture(tx.source, Sources(tx.vr, k))

\* A page is taken to be whole only if its end has come: a carrier that goes
\* before that is noticed (receive_data(): "DLE-ETX without RTC"), and no more
\* lines are written than were sent.
CutIsNoticed ==
  /\ rx.pc = "cut" => tx.damage > 0
  /\ rx.pc = "rtc" /\ NoneVanishes(tx.source, tx.vr)
       => Len(rx.lines) >= Cardinality(Expected(tx.source, tx.vr)) - tx.damage
  /\ rx.pc \in {"rtc", "cut"} => Len(rx.lines) <= Cardinality(Expected(tx.source, tx.vr))

\* A page arrives as it was sent, or it is known that it did not.
PageTrue == PageArrives /\ CutIsNoticed

=============================================================================
