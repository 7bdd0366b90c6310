------------------------------- MODULE PageProofs -------------------------------
(***************************************************************************)
(* What efix writes, for any files, overlays, sizes, scales, shifts and    *)
(* formats; and that a page arrives at the other end of the line as it was *)
(* sent, for any page, header, session and key.                            *)
(*                                                                         *)
(* The pages of efix have the height they were to have, and their headers  *)
(* say so.  The argument is that main() counts the lines of the page at    *)
(* hand as writeline() and nextopage() do (PagesCounted), and that no line *)
(* is copied to more rows than are left, nor to fewer than none            *)
(* (RowsGrow).                                                             *)
(*                                                                         *)
(* Each row of a page shows the pixels of the line of the input that       *)
(* belongs there, scaled, shifted and overlaid, or is blank.  The argument *)
(* is what each operator on run lengths draws (Draws), that the codes of a *)
(* line are read back as its runs (CodesDecode), and that while a page is  *)
(* copied the lines read and the rows written keep step (LineAtHand).      *)
(*                                                                         *)
(* On the line between two efax the same lemmas say what a line of the fax *)
(* shows (SentShows); the sender is in step with the lines of the fax      *)
(* (Sending), and what the receiver has read of what is left of them       *)
(* (Whole) it has decoded, or taken for a part of RTC (ReadOf).            *)
(***************************************************************************)
EXTENDS Efix, FaxPage, SequenceLemmas

(* The size of the pages that efix writes: what is written is counted.      *)

OutPage(X) == [header : Nat, lines : Seq(X), closed : BOOLEAN]
Outs(X) == [pages : Seq(OutPage(X)), h : Nat]

\* Where n is o with some lines more on its last page.
Adds(n, o, no, format) ==
  /\ \E Y : n \in Outs(Y)
  /\ Len(n.pages) = Len(o.pages)
  /\ \A p \in 1..Len(o.pages) :
       /\ n.pages[p].header = o.pages[p].header /\ n.pages[p].closed = o.pages[p].closed
       /\ Len(n.pages[p].lines) = Len(o.pages[p].lines) + (IF p = Len(o.pages) THEN no ELSE 0)
  /\ format \in Restarted => n.h = o.h + no

LEMMA RestartedAreCounted == Restarted \subseteq Counted
BY DEF Restarted, Counted

LEMMA MorePages ==
  ASSUME NEW X, NEW Y, X \subseteq Y
  PROVE  Seq(OutPage(X)) \subseteq Seq(OutPage(Y)) /\ Seq(X) \subseteq Seq(Y)
<1>1. Seq(X) \subseteq Seq(Y)
  <2>1. ASSUME NEW s \in Seq(X) PROVE s \in Seq(Y)
    <3>1. s \in [1..Len(s) -> Y] /\ Len(s) \in Nat
      BY ElementOfSeq
    <3> QED BY <3>1
  <2> QED BY <2>1
<1>2. OutPage(X) \subseteq OutPage(Y)
  BY <1>1 DEF OutPage
<1>3. ASSUME NEW s \in Seq(OutPage(X)) PROVE s \in Seq(OutPage(Y))
  <2>1. Len(s) \in Nat /\ s \in [1..Len(s) -> OutPage(X)]
    OBVIOUS
  <2>2. s \in [1..Len(s) -> OutPage(Y)]
    BY <1>2, <2>1
  <2> QED BY <2>1, <2>2
<1> QED BY <1>1, <1>3

LEMMA PageWith ==
  ASSUME NEW X, NEW q \in OutPage(X)
  PROVE  \A l : [q EXCEPT !.lines = l] = [header |-> q.header, lines |-> l, closed |-> q.closed]
<1>1. PICK A, B : A = Nat /\ B = Seq(X)
  OBVIOUS
<1>2. q \in [header : A, lines : B, closed : BOOLEAN]
  BY <1>1 DEF OutPage
<1> QED BY <1>2

LEMMA WriteAdds ==
  ASSUME NEW X, NEW o \in Outs(X), NEW format, NEW runs, NEW no \in Nat, Len(o.pages) > 0
  PROVE  Adds(writeline(o, format, runs, no), o, no, format)
<1>0. o.pages \in Seq(OutPage(X)) /\ o.h \in Nat /\ o.pages # <<>> /\ Len(o.pages) \in Nat \ {0}
  BY EmptySeq DEF Outs
<1>1. CASE no = 0
  <2>1. writeline(o, format, runs, no) = o
    BY <1>1 DEF writeline
  <2>2. \A p \in 1..Len(o.pages) : Len(o.pages[p].lines) \in Nat
    <3>1. \A p \in 1..Len(o.pages) : o.pages[p] \in OutPage(X)
      BY <1>0, ElementOfSeq
    <3> QED BY <3>1, LenProperties DEF OutPage
  <2> QED BY <1>0, <1>1, <2>1, <2>2 DEF Adds
<1>2. CASE no > 0
  <2>1. PICK w : w = LineInFile(format, runs)
    OBVIOUS
  <2>2. PICK L : L = Len(o.pages)
    OBVIOUS
  <2> DEFINE Y == X \cup {w}
             more == [i \in 1..no |-> w]
             page == [o.pages[L] EXCEPT !.lines = @ \o more]
             pages == [o.pages EXCEPT ![L] = page]
             n == [pages |-> pages, h |-> IF format \in Counted THEN o.h + no ELSE o.h]
  <2>3. writeline(o, format, runs, no) = n
    BY <1>0, <1>2, <2>1, <2>2 DEF writeline
  <2>4. L \in 1..L /\ o.pages \in Seq(OutPage(Y)) /\ o.pages[L] \in OutPage(X)
    BY <1>0, <2>2, MorePages, ElementOfSeq
  <2>5. o.pages[L].lines \in Seq(Y) /\ more \in Seq(Y) /\ Len(more) = no
    <3>1. Seq(X) \subseteq Seq(Y)
      BY MorePages
    <3>2. o.pages[L].lines \in Seq(X)
      BY <2>4 DEF OutPage
    <3> QED BY <3>1, <3>2
  <2>6. page \in OutPage(Y) /\ page.header = o.pages[L].header /\ page.closed = o.pages[L].closed
        /\ Len(page.lines) = Len(o.pages[L].lines) + no
    <3>1. (o.pages[L].lines \o more) \in Seq(Y)
          /\ Len(o.pages[L].lines \o more) = Len(o.pages[L].lines) + Len(more)
      <4> HIDE DEF more, Y
      <4> QED BY <2>5, ConcatProperties
    <3>2. page = [header |-> o.pages[L].header, lines |-> o.pages[L].lines \o more,
                  closed |-> o.pages[L].closed]
      <4> HIDE DEF more, Y
      <4> QED BY <2>4, PageWith
    <3> HIDE DEF more, Y, page
    <3> QED BY <2>4, <2>5, <3>1, <3>2 DEF OutPage
  <2> HIDE DEF page
  <2>7. pages \in Seq(OutPage(Y)) /\ Len(pages) = L /\ pages[L] = page
        /\ \A p \in 1..L : p # L => pages[p] = o.pages[p]
    <3> HIDE DEF Y
    <3>1. o.pages \in [1..L -> OutPage(Y)] /\ L \in Nat
      BY <1>0, <2>2, <2>4
    <3>2. pages \in [1..L -> OutPage(Y)]
      BY <2>6, <3>1
    <3> QED BY <2>4, <3>1, <3>2
  <2> HIDE DEF pages, Y
  <2>8. n \in Outs(Y)
    BY <1>0, <2>7 DEF Outs
  <2>9. ASSUME NEW p \in 1..L
        PROVE  /\ n.pages[p].header = o.pages[p].header /\ n.pages[p].closed = o.pages[p].closed
               /\ Len(n.pages[p].lines) = Len(o.pages[p].lines) + (IF p = L THEN no ELSE 0)
    <3>1. CASE p = L
      BY <2>6, <2>7, <3>1
    <3>2. CASE p # L
      <4>1. o.pages[p] \in OutPage(X)
        BY <1>0, <2>2, ElementOfSeq
      <4>2. Len(o.pages[p].lines) \in Nat
        BY <4>1, LenProperties DEF OutPage
      <4> QED BY <2>7, <3>2, <4>2
    <3> QED BY <3>1, <3>2
  <2>10. format \in Restarted => n.h = o.h + no
    BY RestartedAreCounted
  <2>11. Len(n.pages) = L
    BY <2>7
  <2> HIDE DEF n
  <2> QED BY <2>2, <2>3, <2>8, <2>9, <2>10, <2>11 DEF Adds
<1> QED BY <1>1, <1>2

\* Where n is o with its last page closed.
Closes(n, o, format) ==
  /\ \E Y : n \in Outs(Y)
  /\ n.h = o.h /\ Len(n.pages) = Len(o.pages)
  /\ \A p \in 1..Len(o.pages) :
       /\ n.pages[p].lines = o.pages[p].lines
       /\ n.pages[p].closed = (o.pages[p].closed \/ p = Len(o.pages))
       /\ n.pages[p].header = IF p = Len(o.pages) /\ format \in Headed THEN o.h ELSE o.pages[p].header

LEMMA CloseCloses ==
  ASSUME NEW X, NEW o \in Outs(X), NEW format
  PROVE  Closes(CloseOpage(o, format), o, format) /\ CloseOpage(o, format) \in Outs(X)
<1>0. o.pages \in Seq(OutPage(X)) /\ o.h \in Nat /\ Len(o.pages) \in Nat
  BY LenProperties DEF Outs
<1>00. \A p \in 1..Len(o.pages) : o.pages[p] \in OutPage(X)
  BY <1>0, ElementOfSeq
<1>1. CASE o.pages = <<>>
  <2>1. CloseOpage(o, format) = o /\ 1..Len(o.pages) = {}
    BY <1>1 DEF CloseOpage
  <2> QED BY <2>1 DEF Closes
<1>2. CASE o.pages # <<>>
  <2>1. PICK L : L = Len(o.pages) /\ L \in 1..L
    BY <1>0, <1>2, EmptySeq
  <2> DEFINE page == [header |-> IF format \in Headed THEN o.h ELSE o.pages[L].header,
                      lines |-> o.pages[L].lines, closed |-> TRUE]
             pages == [o.pages EXCEPT ![L] = page]
             n == [o EXCEPT !.pages = pages]
  <2>2. CloseOpage(o, format) = n
    BY <1>2, <2>1 DEF CloseOpage
  <2>3. o.pages[L] \in OutPage(X)
    BY <1>00, <2>1
  <2>4. page \in OutPage(X) /\ page.lines = o.pages[L].lines /\ page.closed = TRUE
        /\ page.header = IF format \in Headed THEN o.h ELSE o.pages[L].header
    BY <1>0, <2>3 DEF OutPage
  <2> HIDE DEF page
  <2>5. pages \in Seq(OutPage(X)) /\ Len(pages) = L /\ pages[L] = page
        /\ \A p \in 1..L : p # L => pages[p] = o.pages[p]
    <3>1. o.pages \in [1..L -> OutPage(X)] /\ L \in Nat
      BY <1>0, <2>1
    <3>2. pages \in [1..L -> OutPage(X)]
      BY <2>4, <3>1
    <3> QED BY <2>1, <3>1, <3>2
  <2> HIDE DEF pages
  <2>6. n \in Outs(X) /\ n.pages = pages /\ n.h = o.h
    BY <1>0, <2>5 DEF Outs
  <2> HIDE DEF n
  <2>7. ASSUME NEW p \in 1..L
        PROVE  /\ n.pages[p].lines = o.pages[p].lines
               /\ n.pages[p].closed = (o.pages[p].closed \/ p = L)
               /\ n.pages[p].header = IF p = L /\ format \in Headed THEN o.h ELSE o.pages[p].header
    <3>1. CASE p = L
      <4>1. n.pages[p] = page
        BY <2>5, <2>6, <3>1
      <4>2. n.pages[p].closed = TRUE
        BY <2>4, <4>1
      <4> QED BY <2>4, <3>1, <4>1, <4>2
    <3>2. CASE p # L
      <4>1. n.pages[p] = o.pages[p]
        BY <2>5, <2>6, <3>2
      <4>2. o.pages[p].closed \in BOOLEAN
        BY <1>00, <2>1 DEF OutPage
      <4> QED BY <3>2, <4>1, <4>2
    <3> QED BY <3>1, <3>2
  <2>8. Len(n.pages) = L /\ n.h = o.h
    BY <2>5, <2>6
  <2> HIDE DEF n
  <2> QED BY <2>1, <2>2, <2>6, <2>7, <2>8 DEF Closes
<1> QED BY <1>1, <1>2

\* What is read of a sequence from its beginning.
LEMMA FirstPart ==
  ASSUME NEW X, NEW s \in Seq(X), NEW n \in 0..Len(s)
  PROVE  SubSeq(s, 1, n) \in Seq(X) /\ Len(SubSeq(s, 1, n)) = n /\ \A i \in 1..n : SubSeq(s, 1, n)[i] = s[i]
<1>1. n \in Nat /\ Len(s) \in Nat /\ n <= Len(s)
  OBVIOUS
<1>2. \A i \in 1..n : s[i] \in X
  BY <1>1, ElementOfSeq
<1>3. SubSeq(s, 1, n) \in Seq(X) /\ Len(SubSeq(s, 1, n)) = n
  BY <1>1, <1>2, SubSeqProperties
<1>4. \A i \in 1..n : SubSeq(s, 1, n)[i] = s[i]
  BY <1>1, <1>2
<1> QED BY <1>3, <1>4

\* The pages of the input are pages of the files.
LEMMA FilesGivePages ==
  ASSUME NEW j \in EfixJobs
  PROVE  newIFILE(j.files) \in Seq(PagesIn(j.files))
<1>1. PICK P : P = PagesIn(j.files)
  OBVIOUS
<1>2. PICK F : F = InFile(j.files) /\ \A f \in F : f.pages \in Seq(P) /\ f.readable \in Nat
  <2>1. PICK A : A = Seq(P)
    OBVIOUS
  <2>2. InFile(j.files) = [pages : A, readable : Nat]
    BY <1>1, <2>1 DEF InFile
  <2>3. \A f \in [pages : A, readable : Nat] : f.pages \in A /\ f.readable \in Nat
    OBVIOUS
  <2> QED BY <2>1, <2>2, <2>3
<1>3. PICK files \in Seq(F) : files = j.files
  BY <1>2, EfixAssumption
<1>4. PICK N \in Nat : N = Len(files) /\ DOMAIN files = 1..N
  BY <1>3
<1>5. \A n \in 1..N : files[n].pages \in Seq(P) /\ files[n].readable \in 0..Len(files[n].pages)
  <2>1. ASSUME NEW n \in 1..N
        PROVE  files[n].pages \in Seq(P) /\ files[n].readable \in 0..Len(files[n].pages)
    <3>1. files[n] \in F
      BY <1>3, <1>4, ElementOfSeq
    <3>2. files[n].pages \in Seq(P) /\ files[n].readable \in Nat
      BY <1>2, <3>1
    <3>3. files[n].readable <= Len(files[n].pages)
      BY <1>3, <1>4, EfixAssumption
    <3>4. Len(files[n].pages) \in Nat
      BY <3>2, LenProperties
    <3> QED BY <3>2, <3>3, <3>4
  <2> QED BY <2>1
<1> DEFINE bad == {n \in DOMAIN files : files[n].readable < Len(files[n].pages)}
           good == IF bad = {} THEN files ELSE SubSeq(files, 1, Min(bad))
<1>6. good \in Seq(F) /\ Len(good) \in 0..N /\ \A n \in 1..Len(good) : good[n] = files[n]
  <2>1. CASE bad = {}
    <3>1. good = files
      BY <2>1
    <3> HIDE DEF good, bad
    <3> QED BY <1>3, <1>4, <3>1
  <2>2. CASE bad # {}
    <3>1. bad \subseteq 1..N /\ bad \subseteq Nat
      BY <1>4
    <3>2. PICK m \in bad : \A k \in bad : m <= k
      <4> HIDE DEF bad
      <4> QED BY <2>2, <3>1, LeastNumber
    <3>3. Min(bad) \in bad
      <4> HIDE DEF bad
      <4> QED BY <3>2 DEF Min
    <3>4. PICK k \in 0..Len(files) : k = Min(bad)
      <4>1. PICK b : b = Min(bad)
        OBVIOUS
      <4>2. b \in 1..N
        BY <3>1, <3>3, <4>1
      <4> HIDE DEF bad
      <4> QED BY <1>4, <4>1, <4>2
    <3>5. good = SubSeq(files, 1, k)
      BY <2>2, <3>4
    <3> HIDE DEF good, bad
    <3> QED BY <1>3, <1>4, <3>4, <3>5, FirstPart
  <2> QED BY <2>1, <2>2
<1> DEFINE parts == [n \in DOMAIN good |-> SubSeq(good[n].pages, 1, good[n].readable)]
           all == FlattenSeq(parts)
<1>7. all \in Seq(P)
  <2> HIDE DEF good
  <2>1. PICK M \in Nat : M = Len(good) /\ M <= N
    BY <1>4, <1>6
  <2>2. DOMAIN good = 1..M
    <3>1. DOMAIN good = 1..Len(good)
      BY <1>6, ElementOfSeq
    <3> QED BY <2>1, <3>1
  <2>3. \A n \in 1..M : SubSeq(good[n].pages, 1, good[n].readable) \in Seq(P)
    <3>1. ASSUME NEW n \in 1..M PROVE SubSeq(good[n].pages, 1, good[n].readable) \in Seq(P)
      <4>1. n \in 1..N /\ good[n] = files[n]
        BY <1>4, <1>6, <2>1
      <4>2. PICK q \in Seq(P) : q = good[n].pages
        BY <1>5, <4>1
      <4>3. PICK r \in 0..Len(q) : r = good[n].readable
        BY <1>5, <4>1, <4>2
      <4>4. SubSeq(q, 1, r) \in Seq(P)
        BY <4>2, <4>3, FirstPart
      <4> QED BY <4>2, <4>3, <4>4
    <3> QED BY <3>1
  <2>4. parts \in [1..M -> Seq(P)]
    BY <2>2, <2>3
  <2> HIDE DEF parts
  <2> QED BY <2>1, <2>4, FlattenedType
<1>8. newIFILE(j.files) = SubSeq(all, 1, IF Len(all) > MAXPAGE THEN MAXPAGE ELSE Len(all))
  BY <1>3 DEF newIFILE
<1>9. (IF Len(all) > MAXPAGE THEN MAXPAGE ELSE Len(all)) \in 0..Len(all)
  <2>1. PICK k \in Nat : k = Len(all)
    <3> HIDE DEF all
    <3> QED BY <1>7, LenProperties
  <2> HIDE DEF all
  <2> QED BY <2>1, EfixAssumption
<1> HIDE DEF all
<1>10. PICK k \in 0..Len(all) : k = IF Len(all) > MAXPAGE THEN MAXPAGE ELSE Len(all)
  BY <1>9
<1> QED BY <1>1, <1>7, <1>8, <1>10, FirstPart

\* Where n is o with its last page closed and an empty page after it.
BeginsPage(n, o, format) ==
  /\ \E Y : n \in Outs(Y)
  /\ Len(n.pages) = Len(o.pages) + 1
  /\ \A p \in 1..Len(o.pages) :
       /\ n.pages[p].lines = o.pages[p].lines
       /\ n.pages[p].closed = (o.pages[p].closed \/ p = Len(o.pages))
       /\ n.pages[p].header = IF p = Len(o.pages) /\ format \in Headed THEN o.h ELSE o.pages[p].header
  /\ Len(n.pages[Len(o.pages) + 1].lines) = 0 /\ n.pages[Len(o.pages) + 1].closed = FALSE
  /\ format \in Restarted => n.h = 0

LEMMA NextBegins ==
  ASSUME NEW X, NEW o \in Outs(X), NEW format
  PROVE  BeginsPage(nextopage(o, format), o, format)
<1>1. PICK c \in Outs(X) : c = CloseOpage(o, format) /\ Closes(c, o, format)
  BY CloseCloses
<1>2. PICK L \in Nat : L = Len(o.pages) /\ L = Len(c.pages)
  <2>1. o.pages \in Seq(OutPage(X)) /\ Len(o.pages) \in Nat
    BY LenProperties DEF Outs
  <2> QED BY <1>1, <2>1 DEF Closes
<1>3. c.pages \in Seq(OutPage(X)) /\ o.h \in Nat
  BY DEF Outs
<1> DEFINE page == [header |-> o.h, lines |-> <<>>, closed |-> FALSE]
           pages == Append(c.pages, page)
           n == [pages |-> pages, h |-> IF format \in Restarted THEN 0 ELSE o.h]
<1>4. nextopage(o, format) = n
  BY <1>1 DEF nextopage
<1>5. page \in OutPage(X) /\ Len(page.lines) = 0 /\ page.closed = FALSE
  BY <1>3 DEF OutPage
<1> HIDE DEF page
<1>6. /\ pages \in Seq(OutPage(X)) /\ Len(pages) = L + 1 /\ pages[L + 1] = page
      /\ \A p \in 1..L : pages[p] = c.pages[p]
  BY <1>2, <1>3, <1>5, AppendProperties
<1> HIDE DEF pages
<1>7. n \in Outs(X)
  BY <1>3, <1>6 DEF Outs
<1>8. ASSUME NEW p \in 1..L
      PROVE  /\ n.pages[p].lines = o.pages[p].lines
             /\ n.pages[p].closed = (o.pages[p].closed \/ p = L)
             /\ n.pages[p].header = IF p = L /\ format \in Headed THEN o.h ELSE o.pages[p].header
  <2>1. n.pages[p] = c.pages[p]
    BY <1>6
  <2> HIDE DEF n
  <2> QED BY <1>1, <1>2, <2>1 DEF Closes
<1>9. Len(n.pages) = L + 1 /\ Len(n.pages[L + 1].lines) = 0 /\ n.pages[L + 1].closed = FALSE
      /\ (format \in Restarted => n.h = 0)
  BY <1>5, <1>6
<1> HIDE DEF n
<1> QED BY <1>2, <1>4, <1>7, <1>8, <1>9 DEF BeginsPage

Inputs == {newIFILE(j.files) : j \in EfixJobs}

EfixStates ==
  [pc : {"page", "line", "end"}, job : EfixJobs, pages : Inputs, page : Nat, line : Nat,
   ilines : Nat, olines : Nat, linesout : Nat]

\* Started, with the pages of the files to write.
EfixStarted == efix \in EfixStates /\ efix.pages = newIFILE(efix.job.files)

\* A page has at least one line.
LEMMA HeightsAreLines ==
  ASSUME EfixStarted
  PROVE  Len(efix.pages) \in Nat /\ \A p \in 1..Len(efix.pages) : Height(p) \in Nat \ {0}
<1>1. efix.job \in EfixJobs /\ efix.pages = newIFILE(efix.job.files)
  BY DEF EfixStarted, EfixStates
<1>2. PICK P : P = PagesIn(efix.job.files) /\ efix.pages \in Seq(P)
  BY <1>1, FilesGivePages
<1>3. efix.job.h \in Nat /\ \A page \in P : page.height \in Nat \cup {-1}
  BY <1>1, <1>2, EfixAssumption
<1>4. ASSUME NEW p \in 1..Len(efix.pages) PROVE Height(p) \in Nat \ {0}
  <2>1. efix.pages[p] \in P
    BY <1>2, ElementOfSeq
  <2>2. efix.pages[p].height \in Nat \cup {-1}
    BY <1>3, <2>1
  <2> QED BY <1>3, <2>2 DEF Height
<1> QED BY <1>2, <1>4, LenProperties

\* The pages are those begun; only the last can be open, and what has been written
\* to it has been counted.
PagesCounted ==
  /\ \E X : out \in Outs(X)
  /\ Len(out.pages) = efix.page /\ efix.page <= Len(efix.pages)
  /\ \A p \in 1..efix.page : out.pages[p].closed <=> p < efix.page \/ efix.pc = "end"
  /\ efix.pc = "line" => efix.page > 0 /\ Len(out.pages[efix.page].lines) = efix.linesout
  /\ efix.pc = "line" /\ efix.job.iysh <= Height(efix.page) => efix.linesout <= Height(efix.page)
  /\ efix.olines <= (efix.ilines * efix.job.ys) \div 256

\* A page that is done is full, open or closed.
DoneAreFull ==
  \A p \in 1..efix.page :
    (p < efix.page \/ efix.pc # "line") /\ efix.job.iysh <= Height(p)
      => Len(out.pages[p].lines) = Height(p)

\* The count is that of the last page, and the others have theirs in the header.
CountsInHeaders ==
  OneHeight /\ efix.job.format \in Restarted \cap Headed =>
    /\ efix.page > 0 => out.h = Len(out.pages[efix.page].lines)
    /\ \A p \in 1..efix.page :
         (p < efix.page \/ efix.pc = "end") /\ efix.job.iysh <= Height(p)
           => out.pages[p].header = Len(out.pages[p].lines)

EfixInv ==
  IF efix = Unstarted THEN out = [pages |-> <<>>, h |-> 0]
  ELSE EfixStarted /\ PagesCounted /\ DoneAreFull /\ CountsInHeaders

\* A state is a record of its fields.
LEMMA StateFields ==
  ASSUME NEW e \in EfixStates
  PROVE  /\ e.pc \in {"page", "line", "end"} /\ e.job \in EfixJobs /\ e.pages \in Inputs
         /\ e.page \in Nat /\ e.line \in Nat /\ e.ilines \in Nat /\ e.olines \in Nat
         /\ e.linesout \in Nat
         /\ e # Unstarted
<1>1. PICK J, P : J = EfixJobs /\ P = Inputs
  OBVIOUS
<1>2. e \in [pc : {"page", "line", "end"}, job : J, pages : P, page : Nat, line : Nat,
             ilines : Nat, olines : Nat, linesout : Nat]
  BY <1>1 DEF EfixStates
<1>3. e.pc # Unstarted.pc
  BY <1>2 DEF Unstarted
<1>4. e # Unstarted
  BY <1>3
<1> QED BY <1>1, <1>2, <1>4

LEMMA EfixStartsInv ==
  ASSUME EfixInv, EfixStarts
  PROVE  EfixInv'
<1>1. efix = Unstarted /\ out = [pages |-> <<>>, h |-> 0]
  <2>1. efix.pc = "start"
    BY DEF EfixStarts
  <2>2. ~EfixStarted
    BY <2>1, StateFields DEF EfixStarted
  <2> QED BY <2>2 DEF EfixInv
<1>2. PICK j \in EfixJobs :
        efix' = [pc |-> "page", job |-> j, pages |-> newIFILE(j.files), page |-> 0,
                 line |-> 0, ilines |-> 0, olines |-> 0, linesout |-> 0]
  BY DEF EfixStarts
<1>3. out' = [pages |-> <<>>, h |-> 0]
  BY <1>1 DEF EfixStarts, efixVars
<1>4. PICK Q : Q = newIFILE(j.files) /\ Q \in Inputs
  BY DEF Inputs
<1>5. efix' \in EfixStates /\ efix'.pages = newIFILE(efix'.job.files) /\ efix'.page = 0
      /\ efix'.pc = "page" /\ efix'.olines = 0 /\ efix'.ilines = 0 /\ efix'.job = j
      /\ efix'.pages = Q
  <2>1. PICK I : I = Inputs
    OBVIOUS
  <2>2. efix' \in [pc : {"page", "line", "end"}, job : EfixJobs, pages : I, page : Nat, line : Nat,
             ilines : Nat, olines : Nat, linesout : Nat]
    BY <1>2, <1>4, <2>1
  <2> QED BY <1>2, <1>4, <2>1, <2>2 DEF EfixStates
<1>6. EfixStarted'
  BY <1>5 DEF EfixStarted
<1>7. Len(Q) \in Nat /\ j.ys \in Nat
  <2>1. Q \in Seq(PagesIn(j.files))
    BY <1>4, FilesGivePages
  <2> QED BY <2>1, LenProperties, EfixAssumption
<1>8. PagesCounted'
  <2>1. out'.pages = <<>> /\ Len(out'.pages) = 0 /\ out'.h = 0
    BY <1>3
  <2>2. out' \in Outs({})
    <3>1. <<>> \in Seq(OutPage({}))
      OBVIOUS
    <3> QED BY <1>3, <3>1 DEF Outs
  <2>3. (efix'.ilines * efix'.job.ys) \div 256 = 0
    BY <1>5, <1>7
  <2>4. efix'.page <= Len(efix'.pages) /\ efix'.olines <= (efix'.ilines * efix'.job.ys) \div 256
    BY <1>5, <1>7, <2>3
  <2>5. \A p \in 1..efix'.page : FALSE
    BY <1>5
  <2> QED BY <1>5, <2>1, <2>2, <2>4, <2>5 DEF PagesCounted
<1>9. DoneAreFull' /\ CountsInHeaders'
  <2>1. (\A p \in 1..efix'.page : FALSE) /\ ~(efix'.page > 0)
    BY <1>5
  <2> QED BY <2>1 DEF DoneAreFull, CountsInHeaders
<1>10. efix' # Unstarted
  BY <1>5, StateFields
<1> QED BY <1>6, <1>8, <1>9, <1>10 DEF EfixInv, Unstarted

\* What the actions of a conversion that has begun start from.
LEMMA Begun ==
  ASSUME EfixInv, efix.pc # "start"
  PROVE  EfixStarted /\ PagesCounted /\ DoneAreFull /\ CountsInHeaders
BY DEF EfixInv, Unstarted

\* The input of a conversion stays, and with it the heights of its pages.
LEMMA InputStays ==
  ASSUME EfixStarted, efix' \in EfixStates, efix'.job = efix.job, efix'.pages = efix.pages
  PROVE  EfixStarted' /\ (\A p : Height(p)' = Height(p)) /\ OneHeight' = OneHeight
         /\ (efix # Unstarted)'
<1>1. EfixStarted'
  BY DEF EfixStarted
<1>2. \A p : Height(p)' = Height(p)
  BY DEF Height
<1>3. OneHeight' = OneHeight
  BY DEF OneHeight, Height
<1>4. (efix # Unstarted)'
  BY StateFields DEF Unstarted
<1> QED BY <1>1, <1>2, <1>3, <1>4

LEMMA EfixPadsPageInv ==
  ASSUME EfixInv, EfixPadsPage
  PROVE  EfixInv'
<1>1. efix.pc = "line" /\ PageEnds /\ efix' = [efix EXCEPT !.pc = "page"]
  BY DEF EfixPadsPage
<1>2. EfixStarted /\ PagesCounted /\ DoneAreFull /\ CountsInHeaders /\ efix \in EfixStates
  BY <1>1, Begun DEF EfixStarted
<1>3. /\ efix' \in EfixStates /\ efix'.job = efix.job /\ efix'.pages = efix.pages
      /\ efix'.page = efix.page /\ efix'.olines = efix.olines /\ efix'.ilines = efix.ilines
      /\ efix'.pc = "page"
  <2>1. PICK I, J : I = Inputs /\ J = EfixJobs
    OBVIOUS
  <2>2. EfixStates = [pc : {"page", "line", "end"}, job : J, pages : I, page : Nat, line : Nat,
             ilines : Nat, olines : Nat, linesout : Nat]
    BY <2>1 DEF EfixStates
  <2> QED BY <1>1, <1>2, <2>2
<1>4. EfixStarted' /\ (\A p : Height(p)' = Height(p)) /\ OneHeight' = OneHeight
      /\ (efix # Unstarted)'
  BY <1>2, <1>3, InputStays
<1>5. PICK k \in Nat : k = efix.page /\ k > 0 /\ k = Len(out.pages) /\ k <= Len(efix.pages)
  BY <1>1, <1>2, StateFields DEF PagesCounted
<1>6. PICK X : out \in Outs(X)
  BY <1>2 DEF PagesCounted
<1>7. PICK lines \in Nat : lines = Len(out.pages[k].lines) /\ lines = efix.linesout
  BY <1>1, <1>2, <1>5, StateFields DEF PagesCounted
<1>8. PICK H \in Nat : H = Height(k)
  <2>1. Len(efix.pages) \in Nat /\ k \in 1..Len(efix.pages)
    BY <1>2, <1>5, HeightsAreLines
  <2> QED BY <1>2, <2>1, HeightsAreLines
<1>9. efix.job.iysh \in Int
  BY <1>2, StateFields, EfixAssumption
<1>10. PICK job, runs : job = efix.job /\ out' = writeline(out, job.format, runs, H - lines)
  BY <1>5, <1>7, <1>8 DEF EfixPadsPage
<1>11. PICK no \in Nat : Adds(out', out, no, job.format) /\ (job.iysh <= H => no = H - lines)
  <2>1. job.iysh <= H => lines <= H
    BY <1>1, <1>2, <1>5, <1>7, <1>8, <1>10 DEF PagesCounted
  <2>2. CASE H - lines > 0
    <3>1. H - lines \in Nat
      BY <2>2
    <3>2. Adds(out', out, H - lines, job.format)
      BY <1>5, <1>6, <1>10, <3>1, WriteAdds
    <3> QED BY <3>1, <3>2
  <2>3. CASE H - lines <= 0
    <3>1. out' = out
      BY <1>10, <2>3 DEF writeline
    <3>2. Adds(out, out, 0, job.format)
      <4>1. out = writeline(out, job.format, runs, 0)
        BY DEF writeline
      <4>2. Adds(writeline(out, job.format, runs, 0), out, 0, job.format)
        BY <1>5, <1>6, WriteAdds
      <4> QED BY <4>1, <4>2
    <3>3. job.iysh <= H => 0 = H - lines
      BY <2>1, <2>3
    <3> QED BY <3>1, <3>2, <3>3
  <2> QED BY <2>2, <2>3
<1>12. PagesCounted'
  <2>1. (\E Y : out' \in Outs(Y)) /\ Len(out'.pages) = k
    BY <1>5, <1>11 DEF Adds
  <2>2. \A p \in 1..k : out'.pages[p].closed <=> p < k \/ efix.pc = "end"
    BY <1>2, <1>5, <1>11 DEF Adds, PagesCounted
  <2>3. efix'.olines <= (efix'.ilines * efix'.job.ys) \div 256
    BY <1>2, <1>3 DEF PagesCounted
  <2> QED BY <1>1, <1>3, <1>5, <2>1, <2>2, <2>3 DEF PagesCounted
<1>12a. \A p \in 1..k : Len(out'.pages[p].lines) = Len(out.pages[p].lines) + (IF p = k THEN no ELSE 0)
  BY <1>5, <1>11 DEF Adds
<1>13. \A p \in 1..k : p < k => Len(out'.pages[p].lines) = Len(out.pages[p].lines)
  <2>1. ASSUME NEW p \in 1..k, p < k PROVE Len(out'.pages[p].lines) = Len(out.pages[p].lines)
    <3>1. out.pages[p] \in OutPage(X)
      BY <1>5, <1>6, ElementOfSeq DEF Outs
    <3>2. Len(out.pages[p].lines) \in Nat
      BY <3>1, LenProperties DEF OutPage
    <3>3. p # k
      BY <1>5, <2>1
    <3>4. PICK a, b : a = Len(out.pages[p].lines) /\ b = Len(out'.pages[p].lines)
      OBVIOUS
    <3>5. b = a + 0 /\ a \in Nat
      BY <1>12a, <3>2, <3>3, <3>4
    <3> QED BY <3>4, <3>5
  <2> QED BY <2>1
<1>14. Len(out'.pages[k].lines) = lines + no
  <2>1. k \in 1..k
    BY <1>5
  <2> QED BY <1>12a, <1>7, <2>1
<1>15. DoneAreFull'
  <2>1. ASSUME NEW p \in 1..k, efix.job.iysh <= Height(p)
        PROVE  Len(out'.pages[p].lines) = Height(p)
    <3>1. CASE p = k
      BY <1>8, <1>10, <1>11, <1>14, <2>1, <3>1
    <3>2. CASE p < k
      BY <1>2, <1>5, <1>13, <2>1, <3>2 DEF DoneAreFull
    <3> QED BY <3>1, <3>2
  <2> QED BY <1>3, <1>4, <1>5, <2>1 DEF DoneAreFull
<1>16. CountsInHeaders'
  <2>1. SUFFICES ASSUME OneHeight, efix.job.format \in Restarted \cap Headed
                 PROVE  /\ out'.h = Len(out'.pages[k].lines)
                        /\ \A p \in 1..k : p < k /\ efix.job.iysh <= Height(p)
                             => out'.pages[p].header = Len(out'.pages[p].lines)
    BY <1>3, <1>4, <1>5 DEF CountsInHeaders
  <2>2. out.h = lines
    BY <1>2, <1>5, <1>7, <2>1 DEF CountsInHeaders
  <2>3. out'.h = lines + no
    BY <1>10, <1>11, <2>1, <2>2 DEF Adds
  <2>4. ASSUME NEW p \in 1..k, p < k, efix.job.iysh <= Height(p)
        PROVE  out'.pages[p].header = Len(out'.pages[p].lines)
    <3>1. out.pages[p].header = Len(out.pages[p].lines)
      BY <1>2, <1>5, <2>1, <2>4 DEF CountsInHeaders
    <3>2. out'.pages[p].header = out.pages[p].header
      BY <1>5, <1>11 DEF Adds
    <3> QED BY <1>13, <2>4, <3>1, <3>2
  <2> QED BY <1>14, <2>3, <2>4
<1> QED BY <1>4, <1>12, <1>15, <1>16 DEF EfixInv, Unstarted

LEMMA EfixEndsInv ==
  ASSUME EfixInv, EfixEnds
  PROVE  EfixInv'
<1>1. efix.pc = "page" /\ efix.page = Len(efix.pages) /\ efix' = [efix EXCEPT !.pc = "end"]
      /\ out' = CloseOpage(out, efix.job.format)
  BY DEF EfixEnds
<1>2. EfixStarted /\ PagesCounted /\ DoneAreFull /\ CountsInHeaders /\ efix \in EfixStates
  BY <1>1, Begun DEF EfixStarted
<1>3. /\ efix' \in EfixStates /\ efix'.job = efix.job /\ efix'.pages = efix.pages
      /\ efix'.page = efix.page /\ efix'.olines = efix.olines /\ efix'.ilines = efix.ilines
      /\ efix'.pc = "end"
  <2>1. PICK I, J : I = Inputs /\ J = EfixJobs
    OBVIOUS
  <2>2. EfixStates = [pc : {"page", "line", "end"}, job : J, pages : I, page : Nat, line : Nat,
             ilines : Nat, olines : Nat, linesout : Nat]
    BY <2>1 DEF EfixStates
  <2> QED BY <1>1, <1>2, <2>2
<1>4. EfixStarted' /\ (\A p : Height(p)' = Height(p)) /\ OneHeight' = OneHeight
      /\ (efix # Unstarted)'
  BY <1>2, <1>3, InputStays
<1>5. PICK k \in Nat : k = efix.page /\ k = Len(out.pages) /\ k <= Len(efix.pages)
  BY <1>2, StateFields DEF PagesCounted
<1>6. PICK X : out \in Outs(X)
  BY <1>2 DEF PagesCounted
<1>7. Closes(out', out, efix.job.format)
  BY <1>1, <1>6, CloseCloses
<1>8. \A p \in 1..k : out'.pages[p].lines = out.pages[p].lines
  BY <1>5, <1>7 DEF Closes
<1>9. PagesCounted'
  <2>1. (\E Y : out' \in Outs(Y)) /\ Len(out'.pages) = k
    BY <1>5, <1>7 DEF Closes
  <2>2. \A p \in 1..k : out'.pages[p].closed
    <3>1. ASSUME NEW p \in 1..k PROVE out'.pages[p].closed
      <4>1. out'.pages[p].closed = (out.pages[p].closed \/ p = k)
        BY <1>5, <1>7 DEF Closes
      <4>2. p < k => out.pages[p].closed
        BY <1>2, <1>5 DEF PagesCounted
      <4>3. p < k \/ p = k
        BY <1>5
      <4> QED BY <4>1, <4>2, <4>3
    <3> QED BY <3>1
  <2>3. efix'.olines <= (efix'.ilines * efix'.job.ys) \div 256
    BY <1>2, <1>3 DEF PagesCounted
  <2> QED BY <1>3, <1>5, <2>1, <2>2, <2>3 DEF PagesCounted
<1>10. DoneAreFull'
  <2>1. ASSUME NEW p \in 1..k, efix.job.iysh <= Height(p)
        PROVE  Len(out'.pages[p].lines) = Height(p)
    BY <1>1, <1>2, <1>5, <1>8, <2>1 DEF DoneAreFull
  <2> QED BY <1>3, <1>4, <1>5, <2>1 DEF DoneAreFull
<1>11. CountsInHeaders'
  <2>1. SUFFICES ASSUME OneHeight, efix.job.format \in Restarted \cap Headed
                 PROVE  /\ k > 0 => out'.h = Len(out'.pages[k].lines)
                        /\ \A p \in 1..k : efix.job.iysh <= Height(p)
                             => out'.pages[p].header = Len(out'.pages[p].lines)
    BY <1>3, <1>4, <1>5 DEF CountsInHeaders
  <2>2. k > 0 => out.h = Len(out.pages[k].lines) /\ out'.h = out.h
    BY <1>2, <1>5, <1>7, <2>1 DEF CountsInHeaders, Closes
  <2>3. ASSUME NEW p \in 1..k, efix.job.iysh <= Height(p)
        PROVE  out'.pages[p].header = Len(out'.pages[p].lines)
    <3>1. CASE p = k
      <4>1. out'.pages[p].header = out.h
        BY <1>5, <1>7, <2>1, <3>1 DEF Closes
      <4> QED BY <1>8, <2>2, <3>1, <4>1
    <3>2. CASE p < k
      <4>1. out.pages[p].header = Len(out.pages[p].lines)
        BY <1>2, <1>5, <2>1, <2>3, <3>2 DEF CountsInHeaders
      <4>2. out'.pages[p].header = out.pages[p].header
        BY <1>5, <1>7, <3>2 DEF Closes
      <4> QED BY <1>8, <4>1, <4>2
    <3> QED BY <3>1, <3>2
  <2>4. k > 0 => out'.h = Len(out'.pages[k].lines)
    BY <1>8, <2>2
  <2> QED BY <2>3, <2>4
<1> QED BY <1>4, <1>9, <1>10, <1>11 DEF EfixInv, Unstarted

\* A line that is scaled covers no fewer rows than the one before.
LEMMA RowsGrow ==
  ASSUME NEW n \in Nat, NEW ys \in Nat
  PROVE  (n * ys) \div 256 <= ((n + 1) * ys) \div 256
<1>1. PICK a \in Nat : a = n * ys
  OBVIOUS
<1>2. (n + 1) * ys = a + ys
  BY <1>1
<1>3. a \div 256 <= (a + ys) \div 256
  OBVIOUS
<1> QED BY <1>1, <1>2, <1>3

LEMMA EfixCopiesLineInv ==
  ASSUME EfixInv, EfixCopiesLine
  PROVE  EfixInv'
<1>1. efix.pc = "line" /\ ~PageEnds
  BY DEF EfixCopiesLine
<1>2. EfixStarted /\ PagesCounted /\ DoneAreFull /\ CountsInHeaders /\ efix \in EfixStates
  BY <1>1, Begun DEF EfixStarted
<1>3. PICK k \in Nat : k = efix.page /\ k > 0 /\ k = Len(out.pages) /\ k <= Len(efix.pages)
  BY <1>1, <1>2, StateFields DEF PagesCounted
<1>4. PICK X : out \in Outs(X)
  BY <1>2 DEF PagesCounted
<1>5. PICK lines \in Nat : lines = Len(out.pages[k].lines) /\ lines = efix.linesout
  BY <1>1, <1>2, <1>3, StateFields DEF PagesCounted
<1>6. PICK H \in Nat : H = Height(k)
  <2>1. Len(efix.pages) \in Nat /\ k \in 1..Len(efix.pages)
    BY <1>2, <1>3, HeightsAreLines
  <2> QED BY <1>2, <2>1, HeightsAreLines
<1>7. lines < H
  BY <1>1, <1>3, <1>5, <1>6 DEF PageEnds
<1>8. PICK job : job = efix.job /\ job.ys \in Nat /\ job.iysh \in Int
  BY <1>2, StateFields, EfixAssumption
<1>9. PICK il, ol \in Nat : il = efix.ilines /\ ol = efix.olines
  BY <1>2, StateFields
<1>10. ol <= (il * job.ys) \div 256
  BY <1>2, <1>8, <1>9 DEF PagesCounted
<1>11. PICK due \in Nat : due = ((il + 1) * job.ys) \div 256 /\ ol <= due
  <2>1. (il + 1) * job.ys \in Nat /\ il * job.ys \in Nat
    BY <1>8, <1>9
  <2>2. ((il + 1) * job.ys) \div 256 \in Nat /\ (il * job.ys) \div 256 \in Nat
    BY <2>1
  <2> QED BY <1>8, <1>10, <2>2, RowsGrow
<1>12. PICK no \in Nat : no = Copies(due - ol, H - lines)
  BY <1>7, <1>11 DEF Copies
<1>13. no <= H - lines /\ no <= due - ol
  BY <1>7, <1>11, <1>12 DEF Copies
<1>14. PICK runs :
         /\ out' = writeline(out, job.format, runs, no)
         /\ efix' = [efix EXCEPT !.line = efix.line + 1, !.ilines = il + 1, !.olines = @ + no,
                                 !.linesout = @ + no]
  BY <1>3, <1>5, <1>6, <1>8, <1>9, <1>11, <1>12 DEF EfixCopiesLine, Repeats
<1>15. /\ efix' \in EfixStates /\ efix'.job = efix.job /\ efix'.pages = efix.pages
       /\ efix'.page = efix.page /\ efix'.olines = ol + no /\ efix'.ilines = il + 1
       /\ efix'.pc = "line" /\ efix'.linesout = lines + no
  <2>1. PICK I, J : I = Inputs /\ J = EfixJobs
    OBVIOUS
  <2>2. EfixStates = [pc : {"page", "line", "end"}, job : J, pages : I, page : Nat, line : Nat,
             ilines : Nat, olines : Nat, linesout : Nat]
    BY <2>1 DEF EfixStates
  <2>3. efix.line + 1 \in Nat /\ il + 1 \in Nat /\ ol + no \in Nat /\ lines + no \in Nat
    BY <1>2, StateFields
  <2>4. PICK a, b, c, d \in Nat : a = efix.line + 1 /\ b = il + 1 /\ c = ol + no /\ d = lines + no
    BY <2>3
  <2>5. efix' = [efix EXCEPT !.line = a, !.ilines = b, !.olines = c, !.linesout = d]
    BY <1>5, <1>9, <1>14, <2>4
  <2>6. efix' \in EfixStates /\ efix'.job = efix.job /\ efix'.pages = efix.pages
        /\ efix'.page = efix.page /\ efix'.pc = efix.pc /\ efix'.olines = c /\ efix'.ilines = b
        /\ efix'.linesout = d
    BY <1>2, <2>2, <2>5
  <2> QED BY <1>1, <2>4, <2>6
<1>16. EfixStarted' /\ (\A p : Height(p)' = Height(p)) /\ OneHeight' = OneHeight
      /\ (efix # Unstarted)'
  BY <1>2, <1>15, InputStays
<1>17. Adds(out', out, no, job.format)
  BY <1>3, <1>4, <1>14, WriteAdds
<1>18. \A p \in 1..k : Len(out'.pages[p].lines) = Len(out.pages[p].lines) + (IF p = k THEN no ELSE 0)
  BY <1>3, <1>17 DEF Adds
<1>19. \A p \in 1..k : p < k => Len(out'.pages[p].lines) = Len(out.pages[p].lines)
  <2>1. ASSUME NEW p \in 1..k, p < k PROVE Len(out'.pages[p].lines) = Len(out.pages[p].lines)
    <3>1. out.pages[p] \in OutPage(X)
      BY <1>3, <1>4, ElementOfSeq DEF Outs
    <3>2. Len(out.pages[p].lines) \in Nat
      BY <3>1, LenProperties DEF OutPage
    <3>3. p # k
      BY <1>3, <2>1
    <3>4. PICK a, b : a = Len(out.pages[p].lines) /\ b = Len(out'.pages[p].lines)
      OBVIOUS
    <3>5. b = a + 0 /\ a \in Nat
      BY <1>18, <3>2, <3>3, <3>4
    <3> QED BY <3>4, <3>5
  <2> QED BY <2>1
<1>20. Len(out'.pages[k].lines) = lines + no
  <2>1. k \in 1..k
    BY <1>3
  <2> QED BY <1>5, <1>18, <2>1
<1>21. PagesCounted'
  <2>1. (\E Y : out' \in Outs(Y)) /\ Len(out'.pages) = k
    BY <1>3, <1>17 DEF Adds
  <2>2. \A p \in 1..k : out'.pages[p].closed <=> p < k \/ efix.pc = "end"
    BY <1>2, <1>3, <1>17 DEF Adds, PagesCounted
  <2>3. efix'.olines <= (efix'.ilines * efix'.job.ys) \div 256
    <3>1. efix'.olines <= due
      BY <1>13, <1>15
    <3> QED BY <1>8, <1>11, <1>15, <3>1
  <2>4. lines + no <= H
    BY <1>7, <1>13
  <2>5. efix'.page > 0 /\ Len(out'.pages[efix'.page].lines) = efix'.linesout
    BY <1>3, <1>15, <1>20
  <2>6. efix'.linesout <= Height(k)'
    BY <1>6, <1>15, <1>16, <2>4
  <2>7. (efix.linesout <= Height(efix.page))'
    BY <1>3, <1>15, <2>6 DEF Height
  <2>8. \A p \in 1..efix'.page : out'.pages[p].closed <=> p < efix'.page \/ efix'.pc = "end"
    BY <1>1, <1>3, <1>15, <2>2
  <2>9. Len(out'.pages) = efix'.page /\ efix'.page <= Len(efix'.pages)
    BY <1>3, <1>15, <2>1
  <2> QED BY <2>1, <2>3, <2>5, <2>7, <2>8, <2>9 DEF PagesCounted
<1>22. DoneAreFull'
  <2>1. ASSUME NEW p \in 1..k, p < k, efix.job.iysh <= Height(p)
        PROVE  Len(out'.pages[p].lines) = Height(p)
    BY <1>2, <1>3, <1>19, <2>1 DEF DoneAreFull
  <2> QED BY <1>3, <1>15, <1>16, <2>1 DEF DoneAreFull
<1>23. CountsInHeaders'
  <2>1. SUFFICES ASSUME OneHeight, efix.job.format \in Restarted \cap Headed
                 PROVE  /\ out'.h = Len(out'.pages[k].lines)
                        /\ \A p \in 1..k : p < k /\ efix.job.iysh <= Height(p)
                             => out'.pages[p].header = Len(out'.pages[p].lines)
    BY <1>3, <1>15, <1>16 DEF CountsInHeaders
  <2>2. out.h = lines
    BY <1>2, <1>3, <1>5, <2>1 DEF CountsInHeaders
  <2>3. out'.h = lines + no
    BY <1>8, <1>17, <2>1, <2>2 DEF Adds
  <2>4. ASSUME NEW p \in 1..k, p < k, efix.job.iysh <= Height(p)
        PROVE  out'.pages[p].header = Len(out'.pages[p].lines)
    <3>1. out.pages[p].header = Len(out.pages[p].lines)
      BY <1>2, <1>3, <2>1, <2>4 DEF CountsInHeaders
    <3>2. out'.pages[p].header = out.pages[p].header
      BY <1>3, <1>17 DEF Adds
    <3> QED BY <1>19, <2>4, <3>1, <3>2
  <2> QED BY <1>20, <2>3, <2>4
<1> QED BY <1>16, <1>21, <1>22, <1>23 DEF EfixInv, Unstarted

LEMMA EfixOpensPageInv ==
  ASSUME EfixInv, EfixOpensPage
  PROVE  EfixInv'
<1>1. efix.pc = "page" /\ efix.page < Len(efix.pages)
  BY DEF EfixOpensPage
<1>2. EfixStarted /\ PagesCounted /\ DoneAreFull /\ CountsInHeaders /\ efix \in EfixStates
  BY <1>1, Begun DEF EfixStarted
<1>3. PICK k \in Nat : k = efix.page /\ k = Len(out.pages)
  BY <1>2, StateFields DEF PagesCounted
<1>4. PICK N \in Nat : N = Len(efix.pages) /\ k < N
  BY <1>1, <1>2, <1>3, HeightsAreLines
<1>5. PICK X : out \in Outs(X)
  BY <1>2 DEF PagesCounted
<1>6. PICK H \in Nat : H = Height(k + 1)
  <2>1. k + 1 \in 1..N
    BY <1>4
  <2> QED BY <1>2, <1>4, <2>1, HeightsAreLines
<1>7. PICK job : job = efix.job /\ job.ys \in Nat /\ job.iysh \in Int
  BY <1>2, StateFields, EfixAssumption
<1>8. PICK down \in Nat : down = IF job.iysh > 0 THEN job.iysh ELSE 0
  BY <1>7
<1>9. PICK up \in Nat : up = IF job.iysh < 0 THEN -job.iysh ELSE 0
  BY <1>7
<1>10. PICK o \in Outs(X) : o = [out EXCEPT !.h = H] /\ o.pages = out.pages /\ o.h = H
  <2>1. PICK P : P = Seq(OutPage(X))
    OBVIOUS
  <2>2. Outs(X) = [pages : P, h : Nat]
    BY <2>1 DEF Outs
  <2>3. PICK o : o = [out EXCEPT !.h = H]
    OBVIOUS
  <2>4. o \in Outs(X) /\ o.pages = out.pages /\ o.h = H
    BY <1>5, <2>2, <2>3
  <2> QED BY <2>3, <2>4
<1>11. PICK n : n = nextopage(o, job.format) /\ BeginsPage(n, o, job.format)
  BY NextBegins
<1>12. PICK runs :
         /\ out' = writeline(n, job.format, runs, down)
         /\ efix' = [efix EXCEPT !.pc = "line", !.page = k + 1, !.ilines = 0, !.olines = 0,
                                 !.linesout = down, !.line = up]
  BY <1>3, <1>6, <1>7, <1>8, <1>9, <1>10, <1>11 DEF EfixOpensPage
<1>13. /\ efix' \in EfixStates /\ efix'.job = efix.job /\ efix'.pages = efix.pages
       /\ efix'.page = k + 1 /\ efix'.olines = 0 /\ efix'.ilines = 0
       /\ efix'.pc = "line" /\ efix'.linesout = down
  <2>1. PICK I, J : I = Inputs /\ J = EfixJobs
    OBVIOUS
  <2>2. EfixStates = [pc : {"page", "line", "end"}, job : J, pages : I, page : Nat, line : Nat,
             ilines : Nat, olines : Nat, linesout : Nat]
    BY <2>1 DEF EfixStates
  <2>3. k + 1 \in Nat
    OBVIOUS
  <2> QED BY <1>2, <1>12, <2>2, <2>3
<1>14. EfixStarted' /\ (\A p : Height(p)' = Height(p)) /\ OneHeight' = OneHeight
      /\ (efix # Unstarted)'
  BY <1>2, <1>13, InputStays
<1>15. PICK Y : n \in Outs(Y) /\ Len(n.pages) = k + 1
  BY <1>3, <1>10, <1>11 DEF BeginsPage
<1>16. Adds(out', n, down, job.format)
  BY <1>12, <1>15, WriteAdds
<1>17. \A p \in 1..k :
         /\ n.pages[p].lines = out.pages[p].lines
         /\ n.pages[p].closed = (out.pages[p].closed \/ p = k)
         /\ n.pages[p].header = IF p = k /\ job.format \in Headed THEN H ELSE out.pages[p].header
  <2>1. Len(o.pages) = k /\ o.pages = out.pages /\ o.h = H
    BY <1>3, <1>10
  <2>2. \A p \in 1..Len(o.pages) :
          /\ n.pages[p].lines = o.pages[p].lines
          /\ n.pages[p].closed = (o.pages[p].closed \/ p = Len(o.pages))
          /\ n.pages[p].header = IF p = Len(o.pages) /\ job.format \in Headed THEN o.h
                                 ELSE o.pages[p].header
    BY <1>11 DEF BeginsPage
  <2> QED BY <2>1, <2>2, Zenon
<1>18. Len(n.pages[k + 1].lines) = 0 /\ n.pages[k + 1].closed = FALSE
       /\ (job.format \in Restarted => n.h = 0)
  <2>1. Len(o.pages) = k
    BY <1>3, <1>10
  <2>2. /\ Len(n.pages[Len(o.pages) + 1].lines) = 0 /\ n.pages[Len(o.pages) + 1].closed = FALSE
        /\ (job.format \in Restarted => n.h = 0)
    BY <1>11 DEF BeginsPage
  <2> QED BY <2>1, <2>2, Zenon
<1>19. \A p \in 1..(k + 1) :
         /\ out'.pages[p].header = n.pages[p].header /\ out'.pages[p].closed = n.pages[p].closed
         /\ Len(out'.pages[p].lines) = Len(n.pages[p].lines) + (IF p = k + 1 THEN down ELSE 0)
  BY <1>15, <1>16 DEF Adds
<1>20. \A p \in 1..k : Len(out'.pages[p].lines) = Len(out.pages[p].lines)
  <2>1. ASSUME NEW p \in 1..k PROVE Len(out'.pages[p].lines) = Len(out.pages[p].lines)
    <3>1. out.pages[p] \in OutPage(X)
      BY <1>3, <1>5, ElementOfSeq DEF Outs
    <3>2. Len(out.pages[p].lines) \in Nat
      BY <3>1, LenProperties DEF OutPage
    <3>3. p # k + 1 /\ p \in 1..(k + 1)
      OBVIOUS
    <3>4. PICK a, b : a = Len(out.pages[p].lines) /\ b = Len(out'.pages[p].lines)
      OBVIOUS
    <3>5. b = a + 0 /\ a \in Nat
      BY <1>17, <1>19, <3>2, <3>3, <3>4
    <3> QED BY <3>4, <3>5
  <2> QED BY <2>1
<1>21. k + 1 \in 1..(k + 1)
  OBVIOUS
<1>22. Len(out'.pages[k + 1].lines) = down
  <2>1. Len(out'.pages[k + 1].lines) = Len(n.pages[k + 1].lines) + down
    BY <1>19, <1>21
  <2>2. PICK a, b : a = Len(n.pages[k + 1].lines) /\ b = Len(out'.pages[k + 1].lines)
    OBVIOUS
  <2>3. a = 0 /\ b = a + down
    BY <1>18, <2>1, <2>2
  <2> QED BY <2>2, <2>3
<1>23. PagesCounted'
  <2>1. (\E Z : out' \in Outs(Z)) /\ Len(out'.pages) = k + 1
    BY <1>15, <1>16 DEF Adds
  <2>2. ASSUME NEW p \in 1..(k + 1) PROVE out'.pages[p].closed <=> p < k + 1
    <3>1. CASE p = k + 1
      <4>1. out'.pages[k + 1].closed = n.pages[k + 1].closed
        BY <1>19, <1>21
      <4>2. ~out'.pages[k + 1].closed
        BY <1>18, <4>1, Zenon
      <4>3. ~(p < k + 1)
        BY <3>1
      <4> QED BY <3>1, <4>2, <4>3
    <3>2. CASE p \in 1..k
      <4>1. out'.pages[p].closed = (out.pages[p].closed \/ p = k)
        BY <1>17, <1>19, <3>2
      <4>2. p < k => out.pages[p].closed
        BY <1>2, <1>3, <3>2 DEF PagesCounted
      <4>3. p < k \/ p = k
        BY <3>2
      <4>4. out'.pages[p].closed
        BY <4>1, <4>2, <4>3, Zenon
      <4>5. p < k + 1
        BY <3>2
      <4> QED BY <4>4, <4>5
    <3> QED BY <2>2, <3>1, <3>2
  <2>3. efix'.olines <= (efix'.ilines * efix'.job.ys) \div 256
    BY <1>7, <1>13
  <2>4. job.iysh <= H => down <= H
    BY <1>7, <1>8
  <2>5. efix'.page > 0 /\ Len(out'.pages[efix'.page].lines) = efix'.linesout
    BY <1>13, <1>22
  <2>6. job.iysh <= H => efix'.linesout <= Height(k + 1)'
    BY <1>6, <1>13, <1>14, <2>4
  <2>7. (efix.job.iysh <= Height(efix.page) => efix.linesout <= Height(efix.page))'
    <3>1. Height(k + 1)' = H
      BY <1>6, <1>14
    <3>2. Height(efix.page)' = H
      BY <1>13, <3>1 DEF Height
    <3> QED BY <1>7, <1>13, <2>6, <3>1, <3>2
  <2>8. \A p \in 1..efix'.page : out'.pages[p].closed <=> p < efix'.page \/ efix'.pc = "end"
    BY <1>13, <2>2
  <2>9. Len(out'.pages) = efix'.page /\ efix'.page <= Len(efix'.pages)
    BY <1>4, <1>13, <2>1
  <2> QED BY <2>1, <2>3, <2>5, <2>7, <2>8, <2>9 DEF PagesCounted
<1>24. \A p \in 1..k : efix.job.iysh <= Height(p) => Len(out.pages[p].lines) = Height(p)
  BY <1>1, <1>2, <1>3 DEF DoneAreFull
<1>25. DoneAreFull'
  <2>1. ASSUME NEW p \in 1..(k + 1), p < k + 1, efix.job.iysh <= Height(p)
        PROVE  Len(out'.pages[p].lines) = Height(p)
    <3>1. p \in 1..k
      BY <2>1
    <3> QED BY <1>20, <1>24, <2>1, <3>1
  <2> QED BY <1>13, <1>14, <2>1 DEF DoneAreFull
<1>26. CountsInHeaders'
  <2>1. SUFFICES ASSUME OneHeight, efix.job.format \in Restarted \cap Headed
                 PROVE  /\ out'.h = Len(out'.pages[k + 1].lines)
                        /\ \A p \in 1..(k + 1) : p < k + 1 /\ efix.job.iysh <= Height(p)
                             => out'.pages[p].header = Len(out'.pages[p].lines)
    BY <1>13, <1>14 DEF CountsInHeaders
  <2>2. out'.h = down
    <3>1. out'.h = n.h + down /\ n.h = 0
      BY <1>7, <1>16, <1>18, <2>1 DEF Adds
    <3> QED BY <3>1
  <2>3. ASSUME NEW p \in 1..(k + 1), p < k + 1, efix.job.iysh <= Height(p)
        PROVE  out'.pages[p].header = Len(out'.pages[p].lines)
    <3>1. p \in 1..k
      BY <2>3
    <3>2. CASE p = k
      <4>1. out'.pages[k].header = H
        BY <1>7, <1>17, <1>19, <2>1, <3>1, <3>2
      <4>2. Height(k) = H
        <5>1. k \in DOMAIN efix.pages /\ k + 1 \in DOMAIN efix.pages
          <6>1. DOMAIN efix.pages = 1..N
            BY <1>2, <1>4, FilesGivePages, ElementOfSeq, StateFields DEF EfixStarted
          <6> QED BY <1>4, <3>1, <3>2, <6>1
        <5> QED BY <1>6, <2>1, <5>1 DEF OneHeight
      <4> QED BY <1>20, <1>24, <2>3, <3>1, <3>2, <4>1, <4>2
    <3>3. CASE p < k
      <4>1. out.pages[p].header = Len(out.pages[p].lines)
        BY <1>2, <1>3, <2>1, <2>3, <3>1, <3>3 DEF CountsInHeaders
      <4>2. out'.pages[p].header = out.pages[p].header
        <5>1. p # k /\ p \in 1..(k + 1)
          BY <3>1, <3>3
        <5>2. n.pages[p].header = out.pages[p].header
          BY <1>17, <3>1, <5>1
        <5>3. out'.pages[p].header = n.pages[p].header
          BY <1>19, <5>1
        <5> QED BY <5>2, <5>3
      <4> QED BY <1>20, <3>1, <4>1, <4>2
    <3> QED BY <3>1, <3>2, <3>3
  <2> QED BY <1>22, <2>2, <2>3
<1> QED BY <1>14, <1>23, <1>25, <1>26 DEF EfixInv, Unstarted

LEMMA EfixInvSteps ==
  ASSUME EfixInv, [NextEfix]_efixVars
  PROVE  EfixInv'
<1>1. CASE EfixStarts
  BY <1>1, EfixStartsInv
<1>2. CASE EfixOpensPage
  BY <1>2, EfixOpensPageInv
<1>3. CASE EfixCopiesLine
  BY <1>3, EfixCopiesLineInv
<1>4. CASE EfixPadsPage
  BY <1>4, EfixPadsPageInv
<1>5. CASE EfixEnds
  BY <1>5, EfixEndsInv
<1>6. CASE UNCHANGED efixVars
  <2>1. efix' = efix /\ out' = out
    BY <1>6 DEF efixVars
  <2> QED BY <2>1 DEF EfixInv, Unstarted, EfixStarted, PagesCounted, DoneAreFull, CountsInHeaders,
             OneHeight, Height
<1> QED BY <1>1, <1>2, <1>3, <1>4, <1>5, <1>6 DEF NextEfix

LEMMA EfixInvGives ==
  ASSUME EfixInv
  PROVE  PagesAreFull /\ HeadersMatch
<1>1. CASE efix = Unstarted
  <2>1. DOMAIN out.pages = {} /\ efix.pc = "start"
    BY <1>1 DEF EfixInv, Unstarted
  <2> QED BY <2>1 DEF PagesAreFull, HeadersMatch
<1>2. CASE efix # Unstarted
  <2>1. EfixStarted /\ PagesCounted /\ DoneAreFull /\ CountsInHeaders
    BY <1>2 DEF EfixInv
  <2>2. PICK k \in Nat : k = efix.page /\ DOMAIN out.pages = 1..k
    <3>1. PICK X : out \in Outs(X)
      BY <2>1 DEF PagesCounted
    <3>2. DOMAIN out.pages = 1..Len(out.pages)
      BY <3>1, ElementOfSeq DEF Outs
    <3> QED BY <2>1, <3>2, StateFields DEF PagesCounted, EfixStarted
  <2>3. efix.pc # "start"
    BY <2>1, StateFields DEF EfixStarted
  <2>4. \A p \in 1..k : out.pages[p].closed => (p < k \/ efix.pc = "end")
    BY <2>1, <2>2 DEF PagesCounted
  <2>5. PagesAreFull
    BY <2>1, <2>2, <2>4 DEF PagesAreFull, DoneAreFull
  <2>6. HeadersMatch
    BY <2>1, <2>2, <2>4 DEF HeadersMatch, CountsInHeaders
  <2> QED BY <2>5, <2>6
<1> QED BY <1>1, <1>2

(* PagesAreFull and HeadersMatch: a page that efix has closed has the height *)
(* it was to have, and where the header is written again at the end it gives *)
(* that height (nextopage(), writeline(), the loop of main()), for any files *)
(* and overlay, and every scale, shift, size and format.                     *)

(* PagesAreFull and HeadersMatch: a page that efix has closed has the height *)
(* it was to have, and where the header is written again at the end it gives *)
(* that height (nextopage(), writeline(), the loop of main()), for any files *)
(* and overlay, and every scale, shift, size and format.                     *)
THEOREM PagesHaveTheirSize == SpecEfix => [](PagesAreFull /\ HeadersMatch)
<1>1. InitEfix => EfixInv
  BY DEF InitEfix, EfixInv
<1>2. EfixInv /\ [NextEfix]_efixVars => EfixInv'
  BY EfixInvSteps
<1>3. EfixInv => PagesAreFull /\ HeadersMatch
  BY EfixInvGives
<1> QED BY <1>1, <1>2, <1>3, PTL DEF SpecEfix

-----------------------------------------------------------------------------
(* Where the runs of a line end.                                            *)

\* e[n] is where run n of a line ends.
EndsOf(e, runs) ==
  /\ e \in [0..Len(runs) -> Nat] /\ e[0] = 0
  /\ \A n \in 1..Len(runs) : e[n] = e[n - 1] + runs[n]

\* The sum of the runs is where the last one ends.
LEMMA WidthIsEnd ==
  ASSUME NEW runs \in Seq(Nat)
  PROVE  \E e : EndsOf(e, runs) /\ Width(runs) = e[Len(runs)]
<1>1. PICK N \in Nat : N = Len(runs) /\ DOMAIN runs = 1..N /\ runs \in [1..N -> Nat]
  BY ElementOfSeq
<1> DEFINE step == [n \in 1..N |-> [x \in Nat |-> x + runs[n]]]
           Is(f) == f = [s \in SUBSET (1..N) |-> IF s = {} THEN 0
                                                 ELSE f[s \ {Max(s)}] + runs[Max(s)]]
<1>2. step \in [1..N -> [Nat -> Nat]] /\ 0 \in Nat
  BY <1>1
<1>3. PICK h \in [SUBSET (1..N) -> Nat] : FoldsSets(h, N, 0, step)
  <2> HIDE DEF step
  <2> QED BY <1>2, FoldExists
<1>4. ASSUME NEW s \in SUBSET (1..N), s # {}
      PROVE  /\ Max(s) \in 1..N /\ s \ {Max(s)} \in SUBSET (1..N)
             /\ \A x \in Nat : step[Max(s)][x] = x + runs[Max(s)]
  BY <1>4, MaxOf
<1>5. Is(h)
  <2>1. ASSUME NEW s \in SUBSET (1..N)
        PROVE  h[s] = IF s = {} THEN 0 ELSE h[s \ {Max(s)}] + runs[Max(s)]
    <3>1. CASE s = {}
      BY <1>3, <3>1 DEF FoldsSets
    <3>2. CASE s # {}
      <4>1. h[s] = step[Max(s)][h[s \ {Max(s)}]]
        <5> HIDE DEF step
        <5> QED BY <1>3, <3>2 DEF FoldsSets
      <4>2. h[s \ {Max(s)}] \in Nat
        BY <1>4, <3>2
      <4> HIDE DEF step
      <4> QED BY <1>4, <3>2, <4>1, <4>2
    <3> QED BY <3>1, <3>2
  <2> QED BY <2>1
<1>6. PICK f : f = CHOOSE g : Is(g)
  OBVIOUS
<1>7. Is(f)
  <2> HIDE DEF Is
  <2> QED BY <1>5, <1>6
<1>8. FoldsSets(f, N, 0, step)
  <2>1. f[{}] = 0
    BY <1>7
  <2>2. f \in [SUBSET (1..N) -> Nat]
    <3>1. GoOnAlike(f, h, N)
      BY <1>5, <1>7 DEF GoOnAlike
    <3>3. \A s \in SUBSET (1..N) : f[s] = h[s]
      <4>1. AlikeOnSets(f, h, N)
        BY ONLY N \in Nat, <3>1, Alike, Zenon
      <4> QED BY <4>1 DEF AlikeOnSets
    <3>4. \A s \in SUBSET (1..N) : f[s] \in Nat
      BY <3>3
    <3>5. DOMAIN f = SUBSET (1..N) /\ f = [s \in SUBSET (1..N) |-> f[s]]
      BY <1>7
    <3> HIDE DEF Is
    <3> QED BY <3>4, <3>5
  <2>3. ASSUME NEW s \in SUBSET (1..N), s # {} PROVE f[s] = step[Max(s)][f[s \ {Max(s)}]]
    <3>1. f[s] = f[s \ {Max(s)}] + runs[Max(s)]
      BY <1>7, <2>3
    <3>2. f[s \ {Max(s)}] \in Nat
      BY <1>4, <2>2, <2>3
    <3> HIDE DEF step
    <3> QED BY <1>4, <2>3, <3>1, <3>2
  <2> HIDE DEF step
  <2> QED BY <2>1, <2>3 DEF FoldsSets
<1>9. Width(runs) = f[1..N]
  <2>1. Width(runs) = LET all == CHOOSE each : Is(each) IN all[1..N]
    BY <1>1 DEF Width, FoldLeft, MapThenFoldSet
  <2> HIDE DEF Is
  <2> QED BY <1>6, <2>1
<1>10. PICK g : Recursion(g, N, Nat, 0, step) /\ f[1..N] = g[N]
  <2> HIDE DEF step
  <2>1. Folded(f[1..N], N, Nat, 0, step)
    BY ONLY N \in Nat, <1>2, <1>8, FoldFolds, Zenon
  <2> QED BY <2>1 DEF Folded
<1>11. g \in [0..N -> Nat] /\ g[0] = 0 /\ \A n \in 1..N : g[n] = step[n][g[n - 1]]
  <2> HIDE DEF step
  <2> QED BY <1>10 DEF Recursion
<1>12. \A n \in 1..N : g[n] = g[n - 1] + runs[n]
  <2>1. ASSUME NEW n \in 1..N PROVE g[n] = g[n - 1] + runs[n]
    <3>1. n - 1 \in 0..N
      OBVIOUS
    <3> QED BY <1>11, <3>1
  <2> QED BY <2>1
<1> QED BY <1>1, <1>9, <1>10, <1>11, <1>12 DEF EndsOf

\* The runs are white and black in turn.
LEMMA ColoursTurn ==
  \A n \in Nat : Colour(n) \in {0, 1} /\ Colour(n + 1) = 1 - Colour(n) /\ Colour(1) = 0
BY DEF Colour

\* The runs of a line have one end each.
LEMMA EndsAreEnds ==
  ASSUME NEW runs \in Seq(Nat), NEW e, EndsOf(e, runs), NEW f, EndsOf(f, runs)
  PROVE  e = f
<1>1. PICK N \in Nat : N = Len(runs)
  OBVIOUS
<1>2. /\ e \in [0..N -> Nat] /\ e[0] = 0 /\ \A n \in 1..N : e[n] = e[n - 1] + runs[n]
      /\ f \in [0..N -> Nat] /\ f[0] = 0 /\ \A n \in 1..N : f[n] = f[n - 1] + runs[n]
  BY <1>1 DEF EndsOf
<1> DEFINE S == {n \in 0..N : e[n] = f[n]}
<1>3. 0 \in S
  BY <1>2
<1>4. \A n \in 1..N : n - 1 \in S => n \in S
  BY <1>2
<1>5. 0..N \subseteq S
  <2> HIDE DEF S
  <2> QED BY <1>3, <1>4, InductionTo
<1>6. \A n \in 0..N : e[n] = f[n]
  BY <1>5
<1> QED BY <1>2, <1>6

\* Runs from their ends.
LEMMA EndsWidth ==
  ASSUME NEW runs \in Seq(Nat), NEW e, EndsOf(e, runs)
  PROVE  Width(runs) = e[Len(runs)]
BY WidthIsEnd, EndsAreEnds

\* The first runs of a line are as wide as the end of their last.
LEMMA EndsWidthTo ==
  ASSUME NEW runs \in Seq(Nat), NEW e, EndsOf(e, runs), NEW n \in 0..Len(runs)
  PROVE  WidthTo(runs, n) = e[n]
<1>1. PICK N \in Nat : N = Len(runs) /\ n <= N
  OBVIOUS
<1>2. e \in [0..N -> Nat] /\ e[0] = 0 /\ \A m \in 1..N : e[m] = e[m - 1] + runs[m]
  BY <1>1 DEF EndsOf
<1>3. n \in Nat /\ \A i \in 1..n : runs[i] \in Nat
  BY <1>1, ElementOfSeq
<1>4. SubSeq(runs, 1, n) \in Seq(Nat) /\ Len(SubSeq(runs, 1, n)) = n
      /\ \A i \in 1..n : SubSeq(runs, 1, n)[i] = runs[i]
  <2>1. SubSeq(runs, 1, n) \in Seq(Nat) /\ Len(SubSeq(runs, 1, n)) = n
    BY <1>3, SubSeqProperties
  <2>2. \A i \in 1..n : SubSeq(runs, 1, n)[i] = runs[i]
    BY <1>1, <1>3
  <2> QED BY <2>1, <2>2
<1>5. PICK s \in Seq(Nat) : s = SubSeq(runs, 1, n) /\ Len(s) = n /\ \A i \in 1..n : s[i] = runs[i]
  BY <1>4
<1> DEFINE f == [m \in 0..n |-> e[m]]
<1>6. EndsOf(f, s)
  <2>1. f \in [0..n -> Nat] /\ f[0] = 0
    BY <1>1, <1>2
  <2>2. \A m \in 1..n : f[m] = f[m - 1] + s[m]
    BY <1>1, <1>2, <1>5
  <2> HIDE DEF f
  <2> QED BY <1>5, <2>1, <2>2 DEF EndsOf
<1>7. f[n] = e[n]
  BY <1>3
<1> HIDE DEF f
<1>8. Width(s) = f[n]
  BY <1>5, <1>6, EndsWidth
<1> QED BY <1>5, <1>7, <1>8 DEF WidthTo

\* Ends that do not go back from one run to the next never do.
LEMMA EndsGrow ==
  ASSUME NEW N \in Nat, NEW e \in [0..N -> Nat], \A n \in 1..N : e[n - 1] <= e[n]
  PROVE  \A n \in 0..N : \A m \in 0..n : e[m] <= e[n]
<1> DEFINE S == {n \in 0..N : \A m \in 0..n : e[m] <= e[n]}
<1>1. 0 \in S
  OBVIOUS
<1>2. ASSUME NEW n \in 1..N, n - 1 \in S PROVE n \in S
  <2>1. ASSUME NEW m \in 0..n PROVE e[m] <= e[n]
    <3>1. CASE m = n
      BY <3>1
    <3>2. CASE m # n
      <4>1. m \in 0..(n - 1) /\ m \in 0..N /\ n \in 0..N /\ n - 1 \in 0..N
        BY <3>2
      <4>2. e[m] <= e[n - 1] /\ e[n - 1] <= e[n]
        BY <1>2, <4>1
      <4>3. e[m] \in Nat /\ e[n - 1] \in Nat /\ e[n] \in Nat
        BY <4>1
      <4> QED BY <4>2, <4>3
    <3> QED BY <3>1, <3>2
  <2> QED BY <2>1
<1>3. 0..N \subseteq S
  <2> HIDE DEF S
  <2> QED BY <1>1, <1>2, InductionTo
<1> QED BY <1>3

\* A pixel is in one run.
LEMMA EndsLocate ==
  ASSUME NEW N \in Nat, NEW e \in [0..N -> Nat], e[0] = 0, NEW x \in 1..e[N]
  PROVE  \E n \in 1..N : e[n - 1] < x /\ x <= e[n]
<1> DEFINE T == {n \in 0..N : x <= e[n]}
<1>1. T \subseteq Nat /\ N \in T
  OBVIOUS
<1>2. PICK n \in T : \A m \in T : n <= m
  <2> HIDE DEF T
  <2> QED BY <1>1, LeastNumber
<1>3. n \in 1..N
  <2>1. n # 0
    BY <1>2
  <2> QED BY <2>1
<1>4. ~(x <= e[n - 1])
  <2>1. n - 1 \notin T
    <3> HIDE DEF T
    <3>1. n \in Nat /\ ~(n <= n - 1)
      BY <1>3
    <3> QED BY <1>2, <3>1
  <2> QED BY <1>3, <2>1
<1>5. e[n - 1] \in Nat /\ x \in Nat
  BY <1>3
<1> QED BY <1>2, <1>3, <1>4, <1>5

\* A pixel is in one run only.
LEMMA EndsDiffer ==
  ASSUME NEW N \in Nat, NEW e \in [0..N -> Nat], \A n \in 1..N : e[n - 1] <= e[n],
         NEW n \in 1..N, NEW m \in 1..N, NEW x \in Nat,
         e[n - 1] < x, x <= e[n], e[m - 1] < x, x <= e[m]
  PROVE  n = m
<1>1. ASSUME NEW a \in 1..N, NEW b \in 1..N, a < b, e[b - 1] < x, x <= e[a] PROVE FALSE
  <2>1. a \in 0..(b - 1) /\ b - 1 \in 0..N /\ a \in 0..N
    BY <1>1
  <2>2. e[a] <= e[b - 1]
    BY <2>1, EndsGrow
  <2>3. e[a] \in Nat /\ e[b - 1] \in Nat
    BY <2>1
  <2> QED BY <1>1, <2>2, <2>3
<1>2. n < m \/ m < n \/ n = m
  OBVIOUS
<1> QED BY <1>1, <1>2

\* Which pixels are black: those of the runs with an even number.
Blacks(e, N, w) == {x \in 1..w : \E n \in 1..N : Colour(n) = 1 /\ e[n - 1] < x /\ x <= e[n]}

\* A line that draws the black pixels B of the width w.
Draws(runs, w, B) ==
  /\ runs \in Seq(Nat) /\ Len(runs) > 0
  /\ \E e : EndsOf(e, runs) /\ e[Len(runs)] = w /\ B = Blacks(e, Len(runs), w)

\* What a line that draws is made of: N runs that end at e.
MadeOf(runs, w, B, N, e) ==
  /\ N \in Nat \ {0} /\ e \in [0..N -> Nat]
  /\ runs \in Seq(Nat) /\ runs \in [1..N -> Nat] /\ N = Len(runs) /\ EndsOf(e, runs)
  /\ e[0] = 0 /\ e[N] = w /\ w \in Nat /\ B = Blacks(e, N, w) /\ B \subseteq 1..w
  /\ \A n \in 1..N : e[n] = e[n - 1] + runs[n] /\ e[n - 1] <= e[n]
  /\ Width(runs) = w

\* What draws is made of runs.
LEMMA DrawnBy ==
  ASSUME NEW runs, NEW w, NEW B, Draws(runs, w, B)
  PROVE  \E N, e : MadeOf(runs, w, B, N, e)
<1>1. PICK N \in Nat \ {0} : N = Len(runs) /\ runs \in [1..N -> Nat]
  BY ElementOfSeq DEF Draws
<1>2. PICK e : EndsOf(e, runs) /\ e[N] = w /\ B = Blacks(e, N, w)
  BY <1>1 DEF Draws
<1>3. e \in [0..N -> Nat] /\ e[0] = 0 /\ \A n \in 1..N : e[n] = e[n - 1] + runs[n]
  BY <1>1, <1>2 DEF EndsOf
<1>4. \A n \in 1..N : e[n - 1] <= e[n]
  <2>1. ASSUME NEW n \in 1..N PROVE e[n - 1] <= e[n]
    <3>1. n - 1 \in 0..N
      OBVIOUS
    <3>2. e[n - 1] \in Nat /\ runs[n] \in Nat
      BY <1>1, <1>3, <3>1
    <3> QED BY <1>3, <3>2
  <2> QED BY <2>1
<1>5. w \in Nat
  <2>1. N \in 0..N
    OBVIOUS
  <2> QED BY <1>2, <1>3, <2>1
<1>6. B \subseteq 1..w
  BY <1>2 DEF Blacks
<1>7. Width(runs) = w
  BY <1>1, <1>2, EndsWidth DEF Draws
<1>8. runs \in Seq(Nat)
  BY DEF Draws
<1> QED BY <1>1, <1>2, <1>3, <1>4, <1>5, <1>6, <1>7, <1>8 DEF MadeOf

\* What draws, by the ends of its runs.
LEMMA EndsDraw ==
  ASSUME NEW N \in Nat \ {0}, NEW runs \in [1..N -> Nat], NEW e \in [0..N -> Nat], e[0] = 0,
         \A n \in 1..N : e[n] = e[n - 1] + runs[n], NEW B, B = Blacks(e, N, e[N])
  PROVE  Draws(runs, e[N], B)
<1>1. runs \in Seq(Nat) /\ Len(runs) = N
  <2>1. PICK M \in Nat : M = N
    OBVIOUS
  <2>2. runs \in [1..M -> Nat]
    BY <2>1
  <2>3. runs \in Seq(Nat) /\ Len(runs) = M
    BY <2>2
  <2> QED BY <2>1, <2>3
<1>2. EndsOf(e, runs)
  BY <1>1 DEF EndsOf
<1> QED BY <1>1, <1>2 DEF Draws

-----------------------------------------------------------------------------
(* What the operators on lines draw.                                        *)

Bitmap(w, B) == [x \in 1..w |-> IF x \in B THEN 1 ELSE 0]

\* The pixels of a line are the picture that it draws.
LEMMA PixelsDrawn ==
  ASSUME NEW runs, NEW w, NEW B, Draws(runs, w, B)
  PROVE  Pixels(runs) = Bitmap(w, B)
<1>1. PICK N, e : MadeOf(runs, w, B, N, e)
  BY DrawnBy
<1>2. /\ N \in Nat \ {0} /\ e \in [0..N -> Nat] /\ runs \in [1..N -> Nat]
      /\ e[0] = 0 /\ e[N] = w /\ w \in Nat /\ B = Blacks(e, N, w)
      /\ \A n \in 1..N : e[n] = e[n - 1] + runs[n] /\ e[n - 1] <= e[n]
  BY <1>1 DEF MadeOf
<1> DEFINE seqs == [i \in 1..N |-> [j \in 1..runs[i] |-> Colour(i)]]
<1>3. seqs \in [1..N -> Seq({0, 1})]
  <2>1. ASSUME NEW i \in 1..N PROVE [j \in 1..runs[i] |-> Colour(i)] \in Seq({0, 1})
    <3>1. PICK k \in Nat : k = runs[i]
      BY <1>2
    <3>2. PICK c \in {0, 1} : c = Colour(i)
      BY ColoursTurn
    <3>3. [j \in 1..k |-> c] \in Seq({0, 1})
      OBVIOUS
    <3> QED BY <3>1, <3>2, <3>3
  <2> QED BY <2>1
<1>4. \A i \in 1..N : Len(seqs[i]) = runs[i] /\ \A j \in 1..runs[i] : seqs[i][j] = Colour(i)
  <2>1. ASSUME NEW i \in 1..N
        PROVE  Len(seqs[i]) = runs[i] /\ \A j \in 1..runs[i] : seqs[i][j] = Colour(i)
    <3>1. PICK k \in Nat : k = runs[i]
      BY <1>2
    <3>2. PICK c : c = Colour(i)
      OBVIOUS
    <3>3. seqs[i] = [j \in 1..k |-> c]
      BY <3>1, <3>2
    <3>4. Len([j \in 1..k |-> c]) = k
      OBVIOUS
    <3> HIDE DEF seqs
    <3> QED BY <3>1, <3>2, <3>3, <3>4
  <2> QED BY <2>1
<1>5. Pixels(runs) = FlattenSeq(seqs)
  BY <1>2 DEF Pixels
<1> HIDE DEF seqs
<1>6. PICK F : Joins(F, N, seqs, {0, 1})
  BY <1>2, <1>3, Flattened
<1>7. /\ F \in [0..N -> Seq({0, 1})] /\ F[0] = <<>> /\ F[N] = FlattenSeq(seqs)
      /\ \A n \in 1..N : F[n] = F[n - 1] \o seqs[n]
  BY <1>6 DEF Joins
<1> DEFINE Drawn(n) == /\ Len(F[n]) = e[n]
                       /\ \A x \in 1..e[n] : \E i \in 1..n :
                            e[i - 1] < x /\ x <= e[i] /\ F[n][x] = Colour(i)
           S == {n \in 0..N : Drawn(n)}
<1>8. 0 \in S
  BY <1>2, <1>7
<1>9. ASSUME NEW n \in 1..N, n - 1 \in S PROVE n \in S
  <2>1. n - 1 \in 0..N /\ n \in 0..N /\ Drawn(n - 1)
    <3>1. n \in 0..N
      OBVIOUS
    <3>2. n - 1 \in 0..N /\ Drawn(n - 1)
      <4> HIDE DEF Drawn
      <4> QED BY <1>9
    <3> QED BY <3>1, <3>2
  <2>2. PICK a, b \in Nat : a = e[n - 1] /\ b = e[n] /\ b = a + runs[n]
    BY <1>2, <2>1
  <2>3. PICK s, t \in Seq({0, 1}) : s = F[n - 1] /\ t = seqs[n] /\ F[n] = s \o t
    BY <1>3, <1>7, <2>1
  <2>4. PICK k \in Nat : k = runs[n] /\ Len(s) = a /\ Len(t) = k /\ b = a + k
    BY <1>2, <1>4, <2>1, <2>2, <2>3
  <2>5. Len(s \o t) = b /\ (\A x \in 1..a : (s \o t)[x] = s[x])
        /\ \A x \in 1..b : x > a => (s \o t)[x] = t[x - a]
    <3>1. Len(s \o t) = Len(s) + Len(t)
          /\ \A x \in 1..(Len(s) + Len(t)) :
               (s \o t)[x] = IF x <= Len(s) THEN s[x] ELSE t[x - Len(s)]
      <4>1. PICK Z : Z = {0, 1} /\ s \in Seq(Z) /\ t \in Seq(Z)
        BY <2>3
      <4> QED BY <4>1, ConcatProperties
    <3>2. Len(s \o t) = a + k
          /\ \A x \in 1..(a + k) : (s \o t)[x] = IF x <= a THEN s[x] ELSE t[x - a]
      BY <2>4, <3>1
    <3> QED BY <2>2, <2>4, <3>2
  <2>6. ASSUME NEW x \in 1..b
        PROVE  \E i \in 1..n : e[i - 1] < x /\ x <= e[i] /\ F[n][x] = Colour(i)
    <3>1. CASE x <= a
      <4>1. x \in 1..a
        BY <3>1
      <4>2. PICK i \in 1..(n - 1) : e[i - 1] < x /\ x <= e[i] /\ F[n - 1][x] = Colour(i)
        BY <2>1, <2>2, <4>1
      <4>3. F[n][x] = F[n - 1][x]
        BY <2>3, <2>5, <4>1
      <4> QED BY <4>2, <4>3
    <3>2. CASE x > a
      <4>1. x - a \in 1..k
        BY <2>4, <3>2
      <4>2. t[x - a] = Colour(n)
        BY <1>4, <2>3, <2>4, <4>1
      <4>3. F[n][x] = Colour(n)
        BY <2>3, <2>5, <3>2, <4>2
      <4>4. n \in 1..n /\ e[n - 1] < x /\ x <= e[n]
        BY <2>2, <3>2
      <4> QED BY <4>3, <4>4
    <3> QED BY <2>2, <3>1, <3>2
  <2>7. Len(F[n]) = e[n]
    BY <2>2, <2>3, <2>5
  <2>8. Drawn(n)
    BY <2>2, <2>6, <2>7
  <2> HIDE DEF Drawn
  <2> QED BY <2>1, <2>8
<1>10. 0..N \subseteq S
  <2> HIDE DEF S
  <2> QED BY <1>2, <1>8, <1>9, InductionTo
<1>11. Drawn(N)
  <2> HIDE DEF Drawn
  <2> QED BY <1>2, <1>10
<1>12. PICK p \in Seq({0, 1}) : p = Pixels(runs) /\ Len(p) = w
  BY <1>2, <1>5, <1>7, <1>11
<1>13. ASSUME NEW x \in 1..w PROVE p[x] = IF x \in B THEN 1 ELSE 0
  <2>1. PICK i \in 1..N : e[i - 1] < x /\ x <= e[i] /\ p[x] = Colour(i)
    BY <1>2, <1>5, <1>7, <1>11, <1>12
  <2>2. x \in B => Colour(i) = 1
    <3>1. ASSUME NEW n \in 1..N, Colour(n) = 1, e[n - 1] < x, x <= e[n] PROVE Colour(i) = 1
      <4>1. x \in Nat
        OBVIOUS
      <4>2. n = i
        BY <1>2, <2>1, <3>1, <4>1, EndsDiffer
      <4> QED BY <3>1, <4>2
    <3> QED BY <1>2, <3>1 DEF Blacks
  <2>3. Colour(i) = 1 => x \in B
    BY <1>2, <2>1 DEF Blacks
  <2>4. Colour(i) \in {0, 1}
    BY ColoursTurn
  <2> QED BY <2>1, <2>2, <2>3, <2>4
<1>14. p = [x \in 1..w |-> p[x]]
  BY <1>2, <1>12
<1> QED BY <1>12, <1>13, <1>14 DEF Bitmap

\* xscale() draws each pixel where its ends are scaled to.
LEMMA xscaleDraws ==
  ASSUME NEW runs, NEW w, NEW B, Draws(runs, w, B), NEW xs \in Nat
  PROVE  Draws(xscale(runs, xs), ScaledEnd(w, xs),
               {x \in 1..ScaledEnd(w, xs) :
                  \E y \in B : ScaledEnd(y - 1, xs) < x /\ x <= ScaledEnd(y, xs)})
<1>1. PICK N, e : MadeOf(runs, w, B, N, e)
  BY DrawnBy
<1>2. /\ N \in Nat \ {0} /\ e \in [0..N -> Nat] /\ runs \in [1..N -> Nat] /\ N = Len(runs)
      /\ runs \in Seq(Nat) /\ EndsOf(e, runs)
      /\ e[0] = 0 /\ e[N] = w /\ w \in Nat /\ B = Blacks(e, N, w)
      /\ \A n \in 1..N : e[n] = e[n - 1] + runs[n] /\ e[n - 1] <= e[n]
  BY <1>1 DEF MadeOf
<1>3. PICK S : S = [y \in Nat |-> ScaledEnd(y, xs)]
  OBVIOUS
<1>4. S \in [Nat -> Nat] /\ S[0] = 0
  <2>1. ASSUME NEW y \in Nat PROVE ScaledEnd(y, xs) \in Nat
    <3>1. PICK a \in Nat : a = y * xs
      OBVIOUS
    <3> QED BY <3>1 DEF ScaledEnd
  <2>2. ScaledEnd(0, xs) = 0
    <3>1. 0 * xs = 0
      OBVIOUS
    <3> QED BY <3>1 DEF ScaledEnd
  <2> QED BY <1>3, <2>1, <2>2
<1>5. \A y, z \in Nat : y <= z => S[y] <= S[z]
  <2>1. ASSUME NEW y \in Nat, NEW z \in Nat, y <= z PROVE S[y] <= S[z]
    <3>1. PICK d \in Nat : z = y + d
      <4>1. z - y \in Nat /\ z = y + (z - y)
        BY <2>1
      <4> QED BY <4>1
    <3>2. PICK a, b \in Nat : a = y * xs /\ b = d * xs
      OBVIOUS
    <3>3. z * xs = a + b
      BY <3>1, <3>2
    <3>4. (a + 128) \div 256 <= (a + b + 128) \div 256
      OBVIOUS
    <3> QED BY <1>3, <3>2, <3>3, <3>4 DEF ScaledEnd
  <2> QED BY <2>1
<1> DEFINE f == [n \in 0..N |-> S[e[n]]]
           s == [n \in 1..N |-> f[n] - f[n - 1]]
           C == {x \in 1..S[w] : \E y \in B : S[y - 1] < x /\ x <= S[y]}
<1>6. xscale(runs, xs) = s
  <2>1. ASSUME NEW n \in 0..N PROVE (WidthTo(runs, n) * xs + 128) \div 256 = f[n]
    <3>1. WidthTo(runs, n) = e[n] /\ e[n] \in Nat
      BY <1>2, EndsWidthTo
    <3> QED BY <1>3, <3>1 DEF ScaledEnd
  <2>2. \A n \in 1..N : n \in 0..N /\ n - 1 \in 0..N
    BY <1>2
  <2>3. DOMAIN runs = 1..N
    BY <1>2
  <2> HIDE DEF f
  <2> QED BY <2>1, <2>2, <2>3 DEF xscale
<1>7. f \in [0..N -> Nat] /\ f[0] = 0 /\ f[N] = S[w]
  BY <1>2, <1>4
<1>8. s \in [1..N -> Nat] /\ \A n \in 1..N : f[n] = f[n - 1] + s[n] /\ f[n - 1] <= f[n]
  <2>1. ASSUME NEW n \in 1..N PROVE f[n] - f[n - 1] \in Nat /\ f[n - 1] <= f[n]
    <3>0. n \in 0..N /\ n - 1 \in 0..N
      BY <1>2
    <3>1. n \in 0..N /\ n - 1 \in 0..N /\ e[n - 1] \in Nat /\ e[n] \in Nat /\ e[n - 1] <= e[n]
      BY <1>2, <3>0
    <3>2. f[n - 1] \in Nat /\ f[n] \in Nat /\ f[n - 1] <= f[n]
      BY <1>5, <1>7, <3>1
    <3> HIDE DEF f
    <3> QED BY <3>2
  <2>2. s \in [1..N -> Nat]
    <3> HIDE DEF f
    <3> QED BY <2>1
  <2>3. ASSUME NEW n \in 1..N PROVE f[n] = f[n - 1] + s[n] /\ f[n - 1] <= f[n]
    <3>1. n \in 0..N /\ n - 1 \in 0..N
      BY <1>2
    <3>2. f[n] \in Nat /\ f[n - 1] \in Nat /\ s[n] = f[n] - f[n - 1]
      BY <1>7, <3>1
    <3> HIDE DEF f, s
    <3> QED BY <2>1, <3>2
  <2> QED BY <2>2, <2>3
<1>9. C = Blacks(f, N, S[w])
  <2>1. ASSUME NEW x \in 1..S[w], NEW y \in B, S[y - 1] < x, x <= S[y]
        PROVE  \E n \in 1..N : Colour(n) = 1 /\ f[n - 1] < x /\ x <= f[n]
    <3>1. PICK n \in 1..N : Colour(n) = 1 /\ e[n - 1] < y /\ y <= e[n]
      BY <1>2 DEF Blacks
    <3>2. y \in Nat /\ y - 1 \in Nat /\ n \in 0..N /\ n - 1 \in 0..N
      BY <1>2 DEF Blacks
    <3>3. e[n - 1] <= y - 1 /\ e[n - 1] \in Nat /\ e[n] \in Nat
      <4>1. e[n - 1] \in Nat /\ e[n] \in Nat
        BY <1>2, <3>2
      <4> QED BY <3>1, <3>2, <4>1
    <3>4. S[e[n - 1]] <= S[y - 1] /\ S[y] <= S[e[n]]
      BY <1>5, <3>1, <3>2, <3>3
    <3>5. S[e[n - 1]] \in Nat /\ S[y - 1] \in Nat /\ S[y] \in Nat /\ S[e[n]] \in Nat /\ S[w] \in Nat
      BY <1>2, <1>4, <3>2, <3>3
    <3>6. S[e[n - 1]] < x /\ x <= S[e[n]]
      BY <2>1, <3>4, <3>5
    <3> QED BY <3>1, <3>2, <3>6
  <2>2. ASSUME NEW x \in 1..S[w], NEW n \in 1..N, Colour(n) = 1, f[n - 1] < x, x <= f[n]
        PROVE  \E y \in B : S[y - 1] < x /\ x <= S[y]
    <3>1. n \in 0..N /\ n - 1 \in 0..N
      BY <1>2
    <3>2. PICK a, b \in Nat : a = e[n - 1] /\ b = e[n] /\ a <= b /\ S[a] < x /\ x <= S[b]
      BY <1>2, <2>2, <3>1
    <3> DEFINE T == {y \in Nat : x <= S[y]}
    <3>3. T \subseteq Nat /\ b \in T
      BY <3>2
    <3>4. PICK y \in T : \A z \in T : y <= z
      <4> HIDE DEF T
      <4> QED BY <3>3, LeastNumber
    <3>5. y \in Nat /\ x <= S[y] /\ y <= b
      BY <3>3, <3>4
    <3>6. x \in Nat /\ S[a] \in Nat /\ S[y] \in Nat
      BY <1>2, <1>4, <3>2, <3>5
    <3>7. a < y
      <4>1. ASSUME y <= a PROVE FALSE
        BY <1>5, <3>2, <3>5, <3>6, <4>1
      <4> QED BY <3>2, <3>5, <4>1
    <3>8. y - 1 \in Nat /\ y - 1 \notin T
      <4>1. y - 1 \in Nat /\ ~(y <= y - 1)
        BY <3>2, <3>5, <3>7
      <4> HIDE DEF T
      <4> QED BY <3>4, <4>1
    <3>9. S[y - 1] < x
      BY <1>4, <3>6, <3>8
    <3>10. y \in B
      <4>1. e[N] = w /\ N \in 0..N /\ n \in 0..N
        BY <1>2
      <4>2. e[n] <= e[N]
        BY <1>2, <4>1, EndsGrow
      <4>3. y \in 1..w
        BY <1>2, <3>2, <3>5, <3>7, <4>1, <4>2
      <4> QED BY <1>2, <2>2, <3>2, <3>5, <3>7, <4>3 DEF Blacks
    <3> QED BY <3>5, <3>9, <3>10
  <2> HIDE DEF f
  <2> QED BY <2>1, <2>2 DEF Blacks
<1>10. C = {x \in 1..ScaledEnd(w, xs) :
                  \E y \in B : ScaledEnd(y - 1, xs) < x /\ x <= ScaledEnd(y, xs)}
  <2>1. ScaledEnd(w, xs) = S[w]
    BY <1>2, <1>3
  <2>2. \A y \in B : y \in Nat /\ y - 1 \in Nat
    BY <1>2 DEF Blacks
  <2>3. \A y \in B : ScaledEnd(y - 1, xs) = S[y - 1] /\ ScaledEnd(y, xs) = S[y]
    BY <1>3, <2>2
  <2> QED BY <2>1, <2>3
<1>11. Draws(s, S[w], C)
  <2> HIDE DEF f, s, C
  <2>1. C = Blacks(f, N, f[N])
    BY <1>7, <1>9
  <2>2. Draws(s, f[N], C)
    BY <1>2, <1>7, <1>8, <2>1, EndsDraw
  <2> QED BY <1>7, <2>2
<1>12. ScaledEnd(w, xs) = S[w]
  BY <1>2, <1>3
<1> HIDE DEF s, C
<1> QED BY <1>6, <1>10, <1>11, <1>12

Moved(B, w, s) == {x \in 1..(w + s) : x - s \in B}

\* xshift() to the right draws the same after white.
LEMMA xshiftRight ==
  ASSUME NEW runs, NEW w, NEW B, Draws(runs, w, B), NEW s \in Nat
  PROVE  Draws(xshift(runs, s), w + s, Moved(B, w, s))
<1>1. PICK N, e : MadeOf(runs, w, B, N, e)
  BY DrawnBy
<1>2. /\ N \in Nat \ {0} /\ e \in [0..N -> Nat] /\ runs \in [1..N -> Nat] /\ N = Len(runs)
      /\ runs \in Seq(Nat) /\ EndsOf(e, runs)
      /\ e[0] = 0 /\ e[N] = w /\ w \in Nat /\ B = Blacks(e, N, w)
      /\ \A n \in 1..N : e[n] = e[n - 1] + runs[n] /\ e[n - 1] <= e[n]
  BY <1>1 DEF MadeOf
<1> DEFINE t == [n \in 1..N |-> IF n = 1 THEN runs[1] + s ELSE runs[n]]
           f == [n \in 0..N |-> IF n = 0 THEN 0 ELSE e[n] + s]
<1>3. 1 \in 1..N /\ runs[1] \in Nat
  BY <1>2
<1>4. t \in [1..N -> Nat]
  BY <1>2, <1>3
<1>5. xshift(runs, s) = t
  <2>1. PICK a \in Nat : a = runs[1] + s
    BY <1>3
  <2>2. PICK u \in Seq(Nat) : u = Tail(runs) /\ Len(u) = N - 1 /\ \A i \in 1..(N - 1) : u[i] = runs[i + 1]
    <3>1. runs # <<>>
      BY <1>2
    <3>2. /\ Tail(runs) \in Seq(Nat) /\ Len(Tail(runs)) = N - 1
          /\ \A i \in 1..(N - 1) : Tail(runs)[i] = runs[i + 1]
      BY <1>2, <3>1, HeadTailProperties
    <3> QED BY <3>2
  <2>3. PICK v \in Seq(Nat) : v = <<a>> /\ Len(v) = 1 /\ v[1] = a
    <3>1. <<a>> \in Seq(Nat) /\ Len(<<a>>) = 1 /\ <<a>>[1] = a
      OBVIOUS
    <3> QED BY <3>1
  <2>4. v \o u \in Seq(Nat) /\ Len(v \o u) = N
        /\ \A i \in 1..N : (v \o u)[i] = IF i <= 1 THEN v[i] ELSE u[i - 1]
    <3>1. /\ v \o u \in Seq(Nat) /\ Len(v \o u) = Len(v) + Len(u)
          /\ \A i \in 1..(Len(v) + Len(u)) : (v \o u)[i] = IF i <= Len(v) THEN v[i] ELSE u[i - Len(v)]
      BY ConcatProperties
    <3>2. Len(v) + Len(u) = N
      BY <1>2, <2>2, <2>3
    <3> QED BY <2>3, <3>1, <3>2
  <2>5. ASSUME NEW i \in 1..N PROVE (v \o u)[i] = t[i]
    <3>1. CASE i = 1
      BY <2>1, <2>3, <2>4, <3>1
    <3>2. CASE i # 1
      <4>1. i - 1 \in 1..(N - 1) /\ ~(i <= 1)
        BY <1>2, <3>2
      <4>2. u[i - 1] = runs[(i - 1) + 1] /\ (i - 1) + 1 = i
        BY <2>2, <4>1
      <4>3. (v \o u)[i] = runs[i]
        BY <2>4, <4>1, <4>2
      <4> QED BY <3>2, <4>3
    <3> QED BY <3>1, <3>2
  <2>6. v \o u = t
    <3>1. t = [n \in 1..N |-> t[n]]
      OBVIOUS
    <3> HIDE DEF t
    <3>2. N \in Nat
      BY <1>2
    <3>3. PICK z \in Seq(Nat) : z = v \o u /\ Len(z) = N /\ \A i \in 1..N : z[i] = t[i]
      BY <2>4, <2>5
    <3>4. z \in [1..N -> Nat]
      <4>1. z \in [1..Len(z) -> Nat]
        BY ElementOfSeq
      <4> HIDE DEF t
      <4> QED BY <3>3, <4>1
    <3>5. z = t
      BY <1>4, <3>3, <3>4
    <3> QED BY <3>3, <3>5
  <2>7. xshift(runs, s) = v \o u
    BY <2>1, <2>2, <2>3 DEF xshift
  <2> QED BY <2>6, <2>7
<1>6. f \in [0..N -> Nat] /\ f[0] = 0 /\ f[N] = w + s
  <2>1. N \in 0..N /\ N # 0
    BY <1>2
  <2>2. f \in [0..N -> Nat]
    BY <1>2
  <2> QED BY <1>2, <2>1, <2>2
<1>7. \A n \in 1..N : f[n] = f[n - 1] + t[n]
  <2>1. ASSUME NEW n \in 1..N PROVE f[n] = f[n - 1] + t[n]
    <3>1. n \in 0..N /\ n - 1 \in 0..N /\ n # 0
      BY <1>2
    <3>2. f[n] = e[n] + s /\ f[n - 1] = IF n = 1 THEN 0 ELSE e[n - 1] + s
      BY <3>1
    <3>3. t[n] = IF n = 1 THEN runs[1] + s ELSE runs[n]
      OBVIOUS
    <3>4. e[n] = e[n - 1] + runs[n] /\ e[n - 1] \in Nat /\ runs[n] \in Nat
      BY <1>2, <3>1
    <3>5. n = 1 => e[n - 1] = 0 /\ runs[n] = runs[1]
      BY <1>2
    <3> HIDE DEF f, t
    <3> QED BY <1>3, <3>2, <3>3, <3>4, <3>5
  <2> QED BY <2>1
<1>8. Moved(B, w, s) = Blacks(f, N, w + s)
  <2>1. ASSUME NEW x \in 1..(w + s), NEW n \in 1..N, Colour(n) = 1
        PROVE  (f[n - 1] < x /\ x <= f[n]) <=> (e[n - 1] < x - s /\ x - s <= e[n])
    <3>1. n # 1
      BY <2>1, ColoursTurn
    <3>2. n \in 0..N /\ n - 1 \in 0..N /\ n # 0 /\ n - 1 # 0
      BY <1>2, <3>1
    <3>3. f[n] = e[n] + s /\ f[n - 1] = e[n - 1] + s
      BY <3>2
    <3>4. e[n] \in Nat /\ e[n - 1] \in Nat /\ x \in Nat
      <4>1. e[n] \in Nat /\ e[n - 1] \in Nat
        BY <1>2, <3>2
      <4>2. x \in Nat
        BY <1>2
      <4> QED BY <4>1, <4>2
    <3> HIDE DEF f
    <3> QED BY <3>3, <3>4
  <2>2. ASSUME NEW x \in 1..(w + s), NEW n \in 1..N, e[n - 1] < x - s, x - s <= e[n]
        PROVE  x - s \in 1..w
    <3>1. n \in 0..N /\ n - 1 \in 0..N /\ N \in 0..N /\ x \in Nat
      BY <1>2
    <3>2. e[n] <= e[N] /\ e[n - 1] \in Nat /\ e[n] \in Nat
      BY <1>2, <3>1, EndsGrow
    <3> QED BY <1>2, <2>2, <3>1, <3>2
  <2> HIDE DEF f
  <2> QED BY <1>2, <2>1, <2>2 DEF Moved, Blacks
<1> HIDE DEF t, f
<1>9. Moved(B, w, s) = Blacks(f, N, f[N])
  BY <1>6, <1>8
<1>10. Draws(t, f[N], Moved(B, w, s))
  BY <1>2, <1>4, <1>6, <1>7, <1>9, EndsDraw
<1> QED BY <1>5, <1>6, <1>10

\* xshift() to the left draws the same without what falls off the line.
LEMMA xshiftLeft ==
  ASSUME NEW runs, NEW w, NEW B, Draws(runs, w, B), NEW s \in Int, s < 0, w + s >= 0
  PROVE  Draws(xshift(runs, s), w + s, Moved(B, w, s))
<1>1. PICK N, e : MadeOf(runs, w, B, N, e)
  BY DrawnBy
<1>2. /\ N \in Nat \ {0} /\ e \in [0..N -> Nat] /\ runs \in [1..N -> Nat] /\ N = Len(runs)
      /\ runs \in Seq(Nat) /\ EndsOf(e, runs)
      /\ e[0] = 0 /\ e[N] = w /\ w \in Nat /\ B = Blacks(e, N, w)
      /\ \A n \in 1..N : e[n] = e[n - 1] + runs[n] /\ e[n - 1] <= e[n]
  BY <1>1 DEF MadeOf
<1>3. \A n \in 1..N : WidthTo(runs, n) = e[n]
  <2>1. \A n \in 1..N : n \in 0..Len(runs)
    BY <1>2
  <2> QED BY <1>2, <2>1, EndsWidthTo
<1> DEFINE enough == {n \in DOMAIN runs : s + WidthTo(runs, n) >= 0}
<1>4. enough = {n \in 1..N : s + e[n] >= 0} /\ N \in enough /\ enough \subseteq Nat
  BY <1>2, <1>3
<1>5. PICK k \in 1..N : k = Min(enough) /\ s + e[k] >= 0 /\ \A n \in 1..N : n < k => s + e[n] < 0
  <2>1. PICK m \in enough : \A n \in enough : m <= n
    <3> HIDE DEF enough
    <3> QED BY <1>4, LeastNumber
  <2>2. Min(enough) \in enough /\ \A n \in enough : Min(enough) <= n
    <3> HIDE DEF enough
    <3> QED BY <2>1 DEF Min
  <2>3. PICK k : k = Min(enough)
    OBVIOUS
  <2>4. k \in 1..N /\ s + e[k] >= 0
    <3> HIDE DEF enough
    <3> QED BY <1>4, <2>2, <2>3
  <2>5. ASSUME NEW n \in 1..N, n < k PROVE s + e[n] < 0
    <3>1. n \notin enough
      <4>1. ~(k <= n)
        BY <2>4, <2>5
      <4> HIDE DEF enough
      <4> QED BY <2>2, <2>3, <4>1
    <3>2. n \in 0..N
      BY <1>2
    <3>3. e[n] \in Nat
      BY <1>2, <3>2
    <3> QED BY <1>4, <3>1, <3>3
  <2> QED BY <2>3, <2>4, <2>5
<1> DEFINE t == [n \in 1..N |-> IF n < k THEN 0 ELSE IF n = k THEN s + e[k] ELSE runs[n]]
           f == [n \in 0..N |-> IF n < k THEN 0 ELSE s + e[n]]
<1>6. xshift(runs, s) = t
  <2>1. enough # {} /\ DOMAIN runs = 1..N
    BY <1>2, <1>4
  <2>2. xshift(runs, s) = [n \in DOMAIN runs |-> IF n < k THEN 0
                              ELSE IF n = k THEN s + WidthTo(runs, k) ELSE runs[n]]
    <3>1. ~(s >= 0)
      OBVIOUS
    <3>2. PICK E : E = enough /\ E # {} /\ k = Min(E)
      BY <1>5, <2>1
    <3>3. xshift(runs, s) = LET m == IF E = {} THEN Len(runs) ELSE Min(E)
                            IN [n \in DOMAIN runs |-> IF n < m THEN 0
                                  ELSE IF n = m THEN s + WidthTo(runs, m) ELSE runs[n]]
      BY <3>1, <3>2 DEF xshift
    <3> HIDE DEF enough
    <3> QED BY <3>2, <3>3
  <2> HIDE DEF enough
  <2> QED BY <1>3, <2>1, <2>2
<1> HIDE DEF enough
<1>7. f \in [0..N -> Nat] /\ f[0] = 0 /\ f[N] = w + s
  <2>1. ASSUME NEW n \in 0..N, ~(n < k) PROVE s + e[n] \in Nat
    <3>1. k \in 0..n /\ k \in 0..N
      BY <1>5, <2>1
    <3>2. e[k] <= e[n] /\ e[k] \in Nat /\ e[n] \in Nat
      BY <1>2, <3>1, EndsGrow
    <3> QED BY <1>5, <3>2
  <2>2. f \in [0..N -> Nat]
    BY <2>1
  <2>3. 0 < k /\ 0 \in 0..N /\ N \in 0..N /\ ~(N < k)
    BY <1>2, <1>5
  <2>4. f[0] = 0 /\ f[N] = s + e[N]
    BY <2>3
  <2> QED BY <1>2, <2>2, <2>4
<1>8. t \in [1..N -> Nat]
  <2>1. s + e[k] \in Nat
    BY <1>2, <1>5
  <2> QED BY <1>2, <2>1
<1>9. \A n \in 1..N : f[n] = f[n - 1] + t[n]
  <2>1. ASSUME NEW n \in 1..N PROVE f[n] = f[n - 1] + t[n]
    <3>1. n \in 0..N /\ n - 1 \in 0..N
      BY <1>2
    <3>2. f[n] = (IF n < k THEN 0 ELSE s + e[n]) /\ f[n - 1] = IF n - 1 < k THEN 0 ELSE s + e[n - 1]
      BY <3>1
    <3>3. t[n] = IF n < k THEN 0 ELSE IF n = k THEN s + e[k] ELSE runs[n]
      OBVIOUS
    <3>4. e[n] = e[n - 1] + runs[n] /\ e[n - 1] \in Nat /\ e[n] \in Nat /\ runs[n] \in Nat
      BY <1>2, <3>1
    <3> HIDE DEF f, t
    <3>5. CASE n < k
      BY <1>5, <3>2, <3>3, <3>5
    <3>6. CASE n = k
      BY <1>5, <3>2, <3>3, <3>4, <3>6
    <3>7. CASE n > k
      BY <1>5, <3>2, <3>3, <3>4, <3>7
    <3> QED BY <1>5, <3>5, <3>6, <3>7
  <2> QED BY <2>1
<1>10. Moved(B, w, s) = Blacks(f, N, w + s)
  <2>1. ASSUME NEW x \in 1..(w + s), NEW n \in 1..N
        PROVE  (f[n - 1] < x /\ x <= f[n]) <=> (e[n - 1] < x - s /\ x - s <= e[n])
    <3>1. n \in 0..N /\ n - 1 \in 0..N
      BY <1>2
    <3>2. f[n] = (IF n < k THEN 0 ELSE s + e[n]) /\ f[n - 1] = IF n - 1 < k THEN 0 ELSE s + e[n - 1]
      BY <3>1
    <3>3. e[n - 1] \in Nat /\ e[n] \in Nat /\ x \in Nat /\ x > 0
      <4>1. e[n] \in Nat /\ e[n - 1] \in Nat
        BY <1>2, <3>1
      <4>2. x \in Nat /\ x > 0
        BY <1>2
      <4> QED BY <4>1, <4>2
    <3>4. n < k => s + e[n] < 0
      BY <1>5
    <3>5. n - 1 < k => s + e[n - 1] < 0
      <4>1. CASE n = 1
        <5>1. e[n - 1] = 0
          BY <1>2, <4>1
        <5> QED BY <5>1
      <4>2. CASE n # 1
        <5>1. n - 1 \in 1..N
          BY <1>2, <4>2
        <5> HIDE DEF f
        <5> QED BY <1>5, <5>1
      <4> QED BY <4>1, <4>2
    <3> HIDE DEF f
    <3> QED BY <3>2, <3>3, <3>4, <3>5
  <2>2. ASSUME NEW x \in 1..(w + s), NEW n \in 1..N, e[n - 1] < x - s, x - s <= e[n]
        PROVE  x - s \in 1..w
    <3>1. n \in 0..N /\ n - 1 \in 0..N /\ N \in 0..N /\ x \in Nat
      BY <1>2
    <3>2. e[n] <= e[N] /\ e[n - 1] \in Nat /\ e[n] \in Nat
      BY <1>2, <3>1, EndsGrow
    <3> QED BY <1>2, <2>2, <3>1, <3>2
  <2> HIDE DEF f
  <2> QED BY <1>2, <2>1, <2>2 DEF Moved, Blacks
<1> HIDE DEF t, f
<1>11. Moved(B, w, s) = Blacks(f, N, f[N])
  BY <1>7, <1>10
<1>12. Draws(t, f[N], Moved(B, w, s))
  BY <1>2, <1>7, <1>8, <1>9, <1>11, EndsDraw
<1> QED BY <1>6, <1>7, <1>12

\* B and the pixels after w up to v if they are black.
More(B, w, v, col) == B \cup (IF col = 1 THEN (w + 1)..v ELSE {})

\* Runs that end at f draw what is black up to w, and one more to v.
OneRunMore(f, M, w, v, B, col) ==
  /\ w \in Nat /\ v \in Nat /\ w <= v /\ B \subseteq 1..w /\ M \in Nat \ {0} /\ Colour(M) = col
  /\ \A x \in 1..w : x \in B <=> \E n \in 1..M : Colour(n) = 1 /\ f[n - 1] < x /\ x <= f[n]
  /\ \A x \in (w + 1)..v : \A n \in 1..M : (f[n - 1] < x /\ x <= f[n]) <=> n = M

\* One run more draws the picture and what is black of that run.
LEMMA MoreIsBlack ==
  ASSUME NEW w, NEW v, NEW B, NEW col, NEW M, NEW f, OneRunMore(f, M, w, v, B, col)
  PROVE  More(B, w, v, col) = Blacks(f, M, v)
<1>0. w \in Nat /\ v \in Nat /\ w <= v /\ B \subseteq 1..w /\ M \in Nat \ {0} /\ Colour(M) = col
  BY DEF OneRunMore
<1>1. M \in 1..M
  BY <1>0
<1>2. ASSUME NEW x \in 1..w
      PROVE  x \in 1..v /\ (x \in More(B, w, v, col) <=> x \in Blacks(f, M, v))
  <2>1. x \in 1..v /\ x \notin (w + 1)..v
    BY <1>0
  <2>2. x \in More(B, w, v, col) <=> x \in B
    BY <1>0, <2>1 DEF More
  <2> QED BY <1>0, <2>1, <2>2 DEF Blacks, OneRunMore
<1>3. ASSUME NEW x \in (w + 1)..v
      PROVE  x \in 1..v /\ (x \in More(B, w, v, col) <=> x \in Blacks(f, M, v))
  <2>1. x \in 1..v /\ x \notin 1..w
    BY <1>0
  <2>2. x \in More(B, w, v, col) <=> col = 1
    BY <1>0, <2>1 DEF More
  <2>3. x \in Blacks(f, M, v) <=> \E n \in 1..M : Colour(n) = 1 /\ n = M
    BY <1>0, <2>1 DEF Blacks, OneRunMore
  <2> QED BY <1>0, <1>1, <2>1, <2>2, <2>3
<1>4. \A x : x \in 1..v => x \in 1..w \/ x \in (w + 1)..v
  BY <1>0
<1>5. More(B, w, v, col) \subseteq 1..v /\ Blacks(f, M, v) \subseteq 1..v
  <2>1. \A x \in 1..w : x \in 1..v
    BY <1>0
  <2>2. \A x \in (w + 1)..v : x \in 1..v
    BY <1>0
  <2> QED BY <1>0, <2>1, <2>2 DEF More, Blacks
<1> QED BY <1>2, <1>3, <1>4, <1>5

\* A run put at the end of a line draws that run after the line.
LEMMA PutRunDraws ==
  ASSUME NEW runs, NEW w, NEW B, Draws(runs, w, B), NEW pad \in Nat, NEW col \in {0, 1}
  PROVE  Draws(PutRun(runs, col, pad), w + pad, More(B, w, w + pad, col))
<1>1. PICK N, e : MadeOf(runs, w, B, N, e)
  BY DrawnBy
<1>2. /\ N \in Nat \ {0} /\ e \in [0..N -> Nat] /\ runs \in [1..N -> Nat] /\ N = Len(runs)
      /\ runs \in Seq(Nat) /\ EndsOf(e, runs)
      /\ e[0] = 0 /\ e[N] = w /\ w \in Nat /\ B = Blacks(e, N, w) /\ B \subseteq 1..w
      /\ \A n \in 1..N : e[n] = e[n - 1] + runs[n] /\ e[n - 1] <= e[n]
  BY <1>1 DEF MadeOf
<1>3. \A n \in 0..N : e[n] \in Nat /\ e[n] <= w
  <2>1. ASSUME NEW n \in 0..N PROVE e[n] <= w
    <3>1. N \in 0..N /\ n \in 0..N /\ e[N] = w
      BY <1>2
    <3>2. e[n] <= e[N]
      BY <1>2, <3>1, EndsGrow
    <3> QED BY <3>1, <3>2
  <2> QED BY <1>2, <2>1
<1>4. CASE Colour(N) = col
  <2> DEFINE t == [n \in 1..N |-> IF n = N THEN runs[N] + pad ELSE runs[n]]
             f == [n \in 0..N |-> IF n = N THEN w + pad ELSE e[n]]
  <2>1. t \in [1..N -> Nat] /\ N \in 1..N
    BY <1>2
  <2>2. PutRun(runs, col, pad) = t
    <3>1. PICK u \in Seq(Nat) : u = Front(runs) /\ Len(u) = N - 1 /\ \A i \in 1..(N - 1) : u[i] = runs[i]
      <4>1. \A i \in 1..(N - 1) : runs[i] \in Nat
        BY <1>2
      <4>2. 1 \in Int /\ N - 1 \in Int
        BY <1>2
      <4>3. /\ SubSeq(runs, 1, N - 1) \in Seq(Nat)
            /\ Len(SubSeq(runs, 1, N - 1)) = IF 1 <= N - 1 THEN (N - 1) - 1 + 1 ELSE 0
            /\ \A i \in 1..((N - 1) - 1 + 1) : SubSeq(runs, 1, N - 1)[i] = runs[1 + i - 1]
        BY <4>1, <4>2, SubSeqProperties
      <4>4. (N - 1) - 1 + 1 = N - 1 /\ \A i \in 1..(N - 1) : 1 + i - 1 = i
        BY <1>2
      <4>5. /\ Len(SubSeq(runs, 1, N - 1)) = N - 1
            /\ \A i \in 1..(N - 1) : SubSeq(runs, 1, N - 1)[i] = runs[i]
        BY <1>2, <4>3, <4>4
      <4> QED BY <1>2, <4>3, <4>5 DEF Front
    <3>2. PICK a \in Nat : a = runs[N] + pad
      BY <2>1
    <3>3. PutRun(runs, col, pad) = Append(u, a)
      BY <1>2, <1>4, <3>1, <3>2 DEF PutRun, Last
    <3>4. PICK z \in Seq(Nat) :
            z = Append(u, a) /\ Len(z) = N /\ z[N] = a /\ \A i \in 1..(N - 1) : z[i] = u[i]
      <4>1. /\ Append(u, a) \in Seq(Nat) /\ Len(Append(u, a)) = Len(u) + 1
            /\ \A i \in 1..Len(u) : Append(u, a)[i] = u[i]
            /\ Append(u, a)[Len(u) + 1] = a
        BY AppendProperties
      <4>2. Len(u) + 1 = N
        BY <1>2, <3>1
      <4> QED BY <3>1, <4>1, <4>2
    <3>5. z \in [1..N -> Nat]
      <4>1. z \in [1..Len(z) -> Nat]
        BY ElementOfSeq
      <4> HIDE DEF t
      <4> QED BY <3>4, <4>1
    <3>6. ASSUME NEW i \in 1..N PROVE z[i] = t[i]
      <4>1. CASE i = N
        BY <3>2, <3>4, <4>1
      <4>2. CASE i # N
        <5>1. i \in 1..(N - 1)
          <6>1. N \in Nat
            BY <1>2
          <6> HIDE DEF t, f
          <6> QED BY <4>2, <6>1
        <5>2. z[i] = runs[i]
          BY <3>1, <3>4, <5>1
        <5> QED BY <4>2, <5>2
      <4> QED BY <4>1, <4>2
    <3>7. z = t
      <4> HIDE DEF t
      <4> QED BY <2>1, <3>5, <3>6
    <3> QED BY <3>3, <3>4, <3>7
  <2>3. f \in [0..N -> Nat] /\ f[0] = 0 /\ f[N] = w + pad
    <3>1. 0 \in 0..N /\ N \in 0..N /\ 0 # N
      BY <1>2
    <3> QED BY <1>2, <3>1
  <2>4. ASSUME NEW n \in 1..N PROVE f[n] = f[n - 1] + t[n]
    <3>1. n \in 0..N /\ n - 1 \in 0..N /\ n - 1 # N
      BY <1>2
    <3>2. f[n - 1] = e[n - 1] /\ f[n] = (IF n = N THEN w + pad ELSE e[n])
      BY <3>1
    <3>3. t[n] = IF n = N THEN runs[N] + pad ELSE runs[n]
      OBVIOUS
    <3>4. e[n] = e[n - 1] + runs[n] /\ e[n - 1] \in Nat /\ runs[n] \in Nat
      BY <1>2, <3>1
    <3> HIDE DEF f, t
    <3>5. CASE n = N
      <4>1. f[n] = w + pad /\ t[n] = runs[N] + pad /\ w = e[n - 1] + runs[N]
        BY <1>2, <3>2, <3>3, <3>4, <3>5
      <4>2. runs[N] \in Nat
        BY <2>1, <3>4, <3>5
      <4> QED BY <3>2, <3>4, <4>1, <4>2
    <3>6. CASE n # N
      BY <3>2, <3>3, <3>4, <3>6
    <3> QED BY <3>5, <3>6
  <2>5. ASSUME NEW x \in 1..w, NEW n \in 1..N
        PROVE  (f[n - 1] < x /\ x <= f[n]) <=> (e[n - 1] < x /\ x <= e[n])
    <3>1. n \in 0..N /\ n - 1 \in 0..N /\ n - 1 # N
      BY <1>2
    <3>2. f[n - 1] = e[n - 1] /\ f[n] = (IF n = N THEN w + pad ELSE e[n])
      BY <3>1
    <3>3. x <= w + pad /\ x <= w
      BY <1>2
    <3> HIDE DEF f, t
    <3> QED BY <1>2, <3>2, <3>3
  <2>6. ASSUME NEW x \in (w + 1)..(w + pad), NEW n \in 1..N
        PROVE  (f[n - 1] < x /\ x <= f[n]) <=> n = N
    <3>1. n \in 0..N /\ n - 1 \in 0..N /\ n - 1 # N
      BY <1>2
    <3>2. f[n - 1] = e[n - 1] /\ f[n] = (IF n = N THEN w + pad ELSE e[n])
      BY <3>1
    <3>3. x <= w + pad /\ w < x /\ x \in Int /\ w \in Nat
      BY <1>2
    <3>4. e[n - 1] <= w /\ e[n] <= w /\ e[n - 1] \in Nat /\ e[n] \in Nat
      BY <1>3, <3>1
    <3> HIDE DEF f, t
    <3> QED BY <3>2, <3>3, <3>4
  <2>7. More(B, w, w + pad, col) = Blacks(f, N, f[N])
    <3>1. ASSUME NEW x \in 1..w
          PROVE  x \in B <=> \E n \in 1..N : Colour(n) = 1 /\ f[n - 1] < x /\ x <= f[n]
      <4> HIDE DEF f, t
      <4> QED BY <1>2, <2>5 DEF Blacks
    <3>2. w + pad \in Nat /\ w <= w + pad
      BY <1>2
    <3>3. OneRunMore(f, N, w, w + pad, B, col)
      <4> HIDE DEF f, t
      <4> QED BY <1>2, <1>4, <2>6, <3>1, <3>2 DEF OneRunMore
    <3>5. More(B, w, w + pad, col) = Blacks(f, N, w + pad)
      BY <3>3, MoreIsBlack
    <3> QED BY <2>3, <3>5
  <2> HIDE DEF t, f
  <2>8. Draws(t, f[N], More(B, w, w + pad, col))
    BY <1>2, <2>1, <2>3, <2>4, <2>7, EndsDraw
  <2> QED BY <2>2, <2>3, <2>8
<1>5. CASE Colour(N) # col
  <2> DEFINE t == [n \in 1..(N + 1) |-> IF n = N + 1 THEN pad ELSE runs[n]]
             f == [n \in 0..(N + 1) |-> IF n = N + 1 THEN w + pad ELSE e[n]]
  <2>1. t \in [1..(N + 1) -> Nat] /\ N + 1 \in Nat \ {0}
    <3>1. \A n \in 1..(N + 1) : n # N + 1 => n \in 1..N
      BY <1>2
    <3> QED BY <1>2, <3>1
  <2>2. PutRun(runs, col, pad) = t
    <3>1. PutRun(runs, col, pad) = Append(runs, pad)
      BY <1>2, <1>5 DEF PutRun
    <3>2. /\ Append(runs, pad) \in Seq(Nat) /\ Len(Append(runs, pad)) = N + 1
          /\ \A i \in 1..N : Append(runs, pad)[i] = runs[i]
          /\ Append(runs, pad)[N + 1] = pad
      BY <1>2, AppendProperties
    <3>3. PICK z \in Seq(Nat) :
            z = Append(runs, pad) /\ Len(z) = N + 1 /\ z[N + 1] = pad /\ \A i \in 1..N : z[i] = runs[i]
      BY <3>2
    <3>4. z \in [1..(N + 1) -> Nat]
      <4>1. z \in [1..Len(z) -> Nat]
        BY ElementOfSeq
      <4> HIDE DEF t
      <4> QED BY <3>3, <4>1
    <3>5. ASSUME NEW i \in 1..(N + 1) PROVE z[i] = t[i]
      <4>1. i # N + 1 => i \in 1..N
        BY <1>2
      <4> QED BY <3>3, <4>1
    <3>6. z = t
      <4> HIDE DEF t
      <4> QED BY <2>1, <3>4, <3>5
    <3> QED BY <3>1, <3>3, <3>6
  <2>3. f \in [0..(N + 1) -> Nat] /\ f[0] = 0 /\ f[N + 1] = w + pad
    <3>1. 0 \in 0..(N + 1) /\ N + 1 \in 0..(N + 1) /\ 0 # N + 1
          /\ \A n \in 0..(N + 1) : n # N + 1 => n \in 0..N
      BY <1>2
    <3> QED BY <1>2, <3>1
  <2>4. ASSUME NEW n \in 1..(N + 1) PROVE f[n] = f[n - 1] + t[n]
    <3>1. n \in 0..(N + 1) /\ n - 1 \in 0..N /\ n - 1 \in 0..(N + 1) /\ n - 1 # N + 1
          /\ (n # N + 1 => n \in 1..N) /\ (n = N + 1 => n - 1 = N)
      BY <1>2
    <3>2. f[n - 1] = e[n - 1] /\ f[n] = (IF n = N + 1 THEN w + pad ELSE e[n])
      BY <3>1
    <3>3. t[n] = IF n = N + 1 THEN pad ELSE runs[n]
      OBVIOUS
    <3> HIDE DEF f, t
    <3> QED BY <1>2, <3>1, <3>2, <3>3
  <2>5. ASSUME NEW x \in 1..w, NEW n \in 1..(N + 1)
        PROVE  (f[n - 1] < x /\ x <= f[n]) <=> (n \in 1..N /\ e[n - 1] < x /\ x <= e[n])
    <3>1. n \in 0..(N + 1) /\ n - 1 \in 0..(N + 1) /\ n - 1 # N + 1
          /\ (n # N + 1 => n \in 1..N) /\ (n = N + 1 => n - 1 = N /\ n \notin 1..N)
      BY <1>2
    <3>2. f[n - 1] = e[n - 1] /\ f[n] = (IF n = N + 1 THEN w + pad ELSE e[n])
      BY <3>1
    <3>3. x <= w
      BY <1>2
    <3> HIDE DEF f, t
    <3> QED BY <1>2, <3>1, <3>2, <3>3
  <2>6. ASSUME NEW x \in (w + 1)..(w + pad), NEW n \in 1..(N + 1)
        PROVE  (f[n - 1] < x /\ x <= f[n]) <=> n = N + 1
    <3>1. n \in 0..(N + 1) /\ n - 1 \in 0..N /\ n - 1 \in 0..(N + 1) /\ n - 1 # N + 1
          /\ (n # N + 1 => n \in 0..N)
      BY <1>2
    <3>2. f[n - 1] = e[n - 1] /\ f[n] = (IF n = N + 1 THEN w + pad ELSE e[n])
      BY <3>1
    <3>3. x <= w + pad /\ w < x /\ x \in Int /\ w \in Nat
      BY <1>2
    <3>4. e[n - 1] <= w /\ e[n - 1] \in Nat /\ (n # N + 1 => e[n] <= w /\ e[n] \in Nat)
      BY <1>3, <3>1
    <3> HIDE DEF f, t
    <3> QED BY <3>2, <3>3, <3>4
  <2>7. More(B, w, w + pad, col) = Blacks(f, N + 1, f[N + 1])
    <3>1. ASSUME NEW x \in 1..w
          PROVE  x \in B <=> \E n \in 1..(N + 1) : Colour(n) = 1 /\ f[n - 1] < x /\ x <= f[n]
      <4>1. \A n \in 1..N : n \in 1..(N + 1)
        BY <1>2
      <4> HIDE DEF f, t
      <4> QED BY <1>2, <2>5, <4>1 DEF Blacks
    <3>2. w + pad \in Nat /\ w <= w + pad
      BY <1>2
    <3>3. Colour(N + 1) = col
      <4>1. N \in Nat
        BY <1>2
      <4>2. Colour(N) \in {0, 1} /\ Colour(N + 1) = 1 - Colour(N)
        BY <4>1, ColoursTurn
      <4> QED BY <1>5, <4>2
    <3>4. OneRunMore(f, N + 1, w, w + pad, B, col)
      <4>1. N + 1 \in Nat \ {0}
        BY <1>2
      <4> HIDE DEF f, t
      <4> QED BY <1>2, <2>6, <3>1, <3>2, <3>3, <4>1 DEF OneRunMore
    <3>6. More(B, w, w + pad, col) = Blacks(f, N + 1, w + pad)
      BY <3>4, MoreIsBlack
    <3> QED BY <2>3, <3>6
  <2> HIDE DEF t, f
  <2>8. Draws(t, f[N + 1], More(B, w, w + pad, col))
    BY <2>1, <2>3, <2>4, <2>7, EndsDraw
  <2> QED BY <2>2, <2>3, <2>8
<1> QED BY <1>4, <1>5

\* xpad() makes a line wider with white.
LEMMA xpadWider ==
  ASSUME NEW runs, NEW w, NEW B, Draws(runs, w, B), NEW pad \in Nat
  PROVE  Draws(xpad(runs, pad), w + pad, B)
<1>1. runs \in Seq(Nat) /\ Len(runs) \in Nat
  BY DEF Draws
<1>2. xpad(runs, pad) = PutRun(runs, 0, pad)
  <2>1. Len(runs) % 2 = 1 <=> Colour(Len(runs)) = 0
    BY <1>1 DEF Colour
  <2> QED BY <2>1 DEF xpad, PutRun
<1>3. More(B, w, w + pad, 0) = B
  BY DEF More
<1> QED BY <1>2, <1>3, PutRunDraws

\* xpad() makes a line narrower by what is right of its new width.
LEMMA xpadNarrower ==
  ASSUME NEW runs, NEW w, NEW B, Draws(runs, w, B), NEW v \in Nat, v < w
  PROVE  Draws(xpad(runs, v - w), v, B \cap (1..v))
<1>1. PICK N, e : MadeOf(runs, w, B, N, e)
  BY DrawnBy
<1>2. /\ N \in Nat \ {0} /\ e \in [0..N -> Nat] /\ runs \in [1..N -> Nat] /\ N = Len(runs)
      /\ runs \in Seq(Nat) /\ EndsOf(e, runs) /\ Width(runs) = w
      /\ e[0] = 0 /\ e[N] = w /\ w \in Nat /\ B = Blacks(e, N, w) /\ B \subseteq 1..w
      /\ \A n \in 1..N : e[n] = e[n - 1] + runs[n] /\ e[n - 1] <= e[n]
  BY <1>1 DEF MadeOf
<1>3. \A n \in 0..N : WidthTo(runs, n) = e[n] /\ e[n] \in Nat
  <2>1. \A n \in 0..N : n \in 0..Len(runs)
    BY <1>2
  <2> QED BY <1>2, <2>1, EndsWidthTo
<1> DEFINE left == [n \in 0..Len(runs) |-> (v - w) + Width(runs) - WidthTo(runs, n)]
           cut  == {n \in 0..Len(runs) : left[n] >= 0}
<1>4. ASSUME NEW n \in 0..N PROVE left[n] = v - e[n]
  BY <1>2, <1>3
<1>5. cut = {n \in 0..N : e[n] <= v}
  <2>1. ASSUME NEW n \in 0..N PROVE left[n] >= 0 <=> e[n] <= v
    <3> HIDE DEF left
    <3> QED BY <1>3, <1>4
  <2> HIDE DEF left
  <2> QED BY <1>2, <2>1
<1> HIDE DEF left
<1>6. 0 \in cut
  BY <1>2, <1>5
<1> HIDE DEF cut
<1>7. PICK k \in 0..N : k \in cut /\ \A n \in cut : k >= n
  <2> DEFINE T == {N - n : n \in cut}
  <2>1. \A n \in cut : n \in 0..N /\ N - n \in Nat
    BY <1>2, <1>5
  <2>2. T \subseteq Nat /\ T # {}
    BY <1>6, <2>1
  <2>3. PICK m \in T : \A n \in T : m <= n
    <3> HIDE DEF T
    <3> QED BY <2>2, LeastNumber
  <2>4. PICK k \in cut : m = N - k
    BY <2>3
  <2>5. ASSUME NEW n \in cut PROVE k >= n
    <3>1. N - n \in T /\ n \in 0..N /\ k \in 0..N
      BY <2>1
    <3>2. N - k <= N - n
      <4> HIDE DEF T
      <4> QED BY <2>3, <2>4, <3>1
    <3> QED BY <1>2, <3>1, <3>2
  <2> HIDE DEF T
  <2> QED BY <2>1, <2>4, <2>5
<1>8. Max(cut) = k
  <2>1. PICK m : m = Max(cut)
    OBVIOUS
  <2>2. m \in cut /\ \A n \in cut : m >= n
    BY <1>7, <2>1 DEF Max
  <2>3. m \in 0..N /\ m >= k /\ k >= m
    BY <1>5, <1>7, <2>2
  <2> QED BY <1>2, <1>7, <2>1, <2>3
<1>9. e[k] <= v /\ e[k] \in Nat /\ k < N
  <2>1. e[k] <= v /\ e[k] \in Nat
    BY <1>3, <1>5, <1>7
  <2>2. k # N
    <3>1. ASSUME k = N PROVE FALSE
      <4>1. e[k] = w /\ w \in Nat /\ v \in Nat /\ v < w
        BY <1>2, <3>1
      <4> QED BY <2>1, <4>1
    <3> QED BY <3>1
  <2>3. N \in Nat /\ k \in 0..N
    BY <1>2
  <2> QED BY <2>1, <2>2, <2>3
<1>10. k + 1 \in 1..N /\ e[k + 1] > v
  <2>1. k + 1 \in 1..N /\ k + 1 \in 0..N /\ ~(k >= k + 1)
    BY <1>2, <1>9
  <2>2. k + 1 \notin cut
    BY <1>7, <2>1
  <2>3. e[k + 1] \in Nat
    BY <1>3, <2>1
  <2> QED BY <1>5, <2>1, <2>2, <2>3
<1> DEFINE t == [n \in 1..(k + 1) |-> IF n = k + 1 THEN v - e[k] ELSE runs[n]]
           f == [n \in 0..(k + 1) |-> IF n = k + 1 THEN v ELSE e[n]]
<1>11. t \in [1..(k + 1) -> Nat] /\ k + 1 \in Nat \ {0}
  <2>1. \A n \in 1..(k + 1) : n # k + 1 => n \in 1..N
    BY <1>2, <1>9
  <2>2. v - e[k] \in Nat
    BY <1>9
  <2> QED BY <1>2, <1>9, <2>1, <2>2
<1>12. xpad(runs, v - w) = t
  <2>1. ~(v - w >= 0)
    BY <1>2
  <2>2. xpad(runs, v - w) = Append(SubSeq(runs, 1, k), left[k])
    <3>1. xpad(runs, v - w) =
            LET n == IF cut = {} THEN 0 ELSE Max(cut)
            IN Append(SubSeq(runs, 1, n), IF cut = {} THEN 0 ELSE left[n])
      BY <2>1 DEF xpad, left, cut
    <3> QED BY <1>6, <1>8, <3>1
  <2>3. PICK a \in Nat : a = v - e[k] /\ a = left[k]
    BY <1>4, <1>9
  <2>4. PICK u \in Seq(Nat) : u = SubSeq(runs, 1, k) /\ Len(u) = k /\ \A i \in 1..k : u[i] = runs[i]
    <3>1. \A i \in 1..k : i \in 1..N /\ runs[i] \in Nat /\ 1 + i - 1 = i
      BY <1>2, <1>9
    <3>2. 1 \in Int /\ k \in Int /\ k - 1 + 1 = k /\ (IF 1 <= k THEN k - 1 + 1 ELSE 0) = k
      BY <1>2
    <3>3. /\ SubSeq(runs, 1, k) \in Seq(Nat)
          /\ Len(SubSeq(runs, 1, k)) = IF 1 <= k THEN k - 1 + 1 ELSE 0
          /\ \A i \in 1..(k - 1 + 1) : SubSeq(runs, 1, k)[i] = runs[1 + i - 1]
      BY <3>1, <3>2, SubSeqProperties
    <3> QED BY <3>1, <3>2, <3>3
  <2>5. PICK z \in Seq(Nat) :
          z = Append(u, a) /\ Len(z) = k + 1 /\ z[k + 1] = a /\ \A i \in 1..k : z[i] = runs[i]
    <3>1. /\ Append(u, a) \in Seq(Nat) /\ Len(Append(u, a)) = Len(u) + 1
          /\ \A i \in 1..Len(u) : Append(u, a)[i] = u[i]
          /\ Append(u, a)[Len(u) + 1] = a
      BY AppendProperties
    <3> QED BY <2>4, <3>1
  <2>6. z \in [1..(k + 1) -> Nat]
    <3>1. z \in [1..Len(z) -> Nat]
      BY ElementOfSeq
    <3> HIDE DEF t, f
    <3> QED BY <2>5, <3>1
  <2>7. ASSUME NEW i \in 1..(k + 1) PROVE z[i] = t[i]
    <3>1. i # k + 1 => i \in 1..k
      BY <1>2
    <3> QED BY <2>3, <2>5, <3>1
  <2>8. z = t
    <3> HIDE DEF t
    <3> QED BY <1>11, <2>6, <2>7
  <2> QED BY <2>2, <2>3, <2>4, <2>5, <2>8
<1>13. f \in [0..(k + 1) -> Nat] /\ f[0] = 0 /\ f[k + 1] = v
  <2>1. 0 \in 0..(k + 1) /\ k + 1 \in 0..(k + 1) /\ 0 # k + 1
        /\ \A n \in 0..(k + 1) : n # k + 1 => n \in 0..N
    BY <1>2, <1>9
  <2> QED BY <1>2, <2>1
<1>14. ASSUME NEW n \in 1..(k + 1) PROVE f[n] = f[n - 1] + t[n]
  <2>1. n \in 0..(k + 1) /\ n - 1 \in 0..(k + 1) /\ n - 1 # k + 1 /\ n \in 1..N
        /\ (n = k + 1 => n - 1 = k)
    BY <1>2, <1>9
  <2>2. f[n - 1] = e[n - 1] /\ f[n] = (IF n = k + 1 THEN v ELSE e[n])
    BY <2>1
  <2>3. t[n] = IF n = k + 1 THEN v - e[k] ELSE runs[n]
    OBVIOUS
  <2>4. e[n] = e[n - 1] + runs[n]
    BY <1>2, <2>1
  <2>5. n = k + 1 => e[n - 1] = e[k]
    BY <2>1
  <2>6. e[k] \in Nat /\ v \in Nat
    BY <1>9
  <2>7. CASE n = k + 1
    <3>1. f[n] = v /\ t[n] = v - e[k] /\ f[n - 1] = e[k]
      BY <2>2, <2>3, <2>5, <2>7
    <3> HIDE DEF f, t
    <3> QED BY <2>6, <3>1
  <2>8. CASE n # k + 1
    <3> HIDE DEF f, t
    <3> QED BY <2>2, <2>3, <2>4, <2>8
  <2> QED BY <2>7, <2>8
<1>15. B \cap (1..v) = Blacks(f, k + 1, v)
  <2>1. ASSUME NEW x \in 1..v, NEW n \in 1..(k + 1)
        PROVE  n \in 1..N /\ ((f[n - 1] < x /\ x <= f[n]) <=> (e[n - 1] < x /\ x <= e[n]))
    <3>1. n \in 0..(k + 1) /\ n - 1 \in 0..(k + 1) /\ n - 1 # k + 1 /\ n \in 1..N /\ x <= v
      BY <1>2, <1>9
    <3>2. f[n - 1] = e[n - 1] /\ f[n] = (IF n = k + 1 THEN v ELSE e[n])
      BY <3>1
    <3>3. n = k + 1 => x <= e[n]
      <4>1. e[k + 1] \in Nat /\ x \in Nat
        <5>1. k + 1 \in 0..N
          BY <1>2, <1>10
        <5>2. x \in Nat
          OBVIOUS
        <5> QED BY <1>2, <5>1, <5>2
      <4> QED BY <1>10, <3>1, <4>1
    <3> HIDE DEF f, t
    <3> QED BY <3>1, <3>2, <3>3
  <2>2. ASSUME NEW x \in 1..v, NEW n \in 1..N, e[n - 1] < x, x <= e[n] PROVE n \in 1..(k + 1)
    <3>1. ASSUME n > k + 1 PROVE FALSE
      <4>1. k + 1 \in 0..(n - 1) /\ n - 1 \in 0..N /\ k + 1 \in 0..N /\ x \in Nat
        BY <1>2, <1>10, <3>1
      <4>2. e[k + 1] <= e[n - 1] /\ e[k + 1] \in Nat /\ e[n - 1] \in Nat
        BY <1>2, <4>1, EndsGrow
      <4> QED BY <1>10, <2>2, <4>1, <4>2
    <3> QED BY <1>2, <3>1
  <2>3. \A x \in 1..v : x \in 1..w
    BY <1>2
  <2> HIDE DEF f, t
  <2> QED BY <1>2, <2>1, <2>2, <2>3 DEF Blacks
<1> HIDE DEF t, f
<1>16. B \cap (1..v) = Blacks(f, k + 1, f[k + 1])
  BY <1>13, <1>15
<1>17. Draws(t, f[k + 1], B \cap (1..v))
  BY <1>11, <1>13, <1>14, <1>16, EndsDraw
<1> QED BY <1>12, <1>13, <1>17

\* xinvert() draws what was white.
LEMMA xinvertDraws ==
  ASSUME NEW runs, NEW w, NEW B, Draws(runs, w, B), w > 0
  PROVE  Draws(xinvert(runs), w, (1..w) \ B)
<1>1. PICK N, e : MadeOf(runs, w, B, N, e)
  BY DrawnBy
<1>2. /\ N \in Nat \ {0} /\ e \in [0..N -> Nat] /\ runs \in [1..N -> Nat] /\ N = Len(runs)
      /\ runs \in Seq(Nat) /\ EndsOf(e, runs)
      /\ e[0] = 0 /\ e[N] = w /\ w \in Nat /\ B = Blacks(e, N, w)
      /\ \A n \in 1..N : e[n] = e[n - 1] + runs[n] /\ e[n - 1] <= e[n]
  BY <1>1 DEF MadeOf
<1>3. ASSUME NEW x \in 1..w
      PROVE  x \in (1..w) \ B <=> \E n \in 1..N : Colour(n) # 1 /\ e[n - 1] < x /\ x <= e[n]
  <2>1. PICK n \in 1..N : e[n - 1] < x /\ x <= e[n]
    <3>1. N \in Nat /\ x \in 1..e[N]
      BY <1>2
    <3> QED BY <1>2, <3>1, EndsLocate
  <2>2. ASSUME NEW m \in 1..N, e[m - 1] < x, x <= e[m] PROVE m = n
    <3>1. N \in Nat /\ x \in Nat
      BY <1>2
    <3> QED BY <1>2, <2>1, <2>2, <3>1, EndsDiffer
  <2>3. x \in B <=> Colour(n) = 1
    BY <1>2, <2>1, <2>2 DEF Blacks
  <2> QED BY <2>1, <2>2, <2>3
<1>4. CASE runs[1] = 0
  <2>1. e[1] = 0 /\ N # 1 /\ 1 \in 1..N
    <3>1. 1 \in 1..N /\ 1 - 1 = 0
      BY <1>2
    <3>2. e[1] = e[0] + runs[1]
      BY <1>2, <3>1
    <3>3. e[1] = 0
      BY <1>2, <1>4, <3>2
    <3>4. N # 1
      <4>1. w # 0
        BY <1>2
      <4>2. e[N] = w
        BY <1>2
      <4> QED BY <3>3, <4>1, <4>2
    <3> QED BY <3>1, <3>3, <3>4
  <2>2. PICK M \in Nat \ {0} : M = N - 1
    <3>1. N \in Nat \ {0} /\ N # 1
      BY <1>2, <2>1
    <3>2. N - 1 \in Nat \ {0}
      BY <3>1
    <3> QED BY <3>2
  <2>3. PICK t \in Seq(Nat) : t = xinvert(runs) /\ Len(t) = M /\ \A i \in 1..M : t[i] = runs[i + 1]
    <3>1. runs # <<>>
      BY <1>2
    <3>2. /\ Tail(runs) \in Seq(Nat) /\ Len(Tail(runs)) = M
          /\ \A i \in 1..M : Tail(runs)[i] = runs[i + 1]
      BY <1>2, <2>2, <3>1, HeadTailProperties
    <3> QED BY <1>4, <3>2 DEF xinvert
  <2>4. t \in [1..M -> Nat]
    <3>1. t \in [1..Len(t) -> Nat]
      BY ElementOfSeq
    <3> QED BY <2>3, <3>1
  <2> DEFINE f == [n \in 0..M |-> e[n + 1]]
  <2>5. \A n \in 0..M : n + 1 \in 0..N
    BY <1>2, <2>2
  <2>6. f \in [0..M -> Nat] /\ f[0] = 0 /\ f[M] = w
    <3>1. 0 \in 0..M /\ M \in 0..M /\ 0 + 1 = 1 /\ M + 1 = N
      BY <1>2, <2>2
    <3>2. f[0] = e[1] /\ f[M] = e[N]
      BY <3>1
    <3> QED BY <1>2, <2>1, <2>5, <3>2
  <2>7. ASSUME NEW n \in 1..M PROVE f[n] = f[n - 1] + t[n]
    <3>1. n \in 0..M /\ n - 1 \in 0..M /\ n + 1 \in 1..N /\ (n - 1) + 1 = n /\ (n + 1) - 1 = n
      BY <1>2, <2>2
    <3>2. f[n] = e[n + 1] /\ f[n - 1] = e[n]
      BY <3>1
    <3>3. e[n + 1] = e[n] + runs[n + 1]
      BY <1>2, <3>1
    <3> QED BY <2>3, <3>2, <3>3
  <2>8. ASSUME NEW x \in 1..w
        PROVE  (\E n \in 1..M : Colour(n) = 1 /\ f[n - 1] < x /\ x <= f[n])
                 <=> (\E n \in 1..N : Colour(n) # 1 /\ e[n - 1] < x /\ x <= e[n])
    <3>1. ASSUME NEW n \in 1..M, Colour(n) = 1, f[n - 1] < x, x <= f[n]
          PROVE  n + 1 \in 1..N /\ Colour(n + 1) # 1 /\ e[(n + 1) - 1] < x /\ x <= e[n + 1]
      <4>1. n \in 0..M /\ n - 1 \in 0..M /\ n + 1 \in 1..N /\ (n - 1) + 1 = n /\ (n + 1) - 1 = n
        BY <1>2, <2>2
      <4>2. f[n] = e[n + 1] /\ f[n - 1] = e[n]
        BY <4>1
      <4>3. Colour(n + 1) # 1
        BY <3>1, ColoursTurn
      <4> QED BY <3>1, <4>1, <4>2, <4>3
    <3>2. ASSUME NEW n \in 1..N, Colour(n) # 1, e[n - 1] < x, x <= e[n]
          PROVE  \E m \in 1..M : Colour(m) = 1 /\ f[m - 1] < x /\ x <= f[m]
      <4>1. n # 1
        BY <2>1, <3>2
      <4>2. PICK m \in 1..M : m = n - 1 /\ n = m + 1
        <5>1. n - 1 \in 1..M /\ n = (n - 1) + 1
          BY <1>2, <2>2, <4>1
        <5> QED BY <5>1
      <4>3. Colour(m) = 1
        <5>1. m \in Nat
          BY <4>2
        <5> QED BY <3>2, <4>2, <5>1, ColoursTurn
      <4>4. m \in 0..M /\ m - 1 \in 0..M /\ (m - 1) + 1 = m
        BY <2>2
      <4>5. f[m] = e[n] /\ f[m - 1] = e[n - 1]
        BY <4>2, <4>4
      <4> QED BY <3>2, <4>3, <4>5
    <3> HIDE DEF f
    <3> QED BY <3>1, <3>2
  <2>9. (1..w) \ B = Blacks(f, M, w)
    <3> HIDE DEF f
    <3> QED BY <1>3, <2>8 DEF Blacks
  <2> HIDE DEF f
  <2>10. (1..w) \ B = Blacks(f, M, f[M])
    BY <2>6, <2>9
  <2>11. Draws(t, f[M], (1..w) \ B)
    BY <2>2, <2>4, <2>6, <2>7, <2>10, EndsDraw
  <2> QED BY <2>3, <2>6, <2>11
<1>5. CASE runs[1] # 0
  <2>1. PICK M \in Nat \ {0} : M = N + 1
    BY <1>2
  <2>2. PICK t \in Seq(Nat) : t = xinvert(runs) /\ Len(t) = M /\ t[1] = 0 /\ \A i \in 2..M : t[i] = runs[i - 1]
    <3>1. PICK z \in Seq(Nat) : z = <<0>> /\ Len(z) = 1 /\ z[1] = 0
      <4>1. <<0>> \in Seq(Nat) /\ Len(<<0>>) = 1 /\ <<0>>[1] = 0
        OBVIOUS
      <4> QED BY <4>1
    <3>2. xinvert(runs) = z \o runs
      BY <1>5, <3>1 DEF xinvert
    <3>3. /\ z \o runs \in Seq(Nat) /\ Len(z \o runs) = Len(z) + Len(runs)
          /\ \A i \in 1..(Len(z) + Len(runs)) :
               (z \o runs)[i] = IF i <= Len(z) THEN z[i] ELSE runs[i - Len(z)]
      BY <1>2, ConcatProperties
    <3>4. /\ z \o runs \in Seq(Nat) /\ Len(z \o runs) = M
          /\ \A i \in 1..M : (z \o runs)[i] = IF i <= 1 THEN z[i] ELSE runs[i - 1]
      BY <1>2, <2>1, <3>1, <3>3
    <3>5. 1 \in 1..M /\ \A i \in 2..M : i \in 1..M /\ ~(i <= 1)
      BY <2>1
    <3>6. (z \o runs)[1] = 0 /\ \A i \in 2..M : (z \o runs)[i] = runs[i - 1]
      BY <3>1, <3>4, <3>5
    <3> QED BY <3>2, <3>4, <3>6
  <2>3. t \in [1..M -> Nat]
    <3>1. t \in [1..Len(t) -> Nat]
      BY ElementOfSeq
    <3> QED BY <2>2, <3>1
  <2> DEFINE f == [n \in 0..M |-> IF n = 0 THEN 0 ELSE e[n - 1]]
  <2>4. \A n \in 0..M : n # 0 => n - 1 \in 0..N
    BY <1>2, <2>1
  <2>5. f \in [0..M -> Nat] /\ f[0] = 0 /\ f[M] = w
    <3>1. 0 \in 0..M /\ M \in 0..M /\ M # 0 /\ M - 1 = N
      BY <1>2, <2>1
    <3>2. f[0] = 0 /\ f[M] = e[N]
      BY <3>1
    <3> QED BY <1>2, <2>4, <3>2
  <2>6. ASSUME NEW n \in 1..M PROVE f[n] = f[n - 1] + t[n]
    <3>1. n \in 0..M /\ n - 1 \in 0..M /\ n # 0
      BY <2>1
    <3>2. f[n] = e[n - 1] /\ f[n - 1] = IF n - 1 = 0 THEN 0 ELSE e[(n - 1) - 1]
      BY <3>1
    <3>3. CASE n = 1
      <4>1. f[n] = 0 /\ f[n - 1] = 0 /\ t[n] = 0
        BY <1>2, <2>2, <3>2, <3>3
      <4> HIDE DEF f
      <4> QED BY <4>1
    <3>4. CASE n # 1
      <4>1. n \in 2..M /\ n - 1 \in 1..N /\ n - 1 # 0
        BY <1>2, <2>1, <3>4
      <4>2. t[n] = runs[n - 1] /\ e[n - 1] = e[(n - 1) - 1] + runs[n - 1]
        BY <1>2, <2>2, <4>1
      <4>3. f[n - 1] = e[(n - 1) - 1]
        BY <3>2, <4>1
      <4> HIDE DEF f
      <4> QED BY <3>2, <4>2, <4>3
    <3> QED BY <3>3, <3>4
  <2>7. ASSUME NEW x \in 1..w
        PROVE  (\E n \in 1..M : Colour(n) = 1 /\ f[n - 1] < x /\ x <= f[n])
                 <=> (\E n \in 1..N : Colour(n) # 1 /\ e[n - 1] < x /\ x <= e[n])
    <3>1. ASSUME NEW n \in 1..M, Colour(n) = 1, f[n - 1] < x, x <= f[n]
          PROVE  \E m \in 1..N : Colour(m) # 1 /\ e[m - 1] < x /\ x <= e[m]
      <4>1. n # 1
        BY <3>1, ColoursTurn
      <4>2. PICK m \in 1..N : m = n - 1 /\ n = m + 1
        <5>1. n - 1 \in 1..N /\ n = (n - 1) + 1
          BY <1>2, <2>1, <4>1
        <5> QED BY <5>1
      <4>3. n \in 0..M /\ n - 1 \in 0..M /\ n # 0 /\ n - 1 # 0
        BY <2>1, <4>1
      <4>4. f[n] = e[m] /\ f[n - 1] = e[m - 1]
        BY <4>2, <4>3
      <4>5. Colour(m) # 1
        <5>1. m \in Nat
          BY <4>2
        <5> QED BY <3>1, <4>2, <5>1, ColoursTurn
      <4> QED BY <3>1, <4>4, <4>5
    <3>2. ASSUME NEW m \in 1..N, Colour(m) # 1, e[m - 1] < x, x <= e[m]
          PROVE  m + 1 \in 1..M /\ Colour(m + 1) = 1 /\ f[(m + 1) - 1] < x /\ x <= f[m + 1]
      <4>1. m + 1 \in 1..M /\ m + 1 \in 0..M /\ m \in 0..M /\ (m + 1) - 1 = m /\ m + 1 # 0 /\ m # 0
        BY <1>2, <2>1
      <4>2. f[m + 1] = e[m] /\ f[m] = e[m - 1]
        BY <4>1
      <4>3. Colour(m + 1) = 1
        BY <3>2, ColoursTurn
      <4> QED BY <3>2, <4>1, <4>2, <4>3
    <3> HIDE DEF f
    <3> QED BY <3>1, <3>2
  <2>8. (1..w) \ B = Blacks(f, M, w)
    <3> HIDE DEF f
    <3> QED BY <1>3, <2>7 DEF Blacks
  <2> HIDE DEF f
  <2>9. (1..w) \ B = Blacks(f, M, f[M])
    BY <2>5, <2>8
  <2>10. Draws(t, f[M], (1..w) \ B)
    BY <2>1, <2>3, <2>5, <2>6, <2>9, EndsDraw
  <2> QED BY <2>2, <2>5, <2>10
<1> QED BY <1>4, <1>5

-----------------------------------------------------------------------------
(* The line that is read.                                                  *)

Lines == Seq(Nat) \ {<<>>}

\* Every line draws something.
LEMMA LineDraws ==
  ASSUME NEW c \in Lines
  PROVE  \E w, B : Draws(c, w, B)
<1>1. c \in Seq(Nat) /\ Len(c) > 0
  <2>1. c \in Seq(Nat) /\ Len(c) \in Nat /\ c # <<>>
    BY DEF Lines
  <2> QED BY <2>1
<1>2. PICK e : EndsOf(e, c)
  BY <1>1, WidthIsEnd
<1> QED BY <1>1, <1>2 DEF Draws

\* A run put at the end of a line makes a line.
LEMMA PutRunLine ==
  ASSUME NEW c \in Lines, NEW col \in {0, 1}, NEW len \in Nat
  PROVE  PutRun(c, col, len) \in Lines
<1>1. PICK w, B : Draws(c, w, B)
  BY LineDraws
<1>2. Draws(PutRun(c, col, len), w + len, More(B, w, w + len, col))
  BY <1>1, PutRunDraws
<1>3. PICK p : p = PutRun(c, col, len)
  OBVIOUS
<1>4. p \in Seq(Nat) /\ Len(p) > 0
  BY <1>2, <1>3 DEF Draws
<1>5. p # <<>>
  BY <1>4
<1> QED BY <1>3, <1>4, <1>5 DEF Lines

Ones(bits, n) == {x \in 1..n : bits[x] = 1}

\* bittorun() puts the bits at the end of a line one by one.
LEMMA bittorunSteps ==
  ASSUME NEW bits \in Seq({0, 1})
  PROVE  \E g : /\ g \in [0..Len(bits) -> Lines] /\ g[0] = <<0>> /\ bittorun(bits) = g[Len(bits)]
                /\ \A n \in 1..Len(bits) : g[n] = PutRun(g[n - 1], bits[n], 1)
<1>1. PICK N \in Nat : N = Len(bits) /\ DOMAIN bits = 1..N /\ bits \in [1..N -> {0, 1}]
  BY ElementOfSeq
<1> DEFINE step == [n \in 1..N |-> [c \in Lines |-> PutRun(c, bits[n], 1)]]
           Is(f) == f = [s \in SUBSET (1..N) |-> IF s = {} THEN <<0>>
                                                 ELSE PutRun(f[s \ {Max(s)}], bits[Max(s)], 1)]
<1>2. step \in [1..N -> [Lines -> Lines]]
  BY <1>1, PutRunLine
<1>3. <<0>> \in Lines
  <2>1. <<0>> \in Seq(Nat) /\ Len(<<0>>) = 1 /\ Len(<<>>) = 0
    OBVIOUS
  <2> QED BY <2>1 DEF Lines
<1>4. PICK h \in [SUBSET (1..N) -> Lines] : FoldsSets(h, N, <<0>>, step)
  <2> HIDE DEF step
  <2> QED BY <1>2, <1>3, FoldExists
<1>5. ASSUME NEW s \in SUBSET (1..N), s # {}
      PROVE  /\ Max(s) \in 1..N /\ s \ {Max(s)} \in SUBSET (1..N)
             /\ \A c \in Lines : step[Max(s)][c] = PutRun(c, bits[Max(s)], 1)
  BY <1>5, MaxOf
<1>6. Is(h)
  <2>1. ASSUME NEW s \in SUBSET (1..N)
        PROVE  h[s] = IF s = {} THEN <<0>> ELSE PutRun(h[s \ {Max(s)}], bits[Max(s)], 1)
    <3>1. CASE s = {}
      BY <1>4, <3>1 DEF FoldsSets
    <3>2. CASE s # {}
      <4>1. h[s] = step[Max(s)][h[s \ {Max(s)}]]
        <5> HIDE DEF step
        <5> QED BY <1>4, <3>2 DEF FoldsSets
      <4>2. h[s \ {Max(s)}] \in Lines
        BY <1>5, <3>2
      <4> HIDE DEF step
      <4> QED BY <1>5, <3>2, <4>1, <4>2
    <3> QED BY <3>1, <3>2
  <2> QED BY <2>1
<1>7. PICK f : f = CHOOSE g : Is(g)
  OBVIOUS
<1>8. Is(f)
  <2> HIDE DEF Is
  <2> QED BY <1>6, <1>7
<1>9. GoesOn(f, N, Lines, <<0>>, step)
  <2>1. f[{}] = <<0>>
    BY <1>8
  <2>2. ASSUME NEW s \in SUBSET (1..N), s # {}, f[s \ {Max(s)}] \in Lines
        PROVE  f[s] = step[Max(s)][f[s \ {Max(s)}]]
    <3>1. f[s] = PutRun(f[s \ {Max(s)}], bits[Max(s)], 1)
      BY <1>8, <2>2
    <3> HIDE DEF step
    <3> QED BY <1>5, <2>2, <3>1
  <2> HIDE DEF step
  <2> QED BY <2>1, <2>2 DEF GoesOn
<1>10. bittorun(bits) = f[1..N]
  <2>1. bittorun(bits) = LET all == CHOOSE each : Is(each) IN all[1..N]
    BY <1>1 DEF bittorun, FoldLeft, MapThenFoldSet
  <2> HIDE DEF Is
  <2> QED BY <1>7, <2>1
<1>11. PICK g : Recursion(g, N, Lines, <<0>>, step) /\ f[1..N] = g[N]
  <2> HIDE DEF step
  <2>1. Folded(f[1..N], N, Lines, <<0>>, step)
    BY ONLY N \in Nat, <1>2, <1>3, <1>9, FoldsAre, Zenon
  <2> QED BY <2>1 DEF Folded
<1>12. g \in [0..N -> Lines] /\ g[0] = <<0>> /\ \A n \in 1..N : g[n] = step[n][g[n - 1]]
  <2> HIDE DEF step
  <2> QED BY <1>11 DEF Recursion
<1>13. \A n \in 1..N : g[n] = PutRun(g[n - 1], bits[n], 1)
  <2>1. ASSUME NEW n \in 1..N PROVE g[n] = PutRun(g[n - 1], bits[n], 1)
    <3>1. n - 1 \in 0..N
      OBVIOUS
    <3> QED BY <1>12, <3>1
  <2> QED BY <2>1
<1> QED BY <1>1, <1>10, <1>11, <1>12, <1>13

\* bittorun() draws the bits that are 1.
LEMMA bittorunDraws ==
  ASSUME NEW bits \in Seq({0, 1})
  PROVE  Draws(bittorun(bits), Len(bits), Ones(bits, Len(bits)))
<1>1. PICK N \in Nat : N = Len(bits) /\ bits \in [1..N -> {0, 1}]
  BY ElementOfSeq
<1>2. PICK g : /\ g \in [0..N -> Lines] /\ g[0] = <<0>> /\ bittorun(bits) = g[N]
               /\ \A n \in 1..N : g[n] = PutRun(g[n - 1], bits[n], 1)
  BY <1>1, bittorunSteps
<1> DEFINE S == {n \in 0..N : Draws(g[n], n, Ones(bits, n))}
<1>3. 0 \in S
  <2>1. PICK M \in Nat \ {0} : M = 1
    OBVIOUS
  <2>2. PICK r : r = <<0>> /\ r \in [1..M -> Nat] /\ r[1] = 0
    <3>1. <<0>> \in [1..1 -> Nat] /\ <<0>>[1] = 0
      OBVIOUS
    <3> QED BY <2>1, <3>1
  <2>3. PICK e \in [0..M -> Nat] : \A n \in 0..M : e[n] = 0
    <3>1. [n \in 0..M |-> 0] \in [0..M -> Nat] /\ \A n \in 0..M : [i \in 0..M |-> 0][n] = 0
      OBVIOUS
    <3> QED BY <3>1
  <2>4. e[0] = 0 /\ e[M] = 0 /\ \A n \in 1..M : e[n] = e[n - 1] + r[n]
    <3>1. 0 \in 0..M /\ M \in 0..M /\ \A n \in 1..M : n = 1 /\ n \in 0..M /\ n - 1 \in 0..M
      BY <2>1
    <3>2. ASSUME NEW n \in 1..M PROVE e[n] = e[n - 1] + r[n]
      <4>1. e[n] = 0 /\ e[n - 1] = 0 /\ r[n] = 0
        BY <2>2, <2>3, <3>1
      <4> QED BY <4>1
    <3> QED BY <2>3, <3>1, <3>2
  <2>6. {} = Blacks(e, M, e[M])
    BY <2>4 DEF Blacks
  <2>7. Draws(r, e[M], {})
    BY <2>2, <2>4, <2>6, EndsDraw
  <2>5. Ones(bits, 0) = {}
    BY DEF Ones
  <2>8. Draws(g[0], 0, Ones(bits, 0))
    BY <1>2, <2>2, <2>4, <2>5, <2>7
  <2> QED BY <2>8
<1>4. ASSUME NEW n \in 1..N, n - 1 \in S PROVE n \in S
  <2>1. bits[n] \in {0, 1} /\ n - 1 + 1 = n
    BY <1>1
  <2>2. Draws(PutRun(g[n - 1], bits[n], 1), n - 1 + 1, More(Ones(bits, n - 1), n - 1, n - 1 + 1, bits[n]))
    BY <1>4, <2>1, PutRunDraws
  <2>3. More(Ones(bits, n - 1), n - 1, n, bits[n]) = Ones(bits, n)
    BY <2>1 DEF More, Ones
  <2> QED BY <1>2, <2>1, <2>2, <2>3
<1>5. 0..N \subseteq S
  <2> HIDE DEF S
  <2> QED BY <1>3, <1>4, InductionTo
<1> QED BY <1>1, <1>2, <1>5

-----------------------------------------------------------------------------
(* What the codes of a line are read back as.                              *)

\* What coderuns() makes of a code.
Decoded == [runs : Seq(Nat), up : Nat]
NothingDecoded == [runs |-> <<>>, up |-> 0]
DecodeOne(m, c) == IF m.up > 0 THEN [runs |-> Append(m.runs, m.up + c - 2), up |-> 0]
                   ELSE IF c > MakeUp THEN [m EXCEPT !.up = c]
                   ELSE [m EXCEPT !.runs = Append(@, c - 1)]

\* One code more, by the code before it.
LEMMA DecodeOneIs ==
  ASSUME NEW r \in Seq(Nat), NEW u \in Nat, NEW c \in Nat \ {0}
  PROVE  /\ DecodeOne([runs |-> r, up |-> u], c) \in Decoded
         /\ u > 0 => DecodeOne([runs |-> r, up |-> u], c) = [runs |-> Append(r, u + c - 2), up |-> 0]
         /\ u = 0 /\ c > MakeUp => DecodeOne([runs |-> r, up |-> u], c) = [runs |-> r, up |-> c]
         /\ u = 0 /\ ~(c > MakeUp)
              => DecodeOne([runs |-> r, up |-> u], c) = [runs |-> Append(r, c - 1), up |-> 0]
<1>1. /\ u > 0 => DecodeOne([runs |-> r, up |-> u], c) = [runs |-> Append(r, u + c - 2), up |-> 0]
      /\ u = 0 /\ c > MakeUp => DecodeOne([runs |-> r, up |-> u], c) = [runs |-> r, up |-> c]
      /\ u = 0 /\ ~(c > MakeUp)
              => DecodeOne([runs |-> r, up |-> u], c) = [runs |-> Append(r, c - 1), up |-> 0]
  <2>1. PICK m : m = [runs |-> r, up |-> u]
    OBVIOUS
  <2>2. m.runs = r /\ m.up = u
    BY <2>1
  <2>3. [m EXCEPT !.up = c] = [runs |-> r, up |-> c]
    BY <2>1
  <2>4. \A a : [m EXCEPT !.runs = a] = [runs |-> a, up |-> u]
    BY <2>1
  <2>5. u = 0 => ~(u > 0)
    OBVIOUS
  <2>6. [m EXCEPT !.runs = Append(@, c - 1)] = [runs |-> Append(r, c - 1), up |-> u]
    BY <2>2, <2>4
  <2> QED BY <2>1, <2>2, <2>3, <2>5, <2>6 DEF DecodeOne
<1>2. u > 0 => u + c - 2 \in Nat
  OBVIOUS
<1>3. c - 1 \in Nat
  OBVIOUS
<1>4. (u > 0 => Append(r, u + c - 2) \in Seq(Nat)) /\ Append(r, c - 1) \in Seq(Nat)
  BY <1>2, <1>3, AppendProperties
<1>5. \A s \in Seq(Nat), v \in Nat : [runs |-> s, up |-> v] \in Decoded
  BY DEF Decoded
<1>6. c \in Nat /\ 0 \in Nat
  OBVIOUS
<1>7. (u > 0) \/ (u = 0 /\ c > MakeUp) \/ (u = 0 /\ ~(c > MakeUp))
  OBVIOUS
<1>8. CASE u > 0
  BY <1>1, <1>4, <1>5, <1>6, <1>8
<1>9. CASE u = 0 /\ c > MakeUp
  BY <1>1, <1>5, <1>6, <1>9
<1>10. CASE u = 0 /\ ~(c > MakeUp)
  BY <1>1, <1>4, <1>5, <1>6, <1>10
<1> QED BY <1>1, <1>7, <1>8, <1>9, <1>10

\* What has been decoded is its runs and a make-up code, if one waits.
LEMMA DecodedIs ==
  ASSUME NEW m \in Decoded
  PROVE  m = [runs |-> m.runs, up |-> m.up] /\ m.runs \in Seq(Nat) /\ m.up \in Nat
<1>1. PICK A : A = Seq(Nat)
  OBVIOUS
<1>2. m \in [runs : A, up : Nat]
  BY <1>1 DEF Decoded
<1>3. m = [runs |-> m.runs, up |-> m.up] /\ m.runs \in A /\ m.up \in Nat
  BY <1>2
<1> QED BY <1>1, <1>3

\* What has been decoded, and one code more, has been decoded.
LEMMA DecodeOneDecodes ==
  ASSUME NEW m \in Decoded, NEW c \in Nat \ {0}
  PROVE  DecodeOne(m, c) \in Decoded
<1>1. PICK r \in Seq(Nat), u \in Nat : m = [runs |-> r, up |-> u]
  BY DecodedIs
<1> QED BY <1>1, DecodeOneIs

\* coderuns() takes the codes one by one.
LEMMA coderunsSteps ==
  ASSUME NEW codes \in Seq(Nat \ {0})
  PROVE  \E g : /\ g \in [0..Len(codes) -> Decoded] /\ g[0] = NothingDecoded
                /\ \A n \in 1..Len(codes) : g[n] = DecodeOne(g[n - 1], codes[n])
                /\ g[Len(codes)].up = 0 => coderuns(codes) = g[Len(codes)].runs
<1>1. PICK N \in Nat : N = Len(codes) /\ DOMAIN codes = 1..N /\ codes \in [1..N -> Nat \ {0}]
  BY ElementOfSeq
<1> DEFINE step == [n \in 1..N |-> [m \in Decoded |-> DecodeOne(m, codes[n])]]
           Is(f) == f = [s \in SUBSET (1..N) |-> IF s = {} THEN NothingDecoded
                                                 ELSE DecodeOne(f[s \ {Max(s)}], codes[Max(s)])]
<1>2. step \in [1..N -> [Decoded -> Decoded]]
  BY <1>1, DecodeOneDecodes
<1>3. NothingDecoded \in Decoded
  <2>1. <<>> \in Seq(Nat) /\ 0 \in Nat
    OBVIOUS
  <2> QED BY <2>1 DEF NothingDecoded, Decoded
<1>4. PICK h \in [SUBSET (1..N) -> Decoded] : FoldsSets(h, N, NothingDecoded, step)
  <2> HIDE DEF step
  <2> QED BY <1>2, <1>3, FoldExists
<1>5. ASSUME NEW s \in SUBSET (1..N), s # {}
      PROVE  /\ Max(s) \in 1..N /\ s \ {Max(s)} \in SUBSET (1..N)
             /\ \A m \in Decoded : step[Max(s)][m] = DecodeOne(m, codes[Max(s)])
  BY <1>5, MaxOf
<1>6. Is(h)
  <2>1. ASSUME NEW s \in SUBSET (1..N)
        PROVE  h[s] = IF s = {} THEN NothingDecoded ELSE DecodeOne(h[s \ {Max(s)}], codes[Max(s)])
    <3>1. CASE s = {}
      BY <1>4, <3>1 DEF FoldsSets
    <3>2. CASE s # {}
      <4>1. h[s] = step[Max(s)][h[s \ {Max(s)}]]
        <5> HIDE DEF step
        <5> QED BY <1>4, <3>2 DEF FoldsSets
      <4>2. h[s \ {Max(s)}] \in Decoded
        BY <1>5, <3>2
      <4> HIDE DEF step
      <4> QED BY <1>5, <3>2, <4>1, <4>2
    <3> QED BY <3>1, <3>2
  <2> QED BY <2>1
<1>7. PICK f : f = CHOOSE g : Is(g)
  OBVIOUS
<1>8. Is(f)
  <2> HIDE DEF Is
  <2> QED BY <1>6, <1>7
<1>9. GoesOn(f, N, Decoded, NothingDecoded, step)
  <2>1. f[{}] = NothingDecoded
    BY <1>8
  <2>2. ASSUME NEW s \in SUBSET (1..N), s # {}, f[s \ {Max(s)}] \in Decoded
        PROVE  f[s] = step[Max(s)][f[s \ {Max(s)}]]
    <3>1. f[s] = DecodeOne(f[s \ {Max(s)}], codes[Max(s)])
      BY <1>8, <2>2
    <3> HIDE DEF step
    <3> QED BY <1>5, <2>2, <3>1
  <2> HIDE DEF step
  <2> QED BY <2>1, <2>2 DEF GoesOn
<1>10. coderuns(codes) = IF f[1..N].up > 0 THEN Append(f[1..N].runs, f[1..N].up - 1) ELSE f[1..N].runs
  <2>1. coderuns(codes) = LET all == CHOOSE each : Is(each)
                              m == all[1..N]
                          IN IF m.up > 0 THEN Append(m.runs, m.up - 1) ELSE m.runs
    BY <1>1 DEF coderuns, FoldLeft, MapThenFoldSet, DecodeOne, NothingDecoded
  <2> HIDE DEF Is
  <2> QED BY <1>7, <2>1
<1>11. PICK g : Recursion(g, N, Decoded, NothingDecoded, step) /\ f[1..N] = g[N]
  <2> HIDE DEF step
  <2>1. Folded(f[1..N], N, Decoded, NothingDecoded, step)
    BY ONLY N \in Nat, <1>2, <1>3, <1>9, FoldsAre, Zenon
  <2> QED BY <2>1 DEF Folded
<1>12. g \in [0..N -> Decoded] /\ g[0] = NothingDecoded /\ \A n \in 1..N : g[n] = step[n][g[n - 1]]
  <2> HIDE DEF step
  <2> QED BY <1>11 DEF Recursion
<1>13. \A n \in 1..N : g[n] = DecodeOne(g[n - 1], codes[n])
  <2>1. ASSUME NEW n \in 1..N PROVE g[n] = DecodeOne(g[n - 1], codes[n])
    <3>1. n - 1 \in 0..N
      OBVIOUS
    <3> QED BY <1>12, <3>1
  <2> QED BY <2>1
<1>14. g[N].up = 0 => coderuns(codes) = g[N].runs
  <2>1. ~(0 > 0)
    OBVIOUS
  <2> QED BY <1>10, <1>11, <2>1
<1> QED BY <1>1, <1>12, <1>13, <1>14

\* Quotient and remainder of a length.
LEMMA DivModM ==
  ASSUME NEW len \in Int, NEW m \in Nat \ {0}
  PROVE  len \div m \in Int /\ len % m \in 0..(m - 1) /\ len = m * (len \div m) + (len % m)
<1>1. len \div m \in Int /\ len % m \in 0..(m - 1)
  OBVIOUS
<1>2. len = (len \div m) * m + (len % m)
  OBVIOUS
<1>3. \A q \in Int : q * m = m * q
  OBVIOUS
<1>4. (len \div m) * m = m * (len \div m)
  BY <1>1, <1>3, Zenon
<1>5. len = m * (len \div m) + (len % m)
  BY ONLY <1>2, <1>4, Zenon
<1> QED BY ONLY <1>1, <1>5, Zenon

\* The make-up code and the terminating code of a run add up to it.
LEMMA MakeUpSplits ==
  ASSUME NEW len \in Nat, NEW m \in Nat \ {0}, len >= m
  PROVE  /\ (len \div m) * m + 1 \in Nat \ {0} /\ (len \div m) * m + 1 > m
         /\ (len % m) + 1 \in Nat \ {0}
         /\ ((len \div m) * m + 1) + ((len % m) + 1) - 2 = len
<1>1. PICK q \in Int, r \in 0..(m - 1) : q = len \div m /\ r = len % m /\ len = m * q + r
  BY DivModM
<1>2. q >= 1
  <2>1. ASSUME q <= 0 PROVE FALSE
    <3>1. m * q <= 0
      BY <2>1
    <3> QED BY <1>1, <3>1
  <2> QED BY <2>1
<1>3. PICK a \in Int : a = m * q /\ a = q * m
  OBVIOUS
<1>4. a >= m
  BY <1>2, <1>3
<1> QED BY <1>1, <1>3, <1>4

\* Rounded() rounds up to whole bytes.
LEMMA RoundedIs ==
  ASSUME NEW w \in Nat
  PROVE  Rounded(w) \in Nat /\ Rounded(w) >= w /\ (-Rounded(w)) % ByteBits = 0
<1>1. ByteBits \in Nat \ {0}
  BY RunLengthsAssumption
<1>2. PICK q \in Int, r \in 0..(ByteBits - 1) :
        q = (-w) \div ByteBits /\ r = (-w) % ByteBits /\ -w = ByteBits * q + r
  <2>1. PICK n \in Int, b \in Nat \ {0} : n = -w /\ b = ByteBits
    BY <1>1
  <2>2. n \div b \in Int /\ n % b \in 0..(b - 1) /\ n = b * (n \div b) + (n % b)
    BY DivModM
  <2> QED BY <2>1, <2>2
<1>3. Rounded(w) = w + r
  BY <1>2 DEF Rounded
<1>4. PICK v \in Nat : v = Rounded(w) /\ v = w + r
  BY <1>1, <1>2, <1>3
<1>5. -v = ByteBits * q
  BY <1>2, <1>4, <1>1
<1>6. PICK p \in Int, s \in 0..(ByteBits - 1) :
        p = (-v) \div ByteBits /\ s = (-v) % ByteBits /\ -v = ByteBits * p + s
  <2>1. PICK n \in Int, b \in Nat \ {0} : n = -v /\ b = ByteBits
    BY <1>1
  <2>2. n \div b \in Int /\ n % b \in 0..(b - 1) /\ n = b * (n \div b) + (n % b)
    BY DivModM
  <2> QED BY <2>1, <2>2
<1>7. s = ByteBits * (q - p)
  BY <1>1, <1>5, <1>6
<1>8. s = 0
  <2>1. ASSUME q - p >= 1 PROVE FALSE
    <3>1. ByteBits * (q - p) >= ByteBits
      BY <1>1, <2>1
    <3> QED BY <1>1, <1>6, <1>7, <3>1
  <2>2. ASSUME q - p <= 0 PROVE s = 0
    <3>1. ByteBits * (q - p) <= 0
      BY <1>1, <2>2
    <3> QED BY <1>1, <1>6, <1>7, <3>1
  <2>3. q - p >= 1 \/ q - p <= 0
    BY <1>2, <1>6
  <2> QED BY <2>1, <2>2, <2>3
<1> QED BY <1>4, <1>6, <1>8

\* The codes of a line are read back as its runs, if there is a code for each.
LEMMA CodesDecode ==
  ASSUME NEW runs \in Seq(Nat), \A n \in DOMAIN runs : runs[n] <= MAXRUNLEN
  PROVE  coderuns(runtocode(runs)) = runs
<1>1. PICK N \in Nat : N = Len(runs) /\ DOMAIN runs = 1..N /\ runs \in [1..N -> Nat]
  BY ElementOfSeq
<1>2. MakeUp \in Nat \ {0} /\ MAXRUNLEN \in Nat
  BY RunLengthsAssumption
<1> DEFINE u(n) == (runs[n] \div MakeUp) * MakeUp + 1
           t(n) == (runs[n] % MakeUp) + 1
           seqs == [n \in 1..N |-> IF runs[n] >= MakeUp THEN <<u(n), t(n)>> ELSE <<runs[n] + 1>>]
<1>3. ASSUME NEW n \in 1..N, runs[n] >= MakeUp
      PROVE  u(n) \in Nat \ {0} /\ u(n) > MakeUp /\ t(n) \in Nat \ {0} /\ u(n) + t(n) - 2 = runs[n]
  <2>1. PICK len \in Nat, m \in Nat \ {0} : len = runs[n] /\ m = MakeUp
    BY <1>1, <1>2
  <2> QED BY <1>3, <2>1, MakeUpSplits
<1>4. ASSUME NEW n \in 1..N
      PROVE  runs[n] \in Nat /\ runs[n] + 1 \in Nat \ {0} /\ (runs[n] + 1) - 1 = runs[n]
             /\ (~(runs[n] >= MakeUp) => ~(runs[n] + 1 > MakeUp))
  BY <1>1, <1>2
<1>5. runtocode(runs) = FlattenSeq(seqs)
  <2>1. \A n \in 1..N : (IF runs[n] > MAXRUNLEN THEN MAXRUNLEN ELSE runs[n]) = runs[n]
    BY <1>1, <1>2
  <2>2. runtocode(runs) = FlattenSeq([n \in 1..N |->
          LET len(k) == IF runs[k] > MAXRUNLEN THEN MAXRUNLEN ELSE runs[k]
          IN  IF len(n) >= MakeUp THEN <<(len(n) \div MakeUp) * MakeUp + 1, (len(n) % MakeUp) + 1>>
              ELSE <<len(n) + 1>>])
    BY <1>1 DEF runtocode
  <2>3. [n \in 1..N |->
          LET len(k) == IF runs[k] > MAXRUNLEN THEN MAXRUNLEN ELSE runs[k]
          IN  IF len(n) >= MakeUp THEN <<(len(n) \div MakeUp) * MakeUp + 1, (len(n) % MakeUp) + 1>>
              ELSE <<len(n) + 1>>] = seqs
    BY <2>1, Zenon
  <2> QED BY <2>2, <2>3
<1> HIDE DEF u, t
<1>6. seqs \in [1..N -> Seq(Nat \ {0})]
  <2>1. ASSUME NEW n \in 1..N
        PROVE  (IF runs[n] >= MakeUp THEN <<u(n), t(n)>> ELSE <<runs[n] + 1>>) \in Seq(Nat \ {0})
    <3>1. PICK X : X = Nat \ {0}
      OBVIOUS
    <3>2. CASE runs[n] >= MakeUp
      <4>1. u(n) \in X /\ t(n) \in X
        BY <1>3, <3>1, <3>2
      <4>2. <<u(n), t(n)>> \in Seq(X)
        BY <4>1
      <4> QED BY <3>1, <3>2, <4>2
    <3>3. CASE ~(runs[n] >= MakeUp)
      <4>1. PICK a \in X : a = runs[n] + 1
        BY <1>4, <3>1
      <4>2. <<a>> \in Seq(X)
        BY <4>1
      <4> QED BY <3>1, <3>3, <4>1, <4>2
    <3> QED BY <3>2, <3>3
  <2> QED BY <2>1
<1>7. ASSUME NEW n \in 1..N
      PROVE  /\ runs[n] >= MakeUp => Len(seqs[n]) = 2 /\ seqs[n][1] = u(n) /\ seqs[n][2] = t(n)
             /\ ~(runs[n] >= MakeUp) => Len(seqs[n]) = 1 /\ seqs[n][1] = runs[n] + 1
  OBVIOUS
<1> HIDE DEF seqs
<1>8. PICK F : Joins(F, N, seqs, Nat \ {0})
  BY <1>6, Flattened
<1>9. F \in [0..N -> Seq(Nat \ {0})] /\ F[0] = <<>> /\ F[N] = runtocode(runs)
  BY <1>5, <1>8 DEF Joins
<1>10. PICK codes \in Seq(Nat \ {0}) : codes = runtocode(runs) /\ codes = F[N]
  BY <1>9
<1>11. PICK M \in Nat : M = Len(codes) /\ codes \in [1..M -> Nat \ {0}]
  BY ElementOfSeq
<1>12. PICK g : /\ g \in [0..M -> Decoded] /\ g[0] = NothingDecoded
                /\ \A n \in 1..M : g[n] = DecodeOne(g[n - 1], codes[n])
                /\ g[M].up = 0 => coderuns(codes) = g[M].runs
  BY <1>11, coderunsSteps
<1> DEFINE P(n) == [i \in 1..n |-> runs[i]]
           S == {n \in 0..N : g[Len(F[n])] = [runs |-> P(n), up |-> 0]}
<1>13. \A n \in 0..N : P(n) \in Seq(Nat)
  <2>1. ASSUME NEW n \in 0..N PROVE P(n) \in Seq(Nat)
    <3>1. n \in Nat /\ \A i \in 1..n : runs[i] \in Nat
      BY <1>1
    <3> QED BY <3>1
  <2> QED BY <2>1
<1>14. 0 \in S
  <2>1. P(0) = <<>>
    OBVIOUS
  <2>2. Len(F[0]) = 0
    BY <1>9
  <2> HIDE DEF P
  <2> QED BY <1>12, <2>1, <2>2 DEF NothingDecoded
<1>15. ASSUME NEW n \in 1..N, n - 1 \in S PROVE n \in S
  <2>1. JoinedAt(F, N, seqs, n)
    BY <1>6, <1>8, JoinedAll
  <2>2. n \in 0..N /\ n - 1 \in 0..N
    OBVIOUS
  <2>3. PICK a \in Nat : a = Len(F[n - 1])
    BY <1>9, <2>2
  <2>4. PICK r \in Seq(Nat) : r = P(n - 1)
    BY <1>13, <2>2
  <2>5. g[a] = [runs |-> r, up |-> 0]
    BY <1>15, <2>3, <2>4
  <2>6. Append(r, runs[n]) = P(n)
    <3>1. PICK m \in Nat : m = n - 1 /\ n = m + 1
      BY <2>2
    <3>2. r = [i \in 1..m |-> runs[i]]
      BY <2>4, <3>1
    <3>3. PICK z : z = Append(r, runs[n])
      OBVIOUS
    <3>4. Len(r) = m
      BY <3>2
    <3>5. z \in Seq(Nat) /\ Len(z) = m + 1 /\ z[m + 1] = runs[n] /\ \A i \in 1..m : z[i] = runs[i]
      <4>1. runs[n] \in Nat
        BY <1>1
      <4>2. /\ Append(r, runs[n]) \in Seq(Nat) /\ Len(Append(r, runs[n])) = Len(r) + 1
            /\ \A i \in 1..Len(r) : Append(r, runs[n])[i] = r[i]
            /\ Append(r, runs[n])[Len(r) + 1] = runs[n]
        BY <4>1, AppendProperties
      <4> QED BY <3>2, <3>3, <3>4, <4>2
    <3>6. z \in [1..(m + 1) -> Nat]
      <4>1. z \in [1..Len(z) -> Nat]
        BY <3>5, ElementOfSeq
      <4> QED BY <3>5, <4>1
    <3>7. ASSUME NEW i \in 1..(m + 1) PROVE z[i] = runs[i]
      <4>1. i = m + 1 \/ i \in 1..m
        OBVIOUS
      <4> QED BY <3>1, <3>5, <4>1
    <3>8. z = [i \in 1..(m + 1) |-> runs[i]]
      BY <3>6, <3>7
    <3> QED BY <3>1, <3>3, <3>8
  <2> HIDE DEF P
  <2>7. g[Len(F[n])] = [runs |-> P(n), up |-> 0]
    <3>1. CASE runs[n] >= MakeUp
      <4>1. Len(seqs[n]) = 2 /\ seqs[n][1] = u(n) /\ seqs[n][2] = t(n)
        BY <1>7, <3>1
      <4>2. Len(F[n]) = a + 2 /\ a + 2 <= M
        BY <1>10, <1>11, <2>1, <2>3, <4>1 DEF JoinedAt
      <4>3. a + 1 \in 1..M /\ a + 2 \in 1..M /\ (a + 1) - 1 = a /\ (a + 2) - 1 = a + 1
        BY <4>2
      <4>4. codes[a + 1] = u(n) /\ codes[a + 2] = t(n)
        <5>1. 1 \in 1..2 /\ 2 \in 1..2
          OBVIOUS
        <5> QED BY <1>10, <2>1, <2>3, <4>1, <5>1 DEF JoinedAt
      <4>5. g[a + 1] = DecodeOne([runs |-> r, up |-> 0], u(n))
        BY <1>12, <2>5, <4>3, <4>4
      <4>6. u(n) \in Nat \ {0} /\ u(n) > MakeUp /\ t(n) \in Nat \ {0} /\ u(n) + t(n) - 2 = runs[n]
        BY <1>3, <3>1
      <4>7. g[a + 1] = [runs |-> r, up |-> u(n)]
        BY <4>5, <4>6, DecodeOneIs
      <4>8. g[a + 2] = DecodeOne([runs |-> r, up |-> u(n)], t(n))
        BY <1>12, <4>3, <4>4, <4>7
      <4>9. u(n) > 0 /\ u(n) \in Nat
        BY <4>6
      <4>10. g[a + 2] = [runs |-> Append(r, u(n) + t(n) - 2), up |-> 0]
        BY <4>6, <4>8, <4>9, DecodeOneIs
      <4> QED BY <2>6, <4>2, <4>6, <4>10
    <3>2. CASE ~(runs[n] >= MakeUp)
      <4>1. Len(seqs[n]) = 1 /\ seqs[n][1] = runs[n] + 1
        BY <1>7, <3>2
      <4>2. Len(F[n]) = a + 1 /\ a + 1 <= M
        BY <1>10, <1>11, <2>1, <2>3, <4>1 DEF JoinedAt
      <4>3. a + 1 \in 1..M /\ (a + 1) - 1 = a
        BY <4>2
      <4>4. codes[a + 1] = runs[n] + 1
        <5>1. 1 \in 1..1
          OBVIOUS
        <5> QED BY <1>10, <2>1, <2>3, <4>1, <5>1 DEF JoinedAt
      <4>5. g[a + 1] = DecodeOne([runs |-> r, up |-> 0], runs[n] + 1)
        BY <1>12, <2>5, <4>3, <4>4
      <4>6. PICK c \in Nat \ {0} : c = runs[n] + 1 /\ c - 1 = runs[n] /\ ~(c > MakeUp)
        BY <1>4, <3>2
      <4>7. g[a + 1] = [runs |-> Append(r, c - 1), up |-> 0]
        <5>1. 0 \in Nat
          OBVIOUS
        <5>2. DecodeOne([runs |-> r, up |-> 0], c) = [runs |-> Append(r, c - 1), up |-> 0]
          BY <4>6, <5>1, DecodeOneIs
        <5> QED BY <4>5, <4>6, <5>2
      <4> QED BY <2>6, <4>2, <4>6, <4>7
    <3> QED BY <3>1, <3>2
  <2> QED BY <2>7
<1>16. 0..N \subseteq S
  <2> HIDE DEF S
  <2> QED BY <1>14, <1>15, InductionTo
<1>17. g[M] = [runs |-> P(N), up |-> 0]
  <2>1. N \in S
    <3> HIDE DEF S
    <3>1. N \in 0..N
      OBVIOUS
    <3> QED BY <1>16, <3>1
  <2>2. Len(F[N]) = M
    BY <1>10, <1>11
  <2> HIDE DEF P
  <2> QED BY <2>1, <2>2
<1>18. P(N) = runs
  BY <1>1
<1> HIDE DEF P
<1>19. g[M].up = 0 /\ g[M].runs = runs
  BY <1>17, <1>18
<1> QED BY <1>10, <1>12, <1>19

-----------------------------------------------------------------------------
(* One line laid over another.                                             *)

\* s is what is left, from pixel P on, of a line of N runs that end at e; run i is the first.
LeftOf(s, N, e, i, P) ==
  /\ N \in Nat /\ e \in [0..N -> Nat] /\ (\A n \in 1..N : e[n - 1] <= e[n])
  /\ i \in 1..(N + 1) /\ P \in Nat /\ e[i - 1] <= P
  /\ s \in Seq(Nat) /\ Len(s) = (N + 1) - i
  /\ i <= N => P <= e[i] /\ s[1] = e[i] - P
  /\ \A n \in 2..Len(s) : s[n] = e[(i + n) - 1] - e[(i + n) - 2]

\* What is left after the whole of the first run.
LEMMA LeftTail ==
  ASSUME NEW s, NEW N, NEW e, NEW i, NEW P, LeftOf(s, N, e, i, P), s # <<>>
  PROVE  /\ i \in 1..N /\ s[1] \in Nat /\ P + s[1] = e[i]
         /\ LeftOf(Tail(s), N, e, i + 1, P + s[1])
<1>1. /\ N \in Nat /\ e \in [0..N -> Nat] /\ (\A n \in 1..N : e[n - 1] <= e[n])
      /\ i \in 1..(N + 1) /\ P \in Nat /\ e[i - 1] <= P
      /\ s \in Seq(Nat) /\ Len(s) = (N + 1) - i
      /\ i <= N => P <= e[i] /\ s[1] = e[i] - P
      /\ \A n \in 2..Len(s) : s[n] = e[(i + n) - 1] - e[(i + n) - 2]
  BY DEF LeftOf
<1>2. Len(s) # 0
  BY <1>1
<1>3. i \in 1..N /\ i \in 0..N /\ i - 1 \in 0..N
  BY <1>1, <1>2
<1>4. e[i] \in Nat /\ s[1] = e[i] - P /\ P <= e[i]
  BY <1>1, <1>3
<1>5. s[1] \in Nat /\ P + s[1] = e[i]
  <2>1. P \in Nat
    BY <1>1
  <2> QED BY <1>4, <2>1
<1>6. PICK t \in Seq(Nat) : t = Tail(s) /\ Len(t) = Len(s) - 1 /\ \A n \in 1..(Len(s) - 1) : t[n] = s[n + 1]
  <2>1. Tail(s) \in Seq(Nat) /\ Len(Tail(s)) = Len(s) - 1 /\ \A n \in 1..(Len(s) - 1) : Tail(s)[n] = s[n + 1]
    BY <1>1, HeadTailProperties
  <2> QED BY <2>1
<1>7. Len(t) = (N + 1) - (i + 1) /\ i + 1 \in 1..(N + 1) /\ (i + 1) - 1 = i
  BY <1>1, <1>3, <1>6
<1>8. ASSUME NEW n \in 1..Len(t) PROVE t[n] = e[i + n] - e[(i + n) - 1]
  <2>1. n + 1 \in 2..Len(s) /\ n \in 1..(Len(s) - 1)
        /\ (i + (n + 1)) - 1 = i + n /\ (i + (n + 1)) - 2 = (i + n) - 1
    BY <1>1, <1>3, <1>6, <1>7
  <2> QED BY <1>1, <1>6, <2>1
<1>9. i + 1 <= N => e[i] <= e[i + 1] /\ t[1] = e[i + 1] - e[i]
  <2>1. SUFFICES ASSUME i + 1 <= N PROVE e[i] <= e[i + 1] /\ t[1] = e[i + 1] - e[i]
    OBVIOUS
  <2>2. 1 \in 1..Len(t) /\ i + 1 \in 1..N /\ (i + 1) - 1 = i
    BY <1>1, <1>3, <1>7, <2>1
  <2> QED BY <1>1, <1>8, <2>2
<1>10. \A n \in 2..Len(t) : t[n] = e[((i + 1) + n) - 1] - e[((i + 1) + n) - 2]
  <2>1. ASSUME NEW n \in 2..Len(t) PROVE t[n] = e[((i + 1) + n) - 1] - e[((i + 1) + n) - 2]
    <3>1. n \in 1..Len(t) /\ ((i + 1) + n) - 1 = i + n /\ ((i + 1) + n) - 2 = (i + n) - 1
      BY <1>3, <1>6
    <3> QED BY <1>8, <3>1
  <2> QED BY <2>1
<1>11. LeftOf(t, N, e, i + 1, e[i])
  <2>1. e[(i + 1) - 1] <= e[i]
    BY <1>4, <1>7
  <2> QED BY <1>1, <1>4, <1>6, <1>7, <1>9, <1>10, <2>1 DEF LeftOf
<1> QED BY <1>3, <1>5, <1>6, <1>11

\* What is left after a part of the first run.
LEMMA LeftLess ==
  ASSUME NEW s, NEW N, NEW e, NEW i, NEW P, LeftOf(s, N, e, i, P), s # <<>>,
         NEW x \in Nat, x <= s[1]
  PROVE  <<s[1] - x>> \o Tail(s) # <<>> /\ LeftOf(<<s[1] - x>> \o Tail(s), N, e, i, P + x)
<1>1. /\ N \in Nat /\ e \in [0..N -> Nat] /\ (\A n \in 1..N : e[n - 1] <= e[n])
      /\ i \in 1..(N + 1) /\ P \in Nat /\ e[i - 1] <= P
      /\ s \in Seq(Nat) /\ Len(s) = (N + 1) - i
      /\ i <= N => P <= e[i] /\ s[1] = e[i] - P
      /\ \A n \in 2..Len(s) : s[n] = e[(i + n) - 1] - e[(i + n) - 2]
  BY DEF LeftOf
<1>2. Len(s) # 0
  BY <1>1
<1>3. i \in 1..N /\ i \in 0..N /\ i - 1 \in 0..N
  BY <1>1, <1>2
<1>4. e[i] \in Nat /\ e[i - 1] \in Nat /\ s[1] = e[i] - P /\ P <= e[i]
  BY <1>1, <1>3
<1>5. PICK a \in Nat : a = s[1] - x
  <2>1. s[1] \in Nat
    <3>1. s \in Seq(Nat) /\ 1 \in 1..Len(s)
      BY <1>1, <1>2
    <3> QED BY <3>1, ElementOfSeq
  <2> QED BY ONLY <2>1, x \in Nat, x <= s[1]
<1>6. PICK t \in Seq(Nat) : t = Tail(s) /\ Len(t) = Len(s) - 1 /\ \A n \in 1..(Len(s) - 1) : t[n] = s[n + 1]
  <2>1. Tail(s) \in Seq(Nat) /\ Len(Tail(s)) = Len(s) - 1 /\ \A n \in 1..(Len(s) - 1) : Tail(s)[n] = s[n + 1]
    BY <1>1, HeadTailProperties
  <2> QED BY <2>1
<1>7. PICK r \in Seq(Nat) : r = <<a>> /\ Len(r) = 1 /\ r[1] = a
  <2>1. <<a>> \in Seq(Nat) /\ Len(<<a>>) = 1 /\ <<a>>[1] = a
    OBVIOUS
  <2> QED BY <2>1
<1>8. PICK z \in Seq(Nat) : z = r \o t /\ Len(z) = Len(s) /\ z[1] = a /\ \A n \in 2..Len(s) : z[n] = s[n]
  <2>1. /\ r \o t \in Seq(Nat) /\ Len(r \o t) = Len(r) + Len(t)
        /\ \A n \in 1..(Len(r) + Len(t)) : (r \o t)[n] = IF n <= Len(r) THEN r[n] ELSE t[n - Len(r)]
    BY ConcatProperties
  <2>2. Len(r) + Len(t) = Len(s) /\ Len(s) \in Nat
    BY <1>1, <1>6, <1>7
  <2>3. \A n \in 1..Len(s) : (r \o t)[n] = IF n <= 1 THEN r[n] ELSE t[n - 1]
    BY <1>7, <2>1, <2>2
  <2>4. 1 \in 1..Len(s) /\ 1 <= 1
    BY <1>2, <2>2
  <2>5. ASSUME NEW n \in 2..Len(s) PROVE (r \o t)[n] = s[n]
    <3>1. n \in 1..Len(s) /\ ~(n <= 1) /\ n - 1 \in 1..(Len(s) - 1) /\ (n - 1) + 1 = n
      BY <2>2
    <3>2. t[n - 1] = s[(n - 1) + 1]
      BY <1>6, <3>1
    <3> QED BY <2>3, <3>1, <3>2
  <2>6. (r \o t)[1] = a
    BY <1>7, <2>3, <2>4
  <2>7. r \o t \in Seq(Nat) /\ Len(r \o t) = Len(s)
    BY <2>1, <2>2
  <2> QED BY <2>5, <2>6, <2>7
<1>9. e[i - 1] <= P + x /\ P + x \in Nat /\ P + x <= e[i] /\ a = e[i] - (P + x)
  <2>1. P \in Nat /\ e[i - 1] <= P
    BY <1>1
  <2> QED BY <1>4, <1>5, <2>1
<1>10. LeftOf(z, N, e, i, P + x)
  BY <1>1, <1>8, <1>9 DEF LeftOf
<1>11. z # <<>>
  BY <1>2, <1>8
<1> QED BY <1>5, <1>6, <1>7, <1>8, <1>10, <1>11

\* At first all of the line is left.
LEMMA LeftFirst ==
  ASSUME NEW runs, NEW w, NEW B, NEW N, NEW e, MadeOf(runs, w, B, N, e)
  PROVE  LeftOf(runs, N, e, 1, 0)
<1>1. /\ N \in Nat \ {0} /\ e \in [0..N -> Nat] /\ runs \in [1..N -> Nat] /\ N = Len(runs)
      /\ runs \in Seq(Nat) /\ e[0] = 0
      /\ \A n \in 1..N : e[n] = e[n - 1] + runs[n] /\ e[n - 1] <= e[n]
  BY DEF MadeOf
<1>2. 1 \in 1..N /\ 1 \in 1..(N + 1) /\ (N + 1) - 1 = N /\ 1 - 1 = 0 /\ 1 \in 0..N
  BY <1>1
<1>3. e[1] \in Nat /\ runs[1] \in Nat /\ e[1] = e[0] + runs[1]
  BY <1>1, <1>2
<1>4. 0 <= e[1] /\ runs[1] = e[1] - 0 /\ e[1 - 1] <= 0
  BY <1>1, <1>2, <1>3
<1>5. ASSUME NEW n \in 2..N PROVE runs[n] = e[(1 + n) - 1] - e[(1 + n) - 2]
  <2>1. n \in 1..N /\ n \in 0..N /\ n - 1 \in 0..N /\ (1 + n) - 1 = n /\ (1 + n) - 2 = n - 1
    BY <1>1
  <2>2. e[n] = e[n - 1] + runs[n] /\ e[n - 1] \in Nat /\ runs[n] \in Nat
    BY <1>1, <2>1
  <2> QED BY <2>1, <2>2
<1> QED BY <1>1, <1>2, <1>4, <1>5 DEF LeftOf

\* A pixel of the run at hand is black if the colour of the run is.
LEMMA LeftColour ==
  ASSUME NEW s, NEW N, NEW e, NEW i, NEW P, LeftOf(s, N, e, i, P), s # <<>>,
         NEW B, B = Blacks(e, N, e[N]), NEW z \in Nat, P < z, z <= P + s[1]
  PROVE  z \in B <=> Colour(i) = 1
<1>1. /\ N \in Nat /\ e \in [0..N -> Nat] /\ (\A n \in 1..N : e[n - 1] <= e[n])
      /\ P \in Nat /\ e[i - 1] <= P
  BY DEF LeftOf
<1>2. i \in 1..N /\ P + s[1] = e[i]
  BY LeftTail
<1>3. e[i - 1] < z /\ z <= e[i]
  <2>1. i - 1 \in 0..N
    BY <1>1, <1>2
  <2>2. e[i - 1] \in Nat
    BY <1>1, <2>1
  <2> QED BY <1>1, <1>2, <2>2
<1>4. z \in 1..e[N]
  <2>1. i \in 0..N /\ N \in 0..N
    BY <1>1, <1>2
  <2>2. e[i] <= e[N] /\ e[i] \in Nat /\ e[N] \in Nat
    <3>1. e[i] <= e[N]
      BY <1>1, <2>1, EndsGrow
    <3> QED BY <1>1, <2>1, <3>1
  <2> QED BY <1>1, <1>3, <2>2
<1>5. ASSUME NEW n \in 1..N, e[n - 1] < z, z <= e[n] PROVE n = i
  BY <1>1, <1>2, <1>3, <1>5, EndsDiffer
<1> QED BY <1>2, <1>3, <1>4, <1>5 DEF Blacks

\* What runor() does at a time.
Overlaid == [a : Seq(Nat), b : Seq(Nat), i : Nat, j : Nat, c : Lines]
Over(a, b, i, j, c) == [a |-> a, b |-> b, i |-> i, j |-> j, c |-> c]
Either(i, j) == IF Colour(i) = 1 \/ Colour(j) = 1 THEN 1 ELSE 0

OverStep(m) ==
  CASE m.a # <<>> /\ m.b # <<>> ->
         LET col == IF Colour(m.i) = 1 \/ Colour(m.j) = 1 THEN 1 ELSE 0
             x == Head(m.a)  y == Head(m.b)
         IN IF x <= y THEN [m EXCEPT !.c = PutRun(@, col, x), !.a = Tail(@), !.i = @ + 1,
                                     !.b = <<y - x>> \o Tail(@)]
            ELSE [m EXCEPT !.c = PutRun(@, col, y), !.b = Tail(@), !.j = @ + 1,
                           !.a = <<x - y>> \o Tail(@)]
    [] m.a # <<>> /\ m.b = <<>> ->
         [m EXCEPT !.c = PutRun(@, Colour(m.i), Head(m.a)), !.a = Tail(@), !.i = @ + 1]
    [] m.a = <<>> /\ m.b # <<>> ->
         [m EXCEPT !.c = PutRun(@, Colour(m.j), Head(m.b)), !.b = Tail(@), !.j = @ + 1]
    [] OTHER -> m

First(s) == Head(s)
Rest(s) == Tail(s)
LessFirst(s, x) == <<Head(s) - x>> \o Tail(s)

\* The fields of what has been laid.
LEMMA OverFields ==
  ASSUME NEW a, NEW b, NEW i, NEW j, NEW c
  PROVE  /\ Over(a, b, i, j, c).a = a /\ Over(a, b, i, j, c).b = b
         /\ Over(a, b, i, j, c).i = i /\ Over(a, b, i, j, c).j = j /\ Over(a, b, i, j, c).c = c
BY DEF Over

PutA(m, z) == [m EXCEPT !.a = z]
PutB(m, z) == [m EXCEPT !.b = z]
PutI(m, z) == [m EXCEPT !.i = z]
PutJ(m, z) == [m EXCEPT !.j = z]
PutC(m, z) == [m EXCEPT !.c = z]

\* One field of what has been laid is changed.
LEMMA OverPut ==
  \A a, b, i, j, c, z :
    /\ PutA(Over(a, b, i, j, c), z) = Over(z, b, i, j, c)
    /\ PutB(Over(a, b, i, j, c), z) = Over(a, z, i, j, c)
    /\ PutI(Over(a, b, i, j, c), z) = Over(a, b, z, j, c)
    /\ PutJ(Over(a, b, i, j, c), z) = Over(a, b, i, z, c)
    /\ PutC(Over(a, b, i, j, c), z) = Over(a, b, i, j, z)
<1>1. ASSUME NEW a, NEW b, NEW i, NEW j, NEW c, NEW z
      PROVE  /\ PutA(Over(a, b, i, j, c), z) = Over(z, b, i, j, c)
             /\ PutB(Over(a, b, i, j, c), z) = Over(a, z, i, j, c)
             /\ PutI(Over(a, b, i, j, c), z) = Over(a, b, z, j, c)
             /\ PutJ(Over(a, b, i, j, c), z) = Over(a, b, i, z, c)
             /\ PutC(Over(a, b, i, j, c), z) = Over(a, b, i, j, z)
  <2>1. PutA(Over(a, b, i, j, c), z) = Over(z, b, i, j, c)
    BY DEF Over, PutA
  <2>2. PutB(Over(a, b, i, j, c), z) = Over(a, z, i, j, c)
    BY DEF Over, PutB
  <2>3. PutI(Over(a, b, i, j, c), z) = Over(a, b, z, j, c)
    BY DEF Over, PutI
  <2>4. PutJ(Over(a, b, i, j, c), z) = Over(a, b, i, z, c)
    BY DEF Over, PutJ
  <2>5. PutC(Over(a, b, i, j, c), z) = Over(a, b, i, j, z)
    BY DEF Over, PutC
  <2> QED BY <2>1, <2>2, <2>3, <2>4, <2>5
<1> QED BY <1>1

\* The fields that a step changes.
LEMMA OverPuts ==
  \A a, b, i, j, c, a1, b1, i1, j1, c1 :
    /\ PutB(PutI(PutA(PutC(Over(a, b, i, j, c), c1), a1), i1), b1) = Over(a1, b1, i1, j, c1)
    /\ PutA(PutJ(PutB(PutC(Over(a, b, i, j, c), c1), b1), j1), a1) = Over(a1, b1, i, j1, c1)
    /\ PutI(PutA(PutC(Over(a, b, i, j, c), c1), a1), i1) = Over(a1, b, i1, j, c1)
    /\ PutJ(PutB(PutC(Over(a, b, i, j, c), c1), b1), j1) = Over(a, b1, i, j1, c1)
BY OverPut

\* A step while both lines have runs: the shorter run is taken of both.
LEMMA OverStepBoth ==
  ASSUME NEW a, NEW b, NEW i, NEW j, NEW c, a # <<>>, b # <<>>
  PROVE  /\ First(a) <= First(b) =>
              OverStep(Over(a, b, i, j, c)) =
                Over(Rest(a), LessFirst(b, First(a)), i + 1, j, PutRun(c, Either(i, j), First(a)))
         /\ ~(First(a) <= First(b)) =>
              OverStep(Over(a, b, i, j, c)) =
                Over(LessFirst(a, First(b)), Rest(b), i, j + 1, PutRun(c, Either(i, j), First(b)))
<1>1. PICK m : m = Over(a, b, i, j, c)
  OBVIOUS
<1>2. m.a = a /\ m.b = b /\ m.i = i /\ m.j = j /\ m.c = c
  BY <1>1, OverFields
<1>3. OverStep(m) =
         IF First(a) <= First(b)
         THEN PutB(PutI(PutA(PutC(m, PutRun(c, Either(i, j), First(a))), Rest(a)), i + 1),
                   LessFirst(b, First(a)))
         ELSE PutA(PutJ(PutB(PutC(m, PutRun(c, Either(i, j), First(b))), Rest(b)), j + 1),
                   LessFirst(a, First(b)))
  BY <1>2 DEF First, Rest, LessFirst, OverStep, Either, PutA, PutB, PutC, PutI, PutJ
<1>4. PutB(PutI(PutA(PutC(m, PutRun(c, Either(i, j), First(a))), Rest(a)), i + 1),
             LessFirst(b, First(a)))
        = Over(Rest(a), LessFirst(b, First(a)), i + 1, j, PutRun(c, Either(i, j), First(a)))
  BY ONLY <1>1, OverPuts
<1>5. PutA(PutJ(PutB(PutC(m, PutRun(c, Either(i, j), First(b))), Rest(b)), j + 1),
             LessFirst(a, First(b)))
        = Over(LessFirst(a, First(b)), Rest(b), i, j + 1, PutRun(c, Either(i, j), First(b)))
  BY ONLY <1>1, OverPuts
<1> QED BY ONLY <1>1, <1>3, <1>4, <1>5, Zenon

\* A step when the second line is at its end.
LEMMA OverStepOnlyA ==
  ASSUME NEW a, NEW b, NEW i, NEW j, NEW c, a # <<>>, b = <<>>
  PROVE  OverStep(Over(a, b, i, j, c)) = Over(Rest(a), b, i + 1, j, PutRun(c, Colour(i), First(a)))
<1>1. PICK m : m = Over(a, b, i, j, c)
  OBVIOUS
<1>2. m.a = a /\ m.b = b /\ m.i = i /\ m.j = j /\ m.c = c
  BY <1>1, OverFields
<1>3. OverStep(m) = PutI(PutA(PutC(m, PutRun(c, Colour(i), First(a))), Rest(a)), i + 1)
  BY <1>2 DEF First, Rest, OverStep, PutA, PutB, PutC, PutI, PutJ
<1>4. PutI(PutA(PutC(m, PutRun(c, Colour(i), First(a))), Rest(a)), i + 1)
        = Over(Rest(a), b, i + 1, j, PutRun(c, Colour(i), First(a)))
  BY ONLY <1>1, OverPuts
<1> QED BY ONLY <1>1, <1>3, <1>4, Zenon

\* A step when the first line is at its end.
LEMMA OverStepOnlyB ==
  ASSUME NEW a, NEW b, NEW i, NEW j, NEW c, a = <<>>, b # <<>>
  PROVE  OverStep(Over(a, b, i, j, c)) = Over(a, Rest(b), i, j + 1, PutRun(c, Colour(j), First(b)))
<1>1. PICK m : m = Over(a, b, i, j, c)
  OBVIOUS
<1>2. m.a = a /\ m.b = b /\ m.i = i /\ m.j = j /\ m.c = c
  BY <1>1, OverFields
<1>3. OverStep(m) = PutJ(PutB(PutC(m, PutRun(c, Colour(j), First(b))), Rest(b)), j + 1)
  BY <1>2 DEF First, Rest, OverStep, PutA, PutB, PutC, PutI, PutJ
<1>4. PutJ(PutB(PutC(m, PutRun(c, Colour(j), First(b))), Rest(b)), j + 1)
        = Over(a, Rest(b), i, j + 1, PutRun(c, Colour(j), First(b)))
  BY ONLY <1>1, OverPuts
<1> QED BY ONLY <1>1, <1>3, <1>4, Zenon

\* A step when both are.
LEMMA OverStepNone ==
  ASSUME NEW a, NEW b, NEW i, NEW j, NEW c, a = <<>>, b = <<>>
  PROVE  OverStep(Over(a, b, i, j, c)) = Over(a, b, i, j, c)
<1>1. PICK m : m = Over(a, b, i, j, c)
  OBVIOUS
<1>2. m.a = a /\ m.b = b
  BY <1>1, OverFields
<1>3. OverStep(m) = m
  BY <1>2 DEF OverStep
<1> QED BY <1>1, <1>3

\* What has been laid is made of its fields.
LEMMA OverlaidIs ==
  ASSUME NEW m \in Overlaid
  PROVE  \E a \in Seq(Nat), b \in Seq(Nat), i \in Nat, j \in Nat, c \in Lines : m = Over(a, b, i, j, c)
<1>1. PICK A, C : A = Seq(Nat) /\ C = Lines
  OBVIOUS
<1>2. m \in [a : A, b : A, i : Nat, j : Nat, c : C]
  BY <1>1 DEF Overlaid
<1>3. m = Over(m.a, m.b, m.i, m.j, m.c) /\ m.a \in A /\ m.b \in A /\ m.i \in Nat /\ m.j \in Nat /\ m.c \in C
  BY <1>2 DEF Over
<1> QED BY <1>1, <1>3

\* Its fields make what has been laid.
LEMMA OverIs ==
  ASSUME NEW a \in Seq(Nat), NEW b \in Seq(Nat), NEW i \in Nat, NEW j \in Nat, NEW c \in Lines
  PROVE  Over(a, b, i, j, c) \in Overlaid
<1>1. PICK A, C : A = Seq(Nat) /\ C = Lines
  OBVIOUS
<1>2. Over(a, b, i, j, c) \in [a : A, b : A, i : Nat, j : Nat, c : C]
  BY <1>1 DEF Over
<1> QED BY <1>1, <1>2 DEF Overlaid

\* The first run of a line, and the others.
LEMMA HeadIs ==
  ASSUME NEW s \in Seq(Nat), s # <<>>
  PROVE  First(s) = s[1] /\ First(s) \in Nat /\ Rest(s) \in Seq(Nat)
<1>1. Head(s) \in Nat /\ Tail(s) \in Seq(Nat)
  BY HeadTailProperties
<1>2. Head(s) = s[1]
  OBVIOUS
<1> QED BY <1>1, <1>2 DEF First, Rest

\* A run less a part of it is a run.
LEMMA LessHead ==
  ASSUME NEW s \in Seq(Nat), s # <<>>, NEW x \in Nat, x <= First(s)
  PROVE  LessFirst(s, x) \in Seq(Nat)
<1>1. PICK y \in Nat : y = Head(s) - x
  BY HeadIs DEF First
<1>2. <<y>> \in Seq(Nat) /\ Tail(s) \in Seq(Nat)
  BY HeadIs DEF Rest
<1> QED BY <1>1, <1>2, ConcatProperties DEF LessFirst

\* A step makes what has been laid of what had been.
LEMMA OverStepOverlays ==
  ASSUME NEW m \in Overlaid
  PROVE  OverStep(m) \in Overlaid
<1>1. PICK a \in Seq(Nat), b \in Seq(Nat), i \in Nat, j \in Nat, c \in Lines : m = Over(a, b, i, j, c)
  BY OverlaidIs
<1>2. Colour(i) \in {0, 1} /\ Colour(j) \in {0, 1} /\ Either(i, j) \in {0, 1} /\ i + 1 \in Nat /\ j + 1 \in Nat
  <2>1. Colour(i) \in {0, 1} /\ Colour(j) \in {0, 1}
    BY ColoursTurn
  <2> QED BY <2>1 DEF Either
<1>3. CASE a # <<>> /\ b # <<>>
  <2>1. First(a) \in Nat /\ Rest(a) \in Seq(Nat) /\ First(b) \in Nat /\ Rest(b) \in Seq(Nat)
    BY <1>3, HeadIs
  <2>2. CASE First(a) <= First(b)
    <3>1. LessFirst(b, First(a)) \in Seq(Nat)
      BY <1>3, <2>1, <2>2, LessHead
    <3>2. PutRun(c, Either(i, j), First(a)) \in Lines
      BY <1>2, <2>1, PutRunLine
    <3>3. OverStep(Over(a, b, i, j, c)) = Over(Rest(a), LessFirst(b, First(a)), i + 1, j, PutRun(c, Either(i, j), First(a)))
      BY ONLY <1>3, <2>2, OverStepBoth
    <3> QED BY <1>1, <1>2, <2>1, <3>1, <3>2, <3>3, OverIs
  <2>3. CASE ~(First(a) <= First(b))
    <3>1. LessFirst(a, First(b)) \in Seq(Nat)
      BY <1>3, <2>1, <2>3, LessHead
    <3>2. PutRun(c, Either(i, j), First(b)) \in Lines
      BY <1>2, <2>1, PutRunLine
    <3>3. OverStep(Over(a, b, i, j, c)) = Over(LessFirst(a, First(b)), Rest(b), i, j + 1, PutRun(c, Either(i, j), First(b)))
      BY ONLY <1>3, <2>3, OverStepBoth
    <3> QED BY <1>1, <1>2, <2>1, <3>1, <3>2, <3>3, OverIs
  <2> QED BY <2>2, <2>3
<1>4. CASE a # <<>> /\ b = <<>>
  <2>1. First(a) \in Nat /\ Rest(a) \in Seq(Nat)
    BY <1>4, HeadIs
  <2>2. PutRun(c, Colour(i), First(a)) \in Lines
    BY <1>2, <2>1, PutRunLine
  <2>3. OverStep(Over(a, b, i, j, c)) = Over(Rest(a), b, i + 1, j, PutRun(c, Colour(i), First(a)))
    BY <1>4, OverStepOnlyA
  <2> QED BY <1>1, <1>2, <2>1, <2>2, <2>3, OverIs
<1>5. CASE a = <<>> /\ b # <<>>
  <2>1. First(b) \in Nat /\ Rest(b) \in Seq(Nat)
    BY <1>5, HeadIs
  <2>2. PutRun(c, Colour(j), First(b)) \in Lines
    BY <1>2, <2>1, PutRunLine
  <2>3. OverStep(Over(a, b, i, j, c)) = Over(a, Rest(b), i, j + 1, PutRun(c, Colour(j), First(b)))
    BY <1>5, OverStepOnlyB
  <2> QED BY <1>1, <1>2, <2>1, <2>2, <2>3, OverIs
<1>6. CASE a = <<>> /\ b = <<>>
  BY <1>1, <1>6, OverStepNone
<1> QED BY <1>3, <1>4, <1>5, <1>6

\* A line of one empty run is a line.
LEMMA ZeroLine == <<0>> \in Lines
<1>1. <<0>> \in Seq(Nat) /\ Len(<<0>>) = 1 /\ Len(<<>>) = 0
  OBVIOUS
<1> QED BY <1>1 DEF Lines

\* runor() takes as many steps as there are runs in both lines.
LEMMA runorSteps ==
  ASSUME NEW a \in Seq(Nat), NEW b \in Seq(Nat), NEW N \in Nat, N = Len(a) + Len(b)
  PROVE  \E g : /\ g \in [0..N -> Overlaid] /\ g[0] = Over(a, b, 1, 1, <<0>>) /\ runor(a, b) = g[N].c
                /\ \A n \in 1..N : g[n] = OverStep(g[n - 1])
<1> DEFINE step == [n \in 1..N |-> [m \in Overlaid |-> OverStep(m)]]
           Is(f) == f = [s \in SUBSET (1..N) |-> IF s = {} THEN Over(a, b, 1, 1, <<0>>)
                                                 ELSE OverStep(f[s \ {Max(s)}])]
<1>2. step \in [1..N -> [Overlaid -> Overlaid]]
  BY OverStepOverlays
<1>3. Over(a, b, 1, 1, <<0>>) \in Overlaid
  <2>1. 1 \in Nat
    OBVIOUS
  <2> QED BY <2>1, ZeroLine, OverIs
<1>4. PICK h \in [SUBSET (1..N) -> Overlaid] : FoldsSets(h, N, Over(a, b, 1, 1, <<0>>), step)
  <2> HIDE DEF step
  <2> QED BY <1>2, <1>3, FoldExists
<1>5. ASSUME NEW s \in SUBSET (1..N), s # {}
      PROVE  /\ Max(s) \in 1..N /\ s \ {Max(s)} \in SUBSET (1..N)
             /\ \A m \in Overlaid : step[Max(s)][m] = OverStep(m)
  BY <1>5, MaxOf
<1>6. Is(h)
  <2>1. ASSUME NEW s \in SUBSET (1..N)
        PROVE  h[s] = IF s = {} THEN Over(a, b, 1, 1, <<0>>) ELSE OverStep(h[s \ {Max(s)}])
    <3>1. CASE s = {}
      BY <1>4, <3>1 DEF FoldsSets
    <3>2. CASE s # {}
      <4>1. h[s] = step[Max(s)][h[s \ {Max(s)}]]
        <5> HIDE DEF step
        <5> QED BY <1>4, <3>2 DEF FoldsSets
      <4>2. h[s \ {Max(s)}] \in Overlaid
        BY <1>5, <3>2
      <4> HIDE DEF step
      <4> QED BY <1>5, <3>2, <4>1, <4>2
    <3> QED BY <3>1, <3>2
  <2> QED BY <2>1
<1>7. PICK f : f = CHOOSE g : Is(g)
  OBVIOUS
<1>8. Is(f)
  <2> HIDE DEF Is
  <2> QED BY <1>6, <1>7
<1>9. GoesOn(f, N, Overlaid, Over(a, b, 1, 1, <<0>>), step)
  <2>1. f[{}] = Over(a, b, 1, 1, <<0>>)
    BY <1>8
  <2>2. ASSUME NEW s \in SUBSET (1..N), s # {}, f[s \ {Max(s)}] \in Overlaid
        PROVE  f[s] = step[Max(s)][f[s \ {Max(s)}]]
    <3>1. f[s] = OverStep(f[s \ {Max(s)}])
      BY <1>8, <2>2
    <3> HIDE DEF step
    <3> QED BY <1>5, <2>2, <3>1
  <2> HIDE DEF step
  <2> QED BY <2>1, <2>2 DEF GoesOn
<1>10. runor(a, b) = f[1..N].c
  <2>1. runor(a, b) = (LET all == CHOOSE each : Is(each) IN all[1..N]).c
    BY N = Len(a) + Len(b) DEF runor, FoldLeft, MapThenFoldSet, OverStep, Over
  <2> HIDE DEF Is
  <2> QED BY <1>7, <2>1
<1>11. PICK g : Recursion(g, N, Overlaid, Over(a, b, 1, 1, <<0>>), step) /\ f[1..N] = g[N]
  <2> HIDE DEF step
  <2>1. Folded(f[1..N], N, Overlaid, Over(a, b, 1, 1, <<0>>), step)
    BY ONLY N \in Nat, <1>2, <1>3, <1>9, FoldsAre, Zenon
  <2> QED BY <2>1 DEF Folded
<1>12. /\ g \in [0..N -> Overlaid] /\ g[0] = Over(a, b, 1, 1, <<0>>)
       /\ \A n \in 1..N : g[n] = step[n][g[n - 1]]
  <2> HIDE DEF step
  <2> QED BY <1>11 DEF Recursion
<1>13. \A n \in 1..N : g[n] = OverStep(g[n - 1])
  <2>1. ASSUME NEW n \in 1..N PROVE g[n] = OverStep(g[n - 1])
    <3>1. n - 1 \in 0..N
      OBVIOUS
    <3> QED BY <1>12, <3>1
  <2> QED BY <2>1
<1> QED BY <1>10, <1>11, <1>12, <1>13

\* A picture up to pixel P goes on with a run of one colour.
LEMMA PutMore ==
  ASSUME NEW c, NEW P \in Nat, NEW U, Draws(c, P, U \cap (1..P)), NEW x \in Nat, NEW col \in {0, 1},
         \A z \in Nat : P < z /\ z <= P + x => (z \in U <=> col = 1)
  PROVE  Draws(PutRun(c, col, x), P + x, U \cap (1..(P + x)))
<1>1. Draws(PutRun(c, col, x), P + x, More(U \cap (1..P), P, P + x, col))
  BY PutRunDraws
<1>2. ASSUME NEW z PROVE z \in More(U \cap (1..P), P, P + x, col) <=> z \in U \cap (1..(P + x))
  <2>1. z \in 1..(P + x) <=> z \in 1..P \/ z \in (P + 1)..(P + x)
    OBVIOUS
  <2>2. z \in (P + 1)..(P + x) => z \notin 1..P /\ z \in Nat /\ P < z /\ z <= P + x
    OBVIOUS
  <2>3. z \in (P + 1)..(P + x) => (z \in U <=> col = 1)
    BY <2>2
  <2>4. z \in More(U \cap (1..P), P, P + x, col)
          <=> (z \in U /\ z \in 1..P) \/ (col = 1 /\ z \in (P + 1)..(P + x))
    BY DEF More
  <2> QED BY <2>1, <2>2, <2>3, <2>4
<1>3. More(U \cap (1..P), P, P + x, col) = U \cap (1..(P + x))
  BY <1>2
<1> QED BY <1>1, <1>3

\* Where nothing is left the line draws nothing more.
LEMMA LeftNone ==
  ASSUME NEW N, NEW e, NEW i, NEW P, LeftOf(<<>>, N, e, i, P)
  PROVE  /\ i = N + 1 /\ e[N] <= P
         /\ \A z \in Nat : P < z => z \notin Blacks(e, N, e[N])
<1>1. N \in Nat /\ e \in [0..N -> Nat] /\ i \in 1..(N + 1) /\ e[i - 1] <= P /\ P \in Nat /\ Len(<<>>) = (N + 1) - i
  BY DEF LeftOf
<1>2. Len(<<>>) = 0
  OBVIOUS
<1>3. i = N + 1 /\ i - 1 = N
  BY <1>1, <1>2
<1>4. e[N] \in Nat /\ e[N] <= P
  BY <1>1, <1>3
<1>5. \A z \in Nat : P < z => z \notin 1..e[N]
  BY <1>1, <1>4
<1> QED BY <1>3, <1>4, <1>5 DEF Blacks

\* The first of the runs that are left, and what is left after it (LeftTail).
LEMMA LeftSome ==
  ASSUME NEW s, NEW N, NEW e, NEW i, NEW P, LeftOf(s, N, e, i, P), s # <<>>
  PROVE  /\ s \in Seq(Nat) /\ i \in 1..N /\ i <= N /\ First(s) = s[1] /\ First(s) \in Nat
         /\ P + First(s) <= e[N] /\ LeftOf(Rest(s), N, e, i + 1, P + First(s))
<1>1. N \in Nat /\ e \in [0..N -> Nat] /\ (\A n \in 1..N : e[n - 1] <= e[n]) /\ s \in Seq(Nat)
  BY DEF LeftOf
<1>2. First(s) = s[1] /\ First(s) \in Nat
  BY <1>1, HeadIs
<1>3. i \in 1..N /\ P + s[1] = e[i] /\ LeftOf(Tail(s), N, e, i + 1, P + s[1])
  BY LeftTail
<1>4. e[i] <= e[N]
  <2>1. i \in 0..N /\ N \in 0..N /\ i \in 0..N
    BY <1>1, <1>3
  <2> QED BY <1>1, <2>1, EndsGrow
<1>5. i <= N
  BY <1>1, <1>3
<1> QED BY <1>1, <1>2, <1>3, <1>4, <1>5 DEF Rest

\* LeftLess, in the words of the steps.
LEMMA LeftFewer ==
  ASSUME NEW s, NEW N, NEW e, NEW i, NEW P, LeftOf(s, N, e, i, P), s # <<>>,
         NEW x \in Nat, x <= First(s)
  PROVE  LeftOf(LessFirst(s, x), N, e, i, P + x)
<1>1. First(s) = s[1] /\ Head(s) = s[1]
  BY LeftSome DEF First
<1>2. LeftOf(<<s[1] - x>> \o Tail(s), N, e, i, P + x)
  BY <1>1, LeftLess
<1> QED BY <1>1, <1>2 DEF LessFirst

\* What runor() has laid after k steps, up to pixel P.
Laid(m, k, P, N, e, M, f) ==
  \E a, b, i, j, c :
    /\ m = Over(a, b, i, j, c) /\ LeftOf(a, N, e, i, P) /\ LeftOf(b, M, f, j, P)
    /\ k = (i + j) - 2 /\ (P <= e[N] \/ P <= f[M])
    /\ Draws(c, P, (Blacks(e, N, e[N]) \cup Blacks(f, M, f[M])) \cap (1..P))

\* One more step draws one more run of both lines, or a part of one.
LEMMA LaysOne ==
  ASSUME NEW m, NEW k \in Nat, NEW P, NEW N, NEW e, NEW M, NEW f, Laid(m, k, P, N, e, M, f), k < N + M
  PROVE  \E Q : Laid(OverStep(m), k + 1, Q, N, e, M, f)
<1>1. PICK a, b, i, j, c :
        /\ m = Over(a, b, i, j, c) /\ LeftOf(a, N, e, i, P) /\ LeftOf(b, M, f, j, P)
        /\ k = (i + j) - 2 /\ (P <= e[N] \/ P <= f[M])
        /\ Draws(c, P, (Blacks(e, N, e[N]) \cup Blacks(f, M, f[M])) \cap (1..P))
  BY DEF Laid
<1>2. PICK U : U = Blacks(e, N, e[N]) \cup Blacks(f, M, f[M])
  OBVIOUS
<1>3. P \in Nat /\ N \in Nat /\ M \in Nat /\ i \in Nat /\ j \in Nat
  BY <1>1 DEF LeftOf
<1>4. Colour(i) \in {0, 1} /\ Colour(j) \in {0, 1} /\ k + 1 = ((i + 1) + j) - 2 /\ k + 1 = (i + (j + 1)) - 2
  BY <1>1, <1>3, ColoursTurn
<1>5. Either(i, j) \in {0, 1} /\ (Either(i, j) = 1 <=> Colour(i) = 1 \/ Colour(j) = 1)
  BY <1>4 DEF Either
<1>6. ASSUME a # <<>>, NEW z \in Nat, P < z, z <= P + First(a)
      PROVE  z \in Blacks(e, N, e[N]) <=> Colour(i) = 1
  <2>1. First(a) = a[1]
    BY <1>1, <1>6, LeftSome
  <2> QED BY <1>1, <1>6, <2>1, LeftColour
<1>7. ASSUME b # <<>>, NEW z \in Nat, P < z, z <= P + First(b)
      PROVE  z \in Blacks(f, M, f[M]) <=> Colour(j) = 1
  <2>1. First(b) = b[1]
    BY <1>1, <1>7, LeftSome
  <2> QED BY <1>1, <1>7, <2>1, LeftColour
<1>8. CASE a # <<>> /\ b # <<>> /\ First(a) <= First(b)
  <2>1. PICK x \in Nat : x = First(a) /\ P + x <= e[N] /\ LeftOf(Rest(a), N, e, i + 1, P + x)
    BY <1>1, <1>8, LeftSome
  <2>2. First(b) \in Nat
    BY <1>1, <1>8, LeftSome
  <2>3. LeftOf(LessFirst(b, x), M, f, j, P + x)
    BY <1>1, <1>8, <2>1, LeftFewer
  <2>4. ASSUME NEW z \in Nat, P < z, z <= P + x PROVE z \in U <=> Either(i, j) = 1
    <3>1. z <= P + First(b)
      BY <1>3, <1>8, <2>1, <2>2, <2>4
    <3> QED BY <1>2, <1>5, <1>6, <1>7, <1>8, <2>1, <2>4, <3>1
  <2>5. Draws(PutRun(c, Either(i, j), x), P + x, U \cap (1..(P + x)))
    BY <1>1, <1>2, <1>3, <1>5, <2>4, PutMore
  <2>6. OverStep(m) = Over(Rest(a), LessFirst(b, x), i + 1, j, PutRun(c, Either(i, j), x))
    BY <1>1, <1>8, <2>1, OverStepBoth
  <2>7. Laid(OverStep(m), k + 1, P + x, N, e, M, f)
    BY <1>2, <1>4, <2>1, <2>3, <2>5, <2>6 DEF Laid
  <2> QED BY <2>7
<1>9. CASE a # <<>> /\ b # <<>> /\ ~(First(a) <= First(b))
  <2>1. PICK x \in Nat : x = First(b) /\ P + x <= f[M] /\ LeftOf(Rest(b), M, f, j + 1, P + x)
    BY <1>1, <1>9, LeftSome
  <2>2. First(a) \in Nat /\ x <= First(a)
    <3>1. First(a) \in Nat
      BY <1>1, <1>9, LeftSome
    <3> QED BY <1>9, <2>1, <3>1
  <2>3. LeftOf(LessFirst(a, x), N, e, i, P + x)
    BY <1>1, <1>9, <2>2, LeftFewer
  <2>4. ASSUME NEW z \in Nat, P < z, z <= P + x PROVE z \in U <=> Either(i, j) = 1
    <3>1. z <= P + First(a)
      BY <1>3, <2>2, <2>4
    <3> QED BY <1>2, <1>5, <1>6, <1>7, <1>9, <2>1, <2>4, <3>1
  <2>5. Draws(PutRun(c, Either(i, j), x), P + x, U \cap (1..(P + x)))
    BY <1>1, <1>2, <1>3, <1>5, <2>4, PutMore
  <2>6. OverStep(m) = Over(LessFirst(a, x), Rest(b), i, j + 1, PutRun(c, Either(i, j), x))
    BY <1>1, <1>9, <2>1, OverStepBoth
  <2>7. Laid(OverStep(m), k + 1, P + x, N, e, M, f)
    BY <1>2, <1>4, <2>1, <2>3, <2>5, <2>6 DEF Laid
  <2> QED BY <2>7
<1>10. CASE a # <<>> /\ b = <<>>
  <2>1. PICK x \in Nat : x = First(a) /\ P + x <= e[N] /\ LeftOf(Rest(a), N, e, i + 1, P + x)
    BY <1>1, <1>10, LeftSome
  <2>2. f[M] <= P /\ \A z \in Nat : P < z => z \notin Blacks(f, M, f[M])
    BY <1>1, <1>10, LeftNone
  <2>3. LeftOf(b, M, f, j, P + x)
    <3>1. /\ M \in Nat /\ f \in [0..M -> Nat] /\ (\A n \in 1..M : f[n - 1] <= f[n])
          /\ j \in 1..(M + 1) /\ P \in Nat /\ f[j - 1] <= P
          /\ b \in Seq(Nat) /\ Len(b) = (M + 1) - j
          /\ \A n \in 2..Len(b) : b[n] = f[(j + n) - 1] - f[(j + n) - 2]
      BY <1>1 DEF LeftOf
    <3>2. j = M + 1 /\ ~(j <= M) /\ j - 1 \in 0..M
      BY <1>1, <1>10, <3>1, LeftNone
    <3>3. f[j - 1] <= P + x /\ P + x \in Nat
      <4>1. f[j - 1] \in Nat
        BY <3>1, <3>2
      <4> QED BY <3>1, <4>1
    <3> QED BY <3>1, <3>2, <3>3 DEF LeftOf
  <2>4. ASSUME NEW z \in Nat, P < z, z <= P + x PROVE z \in U <=> Colour(i) = 1
    BY <1>2, <1>6, <1>10, <2>1, <2>2, <2>4
  <2>5. Draws(PutRun(c, Colour(i), x), P + x, U \cap (1..(P + x)))
    BY <1>1, <1>2, <1>3, <1>4, <2>4, PutMore
  <2>6. OverStep(m) = Over(Rest(a), b, i + 1, j, PutRun(c, Colour(i), x))
    BY <1>1, <1>10, <2>1, OverStepOnlyA
  <2>7. Laid(OverStep(m), k + 1, P + x, N, e, M, f)
    BY <1>2, <1>4, <2>1, <2>3, <2>5, <2>6 DEF Laid
  <2> QED BY <2>7
<1>11. CASE a = <<>> /\ b # <<>>
  <2>1. PICK x \in Nat : x = First(b) /\ P + x <= f[M] /\ LeftOf(Rest(b), M, f, j + 1, P + x)
    BY <1>1, <1>11, LeftSome
  <2>2. e[N] <= P /\ \A z \in Nat : P < z => z \notin Blacks(e, N, e[N])
    BY <1>1, <1>11, LeftNone
  <2>3. LeftOf(a, N, e, i, P + x)
    <3>1. /\ N \in Nat /\ e \in [0..N -> Nat] /\ (\A n \in 1..N : e[n - 1] <= e[n])
          /\ i \in 1..(N + 1) /\ P \in Nat /\ e[i - 1] <= P
          /\ a \in Seq(Nat) /\ Len(a) = (N + 1) - i
          /\ \A n \in 2..Len(a) : a[n] = e[(i + n) - 1] - e[(i + n) - 2]
      BY <1>1 DEF LeftOf
    <3>2. i = N + 1 /\ ~(i <= N) /\ i - 1 \in 0..N
      BY <1>1, <1>11, <3>1, LeftNone
    <3>3. e[i - 1] <= P + x /\ P + x \in Nat
      <4>1. e[i - 1] \in Nat
        BY <3>1, <3>2
      <4> QED BY <3>1, <4>1
    <3> QED BY <3>1, <3>2, <3>3 DEF LeftOf
  <2>4. ASSUME NEW z \in Nat, P < z, z <= P + x PROVE z \in U <=> Colour(j) = 1
    BY <1>2, <1>7, <1>11, <2>1, <2>2, <2>4
  <2>5. Draws(PutRun(c, Colour(j), x), P + x, U \cap (1..(P + x)))
    BY <1>1, <1>2, <1>3, <1>4, <2>4, PutMore
  <2>6. OverStep(m) = Over(a, Rest(b), i, j + 1, PutRun(c, Colour(j), x))
    BY <1>1, <1>11, <2>1, OverStepOnlyB
  <2>7. Laid(OverStep(m), k + 1, P + x, N, e, M, f)
    BY <1>2, <1>4, <2>1, <2>3, <2>5, <2>6 DEF Laid
  <2> QED BY <2>7
<1>12. CASE a = <<>> /\ b = <<>>
  <2>1. i = N + 1 /\ j = M + 1
    BY <1>1, <1>12, LeftNone
  <2> QED BY <1>1, <1>3, <2>1
<1> QED BY <1>8, <1>9, <1>10, <1>11, <1>12

Wider(w, v) == IF w >= v THEN w ELSE v

\* The line of one empty run draws nothing.
LEMMA EmptyDraws == Draws(<<0>>, 0, {})
<1>1. PICK M \in Nat \ {0} : M = 1
  OBVIOUS
<1>2. PICK r : r = <<0>> /\ r \in [1..M -> Nat] /\ r[1] = 0
  <2>1. <<0>> \in [1..1 -> Nat] /\ <<0>>[1] = 0
    OBVIOUS
  <2> QED BY <1>1, <2>1
<1>3. PICK e \in [0..M -> Nat] : \A n \in 0..M : e[n] = 0
  <2>1. [n \in 0..M |-> 0] \in [0..M -> Nat] /\ \A n \in 0..M : [i \in 0..M |-> 0][n] = 0
    OBVIOUS
  <2> QED BY <2>1
<1>4. e[0] = 0 /\ e[M] = 0 /\ \A n \in 1..M : e[n] = e[n - 1] + r[n]
  <2>1. 0 \in 0..M /\ M \in 0..M /\ \A n \in 1..M : n = 1 /\ n \in 0..M /\ n - 1 \in 0..M
    BY <1>1
  <2>2. ASSUME NEW n \in 1..M PROVE e[n] = e[n - 1] + r[n]
    <3>1. e[n] = 0 /\ e[n - 1] = 0 /\ r[n] = 0
      BY <1>2, <1>3, <2>1
    <3> QED BY <3>1
  <2> QED BY <1>3, <2>1, <2>2
<1>5. {} = Blacks(e, M, e[M])
  BY <1>4 DEF Blacks
<1>6. Draws(r, e[M], {})
  BY <1>2, <1>4, <1>5, EndsDraw
<1> QED BY <1>2, <1>4, <1>6

\* runor() draws what either of the lines draws.
LEMMA runorDraws ==
  ASSUME NEW a, NEW w, NEW A, Draws(a, w, A), NEW b, NEW v, NEW B, Draws(b, v, B)
  PROVE  Draws(runor(a, b), Wider(w, v), A \cup B)
<1>1. PICK N, e : MadeOf(a, w, A, N, e)
  BY DrawnBy
<1>2. PICK M, f : MadeOf(b, v, B, M, f)
  BY DrawnBy
<1>3. /\ N \in Nat \ {0} /\ N = Len(a) /\ a \in Seq(Nat) /\ e \in [0..N -> Nat]
      /\ w = e[N] /\ A = Blacks(e, N, e[N]) /\ w \in Nat /\ A \subseteq 1..w
      /\ M \in Nat \ {0} /\ M = Len(b) /\ b \in Seq(Nat) /\ f \in [0..M -> Nat]
      /\ v = f[M] /\ B = Blacks(f, M, f[M]) /\ v \in Nat /\ B \subseteq 1..v
  BY <1>1, <1>2 DEF MadeOf
<1>4. PICK T \in Nat : T = N + M
  BY <1>3
<1>5. PICK g : /\ g \in [0..T -> Overlaid] /\ g[0] = Over(a, b, 1, 1, <<0>>) /\ runor(a, b) = g[T].c
               /\ \A n \in 1..T : g[n] = OverStep(g[n - 1])
  <2>1. a \in Seq(Nat) /\ b \in Seq(Nat) /\ T = Len(a) + Len(b)
    BY <1>3, <1>4
  <2> QED BY ONLY T \in Nat, <2>1, runorSteps
<1> DEFINE S == {k \in 0..T : \E P : Laid(g[k], k, P, N, e, M, f)}
<1>6. 0 \in S
  <2>1. LeftOf(a, N, e, 1, 0) /\ LeftOf(b, M, f, 1, 0)
    BY <1>1, <1>2, LeftFirst
  <2>2. (A \cup B) \cap (1..0) = {}
    OBVIOUS
  <2>3. Draws(<<0>>, 0, (A \cup B) \cap (1..0))
    BY <2>2, EmptyDraws
  <2>4. 0 = (1 + 1) - 2 /\ 0 <= e[N]
    BY <1>3
  <2>5. Laid(g[0], 0, 0, N, e, M, f)
    BY <1>3, <1>5, <2>1, <2>3, <2>4 DEF Laid
  <2> QED BY <1>4, <2>5
<1>7. ASSUME NEW k \in 1..T, k - 1 \in S PROVE k \in S
  <2>1. PICK P : Laid(g[k - 1], k - 1, P, N, e, M, f)
    BY <1>7
  <2>2. k - 1 \in Nat /\ k - 1 < N + M /\ (k - 1) + 1 = k
    BY <1>4
  <2>3. \E Q : Laid(OverStep(g[k - 1]), (k - 1) + 1, Q, N, e, M, f)
    BY <2>1, <2>2, LaysOne
  <2> QED BY <1>5, <2>2, <2>3
<1>8. 0..T \subseteq S
  <2> HIDE DEF S
  <2> QED BY <1>6, <1>7, <1>4, InductionTo
<1>9. PICK P : Laid(g[T], T, P, N, e, M, f)
  <2>1. T \in 0..T
    BY <1>4
  <2> QED BY <1>8, <2>1
<1>10. PICK x, y, i, j, c :
        /\ g[T] = Over(x, y, i, j, c) /\ LeftOf(x, N, e, i, P) /\ LeftOf(y, M, f, j, P)
        /\ T = (i + j) - 2 /\ (P <= e[N] \/ P <= f[M])
        /\ Draws(c, P, (Blacks(e, N, e[N]) \cup Blacks(f, M, f[M])) \cap (1..P))
  BY <1>9 DEF Laid
<1>11. i \in 1..(N + 1) /\ j \in 1..(M + 1) /\ P \in Nat /\ e[i - 1] <= P /\ f[j - 1] <= P
  BY <1>10 DEF LeftOf
<1>12. i - 1 = N /\ j - 1 = M
  BY <1>3, <1>4, <1>10, <1>11
<1>13. P = Wider(w, v) /\ w <= P /\ v <= P
  <2>1. w <= P /\ v <= P /\ (P <= w \/ P <= v)
    BY <1>3, <1>10, <1>11, <1>12
  <2> QED BY <1>3, <1>11, <2>1 DEF Wider
<1>14. (A \cup B) \cap (1..P) = A \cup B
  <2>1. \A z \in 1..w : z \in 1..P
    BY <1>3, <1>11, <1>13
  <2>2. \A z \in 1..v : z \in 1..P
    BY <1>3, <1>11, <1>13
  <2> QED BY <1>3, <2>1, <2>2
<1>15. runor(a, b) = c
  BY <1>5, <1>10, OverFields
<1> QED BY <1>3, <1>10, <1>13, <1>14, <1>15

-----------------------------------------------------------------------------
(* The lines that are written.                                              *)

\* A line is as wide as what it draws, and no run of it is wider.
LEMMA DrawnWidth ==
  ASSUME NEW runs, NEW w, NEW B, Draws(runs, w, B)
  PROVE  /\ w \in Nat /\ Width(runs) = w /\ B \subseteq 1..w /\ runs \in Seq(Nat)
         /\ \A n \in DOMAIN runs : runs[n] <= w
<1>1. PICK N, e : MadeOf(runs, w, B, N, e)
  BY DrawnBy
<1>2. /\ N \in Nat \ {0} /\ e \in [0..N -> Nat] /\ runs \in [1..N -> Nat]
      /\ e[N] = w /\ \A n \in 1..N : e[n] = e[n - 1] + runs[n] /\ e[n - 1] <= e[n]
      /\ w \in Nat /\ Width(runs) = w /\ B \subseteq 1..w /\ runs \in Seq(Nat)
  BY <1>1 DEF MadeOf
<1>3. \A n \in 0..N : \A m \in 0..n : e[m] <= e[n]
  BY <1>2, EndsGrow
<1>4. ASSUME NEW n \in 1..N PROVE runs[n] <= w
  <2>1. n \in 0..N /\ n - 1 \in 0..N /\ N \in 0..N
    BY <1>2
  <2>2. PICK a, b, r \in Nat : a = e[n - 1] /\ b = e[n] /\ r = runs[n] /\ b = a + r
    BY <1>2, <2>1
  <2>3. b <= w
    BY <1>2, <1>3, <2>1, <2>2
  <2> QED BY <1>2, <2>2, <2>3
<1>5. DOMAIN runs = 1..N
  BY <1>2
<1> QED BY <1>2, <1>4, <1>5

\* A bitmap of whole bytes needs no filling up.
LEMMA runtobitDraws ==
  ASSUME NEW runs, NEW w, NEW B, Draws(runs, w, B), (-w) % ByteBits = 0
  PROVE  runtobit(runs) = Bitmap(w, B)
<1>1. w \in Nat
  BY DrawnWidth
<1>2. PICK p : p = Pixels(runs) /\ p = Bitmap(w, B)
  BY PixelsDrawn
<1>3. p \in Seq({0, 1}) /\ Len(p) = w
  <2>1. PICK M \in Nat : M = w
    BY <1>1
  <2>2. [x \in 1..M |-> IF x \in B THEN 1 ELSE 0] \in Seq({0, 1})
        /\ Len([x \in 1..M |-> IF x \in B THEN 1 ELSE 0]) = M
    OBVIOUS
  <2> QED BY <1>2, <2>1, <2>2 DEF Bitmap
<1>4. PICK c : c = Colour(Len(runs)) /\ c \in {0, 1}
  BY <1>1, ColoursTurn, LenProperties DEF Draws
<1>5. runtobit(runs) = p \o [n \in 1..0 |-> c]
  BY <1>2, <1>3, <1>4 DEF runtobit
<1>6. [n \in 1..0 |-> c] = <<>>
  OBVIOUS
<1>7. p \o <<>> = p
  BY <1>3
<1> QED BY <1>2, <1>5, <1>6, <1>7

\* What can be read back from the file is what was drawn, whatever the format.
LEMMA FileShows ==
  ASSUME NEW runs, NEW w, NEW B, Draws(runs, w, B), (-w) % ByteBits = 0, NEW format,
         format \notin Raw => w <= MAXRUNLEN
  PROVE  LineInFile(format, runs) = Bitmap(w, B)
<1>1. CASE format \in Raw
  BY <1>1, runtobitDraws DEF LineInFile
<1>2. CASE format \notin Raw
  <2>1. w \in Nat /\ runs \in Seq(Nat) /\ \A n \in DOMAIN runs : runs[n] <= w
    BY DrawnWidth
  <2>2. MAXRUNLEN \in Nat
    BY RunLengthsAssumption
  <2>3. ASSUME NEW n \in DOMAIN runs PROVE runs[n] <= MAXRUNLEN
    <3>1. PICK r \in Nat : r = runs[n]
      BY <2>1, ElementOfSeq
    <3> QED BY <1>2, <2>1, <2>2, <3>1
  <2>4. coderuns(runtocode(runs)) = runs
    BY <2>1, <2>3, CodesDecode
  <2> QED BY <1>2, <2>4, PixelsDrawn DEF LineInFile
<1> QED BY <1>1, <1>2

\* A white line draws nothing.
LEMMA WhiteDraws ==
  ASSUME NEW w \in Nat
  PROVE  Draws(White(w), w, {})
<1>1. PICK M \in Nat \ {0} : M = 1
  OBVIOUS
<1>2. PICK r : r = <<w>> /\ r \in [1..M -> Nat] /\ r[1] = w
  <2>1. <<w>> \in [1..1 -> Nat] /\ <<w>>[1] = w
    OBVIOUS
  <2> QED BY <1>1, <2>1
<1>3. PICK e \in [0..M -> Nat] : e[0] = 0 /\ e[M] = w
  <2>1. [n \in 0..M |-> IF n = 0 THEN 0 ELSE w] \in [0..M -> Nat]
    OBVIOUS
  <2>2. 0 \in 0..M /\ M \in 0..M /\ M # 0
    BY <1>1
  <2> QED BY <2>1, <2>2
<1>4. \A n \in 1..M : e[n] = e[n - 1] + r[n]
  <2>1. ASSUME NEW n \in 1..M PROVE e[n] = e[n - 1] + r[n]
    <3>1. n = 1 /\ n - 1 = 0
      BY <1>1
    <3>2. e[1] = w /\ e[0] = 0 /\ r[1] = w
      BY <1>1, <1>2, <1>3
    <3> QED BY <3>1, <3>2
  <2> QED BY <2>1
<1>5. Blacks(e, M, e[M]) = {}
  <2>1. ASSUME NEW n \in 1..M PROVE Colour(n) # 1
    <3>1. n = 1
      BY <1>1
    <3> QED BY <3>1 DEF Colour
  <2> QED BY <2>1 DEF Blacks
<1>6. Draws(r, e[M], {})
  BY <1>2, <1>3, <1>4, <1>5, EndsDraw
<1> QED BY <1>2, <1>3, <1>6 DEF White

-----------------------------------------------------------------------------
(* The line that is copied.                                                 *)

\* Ends are scaled to ends, in the same order.
LEMMA EndsScale ==
  ASSUME NEW xs \in Nat
  PROVE  /\ \A y \in Nat : ScaledEnd(y, xs) \in Nat
         /\ \A y, z \in Nat : y <= z => ScaledEnd(y, xs) <= ScaledEnd(z, xs)
         /\ xs = 256 => \A y \in Nat : ScaledEnd(y, xs) = y
<1>1. ASSUME NEW y \in Nat PROVE ScaledEnd(y, xs) \in Nat
  <2>1. PICK a \in Nat : a = y * xs
    OBVIOUS
  <2> QED BY <2>1 DEF ScaledEnd
<1>2. ASSUME NEW y \in Nat, NEW z \in Nat, y <= z
      PROVE  ScaledEnd(y, xs) <= ScaledEnd(z, xs)
  <2>1. PICK d \in Nat : z = y + d
    <3>1. z - y \in Nat /\ z = y + (z - y)
      BY <1>2
    <3> QED BY <3>1
  <2>2. PICK a, b \in Nat : a = y * xs /\ b = d * xs
    OBVIOUS
  <2>3. z * xs = a + b
    BY <2>1, <2>2
  <2>4. (a + 128) \div 256 <= (a + b + 128) \div 256
    OBVIOUS
  <2> QED BY <2>2, <2>3, <2>4 DEF ScaledEnd
<1>3. ASSUME xs = 256, NEW y \in Nat PROVE ScaledEnd(y, xs) = y
  BY <1>3 DEF ScaledEnd
<1> QED BY <1>1, <1>2, <1>3

\* The pixels B scaled by xs and shifted by s, as far as a width of v shows them.
Fit(B, xs, s, v) ==
  {x \in 1..v : \E y \in B : ScaledEnd(y - 1, xs) < x - s /\ x - s <= ScaledEnd(y, xs)}

Scaled(B, w, xs) ==
  {x \in 1..ScaledEnd(w, xs) : \E y \in B : ScaledEnd(y - 1, xs) < x /\ x <= ScaledEnd(y, xs)}

\* What is scaled, shifted and cut or padded.
LEMMA FitIs ==
  ASSUME NEW w \in Nat, NEW B \in SUBSET (1..w), NEW xs \in Nat, NEW s \in Int, NEW v \in Nat
  PROVE  Fit(B, xs, s, v)
           = {x \in 1..v : x \in Moved(Scaled(B, w, xs), ScaledEnd(w, xs), s)}
<1>1. PICK S : S = [y \in Nat |-> ScaledEnd(y, xs)]
  OBVIOUS
<1>2. S \in [Nat -> Nat] /\ \A y, z \in Nat : y <= z => S[y] <= S[z]
  BY <1>1, EndsScale
<1>3. ASSUME NEW x \in 1..v, NEW y \in B, S[y - 1] < x - s, x - s <= S[y]
      PROVE  x - s \in 1..S[w] /\ x \in 1..(S[w] + s)
  <2>1. y \in Nat /\ y - 1 \in Nat /\ y <= w
    OBVIOUS
  <2>2. S[y - 1] \in Nat /\ S[y] \in Nat /\ S[w] \in Nat /\ S[y] <= S[w]
    BY <1>2, <2>1
  <2>3. x - s \in Int
    OBVIOUS
  <2> QED BY <1>3, <2>2, <2>3
<1>4. \A y \in B : S[y - 1] = ScaledEnd(y - 1, xs) /\ S[y] = ScaledEnd(y, xs)
  <2>1. \A y \in B : y \in Nat /\ y - 1 \in Nat
    OBVIOUS
  <2> QED BY <1>1, <2>1
<1>5. S[w] = ScaledEnd(w, xs)
  BY <1>1
<1>6. ASSUME NEW x \in Fit(B, xs, s, v)
      PROVE  x \in 1..v /\ x \in Moved(Scaled(B, w, xs), ScaledEnd(w, xs), s)
  <2>1. PICK y \in B : S[y - 1] < x - s /\ x - s <= S[y]
    BY <1>4 DEF Fit
  <2>2. x \in 1..v
    BY DEF Fit
  <2> QED BY <1>3, <1>4, <1>5, <2>1, <2>2 DEF Moved, Scaled
<1>7. ASSUME NEW x \in 1..v, x \in Moved(Scaled(B, w, xs), ScaledEnd(w, xs), s)
      PROVE  x \in Fit(B, xs, s, v)
  BY <1>7 DEF Moved, Scaled, Fit
<1> QED BY <1>6, <1>7

-----------------------------------------------------------------------------
\* The pixels of a line that are black, if black is 1 or if it is 0.
Shown(bits, zero) == {x \in DOMAIN bits : (bits[x] = 1) # zero}

\* readline() draws the bits that stand for black.
LEMMA ReadDraws ==
  ASSUME NEW page, NEW n, page.lines[n] \in Seq({0, 1}) \ {<<>>}, page.black_is_zero \in BOOLEAN
  PROVE  Draws(readline(page, n), Len(page.lines[n]), Shown(page.lines[n], page.black_is_zero))
<1>1. PICK bits \in Seq({0, 1}) : bits = page.lines[n] /\ bits # <<>>
  OBVIOUS
<1>2. PICK w \in Nat \ {0} : w = Len(bits) /\ DOMAIN bits = 1..w /\ bits \in [1..w -> {0, 1}]
  BY <1>1, ElementOfSeq, EmptySeq
<1>3. PICK runs : runs = bittorun(bits) /\ Draws(runs, w, Ones(bits, w))
  BY <1>2, bittorunDraws
<1>4. CASE page.black_is_zero = FALSE
  <2>1. Ones(bits, w) = Shown(bits, FALSE)
    BY <1>2 DEF Ones, Shown
  <2> QED BY <1>1, <1>2, <1>3, <1>4, <2>1 DEF readline
<1>5. CASE page.black_is_zero = TRUE
  <2>1. (1..w) \ Ones(bits, w) = Shown(bits, TRUE)
    BY <1>2 DEF Ones, Shown
  <2>2. Draws(xinvert(runs), w, (1..w) \ Ones(bits, w))
    BY <1>2, <1>3, xinvertDraws
  <2> QED BY <1>1, <1>2, <1>3, <1>5, <2>1, <2>2 DEF readline
<1> QED BY <1>4, <1>5

\* The black pixels of an overlay in its line n.
OverlaidAt(overlay, n) ==
  IF n \in DOMAIN overlay THEN {x \in DOMAIN overlay[n] : overlay[n][x] = 1} ELSE {}

\* A line with the overlay draws what is black in the line or in the overlay.
LEMMA OverlayDraws ==
  ASSUME NEW runs, NEW w, NEW B, Draws(runs, w, B), NEW job, NEW n \in Nat \ {0},
         job.overlay \in Seq(Seq({0, 1}))
  PROVE  \E v \in Nat : /\ v >= w
                        /\ Draws(OverlayLine(runs, job, n), v, B \cup OverlaidAt(job.overlay, n))
<1>1. w \in Nat
  BY DrawnWidth
<1>2. PICK N \in Nat : N = Len(job.overlay) /\ DOMAIN job.overlay = 1..N
  BY ElementOfSeq, LenProperties
<1>3. CASE n <= N
  <2>1. PICK bits \in Seq({0, 1}) : bits = job.overlay[n]
    BY <1>2, <1>3, ElementOfSeq
  <2>2. PICK v \in Nat : v = Len(bits) /\ DOMAIN bits = 1..v
    BY ElementOfSeq, LenProperties
  <2>3. Draws(bittorun(bits), v, Ones(bits, v))
    BY <2>2, bittorunDraws
  <2>4. Ones(bits, v) = OverlaidAt(job.overlay, n)
    BY <1>2, <1>3, <2>1, <2>2 DEF Ones, OverlaidAt
  <2>5. Draws(runor(runs, bittorun(bits)), Wider(w, v), B \cup OverlaidAt(job.overlay, n))
    BY <2>3, <2>4, runorDraws
  <2>6. OverlayLine(runs, job, n) = runor(runs, bittorun(bits))
    BY <1>2, <1>3, <2>1 DEF OverlayLine
  <2>7. Wider(w, v) \in Nat /\ Wider(w, v) >= w
    BY <1>1 DEF Wider
  <2> QED BY <2>5, <2>6, <2>7
<1>4. CASE ~(n <= N)
  <2>1. OverlayLine(runs, job, n) = runs
    BY <1>2, <1>4 DEF OverlayLine
  <2>2. OverlaidAt(job.overlay, n) = {}
    BY <1>2, <1>4 DEF OverlaidAt
  <2>3. B \cup OverlaidAt(job.overlay, n) = B /\ w >= w
    BY <1>1, <2>2
  <2> QED BY <1>1, <2>1, <2>3
<1> QED BY <1>3, <1>4

\* A line scaled, shifted and made to fit the page draws what of it fits.
LEMMA FittedDraws ==
  ASSUME NEW over, NEW w, NEW B, Draws(over, w, B), NEW job,
         job.xs \in Nat, job.ixsh \in Int, job.w \in Nat,
         ScaledEnd(w, job.xs) + job.ixsh >= 0
  PROVE  Draws(Fitted(over, job), Rounded(job.w),
               Fit(B, job.xs, job.ixsh, Rounded(job.w)))
<1>1. w \in Nat /\ B \subseteq 1..w
  BY DrawnWidth
<1>2. PICK xs \in Nat, s \in Int, v \in Nat : xs = job.xs /\ s = job.ixsh /\ v = Rounded(job.w)
  BY RoundedIs
<1>3. PICK W \in Nat : W = ScaledEnd(w, xs) /\ W + s >= 0
  BY <1>1, <1>2, EndsScale
<1>4. PICK C : C = Scaled(B, w, xs) /\ C \subseteq 1..W
  BY <1>3 DEF Scaled
<1>5. PICK scaled : /\ scaled = IF xs = 256 THEN over ELSE xscale(over, xs)
                    /\ Draws(scaled, W, C)
  <2>1. CASE xs # 256
    <3>1. Draws(xscale(over, xs), W, C)
      BY <1>3, <1>4, xscaleDraws DEF Scaled
    <3> QED BY <2>1, <3>1
  <2>2. CASE xs = 256
    <3>1. W = w
      BY <1>1, <1>3, <2>2, EndsScale
    <3>2. \A y \in B : y \in Nat /\ y - 1 \in Nat
      BY <1>1
    <3>3. \A y \in B : ScaledEnd(y - 1, xs) = y - 1 /\ ScaledEnd(y, xs) = y
      BY <2>2, <3>2, EndsScale
    <3>4. C = {x \in 1..w : \E y \in B : y - 1 < x /\ x <= y}
      BY <1>3, <1>4, <3>1, <3>3 DEF Scaled
    <3>5. ASSUME NEW x \in 1..w, NEW y \in B, y - 1 < x, x <= y PROVE x = y
      BY <1>1, <3>5
    <3>6. \A y \in B : y \in 1..w /\ y - 1 < y /\ y <= y
      BY <1>1
    <3>7. C = B
      BY <1>1, <3>4, <3>5, <3>6
    <3> QED BY <2>2, <3>1, <3>7
  <2> QED BY <2>1, <2>2
<1>6. PICK shifted : /\ shifted = IF s = 0 THEN scaled ELSE xshift(scaled, s)
                     /\ Draws(shifted, W + s, Moved(C, W, s))
  <2>1. CASE s = 0
    <3>1. W + s = W
      BY <2>1
    <3>2. \A x \in 1..W : x - s = x
      BY <2>1
    <3>3. Moved(C, W, s) = C
      BY <1>4, <3>1, <3>2 DEF Moved
    <3> QED BY <1>5, <2>1, <3>1, <3>3
  <2>2. CASE s # 0
    <3>1. Draws(xshift(scaled, s), W + s, Moved(C, W, s))
      <4>1. CASE s \in Nat
        BY <1>5, <4>1, xshiftRight
      <4>2. CASE s < 0
        BY <1>3, <1>5, <4>2, xshiftLeft
      <4> QED BY <4>1, <4>2
    <3> QED BY <2>2, <3>1
  <2> QED BY <2>1, <2>2
<1>7. PICK u, D : u \in Nat /\ u = W + s /\ D = Moved(C, W, s) /\ Draws(shifted, u, D)
                          /\ Width(shifted) = u /\ D \subseteq 1..u
  <2>1. W + s \in Nat
    BY <1>3
  <2> QED BY <1>6, <2>1, DrawnWidth
<1>8. PICK fitted : /\ fitted = IF u = v THEN shifted ELSE xpad(shifted, v - u)
                    /\ Draws(fitted, v, D \cap (1..v))
  <2>1. CASE u = v
    <3>1. D \cap (1..v) = D
      BY <1>7, <2>1
    <3> QED BY <1>7, <2>1, <3>1
  <2>2. CASE u < v
    <3>1. v - u \in Nat /\ u + (v - u) = v /\ u # v
      BY <1>5, <1>7, <2>2
    <3>2. Draws(xpad(shifted, v - u), u + (v - u), D)
      BY <1>7, <3>1, xpadWider
    <3>3. D \cap (1..v) = D
      BY <1>7, <2>2
    <3> QED BY <3>1, <3>2, <3>3
  <2>3. CASE v < u
    <3>1. Draws(xpad(shifted, v - u), v, D \cap (1..v))
      BY <1>7, <2>3, xpadNarrower
    <3>2. u # v
      BY <1>5, <1>7, <2>3
    <3> QED BY <3>1, <3>2
  <2>4. u = v \/ u < v \/ v < u
    BY <1>5, <1>7
  <2> QED BY <2>1, <2>2, <2>3, <2>4, Zenon
<1>9. Fitted(over, job) = fitted
  BY <1>2, <1>5, <1>6, <1>7, <1>8 DEF Fitted
<1>10. Fit(B, xs, s, v) = D \cap (1..v)
  <2>1. Fit(B, xs, s, v)
          = {x \in 1..v : x \in Moved(Scaled(B, w, xs), ScaledEnd(w, xs), s)}
    BY <1>1, FitIs
  <2> QED BY <1>3, <1>4, <1>7, <2>1
<1> QED BY <1>2, <1>8, <1>9, <1>10

\* A line that is copied is the line it should become.
LEMMA CopiedLine ==
  ASSUME NEW job \in EfixJobs, NEW page \in PagesIn(job.files), NEW n \in 1..Len(page.lines),
         NEW il \in Nat \ {0}, RunsHaveCodes(job)
  PROVE  LineInFile(job.format, Fitted(OverlayLine(readline(page, n), job, il), job))
           = ShouldBe(job, page, n, il)
<1>1. /\ job.w \in Nat /\ job.xs \in Nat /\ job.ixsh \in Int /\ job.overlay \in Seq(Seq({0, 1}))
      /\ page.black_is_zero \in BOOLEAN /\ page.lines \in Seq(Seq({0, 1}) \ {<<>>})
  BY EfixAssumption
<1>2. page.lines[n] \in Seq({0, 1}) \ {<<>>} /\ n \in DOMAIN page.lines
  <2>1. PICK S : S = Seq({0, 1}) \ {<<>>} /\ page.lines \in Seq(S)
    BY <1>1
  <2> QED BY <2>1, ElementOfSeq
<1>3. -job.ixsh <= (Len(page.lines[n]) * job.xs + 128) \div 256
  BY <1>2, EfixAssumption
<1>4. PICK w \in Nat : w = Len(page.lines[n])
  BY <1>2, LenProperties
<1>5. PICK A : A = Shown(page.lines[n], page.black_is_zero) /\ Draws(readline(page, n), w, A)
  BY <1>1, <1>2, <1>4, ReadDraws
<1>6. PICK over, B : /\ over = OverlayLine(readline(page, n), job, il)
                     /\ B = A \cup OverlaidAt(job.overlay, il)
  OBVIOUS
<1>6a. PICK v \in Nat : v >= w /\ Draws(over, v, B)
  <2>1. PICK line : line = readline(page, n) /\ Draws(line, w, A)
    BY <1>5
  <2>2. job.overlay \in Seq(Seq({0, 1}))
    BY <1>1
  <2>3. \E v \in Nat : v >= w /\ Draws(OverlayLine(line, job, il), v,
                                        A \cup OverlaidAt(job.overlay, il))
    BY <2>1, <2>2, OverlayDraws
  <2> QED BY <1>6, <2>1, <2>3
<1>7. B = Inked(job, page, n, il)
  BY <1>5, <1>6 DEF Inked, Shown, OverlaidAt
<1>8. ScaledEnd(v, job.xs) + job.ixsh >= 0
  <2>1. PICK a, b \in Nat : a = ScaledEnd(w, job.xs) /\ b = ScaledEnd(v, job.xs) /\ a <= b
    BY <1>1, <1>6a, EndsScale
  <2>2. PICK s \in Int : s = job.ixsh
    BY <1>1
  <2>3. -s <= a
    BY <1>3, <1>4, <2>1, <2>2 DEF ScaledEnd
  <2> QED BY <2>1, <2>2, <2>3
<1>9. PICK r : r = Rounded(job.w) /\ r \in Nat /\ (-r) % ByteBits = 0
  BY <1>1, RoundedIs
<1>10. Draws(Fitted(over, job), r, Fit(B, job.xs, job.ixsh, r))
  BY <1>1, <1>6a, <1>8, <1>9, FittedDraws
<1>11. job.format \notin Raw => r <= MAXRUNLEN
  BY <1>9 DEF RunsHaveCodes
<1>12. LineInFile(job.format, Fitted(over, job)) = Bitmap(r, Fit(B, job.xs, job.ixsh, r))
  BY <1>9, <1>10, <1>11, FileShows
<1>13. Bitmap(r, Fit(B, job.xs, job.ixsh, r)) = ShouldBe(job, page, n, il)
  BY <1>7, <1>9 DEF Bitmap, Fit, ShouldBe
<1> QED BY <1>6, <1>12, <1>13

\* A white line is blank.
LEMMA WhiteLine ==
  ASSUME NEW job \in EfixJobs, RunsHaveCodes(job)
  PROVE  LineInFile(job.format, White(Rounded(job.w))) = Blank(job)
<1>1. PICK r : r = Rounded(job.w) /\ r \in Nat /\ (-r) % ByteBits = 0
  BY EfixAssumption, RoundedIs
<1>2. Draws(White(r), r, {})
  BY <1>1, WhiteDraws
<1>3. job.format \notin Raw => r <= MAXRUNLEN
  BY <1>1 DEF RunsHaveCodes
<1>4. LineInFile(job.format, White(r)) = Bitmap(r, {})
  BY <1>1, <1>2, <1>3, FileShows
<1> QED BY <1>1, <1>4 DEF Bitmap, Blank

-----------------------------------------------------------------------------
\* Where n is o with line, however often, after the lines of its last page.
Writes(n, o, line) ==
  \A p \in 1..Len(o.pages) : \A y \in 1..Len(n.pages[p].lines) :
    \/ y \in 1..Len(o.pages[p].lines) /\ n.pages[p].lines[y] = o.pages[p].lines[y]
    \/ /\ p = Len(o.pages) /\ y \notin 1..Len(o.pages[p].lines)
       /\ n.pages[p].lines[y] = line

\* writeline() writes the line so often, after what is there.
LEMMA WriteWrites ==
  ASSUME NEW X, NEW o \in Outs(X), NEW format, NEW runs, NEW no \in Int,
         Len(o.pages) > 0
  PROVE  Writes(writeline(o, format, runs, no), o, LineInFile(format, runs))
<1>1. o.pages \in Seq(OutPage(X)) /\ o.pages # <<>>
  BY EmptySeq DEF Outs
<1>2. PICK L \in Nat \ {0} : L = Len(o.pages) /\ o.pages \in [1..L -> OutPage(X)]
  BY <1>1, ElementOfSeq
<1>3. CASE no <= 0
  <2>1. writeline(o, format, runs, no) = o
    BY <1>3 DEF writeline
  <2> QED BY <2>1 DEF Writes
<1>4. CASE ~(no <= 0)
  <2>1. no \in Nat
    BY <1>4
  <2>2. PICK w : w = LineInFile(format, runs)
    OBVIOUS
  <2>3. PICK l : l = o.pages[L].lines /\ l \in Seq(X) /\ L \in 1..L
    <3>1. o.pages[L] \in OutPage(X)
      BY <1>2
    <3> QED BY <3>1 DEF OutPage
  <2>4. PICK more : more = [i \in 1..no |-> w] /\ more \in Seq({w}) /\ Len(more) = no
    <3>1. PICK k \in Nat : k = no
      BY <2>1
    <3>2. [i \in 1..k |-> w] \in Seq({w}) /\ Len([i \in 1..k |-> w]) = k
      OBVIOUS
    <3> QED BY <3>1, <3>2
  <2>5. PICK m \in Nat : m = Len(l)
    BY <2>3, LenProperties
  <2>6. PICK all : all = l \o more
    OBVIOUS
  <2>7. /\ Len(all) = m + no
        /\ \A y \in 1..(m + no) : all[y] = IF y <= m THEN l[y] ELSE more[y - m]
    <3>1. l \in Seq(X \cup {w}) /\ more \in Seq(X \cup {w})
      <4>1. PICK Y, Z : Y = X \cup {w} /\ Z = {w}
        OBVIOUS
      <4>2. X \subseteq Y /\ Z \subseteq Y
        BY <4>1
      <4>3. Seq(X) \subseteq Seq(Y) /\ Seq(Z) \subseteq Seq(Y)
        BY <4>2, MorePages
      <4> QED BY <2>3, <2>4, <4>1, <4>3
    <3>2. PICK Y : Y = X \cup {w}
      OBVIOUS
    <3>3. l \in Seq(Y) /\ more \in Seq(Y)
      BY <3>1, <3>2
    <3>4. /\ Len(l \o more) = Len(l) + Len(more)
          /\ \A y \in 1..(Len(l) + Len(more)) :
               (l \o more)[y] = IF y <= Len(l) THEN l[y] ELSE more[y - Len(l)]
      BY <3>3, ConcatProperties
    <3> QED BY <2>4, <2>5, <2>6, <3>4
  <2> DEFINE page == [o.pages[L] EXCEPT !.lines = all]
             pages == [o.pages EXCEPT ![L] = page]
             n == writeline(o, format, runs, no)
  <2>8. n.pages = pages
    BY <1>1, <1>2, <1>4, <2>2, <2>3, <2>4, <2>6 DEF writeline
  <2>9. page.lines = all
    <3>1. o.pages[L] \in OutPage(X)
      BY <1>2
    <3>2. page = [header |-> o.pages[L].header, lines |-> all, closed |-> o.pages[L].closed]
      BY <3>1, PageWith
    <3> HIDE DEF page
    <3> QED BY <3>2
  <2>10. pages[L] = page /\ \A p \in 1..L : p # L => pages[p] = o.pages[p]
    <3> HIDE DEF page
    <3> QED BY <1>2, <2>3
  <2> HIDE DEF page, pages, n
  <2>11. ASSUME NEW p \in 1..L, NEW y \in 1..Len(n.pages[p].lines)
         PROVE  \/ y \in 1..Len(o.pages[p].lines) /\ n.pages[p].lines[y] = o.pages[p].lines[y]
                \/ /\ p = L /\ y \notin 1..Len(o.pages[p].lines)
                   /\ n.pages[p].lines[y] = w
    <3>1. CASE p # L
      <4>1. n.pages[p] = o.pages[p]
        BY <2>8, <2>10, <3>1
      <4> QED BY <2>11, <4>1
    <3>2. CASE p = L
      <4>1. n.pages[p].lines = all
        BY <2>8, <2>9, <2>10, <3>2
      <4>2. y \in 1..(m + no)
        BY <2>7, <2>11, <4>1
      <4>3. CASE y <= m
        <5>1. all[y] = l[y] /\ y \in 1..m
          BY <2>7, <4>2, <4>3
        <5> QED BY <2>3, <2>5, <3>2, <4>1, <5>1
      <4>4. CASE ~(y <= m)
        <5>1. y - m \in 1..no /\ y \notin 1..m
          BY <2>1, <2>5, <4>2, <4>4
        <5>2. all[y] = more[y - m]
          BY <2>7, <4>2, <4>4
        <5>3. more[y - m] = w
          BY <2>4, <5>1
        <5> QED BY <2>3, <2>5, <3>2, <4>1, <5>1, <5>2, <5>3
      <4> QED BY <4>3, <4>4
    <3> QED BY <3>1, <3>2
  <2> QED BY <1>2, <2>2, <2>11 DEF Writes, n
<1> QED BY <1>3, <1>4

-----------------------------------------------------------------------------
(* Which line of the input should be at a row of the output.                *)

\* More lines reach no fewer rows.
LEMMA RowsGrowTo ==
  ASSUME NEW m \in Nat, NEW n \in Nat, m <= n, NEW ys \in Nat
  PROVE  /\ (m * ys) \div 256 \in Nat /\ (n * ys) \div 256 \in Nat
         /\ (m * ys) \div 256 <= (n * ys) \div 256
<1>1. PICK d \in Nat : n = m + d
  <2>1. n - m \in Nat /\ n = m + (n - m)
    OBVIOUS
  <2> QED BY <2>1
<1>2. PICK a, b \in Nat : a = m * ys /\ b = d * ys
  OBVIOUS
<1>3. n * ys = a + b
  BY <1>1, <1>2
<1>4. a \div 256 <= (a + b) \div 256 /\ a \div 256 \in Nat /\ (a + b) \div 256 \in Nat
  OBVIOUS
<1> QED BY <1>2, <1>3, <1>4

Reach(L, ys, r) == {k \in 1..(L + 1) : k > L \/ (k * ys) \div 256 >= r}

\* The line that reaches row r, where the one before does not.
LEMMA Reaches ==
  ASSUME NEW L \in Nat, NEW ys \in Nat, NEW r \in Int, NEW il \in Nat, il + 1 <= L,
         (il * ys) \div 256 < r, r <= ((il + 1) * ys) \div 256
  PROVE  Min(Reach(L, ys, r)) = il + 1
<1>1. PICK T : T = Reach(L, ys, r) /\ T \subseteq Nat
  <2>1. Reach(L, ys, r) \subseteq 1..(L + 1)
    BY DEF Reach
  <2>2. 1..(L + 1) \subseteq Nat
    OBVIOUS
  <2> QED BY <2>1, <2>2
<1>2. il + 1 \in T
  BY <1>1 DEF Reach
<1>3. ASSUME NEW k \in T PROVE il + 1 <= k
  <2>1. k \in 1..(L + 1) /\ (k > L \/ (k * ys) \div 256 >= r)
    BY <1>1 DEF Reach
  <2>2. CASE k > L
    BY <2>1, <2>2
  <2>3. CASE ~(k > L) /\ k <= il
    <3>1. PICK a, b \in Nat : a = (k * ys) \div 256 /\ b = (il * ys) \div 256 /\ a <= b
      BY <2>1, <2>3, RowsGrowTo
    <3> QED BY <2>1, <2>3, <3>1
  <2> QED BY <2>1, <2>2, <2>3
<1>4. \A k \in T : (\A j \in T : k <= j) => k = il + 1
  BY <1>1, <1>2, <1>3
<1> QED BY <1>1, <1>2, <1>3, <1>4 DEF Min

\* Below what the first il lines reach there is another line, or none.
LEMMA ReachesNot ==
  ASSUME NEW L \in Nat, NEW ys \in Nat, NEW r \in Int, NEW il \in Nat,
         (il * ys) \div 256 < r
  PROVE  Min(Reach(L, ys, r)) \in Nat
         /\ (Min(Reach(L, ys, r)) > L \/ Min(Reach(L, ys, r)) >= il + 1)
<1>1. PICK T : T = Reach(L, ys, r) /\ T \subseteq Nat
  <2>1. Reach(L, ys, r) \subseteq 1..(L + 1)
    BY DEF Reach
  <2>2. 1..(L + 1) \subseteq Nat
    OBVIOUS
  <2> QED BY <2>1, <2>2
<1>2. L + 1 \in T
  BY <1>1 DEF Reach
<1>3. PICK k \in T : \A j \in T : k <= j
  BY <1>1, <1>2, LeastNumber
<1>4. PICK m \in T : m = Min(T)
  BY <1>3 DEF Min
<1>5. m \in 1..(L + 1) /\ (m > L \/ (m * ys) \div 256 >= r)
  BY <1>1, <1>4 DEF Reach
<1>6. CASE ~(m > L) /\ m <= il
  <2>1. PICK a, b \in Nat : a = (m * ys) \div 256 /\ b = (il * ys) \div 256 /\ a <= b
    BY <1>5, <1>6, RowsGrowTo
  <2> QED BY <1>5, <1>6, <2>1
<1> QED BY <1>1, <1>4, <1>5, <1>6

Down(job) == IF job.iysh > 0 THEN job.iysh ELSE 0
Up(job) == IF job.iysh < 0 THEN -job.iysh ELSE 0

\* A row above the shifted page is blank.
LEMMA RowAbove ==
  ASSUME NEW job, NEW page, NEW y, y <= Down(job)
  PROVE  RowShouldBe(job, page, y) = Blank(job)
BY DEF RowShouldBe, Down

\* A row that a line reaches, and the line before it does not, shows that line.
LEMMA RowCopied ==
  ASSUME NEW job, NEW page, NEW y \in Nat, NEW il \in Nat, NEW L \in Nat, L = Len(page.lines),
         job.ys \in Nat, job.iysh \in Int, HasLine(page, il + Up(job) + 1),
         Down(job) + ((il * job.ys) \div 256) < y,
         y <= Down(job) + (((il + 1) * job.ys) \div 256)
  PROVE  RowShouldBe(job, page, y) = ShouldBe(job, page, il + Up(job) + 1, il + 1)
<1>1. PICK down, up, ys \in Nat : down = Down(job) /\ up = Up(job) /\ ys = job.ys
  BY DEF Down, Up
<1>2. il + up + 1 <= L /\ il + 1 <= L
  <2>1. HasLine(page, il + up + 1)
    BY <1>1
  <2>2. il + up + 1 <= L
    BY <2>1 DEF HasLine
  <2> QED BY ONLY il \in Nat, up \in Nat, L \in Nat, <2>2
<1>3. PICK a, b \in Nat : a = (il * ys) \div 256 /\ b = ((il + 1) * ys) \div 256 /\ a <= b
  <2>1. il \in Nat /\ il + 1 \in Nat /\ il <= il + 1 /\ ys \in Nat
    OBVIOUS
  <2> QED BY <2>1, RowsGrowTo
<1>4. down + a < y /\ y <= down + b
  BY <1>1, <1>3
<1>5. a < y - down /\ y - down <= b /\ y - down \in Int /\ ~(y <= down)
  BY <1>4
<1>6. Min(Reach(L, ys, y - down)) = il + 1
  BY <1>2, <1>3, <1>5, Reaches
<1>7. il + 1 + up = il + up + 1
  OBVIOUS
<1>8. Min({k \in 1..(Len(page.lines) + 1) :
             k > Len(page.lines) \/ (k * job.ys) \div 256 >= y - down}) = il + 1
  BY <1>1, <1>6 DEF Reach
<1>9. HasLine(page, il + 1 + up)
  BY <1>1, <1>7
<1> QED BY <1>1, <1>5, <1>7, <1>8, <1>9 DEF RowShouldBe, Down, Up

\* A row that no line reaches is blank.
LEMMA RowBelow ==
  ASSUME NEW job, NEW page, NEW y \in Nat, NEW il \in Nat, NEW L \in Nat, L = Len(page.lines),
         page.height \in Nat \cup {-1},
         job.ys \in Nat, job.iysh \in Int, ~HasLine(page, il + Up(job) + 1),
         Down(job) + ((il * job.ys) \div 256) < y
  PROVE  RowShouldBe(job, page, y) = Blank(job)
<1>1. PICK down, up, ys \in Nat : down = Down(job) /\ up = Up(job) /\ ys = job.ys
  BY DEF Down, Up
<1>2. PICK a \in Nat : a = (il * ys) \div 256 /\ down + a < y
  <2>1. il <= il /\ ys \in Nat
    OBVIOUS
  <2>2. (il * ys) \div 256 \in Nat
    BY ONLY il \in Nat, <2>1, RowsGrowTo
  <2> QED BY <1>1, <2>2
<1>3. a < y - down /\ y - down \in Int
  BY ONLY down \in Nat, y \in Nat, a \in Nat, <1>2
<1>4. PICK m \in Nat : m = Min(Reach(L, ys, y - down)) /\ (m > L \/ m >= il + 1)
  BY <1>2, <1>3, ReachesNot
<1>5. ~HasLine(page, m + up)
  <2>1. PICK h \in Nat \cup {-1} : h = page.height
    OBVIOUS
  <2>2. il + up + 1 > L \/ (h # -1 /\ il + up + 1 > h)
    <3>1. ~HasLine(page, il + up + 1)
      BY <1>1
    <3>2. ~(il + up + 1 <= L /\ (h = -1 \/ il + up + 1 <= h))
      BY <2>1, <3>1 DEF HasLine
    <3>3. L \in Nat
      OBVIOUS
    <3> QED BY ONLY up \in Nat, il \in Nat, h \in Nat \cup {-1}, <3>2, <3>3
  <2>3. m + up > L \/ (h # -1 /\ m + up > h)
    <3>1. L \in Nat /\ (m > L \/ m >= il + 1)
      BY <1>4
    <3> QED BY ONLY up \in Nat, il \in Nat, m \in Nat, h \in Nat \cup {-1}, <2>2, <3>1
  <2> QED BY <1>4, <2>1, <2>3 DEF HasLine
<1>6. Min({k \in 1..(Len(page.lines) + 1) :
             k > Len(page.lines) \/ (k * job.ys) \div 256 >= y - down}) = m
  BY <1>1, <1>4 DEF Reach
<1> QED BY <1>1, <1>5, <1>6 DEF RowShouldBe, Down, Up

-----------------------------------------------------------------------------
(* What is written is the picture it should be.                             *)

AllShown(o, job, pages) ==
  \A p \in 1..Len(o.pages) : \A y \in 1..Len(o.pages[p].lines) :
    o.pages[p].lines[y] = RowShouldBe(job, pages[p], y)

\* The places in input and output while a page is copied.
LineAtHand ==
  efix.pc = "line" =>
    /\ efix.linesout = Down(efix.job) + efix.olines
    /\ efix.line = efix.ilines + Up(efix.job)
    /\ \/ efix.olines = (efix.ilines * efix.job.ys) \div 256
       \/ efix.linesout >= Height(efix.page)

PicturesSoFar == RunsHaveCodes(efix.job) => AllShown(out, efix.job, efix.pages)

PictureInv == efix # Unstarted => LineAtHand /\ PicturesSoFar

\* What is written shows what it should if the new rows do.
LEMMA WriteShows ==
  ASSUME NEW X, NEW o \in Outs(X), NEW format, NEW runs, NEW no \in Int, NEW L, L = Len(o.pages),
         L > 0, NEW job, NEW pages, AllShown(o, job, pages),
         NEW n, n = writeline(o, format, runs, no),
         \A y \in 1..Len(n.pages[L].lines) :
           y \notin 1..Len(o.pages[L].lines)
             => LineInFile(format, runs) = RowShouldBe(job, pages[L], y)
  PROVE  AllShown(n, job, pages)
<1>1. Writes(n, o, LineInFile(format, runs))
  BY WriteWrites
<1>2. Len(n.pages) = L
  <2>1. CASE no \in Nat
    <3>1. Adds(n, o, no, format)
      BY <2>1, WriteAdds
    <3> QED BY <3>1 DEF Adds
  <2>2. CASE ~(no \in Nat)
    <3>1. no <= 0
      BY <2>2
    <3> QED BY <3>1 DEF writeline
  <2> QED BY <2>1, <2>2
<1>3. ASSUME NEW p \in 1..L, NEW y \in 1..Len(n.pages[p].lines)
      PROVE  n.pages[p].lines[y] = RowShouldBe(job, pages[p], y)
  <2>1. CASE y \in 1..Len(o.pages[p].lines) /\ n.pages[p].lines[y] = o.pages[p].lines[y]
    BY <1>3, <2>1 DEF AllShown
  <2>2. CASE p = L /\ y \notin 1..Len(o.pages[p].lines)
             /\ n.pages[p].lines[y] = LineInFile(format, runs)
    BY <1>3, <2>2
  <2> QED BY <1>1, <1>3, <2>1, <2>2 DEF Writes
<1> QED BY <1>2, <1>3 DEF AllShown

\* A page that is begun changes no row.
LEMMA BeginShows ==
  ASSUME NEW X, NEW o \in Outs(X), NEW format, NEW job, NEW pages, AllShown(o, job, pages)
  PROVE  AllShown(nextopage(o, format), job, pages)
<1>1. PICK n : n = nextopage(o, format) /\ BeginsPage(n, o, format)
  BY NextBegins
<1>2. PICK L \in Nat : L = Len(o.pages)
  BY LenProperties DEF Outs
<1>3. Len(n.pages) = L + 1 /\ (\A p \in 1..L : n.pages[p].lines = o.pages[p].lines)
      /\ Len(n.pages[L + 1].lines) = 0
  BY <1>1, <1>2 DEF BeginsPage
<1>4. ASSUME NEW p \in 1..(L + 1), NEW y \in 1..Len(n.pages[p].lines)
      PROVE  n.pages[p].lines[y] = RowShouldBe(job, pages[p], y)
  <2>1. CASE p \in 1..L
    BY <1>2, <1>3, <1>4, <2>1 DEF AllShown
  <2>2. CASE p = L + 1
    <3>1. 1..Len(n.pages[p].lines) = {}
      BY <1>3, <2>2
    <3> QED BY <1>4, <3>1
  <2> QED BY <2>1, <2>2
<1> QED BY <1>1, <1>3, <1>4 DEF AllShown

\* A page that is closed keeps its rows.
LEMMA CloseShows ==
  ASSUME NEW X, NEW o \in Outs(X), NEW format, NEW job, NEW pages, AllShown(o, job, pages)
  PROVE  AllShown(CloseOpage(o, format), job, pages)
<1>1. PICK n : n = CloseOpage(o, format) /\ Closes(n, o, format)
  BY CloseCloses
<1> QED BY <1>1 DEF AllShown, Closes

\* The rows below the last line are blank, as they should be.
LEMMA PadShows ==
  ASSUME EfixInv, PictureInv, EfixPadsPage
  PROVE  PictureInv'
<1>1. /\ efix.pc = "line" /\ PageEnds /\ efix' = [efix EXCEPT !.pc = "page"]
      /\ out' = writeline(out, efix.job.format, White(Rounded(efix.job.w)),
                          Height(efix.page) - efix.linesout)
  BY DEF EfixPadsPage
<1>2. EfixStarted /\ PagesCounted /\ efix \in EfixStates /\ efix # Unstarted
  BY <1>1, Begun, StateFields DEF EfixStarted
<1>3. efix'.pc = "page" /\ efix'.job = efix.job /\ efix'.pages = efix.pages
  <2>1. PICK I, J : I = Inputs /\ J = EfixJobs
    OBVIOUS
  <2>2. EfixStates = [pc : {"page", "line", "end"}, job : J, pages : I, page : Nat, line : Nat,
             ilines : Nat, olines : Nat, linesout : Nat]
    BY <2>1 DEF EfixStates
  <2> QED BY <1>1, <1>2, <2>2
<1>4. LineAtHand'
  BY <1>3 DEF LineAtHand
<1>5. ASSUME RunsHaveCodes(efix.job) PROVE AllShown(out', efix.job, efix.pages)
  <2>1. AllShown(out, efix.job, efix.pages)
    BY <1>2, <1>5 DEF PictureInv, PicturesSoFar
  <2>2. PICK k \in Nat : k = efix.page /\ k > 0 /\ k = Len(out.pages) /\ k <= Len(efix.pages)
    BY <1>1, <1>2, StateFields DEF PagesCounted
  <2>3. PICK X : out \in Outs(X)
    BY <1>2 DEF PagesCounted
  <2>4. PICK lines \in Nat : lines = Len(out.pages[k].lines) /\ lines = efix.linesout
    BY <1>1, <1>2, <2>2, StateFields DEF PagesCounted
  <2>5. Len(efix.pages) \in Nat /\ k \in 1..Len(efix.pages)
    BY <1>2, <2>2, HeightsAreLines
  <2>6. PICK H \in Nat : H = Height(k)
    BY <1>2, <2>5, HeightsAreLines
  <2>7. PICK job \in EfixJobs : job = efix.job /\ job.ys \in Nat /\ job.iysh \in Int
    BY <1>2, StateFields, EfixAssumption
  <2>8. PICK page \in PagesIn(job.files) : page = efix.pages[k]
    <3>1. PICK P : P = PagesIn(job.files) /\ efix.pages \in Seq(P)
      BY <1>2, <2>7, FilesGivePages DEF EfixStarted
    <3> QED BY <2>5, <3>1, ElementOfSeq
  <2>9. PICK L \in Nat : L = Len(page.lines)
    BY EfixAssumption, LenProperties
  <2>10. page.height \in Nat \cup {-1}
    BY EfixAssumption
  <2>11. PICK il, ol \in Nat : il = efix.ilines /\ ol = efix.olines
    BY <1>2, StateFields
  <2>12. CASE H - lines <= 0
    <3>1. out' = out
      BY <1>1, <2>2, <2>4, <2>6, <2>12 DEF writeline
    <3> QED BY <2>1, <3>1
  <2>13. CASE ~(H - lines <= 0)
    <3>1. ~HasLine(page, efix.line + 1) /\ lines < H
      <4>1. lines < H
        BY <2>13
      <4>2. ~(lines >= H)
        BY <4>1
      <4> QED BY <1>1, <2>2, <2>4, <2>6, <2>8, <4>1, <4>2 DEF PageEnds
    <3>2. /\ lines = Down(job) + ol /\ efix.line = il + Up(job)
          /\ ol = (il * job.ys) \div 256
      <4>1. ~(lines >= H)
        BY <3>1
      <4> QED BY <1>1, <1>2, <2>2, <2>4, <2>6, <2>7, <2>11, <4>1 DEF PictureInv, LineAtHand
    <3>3. ASSUME NEW y \in Nat, y > lines PROVE RowShouldBe(job, page, y) = Blank(job)
      <4>1. Down(job) + ((il * job.ys) \div 256) < y
        <5>1. PICK d : d = Down(job) + ol
          OBVIOUS
        <5>2. d < y
          BY ONLY lines \in Nat, <3>2, <3>3, <5>1
        <5> QED BY <3>2, <5>1, <5>2
      <4>2. ~HasLine(page, il + Up(job) + 1)
        BY <3>1, <3>2
      <4> QED BY <2>7, <2>9, <2>10, <4>1, <4>2, RowBelow
    <3>4. LineInFile(job.format, White(Rounded(job.w))) = Blank(job)
      BY <1>5, <2>7, WhiteLine
    <3>5. PICK runs : runs = White(Rounded(job.w))
      OBVIOUS
    <3>6. out' = writeline(out, job.format, runs, H - lines) /\ H - lines \in Int
      BY <1>1, <2>2, <2>4, <2>6, <2>7, <3>5
    <3>7. ASSUME NEW y \in 1..Len(out'.pages[k].lines), y \notin 1..Len(out.pages[k].lines)
          PROVE  LineInFile(job.format, runs) = RowShouldBe(job, efix.pages[k], y)
      <4>1. y \in Nat /\ y > lines
        BY <2>4, <3>7
      <4> QED BY <2>8, <3>3, <3>4, <3>5, <4>1
    <3> QED BY <2>1, <2>2, <2>3, <2>7, <3>6, <3>7, WriteShows
  <2> QED BY <2>12, <2>13
<1>6. PicturesSoFar'
  BY <1>3, <1>5 DEF PicturesSoFar
<1> QED BY <1>4, <1>6 DEF PictureInv

\* A line is copied to the rows that should show it.
LEMMA CopyShows ==
  ASSUME EfixInv, EfixInv', PictureInv, EfixCopiesLine
  PROVE  PictureInv'
<1>1. efix.pc = "line" /\ ~PageEnds
  BY DEF EfixCopiesLine
<1>2. EfixStarted /\ PagesCounted /\ efix \in EfixStates /\ efix # Unstarted
  BY <1>1, Begun, StateFields DEF EfixStarted
<1>3. PICK k \in Nat : k = efix.page /\ k > 0 /\ k = Len(out.pages) /\ k <= Len(efix.pages)
  BY <1>1, <1>2, StateFields DEF PagesCounted
<1>4. PICK X : out \in Outs(X)
  BY <1>2 DEF PagesCounted
<1>5. PICK lines \in Nat : lines = Len(out.pages[k].lines) /\ lines = efix.linesout
  BY <1>1, <1>2, <1>3, StateFields DEF PagesCounted
<1>6. Len(efix.pages) \in Nat /\ k \in 1..Len(efix.pages)
  BY <1>2, <1>3, HeightsAreLines
<1>7. PICK H \in Nat : H = Height(k)
  BY <1>2, <1>6, HeightsAreLines
<1>8. PICK job \in EfixJobs : job = efix.job /\ job.ys \in Nat /\ job.iysh \in Int
  BY <1>2, StateFields, EfixAssumption
<1>9. PICK page \in PagesIn(job.files) : page = efix.pages[k]
  <2>1. PICK P : P = PagesIn(job.files) /\ efix.pages \in Seq(P)
    BY <1>2, <1>8, FilesGivePages DEF EfixStarted
  <2> QED BY <1>6, <2>1, ElementOfSeq
<1>10. PICK L \in Nat : L = Len(page.lines)
  BY EfixAssumption, LenProperties
<1>11. PICK il, ol, line \in Nat : il = efix.ilines /\ ol = efix.olines /\ line = efix.line
  BY <1>2, StateFields
<1>12. lines < H /\ HasLine(page, line + 1)
  BY <1>1, <1>3, <1>5, <1>7, <1>9, <1>11 DEF PageEnds
<1>13. PICK due, here \in Nat : /\ due = ((il + 1) * job.ys) \div 256
                                /\ here = (il * job.ys) \div 256 /\ here <= due
  <2>1. PICK ys \in Nat, next \in Nat : ys = job.ys /\ next = il + 1 /\ il <= next
    BY <1>8
  <2>2. /\ (il * ys) \div 256 \in Nat /\ (next * ys) \div 256 \in Nat
        /\ (il * ys) \div 256 <= (next * ys) \div 256
    BY <2>1, RowsGrowTo
  <2> QED BY <2>1, <2>2
<1>14. PICK down, up \in Nat : down = Down(job) /\ up = Up(job)
  BY <1>8 DEF Down, Up
<1>15. lines = down + ol /\ line = il + up /\ ol = here
  <2>1. ~(lines >= H)
    BY <1>12
  <2> QED BY <1>1, <1>2, <1>3, <1>5, <1>7, <1>8, <1>11, <1>13, <1>14, <2>1
          DEF PictureInv, LineAtHand
<1>16. PICK no \in Nat : no = Copies(due - ol, H - lines)
  BY <1>12, <1>13, <1>15 DEF Copies
<1>17. no = due - ol \/ (no = H - lines /\ no <= due - ol)
  BY <1>12, <1>13, <1>15, <1>16 DEF Copies
<1>18. PICK runs : runs = Fitted(OverlayLine(readline(page, line + 1), job, il + 1), job)
  OBVIOUS
<1>19. /\ out' = writeline(out, job.format, runs, no)
       /\ efix' = [efix EXCEPT !.line = line + 1, !.ilines = il + 1, !.olines = @ + no,
                               !.linesout = @ + no]
  BY <1>3, <1>5, <1>7, <1>8, <1>9, <1>11, <1>13, <1>16, <1>18 DEF EfixCopiesLine, Repeats
<1>20. /\ efix'.job = efix.job /\ efix'.pages = efix.pages
       /\ efix'.page = efix.page /\ efix'.olines = ol + no /\ efix'.ilines = il + 1
       /\ efix'.line = line + 1 /\ efix'.pc = "line" /\ efix'.linesout = lines + no
  <2>1. PICK I, J : I = Inputs /\ J = EfixJobs
    OBVIOUS
  <2>2. EfixStates = [pc : {"page", "line", "end"}, job : J, pages : I, page : Nat, line : Nat,
             ilines : Nat, olines : Nat, linesout : Nat]
    BY <2>1 DEF EfixStates
  <2>3. PICK a, b, c, d \in Nat : a = line + 1 /\ b = il + 1 /\ c = ol + no /\ d = lines + no
    OBVIOUS
  <2>4. efix' = [efix EXCEPT !.line = a, !.ilines = b, !.olines = c, !.linesout = d]
    BY <1>5, <1>11, <1>19, <2>3
  <2>5. /\ efix'.job = efix.job /\ efix'.pages = efix.pages
        /\ efix'.page = efix.page /\ efix'.pc = efix.pc /\ efix'.olines = c /\ efix'.ilines = b
        /\ efix'.line = a /\ efix'.linesout = d
    BY <1>2, <2>2, <2>4
  <2> QED BY <1>1, <2>3, <2>5
<1>21. Height(k)' = H
  BY <1>7, <1>8, <1>20 DEF Height
<1>22. LineAtHand'
  <2>1. lines + no = down + (ol + no)
    BY <1>15
  <2>2. line + 1 = (il + 1) + up
    BY <1>15
  <2>3. ol + no = due \/ lines + no >= H
    BY ONLY <1>15, <1>17, ol \in Nat, no \in Nat, due \in Nat, lines \in Nat, H \in Nat
  <2>4. (efix'.olines = (efix'.ilines * efix'.job.ys) \div 256) \/ efix'.linesout >= H
    BY <1>8, <1>13, <1>20, <2>3
  <2>5. Height(efix.page)' = H
    BY <1>3, <1>20, <1>21 DEF Height
  <2>6. efix'.linesout = Down(efix'.job) + efix'.olines /\ efix'.line = efix'.ilines + Up(efix'.job)
    BY <1>8, <1>14, <1>20, <2>1, <2>2
  <2> QED BY <2>4, <2>5, <2>6 DEF LineAtHand
<1>23. ASSUME RunsHaveCodes(job) PROVE AllShown(out', job, efix.pages)
  <2>1. AllShown(out, job, efix.pages)
    BY <1>2, <1>8, <1>23 DEF PictureInv, PicturesSoFar
  <2>2. Len(out'.pages[k].lines) = lines + no
    <3>1. PagesCounted'
      <4>1. efix' # Unstarted
        BY <1>20 DEF Unstarted
      <4> QED BY <4>1 DEF EfixInv, Unstarted
    <3>2. Len(out'.pages[efix'.page].lines) = efix'.linesout
      BY <1>20, <3>1 DEF PagesCounted
    <3> QED BY <1>3, <1>20, <3>2
  <2>3. ASSUME NEW y \in 1..Len(out'.pages[k].lines), y \notin 1..Len(out.pages[k].lines)
        PROVE  LineInFile(job.format, runs) = RowShouldBe(job, efix.pages[k], y)
    <3>1. y \in 1..(lines + no) /\ y \notin 1..lines
      BY <1>5, <2>2, <2>3
    <3>2. y \in Nat /\ y > lines /\ y <= lines + no
      BY <3>1
    <3>3. down + here < y /\ y <= down + due
      BY ONLY <1>15, <1>17, <3>2, ol \in Nat, no \in Nat, due \in Nat, lines \in Nat, H \in Nat,
              down \in Nat, here \in Nat
    <3>4. RowShouldBe(job, page, y) = ShouldBe(job, page, il + Up(job) + 1, il + 1)
      <4>1. HasLine(page, il + Up(job) + 1)
        BY <1>12, <1>14, <1>15
      <4>2. /\ Down(job) + ((il * job.ys) \div 256) < y
            /\ y <= Down(job) + (((il + 1) * job.ys) \div 256)
        BY <1>13, <1>14, <3>3
      <4> QED BY <1>8, <1>10, <3>2, <4>1, <4>2, RowCopied
    <3>5. line + 1 \in 1..L
      <4>1. line + 1 <= L
        BY <1>10, <1>12 DEF HasLine
      <4> QED BY ONLY line \in Nat, L \in Nat, <4>1
    <3>6. il + 1 \in Nat \ {0}
      OBVIOUS
    <3>7. LineInFile(job.format, runs) = ShouldBe(job, page, line + 1, il + 1)
      BY <1>10, <1>18, <1>23, <3>5, <3>6, CopiedLine
    <3>8. line + 1 = il + Up(job) + 1
      BY <1>14, <1>15
    <3> QED BY <1>9, <3>4, <3>7, <3>8
  <2>4. no \in Int /\ k > 0
    BY <1>3
  <2> QED BY <1>3, <1>4, <1>19, <2>1, <2>3, <2>4, WriteShows
<1>24. PicturesSoFar'
  BY <1>8, <1>20, <1>23 DEF PicturesSoFar
<1> QED BY <1>22, <1>24 DEF PictureInv

\* The rows above the first line are blank, as they should be.
LEMMA OpenShows ==
  ASSUME EfixInv, EfixInv', PictureInv, EfixOpensPage
  PROVE  PictureInv'
<1>1. efix.pc = "page" /\ efix.page < Len(efix.pages)
  BY DEF EfixOpensPage
<1>2. EfixStarted /\ PagesCounted /\ efix \in EfixStates /\ efix # Unstarted
  BY <1>1, Begun, StateFields DEF EfixStarted
<1>3. PICK k \in Nat : k = efix.page /\ k = Len(out.pages)
  BY <1>2, StateFields DEF PagesCounted
<1>4. PICK N \in Nat : N = Len(efix.pages) /\ k < N
  BY <1>1, <1>2, <1>3, HeightsAreLines
<1>5. PICK X : out \in Outs(X)
  BY <1>2 DEF PagesCounted
<1>6. PICK H \in Nat : H = Height(k + 1)
  <2>1. k + 1 \in 1..N
    BY <1>4
  <2> QED BY <1>2, <1>4, <2>1, HeightsAreLines
<1>7. PICK job \in EfixJobs : job = efix.job /\ job.ys \in Nat /\ job.iysh \in Int
  BY <1>2, StateFields, EfixAssumption
<1>8. PICK down, up \in Nat : down = Down(job) /\ up = Up(job)
  BY <1>7 DEF Down, Up
<1>9. PICK o \in Outs(X) : o = [out EXCEPT !.h = H] /\ o.pages = out.pages
  <2>1. PICK P : P = Seq(OutPage(X))
    OBVIOUS
  <2>2. Outs(X) = [pages : P, h : Nat]
    BY <2>1 DEF Outs
  <2>3. PICK o : o = [out EXCEPT !.h = H]
    OBVIOUS
  <2>4. o \in Outs(X) /\ o.pages = out.pages
    BY <1>5, <2>2, <2>3
  <2> QED BY <2>3, <2>4
<1>10. PICK n : n = nextopage(o, job.format) /\ BeginsPage(n, o, job.format)
  BY NextBegins
<1>11. PICK runs : runs = White(Rounded(job.w))
  OBVIOUS
<1>12. /\ out' = writeline(n, job.format, runs, down)
       /\ efix' = [efix EXCEPT !.pc = "line", !.page = k + 1, !.ilines = 0, !.olines = 0,
                               !.linesout = down, !.line = up]
  BY <1>3, <1>6, <1>7, <1>8, <1>9, <1>10, <1>11 DEF EfixOpensPage, Down, Up
<1>13. /\ efix'.job = efix.job /\ efix'.pages = efix.pages
       /\ efix'.olines = 0 /\ efix'.ilines = 0 /\ efix'.line = up
       /\ efix'.pc = "line" /\ efix'.linesout = down /\ efix'.page = k + 1
  <2>1. PICK I, J : I = Inputs /\ J = EfixJobs
    OBVIOUS
  <2>2. EfixStates = [pc : {"page", "line", "end"}, job : J, pages : I, page : Nat, line : Nat,
             ilines : Nat, olines : Nat, linesout : Nat]
    BY <2>1 DEF EfixStates
  <2> QED BY <1>2, <1>12, <2>2
<1>14. LineAtHand'
  <2>1. (0 * job.ys) \div 256 = 0
    BY <1>7
  <2>2. down = down + 0 /\ up = 0 + up
    OBVIOUS
  <2> QED BY <1>7, <1>8, <1>13, <2>1, <2>2 DEF LineAtHand
<1>15. ASSUME RunsHaveCodes(job) PROVE AllShown(out', job, efix.pages)
  <2>1. AllShown(out, job, efix.pages)
    BY <1>2, <1>7, <1>15 DEF PictureInv, PicturesSoFar
  <2>2. AllShown(o, job, efix.pages)
    BY <1>9, <2>1 DEF AllShown
  <2>3. AllShown(n, job, efix.pages)
    BY <1>10, <2>2, BeginShows
  <2>4. PICK Y : n \in Outs(Y)
    BY <1>10 DEF BeginsPage
  <2>5. PICK L \in Nat : L = Len(n.pages) /\ L > 0 /\ L = k + 1
    BY <1>3, <1>9, <1>10 DEF BeginsPage
  <2>6. Len(out'.pages[L].lines) = down
    <3>1. PagesCounted'
      <4>1. efix' # Unstarted
        BY <1>13 DEF Unstarted
      <4> QED BY <4>1 DEF EfixInv, Unstarted
    <3>2. Len(out'.pages[efix'.page].lines) = efix'.linesout
      BY <1>13, <3>1 DEF PagesCounted
    <3> QED BY <1>13, <2>5, <3>2
  <2>7. ASSUME NEW y \in 1..Len(out'.pages[L].lines)
        PROVE  LineInFile(job.format, runs) = RowShouldBe(job, efix.pages[L], y)
    <3>1. y <= Down(job)
      BY <1>8, <2>6, <2>7
    <3>2. LineInFile(job.format, runs) = Blank(job)
      BY <1>11, <1>15, WhiteLine
    <3> QED BY <3>1, <3>2, RowAbove
  <2>8. down \in Int
    OBVIOUS
  <2> QED BY <1>12, <2>3, <2>4, <2>5, <2>7, <2>8, WriteShows
<1>16. PicturesSoFar'
  BY <1>7, <1>13, <1>15 DEF PicturesSoFar
<1> QED BY <1>14, <1>16 DEF PictureInv

\* At the end every row keeps its place.
LEMMA EndShows ==
  ASSUME EfixInv, PictureInv, EfixEnds
  PROVE  PictureInv'
<1>1. efix.pc = "page" /\ efix' = [efix EXCEPT !.pc = "end"]
      /\ out' = CloseOpage(out, efix.job.format)
  BY DEF EfixEnds
<1>2. EfixStarted /\ PagesCounted /\ efix \in EfixStates /\ efix # Unstarted
  BY <1>1, Begun, StateFields DEF EfixStarted
<1>3. efix'.pc = "end" /\ efix'.job = efix.job /\ efix'.pages = efix.pages
  <2>1. PICK I, J : I = Inputs /\ J = EfixJobs
    OBVIOUS
  <2>2. EfixStates = [pc : {"page", "line", "end"}, job : J, pages : I, page : Nat, line : Nat,
             ilines : Nat, olines : Nat, linesout : Nat]
    BY <2>1 DEF EfixStates
  <2> QED BY <1>1, <1>2, <2>2
<1>4. LineAtHand'
  BY <1>3 DEF LineAtHand
<1>5. PICK X : out \in Outs(X)
  BY <1>2 DEF PagesCounted
<1>6. ASSUME RunsHaveCodes(efix.job) PROVE AllShown(out', efix.job, efix.pages)
  <2>1. AllShown(out, efix.job, efix.pages)
    BY <1>2, <1>6 DEF PictureInv, PicturesSoFar
  <2> QED BY <1>1, <1>5, <2>1, CloseShows
<1>7. PicturesSoFar'
  BY <1>3, <1>6 DEF PicturesSoFar
<1> QED BY <1>4, <1>7 DEF PictureInv

\* Nothing is written at first.
LEMMA StartShows ==
  ASSUME EfixInv, EfixStarts
  PROVE  PictureInv'
<1>1. out = [pages |-> <<>>, h |-> 0]
  <2>1. efix.pc = "start"
    BY DEF EfixStarts
  <2>2. ~EfixStarted
    BY <2>1, StateFields DEF EfixStarted
  <2> QED BY <2>2 DEF EfixInv
<1>2. efix'.pc = "page" /\ out' = out
  BY DEF EfixStarts
<1>3. Len(out'.pages) = 0
  BY <1>1, <1>2
<1>4. 1..Len(out'.pages) = {}
  BY <1>3
<1> QED BY <1>2, <1>4 DEF PictureInv, LineAtHand, PicturesSoFar, AllShown

(* EfixTrue: each row of a page that efix writes shows the pixels of the    *)
(* line that belongs there, and no other row is black (readline(), the      *)
(* operators of efaxlib.c on run lengths, writeline() and the loop of       *)
(* main()), for any files, overlays, sizes, scales, shifts and formats, if  *)
(* the format has a code for every run of a line.                           *)
THEOREM PagesAreTrue == SpecEfix => []EfixTrue
<1>1. InitEfix => EfixInv /\ PictureInv
  BY DEF InitEfix, EfixInv, PictureInv
<1>2. EfixInv /\ PictureInv /\ [NextEfix]_efixVars => EfixInv' /\ PictureInv'
  <2>1. SUFFICES ASSUME EfixInv, PictureInv, [NextEfix]_efixVars PROVE PictureInv'
    BY EfixInvSteps
  <2>2. EfixInv'
    BY <2>1, EfixInvSteps
  <2>3. CASE EfixStarts
    BY <2>1, <2>3, StartShows
  <2>4. CASE EfixOpensPage
    BY <2>1, <2>2, <2>4, OpenShows
  <2>5. CASE EfixCopiesLine
    BY <2>1, <2>2, <2>5, CopyShows
  <2>6. CASE EfixPadsPage
    BY <2>1, <2>6, PadShows
  <2>7. CASE EfixEnds
    BY <2>1, <2>7, EndShows
  <2>8. CASE UNCHANGED efixVars
    <3>1. efix' = efix /\ out' = out
      BY <2>8 DEF efixVars
    <3> QED BY <2>1, <3>1 DEF PictureInv, Unstarted, LineAtHand, PicturesSoFar, Height
  <2> QED BY <2>1, <2>3, <2>4, <2>5, <2>6, <2>7, <2>8 DEF NextEfix
<1>3. EfixInv /\ PictureInv => EfixTrue
  <2>1. SUFFICES ASSUME EfixInv, PictureInv PROVE PagesArePictures
    BY EfixInvGives DEF EfixTrue
  <2>2. CASE efix = Unstarted
    <3>1. DOMAIN out.pages = {}
      BY <2>1, <2>2 DEF EfixInv, Unstarted
    <3> QED BY <3>1 DEF PagesArePictures
  <2>3. CASE efix # Unstarted
    <3>1. PagesCounted /\ PicturesSoFar
      BY <2>1, <2>3 DEF EfixInv, PictureInv
    <3>2. PICK X : out \in Outs(X)
      BY <3>1 DEF PagesCounted
    <3>3. DOMAIN out.pages = 1..Len(out.pages)
          /\ \A p \in 1..Len(out.pages) : out.pages[p] \in OutPage(X)
      BY <3>2, ElementOfSeq DEF Outs
    <3>4. ASSUME NEW p \in DOMAIN out.pages
          PROVE  DOMAIN out.pages[p].lines = 1..Len(out.pages[p].lines)
      <4>1. out.pages[p].lines \in Seq(X)
        BY <3>3 DEF OutPage
      <4> QED BY <4>1, ElementOfSeq
    <3> QED BY <3>1, <3>3, <3>4 DEF PagesArePictures, PicturesSoFar, AllShown
  <2> QED BY <2>2, <2>3
<1> QED BY <1>1, <1>2, <1>3, PTL DEF SpecEfix

-----------------------------------------------------------------------------
(* Encryption.                                                              *)

\* xor is what its definition says, number by number.
LEMMA xorIs ==
  /\ xor \in [0..ByteBits -> [Nat -> [Nat -> Nat]]]
  /\ \A a, b \in Nat : xor[0][a][b] = a
  /\ \A n \in 1..ByteBits : \A a, b \in Nat :
       xor[n][a][b] = 2 * xor[n - 1][a \div 2][b \div 2] + ((a + b) % 2)
<1>1. PICK N \in Nat : N = ByteBits
  BY RunLengthsAssumption
<1> DEFINE X == [Nat -> [Nat -> Nat]]
           base == [a \in Nat |-> [b \in Nat |-> a]]
           next(f) == [a \in Nat |-> [b \in Nat |-> 2 * f[a \div 2][b \div 2] + ((a + b) % 2)]]
           step == [n \in 1..N |-> [f \in X |-> next(f)]]
           Is(f) == f = [n \in 0..N |->
                           [a \in Nat |-> [b \in Nat |->
     IF n = 0 THEN a ELSE 2 * f[n - 1][a \div 2][b \div 2] + ((a + b) % 2)]]]
<1>2. \A a, b \in Nat : a \div 2 \in Nat /\ b \div 2 \in Nat /\ (a + b) % 2 \in Nat
  OBVIOUS
<1>3. ASSUME NEW f \in X PROVE next(f) \in X
  <2>1. ASSUME NEW a \in Nat, NEW b \in Nat PROVE 2 * f[a \div 2][b \div 2] + ((a + b) % 2) \in Nat
    <3>1. PICK c \in Nat, d \in Nat : c = a \div 2 /\ d = b \div 2
      BY <1>2
    <3>2. PICK v \in Nat : v = f[c][d]
      OBVIOUS
    <3>3. PICK r \in Nat : r = (a + b) % 2
      BY <1>2
    <3>4. 2 * v + r \in Nat
      OBVIOUS
    <3> QED BY <3>1, <3>2, <3>3, <3>4
  <2> QED BY <2>1
<1>4. base \in X /\ step \in [1..N -> [X -> X]]
  <2>1. base \in X
    OBVIOUS
  <2> HIDE DEF X, base, next
  <2> QED BY <1>3, <2>1
<1>5. PICK g : Recursion(g, N, X, base, step)
  <2> HIDE DEF X, base, step
  <2> QED BY <1>4, RecursionExists
<1>6. g \in [0..N -> X] /\ g[0] = base /\ \A n \in 1..N : g[n] = next(g[n - 1])
  <2>1. g \in [0..N -> X] /\ g[0] = base /\ \A n \in 1..N : g[n] = step[n][g[n - 1]]
    <3> HIDE DEF X, base, step
    <3> QED BY <1>5 DEF Recursion
  <2>2. ASSUME NEW n \in 1..N PROVE g[n] = next(g[n - 1])
    <3>1. n - 1 \in 0..N
      OBVIOUS
    <3>2. g[n - 1] \in X
      BY <2>1, <3>1
    <3> HIDE DEF X, base, next
    <3> QED BY <2>1, <3>2
  <2> QED BY <2>1, <2>2
<1>7. Is(g)
  <2>1. ASSUME NEW n \in 0..N
        PROVE  g[n] = [a \in Nat |-> [b \in Nat |->
     IF n = 0 THEN a ELSE 2 * g[n - 1][a \div 2][b \div 2] + ((a + b) % 2)]]
    <3>1. CASE n = 0
      BY <1>6, <3>1
    <3>2. CASE n # 0
      <4>1. n \in 1..N
        BY <3>2
      <4>2. g[n] = next(g[n - 1])
        <5> HIDE DEF next
        <5> QED BY <1>6, <4>1
      <4> QED BY <3>2, <4>2
    <3> QED BY <3>1, <3>2
  <2>2. g = [n \in 0..N |-> g[n]]
    BY <1>6
  <2> QED BY <2>1, <2>2
<1>8. Is(xor)
  <2>1. xor = CHOOSE f : Is(f)
    BY <1>1 DEF xor
  <2> HIDE DEF Is
  <2> QED BY <1>7, <2>1
<1>9. \A a, b \in Nat : xor[0][a][b] = a
  BY <1>8
<1>10. ASSUME NEW n \in 1..N, NEW a \in Nat, NEW b \in Nat
       PROVE  xor[n][a][b] = 2 * xor[n - 1][a \div 2][b \div 2] + ((a + b) % 2)
  <2>1. n \in 0..N /\ n # 0
    OBVIOUS
  <2>2. xor[n] = next(xor[n - 1])
    BY <1>8, <2>1
  <2> HIDE DEF Is
  <2> QED BY <2>2
<1> DEFINE S == {n \in 0..N : xor[n] \in X}
<1>11. 0 \in S
  <2>1. xor[0] = base
    BY <1>8
  <2> QED BY <1>4, <2>1
<1>12. ASSUME NEW n \in 1..N, n - 1 \in S PROVE n \in S
  <2>1. n \in 0..N /\ n # 0
    OBVIOUS
  <2>2. xor[n] = next(xor[n - 1])
    BY <1>8, <2>1
  <2>3. next(xor[n - 1]) \in X
    <3> HIDE DEF next, X
    <3> QED BY <1>3, <1>12
  <2> HIDE DEF next, X
  <2> QED BY <2>1, <2>2, <2>3
<1>13. 0..N \subseteq S
  <2> HIDE DEF S
  <2> QED BY <1>11, <1>12, InductionTo
<1>14. xor \in [0..N -> X]
  <2>1. DOMAIN xor = 0..N /\ xor = [n \in 0..N |-> xor[n]]
    BY <1>8
  <2> HIDE DEF X, Is
  <2> QED BY <1>13, <2>1
<1> QED BY <1>1, <1>9, <1>10, <1>14

\* A run combined twice with the same word is as it was.
LEMMA xorTwice ==
  ASSUME NEW a \in Nat, NEW b \in Nat
  PROVE  xor[ByteBits][a][b] \in Nat /\ xor[ByteBits][xor[ByteBits][a][b]][b] = a
<1>1. PICK N \in Nat : N = ByteBits
  BY RunLengthsAssumption
<1>2. ASSUME NEW n \in 0..N, NEW x \in Nat, NEW y \in Nat PROVE xor[n][x][y] \in Nat
  <2>1. xor[n] \in [Nat -> [Nat -> Nat]]
    BY <1>1, xorIs
  <2>2. xor[n][x] \in [Nat -> Nat]
    BY <2>1
  <2> QED BY <2>2
<1>3. \A x, y \in Nat : xor[0][x][y] = x
  BY xorIs
<1>4. \A n \in 1..N : \A x, y \in Nat :
        xor[n][x][y] = 2 * xor[n - 1][x \div 2][y \div 2] + ((x + y) % 2)
  BY <1>1, xorIs
<1> DEFINE Undone(n) == \A x, y \in Nat : xor[n][xor[n][x][y]][y] = x
           S == {n \in 0..N : Undone(n)}
<1>5. 0 \in S
  <2>1. Undone(0)
    BY <1>3
  <2> QED BY <2>1
<1>6. ASSUME NEW n \in 1..N, n - 1 \in S PROVE n \in S
  <2>1. n - 1 \in 0..N /\ n \in 0..N /\ Undone(n - 1)
    BY <1>6
  <2>2. ASSUME NEW x \in Nat, NEW y \in Nat PROVE xor[n][xor[n][x][y]][y] = x
    <3>1. PICK u \in Nat, v \in Nat : u = x \div 2 /\ v = y \div 2
      OBVIOUS
    <3>2. PICK c \in Nat : c = xor[n - 1][u][v]
      BY <1>2, <2>1
    <3>3. PICK r \in {0, 1} : r = (x + y) % 2
      OBVIOUS
    <3>4. PICK d \in Nat : d = 2 * c + r
      OBVIOUS
    <3>5. xor[n][x][y] = d
      <4>1. xor[n][x][y] = 2 * xor[n - 1][x \div 2][y \div 2] + ((x + y) % 2)
        BY <1>4
      <4> QED BY <3>1, <3>2, <3>3, <3>4, <4>1
    <3>6. d \div 2 = c
      BY ONLY c \in Nat, r \in {0, 1}, d \in Nat, <3>4
    <3>7. 2 * u + ((d + y) % 2) = x
      <4>1. (d + y) % 2 = (r + y) % 2
        BY ONLY c \in Nat, r \in {0, 1}, d \in Nat, y \in Nat, <3>4
      <4>2. (r + y) % 2 = x % 2
        BY ONLY r \in {0, 1}, x \in Nat, y \in Nat, <3>3
      <4>3. x = 2 * u + (x % 2)
        BY ONLY x \in Nat, u \in Nat, <3>1
      <4> QED BY <4>1, <4>2, <4>3
    <3>8. xor[n][d][y] = 2 * xor[n - 1][c][v] + ((d + y) % 2)
      <4>1. xor[n][d][y] = 2 * xor[n - 1][d \div 2][y \div 2] + ((d + y) % 2)
        BY <1>4
      <4>2. y \div 2 = v
        BY <3>1
      <4> QED BY ONLY <3>6, <4>1, <4>2, Zenon
    <3>9. xor[n - 1][c][v] = u
      BY <2>1, <3>2
    <3> QED BY <3>5, <3>7, <3>8, <3>9
  <2> QED BY <2>1, <2>2
<1>7. 0..N \subseteq S
  <2> HIDE DEF S
  <2> QED BY <1>5, <1>6, InductionTo
<1>8. N \in 0..N /\ Undone(N)
  <2> HIDE DEF Undone
  <2> QED BY <1>7
<1> QED BY <1>1, <1>2, <1>8

\* A line is decrypted as it is encrypted.
LEMMA encryptTwice ==
  ASSUME NEW runs \in Seq(Nat)
  PROVE  encrypt(runs) \in Seq(Nat) /\ encrypt(encrypt(runs)) = runs
<1>1. PICK N \in Nat : N = Len(runs) /\ DOMAIN runs = 1..N /\ runs \in [1..N -> Nat]
  BY ElementOfSeq
<1>2. ASSUME NEW i \in 1..N PROVE Word(i) \in Nat
  <2>1. PICK K \in Nat \ {0} : K = Len(Keystream)
    BY FaxPageAssumption
  <2>2. ((i - 1) % K) + 1 \in 1..K
    BY ONLY K \in Nat \ {0}, i \in 1..N, N \in Nat
  <2> QED BY <2>1, <2>2, FaxPageAssumption, ElementOfSeq DEF Word
<1>3. PICK c : c = encrypt(runs) /\ c = [i \in 1..N |-> xor[ByteBits][runs[i]][Word(i)]]
  BY <1>1 DEF encrypt
<1>4. ASSUME NEW i \in 1..N
      PROVE  c[i] \in Nat /\ xor[ByteBits][c[i]][Word(i)] = runs[i]
  <2>1. PICK a \in Nat, b \in Nat : a = runs[i] /\ b = Word(i)
    BY <1>1, <1>2
  <2>2. c[i] = xor[ByteBits][a][b]
    BY <1>3, <2>1
  <2> QED BY <2>1, <2>2, xorTwice
<1>5. c \in [1..N -> Nat] /\ DOMAIN c = 1..N
  BY <1>3, <1>4
<1>6. encrypt(c) = [i \in 1..N |-> runs[i]]
  BY <1>4, <1>5 DEF encrypt
<1>7. c \in Seq(Nat)
  BY <1>5
<1> QED BY <1>1, <1>3, <1>6, <1>7

-----------------------------------------------------------------------------
(* Which source lines make up the lines of the fax.                         *)

HeaderEnd == HDRSTRT + HDRCHRH

\* How many lines of the fax the first n source lines make.
LineCount(vr, n) ==
  IF Decimates(vr) THEN n \div 2
  ELSE IF vr[1] = 0 THEN IF n <= HeaderEnd THEN n \div 2 ELSE n - (HeaderEnd \div 2)
  ELSE n

\* The header is so many pairs of lines.
LEMMA HeaderPairs ==
  \E h \in Nat : HeaderEnd = 2 * h /\ HeaderEnd \div 2 = h /\ HDRSTRT \in Nat /\ HDRCHRH \in Nat
<1>1. PICK H \in Nat : H = HeaderEnd /\ H % 2 = 0
  <2>1. HDRSTRT \in Nat /\ HDRCHRH \in Nat /\ (HDRSTRT + HDRCHRH) % 2 = 0
    BY FaxPageAssumption DEF HDRCHRH
  <2> QED BY <2>1 DEF HeaderEnd
<1>2. H \div 2 \in Nat /\ H = 2 * (H \div 2)
  BY <1>1
<1> QED BY <1>1, <1>2, FaxPageAssumption DEF HDRCHRH

\* A line that is kept for the next makes no line of the fax, the next makes one of
\* both, and any other makes one of its own.
LEMMA LinesCount ==
  ASSUME NEW vr \in Resolutions2, NEW n \in Nat
  PROVE  /\ LineCount(vr, n) \in Nat /\ LineCount(vr, 0) = 0
         /\ Halved(vr, n) /\ n % 2 = 0 => LineCount(vr, n + 1) = LineCount(vr, n)
         /\ Halved(vr, n) /\ n % 2 = 1 => /\ LineCount(vr, n + 1) = LineCount(vr, n) + 1
                                          /\ Sources(vr, LineCount(vr, n) + 1) = {n - 1, n}
         /\ ~Halved(vr, n) => /\ LineCount(vr, n + 1) = LineCount(vr, n) + 1
                              /\ Sources(vr, LineCount(vr, n) + 1) = {n}
<1>1. PICK h \in Nat : HeaderEnd = 2 * h /\ HeaderEnd \div 2 = h
  BY HeaderPairs
<1>2. PICK v \in Nat : v = vr[1]
  BY FaxPageAssumption
<1>3. PICK q \in Nat : q = n \div 2
  OBVIOUS
<1>4. n % 2 \in {0, 1} /\ n = 2 * q + (n % 2)
  BY <1>3
<1>5. n % 2 = 0 => (n + 1) \div 2 = q
  BY <1>4
<1>6. n % 2 = 1 => (n + 1) \div 2 = q + 1
  BY <1>4
<1>7. HDRSTRT + HDRCHRH = 2 * h /\ (HDRSTRT + HDRCHRH) \div 2 = h
  BY <1>1 DEF HeaderEnd
<1>8. \A m \in Nat : LineCount(vr, m) =
        IF Decimates(vr) THEN m \div 2
        ELSE IF v = 0 THEN IF m <= 2 * h THEN m \div 2 ELSE m - h ELSE m
  BY <1>1, <1>2 DEF LineCount
<1>9. Halved(vr, n) <=> Decimates(vr) \/ (n < 2 * h /\ v = 0)
  BY <1>2, <1>7 DEF Halved
<1>10. \A k \in Nat :
         /\ Decimates(vr) => Sources(vr, k) = {2 * k - 2, 2 * k - 1}
         /\ ~Decimates(vr) /\ v = 0 /\ k <= h => Sources(vr, k) = {2 * k - 2, 2 * k - 1}
         /\ ~Decimates(vr) /\ v = 0 /\ k > h => Sources(vr, k) = {k + h - 1}
         /\ ~Decimates(vr) /\ v # 0 => Sources(vr, k) = {k - 1}
  BY <1>2, <1>7 DEF Sources
<1>11. LineCount(vr, 0) = 0
  BY <1>8
<1>12. LineCount(vr, n) \in Nat
  BY <1>3, <1>8
<1>13. ASSUME Halved(vr, n)
       PROVE  LineCount(vr, n) = q /\ LineCount(vr, n + 1) = (n + 1) \div 2
  BY <1>3, <1>8, <1>9, <1>13
<1>14. ASSUME Halved(vr, n), n % 2 = 1
       PROVE  Sources(vr, q + 1) = {n - 1, n}
  <2>1. q + 1 \in Nat /\ 2 * (q + 1) - 2 = n - 1 /\ 2 * (q + 1) - 1 = n
    BY <1>4, <1>14
  <2>2. ~Decimates(vr) => v = 0 /\ q + 1 <= h
    BY <1>4, <1>9, <1>14
  <2>3. Sources(vr, q + 1) = {2 * (q + 1) - 2, 2 * (q + 1) - 1}
    BY <1>10, <2>1, <2>2
  <2> QED BY <2>1, <2>3
<1>15. ASSUME ~Halved(vr, n)
       PROVE  /\ LineCount(vr, n + 1) = LineCount(vr, n) + 1
              /\ Sources(vr, LineCount(vr, n) + 1) = {n}
  <2>1. ~Decimates(vr) /\ (v = 0 => n >= 2 * h)
    BY <1>9, <1>15
  <2>2. CASE v # 0
    <3>1. LineCount(vr, n) = n /\ LineCount(vr, n + 1) = n + 1
      BY <1>8, <2>1, <2>2
    <3>2. Sources(vr, n + 1) = {(n + 1) - 1}
      BY <1>10, <2>1, <2>2
    <3> QED BY <3>1, <3>2
  <2>3. CASE v = 0
    <3>1. LineCount(vr, n) = n - h
      <4>1. CASE n = 2 * h
        BY <1>4, <1>8, <2>1, <2>3, <4>1
      <4>2. CASE n > 2 * h
        BY <1>8, <2>1, <2>3, <4>2
      <4> QED BY <2>1, <2>3, <4>1, <4>2
    <3>2. LineCount(vr, n + 1) = (n + 1) - h
      BY <1>8, <2>1, <2>3
    <3>3. n - h + 1 \in Nat /\ n - h + 1 > h /\ (n - h + 1) + h - 1 = n
      BY <2>1, <2>3
    <3>4. Sources(vr, n - h + 1) = {(n - h + 1) + h - 1}
      BY <1>10, <2>1, <2>3, <3>3
    <3> QED BY <3>1, <3>2, <3>3, <3>4
  <2> QED BY <2>2, <2>3
<1> QED BY <1>5, <1>6, <1>11, <1>12, <1>13, <1>14, <1>15

\* The lines of the fax are those that the source lines of the page make.
LEMMA LinesExpected ==
  ASSUME NEW vr \in Resolutions2, NEW source \in PageSources
  PROVE  Expected(source, vr) = 1..LineCount(vr, HDRSPCE + Len(source))
<1>1. PICK T \in Nat : T = HDRSPCE + Len(source)
  BY FaxPageAssumption
<1>2. PICK h \in Nat : HeaderEnd = 2 * h /\ HeaderEnd \div 2 = h
  BY HeaderPairs
<1>3. PICK v \in Nat : v = vr[1]
  BY FaxPageAssumption
<1>4. PICK q \in Nat : q = T \div 2 /\ (T = 2 * q \/ T = 2 * q + 1)
  OBVIOUS
<1>5. HDRSTRT + HDRCHRH = 2 * h /\ (HDRSTRT + HDRCHRH) \div 2 = h
  BY <1>2 DEF HeaderEnd
<1>6. \A k \in Nat :
         /\ Decimates(vr) => Sources(vr, k) = {2 * k - 2, 2 * k - 1}
         /\ ~Decimates(vr) /\ v = 0 /\ k <= h => Sources(vr, k) = {2 * k - 2, 2 * k - 1}
         /\ ~Decimates(vr) /\ v = 0 /\ k > h => Sources(vr, k) = {k + h - 1}
         /\ ~Decimates(vr) /\ v # 0 => Sources(vr, k) = {k - 1}
  BY <1>3, <1>5 DEF Sources
<1>7. LineCount(vr, T) = IF Decimates(vr) THEN q
                         ELSE IF v = 0 THEN IF T <= 2 * h THEN q ELSE T - h ELSE T
  BY <1>2, <1>3, <1>4 DEF LineCount
<1>8. Expected(source, vr) = {k \in 1..T : \A n \in Sources(vr, k) : n < T}
  BY <1>1 DEF Expected, HasSource
<1>9. ASSUME NEW k \in 1..T
      PROVE  (\A n \in Sources(vr, k) : n < T) <=> k <= LineCount(vr, T)
  <2>1. CASE Decimates(vr)
    <3>1. Sources(vr, k) = {2 * k - 2, 2 * k - 1}
      BY <1>6, <2>1
    <3>2. LineCount(vr, T) = q
      BY <1>7, <2>1
    <3>3. (2 * k - 2 < T /\ 2 * k - 1 < T) <=> k <= q
      BY <1>4
    <3> QED BY <3>1, <3>2, <3>3
  <2>2. CASE ~Decimates(vr) /\ v = 0 /\ k <= h
    <3>1. Sources(vr, k) = {2 * k - 2, 2 * k - 1}
      BY <1>6, <2>2
    <3>2. LineCount(vr, T) = IF T <= 2 * h THEN q ELSE T - h
      BY <1>7, <2>2
    <3>3. T <= 2 * h => ((2 * k - 2 < T /\ 2 * k - 1 < T) <=> k <= q)
      BY <1>4
    <3>4. T > 2 * h => 2 * k - 2 < T /\ 2 * k - 1 < T /\ k <= T - h
      BY <2>2
    <3> QED BY <3>1, <3>2, <3>3, <3>4
  <2>3. CASE ~Decimates(vr) /\ v = 0 /\ k > h
    <3>1. Sources(vr, k) = {k + h - 1}
      BY <1>6, <2>3
    <3>2. LineCount(vr, T) = IF T <= 2 * h THEN q ELSE T - h
      BY <1>7, <2>3
    <3>3. T <= 2 * h => ~(k + h - 1 < T) /\ ~(k <= q)
      BY <1>4, <2>3
    <3>4. T > 2 * h => (k + h - 1 < T <=> k <= T - h)
      BY <2>3
    <3> QED BY <3>1, <3>2, <3>3, <3>4
  <2>4. CASE ~Decimates(vr) /\ v # 0
    <3>1. Sources(vr, k) = {k - 1} /\ LineCount(vr, T) = T
      BY <1>6, <1>7, <2>4
    <3> QED BY <3>1
  <2> QED BY <2>1, <2>2, <2>3, <2>4
<1>10. LineCount(vr, T) \in Nat /\ LineCount(vr, T) <= T
  <2>1. q <= T /\ (T > 2 * h => T - h \in Nat /\ T - h <= T)
    BY <1>4
  <2> QED BY <1>7, <2>1
<1>11. PICK m \in Nat : m = LineCount(vr, T) /\ m <= T
  BY <1>10
<1>12. {k \in 1..T : \A n \in Sources(vr, k) : n < T} = {k \in 1..T : k <= m}
  BY <1>9, <1>11
<1>13. {k \in 1..T : k <= m} = 1..m
  BY <1>11
<1> QED BY <1>1, <1>8, <1>11, <1>12, <1>13

-----------------------------------------------------------------------------
(* What the lines of the fax draw.                                          *)

FileInk(source, n) ==
  IF n >= HDRSPCE THEN Ones(source[n - HDRSPCE + 1], Len(source[n - HDRSPCE + 1])) ELSE {}
HeaderInk(n) ==
  IF n \in HDRSTRT..(HDRSTRT + HDRCHRH - 1)
  THEN Ones(HeaderRows[n - HDRSTRT + 1], Len(HeaderRows[n - HDRSTRT + 1])) ELSE {}
PageInk(source, n) == FileInk(source, n) \cup HeaderInk(n)

\* A line of the file with its pixels.
LEMMA SourceBits ==
  ASSUME NEW source \in PageSources, NEW n \in Nat, HasSource(source, n), n >= HDRSPCE
  PROVE  \E bits \in Seq({0, 1}) :
           /\ bits = source[n - HDRSPCE + 1] /\ Len(bits) \in Nat \ {0}
           /\ DOMAIN bits = 1..Len(bits)
<1>1. PICK Z : Z = Seq({0, 1}) \ {<<>>}
  OBVIOUS
<1>2. source \in Seq(Z) /\ HDRSPCE \in Nat
  BY <1>1, FaxPageAssumption
<1>3. n - HDRSPCE + 1 \in 1..Len(source)
  BY <1>2 DEF HasSource
<1>4. source[n - HDRSPCE + 1] \in Z
  BY <1>2, <1>3, ElementOfSeq
<1>5. PICK bits \in Seq({0, 1}) : bits = source[n - HDRSPCE + 1] /\ bits # <<>>
  BY <1>1, <1>4
<1>6. Len(bits) \in Nat \ {0} /\ DOMAIN bits = 1..Len(bits)
  BY <1>5
<1> QED BY <1>5, <1>6

\* A row of the header with its pixels.
LEMMA HeaderBits ==
  ASSUME NEW n \in HDRSTRT..(HDRSTRT + HDRCHRH - 1)
  PROVE  \E bits \in Seq({0, 1}) :
           /\ bits = HeaderRows[n - HDRSTRT + 1] /\ Len(bits) \in Nat
           /\ DOMAIN bits = 1..Len(bits)
<1>1. PICK Z : Z = Seq({0, 1})
  OBVIOUS
<1>2. HeaderRows \in Seq(Z) /\ HDRSTRT \in Nat /\ HDRCHRH = Len(HeaderRows)
  BY <1>1, FaxPageAssumption DEF HDRCHRH
<1>3. n - HDRSTRT + 1 \in 1..Len(HeaderRows)
  BY <1>2
<1>4. HeaderRows[n - HDRSTRT + 1] \in Z
  BY <1>2, <1>3, ElementOfSeq
<1>5. PICK bits \in Seq({0, 1}) : bits = HeaderRows[n - HDRSTRT + 1]
  BY <1>1, <1>4
<1>6. Len(bits) \in Nat /\ DOMAIN bits = 1..Len(bits)
  OBVIOUS
<1> QED BY <1>5, <1>6

\* The ink of a line is where the picture is black.
LEMMA InkIs ==
  ASSUME NEW source \in PageSources, NEW n \in Nat, HasSource(source, n), NEW x
  PROVE  Ink2(source, n, x) <=> x \in PageInk(source, n)
<1>1. CASE n >= HDRSPCE
  <2>1. PICK bits \in Seq({0, 1}) : bits = source[n - HDRSPCE + 1] /\ DOMAIN bits = 1..Len(bits)
    BY <1>1, SourceBits
  <2>2. (x \in DOMAIN bits /\ bits[x] = 1) <=> x \in Ones(bits, Len(bits))
    BY <2>1 DEF Ones
  <2>3. CASE n \in HDRSTRT..(HDRSTRT + HDRCHRH - 1)
    <3>1. PICK row \in Seq({0, 1}) : row = HeaderRows[n - HDRSTRT + 1] /\ DOMAIN row = 1..Len(row)
      BY <2>3, HeaderBits
    <3>2. (x \in DOMAIN row /\ row[x] = 1) <=> x \in Ones(row, Len(row))
      BY <3>1 DEF Ones
    <3> QED BY <1>1, <2>1, <2>2, <2>3, <3>1, <3>2 DEF Ink2, PageInk, FileInk, HeaderInk
  <2>4. CASE n \notin HDRSTRT..(HDRSTRT + HDRCHRH - 1)
    BY <1>1, <2>1, <2>2, <2>4 DEF Ink2, PageInk, FileInk, HeaderInk
  <2> QED BY <2>3, <2>4
<1>2. CASE ~(n >= HDRSPCE)
  <2>1. CASE n \in HDRSTRT..(HDRSTRT + HDRCHRH - 1)
    <3>1. PICK row \in Seq({0, 1}) : row = HeaderRows[n - HDRSTRT + 1] /\ DOMAIN row = 1..Len(row)
      BY <2>1, HeaderBits
    <3>2. (x \in DOMAIN row /\ row[x] = 1) <=> x \in Ones(row, Len(row))
      BY <3>1 DEF Ones
    <3> QED BY <1>2, <2>1, <3>1, <3>2 DEF Ink2, PageInk, FileInk, HeaderInk
  <2>2. CASE n \notin HDRSTRT..(HDRSTRT + HDRCHRH - 1)
    BY <1>2, <2>2 DEF Ink2, PageInk, FileInk, HeaderInk
  <2> QED BY <2>1, <2>2
<1> QED BY <1>1, <1>2

\* A line of the page draws the line of the file and the header over it.
LEMMA PageLineDraws ==
  ASSUME NEW source \in PageSources, NEW n \in Nat, HasSource(source, n)
  PROVE  \E w \in Nat \ {0} : Draws(PageLine(source, n), w, PageInk(source, n))
<1>0. HDRSPCE \in Nat /\ PageWidth \in Nat \ {0}
  BY FaxPageAssumption
<1>1. PICK w \in Nat \ {0} : Draws(SourceLine(source, n), w, FileInk(source, n))
  <2>1. CASE n >= HDRSPCE
    <3>1. PICK bits \in Seq({0, 1}) : bits = source[n - HDRSPCE + 1] /\ Len(bits) \in Nat \ {0}
      BY <2>1, SourceBits
    <3>2. Draws(bittorun(bits), Len(bits), Ones(bits, Len(bits)))
      BY bittorunDraws
    <3>3. SourceLine(source, n) = bittorun(bits) /\ FileInk(source, n) = Ones(bits, Len(bits))
      BY <1>0, <2>1, <3>1 DEF SourceLine, FileInk
    <3> QED BY <3>1, <3>2, <3>3
  <2>2. CASE ~(n >= HDRSPCE)
    <3>1. SourceLine(source, n) = White(PageWidth) /\ FileInk(source, n) = {}
      BY <1>0, <2>2 DEF SourceLine, FileInk, White
    <3>2. Draws(White(PageWidth), PageWidth, {})
      BY <1>0, WhiteDraws
    <3> QED BY <1>0, <3>1, <3>2
  <2> QED BY <2>1, <2>2
<1>2. CASE n \in HDRSTRT..(HDRSTRT + HDRCHRH - 1)
  <2>1. PICK row \in Seq({0, 1}) : row = HeaderRows[n - HDRSTRT + 1] /\ Len(row) \in Nat
    BY <1>2, HeaderBits
  <2>2. PICK v \in Nat : v = Len(row) /\ Draws(bittorun(row), v, Ones(row, v))
    BY <2>1, bittorunDraws
  <2>3. Draws(runor(SourceLine(source, n), bittorun(row)), Wider(w, v),
              FileInk(source, n) \cup Ones(row, v))
    BY <1>1, <2>2, runorDraws
  <2>4. Wider(w, v) \in Nat \ {0}
    BY <1>1, <2>2 DEF Wider
  <2>5. PageLine(source, n) = runor(SourceLine(source, n), bittorun(row))
        /\ PageInk(source, n) = FileInk(source, n) \cup Ones(row, v)
    BY <1>2, <2>1, <2>2 DEF PageLine, PageInk, HeaderInk
  <2> QED BY <2>3, <2>4, <2>5
<1>3. CASE n \notin HDRSTRT..(HDRSTRT + HDRCHRH - 1)
  <2>1. PageLine(source, n) = SourceLine(source, n) /\ PageInk(source, n) = FileInk(source, n)
    BY <1>3 DEF PageLine, PageInk, HeaderInk
  <2> QED BY <1>1, <2>1
<1> QED BY <1>2, <1>3

\* ToWidth() draws what of a line fits the page.
LEMMA ToWidthDraws ==
  ASSUME NEW runs, NEW u, NEW B, Draws(runs, u, B)
  PROVE  Draws(ToWidth(runs), PageWidth, B \cap (1..PageWidth))
<1>1. PICK v \in Nat : v = PageWidth
  BY FaxPageAssumption
<1>2. u \in Nat /\ Width(runs) = u /\ B \subseteq 1..u
  BY DrawnWidth
<1>3. ToWidth(runs) = IF u = v THEN runs ELSE xpad(runs, v - u)
  BY <1>1, <1>2 DEF ToWidth
<1>4. CASE u = v
  <2>1. B \cap (1..v) = B
    BY <1>2, <1>4
  <2> QED BY <1>1, <1>3, <1>4, <2>1
<1>5. CASE u < v
  <2>1. v - u \in Nat /\ u + (v - u) = v /\ u # v
    BY <1>1, <1>2, <1>5
  <2>2. Draws(xpad(runs, v - u), u + (v - u), B)
    BY <2>1, xpadWider
  <2>3. B \cap (1..v) = B
    <3>1. 1..u \subseteq 1..v
      BY <1>2, <1>5
    <3> QED BY <1>2, <3>1
  <2> QED BY <1>1, <1>3, <2>1, <2>2, <2>3
<1>6. CASE v < u
  <2>1. Draws(xpad(runs, v - u), v, B \cap (1..v))
    BY <1>1, <1>6, xpadNarrower
  <2>2. u # v
    BY <1>2, <1>6
  <2> QED BY <1>1, <1>3, <2>1, <2>2
<1>7. u = v \/ u < v \/ v < u
  BY <1>1, <1>2
<1> QED BY <1>4, <1>5, <1>6, <1>7

\* A line of the fax made of source lines m and n.
Pair(source, m, n) ==
  ToWidth(IF m = n THEN PageLine(source, n) ELSE runor(PageLine(source, n), PageLine(source, m)))

\* It has pixels, is as wide as the page and shows the picture of its source lines.
LEMMA PairShows ==
  ASSUME NEW source \in PageSources, NEW m \in Nat, NEW n \in Nat,
         HasSource(source, m), HasSource(source, n)
  PROVE  /\ \E B : Draws(Pair(source, m, n), PageWidth, B)
         /\ Pixels(Pair(source, m, n)) = Picture(source, {m, n})
<1>1. PICK w \in Nat \ {0} : Draws(PageLine(source, n), w, PageInk(source, n))
  BY PageLineDraws
<1>2. PICK v \in Nat \ {0} : Draws(PageLine(source, m), v, PageInk(source, m))
  BY PageLineDraws
<1>3. PICK runs, u, B : /\ runs = IF m = n THEN PageLine(source, n)
                                  ELSE runor(PageLine(source, n), PageLine(source, m))
                       /\ Draws(runs, u, B) /\ B = PageInk(source, n) \cup PageInk(source, m)
  <2>1. Draws(runor(PageLine(source, n), PageLine(source, m)), Wider(w, v),
              PageInk(source, n) \cup PageInk(source, m))
    BY <1>1, <1>2, runorDraws
  <2>2. m = n => PageInk(source, n) \cup PageInk(source, m) = PageInk(source, n)
    OBVIOUS
  <2> QED BY <1>1, <2>1, <2>2
<1>4. Draws(ToWidth(runs), PageWidth, B \cap (1..PageWidth))
  BY <1>3, ToWidthDraws
<1>5. Pair(source, m, n) = ToWidth(runs)
  BY <1>3 DEF Pair
<1>6. Pixels(ToWidth(runs)) = Bitmap(PageWidth, B \cap (1..PageWidth))
  BY <1>4, PixelsDrawn
<1>7. \A x : (\E i \in {m, n} : Ink2(source, i, x)) <=> x \in B
  <2>1. ASSUME NEW x PROVE (\E i \in {m, n} : Ink2(source, i, x)) <=> x \in B
    <3>1. Ink2(source, m, x) <=> x \in PageInk(source, m)
      BY InkIs
    <3>2. Ink2(source, n, x) <=> x \in PageInk(source, n)
      BY InkIs
    <3> QED BY <1>3, <3>1, <3>2
  <2> QED BY <2>1
<1>8. Picture(source, {m, n}) = Bitmap(PageWidth, B \cap (1..PageWidth))
  BY <1>7 DEF Picture, Bitmap
<1> QED BY <1>4, <1>5, <1>6, <1>8

\* What is sent as a line is made of its source lines.
LEMMA SentIs ==
  ASSUME NEW source, NEW vr, NEW k, NEW m \in Nat, NEW n \in Nat, m <= n,
         Sources(vr, k) = {m, n}
  PROVE  SentLine(source, vr, k) = Pair(source, m, n)
<1>1. Min({m, n}) = m /\ Max({m, n}) = n
  BY DEF Min, Max
<1> QED BY <1>1 DEF SentLine, Pair

-----------------------------------------------------------------------------
(* The codes on the line.                                                   *)

\* N sequences s and then M sequences t.
OneAfterOther(both, N, s, M, t, X) ==
  /\ N \in Nat /\ M \in Nat
  /\ s \in [1..N -> Seq(X)] /\ t \in [1..M -> Seq(X)] /\ both \in [1..(N + M) -> Seq(X)]
  /\ \A n \in 1..N : both[n] = s[n]
  /\ \A m \in 1..M : both[N + m] = t[m]

\* They are joined one after the other.
LEMMA FlattenedBoth ==
  ASSUME NEW X, NEW both, NEW N, NEW s, NEW M, NEW t, OneAfterOther(both, N, s, M, t, X)
  PROVE  FlattenSeq(both) = FlattenSeq(s) \o FlattenSeq(t)
<1>0. /\ N \in Nat /\ M \in Nat
      /\ s \in [1..N -> Seq(X)] /\ t \in [1..M -> Seq(X)] /\ both \in [1..(N + M) -> Seq(X)]
      /\ \A n \in 1..N : both[n] = s[n]
      /\ \A m \in 1..M : both[N + m] = t[m]
  BY DEF OneAfterOther
<1>1. PICK F : Joins(F, N, s, X)
  BY <1>0, Flattened
<1>2. PICK G : Joins(G, M, t, X)
  BY <1>0, Flattened
<1>3. PICK T \in Nat : T = N + M
  BY <1>0
<1>4. PICK H : Joins(H, T, both, X)
  BY <1>0, <1>3, Flattened
<1>5. /\ F \in [0..N -> Seq(X)] /\ F[0] = <<>> /\ F[N] = FlattenSeq(s)
      /\ \A n \in 1..N : F[n] = F[n - 1] \o s[n]
  BY <1>1 DEF Joins
<1>6. /\ G \in [0..M -> Seq(X)] /\ G[0] = <<>> /\ G[M] = FlattenSeq(t)
      /\ \A n \in 1..M : G[n] = G[n - 1] \o t[n]
  BY <1>2 DEF Joins
<1>7. /\ H \in [0..T -> Seq(X)] /\ H[0] = <<>> /\ H[T] = FlattenSeq(both)
      /\ \A n \in 1..T : H[n] = H[n - 1] \o both[n]
  BY <1>4 DEF Joins
<1> DEFINE A == {n \in 0..N : H[n] = F[n]}
           B == {m \in 0..M : H[N + m] = F[N] \o G[m]}
<1>8. 0 \in A
  <2>1. 0 \in 0..N /\ H[0] = F[0]
    BY <1>0, <1>5, <1>7
  <2> QED BY <2>1
<1>9. ASSUME NEW n \in 1..N, n - 1 \in A PROVE n \in A
  <2>1. n \in 1..T /\ n \in 0..N /\ both[n] = s[n] /\ H[n - 1] = F[n - 1]
    BY <1>0, <1>3, <1>9
  <2> QED BY <1>5, <1>7, <2>1
<1>10. 0..N \subseteq A
  <2> HIDE DEF A
  <2> QED BY <1>0, <1>8, <1>9, InductionTo
<1>11. PICK f \in Seq(X) : f = F[N] /\ H[N] = f
  <2>1. N \in 0..N
    BY <1>0
  <2> QED BY <1>5, <1>10, <2>1
<1>12. 0 \in B
  <2>1. f \o <<>> = f
    BY <1>0
  <2>2. N + 0 = N /\ 0 \in 0..M
    BY <1>0
  <2> QED BY <1>6, <1>11, <2>1, <2>2
<1>13. ASSUME NEW m \in 1..M, m - 1 \in B PROVE m \in B
  <2>1. N + m \in 1..T /\ (N + m) - 1 = N + (m - 1) /\ m \in 0..M /\ m - 1 \in 0..M
    BY <1>0, <1>3
  <2>2. PICK g, u \in Seq(X) : g = G[m - 1] /\ u = t[m]
    BY <1>0, <1>6, <2>1
  <2>3. H[N + m] = H[N + (m - 1)] \o u
    <3>1. H[N + m] = H[(N + m) - 1] \o both[N + m]
      BY <1>7, <2>1
    <3>2. both[N + m] = u
      BY <1>0, <2>2
    <3> QED BY <2>1, <3>1, <3>2
  <2>4. H[N + (m - 1)] = f \o g
    BY <1>11, <1>13, <2>2
  <2>5. G[m] = g \o u
    BY <1>6, <2>2
  <2>6. (f \o g) \o u = f \o (g \o u)
    BY ONLY f \in Seq(X), g \in Seq(X), u \in Seq(X), ConcatAssociative
  <2> QED BY <1>11, <2>1, <2>3, <2>4, <2>5, <2>6
<1>14. 0..M \subseteq B
  <2> HIDE DEF B
  <2> QED BY <1>0, <1>12, <1>13, InductionTo
<1>15. H[N + M] = F[N] \o G[M]
  <2>1. M \in 0..M
    BY <1>0
  <2> QED BY <1>14, <2>1
<1> QED BY <1>3, <1>5, <1>6, <1>7, <1>15

\* The codes of one run.
CodesOfRun(run) ==
  LET len == IF run > MAXRUNLEN THEN MAXRUNLEN ELSE run
  IN IF len >= MakeUp THEN <<(len \div MakeUp) * MakeUp + 1, (len % MakeUp) + 1>> ELSE <<len + 1>>

LEMMA CodesOfRunType ==
  ASSUME NEW run \in Nat
  PROVE  CodesOfRun(run) \in Seq(Nat)
<1>1. PICK len \in Nat, m \in Nat \ {0} :
        len = (IF run > MAXRUNLEN THEN MAXRUNLEN ELSE run) /\ m = MakeUp
  BY RunLengthsAssumption
<1>2. len \div m \in Nat /\ len % m \in Nat
  OBVIOUS
<1>3. PICK p \in Nat, q \in Nat : p = (len \div m) * m + 1 /\ q = (len % m) + 1
  <2>1. PICK x \in Nat, y \in Nat : x = len \div m /\ y = len % m
    BY <1>2
  <2>2. x * m \in Nat
    OBVIOUS
  <2> QED BY <2>1, <2>2
<1>4. <<p, q>> \in Seq(Nat) /\ <<len + 1>> \in Seq(Nat)
  OBVIOUS
<1> QED BY <1>1, <1>3, <1>4 DEF CodesOfRun

LEMMA CodesAre ==
  ASSUME NEW runs \in Seq(Nat)
  PROVE  runtocode(runs) = FlattenSeq([n \in 1..Len(runs) |-> CodesOfRun(runs[n])])
<1>1. DOMAIN runs = 1..Len(runs)
  OBVIOUS
<1> QED BY <1>1 DEF runtocode, CodesOfRun

\* The codes of two lines, one after the other, are the codes of one line.
LEMMA CodesJoin ==
  ASSUME NEW r \in Seq(Nat), NEW s \in Seq(Nat)
  PROVE  runtocode(r) \o runtocode(s) = runtocode(r \o s) /\ runtocode(r) \in Seq(Nat)
<1>1. PICK N \in Nat, M \in Nat : N = Len(r) /\ M = Len(s)
  OBVIOUS
<1>2. PICK rs \in Seq(Nat) : rs = r \o s
  <2>1. PICK Z : Z = Nat /\ r \in Seq(Z) /\ s \in Seq(Z)
    OBVIOUS
  <2>2. r \o s \in Seq(Z)
    BY <2>1, ConcatProperties
  <2> QED BY <2>1, <2>2
<1>3. /\ Len(rs) = N + M /\ \A n \in 1..N : rs[n] = r[n]
      /\ \A m \in 1..M : rs[N + m] = s[m]
  BY <1>1, <1>2
<1>4. /\ \A n \in 1..N : r[n] \in Nat
      /\ \A m \in 1..M : s[m] \in Nat
      /\ \A n \in 1..(N + M) : rs[n] \in Nat
  BY <1>1, <1>2, <1>3, ElementOfSeq
<1> DEFINE a == [n \in 1..N |-> CodesOfRun(r[n])]
           b == [m \in 1..M |-> CodesOfRun(s[m])]
           both == [n \in 1..(N + M) |-> CodesOfRun(rs[n])]
<1>5. a \in [1..N -> Seq(Nat)] /\ b \in [1..M -> Seq(Nat)] /\ both \in [1..(N + M) -> Seq(Nat)]
  BY <1>4, CodesOfRunType
<1>6. (\A n \in 1..N : both[n] = a[n]) /\ \A m \in 1..M : both[N + m] = b[m]
  BY <1>3
<1>7. runtocode(r) = FlattenSeq(a) /\ runtocode(s) = FlattenSeq(b) /\ runtocode(rs) = FlattenSeq(both)
  BY <1>1, <1>3, CodesAre
<1> HIDE DEF a, b, both
<1>8. FlattenSeq(both) = FlattenSeq(a) \o FlattenSeq(b)
  <2>1. OneAfterOther(both, N, a, M, b, Nat)
    BY <1>5, <1>6 DEF OneAfterOther
  <2> QED BY <2>1, FlattenedBoth
<1>9. FlattenSeq(a) \in Seq(Nat)
  BY <1>5, FlattenedType
<1> QED BY <1>2, <1>7, <1>8, <1>9

\* Two lines one after the other are as wide as both.
LEMMA WidthsAdd ==
  ASSUME NEW r \in Seq(Nat), NEW s \in Seq(Nat)
  PROVE  /\ Width(r) \in Nat /\ Width(s) \in Nat /\ Width(r \o s) = Width(r) + Width(s)
<1>1. PICK N \in Nat, M \in Nat : N = Len(r) /\ M = Len(s)
  OBVIOUS
<1>2. PICK rs \in Seq(Nat) : rs = r \o s
  <2>1. PICK Z : Z = Nat /\ r \in Seq(Z) /\ s \in Seq(Z)
    OBVIOUS
  <2>2. r \o s \in Seq(Z)
    BY <2>1, ConcatProperties
  <2> QED BY <2>1, <2>2
<1>3. /\ Len(rs) = N + M /\ \A n \in 1..N : rs[n] = r[n]
      /\ \A m \in 1..M : rs[N + m] = s[m]
  BY <1>1, <1>2
<1>4. PICK e : EndsOf(e, r) /\ Width(r) = e[N]
  BY <1>1, WidthIsEnd
<1>5. PICK f : EndsOf(f, s) /\ Width(s) = f[M]
  BY <1>1, WidthIsEnd
<1>6. e \in [0..N -> Nat] /\ e[0] = 0 /\ \A n \in 1..N : e[n] = e[n - 1] + r[n]
  BY <1>1, <1>4 DEF EndsOf
<1>7. f \in [0..M -> Nat] /\ f[0] = 0 /\ \A n \in 1..M : f[n] = f[n - 1] + s[n]
  BY <1>1, <1>5 DEF EndsOf
<1>8. PICK w \in Nat : w = e[N] /\ N \in 0..N /\ M \in 0..M
  BY <1>6
<1>9. PICK T \in Nat : T = N + M
  OBVIOUS
<1> DEFINE g == [n \in 0..T |-> IF n <= N THEN e[n] ELSE w + f[n - N]]
<1>10. g \in [0..T -> Nat]
  <2>1. ASSUME NEW n \in 0..T PROVE g[n] \in Nat
    <3>1. CASE n <= N
      BY <1>6, <3>1
    <3>2. CASE ~(n <= N)
      <4>1. n - N \in 0..M
        BY <1>9, <3>2
      <4> QED BY <1>7, <3>2, <4>1
    <3> QED BY <3>1, <3>2
  <2> QED BY <2>1
<1>11. ASSUME NEW n \in 1..T PROVE g[n] = g[n - 1] + rs[n]
  <2>0. n \in 0..T /\ n - 1 \in 0..T
    OBVIOUS
  <2>1. CASE n <= N
    BY <1>3, <1>6, <2>0, <2>1
  <2>2. CASE n = N + 1
    <3>1. 1 \in 1..M /\ n - N = 1 /\ ~(n <= N) /\ n - 1 = N /\ n - 1 <= N
      BY <1>9, <2>2
    <3>2. f[1] = f[1 - 1] + s[1]
      BY <1>7, <3>1
    <3>3. f[1] = s[1] /\ rs[N + 1] = s[1]
      <4>1. s[1] \in Nat
        BY <1>1, <3>1, ElementOfSeq
      <4> QED BY <1>3, <1>7, <3>1, <3>2, <4>1
    <3> QED BY <1>8, <2>0, <2>2, <3>1, <3>3
  <2>3. CASE n > N + 1
    <3>1. n - N \in 1..M /\ ~(n <= N) /\ ~(n - 1 <= N) /\ (n - 1) - N = (n - N) - 1
          /\ n = N + (n - N) /\ (n - N) - 1 \in 0..M
      BY <1>9, <2>3
    <3>2. PICK m \in 1..M : m = n - N
      BY <3>1
    <3>3. f[m] = f[m - 1] + s[m] /\ rs[N + m] = s[m]
      BY <1>3, <1>7
    <3>4. f[m - 1] \in Nat /\ s[m] \in Nat
      BY <1>1, <1>7, <3>1, <3>2, ElementOfSeq
    <3>5. g[n] = w + f[m] /\ g[n - 1] = w + f[m - 1] /\ rs[n] = s[m]
      BY <2>0, <3>1, <3>2, <3>3
    <3> QED BY <3>3, <3>4, <3>5
  <2> QED BY <2>1, <2>2, <2>3
<1>12. g[0] = 0
  BY <1>6
<1>13. EndsOf(g, rs)
  <2>1. Len(rs) = T
    BY <1>3, <1>9
  <2> HIDE DEF g
  <2> QED BY <1>10, <1>11, <1>12, <2>1 DEF EndsOf
<1>14. Width(rs) = g[T]
  <2> HIDE DEF g
  <2> QED BY <1>3, <1>9, <1>13, EndsWidth
<1>15. g[T] = w + f[M]
  <2>1. CASE M = 0
    BY <1>7, <1>8, <1>9, <2>1
  <2>2. CASE M # 0
    <3>1. ~(T <= N) /\ T - N = M /\ T \in 0..T
      BY <1>9, <2>2
    <3> QED BY <3>1
  <2> QED BY <2>1, <2>2
<1>16. f[M] \in Nat
  BY <1>7, <1>8
<1> QED BY <1>2, <1>4, <1>5, <1>8, <1>14, <1>15, <1>16

\* A line of no codes has no pixels.
LEMMA NoCodes == Width(coderuns(<<>>)) = 0
<1>1. PICK r \in Seq(Nat) : r = <<>> /\ Len(r) = 0 /\ DOMAIN r = {}
  <2>1. <<>> \in Seq(Nat) /\ Len(<<>>) = 0 /\ DOMAIN <<>> = {}
    OBVIOUS
  <2> QED BY <2>1
<1>2. runtocode(r) = <<>>
  <2>1. [n \in 1..Len(r) |-> CodesOfRun(r[n])] = <<>>
    BY <1>1
  <2> QED BY <1>1, <2>1, CodesAre DEF FlattenSeq
<1>3. coderuns(<<>>) = r
  BY <1>1, <1>2, CodesDecode
<1>4. PICK e : EndsOf(e, r) /\ Width(r) = e[Len(r)]
  BY WidthIsEnd
<1>5. e[0] = 0
  BY <1>4 DEF EndsOf
<1> QED BY <1>1, <1>3, <1>4, <1>5

\* Every line of the fax is made of source lines that the page has.
LEMMA SourcesAre ==
  ASSUME NEW source \in PageSources, NEW vr \in Resolutions2, NEW k \in Expected(source, vr)
  PROVE  \E m, n \in Nat : /\ m <= n /\ Sources(vr, k) = {m, n}
                           /\ HasSource(source, m) /\ HasSource(source, n)
<1>1. PICK h \in Nat : h = (HDRSTRT + HDRCHRH) \div 2
  BY HeaderPairs DEF HeaderEnd
<1>2. k \in Nat \ {0} /\ \A n \in Sources(vr, k) : HasSource(source, n)
  BY DEF Expected
<1>3. \E m, n \in Nat : m <= n /\ Sources(vr, k) = {m, n}
  <2>1. CASE Sources(vr, k) = {2 * k - 2, 2 * k - 1}
    <3>1. 2 * k - 2 \in Nat /\ 2 * k - 1 \in Nat /\ 2 * k - 2 <= 2 * k - 1
      BY <1>2
    <3> QED BY <2>1, <3>1
  <2>2. CASE Sources(vr, k) = {k + h - 1}
    <3>1. k + h - 1 \in Nat /\ k + h - 1 <= k + h - 1 /\ {k + h - 1} = {k + h - 1, k + h - 1}
      BY <1>1, <1>2
    <3> QED BY <2>2, <3>1
  <2>3. CASE Sources(vr, k) = {k - 1}
    <3>1. k - 1 \in Nat /\ k - 1 <= k - 1 /\ {k - 1} = {k - 1, k - 1}
      BY <1>2
    <3> QED BY <2>3, <3>1
  <2>4. \/ Sources(vr, k) = {2 * k - 2, 2 * k - 1} \/ Sources(vr, k) = {k + h - 1}
        \/ Sources(vr, k) = {k - 1}
    <3>1. k <= h \/ k > h
      BY <1>1, <1>2
    <3> QED BY <1>1, <3>1 DEF Sources
  <2> QED BY <2>1, <2>2, <2>3, <2>4
<1>4. PICK m, n \in Nat : m <= n /\ Sources(vr, k) = {m, n}
  BY <1>3
<1>5. HasSource(source, m) /\ HasSource(source, n)
  BY <1>2, <1>4
<1> QED BY <1>4, <1>5

\* A line of the fax is as wide as the page and shows the picture of its source lines.
LEMMA SentShows ==
  ASSUME NEW source \in PageSources, NEW vr \in Resolutions2, NEW k \in Expected(source, vr)
  PROVE  /\ \E B : Draws(SentLine(source, vr, k), PageWidth, B)
         /\ Pixels(SentLine(source, vr, k)) = Picture(source, Sources(vr, k))
<1>1. PICK m, n \in Nat : /\ m <= n /\ Sources(vr, k) = {m, n}
                          /\ HasSource(source, m) /\ HasSource(source, n)
  BY SourcesAre
<1>2. SentLine(source, vr, k) = Pair(source, m, n)
  BY <1>1, SentIs
<1>3. /\ \E B : Draws(Pair(source, m, n), PageWidth, B)
      /\ Pixels(Pair(source, m, n)) = Picture(source, {m, n})
  BY <1>1, PairShows
<1> QED BY <1>1, <1>2, <1>3

CodeOf(source, vr, k) == runtocode(encrypt(SentLine(source, vr, k)))

\* The codes of a line of the page, or of several read as one: with pixels, if none
\* vanishes.
CodesLine(c, source, vr) ==
  \E r \in Seq(Nat) : /\ c = runtocode(r) /\ \A n \in DOMAIN r : r[n] <= MAXRUNLEN
                      /\ NoneVanishes(source, vr) => Width(r) > 0

\* The codes of a line are those of a line, and give it back.
LEMMA CodeIs ==
  ASSUME NEW source \in PageSources, NEW vr \in Resolutions2, NEW k \in Expected(source, vr)
  PROVE  /\ CodesLine(CodeOf(source, vr, k), source, vr)
         /\ encrypt(coderuns(CodeOf(source, vr, k))) = SentLine(source, vr, k)
         /\ CodeOf(source, vr, k) \in Seq(Nat)
<1>1. PICK r, B : r = SentLine(source, vr, k) /\ Draws(r, PageWidth, B)
  BY SentShows
<1>2. PICK p \in Nat : p = PageWidth
  BY FaxPageAssumption
<1>3. r \in Seq(Nat) /\ \A n \in DOMAIN r : r[n] <= p
  BY <1>1, <1>2, DrawnWidth
<1>4. PICK c \in Seq(Nat) : c = encrypt(r) /\ encrypt(c) = r
  BY <1>3, encryptTwice
<1>5. ASSUME NEW n \in DOMAIN c PROVE c[n] <= MAXRUNLEN
  <2>1. n \in DOMAIN r /\ c[n] = xor[ByteBits][r[n]][Word(n)]
    BY <1>4 DEF encrypt
  <2>2. PICK a \in Nat : a = r[n] /\ a <= p
    BY <1>3, <2>1, ElementOfSeq
  <2>3. PICK i \in DOMAIN Keystream : Word(n) = Keystream[i]
    <3>1. PICK K \in Nat \ {0} : K = Len(Keystream) /\ DOMAIN Keystream = 1..K
      BY FaxPageAssumption
    <3>2. PICK j \in Nat \ {0} : j = n
      BY <1>3, <2>1
    <3>3. ((j - 1) % K) + 1 \in 1..K
      BY ONLY K \in Nat \ {0}, j \in Nat \ {0}
    <3> QED BY <3>1, <3>2, <3>3 DEF Word
  <2>4. a \in 0..PageWidth
    BY <1>2, <2>2
  <2>5. xor[ByteBits][a][Keystream[i]] <= MAXRUNLEN
    BY <2>4, FaxPageAssumption
  <2> QED BY <2>1, <2>2, <2>3, <2>5
<1>6. NoneVanishes(source, vr) => Width(c) > 0
  BY <1>1, <1>4 DEF NoneVanishes
<1>7. CodeOf(source, vr, k) = runtocode(c)
  BY <1>1, <1>4 DEF CodeOf
<1>8. coderuns(runtocode(c)) = c
  BY <1>5, CodesDecode
<1>9. runtocode(c) \in Seq(Nat)
  BY CodesJoin
<1> QED BY <1>1, <1>4, <1>5, <1>6, <1>7, <1>8, <1>9 DEF CodesLine

\* What is read of the codes of a line.
LEMMA LineRead ==
  ASSUME NEW c, NEW source, NEW vr, CodesLine(c, source, vr)
  PROVE  /\ c \in Seq(Nat) /\ coderuns(c) \in Seq(Nat) /\ Width(coderuns(c)) \in Nat
         /\ NoneVanishes(source, vr) => Width(coderuns(c)) > 0
<1>1. PICK r \in Seq(Nat) : /\ c = runtocode(r) /\ \A n \in DOMAIN r : r[n] <= MAXRUNLEN
                            /\ NoneVanishes(source, vr) => Width(r) > 0
  BY DEF CodesLine
<1>2. coderuns(c) = r
  BY <1>1, CodesDecode
<1>3. c \in Seq(Nat)
  BY <1>1, CodesJoin
<1>4. Width(r) \in Nat
  BY WidthsAdd
<1> QED BY <1>1, <1>2, <1>3, <1>4

\* Two lines read as one are a line.
LEMMA LinesMerge ==
  ASSUME NEW c, NEW d, NEW source, NEW vr, CodesLine(c, source, vr), CodesLine(d, source, vr)
  PROVE  CodesLine(c \o d, source, vr)
<1>1. PICK r \in Seq(Nat) : /\ c = runtocode(r) /\ \A n \in DOMAIN r : r[n] <= MAXRUNLEN
                            /\ NoneVanishes(source, vr) => Width(r) > 0
  BY DEF CodesLine
<1>2. PICK s \in Seq(Nat) : /\ d = runtocode(s) /\ \A n \in DOMAIN s : s[n] <= MAXRUNLEN
                            /\ NoneVanishes(source, vr) => Width(s) > 0
  BY DEF CodesLine
<1>3. c \o d = runtocode(r \o s)
  BY <1>1, <1>2, CodesJoin
<1>4. PICK N \in Nat, M \in Nat : N = Len(r) /\ M = Len(s) /\ DOMAIN r = 1..N /\ DOMAIN s = 1..M
  OBVIOUS
<1>5. PICK rs \in Seq(Nat) : /\ rs = r \o s /\ Len(rs) = N + M
                             /\ \A i \in 1..(N + M) : rs[i] = IF i <= N THEN r[i] ELSE s[i - N]
  <2>1. PICK Z : Z = Nat /\ r \in Seq(Z) /\ s \in Seq(Z)
    OBVIOUS
  <2>2. /\ r \o s \in Seq(Z) /\ Len(r \o s) = Len(r) + Len(s)
        /\ \A i \in 1..(Len(r) + Len(s)) :
             (r \o s)[i] = IF i <= Len(r) THEN r[i] ELSE s[i - Len(r)]
    BY <2>1, ConcatProperties
  <2> QED BY <1>4, <2>1, <2>2
<1>6. ASSUME NEW i \in DOMAIN rs PROVE rs[i] <= MAXRUNLEN
  <2>1. i \in 1..(N + M)
    BY <1>5
  <2>2. CASE i <= N
    <3>1. i \in DOMAIN r /\ rs[i] = r[i]
      BY <1>4, <1>5, <2>1, <2>2
    <3> QED BY <1>1, <3>1
  <2>3. CASE ~(i <= N)
    <3>1. i - N \in DOMAIN s /\ rs[i] = s[i - N]
      BY <1>4, <1>5, <2>1, <2>3
    <3> QED BY <1>2, <3>1
  <2> QED BY <2>2, <2>3
<1>7. Width(r) \in Nat /\ Width(s) \in Nat /\ Width(rs) = Width(r) + Width(s)
  BY <1>5, WidthsAdd
<1>8. NoneVanishes(source, vr) => Width(rs) > 0
  BY <1>1, <1>2, <1>7
<1> QED BY <1>3, <1>5, <1>6, <1>8 DEF CodesLine

-----------------------------------------------------------------------------
(* The page on the line.                                                    *)

LinesOf(source, vr) == LineCount(vr, HDRSPCE + Len(source))

\* What the sender has put on the line after n lines of the fax.
SentTo(w, source, vr, n) ==
  /\ n \in Nat /\ w \in Seq(Seq(Nat)) /\ Len(w) = n + 1 /\ w[1] = <<>>
  /\ \A k \in 1..n : w[k + 1] = CodeOf(source, vr, k)

\* What is left of a sequence after i of its elements; two neighbours made one.
Left(s, i) == SubSeq(s, i + 1, Len(s))
Joined(s, n, x) == SubSeq(s, 1, n - 1) \o <<x>> \o SubSeq(s, n + 2, Len(s))

TxState == [pc : {"line", "sent"}, source : PageSources, vr : Resolutions2, line : Nat,
            skip : Nat, last : Seq(Nat), damage : Nat]
RxState == [pc : {"data", "rtc", "cut"}, line : Nat, eolcnt : Nat, lines : Seq(Seq(Nat))]

\* The sender is in step with the lines of the fax.
Sending ==
  /\ tx.damage = 0 /\ tx.line <= HDRSPCE + Len(tx.source)
  /\ Halved(tx.vr, tx.line) => tx.skip % 2 = tx.line % 2
  /\ Halved(tx.vr, tx.line) /\ tx.line % 2 = 1 => tx.last = PageLine(tx.source, tx.line - 1)
  /\ SentTo(wire, tx.source, tx.vr, LineCount(tx.vr, tx.line))

\* What is left of the page on the line: d lines, and e EOLs of RTC.
Whole(w, d, e, source, vr, damage) ==
  /\ w \in Seq(Seq(Nat)) /\ d \in Nat /\ e \in 0..RTCEOL /\ Len(w) = 1 + d + e
  /\ w[1] = <<>> /\ \A i \in 1..Len(w) : i > 1 + d => w[i] = <<>>
  /\ \A i \in 1..d : CodesLine(w[i + 1], source, vr)
  /\ d <= LinesOf(source, vr)
  /\ e = RTCEOL => d + damage >= LinesOf(source, vr)
  /\ LinesOf(source, vr) > 0 /\ e > 0 => d > 0
  /\ damage = 0 => /\ e = RTCEOL /\ d = LinesOf(source, vr)
                   /\ \A k \in 1..d : w[k + 1] = CodeOf(source, vr, k)

\* Of the first n lines of those, how many are lines of the page, and how many EOLs
\* without pixels the last of them are.
DataRead(n, d) == IF n = 0 THEN 0 ELSE IF n - 1 < d THEN n - 1 ELSE d
EmptyRead(n, d) == IF n <= 1 THEN n ELSE IF n <= d + 1 THEN 0 ELSE IF d = 0 THEN n ELSE n - 1 - d

\* What has been read of it, by r, and what is left.
ReadOf(w, d, left, r, source, vr, damage) ==
  /\ r.line <= Len(w) /\ left = Left(w, r.line)
  /\ Len(r.lines) <= DataRead(r.line, d)
  /\ r.pc = "data" => r.eolcnt < RTCEOL /\ r.eolcnt + 1 + d >= r.line
  /\ r.pc # "data" => r.line > 0
  /\ NoneVanishes(source, vr) =>
       /\ Len(r.lines) = DataRead(r.line, d)
       /\ r.pc = "data" => r.eolcnt = EmptyRead(r.line, d)
       /\ r.pc = "rtc" => Len(r.lines) + damage >= LinesOf(source, vr)
       /\ damage = 0 => \A k \in 1..Len(r.lines) : r.lines[k] = SentLine(source, vr, k)
  /\ r.pc = "cut" => damage > 0

Reading ==
  \E w, d, e : /\ Whole(w, d, e, tx.source, tx.vr, tx.damage)
               /\ ReadOf(w, d, wire, rx, tx.source, tx.vr, tx.damage)

PageInv ==
  \/ tx = [pc |-> "start"] /\ wire = <<>> /\ rx = [pc |-> "wait"]
  \/ tx \in TxState /\ tx.pc = "line" /\ rx = [pc |-> "wait"] /\ Sending
  \/ tx \in TxState /\ tx.pc = "sent" /\ rx \in RxState /\ Reading

\* A line more on the line.
LEMMA SentMore ==
  ASSUME NEW w, NEW source, NEW vr, NEW n, SentTo(w, source, vr, n),
         CodeOf(source, vr, n + 1) \in Seq(Nat)
  PROVE  SentTo(Append(w, CodeOf(source, vr, n + 1)), source, vr, n + 1)
<1>1. PICK Z : Z = Seq(Nat)
  OBVIOUS
<1>2. /\ n \in Nat /\ w \in Seq(Z) /\ Len(w) = n + 1 /\ w[1] = <<>>
      /\ \A k \in 1..n : w[k + 1] = CodeOf(source, vr, k)
  BY <1>1 DEF SentTo
<1>3. PICK c \in Z : c = CodeOf(source, vr, n + 1)
  BY <1>1
<1>4. PICK v \in Seq(Z) : v = Append(w, c)
  BY <1>2, AppendProperties
<1>5. Len(v) = n + 2 /\ (\A i \in 1..(n + 1) : v[i] = w[i]) /\ v[n + 2] = c
  BY <1>2, <1>4, AppendProperties
<1>6. ASSUME NEW k \in 1..(n + 1) PROVE v[k + 1] = CodeOf(source, vr, k)
  <2>1. CASE k = n + 1
    BY <1>2, <1>3, <1>5, <2>1
  <2>2. CASE k # n + 1
    <3>1. k \in 1..n /\ k + 1 \in 1..(n + 1)
      BY <1>2, <2>2
    <3> QED BY <1>2, <1>5, <3>1
  <2> QED BY <2>1, <2>2
<1>7. v[1] = <<>> /\ Len(v) = (n + 1) + 1 /\ n + 1 \in Nat
  BY <1>2, <1>5
<1> QED BY <1>1, <1>3, <1>4, <1>6, <1>7 DEF SentTo

LEMMA PageBeginsInv ==
  ASSUME PageInv, PageBegins
  PROVE  PageInv'
<1>1. rx = [pc |-> "wait"]
  BY DEF PageInv, PageBegins, TxState
<1>2. PICK source \in PageSources, vr \in Resolutions2 :
        tx' = [pc |-> "line", source |-> source, vr |-> vr, line |-> 0, skip |-> 0,
               last |-> <<>>, damage |-> 0]
  BY DEF PageBegins
<1>3. tx' \in TxState
  <2>1. <<>> \in Seq(Nat)
    OBVIOUS
  <2> QED BY <1>2, <2>1 DEF TxState
<1>4. /\ tx'.pc = "line" /\ tx'.source = source /\ tx'.vr = vr /\ tx'.line = 0 /\ tx'.skip = 0
      /\ tx'.damage = 0
  BY <1>2
<1>5. LineCount(vr, 0) = 0
  BY LinesCount
<1>6. SentTo(wire', source, vr, 0)
  <2>1. PICK w : w = <<<<>>>> /\ w \in Seq(Seq(Nat)) /\ Len(w) = 1 /\ w[1] = <<>>
    <3>0. <<>> \in Seq(Nat)
      OBVIOUS
    <3>1. PICK Z : Z = Seq(Nat) /\ <<>> \in Z
      BY <3>0
    <3>2. <<<<>>>> \in Seq(Z) /\ Len(<<<<>>>>) = 1 /\ <<<<>>>>[1] = <<>>
      BY <3>1
    <3> QED BY <3>1, <3>2
  <2>2. wire' = w
    BY <2>1 DEF PageBegins
  <2> QED BY <2>1, <2>2 DEF SentTo
<1>7. 0 <= HDRSPCE + Len(source)
  <2>1. Len(source) \in Nat /\ HDRSPCE \in Nat
    BY FaxPageAssumption
  <2> QED BY <2>1
<1>8. Sending'
  BY <1>4, <1>5, <1>6, <1>7 DEF Sending
<1>9. rx' = [pc |-> "wait"]
  BY <1>1 DEF PageBegins
<1> QED BY <1>3, <1>4, <1>8, <1>9 DEF PageInv

\* The state of the sender while lines are sent.
LEMMA SendingState ==
  ASSUME PageInv, tx.pc = "line"
  PROVE  tx \in TxState /\ rx = [pc |-> "wait"] /\ Sending
BY DEF PageInv

LEMMA Parity ==
  ASSUME NEW a \in Nat, NEW b \in Nat, a % 2 = b % 2
  PROVE  (a + 1) % 2 = (b + 1) % 2 /\ (b % 2 = 1 => (b + 1) % 2 = 0) /\ (b + 1) - 1 = b
OBVIOUS

\* The sender's record after a line.
LEMMA TxSteps ==
  ASSUME tx \in TxState, NEW line \in Nat, NEW skip \in Nat, NEW last \in Seq(Nat),
         tx' = [tx EXCEPT !.line = line, !.skip = skip, !.last = last]
  PROVE  /\ tx' \in TxState /\ tx'.pc = tx.pc /\ tx'.source = tx.source /\ tx'.vr = tx.vr
         /\ tx'.line = line /\ tx'.skip = skip /\ tx'.last = last /\ tx'.damage = tx.damage
<1>1. PICK A, S, R, L : A = {"line", "sent"} /\ S = PageSources /\ R = Resolutions2 /\ L = Seq(Nat)
  OBVIOUS
<1>2. TxState = [pc : A, source : S, vr : R, line : Nat, skip : Nat, last : L, damage : Nat]
  BY <1>1 DEF TxState
<1>3. PICK l \in L : l = last
  BY <1>1
<1>4. tx' = [tx EXCEPT !.line = line, !.skip = skip, !.last = l]
  BY <1>3
<1>5. /\ tx' \in TxState /\ tx'.pc = tx.pc /\ tx'.source = tx.source /\ tx'.vr = tx.vr
      /\ tx'.line = line /\ tx'.skip = skip /\ tx'.last = l /\ tx'.damage = tx.damage
  BY <1>2, <1>4
<1> QED BY <1>3, <1>5

LEMMA SendsLineInv ==
  ASSUME PageInv, SendsLine
  PROVE  PageInv'
<1>1. tx \in TxState /\ tx.pc = "line" /\ rx = [pc |-> "wait"] /\ rx' = rx /\ Sending
  BY SendingState DEF SendsLine
<1>2. PICK source \in PageSources, vr \in Resolutions2, n \in Nat, skip \in Nat, last \in Seq(Nat) :
        /\ source = tx.source /\ vr = tx.vr /\ n = tx.line /\ skip = tx.skip /\ last = tx.last
  BY <1>1 DEF TxState
<1>3. PICK K \in Nat : K = LineCount(vr, n) /\ SentTo(wire, source, vr, K)
  BY <1>1, <1>2, LinesCount DEF Sending
<1>4. /\ tx.damage = 0 /\ HasSource(source, n)
      /\ Halved(vr, n) => skip % 2 = n % 2
      /\ Halved(vr, n) /\ n % 2 = 1 => last = PageLine(source, n - 1)
  BY <1>1, <1>2 DEF Sending, SendsLine
<1>5. PICK runs \in Seq(Nat), w \in Nat \ {0} :
        runs = PageLine(source, n) /\ Draws(runs, w, PageInk(source, n))
  <2>1. PICK w \in Nat \ {0} : Draws(PageLine(source, n), w, PageInk(source, n))
    BY <1>4, PageLineDraws
  <2> QED BY <2>1, DrawnWidth
<1>6. n + 1 <= HDRSPCE + Len(source) /\ Expected(source, vr) = 1..LinesOf(source, vr)
  <2>1. Len(source) \in Nat /\ HDRSPCE \in Nat
    BY FaxPageAssumption
  <2> QED BY <1>4, <2>1, LinesExpected DEF HasSource, LinesOf
<1> DEFINE Next == /\ tx' \in TxState /\ tx'.pc = "line" /\ tx'.source = source /\ tx'.vr = vr
                   /\ tx'.line = n + 1 /\ tx'.damage = 0
<1>7. ASSUME Halved(vr, n), skip % 2 = 0,
             tx' = [tx EXCEPT !.line = @ + 1, !.skip = @ + 1, !.last = runs], wire' = wire
      PROVE  PageInv'
  <2>0. tx' = [tx EXCEPT !.line = n + 1, !.skip = skip + 1, !.last = runs]
    BY <1>2, <1>7
  <2>1. Next /\ tx'.skip = skip + 1 /\ tx'.last = runs
    <3>1. PICK line \in Nat, skipped \in Nat : line = n + 1 /\ skipped = skip + 1
      OBVIOUS
    <3>2. tx \in TxState /\ tx' = [tx EXCEPT !.line = line, !.skip = skipped, !.last = runs]
      BY <1>1, <2>0, <3>1
    <3>3. /\ tx' \in TxState /\ tx'.pc = tx.pc /\ tx'.source = tx.source /\ tx'.vr = tx.vr
          /\ tx'.line = line /\ tx'.skip = skipped /\ tx'.last = runs /\ tx'.damage = tx.damage
      BY ONLY <3>2, runs \in Seq(Nat), TxSteps, Zenon
    <3> QED BY <1>1, <1>2, <1>4, <3>1, <3>3
  <2>2. n % 2 = 0 /\ LineCount(vr, n + 1) = K
    BY <1>3, <1>4, <1>7, LinesCount
  <2>3. (skip + 1) % 2 = (n + 1) % 2 /\ (n + 1) - 1 = n
    BY <1>7, <2>2, Parity
  <2>4. SentTo(wire', source, vr, K)
    BY <1>3, <1>7
  <2>5. Sending'
    BY <1>5, <1>6, <2>1, <2>2, <2>3, <2>4 DEF Sending
  <2> QED BY <1>1, <2>1, <2>5 DEF PageInv
\* The line that is sent is the next of the fax.
<1>8. ASSUME NEW sent, NEW u \in Nat \ {0}, NEW B, Draws(sent, u, B), Sends(sent),
             ToWidth(sent) = SentLine(source, vr, K + 1), LineCount(vr, n + 1) = K + 1,
             K + 1 \in Expected(source, vr)
      PROVE  SentTo(wire', source, vr, K + 1)
  <2>1. Width(sent) # 0
    BY <1>8, DrawnWidth
  <2>2. wire' = Append(wire, CodeOf(source, vr, K + 1))
    BY <1>8, <2>1 DEF Sends, CodeOf
  <2>3. CodeOf(source, vr, K + 1) \in Seq(Nat)
    BY <1>8, CodeIs
  <2> QED BY <1>3, <2>2, <2>3, SentMore
\* It is one of them, since its source lines are there.
<1>9. ASSUME NEW m \in Nat, m <= n, Sources(vr, K + 1) = {m, n}
      PROVE  /\ K + 1 \in Expected(source, vr)
             /\ SentLine(source, vr, K + 1) = Pair(source, m, n)
  <2>1. HasSource(source, m)
    <3>1. Len(source) \in Nat /\ HDRSPCE \in Nat
      BY FaxPageAssumption
    <3> QED BY <1>4, <1>9, <3>1 DEF HasSource
  <2>2. K <= n
    <3>1. PICK h \in Nat : HeaderEnd \div 2 = h
      BY HeaderPairs
    <3>2. n \div 2 <= n /\ n - h <= n
      OBVIOUS
    <3> QED BY <1>3, <3>1, <3>2 DEF LineCount
  <2>3. K + 1 \in 1..(HDRSPCE + Len(source))
    BY <1>6, <2>2, FaxPageAssumption
  <2> QED BY <1>4, <1>9, <2>1, <2>3, SentIs DEF Expected
<1>10. ASSUME Halved(vr, n), skip % 2 = 1,
              tx' = [tx EXCEPT !.line = @ + 1, !.skip = @ + 1], Sends(runor(runs, last))
       PROVE  PageInv'
  <2>0. tx' = [tx EXCEPT !.line = n + 1, !.skip = skip + 1, !.last = last]
    <3>1. tx.last = last /\ tx.line = n /\ tx.skip = skip
      BY <1>2
    <3> QED BY <1>1, <1>10, <3>1 DEF TxState
  <2>1. Next /\ tx'.skip = skip + 1 /\ tx'.last = last
    <3>1. PICK line \in Nat, skipped \in Nat : line = n + 1 /\ skipped = skip + 1
      OBVIOUS
    <3>2. tx \in TxState /\ tx' = [tx EXCEPT !.line = line, !.skip = skipped, !.last = last]
      BY <1>1, <2>0, <3>1
    <3>3. /\ tx' \in TxState /\ tx'.pc = tx.pc /\ tx'.source = tx.source /\ tx'.vr = tx.vr
          /\ tx'.line = line /\ tx'.skip = skipped /\ tx'.last = last /\ tx'.damage = tx.damage
      BY ONLY <3>2, last \in Seq(Nat), TxSteps, Zenon
    <3> QED BY <1>1, <1>2, <1>4, <3>1, <3>3
  <2>2. n % 2 = 1 /\ LineCount(vr, n + 1) = K + 1 /\ Sources(vr, K + 1) = {n - 1, n}
    BY <1>3, <1>4, <1>10, LinesCount
  <2>3. n - 1 \in Nat /\ n - 1 <= n /\ n - 1 # n
    BY <2>2
  <2>4. K + 1 \in Expected(source, vr) /\ SentLine(source, vr, K + 1) = Pair(source, n - 1, n)
    BY <1>9, <2>2, <2>3
  <2>5. last = PageLine(source, n - 1)
    BY <1>4, <1>10, <2>2
  <2>6. ToWidth(runor(runs, last)) = SentLine(source, vr, K + 1)
    BY <1>5, <2>3, <2>4, <2>5 DEF Pair
  <2>7. HasSource(source, n - 1)
    <3>1. Len(source) \in Nat /\ HDRSPCE \in Nat
      BY FaxPageAssumption
    <3> QED BY <1>4, <2>3, <3>1 DEF HasSource
  <2>8. PICK v \in Nat \ {0} : Draws(last, v, PageInk(source, n - 1))
    BY <2>3, <2>5, <2>7, PageLineDraws
  <2>9. Draws(runor(runs, last), Wider(w, v), PageInk(source, n) \cup PageInk(source, n - 1))
    BY <1>5, <2>8, runorDraws
  <2>10. Wider(w, v) \in Nat \ {0}
    BY <1>5, <2>8 DEF Wider
  <2>11. SentTo(wire', source, vr, K + 1)
    BY <1>8, <1>10, <2>2, <2>4, <2>6, <2>9, <2>10
  <2>12. (skip + 1) % 2 = (n + 1) % 2 /\ ~((n + 1) % 2 = 1)
    BY <1>10, <2>2, Parity
  <2>13. Sending'
    BY <1>6, <2>1, <2>2, <2>11, <2>12 DEF Sending
  <2> QED BY <1>1, <2>1, <2>13 DEF PageInv
<1>11. ASSUME ~Halved(vr, n), tx' = [tx EXCEPT !.line = @ + 1], Sends(runs)
       PROVE  PageInv'
  <2>0. tx' = [tx EXCEPT !.line = n + 1, !.skip = skip, !.last = last]
    <3>1. tx.last = last /\ tx.line = n /\ tx.skip = skip
      BY <1>2
    <3> QED BY <1>1, <1>11, <3>1 DEF TxState
  <2>1. Next /\ tx'.skip = skip /\ tx'.last = last
    <3>1. PICK line \in Nat, skipped \in Nat : line = n + 1 /\ skipped = skip
      OBVIOUS
    <3>2. tx \in TxState /\ tx' = [tx EXCEPT !.line = line, !.skip = skipped, !.last = last]
      BY <1>1, <2>0, <3>1
    <3>3. /\ tx' \in TxState /\ tx'.pc = tx.pc /\ tx'.source = tx.source /\ tx'.vr = tx.vr
          /\ tx'.line = line /\ tx'.skip = skipped /\ tx'.last = last /\ tx'.damage = tx.damage
      BY ONLY <3>2, last \in Seq(Nat), TxSteps, Zenon
    <3> QED BY <1>1, <1>2, <1>4, <3>1, <3>3
  <2>2. LineCount(vr, n + 1) = K + 1 /\ Sources(vr, K + 1) = {n, n}
    BY <1>3, <1>11, LinesCount
  <2>3. K + 1 \in Expected(source, vr) /\ SentLine(source, vr, K + 1) = Pair(source, n, n)
    BY <1>9, <2>2
  <2>4. ToWidth(runs) = SentLine(source, vr, K + 1)
    BY <1>5, <2>3 DEF Pair
  <2>5. SentTo(wire', source, vr, K + 1)
    BY <1>5, <1>8, <1>11, <2>2, <2>3, <2>4
  <2>6. ~Halved(vr, n + 1)
    <3>1. PICK h \in Nat : HDRSTRT + HDRCHRH = h
      BY HeaderPairs
    <3>2. n + 1 < h => n < h
      OBVIOUS
    <3> QED BY <1>11, <3>1, <3>2 DEF Halved
  <2>7. Sending'
    BY <1>6, <2>1, <2>2, <2>5, <2>6 DEF Sending
  <2> QED BY <1>1, <2>1, <2>7 DEF PageInv
<1> HIDE DEF Next
<1> QED BY <1>2, <1>5, <1>7, <1>10, <1>11 DEF SendsLine

\* It is a sequence, and shorter by its head with one more.
LEMMA LeftIs ==
  ASSUME NEW Z, NEW s \in Seq(Z), NEW i \in Nat, i <= Len(s)
  PROVE  /\ Left(s, i) \in Seq(Z)
         /\ i = 0 => Left(s, i) = s
         /\ (Left(s, i) = <<>>) <=> (i = Len(s))
         /\ i < Len(s) => /\ s[i + 1] \in Z /\ Head(Left(s, i)) = s[i + 1]
                          /\ Tail(Left(s, i)) = Left(s, i + 1)
<1>1. PICK N \in Nat, m \in Nat : N = Len(s) /\ m = i + 1 /\ \A k \in 1..N : s[k] \in Z
  BY ElementOfSeq
<1>2. \A k \in m..N : s[k] \in Z
  BY <1>1
<1>3. PICK t \in Seq(Z) : t = SubSeq(s, m, N) /\ Len(t) = IF m <= N THEN N - m + 1 ELSE 0
  <2>1. /\ SubSeq(s, m, N) \in Seq(Z)
        /\ Len(SubSeq(s, m, N)) = IF m <= N THEN N - m + 1 ELSE 0
    <3>1. m \in Int /\ N \in Int
      OBVIOUS
    <3> QED BY <1>2, <3>1, SubSeqProperties
  <2> QED BY <2>1
<1>4. t = <<>> <=> i = N
  <2>1. t = <<>> <=> Len(t) = 0
    OBVIOUS
  <2> QED BY <1>1, <1>3, <2>1
<1>5. i = 0 => t = s
  <2>1. SubSeq(s, 1, Len(s)) = s
    BY SubSeqFull
  <2> QED BY <1>1, <1>3, <2>1
<1>6. Left(s, i) = t
  BY <1>1, <1>3 DEF Left
<1>7. Left(s, i + 1) = SubSeq(s, m + 1, N)
  BY <1>1 DEF Left
<1>8. ASSUME i < Len(s)
      PROVE  s[i + 1] \in Z /\ Head(t) = s[i + 1] /\ Tail(t) = Left(s, i + 1)
  <2>1. m \in 1..Len(s) /\ N \in m..Len(s)
    BY <1>1, <1>8
  <2>2. Head(SubSeq(s, m, N)) = s[m] /\ Tail(SubSeq(s, m, N)) = SubSeq(s, m + 1, N)
    BY <2>1, HeadTailOfSubSeq
  <2>3. s[m] \in Z /\ s[i + 1] = s[m]
    BY <1>1, <2>1
  <2> QED BY <1>3, <1>7, <2>2, <2>3
<1>9. t = <<>> <=> i = Len(s)
  BY <1>1, <1>4
<1>10. Left(s, i) \in Seq(Z) /\ (i = 0 => Left(s, i) = s) /\ (Left(s, i) = <<>> <=> i = Len(s))
  BY <1>3, <1>5, <1>6, <1>9
<1>11. i < Len(s) => /\ s[i + 1] \in Z /\ Head(Left(s, i)) = s[i + 1]
                     /\ Tail(Left(s, i)) = Left(s, i + 1)
  BY <1>6, <1>8
<1> QED BY <1>10, <1>11

\* Its elements.
LEMMA JoinedIs ==
  ASSUME NEW Z, NEW s \in Seq(Z), NEW n \in 1..(Len(s) - 1), NEW x \in Z
  PROVE  /\ Joined(s, n, x) \in Seq(Z) /\ Len(Joined(s, n, x)) = Len(s) - 1
         /\ \A i \in 1..(Len(s) - 1) :
              Joined(s, n, x)[i] = IF i < n THEN s[i] ELSE IF i = n THEN x ELSE s[i + 1]
<1>1. PICK N \in Nat : N = Len(s) /\ s \in [1..N -> Z] /\ n \in 1..(N - 1)
  BY ElementOfSeq
<1>2. PICK a \in Seq(Z) : /\ a = SubSeq(s, 1, n - 1) /\ Len(a) = n - 1
                          /\ \A i \in 1..(n - 1) : a[i] = s[i]
  <2>1. PICK M \in Nat : M = n - 1
    BY <1>1
  <2>2. \A i \in 1..M : s[i] \in Z
    BY <1>1, <2>1
  <2>3. /\ SubSeq(s, 1, M) \in Seq(Z) /\ Len(SubSeq(s, 1, M)) = IF 1 <= M THEN M - 1 + 1 ELSE 0
        /\ \A i \in 1..(M - 1 + 1) : SubSeq(s, 1, M)[i] = s[1 + i - 1]
    BY <2>2, SubSeqProperties
  <2>4. (IF 1 <= M THEN M - 1 + 1 ELSE 0) = M /\ M - 1 + 1 = M /\ \A i \in 1..M : 1 + i - 1 = i
    OBVIOUS
  <2> QED BY <2>1, <2>3, <2>4
<1>3. PICK c \in Seq(Z) : /\ c = SubSeq(s, (n + 1) + 1, N) /\ Len(c) = N - (n + 1)
                          /\ \A i \in 1..(N - (n + 1)) : c[i] = s[n + 1 + i]
  <2>0. n \in Nat /\ N \in Nat /\ n + 1 <= N
    BY <1>1
  <2>1. PICK m \in Nat, M \in Nat : m = (n + 1) + 1 /\ M = N - (n + 1) /\ N - m + 1 = M
    BY ONLY <2>0
  <2>2. \A i \in m..N : s[i] \in Z
    BY <1>1, <2>1
  <2>3. /\ SubSeq(s, m, N) \in Seq(Z) /\ Len(SubSeq(s, m, N)) = IF m <= N THEN N - m + 1 ELSE 0
        /\ \A i \in 1..(N - m + 1) : SubSeq(s, m, N)[i] = s[m + i - 1]
    BY <2>2, SubSeqProperties
  <2>4. (IF m <= N THEN N - m + 1 ELSE 0) = M
    BY ONLY <2>0, <2>1, m \in Nat, M \in Nat
  <2>5. PICK c \in Seq(Z) : c = SubSeq(s, m, N) /\ Len(c) = M
    BY <2>3, <2>4
  <2>6. ASSUME NEW i \in 1..M PROVE c[i] = s[n + 1 + i]
    <3>1. i \in 1..(N - m + 1) /\ m + i - 1 = n + 1 + i
      BY ONLY <2>0, <2>1, m \in Nat, M \in Nat, i \in 1..M
    <3>2. c[i] = s[m + i - 1]
      BY <2>3, <2>5, <3>1
    <3> QED BY <3>1, <3>2
  <2> QED BY <2>1, <2>5, <2>6
<1>4. PICK b : b = a \o <<x>>
  OBVIOUS
<1>5. <<x>> \in Seq(Z) /\ Len(<<x>>) = 1 /\ <<x>>[1] = x
  OBVIOUS
<1>6. /\ b \in Seq(Z) /\ Len(b) = n
      /\ \A i \in 1..n : b[i] = IF i < n THEN s[i] ELSE x
  <2>1. /\ b \in Seq(Z) /\ Len(b) = Len(a) + Len(<<x>>)
        /\ \A i \in 1..(Len(a) + Len(<<x>>)) : b[i] = IF i <= Len(a) THEN a[i] ELSE <<x>>[i - Len(a)]
    BY <1>4, <1>5, ConcatProperties
  <2>2. Len(a) + Len(<<x>>) = n
    BY <1>1, <1>2, <1>5
  <2>3. ASSUME NEW i \in 1..n PROVE b[i] = IF i < n THEN s[i] ELSE x
    <3>1. CASE i < n
      <4>1. i \in 1..(n - 1) /\ i <= Len(a)
        BY <1>1, <1>2, <3>1
      <4> QED BY <1>2, <2>1, <2>2, <3>1, <4>1
    <3>2. CASE i = n
      <4>1. ~(i <= Len(a)) /\ i - Len(a) = 1
        BY <1>1, <1>2, <3>2
      <4> QED BY <1>5, <2>1, <2>2, <3>2, <4>1
    <3> QED BY <3>1, <3>2
  <2> QED BY <2>1, <2>2, <2>3
<1>7. PICK t : t = b \o c
  OBVIOUS
<1>8. /\ t \in Seq(Z) /\ Len(t) = N - 1
      /\ \A i \in 1..(N - 1) : t[i] = IF i <= n THEN b[i] ELSE c[i - n]
  <2>1. /\ t \in Seq(Z) /\ Len(t) = Len(b) + Len(c)
        /\ \A i \in 1..(Len(b) + Len(c)) : t[i] = IF i <= Len(b) THEN b[i] ELSE c[i - Len(b)]
    BY <1>3, <1>6, <1>7, ConcatProperties
  <2>2. Len(b) + Len(c) = N - 1
    <3>0. n \in Nat
      BY <1>1
    <3>1. PICK p \in Nat, q \in Nat : p = n /\ q = Len(c) /\ q = N - (p + 1)
      BY <1>3, <3>0
    <3>2. p + q = N - 1
      BY <3>1
    <3> QED BY <1>6, <3>1, <3>2
  <2> QED BY <1>6, <2>1, <2>2
<1>9. ASSUME NEW i \in 1..(N - 1)
      PROVE  t[i] = IF i < n THEN s[i] ELSE IF i = n THEN x ELSE s[i + 1]
  <2>1. CASE i <= n
    <3>1. i \in 1..n
      BY <1>1, <2>1
    <3> QED BY <1>6, <1>8, <2>1, <3>1
  <2>2. CASE ~(i <= n)
    <3>1. i - n \in 1..(N - (n + 1)) /\ n + 1 + (i - n) = i + 1 /\ ~(i < n) /\ i # n
      BY <1>1, <2>2
    <3>2. c[i - n] = s[i + 1]
      BY <1>3, <3>1
    <3>3. t[i] = c[i - n]
      BY <1>8, <2>2
    <3> QED BY <3>1, <3>2, <3>3
  <2> QED BY <2>1, <2>2
<1>10. (n + 1) + 1 = n + 2
  BY <1>1
<1>11. Joined(s, n, x) = t
  BY <1>1, <1>2, <1>3, <1>4, <1>7, <1>10 DEF Joined
<1> QED BY <1>1, <1>8, <1>9, <1>11


\* The lines and the empty lines that are read, one by one.
LEMMA DataMore ==
  ASSUME NEW i \in Nat, NEW d \in Nat
  PROVE  /\ DataRead(i, d) \in Nat /\ DataRead(i, d) <= d /\ DataRead(0, d) = 0
         /\ i = 0 => DataRead(i + 1, d) = DataRead(i, d)
         /\ i \in 1..d => DataRead(i, d) = i - 1 /\ DataRead(i + 1, d) = i
         /\ i > 0 /\ i > d => DataRead(i, d) = d /\ DataRead(i + 1, d) = d
BY DEF DataRead

LEMMA EmptyMore ==
  ASSUME NEW i \in Nat, NEW d \in Nat
  PROVE  /\ EmptyRead(i, d) \in Nat /\ EmptyRead(0, d) = 0
         /\ i = 0 => EmptyRead(i + 1, d) = 1 /\ EmptyRead(i, d) = 0
         /\ i \in 1..d => EmptyRead(i + 1, d) = 0
         /\ i > 0 /\ i > d => /\ EmptyRead(i + 1, d) = EmptyRead(i, d) + 1
                              /\ EmptyRead(i + 1, d) = IF d = 0 THEN i + 1 ELSE i - d
BY DEF EmptyRead

\* The records of both ends in a step.
LEMMA TxSent ==
  ASSUME tx \in TxState, tx' = [tx EXCEPT !.pc = "sent"]
  PROVE  /\ tx' \in TxState /\ tx'.pc = "sent" /\ tx'.source = tx.source /\ tx'.vr = tx.vr
         /\ tx'.damage = tx.damage
BY DEF TxState

LEMMA TxDamaged ==
  ASSUME tx \in TxState, tx' = [tx EXCEPT !.damage = @ + 1]
  PROVE  /\ tx' \in TxState /\ tx'.pc = tx.pc /\ tx'.source = tx.source /\ tx'.vr = tx.vr
         /\ tx'.damage = tx.damage + 1
BY DEF TxState

LEMMA RxSteps ==
  ASSUME rx \in RxState, NEW eols \in Nat, NEW line \in Nat, NEW pc \in {"data", "rtc"},
         NEW lines \in Seq(Seq(Nat)),
         rx' = [rx EXCEPT !.eolcnt = eols, !.line = line, !.pc = pc, !.lines = lines]
  PROVE  /\ rx' \in RxState /\ rx'.pc = pc /\ rx'.line = line /\ rx'.eolcnt = eols
         /\ rx'.lines = lines
<1>1. PICK A, L : A = {"data", "rtc", "cut"} /\ L = Seq(Seq(Nat))
  OBVIOUS
<1>2. RxState = [pc : A, line : Nat, eolcnt : Nat, lines : L]
  BY <1>1 DEF RxState
<1>3. PICK l \in L, p \in A : l = lines /\ p = pc
  BY <1>1
<1>4. rx' = [rx EXCEPT !.eolcnt = eols, !.line = line, !.pc = p, !.lines = l]
  BY <1>3
<1>5. /\ rx' \in RxState /\ rx'.pc = p /\ rx'.line = line /\ rx'.eolcnt = eols /\ rx'.lines = l
  BY <1>2, <1>4
<1> QED BY <1>3, <1>5

\* The state while the page is on the line, and the invariant of it.
LEMMA ReadingState ==
  ASSUME PageInv, tx.pc = "sent"
  PROVE  tx \in TxState /\ rx \in RxState /\ Reading
BY DEF PageInv

LEMMA ReadingInv ==
  ASSUME tx' \in TxState, tx'.pc = "sent", rx' \in RxState, NEW w, NEW d, NEW e, NEW source,
         NEW vr, NEW damage, tx'.source = source, tx'.vr = vr, tx'.damage = damage,
         Whole(w, d, e, source, vr, damage), ReadOf(w, d, wire', rx', source, vr, damage)
  PROVE  PageInv'
<1>1. Reading'
  BY DEF Reading
<1> QED BY <1>1 DEF PageInv

\* Nothing has been read.
LEMMA ReadNone ==
  ASSUME NEW w \in Seq(Seq(Nat)), NEW d \in Nat, NEW r \in RxState, NEW source, NEW vr,
         NEW damage \in Nat, r.pc = "data", r.line = 0, Len(r.lines) = 0, r.eolcnt < RTCEOL,
         NoneVanishes(source, vr) => r.eolcnt = 0
  PROVE  ReadOf(w, d, w, r, source, vr, damage)
<1>1. PICK Z : Z = Seq(Nat) /\ w \in Seq(Z)
  OBVIOUS
<1>2. Left(w, 0) = w /\ 0 <= Len(w)
  <2>1. PICK z \in Nat : z = 0 /\ z <= Len(w)
    BY <1>1
  <2>2. z = 0 => Left(w, z) = w
    BY <1>1, <2>1, LeftIs
  <2> QED BY <2>1, <2>2
<1>3. DataRead(0, d) = 0 /\ EmptyRead(0, d) = 0
  BY DEF DataRead, EmptyRead
<1>4. r.eolcnt \in Nat /\ r.eolcnt + 1 + d >= 0
  BY DEF RxState
<1>5. \A k \in 1..Len(r.lines) : FALSE
  BY SMT
<1> QED BY <1>2, <1>3, <1>4, <1>5 DEF ReadOf


LEMMA SendsRTCInv ==
  ASSUME PageInv, SendsRTC
  PROVE  PageInv'
<1>1. tx \in TxState /\ Sending /\ ~HasSource(tx.source, tx.line)
  BY SendingState DEF SendsRTC
<1>2. PICK source \in PageSources, vr \in Resolutions2, n \in Nat :
        source = tx.source /\ vr = tx.vr /\ n = tx.line
  BY <1>1 DEF TxState
<1>3. PICK m \in Nat : /\ m = LinesOf(source, vr) /\ SentTo(wire, source, vr, m)
                       /\ Expected(source, vr) = 1..m
  <2>1. Len(source) \in Nat /\ HDRSPCE \in Nat
    BY FaxPageAssumption
  <2>2. n = HDRSPCE + Len(source)
    BY <1>1, <1>2, <2>1 DEF Sending, HasSource
  <2>3. LineCount(vr, n) \in Nat
    BY LinesCount
  <2> QED BY <1>1, <1>2, <2>2, <2>3, LinesExpected DEF Sending, LinesOf
<1>4. PICK Z : Z = Seq(Nat)
  OBVIOUS
<1>5. /\ wire \in Seq(Z) /\ Len(wire) = m + 1 /\ wire[1] = <<>>
      /\ \A k \in 1..m : wire[k + 1] = CodeOf(source, vr, k)
  BY <1>3, <1>4 DEF SentTo
<1>6. PICK R \in Nat : R = RTCEOL /\ R > 1
  BY FaxPageAssumption
<1>7. PICK z \in Seq(Z) : /\ z = [k \in 1..R |-> <<>>] /\ Len(z) = R
                          /\ \A i \in 1..R : z[i] = <<>>
  <2>1. <<>> \in Z
    BY <1>4
  <2>2. PICK z : z = [k \in 1..R |-> <<>>]
    OBVIOUS
  <2>3. z \in [1..R -> Z] /\ \A i \in 1..R : z[i] = <<>>
    BY <2>1, <2>2
  <2>4. z \in Seq(Z) /\ Len(z) = R
    BY <2>3
  <2> QED BY <2>2, <2>3, <2>4
<1>8. PICK w \in Seq(Z) : /\ w = wire' /\ Len(w) = (m + 1) + R
                          /\ \A i \in 1..((m + 1) + R) :
                               w[i] = IF i <= m + 1 THEN wire[i] ELSE z[i - (m + 1)]
  <2>1. wire' = wire \o z
    BY <1>6, <1>7 DEF SendsRTC
  <2>2. /\ wire \o z \in Seq(Z) /\ Len(wire \o z) = Len(wire) + Len(z)
        /\ \A i \in 1..(Len(wire) + Len(z)) :
             (wire \o z)[i] = IF i <= Len(wire) THEN wire[i] ELSE z[i - Len(wire)]
    BY <1>5, <1>7, ConcatProperties
  <2> QED BY <1>5, <1>7, <2>1, <2>2
<1>9. Len(w) = 1 + m + R /\ w[1] = <<>>
  BY <1>5, <1>8
<1>10. ASSUME NEW i \in 1..Len(w), i > 1 + m PROVE w[i] = <<>>
  <2>1. i \in 1..((m + 1) + R) /\ ~(i <= m + 1) /\ i - (m + 1) \in 1..R
    BY <1>8, <1>10
  <2> QED BY <1>7, <1>8, <2>1
<1>11. ASSUME NEW k \in 1..m
       PROVE  w[k + 1] = CodeOf(source, vr, k) /\ CodesLine(w[k + 1], source, vr)
  <2>1. k + 1 \in 1..((m + 1) + R) /\ k + 1 <= m + 1
    OBVIOUS
  <2>2. w[k + 1] = CodeOf(source, vr, k)
    BY <1>5, <1>8, <2>1
  <2>3. CodesLine(CodeOf(source, vr, k), source, vr)
    BY <1>3, CodeIs
  <2> QED BY <2>2, <2>3
<1>12. Whole(w, m, R, source, vr, 0)
  BY <1>3, <1>4, <1>6, <1>9, <1>10, <1>11 DEF Whole
<1>13. /\ tx' \in TxState /\ tx'.pc = "sent" /\ tx'.source = source /\ tx'.vr = vr
       /\ tx'.damage = 0
  <2>1. tx' = [tx EXCEPT !.pc = "sent"]
    BY DEF SendsRTC
  <2> QED BY <1>1, <1>2, <2>1, TxSent DEF Sending
<1>14. PICK r \in RxState : /\ r = rx' /\ r.pc = "data" /\ r.line = 0 /\ Len(r.lines) = 0
                            /\ r.eolcnt = 0
  <2>1. PICK L : L = Seq(Seq(Nat)) /\ <<>> \in L
    <3>1. <<>> \in Seq(Z)
      OBVIOUS
    <3> QED BY <1>4, <3>1
  <2>2. rx' = [pc |-> "data", line |-> 0, eolcnt |-> 0, lines |-> <<>>]
    BY DEF SendsRTC
  <2>3. rx' \in RxState
    BY <2>1, <2>2 DEF RxState
  <2> QED BY <2>2, <2>3
<1>15. ReadOf(w, m, w, r, source, vr, 0)
  BY <1>4, <1>6, <1>14, ReadNone
<1> QED BY <1>8, <1>12, <1>13, <1>14, <1>15, ReadingInv

\* What is on the line before anything is read.
LEMMA NothingRead ==
  ASSUME PageInv, tx.pc = "sent", rx.line = 0
  PROVE  \E source \in PageSources, vr \in Resolutions2, c \in Nat, d \in Nat, e \in Nat :
           /\ source = tx.source /\ vr = tx.vr /\ c = tx.damage
           /\ Whole(wire, d, e, source, vr, c) /\ rx \in RxState /\ rx.pc = "data"
           /\ Len(rx.lines) = 0 /\ rx.eolcnt < RTCEOL
           /\ NoneVanishes(source, vr) => rx.eolcnt = 0
<1>1. tx \in TxState /\ rx \in RxState /\ Reading
  BY ReadingState
<1>2. PICK source \in PageSources, vr \in Resolutions2, c \in Nat :
        source = tx.source /\ vr = tx.vr /\ c = tx.damage
  BY <1>1 DEF TxState
<1>3. PICK w, d, e : Whole(w, d, e, source, vr, c) /\ ReadOf(w, d, wire, rx, source, vr, c)
  BY <1>1, <1>2 DEF Reading
<1>4. d \in Nat /\ e \in Nat /\ w \in Seq(Seq(Nat))
  BY <1>3, FaxPageAssumption DEF Whole
<1>5. wire = w
  <2>0. PICK Z : Z = Seq(Nat) /\ w \in Seq(Z)
    BY <1>4
  <2>1. PICK z \in Nat : z = 0 /\ z <= Len(w)
    BY <2>0
  <2>2. z = 0 => Left(w, z) = w
    BY <2>0, <2>1, LeftIs
  <2> QED BY <1>3, <2>1, <2>2 DEF ReadOf
<1>6. DataRead(0, d) = 0 /\ EmptyRead(0, d) = 0
  BY DEF DataRead, EmptyRead
<1>7. rx.pc = "data" /\ rx.eolcnt < RTCEOL /\ (NoneVanishes(source, vr) => rx.eolcnt = 0)
  BY <1>3, <1>6 DEF ReadOf
<1>8. Len(rx.lines) = 0
  <2>1. Len(rx.lines) \in Nat
    BY <1>1 DEF RxState
  <2> QED BY <1>3, <1>6, <2>1 DEF ReadOf
<1> QED BY <1>1, <1>2, <1>3, <1>4, <1>5, <1>7, <1>8

LEMMA LosesEOLInv ==
  ASSUME PageInv, LosesEOL
  PROVE  PageInv'
<1>1. tx.pc = "sent" /\ rx.line = 0 /\ rx' = rx /\ tx' = [tx EXCEPT !.damage = @ + 1]
  BY DEF LosesEOL
<1>2. PICK source \in PageSources, vr \in Resolutions2, c \in Nat, d \in Nat, e \in Nat :
           /\ source = tx.source /\ vr = tx.vr /\ c = tx.damage
           /\ Whole(wire, d, e, source, vr, c) /\ rx \in RxState /\ rx.pc = "data"
           /\ Len(rx.lines) = 0 /\ rx.eolcnt < RTCEOL
           /\ NoneVanishes(source, vr) => rx.eolcnt = 0
  BY <1>1, NothingRead
<1>3. PICK Z : Z = Seq(Nat)
  OBVIOUS
<1>4. PICK w \in Seq(Z) : w = wire /\ Len(w) = 1 + d + e /\ w[1] = <<>>
  BY <1>2, <1>3 DEF Whole
<1>5. PICK R \in Nat : R = RTCEOL /\ e <= R
  BY <1>2, FaxPageAssumption DEF Whole
<1>6. PICK n \in Nat : /\ n \in 2..(Len(w) - RTCEOL - 1)
                       /\ wire' = Joined(w, n, w[n] \o w[n + 1])
  <2>1. PICK n \in 2..(Len(w) - RTCEOL - 1) : wire' = Joined(w, n, w[n] \o w[n + 1])
    BY <1>4 DEF LosesEOL, Joined
  <2> QED BY <2>1
<1>7. 2 <= n /\ n <= d
  BY <1>4, <1>5, <1>6
<1>8. \A i \in 1..d : CodesLine(w[i + 1], source, vr)
  BY <1>2, <1>4 DEF Whole
<1>9. PICK x : x = w[n] \o w[n + 1] /\ CodesLine(x, source, vr) /\ x \in Z
  <2>1. n - 1 \in 1..d /\ (n - 1) + 1 = n /\ n \in 1..d
    BY <1>7
  <2>2. CodesLine(w[n], source, vr) /\ CodesLine(w[n + 1], source, vr)
    BY <1>8, <2>1
  <2>3. CodesLine(w[n] \o w[n + 1], source, vr)
    BY <2>2, LinesMerge
  <2> QED BY <1>3, <2>3, LineRead
<1>10. PICK t \in Seq(Z) : /\ t = wire' /\ Len(t) = Len(w) - 1
                           /\ \A i \in 1..(Len(w) - 1) :
                                t[i] = IF i < n THEN w[i] ELSE IF i = n THEN x ELSE w[i + 1]
  <2>1. n \in 1..(Len(w) - 1)
    BY <1>4, <1>7
  <2>2. /\ Joined(w, n, x) \in Seq(Z) /\ Len(Joined(w, n, x)) = Len(w) - 1
        /\ \A i \in 1..(Len(w) - 1) :
             Joined(w, n, x)[i] = IF i < n THEN w[i] ELSE IF i = n THEN x ELSE w[i + 1]
    BY <1>9, <2>1, JoinedIs
  <2> QED BY <1>6, <1>9, <2>2
<1>11. PICK D \in Nat : D = d - 1 /\ D > 0 /\ Len(t) = 1 + D + e /\ Len(w) - 1 = 1 + D + e
  BY <1>4, <1>7, <1>10
<1>12. t[1] = <<>>
  <2>1. 1 \in 1..(Len(w) - 1) /\ 1 < n
    BY <1>7, <1>11
  <2> QED BY <1>4, <1>10, <2>1
<1>13. ASSUME NEW i \in 1..Len(t), i > 1 + D PROVE t[i] = <<>>
  <2>1. ~(i < n) /\ i # n /\ i \in 1..(Len(w) - 1) /\ i + 1 \in 1..Len(w) /\ i + 1 > 1 + d
    BY <1>4, <1>7, <1>11, <1>13
  <2>2. t[i] = w[i + 1]
    BY <1>10, <2>1
  <2>3. w[i + 1] = <<>>
    BY <1>2, <1>4, <2>1 DEF Whole
  <2> QED BY <2>2, <2>3
<1>14. ASSUME NEW i \in 1..D PROVE CodesLine(t[i + 1], source, vr)
  <2>1. i \in 1..d /\ i + 1 \in 1..d /\ i + 1 \in 1..(Len(w) - 1)
    BY <1>11
  <2>2. t[i + 1] \in {w[i + 1], x, w[(i + 1) + 1]}
    BY <1>10, <2>1
  <2> QED BY <1>8, <1>9, <2>1, <2>2
<1>15. Whole(t, D, e, source, vr, c + 1)
  <2>1. LinesOf(source, vr) \in Nat
    <3>1. Len(source) \in Nat /\ HDRSPCE \in Nat
      BY FaxPageAssumption
    <3> QED BY <3>1, LinesCount DEF LinesOf
  <2>2. PICK m \in Nat : m = LinesOf(source, vr)
    BY <2>1
  <2>3. d <= m /\ (e = RTCEOL => d + c >= m) /\ e \in 0..RTCEOL
    BY <1>2, <2>2 DEF Whole
  <2>4. D <= m /\ (e = RTCEOL => D + (c + 1) >= m) /\ c + 1 # 0
    BY <1>11, <2>3
  <2> QED BY <1>3, <1>11, <1>12, <1>13, <1>14, <2>2, <2>3, <2>4 DEF Whole
<1>16. ReadOf(t, D, t, rx, source, vr, c + 1)
  <2>1. t \in Seq(Seq(Nat)) /\ c + 1 \in Nat
    BY <1>3
  <2> QED BY <1>1, <1>2, <2>1, ReadNone
<1>17. /\ tx' \in TxState /\ tx'.pc = "sent" /\ tx'.source = source /\ tx'.vr = vr
       /\ tx'.damage = c + 1
  BY <1>1, <1>2, ReadingState, TxDamaged
<1> QED BY <1>1, <1>2, <1>10, <1>15, <1>16, <1>17, ReadingInv


LEMMA LosesCarrierInv ==
  ASSUME PageInv, LosesCarrier
  PROVE  PageInv'
<1>1. tx.pc = "sent" /\ rx.line = 0 /\ rx' = rx /\ tx' = [tx EXCEPT !.damage = @ + 1]
  BY DEF LosesCarrier
<1>2. PICK source \in PageSources, vr \in Resolutions2, c \in Nat, d \in Nat, e \in Nat :
           /\ source = tx.source /\ vr = tx.vr /\ c = tx.damage
           /\ Whole(wire, d, e, source, vr, c) /\ rx \in RxState /\ rx.pc = "data"
           /\ Len(rx.lines) = 0 /\ rx.eolcnt < RTCEOL
           /\ NoneVanishes(source, vr) => rx.eolcnt = 0
  BY <1>1, NothingRead
<1>3. PICK Z : Z = Seq(Nat)
  OBVIOUS
<1>4. PICK w \in Seq(Z), N \in Nat : w = wire /\ N = Len(w) /\ N = 1 + d + e /\ w[1] = <<>>
  BY <1>2, <1>3 DEF Whole
<1>5. PICK R \in Nat : R = RTCEOL /\ e <= R /\ R > 1
  BY <1>2, FaxPageAssumption DEF Whole
<1>6. PICK n \in Nat : n > 0 /\ n < N /\ wire' = SubSeq(w, 1, n)
  <2>1. PICK n \in 1..(Len(w) - 1) : wire' = SubSeq(w, 1, n)
    BY <1>4 DEF LosesCarrier
  <2>2. n \in Nat /\ n > 0 /\ n < N
    BY <1>4, <2>1
  <2> QED BY <2>1, <2>2
<1>7. PICK t \in Seq(Z) : t = wire' /\ Len(t) = n /\ \A i \in 1..n : t[i] = w[i]
  <2>1. ASSUME NEW i \in 1..n PROVE w[i] \in Z
    <3>1. i \in 1..Len(w)
      BY <1>4, <1>6
    <3> QED BY <3>1, ElementOfSeq
  <2>2. /\ SubSeq(w, 1, n) \in Seq(Z) /\ Len(SubSeq(w, 1, n)) = IF 1 <= n THEN n - 1 + 1 ELSE 0
        /\ \A i \in 1..(n - 1 + 1) : SubSeq(w, 1, n)[i] = w[1 + i - 1]
    <3>1. 1 \in Int /\ n \in Int
      OBVIOUS
    <3> QED BY <2>1, <3>1, SubSeqProperties
  <2>3. (IF 1 <= n THEN n - 1 + 1 ELSE 0) = n /\ n - 1 + 1 = n
    BY <1>6
  <2>4. \A i \in 1..n : 1 + i - 1 = i
    OBVIOUS
  <2>5. \A i \in 1..n : SubSeq(w, 1, n)[i] = w[i]
    BY <2>2, <2>3, <2>4
  <2> QED BY <1>6, <2>2, <2>3, <2>5
<1>8. PICK D \in Nat, E \in Nat : /\ D = (IF n - 1 < d THEN n - 1 ELSE d) /\ E = n - 1 - D
                                  /\ E < R /\ D <= d /\ n = 1 + D + E /\ (E > 0 => D = d /\ e > 0)
  <2>1. PICK D \in Nat : D = (IF n - 1 < d THEN n - 1 ELSE d)
    BY <1>6
  <2>2. PICK E \in Nat : E = n - 1 - D
    <3>1. n - 1 - D \in Nat
      BY <1>6, <2>1
    <3> QED BY <3>1
  <2>3. E < R /\ D <= d /\ n = 1 + D + E /\ (E > 0 => D = d /\ e > 0)
    BY ONLY n \in Nat, d \in Nat, e \in Nat, N \in Nat, R \in Nat, D \in Nat, E \in Nat,
            <1>4, <1>5, <1>6, <2>1, <2>2
  <2> QED BY <2>1, <2>2, <2>3
<1>9. t[1] = <<>>
  <2>1. 1 \in 1..n
    BY <1>6
  <2> QED BY <1>4, <1>7, <2>1
<1>10. ASSUME NEW i \in 1..Len(t), i > 1 + D PROVE t[i] = <<>>
  <2>1. i \in 1..n /\ i \in 1..Len(w) /\ i > 1 + d
    BY <1>4, <1>6, <1>7, <1>8, <1>10
  <2>2. w[i] = <<>>
    BY <1>2, <1>4, <2>1 DEF Whole
  <2> QED BY <1>7, <2>1, <2>2
<1>11. ASSUME NEW i \in 1..D PROVE CodesLine(t[i + 1], source, vr)
  <2>1. i \in 1..d /\ i + 1 \in 1..n
    BY <1>8
  <2>2. CodesLine(w[i + 1], source, vr)
    BY <1>2, <1>4, <2>1 DEF Whole
  <2> QED BY <1>7, <2>1, <2>2
<1>12. Whole(t, D, E, source, vr, c + 1)
  <2>1. PICK m \in Nat : m = LinesOf(source, vr)
    <3>1. Len(source) \in Nat /\ HDRSPCE \in Nat
      BY FaxPageAssumption
    <3>2. LinesOf(source, vr) \in Nat
      BY <3>1, LinesCount DEF LinesOf
    <3> QED BY <3>2
  <2>2. d <= m /\ (m > 0 /\ e > 0 => d > 0)
    BY <1>2, <2>1 DEF Whole
  <2>3. D <= m /\ E # RTCEOL /\ E \in 0..RTCEOL /\ (m > 0 /\ E > 0 => D > 0) /\ c + 1 # 0
    BY <1>5, <1>8, <2>2
  <2> QED BY <1>3, <1>7, <1>8, <1>9, <1>10, <1>11, <2>1, <2>3 DEF Whole
<1>13. ReadOf(t, D, t, rx, source, vr, c + 1)
  <2>1. t \in Seq(Seq(Nat)) /\ c + 1 \in Nat
    BY <1>3
  <2> QED BY <1>1, <1>2, <2>1, ReadNone
<1>14. /\ tx' \in TxState /\ tx'.pc = "sent" /\ tx'.source = source /\ tx'.vr = vr
       /\ tx'.damage = c + 1
  BY <1>1, <1>2, ReadingState, TxDamaged
<1> QED BY <1>1, <1>2, <1>7, <1>12, <1>13, <1>14, ReadingInv

\* Data that end before RTC were damaged.
LEMMA DataEndsInv ==
  ASSUME PageInv, DataEnds
  PROVE  PageInv'
<1>1. rx.pc = "data" /\ wire = <<>> /\ rx' = [rx EXCEPT !.pc = "cut"] /\ tx' = tx /\ wire' = wire
  BY DEF DataEnds
<1>2. tx.pc = "sent" /\ tx \in TxState /\ rx \in RxState /\ Reading
  BY <1>1 DEF PageInv
<1>3. PICK source \in PageSources, vr \in Resolutions2, c \in Nat :
        source = tx.source /\ vr = tx.vr /\ c = tx.damage
  BY <1>2 DEF TxState
<1>4. PICK w, d, e : Whole(w, d, e, source, vr, c) /\ ReadOf(w, d, wire, rx, source, vr, c)
  BY <1>2, <1>3 DEF Reading
<1>5. /\ rx' \in RxState /\ rx'.pc = "cut" /\ rx'.line = rx.line /\ rx'.eolcnt = rx.eolcnt
      /\ rx'.lines = rx.lines
  BY <1>1, <1>2 DEF RxState
<1>6. PICK D \in Nat, E \in Nat, i \in Nat, f \in Nat, R \in Nat :
        /\ D = d /\ E = e /\ i = rx.line /\ f = rx.eolcnt /\ R = RTCEOL
        /\ i <= Len(w) /\ Len(w) = 1 + D + E
        /\ f < R /\ f + 1 + D >= i /\ (c = 0 => E = R)
  <2>1. d \in Nat /\ e \in Nat /\ RTCEOL \in Nat
    BY <1>4, FaxPageAssumption DEF Whole
  <2>2. rx.line \in Nat /\ rx.eolcnt \in Nat
    BY <1>2 DEF RxState
  <2> QED BY <1>1, <1>4, <2>1, <2>2 DEF Whole, ReadOf
<1>7. i = Len(w)
  <2>1. PICK Z : Z = Seq(Nat) /\ w \in Seq(Z)
    BY <1>4 DEF Whole
  <2>2. Left(w, i) = <<>>
    BY <1>1, <1>4, <1>6 DEF ReadOf
  <2> QED BY <1>6, <2>1, <2>2, LeftIs
<1>8. i > 0 /\ c > 0
  BY <1>6, <1>7
<1>9. ReadOf(w, d, wire', rx', source, vr, c)
  BY <1>1, <1>4, <1>5, <1>6, <1>8 DEF ReadOf
<1> QED BY <1>1, <1>2, <1>3, <1>4, <1>5, <1>9, ReadingInv


\* A line that is read: one with pixels that is kept, an empty one, or, if lines
\* vanish, any.
LEMMA ReceivesLineInv ==
  ASSUME PageInv, ReceivesLine
  PROVE  PageInv'
<1>1. rx.pc = "data" /\ wire # <<>> /\ tx' = tx /\ wire' = Tail(wire)
  BY DEF ReceivesLine
<1>2. tx.pc = "sent" /\ tx \in TxState /\ rx \in RxState /\ Reading
  BY <1>1 DEF PageInv
<1>3. PICK source \in PageSources, vr \in Resolutions2, dmg \in Nat :
        source = tx.source /\ vr = tx.vr /\ dmg = tx.damage
  BY <1>2 DEF TxState
<1>4. PICK w, d, e : Whole(w, d, e, source, vr, dmg) /\ ReadOf(w, d, wire, rx, source, vr, dmg)
  BY <1>2, <1>3 DEF Reading
<1>5. PICK Z : Z = Seq(Nat) /\ w \in Seq(Z) /\ rx.lines \in Seq(Z)
  BY <1>2, <1>4 DEF Whole, RxState
<1>6. PICK i \in Nat, f \in Nat, R \in Nat, m \in Nat :
        i = rx.line /\ f = rx.eolcnt /\ R = RTCEOL /\ R > 1 /\ m = LinesOf(source, vr)
  <2>1. Len(source) \in Nat /\ HDRSPCE \in Nat /\ RTCEOL \in Nat /\ RTCEOL > 1
    BY FaxPageAssumption
  <2>2. LinesOf(source, vr) \in Nat
    BY <2>1, LinesCount DEF LinesOf
  <2> QED BY <1>2, <2>1, <2>2 DEF RxState
<1>7. /\ d \in Nat /\ e \in Nat /\ e <= R /\ Len(w) = 1 + d + e /\ i <= Len(w) /\ d <= m
      /\ e = R => d + dmg >= m
      /\ m > 0 /\ e > 0 => d > 0
      /\ f < R /\ f + 1 + d >= i /\ wire = Left(w, i)
  BY <1>1, <1>4, <1>6 DEF Whole, ReadOf
<1>8. i < Len(w) /\ Head(wire) = w[i + 1] /\ wire' = Left(w, i + 1)
  <2>1. /\ Left(w, i) = <<>> <=> i = Len(w)
        /\ i < Len(w) => Head(Left(w, i)) = w[i + 1] /\ Tail(Left(w, i)) = Left(w, i + 1)
    <3>1. PICK s \in Seq(Z) : s = w /\ i <= Len(s)
      BY <1>5, <1>7
    <3>2. /\ Left(s, i) = <<>> <=> i = Len(s)
          /\ i < Len(s) => Head(Left(s, i)) = s[i + 1] /\ Tail(Left(s, i)) = Left(s, i + 1)
      BY <3>1, LeftIs
    <3> QED BY <3>1, <3>2
  <2>2. i # Len(w)
    BY <1>1, <1>7, <2>1
  <2>3. i < Len(w)
    BY <1>7, <2>2
  <2> QED BY <1>1, <1>7, <2>1, <2>3
<1>9. PICK runs, c : c = w[i + 1] /\ runs = coderuns(c)
  OBVIOUS
<1>10. PICK W : W = Width(runs)
  OBVIOUS
<1>11. PICK a : a = IF W > 0 THEN 0 ELSE f + 1
  OBVIOUS
<1>12. PICK pc, lines :
         /\ pc = (IF a >= R THEN "rtc" ELSE "data")
         /\ lines = (IF ~(a >= R) /\ W > 0 /\ i > 0 THEN Append(rx.lines, encrypt(runs))
                     ELSE rx.lines)
  OBVIOUS
<1>13. rx' = [rx EXCEPT !.eolcnt = a, !.line = i + 1, !.pc = pc, !.lines = lines]
  <2>1. a = eolcnt(runs)
    BY <1>6, <1>10, <1>11 DEF eolcnt
  <2>2. Kept(runs) <=> W > 0 /\ i > 0
    BY <1>6, <1>10 DEF Kept
  <2>3. rx' = [rx EXCEPT !.eolcnt = eolcnt(runs), !.line = i + 1,
                         !.pc = IF eolcnt(runs) >= RTCEOL THEN "rtc" ELSE "data",
                         !.lines = IF ~(eolcnt(runs) >= RTCEOL) /\ Kept(runs)
                                   THEN Append(rx.lines, encrypt(runs)) ELSE rx.lines]
    BY <1>2, <1>6, <1>8, <1>9 DEF ReceivesLine, RxState
  <2> QED BY <1>6, <1>12, <2>1, <2>2, <2>3
<1>14. PICK L \in Nat : L = Len(rx.lines) /\ L <= DataRead(i, d)
  BY <1>4, <1>5, <1>6 DEF ReadOf
\* A line without codes.
<1>15. ASSUME i = 0 \/ i > d
       PROVE  W = 0 /\ a = f + 1 /\ lines = rx.lines
  <2>1. c = <<>>
    <3>1. i + 1 \in 1..Len(w) /\ (i = 0 => i + 1 = 1) /\ (i > d => i + 1 > 1 + d)
      BY <1>7, <1>8
    <3>2. (i = 0 => w[i + 1] = <<>>) /\ (i > d => w[i + 1] = <<>>)
      BY <1>4, <3>1 DEF Whole
    <3> QED BY <1>9, <1>15, <3>2
  <2>2. W = 0
    BY <1>9, <1>10, <2>1, NoCodes
  <2> QED BY <1>11, <1>12, <2>2
\* A line of the page.
<1>16. ASSUME i \in 1..d
       PROVE  /\ W \in Nat /\ encrypt(runs) \in Z /\ (NoneVanishes(source, vr) => W > 0)
              /\ dmg = 0 => encrypt(runs) = SentLine(source, vr, i)
  <2>1. CodesLine(c, source, vr)
    BY <1>4, <1>9, <1>16 DEF Whole
  <2>2. runs \in Seq(Nat) /\ W \in Nat /\ (NoneVanishes(source, vr) => W > 0)
    BY <1>9, <1>10, <2>1, LineRead
  <2>3. encrypt(runs) \in Z
    BY <1>5, <2>2, encryptTwice
  <2>4. ASSUME dmg = 0 PROVE encrypt(runs) = SentLine(source, vr, i)
    <3>1. c = CodeOf(source, vr, i) /\ d = LinesOf(source, vr)
      BY <1>4, <1>9, <1>16, <2>4 DEF Whole
    <3>2. i \in Expected(source, vr)
      BY <1>16, <3>1, LinesExpected DEF LinesOf
    <3> QED BY <1>9, <3>1, <3>2, CodeIs
  <2> QED BY <2>2, <2>3, <2>4
<1>17. a \in Nat /\ pc \in {"data", "rtc"} /\ i + 1 \in Nat
  BY <1>11, <1>12
<1>18. lines \in Seq(Z) /\ Len(lines) <= DataRead(i + 1, d)
  <2>1. CASE i = 0 \/ i > d
    <3>1. lines = rx.lines /\ DataRead(i + 1, d) = DataRead(i, d)
      BY <1>7, <1>15, <2>1, DataMore
    <3> QED BY <1>5, <1>14, <3>1
  <2>2. CASE i \in 1..d
    <3>1. DataRead(i, d) = i - 1 /\ DataRead(i + 1, d) = i
      BY <1>7, <2>2, DataMore
    <3>2. encrypt(runs) \in Z
      BY <1>16, <2>2
    <3>3. Append(rx.lines, encrypt(runs)) \in Seq(Z) /\ Len(Append(rx.lines, encrypt(runs))) = L + 1
      BY <1>5, <1>14, <3>2, AppendProperties
    <3>4. lines \in {Append(rx.lines, encrypt(runs)), rx.lines}
      BY <1>12
    <3>5. L <= i /\ L + 1 <= i
      BY <1>14, <3>1
    <3> QED BY <1>5, <1>14, <3>1, <3>3, <3>4, <3>5
  <2> QED BY <1>7, <2>1, <2>2
<1>19. /\ rx' \in RxState /\ rx'.pc = pc /\ rx'.line = i + 1 /\ rx'.eolcnt = a
       /\ rx'.lines = lines
  <2>1. PICK line \in Nat, eols \in Nat : line = i + 1 /\ eols = a
    BY <1>17
  <2>2. rx' = [rx EXCEPT !.eolcnt = eols, !.line = line, !.pc = pc, !.lines = lines]
    BY <1>13, <2>1
  <2>3. lines \in Seq(Seq(Nat)) /\ pc \in {"data", "rtc"} /\ rx \in RxState
    BY <1>2, <1>5, <1>17, <1>18
  <2>4. /\ rx' \in RxState /\ rx'.pc = pc /\ rx'.line = line /\ rx'.eolcnt = eols
        /\ rx'.lines = lines
    BY ONLY <2>2, <2>3, line \in Nat, eols \in Nat, RxSteps, Zenon
  <2> QED BY <2>1, <2>4
<1>20. i + 1 <= Len(w) /\ (pc = "data" => a < R /\ a + 1 + d >= i + 1)
  <2>1. pc = "data" => a < R
    BY <1>12, <1>17
  <2>2. a + 1 + d >= i + 1
    <3>1. CASE i = 0 \/ i > d
      BY <1>7, <1>15, <3>1
    <3>2. CASE i \in 1..d
      BY <1>7, <1>17, <3>2
    <3> QED BY <1>7, <3>1, <3>2
  <2> QED BY <1>5, <1>7, <1>8, <2>1, <2>2
<1>21. ASSUME NoneVanishes(source, vr)
       PROVE  /\ Len(lines) = DataRead(i + 1, d) /\ a = EmptyRead(i + 1, d)
              /\ pc = "rtc" => Len(lines) + dmg >= m
              /\ dmg = 0 => \A k \in 1..Len(lines) : lines[k] = SentLine(source, vr, k)
  <2>1. /\ L = DataRead(i, d) /\ f = EmptyRead(i, d)
        /\ dmg = 0 => \A k \in 1..L : rx.lines[k] = SentLine(source, vr, k)
    BY <1>1, <1>4, <1>6, <1>14, <1>21 DEF ReadOf
  <2>2. CASE i = 0
    <3>1. lines = rx.lines /\ a = 1 /\ pc # "rtc"
      <4>1. EmptyRead(i, d) = 0
        BY <1>7, <2>2, EmptyMore
      <4>2. lines = rx.lines /\ a = 1
        BY <1>15, <2>1, <2>2, <4>1
      <4>3. ~(a >= R)
        BY <1>6, <4>2
      <4> QED BY <1>12, <4>2, <4>3
    <3>2. DataRead(i + 1, d) = DataRead(i, d) /\ EmptyRead(i + 1, d) = 1
      BY <1>7, <2>2, DataMore, EmptyMore
    <3> QED BY <1>14, <2>1, <3>1, <3>2
  <2>3. CASE i \in 1..d
    <3>1. W > 0 /\ a = 0 /\ ~(a >= R) /\ pc # "rtc"
      <4>1. W > 0 /\ a = 0
        BY <1>11, <1>16, <1>21, <2>3
      <4>2. ~(a >= R)
        BY <1>6, <4>1
      <4> QED BY <1>12, <4>1, <4>2
    <3>2. lines = Append(rx.lines, encrypt(runs)) /\ encrypt(runs) \in Z
      BY <1>12, <1>16, <2>3, <3>1
    <3>3. DataRead(i, d) = i - 1 /\ DataRead(i + 1, d) = i /\ EmptyRead(i + 1, d) = 0
      BY <1>7, <2>3, DataMore, EmptyMore
    <3>4. L = i - 1 /\ L + 1 = i
      BY <2>1, <3>3
    <3>5. /\ Len(lines) = i /\ lines[i] = encrypt(runs)
          /\ \A k \in 1..L : lines[k] = rx.lines[k]
      <4>1. PICK s \in Seq(Z), x \in Z : s = rx.lines /\ x = encrypt(runs) /\ Len(s) = L
        BY <1>5, <1>14, <3>2
      <4>2. /\ Len(Append(s, x)) = Len(s) + 1 /\ Append(s, x)[Len(s) + 1] = x
            /\ \A k \in 1..Len(s) : Append(s, x)[k] = s[k]
        BY AppendProperties
      <4> QED BY <3>2, <3>4, <4>1, <4>2
    <3>6. ASSUME dmg = 0, NEW k \in 1..i PROVE lines[k] = SentLine(source, vr, k)
      <4>1. CASE k = i
        BY <1>16, <2>3, <3>5, <3>6, <4>1
      <4>2. CASE k # i
        <5>1. k \in 1..L
          BY <3>4, <4>2
        <5> QED BY <2>1, <3>5, <3>6, <5>1
      <4> QED BY <4>1, <4>2
    <3> QED BY <3>1, <3>3, <3>5, <3>6
  <2>4. CASE i > 0 /\ i > d
    <3>1. lines = rx.lines /\ a = f + 1
      BY <1>15, <2>4
    <3>2. /\ DataRead(i, d) = d /\ DataRead(i + 1, d) = d
          /\ EmptyRead(i + 1, d) = EmptyRead(i, d) + 1
          /\ EmptyRead(i + 1, d) = IF d = 0 THEN i + 1 ELSE i - d
      <4>1. PICK D \in Nat : D = d
        BY <1>7
      <4>2. i > 0 /\ i > D
        BY <2>4, <4>1
      <4>3. DataRead(i, D) = D /\ DataRead(i + 1, D) = D
        BY <4>2, DataMore
      <4>4. /\ EmptyRead(i + 1, D) = EmptyRead(i, D) + 1
            /\ EmptyRead(i + 1, D) = IF D = 0 THEN i + 1 ELSE i - D
        BY <4>2, EmptyMore
      <4> QED BY <4>1, <4>3, <4>4
    <3>3. L = d /\ a = EmptyRead(i + 1, d)
      BY <2>1, <3>1, <3>2
    <3>4. ASSUME pc = "rtc" PROVE d + dmg >= m
      <4>1. a >= R
        BY <1>12, <3>4
      <4>2. CASE d = 0
        BY <1>6, <1>7, <1>8, <2>4, <4>2
      <4>3. CASE d # 0
        <5>1. i - d >= R
          BY <3>2, <3>3, <4>1, <4>3
        <5>2. e = R
          BY <1>7, <1>8, <5>1
        <5> QED BY <1>7, <5>2
      <4> QED BY <4>2, <4>3
    <3> QED BY <1>14, <2>1, <3>1, <3>2, <3>3, <3>4
  <2> QED BY <1>7, <2>2, <2>3, <2>4
<1>22. ReadOf(w, d, wire', rx', source, vr, dmg)
  <2>1. pc # "cut" /\ (pc # "data" => i + 1 > 0)
    BY <1>17
  <2> QED BY <1>6, <1>8, <1>18, <1>19, <1>20, <1>21, <2>1 DEF ReadOf
<1> QED BY <1>1, <1>2, <1>3, <1>4, <1>19, <1>22, ReadingInv


LEMMA PageInitInv ==
  ASSUME InitFaxPage
  PROVE  PageInv
BY DEF InitFaxPage, PageInv

LEMMA PageSteps ==
  ASSUME PageInv, [NextFaxPage]_faxPageVars
  PROVE  PageInv'
<1>1. CASE UNCHANGED faxPageVars
  <2>1. tx' = tx /\ wire' = wire /\ rx' = rx
    BY <1>1 DEF faxPageVars
  <2> QED BY <2>1 DEF PageInv, Sending, Reading
<1>2. CASE PageBegins
  BY <1>2, PageBeginsInv
<1>3. CASE SendsLine
  BY <1>3, SendsLineInv
<1>4. CASE SendsRTC
  BY <1>4, SendsRTCInv
<1>5. CASE LosesEOL
  BY <1>5, LosesEOLInv
<1>6. CASE LosesCarrier
  BY <1>6, LosesCarrierInv
<1>7. CASE ReceivesLine
  BY <1>7, ReceivesLineInv
<1>8. CASE DataEnds
  BY <1>8, DataEndsInv
<1> QED BY <1>1, <1>2, <1>3, <1>4, <1>5, <1>6, <1>7, <1>8 DEF NextFaxPage

\* What has been written when the page is over.
LEMMA PageInvTrue ==
  ASSUME PageInv
  PROVE  PageTrue
<1>1. CASE rx.pc = "wait"
  BY <1>1 DEF PageTrue, PageArrives, CutIsNoticed
<1>2. CASE rx.pc # "wait"
  <2>1. tx \in TxState /\ rx \in RxState /\ Reading
    BY <1>2 DEF PageInv
  <2>2. PICK source \in PageSources, vr \in Resolutions2, dmg \in Nat, L \in Nat :
          source = tx.source /\ vr = tx.vr /\ dmg = tx.damage /\ L = Len(rx.lines)
    BY <2>1 DEF TxState, RxState
  <2>3. PICK w, d, e : Whole(w, d, e, source, vr, dmg) /\ ReadOf(w, d, wire, rx, source, vr, dmg)
    BY <2>1, <2>2 DEF Reading
  <2>4. PICK m \in Nat : /\ m = LinesOf(source, vr) /\ Expected(source, vr) = 1..m
                         /\ Cardinality(1..m) = m
    <3>1. Len(source) \in Nat /\ HDRSPCE \in Nat
      BY FaxPageAssumption
    <3>2. LinesOf(source, vr) \in Nat
      BY <3>1, LinesCount DEF LinesOf
    <3>3. PICK m \in Nat : m = LinesOf(source, vr)
      BY <3>2
    <3>4. Cardinality(1..m) = m
      <4>1. Cardinality(1..m) = IF 1 > m THEN 0 ELSE m - 1 + 1
        BY FS_Interval
      <4> QED BY <4>1
    <3>5. Expected(source, vr) = 1..m
      BY <3>3, LinesExpected DEF LinesOf
    <3> QED BY <3>3, <3>4, <3>5
  <2>5. L <= d /\ d <= m /\ d \in Nat
    <3>1. PICK i \in Nat, D \in Nat : i = rx.line /\ D = d
      BY <2>1, <2>3 DEF RxState, Whole
    <3>2. DataRead(i, D) \in Nat /\ DataRead(i, D) <= D
      BY DataMore
    <3>3. L <= DataRead(i, D) /\ D <= m
      BY <2>2, <2>3, <2>4, <3>1 DEF ReadOf, Whole
    <3> QED BY <3>1, <3>2, <3>3
  <2>6. CutIsNoticed
    <3>1. rx.pc = "cut" => dmg > 0
      BY <2>3 DEF ReadOf
    <3>2. rx.pc = "rtc" /\ NoneVanishes(source, vr) => L >= m - dmg
      <4>1. rx.pc = "rtc" /\ NoneVanishes(source, vr) => L + dmg >= m
        BY <2>2, <2>3, <2>4 DEF ReadOf
      <4> QED BY <4>1
    <3>3. L <= m
      BY <2>5
    <3> QED BY <2>2, <2>4, <3>1, <3>2, <3>3 DEF CutIsNoticed
  <2>7. ASSUME rx.pc = "rtc", dmg = 0, NoneVanishes(source, vr)
        PROVE  L = m /\ \A k \in 1..m : Pixels(rx.lines[k]) = Picture(source, Sources(vr, k))
    <3>1. L + dmg >= m /\ \A k \in 1..L : rx.lines[k] = SentLine(source, vr, k)
      BY <2>2, <2>3, <2>4, <2>7 DEF ReadOf
    <3>2. L = m
      BY <2>5, <2>7, <3>1
    <3>3. ASSUME NEW k \in 1..m PROVE Pixels(rx.lines[k]) = Picture(source, Sources(vr, k))
      <4>1. Pixels(SentLine(source, vr, k)) = Picture(source, Sources(vr, k))
        BY <2>4, SentShows
      <4> QED BY <3>1, <3>2, <4>1
    <3> QED BY <3>2, <3>3
  <2>8. PageArrives
    BY <2>2, <2>4, <2>7 DEF PageArrives
  <2> QED BY <2>6, <2>8 DEF PageTrue
<1> QED BY <1>1, <1>2

\* A page arrives as it was sent, line for line, or it is known that it did not: what
\* send_data() does with the lines of a page, receive_data() undoes up to RTC, whatever
\* the page, the header, the session and the key; a page that was cut is noticed, and
\* one whose EOLs were lost misses no more lines than there were EOLs lost.
THEOREM PagesArrive == SpecFaxPage => []PageTrue
<1>1. InitFaxPage => PageInv
  BY PageInitInv
<1>2. PageInv /\ [NextFaxPage]_faxPageVars => PageInv'
  BY PageSteps
<1>3. PageInv => PageTrue
  BY PageInvTrue
<1> QED BY <1>1, <1>2, <1>3, PTL DEF SpecFaxPage

=============================================================================
