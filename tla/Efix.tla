-------------------------------- MODULE Efix --------------------------------
(***************************************************************************)
(* efix: main() of efax/efix.c with the page and line functions of         *)
(* efax/efaxlib.c.  It turns the pages of some image files into pages of   *)
(* one output format, with a size, a scale, a shift and an overlay.        *)
(*                                                                         *)
(* The variable efix is the state of main(); out is what it has written.   *)
(***************************************************************************)
EXTENDS RunLengths

CONSTANTS
  EfixJobs,    \* records: files, overlay, w, h, xs, ys, ixsh, iysh, format
  MAXPAGE      \* how many pages an IFILE holds

\* A file is a sequence of pages and can be read up to a page, or not at all
\* (readable = 0); a page has bitmap lines, and a height that says how many of
\* them to read, or -1 if the data say so (fax).
PagesIn(files) ==
  UNION {{files[n].pages[p] : p \in DOMAIN files[n].pages} : n \in DOMAIN files}
InFile(files) == [pages : Seq(PagesIn(files)), readable : Nat]

ASSUME EfixAssumption ==
  /\ MAXPAGE \in Nat \ {0}
  /\ \A j \in EfixJobs :
       /\ j.files \in Seq(InFile(j.files))
       /\ \A n \in DOMAIN j.files : j.files[n].readable <= Len(j.files[n].pages)
       /\ \A page \in PagesIn(j.files) :
            /\ page.height \in Nat \cup {-1} /\ page.black_is_zero \in BOOLEAN
            /\ page.lines \in Seq(Seq({0, 1}) \ {<<>>})
       /\ j.overlay \in Seq(Seq({0, 1}))
       /\ j.w \in Nat \ {0} /\ j.h \in Nat /\ j.xs \in Nat \ {0} /\ j.ys \in Nat \ {0}
       /\ j.ixsh \in Int /\ j.iysh \in Int
       /\ \* xshift() by more than the width of a line leaves a negative run
          \A page \in PagesIn(j.files) : \A l \in DOMAIN page.lines :
            -j.ixsh <= (Len(page.lines[l]) * j.xs + 128) \div 256

VARIABLES efix, out

efixVars == <<efix, out>>

Raw == {"PBM", "TIFF_RAW", "PCX"}
FaxFormats == {"FAX", "TIFF_FAX"}
Headed == {"TIFF_RAW", "TIFF_FAX", "PCX"}   \* the header is written again at the end
Counted == FaxFormats \cup {"TIFF_RAW", "PCX"}      \* writeline() counts the lines
Restarted == FaxFormats \cup {"PCX"}                \* nextopage() sets the count to 0

----------------------------------------------------------------------------
(* Input *)

\* newIFILE(): the pages of the files, up to the first that cannot be read and
\* to as many as there is room for.
newIFILE(files) ==
  LET bad == {n \in DOMAIN files : files[n].readable < Len(files[n].pages)}
      good == IF bad = {} THEN files ELSE SubSeq(files, 1, Min(bad))
      all == FlattenSeq([n \in DOMAIN good |-> SubSeq(good[n].pages, 1, good[n].readable)])
  IN SubSeq(all, 1, IF Len(all) > MAXPAGE THEN MAXPAGE ELSE Len(all))

\* readline(): line n of a page, if there is one.
HasLine(page, n) == n <= Len(page.lines) /\ (page.height = -1 \/ n <= page.height)

readline(page, n) ==
  LET runs == bittorun(page.lines[n])
  IN IF page.black_is_zero THEN xinvert(runs) ELSE runs

----------------------------------------------------------------------------
(* Output *)

\* writeline(): what is read back from the file is bits.
LineInFile(format, runs) ==
  IF format \in Raw THEN runtobit(runs) ELSE Pixels(coderuns(runtocode(runs)))

writeline(o, format, runs, no) ==
  IF no <= 0 \/ o.pages = <<>> THEN o
  ELSE [pages |-> [o.pages EXCEPT ![Len(o.pages)].lines =
                     @ \o [n \in 1..no |-> LineInFile(format, runs)]],
        h |-> IF format \in Counted THEN o.h + no ELSE o.h]

\* nextopage(): the header of the last page is written again.
CloseOpage(o, format) ==
  IF o.pages = <<>> THEN o
  ELSE [o EXCEPT !.pages[Len(o.pages)] =
          [header |-> IF format \in Headed THEN o.h ELSE @.header,
           lines |-> @.lines, closed |-> TRUE]]

\* ... and a new page is begun.
nextopage(o, format) ==
  LET c == CloseOpage(o, format)
  IN [pages |-> Append(c.pages, [header |-> o.h, lines |-> <<>>, closed |-> FALSE]),
      h |-> IF format \in Restarted THEN 0 ELSE o.h]

----------------------------------------------------------------------------
(* main() *)

Unstarted == [pc |-> "start"]

InitEfix == efix = Unstarted /\ out = [pages |-> <<>>, h |-> 0]

White(w) == <<w>>

\* The width is rounded up to whole bytes.
Rounded(w) == w + ((-w) % ByteBits)

EfixStarts ==
  /\ efix.pc = "start"
  /\ \E job \in EfixJobs :
       efix' = [pc |-> "page", job |-> job, pages |-> newIFILE(job.files), page |-> 0,
                line |-> 0, ilines |-> 0, olines |-> 0, linesout |-> 0]
  /\ UNCHANGED out

\* A height in the image; 0 asks for that of each page.
Height(p) == IF efix.job.h > 0 THEN efix.job.h
             ELSE IF efix.pages[p].height > 0 THEN efix.pages[p].height ELSE 1

\* The next page is opened in the input and begun in the output; the image is
\* moved down by white lines, or up by lines left out.
EfixOpensPage ==
  /\ efix.pc = "page" /\ efix.page < Len(efix.pages)
  /\ LET job == efix.job
         p == efix.page + 1
         o == nextopage([out EXCEPT !.h = Height(p)], job.format)
         down == IF job.iysh > 0 THEN job.iysh ELSE 0
     IN /\ out' = writeline(o, job.format, White(Rounded(job.w)), down)
        /\ efix' = [efix EXCEPT !.pc = "line", !.page = p, !.ilines = 0, !.olines = 0,
                                !.linesout = down,
                                !.line = IF job.iysh < 0 THEN -job.iysh ELSE 0]

\* All lines that are wanted are out, or the page has no more.
PageEnds == \/ efix.linesout >= Height(efix.page)
            \/ ~HasLine(efix.pages[efix.page], efix.line + 1)

OverlayLine(runs, job, n) ==
  IF n <= Len(job.overlay) THEN runor(runs, bittorun(job.overlay[n])) ELSE runs

\* Scaled, shifted, and padded or cut to the width of the output.
Fitted(runs, job) ==
  LET scaled  == IF job.xs = 256 THEN runs ELSE xscale(runs, job.xs)
      shifted == IF job.ixsh = 0 THEN scaled ELSE xshift(scaled, job.ixsh)
      w == Rounded(job.w)
  IN IF Width(shifted) = w THEN shifted ELSE xpad(shifted, w - Width(shifted))

\* Lines are left out or repeated to scale the image downwards.
Repeats(ilines, olines, ys) == ((ilines * ys) \div 256) - olines

Copies_Bug(wanted, left) == wanted

Copies(wanted, left) == IF wanted > left THEN left ELSE wanted

EfixCopiesLine ==
  /\ efix.pc = "line" /\ ~PageEnds
  /\ LET job == efix.job
         n == efix.line + 1
         il == efix.ilines + 1
         over == OverlayLine(readline(efix.pages[efix.page], n), job, il)
         no == Copies(Repeats(il, efix.olines, job.ys), Height(efix.page) - efix.linesout)
     IN /\ out' = writeline(out, job.format, Fitted(over, job), no)
        /\ efix' = [efix EXCEPT !.line = n, !.ilines = il, !.olines = @ + no,
                                !.linesout = @ + no]

EfixPadsPage ==
  /\ efix.pc = "line" /\ PageEnds
  /\ LET left == Height(efix.page) - efix.linesout
     IN out' = writeline(out, efix.job.format, White(Rounded(efix.job.w)), left)
  /\ efix' = [efix EXCEPT !.pc = "page"]

\* nextopage(EOF)
EfixEnds ==
  /\ efix.pc = "page" /\ efix.page = Len(efix.pages)
  /\ out' = CloseOpage(out, efix.job.format)
  /\ efix' = [efix EXCEPT !.pc = "end"]

NextEfix == EfixStarts \/ EfixOpensPage \/ EfixCopiesLine \/ EfixPadsPage \/ EfixEnds

SpecEfix == InitEfix /\ [][NextEfix]_efixVars

----------------------------------------------------------------------------
(* Properties.  The picture is put together pixel by pixel.                 *)

\* The end of input pixel x when scaled.
ScaledEnd(x, xs) == (x * xs + 128) \div 256

\* The black pixels of line n of a page before it is scaled: of either image.
Inked(job, page, n, il) ==
  {x \in DOMAIN page.lines[n] : (page.lines[n][x] = 1) # page.black_is_zero}
  \cup (IF il \in DOMAIN job.overlay
        THEN {x \in DOMAIN job.overlay[il] : job.overlay[il][x] = 1} ELSE {})

\* The line that input line n of a page should become.
ShouldBe(job, page, n, il) ==
  [x \in 1..Rounded(job.w) |->
     IF \E y \in Inked(job, page, n, il) :
          ScaledEnd(y - 1, job.xs) < x - job.ixsh /\ x - job.ixsh <= ScaledEnd(y, job.xs)
     THEN 1 ELSE 0]

Blank(job) == [x \in 1..Rounded(job.w) |-> 0]

\* The line that should be at row y of the output for page p: il is the input
\* line that covers it after scaling, counted from the first that was read.
RowShouldBe(job, page, y) ==
  LET down == IF job.iysh > 0 THEN job.iysh ELSE 0
      up   == IF job.iysh < 0 THEN -job.iysh ELSE 0
      il   == Min({k \in 1..(Len(page.lines) + 1) :
                     k > Len(page.lines) \/ (k * job.ys) \div 256 >= y - down})
  IN IF y <= down \/ ~HasLine(page, il + up) THEN Blank(job)
     ELSE ShouldBe(job, page, il + up, il)

\* No line of a fax is longer than the longest run there are codes for.
RunsHaveCodes(job) == job.format \notin Raw => Rounded(job.w) <= MAXRUNLEN

\* What efix has written is the input laid under the overlay, scaled, shifted
\* and cut, line for line and pixel for pixel: the arithmetic on run lengths of
\* runor(), xscale(), xshift(), xpad(), xinvert() and the codes does to runs
\* what it should do to a picture, if there is a code for every run.
PagesArePictures ==
  \A p \in DOMAIN out.pages : \A y \in DOMAIN out.pages[p].lines :
    RunsHaveCodes(efix.job) => out.pages[p].lines[y] = RowShouldBe(efix.job, efix.pages[p], y)

\* A closed page has the height it was to have, however scaled and shifted, if
\* it was not moved down by more than that (main(): the lines above and below).
PagesAreFull ==
  \A p \in DOMAIN out.pages :
    out.pages[p].closed /\ efix.job.iysh <= Height(p)
      => Len(out.pages[p].lines) = Height(p)

OneHeight == \A p, q \in DOMAIN efix.pages : Height(p) = Height(q)

\* The height in the header of a closed page is the number of its lines, in a
\* file whose pages have one height and are not raw TIFF (nextopage(),
\* writeline(): the count is that of the page), if it was not moved down by more.
HeadersMatch ==
  efix.pc # "start" /\ OneHeight /\ efix.job.format \in Restarted \cap Headed =>
    \A p \in DOMAIN out.pages :
      out.pages[p].closed /\ efix.job.iysh <= Height(p)
        => out.pages[p].header = Len(out.pages[p].lines)

\* What efix makes is what it was asked for: the pixels, the size of the page and
\* the height in its header.
EfixTrue == PagesArePictures /\ PagesAreFull /\ HeadersMatch

=============================================================================
