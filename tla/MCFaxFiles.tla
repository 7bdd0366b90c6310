----------------------------- MODULE MCFaxFiles -----------------------------
(***************************************************************************)
(* What is done with the pages and files of faxes, each part with small    *)
(* constants: the conversion of pages (Efix), the coding of a page on its  *)
(* way (FaxPage), the printing of text (TextPrint), the folders of the fax *)
(* lists (FaxFolders) and the printing of faxes (FaxPrints).  The parts    *)
(* share nothing: a behaviour is one of one part, chosen at the start,     *)
(* while the others stay as they were.                                     *)
(***************************************************************************)
EXTENDS Efix, FaxPage, TextPrint, FaxFolders, FaxPrints

VARIABLE part

fileVars == <<part, efixVars, faxPageVars, textVars, foldersVars, printVars>>

Bits == [1..4 -> {0, 1}]

-----------------------------------------------------------------------------
(* Efix: every line of four pixels with an overlay line, widths that do and *)
(* do not fill bytes, scales and shifts; and files of several pages, some  *)
(* of them unreadable, of other heights than asked for.                    *)

Pg(h, inv, ls) == [height |-> h, black_is_zero |-> inv, lines |-> ls]
Readable(pgs, r) == [pages |-> pgs, readable |-> r]
Conversion(fs, ov, w, h, xs, ys, dx, dy, f) ==
  [files |-> fs, overlay |-> ov, w |-> w, h |-> h, xs |-> xs, ys |-> ys,
   ixsh |-> dx, iysh |-> dy, format |-> f]
L1 == <<1, 0, 0, 1>>
L2 == <<0, 1, 1, 0>>
L3 == <<1, 1, 0, 0>>
Across ==
  {Conversion(<<Readable(<<Pg(1, inv, <<b>>)>>, 1)>>, ov, w, 0, xs, 256, dx, 0, f) :
     b \in Bits, inv \in BOOLEAN, f \in {"PBM", "TIFF_FAX"},
     ov \in {<<>>, <<<<0, 1, 0, 0>>>>, <<<<1, 0, 1, 1, 0, 1>>>>},
     w \in {3, 6}, xs \in {100, 256, 400}, dx \in {-1, 0, 2}}
SameHeights ==
  {<<Readable(<<Pg(3, FALSE, <<L1, L2, L3>>), Pg(3, TRUE, <<L2, L1>>)>>, n)>> \o rest :
     n \in 0..2, rest \in {<<>>, <<Readable(<<Pg(-1, FALSE, <<L1, L2, L3>>)>>, 1)>>}}
OtherHeights ==
  {<<Readable(<<Pg(3, FALSE, <<L1, L2, L3>>), Pg(2, FALSE, <<L2, L1>>)>>, 1)>>}
Down(fs, formats) ==
  {Conversion(f, ov, 4, h, 256, ys, 0, dy, format) :
     f \in fs, ov \in {<<>>, <<L3, L3>>}, h \in {0, 2, 5}, ys \in {100, 256, 512},
     dy \in {-1, 0, 3}, format \in formats}
MCEfixJobs ==
  Across \cup Down(SameHeights, {"PBM", "TIFF_FAX", "PCX"}) \cup Down(OtherHeights, {"PBM"})

-----------------------------------------------------------------------------
(* The other parts.                                                        *)

MCPageSources ==
  {<<a, b, <<1, 1, 0, 0>>>> : a, b \in Bits} \cup {<<a>> : a \in [1..6 -> {0, 1}]} \cup {<<>>}
MCHeaderRows == <<<<0, 1, 0>>, <<0, 1, 1>>, <<1, 0, 0>>>>
MCKeystream == <<1, 258, 3, 2, 1, 3, 2, 2, 1, 3, 1, 2>>
MCResolutions == {<<0, 0>>, <<1, 0>>, <<1, 1>>}

MCTexts == UNION {[1..n -> {1, 2, 4}] : n \in 0..4}

\* "A" is how "AB" begins, in FaxFolders.
MCBegins == {<<"A", "B">>}

-----------------------------------------------------------------------------
Init ==
  /\ part \in {"efix", "page", "text", "folders", "prints"}
  /\ InitEfix /\ InitFaxPage /\ InitText /\ InitFolders /\ InitPrints

Next ==
  /\ \/ /\ part = "efix" /\ NextEfix
        /\ UNCHANGED <<faxPageVars, textVars, foldersVars, printVars>>
     \/ /\ part = "page" /\ NextFaxPage
        /\ UNCHANGED <<efixVars, textVars, foldersVars, printVars>>
     \/ /\ part = "text" /\ NextText
        /\ UNCHANGED <<efixVars, faxPageVars, foldersVars, printVars>>
     \/ /\ part = "folders" /\ NextFolders
        /\ UNCHANGED <<efixVars, faxPageVars, textVars, printVars>>
     \/ /\ part = "prints" /\ NextPrints
        /\ UNCHANGED <<efixVars, faxPageVars, textVars, foldersVars>>
  /\ UNCHANGED part

Spec == Init /\ [][Next]_fileVars

=============================================================================
