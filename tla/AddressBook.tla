---------------------------- MODULE AddressBook ----------------------------
(***************************************************************************)
(* The address book (addressbook.cpp): a list of names and numbers shown in *)
(* a modal dialog, which is written anew to a file of the working directory *)
(* at every change, and read from it when the dialog is opened.  There is  *)
(* no other copy.                                                          *)
(*                                                                         *)
(* A name or a number stands for a class of strings: "" for none, some     *)
(* plain ones, "wide" for one that the codeset of the locale cannot        *)
(* express; in the file "raw" for bytes that are not valid in this codeset. *)
(* A column that read_list() could not fill is "null".  A line of the file *)
(* without a divider has its text in both columns.                         *)
(***************************************************************************)
EXTENDS Naturals, Sequences, SequencesExt

CONSTANTS
  AddressTexts,          \* the classes of strings, those named above among them
  FirstBooks,     \* what the file may hold at first, a sequence of lines
  Entered,        \* the names and the numbers that the user may enter
  MaxRows,        \* bound: rows
  MaxBookChanges  \* bound: changes to the list

VARIABLES
  bookfile,    \* ADDRESS_FILE: a sequence of lines
  rows,        \* list_store: a sequence of rows, <<>> when the dialog is shut
  shown,       \* is the dialog open
  pick,        \* the row that is selected, or 0
  bookChanges, \* the changes so far
  kept         \* history: the rows last shown, or Lost when a save went wrong

bookVars == <<bookfile, rows, shown, pick, bookChanges, kept>>

Lost == <<[name |-> "lost", number |-> "lost"]>>

BookLine == [name : AddressTexts, number : AddressTexts, divided : BOOLEAN]

ASSUME BookAssumption ==
  /\ {"", "wide", "raw", "null"} \subseteq AddressTexts
  /\ FirstBooks \subseteq Seq(BookLine)
  /\ Entered \subseteq AddressTexts \ {"raw", "null"}
  /\ MaxRows \in Nat /\ MaxBookChanges \in Nat

-----------------------------------------------------------------------------
(* Reading and writing.  A blank line is skipped.                          *)

\* Text from the file in a column of the list.
Column(text) == IF text = "raw" THEN "null" ELSE text

\* The row that a line makes, if it is not blank.
RowOf(line) ==
  IF line.name = "" /\ ~line.divided THEN <<>>
  ELSE <<[name |-> Column(line.name),
          number |-> Column(IF line.divided THEN line.number ELSE line.name)]>>

read_list(lines) == FlattenSeq([n \in 1..Len(lines) |-> RowOf(lines[n])])

\* A line ends where its text cannot be converted.
Line(row) ==
  CASE row.name = "wide" -> [name |-> "", number |-> "", divided |-> FALSE]
    [] row.name # "wide" /\ row.number = "wide" -> [name |-> row.name, number |-> "", divided |-> TRUE]
    [] OTHER -> [name |-> row.name, number |-> row.number, divided |-> TRUE]

Lines(list) == [i \in 1..Len(list) |-> Line(list[i])]

\* A null column is given to std::string, which throws what nobody catches.
Deadly(row) == "null" \in {row.name, row.number}

\* save_list() with this list: it empties the file, then writes row by row.  The
\* file may not open; and the program dies at a row with a null column, or by
\* chance, with a part of what it wrote in the file.
SaveDies(list) ==
  /\ \E n \in 0..Len(list) :
       /\ \A i \in 1..n : ~Deadly(list[i])
       /\ bookfile' = Lines(SubSeq(list, 1, n))
  /\ shown' = FALSE /\ rows' = <<>> /\ pick' = 0 /\ kept' = Lost

save_list(list) ==
  \/ /\ \A i \in 1..Len(list) : ~Deadly(list[i])
     /\ bookfile' = Lines(list) /\ kept' = list
     /\ rows' = list /\ shown' = TRUE
  \/ /\ bookfile' = bookfile /\ kept' = Lost
     /\ rows' = list /\ shown' = TRUE

\* A change of the list, which is saved at once.
Changed(list, selection) ==
  /\ bookChanges < MaxBookChanges
  /\ bookChanges' = bookChanges + 1
  /\ \/ save_list(list) /\ pick' = selection
     \/ SaveDies(list)

-----------------------------------------------------------------------------
(* The dialog.                                                             *)

OpenBook ==
  /\ ~shown
  /\ shown' = TRUE /\ rows' = read_list(bookfile) /\ pick' = 0
  /\ kept' = read_list(bookfile)
  /\ UNCHANGED <<bookfile, bookChanges>>

\* OK, which needs a number and hands it over, Cancel, or the window is closed.
CloseBook ==
  /\ shown
  /\ shown' = FALSE /\ rows' = <<>> /\ pick' = 0
  /\ UNCHANGED <<bookfile, bookChanges, kept>>

Pick(i) ==
  /\ shown /\ i # pick
  /\ pick' = i
  /\ UNCHANGED <<bookfile, rows, shown, bookChanges, kept>>

\* The dialog for a new address takes any text that is not empty.
add_address_impl(name, number) ==
  /\ shown /\ name # "" /\ number # ""
  /\ Len(rows) < MaxRows
  /\ Changed(Append(rows, [name |-> name, number |-> number]), pick)

\* After the prompt.  Removing the row saves the list, before it is saved again.
delete_address_impl ==
  /\ shown /\ pick # 0
  /\ Changed(RemoveAt(rows, pick), 0)

\* The rows i and i + 1 change their places.
Swapped(list, i) == [list EXCEPT ![i] = list[i + 1], ![i + 1] = list[i]]

move_up_impl_Bug ==
  /\ shown /\ pick > 1
  /\ bookChanges < MaxBookChanges /\ bookChanges' = bookChanges + 1
  /\ rows' = Swapped(rows, pick - 1) /\ pick' = pick - 1 /\ kept' = rows'
  /\ UNCHANGED <<bookfile, shown>>
move_up_impl == shown /\ pick > 1 /\ Changed(Swapped(rows, pick - 1), pick - 1)

move_down_impl == shown /\ pick \in 1..(Len(rows) - 1) /\ Changed(Swapped(rows, pick), pick + 1)

\* A row is dragged to another place: a copy of it is put in, and removing the
\* first one saves the list.
drag_n_drop(i, j) ==
  /\ shown /\ i # j
  /\ Changed(InsertAt(RemoveAt(rows, i), j, rows[i]), 0)

-----------------------------------------------------------------------------
InitBook ==
  /\ bookfile \in FirstBooks
  /\ rows = <<>> /\ shown = FALSE /\ pick = 0
  /\ bookChanges = 0 /\ kept = Lost

NextBook ==
  \/ OpenBook \/ CloseBook
  \/ \E i \in 1..Len(rows) : Pick(i)
  \/ \E name, number \in Entered : add_address_impl(name, number)
  \/ delete_address_impl \/ move_up_impl \/ move_down_impl
  \/ \E i, j \in 1..Len(rows) : drag_n_drop(i, j)

SpecBook == InitBook /\ [][NextBook]_bookVars

-----------------------------------------------------------------------------
\* A row that the file can express, and such rows of a list.
Storable(row) == {row.name, row.number} \cap {"", "wide", "null"} = {}

Storables(list) ==
  FlattenSeq([n \in 1..Len(list) |-> IF Storable(list[n]) THEN <<list[n]>> ELSE <<>>])

(* The book that is opened has the addresses that the last one showed, in  *)
(* their order and with the numbers that belong to them, whatever was      *)
(* added, deleted, moved or dragged: every way to change the list saves it, *)
(* and what is written is what is read.  Text that the codeset of the      *)
(* locale lacks is lost, and so is what a save that failed should have     *)
(* written.                                                                *)
BookIsKept ==
  [][ ~shown /\ shown' /\ kept # Lost
      => Storables(rows') = Storables(kept) ]_bookVars

=============================================================================
