----------------------------- MODULE FaxFolders -----------------------------
(***************************************************************************)
(* The folders of the received faxes (or of the sent ones): FaxListManager *)
(* with the prompts of FaxListDialog.  The tree is in the widgets while    *)
(* the dialog is open; on the disk each fax has a Path file in its         *)
(* directory, and the file PathList names every folder.  The disk follows  *)
(* the tree when it is saved: by a timer, by the making and deleting of a  *)
(* folder, by the deleting of a fax, and when the dialog closes.           *)
(*                                                                         *)
(* A row of the tree is the sequence of the names down to it, each with a  *)
(* number that tells rows apart that have one path.                        *)
(***************************************************************************)
EXTENDS Naturals, Sequences, FiniteSets, SequencesExt

CONSTANTS
  Faxes,        \* names of fax directories
  FolderNames,  \* names the user gives to folders
  Base, Trash,  \* "Inbox" or "Sent box", and "Trash"
  Begins,       \* pairs of names the first of which begins the second
  MaxFolders,   \* bound: rows while folders are made and moved
  MaxFolderFaults \* bound: ends of the program without a save, and directories
                  \* that cannot be opened or removed

ASSUME FolderAssumption ==
  /\ Base \notin FolderNames /\ Trash \notin FolderNames /\ Base # Trash
  /\ Begins \subseteq (FolderNames \X FolderNames)
  /\ MaxFolders \in Nat /\ MaxFolderFaults \in Nat

VARIABLES
  listOpen,  \* there is a dialog
  tree,      \* faxes of each row: folder_row_to_fax_model_map
  folderSet, \* names in the FolderNameValidator
  paths,     \* Path of each fax directory on the disk; <<>> if it has none
  pathList,  \* PathList: a set of paths
  unsaved,   \* auxiliary: the tree has changed since it was saved
  torn,      \* auxiliary: the program has ended within a save
  doomed,    \* auxiliary: faxes that were deleted, or were to be
  folderFaults \* [crashes, failures] so far

foldersVars == <<listOpen, tree, folderSet, paths, pathList, unsaved, torn, doomed, folderFaults>>

FaultsLeft == MaxFolderFaults - (folderFaults.crashes + folderFaults.failures)

----------------------------------------------------------------------------
(* Rows and paths *)

BaseRow  == <<<<Base, 1>>>>
TrashRow == <<<<Trash, 1>>>>

\* get_pathname_for_folder()
Pathname(row) == [i \in DOMAIN row |-> row[i][1]]

RowName(row) == Last(row)[1]

Below(t, row) == {r \in DOMAIN t : IsPrefix(row, r)}

HasChild(t, row) == Below(t, row) # {row}

\* A row of this name in this level which the tree has not.
NewRow(rows, level, name) ==
  LET copy(c) == Append(level, <<name, c>>)
  IN copy(CHOOSE c \in 1..(Cardinality(rows) + 1) :
            copy(c) \notin rows /\ \A d \in 1..(c - 1) : copy(d) \in rows)

\* is_valid_drop_path(): find() and size() on the path names, as strings.
BeginsPath(old, new) ==
  /\ Len(old) <= Len(new)
  /\ Front(old) = SubSeq(new, 1, Len(old) - 1)
  /\ \/ Last(old) = new[Len(old)] /\ Len(old) < Len(new)
     \/ <<Last(old), new[Len(old)]>> \in Begins

is_valid_drop_path(old, new) == ~BeginsPath(old, new)

----------------------------------------------------------------------------
(* Reading the tree: populate_fax_list(), get_folders(), insert_fax_on_populate() *)

RowOf(path) == [i \in DOMAIN path |-> <<path[i], 1>>]

\* get_folders() makes what a Path names too, and every folder on the way.
NamedPaths(ps, list) ==
  LET given == (list \cup {ps[f] : f \in DOMAIN ps} \cup {<<Base>>, <<Trash>>}) \ {<<>>}
  IN UNION {{SubSeq(p, 1, n) : n \in 1..Len(p)} : p \in given}

\* A fax without a Path is put in the base folder.
FolderOfFax(ps, f) == IF ps[f] = <<>> THEN <<Base>> ELSE ps[f]

Populated(ps, list) ==
  [row \in {RowOf(p) : p \in NamedPaths(ps, list)} |->
     {f \in DOMAIN ps : RowOf(FolderOfFax(ps, f)) = row}]

NamesRead(t) == {RowName(r) : r \in DOMAIN t}

InitFolders ==
  /\ listOpen = FALSE /\ tree = <<>> /\ folderSet = {}
  /\ paths = <<>> /\ pathList = {} /\ unsaved = FALSE /\ torn = FALSE
  /\ doomed = {} /\ folderFaults = [crashes |-> 0, failures |-> 0]

OpensList ==
  /\ ~listOpen
  /\ listOpen' = TRUE
  /\ tree' = Populated(paths, pathList)
  /\ folderSet' = NamesRead(tree')
  /\ unsaved' = FALSE
  /\ UNCHANGED <<paths, pathList, torn, doomed, folderFaults>>

\* A fax has been stored, and is put in the list if there is one:
\* insert_new_fax_in_base().
NewFax ==
  \E f \in Faxes \ (DOMAIN paths \cup doomed) :
    /\ paths' = [g \in DOMAIN paths \cup {f} |-> IF g = f THEN <<>> ELSE paths[g]]
    /\ tree' = IF listOpen THEN [tree EXCEPT ![BaseRow] = @ \cup {f}] ELSE tree
    /\ UNCHANGED <<listOpen, folderSet, pathList, unsaved, torn, doomed, folderFaults>>

----------------------------------------------------------------------------
(* Saving the tree: write_path(), write_paths_for_level() *)

Listed(t) == UNION {t[r] : r \in DOMAIN t}

RowWith(t, f) == CHOOSE r \in DOMAIN t : f \in t[r]

PathsWritten_Bug(t, ps, fs) ==
  [f \in DOMAIN ps |-> IF f \in fs /\ ps[f] = <<>> THEN Pathname(RowWith(t, f)) ELSE ps[f]]

\* The Path files of these faxes written; there is none for a fax whose
\* directory is gone.
PathsWritten(t, ps, fs) ==
  [f \in DOMAIN ps |-> IF f \in fs THEN Pathname(RowWith(t, f)) ELSE ps[f]]

Saves(t, ps) ==
  /\ pathList' = {Pathname(r) : r \in DOMAIN t}
  /\ paths' = PathsWritten(t, ps, Listed(t))
  /\ unsaved' = FALSE
  /\ UNCHANGED torn

\* Faxes are written folder by folder, a folder before those below it.
WrittenFirst(t, fs) ==
  \A f \in fs, g \in Listed(t) :
    RowWith(t, g) # RowWith(t, f) /\ IsPrefix(RowWith(t, g), RowWith(t, f)) => g \in fs

\* The program ends in the middle: PathList was truncated first and is flushed
\* last, some faxes have their Path, and one may have had it truncated.
DiesSaving(t, ps) ==
  /\ FaultsLeft > 0
  /\ \E fs \in SUBSET Listed(t) :
       /\ WrittenFirst(t, fs)
       /\ \E cut \in SUBSET (Listed(t) \ fs) :
            /\ Cardinality(cut) <= 1
            /\ paths' = [f \in DOMAIN ps |->
                           IF f \in cut THEN <<>> ELSE PathsWritten(t, ps, fs)[f]]
  /\ pathList' = {}
  /\ tree' = <<>> /\ unsaved' = FALSE /\ torn' = TRUE
  /\ folderFaults' = [folderFaults EXCEPT !.crashes = @ + 1]

WritesPath(t, ps, open) ==
  \/ /\ Saves(t, ps) /\ UNCHANGED folderFaults
     /\ listOpen' = open /\ tree' = IF open THEN t ELSE <<>>
  \/ DiesSaving(t, ps) /\ listOpen' = FALSE

TimerSaves ==
  /\ listOpen /\ WritesPath(tree, paths, TRUE)
  /\ UNCHANGED <<folderSet, doomed>>

\* The destructor saves the tree.
ClosesList ==
  /\ listOpen /\ WritesPath(tree, paths, FALSE)
  /\ UNCHANGED <<folderSet, doomed>>

ListCrashes ==
  /\ listOpen /\ FaultsLeft > 0
  /\ listOpen' = FALSE /\ tree' = <<>> /\ unsaved' = FALSE
  /\ folderFaults' = [folderFaults EXCEPT !.crashes = @ + 1]
  /\ UNCHANGED <<folderSet, paths, pathList, torn, doomed>>

----------------------------------------------------------------------------
(* Folders *)

MakesFolder ==
  /\ listOpen /\ Cardinality(DOMAIN tree) < MaxFolders
  /\ \E n \in FolderNames \ folderSet :
       /\ LET row == NewRow(DOMAIN tree, <<>>, n)
          IN WritesPath([r \in DOMAIN tree \cup {row} |-> IF r = row THEN {} ELSE tree[r]],
                        paths, TRUE)
       /\ folderSet' = folderSet \cup {n}
  /\ UNCHANGED doomed

\* is_selected_folder_empty()
FolderEmpty_Bug(t, row) == t[row] = {}

FolderEmpty(t, row) == t[row] = {} /\ ~HasChild(t, row)

\* is_selected_folder_permanent()
Permanent(row) == row \in {BaseRow, TrashRow}

DeletesFolder ==
  /\ listOpen
  /\ \E row \in DOMAIN tree :
       /\ ~Permanent(row) /\ FolderEmpty(tree, row)
       /\ WritesPath([r \in DOMAIN tree \ {row} |-> tree[r]], paths, TRUE)
       /\ folderSet' = folderSet \ {RowName(row)}
  /\ UNCHANGED doomed

\* move_folder(), move_child_folders_for_level(): the rows of a folder, with
\* their faxes, hang on another.
Rehung(t, row, new) ==
  LET to(r) == IF r \in Below(t, row) THEN new \o SubSeq(r, Len(row) + 1, Len(r)) ELSE r
      rows  == {to(r) : r \in DOMAIN t}
  IN [n \in rows |-> t[CHOOSE r \in DOMAIN t : to(r) = n]]

\* A folder is dropped into another, or before or after it.
MovesFolder ==
  /\ listOpen /\ Cardinality(DOMAIN tree) <= MaxFolders
  /\ \E row, dest \in DOMAIN tree, into \in BOOLEAN :
       LET level == IF into THEN dest ELSE Front(dest)
           name  == RowName(row)
       IN /\ Pathname(row) # Pathname(dest)
          /\ is_valid_drop_path(Pathname(row), Append(Pathname(level), name))
          /\ Permanent(row) => level = <<>>
          /\ tree' = Rehung(tree, row, NewRow(DOMAIN tree \ Below(tree, row), level, name))
  /\ unsaved' = TRUE
  /\ UNCHANGED <<listOpen, folderSet, paths, pathList, torn, doomed, folderFaults>>

----------------------------------------------------------------------------
(* Faxes *)

\* move_fax(); to the trash by the Delete button.
FaxesMoved(t, row, dest, fs) == [t EXCEPT ![row] = @ \ fs, ![dest] = @ \cup fs]

MovesFaxes ==
  /\ listOpen
  /\ \E row \in DOMAIN tree : \E dest \in DOMAIN tree \ {row}, fs \in SUBSET tree[row] \ {{}} :
       tree' = FaxesMoved(tree, row, dest, fs)
  /\ unsaved' = TRUE
  /\ UNCHANGED <<listOpen, folderSet, paths, pathList, torn, doomed, folderFaults>>

\* What is left of the directories of these faxes, some of which cannot be
\* opened and some not be removed once their files are.
Removed(ps, fs, closed, stuck) ==
  [f \in (DOMAIN ps \ fs) \cup closed \cup stuck |-> IF f \in stuck THEN <<>> ELSE ps[f]]

\* Those it fails for, within the bound.
Failing(fs) == {x \in SUBSET fs : Cardinality(x) <= FaultsLeft}

\* delete_fax() in the trash folder: a fax that fails stays in the list.
DeletesFaxes ==
  /\ listOpen
  /\ \E fs \in SUBSET tree[TrashRow] \ {{}} :
       \E closed \in Failing(fs) : \E stuck \in Failing(fs \ closed) :
         /\ Cardinality(closed \cup stuck) <= FaultsLeft
         /\ doomed' = doomed \cup fs
         /\ LET t  == [tree EXCEPT ![TrashRow] = (@ \ fs) \cup closed \cup stuck]
                ps == Removed(paths, fs, closed, stuck)
            IN \/ /\ Saves(t, ps) /\ tree' = t /\ UNCHANGED listOpen
                  /\ folderFaults' = [folderFaults EXCEPT
                                        !.failures = @ + Cardinality(closed \cup stuck)]
               \/ DiesSaving(t, ps) /\ listOpen' = FALSE
  /\ UNCHANGED folderSet

\* empty_trash_folder(): the list is cleared whatever failed, and not saved.
EmptiesTrash ==
  /\ listOpen /\ tree[TrashRow] # {}
  /\ \E closed \in Failing(tree[TrashRow]) : \E stuck \in Failing(tree[TrashRow] \ closed) :
       /\ Cardinality(closed \cup stuck) <= FaultsLeft
       /\ paths' = Removed(paths, tree[TrashRow], closed, stuck)
       /\ folderFaults' = [folderFaults EXCEPT !.failures = @ + Cardinality(closed \cup stuck)]
  /\ doomed' = doomed \cup tree[TrashRow]
  /\ tree' = [tree EXCEPT ![TrashRow] = {}]
  /\ UNCHANGED <<listOpen, folderSet, pathList, unsaved, torn>>

NextFolders ==
  \/ OpensList \/ NewFax \/ TimerSaves \/ ClosesList \/ ListCrashes
  \/ MakesFolder \/ DeletesFolder \/ MovesFolder
  \/ MovesFaxes \/ DeletesFaxes \/ EmptiesTrash

SpecFolders == InitFolders /\ [][NextFolders]_foldersVars

----------------------------------------------------------------------------
(* Properties *)

\* Types, and the disk and the tree name only what there is.
FoldersTypeOK ==
  /\ listOpen \in BOOLEAN /\ unsaved \in BOOLEAN /\ torn \in BOOLEAN
  /\ folderSet \subseteq FolderNames \cup {Base, Trash}
  /\ DOMAIN paths \subseteq Faxes /\ doomed \subseteq Faxes
  /\ Listed(tree) \subseteq DOMAIN paths
  /\ listOpen <=> tree # <<>>

\* Every fax that is stored and that nobody deleted is in one folder of the
\* list, once, after any moves of faxes and folders, failures and crashes
\* (move_fax(), delete_folder(), populate_fax_list()).
FaxesListed ==
  listOpen =>
    \A f \in DOMAIN paths \ doomed : Cardinality({r \in DOMAIN tree : f \in tree[r]}) = 1

\* Every row hangs on a row of the tree, and the permanent folders stay at the
\* root (is_valid_drop_path(), root_only): a folder that is dropped below itself
\* would be removed with all it holds.
TreeIsRooted ==
  listOpen =>
    /\ \A r \in DOMAIN tree : \A n \in 1..Len(r) : SubSeq(r, 1, n) \in DOMAIN tree
    /\ {BaseRow, TrashRow} \subseteq DOMAIN tree

\* No two folders have one name, whatever is made, deleted, moved and read
\* back (FolderNameValidator), unless the program once ended within a save or
\* left the directory of a deleted fax behind.
FolderNamesUnique ==
  listOpen /\ ~torn /\ folderFaults.failures = 0 =>
    \A r, s \in DOMAIN tree : RowName(r) = RowName(s) => r = s

\* The tree is one of folders that can be told apart, with each fax in one.
FoldersSound == FoldersTypeOK /\ FaxesListed /\ TreeIsRooted /\ FolderNamesUnique

Layout(t) == [names |-> {Pathname(r) : r \in DOMAIN t},
              faxes |-> {<<Pathname(RowWith(t, f)), f>> : f \in Listed(t)}]

\* A tree that was saved is what the next start reads, empty folders and folders
\* within folders included (write_path() against populate_fax_list()).
SavedIsRestored ==
  listOpen /\ ~unsaved /\ ~torn /\ folderFaults.failures = 0 =>
    Layout(Populated(paths, pathList)) = Layout(tree)

=============================================================================
