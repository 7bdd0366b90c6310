------------------------------ MODULE Settings ------------------------------
(***************************************************************************)
(* The settings of efax-gtk: the configuration file, read both by the      *)
(* program (configure_prog() in main.cpp) and by the dialog that edits it  *)
(* (SettingsDialog in settings.cpp), each with a parser of its own, and    *)
(* written by the dialog, which keeps the lines it does not know.          *)
(*                                                                         *)
(* A configuration file is a sequence of lines.  A line is the name of its *)
(* setting (or of something the dialog does not edit), whether it is in    *)
(* force or commented out, and its value.  A value stands for a class of   *)
(* strings: "" for none, "a" for a plain string, "a#" for one that holds a *)
(* `#', and others, not all of them ASCII, which a codeset has or has not. *)
(* A number is "min" (the lowest that its spin button takes), "usual" (the *)
(* default), "other", "odd" (one that atoi() takes but that has more       *)
(* characters) or "bad".  Letter case, the blanks around a value and the   *)
(* terminating line are left out.                                          *)
(*                                                                         *)
(* The program works in UTF-8.  What it writes to the file and reads from  *)
(* it is converted to and from the codeset of the locale or that of file   *)
(* names, or not converted, setting by setting: the table of the pages     *)
(* below says how, for the writer and for either parser.                   *)
(***************************************************************************)
EXTENDS Naturals, Sequences, FiniteSets, SequencesExt

CONSTANTS
  LineNames,   \* what a line may set: the settings, and what the dialog does not edit
  Values,      \* the classes of values, those named above among them
  Foreign,     \* those that are not ASCII
  Utf8Texts,   \* those that are UTF-8, which all of ASCII is
  Codesets,    \* the codesets there are
  Utf8,        \* one of them
  Locales,     \* which of them the locale and file names may have
  Has(_, _),   \* whether a codeset has the characters of a text
  Encode(_, _), \* glib: the bytes of such a text in a codeset
  Decode(_, _), \* glib: the text of some bytes read in a codeset, "" if they are none
  KeySets,     \* the sets of settings that are followed, one of them at a time
  HomeFiles(_),   \* for a set of settings, what ~/.efax-gtkrc may be at first
  SharedFiles(_), \* and what RC_DIR/efax-gtkrc may be
  Typed(_),    \* what the user may enter for a setting
  MaxEdits,    \* bound: fields edited, or resets, in one showing of the dialog
  MaxSettingSteps  \* bound: times that the dialog is opened, plus starts

VARIABLES
  keys,     \* the settings that are followed, constant
  codesets, \* the codesets of "locale" and "filename", constant; "utf8" is Utf8
  homeRc,   \* ~/.efax-gtkrc: a sequence of lines, or NoFile
  sharedRc, \* RC_DIR/efax-gtkrc, which the program never writes
  prog,     \* prog_config: what the program runs with
  workdir,  \* prog_config.working_dir below the home directory
  dialog,   \* the SettingsDialog, or Shut
  agreed,   \* history: the fields last accepted with OK, or NoFields
  settingSteps \* the times that the dialog was opened, plus starts

settingVars == <<keys, codesets, homeRc, sharedRc, prog, workdir, dialog, agreed, settingSteps>>

NoFile == <<[key |-> "no file", on |-> FALSE, val |-> ""]>>
Shut == [open |-> FALSE]
NoFields == [none |-> TRUE]

-----------------------------------------------------------------------------
(* The pages of the dialog.  For each setting: the sort of its widget, what *)
(* the constructor of the page leaves in it, and what clear() does with it. *)

\* The codesets in which write_config() writes it, read_config() shows it and
\* configure_prog() runs with it.
Text(write, show, run) ==
  [sort |-> "text", first |-> "", clear |-> "", write |-> write, show |-> show, run |-> run]
InLocale == Text("locale", "locale", "locale")
InFilename == Text("filename", "filename", "filename")
Unconverted == Text("utf8", "locale", "locale")
Command == Text("filename", "locale", "locale")
Box(first, clear) == [sort |-> "box", first |-> first, clear |-> clear]
Radio(first, clear, options) ==
  [sort |-> "radio", first |-> first, clear |-> clear, options |-> options]
Spin(first) == [sort |-> "spin", first |-> first, clear |-> "usual"]

IdentityPage == [NAME |-> InLocale, NUMBER |-> Unconverted]

ModemPage ==
  [DEVICE |-> InLocale, LOCK |-> InFilename, CAPABILITIES |-> Unconverted,
   RINGS |-> Spin("usual"), CLASS |-> Radio("", "", {"1", "2", "2.0"}),
   DIALMODE |-> Radio("tone", "tone", {"tone", "pulse"})]

ParmsPage == [INIT |-> Unconverted, RESET |-> Unconverted, PARMS |-> Unconverted]

\* clear() leaves both boxes as they are; the spin button starts at its lowest.
PrintPage ==
  [USE_GTKPRINT |-> Box("No", "keep"), PRINT_CMD |-> Command,
   PRINT_SHRINK |-> Spin("min"), PRINT_POPUP |-> Box("Yes", "keep")]

ViewPage == [PS_VIEWER |-> Command]

\* clear() makes the radio button for other addresses inactive, which has no
\* effect on the active button of a group.
SockPage ==
  [SOCK_SERVER |-> Box("No", "No"), SOCK_POPUP |-> Box("No", "No"),
   SOCK_SERVER_PORT |-> Spin("min"),
   SOCK_CLIENT_ADDRESS |-> Radio("localhost", "keep", {"localhost", "other"}),
   SOCK_OTHER_ADDRESSES |-> Unconverted]

ReceivePage ==
  [FAX_RECEIVED_POPUP |-> Box("No", "No"), FAX_RECEIVED_EXEC |-> Box("No", "No"),
   FAX_RECEIVED_PROG |-> Text("filename", "locale", "filename")]

SendPage ==
  [RES |-> Radio("fine", "fine", {"fine", "standard"}),
   ADDR_IN_HEADER |-> Box("Yes", "keep"), DIAL_PREFIX |-> InLocale]

LoggingPage == [LOG_FILE |-> InFilename]

PagePage == [PAGE |-> Radio("a4", "a4", {"a4", "letter", "legal"})]

Notebook == <<IdentityPage, ModemPage, ParmsPage, PrintPage, ViewPage,
              SockPage, ReceivePage, SendPage, LoggingPage, PagePage>>

AllKeys == UNION {DOMAIN Notebook[n] : n \in DOMAIN Notebook}

Pages == [k \in AllKeys |-> Notebook[CHOOSE n \in DOMAIN Notebook : k \in DOMAIN Notebook[n]][k]]

\* The classes of values that a field can have, and those that a line of a file
\* that sets it can give: a button shows one of its choices.
FieldValue(k, v) ==
  LET w == Pages[k] IN
  CASE w.sort = "text"  -> v \in Utf8Texts
    [] w.sort = "box"   -> v \in {"Yes", "No"}
    [] w.sort = "radio" -> v \in w.options \cup {w.first}
    [] w.sort = "spin"  -> v \in {"min", "usual", "other"}

FileValue(k, v) ==
  LET w == Pages[k] IN
  CASE w.sort = "text"  -> TRUE
    [] w.sort = "box"   -> v \in {"Yes", "No", "", "bad"}
    [] w.sort = "radio" -> v \in w.options \cup {"", "bad"}
    [] w.sort = "spin"  -> v \in {"min", "usual", "other", "odd", "", "bad"}

RcLine == [key : LineNames, on : BOOLEAN, val : Values]

\* A configuration file, or none.
IsRc(lines) ==
  \/ lines = NoFile
  \/ /\ lines \in Seq(RcLine)
     /\ \A n \in DOMAIN lines :
          /\ lines[n].key # "no file"
          /\ lines[n].on /\ lines[n].key \in AllKeys => FileValue(lines[n].key, lines[n].val)

\* The classes that the program itself writes or tells apart.
Known == {"", "a", "a#", "default", "min", "usual", "other", "Yes", "No"}
  \cup UNION {Pages[k].options \cup {Pages[k].first} : k \in {q \in AllKeys : Pages[q].sort = "radio"}}

ASSUME SettingsAssumption ==
  /\ AllKeys \subseteq LineNames
  /\ Known \subseteq Values \ Foreign
  /\ \A K \in KeySets :
      /\ K \subseteq AllKeys /\ IsFiniteSet(K)
      /\ \A lines \in HomeFiles(K) \cup SharedFiles(K) : IsRc(lines)
      /\ \A k \in K : \A v \in Typed(k) : v \in Values /\ FieldValue(k, v)

\* ASCII is the same in every codeset; a text that a codeset has is read as it
\* was if it is read in the same one; and UTF-8 has every text, as it is.
ASSUME CodesetAssumption ==
  /\ Foreign \subseteq Values /\ Utf8Texts \subseteq Values /\ Values \ Foreign \subseteq Utf8Texts
  /\ Utf8 \in Codesets
  /\ \A c \in Codesets : \A v \in Values :
      /\ Encode(c, v) \in Values /\ Decode(c, v) \in Utf8Texts
      /\ v \notin Foreign => Has(c, v) /\ Encode(c, v) = v /\ Decode(c, v) = v
      /\ v \in Foreign => Decode(c, v) \in Foreign \cup {""}
      /\ v \in Utf8Texts /\ Has(c, v) => Decode(c, Encode(c, v)) = v
  /\ \A v \in Utf8Texts : Has(Utf8, v) /\ Encode(Utf8, v) = v
  /\ \A choice \in Locales :
      choice \in [{"utf8", "locale", "filename"} -> Codesets] /\ choice["utf8"] = Utf8

-----------------------------------------------------------------------------
(* Reading a line.                                                         *)

\* What is left of a value that is cut at a `#'.
Cut(line) == IF line.val = "a#" THEN "a" ELSE line.val

\* The codesets from which either parser converts the line of a setting.
RunsFrom == [k \in LineNames |->
  IF k \in AllKeys /\ Pages[k].sort = "text" THEN Pages[k].run
  ELSE IF k = "WORK_SUBDIR" THEN "filename" ELSE "locale"]
ShownFrom == [k \in LineNames |->
  IF k \in AllKeys /\ Pages[k].sort = "text" THEN Pages[k].show ELSE "locale"]

\* A value that cannot be converted leaves an empty string.
Value(line, from) == Decode(codesets[from[line.key]], Cut(line))

Sets(line) == line.on /\ line.key \in keys

\* The value that is there once the lines of a set have been read, one by one:
\* get_prog_parm() leaves the result as it was when a line gives no value.
get_prog_parm(lines, S, result, from) ==
  LET giving == {n \in S : Cut(lines[n]) # ""}
  IN IF giving = {} THEN result ELSE Value(lines[Max(giving)], from)

is_ascii(v) == v \notin Foreign

\* What the set functions of the pages make of a value.
SetField(k, old, v) ==
  LET w == Pages[k] IN
  CASE k = "NAME" -> IF is_ascii(v) THEN v ELSE old
    [] w.sort = "text" /\ k # "NAME" -> v
    [] w.sort = "box" -> IF w.first = "Yes" \/ k = "USE_GTKPRINT"
                         THEN IF v = "No" THEN "No" ELSE "Yes"
                         ELSE IF v = "Yes" THEN "Yes" ELSE "No"
    [] w.sort = "radio" -> IF v \in w.options THEN v
                           ELSE CASE k = "CLASS" -> "2"
                                  [] k = "SOCK_CLIENT_ADDRESS" -> "localhost"
                                  [] OTHER -> old
    [] w.sort = "spin" -> CASE v \in {"min", "usual", "other"} -> v
                            [] v = "odd" -> "other"
                            [] OTHER -> "usual"

\* SettingsDialog::read_config(): one string holds the values of all the lines.
Shown(fields, lines) ==
  LET result(n) == get_prog_parm(lines, {m \in 1..n : Sets(lines[m])}, "", ShownFrom)
      after[n \in 0..Len(lines)] ==
        IF n = 0 THEN fields
        ELSE IF Sets(lines[n])
             THEN [after[n - 1] EXCEPT ![lines[n].key] = SetField(lines[n].key, @, result(n))]
             ELSE after[n - 1]
  IN after[Len(lines)]

-----------------------------------------------------------------------------
(* configure_prog().                                                       *)

\* The first of the files that exists.  RC_DIR stands for itself and /etc.
FoundPath == CASE homeRc # NoFile -> "home"
               [] homeRc = NoFile /\ sharedRc # NoFile -> "shared"
               [] OTHER -> "none"

LinesAt(path) == CASE path = "home" -> homeRc
                   [] path = "shared" -> sharedRc
                   [] OTHER -> NoFile

FoundRc == LinesAt(FoundPath)

\* The strings that configure_prog() assigns start out empty: those that it
\* declares, and those of prog_config, which a second reading clears first.
Forgotten_Bug(k, old) == IF k = "DIAL_PREFIX" THEN old ELSE ""
Forgotten(k, old) == ""

\* The last line in force that gives a value decides.
LinesRead(k, old, lines) ==
  get_prog_parm(lines, {n \in 1..Len(lines) : Sets(lines[n]) /\ lines[n].key = k},
                Forgotten(k, old), RunsFrom)

\* What the program makes of the value of a button: of its class of strings, the
\* one that it acts upon.
ChoiceMade(k, v) ==
  LET w == Pages[k] IN
  CASE w.sort = "radio" -> IF v \in w.options THEN v
                           ELSE IF k = "CLASS" /\ v # "" THEN "2" ELSE w.first
    [] w.sort = "box" -> IF w.first = "Yes" THEN IF v = "No" THEN "No" ELSE "Yes"
                                            ELSE IF v = "Yes" THEN "Yes" ELSE "No"
    [] w.sort = "spin" ->
         CASE v \in {"min", "usual", "other"} -> v
           [] v = "odd" /\ k # "RINGS" -> "other"
           [] k = "SOCK_SERVER_PORT" /\ v \notin {"min", "usual", "other", "odd"} -> ""
           [] OTHER -> "usual"

\* What the program makes of a setting, a text among them.
RunsWith(k, v) == CASE k = "NAME" -> IF is_ascii(v) THEN v ELSE ""
                    [] Pages[k].sort = "text" /\ k # "NAME" -> v
                    [] OTHER -> ChoiceMade(k, v)

configure_prog(lines, old) ==
  IF lines = NoFile THEN old
  ELSE [k \in keys |-> RunsWith(k, LinesRead(k, old[k], lines))]

\* WORK_SUBDIR is read on the first reading only.
Subdir(lines) ==
  IF lines = NoFile THEN ""
  ELSE get_prog_parm(lines, {n \in 1..Len(lines) : lines[n].on /\ lines[n].key = "WORK_SUBDIR"},
                     "", RunsFrom)

-----------------------------------------------------------------------------
(* SettingsDialog.                                                         *)

\* get_rcfile_path() and read_config() in the constructor.
Open ==
  /\ ~dialog.open
  /\ settingSteps < MaxSettingSteps
  /\ settingSteps' = settingSteps + 1
  /\ LET first == [k \in keys |-> Pages[k].first]
     IN dialog' = [open |-> TRUE, edits |-> 0, home |-> homeRc # NoFile, rc |-> FoundPath,
                   fields |-> IF FoundRc = NoFile THEN first ELSE Shown(first, FoundRc)]
  /\ UNCHANGED <<keys, codesets, homeRc, sharedRc, prog, workdir, agreed>>

Edit(k, v) ==
  /\ dialog.open /\ dialog.edits < MaxEdits
  /\ v # dialog.fields[k]
  /\ dialog' = [dialog EXCEPT !.fields[k] = v, !.edits = @ + 1]
  /\ UNCHANGED <<keys, codesets, homeRc, sharedRc, prog, workdir, agreed, settingSteps>>

\* get_reset_settings(): only a dialog that showed the file of the user has the
\* button.  The file that is read becomes the one that write_config() works on.
Reset ==
  /\ dialog.open /\ dialog.home
  /\ dialog.edits < MaxEdits
  /\ LET cleared == [k \in keys |-> IF Pages[k].clear = "keep" THEN dialog.fields[k]
                                    ELSE Pages[k].clear]
     IN dialog' = [dialog EXCEPT !.rc = IF sharedRc = NoFile THEN "none" ELSE "shared",
                     !.edits = @ + 1,
                     !.fields = IF sharedRc = NoFile THEN cleared ELSE Shown(cleared, sharedRc)]
  /\ UNCHANGED <<keys, codesets, homeRc, sharedRc, prog, workdir, agreed, settingSteps>>

Cancel ==
  /\ dialog.open
  /\ dialog' = Shut
  /\ UNCHANGED <<keys, codesets, homeRc, sharedRc, prog, workdir, agreed, settingSteps>>

\* The checks of write_config() that a widget does not rule out beforehand.
Valid(fields) == "NAME" \in keys => is_ascii(fields["NAME"])

\* The codeset in which write_config() writes a setting that the old file has,
\* and that in which it adds one: it adds DEVICE as it is.
WrittenIn(k) == codesets[IF Pages[k].sort = "text" THEN Pages[k].write ELSE "utf8"]
AddedIn(k) == IF k = "DEVICE" THEN Utf8 ELSE WrittenIn(k)

\* The line that write_config() makes of a field: a default is commented out.
LineOf(k, v, codeset) ==
  [key |-> k, on |-> v # "" \/ k \in {"NAME", "NUMBER"},
   val |-> IF v = "" /\ k \notin {"NAME", "NUMBER"} THEN "default" ELSE Encode(codeset, v)]

\* A line that cannot be converted is lost.
Converted(k, v, codeset) == IF Has(codeset, v) THEN <<LineOf(k, v, codeset)>> ELSE <<>>

\* What stands for a line of the old file: the first of each setting is replaced,
\* in force or not, the others of it are dropped, and what is not a setting is
\* kept.
Replaced_Bug(lines, fields, n) ==
  LET k == lines[n].key
  IN IF k \notin keys \/ \E m \in 1..(n - 1) : lines[m].key = k THEN <<>>
     ELSE Converted(k, fields[k], WrittenIn(k))

Replaced(lines, fields, n) ==
  LET k == lines[n].key
  IN IF k \notin keys THEN <<lines[n]>>
     ELSE IF \E m \in 1..(n - 1) : lines[m].key = k THEN <<>>
     ELSE Converted(k, fields[k], WrittenIn(k))

\* The settings that the old file did not have are added at the end.
Written(lines, fields) ==
  LET old == IF lines = NoFile THEN <<>> ELSE lines
      missing == SetToSeq(keys \ {old[n].key : n \in 1..Len(old)})
  IN FlattenSeq([n \in 1..Len(old) |-> Replaced(old, fields, n)])
     \o FlattenSeq([n \in 1..Len(missing) |->
                      Converted(missing[n], fields[missing[n]], AddedIn(missing[n]))])

\* The file that write_config() reads again: the one that the dialog last read.
Template == LinesAt(dialog.rc)

\* OK: write_config(), which writes the file of the user whichever it read, and
\* then configure_prog(true) and settings_changed_slot().
OK ==
  /\ dialog.open
  /\ Valid(dialog.fields)
  /\ homeRc' = Written(Template, dialog.fields)
  /\ prog' = configure_prog(homeRc', prog)
  /\ agreed' = dialog.fields
  /\ dialog' = Shut
  /\ UNCHANGED <<keys, codesets, sharedRc, workdir, settingSteps>>

\* The file cannot be opened for writing: the dialog stays, and takes the file
\* of the user for the one to work on, be it there or not.
SaveFails ==
  /\ dialog.open /\ Valid(dialog.fields)
  /\ dialog' = [dialog EXCEPT !.rc = "home"]
  /\ UNCHANGED <<keys, codesets, homeRc, sharedRc, prog, workdir, agreed, settingSteps>>

\* A field is refused: a message, and the dialog stays.
Refuse ==
  /\ dialog.open /\ ~Valid(dialog.fields)
  /\ UNCHANGED settingVars

\* The program dies in write_config(), which has emptied the file: some of the
\* lines are there.  The next start reads them.
DieInSave ==
  /\ dialog.open /\ Valid(dialog.fields)
  /\ settingSteps < MaxSettingSteps
  /\ settingSteps' = settingSteps + 1
  /\ LET lines == Written(Template, dialog.fields)
     IN \E n \in 0..(Len(lines) - 1) : homeRc' = SubSeq(lines, 1, n)
  /\ prog' = configure_prog(homeRc', [k \in keys |-> ""])
  /\ workdir' = Subdir(homeRc')
  /\ dialog' = Shut
  /\ agreed' = NoFields
  /\ UNCHANGED <<keys, codesets, sharedRc>>

\* The program ends and is started again.
StartAgain ==
  /\ settingSteps < MaxSettingSteps
  /\ settingSteps' = settingSteps + 1
  /\ prog' = configure_prog(FoundRc, [k \in keys |-> ""])
  /\ workdir' = Subdir(FoundRc)
  /\ dialog' = Shut
  /\ UNCHANGED <<keys, codesets, homeRc, sharedRc, agreed>>

-----------------------------------------------------------------------------
InitSettings ==
  /\ keys \in KeySets /\ codesets \in Locales
  /\ homeRc \in HomeFiles(keys) /\ sharedRc \in SharedFiles(keys)
  /\ prog = configure_prog(FoundRc, [k \in keys |-> ""])
  /\ workdir = Subdir(FoundRc)
  /\ dialog = Shut /\ agreed = NoFields /\ settingSteps = 0

NextSettings ==
  \/ Open \/ Reset \/ Cancel \/ OK \/ SaveFails \/ Refuse \/ DieInSave \/ StartAgain
  \/ \E k \in keys : \E v \in Typed(k) : Edit(k, v)

SpecSettings == InitSettings /\ [][NextSettings]_settingVars

-----------------------------------------------------------------------------
\* A value that survives being written and read: it has no `#', and is ASCII or
\* its setting is written and read in one codeset, which has it.
Survives(k, v) ==
  /\ v # "a#"
  /\ v \in Foreign =>
      \A codeset \in {WrittenIn(k), AddedIn(k)} :
        codeset = codesets[Pages[k].run] /\ Has(codeset, v)

(* What the user accepted is what the program runs with, at once and after *)
(* every later start, whatever file was found, however it was written and  *)
(* whichever of its lines the dialog replaced: the writer and the program's *)
(* own parser agree.  Lost are a `#' in a value; what the codeset lacks;   *)
(* what is not ASCII in a setting that is written in one codeset and read  *)
(* in another, which several are; and the file in a power failure during   *)
(* the save.                                                               *)
RunsAsAgreed ==
  agreed # NoFields =>
    \A k \in keys : Survives(k, agreed[k]) => prog[k] = RunsWith(k, agreed[k])

\* The lines of a setting give a value that both parsers know and, if it is not
\* ASCII, convert alike.
Plain(k, lines) ==
  /\ \E n \in 1..Len(lines) : Sets(lines[n]) /\ lines[n].key = k
  /\ \A n \in 1..Len(lines) : Sets(lines[n]) /\ lines[n].key = k
        => /\ lines[n].val \notin {"", "bad", "odd"}
           /\ k = "NAME" => is_ascii(lines[n].val)
           /\ lines[n].val \in Foreign => codesets[ShownFrom[k]] = codesets[RunsFrom[k]]

(* A dialog that is opened shows, for each setting that the file gives in a *)
(* way that both parsers know, what the program runs with: two parsers that *)
(* were written apart read one file alike.  They do not where a value is   *)
(* not ASCII and they convert it from two codesets: FAX_RECEIVED_PROG.     *)
ShowsWhatRuns ==
  [][ ~dialog.open /\ dialog'.open /\ FoundRc # NoFile
      => \A k \in keys : Plain(k, FoundRc) => RunsWith(k, dialog'.fields[k]) = prog[k]
    ]_settingVars

\* The lines of a file that the dialog does not edit.
Others(lines) ==
  IF lines = NoFile THEN <<>>
  ELSE FlattenSeq([n \in 1..Len(lines) |->
                     IF lines[n].key \notin keys THEN <<lines[n]>> ELSE <<>>])

(* Accepting the settings keeps the lines that the dialog does not edit,   *)
(* WORK_SUBDIR among them, on which it depends where the faxes are found at *)
(* the next start: unless the settings were reset, which takes these lines *)
(* from the other file.                                                    *)
OthersKept ==
  [][ dialog.open /\ agreed' = dialog.fields /\ Template = FoundRc /\ dialog' = Shut /\ homeRc' # homeRc
      => Others(homeRc') = Others(FoundRc) ]_settingVars

(* What the dialog does not edit survives it, and what it shows is true.   *)
SettingsKept == OthersKept /\ ShowsWhatRuns

=============================================================================
