----------------------------- MODULE DesktopProofs -----------------------------
(***************************************************************************)
(* Theorems about six parts of the main program that share nothing.        *)
(*                                                                         *)
(* Startup, for any number of starts and deaths: no two programs run at a  *)
(* time, and the lock file is that of the one that runs, unless a start    *)
(* fell into one of the gaps.  The argument is that whoever is past the    *)
(* creation of the lock file holds it, with or without its pid, so that    *)
(* what is stale or not there is nobody's (Holders).                       *)
(*                                                                         *)
(* SendForm, for any jobs, names, numbers and passwords: the fax that the  *)
(* controller is given is the one asked for.  The argument is that a job,  *)
(* once its label is in the form, is the job selected, and that while the  *)
(* question about the number is open the form either still makes up the    *)
(* fax that was wanted or has been emptied, which sends nothing.           *)
(*                                                                         *)
(* LogFile, for any names: a log that begins ends before another begins.   *)
(* The argument is that the file the stream has open is the only one whose *)
(* last line is not the end of a log, and that nothing is written without  *)
(* one.                                                                    *)
(*                                                                         *)
(* AddressBook, for any list: the book that is opened has the addresses    *)
(* that the last one showed.  The argument is that every change of the     *)
(* list writes the file, and that what is read from a list that was        *)
(* written is that list, row by row (ListComesBack).                       *)
(*                                                                         *)
(* Settings, for any files and values: the program runs with what was      *)
(* accepted, the dialog shows what the program runs with, and the lines it *)
(* does not edit survive it.  The argument is that the fields hold values  *)
(* that their widgets can have (Widgets), that write_config() gives each   *)
(* setting that can be converted one line and no other (WrittenHas,        *)
(* WrittenType), and that the two parsers agree, line by line, on what     *)
(* both know (ParsersAgree).                                               *)
(*                                                                         *)
(* TextPrint, for any text: every line is on one page, and is drawn on it. *)
(* The argument is that the sum of heights with which paginate() goes      *)
(* through the lines is how far the page being filled is full (Filled).    *)
(***************************************************************************)
EXTENDS Startup, SendForm, LogFile, AddressBook, Settings, TextPrint, SequenceLemmas

----------------------------------------------------------------------------
(* Startup *)

\* The processes that hold the lock file.
Holders == {p \in Starts : stage[p] \in {"created", "starting", "running"}}

Stages == {"new", "created", "exists", "read", "unlinked", "signalling", "starting",
           "running", "ended"}

StartTypes ==
  /\ stage \in [Starts -> Stages]
  /\ tries \in [Starts -> Nat]
  /\ raced \in BOOLEAN /\ denied \in BOOLEAN

(* A lock file is written to by one process at most, and is that process's. *)
OneHolder ==
  /\ \A p, q \in Holders : p = q
  /\ \A p \in Holders : lockfile = IF stage[p] = "created" THEN "" ELSE p

NewUntried == \A p \in Starts : stage[p] = "new" => tries[p] = 0

StartInv == StartTypes /\ NewUntried /\ (~raced /\ ~denied => OneHolder)

StartStep(p) ==
  \/ Start(p) \/ LookAtLock(p) \/ Unlink(p) \/ OpenAgain(p) \/ OpenFifo(p) \/ WriteFifo(p)
  \/ WritePid(p) \/ Run(p) \/ OpenReader(p) \/ Read(p) \/ CloseReader(p) \/ Exit(p) \/ Die(p)

----------------------------------------------------------------------------
LEMMA StartTypesStep ==
  ASSUME StartInv, NEW p \in Starts, StartStep(p)
  PROVE  StartTypes'
<1>1. stage' \in [Starts -> Stages]
  <2>1. stage' = stage \/ \E x \in Stages : stage' = [stage EXCEPT ![p] = x]
    BY DEF StartStep, Start, LookAtLock, Unlink, OpenAgain, OpenFifo, WriteFifo, WritePid, Run, OpenReader,
      Read, CloseReader, Exit, Die, Gone, OpenLock, Stages
  <2> QED BY <2>1 DEF StartInv, StartTypes
<1>2. tries' \in [Starts -> Nat]
  <2>1. tries' \in {tries, [tries EXCEPT ![p] = tries[p] + 1], [tries EXCEPT ![p] = 2]}
    BY DEF StartStep, Start, LookAtLock, Unlink, OpenAgain, OpenFifo, WriteFifo, WritePid, Run, OpenReader,
      Read, CloseReader, Exit, Die, Gone
  <2> QED BY <2>1 DEF StartInv, StartTypes
<1>3. raced' \in BOOLEAN /\ denied' = denied
  BY DEF StartStep, Start, LookAtLock, Unlink, OpenAgain, OpenFifo, WriteFifo, WritePid, Run, OpenReader,
    Read, CloseReader, Exit, Die, Gone, StartInv, StartTypes
<1> QED BY <1>1, <1>2, <1>3 DEF StartInv, StartTypes

LEMMA NewUntriedStep ==
  ASSUME StartInv, NEW p \in Starts, StartStep(p)
  PROVE  NewUntried'
<1>1. stage[p] = "new" => stage'[p] # "new"
  <2>1. stage[p] = "new" => Start(p)
    BY DEF StartStep, LookAtLock, Unlink, OpenAgain, OpenFifo, WriteFifo, WritePid, Run, OpenReader,
      Read, CloseReader, Exit, Die
  <2> QED BY <2>1 DEF Start, OpenLock, StartInv, StartTypes
<1>2. stage' = stage \/ \E x \in Stages \ {"new"} : stage' = [stage EXCEPT ![p] = x]
  BY DEF StartStep, Start, LookAtLock, Unlink, OpenAgain, OpenFifo, WriteFifo, WritePid, Run, OpenReader,
    Read, CloseReader, Exit, Die, Gone, OpenLock, Stages
<1>3. \A q \in Starts \ {p} : tries'[q] = tries[q]
  <2>1. tries' \in {tries, [tries EXCEPT ![p] = tries[p] + 1], [tries EXCEPT ![p] = 2]}
    BY DEF StartStep, Start, LookAtLock, Unlink, OpenAgain, OpenFifo, WriteFifo, WritePid, Run, OpenReader,
      Read, CloseReader, Exit, Die, Gone
  <2> QED BY <2>1 DEF StartInv, StartTypes
<1> QED BY <1>1, <1>2, <1>3 DEF StartInv, NewUntried, StartTypes

\* The steps by which a process takes the lock file, and those that remove it.
LEMMA HolderStep ==
  ASSUME StartInv, NEW p \in Starts, StartStep(p), ~raced', ~denied'
  PROVE  OneHolder'
<1>1. ~raced /\ ~denied
  <2>1. denied' = denied
    BY DEF StartStep, Start, LookAtLock, Unlink, OpenAgain, OpenFifo, WriteFifo, WritePid, Run, OpenReader,
      Read, CloseReader, Exit, Die, Gone
  <2>2. CASE Unlink(p)
    BY <2>2, Zenon DEF Unlink
  <2>3. CASE OpenAgain(p)
    BY <2>3, Zenon DEF OpenAgain
  <2>4. CASE OpenFifo(p)
    <3>1. (raced' = raced) \/ (raced' = TRUE)
      BY <2>4 DEF OpenFifo
    <3>2. raced' # TRUE
      OBVIOUS
    <3> QED BY <2>1, <3>1, <3>2, Zenon
  <2>5. CASE ~(Unlink(p) \/ OpenAgain(p) \/ OpenFifo(p))
    <3>1. raced' = raced
      BY <2>5 DEF StartStep, Start, LookAtLock, WriteFifo, WritePid, Run, OpenReader,
        Read, CloseReader, Exit, Die, Gone
    <3> QED BY <2>1, <3>1, Zenon
  <2> QED BY <2>1, <2>2, <2>3, <2>4, <2>5, Zenon
<1>2. OneHolder /\ stage \in [Starts -> Stages]
  BY <1>1 DEF StartInv, StartTypes
<1>3. ASSUME lockfile \notin Starts \cup {""} PROVE Holders = {}
  BY <1>2, <1>3 DEF OneHolder, Holders
<1>4. ASSUME lockfile \in {"none", "foreign", "unreadable"} PROVE Holders = {}
  BY <1>3, <1>4, StartupAssumption
<1>5. ASSUME Holders = {}, UNCHANGED stage PROVE OneHolder'
  BY <1>5 DEF OneHolder, Holders
<1>6. ASSUME UNCHANGED lockfile, stage'[p] \notin {"created", "starting", "running"},
             \A q \in Starts \ {p} : stage'[q] = stage[q]
      PROVE  OneHolder'
  BY <1>2, <1>6 DEF OneHolder, Holders
<1>7. ASSUME Holders = {}, stage' = [stage EXCEPT ![p] = "created"], lockfile' = ""
      PROVE  OneHolder'
  BY <1>2, <1>7 DEF OneHolder, Holders
<1>8. CASE Start(p)
  <2>1. tries'[p] = 0 /\ stage[p] = "new"
    BY <1>8 DEF Start, StartInv, NewUntried
  <2>2. CASE lockfile = "none"
    <3>1. lockfile' = "" /\ stage' = [stage EXCEPT ![p] = IF tries'[p] < 2 THEN "created"
                                                          ELSE "starting"]
      BY <1>1, <1>8, <2>2, Zenon DEF Start, OpenLock
    <3>2. (IF tries'[p] < 2 THEN "created" ELSE "starting") = "created"
      BY <2>1
    <3>3. stage' = [stage EXCEPT ![p] = "created"]
      BY <3>1, <3>2, Zenon
    <3> QED BY <1>4, <1>7, <2>2, <3>1, <3>3
  <2>3. CASE lockfile # "none"
    <3>1. stage' = [stage EXCEPT ![p] = "exists"] /\ lockfile' = lockfile
      BY <1>8, <2>1, <2>3 DEF Start, OpenLock
    <3> QED BY <1>2, <1>6, <3>1
  <2> QED BY <2>2, <2>3
<1>9. CASE LookAtLock(p)
  <2>1. CASE lockfile = "unreadable"
    BY <1>4, <1>5, <1>9, <2>1 DEF LookAtLock
  <2>2. CASE lockfile # "unreadable"
    <3>1. stage' = [stage EXCEPT ![p] = "read"] /\ lockfile' = lockfile
      BY <1>9, <2>2 DEF LookAtLock
    <3> QED BY <1>2, <1>6, <3>1
  <2> QED BY <2>1, <2>2
<1>10. CASE Unlink(p)
  <2>1. /\ stage[p] = "read" /\ Stale(found[p]) /\ found[p] = lockfile
        /\ stage' = [stage EXCEPT ![p] = "unlinked"]
    BY <1>10 DEF Unlink
  <2>2. lockfile = "foreign" \/ lockfile \notin {"", "foreign"} \cup InTable
    <3>1. ASSUME found[p] # "foreign", found[p] \in InTable PROVE FALSE
      <4>1. is_in_process_table(found[p]) = 0
        BY <2>1, <3>1 DEF Stale
      <4>2. is_in_process_table(found[p]) = IF psWorks THEN 1 ELSE -1
        BY <3>1 DEF is_in_process_table
      <4> QED BY <4>1, <4>2
    <3>2. ASSUME found[p] = "" PROVE FALSE
      <4>1. is_in_process_table("") = 0
        BY <2>1, <3>2 DEF Stale
      <4>2. "" \notin InTable
        BY StartupAssumption DEF InTable
      <4>3. is_in_process_table("") = -1
        <5>1. ~(psWorks /\ "" \in InTable) /\ ~(psWorks /\ "" = "foreign")
          BY <4>2
        <5> QED BY <5>1 DEF is_in_process_table
      <4>4. -1 # 0
        OBVIOUS
      <4> QED BY <4>1, <4>3, <4>4, Zenon
    <3> QED BY <2>1, <3>1, <3>2
  <2>3. Holders = {}
    <3>1. ASSUME NEW q \in Holders PROVE FALSE
      <4>1. lockfile = "" \/ (lockfile = q /\ q \in InTable /\ q \in Starts)
        BY <1>2, <3>1 DEF OneHolder, Holders, InTable
      <4> QED BY <2>2, <4>1, StartupAssumption
    <3> QED BY <3>1
  <2>4. Holders' = {}
    BY <1>2, <2>1, <2>3 DEF Holders
  <2> QED BY <2>4 DEF OneHolder
<1>11. CASE OpenAgain(p)
  <2>1. stage[p] = "unlinked" /\ stage'[p] # "starting"
    BY <1>11 DEF OpenAgain
  <2>2. \/ stage' = [stage EXCEPT ![p] = "created"] /\ lockfile' = "" /\ lockfile = "none"
        \/ stage' = [stage EXCEPT ![p] = "exists"] /\ lockfile' = lockfile
    BY <1>2, <1>11, <2>1 DEF OpenAgain, OpenLock
  <2> QED BY <1>2, <1>4, <1>6, <1>7, <2>2
<1>12. CASE OpenFifo(p)
  BY <1>2, <1>6, <1>12 DEF OpenFifo
<1>13. CASE WriteFifo(p)
  BY <1>2, <1>6, <1>13 DEF WriteFifo
<1>14. CASE WritePid(p)
  <2>1. p \in Holders /\ lockfile = "" /\ lockfile' = p
    BY <1>2, <1>14 DEF WritePid, OneHolder, Holders
  <2>2. stage' = [stage EXCEPT ![p] = "starting"]
    BY <1>14 DEF WritePid
  <2>3. Holders = {p}
    <3>1. \A q \in Holders : q = p
      BY <1>2, <2>1, Zenon DEF OneHolder
    <3> QED BY <2>1, <3>1
  <2>4. Holders' = Holders /\ stage'[p] = "starting"
    BY <1>2, <2>1, <2>2 DEF Holders
  <2> QED BY <2>1, <2>3, <2>4 DEF OneHolder
<1>15. CASE Run(p)
  <2>1. stage[p] = "starting" /\ stage' = [stage EXCEPT ![p] = "running"] /\ lockfile' = lockfile
    BY <1>15 DEF Run
  <2>2. Holders' = Holders /\ \A q \in Holders : stage'[q] = "created" <=> stage[q] = "created"
    BY <1>2, <2>1 DEF Holders
  <2> QED BY <1>2, <2>1, <2>2 DEF OneHolder
<1>16. CASE OpenReader(p) \/ Read(p) \/ CloseReader(p)
  <2>1. stage' = stage /\ lockfile' = lockfile
    BY <1>16 DEF OpenReader, Read, CloseReader
  <2> QED BY <1>2, <2>1 DEF OneHolder, Holders
<1>17. CASE Exit(p)
  <2>1. p \in Holders /\ stage' = [stage EXCEPT ![p] = "ended"]
    BY <1>17 DEF Exit, Gone, Holders
  <2>2. Holders' = {}
    BY <1>2, <2>1 DEF OneHolder, Holders
  <2> QED BY <2>2 DEF OneHolder
<1>18. CASE Die(p)
  BY <1>2, <1>6, <1>18 DEF Die, Gone
<1> QED BY <1>8, <1>9, <1>10, <1>11, <1>12, <1>13, <1>14, <1>15, <1>16, <1>17, <1>18 DEF StartStep

LEMMA StartInit == InitStart => StartInv
<1> SUFFICES ASSUME InitStart PROVE StartInv
  OBVIOUS
<1>1. StartTypes /\ NewUntried
  BY DEF InitStart, StartTypes, Stages, NewUntried
<1>2. Holders = {}
  BY DEF InitStart, Holders
<1> QED BY <1>1, <1>2 DEF StartInv, OneHolder

LEMMA StartSteps == StartInv /\ [NextStart]_startVars => StartInv'
<1> SUFFICES ASSUME StartInv, [NextStart]_startVars PROVE StartInv'
  OBVIOUS
<1>1. CASE UNCHANGED startVars
  BY <1>1 DEF startVars, StartInv, StartTypes, NewUntried, OneHolder, Holders
<1>2. ASSUME NEW p \in Starts, StartStep(p) PROVE StartInv'
  BY <1>2, StartTypesStep, NewUntriedStep, HolderStep DEF StartInv
<1> QED BY <1>1, <1>2 DEF NextStart, StartStep

(* The inductive invariant: one process at most is past the creation of    *)
(* the lock file, and the file is its own.                                 *)
THEOREM LockIsHeld == SpecStart => []StartInv
BY StartInit, StartSteps, PTL DEF SpecStart

(* One program runs at a time and the lock file is its own, for any number *)
(* of starts, ends and deaths, outside the gaps that the model names.      *)
THEOREM OneProgramRuns == SpecStart => []OneInstance
<1>1. ASSUME StartInv PROVE OneInstance
  <2>1. SUFFICES ASSUME ~raced, ~denied
                 PROVE  Cardinality(Running) <= 1 /\ \A p \in Running : lockfile = p
    BY DEF OneInstance
  <2>2. OneHolder /\ Running \subseteq Holders
    BY <1>1, <2>1 DEF StartInv, Running, Holders
  <2>3. Running = {} \/ \E p \in Running : Running = {p}
    BY <2>2 DEF OneHolder
  <2>4. Cardinality(Running) <= 1
    <3>1. CASE Running = {}
      BY <3>1, FS_EmptySet
    <3>2. CASE \E p \in Running : Running = {p}
      <4>1. PICK p : Running = {p}
        BY <3>2
      <4>2. Cardinality({p}) = 1
        BY FS_Singleton
      <4> QED BY <4>1, <4>2
    <3> QED BY <2>3, <3>1, <3>2
  <2>5. \A p \in Running : lockfile = p
    BY <2>2 DEF OneHolder, Running
  <2> QED BY <2>4, <2>5
<1> QED BY <1>1, LockIsHeld, PTL

----------------------------------------------------------------------------
(* SendForm *)

FormTexts(typed) == typed \cup {""}
Forms == [file : Jobs \cup FormTexts(TypedFiles), number : FormTexts(Numbers), pass : FormTexts(Passwords)]
Notices == [job : Jobs, number : FormTexts(Numbers)]

FormTypes ==
  /\ form \in Forms
  /\ notices \in Seq(Notices)
  /\ notified \in Jobs \cup {""}

(* The label of a job is that of the job selected. *)
LabelIsSelected == form.file \in Jobs => selected = form.file

(* An unanswered question is about the fax the form makes up, or an empty form. *)
QuestionStands == over = "number" => form.file = "" \/ Fax(form, selected) = wanted

FormInv == FormTypes /\ LabelIsSelected /\ QuestionStands /\ AskedIsDialled

----------------------------------------------------------------------------
LEMMA TextsKept ==
  ASSUME NEW f \in Forms
  PROVE  /\ DOMAIN f = {"file", "number", "pass"}
         /\ \A v \in Jobs \cup FormTexts(TypedFiles) : set_files_slot(f, v) \in Forms /\ set_files_slot(f, v).file = v
                /\ set_files_slot(f, v).number = f.number
         /\ \A v \in FormTexts(Numbers) : set_number_slot(f, v) \in Forms /\ set_number_slot(f, v).file = f.file
                /\ set_number_slot(f, v).number = v
  BY DEF Forms, set_files_slot, set_number_slot

(* The fax put together from a form whose label is right is what the form   *)
(* shows.                                                                   *)
LEMMA FaxIsShown ==
  ASSUME NEW f \in Forms, NEW job, f.file \in Jobs => job = f.file
  PROVE  Fax(f, job) = [file |-> f.file, number |-> f.number, socket |-> f.file \in Jobs]
  BY DEF Fax

(* sendfax_slot() from its second question on: what is sent is what was     *)
(* wanted, if the form makes that up or is empty.                           *)
LEMMA PasswordSends ==
  ASSUME NEW f \in Forms, NEW job, NEW want, AskedIsDialled, notified \in Jobs \cup {""},
         f.file = "" \/ Fax(f, job) = want,
         Password(f, job, want)
  PROVE  AskedIsDialled' /\ notified' \in Jobs \cup {""} /\ over' # "number"
<1>1. over' # "number" /\ notified' \in Jobs \cup {""}
  BY DEF Password
<1>2. sent' = sent \/ Ask(f, job, want)
  BY DEF Password
<1>3. CASE sent' = sent
  BY <1>1, <1>3 DEF AskedIsDialled
<1>4. CASE Ask(f, job, want)
  <2>1. CASE Sends(f)
    <3>1. f.file # ""
      BY <2>1 DEF Sends
    <3>2. sent' = [fax |-> Fax(f, job), wanted |-> want]
      BY <1>4, <2>1 DEF Ask
    <3>3. Fax(f, job) = want
      BY <3>1
    <3>4. sent'.fax = Fax(f, job) /\ sent'.wanted = want
      BY <3>2
    <3> QED BY <1>1, <3>3, <3>4 DEF AskedIsDialled
  <2>2. CASE ~Sends(f)
    BY <1>1, <1>4, <2>2 DEF Ask, AskedIsDialled
  <2> QED BY <2>1, <2>2
<1> QED BY <1>2, <1>3, <1>4

(* sendfax_slot() as a whole. *)
LEMMA SlotSends ==
  ASSUME NEW f \in Forms, NEW job, NEW want, AskedIsDialled, notified \in Jobs \cup {""},
         f.file \in Jobs => job = f.file, Fax(f, job) = want,
         sendfax_slot(f, job, want)
  PROVE  /\ AskedIsDialled' /\ notified' \in Jobs \cup {""} /\ form' \in Forms
         /\ LabelIsSelected' /\ QuestionStands'
<1>1. form' = f /\ selected' = job
  BY DEF sendfax_slot
<1>2. CASE f.number = ""
  BY <1>1, <1>2 DEF sendfax_slot, AskedIsDialled, LabelIsSelected, QuestionStands, Fax
<1>3. CASE f.number # ""
  <2>1. Password(f, job, want)
    BY <1>3 DEF sendfax_slot
  <2>2. AskedIsDialled' /\ notified' \in Jobs \cup {""} /\ over' # "number"
    BY <2>1, PasswordSends
  <2> QED BY <1>1, <2>2 DEF LabelIsSelected, QuestionStands
<1> QED BY <1>2, <1>3

(* Whatever is announced is a job. *)
LEMMA Announces ==
  ASSUME NEW job \in Jobs, NEW sensitive \in BOOLEAN, FormTypes,
         fax_to_send_dialog(job, sensitive, notices)
  PROVE  notices' \in Seq(Notices) /\ notified' \in Jobs \cup {""}
<1> DEFINE notice == [job |-> job, number |-> ""]
<1>1. notice \in Notices
  BY DEF Notices, FormTexts
<1>2. notices \in Seq(Notices) /\ notified \in Jobs \cup {""}
  BY DEF FormTypes
<1>3. \/ notified' = notified /\ notices' = notices
      \/ notified' = job /\ notices' = Append(notices, notice)
  BY DEF fax_to_send_dialog
<1> HIDE DEF notice
<1>4. Append(notices, notice) \in Seq(Notices)
  BY <1>1, <1>2, AppendProperties
<1> QED BY <1>2, <1>3, <1>4, Zenon

(* The list of announcements without one of them. *)
LEMMA OneGoes ==
  ASSUME NEW n \in 1..Len(notices), notices \in Seq(Notices)
  PROVE  RemoveAt(notices, n) \in Seq(Notices) /\ notices[n] \in Notices
  BY DEF RemoveAt

----------------------------------------------------------------------------
LEMMA FormInit == InitForm => FormInv
<1> SUFFICES ASSUME InitForm PROVE FormInv
  OBVIOUS
<1>1. FormTypes
  <2>1. form \in Forms
    BY DEF InitForm, Forms, FormTexts
  <2>2. notices \in Seq(Notices)
    <3>1. notices = <<>>
      BY DEF InitForm
    <3> QED BY <3>1
  <2>3. notified = ""
    BY DEF InitForm
  <2> QED BY <2>1, <2>2, <2>3 DEF FormTypes
<1>2. LabelIsSelected /\ QuestionStands
  BY FormAssumption DEF InitForm, LabelIsSelected, QuestionStands
<1>3. AskedIsDialled
  BY DEF InitForm, AskedIsDialled, NothingSent
<1> QED BY <1>1, <1>2, <1>3 DEF FormInv

(* A slot that empties the entry of the file, and the job with it. *)
LEMMA Emptied ==
  ASSUME FormInv, form' = set_files_slot(form, ""), selected' = "", sent' = sent
  PROVE  form' \in Forms /\ LabelIsSelected' /\ QuestionStands' /\ AskedIsDialled'
<1>1. form' \in Forms /\ form'.file = ""
  BY TextsKept, ZenonT(60) DEF FormInv, FormTypes, FormTexts
<1> QED BY <1>1, FormAssumption DEF FormInv, LabelIsSelected, QuestionStands, AskedIsDialled

LEMMA FormSteps == FormInv /\ [NextForm]_formVars => FormInv'
<1> SUFFICES ASSUME FormInv, [NextForm]_formVars
             PROVE  FormInv'
  OBVIOUS
<1> USE DEF FormInv
<1>1. CASE Send
  <2>1. Fax(form, selected) = Asks
    BY FaxIsShown DEF FormTypes, LabelIsSelected, Asks
  <2>2. notices' = notices /\ sendfax_slot(form, selected, Asks)
    BY <1>1 DEF Send
  <2> QED BY <2>1, <2>2, SlotSends DEF FormTypes, LabelIsSelected
<1>2. ASSUME NEW n \in 1..MaxNotices, SendNotified(n)
      PROVE  FormInv'
  <2> DEFINE f == set_number_slot(set_files_slot(form, notices[n].job), notices[n].number)
             want == [file |-> notices[n].job, number |-> notices[n].number, socket |-> TRUE]
  <2>1. n \in 1..Len(notices) /\ sendfax_slot(f, notices[n].job, want) /\ notices' = RemoveAt(notices, n)
    BY <1>2 DEF SendNotified
  <2>2. notices' \in Seq(Notices) /\ notices[n] \in Notices
    BY <2>1, OneGoes DEF FormTypes
  <2>3. notices[n].job \in Jobs /\ notices[n].number \in FormTexts(Numbers)
    BY <2>2 DEF Notices
  <2>4. f \in Forms /\ f.file = notices[n].job /\ f.number = notices[n].number
    <3> DEFINE g == set_files_slot(form, notices[n].job)
    <3>1. g \in Forms /\ g.file = notices[n].job
      BY <2>3, TextsKept, ZenonT(60) DEF FormTypes
    <3> HIDE DEF g
    <3>2. set_number_slot(g, notices[n].number) \in Forms
          /\ set_number_slot(g, notices[n].number).file = g.file
          /\ set_number_slot(g, notices[n].number).number = notices[n].number
      BY <2>3, <3>1, TextsKept
    <3> QED BY <3>1, <3>2 DEF g
  <2>5. Fax(f, notices[n].job) = want
    <3> HIDE DEF f
    <3>1. Fax(f, notices[n].job) = [file |-> f.file, number |-> f.number, socket |-> f.file \in Jobs]
      BY <2>4, FaxIsShown
    <3>2. (f.file \in Jobs) = TRUE
      BY <2>3, <2>4
    <3> QED BY <2>4, <3>1, <3>2
  <2> HIDE DEF f, want
  <2> QED BY <2>1, <2>2, <2>4, <2>5, SlotSends DEF FormTypes
<1>3. CASE ConfirmNoNumber
  <2>1. form' = form /\ selected' = selected /\ notices' = notices /\ Password(form, selected, wanted)
        /\ over = "number"
    BY <1>3 DEF ConfirmNoNumber
  <2>2. AskedIsDialled' /\ notified' \in Jobs \cup {""} /\ over' # "number"
    BY <2>1, PasswordSends DEF FormTypes, QuestionStands
  <2> QED BY <2>1, <2>2 DEF FormTypes, LabelIsSelected, QuestionStands
<1>4. CASE RefuseNoNumber
  <2>1. over' = "none" /\ sent' = sent
    BY <1>4 DEF RefuseNoNumber
  <2>2. CASE notified = ""
    BY <1>4, <2>1, <2>2 DEF RefuseNoNumber, FormTypes, LabelIsSelected, QuestionStands, AskedIsDialled
  <2>3. CASE notified # ""
    <3>1. form' = set_files_slot(form, "") /\ selected' = ""
          /\ fax_to_send_dialog(notified, TRUE, notices)
      BY <1>4, <2>3 DEF RefuseNoNumber
    <3>2. notices' \in Seq(Notices) /\ notified' \in Jobs \cup {""}
      BY <2>3, <3>1, Announces DEF FormTypes
    <3> QED BY <2>1, <3>1, <3>2, Emptied DEF FormTypes
  <2> QED BY <2>2, <2>3
<1>5. CASE FileButton
  BY <1>5, Emptied DEF FileButton, FormTypes
<1>6. ASSUME NEW field \in {"file", "number", "pass"}, NEW value, Type(field, value),
             field = "file" => value \in TypedFiles,
             field = "number" => value \in Numbers,
             field = "pass" => value \in Passwords
      PROVE  FormInv'
  <2>1. over = "none" /\ form' = [form EXCEPT ![field] = value]
        /\ UNCHANGED <<selected, notified, notices, over, sent>>
    BY <1>6 DEF Type
  <2>2. form' \in Forms
    BY <1>6, <2>1 DEF FormTypes, Forms, FormTexts
  <2>3. form'.file \in TypedFiles \/ form'.file = form.file
    BY <1>6, <2>1 DEF FormTypes, Forms
  <2>4. LabelIsSelected'
    BY <2>1, <2>3, FormAssumption DEF LabelIsSelected
  <2> QED BY <2>1, <2>2, <2>4 DEF FormTypes, QuestionStands, AskedIsDialled
<1>7. ASSUME NEW number \in Numbers, CloseDialog(number)
      PROVE  FormInv'
  <2>1. over' = "none" /\ UNCHANGED <<selected, notified, notices, sent>>
        /\ (form' = form \/ form' = set_number_slot(form, number))
    BY <1>7 DEF CloseDialog
  <2>2. form' \in Forms /\ form'.file = form.file
    <3>1. form \in Forms /\ number \in FormTexts(Numbers)
      BY DEF FormTypes, FormTexts
    <3>2. set_number_slot(form, number) \in Forms /\ set_number_slot(form, number).file = form.file
      BY <3>1, TextsKept
    <3> QED BY <2>1, <3>1, <3>2
  <2> QED BY <2>1, <2>2 DEF FormTypes, LabelIsSelected, QuestionStands, AskedIsDialled
<1>8. ASSUME NEW n \in 1..MaxNotices, NEW number \in Numbers, EnterNumber(n, number)
      PROVE  FormInv'
  <2>1. UNCHANGED <<form, selected, notified, over, sent>> /\ over = "none" /\ n \in 1..Len(notices)
        /\ notices' = [notices EXCEPT ![n].number = number]
    BY <1>8 DEF EnterNumber
  <2>2. notices \in Seq(Notices) /\ notices[n] \in Notices
    <3>1. n \in 1..Len(notices) /\ notices \in Seq(Notices)
      BY <1>8 DEF EnterNumber, FormTypes
    <3> QED BY <3>1, OneGoes
  <2>3. [notices[n] EXCEPT !.number = number] \in Notices
    BY <2>2 DEF Notices, FormTexts
  <2>4. notices' = [notices EXCEPT ![n] = [notices[n] EXCEPT !.number = number]]
    BY <2>1
  <2>5. notices' \in Seq(Notices)
    BY <2>1, <2>2, <2>3, <2>4
  <2> QED BY <2>1, <2>5 DEF FormTypes, LabelIsSelected, QuestionStands, AskedIsDialled
<1>9. ASSUME NEW n \in 1..MaxNotices, Queue(n)
      PROVE  FormInv'
  <2>1. UNCHANGED <<form, selected, notified, over, sent>> /\ over = "none" /\ n \in 1..Len(notices)
        /\ notices' = RemoveAt(notices, n)
    BY <1>9 DEF Queue
  <2> QED BY <2>1, OneGoes DEF FormTypes, LabelIsSelected, QuestionStands, AskedIsDialled
<1>10. ASSUME NEW job \in Jobs, JobArrives(job)
       PROVE  FormInv'
  <2>1. UNCHANGED <<form, selected, over, wanted, sent>> /\ fax_to_send_dialog(job, over = "none", notices)
    BY <1>10 DEF JobArrives
  <2>2. notices' \in Seq(Notices) /\ notified' \in Jobs \cup {""}
    BY <2>1, Announces
  <2> QED BY <2>1, <2>2 DEF FormTypes, LabelIsSelected, QuestionStands, AskedIsDialled, Fax
<1>11. ASSUME NEW success \in BOOLEAN, SendEnds(success)
       PROVE  FormInv'
  <2>1. UNCHANGED <<notified, notices, over, wanted, sent>>
        /\ (UNCHANGED <<selected, form>> \/ (selected' = "" /\ form' = set_files_slot(form, "")))
    BY <1>11 DEF SendEnds, remove_from_socket_server_filelist
  <2>2. CASE UNCHANGED <<selected, form>>
    BY <2>1, <2>2 DEF FormTypes, LabelIsSelected, QuestionStands, AskedIsDialled, Fax
  <2>3. CASE selected' = "" /\ form' = set_files_slot(form, "")
    BY <2>1, <2>3, Emptied DEF FormTypes
  <2> QED BY <2>1, <2>2, <2>3
<1>12. CASE OpenDialog \/ AnswerPassword \/ ServiceChanges \/ (\E mode \in {"standby", "answering"} : Receive(mode))
  <2>1. UNCHANGED <<form, selected, notified, notices, wanted, sent>> /\ (over' = over \/ over' # "number")
    BY <1>12 DEF OpenDialog, AnswerPassword, ServiceChanges, Receive
  <2> QED BY <2>1 DEF FormTypes, LabelIsSelected, QuestionStands, AskedIsDialled, Fax
<1>13. CASE UNCHANGED formVars
  BY <1>13 DEF formVars, FormTypes, LabelIsSelected, QuestionStands, AskedIsDialled, Fax
<1> QED BY <1>1, <1>2, <1>3, <1>4, <1>5, <1>6, <1>7, <1>8, <1>9, <1>10, <1>11, <1>12, <1>13 DEF NextForm

----------------------------------------------------------------------------
(* The form is what its user sees: the label of a job is that of the job   *)
(* selected, and an unanswered question stands (set_files_slot(),          *)
(* remove_from_socket_server_filelist(), sendfax_slot()).                  *)
THEOREM FormHolds == SpecForm => []FormInv
<1>1. InitForm => FormInv
  BY FormInit
<1>2. FormInv /\ [NextForm]_formVars => FormInv'
  BY FormSteps
<1> QED BY <1>1, <1>2, PTL DEF SpecForm

(* AskedIsDialled: whatever happens while the question about a missing      *)
(* number is open, sendfax_slot() gives the controller what was asked for.  *)
THEOREM WhatIsAskedIsDialled == SpecForm => []AskedIsDialled
<1>1. FormInv => AskedIsDialled
  BY DEF FormInv
<1> QED BY <1>1, FormHolds, PTL

----------------------------------------------------------------------------
(* LogFile *)

LogLines == {"begin", "text", "mark", "end"}

\* A log is open in the file.
Going(log) == log # <<>> /\ log[Len(log)] # "end"

LogTypes ==
  /\ logger \in {"unborn", "alive", "gone"}
  /\ configured \in LogNames \cup {""} /\ logfile \in LogNames \cup {""}
  /\ buffer \in Seq({"text"})
  /\ logs \in [LogNames -> Seq(LogLines)]

(* The file of the stream is the only one whose log has not ended.          *)
OneGoing ==
  /\ logfile # "" => Going(logs[logfile])
  /\ \A name \in LogNames : name # logfile \/ name = "" => Ended(logs[name])

LogAgrees ==
  /\ timers = IF logfile = "" THEN 0 ELSE 1
  /\ logfile_name = logfile
  /\ configured # "" => configured = logfile

LogInv ==
  /\ LogTypes
  /\ logger = "unborn" =>
       /\ logfile = "" /\ timers = 0
       /\ \A name \in LogNames : logs[name] = <<>>
  /\ logger = "alive" => LogAgrees /\ OneGoing
  /\ \A name \in LogNames : Bracketed(logs[name])

\* What the files are to be when a log is opened.
AllEnded(files) ==
  /\ files \in [LogNames -> Seq(LogLines)]
  /\ \A name \in LogNames : Bracketed(files[name]) /\ Ended(files[name])

\* The numbers of timers: arithmetic is kept apart from the names, of which one is "".
LEMMA TimerNumbers == 0 + 1 = 1 /\ 1 - 1 = 0 /\ ~(0 > 0) /\ 1 # 0
  OBVIOUS

(* A log begins in a file in which none is open.                            *)
LEMMA LogBegins ==
  ASSUME NEW log \in Seq(LogLines), Bracketed(log), Ended(log)
  PROVE  /\ Append(log, "begin") \in Seq(LogLines)
         /\ Bracketed(Append(log, "begin")) /\ Going(Append(log, "begin"))
<1> DEFINE new == Append(log, "begin")
<1>1. new \in Seq(LogLines) /\ Len(new) = Len(log) + 1 /\ new[Len(new)] = "begin"
      /\ (\A n \in 1..Len(log) : new[n] = log[n]) /\ new # <<>> /\ Len(log) \in Nat
  BY AppendProperties DEF LogLines
<1>2. log = <<>> <=> Len(log) = 0
  BY EmptySeq
<1> HIDE DEF new
<1>3. Going(new)
  BY <1>1 DEF Going
<1>4. new[1] = "begin"
  BY <1>1, <1>2 DEF Bracketed
<1>5. ASSUME NEW n \in 1..(Len(new) - 1)
      PROVE  new[n] = "end" <=> new[n + 1] = "begin"
  <2>1. CASE n = Len(log)
    BY <2>1, <1>1, <1>2 DEF Ended
  <2>2. CASE n # Len(log)
    BY <2>2, <1>1 DEF Bracketed
  <2> QED BY <2>1, <2>2
<1> QED BY <1>1, <1>3, <1>4, <1>5 DEF Bracketed, new

(* A line other than these two leaves the log open; the last one ends it.   *)
LEMMA LogGoesOn ==
  ASSUME NEW log \in Seq(LogLines), Bracketed(log), Going(log), NEW line \in LogLines \ {"begin"}
  PROVE  /\ Append(log, line) \in Seq(LogLines) /\ Bracketed(Append(log, line))
         /\ IF line = "end" THEN Ended(Append(log, line)) ELSE Going(Append(log, line))
<1> DEFINE new == Append(log, line)
<1>1. new \in Seq(LogLines) /\ Len(new) = Len(log) + 1 /\ new[Len(new)] = line
      /\ (\A n \in 1..Len(log) : new[n] = log[n]) /\ new # <<>> /\ Len(log) \in Nat
  BY AppendProperties DEF LogLines
<1>2. log # <<>> /\ Len(log) > 0
  BY EmptySeq DEF Going
<1> HIDE DEF new
<1>3. IF line = "end" THEN Ended(new) ELSE Going(new)
  BY <1>1 DEF Going, Ended
<1>4. new[1] = "begin"
  BY <1>1, <1>2 DEF Bracketed
<1>5. ASSUME NEW n \in 1..(Len(new) - 1)
      PROVE  new[n] = "end" <=> new[n + 1] = "begin"
  <2>1. CASE n = Len(log)
    BY <2>1, <1>1, <1>2 DEF Going
  <2>2. CASE n # Len(log)
    BY <2>2, <1>1 DEF Bracketed
  <2> QED BY <2>1, <2>2
<1> QED BY <1>1, <1>3, <1>4, <1>5 DEF Bracketed, new

(* The text of the buffer, however much it is, leaves the log open.         *)
LEMMA LogTakesText ==
  ASSUME NEW log \in Seq(LogLines), Bracketed(log), Going(log), NEW text \in Seq({"text"})
  PROVE  log \o text \in Seq(LogLines) /\ Bracketed(log \o text) /\ Going(log \o text)
<1> DEFINE new == log \o text
<1>0. text \in Seq(LogLines) /\ Len(text) \in Nat /\ Len(log) \in Nat
      /\ \A n \in 1..Len(text) : text[n] = "text"
  BY DEF LogLines
<1>1. new \in Seq(LogLines) /\ Len(new) = Len(log) + Len(text)
      /\ (\A n \in 1..Len(log) : new[n] = log[n])
      /\ (\A n \in 1..Len(new) : n > Len(log) => new[n] = text[n - Len(log)])
  BY <1>0, ConcatProperties
<1>2. log # <<>> /\ Len(log) > 0
  BY EmptySeq DEF Going
<1> HIDE DEF new
<1>3. \A n \in 1..Len(new) : n > Len(log) => new[n] = "text"
  <2> SUFFICES ASSUME NEW n \in 1..Len(new), n > Len(log) PROVE new[n] = "text"
    OBVIOUS
  <2>1. n - Len(log) \in 1..Len(text)
    BY <1>0, <1>1
  <2> QED BY <2>1, <1>0, <1>1
<1>4. new[1] = "begin" /\ new # <<>>
  BY <1>0, <1>1, <1>2, EmptySeq DEF Bracketed
<1>5. Going(new)
  <2>1. CASE Len(text) = 0
    BY <2>1, <1>0, <1>1, <1>2, <1>4 DEF Going
  <2>2. CASE Len(text) > 0
    BY <2>2, <1>0, <1>1, <1>3, <1>4, SMTT(30) DEF Going
  <2> QED BY <2>1, <2>2, <1>0
<1>6. ASSUME NEW n \in 1..(Len(new) - 1)
      PROVE  new[n] = "end" <=> new[n + 1] = "begin"
  <2>1. CASE n = Len(log)
    BY <2>1, <1>0, <1>1, <1>2, <1>3 DEF Going
  <2>2. CASE n < Len(log)
    BY <2>2, <1>0, <1>1, SMTT(30) DEF Bracketed
  <2>3. CASE n > Len(log)
    BY <2>3, <1>0, <1>1, <1>3
  <2> QED BY <2>1, <2>2, <2>3, <1>0, <1>1
<1> QED BY <1>1, <1>4, <1>5, <1>6 DEF Bracketed, new

----------------------------------------------------------------------------
(* What the helpers of the actions make of the files.                       *)

LEMMA FlushedIsSound ==
  ASSUME LogInv, logger = "alive"
  PROVE  /\ Flushed \in [LogNames -> Seq(LogLines)]
         /\ \A name \in LogNames : Bracketed(Flushed[name])
         /\ logfile # "" => Going(Flushed[logfile])
         /\ \A name \in LogNames : name # logfile \/ name = "" => Ended(Flushed[name])
<1>1. CASE logfile = ""
  BY <1>1 DEF Flushed, LogInv, LogTypes, OneGoing
<1>2. CASE logfile # ""
  <2>1. logfile \in LogNames /\ logs[logfile] \in Seq(LogLines) /\ Bracketed(logs[logfile])
        /\ Going(logs[logfile]) /\ buffer \in Seq({"text"})
    BY <1>2 DEF LogInv, LogTypes, OneGoing
  <2>2. PICK new \in Seq(LogLines) : /\ new = logs[logfile] \o buffer
                                /\ Bracketed(new) /\ Going(new)
    BY <2>1, LogTakesText
  <2>3. Flushed = [logs EXCEPT ![logfile] = new]
    BY <1>2, <2>2 DEF Flushed
  <2> QED BY <1>2, <2>1, <2>2, <2>3 DEF LogInv, LogTypes, OneGoing
<1> QED BY <1>1, <1>2

LEMMA ClosedIsEnded ==
  ASSUME LogInv, logger = "alive", logfile # ""
  PROVE  AllEnded(Closed.files) /\ Closed.timers = 0
<1>1. logfile \in LogNames /\ Flushed[logfile] \in Seq(LogLines) /\ Bracketed(Flushed[logfile])
      /\ Going(Flushed[logfile])
  BY FlushedIsSound DEF LogInv, LogTypes
<1>2. PICK new \in Seq(LogLines) : /\ new = Append(Flushed[logfile], "end")
                              /\ Bracketed(new) /\ Ended(new)
  BY <1>1, LogGoesOn DEF LogLines
<1>3. Closed.files = [Flushed EXCEPT ![logfile] = new] /\ Closed.timers = timers - 1
  BY <1>2 DEF Closed
<1>4. timers = 1
  BY DEF LogInv, LogAgrees
<1>5. AllEnded(Closed.files)
  BY <1>1, <1>2, <1>3, FlushedIsSound DEF AllEnded
<1>6. Closed.timers = 0
  <2>1. Closed.timers = timers - 1
    BY <1>3
  <2> QED BY <2>1, <1>4, TimerNumbers, Zenon
<1> QED BY <1>5, <1>6

LEMMA OpenedIsSound ==
  ASSUME NEW name \in LogNames \cup {""}, NEW files, AllEnded(files), Opened(name, files, 0),
         logger' = "alive", buffer' \in Seq({"text"})
  PROVE  LogInv'
<1>1. CASE logfile' = ""
  BY <1>1 DEF Opened, LogInv, LogTypes, LogAgrees, OneGoing, AllEnded
<1>2. CASE logfile' # ""
  <2>1. /\ name \in LogNames /\ logfile' = name /\ logfile_name' = name /\ configured' = name
        /\ logs' = [files EXCEPT ![name] = Append(files[name], "begin")]
        /\ timers' = 1
    <3>1. name # "" /\ logfile' = name /\ logfile_name' = name /\ configured' = name
          /\ logs' = [files EXCEPT ![name] = Append(files[name], "begin")] /\ timers' = 0 + 1
      BY <1>2 DEF Opened
    <3>2. timers' = 1
      <4>1. timers' = 0 + 1
        BY <3>1
      <4> QED BY <4>1, TimerNumbers, Zenon
    <3> QED BY <3>1, <3>2
  <2>2. PICK new \in Seq(LogLines) : /\ new = Append(files[name], "begin")
                                /\ Bracketed(new) /\ Going(new)
    BY <2>1, LogBegins DEF AllEnded
  <2>3. logs' = [files EXCEPT ![name] = new]
    BY <2>1, <2>2
  <2> QED BY <1>2, <2>1, <2>2, <2>3 DEF LogInv, LogTypes, LogAgrees, OneGoing, AllEnded
<1> QED BY <1>1, <1>2

----------------------------------------------------------------------------
LEMMA LogInit == InitLog => LogInv
<1> SUFFICES ASSUME InitLog PROVE LogInv
  OBVIOUS
<1>1. Len(<<>>) = 0 /\ 1..(Len(<<>>) - 1) = {}
  OBVIOUS
<1>2. Bracketed(<<>>)
  BY <1>1 DEF Bracketed
<1>3. logs \in [LogNames -> Seq(LogLines)] /\ \A name \in LogNames : logs[name] = <<>>
  BY EmptySeq DEF InitLog
<1>4. buffer \in Seq({"text"})
  BY EmptySeq DEF InitLog
<1> QED BY <1>2, <1>3, <1>4 DEF InitLog, LogInv, LogTypes

LEMMA LoggerKeeps ==
  ASSUME LogInv, Logger
  PROVE  LogInv'
<1>1. AllEnded(logs)
  BY DEF Logger, LogInv, LogTypes, AllEnded, Ended
<1>2. Opened(configured, logs, 0)
  BY DEF Logger, LogInv
<1> QED BY <1>1, <1>2, OpenedIsSound DEF Logger, LogInv, LogTypes

LEMMA ResetKeeps ==
  ASSUME LogInv, NEW name \in LogNames, reset_logfile(name)
  PROVE  LogInv'
<1>0. logger = "alive" /\ logger' = "alive"
  BY DEF reset_logfile, Step
<1>1. CASE name = logfile_name \/ ~Convertible(name)
  BY <1>0, <1>1 DEF reset_logfile, LogInv, LogTypes, LogAgrees, OneGoing
<1>2. CASE ~(name = logfile_name \/ ~Convertible(name))
  <2>1. buffer' \in Seq({"text"})
    BY <1>2, EmptySeq DEF reset_logfile
  <2>2. CASE logfile_name = ""
    <3>1. AllEnded(logs) /\ timers = 0
      BY <1>0, <2>2 DEF LogInv, LogTypes, LogAgrees, OneGoing, AllEnded
    <3>2. Opened(name, logs, 0)
      BY <1>2, <2>2, <3>1 DEF reset_logfile
    <3> QED BY <1>0, <2>1, <3>1, <3>2, OpenedIsSound
  <2>3. CASE logfile_name # ""
    <3>1. AllEnded(Closed.files) /\ Closed.timers = 0
      BY <1>0, <2>3, ClosedIsEnded DEF LogInv, LogAgrees
    <3>2. Opened(name, Closed.files, 0)
      BY <1>2, <2>3, <3>1 DEF reset_logfile
    <3> QED BY <1>0, <2>1, <3>1, <3>2, OpenedIsSound
  <2> QED BY <2>2, <2>3
<1> QED BY <1>1, <1>2

LEMMA WriteKeeps ==
  ASSUME LogInv, write_to_log
  PROVE  LogInv'
<1>1. buffer' \in Seq({"text"})
  BY AppendProperties DEF write_to_log, LogInv, LogTypes
<1> QED BY <1>1 DEF write_to_log, Step, LogInv, LogTypes, LogAgrees, OneGoing

LEMMA TimerKeeps ==
  ASSUME LogInv, logfile_timer_impl
  PROVE  LogInv'
<1>0. logger = "alive" /\ timers > 0
  BY DEF logfile_timer_impl, Step
<1>1. logger = "alive" /\ logfile # "" /\ logfile \in LogNames
  <2>1. timers = (IF logfile = "" THEN 0 ELSE 1) /\ logfile \in LogNames \cup {""}
    BY <1>0 DEF LogInv, LogTypes, LogAgrees
  <2>2. logfile # ""
    BY <2>1, <1>0, TimerNumbers, Zenon
  <2> QED BY <1>0, <2>1, <2>2
<1>2. buffer' \in Seq({"text"})
  BY EmptySeq DEF logfile_timer_impl
<1>3. PICK new \in Seq(LogLines) : /\ new = Append(Flushed[logfile], "mark")
                              /\ Bracketed(new) /\ Going(new)
  BY <1>1, FlushedIsSound, LogGoesOn DEF LogLines
<1>4. logs' = Flushed \/ logs' = [Flushed EXCEPT ![logfile] = new]
  BY <1>3 DEF logfile_timer_impl
<1>5. /\ logs' \in [LogNames -> Seq(LogLines)]
      /\ \A name \in LogNames : Bracketed(logs'[name])
      /\ Going(logs'[logfile])
      /\ \A name \in LogNames : name # logfile \/ name = "" => Ended(logs'[name])
  BY <1>1, <1>3, <1>4, FlushedIsSound
<1> QED BY <1>1, <1>2, <1>5
        DEF logfile_timer_impl, Step, LogInv, LogTypes, LogAgrees, OneGoing

LEMMA ViewKeeps ==
  ASSUME LogInv, view_log
  PROVE  LogInv'
<1>1. buffer' \in Seq({"text"})
  BY EmptySeq DEF view_log
<1>2. logger = "alive" /\ logs' = Flushed
  BY DEF view_log
<1> QED BY <1>1, <1>2, FlushedIsSound DEF view_log, LogInv, LogTypes, LogAgrees, OneGoing

LEMMA EndKeeps ==
  ASSUME LogInv, EndLogger
  PROVE  LogInv'
<1>1. logger = "alive" /\ logger' = "gone" /\ logfile' = "" /\ configured' = configured
      /\ buffer' \in Seq({"text"})
  BY EmptySeq DEF EndLogger
<1>2. /\ logs' \in [LogNames -> Seq(LogLines)]
      /\ \A name \in LogNames : Bracketed(logs'[name])
  <2>1. CASE configured # ""
    BY <1>1, <2>1, ClosedIsEnded DEF EndLogger, LogInv, LogAgrees, AllEnded
  <2>2. CASE configured = ""
    BY <1>1, <2>2, FlushedIsSound DEF EndLogger
  <2> QED BY <2>1, <2>2
<1> QED BY <1>1, <1>2 DEF LogInv, LogTypes

LEMMA LogSteps ==
  ASSUME LogInv, [NextLog]_logVars
  PROVE  LogInv'
<1>1. CASE UNCHANGED logVars
  BY <1>1 DEF logVars, LogInv, LogTypes, LogAgrees, OneGoing
<1>2. CASE NextLog
  BY <1>2, LoggerKeeps, ResetKeeps, WriteKeeps, TimerKeeps, ViewKeeps, EndKeeps DEF NextLog
<1> QED BY <1>1, <1>2

(* There is one timer while the log is open and none without, the file that *)
(* is written to is the one whose name the Logger knows, and no file is     *)
(* left without the line that ends its log when another is opened: logger.cpp, *)
(* whatever names the settings dialog gives and however often.              *)
THEOREM LogStaysSound == SpecLog => []LogIsSound
<1>1. LogInv => LogIsSound
  BY DEF LogInv, LogAgrees, OneGoing, LogIsSound
<1>2. SpecLog => []LogInv
  BY LogInit, LogSteps, PTL DEF SpecLog
<1> QED BY <1>1, <1>2, PTL

-----------------------------------------------------------------------------
(* The address book.                                                       *)

Columns == AddressTexts \ {"raw"}

Rows == [name : Columns, number : Columns]

LEMMA SomeTexts == {"", "wide", "raw", "null"} \subseteq AddressTexts /\ "" \in AddressTexts
BY BookAssumption

KeptRow(row) == IF Storable(row) THEN <<row>> ELSE <<>>

LEMMA ReadListType ==
  ASSUME NEW lines \in Seq(BookLine)
  PROVE  read_list(lines) \in Seq(Rows)
<1>1. ASSUME NEW n \in 1..Len(lines) PROVE RowOf(lines[n]) \in Seq(Rows)
  <2>1. lines[n].name \in AddressTexts /\ lines[n].number \in AddressTexts
    <3>1. lines[n] \in BookLine
      OBVIOUS
    <3> QED BY <3>1 DEF BookLine
  <2>2. ASSUME NEW text \in AddressTexts PROVE Column(text) \in Columns
    <3>1. CASE text = "raw"
      <4>1. Column(text) = "null"
        BY <3>1 DEF Column
      <4> QED BY <4>1, BookAssumption DEF Columns
    <3>2. CASE text # "raw"
      BY <3>2 DEF Column, Columns
    <3> QED BY <3>1, <3>2
  <2> DEFINE row == [name |-> Column(lines[n].name),
                     number |-> Column(IF lines[n].divided THEN lines[n].number ELSE lines[n].name)]
  <2>3. row \in Rows
    BY <2>1, <2>2 DEF Rows
  <2>4. RowOf(lines[n]) = <<>> \/ RowOf(lines[n]) = <<row>>
    BY DEF RowOf
  <2> HIDE DEF row
  <2>5. <<>> \in Seq(Rows) /\ <<row>> \in Seq(Rows)
    BY <2>3
  <2>6. CASE RowOf(lines[n]) = <<>>
    BY <2>5, <2>6
  <2>7. CASE RowOf(lines[n]) = <<row>>
    BY <2>5, <2>7
  <2> QED BY <2>4, <2>6, <2>7
<1>2. [n \in 1..Len(lines) |-> RowOf(lines[n])] \in [1..Len(lines) -> Seq(Rows)] /\ Len(lines) \in Nat
  BY <1>1
<1> QED BY <1>2, FlattenedType DEF read_list

LEMMA StorablesOfNone == Storables(<<>>) = <<>>
BY DEF Storables, FlattenSeq

LEMMA StorablesOfMore ==
  ASSUME NEW list \in Seq(Rows), NEW row \in Rows
  PROVE  Storables(list \o <<row>>) = Storables(list) \o KeptRow(row)
<1> DEFINE N == Len(list)
           all == list \o <<row>>
           seqs == [n \in 1..N |-> IF Storable(list[n]) THEN <<list[n]>> ELSE <<>>]
           more == [n \in 1..Len(all) |-> IF Storable(all[n]) THEN <<all[n]>> ELSE <<>>]
<1>1. N \in Nat /\ Len(all) = N + 1 /\ all[N + 1] = row /\ \A n \in 1..N : all[n] = list[n]
  OBVIOUS
<1>2. all \in Seq(Rows) /\ \A n \in 1..(N + 1) : all[n] \in Rows
  BY <1>1
<1>3. seqs \in [1..N -> Seq(Rows)]
  OBVIOUS
<1>4. more \in [1..(N + 1) -> Seq(Rows)] /\ more[N + 1] = KeptRow(row)
  <2> HIDE DEF N, all
  <2> QED BY <1>1, <1>2 DEF KeptRow
<1>5. ASSUME NEW n \in 1..N PROVE more[n] = seqs[n]
  <2>1. n \in 1..Len(all) /\ all[n] = list[n]
    BY <1>1
  <2> HIDE DEF all
  <2> QED BY <2>1
<1>6. FlattenSeq(more) = FlattenSeq(seqs) \o KeptRow(row)
  <2> HIDE DEF N, all, seqs, more
  <2> QED BY <1>1, <1>3, <1>4, <1>5, FlattenedMore
<1> QED BY <1>6 DEF Storables

\* What is written of a row is read again, if the file can express it.
LEMMA RowComesBack ==
  ASSUME NEW row \in Rows, ~Deadly(row)
  PROVE  \/ RowOf(Line(row)) = <<row>>
         \/ /\ ~Storable(row)
            /\ \/ RowOf(Line(row)) = <<>>
               \/ \E other \in Rows : ~Storable(other) /\ RowOf(Line(row)) = <<other>>
<1>1. row = [name |-> row.name, number |-> row.number] /\ row.name \in AddressTexts /\ row.number \in AddressTexts
      /\ row.name # "raw" /\ row.number # "raw"
  BY DEF Rows, Columns
<1>2. CASE row.name = "wide"
  BY <1>2 DEF RowOf, Line, Storable
<1>3. CASE row.name # "wide" /\ row.number = "wide"
  <2> DEFINE other == [name |-> row.name, number |-> ""]
  <2>0. other.number = ""
    OBVIOUS
  <2>1. other \in Rows /\ ~Storable(other)
    <3>1. ~Storable(other)
      BY <2>0 DEF Storable
    <3>2. other \in Rows
      BY <1>1, BookAssumption DEF Rows, Columns
    <3> QED BY <3>1, <3>2
  <2>2. RowOf(Line(row)) = <<other>>
    BY <1>1, <1>3 DEF RowOf, Line, Column
  <2>3. ~Storable(row)
    BY <1>3 DEF Storable
  <2> QED BY <2>1, <2>2, <2>3
<1>4. CASE row.name # "wide" /\ row.number # "wide"
  BY <1>1, <1>4 DEF RowOf, Line, Column
<1> QED BY <1>2, <1>3, <1>4

(* What save_list() writes, read_list() reads: the addresses that the file *)
(* can express, in their order and with their numbers.                     *)
LEMMA ListComesBack ==
  ASSUME NEW list \in Seq(Rows), \A i \in 1..Len(list) : ~Deadly(list[i])
  PROVE  Storables(read_list(Lines(list))) = Storables(list)
<1> DEFINE N == Len(list)
           read == [n \in 1..N |-> RowOf(Line(list[n]))]
           seqs == [n \in 1..N |-> KeptRow(list[n])]
<1>1. N \in Nat /\ \A n \in 1..N : list[n] \in Rows
  OBVIOUS
<1>2. read \in [1..N -> Seq(Rows)]
  <2> SUFFICES ASSUME NEW n \in 1..N PROVE RowOf(Line(list[n])) \in Seq(Rows)
    OBVIOUS
  <2>1. list[n] \in Rows /\ ~Deadly(list[n])
    BY <1>1
  <2>2. <<list[n]>> \in Seq(Rows) /\ <<>> \in Seq(Rows)
        /\ \A other \in Rows : <<other>> \in Seq(Rows)
    BY <2>1
  <2> QED BY <2>1, <2>2, RowComesBack
<1>3. seqs \in [1..N -> Seq(Rows)]
  BY <1>1 DEF KeptRow
<1>4. read_list(Lines(list)) = FlattenSeq(read)
  <2>1. Len(Lines(list)) = N /\ \A n \in 1..N : Lines(list)[n] = Line(list[n])
    BY <1>1 DEF Lines
  <2>2. [n \in 1..Len(Lines(list)) |-> RowOf(Lines(list)[n])] = read
    BY <2>1
  <2> QED BY <2>2 DEF read_list
<1>5. Storables(list) = FlattenSeq(seqs)
  BY DEF Storables, KeptRow
<1>6. PICK F : Joins(F, N, read, Rows)
  <2> HIDE DEF N, read, seqs
  <2> QED BY <1>1, <1>2, Flattened
<1>7. PICK G : Joins(G, N, seqs, Rows)
  <2> HIDE DEF N, read, seqs
  <2> QED BY <1>1, <1>3, Flattened
<1> DEFINE S == {n \in 0..N : Storables(F[n]) = G[n]}
<1>8. 0 \in S
  BY <1>1, <1>6, <1>7, StorablesOfNone DEF Joins
<1>9. ASSUME NEW n \in 1..N, n - 1 \in S PROVE n \in S
  <2>0. n \in 0..N /\ n - 1 \in 0..N /\ F[n - 1] \in Seq(Rows) /\ G[n - 1] \in Seq(Rows)
        /\ Storables(F[n - 1]) = G[n - 1] /\ list[n] \in Rows /\ ~Deadly(list[n])
    <3>1. n \in 0..N /\ n - 1 \in 0..N /\ list[n] \in Rows /\ ~Deadly(list[n])
      BY <1>1
    <3>2. Storables(F[n - 1]) = G[n - 1]
      BY <1>9
    <3> HIDE DEF N, read, seqs
    <3> QED BY <1>6, <1>7, <3>1, <3>2 DEF Joins
  <2>1. F[n] = F[n - 1] \o RowOf(Line(list[n])) /\ G[n] = G[n - 1] \o KeptRow(list[n])
    BY <1>6, <1>7 DEF Joins
  <2>2. Storables(F[n]) = G[n]
    <3>1. CASE RowOf(Line(list[n])) = <<list[n]>>
      BY <2>0, <2>1, <3>1, StorablesOfMore
    <3>2. CASE ~Storable(list[n]) /\ RowOf(Line(list[n])) = <<>>
      <4>1. F[n] = F[n - 1] /\ G[n] = G[n - 1]
        BY <2>0, <2>1, <3>2 DEF KeptRow
      <4> QED BY <2>0, <4>1
    <3>3. ASSUME ~Storable(list[n]), NEW other \in Rows, ~Storable(other), RowOf(Line(list[n])) = <<other>>
          PROVE  Storables(F[n]) = G[n]
      <4>1. Storables(F[n]) = Storables(F[n - 1]) \o KeptRow(other)
        <5>1. F[n] = F[n - 1] \o <<other>>
          BY <2>1, <3>3
        <5> QED BY <2>0, <3>3, <5>1, StorablesOfMore
      <4>2. KeptRow(other) = <<>> /\ KeptRow(list[n]) = <<>>
        BY <3>3 DEF KeptRow
      <4>3. G[n - 1] \o <<>> = G[n - 1]
        BY <2>0
      <4> QED BY <2>0, <2>1, <4>1, <4>2, <4>3
    <3> QED BY <2>0, <3>1, <3>2, <3>3, RowComesBack
  <2> QED BY <2>0, <2>2
<1>10. 0..N \subseteq S
  <2> HIDE DEF S
  <2> QED BY <1>1, <1>8, <1>9, InductionTo
<1>11. N \in S
  BY <1>1, <1>10
<1> QED BY <1>4, <1>5, <1>6, <1>7, <1>11 DEF Joins

(* Strengthened: the file gives what was last shown, as far as a file can   *)
(* express it, be the dialog open or not; and the row that is selected is   *)
(* one of the list.                                                        *)
BookInv ==
  /\ bookfile \in Seq(BookLine)
  /\ rows \in Seq(Rows) /\ pick \in 0..Len(rows)
  /\ kept # Lost => Storables(read_list(bookfile)) = Storables(kept)

LEMMA LinesType ==
  ASSUME NEW list \in Seq(Rows)
  PROVE  Lines(list) \in Seq(BookLine)
<1>1. ASSUME NEW row \in Rows
      PROVE  Line(row) \in BookLine
  <2>1. row.name \in AddressTexts /\ row.number \in AddressTexts
    BY DEF Rows, Columns
  <2>2. CASE row.name = "wide"
    <3>1. Line(row) = [name |-> "", number |-> "", divided |-> FALSE]
      BY <2>2 DEF Line
    <3>2. [name |-> "", number |-> "", divided |-> FALSE] \in BookLine
      BY SomeTexts DEF BookLine
    <3> QED BY <3>1, <3>2
  <2>3. CASE row.name # "wide" /\ row.number = "wide"
    <3>1. Line(row) = [name |-> row.name, number |-> "", divided |-> TRUE]
      BY <2>3 DEF Line
    <3>2. [name |-> row.name, number |-> "", divided |-> TRUE] \in BookLine
      BY <2>1, SomeTexts DEF BookLine
    <3> QED BY <3>1, <3>2
  <2>4. CASE row.name # "wide" /\ row.number # "wide"
    <3>1. Line(row) = [name |-> row.name, number |-> row.number, divided |-> TRUE]
      BY <2>4 DEF Line
    <3> QED BY <2>1, <3>1 DEF BookLine
  <2> QED BY <2>2, <2>3, <2>4
<1>2. \A i \in 1..Len(list) : list[i] \in Rows
  OBVIOUS
<1> QED BY <1>1, <1>2 DEF Lines

\* A change of the list, which is saved or lost with the program.
LEMMA ChangedKeeps ==
  ASSUME NEW list \in Seq(Rows), NEW selection \in 0..Len(list), BookInv, Changed(list, selection)
  PROVE  BookInv'
<1>1. CASE save_list(list) /\ pick' = selection
  <2>1. bookfile' \in Seq(BookLine)
    BY <1>1, LinesType DEF BookInv, save_list
  <2>2. rows' = list
    BY <1>1 DEF save_list
  <2>3. kept' # Lost => Storables(read_list(bookfile')) = Storables(kept')
    BY <1>1, ListComesBack DEF save_list
  <2> QED BY <1>1, <2>1, <2>2, <2>3 DEF BookInv
<1>2. CASE SaveDies(list)
  <2>1. PICK n \in 0..Len(list) : bookfile' = Lines(SubSeq(list, 1, n))
    BY <1>2 DEF SaveDies
  <2>2. SubSeq(list, 1, n) \in Seq(Rows)
    BY <2>1
  <2>3. bookfile' \in Seq(BookLine)
    BY <2>1, <2>2, LinesType
  <2> QED BY <1>2, <2>3 DEF SaveDies, BookInv
<1> QED BY <1>1, <1>2 DEF Changed

LEMMA BookInvInit == InitBook => BookInv
<1> SUFFICES ASSUME InitBook PROVE BookInv
  OBVIOUS
<1>1. bookfile \in Seq(BookLine)
  BY BookAssumption DEF InitBook
<1>2. rows = <<>> /\ pick = 0 /\ kept = Lost
  BY DEF InitBook
<1>3. rows \in Seq(Rows) /\ Len(rows) = 0
  BY <1>2
<1> QED BY <1>1, <1>2, <1>3 DEF BookInv

LEMMA BookInvStep ==
  ASSUME BookInv, [NextBook]_bookVars
  PROVE  BookInv'
<1>0. Len(rows) \in Nat /\ rows \in Seq(Rows) /\ pick \in Nat /\ pick <= Len(rows)
  BY DEF BookInv
<1>1. CASE OpenBook
  BY <1>1, ReadListType DEF OpenBook, BookInv
<1>2. CASE CloseBook
  BY <1>2 DEF CloseBook, BookInv
<1>3. ASSUME NEW i \in 1..Len(rows), Pick(i) PROVE BookInv'
  BY <1>3 DEF Pick, BookInv
<1>4. ASSUME NEW name \in Entered, NEW number \in Entered, add_address_impl(name, number) PROVE BookInv'
  <2> DEFINE list == Append(rows, [name |-> name, number |-> number])
  <2>1. [name |-> name, number |-> number] \in Rows
    <3>1. Entered \subseteq Columns
      BY BookAssumption DEF Columns
    <3> QED BY <3>1 DEF Rows
  <2>2. list \in Seq(Rows) /\ pick \in 0..Len(list)
    BY <1>0, <2>1
  <2>3. Changed(list, pick)
    BY <1>4 DEF add_address_impl
  <2> HIDE DEF list
  <2> QED BY <2>2, <2>3, ChangedKeeps
<1>5. CASE delete_address_impl
  <2>1. RemoveAt(rows, pick) \in Seq(Rows)
    BY <1>0, <1>5 DEF delete_address_impl, RemoveAt
  <2>2. Changed(RemoveAt(rows, pick), 0) /\ 0 \in 0..Len(RemoveAt(rows, pick))
    BY <1>5, <2>1 DEF delete_address_impl
  <2> QED BY <2>1, <2>2, ChangedKeeps
<1>6. ASSUME NEW i \in 1..(Len(rows) - 1)
      PROVE  Swapped(rows, i) \in Seq(Rows) /\ Len(Swapped(rows, i)) = Len(rows)
  BY <1>0 DEF Swapped
<1>7. CASE move_up_impl
  <2>1. pick - 1 \in 1..(Len(rows) - 1) /\ Changed(Swapped(rows, pick - 1), pick - 1)
    BY <1>0, <1>7 DEF move_up_impl
  <2>2. Swapped(rows, pick - 1) \in Seq(Rows) /\ pick - 1 \in 0..Len(Swapped(rows, pick - 1))
    BY <1>0, <1>6, <2>1
  <2> QED BY <2>1, <2>2, ChangedKeeps
<1>8. CASE move_down_impl
  <2>1. pick \in 1..(Len(rows) - 1) /\ Changed(Swapped(rows, pick), pick + 1)
    BY <1>8 DEF move_down_impl
  <2>2. Swapped(rows, pick) \in Seq(Rows) /\ pick + 1 \in 0..Len(Swapped(rows, pick))
    BY <1>0, <1>6, <2>1
  <2> QED BY <2>1, <2>2, ChangedKeeps
<1>9. ASSUME NEW i \in 1..Len(rows), NEW j \in 1..Len(rows), drag_n_drop(i, j) PROVE BookInv'
  <2> DEFINE left == RemoveAt(rows, i)
             list == InsertAt(left, j, rows[i])
  <2>1. left \in Seq(Rows) /\ rows[i] \in Rows /\ Len(left) = Len(rows) - 1
    <3>1. /\ SubSeq(rows, 1, i - 1) \in Seq(Rows) /\ Len(SubSeq(rows, 1, i - 1)) = i - 1
          /\ SubSeq(rows, i + 1, Len(rows)) \in Seq(Rows)
          /\ Len(SubSeq(rows, i + 1, Len(rows))) = Len(rows) - i
      BY <1>0
    <3>2. left = SubSeq(rows, 1, i - 1) \o SubSeq(rows, i + 1, Len(rows))
      BY DEF RemoveAt
    <3> HIDE DEF left
    <3>3. left \in Seq(Rows) /\ Len(left) = (i - 1) + (Len(rows) - i)
      <4> DEFINE a == SubSeq(rows, 1, i - 1)
                 b == SubSeq(rows, i + 1, Len(rows))
      <4>1. a \in Seq(Rows) /\ b \in Seq(Rows) /\ left = a \o b
            /\ Len(a) = i - 1 /\ Len(b) = Len(rows) - i
        BY <3>1, <3>2
      <4> HIDE DEF a, b
      <4>2. a \o b \in Seq(Rows) /\ Len(a \o b) = Len(a) + Len(b)
        BY <4>1, ConcatProperties
      <4> QED BY <4>1, <4>2
    <3> QED BY <1>0, <3>3
  <2>2. list \in Seq(Rows)
    <3> HIDE DEF left
    <3> QED BY <1>0, <2>1 DEF InsertAt
  <2>3. Changed(list, 0)
    BY <1>9 DEF drag_n_drop
  <2>4. 0 \in 0..Len(list)
    <3> HIDE DEF list
    <3> QED BY <2>2
  <2> HIDE DEF list
  <2> QED BY <2>2, <2>3, <2>4, ChangedKeeps
<1>10. CASE UNCHANGED bookVars
  BY <1>10 DEF bookVars, BookInv
<1> QED BY <1>1, <1>2, <1>3, <1>4, <1>5, <1>7, <1>8, <1>9, <1>10 DEF NextBook

(* BookIsKept, whatever the file holds at first, whatever is entered, and   *)
(* however long the list.                                                  *)
THEOREM BookStaysAsShown == SpecBook => BookIsKept
<1>1. InitBook => BookInv
  BY BookInvInit
<1>2. BookInv /\ [NextBook]_bookVars => BookInv'
  BY BookInvStep
<1>3. BookInv /\ [NextBook]_bookVars
      => [~shown /\ shown' /\ kept # Lost => Storables(rows') = Storables(kept)]_bookVars
  <2> SUFFICES ASSUME BookInv, NextBook, ~shown, shown', kept # Lost
               PROVE  Storables(rows') = Storables(kept)
    OBVIOUS
  <2>1. OpenBook
    BY DEF NextBook, CloseBook, Pick, add_address_impl, delete_address_impl, move_up_impl,
           move_down_impl, drag_n_drop
  <2> QED BY <2>1 DEF OpenBook, BookInv
<1> QED BY <1>1, <1>2, <1>3, PTL DEF SpecBook, BookIsKept

-----------------------------------------------------------------------------
(* The pages of the dialog.                                                *)

\* What has a codeset.
Places == {"utf8", "locale", "filename"}

\* What the proofs need to know of the widget w of the setting k.
WidgetOk(k, w) ==
  /\ w.sort \in {"text", "box", "radio", "spin"}
  /\ w.sort = "text" =>
       /\ w.first = "" /\ w.clear = ""
       /\ w.write \in Places /\ w.show \in Places /\ w.run \in Places
  /\ w.sort = "box" => w.first \in {"Yes", "No"} /\ w.clear \in {"Yes", "No", "keep"}
  /\ w.sort = "spin" => w.first \in {"min", "usual"} /\ w.clear = "usual"
  /\ w.sort = "radio" =>
       /\ w.clear \in w.options \cup {w.first, "keep"}
       /\ w.first \in w.options \cup {""}
       /\ w.options \cap {"", "a#", "keep"} = {}
       /\ k = "CLASS" => "2" \in w.options
       /\ k = "SOCK_CLIENT_ADDRESS" => "localhost" \in w.options
  /\ k \in {"NAME", "NUMBER"} => w.sort = "text"
  /\ k \notin {"no file", "none"}

LEMMA TextIsOk ==
  ASSUME NEW k, k \notin {"no file", "none"},
         NEW w \in {InLocale, InFilename, Unconverted, Command, Text("filename", "locale", "filename")}
  PROVE  WidgetOk(k, w)
<1>1. \E write, show, run \in Places : w = Text(write, show, run)
  BY DEF InLocale, InFilename, Unconverted, Command, Places
<1>2. PICK write \in Places, show \in Places, run \in Places : w = Text(write, show, run)
  BY <1>1
<1> QED BY <1>2 DEF WidgetOk, Text

LEMMA BoxIsOk ==
  ASSUME NEW k, k \notin {"no file", "none", "NAME", "NUMBER"},
         NEW f \in {"Yes", "No"}, NEW c \in {"Yes", "No", "keep"}
  PROVE  WidgetOk(k, Box(f, c))
BY DEF WidgetOk, Box

LEMMA SpinIsOk ==
  ASSUME NEW k, k \notin {"no file", "none", "NAME", "NUMBER"}, NEW f \in {"min", "usual"}
  PROVE  WidgetOk(k, Spin(f))
BY DEF WidgetOk, Spin

LEMMA RadioIsOk ==
  ASSUME NEW k, k \notin {"no file", "none", "NAME", "NUMBER"}, NEW f, NEW c, NEW options,
         c \in options \cup {f, "keep"}, f \in options \cup {""},
         options \cap {"", "a#", "keep"} = {},
         k = "CLASS" => "2" \in options, k = "SOCK_CLIENT_ADDRESS" => "localhost" \in options
  PROVE  WidgetOk(k, Radio(f, c, options))
BY DEF WidgetOk, Radio

PageOk(page) == \A k \in DOMAIN page : WidgetOk(k, page[k])

LEMMA IdentityIsOk == PageOk(IdentityPage)
<1>1. WidgetOk("NAME", InLocale) /\ WidgetOk("NUMBER", Unconverted)
  BY TextIsOk
<1>8. DOMAIN IdentityPage = {"NAME", "NUMBER"}
  BY DEF IdentityPage
<1>9. /\ WidgetOk("NAME", IdentityPage["NAME"])
      /\ WidgetOk("NUMBER", IdentityPage["NUMBER"])
  BY <1>1 DEF IdentityPage
<1> QED BY <1>8, <1>9 DEF PageOk

LEMMA ModemIsOk == PageOk(ModemPage)
<1>1. WidgetOk("DEVICE", InLocale) /\ WidgetOk("LOCK", InFilename) /\ WidgetOk("CAPABILITIES", Unconverted)
  BY TextIsOk
<1>2. WidgetOk("RINGS", Spin("usual"))
  BY SpinIsOk
<1>3. WidgetOk("CLASS", Radio("", "", {"1", "2", "2.0"}))
  BY RadioIsOk
<1>4. WidgetOk("DIALMODE", Radio("tone", "tone", {"tone", "pulse"}))
  BY RadioIsOk
<1>8. DOMAIN ModemPage = {"DEVICE", "LOCK", "CAPABILITIES", "RINGS", "CLASS", "DIALMODE"}
  BY DEF ModemPage
<1>9. /\ WidgetOk("DEVICE", ModemPage["DEVICE"])
      /\ WidgetOk("LOCK", ModemPage["LOCK"])
      /\ WidgetOk("CAPABILITIES", ModemPage["CAPABILITIES"])
      /\ WidgetOk("RINGS", ModemPage["RINGS"])
      /\ WidgetOk("CLASS", ModemPage["CLASS"])
      /\ WidgetOk("DIALMODE", ModemPage["DIALMODE"])
  BY <1>1, <1>2, <1>3, <1>4 DEF ModemPage
<1> QED BY <1>8, <1>9 DEF PageOk

LEMMA ParmsIsOk == PageOk(ParmsPage)
<1>1. WidgetOk("INIT", Unconverted) /\ WidgetOk("RESET", Unconverted) /\ WidgetOk("PARMS", Unconverted)
  BY TextIsOk
<1>8. DOMAIN ParmsPage = {"INIT", "RESET", "PARMS"}
  BY DEF ParmsPage
<1>9. /\ WidgetOk("INIT", ParmsPage["INIT"])
      /\ WidgetOk("RESET", ParmsPage["RESET"])
      /\ WidgetOk("PARMS", ParmsPage["PARMS"])
  BY <1>1 DEF ParmsPage
<1> QED BY <1>8, <1>9 DEF PageOk

LEMMA PrintIsOk == PageOk(PrintPage)
<1>1. WidgetOk("PRINT_CMD", Command)
  BY TextIsOk
<1>2. WidgetOk("USE_GTKPRINT", Box("No", "keep")) /\ WidgetOk("PRINT_POPUP", Box("Yes", "keep"))
  BY BoxIsOk
<1>3. WidgetOk("PRINT_SHRINK", Spin("min"))
  BY SpinIsOk
<1>8. DOMAIN PrintPage = {"USE_GTKPRINT", "PRINT_CMD", "PRINT_SHRINK", "PRINT_POPUP"}
  BY DEF PrintPage
<1>9. /\ WidgetOk("USE_GTKPRINT", PrintPage["USE_GTKPRINT"])
      /\ WidgetOk("PRINT_CMD", PrintPage["PRINT_CMD"])
      /\ WidgetOk("PRINT_SHRINK", PrintPage["PRINT_SHRINK"])
      /\ WidgetOk("PRINT_POPUP", PrintPage["PRINT_POPUP"])
  BY <1>1, <1>2, <1>3 DEF PrintPage
<1> QED BY <1>8, <1>9 DEF PageOk

LEMMA ViewIsOk == PageOk(ViewPage) /\ PageOk(LoggingPage)
<1>1. WidgetOk("PS_VIEWER", Command) /\ WidgetOk("LOG_FILE", InFilename)
  BY TextIsOk
<1>2. PageOk(ViewPage)
  <2>1. DOMAIN ViewPage = {"PS_VIEWER"} /\ ViewPage["PS_VIEWER"] = Command
    BY DEF ViewPage
  <2> QED BY <1>1, <2>1 DEF PageOk
<1>3. PageOk(LoggingPage)
  <2>1. DOMAIN LoggingPage = {"LOG_FILE"} /\ LoggingPage["LOG_FILE"] = InFilename
    BY DEF LoggingPage
  <2> QED BY <1>1, <2>1 DEF PageOk
<1> QED BY <1>2, <1>3

LEMMA SockIsOk == PageOk(SockPage)
<1>1. WidgetOk("SOCK_SERVER", Box("No", "No")) /\ WidgetOk("SOCK_POPUP", Box("No", "No"))
  BY BoxIsOk
<1>2. WidgetOk("SOCK_SERVER_PORT", Spin("min"))
  BY SpinIsOk
<1>3. WidgetOk("SOCK_CLIENT_ADDRESS", Radio("localhost", "keep", {"localhost", "other"}))
  BY RadioIsOk
<1>4. WidgetOk("SOCK_OTHER_ADDRESSES", Unconverted)
  BY TextIsOk
<1>8. DOMAIN SockPage = {"SOCK_SERVER", "SOCK_POPUP", "SOCK_SERVER_PORT", "SOCK_CLIENT_ADDRESS", "SOCK_OTHER_ADDRESSES"}
  BY DEF SockPage
<1>9. /\ WidgetOk("SOCK_SERVER", SockPage["SOCK_SERVER"])
      /\ WidgetOk("SOCK_POPUP", SockPage["SOCK_POPUP"])
      /\ WidgetOk("SOCK_SERVER_PORT", SockPage["SOCK_SERVER_PORT"])
      /\ WidgetOk("SOCK_CLIENT_ADDRESS", SockPage["SOCK_CLIENT_ADDRESS"])
      /\ WidgetOk("SOCK_OTHER_ADDRESSES", SockPage["SOCK_OTHER_ADDRESSES"])
  BY <1>1, <1>2, <1>3, <1>4 DEF SockPage
<1> QED BY <1>8, <1>9 DEF PageOk

LEMMA ReceiveIsOk == PageOk(ReceivePage)
<1>1. WidgetOk("FAX_RECEIVED_POPUP", Box("No", "No")) /\ WidgetOk("FAX_RECEIVED_EXEC", Box("No", "No"))
  BY BoxIsOk
<1>2. WidgetOk("FAX_RECEIVED_PROG", Text("filename", "locale", "filename"))
  BY TextIsOk
<1>8. DOMAIN ReceivePage = {"FAX_RECEIVED_POPUP", "FAX_RECEIVED_EXEC", "FAX_RECEIVED_PROG"}
  BY DEF ReceivePage
<1>9. /\ WidgetOk("FAX_RECEIVED_POPUP", ReceivePage["FAX_RECEIVED_POPUP"])
      /\ WidgetOk("FAX_RECEIVED_EXEC", ReceivePage["FAX_RECEIVED_EXEC"])
      /\ WidgetOk("FAX_RECEIVED_PROG", ReceivePage["FAX_RECEIVED_PROG"])
  BY <1>1, <1>2 DEF ReceivePage
<1> QED BY <1>8, <1>9 DEF PageOk

LEMMA SendIsOk == PageOk(SendPage)
<1>1. WidgetOk("RES", Radio("fine", "fine", {"fine", "standard"}))
  BY RadioIsOk
<1>2. WidgetOk("ADDR_IN_HEADER", Box("Yes", "keep")) /\ WidgetOk("DIAL_PREFIX", InLocale)
  BY BoxIsOk, TextIsOk
<1>8. DOMAIN SendPage = {"RES", "ADDR_IN_HEADER", "DIAL_PREFIX"}
  BY DEF SendPage
<1>9. /\ WidgetOk("RES", SendPage["RES"])
      /\ WidgetOk("ADDR_IN_HEADER", SendPage["ADDR_IN_HEADER"])
      /\ WidgetOk("DIAL_PREFIX", SendPage["DIAL_PREFIX"])
  BY <1>1, <1>2 DEF SendPage
<1> QED BY <1>8, <1>9 DEF PageOk

LEMMA PageIsOk == PageOk(PagePage)
<1>1. WidgetOk("PAGE", Radio("a4", "a4", {"a4", "letter", "legal"}))
  BY RadioIsOk
<1> QED BY <1>1 DEF PageOk, PagePage

LEMMA Widgets == \A k \in AllKeys : WidgetOk(k, Pages[k])
<1>1. \A n \in DOMAIN Notebook : PageOk(Notebook[n])
  BY IdentityIsOk, ModemIsOk, ParmsIsOk, PrintIsOk, ViewIsOk, SockIsOk, ReceiveIsOk, SendIsOk, PageIsOk
     DEF Notebook
<1> SUFFICES ASSUME NEW k \in AllKeys PROVE WidgetOk(k, Pages[k])
  OBVIOUS
<1> DEFINE n == CHOOSE m \in DOMAIN Notebook : k \in DOMAIN Notebook[m]
<1>2. n \in DOMAIN Notebook /\ k \in DOMAIN Notebook[n]
  BY DEF AllKeys
<1>3. Pages[k] = Notebook[n][k]
  BY DEF Pages
<1> QED BY <1>1, <1>2, <1>3 DEF PageOk

-----------------------------------------------------------------------------
(* Fields and lines, one at a time.                                        *)

LEMMA Sorts ==
  ASSUME NEW k \in AllKeys
  PROVE  \/ Pages[k].sort = "text"
         \/ Pages[k].sort = "box" /\ k \notin {"NAME", "NUMBER"}
         \/ Pages[k].sort = "radio" /\ k \notin {"NAME", "NUMBER"}
         \/ Pages[k].sort = "spin" /\ k \notin {"NAME", "NUMBER"}
BY Widgets DEF WidgetOk

LEMMA FieldValueIs ==
  ASSUME NEW k \in AllKeys, NEW v
  PROVE  /\ Pages[k].sort = "text" => (FieldValue(k, v) <=> v \in Utf8Texts) /\ FileValue(k, v)
         /\ Pages[k].sort = "box" =>
              /\ FieldValue(k, v) <=> v \in {"Yes", "No"}
              /\ FileValue(k, v) <=> v \in {"Yes", "No", "", "bad"}
         /\ Pages[k].sort = "radio" =>
              /\ FieldValue(k, v) <=> v \in Pages[k].options \cup {Pages[k].first}
              /\ FileValue(k, v) <=> v \in Pages[k].options \cup {"", "bad"}
         /\ Pages[k].sort = "spin" =>
              /\ FieldValue(k, v) <=> v \in {"min", "usual", "other"}
              /\ FileValue(k, v) <=> v \in {"min", "usual", "other", "odd", "", "bad"}
<1>1. CASE Pages[k].sort = "text"
  <2>1. FieldValue(k, v) <=> v \in Utf8Texts
    BY <1>1 DEF FieldValue
  <2>2. FileValue(k, v)
    BY <1>1 DEF FileValue
  <2> QED BY <1>1, <2>1, <2>2
<1>2. CASE Pages[k].sort = "box"
  BY <1>2 DEF FieldValue, FileValue
<1>3. CASE Pages[k].sort = "radio"
  BY <1>3 DEF FieldValue, FileValue
<1>4. CASE Pages[k].sort = "spin"
  BY <1>4 DEF FieldValue, FileValue
<1> QED BY <1>1, <1>2, <1>3, <1>4

LEMMA SetFieldIs ==
  ASSUME NEW k \in AllKeys, NEW old, NEW v
  PROVE  /\ k = "NAME" => SetField(k, old, v) = IF is_ascii(v) THEN v ELSE old
         /\ Pages[k].sort = "text" /\ k # "NAME" => SetField(k, old, v) = v
         /\ Pages[k].sort = "box" =>
              SetField(k, old, v) = IF Pages[k].first = "Yes" \/ k = "USE_GTKPRINT"
                                    THEN IF v = "No" THEN "No" ELSE "Yes"
                                    ELSE IF v = "Yes" THEN "Yes" ELSE "No"
         /\ Pages[k].sort = "radio" =>
              IF v \in Pages[k].options THEN SetField(k, old, v) = v
              ELSE \/ k = "CLASS" /\ SetField(k, old, v) = "2"
                   \/ k = "SOCK_CLIENT_ADDRESS" /\ SetField(k, old, v) = "localhost"
                   \/ SetField(k, old, v) = old
         /\ Pages[k].sort = "spin" =>
              SetField(k, old, v) = CASE v \in {"min", "usual", "other"} -> v
                                      [] v = "odd" -> "other"
                                      [] OTHER -> "usual"
<1>1. CASE k = "NAME"
  <2>1. Pages[k].sort = "text"
    BY <1>1, Widgets DEF WidgetOk
  <2> QED BY <1>1, <2>1 DEF SetField
<1>2. CASE Pages[k].sort = "text" /\ k # "NAME"
  BY <1>2 DEF SetField
<1>3. CASE Pages[k].sort = "box" /\ k # "NAME"
  BY <1>3 DEF SetField
<1>4. CASE Pages[k].sort = "radio" /\ k # "NAME"
  <2>1. SetField(k, old, v) = IF v \in Pages[k].options THEN v
                              ELSE CASE k = "CLASS" -> "2"
                                     [] k = "SOCK_CLIENT_ADDRESS" -> "localhost"
                                     [] OTHER -> old
    BY <1>4 DEF SetField
  <2>2. CASE v \in Pages[k].options
    BY <1>4, <2>1, <2>2
  <2>3. CASE v \notin Pages[k].options /\ k = "CLASS"
    BY <1>4, <2>1, <2>3
  <2>4. CASE v \notin Pages[k].options /\ k = "SOCK_CLIENT_ADDRESS"
    BY <1>4, <2>1, <2>4
  <2>5. CASE v \notin Pages[k].options /\ k # "CLASS" /\ k # "SOCK_CLIENT_ADDRESS"
    BY <1>4, <2>1, <2>5
  <2> QED BY <2>2, <2>3, <2>4, <2>5
<1>5. CASE Pages[k].sort = "spin" /\ k # "NAME"
  BY <1>5 DEF SetField
<1> QED BY <1>1, <1>2, <1>3, <1>4, <1>5, Sorts

LEMMA SomeValues ==
  /\ AllKeys \subseteq LineNames
  /\ {"", "a", "a#", "default", "min", "usual", "other", "Yes", "No"} \subseteq Values \ Foreign
  /\ \A k \in AllKeys :
       Pages[k].sort = "radio" => Pages[k].options \cup {Pages[k].first} \subseteq Values \ Foreign
  /\ Foreign \subseteq Values /\ Utf8Texts \subseteq Values /\ Values \ Foreign \subseteq Utf8Texts
<1>1. Known \subseteq Values \ Foreign
  BY SettingsAssumption
<1>2. \A k \in {q \in AllKeys : Pages[q].sort = "radio"} : Pages[k].options \cup {Pages[k].first} \subseteq Known
  BY DEF Known
<1>3. {"", "a", "a#", "default", "min", "usual", "other", "Yes", "No"} \subseteq Known
  BY DEF Known
<1> QED BY <1>1, <1>2, <1>3, SettingsAssumption, CodesetAssumption

(* What the pages make of a value is a field again.                        *)
LEMMA SetFieldKeeps ==
  ASSUME NEW k \in AllKeys, NEW old \in Values, FieldValue(k, old), NEW v \in Utf8Texts
  PROVE  SetField(k, old, v) \in Values /\ FieldValue(k, SetField(k, old, v))
<1> DEFINE new == SetField(k, old, v)
<1>0. v \in Values
  BY SomeValues
<1>1. CASE k = "NAME"
  <2>1. Pages[k].sort = "text"
    BY <1>1, Widgets DEF WidgetOk
  <2>2. new = v \/ new = old
    BY <1>1, SetFieldIs
  <2> QED BY <1>0, <2>1, <2>2, FieldValueIs
<1>2. CASE Pages[k].sort = "text" /\ k # "NAME"
  <2>1. new = v
    BY <1>2, SetFieldIs
  <2> QED BY <1>0, <1>2, <2>1, FieldValueIs
<1>3. CASE Pages[k].sort = "box"
  <2>1. new \in {"Yes", "No"}
    BY <1>3, SetFieldIs
  <2> HIDE DEF new
  <2>2. new \in Values /\ FieldValue(k, new)
    BY <1>3, <2>1, FieldValueIs, SomeValues
  <2> QED BY <2>2 DEF new
<1>4. CASE Pages[k].sort = "radio"
  <2>0. (k = "CLASS" => "2" \in Pages[k].options)
        /\ (k = "SOCK_CLIENT_ADDRESS" => "localhost" \in Pages[k].options)
    BY <1>4, Widgets DEF WidgetOk
  <2>1. new \in Pages[k].options \/ new = old
    <3>1. CASE v \in Pages[k].options
      BY <1>4, <3>1, SetFieldIs
    <3>2. CASE v \notin Pages[k].options
      <4>1. \/ k = "CLASS" /\ new = "2"
            \/ k = "SOCK_CLIENT_ADDRESS" /\ new = "localhost"
            \/ new = old
        BY <1>4, <3>2, SetFieldIs
      <4> HIDE DEF new
      <4> QED BY <2>0, <4>1
    <3> QED BY <3>1, <3>2
  <2> HIDE DEF new
  <2>2. new \in Values /\ FieldValue(k, new)
    BY <1>4, <2>1, FieldValueIs, SomeValues
  <2> QED BY <2>2 DEF new
<1>5. CASE Pages[k].sort = "spin"
  <2>1. new \in {"min", "usual", "other"}
    BY <1>5, SetFieldIs
  <2> HIDE DEF new
  <2>2. new \in Values /\ FieldValue(k, new)
    BY <1>5, <2>1, FieldValueIs, SomeValues
  <2> QED BY <2>2 DEF new
<1> QED BY <1>1, <1>2, <1>3, <1>4, <1>5, Sorts

\* What either parser converts from.
LEMMA TablesAre ==
  /\ RunsFrom \in [LineNames -> Places] /\ ShownFrom \in [LineNames -> Places]
  /\ \A k \in AllKeys : Pages[k].sort = "text" => RunsFrom[k] = Pages[k].run
<1>1. \A k \in AllKeys : Pages[k].sort = "text" => Pages[k].run \in Places /\ Pages[k].show \in Places
  BY Widgets DEF WidgetOk
<1>2. "locale" \in Places /\ "filename" \in Places
  BY DEF Places
<1> QED BY <1>1, <1>2, SomeValues DEF RunsFrom, ShownFrom

LEMMA CodesetsAre ==
  ASSUME codesets \in Locales
  PROVE  (\A place \in Places : codesets[place] \in Codesets) /\ codesets["utf8"] = Utf8
<1>1. \A choice \in Locales : choice \in [Places -> Codesets] /\ choice["utf8"] = Utf8
  BY CodesetAssumption DEF Places
<1>2. codesets \in [Places -> Codesets] /\ codesets["utf8"] = Utf8
  BY ONLY <1>1, codesets \in Locales
<1> QED BY ONLY <1>2

LEMMA Converts ==
  ASSUME NEW c \in Codesets, NEW v \in Values
  PROVE  /\ Encode(c, v) \in Values /\ Decode(c, v) \in Utf8Texts
         /\ v \notin Foreign => Has(c, v) /\ Encode(c, v) = v /\ Decode(c, v) = v
         /\ v \in Utf8Texts /\ Has(c, v) => Decode(c, Encode(c, v)) = v
BY CodesetAssumption

LEMMA ValueIs ==
  ASSUME codesets \in Locales, NEW line \in RcLine, NEW from \in [LineNames -> Places]
  PROVE  /\ Value(line, from) \in Utf8Texts /\ Value(line, from) = Decode(codesets[from[line.key]], Cut(line))
         /\ line.val = "a#" => Cut(line) = "a"
         /\ line.val # "a#" => Cut(line) = line.val
         /\ Cut(line) \notin Foreign => Value(line, from) = Cut(line)
<1>1. line.val \in Values /\ line.key \in LineNames
  BY DEF RcLine
<1>2. codesets[from[line.key]] \in Codesets
  BY <1>1, CodesetsAre
<1>3. Cut(line) \in Values
  BY <1>1, SomeValues DEF Cut
<1>4. Value(line, from) = Decode(codesets[from[line.key]], Cut(line))
  BY DEF Value
<1> QED BY <1>2, <1>3, <1>4, Converts DEF Cut

LEMMA SetFieldTakes ==
  ASSUME NEW k \in AllKeys, NEW old, NEW v, k = "NAME" => is_ascii(v),
         Pages[k].sort = "box" => v \in {"Yes", "No"},
         Pages[k].sort = "radio" => v \in Pages[k].options,
         Pages[k].sort = "spin" => v \in {"min", "usual", "other"}
  PROVE  SetField(k, old, v) = v
<1>1. CASE k = "NAME"
  BY <1>1, SetFieldIs
<1>2. CASE Pages[k].sort = "text" /\ k # "NAME"
  BY <1>2, SetFieldIs
<1>3. CASE Pages[k].sort = "box"
  <2>1. SetField(k, old, v) = IF Pages[k].first = "Yes" \/ k = "USE_GTKPRINT"
                              THEN IF v = "No" THEN "No" ELSE "Yes"
                              ELSE IF v = "Yes" THEN "Yes" ELSE "No"
    BY <1>3, SetFieldIs
  <2> QED BY <1>3, <2>1
<1>4. CASE Pages[k].sort = "radio"
  BY <1>4, SetFieldIs
<1>5. CASE Pages[k].sort = "spin"
  BY <1>5, SetFieldIs
<1> QED BY <1>1, <1>2, <1>3, <1>4, <1>5, Sorts

\* The value of a line that both parsers know and convert alike.
PlainLine(line) ==
  /\ line.key \in AllKeys /\ FileValue(line.key, line.val)
  /\ line.val \notin {"", "bad", "odd"}
  /\ line.key = "NAME" => is_ascii(line.val)
  /\ line.val \in Foreign => codesets[ShownFrom[line.key]] = codesets[RunsFrom[line.key]]

(* The parser of the dialog and that of the program make the same of it.   *)
LEMMA ParsersAgree ==
  ASSUME codesets \in Locales, NEW line \in RcLine, PlainLine(line), NEW old
  PROVE  /\ Cut(line) # ""
         /\ RunsWith(line.key, SetField(line.key, old, Value(line, ShownFrom)))
              = RunsWith(line.key, Value(line, RunsFrom))
<1> DEFINE k == line.key
           v == Value(line, ShownFrom)
<1>0. k \in AllKeys /\ FileValue(k, line.val) /\ line.val \notin {"", "bad", "odd"}
  BY DEF PlainLine
<1>1. Cut(line) # "" /\ (line.val = "a#" => Cut(line) = "a") /\ (line.val # "a#" => Cut(line) = line.val)
  BY <1>0, TablesAre, ValueIs
<1>2. (line.val \notin Foreign => v = Cut(line) /\ v \notin Foreign) /\ v = Value(line, RunsFrom)
  <2>1. CASE line.val \notin Foreign
    <3>1. Cut(line) \notin Foreign
      BY <1>1, <2>1, SomeValues
    <3> QED BY <2>1, <3>1, TablesAre, ValueIs
  <2>2. CASE line.val \in Foreign
    <3>1. codesets[ShownFrom[line.key]] = codesets[RunsFrom[line.key]]
      BY <2>2 DEF PlainLine
    <3> QED BY <2>2, <3>1, TablesAre, ValueIs
  <2> QED BY <2>1, <2>2
<1>3. k = "NAME" => is_ascii(v)
  BY <1>2 DEF PlainLine, is_ascii
<1>4. Pages[k].sort = "box" => v \in {"Yes", "No"}
  <2>1. Pages[k].sort = "box" => line.val \in {"Yes", "No"}
    BY <1>0, FieldValueIs
  <2> QED BY <1>1, <1>2, <2>1, SomeValues
<1>5. Pages[k].sort = "radio" => v \in Pages[k].options
  <2> SUFFICES ASSUME Pages[k].sort = "radio" PROVE v \in Pages[k].options
    OBVIOUS
  <2>1. line.val \in Pages[k].options
    BY <1>0, FieldValueIs
  <2>2. line.val \notin Foreign /\ line.val # "a#"
    BY <1>0, <2>1, SomeValues, Widgets DEF WidgetOk
  <2> QED BY <1>1, <1>2, <2>1, <2>2
<1>6. Pages[k].sort = "spin" => v \in {"min", "usual", "other"}
  <2>1. Pages[k].sort = "spin" => line.val \in {"min", "usual", "other"}
    BY <1>0, FieldValueIs
  <2> QED BY <1>1, <1>2, <2>1, SomeValues
<1>7. SetField(k, old, v) = v
  <2>1. \A x \in AllKeys : \A u :
          /\ x = "NAME" => is_ascii(u)
          /\ Pages[x].sort = "box" => u \in {"Yes", "No"}
          /\ Pages[x].sort = "radio" => u \in Pages[x].options
          /\ Pages[x].sort = "spin" => u \in {"min", "usual", "other"}
          => SetField(x, old, u) = u
    BY SetFieldTakes
  <2>2. k \in AllKeys
    BY <1>0
  <2> HIDE DEF k, v
  <2> QED BY <1>3, <1>4, <1>5, <1>6, <2>1, <2>2
<1> QED BY <1>1, <1>2, <1>7

-----------------------------------------------------------------------------
(* Reading a file.                                                         *)

LEMMA ParmType ==
  ASSUME codesets \in Locales, NEW from \in [LineNames -> Places],
         NEW lines \in Seq(RcLine), NEW S, S \subseteq 1..Len(lines), NEW result \in Utf8Texts
  PROVE  get_prog_parm(lines, S, result, from) \in Utf8Texts
<1> DEFINE giving == {n \in S : Cut(lines[n]) # ""}
<1>1. get_prog_parm(lines, S, result, from) = IF giving = {} THEN result ELSE Value(lines[Max(giving)], from)
  BY DEF get_prog_parm
<1>2. ASSUME giving # {} PROVE Value(lines[Max(giving)], from) \in Utf8Texts
  <2>1. giving \subseteq 1..Len(lines) /\ Len(lines) \in Nat
    <3>1. giving \subseteq S
      OBVIOUS
    <3>2. Len(lines) \in Nat
      BY LenProperties
    <3> QED BY <3>1, <3>2
  <2>2. Max(giving) \in 1..Len(lines)
    <3> HIDE DEF giving
    <3> QED BY <1>2, <2>1, MaxOf
  <2>3. lines[Max(giving)] \in RcLine
    BY <2>2, ElementOfSeq
  <2> QED BY <2>3, ValueIs
<1> QED BY <1>1, <1>2

LEMMA ParmLast ==
  ASSUME codesets \in Locales, NEW from \in [LineNames -> Places],
         NEW lines \in Seq(RcLine), NEW S, S \subseteq 1..Len(lines), NEW result,
         NEW n \in S, \A m \in S : n >= m, Cut(lines[n]) # ""
  PROVE  get_prog_parm(lines, S, result, from) = Value(lines[n], from)
<1> DEFINE giving == {m \in S : Cut(lines[m]) # ""}
<1>1. get_prog_parm(lines, S, result, from) = IF giving = {} THEN result ELSE Value(lines[Max(giving)], from)
  BY DEF get_prog_parm
<1>2. n \in giving /\ giving \subseteq 1..Len(lines) /\ Len(lines) \in Nat /\ \A m \in giving : n >= m
  <2>1. giving \subseteq S /\ n \in giving
    OBVIOUS
  <2>2. Len(lines) \in Nat
    BY LenProperties
  <2> QED BY <2>1, <2>2
<1>3. Max(giving) = n
  <2> HIDE DEF giving
  <2> QED BY <1>2, MaxIs
<1> QED BY <1>1, <1>2, <1>3

LEMMA ParmAll ==
  ASSUME codesets \in Locales, NEW from \in [LineNames -> Places],
         NEW lines \in Seq(RcLine), NEW S, S \subseteq 1..Len(lines), NEW v,
         \A m \in S : Value(lines[m], from) = v, S = {} => v = ""
  PROVE  get_prog_parm(lines, S, "", from) = v
<1> DEFINE giving == {m \in S : Cut(lines[m]) # ""}
<1>1. get_prog_parm(lines, S, "", from) = IF giving = {} THEN "" ELSE Value(lines[Max(giving)], from)
  BY DEF get_prog_parm
<1>2. CASE giving = {}
  <2>1. ASSUME v # "" PROVE FALSE
    <3>1. PICK m : m \in S
      BY <2>1
    <3>2. Cut(lines[m]) = ""
      BY <1>2, <3>1
    <3>3. lines[m] \in RcLine
      BY <3>1, ElementOfSeq
    <3>4. Value(lines[m], from) = ""
      BY <3>2, <3>3, SomeValues, ValueIs
    <3> QED BY <2>1, <3>1, <3>4
  <2> QED BY <1>1, <1>2, <2>1
<1>3. CASE giving # {}
  <2>1. giving \subseteq 1..Len(lines) /\ Len(lines) \in Nat
    <3>1. giving \subseteq S
      OBVIOUS
    <3>2. Len(lines) \in Nat
      BY LenProperties
    <3> QED BY <3>1, <3>2
  <2>2. Max(giving) \in giving
    <3> HIDE DEF giving
    <3> QED BY <1>3, <2>1, MaxOf
  <2>3. Value(lines[Max(giving)], from) = v
    BY <2>2
  <2> QED BY <1>1, <1>3, <2>3
<1> QED BY <1>2, <1>3

\* The fields that a dialog may show.
FieldSet == {f \in [keys -> Values] : \A k \in keys : FieldValue(k, f[k])}

ReadBy(lines, n) == get_prog_parm(lines, {m \in 1..n : Sets(lines[m])}, "", ShownFrom)

Taken(f, k, v) == [f EXCEPT ![k] = SetField(k, @, v)]

\* The fields after n lines.
After(F, fields, lines) ==
  /\ F \in [0..Len(lines) -> FieldSet] /\ F[0] = fields /\ F[Len(lines)] = Shown(fields, lines)
  /\ \A n \in 1..Len(lines) :
       F[n] = IF Sets(lines[n]) THEN Taken(F[n - 1], lines[n].key, ReadBy(lines, n)) ELSE F[n - 1]

LEMMA TakenKeeps ==
  ASSUME keys \subseteq AllKeys, NEW f \in FieldSet, NEW k \in keys, NEW v \in Utf8Texts
  PROVE  Taken(f, k, v) \in FieldSet
<1>1. f \in [keys -> Values] /\ (\A q \in keys : FieldValue(q, f[q])) /\ f[k] \in Values
  BY DEF FieldSet
<1>2. SetField(k, f[k], v) \in Values /\ FieldValue(k, SetField(k, f[k], v))
  BY <1>1, SetFieldKeeps
<1>3. Taken(f, k, v) \in [keys -> Values] /\ Taken(f, k, v)[k] = SetField(k, f[k], v)
      /\ \A q \in keys : q # k => Taken(f, k, v)[q] = f[q]
  BY <1>1, <1>2 DEF Taken
<1>4. ASSUME NEW q \in keys PROVE FieldValue(q, Taken(f, k, v)[q])
  <2>1. CASE q = k
    BY <1>2, <1>3, <2>1
  <2>2. CASE q # k
    BY <1>1, <1>3, <2>2
  <2> QED BY <2>1, <2>2
<1> QED BY <1>3, <1>4 DEF FieldSet

LEMMA ReadByType ==
  ASSUME codesets \in Locales, NEW lines \in Seq(RcLine), NEW n \in 1..Len(lines)
  PROVE  ReadBy(lines, n) \in Utf8Texts
<1>1. "" \in Utf8Texts
  BY SomeValues
<1>2. {m \in 1..n : Sets(lines[m])} \subseteq 1..Len(lines)
  OBVIOUS
<1> QED BY <1>1, <1>2, TablesAre, ParmType DEF ReadBy

LEMMA ShownIs ==
  ASSUME keys \subseteq AllKeys, codesets \in Locales, NEW lines \in Seq(RcLine), NEW fields \in FieldSet
  PROVE  \E F : After(F, fields, lines)
<1> DEFINE N == Len(lines)
           step == [n \in 1..N |-> [f \in FieldSet |->
                      IF Sets(lines[n]) THEN Taken(f, lines[n].key, ReadBy(lines, n)) ELSE f]]
<1>1. N \in Nat
  OBVIOUS
<1>2. step \in [1..N -> [FieldSet -> FieldSet]]
  <2> SUFFICES ASSUME NEW n \in 1..N, NEW f \in FieldSet, Sets(lines[n])
               PROVE  Taken(f, lines[n].key, ReadBy(lines, n)) \in FieldSet
    OBVIOUS
  <2>1. lines[n].key \in keys
    BY DEF Sets
  <2> QED BY <2>1, ReadByType, TakenKeeps
<1>3. PICK F : Recursion(F, N, FieldSet, fields, step)
  <2> HIDE DEF N, step
  <2> QED BY <1>1, <1>2, RecursionExists
<1>4. F \in [0..N -> FieldSet] /\ F[0] = fields
  BY <1>3 DEF Recursion
<1>5. ASSUME NEW n \in 1..N
      PROVE  F[n] = IF Sets(lines[n]) THEN Taken(F[n - 1], lines[n].key, ReadBy(lines, n)) ELSE F[n - 1]
  <2>1. n - 1 \in 0..N
    OBVIOUS
  <2>2. F[n] = step[n][F[n - 1]]
    BY <1>3 DEF Recursion
  <2> QED BY <1>4, <2>1, <2>2
<1> DEFINE Body(f, n) == IF n = 0 THEN fields
                         ELSE IF Sets(lines[n]) THEN Taken(f[n - 1], lines[n].key, ReadBy(lines, n))
                         ELSE f[n - 1]
           Is(f) == f = [n \in 0..N |-> Body(f, n)]
<1>6. Is(F)
  <2>1. F = [n \in 0..N |-> F[n]]
    BY <1>4
  <2>2. ASSUME NEW n \in 0..N PROVE F[n] = Body(F, n)
    BY <1>4, <1>5
  <2> HIDE DEF N, Body
  <2> QED BY <2>1, <2>2
<1>7. PICK G : G = CHOOSE f : Is(f)
  OBVIOUS
<1>8. Is(G)
  <2> HIDE DEF Is
  <2> QED BY <1>6, <1>7
<1>9. Shown(fields, lines) = G[N]
  <2>1. Shown(fields, lines) = LET f == CHOOSE f : Is(f) IN f[N]
    BY DEF Shown, Taken, ReadBy
  <2> HIDE DEF Is, N
  <2> QED BY <1>7, <2>1
<1>10. G[N] = F[N]
  <2> DEFINE S == {n \in 0..N : G[n] = F[n]}
  <2>1. 0 \in S
    BY <1>1, <1>4, <1>8
  <2>2. ASSUME NEW n \in 1..N, n - 1 \in S PROVE n \in S
    <3>1. n \in 0..N /\ n # 0 /\ G[n - 1] = F[n - 1]
      BY <2>2
    <3>2. G[n] = Body(G, n)
      <4> HIDE DEF Body
      <4> QED BY <1>8, <3>1
    <3> QED BY <1>5, <3>1, <3>2
  <2>3. 0..N \subseteq S
    <3> HIDE DEF S, N
    <3> QED BY <1>1, <2>1, <2>2, InductionTo
  <2> QED BY <1>1, <2>3
<1> QED BY <1>4, <1>5, <1>9, <1>10 DEF After

(* A dialog that reads a file shows what the program makes of it.          *)
LEMMA ShownRuns ==
  ASSUME keys \subseteq AllKeys, codesets \in Locales, NEW lines \in Seq(RcLine), IsRc(lines), lines # NoFile,
         NEW fields \in FieldSet, NEW k \in keys, Plain(k, lines), NEW old
  PROVE  RunsWith(k, Shown(fields, lines)[k]) = RunsWith(k, LinesRead(k, old, lines))
<1> DEFINE N == Len(lines)
           At(n) == {m \in 1..n : Sets(lines[m]) /\ lines[m].key = k}
           ReadAt(n) == get_prog_parm(lines, At(n), "", RunsFrom)
<1>1. N \in Nat /\ DOMAIN lines = 1..N
  BY LenProperties
<1>2. PICK F : After(F, fields, lines)
  BY ShownIs
<1>3. ASSUME NEW n \in 1..N, Sets(lines[n]), lines[n].key = k
      PROVE  PlainLine(lines[n]) /\ lines[n] \in RcLine
  <2>1. lines[n].on /\ lines[n].key \in keys
    BY <1>3 DEF Sets
  <2>2. FileValue(lines[n].key, lines[n].val)
    BY <1>1, <2>1 DEF IsRc
  <2>3. /\ lines[n].val \notin {"", "bad", "odd"} /\ (k = "NAME" => is_ascii(lines[n].val))
        /\ lines[n].val \in Foreign => codesets[ShownFrom[k]] = codesets[RunsFrom[k]]
    BY <1>3 DEF Plain
  <2> QED BY <1>3, <2>1, <2>2, <2>3, ElementOfSeq DEF PlainLine
<1> DEFINE S == {n \in 0..N : At(n) # {} => RunsWith(k, F[n][k]) = RunsWith(k, ReadAt(n))}
<1>4. 0 \in S
  <2>1. At(0) = {}
    OBVIOUS
  <2>2. 0 \in 0..N
    BY <1>1
  <2> HIDE DEF At, ReadAt, N
  <2> QED BY <2>1, <2>2
<1>5. ASSUME NEW n \in 1..N, n - 1 \in S PROVE n \in S
  <2>0. n - 1 \in 0..N /\ n \in 0..N /\ n \in Nat
    BY <1>1
  <2>1. F[n - 1] \in [keys -> Values]
    BY <1>2, <2>0 DEF After, FieldSet
  <2>2. F[n] = IF Sets(lines[n]) THEN Taken(F[n - 1], lines[n].key, ReadBy(lines, n)) ELSE F[n - 1]
    BY <1>2 DEF After
  <2>3. CASE Sets(lines[n]) /\ lines[n].key = k
    <3>1. PlainLine(lines[n]) /\ lines[n] \in RcLine
      BY <1>3, <2>3
    <3> DEFINE v == Value(lines[n], ShownFrom)
               u == Value(lines[n], RunsFrom)
    <3>2. Cut(lines[n]) # "" /\ RunsWith(k, SetField(k, F[n - 1][k], v)) = RunsWith(k, u)
      BY <2>3, <3>1, ParsersAgree
    <3>3. ReadBy(lines, n) = v
      <4> DEFINE T == {m \in 1..n : Sets(lines[m])}
      <4>1. T \subseteq 1..Len(lines) /\ n \in T /\ \A m \in T : n >= m
        BY <2>3
      <4> HIDE DEF T
      <4>2. get_prog_parm(lines, T, "", ShownFrom) = v
        BY <3>2, <4>1, TablesAre, ParmLast
      <4> QED BY <4>2 DEF ReadBy, T
    <3>4. ReadAt(n) = u
      <4> DEFINE T == At(n)
      <4>1. T \subseteq 1..Len(lines) /\ n \in T /\ \A m \in T : n >= m
        BY <2>3
      <4> HIDE DEF T
      <4>2. get_prog_parm(lines, T, "", RunsFrom) = u
        BY <3>2, <4>1, TablesAre, ParmLast
      <4> QED BY <4>2 DEF T
    <3>5. F[n][k] = SetField(k, F[n - 1][k], v)
      <4>1. F[n] = Taken(F[n - 1], k, v)
        BY <2>2, <2>3, <3>3
      <4> QED BY <2>1, <4>1 DEF Taken
    <3>6. RunsWith(k, F[n][k]) = RunsWith(k, ReadAt(n))
      <4> HIDE DEF v, u, ReadAt
      <4> QED BY <3>2, <3>4, <3>5
    <3> HIDE DEF ReadAt, At
    <3> QED BY <2>0, <3>6
  <2>4. CASE ~(Sets(lines[n]) /\ lines[n].key = k)
    <3>1. At(n) = At(n - 1)
      BY <2>4
    <3>2. F[n][k] = F[n - 1][k]
      <4>1. CASE Sets(lines[n])
        <5>1. F[n] = Taken(F[n - 1], lines[n].key, ReadBy(lines, n)) /\ lines[n].key # k
          BY <2>2, <2>4, <4>1
        <5> QED BY <2>1, <5>1 DEF Taken
      <4>2. CASE ~Sets(lines[n])
        BY <2>2, <4>2
      <4> QED BY <4>1, <4>2
    <3>3. ReadAt(n) = ReadAt(n - 1)
      BY <3>1
    <3>4. At(n - 1) # {} => RunsWith(k, F[n - 1][k]) = RunsWith(k, ReadAt(n - 1))
      BY <1>5
    <3> HIDE DEF At, ReadAt
    <3> QED BY <2>0, <3>1, <3>2, <3>3, <3>4
  <2> QED BY <2>3, <2>4
<1>6. 0..N \subseteq S
  <2> HIDE DEF S, N
  <2> QED BY <1>1, <1>4, <1>5, InductionTo
<1>7. N \in S
  <2> HIDE DEF S, N
  <2> QED BY <1>1, <1>6
<1>8. At(N) # {}
  BY DEF Plain
<1>9. RunsWith(k, F[N][k]) = RunsWith(k, ReadAt(N))
  <2> HIDE DEF At, ReadAt, N
  <2> QED BY <1>7, <1>8
<1>10. LinesRead(k, old, lines) = ReadAt(N)
  <2>1. {n \in 1..Len(lines) : Sets(lines[n]) /\ lines[n].key = k} = At(N)
    OBVIOUS
  <2> QED BY <2>1 DEF LinesRead, Forgotten
<1> QED BY <1>2, <1>9, <1>10 DEF After

-----------------------------------------------------------------------------
(* Writing a file.                                                         *)

LEMMA LineOfIs ==
  ASSUME codesets \in Locales, NEW k \in AllKeys, NEW v \in Values, FieldValue(k, v),
         NEW c \in {WrittenIn(k), AddedIn(k)}
  PROVE  /\ LineOf(k, v, c) \in RcLine /\ LineOf(k, v, c).key = k /\ k # "no file"
         /\ LineOf(k, v, c).on => FileValue(k, LineOf(k, v, c).val)
         /\ Survives(k, v) => Has(c, v)
         /\ Survives(k, v) /\ LineOf(k, v, c).on => Value(LineOf(k, v, c), RunsFrom) = v
         /\ ~LineOf(k, v, c).on => v = ""
<1> DEFINE val == IF v = "" /\ k \notin {"NAME", "NUMBER"} THEN "default" ELSE Encode(c, v)
           on == v # "" \/ k \in {"NAME", "NUMBER"}
<1>1. LineOf(k, v, c).key = k /\ LineOf(k, v, c).on = on /\ LineOf(k, v, c).val = val
      /\ LineOf(k, v, c) = [key |-> k, on |-> on, val |-> val]
  BY DEF LineOf
<1>2. c \in Codesets
  <2>1. Pages[k].sort = "text" => Pages[k].write \in Places
    BY Widgets DEF WidgetOk
  <2>2. "utf8" \in Places
    BY DEF Places
  <2> QED BY <2>1, <2>2, CodesetsAre DEF WrittenIn, AddedIn
<1>3. v \in Utf8Texts /\ (Pages[k].sort # "text" => v \notin Foreign)
  <2>1. CASE Pages[k].sort = "text"
    BY <2>1, FieldValueIs
  <2>2. CASE Pages[k].sort = "box"
    BY <2>2, FieldValueIs, SomeValues
  <2>3. CASE Pages[k].sort = "radio"
    BY <2>3, FieldValueIs, SomeValues
  <2>4. CASE Pages[k].sort = "spin"
    BY <2>4, FieldValueIs, SomeValues
  <2> QED BY <2>1, <2>2, <2>3, <2>4, Sorts
<1>4. /\ Encode(c, v) \in Values
      /\ v \notin Foreign => Has(c, v) /\ Encode(c, v) = v
      /\ Has(c, v) => Decode(c, Encode(c, v)) = v
  BY <1>2, <1>3, Converts
<1>5. val \in Values
  BY <1>4, SomeValues
<1>6. LineOf(k, v, c) \in RcLine
  <2>1. k \in LineNames /\ on \in BOOLEAN
    BY SomeValues
  <2> HIDE DEF on, val
  <2> QED BY <1>1, <1>5, <2>1 DEF RcLine
<1>7. on => FileValue(k, val)
  <2>1. CASE Pages[k].sort = "text"
    <3> HIDE DEF val
    <3> QED BY <2>1, FieldValueIs
  <2>2. CASE Pages[k].sort = "box"
    <3>1. v \in {"Yes", "No"}
      BY <2>2, FieldValueIs
    <3>2. val = v
      BY <1>3, <1>4, <2>2, <3>1
    <3> HIDE DEF val
    <3> QED BY <2>2, <3>1, <3>2, FieldValueIs
  <2>3. CASE Pages[k].sort = "radio" /\ k \notin {"NAME", "NUMBER"}
    <3>1. v \in Pages[k].options \cup {""}
      <4>1. v \in Pages[k].options \cup {Pages[k].first}
        BY <2>3, FieldValueIs
      <4>2. Pages[k].first \in Pages[k].options \cup {""}
        BY <2>3, Widgets DEF WidgetOk
      <4> QED BY <4>1, <4>2
    <3>2. on => val = v /\ v # ""
      BY <1>3, <1>4, <2>3
    <3> HIDE DEF val
    <3> QED BY <2>3, <3>1, <3>2, FieldValueIs
  <2>4. CASE Pages[k].sort = "spin"
    <3>1. v \in {"min", "usual", "other"}
      BY <2>4, FieldValueIs
    <3>2. val = v
      BY <1>3, <1>4, <2>4, <3>1
    <3> HIDE DEF val
    <3> QED BY <2>4, <3>1, <3>2, FieldValueIs
  <2> QED BY <2>1, <2>2, <2>3, <2>4, Sorts
<1>8. Survives(k, v) => Has(c, v)
  BY <1>4 DEF Survives
<1>9. Survives(k, v) /\ on => Value(LineOf(k, v, c), RunsFrom) = v
  <2> SUFFICES ASSUME Survives(k, v), on PROVE Value(LineOf(k, v, c), RunsFrom) = v
    OBVIOUS
  <2>1. val = Encode(c, v)
    OBVIOUS
  <2> DEFINE line == LineOf(k, v, c)
             d == codesets[RunsFrom[k]]
  <2>2. d \in Codesets
    BY SomeValues, TablesAre, CodesetsAre
  <2>3. line.key = k /\ line.val = val /\ line \in RcLine
    BY <1>1, <1>6
  <2> HIDE DEF line, d, val, on
  <2>4. Value(line, RunsFrom) = Decode(d, Cut(line)) /\ (line.val # "a#" => Cut(line) = line.val)
    BY <2>3, TablesAre, ValueIs DEF d
  <2>5. v # "a#"
    BY DEF Survives
  <2>6. CASE v \notin Foreign
    <3>1. val = v /\ Decode(d, v) = v
      BY <1>4, <2>1, <2>2, <2>6, Converts
    <3> QED BY <2>3, <2>4, <2>5, <3>1 DEF line
  <2>7. CASE v \in Foreign
    <3>1. c = d
      <4>1. Pages[k].sort = "text"
        BY <1>3, <2>7
      <4>2. RunsFrom[k] = Pages[k].run
        BY <4>1, TablesAre
      <4> QED BY <2>7, <4>2 DEF Survives, d
    <3>2. Decode(d, val) = v
      BY <1>4, <1>8, <2>1, <3>1
    <3>3. Decode(d, "a#") = "a#"
      BY <2>2, SomeValues, Converts
    <3>4. val # "a#"
      BY <2>5, <3>2, <3>3
    <3> QED BY <2>3, <2>4, <3>2, <3>4 DEF line
  <2> QED BY <2>6, <2>7
<1>10. ~on => v = ""
  OBVIOUS
<1>11. k # "no file"
  BY Widgets DEF WidgetOk
<1> HIDE DEF on, val
<1> QED BY <1>1, <1>6, <1>7, <1>8, <1>9, <1>10, <1>11

\* The lines that a file which write_config() wrote with the fields f may have.
LinesFor(f) ==
  {line \in RcLine :
     /\ line.key # "no file"
     /\ line.key \in keys =>
          \E c \in {WrittenIn(line.key), AddedIn(line.key)} : line = LineOf(line.key, f[line.key], c)
     /\ line.on /\ line.key \in AllKeys => FileValue(line.key, line.val)}

LEMMA ConvertedType ==
  ASSUME keys \subseteq AllKeys, codesets \in Locales, NEW f \in FieldSet, NEW k \in keys,
         NEW c \in {WrittenIn(k), AddedIn(k)}
  PROVE  Converted(k, f[k], c) \in Seq(LinesFor(f))
<1>1. f[k] \in Values /\ FieldValue(k, f[k]) /\ k \in AllKeys
  BY DEF FieldSet
<1>2. LineOf(k, f[k], c) \in LinesFor(f)
  <2>1. PICK v : v = f[k]
    OBVIOUS
  <2>2. /\ LineOf(k, v, c) \in RcLine /\ LineOf(k, v, c).key = k /\ k # "no file"
        /\ LineOf(k, v, c).on => FileValue(k, LineOf(k, v, c).val)
    BY <1>1, <2>1, LineOfIs
  <2> QED BY <2>1, <2>2 DEF LinesFor
<1>3. <<>> \in Seq(LinesFor(f)) /\ <<LineOf(k, f[k], c)>> \in Seq(LinesFor(f))
  BY <1>2
<1>4. Converted(k, f[k], c) = <<>> \/ Converted(k, f[k], c) = <<LineOf(k, f[k], c)>>
  BY DEF Converted
<1>5. CASE Converted(k, f[k], c) = <<>>
  BY <1>3, <1>5
<1>6. CASE Converted(k, f[k], c) = <<LineOf(k, f[k], c)>>
  BY <1>3, <1>6
<1> QED BY <1>4, <1>5, <1>6

LEMMA LinesForIsRc ==
  ASSUME NEW f, NEW s \in Seq(LinesFor(f))
  PROVE  IsRc(s) /\ s # NoFile /\ s \in Seq(RcLine)
<1>1. DOMAIN s = 1..Len(s) /\ \A n \in 1..Len(s) : s[n] \in LinesFor(f)
  BY LenProperties, ElementOfSeq
<1>2. s \in Seq(RcLine)
  <2>1. LinesFor(f) \subseteq RcLine
    BY DEF LinesFor
  <2> QED BY <2>1
<1>3. s # NoFile
  <2> SUFFICES ASSUME s = NoFile PROVE FALSE
    OBVIOUS
  <2>1. 1 \in 1..Len(s) /\ s[1].key = "no file"
    <3>1. Len(NoFile) = 1 /\ NoFile[1].key = "no file"
      BY DEF NoFile
    <3>2. Len(s) = 1
      BY <3>1
    <3>3. s[1].key = "no file"
      BY <3>1
    <3>4. 1 \in 1..Len(s)
      <4>1. 1 \in 1..1
        OBVIOUS
      <4> QED BY <3>2, <4>1, Zenon
    <3> QED BY <3>3, <3>4
  <2> QED BY <1>1, <2>1 DEF LinesFor
<1>4. \A n \in DOMAIN s : /\ s[n].key # "no file"
                          /\ s[n].on /\ s[n].key \in AllKeys => FileValue(s[n].key, s[n].val)
  BY <1>1 DEF LinesFor
<1> QED BY <1>2, <1>3, <1>4 DEF IsRc

OldLines(lines) == IF lines = NoFile THEN <<>> ELSE lines

MissingKeys(lines) == keys \ {OldLines(lines)[n].key : n \in 1..Len(OldLines(lines))}

\* What stands for the old lines, and what is added.
KeptLines(lines, f) == [n \in 1..Len(OldLines(lines)) |-> Replaced(OldLines(lines), f, n)]
Added(lines, f) ==
  LET missing == SetToSeq(MissingKeys(lines))
  IN [n \in 1..Len(missing) |-> Converted(missing[n], f[missing[n]], AddedIn(missing[n]))]

LEMMA OldLinesAre ==
  ASSUME NEW lines, IsRc(lines)
  PROVE  /\ OldLines(lines) \in Seq(RcLine) /\ Len(OldLines(lines)) \in Nat
         /\ \A n \in 1..Len(OldLines(lines)) :
              /\ OldLines(lines)[n] \in RcLine /\ OldLines(lines)[n].key # "no file"
              /\ OldLines(lines)[n].on /\ OldLines(lines)[n].key \in AllKeys
                   => FileValue(OldLines(lines)[n].key, OldLines(lines)[n].val)
<1>1. CASE lines = NoFile
  <2>1. OldLines(lines) = <<>>
    BY <1>1 DEF OldLines
  <2>2. OldLines(lines) \in Seq(RcLine) /\ Len(OldLines(lines)) = 0
    BY <2>1
  <2> QED BY <2>2
<1>2. CASE lines # NoFile
  <2>1. OldLines(lines) = lines
    BY <1>2 DEF OldLines
  <2>2. lines \in Seq(RcLine) /\ DOMAIN lines = 1..Len(lines) /\ Len(lines) \in Nat
    BY <1>2, LenProperties DEF IsRc
  <2> QED BY <1>2, <2>1, <2>2, ElementOfSeq DEF IsRc
<1> QED BY <1>1, <1>2

LEMMA WrittenIs ==
  ASSUME NEW lines, NEW f
  PROVE  Written(lines, f) = FlattenSeq(KeptLines(lines, f)) \o FlattenSeq(Added(lines, f))
BY DEF Written, OldLines, MissingKeys, KeptLines, Added

LEMMA KeptType ==
  ASSUME keys \subseteq AllKeys, codesets \in Locales, NEW lines, IsRc(lines), NEW f \in FieldSet
  PROVE  /\ KeptLines(lines, f) \in [1..Len(OldLines(lines)) -> Seq(LinesFor(f))]
         /\ FlattenSeq(KeptLines(lines, f)) \in Seq(LinesFor(f))
<1> DEFINE old == OldLines(lines)
<1>1. ASSUME NEW n \in 1..Len(old) PROVE Replaced(old, f, n) \in Seq(LinesFor(f))
  <2>1. old[n] \in RcLine /\ old[n].key # "no file"
        /\ (old[n].on /\ old[n].key \in AllKeys => FileValue(old[n].key, old[n].val))
    BY OldLinesAre
  <2> HIDE DEF old
  <2>2. CASE old[n].key \notin keys
    <3>1. old[n] \in LinesFor(f)
      BY <2>1, <2>2 DEF LinesFor
    <3>2. Replaced(old, f, n) = <<old[n]>>
      BY <2>2 DEF Replaced
    <3> QED BY <3>1, <3>2
  <2>3. CASE old[n].key \in keys
    <3>1. Replaced(old, f, n) = <<>> \/ Replaced(old, f, n) = Converted(old[n].key, f[old[n].key], WrittenIn(old[n].key))
      BY <2>3 DEF Replaced
    <3>2. Converted(old[n].key, f[old[n].key], WrittenIn(old[n].key)) \in Seq(LinesFor(f))
      BY <2>3, ConvertedType
    <3>3. <<>> \in Seq(LinesFor(f))
      OBVIOUS
    <3>4. CASE Replaced(old, f, n) = <<>>
      BY <3>3, <3>4
    <3>5. CASE Replaced(old, f, n) = Converted(old[n].key, f[old[n].key], WrittenIn(old[n].key))
      BY <3>2, <3>5
    <3> QED BY <3>1, <3>4, <3>5
  <2> QED BY <2>2, <2>3
<1>2. KeptLines(lines, f) \in [1..Len(old) -> Seq(LinesFor(f))]
  <2> HIDE DEF old
  <2>1. KeptLines(lines, f) = [n \in 1..Len(old) |-> Replaced(old, f, n)]
    BY DEF KeptLines, old
  <2> QED BY <1>1, <2>1
<1>3. Len(old) \in Nat
  BY OldLinesAre
<1>4. FlattenSeq(KeptLines(lines, f)) \in Seq(LinesFor(f))
  <2> HIDE DEF old
  <2> QED BY <1>2, <1>3, FlattenedType
<1> QED BY <1>2, <1>4

LEMMA MissingAre ==
  ASSUME IsFiniteSet(keys), NEW lines
  PROVE  LET missing == SetToSeq(MissingKeys(lines))
         IN /\ Len(missing) \in Nat
            /\ \A n \in 1..Len(missing) : missing[n] \in MissingKeys(lines)
            /\ \A k \in MissingKeys(lines) : \E n \in 1..Len(missing) : missing[n] = k
<1> DEFINE T == MissingKeys(lines)
           missing == SetToSeq(T)
<1>1. IsFiniteSet(T)
  <2>1. T \subseteq keys
    BY DEF MissingKeys
  <2> QED BY <2>1, FS_Subset
<1>2. /\ Cardinality(T) \in Nat /\ missing \in [1..Cardinality(T) -> T]
      /\ \A x \in T : \E n \in 1..Cardinality(T) : missing[n] = x
  <2> HIDE DEF T
  <2> QED BY <1>1, EachOnce
<1>3. Len(missing) = Cardinality(T)
  <2> HIDE DEF T, missing
  <2> QED BY <1>2
<1> HIDE DEF missing
<1>4. /\ Len(missing) \in Nat
      /\ \A n \in 1..Len(missing) : missing[n] \in T
      /\ \A k \in T : \E n \in 1..Len(missing) : missing[n] = k
  <2> HIDE DEF T
  <2> QED BY <1>2, <1>3
<1> QED BY <1>4 DEF missing

LEMMA AddedType ==
  ASSUME keys \subseteq AllKeys, codesets \in Locales, IsFiniteSet(keys), NEW lines, NEW f \in FieldSet
  PROVE  /\ Len(SetToSeq(MissingKeys(lines))) \in Nat
         /\ Added(lines, f) \in [1..Len(SetToSeq(MissingKeys(lines))) -> Seq(LinesFor(f))]
         /\ FlattenSeq(Added(lines, f)) \in Seq(LinesFor(f))
<1> DEFINE missing == SetToSeq(MissingKeys(lines))
<1>1. Len(missing) \in Nat /\ \A n \in 1..Len(missing) : missing[n] \in keys
  <2>1. MissingKeys(lines) \subseteq keys
    BY DEF MissingKeys
  <2> QED BY <2>1, MissingAre
<1>2. Added(lines, f) = [n \in 1..Len(missing) |-> Converted(missing[n], f[missing[n]], AddedIn(missing[n]))]
  BY DEF Added
<1> HIDE DEF missing
<1>3. ASSUME NEW n \in 1..Len(missing) PROVE Converted(missing[n], f[missing[n]], AddedIn(missing[n])) \in Seq(LinesFor(f))
  BY <1>1, ConvertedType
<1>4. Added(lines, f) \in [1..Len(missing) -> Seq(LinesFor(f))]
  BY <1>2, <1>3
<1>5. FlattenSeq(Added(lines, f)) \in Seq(LinesFor(f))
  BY <1>1, <1>4, FlattenedType
<1> QED BY <1>1, <1>4, <1>5 DEF missing

LEMMA WrittenType ==
  ASSUME keys \subseteq AllKeys, codesets \in Locales, IsFiniteSet(keys), NEW lines, IsRc(lines), NEW f \in FieldSet
  PROVE  Written(lines, f) \in Seq(LinesFor(f))
<1>1. FlattenSeq(KeptLines(lines, f)) \in Seq(LinesFor(f)) /\ FlattenSeq(Added(lines, f)) \in Seq(LinesFor(f))
  BY KeptType, AddedType
<1> QED BY <1>1, WrittenIs, ConcatProperties

(* Each setting that can be converted has its line.                        *)
LEMMA WrittenHas ==
  ASSUME keys \subseteq AllKeys, codesets \in Locales, IsFiniteSet(keys), NEW lines, IsRc(lines), NEW f \in FieldSet,
         NEW k \in keys, Survives(k, f[k])
  PROVE  \E c \in {WrittenIn(k), AddedIn(k)} :
           \E m \in 1..Len(Written(lines, f)) : Written(lines, f)[m] = LineOf(k, f[k], c)
<1> DEFINE old == OldLines(lines)
<1>0. PICK c \in {WrittenIn(k), AddedIn(k)} :
        c = IF \E n \in 1..Len(old) : old[n].key = k THEN WrittenIn(k) ELSE AddedIn(k)
  OBVIOUS
<1> DEFINE a == FlattenSeq(KeptLines(lines, f))
           b == FlattenSeq(Added(lines, f))
           line == LineOf(k, f[k], c)
<1>1. Converted(k, f[k], c) = <<line>>
  <2>1. PICK v : v = f[k]
    OBVIOUS
  <2>2. v \in Values /\ FieldValue(k, v) /\ k \in AllKeys
    BY <2>1 DEF FieldSet
  <2>3. Survives(k, v) /\ codesets \in Locales
    BY <2>1
  <2>4. Has(c, v)
    BY ONLY <2>2, <2>3, c \in {WrittenIn(k), AddedIn(k)}, LineOfIs, ZenonT(60)
  <2> QED BY <2>1, <2>4 DEF Converted
<1>2. Len(old) \in Nat
  BY OldLinesAre
<1>3. a \in Seq(LinesFor(f)) /\ b \in Seq(LinesFor(f)) /\ Written(lines, f) = a \o b
  BY KeptType, AddedType, WrittenIs
<1>4. CASE \E n \in 1..Len(old) : old[n].key = k
  <2> DEFINE T == {n \in 1..Len(old) : old[n].key = k}
  <2>1. PICK n \in T : \A m \in T : n <= m
    <3>1. T \subseteq Nat /\ T # {}
      BY <1>4
    <3> HIDE DEF T
    <3> QED BY <3>1, LeastNumber
  <2>2. n \in 1..Len(old) /\ old[n].key = k /\ ~\E m \in 1..(n - 1) : old[m].key = k
    <3>1. n \in 1..Len(old) /\ old[n].key = k
      OBVIOUS
    <3>2. ASSUME NEW m \in 1..(n - 1), old[m].key = k PROVE FALSE
      <4>1. m \in T
        BY <1>2, <3>1, <3>2
      <4> HIDE DEF T
      <4> QED BY <2>1, <4>1
    <3> QED BY <3>1, <3>2
  <2>3. Replaced(old, f, n) = <<line>>
    <3>1. c = WrittenIn(k)
      BY <1>0, <1>4
    <3> HIDE DEF old, line, T
    <3> QED BY <1>1, <2>2, <3>1 DEF Replaced
  <2>4. KeptLines(lines, f)[n] = <<line>>
    <3> HIDE DEF line, T
    <3> QED BY <2>2, <2>3 DEF KeptLines
  <2>5. PICK m \in 1..Len(a) : a[m] = line
    <3> DEFINE seqs == KeptLines(lines, f)
    <3>1. seqs \in [1..Len(old) -> Seq(LinesFor(f))] /\ seqs[n] = <<line>> /\ n \in 1..Len(old)
      BY <2>2, <2>4, KeptType
    <3> HIDE DEF seqs, old, line, T
    <3>2. \E m \in 1..Len(FlattenSeq(seqs)) : FlattenSeq(seqs)[m] = line
      <4>1. PICK N \in Nat : N = Len(old)
        BY <1>2
      <4>2. PICK X : X = LinesFor(f)
        OBVIOUS
      <4>3. seqs \in [1..N -> Seq(X)] /\ n \in 1..N /\ seqs[n] = <<line>>
        BY <3>1, <4>1, <4>2
      <4> HIDE DEF seqs
      <4>4. N \in Nat /\ seqs \in [1..N -> Seq(X)] /\ n \in 1..N /\ seqs[n] = <<line>>
        BY <4>1, <4>3
      <4>5. Occurs(line, FlattenSeq(seqs))
        BY ONLY <4>4, FlattenedOccurs, Zenon
      <4> QED BY <4>5 DEF Occurs
    <3> QED BY <3>2 DEF seqs
  <2> HIDE DEF a, b, line, T
  <2>6. m \in 1..Len(a \o b) /\ (a \o b)[m] = line
    BY <1>3, <2>5, ConcatProperties
  <2> QED BY <1>3, <2>6 DEF line
<1>5. CASE ~\E n \in 1..Len(old) : old[n].key = k
  <2> DEFINE missing == SetToSeq(MissingKeys(lines))
  <2>1. k \in MissingKeys(lines)
    BY <1>5 DEF MissingKeys
  <2>2. PICK n \in 1..Len(missing) : missing[n] = k
    BY <2>1, MissingAre
  <2>3. Added(lines, f)[n] = <<line>>
    <3>1. c = AddedIn(k)
      BY <1>0, <1>5
    <3> HIDE DEF line
    <3> QED BY <1>1, <2>2, <3>1 DEF Added
  <2>4. PICK m \in 1..Len(b) : b[m] = line
    <3> DEFINE seqs == Added(lines, f)
    <3>1. seqs \in [1..Len(missing) -> Seq(LinesFor(f))] /\ Len(missing) \in Nat
          /\ seqs[n] = <<line>> /\ n \in 1..Len(missing)
      BY <2>2, <2>3, AddedType
    <3> HIDE DEF seqs, missing, line
    <3>2. \E m \in 1..Len(FlattenSeq(seqs)) : FlattenSeq(seqs)[m] = line
      <4>1. PICK N \in Nat : N = Len(missing)
        BY <3>1
      <4>2. PICK X : X = LinesFor(f)
        OBVIOUS
      <4>3. seqs \in [1..N -> Seq(X)] /\ n \in 1..N /\ seqs[n] = <<line>>
        BY <3>1, <4>1, <4>2
      <4> HIDE DEF seqs
      <4>4. N \in Nat /\ seqs \in [1..N -> Seq(X)] /\ n \in 1..N /\ seqs[n] = <<line>>
        BY <4>1, <4>3
      <4>5. Occurs(line, FlattenSeq(seqs))
        BY ONLY <4>4, FlattenedOccurs, Zenon
      <4> QED BY <4>5 DEF Occurs
    <3> QED BY <3>2 DEF seqs
  <2> HIDE DEF a, b, line
  <2>5. /\ Len(a \o b) = Len(a) + Len(b) /\ Len(a) \in Nat /\ Len(b) \in Nat
        /\ \A i \in 1..(Len(a) + Len(b)) : (a \o b)[i] = IF i <= Len(a) THEN a[i] ELSE b[i - Len(a)]
    BY <1>3, ConcatProperties, LenProperties
  <2>6. Len(a) + m \in 1..(Len(a) + Len(b)) /\ ~(Len(a) + m <= Len(a)) /\ (Len(a) + m) - Len(a) = m
    BY <2>4, <2>5
  <2>7. (a \o b)[Len(a) + m] = line
    BY <2>4, <2>5, <2>6
  <2> QED BY <1>3, <2>5, <2>6, <2>7 DEF line
<1> QED BY <1>4, <1>5

(* What is written of a field is what the program reads.                   *)
LEMMA WrittenReads ==
  ASSUME keys \subseteq AllKeys, codesets \in Locales, IsFiniteSet(keys), NEW lines, IsRc(lines), NEW f \in FieldSet,
         NEW k \in keys, Survives(k, f[k]), NEW old
  PROVE  LinesRead(k, old, Written(lines, f)) = f[k]
<1> DEFINE L == Written(lines, f)
           S == {n \in 1..Len(L) : Sets(L[n]) /\ L[n].key = k}
<1>1. PICK v : v = f[k]
  OBVIOUS
<1>2. v \in Values /\ FieldValue(k, v) /\ k \in AllKeys /\ Survives(k, v)
  BY <1>1 DEF FieldSet
<1>3. L \in Seq(LinesFor(f)) /\ L \in Seq(RcLine)
  BY WrittenType, LinesForIsRc
<1>4. PICK m \in 1..Len(L) : \E c \in {WrittenIn(k), AddedIn(k)} : L[m] = LineOf(k, v, c)
  BY <1>1, WrittenHas
<1>5. ASSUME NEW c \in {WrittenIn(k), AddedIn(k)}
      PROVE  /\ LineOf(k, v, c).key = k /\ (LineOf(k, v, c).on => Value(LineOf(k, v, c), RunsFrom) = v)
             /\ ~LineOf(k, v, c).on => v = ""
  <2>1. k \in AllKeys /\ v \in Values /\ FieldValue(k, v) /\ codesets \in Locales
    BY <1>2
  <2>2. /\ LineOf(k, v, c).key = k
        /\ Survives(k, v) /\ LineOf(k, v, c).on => Value(LineOf(k, v, c), RunsFrom) = v
        /\ ~LineOf(k, v, c).on => v = ""
    BY ONLY <2>1, c \in {WrittenIn(k), AddedIn(k)}, LineOfIs, ZenonT(60)
  <2> QED BY <1>2, <2>2
<1> HIDE DEF L
<1>6. ASSUME NEW n \in S PROVE Value(L[n], RunsFrom) = v
  <2>1. n \in 1..Len(L) /\ L[n].key = k /\ L[n].on
    BY DEF Sets
  <2>2. L[n] \in LinesFor(f)
    BY <1>3, <2>1, ElementOfSeq
  <2>3. PICK c \in {WrittenIn(k), AddedIn(k)} : L[n] = LineOf(k, v, c)
    BY <1>1, <2>1, <2>2 DEF LinesFor
  <2> QED BY <1>5, <2>1, <2>3
<1>7. ASSUME S = {} PROVE v = ""
  <2>1. PICK c \in {WrittenIn(k), AddedIn(k)} : L[m] = LineOf(k, v, c)
    BY <1>4
  <2>2. ~LineOf(k, v, c).on
    BY <1>5, <1>7, <2>1 DEF Sets
  <2> QED BY <1>5, <2>2
<1>8. get_prog_parm(L, S, "", RunsFrom) = v
  <2>1. S \subseteq 1..Len(L)
    OBVIOUS
  <2> HIDE DEF S
  <2> QED BY <1>3, <1>6, <1>7, <2>1, TablesAre, ParmAll
<1> QED BY <1>1, <1>8 DEF LinesRead, Forgotten, L

-----------------------------------------------------------------------------
(* The lines that the dialog does not edit.                                *)

OtherLine(line) == IF line.key \notin keys THEN <<line>> ELSE <<>>

OthersOf(s) == FlattenSeq([n \in 1..Len(s) |-> OtherLine(s[n])])

LEMMA OthersOfMore ==
  ASSUME NEW s \in Seq(RcLine), NEW line \in RcLine
  PROVE  /\ OthersOf(s) \in Seq(RcLine)
         /\ OthersOf(s \o <<line>>) = OthersOf(s) \o OtherLine(line)
<1> DEFINE N == Len(s)
           all == s \o <<line>>
           seqs == [n \in 1..N |-> OtherLine(s[n])]
           more == [n \in 1..Len(all) |-> OtherLine(all[n])]
<1>1. N \in Nat /\ Len(all) = N + 1 /\ all[N + 1] = line /\ \A n \in 1..N : all[n] = s[n] /\ s[n] \in RcLine
  OBVIOUS
<1>2. \A n \in 1..(N + 1) : all[n] \in RcLine
  <2> HIDE DEF all, N
  <2> QED BY <1>1
<1>3. \A x \in RcLine : OtherLine(x) \in Seq(RcLine)
  BY DEF OtherLine
<1>4. seqs \in [1..N -> Seq(RcLine)]
  <2> HIDE DEF all, N
  <2> QED BY <1>1, <1>3
<1>5. more \in [1..(N + 1) -> Seq(RcLine)] /\ more[N + 1] = OtherLine(line)
  <2> HIDE DEF N, all
  <2> QED BY <1>1, <1>2, <1>3
<1>6. ASSUME NEW n \in 1..N PROVE more[n] = seqs[n]
  <2>1. n \in 1..Len(all) /\ all[n] = s[n]
    BY <1>1
  <2> HIDE DEF all
  <2> QED BY <2>1
<1>7. FlattenSeq(seqs) \in Seq(RcLine) /\ FlattenSeq(more) = FlattenSeq(seqs) \o OtherLine(line)
  <2> HIDE DEF N, all, seqs, more
  <2> QED BY <1>1, <1>4, <1>5, <1>6, FlattenedMore
<1> QED BY <1>7 DEF OthersOf

LEMMA OthersOfNone == OthersOf(<<>>) = <<>>
BY DEF OthersOf, FlattenSeq

(* Replacing lines keeps the others.                                       *)
LEMMA KeptOthers ==
  ASSUME keys \subseteq AllKeys, codesets \in Locales, NEW lines, IsRc(lines), NEW f \in FieldSet
  PROVE  OthersOf(FlattenSeq(KeptLines(lines, f))) = OthersOf(OldLines(lines))
<1> DEFINE old == OldLines(lines)
           N == Len(old)
           seqs == KeptLines(lines, f)
           others == [n \in 1..N |-> OtherLine(old[n])]
<1>1. old \in Seq(RcLine) /\ N \in Nat /\ \A n \in 1..N : old[n] \in RcLine
  BY OldLinesAre
<1>2. seqs \in [1..N -> Seq(LinesFor(f))]
  BY KeptType
<1>3. others \in [1..N -> Seq(RcLine)]
  <2> HIDE DEF old, N
  <2> QED BY <1>1 DEF OtherLine
<1>4. \A n \in 1..N : seqs[n] = Replaced(old, f, n)
  BY DEF KeptLines
<1>5. OthersOf(old) = FlattenSeq(others)
  BY DEF OthersOf
<1>6. \A n \in 1..N : others[n] = OtherLine(old[n])
  OBVIOUS
<1> HIDE DEF seqs, others, old, N
<1>7. PICK F : Joins(F, N, seqs, LinesFor(f))
  BY <1>1, <1>2, Flattened
<1>8. PICK G : Joins(G, N, others, RcLine)
  BY <1>1, <1>3, Flattened
<1> DEFINE S == {n \in 0..N : OthersOf(F[n]) = G[n]}
<1>9. 0 \in S
  BY <1>1, <1>7, <1>8, OthersOfNone DEF Joins
<1>10. ASSUME NEW n \in 1..N, n - 1 \in S PROVE n \in S
  <2>1. F[n] = F[n - 1] \o Replaced(old, f, n) /\ G[n] = G[n - 1] \o OtherLine(old[n])
    BY <1>4, <1>6, <1>7, <1>8 DEF Joins
  <2>2. n - 1 \in 0..N /\ n \in 0..N /\ OthersOf(F[n - 1]) = G[n - 1]
    BY <1>1, <1>10
  <2>3. F[n - 1] \in Seq(RcLine) /\ F[n - 1] \in Seq(LinesFor(f)) /\ G[n - 1] \in Seq(RcLine)
    BY <1>7, <1>8, <2>2, LinesForIsRc DEF Joins
  <2>4. OthersOf(F[n]) = G[n]
    <3>1. CASE old[n].key \notin keys
      <4>1. F[n] = F[n - 1] \o <<old[n]>>
        BY <2>1, <3>1 DEF Replaced
      <4> QED BY <1>1, <2>1, <2>2, <2>3, <4>1, OthersOfMore
    <3>2. CASE old[n].key \in keys
      <4>1. OtherLine(old[n]) = <<>>
        BY <3>2 DEF OtherLine
      <4>2. G[n] = G[n - 1]
        BY <2>1, <2>3, <4>1
      <4>3. CASE Replaced(old, f, n) = <<>>
        <5>1. F[n] = F[n - 1]
          BY <2>1, <2>3, <4>3
        <5> QED BY <2>2, <4>2, <5>1
      <4>4. CASE Replaced(old, f, n) = <<LineOf(old[n].key, f[old[n].key], WrittenIn(old[n].key))>>
        <5> DEFINE line == LineOf(old[n].key, f[old[n].key], WrittenIn(old[n].key))
        <5>1. line.key \in keys
          BY <3>2 DEF LineOf
        <5>2. line \in RcLine
          <6>1. old[n].key \in AllKeys /\ f[old[n].key] \in Values /\ FieldValue(old[n].key, f[old[n].key])
            BY <3>2 DEF FieldSet
          <6> QED BY <6>1, LineOfIs
        <5>3. F[n] = F[n - 1] \o <<line>>
          BY <2>1, <4>4
        <5>4. OtherLine(line) = <<>>
          BY <5>1 DEF OtherLine
        <5> HIDE DEF line
        <5>5. OthersOf(F[n]) = OthersOf(F[n - 1]) \o <<>>
          BY <2>3, <5>2, <5>3, <5>4, OthersOfMore
        <5> QED BY <2>2, <2>3, <4>2, <5>5
      <4> QED BY <3>2, <4>3, <4>4 DEF Replaced, Converted
    <3> QED BY <3>1, <3>2
  <2> QED BY <2>2, <2>4
<1>11. 0..N \subseteq S
  <2> HIDE DEF S
  <2> QED BY <1>1, <1>9, <1>10, InductionTo
<1>12. OthersOf(F[N]) = G[N]
  BY <1>1, <1>11
<1>13. OthersOf(FlattenSeq(seqs)) = OthersOf(old)
  BY <1>5, <1>7, <1>8, <1>12 DEF Joins
<1> QED BY <1>13 DEF seqs, old

(* Adding settings keeps the others.                                       *)
LEMMA AddedOthers ==
  ASSUME keys \subseteq AllKeys, codesets \in Locales, IsFiniteSet(keys), NEW lines, NEW f \in FieldSet,
         NEW a \in Seq(LinesFor(f))
  PROVE  OthersOf(a \o FlattenSeq(Added(lines, f))) = OthersOf(a)
<1> DEFINE missing == SetToSeq(MissingKeys(lines))
           N == Len(missing)
           seqs == Added(lines, f)
<1>1. N \in Nat /\ seqs \in [1..N -> Seq(LinesFor(f))]
  BY AddedType
<1>2. \A n \in 1..N : missing[n] \in keys
  <2>1. MissingKeys(lines) \subseteq keys
    BY DEF MissingKeys
  <2> QED BY <2>1, MissingAre
<1>3. \A n \in 1..N : seqs[n] = Converted(missing[n], f[missing[n]], AddedIn(missing[n]))
  BY DEF Added
<1> HIDE DEF seqs, missing, N
<1>4. PICK F : Joins(F, N, seqs, LinesFor(f))
  BY <1>1, Flattened
<1> DEFINE S == {n \in 0..N : OthersOf(a \o F[n]) = OthersOf(a)}
<1>5. 0 \in S
  <2>1. a \o <<>> = a
    OBVIOUS
  <2>2. F[0] = <<>> /\ 0 \in 0..N
    BY <1>1, <1>4 DEF Joins
  <2>3. a \o F[0] = a
    BY <2>1, <2>2
  <2> QED BY <2>2, <2>3
<1>6. ASSUME NEW n \in 1..N, n - 1 \in S PROVE n \in S
  <2>1. F[n] = F[n - 1] \o Converted(missing[n], f[missing[n]], AddedIn(missing[n]))
    BY <1>3, <1>4 DEF Joins
  <2>2. n - 1 \in 0..N /\ n \in 0..N /\ OthersOf(a \o F[n - 1]) = OthersOf(a)
    BY <1>1, <1>6
  <2>3. F[n - 1] \in Seq(LinesFor(f))
    BY <1>4, <2>2 DEF Joins
  <2>4. OthersOf(a \o F[n]) = OthersOf(a)
    <3>1. CASE Converted(missing[n], f[missing[n]], AddedIn(missing[n])) = <<>>
      <4>1. F[n] = F[n - 1]
        BY <2>1, <2>3, <3>1
      <4> QED BY <2>2, <4>1
    <3>2. CASE Converted(missing[n], f[missing[n]], AddedIn(missing[n])) = <<LineOf(missing[n], f[missing[n]], AddedIn(missing[n]))>>
      <4> DEFINE line == LineOf(missing[n], f[missing[n]], AddedIn(missing[n]))
      <4>1. missing[n] \in keys
        BY <1>2
      <4>2. line.key \in keys
        BY <4>1 DEF LineOf
      <4>3. line \in RcLine
        <5>1. missing[n] \in AllKeys /\ f[missing[n]] \in Values /\ FieldValue(missing[n], f[missing[n]])
          BY <4>1 DEF FieldSet
        <5> QED BY <5>1, LineOfIs
      <4>4. F[n] = F[n - 1] \o <<line>>
        BY <2>1, <3>2
      <4>5. OtherLine(line) = <<>>
        BY <4>2 DEF OtherLine
      <4> HIDE DEF line
      <4>6. PICK b : b = a \o F[n - 1]
        OBVIOUS
      <4>7. b \in Seq(RcLine)
        <5>1. a \in Seq(RcLine) /\ F[n - 1] \in Seq(RcLine)
          BY <2>3, LinesForIsRc
        <5> QED BY <4>6, <5>1, ConcatProperties
      <4>8. a \o F[n] = b \o <<line>>
        <5>1. a \in Seq(RcLine) /\ F[n - 1] \in Seq(RcLine) /\ <<line>> \in Seq(RcLine)
          BY <2>3, <4>3, LinesForIsRc
        <5>2. \A x, y, z \in Seq(RcLine) : (x \o y) \o z = x \o (y \o z)
          BY ConcatAssociative, SMTT(30)
        <5>3. (a \o F[n - 1]) \o <<line>> = a \o (F[n - 1] \o <<line>>)
          BY <5>1, <5>2
        <5> QED BY <4>4, <4>6, <5>3
      <4>9. OthersOf(b \o <<line>>) = OthersOf(b) \o <<>> /\ OthersOf(b) \in Seq(RcLine)
        BY <4>3, <4>5, <4>7, OthersOfMore
      <4>10. OthersOf(b) \o <<>> = OthersOf(b)
        BY <4>9
      <4> QED BY <2>2, <4>6, <4>8, <4>9, <4>10
    <3> QED BY <3>1, <3>2 DEF Converted
  <2> QED BY <2>2, <2>4
<1>7. 0..N \subseteq S
  <2> HIDE DEF S
  <2> QED BY <1>1, <1>5, <1>6, InductionTo
<1>8. OthersOf(a \o F[N]) = OthersOf(a)
  BY <1>1, <1>7
<1> QED BY <1>4, <1>8 DEF Joins, seqs

LEMMA OthersAre == ASSUME NEW lines PROVE Others(lines) = OthersOf(OldLines(lines))
BY OthersOfNone DEF Others, OthersOf, OtherLine, OldLines

LEMMA WrittenKeepsOthers ==
  ASSUME keys \subseteq AllKeys, codesets \in Locales, IsFiniteSet(keys), NEW lines, IsRc(lines), NEW f \in FieldSet
  PROVE  Others(Written(lines, f)) = Others(lines)
<1> DEFINE a == FlattenSeq(KeptLines(lines, f))
<1>1. a \in Seq(LinesFor(f))
  BY KeptType
<1>2. Written(lines, f) # NoFile
  BY WrittenType, LinesForIsRc
<1>3. OldLines(Written(lines, f)) = Written(lines, f)
  BY <1>2 DEF OldLines
<1>4. OthersOf(Written(lines, f)) = OthersOf(a)
  <2> HIDE DEF a
  <2>1. Written(lines, f) = a \o FlattenSeq(Added(lines, f))
    BY WrittenIs DEF a
  <2> QED BY <1>1, <2>1, AddedOthers
<1>5. OthersOf(a) = OthersOf(OldLines(lines))
  BY KeptOthers
<1> QED BY <1>3, <1>4, <1>5, OthersAre

-----------------------------------------------------------------------------
(* The dialog and the program.                                             *)

\* What configure_prog() makes of a file.
Made(lines) == [k \in keys |-> RunsWith(k, LinesRead(k, "", lines))]

(* Strengthened: the program runs with what it makes of the file that it    *)
(* finds, and of the file of the user it makes what was accepted last; an  *)
(* open dialog shows values that its widgets can have, so that the lines   *)
(* written for them are read as they were meant.                           *)
SettingsInv ==
  /\ keys \in KeySets /\ codesets \in Locales
  /\ IsRc(homeRc) /\ IsRc(sharedRc)
  /\ \/ dialog = Shut
     \/ /\ DOMAIN dialog = {"open", "edits", "home", "rc", "fields"}
        /\ dialog.open /\ dialog.fields \in FieldSet
  /\ FoundRc # NoFile => prog = Made(FoundRc)
  /\ agreed # NoFields =>
       /\ homeRc # NoFile
       /\ \A k \in keys : Survives(k, agreed[k]) => LinesRead(k, "", homeRc) = agreed[k]

LEMMA KeysAre == ASSUME SettingsInv PROVE keys \subseteq AllKeys /\ IsFiniteSet(keys) /\ codesets \in Locales
BY SettingsAssumption DEF SettingsInv

LEMMA ConfigureIs ==
  ASSUME NEW lines, NEW old, lines # NoFile
  PROVE  configure_prog(lines, old) = Made(lines)
BY DEF configure_prog, Made, LinesRead, Forgotten

LEMMA FoundIs ==
  /\ homeRc # NoFile => FoundRc = homeRc
  /\ homeRc = NoFile => FoundRc = sharedRc
<1>1. CASE homeRc # NoFile
  <2>1. FoundPath = "home"
    BY <1>1 DEF FoundPath
  <2> QED BY <1>1, <2>1 DEF FoundRc, LinesAt
<1>2. CASE homeRc = NoFile /\ sharedRc # NoFile
  <2>1. FoundPath = "shared"
    BY <1>2 DEF FoundPath
  <2> QED BY <1>2, <2>1 DEF FoundRc, LinesAt
<1>3. CASE homeRc = NoFile /\ sharedRc = NoFile
  <2>1. FoundPath = "none"
    BY <1>3 DEF FoundPath
  <2> QED BY <1>3, <2>1 DEF FoundRc, LinesAt
<1> QED BY <1>1, <1>2, <1>3

LEMMA RcFiles ==
  ASSUME SettingsInv
  PROVE  IsRc(FoundRc) /\ IsRc(Template) /\ (FoundRc # NoFile => FoundRc \in Seq(RcLine))
<1>1. IsRc(NoFile)
  BY DEF IsRc
<1>2. \A path : LinesAt(path) \in {homeRc, sharedRc, NoFile}
  <2> SUFFICES ASSUME NEW path PROVE LinesAt(path) \in {homeRc, sharedRc, NoFile}
    OBVIOUS
  <2>1. CASE path = "home"
    BY <2>1 DEF LinesAt
  <2>2. CASE path = "shared"
    BY <2>2 DEF LinesAt
  <2>3. CASE path \notin {"home", "shared"}
    BY <2>3 DEF LinesAt
  <2> QED BY <2>1, <2>2, <2>3
<1>3. IsRc(homeRc) /\ IsRc(sharedRc)
  BY DEF SettingsInv
<1>4. \A x \in {homeRc, sharedRc, NoFile} : IsRc(x)
  BY <1>1, <1>3
<1>5. IsRc(FoundRc) /\ IsRc(Template)
  BY <1>2, <1>4 DEF FoundRc, Template
<1> QED BY <1>5 DEF IsRc

LEMMA FirstFields ==
  ASSUME keys \subseteq AllKeys, codesets \in Locales
  PROVE  [k \in keys |-> Pages[k].first] \in FieldSet
<1>1. ASSUME NEW k \in keys PROVE Pages[k].first \in Values /\ FieldValue(k, Pages[k].first)
  <2>1. WidgetOk(k, Pages[k]) /\ k \in AllKeys
    BY Widgets
  <2>2. PICK v : v = Pages[k].first
    OBVIOUS
  <2>3. CASE Pages[k].sort = "text"
    BY <2>1, <2>2, <2>3, FieldValueIs, SomeValues DEF WidgetOk
  <2>4. CASE Pages[k].sort = "box"
    <3>1. v \in {"Yes", "No"}
      BY <2>1, <2>2, <2>4 DEF WidgetOk
    <3> QED BY <2>1, <2>2, <2>4, <3>1, FieldValueIs, SomeValues
  <2>5. CASE Pages[k].sort = "radio"
    BY <2>1, <2>2, <2>5, FieldValueIs, SomeValues
  <2>6. CASE Pages[k].sort = "spin"
    <3>1. v \in {"min", "usual", "other"}
      BY <2>1, <2>2, <2>6 DEF WidgetOk
    <3> QED BY <2>1, <2>2, <2>6, <3>1, FieldValueIs, SomeValues
  <2> QED BY <2>1, <2>3, <2>4, <2>5, <2>6, Sorts
<1> QED BY <1>1 DEF FieldSet

LEMMA ClearedFields ==
  ASSUME keys \subseteq AllKeys, codesets \in Locales, NEW f \in FieldSet
  PROVE  [k \in keys |-> IF Pages[k].clear = "keep" THEN f[k] ELSE Pages[k].clear] \in FieldSet
<1>1. ASSUME NEW k \in keys, Pages[k].clear # "keep"
      PROVE  Pages[k].clear \in Values /\ FieldValue(k, Pages[k].clear)
  <2>1. WidgetOk(k, Pages[k]) /\ k \in AllKeys
    BY Widgets
  <2>2. PICK v : v = Pages[k].clear
    OBVIOUS
  <2>3. CASE Pages[k].sort = "text"
    BY <2>1, <2>2, <2>3, FieldValueIs, SomeValues DEF WidgetOk
  <2>4. CASE Pages[k].sort = "box"
    <3>1. v \in {"Yes", "No"}
      BY <1>1, <2>1, <2>2, <2>4 DEF WidgetOk
    <3> QED BY <2>1, <2>2, <2>4, <3>1, FieldValueIs, SomeValues
  <2>5. CASE Pages[k].sort = "radio"
    <3>1. v \in Pages[k].options \cup {Pages[k].first}
      BY <1>1, <2>1, <2>2, <2>5 DEF WidgetOk
    <3> QED BY <2>1, <2>2, <2>5, <3>1, FieldValueIs, SomeValues
  <2>6. CASE Pages[k].sort = "spin"
    <3>1. v \in {"min", "usual", "other"}
      BY <2>1, <2>2, <2>6 DEF WidgetOk
    <3> QED BY <2>1, <2>2, <2>6, <3>1, FieldValueIs, SomeValues
  <2> QED BY <2>1, <2>3, <2>4, <2>5, <2>6, Sorts
<1>2. \A k \in keys : f[k] \in Values /\ FieldValue(k, f[k])
  BY DEF FieldSet
<1> DEFINE new == [k \in keys |-> IF Pages[k].clear = "keep" THEN f[k] ELSE Pages[k].clear]
<1>3. \A k \in keys : new[k] \in Values /\ FieldValue(k, new[k])
  BY <1>1, <1>2
<1> QED BY <1>3 DEF FieldSet

LEMMA ShownFields ==
  ASSUME keys \subseteq AllKeys, codesets \in Locales, NEW lines \in Seq(RcLine), NEW fields \in FieldSet
  PROVE  Shown(fields, lines) \in FieldSet
<1>1. PICK F : After(F, fields, lines)
  BY ShownIs
<1>2. Len(lines) \in 0..Len(lines)
  BY LenProperties
<1> QED BY <1>1, <1>2 DEF After

\* A start reads the file that is there.
LEMMA ProgIsMade ==
  ASSUME NEW lines, NEW old
  PROVE  lines # NoFile => configure_prog(lines, old) = Made(lines)
BY ConfigureIs

LEMMA SettingsInvInit == ASSUME InitSettings PROVE SettingsInv
<1>1. keys \in KeySets /\ codesets \in Locales /\ IsRc(homeRc) /\ IsRc(sharedRc)
  BY SettingsAssumption DEF InitSettings
<1>2. FoundRc # NoFile => prog = Made(FoundRc)
  BY ConfigureIs DEF InitSettings
<1> QED BY <1>1, <1>2 DEF InitSettings, SettingsInv

\* What is said of the files does not depend on the dialog.
LEMMA DialogOnly ==
  ASSUME SettingsInv, UNCHANGED <<keys, codesets, homeRc, sharedRc, prog, agreed>>,
         \/ dialog' = Shut
         \/ /\ DOMAIN dialog' = {"open", "edits", "home", "rc", "fields"}
            /\ dialog'.open /\ dialog'.fields \in FieldSet
  PROVE  SettingsInv'
<1>1. FoundRc' = FoundRc
  BY DEF FoundRc, FoundPath, LinesAt
<1>2. FieldSet' = FieldSet
  BY DEF FieldSet
<1>3. Made(FoundRc)' = Made(FoundRc)
  BY <1>1 DEF Made, LinesRead, Sets, Forgotten, get_prog_parm, Value
<1>4. ASSUME NEW k
      PROVE  /\ LinesRead(k, "", homeRc)' = LinesRead(k, "", homeRc)
             /\ Survives(k, agreed[k])' <=> Survives(k, agreed[k])
  <2>1. LinesRead(k, "", homeRc)' = LinesRead(k, "", homeRc)
    BY DEF LinesRead, Sets, Forgotten, get_prog_parm, Value
  <2>2. Survives(k, agreed[k])' <=> Survives(k, agreed[k])
    BY DEF Survives, WrittenIn, AddedIn
  <2> QED BY <2>1, <2>2
<1> QED BY <1>1, <1>2, <1>3, <1>4 DEF SettingsInv

LEMMA OpenKeeps == ASSUME SettingsInv, Open PROVE SettingsInv'
<1>1. UNCHANGED <<keys, codesets, homeRc, sharedRc, prog, agreed>>
  BY DEF Open
<1> DEFINE first == [k \in keys |-> Pages[k].first]
           new == IF FoundRc = NoFile THEN first ELSE Shown(first, FoundRc)
<1>2. keys \subseteq AllKeys /\ codesets \in Locales /\ first \in FieldSet
  BY KeysAre, FirstFields
<1>3. new \in FieldSet
  <2>1. CASE FoundRc = NoFile
    BY <1>2, <2>1
  <2>2. CASE FoundRc # NoFile
    <3>1. FoundRc \in Seq(RcLine)
      BY <2>2, RcFiles
    <3> HIDE DEF first
    <3>2. Shown(first, FoundRc) \in FieldSet
      BY <1>2, <3>1, ShownFields
    <3> QED BY <2>2, <3>2
  <2> QED BY <2>1, <2>2
<1>4. dialog' = [open |-> TRUE, edits |-> 0, home |-> homeRc # NoFile, rc |-> FoundPath, fields |-> new]
  BY DEF Open
<1> HIDE DEF new
<1>5. DOMAIN dialog' = {"open", "edits", "home", "rc", "fields"} /\ dialog'.open /\ dialog'.fields \in FieldSet
  BY <1>3, <1>4
<1> QED BY <1>1, <1>2, <1>5, DialogOnly

LEMMA ShutIs == ~Shut.open
BY DEF Shut

LEMMA DialogIs ==
  ASSUME SettingsInv, dialog.open
  PROVE  DOMAIN dialog = {"open", "edits", "home", "rc", "fields"} /\ dialog.fields \in FieldSet
<1>1. dialog # Shut
  BY ShutIs
<1> QED BY <1>1 DEF SettingsInv

LEMMA EditKeeps ==
  ASSUME SettingsInv, NEW k \in keys, NEW v \in Typed(k), Edit(k, v)
  PROVE  SettingsInv'
<1>1. keys \subseteq AllKeys /\ v \in Values /\ FieldValue(k, v)
  BY KeysAre, SettingsAssumption DEF SettingsInv
<1>2. dialog.open /\ dialog' = [dialog EXCEPT !.fields[k] = v, !.edits = @ + 1]
      /\ UNCHANGED <<keys, codesets, homeRc, sharedRc, prog, agreed>>
  BY DEF Edit
<1>3. DOMAIN dialog = {"open", "edits", "home", "rc", "fields"} /\ dialog.fields \in FieldSet
  BY <1>2, DialogIs
<1>4. DOMAIN dialog' = {"open", "edits", "home", "rc", "fields"} /\ dialog'.open
      /\ dialog'.fields = [dialog.fields EXCEPT ![k] = v]
  BY <1>2, <1>3
<1>5. [dialog.fields EXCEPT ![k] = v] \in FieldSet
  BY <1>1, <1>3 DEF FieldSet
<1> QED BY <1>2, <1>4, <1>5, DialogOnly

LEMMA ResetKeepsFields == ASSUME SettingsInv, Reset PROVE SettingsInv'
<1> DEFINE f == dialog.fields
           cleared == [k \in keys |-> IF Pages[k].clear = "keep" THEN f[k] ELSE Pages[k].clear]
           new == IF sharedRc = NoFile THEN cleared ELSE Shown(cleared, sharedRc)
<1>1. dialog.open /\ UNCHANGED <<keys, codesets, homeRc, sharedRc, prog, agreed>>
  BY DEF Reset
<1>2. DOMAIN dialog = {"open", "edits", "home", "rc", "fields"} /\ f \in FieldSet /\ keys \subseteq AllKeys
      /\ codesets \in Locales
  BY <1>1, DialogIs, KeysAre
<1>3. cleared \in FieldSet
  <2> HIDE DEF f
  <2> QED BY <1>2, ClearedFields
<1>4. new \in FieldSet
  <2> HIDE DEF cleared
  <2>1. CASE sharedRc = NoFile
    BY <1>3, <2>1
  <2>2. CASE sharedRc # NoFile
    <3>1. sharedRc \in Seq(RcLine)
      BY <2>2 DEF SettingsInv, IsRc
    <3>2. Shown(cleared, sharedRc) \in FieldSet
      BY <1>2, <1>3, <3>1, ShownFields
    <3> QED BY <2>2, <3>2
  <2> QED BY <2>1, <2>2
<1>5. dialog' = [dialog EXCEPT !.rc = IF sharedRc = NoFile THEN "none" ELSE "shared",
                   !.edits = @ + 1, !.fields = new]
  BY DEF Reset
<1> HIDE DEF new
<1>6. DOMAIN dialog' = {"open", "edits", "home", "rc", "fields"} /\ dialog'.open /\ dialog'.fields = new
  BY <1>1, <1>2, <1>5
<1> QED BY <1>1, <1>4, <1>6, DialogOnly

LEMMA OKKeeps == ASSUME SettingsInv, OK PROVE SettingsInv'
<1> DEFINE f == dialog.fields
           L == Written(Template, f)
<1>1. f \in FieldSet /\ keys \subseteq AllKeys /\ IsFiniteSet(keys) /\ codesets \in Locales /\ IsRc(Template)
  BY DialogIs, KeysAre, RcFiles DEF OK
<1>2. L \in Seq(LinesFor(f))
  <2> HIDE DEF f
  <2> QED BY <1>1, WrittenType
<1>3. IsRc(L) /\ L # NoFile
  <2> HIDE DEF L
  <2> QED BY <1>2, LinesForIsRc
<1>4. \A k \in keys : Survives(k, f[k]) => LinesRead(k, "", L) = f[k]
  <2> HIDE DEF f
  <2> QED BY <1>1, WrittenReads
<1>5. homeRc' = L /\ prog' = configure_prog(homeRc', prog) /\ agreed' = f /\ dialog' = Shut
      /\ UNCHANGED <<keys, codesets, sharedRc>>
  BY DEF OK
<1> HIDE DEF L, f
<1>6. FoundRc' = L
  BY <1>3, <1>5 DEF FoundRc, FoundPath, LinesAt
<1>7. prog' = Made(L)
  BY <1>3, <1>5, ConfigureIs
<1>8. Made(FoundRc)' = Made(L)
  BY <1>5, <1>6 DEF Made, LinesRead, Sets, Forgotten, get_prog_parm, Value
<1>9. ASSUME NEW k
      PROVE  /\ LinesRead(k, "", homeRc)' = LinesRead(k, "", L)
             /\ Survives(k, agreed[k])' <=> Survives(k, f[k])
  <2>1. LinesRead(k, "", homeRc)' = LinesRead(k, "", L)
    BY <1>5 DEF LinesRead, Sets, Forgotten, get_prog_parm, Value
  <2>2. Survives(k, agreed[k])' <=> Survives(k, f[k])
    BY <1>5 DEF Survives, WrittenIn, AddedIn
  <2> QED BY <2>1, <2>2
<1> QED BY <1>3, <1>4, <1>5, <1>6, <1>7, <1>8, <1>9 DEF SettingsInv

LEMMA DieInSaveKeeps == ASSUME SettingsInv, DieInSave PROVE SettingsInv'
<1> DEFINE f == dialog.fields
           L == Written(Template, f)
<1>1. f \in FieldSet /\ keys \subseteq AllKeys /\ IsFiniteSet(keys) /\ codesets \in Locales /\ IsRc(Template)
  BY DialogIs, KeysAre, RcFiles DEF DieInSave
<1>2. L \in Seq(LinesFor(f))
  <2> HIDE DEF f
  <2> QED BY <1>1, WrittenType
<1>3. PICK n \in 0..(Len(L) - 1) : homeRc' = SubSeq(L, 1, n)
  BY DEF DieInSave
<1>4. prog' = configure_prog(homeRc', [k \in keys |-> ""]) /\ agreed' = NoFields /\ dialog' = Shut
      /\ UNCHANGED <<keys, codesets, sharedRc>>
  BY DEF DieInSave
<1> HIDE DEF L, f
<1>5. homeRc' \in Seq(LinesFor(f))
  <2>1. Len(L) \in Nat
    BY <1>2, LenProperties
  <2>2. n \in 0..Len(L)
    BY <2>1
  <2> QED BY <1>2, <1>3, <2>2
<1>6. IsRc(homeRc') /\ homeRc' # NoFile
  BY <1>5, LinesForIsRc
<1>7. FoundRc' = homeRc'
  BY <1>6 DEF FoundRc, FoundPath, LinesAt
<1>8. prog' = Made(homeRc')
  BY <1>4, <1>6, ConfigureIs
<1>9. Made(FoundRc)' = Made(homeRc')
  BY <1>4, <1>7 DEF Made, LinesRead, Sets, Forgotten, get_prog_parm, Value
<1> QED BY <1>4, <1>6, <1>7, <1>8, <1>9 DEF SettingsInv

LEMMA StartAgainKeeps == ASSUME SettingsInv, StartAgain PROVE SettingsInv'
<1>1. prog' = configure_prog(FoundRc, [k \in keys |-> ""]) /\ dialog' = Shut
      /\ UNCHANGED <<keys, codesets, homeRc, sharedRc, agreed>>
  BY DEF StartAgain
<1>2. FoundRc' = FoundRc
  BY <1>1 DEF FoundRc, FoundPath, LinesAt
<1>3. Made(FoundRc)' = Made(FoundRc)
  BY <1>1, <1>2 DEF Made, LinesRead, Sets, Forgotten, get_prog_parm, Value
<1>4. ASSUME NEW k
      PROVE  /\ LinesRead(k, "", homeRc)' = LinesRead(k, "", homeRc)
             /\ Survives(k, agreed[k])' <=> Survives(k, agreed[k])
  <2>1. LinesRead(k, "", homeRc)' = LinesRead(k, "", homeRc)
    BY <1>1 DEF LinesRead, Sets, Forgotten, get_prog_parm, Value
  <2>2. Survives(k, agreed[k])' <=> Survives(k, agreed[k])
    BY <1>1 DEF Survives, WrittenIn, AddedIn
  <2> QED BY <2>1, <2>2
<1>5. FoundRc # NoFile => prog' = Made(FoundRc)
  BY <1>1, ConfigureIs
<1> QED BY <1>1, <1>2, <1>3, <1>4, <1>5 DEF SettingsInv

LEMMA SettingsSteps == ASSUME SettingsInv, [NextSettings]_settingVars PROVE SettingsInv'
<1>1. CASE Cancel
  BY <1>1, DialogOnly DEF Cancel
<1>2. CASE SaveFails
  <2>1. dialog.open /\ dialog' = [dialog EXCEPT !.rc = "home"]
        /\ UNCHANGED <<keys, codesets, homeRc, sharedRc, prog, agreed>>
    BY <1>2 DEF SaveFails
  <2>2. DOMAIN dialog' = {"open", "edits", "home", "rc", "fields"} /\ dialog'.open
        /\ dialog'.fields \in FieldSet
    BY <2>1, DialogIs
  <2> QED BY <2>1, <2>2, DialogOnly
<1>3. CASE UNCHANGED settingVars
  <2>1. UNCHANGED <<keys, codesets, homeRc, sharedRc, prog, agreed>> /\ dialog' = dialog
    BY <1>3 DEF settingVars
  <2> QED BY <2>1, DialogOnly DEF SettingsInv
<1>4. CASE Refuse
  BY <1>3, <1>4 DEF Refuse
<1> QED BY <1>1, <1>2, <1>3, <1>4, OpenKeeps, EditKeeps, ResetKeepsFields, OKKeeps, DieInSaveKeeps, StartAgainKeeps
    DEF NextSettings

(* The program runs with what the files say, whatever is done in the dialog *)
(* and however often it is saved, dies in a save or is started.            *)
THEOREM SettingsHold == SpecSettings => []SettingsInv
<1>1. InitSettings => SettingsInv
  BY SettingsInvInit
<1>2. SettingsInv /\ [NextSettings]_settingVars => SettingsInv'
  BY SettingsSteps
<1> QED BY <1>1, <1>2, PTL DEF SpecSettings

(* RunsAsAgreed, for any settings, files and values, and for any number of  *)
(* edits, saves and starts.                                                *)
THEOREM AcceptedIsRun == SpecSettings => []RunsAsAgreed
<1>1. SettingsInv => RunsAsAgreed
  <2> SUFFICES ASSUME SettingsInv, agreed # NoFields, NEW k \in keys, Survives(k, agreed[k])
               PROVE  prog[k] = RunsWith(k, agreed[k])
    BY DEF RunsAsAgreed
  <2>1. homeRc # NoFile /\ LinesRead(k, "", homeRc) = agreed[k]
    BY DEF SettingsInv
  <2>2. prog = Made(homeRc)
    BY <2>1, FoundIs DEF SettingsInv
  <2> QED BY <2>1, <2>2 DEF Made
<1> QED BY <1>1, SettingsHold, PTL

\* One step of SettingsKept, its two halves.
KeepsOthers ==
  dialog.open /\ agreed' = dialog.fields /\ Template = FoundRc /\ dialog' = Shut /\ homeRc' # homeRc
    => Others(homeRc') = Others(FoundRc)

ShowsTruth ==
  ~dialog.open /\ dialog'.open /\ FoundRc # NoFile
    => \A k \in keys : Plain(k, FoundRc) => RunsWith(k, dialog'.fields[k]) = prog[k]

LEMMA OthersStep ==
  ASSUME SettingsInv, [NextSettings]_settingVars
  PROVE  [KeepsOthers]_settingVars
<1> SUFFICES ASSUME NextSettings, dialog.open, agreed' = dialog.fields, Template = FoundRc, homeRc' # homeRc
             PROVE  Others(homeRc') = Others(FoundRc)
  BY DEF KeepsOthers
<1>1. OK \/ DieInSave
  BY DEF NextSettings, Open, Reset, Cancel, SaveFails, Refuse, StartAgain, Edit, settingVars
<1>2. dialog.fields \in FieldSet /\ keys \subseteq AllKeys /\ IsFiniteSet(keys) /\ codesets \in Locales /\ IsRc(Template)
  BY DialogIs, KeysAre, RcFiles
<1>3. CASE OK
  <2>1. homeRc' = Written(Template, dialog.fields)
    BY <1>3 DEF OK
  <2>2. PICK f \in FieldSet : f = dialog.fields
    BY <1>2
  <2>3. Others(Written(Template, f)) = Others(Template)
    BY <1>2, WrittenKeepsOthers
  <2> QED BY <2>1, <2>2, <2>3
<1>4. CASE DieInSave
  <2>1. agreed' = NoFields
    BY <1>4 DEF DieInSave
  <2>2. DOMAIN dialog.fields = keys /\ DOMAIN NoFields = {"none"}
    BY <1>2 DEF FieldSet, NoFields
  <2>3. "none" \notin AllKeys
    BY Widgets DEF WidgetOk
  <2> QED BY <1>2, <2>1, <2>2, <2>3
<1> QED BY <1>1, <1>3, <1>4

LEMMA ShowsStep ==
  ASSUME SettingsInv, [NextSettings]_settingVars
  PROVE  [ShowsTruth]_settingVars
<1> SUFFICES ASSUME NextSettings, ~dialog.open, dialog'.open, FoundRc # NoFile,
                    NEW k \in keys, Plain(k, FoundRc)
             PROVE  RunsWith(k, dialog'.fields[k]) = prog[k]
  BY DEF ShowsTruth
<1>1. Open
  <2>1. dialog' # Shut
    BY ShutIs
  <2> QED BY <2>1 DEF NextSettings, Reset, Cancel, OK, SaveFails, Refuse, DieInSave, StartAgain, Edit
<1> DEFINE first == [q \in keys |-> Pages[q].first]
<1>2. dialog'.fields = Shown(first, FoundRc)
  BY <1>1 DEF Open
<1>3. first \in FieldSet /\ keys \subseteq AllKeys /\ codesets \in Locales
  BY KeysAre, FirstFields
<1>4. FoundRc \in Seq(RcLine) /\ IsRc(FoundRc)
  BY RcFiles
<1>5. prog[k] = RunsWith(k, LinesRead(k, "", FoundRc))
  BY DEF SettingsInv, Made
<1> HIDE DEF first
<1>6. RunsWith(k, Shown(first, FoundRc)[k]) = RunsWith(k, LinesRead(k, "", FoundRc))
  BY <1>3, <1>4, ShownRuns
<1> QED BY <1>2, <1>5, <1>6

(* SettingsKept, likewise: what the dialog does not edit survives it, and   *)
(* what it shows is what the program runs with.                            *)
THEOREM FileAndDialogAgree == SpecSettings => SettingsKept
<1>1. SettingsInv /\ [NextSettings]_settingVars => [KeepsOthers]_settingVars
  BY OthersStep
<1>2. SettingsInv /\ [NextSettings]_settingVars => [ShowsTruth]_settingVars
  BY ShowsStep
<1>3. SpecSettings => [][KeepsOthers]_settingVars /\ [][ShowsTruth]_settingVars
  BY <1>1, <1>2, SettingsHold, PTL DEF SpecSettings
<1> QED BY <1>3 DEF KeepsOthers, ShowsTruth, SettingsKept, OthersKept, ShowsWhatRuns

-----------------------------------------------------------------------------
(* Text on pages: paginate() goes through the lines with a sum of heights,  *)
(* which is how far the last line reaches below the top of its page.        *)

LEMMA TopsAre ==
  ASSUME NEW lines \in Seq(Nat)
  PROVE  /\ Tops(lines) \in [0..Len(lines) -> Nat] /\ Tops(lines)[0] = 0
         /\ \A n \in 1..Len(lines) : Tops(lines)[n] = Tops(lines)[n - 1] + lines[n]
<1>1. PICK N \in Nat : N = Len(lines)
  OBVIOUS
<1> DEFINE step == [n \in 1..N |-> [x \in Nat |-> x + lines[n]]]
<1>2. step \in [1..N -> [Nat -> Nat]]
  BY <1>1, ElementOfSeq
<1>3. PICK F : Recursion(F, N, Nat, 0, step)
  <2> HIDE DEF step
  <2> QED BY <1>2, RecursionExists
<1>4. F \in [0..N -> Nat] /\ F[0] = 0 /\ \A n \in 1..N : F[n] = F[n - 1] + lines[n]
  <2>1. F \in [0..N -> Nat] /\ F[0] = 0 /\ \A n \in 1..N : F[n] = step[n][F[n - 1]]
    BY <1>3 DEF Recursion
  <2>2. ASSUME NEW n \in 1..N PROVE F[n] = F[n - 1] + lines[n]
    <3>1. n - 1 \in 0..N
      OBVIOUS
    <3> QED BY <2>1, <3>1
  <2> QED BY <2>1, <2>2
<1> DEFINE Is(f) == f = [n \in 0..N |-> IF n = 0 THEN 0 ELSE f[n - 1] + lines[n]]
<1>5. Is(F)
  BY <1>4
<1>6. PICK G : G = CHOOSE f : Is(f)
  OBVIOUS
<1>7. Is(G)
  <2> HIDE DEF Is
  <2> QED BY <1>5, <1>6
<1>8. Tops(lines) = G
  BY <1>1, <1>6 DEF Tops
<1>9. G \in [0..N -> Nat] /\ G[0] = 0 /\ \A n \in 1..N : G[n] = G[n - 1] + lines[n]
  <2>1. G[0] = 0 /\ \A n \in 1..N : G[n] = G[n - 1] + lines[n]
    BY <1>7
  <2> DEFINE S == {n \in 0..N : G[n] = F[n]}
  <2>2. 0 \in S
    BY <1>4, <2>1
  <2>3. ASSUME NEW n \in 1..N, n - 1 \in S PROVE n \in S
    BY <1>4, <2>1, <2>3
  <2>4. 0..N \subseteq S
    <3> HIDE DEF S
    <3> QED BY <2>2, <2>3, InductionTo
  <2>5. G = F
    <3>1. DOMAIN G = 0..N
      BY <1>7
    <3>2. \A n \in 0..N : G[n] = F[n]
      BY <2>4
    <3>3. G = [n \in 0..N |-> G[n]]
      BY <1>7
    <3> QED BY <1>4, <3>2, <3>3
  <2> QED BY <2>5, <2>1, <1>4
<1> QED BY <1>1, <1>8, <1>9

-----------------------------------------------------------------------------
\* The pages of the first n lines, and the sum of heights: what the page being
\* filled holds ends that far below its top.
Filled(m, n, lines, height) ==
  LET pages == m.pages
      top == Tops(lines)
      last == Len(pages)
  IN /\ pages \in Seq(Nat) /\ last \in Nat \ {0} /\ pages[1] = 0
     /\ pages[last] <= n
     /\ top[pages[last]] + m.sum = top[n]
     /\ m.sum <= height \/ n = pages[last] + 1
     /\ \A i \in 1..(last - 1) :
          /\ pages[i] <= pages[i + 1] /\ pages[i + 1] < n
          /\ top[pages[i + 1]] <= top[pages[i]] + height \/ pages[i + 1] = pages[i] + 1
          /\ top[pages[i + 1] + 1] > top[pages[i]] + height

Laying == [pages : Seq(Nat), sum : Nat]

LEMMA WithLineFills ==
  ASSUME NEW lines \in Seq(Nat), NEW height \in Nat, NEW n \in 1..Len(lines), NEW m \in Laying,
         Filled(m, n - 1, lines, height)
  PROVE  /\ WithLine(m, n - 1, lines[n], height) \in Laying
         /\ Filled(WithLine(m, n - 1, lines[n], height), n, lines, height)
<1>1. PICK top : top = Tops(lines)
  OBVIOUS
<1>2. top \in [0..Len(lines) -> Nat] /\ top[n] = top[n - 1] + lines[n] /\ top[0] = 0
  BY <1>1, TopsAre
<1>3. PICK pages \in Seq(Nat) : pages = m.pages
  BY DEF Laying
<1>4. PICK sum \in Nat : sum = m.sum
  BY DEF Laying
<1>5. PICK h \in Nat : h = lines[n]
  BY ElementOfSeq
<1>6. PICK last \in Nat \ {0} : last = Len(pages)
  BY <1>3 DEF Filled
<1>7. /\ pages[1] = 0 /\ pages[last] <= n - 1 /\ top[pages[last]] + sum = top[n - 1]
      /\ sum <= height \/ n - 1 = pages[last] + 1
      /\ \A i \in 1..(last - 1) :
           /\ pages[i] <= pages[i + 1] /\ pages[i + 1] < n - 1
           /\ top[pages[i + 1]] <= top[pages[i]] + height \/ pages[i + 1] = pages[i] + 1
           /\ top[pages[i + 1] + 1] > top[pages[i]] + height
  BY <1>1, <1>3, <1>4, <1>6 DEF Filled
<1>0. Len(lines) \in Nat /\ n - 1 \in 0..Len(lines) /\ n \in 0..Len(lines) /\ n - 1 \in Nat
  OBVIOUS
<1>8. /\ \A i \in 1..last : pages[i] \in Nat
      /\ pages[last] \in Nat /\ pages[last] \in 0..Len(lines)
      /\ top[pages[last]] \in Nat /\ top[n - 1] \in Nat
  <2>1. \A i \in 1..last : pages[i] \in Nat
    BY <1>3, <1>6, ElementOfSeq
  <2>2. pages[last] \in Nat /\ pages[last] \in 0..Len(lines)
    BY <2>1, <1>0, <1>7
  <2> QED BY <2>1, <2>2, <1>0, <1>2
<1>9. CASE Breaks(sum, h, height)
  <2>1. PICK w : w = WithLine(m, n - 1, h, height)
    OBVIOUS
  <2>2. w = [pages |-> Append(pages, n - 1), sum |-> h]
    BY <2>1, <1>3, <1>4, <1>9 DEF WithLine
  <2>3. PICK q \in Seq(Nat) : q = Append(pages, n - 1)
    <3>1. Append(pages, n - 1) \in Seq(Nat)
      BY <1>0, <1>3, AppendProperties
    <3> QED BY <3>1
  <2>4. Len(q) = last + 1 /\ q[last + 1] = n - 1 /\ \A i \in 1..last : q[i] = pages[i]
    BY <2>3, <1>0, <1>3, <1>6, AppendProperties
  <2>5. w.pages = q /\ w.sum = h /\ w \in Laying
    BY <2>2, <2>3 DEF Laying
  <2>6. sum + h > height
    BY <1>9 DEF Breaks
  <2>7. q[1] = 0 /\ q[last + 1] <= n /\ top[q[last + 1]] + h = top[n] /\ n = q[last + 1] + 1
    BY <1>2, <1>5, <1>6, <1>7, <2>4
  <2>8. ASSUME NEW i \in 1..last
        PROVE  /\ q[i] <= q[i + 1] /\ q[i + 1] < n
               /\ top[q[i + 1]] <= top[q[i]] + height \/ q[i + 1] = q[i] + 1
               /\ top[q[i + 1] + 1] > top[q[i]] + height
    <3>1. CASE i = last
      <4>1. q[i] = pages[last] /\ q[i + 1] = n - 1 /\ (n - 1) + 1 = n
        BY <3>1, <2>4
      <4>2. top[n] > top[pages[last]] + height
        <5>1. top[n] = top[n - 1] + h
          BY <1>2, <1>5
        <5>2. top[pages[last]] + sum = top[n - 1]
          BY <1>7
        <5>3. PICK a \in Nat, b \in Nat : a = top[pages[last]] /\ b = top[n - 1]
          BY <1>8
        <5>4. top[n] = a + sum + h
          BY <5>1, <5>2, <5>3
        <5>5. a + sum + h > a + height
          BY <2>6
        <5> QED BY <5>3, <5>4, <5>5
      <4>3. top[n - 1] <= top[pages[last]] + height \/ n - 1 = pages[last] + 1
        BY <1>7, <1>8, SMTT(30)
      <4> QED BY <4>1, <4>2, <4>3, <1>7
    <3>2. CASE i # last
      <4>1. i \in 1..(last - 1) /\ i + 1 \in 1..last
        BY <3>2
      <4>2. q[i] = pages[i] /\ q[i + 1] = pages[i + 1] /\ pages[i + 1] \in Nat
        BY <4>1, <2>4, <1>8
      <4>3. /\ pages[i] <= pages[i + 1] /\ pages[i + 1] < n - 1
            /\ top[pages[i + 1]] <= top[pages[i]] + height \/ pages[i + 1] = pages[i] + 1
            /\ top[pages[i + 1] + 1] > top[pages[i]] + height
        BY <4>1, <1>7
      <4>4. pages[i + 1] < n
        BY <4>2, <4>3
      <4> QED BY <4>2, <4>3, <4>4
    <3> QED BY <3>1, <3>2
  <2>9. Filled(w, n, lines, height)
    <3>1. (last + 1) - 1 = last /\ last + 1 \in Nat \ {0}
      OBVIOUS
    <3>2. Len(w.pages) = last + 1 /\ w.pages \in Seq(Nat)
      BY <2>3, <2>4, <2>5
    <3>3. w.pages = q /\ w.sum = h /\ Tops(lines) = top
      BY <1>1, <2>5
    <3> HIDE DEF Laying
    <3> QED BY <2>4, <2>7, <2>8, <3>1, <3>2, <3>3 DEF Filled
  <2> QED BY <2>1, <2>5, <2>9, <1>5
<1>10. CASE ~Breaks(sum, h, height)
  <2>1. PICK w : w = WithLine(m, n - 1, h, height)
    OBVIOUS
  <2>2. w.pages = pages /\ w.sum = sum + h /\ w \in Laying
    <3>1. w = [m EXCEPT !.sum = @ + h]
      BY <2>1, <1>4, <1>10 DEF WithLine
    <3>2. w = [pages |-> pages, sum |-> sum + h]
      BY <3>1, <1>3, <1>4 DEF Laying
    <3> QED BY <3>2 DEF Laying
  <2>3. sum + h <= height
    BY <1>10 DEF Breaks
  <2>5. pages[last] <= n /\ top[pages[last]] + (sum + h) = top[n]
    <3>1. top[n] = top[n - 1] + h /\ top[pages[last]] + sum = top[n - 1] /\ pages[last] <= n - 1
      BY <1>2, <1>5, <1>7
    <3>2. PICK a \in Nat, b \in Nat, p \in Nat : a = top[pages[last]] /\ b = top[n - 1] /\ p = pages[last]
      BY <1>8
    <3>3. a + sum = b /\ p <= n - 1
      BY <3>1, <3>2
    <3>4. a + (sum + h) = b + h /\ p <= n
      BY <3>3
    <3>5. top[pages[last]] + (sum + h) = b + h /\ top[n] = b + h
      BY <3>1, <3>2, <3>4
    <3> QED BY <3>2, <3>4, <3>5
  <2>6. ASSUME NEW i \in 1..(last - 1) PROVE pages[i + 1] < n
    <3>0. i + 1 \in 1..last
      OBVIOUS
    <3>1. i + 1 \in 1..last /\ pages[i + 1] < n - 1
      BY <3>0, <1>7
    <3>2. pages[i + 1] \in Nat
      BY <3>1, <1>8
    <3> QED BY <3>1, <3>2
  <2>7. Filled(w, n, lines, height)
    BY <1>1, <1>6, <1>7, <2>2, <2>3, <2>5, <2>6 DEF Filled
  <2> QED BY <2>1, <2>2, <2>7, <1>5
<1> QED BY <1>9, <1>10

\* However the text and the page: what paginate() makes of it.
LEMMA PaginateFills ==
  ASSUME NEW lines \in Seq(Nat), NEW height \in Nat
  PROVE  \E sum \in Nat :
           Filled([pages |-> paginate(lines, height), sum |-> sum], Len(lines), lines, height)
<1>1. PICK N \in Nat : N = Len(lines)
  OBVIOUS
<1> DEFINE c == [pages |-> <<0>>, sum |-> 0]
           X(n) == {m \in Laying : Filled(m, n, lines, height)}
           Is(f) == f = [n \in 0..N |-> IF n = 0 THEN c
                                        ELSE WithLine(f[n - 1], n - 1, lines[n], height)]
           step == [n \in 1..N |-> [m \in Laying |->
                      IF m \in X(n - 1) THEN WithLine(m, n - 1, lines[n], height) ELSE c]]
<1>2. c \in X(0)
  <2>1. PICK p : p = <<0>>
    OBVIOUS
  <2>2. p \in Seq(Nat) /\ Len(p) = 1 /\ p[1] = 0
    BY <2>1
  <2>3. c \in Laying
    BY DEF Laying
  <2>4. c.pages = p /\ c.sum = 0
    BY <2>1
  <2>5. Tops(lines)[0] \in Nat
    BY <1>1, TopsAre
  <2>6. Filled(c, 0, lines, height)
    <3>1. PICK t : t = Tops(lines) /\ t[0] \in Nat
      BY <2>5
    <3>2. 1..(1 - 1) = {} /\ 1 \in Nat \ {0}
      OBVIOUS
    <3>3. /\ p \in Seq(Nat) /\ Len(p) \in Nat \ {0} /\ p[1] = 0 /\ p[Len(p)] <= 0
          /\ t[p[Len(p)]] + 0 = t[0] /\ 0 <= height /\ 1..(Len(p) - 1) = {}
      BY <2>2, <3>1, <3>2
    <3> HIDE DEF c
    <3> QED BY <2>4, <3>1, <3>3 DEF Filled
  <2> QED BY <2>3, <2>6
<1>3. ASSUME NEW n \in 1..N, NEW m \in X(n - 1) PROVE WithLine(m, n - 1, lines[n], height) \in X(n)
  <2> HIDE DEF c
  <2> QED BY <1>1, <1>3, WithLineFills
<1>4. c \in Laying
  BY <1>2
<1> HIDE DEF c
<1>5. step \in [1..N -> [Laying -> Laying]]
  <2>1. ASSUME NEW n \in 1..N, NEW m \in Laying
        PROVE  (IF m \in X(n - 1) THEN WithLine(m, n - 1, lines[n], height) ELSE c) \in Laying
    BY <1>3, <1>4
  <2> HIDE DEF X
  <2> QED BY <2>1
<1> HIDE DEF X
<1>6. PICK F : Recursion(F, N, Laying, c, step)
  <2> HIDE DEF step
  <2> QED BY <1>4, <1>5, RecursionExists
<1>7. /\ F \in [0..N -> Laying] /\ F[0] = c
      /\ \A n \in 1..N : F[n] = IF F[n - 1] \in X(n - 1)
                                THEN WithLine(F[n - 1], n - 1, lines[n], height) ELSE c
  <2>1. F \in [0..N -> Laying] /\ F[0] = c /\ \A n \in 1..N : F[n] = step[n][F[n - 1]]
    BY <1>6 DEF Recursion
  <2>2. ASSUME NEW n \in 1..N
        PROVE  F[n] = IF F[n - 1] \in X(n - 1)
                      THEN WithLine(F[n - 1], n - 1, lines[n], height) ELSE c
    <3>1. n - 1 \in 0..N
      OBVIOUS
    <3> QED BY <2>1, <3>1
  <2> QED BY <2>1, <2>2
<1>8. \A n \in 0..N : F[n] \in X(n)
  <2> DEFINE S == {n \in 0..N : F[n] \in X(n)}
  <2>1. 0 \in S
    BY <1>2, <1>7
  <2>2. ASSUME NEW n \in 1..N, n - 1 \in S PROVE n \in S
    BY <1>3, <1>7, <2>2
  <2>3. 0..N \subseteq S
    <3> HIDE DEF S
    <3> QED BY <2>1, <2>2, InductionTo
  <2> QED BY <2>3
<1>9. Is(F)
  <2>1. ASSUME NEW n \in 1..N PROVE F[n] = WithLine(F[n - 1], n - 1, lines[n], height)
    <3>1. n - 1 \in 0..N
      OBVIOUS
    <3> QED BY <1>7, <1>8, <3>1
  <2> QED BY <1>7, <2>1
<1>10. PICK G : G = CHOOSE f : Is(f)
  OBVIOUS
<1>11. Is(G)
  <2> HIDE DEF Is
  <2> QED BY <1>9, <1>10
<1>12. paginate(lines, height) = G[N].pages
  BY <1>1, <1>10 DEF paginate, c
<1>13. G[N] = F[N]
  <2>1. G[0] = c /\ \A n \in 1..N : G[n] = WithLine(G[n - 1], n - 1, lines[n], height)
    BY <1>11
  <2>2. F[0] = c /\ \A n \in 1..N : F[n] = WithLine(F[n - 1], n - 1, lines[n], height)
    BY <1>9
  <2> DEFINE S == {n \in 0..N : G[n] = F[n]}
  <2>3. 0 \in S
    BY <2>1, <2>2
  <2>4. ASSUME NEW n \in 1..N, n - 1 \in S PROVE n \in S
    BY <2>1, <2>2, <2>4
  <2>5. 0..N \subseteq S
    <3> HIDE DEF S
    <3> QED BY <2>3, <2>4, InductionTo
  <2> QED BY <2>5
<1>14. PICK m \in Laying : m = F[N] /\ Filled(m, N, lines, height)
  BY <1>8 DEF X
<1>15. m = [pages |-> paginate(lines, height), sum |-> m.sum] /\ m.sum \in Nat
  BY <1>12, <1>13, <1>14 DEF Laying
<1> QED BY <1>1, <1>14, <1>15

-----------------------------------------------------------------------------
(* The inductive invariant: the pages are what paginate() makes of the text *)
(* that is laid out, and what was drawn of them is theirs.                  *)
TextInv ==
  /\ laid.lines \in Seq(Nat) /\ laid.height \in Nat /\ current_line \in Nat
  /\ firstLines = <<>> => drawn = {}
  /\ firstLines # <<>> =>
       \E sum \in Nat : Filled([pages |-> firstLines, sum |-> sum],
                               Len(laid.lines), laid.lines, laid.height)
  /\ DrawnAsLaidOut

\* Each page begins and ends within the text, and holds what PagesFit says.
LEMMA PagesAre ==
  ASSUME TextInv, firstLines # <<>>
  PROVE  /\ firstLines \in Seq(Nat) /\ Len(firstLines) \in Nat \ {0} /\ firstLines[1] = 0
         /\ \A n \in 1..Len(firstLines) :
              /\ firstLines[n] \in Nat /\ Past(n) \in 0..Len(laid.lines) /\ firstLines[n] <= Past(n)
              /\ \/ Tops(laid.lines)[Past(n)] <= Tops(laid.lines)[firstLines[n]] + laid.height
                 \/ Past(n) = firstLines[n] + 1
              /\ n < Len(firstLines) =>
                   /\ Past(n) < Len(laid.lines)
                   /\ Tops(laid.lines)[Past(n) + 1] > Tops(laid.lines)[firstLines[n]] + laid.height
<1>1. PICK sum \in Nat : Filled([pages |-> firstLines, sum |-> sum], Len(laid.lines), laid.lines, laid.height)
  BY DEF TextInv
<1>2. PICK top : top = Tops(laid.lines)
  OBVIOUS
<1>3. PICK N \in Nat : N = Len(laid.lines)
  BY DEF TextInv
<1>4. PICK height \in Nat : height = laid.height
  BY DEF TextInv
<1>5. PICK last : last = Len(firstLines)
  OBVIOUS
<1>6. /\ firstLines \in Seq(Nat) /\ last \in Nat \ {0} /\ firstLines[1] = 0
      /\ firstLines[last] <= N
      /\ top[firstLines[last]] + sum = top[N]
      /\ sum <= height \/ N = firstLines[last] + 1
      /\ \A i \in 1..(last - 1) :
           /\ firstLines[i] <= firstLines[i + 1] /\ firstLines[i + 1] < N
           /\ top[firstLines[i + 1]] <= top[firstLines[i]] + height
              \/ firstLines[i + 1] = firstLines[i] + 1
           /\ top[firstLines[i + 1] + 1] > top[firstLines[i]] + height
  BY <1>1, <1>2, <1>3, <1>4, <1>5 DEF Filled
<1>7. \A i \in 1..last : firstLines[i] \in Nat
  BY <1>5, <1>6, ElementOfSeq
<1>8. top \in [0..N -> Nat]
  BY <1>2, <1>3, TopsAre DEF TextInv
<1>9. ASSUME NEW n \in 1..last
      PROVE  /\ Past(n) \in 0..N /\ firstLines[n] <= Past(n)
             /\ top[Past(n)] <= top[firstLines[n]] + height \/ Past(n) = firstLines[n] + 1
             /\ n < last => Past(n) < N /\ top[Past(n) + 1] > top[firstLines[n]] + height
  <2>1. CASE n < last
    <3>1. n \in 1..(last - 1) /\ n + 1 \in 1..last
      BY <1>6, <2>1
    <3>2. Past(n) = firstLines[n + 1]
      BY <1>5, <2>1 DEF Past
    <3>3. firstLines[n + 1] \in Nat /\ firstLines[n + 1] < N
      BY <1>6, <1>7, <3>1
    <3>4. firstLines[n + 1] \in 0..N
      BY <3>3
    <3> QED BY <1>6, <3>1, <3>2, <3>3, <3>4
  <2>2. CASE ~(n < last)
    <3>1. n = last /\ Past(n) = N
      BY <1>3, <1>5, <1>6, <2>2 DEF Past
    <3>2. firstLines[last] \in 0..N /\ N \in 0..N
      BY <1>6, <1>7
    <3>3. top[N] <= top[firstLines[last]] + height \/ N = firstLines[last] + 1
      <4>1. PICK a \in Nat, b \in Nat : a = top[firstLines[last]] /\ b = top[N]
        BY <1>8, <3>2
      <4>2. a + sum = b /\ (sum <= height \/ N = firstLines[last] + 1)
        BY <1>6, <4>1
      <4>3. b <= a + height \/ N = firstLines[last] + 1
        BY <4>2
      <4> QED BY <4>1, <4>3
    <3> QED BY <1>6, <3>1, <3>2, <3>3
  <2> QED BY <2>1, <2>2
<1> QED BY <1>2, <1>3, <1>4, <1>5, <1>6, <1>7, <1>9

LEMMA TextIsPrinted == ASSUME TextInv PROVE TextPrinted
<1>1. ASSUME firstLines # <<>> PROVE PagesFit
  BY <1>1, PagesAre DEF PagesFit
<1>2. PagesFit
  BY <1>1 DEF PagesFit
<1> QED BY <1>2 DEF TextInv, TextPrinted

LEMMA TextInvInit == ASSUME InitText PROVE TextInv
<1>1. laid.lines \in Seq(Nat) /\ laid.height \in Nat
  BY DEF InitText
<1> QED BY <1>1 DEF InitText, TextInv, DrawnAsLaidOut

LEMMA BeginKeeps == ASSUME TextInv, begin_print PROVE TextInv'
<1>1. PICK lines \in Texts, height \in PageHeights :
        /\ laid' = [lines |-> lines, height |-> height]
        /\ firstLines' = paginate(lines, height)
  BY DEF begin_print
<1>2. lines \in Seq(Nat) /\ height \in Nat /\ laid'.lines = lines /\ laid'.height = height
  BY <1>1, TextAssumption
<1>3. PICK sum \in Nat : Filled([pages |-> paginate(lines, height), sum |-> sum], Len(lines), lines, height)
  BY <1>2, PaginateFills
<1>4. firstLines' # <<>>
  <2>1. Len(firstLines') \in Nat \ {0}
    BY <1>1, <1>3 DEF Filled
  <2> QED BY <2>1
<1>5. drawn' = {} /\ current_line' = 0
  BY DEF begin_print, TextInv
<1>6. DrawnAsLaidOut'
  BY <1>5 DEF DrawnAsLaidOut
<1>7. \E s \in Nat : Filled([pages |-> firstLines', sum |-> s], Len(laid'.lines), laid'.lines, laid'.height)
  BY <1>1, <1>2, <1>3
<1> QED BY <1>2, <1>4, <1>5, <1>6, <1>7 DEF TextInv

LEMMA DrawKeeps == ASSUME TextInv, draw_page PROVE TextInv'
<1>1. firstLines # <<>> /\ laid' = laid /\ firstLines' = firstLines
  BY DEF draw_page
<1>2. \A n : LinesOf(n)' = LinesOf(n)
  BY <1>1 DEF LinesOf, Past
<1>3. PICK n \in 0..Len(firstLines) :
        IF n >= Len(firstLines) THEN UNCHANGED <<current_line, drawn>>
        ELSE LET start_line == firstLines[n + 1]
                 passed == {l \in 0..Len(laid.lines) : From(start_line) <= l /\ l < end_line(n)}
             IN /\ drawn' = drawn \cup {<<n, {l \in passed : l >= start_line}>>}
                /\ current_line' = IF passed = {} THEN From(start_line) ELSE end_line(n)
  BY DEF draw_page
<1>4. CASE n >= Len(firstLines)
  <2>1. drawn' = drawn /\ current_line' = current_line
    BY <1>3, <1>4
  <2>2. DrawnAsLaidOut'
    BY <1>2, <2>1 DEF TextInv, DrawnAsLaidOut
  <2> QED BY <1>1, <2>1, <2>2 DEF TextInv
<1>5. CASE ~(n >= Len(firstLines))
  <2>1. n + 1 \in 1..Len(firstLines) /\ Len(firstLines) \in Nat /\ n \in Nat
    BY <1>1, <1>5, PagesAre
  <2>2. PICK start_line : start_line = firstLines[n + 1]
    OBVIOUS
  <2>3. start_line \in Nat /\ Past(n + 1) \in 0..Len(laid.lines)
    BY <1>1, <2>1, <2>2, PagesAre
  <2>4. end_line(n) = Past(n + 1)
    BY <2>1 DEF end_line, Past
  <2>5. From(start_line) \in Nat /\ From(start_line) <= start_line
    BY <2>3 DEF From, TextInv
  <2>6. PICK passed : passed = {l \in 0..Len(laid.lines) : From(start_line) <= l /\ l < end_line(n)}
    OBVIOUS
  <2>7. drawn' = drawn \cup {<<n, {l \in passed : l >= start_line}>>}
    BY <1>3, <1>5, <2>2, <2>6
  <2>8. {l \in passed : l >= start_line} = LinesOf(n)
    <3>1. PICK N \in Nat : N = Len(laid.lines)
      BY DEF TextInv
    <3>2. PICK e \in 0..N : e = Past(n + 1)
      BY <2>3, <3>1
    <3>3. PICK f \in Nat : f = From(start_line) /\ f <= start_line
      BY <2>5
    <3>4. passed = {l \in 0..N : f <= l /\ l < e}
      BY <2>4, <2>6, <3>1, <3>2, <3>3
    <3>5. LinesOf(n) = {l \in 0..(N - 1) : start_line <= l /\ l < e}
      BY <2>2, <3>1, <3>2 DEF LinesOf
    <3>6. \A l \in 0..N : l < e /\ l >= start_line => l \in 0..(N - 1) /\ f <= l
      BY <2>3, <3>3
    <3>7. \A l \in 0..(N - 1) : start_line <= l /\ l < e => l \in 0..N /\ f <= l /\ l >= start_line
      BY <2>3, <3>3
    <3> QED BY <3>4, <3>5, <3>6, <3>7
  <2>9. DrawnAsLaidOut'
    <3>1. ASSUME NEW d \in drawn' PROVE d[2] = LinesOf(d[1])
      <4>1. CASE d \in drawn
        BY <4>1 DEF TextInv, DrawnAsLaidOut
      <4>2. CASE d = <<n, LinesOf(n)>>
        BY <4>2
      <4> QED BY <2>7, <2>8, <4>1, <4>2
    <3> QED BY <1>2, <3>1 DEF DrawnAsLaidOut
  <2>10. current_line' \in Nat
    <3>1. current_line' = IF passed = {} THEN From(start_line) ELSE end_line(n)
      BY <1>3, <1>5, <2>2, <2>6
    <3>2. Past(n + 1) \in Nat
      BY <2>3
    <3> QED BY <2>4, <2>5, <3>1, <3>2
  <2> QED BY <1>1, <2>9, <2>10 DEF TextInv
<1> QED BY <1>4, <1>5

(* TextPrinted, for any text, however high its lines, and any page: every   *)
(* line is on one page, on the one where it belongs, whatever pages the     *)
(* print system asks for and in what order (paginate(), draw_page_impl()).  *)
THEOREM EveryLineIsPrinted == SpecText => []TextPrinted
<1>1. InitText => TextInv
  BY TextInvInit
<1>2. TextInv /\ [NextText]_textVars => TextInv'
  <2>1. ASSUME TextInv, UNCHANGED textVars PROVE TextInv'
    <3>1. \A n : LinesOf(n)' = LinesOf(n)
      BY <2>1 DEF textVars, LinesOf, Past
    <3>2. DrawnAsLaidOut'
      BY <2>1, <3>1 DEF textVars, TextInv, DrawnAsLaidOut
    <3> QED BY <2>1, <3>2 DEF textVars, TextInv
  <2> QED BY <2>1, BeginKeeps, DrawKeeps DEF NextText
<1>3. TextInv => TextPrinted
  BY TextIsPrinted
<1> QED BY <1>1, <1>2, <1>3, PTL DEF SpecText

================================================================================
