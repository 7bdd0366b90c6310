------------------------------ MODULE SendForm ------------------------------
(***************************************************************************)
(* The entries of the main window from which a fax is sent (sendfax_slot() *)
(* and its neighbours in mainwindow.cpp), the dialogs that announce a print *)
(* job received on the socket (SocketNotifyDialog), and the prompts that   *)
(* sendfax_slot() runs in an event loop of its own, during which print     *)
(* jobs arrive and faxes end.  The controller is reduced to what the form  *)
(* asks of it: whether it takes a fax, and that the fax ends.              *)
(*                                                                         *)
(* An entry holds "" or one of a few values; the entry for the file also   *)
(* the label of a print job, which stands for "*** PRINT JOB: n ***".  The *)
(* button and the menu item that open the list of print jobs are never     *)
(* sensitive, and the button for the socket files is never created, so     *)
(* that a job enters the form from its announcement only (or by a user who *)
(* types a label, which is left out).                                      *)
(***************************************************************************)
EXTENDS Naturals, Sequences, SequencesExt

CONSTANTS
  Jobs,        \* the print jobs received on the socket
  Numbers,     \* what the user enters as a number, "" among them
  Passwords,   \* what the user enters as a password, "" among them
  TypedFiles,  \* what the user types as a file, "" among them
  Wide,        \* what the codeset of the locale cannot express
  MaxNotices   \* bound: announcements open at a time

ASSUME FormAssumption ==
  /\ Jobs \cap (TypedFiles \cup {""}) = {}
  /\ MaxNotices \in Nat

VARIABLES
  config,    \* prog_config.sock_popup and whether there is a file and a device
  form,      \* the entries of the main window
  selected,  \* selected_socket_list_file
  notified,  \* notified_fax, "" when its second member is 0
  notices,   \* the SocketNotifyDialogs that are open, by age
  over,      \* the modal dialog that is open over the main window
  wanted,    \* what the user who is being prompted has asked for
  service,   \* the state of the controller
  sending,   \* what is being sent
  waiting,   \* the print jobs in the list of the server
  arrived,   \* the print jobs that have come
  passfile,  \* the file that the password is written to
  sent       \* history: the last fax accepted, and what was asked for

formVars == <<config, form, selected, notified, notices, over, wanted, service,
              sending, waiting, arrived, passfile, sent>>

NoFax == [file |-> "", number |-> "", socket |-> FALSE]
NothingSent == [fax |-> NoFax, wanted |-> NoFax]

\* The controller takes a fax: EfaxController::sendfax_impl().  It is also when
\* fax_to_send_dialog() announces a job.
Free == service \in {"inactive", "standby"}

-----------------------------------------------------------------------------
(* The slots that fill the form.                                           *)

set_files_slot(f, file) == [f EXCEPT !.file = file]

set_number_slot_Bug(f, number) == IF number = "" THEN f ELSE [f EXCEPT !.number = number]
set_number_slot(f, number) == [f EXCEPT !.number = number]

\* The announcement of a job, when the window is free for it.
fax_to_send_dialog(job, sensitive, ns) ==
  IF config.popup /\ sensitive /\ Free
  THEN /\ Len(ns) < MaxNotices
       /\ notified' = job
       /\ notices' = Append(ns, [job |-> job, number |-> ""])
  ELSE notified' = notified /\ notices' = ns

-----------------------------------------------------------------------------
(* sendfax_slot(), in which f and file are the form and the selected job,  *)
(* and want is what the user who called it has asked for.                  *)

\* What the window shows to the user who presses its Send button.
Asks ==
  [file |-> form.file, number |-> form.number, socket |-> form.file \in Jobs]

\* The fax that is put together after the prompts: nothing is sent when the
\* names cannot be converted, there is no file, or no configuration.
Fax(f, file) ==
  [file |-> IF f.file \in Jobs THEN file ELSE f.file, number |-> f.number,
   socket |-> f.file \in Jobs]

Sends(f) == f.file \notin Wide \cup {""} /\ config.found /\ Free

Ask(f, file, want) ==
  IF Sends(f)
  THEN /\ sending' = Fax(f, file)
       /\ sent' = [fax |-> Fax(f, file), wanted |-> want]
       /\ service' = IF service = "inactive" THEN "sending" ELSE "send_on_standby"
  ELSE UNCHANGED <<sending, sent, service>>

\* The password: the prompt for it leads nowhere, whatever the answer.  It is
\* written to the file before the controller is asked.
Password(f, file, want) ==
  IF f.pass = ""
  THEN /\ over' = "password"
       /\ UNCHANGED <<notified, service, sending, passfile, sent>>
  ELSE /\ passfile' = f.pass
       /\ over' = "none"
       /\ IF f.number \in Wide
          THEN UNCHANGED <<notified, service, sending, sent>>
          ELSE notified' = "" /\ Ask(f, file, want)

sendfax_slot(f, file, want) ==
  /\ form' = f /\ selected' = file
  /\ IF f.number = ""
     THEN /\ over' = "number" /\ wanted' = want
          /\ UNCHANGED <<notified, service, sending, passfile, sent>>
     ELSE Password(f, file, want) /\ wanted' = NoFax

\* The user presses Send in the main window.
Send ==
  /\ over = "none"
  /\ sendfax_slot(form, selected, Asks)
  /\ UNCHANGED <<config, notices, waiting, arrived>>

\* ... or in an announcement: fax_name_sig, fax_number_sig and sendfax_sig.
SendNotified(n) ==
  /\ over = "none" /\ n \in 1..Len(notices)
  /\ sendfax_slot(set_number_slot(set_files_slot(form, notices[n].job), notices[n].number),
                  notices[n].job,
                  [file |-> notices[n].job, number |-> notices[n].number, socket |-> TRUE])
  /\ notices' = RemoveAt(notices, n)
  /\ UNCHANGED <<config, waiting, arrived>>

\* "Do you want to send the fax on an open connection?"  The form and the
\* selected job are read again after the answer.
ConfirmNoNumber ==
  /\ over = "number"
  /\ Password(form, selected, wanted)
  /\ wanted' = NoFax
  /\ UNCHANGED <<config, form, selected, notices, waiting, arrived>>

RefuseNoNumber ==
  /\ over = "number"
  /\ over' = "none" /\ wanted' = NoFax
  /\ IF notified = "" THEN UNCHANGED <<form, selected, notified, notices>>
     ELSE /\ form' = set_files_slot(form, "")
          /\ selected' = ""
          /\ fax_to_send_dialog(notified, TRUE, notices)
  /\ UNCHANGED <<config, service, sending, waiting, arrived, passfile, sent>>

AnswerPassword ==
  /\ over = "password"
  /\ over' = "none"
  /\ UNCHANGED <<config, form, selected, notified, notices, wanted, service, sending, waiting,
                 arrived, passfile, sent>>

-----------------------------------------------------------------------------
(* The rest of the window.                                                 *)

\* The user types, or get_file_impl() enters the page that was scanned.
Type(field, value) ==
  /\ over = "none"
  /\ form[field] # value
  /\ form' = [form EXCEPT ![field] = value]
  /\ UNCHANGED <<config, selected, notified, notices, over, wanted, service, sending, waiting,
                 arrived, passfile, sent>>

\* set_file_items_sensitive_impl()
FileButton ==
  /\ over = "none"
  /\ selected' = "" /\ form' = set_files_slot(form, "")
  /\ UNCHANGED <<config, notified, notices, over, wanted, service, sending, waiting, arrived,
                 passfile, sent>>

\* A modal dialog: the address book, which may enter a number.
OpenDialog ==
  /\ over = "none"
  /\ over' = "dialog"
  /\ UNCHANGED <<config, form, selected, notified, notices, wanted, service, sending, waiting,
                 arrived, passfile, sent>>

CloseDialog(number) ==
  /\ over = "dialog"
  /\ over' = "none"
  /\ form' = IF number = "" THEN form ELSE set_number_slot(form, number)
  /\ UNCHANGED <<config, selected, notified, notices, wanted, service, sending, waiting, arrived,
                 passfile, sent>>

\* The number of an announcement, typed or from the address book.
EnterNumber(n, number) ==
  /\ over = "none" /\ n \in 1..Len(notices)
  /\ notices[n].number # number
  /\ notices' = [notices EXCEPT ![n].number = number]
  /\ UNCHANGED <<config, form, selected, notified, over, wanted, service, sending, waiting,
                 arrived, passfile, sent>>

\* "Queue fax", or the announcement is closed.
Queue(n) ==
  /\ over = "none" /\ n \in 1..Len(notices)
  /\ notices' = RemoveAt(notices, n)
  /\ UNCHANGED <<config, form, selected, notified, over, wanted, service, sending, waiting,
                 arrived, passfile, sent>>

\* receive_impl(): the password is written whatever the controller is doing.
Receive(mode) ==
  /\ over = "none" /\ config.found
  /\ IF form.pass = "" THEN over' = "password" /\ UNCHANGED <<service, passfile>>
     ELSE /\ passfile' = form.pass /\ over' = over
          /\ service' = IF service = "inactive" THEN mode ELSE service
  /\ UNCHANGED <<config, form, selected, notified, notices, wanted, sending, waiting, arrived, sent>>

-----------------------------------------------------------------------------
(* What happens by itself, whatever dialog is open.                        *)

\* fax_to_send_notify_slot()
JobArrives(job) ==
  /\ job \notin arrived
  /\ arrived' = arrived \cup {job} /\ waiting' = waiting \cup {job}
  /\ fax_to_send_dialog(job, over = "none", notices)
  /\ UNCHANGED <<config, form, selected, over, wanted, service, sending, passfile, sent>>

\* remove_from_socket_server_filelist(), of a print job that has been sent.
remove_from_socket_server_filelist(file) ==
  /\ waiting' = waiting \ {file}
  /\ IF file = selected THEN selected' = "" /\ form' = set_files_slot(form, "")
     ELSE UNCHANGED <<selected, form>>

SendEnds(success) ==
  /\ service \in {"sending", "send_on_standby"}
  /\ success => ~sending.socket \/ sending.file \in waiting
  /\ service' = IF service = "sending" THEN "inactive" ELSE "standby"
  /\ sending' = NoFax
  /\ IF success /\ sending.socket THEN remove_from_socket_server_filelist(sending.file)
     ELSE UNCHANGED <<waiting, selected, form>>
  /\ UNCHANGED <<config, notified, notices, over, wanted, arrived, passfile, sent>>

\* A call comes in while the program stands by; it ends, or Stop is pressed.
ServiceChanges ==
  /\ \/ service = "standby" /\ service' \in {"receiving", "inactive"}
     \/ service = "receiving" /\ service' \in {"standby", "inactive"}
     \/ service = "answering" /\ service' = "inactive"
  /\ UNCHANGED <<config, form, selected, notified, notices, over, wanted, sending, waiting,
                 arrived, passfile, sent>>

-----------------------------------------------------------------------------
InitForm ==
  /\ config \in [popup : BOOLEAN, found : BOOLEAN]
  /\ form = [file |-> "", number |-> "", pass |-> ""]
  /\ selected = "" /\ notified = "" /\ notices = <<>>
  /\ over = "none" /\ wanted = NoFax
  /\ service = "inactive" /\ sending = NoFax
  /\ waiting = {} /\ arrived = {}
  /\ passfile = "" /\ sent = NothingSent

NextForm ==
  \/ Send \/ ConfirmNoNumber \/ RefuseNoNumber \/ AnswerPassword
  \/ \E n \in 1..MaxNotices : SendNotified(n) \/ Queue(n)
  \/ \E n \in 1..MaxNotices, number \in Numbers : EnterNumber(n, number)
  \/ \E value \in TypedFiles : Type("file", value)
  \/ \E value \in Numbers : Type("number", value) \/ CloseDialog(value)
  \/ \E value \in Passwords : Type("pass", value)
  \/ FileButton \/ OpenDialog
  \/ \E mode \in {"standby", "answering"} : Receive(mode)
  \/ \E job \in Jobs : JobArrives(job)
  \/ \E success \in BOOLEAN : SendEnds(success)
  \/ ServiceChanges

SpecForm == InitForm /\ [][NextForm]_formVars

-----------------------------------------------------------------------------
(* The fax that the controller is given is the one that the user asked for *)
(* when Send was pressed, in the window or in the announcement of a job,   *)
(* to the number that was shown there: whatever happens while the question *)
(* about the missing number is open (the fax before it ends and clears the *)
(* form, other jobs arrive), and although the job, its label and the       *)
(* number are kept in three places that change one by one.                 *)
AskedIsDialled == sent.fax = sent.wanted

=============================================================================
