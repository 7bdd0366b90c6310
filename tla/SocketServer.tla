----------------------------- MODULE SocketServer -----------------------------
(***************************************************************************)
(* The socket server for print jobs, src/socket_server.cpp, with the part  *)
(* of MainWindow that starts, stops and listens to it.  Two threads share  *)
(* it: the server thread accepts a connection, copies the job to a         *)
(* temporary file, queues it and hands it to the GUI thread; the GUI       *)
(* thread runs its slots, removes jobs, and stops and starts the server.   *)
(*                                                                         *)
(* The server thread cannot be cancelled but in accept().  It tells the    *)
(* GUI thread of things through Notifier objects, whose emissions go into  *)
(* one pipe; it hands over a text line and a job in two one-place buffers, *)
(* each with a mutex and a condition to wait on while the place is taken.  *)
(* A critical section without a wait or a write to disk in it is one step. *)
(*                                                                         *)
(* An operator whose name ends in _Bug is a fault seeded in the operator   *)
(* that follows it; no action uses it.                                     *)
(***************************************************************************)
EXTENDS Naturals, Sequences

CONSTANTS Jobs,      \* the print jobs that clients send, each a temporary file
          NoJob,
          Ports,
          NoPort,    \* the empty string as a port
          Configs,   \* what the user may choose in the settings dialog
          MaxCount,  \* the number after which job numbers start again (9999)
          MaxPending,\* bound: emissions in the pipe when the user changes a setting
          Acts,      \* what the user does in a behaviour
          Faults     \* what the environment does wrong in a behaviour

Listening == [port : Ports \cup {NoPort}, other : BOOLEAN]
AllConfigs == [on : BOOLEAN, listen : Listening]
ActKinds == {"settings", "remove", "exit"}
FaultKinds == {"thread",  \* a thread cannot be started
               "bind",    \* the socket cannot be made, bound or listened on
               "accept",  \* accept() fails
               "disk",    \* no temporary file can be made
               "client",  \* a client breaks off
               "crash"}   \* power failure

ASSUME NamesAssumption == NoJob \notin Jobs /\ NoPort \notin Ports
ASSUME ChoicesAssumption == /\ Configs \subseteq AllConfigs /\ Configs # {}
                            /\ MaxCount \in Nat \ {0} /\ MaxPending \in Nat
                            /\ Acts \subseteq ActKinds
                            /\ Faults \subseteq FaultKinds

VARIABLES
  gui,        \* where the GUI thread is
  after,      \* what the GUI thread does when join() returns
  config,     \* prog_config.sock_server, .sock_server_port, .other_sock_client_address
  running,    \* server_running
  listen,     \* port and other_sock_client_address of the server
  fd,         \* serve_sock_fd
  thread,     \* where the server thread is; "none" when socket_thread_h is null
  cancelled,  \* pthread_cancel() was called on it
  asleep,     \* it sleeps in stdout_cond or fax_to_send_cond
  job,        \* the job whose connection it handles
  clients,    \* jobs whose client has not been accepted yet
  open,       \* jobs whose connection the server has accepted and not closed
  text,       \* stdout_text is not empty
  faxToSend,  \* fax_to_send; empty when its number is 0
  inbox,      \* this server's emissions in the Notifier pipe
  filenames,  \* filenames_s
  count,
  draft,      \* what the GUI thread has in the buffer of a list it saves
  saved,      \* the file .efax-gtk_queued_server_files
  files,      \* the temporary files that exist
  rows,       \* the list as the GUI last displayed it
  received,   \* history: jobs queued by this process
  announced   \* history: jobs the GUI thread took from fax_to_send

settings == <<config, running, listen>>
server   == <<fd, thread, cancelled, asleep, job, clients, open>>
buffers  == <<text, faxToSend, inbox>>
queue    == <<filenames, count, rows>>
disk     == <<draft, saved, files>>
history  == <<received, announced>>
vars == <<gui, after, settings, server, buffers, queue, disk, history>>

Numbered == [job : Jobs, number : 1..MaxCount]
NoFax == [job |-> NoJob, number |-> 0]
Lists == [jobs : Seq(Numbered), count : 0..MaxCount]
NoList == [jobs |-> <<>>, count |-> 0]

\* No process; the settings file says what config says.
Init ==
  /\ gui = "down" /\ after = "none"
  /\ config \in Configs /\ running = FALSE
  /\ listen = [port |-> NoPort, other |-> FALSE]
  /\ fd = "closed" /\ thread = "none" /\ cancelled = FALSE /\ asleep = FALSE
  /\ job = NoJob /\ clients = Jobs /\ open = {}
  /\ text = FALSE /\ faxToSend = NoFax /\ inbox = <<>>
  /\ filenames = <<>> /\ count = 0 /\ rows = <<>>
  /\ draft = NoList /\ saved = NoList /\ files = {}
  /\ received = <<>> /\ announced = <<>>

----------------------------------------------------------------------------
(* The server thread *)

\* filenames_mutex is held by add_file() until the list has been saved.
FilenamesLocked == thread = "save"

SetupFails ==
  /\ thread = "setup" /\ "bind" \in Faults
  /\ fd' \in {"closed", "open"}
  /\ inbox' = Append(inbox, "error")
  /\ thread' = "ended"
  /\ UNCHANGED <<gui, after, settings, cancelled, asleep, job, clients, open, text,
                 faxToSend, queue, disk, history>>

SetsUp ==
  /\ thread = "setup"
  /\ fd' = "open"
  /\ thread' = "greet"
  /\ UNCHANGED <<gui, after, settings, cancelled, asleep, job, clients, open, buffers,
                 queue, disk, history>>

\* The number is counted up to MaxCount, and then from 0 again.
NextCount_Bug == IF count < MaxCount THEN count + 1 ELSE 0

NextCount == IF count < MaxCount THEN count + 1 ELSE 1

\* An earlier message that was not written yet is overwritten.
TextFree_Bug == TRUE
TextFree == ~text

\* write_stdout_from_thread(), from socket_thread() and from read_socket(),
\* which counts the job next.
WritesStdout ==
  /\ thread \in {"greet", "report"} /\ ~asleep /\ TextFree
  /\ text' = TRUE
  /\ inbox' = Append(inbox, "stdout")
  /\ IF thread = "greet" THEN thread' = "accept" /\ count' = count
                         ELSE thread' = "add" /\ count' = NextCount
  /\ UNCHANGED <<gui, after, settings, fd, cancelled, asleep, job, clients, open,
                 faxToSend, filenames, rows, disk, history>>

\* An earlier job that was not taken yet is overwritten.
FaxFree_Bug == TRUE
FaxFree == faxToSend.number = 0

Sleeps ==
  /\ ~asleep
  /\ \/ thread \in {"greet", "report"} /\ ~TextFree
     \/ thread = "offer" /\ ~FaxFree
  /\ asleep' = TRUE
  /\ UNCHANGED <<gui, after, settings, fd, thread, cancelled, job, clients, open, buffers,
                 queue, disk, history>>

Accepts ==
  /\ thread = "accept" /\ ~cancelled
  /\ \E j \in clients : /\ job' = j
                        /\ clients' = clients \ {j}
                        /\ open' = open \cup {j}
  /\ thread' = "accepted"
  /\ UNCHANGED <<gui, after, settings, fd, cancelled, asleep, buffers, queue, disk, history>>

\* A cancellation point: accept(), and pthread_testcancel() before and after it.
IsCancelled ==
  /\ thread \in {"accept", "accepted"} /\ cancelled
  /\ thread' = "ended"
  /\ UNCHANGED <<gui, after, settings, fd, cancelled, asleep, job, clients, open, buffers,
                 queue, disk, history>>

\* accept_on_client() notifies and returns false, which ends the thread.
Fails == thread' = "ended" /\ inbox' = Append(inbox, "error")

AcceptFails ==
  /\ thread = "accept" /\ ~cancelled /\ "accept" \in Faults
  /\ Fails
  /\ UNCHANGED <<gui, after, settings, fd, cancelled, asleep, job, clients, open, text,
                 faxToSend, queue, disk, history>>

\* is_valid_peer() refuses the client, or mkstemp() fails, or makes the file.
TakesJob ==
  /\ thread = "accepted" /\ ~cancelled
  /\ \/ /\ thread' = "accept"
        /\ open' = open \ {job} /\ job' = NoJob
        /\ UNCHANGED <<inbox, files>>
     \/ /\ "disk" \in Faults
        /\ Fails
        /\ open' = open \ {job} /\ job' = NoJob
        /\ UNCHANGED files
     \/ /\ thread' = "read"
        /\ files' = files \cup {job}
        /\ UNCHANGED <<inbox, open, job>>
  /\ UNCHANGED <<gui, after, settings, fd, cancelled, asleep, clients, text, faxToSend,
                 queue, draft, saved, history>>

\* read_socket(): the client closes the connection, or it breaks.
Reads ==
  /\ thread = "read"
  /\ \/ /\ thread' = "report"
        /\ UNCHANGED <<open, job>>
     \/ /\ "client" \in Faults
        /\ thread' = "accept"
        /\ open' = open \ {job} /\ job' = NoJob
  /\ UNCHANGED <<gui, after, settings, fd, cancelled, asleep, clients, buffers, queue, disk,
                 history>>

\* add_file() up to the opening, and so the truncation, of the saved list.
AddsFile ==
  /\ thread = "add"
  /\ filenames' = Append(filenames, [job |-> job, number |-> count])
  /\ received' = Append(received, job)
  /\ saved' = NoList
  /\ thread' = "save"
  /\ UNCHANGED <<gui, after, settings, fd, cancelled, asleep, job, clients, open, buffers,
                 count, rows, draft, files, announced>>

\* A stream writes from the start of the file.  When the file has more lines
\* by then, the line written over is spoilt and those after it remain.
Overlay(list) ==
  LET rest == SubSeq(saved.jobs, Len(list.jobs) + 2, Len(saved.jobs)) IN
  [jobs  |-> list.jobs \o rest,
   count |-> IF Len(saved.jobs) > Len(list.jobs) THEN saved.count ELSE list.count]

SavesList == [jobs |-> filenames, count |-> count]

\* The rest of save_queued_faxes() in add_file().
SavesFile ==
  /\ thread = "save"
  /\ saved' = Overlay(SavesList)
  /\ thread' = "changed"
  /\ UNCHANGED <<gui, after, settings, fd, cancelled, asleep, job, clients, open, buffers,
                 queue, draft, files, history>>

\* The display is not told of the job.
EmitsChanged_Bug == inbox' = inbox
EmitsChanged == inbox' = Append(inbox, "changed")

NotifiesList ==
  /\ thread = "changed"
  /\ EmitsChanged
  /\ thread' = "offer"
  /\ UNCHANGED <<gui, after, settings, fd, cancelled, asleep, job, clients, open, text,
                 faxToSend, queue, disk, history>>

\* The end of read_socket(); accept_on_client() closes the connection.
OffersFax ==
  /\ thread = "offer" /\ ~asleep /\ FaxFree
  /\ faxToSend' = [job |-> job, number |-> count]
  /\ inbox' = Append(inbox, "fax")
  /\ open' = open \ {job} /\ job' = NoJob
  /\ thread' = "accept"
  /\ UNCHANGED <<gui, after, settings, fd, cancelled, asleep, clients, text, queue, disk,
                 history>>

----------------------------------------------------------------------------
(* Starting and stopping the server, in the GUI thread *)

StartServer(l) ==
  /\ listen' = l
  /\ \/ running' = TRUE /\ thread' = "setup"
     \/ "thread" \in Faults /\ running' = FALSE /\ thread' = "none"
  /\ cancelled' = FALSE /\ asleep' = FALSE
  /\ job' = NoJob
  /\ gui' = "loop" /\ after' = "none"

\* stop() of a server that is running: cancel(), then join() in cleanup().
StopServer(next) ==
  /\ cancelled' = TRUE
  /\ gui' = "join" /\ after' = next
  /\ UNCHANGED <<running, listen, thread, asleep, job>>

\* settings_changed_slot().
SettingsChanged ==
  /\ gui = "loop" /\ "settings" \in Acts /\ Len(inbox) <= MaxPending
  /\ \E c \in Configs :
       LET wanted == c.on /\ c.listen.port # NoPort IN
       /\ config' = c
       /\ \/ ~wanted /\ running /\ StopServer("none")
          \/ wanted /\ ~running /\ StartServer(c.listen)
          \/ /\ wanted = running /\ listen # c.listen
             /\ IF running THEN StopServer("start") ELSE StartServer(c.listen)
          \/ /\ wanted = running /\ listen = c.listen
             /\ UNCHANGED <<gui, after, running, listen, thread, cancelled, asleep, job>>
  /\ UNCHANGED <<fd, clients, open, buffers, queue, disk, history>>

CloseSocket == fd' = "closed"

\* cleanup() once join() has returned, and what the caller of stop() does next.
JoinReturns ==
  /\ gui = "join" /\ thread = "ended"
  /\ CloseSocket
  /\ CASE after = "start" -> StartServer(config.listen)
       [] OTHER -> /\ running' = FALSE /\ thread' = "none"
                   /\ gui' = IF after = "exit" THEN "quit" ELSE "loop"
                   /\ after' = "none"
                   /\ UNCHANGED <<listen, cancelled, asleep, job>>
  /\ UNCHANGED <<config, clients, open, buffers, queue, disk, history>>

\* close_impl(), when no fax session has to be dealt with first.
Close ==
  /\ gui = "loop" /\ "exit" \in Acts
  /\ IF running THEN StopServer("exit")
                ELSE /\ gui' = "quit"
                     /\ UNCHANGED <<after, running, listen, thread, cancelled, asleep, job>>
  /\ UNCHANGED <<config, fd, clients, open, buffers, queue, disk, history>>

----------------------------------------------------------------------------
(* The slots of the GUI thread *)

Takes(what) == gui = "loop" /\ inbox # <<>> /\ Head(inbox) = what /\ inbox' = Tail(inbox)

\* signal() wakes the thread up if it sleeps in that condition.
Signal(sleeping) == asleep' = (asleep /\ thread \notin sleeping)

\* write_stdout_dispatcher_slot().
StdoutSlot ==
  /\ Takes("stdout")
  /\ text' = FALSE
  /\ Signal({"greet", "report"})
  /\ UNCHANGED <<gui, after, settings, fd, thread, cancelled, job, clients, open, faxToSend,
                 queue, disk, history>>

\* socket_filelist_changed_notify_slot(); a list dialog is taken to be open.
ListSlot ==
  /\ Takes("changed") /\ ~FilenamesLocked
  /\ rows' = filenames
  /\ UNCHANGED <<gui, after, settings, server, text, faxToSend, filenames, count, disk,
                 history>>

\* fax_to_send_notify_slot(), with get_fax_to_send().
FaxSlot ==
  /\ Takes("fax")
  /\ announced' = Append(announced, faxToSend.job)
  /\ faxToSend' = NoFax
  /\ Signal({"offer"})
  /\ UNCHANGED <<gui, after, settings, fd, thread, cancelled, job, clients, open, text, queue,
                 disk, received>>

\* cleanup() called by socket_error_notify; a null socket_thread_h is used as
\* if there were a thread.
ErrorSlot ==
  /\ Takes("error")
  /\ gui' = IF thread = "none" THEN "fault" ELSE "join"
  /\ after' = "none"
  /\ UNCHANGED <<settings, server, text, faxToSend, queue, disk, history>>

\* remove_file(), by the user or for a job that was sent, up to unlink(): the
\* change is displayed at once as the slot runs in this thread.
RemoveFile ==
  /\ gui = "loop" /\ "remove" \in Acts /\ ~FilenamesLocked
  /\ \E k \in 1..Len(filenames) :
       /\ filenames' = SubSeq(filenames, 1, k - 1) \o SubSeq(filenames, k + 1, Len(filenames))
       /\ files' = files \ {filenames[k].job}
  /\ rows' = filenames'
  /\ gui' = "removed"
  /\ UNCHANGED <<after, settings, server, buffers, count, draft, saved, history>>

\* save_queued_faxes() in remove_file(): no mutex is held.
RemoveOpens ==
  /\ gui = "removed"
  /\ saved' = NoList
  /\ draft' = [jobs |-> filenames, count |-> count]
  /\ gui' = "saving"
  /\ UNCHANGED <<after, settings, server, buffers, queue, files, history>>

RemoveSaves ==
  /\ gui = "saving"
  /\ saved' = Overlay(draft)
  /\ draft' = NoList
  /\ gui' = "loop"
  /\ UNCHANGED <<after, settings, server, buffers, queue, files, history>>

----------------------------------------------------------------------------
(* The end of the process, and the next one *)

\* The loop of read_queued_faxes() over the lines of the list.
StillThere(list) ==
  LET kept[n \in 0..Len(list)] ==
        IF n = 0 THEN <<>>
        ELSE IF list[n].job \in files THEN Append(kept[n - 1], list[n]) ELSE kept[n - 1]
  IN kept[Len(list)]

ReadQueuedFaxesCount_Bug == [jobs |-> StillThere(saved.jobs), count |-> 0]

\* read_queued_faxes(): the jobs of the saved list whose file is there.
ReadQueuedFaxes == [jobs |-> StillThere(saved.jobs), count |-> saved.count]

\* What the threads held in memory is gone.
Ends ==
  /\ gui' = "down" /\ after' = "none"
  /\ running' = FALSE /\ fd' = "closed" /\ thread' = "none" /\ cancelled' = FALSE
  /\ asleep' = FALSE /\ job' = NoJob /\ open' = {}
  /\ text' = FALSE /\ faxToSend' = NoFax /\ inbox' = <<>>
  /\ filenames' = <<>> /\ count' = 0 /\ rows' = <<>> /\ draft' = NoList
  /\ received' = <<>> /\ announced' = <<>>
  /\ UNCHANGED <<config, listen, clients, saved, files>>

Exit == gui \in {"quit", "fault"} /\ Ends
Crash == "crash" \in Faults /\ gui # "down" /\ Ends

\* The constructor, and the start of the server by MainWindow's.  Without a
\* start other_sock_client_address is not initialised.
Boot ==
  /\ gui = "down"
  /\ filenames' = ReadQueuedFaxes.jobs /\ count' = ReadQueuedFaxes.count
  /\ rows' = filenames'
  /\ IF config.on /\ config.listen.port # NoPort
     THEN StartServer(config.listen)
     ELSE /\ listen' \in [port : {NoPort}, other : BOOLEAN]
          /\ gui' = "loop"
          /\ UNCHANGED <<after, running, thread, cancelled, asleep, job>>
  /\ UNCHANGED <<config, fd, clients, open, buffers, disk, history>>

----------------------------------------------------------------------------
Server == SetupFails \/ SetsUp \/ WritesStdout \/ Sleeps \/ Accepts \/ IsCancelled
          \/ AcceptFails \/ TakesJob \/ Reads \/ AddsFile \/ SavesFile \/ NotifiesList
          \/ OffersFax
Slots == StdoutSlot \/ ListSlot \/ FaxSlot \/ ErrorSlot
Gui == JoinReturns \/ RemoveOpens \/ RemoveSaves
User == SettingsChanged \/ Close \/ RemoveFile
Next == Server \/ Slots \/ Gui \/ User \/ Exit \/ Crash \/ Boot

Spec == Init /\ [][Next]_vars

\* The threads run, and a client whose connection was accepted closes it.
Fairness == WF_vars(Server) /\ WF_vars(Slots) /\ WF_vars(Gui)

FairSpec == Spec /\ Fairness
----------------------------------------------------------------------------
TypeOK ==
  /\ gui \in {"loop", "join", "removed", "saving", "quit", "fault", "down"}
  /\ after \in {"none", "start", "exit"}
  /\ config \in Configs /\ running \in BOOLEAN /\ listen \in Listening
  /\ fd \in {"closed", "open"}
  /\ thread \in {"none", "setup", "greet", "accept", "accepted", "read", "report", "add",
                "save", "changed", "offer", "ended"}
  /\ cancelled \in BOOLEAN /\ asleep \in BOOLEAN
  /\ job \in Jobs \cup {NoJob} /\ clients \subseteq Jobs /\ open \subseteq Jobs
  /\ text \in BOOLEAN /\ faxToSend \in Numbered \cup {NoFax}
  /\ inbox \in Seq({"stdout", "changed", "fax", "error"})
  /\ filenames \in Seq(Numbered) /\ count \in 0..MaxCount /\ rows \in Seq(Numbered)
  /\ draft \in Lists /\ saved \in Lists /\ files \subseteq Jobs
  /\ received \in Seq(Jobs) /\ announced \in Seq(Jobs)

Emitted(what) == {k \in 1..Len(inbox) : inbox[k] = what}
AtMostOne(S) == \A a, b \in S : a = b

(* Safety.  A place that is taken is notified exactly once, so no message  *)
(* or job is overwritten, shown twice, or left behind (the comments "to    *)
(* avoid overwriting an earlier message" and "an earlier fax to send       *)
(* entry").                                                                *)
PlacesNotified ==
  /\ text <=> Emitted("stdout") # {}
  /\ faxToSend # NoFax <=> Emitted("fax") # {}
  /\ AtMostOne(Emitted("stdout")) /\ AtMostOne(Emitted("fax"))

(* Each job that is queued is handed to the GUI thread once and in order:  *)
(* those announced, the one in fax_to_send, and the one the server thread  *)
(* still has make up what was received.                                    *)
HandedOverOnce ==
  received = announced
             \o (IF faxToSend # NoFax THEN <<faxToSend.job>> ELSE <<>>)
             \o (IF thread \in {"save", "changed", "offer"} THEN <<job>> ELSE <<>>)

(* The list on the screen is the list of jobs, unless a notification that  *)
(* will change it is on its way or about to be sent.                       *)
RowsCurrent ==
  rows = filenames \/ Emitted("changed") # {} \/ thread \in {"save", "changed"}

(* Each queued job has its temporary file, after a crash between unlink()  *)
(* and the saving of the list too.                                         *)
ListedFilesExist == \A k \in 1..Len(filenames) : filenames[k].job \in files

(* No two queued jobs have one number, also when some were queued by an    *)
(* earlier process; before MaxCount jobs have come, that is.               *)
UniqueNumbers ==
  \A a, b \in 1..Len(filenames) : filenames[a].number = filenames[b].number => a = b

(* The queue that is read back after a crash is one of jobs that can be     *)
(* printed and told apart.                                                 *)
QueueSound == ListedFilesExist /\ UniqueNumbers

(* With the GUI thread in its main loop, a server that does not run has no *)
(* thread and no open socket, whatever stopped it.                         *)
SocketClosed == gui = "loop" /\ ~running => fd = "closed" /\ thread = "none"

(* What other threads have changed is made good in the GUI thread: the     *)
(* list is shown as it is, and a server that ended is closed and joined.   *)
ServerSettled == RowsCurrent /\ SocketClosed

(* The saved list is the list of jobs while no thread is saving it.        *)
SavedIsQueue ==
  gui = "loop" /\ thread # "save" => saved = [jobs |-> filenames, count |-> saved.count]

(* Liveness.  Each job that is queued is announced.                        *)
JobsAnnounced ==
  \A j \in Jobs : (\E k \in 1..Len(received) : received[k] = j)
                   ~> (\E k \in 1..Len(announced) : announced[k] = j)

(* join() returns, so the GUI thread goes on.                              *)
GuiReturns == gui = "join" ~> gui # "join"

=============================================================================
