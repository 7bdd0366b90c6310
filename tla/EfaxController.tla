---------------------------- MODULE EfaxController ----------------------------
(***************************************************************************)
(* The fax session controller, src/efax_controller.cpp: one object of the  *)
(* GUI thread that converts a job to fax pages in a worker thread, runs    *)
(* the efax program as a child process to send or to receive, reaps it     *)
(* from a 200 ms timer, and takes the user's Send, Receive, Stop and Quit. *)
(*                                                                         *)
(* Each handler of the GUI thread is one action.  The worker thread and    *)
(* the child run concurrently with it; the worker reports through a        *)
(* Notifier, whose pipe the GUI thread reads later, and a semaphore.       *)
(* Faults names what the environment may do wrong in a behaviour.          *)
(*                                                                         *)
(* An operator whose name ends in _Bug is a fault seeded in the operator   *)
(* that follows it; no action uses it.  It shows that a property would     *)
(* notice the mistake.                                                     *)
(***************************************************************************)
EXTENDS Naturals, Sequences, FiniteSets

CONSTANTS Items,        \* the jobs the user may send
          SocketItems,  \* those that are print jobs queued by the socket server
          NFiles,       \* the number of files of each job
          NoItem,       \* last_fax_item_sent before the first send
          Faults,       \* the environment failures a behaviour may meet
          MaxCalls      \* bound: faxes that arrive over the telephone line

FaultKinds == {"thread",    \* a worker thread cannot be started
               "convert",   \* a file is missing, unreadable or not PostScript
               "mkdir",     \* faxin/current cannot be made
               "save",      \* a fax cannot be moved to its own directory
               "crash"}     \* power failure: everything but the disk is lost

ASSUME JobsAssumption == /\ SocketItems \subseteq Items
                         /\ NFiles \in [Items -> Nat \ {0}]
                         /\ NoItem \notin Items
ASSUME BoundsAssumption == /\ Faults \subseteq FaultKinds
                           /\ MaxCalls \in Nat

VARIABLES
  phase,       \* "run": gtk_main runs; "quit": it was told to end; "down": no process
  state,       \* EfaxController::state
  closeDown,   \* close_down: a quit waits for the session to end
  shown,       \* the state last written by display_state()
  lastItem,    \* last_fax_item_sent
  parms,       \* the page files in sendfax_parms_vec
  worker,      \* the thread running make_fax_thread()
  sem,         \* fax_made_sem
  inbox,       \* this controller's emissions in the Notifier pipe
  child,       \* the efax process whose pid is efax_controller_child_pid
  io,          \* stdout_pipe and its iowatch
  populating,  \* FaxListManager::populate_fax_list() is in gtk_main_iteration()
  current,     \* the directory faxin/current
  inbound,     \* history: faxes whose data has reached the disk
  faxin,       \* faxes moved whole to a directory of their own
  scrap,       \* whether such a directory holds an empty or part fax
  rxCount,     \* received_fax_count
  pages,       \* page files left beside the files of jobs by ghostscript
  archived,    \* jobs copied to a directory under faxsent
  delivered,   \* history: jobs all of whose files an efax sent, with exit code 0
  removed      \* print jobs the socket server was told to remove

session == <<phase, closeDown, populating>>
work    == <<worker, sem, inbox, parms>>
inDisk  == <<current, inbound, faxin, scrap, rxCount>>
outDisk == <<pages, archived, delivered, removed>>
control == <<state, shown, lastItem, child, io>>
vars == <<session, work, inDisk, outDisk, control>>

SendStates == {"start_send_on_standby", "send_on_standby", "sending"}
Converting == {"sending", "send_on_standby"}
ReceiveModes == {"receive_answer", "receive_takeover", "receive_standby"}
States == {"inactive"} \cup SendStates \cup ReceiveModes

\* Exit codes of efax: 0 success, 3 protocol error, 5 for any other, a signal included.
ExitCodes == {0, 3, 5}

FilesOf(i) == {i} \X (1..NFiles[i])
Files == UNION {FilesOf(i) : i \in Items}
Pages == [file : Files, fresh : BOOLEAN]

Children == [pc : {"none", "running", "zombie"}, code : ExitCodes, args : Seq(Pages)]
NoChild == [pc |-> "none", code |-> 0, args |-> <<>>]
Running(args) == [pc |-> "running", code |-> 0, args |-> args]
Receives(c) == c.args = <<>>

\* The argument vector holds the files of job i, each once and in order.
Carries(args, i) == /\ Len(args) = NFiles[i]
                    /\ \A k \in 1..Len(args) : args[k].file = <<i, k>>

Init ==
  /\ phase = "run" /\ closeDown = FALSE /\ populating = FALSE
  /\ worker = "none" /\ sem = 0 /\ inbox = <<>> /\ parms = <<>>
  /\ current = "none" /\ inbound = 0 /\ faxin = 0 /\ scrap = FALSE /\ rxCount = 0
  /\ pages = {} /\ archived = {} /\ delivered = {} /\ removed = {}
  /\ state = "inactive" /\ shown = "inactive" /\ lastItem = NoItem
  /\ child = NoChild /\ io = "closed"

----------------------------------------------------------------------------
(* Steps that several handlers share *)

\* unjoin_child() or stdout_pipe.close(), state = inactive and display_state().
GoInactive == /\ state' = "inactive" /\ shown' = "inactive"
              /\ child' = NoChild /\ io' = "closed"

\* A directory that is already there is taken as if it were new.
ReceiveFrom_Bug(cur, mode) ==
  /\ current' = "empty"
  /\ state' = mode /\ shown' = mode
  /\ child' = Running(<<>>) /\ io' = "watched"

\* receive() called in state inactive, with faxin/current as cur; it calls
\* display_state() only when mkdir() has made the directory.
ReceiveFrom(cur, mode) ==
  \/ /\ cur = "none"
     /\ current' = "empty"
     /\ state' = mode /\ shown' = mode
     /\ child' = Running(<<>>) /\ io' = "watched"
  \/ /\ cur # "none" \/ "mkdir" \in Faults
     /\ current' = cur
     /\ state' = "inactive" /\ shown' = shown
     /\ child' = NoChild /\ io' = "closed"

\* sendfax_impl() from the opening of the pipe on: the worker thread is started.
StartConversion(s) ==
  /\ parms' = <<>>
  /\ \/ /\ state' = s /\ shown' = s /\ io' = "open"
        /\ worker' = "convert"
     \/ /\ "thread" \in Faults
        /\ state' = "inactive" /\ shown' = "inactive" /\ io' = "closed"
        /\ worker' = worker
  /\ UNCHANGED <<sem, inbox>>

\* A call is answered: efax creates current.001, then writes to it.
CallProceeds ==
  /\ child.pc = "running" /\ Receives(child)
  /\ \/ current = "empty" /\ current' = "zero" /\ inbound' = inbound
     \/ /\ current = "zero" /\ inbound < MaxCalls
        /\ current' = "fax" /\ inbound' = inbound + 1

\* SIGTERM, a second's grace in which the call may still proceed, SIGKILL.
KillChild ==
  IF child.pc = "running"
  THEN /\ \E code \in ExitCodes : child' = [child EXCEPT !.pc = "zombie", !.code = code]
       /\ CallProceeds \/ UNCHANGED <<current, inbound>>
  ELSE UNCHANGED <<child, current, inbound>>

\* What receive_cleanup() can leave: current, what it added to faxin, and
\* whether it counted and notified a fax.  When the fax has no directory
\* of its own nothing moves; when a link fails the part fax is notified.
CleanupOutcomes ==
  CASE current = "fax" ->
         {[current |-> "none", full |-> 1, scrap |-> FALSE, notified |-> 1]}
         \cup IF "save" \in Faults
              THEN {[current |-> "fax", full |-> 0, scrap |-> FALSE, notified |-> 0],
                    [current |-> "fax", full |-> 0, scrap |-> TRUE,  notified |-> 1]}
              ELSE {}
    [] OTHER ->
         {[current |-> "none", full |-> 0, scrap |-> FALSE, notified |-> 0]}

Store(o) == /\ faxin' = faxin + o.full
            /\ scrap' = (scrap \/ o.scrap)
            /\ rxCount' = rxCount + o.notified
            /\ UNCHANGED inbound

\* Only the pages of the first file.
UnlinkPages_Bug(i) == pages' = pages \ {<<i, 1>>}

\* cleanup_fax_send_fail(): unlink the pages of every file of the job.
UnlinkPages(i) == pages' = pages \ FilesOf(i)

\* save_sent_fax(): copy each page to faxsent and unlink it.  Without a
\* directory nothing is copied; a page that cannot be copied stays.
SaveSent(i) ==
  \/ /\ archived' = archived \cup {i}
     /\ UnlinkPages(i)
  \/ /\ "save" \in Faults
     /\ UNCHANGED <<archived, pages>>
  \/ /\ "save" \in Faults
     /\ archived' = archived \cup {i}
     /\ \E left \in SUBSET FilesOf(i) : pages' = pages \ left

----------------------------------------------------------------------------
(* The user, through MainWindow *)

\* EfaxController::is_receiving_fax(): current.001 exists.
IsReceivingFax == current \in {"zero", "fax"}

\* A print job that was sent is gone; it can be named again only by a
\* notification dialog left open, and then its file does not exist.
Offered(i) == i \notin removed \/ "convert" \in Faults

SendOnStandby(i) ==
  /\ phase = "run" /\ Offered(i)
  /\ state = "receive_standby"
  /\ ~IsReceivingFax
  /\ lastItem' = i
  /\ state' = "start_send_on_standby"
  /\ KillChild
  /\ UNCHANGED <<phase, closeDown, populating, shown, io, work, faxin, scrap, rxCount,
                 outDisk>>

\* A second job is taken while one is sent.
MayConvert_Bug == state \in {"inactive", "sending"}

\* The condition of sendfax_impl() on the state, when the user sends.
MayConvert == state = "inactive"

SendNow(i) ==
  /\ phase = "run" /\ Offered(i)
  /\ MayConvert
  /\ StartConversion("sending")
  /\ UNCHANGED child
  /\ lastItem' = i
  /\ UNCHANGED <<phase, closeDown, populating, inDisk, outDisk>>

Receive(mode) ==
  /\ phase = "run"
  /\ state = "inactive"
  /\ ReceiveFrom(current, mode)
  /\ UNCHANGED <<phase, closeDown, populating, lastItem, work, inbound, faxin, scrap,
                 rxCount, outDisk>>

Stop ==
  /\ phase = "run"
  /\ state # "inactive"
  /\ KillChild
  /\ UNCHANGED <<phase, closeDown, populating, state, shown, lastItem, io, work, faxin,
                 scrap, rxCount, outDisk>>

MayQuit == state = "inactive"

\* close_impl(): a quit, by the window, the menu, the tray or a signal.
EfaxClosedown ==
  /\ phase = "run"
  /\ \/ /\ MayQuit
        /\ phase' = "quit"
        /\ UNCHANGED <<closeDown, child, current, inbound>>
     \/ /\ ~MayQuit /\ ~closeDown
        /\ closeDown' = TRUE
        /\ KillChild
        /\ UNCHANGED phase
  /\ UNCHANGED <<populating, state, shown, lastItem, io, work, faxin, scrap, rxCount,
                 outDisk>>

\* The received fax list resets the count, and with it the display.
ResetCount ==
  /\ phase = "run"
  /\ rxCount' = 0
  /\ shown' = state
  /\ UNCHANGED <<session, work, current, inbound, faxin, scrap, outDisk, state, lastItem,
                 child, io>>

\* FaxListManager::populate_fax_list() runs the main loop while it reads a directory.
Populate ==
  /\ phase = "run"
  /\ populating' = ~populating
  /\ UNCHANGED <<phase, closeDown, work, inDisk, outDisk, control>>

----------------------------------------------------------------------------
(* make_fax_thread(), and the two slots it notifies *)

\* The post is forgotten; the wait takes the semaphore twice.
Post_Bug == sem' = sem

\* fax_made_sem.post() and fax_made_sem.wait().
Post == sem' = sem + 1
Wait == sem > 0 /\ sem' = sem - 1

\* One file: gs makes its pages, or makes none.  Pages an earlier job left
\* beside the file are found by the same search for <file>.001, .002 ...
ConvertFile ==
  /\ worker = "convert" /\ Len(parms) < NFiles[lastItem]
  /\ LET f == <<lastItem, Len(parms) + 1>> IN
     /\ \/ /\ lastItem \notin removed
           /\ pages' = pages \cup {f}
           /\ \E fresh \in BOOLEAN :
                /\ f \notin pages => fresh
                /\ parms' = Append(parms, [file |-> f, fresh |-> fresh])
           /\ UNCHANGED <<worker, sem>>
        \/ /\ "convert" \in Faults
           /\ f \in pages /\ lastItem \notin removed
           /\ parms' = Append(parms, [file |-> f, fresh |-> FALSE])
           /\ UNCHANGED <<worker, sem, pages>>
        \/ /\ "convert" \in Faults
           /\ f \notin pages \/ lastItem \in removed
           /\ Post
           /\ worker' = "failed"
           /\ UNCHANGED <<parms, pages>>
  /\ UNCHANGED <<session, inbox, inDisk, archived, delivered, removed, control>>

AllConverted ==
  /\ worker = "convert" /\ Len(parms) = NFiles[lastItem]
  /\ Post
  /\ worker' = "made"
  /\ UNCHANGED <<session, inbox, parms, inDisk, outDisk, control>>

\* The Notifier is emitted after the semaphore is posted, and the thread ends.
WorkerNotifies ==
  /\ worker \in {"made", "failed"}
  /\ inbox' = Append(inbox, IF worker = "made" THEN "fax_made" ELSE "no_fax_made")
  /\ worker' = "none"
  /\ UNCHANGED <<session, sem, parms, inDisk, outDisk, control>>

\* sendfax_slot(): wait on the semaphore, fork efax, join_child().
FaxMadeSlot ==
  /\ phase = "run"
  /\ inbox # <<>> /\ Head(inbox) = "fax_made"
  /\ Wait
  /\ inbox' = Tail(inbox)
  /\ child' = Running(parms)
  /\ io' = "watched"
  /\ UNCHANGED <<session, worker, parms, inDisk, outDisk, state, shown, lastItem>>

NoFaxMadeSlot ==
  /\ phase = "run"
  /\ inbox # <<>> /\ Head(inbox) = "no_fax_made"
  /\ Wait
  /\ inbox' = Tail(inbox)
  /\ UnlinkPages(lastItem)
  /\ IF state = "send_on_standby"
     THEN ReceiveFrom(current, "receive_standby")
     ELSE GoInactive /\ UNCHANGED current
  /\ UNCHANGED <<phase, closeDown, populating, worker, parms, inbound, faxin, scrap,
                 rxCount, archived, delivered, removed, lastItem>>

----------------------------------------------------------------------------
(* timer_event(): reap the child, and go on as the state says *)

\* The guard on the lists is missing.
TimerMayAct_Bug == TRUE

\* The timer does nothing while a fax list is being built.
TimerMayAct == ~populating

Reaps == phase = "run" /\ TimerMayAct /\ child.pc = "zombie"

\* The last statement of timer_event().
QuitIfDue == phase' = IF closeDown /\ state' = "inactive" THEN "quit" ELSE phase

\* Standby is left after a failed send; standby is resumed in spite of a quit.
StandbyAfterSendFailed_Bug == state = "send_on_standby" /\ ~closeDown /\ child.code = 0
StandbyAfterSendClosing_Bug == state = "send_on_standby"

\* Whether the end of the child puts the program (back) on standby.
StandbyAfterSend == state = "send_on_standby" /\ ~closeDown
StandbyAfterReceive == state = "receive_standby" /\ child.code \in {0, 3} /\ ~closeDown

\* The job is taken off the socket server's list whatever efax returned.
SettleJob_Bug ==
  /\ UnlinkPages(lastItem)
  /\ removed' = IF lastItem \in SocketItems THEN removed \cup {lastItem} ELSE removed
  /\ delivered' = IF child.code = 0
                  THEN delivered \cup {i \in Items : Carries(child.args, i)}
                  ELSE delivered
  /\ UNCHANGED archived

\* What the end of the efax that was sending does with the job's pages.
SettleJob ==
  IF child.code = 0
  THEN /\ SaveSent(lastItem)
       /\ removed' = IF lastItem \in SocketItems THEN removed \cup {lastItem} ELSE removed
       /\ delivered' = delivered \cup {i \in Items : Carries(child.args, i)}
  ELSE UnlinkPages(lastItem) /\ UNCHANGED <<archived, removed, delivered>>

ReapSend ==
  /\ Reaps
  /\ state \in Converting
  /\ SettleJob
  /\ IF StandbyAfterSend
     THEN ReceiveFrom(current, "receive_standby")
     ELSE GoInactive /\ UNCHANGED current
  /\ QuitIfDue
  /\ UNCHANGED <<closeDown, populating, lastItem, work, inbound, faxin, scrap, rxCount>>

\* receive_cleanup(), then sendfax_impl() with in_timer_event set.
ReapStartSend ==
  /\ Reaps
  /\ state = "start_send_on_standby"
  /\ \E o \in CleanupOutcomes : current' = o.current /\ Store(o)
  /\ IF ~closeDown
     THEN StartConversion("send_on_standby") /\ child' = NoChild
     ELSE GoInactive /\ UNCHANGED work
  /\ QuitIfDue
  /\ UNCHANGED <<closeDown, populating, lastItem, outDisk>>

ReapReceive ==
  /\ Reaps
  /\ state \in ReceiveModes
  /\ \E o \in CleanupOutcomes :
       /\ Store(o)
       /\ IF StandbyAfterReceive
          THEN ReceiveFrom(o.current, "receive_standby")
          ELSE GoInactive /\ current' = o.current
  /\ QuitIfDue
  /\ UNCHANGED <<closeDown, populating, lastItem, work, outDisk>>

----------------------------------------------------------------------------
(* The efax process, as the controller sees it *)

Call == /\ CallProceeds
        /\ UNCHANGED <<session, work, faxin, scrap, rxCount, outDisk, control>>

EfaxExits ==
  /\ child.pc = "running"
  /\ \E code \in ExitCodes : child' = [child EXCEPT !.pc = "zombie", !.code = code]
  /\ UNCHANGED <<session, work, inDisk, outDisk, state, shown, lastItem, io>>

----------------------------------------------------------------------------
(* The end of the process and its next start, src/main.cpp *)

\* clean_up_receive_dir(): whatever current holds gets a directory, an empty
\* current.001 too; a failure leaves current as it is.
CleanUpReceiveDir ==
  \/ /\ faxin' = IF current = "fax" THEN faxin + 1 ELSE faxin
     /\ scrap' = (scrap \/ current = "zero")
     /\ current' = "none"
  \/ /\ "save" \in Faults /\ current \in {"zero", "fax"}
     /\ scrap' \in {scrap, TRUE}
     /\ UNCHANGED <<faxin, current>>

\* The process ends: what it held in memory, its threads and efax go with it.
ProcessGone ==
  /\ phase' = "down"
  /\ closeDown' = FALSE /\ populating' = FALSE
  /\ worker' = "none" /\ sem' = 0 /\ inbox' = <<>> /\ parms' = <<>>
  /\ state' = "inactive" /\ shown' = "inactive" /\ lastItem' = NoItem
  /\ child' = NoChild /\ io' = "closed" /\ rxCount' = 0
  /\ UNCHANGED <<inbound, outDisk>>

\* gtk_main() has returned; atexit_cleanup() kills the process group.
Exit == phase = "quit" /\ CleanUpReceiveDir /\ ProcessGone

Crash == /\ "crash" \in Faults
         /\ phase # "down"
         /\ ProcessGone
         /\ UNCHANGED <<current, faxin, scrap>>

Start == /\ phase = "down"
         /\ phase' = "run"
         /\ CleanUpReceiveDir
         /\ UNCHANGED <<closeDown, populating, work, inbound, rxCount, outDisk,
                        control>>

----------------------------------------------------------------------------
User == \/ \E i \in Items : SendOnStandby(i) \/ SendNow(i)
        \/ \E mode \in ReceiveModes : Receive(mode)
        \/ Stop \/ EfaxClosedown \/ ResetCount

Worker == ConvertFile \/ AllConverted \/ WorkerNotifies
Slots == FaxMadeSlot \/ NoFaxMadeSlot
Timer == ReapSend \/ ReapStartSend \/ ReapReceive
Next == User \/ Populate \/ Worker \/ Slots \/ Timer \/ Call \/ EfaxExits
        \/ Exit \/ Crash \/ Start

Spec == Init /\ [][Next]_vars

\* efax gives up on a call it makes or has answered; on standby with no call
\* it waits for ever, so nothing makes it end then.
CallEnds == EfaxExits /\ (state # "receive_standby" \/ IsReceivingFax)

\* The threads run, the main loop serves its sources and leaves a list it
\* builds, efax ends its calls, and gtk_main() returns once told to.
Fairness == /\ WF_vars(Worker)
            /\ WF_vars(Slots)
            /\ SF_vars(Timer)
            /\ WF_vars(CallEnds)
            /\ WF_vars(Populate /\ populating)
            /\ WF_vars(Exit)

FairSpec == Spec /\ Fairness

----------------------------------------------------------------------------
TypeOK ==
  /\ phase \in {"run", "quit", "down"}
  /\ closeDown \in BOOLEAN /\ populating \in BOOLEAN
  /\ state \in States /\ shown \in States
  /\ lastItem \in Items \cup {NoItem}
  /\ child \in Children
  /\ io \in {"closed", "open", "watched"}
  /\ worker \in {"none", "convert", "made", "failed"}
  /\ sem \in Nat
  /\ inbox \in Seq({"fax_made", "no_fax_made"})
  /\ parms \in Seq(Pages)
  /\ current \in {"none", "empty", "zero", "fax"}
  /\ inbound \in Nat /\ faxin \in Nat /\ rxCount \in Nat
  /\ scrap \in BOOLEAN
  /\ pages \subseteq Files
  /\ archived \subseteq Items /\ delivered \subseteq Items /\ removed \subseteq Items

(* Safety.  A session has one driver at a time: the worker, its            *)
(* notification, or the child.  None is left when the state is inactive,   *)
(* so no state waits for something that will not come, and sendfax() and   *)
(* receive() never start a second session beside a first.                  *)
OneDriver ==
  /\ state = "inactive" => worker = "none" /\ inbox = <<>> /\ child.pc = "none"
  /\ state \in Converting =>
       \/ worker # "none" /\ inbox = <<>> /\ child.pc = "none"
       \/ worker = "none" /\ Len(inbox) = 1 /\ child.pc = "none"
       \/ worker = "none" /\ inbox = <<>> /\ child.pc # "none" /\ ~Receives(child)
  /\ state \in ReceiveModes \cup {"start_send_on_standby"} =>
       worker = "none" /\ inbox = <<>> /\ child.pc # "none" /\ Receives(child)

(* The slots' wait on fax_made_sem "cannot actually block" (the comments   *)
(* in no_fax_made_slot() and sendfax_slot()): the worker posts before it   *)
(* notifies, and nothing is left in the semaphore for a later job.         *)
SemBalanced == sem = Len(inbox) + (IF worker \in {"made", "failed"} THEN 1 ELSE 0)

(* stdout_pipe is open while a session runs, and its iowatch is there      *)
(* exactly while there is a child for unjoin_child() to take it from.      *)
IOMatches == /\ io = "closed" <=> state = "inactive"
             /\ io = "watched" <=> child.pc # "none"

(* An efax that sends carries every file of last_fax_item_sent, in order,  *)
(* though a thread made the list without a lock and the job is settled     *)
(* from last_fax_item_sent when that efax ends.                            *)
SendsTheJob == child.pc # "none" /\ ~Receives(child) => Carries(child.args, lastItem)

(* No page of an earlier job goes out with a later one.                    *)
SendsFreshPages == child.pc # "none" => \A k \in 1..Len(child.args) : child.args[k].fresh

(* A print job leaves the socket server's queue only once an efax that     *)
(* carried all of it has ended with success.                               *)
RemovedAreDelivered == removed \subseteq delivered \cap SocketItems

(* Every fax that arrived is in a directory of its own or still in         *)
(* faxin/current, whatever was stopped, failed to save, or crashed: the    *)
(* mkdir() of receive() never lets a second fax into a current in use.     *)
FaxesConserved == inbound = faxin + (IF current = "fax" THEN 1 ELSE 0)

(* faxin/current exists only while a session receives, so the next         *)
(* receive() can make it.                                                  *)
CurrentIsFree ==
  phase = "run" /\ current # "none" => child.pc # "none" /\ Receives(child)

(* Outside a conversion and a send no job has page files beside it.        *)
NoStrayPages == phase = "run" /\ state \notin Converting => pages = {}

(* The status line shows the state, but for the moment in which the        *)
(* standby efax is ended to send.                                          *)
ShowsState == state # "start_send_on_standby" => shown = state

(* gtk_main() is told to end only when there is nothing left to end.       *)
QuitsWhenDone ==
  phase = "quit" => state = "inactive" /\ worker = "none" /\ inbox = <<>> /\ child.pc = "none"

(* A session is one and whole: it has its driver, its semaphore is in      *)
(* balance, and none outlives the main loop.                               *)
SessionsSound == TypeOK /\ OneDriver /\ SemBalanced /\ QuitsWhenDone

(* Action properties.  While make_fax_thread() runs nothing else writes    *)
(* last_fax_item_sent, and sendfax_parms_vec only grows: its comments say  *)
(* no mutex is needed for either.                                          *)
WorkerUndisturbed ==
  [][worker # "none" /\ worker' # "none" =>
       lastItem' = lastItem /\ SubSeq(parms', 1, Len(parms)) = parms]_vars

(* While a fax list is being built no fax is added to the lists.           *)
ListUndisturbed ==
  [][populating /\ phase' # "down" => archived' = archived /\ faxin' = faxin]_vars

(* The two readers without a lock, the worker and the building of a list,  *)
(* see nothing change under them.                                          *)
ReadersUndisturbed == WorkerUndisturbed /\ ListUndisturbed

(* A send that took the program off standby puts it back, unless it is to  *)
(* close (README, "the program will return to receive standby mode").      *)
StandbyResumed ==
  [][/\ state \in {"start_send_on_standby", "send_on_standby"}
     /\ phase' = "run" /\ ~closeDown
     => state' \in {"start_send_on_standby", "send_on_standby", "receive_standby"}]_vars

(* A session that ends, whichever way, leaves nothing that a later one     *)
(* would trip over: no faxin/current, no page files, no watch of a pipe.   *)
NothingLeftBehind == CurrentIsFree /\ NoStrayPages /\ SendsFreshPages /\ IOMatches

(* Standby is gone back to, and the status line says so.                   *)
StandbyKept == []ShowsState /\ StandbyResumed

(* The controller implements FaxService: one modem, one job at a time,     *)
(* each dialled at most once and delivered only if it was dialled.         *)
Service == INSTANCE FaxService WITH
  job     <- IF state \in SendStates THEN lastItem ELSE NoItem,
  dialled <- child.pc # "none" /\ ~Receives(child),
  modem   <- IF child.pc # "running" THEN "free" ELSE IF Receives(child) THEN "rx" ELSE "tx",
  ledger  <- delivered

ImplementsService == Service!Spec

----------------------------------------------------------------------------
(* Liveness.  A job is sent or given up.                                   *)
SendsEnd == state \in SendStates ~> state \notin SendStates

(* A quit ends the main loop once the session has been dealt with (the     *)
(* comment in close_impl()); no_fax_made_slot() forgets it.                *)
QuitCompletes == closeDown ~> phase # "run"

(* A quit that waits ends the main loop once an efax has ended, whichever   *)
(* branch of timer_event() reaps it, and no list keeps the timer from it.  *)
QuitFollowsChild == closeDown /\ child.pc = "zombie" ~> phase # "run"

============================================================================
