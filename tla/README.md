# A verification project for efax-gtk (Secure-eFax)

efax-gtk is a GTK+ front end for the `efax` program. It makes fax pages from
PostScript, runs efax as a child process to send and to receive, keeps what was
sent and received in directories, and runs a small server to which a print
system sends its jobs. This directory holds TLA+ models of the program and of
efax, the TLC configurations that check them, and proofs checked by TLAPS. All
paths below are relative to the repository.

## The system

| Component | State it keeps | Operations | Talks to |
|---|---|---|---|
| `EfaxController` (`src/efax_controller.cpp`) | the session state, `close_down`, the job being sent, the efax pid, a pipe and its watch, a semaphore; on disk `faxin/current` and the pages beside the job's files | send, receive, stop, close down; worker thread; two notified slots; the timer | efax by fork and wait, gs, `MainWindow` by signals, `SocketServer` when a print job was sent |
| `SocketServer` (`src/socket_server.cpp`) | the queue of jobs and its saved list, the server thread and socket, a one-place buffer for a line of text and one for a job | start, stop, cleanup, the thread's accept/read/add loop, remove a job | `MainWindow` through Notifiers |
| `MainWindow` (`src/mainwindow.cpp`) | what the user has chosen to send; the dialogs | dispatches signals between all the others | all |
| `FaxListManager`, `FaxListDialog` | the tree of folders and faxes, its saved paths | populate, move, delete, describe; printing and viewing threads | `EfaxController` (the timer must wait for it) |
| `SocketListDialog`, `SocketNotifyDialog` | the rows shown, the job a dialog is about | send, remove, view | `SocketServer`, `EfaxController` |
| `main.cpp` | the pid lock file, the FIFO to a running instance, configuration | start, single instance, clean-up at start and exit | all |
| `utils`: Notifier, Thread, Mutex, Cond, SemSync, AsyncQueue, pipes, reassembler, print managers | queues and locks | | all |
| efax (`efax/efax.c`, `efaxlib.c`, `efaxio.c`, `efaxos.c`) | the T.30 session, the capabilities agreed, page files, modem lock files | dial, answer, send and receive pages, negotiate; lock, lend and take back the modem | the modem; the controller by argv, files, stdout and exit code |
| efix (`efax/efix.c`, `hc128.h`) | the page that is being converted | read, scale, shift, overlay, write, encrypt | the fax lists, which print and view with it |
| settings (`src/settings.cpp`) | the fields of the dialog; the configuration file | edit, reset, accept, read in two ways | `main.cpp`, `MainWindow` |
| address book, logger, print managers | a list and its file; a log and its timer; the jobs of the print system | add, delete, move; open, mark, rename; paginate, print | `MainWindow`, `FaxListDialog` |
| file list, help, tray icon | lists and forms | | |
| `efax-gtk-faxfilter` | none | a client that sends a job to the socket | `SocketServer` |

What is hard here, and what makes each part correct:

* **EfaxController** — one GUI thread, a worker thread, a child process and a
  nested main loop interleave, and the meaning of each event depends on `state`.
  Correct means: one session at a time, whoever carries it on; the job that is
  settled is the job that was dialled; no wait in the GUI thread that can block;
  no received fax lost or written over; a page of an old job never in a new one;
  standby resumed and quits completed.
* **SocketServer** — two threads, two condition variables, a pipe read later,
  and a cancellation point. Correct means: each job handed over once and in
  order, no overwritten buffer, a saved list that is the queue, a socket closed
  whenever the server is stopped, a stop that returns.
* **Storage** (`save_received_fax()`, `clean_up_receive_dir()`, the folder tree)
  — crashes between file operations. Correct means: a fax is never lost, however
  often the program stops while it is moved.
* **efax** — timeouts, repeated commands, negotiation with an unknown peer, a
  modem that hangs up at any command, lock files shared with strangers.
  Correct means: both ends agree on rate and format, a page counts as sent only
  once confirmed, a success means that all is sent, a session ends, the modem is
  talked to only under its locks.
* **Pages** — run lengths cut, scaled, merged and encrypted at many limits.
  Correct means: the picture that arrives is the picture that was made.
* **MainWindow and the dialogs** — names of jobs that outlive the job, and
  questions that run the main loop. Correct means: what is dialled is what the
  user was asked about.
* **Settings, address book, log** — one fact kept in two places and in a file
  that is written anew. Correct means: the program runs with what was accepted,
  and what is not edited stays.
* **The start** — two starts at once over one lock file. Correct means: one
  program runs.

## Modules

| Module | What it is |
|---|---|
| `FaxService` | abstract specification: a modem, a job, at most one dialling of it at a time, a ledger of what was delivered |
| `EfaxController` | the controller; implements `FaxService` |
| `SocketServer` | the server, both threads, with the part of `MainWindow` that starts and stops it |
| `ReceivedFaxStore` | the moving of a received fax, file by file, with crashes |
| `T30Session` | a Class 1 session, both ends over a bad line |
| `EfaxCall` | one run of efax: modem set-up, dialling, answering, a Class 2 session |
| `ModemLocks` | several efax that share a modem through lock files |
| `RunLengths` | the operators on scan lines that the next two use |
| `Efix` | the conversion of pages |
| `FaxPage` | one page of data from one efax to another |
| `TextPrint` | text put on pages |
| `FaxFolders` | the folders of a fax list, in the dialog and on the disk |
| `FaxPrints` | printing and viewing faxes with threads and the print system |
| `SendForm` | the form from which faxes are sent, its questions and announcements |
| `AddressBook`, `LogFile`, `Settings` | the address book, the log, the settings |
| `Startup` | lock file, FIFO and end of the program |
| `MCEfaxController`, `MCSocketServer`, `MCReceivedFaxStore`, `MCT30Session` | instances for TLC |
| `MCModem` | instance of `EfaxCall` and `ModemLocks` |
| `MCFaxFiles` | instance of `Efix`, `FaxPage`, `TextPrint`, `FaxFolders`, `FaxPrints` |
| `MCDesktop`, `MCSettings` | instance of `SendForm`, `AddressBook`, `LogFile`, `Startup`, `Settings` |
| `EfaxControllerProofs`, `SocketServerProofs`, `T30SessionProofs` | theorems and proofs about the module of that name |
| `PageProofs` | those about `RunLengths`, `Efix` and `FaxPage` |
| `ModemProofs` | those about `EfaxCall` and `ModemLocks` |
| `DesktopProofs` | those about `Startup`, `SendForm`, `LogFile`, `AddressBook`, `Settings` and `TextPrint` |
| `FaxListProofs` | those about `FaxFolders`, `FaxPrints` and `ReceivedFaxStore` |
| `SequenceLemmas` | induction, recursion, and sequences joined and folded, for all of these |

The last three instances hold parts that share no state. A variable `part` is
chosen in the initial state, and a behaviour is one of that part alone; the
others stay as they start. They save runs and change nothing in a part.

How the models meet: `EfaxController` sees an efax as a child that makes or
answers a call and ends with a code; `EfaxCall` shows how that code comes about,
`T30Session` the session within it, `FaxPage` the data of one page of that, and
`ModemLocks` what goes on before and after. `ReceivedFaxStore` takes one step of
`EfaxController` apart, `FaxFolders` and `FaxPrints` take up its directories,
and `SendForm` and `SocketServer` are what asks it to send.

An operator whose name ends in `_Bug` is a mistake seeded in the operator that
follows it. No action uses it; put in the place of the other it breaks the
property named in `PROJECT.json`, which shows that the property looks where the
mistake is. `PROJECT.json` also maps every definition to the lines it stands
for.

### EfaxController

A handler of the GUI thread is one action, as the GTK+ main loop runs it to its
end. The exception is `populate_fax_list()`, which calls the main loop itself:
`Populate` opens and closes that window, in which every other handler may run.
The worker thread and efax have actions of their own.

| State | In the code |
|---|---|
| `phase` | `gtk_main()` runs; was told to end; the process is gone |
| `state`, `closeDown`, `lastItem` | `state`, `close_down`, `last_fax_item_sent` |
| `shown` | the state of the last `display_state()` |
| `parms` | `sendfax_parms_vec`, the page files only |
| `worker`, `sem`, `inbox` | the thread in `make_fax_thread()`, `fax_made_sem`, the emissions of `fax_made_notify` and `no_fax_made_notify` in the Notifier pipe |
| `child`, `io` | the efax of `efax_controller_child_pid` with its arguments and exit code; `stdout_pipe` and its watch |
| `current`, `faxin`, `scrap`, `rxCount` | `faxin/current`; the directories of received faxes; `received_fax_count` |
| `pages`, `archived`, `removed` | page files beside the jobs; `faxsent`; the print jobs given up to the server |
| `inbound`, `delivered` | history |

| Action | In the code |
|---|---|
| `SendNow`, `SendOnStandby` | `sendfax()` and `sendfax_impl()` by state |
| `Receive`, `Stop`, `EfaxClosedown`, `ResetCount` | `receive()`, `stop()`, `efax_closedown()`, `reset_count()` |
| `ConvertFile`, `AllConverted`, `WorkerNotifies` | `make_fax_thread()`: a file, the post, the emission |
| `FaxMadeSlot`, `NoFaxMadeSlot` | `sendfax_slot()`, `no_fax_made_slot()` |
| `ReapSend`, `ReapStartSend`, `ReapReceive` | the branches of `timer_event()`, with `save_sent_fax()`, `cleanup_fax_send_fail()`, `receive_cleanup()` and the `receive()` or `sendfax_impl()` each ends in |
| `Call`, `EfaxExits` | efax: a call is answered and brings data; efax ends |
| `Exit`, `Crash`, `Start` | the end of `gtk_main()` with the `atexit()` handler, a power failure, the next start |

`FaxService` promises what a caller relies on: the modem is used by one session,
a job is dialled only while it is the job, at most once until it is replaced or
given up, and delivered only if it was dialled. `Service` is its instance under
the refinement mapping at the end of `EfaxController`; run `faulty` checks it
and `ServiceImplemented` proves it.

### SocketServer

The GUI thread and the server thread interleave at every lock, wait, system
call and emission. `mutex` and the two conditions of the code are in the guards
of the waiting steps: a waiting thread goes on when the slot has emptied its
place, which is what the loop around the wait tests. Emissions go through one
pipe, first in first out, and a slot runs when the GUI thread reads it. `stop()`
cancels and joins; while it is in the join no slot runs. `SettingsChanged` is
`MainWindow::settings_changed_slot()`, the only caller of stop and start beside
the program's own start and exit; a job is removed by `RemoveFile`,
`RemoveOpens` and `RemoveSaves`, three steps because `save_queued_faxes()` runs
there without the lock.

Which step is which line is in `PROJECT.json`. History variables record the jobs
received, announced and refused, so that order and number can be stated.

### ReceivedFaxStore

`EfaxController` moves a received fax in one step; this module shows what the
step is made of. Each `mkdir`, `readdir` pass, `link`, `unlink` and `rmdir` is
an action, and a power failure may come between any two. `receive_cleanup()`
runs when efax has ended (`Cleanup`); `clean_up_receive_dir()` runs at a start
and in the `atexit()` handler (`CleanUpReceiveDir`), in the second case beside
an efax that has been sent SIGTERM and not ended, as nothing waits for it there.
The efax side (`AnswersCall` to `EfaxKilled`) is what `c1sndrcv()` and
`nextopage()` do to the files: open one, fill it, close it and open the next,
and remove the last when no page came for it.

### T30Session

Both ends are `c1sndrcv()`; which branch an end takes follows from what it has
to send. The labels the code jumps between are operators of the same names (`T`,
`D`, `I`, `R`, `F`, `C`, `B`), and an action is what happens between two points
at which an end listens.

| State | In the code |
|---|---|
| `st[e]` | the variables of `c1sndrcv()` at end `e`, its place, the files it has written (`files`) and what it counts as sent (`sent`) |
| `air[e]` | frames, training and page data that `e` has put on the line |
| `channel`, `faults` | the fastest rate the line carries; losses, damage and early timeouts so far |

`HearsInvitation` to `HearsNoPage` are the points at which a frame or a carrier
comes in, `TimesOut` a T1, T2 or T4 timer of an end to which nothing comes,
`TimesOutEarly` one that runs out before the answer, `Lose` and `Damage` the
line. `PeerAnswersOtherwise` lets the other end be another make of machine that
answers a page with RTN, RTP or PIN. `mincap()` is the function of the code over
its tables, with rates by their index; it settles the resolution too. What an end
announces in its DIS is what `-c` set (`Finest`) until `rdpage()` puts the
resolution of a page in its place, so a caller that has sent and then polls
announces that of its last page. A sender whose page is finer than the session
reduces it (`decimate` of `send_data()`). `asked` in a received page records what
the receiver had announced, to compare.

### EfaxCall

One action for each command to the modem, with what efax does with the response;
`s` is the variables of `main()` and `c2sndrcv()`. The modem answers as it
should (`Succeeds`), wrongly or not at all (`Fails`), or with `+FHNG` added
(`HangsUp`), and is then `gone`. `told` is the format it was last given, `heard`
the hang-up code in the last response. `s.onAir`, `s.confirmed` and `s.before`
are history: the page the modem sends, the pages the other end confirmed, the
last post-page message. In place of a Class 1 session there is any exit code.

### ModemLocks

Each process is one efax, at a place `pc` of `ttlock()`, `ttunlock()` or
`main()`, and at the lock file `i` of its list; `goal` says what it goes through
the list for: to lock, to lend (answering, while it waits for a ring), to lock
again, or to clean up. `Looks`, `RemovesStale`, `Renames`, `Closes`, `Unlocks`
are the system calls of `efaxos.c`; the others are the steps of `main()`, a
signal that runs `cleanup()` and a kill that does not. `missed` and `robbed` are
history: whose lock a process did not see when it looked, and who lost a lock to
it.

### RunLengths, Efix, FaxPage

`RunLengths` has the operators of `efaxlib.c` on a scan line: `bittorun()`,
`runtobit()`, `xpad()`, `xshift()`, `xscale()`, `xinvert()`, `runor()`,
`runtocode()` and its inverse. `ByteBits`, `MakeUp` and `MAXRUNLEN` stand for 8,
64 and 2623, so that small lines meet every limit. `Efix` is `main()` of
`efix.c` line by line (`EfixCopiesLine`), page by page and file by file; its
reference (`ShouldBe`) says of each pixel of the result which pixels it comes
from. `FaxPage` is `send_data()` on `tx`, the codes on the `wire`, and
`receive_data()` on `rx`; its reference is the picture with its header. The
exclusive or of a run and a byte of the keystream is a recursive function (`xor`)
on the low `ByteBits` bits.

### TextPrint, FaxFolders, FaxPrints

`TextPrint` is `paginate()` and `draw_page_impl()`, with an iterator that only
goes forward and a print system that asks for pages in any order.

`FaxFolders` has the tree while the dialog is open (`tree`), and the disk: a
`Path` of each fax (`paths`) and the `PathList` (`pathList`). The disk follows
the tree when the timer, a new folder or the closing of the dialog saves it.
`DiesSaving` is a crash within a save, `ListCrashes` one between saves.

`FaxPrints` has the detached threads of the dialog (`jobs`), the `AsyncQueue` of
managers, the managers with their reference counts, and the temporary files with
the pages in each. A thread finds the pages one `access()` at a time
(`FindsPages`), and the efix it starts opens them by name later (`Opens`,
`MakesPage`), while `delete_fax()` may unlink them one by one (`DeletesFax`,
`UnlinksPage`). `newIFILE()` looks into every file before the first page is made;
that is one with the opening of the pages here, as files only go: what it could
not open cannot be opened later. `cut` is history: something got lost other
than by a deletion, because the disk was full, or efix was killed or is not
installed.

### SendForm

`form` is the entries of the main window, `selected` and `notified` the two
other places that name a print job, `notices` the dialogs that announce one.
`over` is the dialog that runs its own main loop over the window: the question
about a missing number or about a password. While it is open jobs arrive
(`JobArrives`), the fax before it ends (`SendEnds`), settings and service
change. `sent` is history: the fax the controller was given and the one asked
for.

### AddressBook, LogFile, Settings, Startup

`AddressBook` and `LogFile` follow `addressbook.cpp` and `logger.cpp`, a method
an action, with text by what it can do: be empty, be plain, not be convertible.
`Settings` has each page of `settings.cpp` as a record of widgets with what they
first show and what Reset gives them, the two readers (`Shown`,
`configure_prog`), the writer (`Written`), a save that fails or dies. The
constants `LineNames`, `Values` and `AddressTexts` are what a line may set and the
classes of text, as proofs want them in sets. Each text setting names three
codesets (`Text`): that in which its line is written, that from which the dialog
shows it and that from which the program runs with it. `codesets` says what they
are, and is chosen at the start, as the environment is; glib's conversions are the
constants `Has`, `Encode` and `Decode`. A run
follows one group of settings at a time; they meet nowhere. `Startup` is the
lock file, the FIFO and the thread that reads it, by system call; `stage` is the
place in `main()`, and any process may die at any of them.

## Runs

Twelve runs, of which three show something the code does contrary to what it
says.

| Run | Shows | Instance |
|---|---|---|
| `nominal` | sessions leave nothing behind, the status line is right, standby is resumed, sends and quits end | 2 jobs, conversions may fail, 2 calls |
| `faulty` | one session at a time, the job settled is the job dialled, no fax lost, readers undisturbed, `FaxService` implemented | 2 jobs, every failure and power failures, 1 call |
| `quit` | *violated*: a quit during a conversion that fails does not end the main loop | conversions may fail |
| `server` | jobs handed over once and in order, buffers never overwritten, list on screen follows the queue, files and numbers of the queue, no socket left open | 3 jobs, 3 settings, every failure |
| `server_live` | every queued job is announced | 4 jobs and numbers up to 2, the user leaves the server alone, server failures |
| `server_stop` | *violated*: `stop()` joins a thread that waits for the GUI thread | on and off |
| `server_list` | *violated*: the saved list written by two threads at once | removals |
| `store` | no page lost, faxes neither mixed nor torn, each stored, and once if nothing fails | 2 faxes of up to 3 pages, 3 directories, every failure |
| `session` | pages sent are kept, in order, in their format, at the rate the other end listens at; a session ends | documents of 0 to 3 pages, 2 resolutions for either end, 2 modem speeds, 3 lines, 2 faults |
| `modem` | pages counted, announced and kept whatever the modem says; the modem used under its locks, waiters served | 4 sets of modem classes, 4 bad answers; 2 processes, 2 lock files of which one stale, a kill and a signal |
| `files` | pages come out as the picture they were, text is drawn once, folders are a tree and restored, temporary files go | all lines of 4 pixels; 3 levels of folders; 2 print jobs of a fax of 2 pages |
| `desktop` | what was asked is dialled, settings and addresses kept, a log is whole, one program runs | 2 jobs, 4 rows, 4 steps of the log, 3 starts, 11 groups of settings, 3 codesets |

Bounds are small but each is past the point at which something new can happen:

* two jobs, so that one can follow, replace or be mistaken for another; one of
  two files, so that a job can fail half way; two to four print jobs for two
  one-place buffers; a job-number limit of two or three in place of 9999, so
  that numbers come round;
* documents of three pages: a first, a middle and a last, with a change of
  format or without; two faults, so that a retry meets a second fault, and four
  bad answers, as many as `modemsync()` takes before it gives up;
* rates 3 and 5 with lines that carry every rate, at most rate 1, or none, so
  that the fallback goes past each and may run out; `Cuts` is off in the run:
  see the departures;
* UTF-8, ISO 8859-1 and ASCII, in five pairs for the locale and file names: with
  both alike, with either the narrower, and with one that lacks what is written;
* lines of four and six pixels with `MakeUp` 3 and `MAXRUNLEN` 11, so that runs
  of a makeup code, of several and of too many happen, and pages higher, lower
  and as high as asked, moved up, down and out of the page;
* two names of folders, one the beginning of the other, as paths are compared by
  prefix; one fax, as faxes meet only in a folder; one fault in a folder or
  print run, as a second is met with the same code;
* three starts: one that runs, one that finds it, one that finds what the others
  left.

`MaxPending` bounds the changes of settings that wait in the pipe, `MaxCalls`,
`MaxFaxes` and `MaxPages` the calls and pages, `MaxDraws` the pages asked for,
`MaxRows`, `MaxBookChanges`, `MaxLogSteps`, `MaxEdits`, `MaxSettingSteps` what a
user does. `Names` is finite: when it has run out `mkdir()` fails, as it does
for a time stamp that is taken. Deadlock is checked for the controller, the
store and the session. It is not for the others: the server really can stop (run
`server_stop`) and runs out of clients, and calls, conversions, print jobs,
edits and starts come to an end.

### Fairness

* The worker thread, the server thread, the slots and the return of
  `gtk_main()`: weak. Threads are scheduled, and the main loop serves a pipe
  that has something in it.
* `timer_event()`: strong. It comes every 200 ms but does nothing while a list
  is built; a list is built in finite time, and not without a pause for ever.
* efax: weak for a call it makes or has answered, which its own timeouts end. On
  standby with no call it waits for ever, and nothing is assumed.
* Clients of the socket close in the end. The code has no timeout of its own
  there.
* The steps of a move: weak. System calls return.
* `T30Session`: weak for each end's `Progress`, which is hearing what is on the
  line and the timers of the code. Losses are not fair; that the session ends
  rests on the timers and the counts of tries.
* `ModemLocks`: weak for the steps of a process. Strong for the opening of the
  device after waiting, as a device that is again and again free is opened once
  (`OpensAtLast`). A telephone that rings, signals and kills: none.
* The user, calls from outside, failures and crashes: none.

## Departures found

The three violated runs each check a sentence of the repository's own that the
code does not keep; `PROJECT.json` quotes it. Others were met while modelling
and have no run of their own; where a property would fail for one of them, the
property says so.

Controller and server:

* Stop on standby, or after a send from standby, resumes standby when efax ended
  with code 0 or 3 (`src/efax_controller.cpp:811`, against
  `src/mainwindow.cpp:1482` and `README:295`). A Stop during a conversion does
  not prevent the send (`src/efax_controller.cpp:732`).
* `receive()` does not call `display_state()` when `mkdir()` fails
  (`src/efax_controller.cpp:654`, against the comment at 796), and a worker
  thread that cannot be started for a send from standby leaves the program
  inactive (`src/efax_controller.cpp:189`, against `README:275`). `nominal`
  checks `StandbyKept` where both work.
* `stop()` while the error of the thread is in the pipe makes `cleanup()` run
  twice (`src/socket_server.cpp:298`, against the comment at 310). Settings
  accepted with the server's box unchecked can start it
  (`src/mainwindow.cpp:1520`, against `src/settings_help.cpp:168-169`). A
  cancellation acted on after `accept()` leaves the connection open
  (`src/socket_server.cpp:177`).

efax:

* With success efax may not have sent all (`efax/efax.c:1759-1761`, against the
  comment at 2663), and a document of mixed formats may lose pages to `rdpage()`
  (comment `efax/efax.c:638-650`): `OneFormatNotSkipped` is about documents of
  one. A page cut off by a lost carrier can be lost at the receiver although it
  is confirmed (`efax/efax.c:1135`); `Cuts` keeps such cuts out of the run.
* `receive_data()` never counts an error (`efax/efax.c:1057-1062`, against
  `efax/efax.1:189`). Resending has no limit in the session of which
  `efax/efax.1:162-163` speaks. Rates 6 and 7 go into a DCS as 2400. A local
  rate of 4 is indexed below its fallback, so training at it can repeat for ever
  (174-178). Two efax with nothing to send exchange DIS for long. PIP after the
  last page, and a poll where both have documents, end with 2.
* A failed `+FDIS`, `+FIS` or `+FDCC` is only logged (`efax/efax.c:2092`, 2592):
  the page goes out and the modem may have told the other end of the format
  before. `told` is then `Unknown`, and `PagesAnnounced` is about commands that
  succeed.
* After a hang-up the pages not sent are not named (comment
  `efax/efax.c:2622-2623`); a received file is not closed properly on a hang-up
  after `+FPTS=2`; code 0 in answer to `+FDIS` skips a page; code 0 before the
  last page ends with success, the exception of `SuccessMeansAllSent`.
* Two efax can both hold a lock: one looks, the other makes it, the first
  renames over it (`efax/efaxos.c:431`, against the comment at 394-396);
  `LocksHeld` names who was robbed, `RobbedOnlyInRace` how. A crash between
  rename and close leaves an empty lock that nobody removes (`Orphan`). A failed
  `ttyopen()` leaves lock files, a failed second locking some of them; lock
  files named in different orders can block two processes for ever. A signal
  while the modem is lent resets one that another uses.
* efix ignores errors of `newIFILE()` and ends with 0; heights that differ give
  wrong page headers (comment `efax/efaxlib.c:2055`; `HeadersMatch` is about
  equal heights); the last odd line is lost when lines are halved; a shift
  beyond the width gives a negative run; a line whose runs encrypt to nothing is
  taken for a part of the end of the page (`NoneVanishes` in `PageArrives`).

Lists and files:

* `is_valid_drop_path()` compares paths as strings, so a folder `A` cannot be
  moved into its neighbour `AB`. A crash within a save can give two
  folders one name or lose an empty one; a directory that cannot be deleted
  comes back; moves are not saved until the timer or the closing of the dialog.
* Closing the list while a detached thread uses its queue is undefined; so is a
  print dialog that comes up after the list was closed, whose parent window is
  gone (`file_print_manager.cpp:194`). A
  viewer may start on a file already removed; a temporary file stays when the
  program exits before the print system is done.
* A fax deleted after its pages were found (`fax_list.cpp:733`) and before efix
  has opened them is printed or viewed in part or not at all, without a word
  to the user; a full disk, or no efix to be found (`fax_list.cpp:1079`), has the
  same effect. `PrintsKept` says that nothing else has. A fax of more pages than
  `MAXPAGE` is cut too; the faxes of the model have no more.
* A first line higher than a page gives an empty first page.

Desktop:

* A `notified_fax` that a Send has used is not reset (comments
  `src/mainwindow.cpp:879-886` and 994). Passwords go to one file, rewritten
  while an earlier fax may still be converted (`src/mainwindow.cpp:1008`). A job
  that ends clears the number typed meanwhile.
* A row of the address book that could not be converted throws when it is saved,
  after the file was truncated (`src/addressbook.cpp:421`, against the comment
  at 410-412); the exception of `BookIsKept`.
* Spin buttons not set start at their lowest, not at the default
  (`src/settings.cpp:750`, against `efax-gtkrc:141-145`). A `#` in a value cuts it
  when it is read again, and text that cannot be converted loses its line. What is
  not ASCII comes back garbled, or not at all, where a setting is written in one
  codeset and read in another: `PRINT_CMD` and `PS_VIEWER` are written in that of
  file names and read in that of the locale (`src/settings.cpp:2532`, 2564;
  `src/main.cpp:497`, 509); `NUMBER`, `INIT`, `RESET`, `PARMS`, `CAPABILITIES` and
  `SOCK_OTHER_ADDRESSES` are written in UTF-8 and read in that of the locale, and
  so is `DEVICE` when its line is new (`src/settings.cpp:2658`). For
  `FAX_RECEIVED_PROG` the two readers take different codesets
  (`src/settings.cpp:2943`, `src/main.cpp:533`), so that the dialog shows another
  command than is run. An emptied field keeps what another key gave it. Reset
  takes the shared file as a template, and with it loses lines of one's own; it
  leaves three settings as they were. The two readers differ for `USE_GTKPRINT`
  other than yes and no, and for `RINGS` such as `05`. A failed save changes the
  template; a crash in one truncates the file.
* A log name that cannot be converted leaves the old log open and written no
  more, its timer running.
* A lock with a reader that does not read lets a second program start without
  one; two starts over a stale lock both start; both are named in `OneInstance`.

## Proofs

Proved by TLAPS for every number of jobs, files, faxes, pages, processes, lock
files, starts and documents and every set of failures, from the assumptions
named `...Assumption` beside the constants, which say only that sizes are
numbers, that a job has a file at least, that resolutions are 0 or 1, that null
values are not jobs or names, and the like. TLC evaluates them on every run.

**EfaxController.** None of the safety invariants is inductive alone. `Sessions`
is: types; `OneDriver`, which says who carries the session on in each state;
`JobNamed`, that a sending state names a job; `PagesInOrder`, that what the
worker has made so far, and then what it handed over, are the files of that job
in order. `OneDriver` is needed nearly everywhere, as it rules out the second
worker or child that would make the rest false. `SendsTheJob`, `QuitsWhenDone`,
the refinement and `ReadersUndisturbed` follow from it, the last with
`BuilderRuns`, that no list is built in a program that is down;
`FaxesConserved`, `SemBalanced` and `RemovedAreDelivered` each need one further
step lemma. `IOMatches` is kept by every step, whatever fails. The two properties
of sessions that end are true only without certain failures, and the theorems
say which: `NothingLeftBehind` where faxes can be saved (`DiskWorks`) and the
power stays on (`NoPowerFailure`), `StandbyKept` where directories and threads
can be made too (`SystemWorks`); conversions, programs and modems may still fail.
They need to know what is in use: `CurrentInUse`, that `faxin/current` is there
only while a receiving efax is; `PagesOfTheJob`, that page files are there only
for a conversion, and of its job; `FreshSoFar`, that every page handed over was
made for this job.

**SocketServer.** `Serving` is the inductive invariant. `Buffers`: a place is
taken exactly when one notification for it is in the pipe; `Idle`: a stopped
server has no thread, so that start never makes a second; `HandedOverOnce`: what
was announced, what is offered and what the thread holds make up what was
received; `RowsCurrent`: the rows are the queue or a refresh is under way.
`QueueKept` is that of the queue: what is listed, in memory, in the saved list or
in the list the GUI thread is about to save, has its file, and the thread saves
before it lets another job in, so that `FilesOfTheQueueExist` for any crashes.
`QueueSound` says also that no two jobs have one number, which is so until the
numbers come round; `QueueStaysSound` has it for up to `MaxCount` jobs
(`FewJobs`), by `NumbersRise`: in each list the numbers rise, and end at or
below the count, which is no more than the jobs that have come.

**ReceivedFaxStore.** `ReceivedInv` adds four parts to the properties. `Writing`: while
efax runs, its pages and no others are in `current`; `OnDisk`: one fax in
`current`, directories not yet made are empty; `Vacant`: a receive directory
that is missing holds nothing; `Moving`: while files are moved, `current` is the
whole list, or else the whole list is linked. The last is the point of the
code's two loops, all links before the first unlink, and the seeded fault that
merges them breaks `KeptTogether` at once.

**EfaxCall.** `CallInv` follows the page at hand. `PageAtHand`: while efax sends,
there is no error yet, and format and post-page message are those of the page;
`ModemTold`: the modem has the format of the page unless it is about to be told,
and what was said after the page on the line is true of the document; `Counted`:
the pages before the one at hand count as sent and no others, unless the line
went down with code 0; `FilesFilled`: only the file being written has no page;
`Fresh`: before the session nothing has happened. `Counted` carries over to the
exit code, which is why a success means that all is sent. A step lemma for each
action gives the invariant and both action properties at once.

**ModemLocks.** `LocksInv` says of each process where it may stand with which goal
(`PlacesAt`), which of its locks it has by then (`HoldingAt`), that the owner of
the lock it is about to replace is gone or came after the look (`WindowAt`),
that it leaves none behind it as it cleans up (`LeavingAt`), and that a file it
owns is one of its own, written unless it is just being written (`OwnedBy`).
`WindowAt` is the race: without `missed` there is no invariant, and with it the
race is all that can go wrong.

**Startup.** Whoever has created the lock file holds it through the start to the
end (`OneHolder`), where no gap was hit; a process not yet begun owns nothing.

**SendForm.** The label in the form names the selected job (`LabelIsSelected`),
and while a question is open the fax it is about is the one asked for, as a
modal question keeps the entries from the user (`QuestionStands`).

**LogFile.** A log that begins in a file ends before another begins. `LogInv` adds
that the open file alone is unfinished (`OneGoing`), and that file, timer and
name are there together (`LogAgrees`) from the making of the Logger to its end.

**AddressBook.** `BookInv`: what would be read from the file has the rows that
can be expressed of the list last shown (`kept`), and an open dialog has rows
with a selection among them. Each change of the list writes the file, so the
proof is that the reader undoes the writer. `ListComesBack` has it, for a list of
any length, by recursion along the joining of lines (`Flattened`, `Joins`): a row
gives one line, the line gives one row, and what can be expressed of it is as it
was, while a row that cannot be converted gives a line from which no such row
comes. `BookAssumption` says what texts there are, and that the user enters none
that only a file can hold.

**Settings.** The program runs with what the file it finds says (`Made`), and
`SettingsInv` adds what the file of the user says: of each setting the value last
accepted. For that the dialog must hold nothing a widget cannot show (`FieldSet`,
`Widgets`), whatever the file read into it holds (`IsRc`, kept by every save, also
one cut short). Then a save gives each setting one line, in its old place or at
the end, and no other line of it (`WrittenHas`, `WrittenReads`): that
`RunsAsAgreed` follows for any files. `SettingsKept` needs that the lines which
are not edited pass through in order (`OthersAre`), and `ShownRuns`: the dialog,
which sets a field at each line it meets and carries one result along them all,
ends with what `configure_prog()` makes of the last line that gives a value
(`ParsersAgree` has it for one value). It does so only where every line gives a
value that both know, which is what `Plain` says. Both ask, of a value that is not
ASCII, that it is converted from the codeset it is in: `Survives` that each
codeset its line may be written in is the one it is read in, and has it, `Plain`
that the two readers take one codeset. Without either clause the run finds the
case at once. `SettingsAssumption` says which values a widget can have and which
lines a file, `CodesetAssumption` that ASCII is the same in every codeset, that
what a codeset has is read from it as it was, and that UTF-8 has every text. That
a field is what its widget allows is by the constructor and the set functions.

**TextPrint.** `TextPrinted` follows from what `paginate()` keeps from line to line
(`Filled`): the sum of heights is how far the layout reaches below the first line
of the last page, and it exceeds the page only with one line. `PaginateFills` has
it for any text, by recursion along the lines; that drawing a page out of order
gives the same lines needs only that each page ends within the text.

**Efix.** `EfixTrue` has three parts. A closed page has the height it was to have
(`PagesAreFull`), its header says so (`HeadersMatch`), and each of its rows shows
the pixels it should (`PagesArePictures`). For the first two: `main()` counts
lines in three ways, of the input, of the output and of what scaling has left
over, while `writeline()` counts those of the page and `nextopage()` writes the
count into the header of the page before; the inductive invariant
(`PagesCounted`, `DoneAreFull`, `CountsInHeaders`) is that these agree, and that
no line is copied fewer than zero times, as the rows that the first lines reach
grow with their number (`RowsGrow`). The proof showed that an image must not be
moved down by more than the height of its page: then the page gets as many white
lines as that and, if another page follows, a header with another height. Both
parts say so, and the run has such a shift.

`PagesArePictures` is about pixels, and the code never has any: it works on
lengths of runs. `Draws(runs, w, B)` says that a line of runs has the width `w`
and the black pixels `B`, by where its runs end; each operator of `RunLengths`
has a lemma that says what it draws (`xscaleDraws`, `xshiftRight`, `xshiftLeft`,
`xpadWider`, `xpadNarrower`, `xinvertDraws`, `runorDraws`, `bittorunDraws`,
`PutRunDraws`). For `runor()`, which takes the shorter of two first runs from
both lines, the invariant of the loop is `Laid`: what is left of each line is
what lies right of the pixels that are done (`LeftOf`). `CodesDecode` has the
codes of a line read back as its runs. All of these are folds over sequences,
about which there is no induction: `FoldsAre` makes a fold the last value of a
recursive function, and `InductionTo` goes along it. Put together, what is
written for a line is what it should become (`CopiedLine`, `WhiteLine`). That it
is written to the right rows is the inductive invariant `PictureInv`: while a
page is copied, the row to be written is where the lines read so far reach,
shifted, or the page is full (`LineAtHand`). With `RowCopied` and `RowBelow`,
which say which line a row should show, `PicturesSoFar` follows.

The proof corrected the property twice. A line of a fax that is wider than the
longest run there are codes for is cut off by `runtocode()`, which is what
`RunsHaveCodes` excludes; a bitmap format has no such limit. And the black pixels
that a row may come from are all those of the line and of the overlay: the
overlay may be longer than the line and the page, and a small scale may bring
its end in. `EfixAssumption` leaves out lines without pixels (a bitmap of width
0, a line of a fax without a code), of which `xinvert()` makes a line without
runs.

**FaxPage.** `PageTrue` (`PagesArrive`) stands on the same lemmas: `PairShows` and `SentShows`
say that a line of the fax, of one source line or of two laid one over the other,
with the header and made as wide as the page, shows what its source lines show;
`encryptTwice` that decryption with the same words gives the runs back, which is
`xorTwice`, by recursion along the bits; `CodeIs` that the codes of a line are
read as its runs. How many lines there are is counted twice, by the sender as it
goes (`skip`, `last`) and by the reference (`Sources`): `LinesCount` and
`LinesExpected` are that these agree, and `Sending` is that the sender is in step
with them. The inductive invariant of the way (`PageInv`) then speaks of the whole
page as it is on the line after it was damaged: `d` lines and `e` EOLs of RTC
(`Whole`), where a lost EOL takes one of the `d` and a lost carrier takes either
the rest of the lines and all of RTC or some of RTC only; two lines read as one
are a line again (`LinesMerge`). What the receiver has read of it is by `ReadOf` as
many lines and as many empty ones as `DataRead` and `EmptyRead` say. So RTC
is found only if all of it is there, or if the page has no lines. That is why
`RTCEOL > 1` is assumed: the EOL before the first line counts as an empty one, and
an `RTCEOL` of 1 would end every page there.

The proof corrected the hypothesis `NoneVanishes`. It was about the runs of the
picture, and what is encrypted are the runs of the line that is sent, which may
have empty runs where one line was laid over another or made wider: runs that
encrypt to nothing may show a picture whose own runs do not, and the reverse. It
is now about the line that is sent (`SentLine`). The assumptions leave out lines without pixels, which
`readline()` may give, and an odd `HDRSTRT + HDRCHRH`, with which the last line of a
header on a page of low resolution would be lost; the code has 4 and 24.

**FaxFolders.** `FoldersInv` has three parts. `Follows`: the tree is a good one
(rows hang on rows or on the root, both permanent folders are there, a fax is in
one row), its faxes are on the disk, and it misses only deleted ones of those on
the disk. `NamesKept`: no two rows have one name and the validator has just these
names. `DiskSound`: the disk names no two folders with one name, and, when nothing
is unsaved, is read as this tree. The last two hold while no save was cut short
and no deleted directory stayed behind (`Intact`). There is a lemma for each
change of a tree; the long one is `MovesTree`, that a folder that is moved, with
all below it, stays apart from the rest and hangs on where it went, because the
new row is no row yet and, by `DropsAside`, `is_valid_drop_path()` compares path
names strictly enough that it is not below itself. `ReadsGoodTree` and `SavesDisk`
are about reading and writing and meet in `SavedFoldersAreRestored`: for any
depth of folders, what `write_path()` has written `populate_fax_list()` reads.

**FaxPrints.** A manager is in the queue once, or with one thread, or at work,
never in two of the first two (`MgrCounted`, `OneHolder`), so its count is a sum
of ones. `JobManaged` says what a thread has at each place, above all that the
manager it holds is idle until `print()`; `MgrFiled` and `JobFiled` tie a
manager and its file to one job. That the managers go to the threads in another
order than they were made does not matter, as each is named by the job that got
it; and a thread that outlives the dialog breaks nothing of this, since the
model follows it no further. What a file holds is an invariant of its own,
`PagesKept`, proved on top: an uncut file holds the pages that efix has gone
through, and while the fax is whole every page has been found and can be opened.

**T30Session.** `PagesAccounted` compares what one end counts with what the other
has in its files, so its inductive invariant is about an end `s`, the other end
`u` and what each has on the line, and it holds of the two in either order
(`Half`). `Own` is what holds of an end by itself, above all that each page is in
a file of its own and the next file is open and empty, unless its opening is
postponed (`FilesShape`). `Spoken` says what an end may have put on the line at
each place in `c1sndrcv()`, and `HeardIs` reads it the other way: from a frame the
listener knows where the speaker waits. `Paging` and `Training` are the heart of
it: while `s` waits for an answer to a page, `u` has the rate and format of `s`,
which knows what `u` announced (`Known`, `Agreed`), and it has the page in a file
as soon as an answer that would confirm it is on the line or about to be given; so
a lost MCF or a page sent twice does no harm. `SentKept`, `Filed` and `NotSkipped`
give the properties, and `OneStart` is needed for the last: only a change of
format sends a caller with a confirmed page back to the start. There is one lemma
for each label of the code (`BGood`, `DGood`, `IGood`, `TGood`, `RGood`, `AGood`)
and for each reply (`AnsweredGood`, `AnsweredPageGood`, `ReceivedGood`,
`TrainedGood`), each about any two ends, and `EndSteps` puts them together. The
theorems assume what the run does (`Sound`): no option `-o n`, by which a page
counts as sent whatever is answered; and no carrier lost within a page, after
which `receive_data()` leaves the file open for the next. A peer of another make
may answer a page as it likes, if it accepts none that it has not got. Only that a
sender whose pages are all confirmed reports no failure needs one more hypothesis,
`NoPIP`: after PIP a session whose last page that was ends in an error, which is
why the run has no PIP. The hypotheses are needed: TLC finds both properties
violated with a carrier lost within a page and with `-o n`, and `PagesAccounted`
with a peer that answers PIP.

`SocketServerProofs`, `FaxListProofs`, `DesktopProofs` and `PageProofs` use
induction. The library states it with an operator as a parameter, which the
provers at hand cannot instantiate; in `SequenceLemmas` it is stated of sets and
of functions and follows from the library's theorem that `<` is well founded. With
`LeastNumber` a new row of the tree is the first that is free; with `InductionTo`
and `Recursion` a recursive function is what its equation says.

Only model-checked:

* liveness (`SendsEnd`, `QuitFollowsChild`, `JobsAnnounced`, `GuiReturns`,
  `FiledOnce`, `SessionEnds`, `WaitersServed` and the others under fairness),
  which is out of the prover's reach;
* `QueueSound` at more than `MaxCount` jobs, where it is false, as the numbers come
  round: `SocketServer_faulty` has no more jobs than numbers.

## What the models leave out

* Text, dialogs, logging, arguments of efax that are not page files; the order
  of rows in lists and their descriptions.
* A failed `fork()` ends the process: it is a `Crash` followed by a `Start`. An
  empty `working_dir` makes `receive()` do nothing, as a failed `mkdir()` does.
* A handler of the controller is atomic with respect to a crash; for the moving
  of a fax `ReceivedFaxStore` takes it apart, for `save_sent_fax()` nothing
  does.
* Whether a peer is valid is a free choice. `is_valid_peer()` is not modelled.
* The saved list is written over the old one at equal line lengths, so what a
  shorter list leaves of a longer one is whole lines.
* The list of print jobs is taken as open; closed, it has no rows to be wrong.
* `EfaxController` and `ReceivedFaxStore` let efax end with the program. An efax
  that outlives a killed program writes on in a directory that the next start
  moves; see the hazards.
* Of T.30 the capabilities other than rate and resolution; of page data the bits
  of a code, and two-dimensional coding, which efax does not have. In `FaxPage`
  the bytes lost on the way are whole codes of a line.
* In `Efix` and `FaxPage` the readers of image formats and the fonts: they give
  lines of pixels. A keystream stands for the cipher of `hc128.h`.
* A second signal within the handler of the first, in `ModemLocks`.
* The use of a dialog's queue by a thread that outlives the dialog, or of its
  window by a print dialog that comes after it, in `FaxPrints`, which stops at
  both (`stray`); partial reads and the object set of Notifier, in all models that
  use its pipe.
* A user who types the label of a print job by hand, in `SendForm`; how the
  settings dialog looks, in `Settings`.

Not modelled, with the reasons in `PROJECT.json`: `SocketListDialog` and
`FileListDialog`, which the program cannot open; pipes, `io_watch` and UTF-8
reassembly, which are taken for what goes through them; dialogs, help, tray icon
and widgets, which only present; vendored code and generated icons.
