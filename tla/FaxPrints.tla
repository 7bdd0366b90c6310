------------------------------ MODULE FaxPrints ------------------------------
(***************************************************************************)
(* Printing and viewing a fax from a FaxListDialog: the detached threads   *)
(* of fax_list.cpp that have efix make a PostScript file, the AsyncQueue   *)
(* that hands each its FilePrintManager, the reference-counted managers    *)
(* of file_print_manager.cpp, and the temporary files.                     *)
(*                                                                         *)
(* A job is what one press of a button starts.  The manager made for job n *)
(* is called n, but another job may get it.  The user may delete the fax,  *)
(* page by page, or close the dialog, while a thread and its efix are at   *)
(* work on it.                                                             *)
(***************************************************************************)
EXTENDS Naturals, Sequences, FiniteSets, SequencesExt

CONSTANTS
  PrintedFaxes,  \* faxes in the list
  PagesOfFax,    \* pages each of them has, at most the MAXPAGE of efaxlib
  MaxJobs,       \* bound: presses of a button
  MaxPrintFaults \* bound: threads, files and printers that fail

ASSUME PrintsAssumption ==
  PagesOfFax \in Nat \ {0} /\ MaxJobs \in Nat /\ MaxPrintFaults \in Nat

VARIABLES
  listUp,      \* the dialog exists
  onDisk,      \* the pages of each fax whose files exist
  deleting,    \* the fax the GUI is at deleting, if any: a set
  jobs,        \* [pc, way, fax, mgr, pages, made, cut]: the threads, as started
  queue,       \* async_queue: managers
  managers,    \* [refs, ready, file, at]: the managers made, by job
  temps,       \* temporary files on the disk, by job: the pages they hold
  viewFiles,   \* files the dialog removes when it goes
  printFaults

printVars ==
  <<listUp, onDisk, deleting, jobs, queue, managers, temps, viewFiles, printFaults>>

None == 0

Whole == 1..PagesOfFax

InitPrints ==
  /\ listUp = TRUE /\ onDisk = [f \in PrintedFaxes |-> Whole] /\ deleting = {}
  /\ jobs = <<>> /\ queue = <<>> /\ managers = <<>>
  /\ temps = <<>> /\ viewFiles = {} /\ printFaults = 0

MayFail == printFaults < MaxPrintFaults /\ printFaults' = printFaults + 1

With(f, n, x) == [m \in DOMAIN f \cup {n} |-> IF m = n THEN x ELSE f[m]]
Without(f, S) == [m \in DOMAIN f \ S |-> f[m]]

NewManager == [refs |-> 1, ready |-> TRUE, file |-> None, at |-> "idle"]

ref(ms, m)   == [ms EXCEPT ![m] = [@ EXCEPT !.refs = ms[m].refs + 1]]
\* The object is deleted at 0.
unref(ms, m) == [ms EXCEPT ![m] = [@ EXCEPT !.refs = ms[m].refs - 1]]

At(n, place) == n \in DOMAIN jobs /\ jobs[n].pc = place
Goto(n, place) == jobs' = [jobs EXCEPT ![n] = [@ EXCEPT !.pc = place]]

----------------------------------------------------------------------------
(* The buttons *)

\* pages are those found, made those efix has gone through; cut is whether some
\* got lost on the way to the temporary file.
Job(place, way, f) ==
  [pc |-> place, way |-> way, fax |-> f, mgr |-> None, pages |-> 0, made |-> 0, cut |-> FALSE]

\* delete_fax() keeps the main loop, and all that is done in it, waiting.
MainLoopFree == deleting = {}

\* A print dialog is modal: under it nothing is done in the list.
NoDialog == \A m \in DOMAIN managers : managers[m].at # "dialog"

CanStart == listUp /\ MainLoopFree /\ NoDialog /\ Len(jobs) < MaxJobs

Shown == {f \in PrintedFaxes : onDisk[f] # {}}

\* No thread: the first manager of the queue is dropped, whose ever it was.
StartFails(q, ms) == queue' = Tail(q) /\ managers' = unref(ms, Head(q))

\* print_fax() with the GTK+ dialog.
PrintsFax ==
  /\ CanStart
  /\ \E f \in Shown :
       LET n  == Len(jobs) + 1
           q  == Append(queue, n)
           ms == With(managers, n, NewManager)
       IN \/ /\ jobs' = Append(jobs, Job("pop", "dialog", f))
             /\ queue' = q /\ managers' = ms /\ UNCHANGED printFaults
          \/ MayFail /\ jobs' = Append(jobs, Job("done", "dialog", f)) /\ StartFails(q, ms)
  /\ UNCHANGED <<listUp, onDisk, deleting, temps, viewFiles>>

\* print_fax() with a print command, which gets the pages through a pipe.
PipesFax ==
  /\ CanStart
  /\ \E f \in Shown :
       \/ jobs' = Append(jobs, Job("parms", "command", f)) /\ UNCHANGED printFaults
       \/ jobs' = Append(jobs, Job("done", "command", f)) /\ MayFail
  /\ UNCHANGED <<listUp, onDisk, deleting, queue, managers, temps, viewFiles>>

\* view_fax(): the file is made before the thread is started.
ViewsFax ==
  /\ CanStart
  /\ LET n == Len(jobs) + 1
     IN \E f \in Shown :
          \/ /\ temps' = With(temps, n, {}) /\ viewFiles' = viewFiles \cup {n}
             /\ \/ jobs' = Append(jobs, Job("parms", "view", f)) /\ UNCHANGED printFaults
                \/ jobs' = Append(jobs, Job("done", "view", f)) /\ MayFail
          \/ /\ MayFail /\ jobs' = Append(jobs, Job("done", "view", f))
             /\ UNCHANGED <<temps, viewFiles>>
  /\ UNCHANGED <<listUp, onDisk, deleting, queue, managers>>

\* delete_fax(): the pages are unlinked in the order of the directory, while a
\* thread may look for them and efix may open them.
DeletesFax ==
  /\ MainLoopFree /\ NoDialog
  /\ \E f \in Shown : deleting' = {f}
  /\ UNCHANGED <<listUp, onDisk, jobs, queue, managers, temps, viewFiles, printFaults>>

UnlinksPage ==
  \E f \in deleting : \E p \in onDisk[f] :
    /\ onDisk' = [onDisk EXCEPT ![f] = onDisk[f] \ {p}]
    /\ deleting' = IF onDisk[f] = {p} THEN {} ELSE deleting
    /\ UNCHANGED <<listUp, jobs, queue, managers, temps, viewFiles, printFaults>>

\* ~FaxListDialog(): the queue goes too, with the managers in it.
ListCloses ==
  /\ listUp /\ MainLoopFree /\ NoDialog
  /\ listUp' = FALSE
  /\ temps' = Without(temps, viewFiles) /\ viewFiles' = {}
  /\ queue' = <<>>
  /\ managers' = [m \in DOMAIN managers |->
                    IF Contains(queue, m) THEN unref(managers, m)[m] ELSE managers[m]]
  /\ UNCHANGED <<onDisk, deleting, jobs, printFaults>>

----------------------------------------------------------------------------
(* The threads: print_fax_thread() and view_fax_thread() *)

\* The queue and working_dir are members of the dialog: without it what happens
\* is undefined, and followed no further.
UsesDialog(n, step) == IF listUp THEN step
                       ELSE Goto(n, "stray") /\ UNCHANGED <<queue, managers, temps, printFaults>>

Pops(n) ==
  /\ At(n, "pop")
  /\ UsesDialog(n, /\ jobs' = [jobs EXCEPT ![n] = [@ EXCEPT !.pc = "parms", !.mgr = Head(queue)]]
                   /\ queue' = Tail(queue)
                   /\ UNCHANGED <<managers, temps, printFaults>>)
  /\ UNCHANGED <<listUp, onDisk, deleting, viewFiles>>

\* get_fax_to_ps_parms(): access() of one page after the other, until one is not
\* there.
FindsPages(n) ==
  /\ At(n, "parms")
  /\ IF jobs[n].pages + 1 \in onDisk[jobs[n].fax]
     THEN jobs' = [jobs EXCEPT ![n] = [@ EXCEPT !.pages = jobs[n].pages + 1]]
     ELSE Goto(n, CASE jobs[n].way = "dialog"  -> "make"
                    [] jobs[n].way = "command" -> "done"
                    [] jobs[n].way = "view"    -> "write")
  /\ UNCHANGED <<listUp, onDisk, deleting, queue, managers, temps, viewFiles, printFaults>>

\* mkstemp()
MakesFile(n) ==
  /\ At(n, "make")
  /\ UsesDialog(n, \/ /\ temps' = With(temps, n, {}) /\ Goto(n, "write")
                      /\ UNCHANGED <<queue, managers, printFaults>>
                   \/ /\ MayFail /\ Goto(n, "done")
                      /\ managers' = unref(managers, jobs[n].mgr)
                      /\ UNCHANGED <<queue, temps>>)
  /\ UNCHANGED <<listUp, onDisk, deleting, viewFiles>>

Makes(n, lost) ==
  jobs' = [jobs EXCEPT ![n] = [@ EXCEPT !.made = jobs[n].made + 1, !.cut = jobs[n].cut \/ lost]]

Opens(n) == jobs[n].made + 1 <= jobs[n].pages /\ jobs[n].made + 1 \in onDisk[jobs[n].fax]

\* efix opens the next of the files it was given by name, and write_pipe_to_file()
\* writes what it says; what does not fit on the disk is lost.  The file itself
\* may have been removed.
MakesPage(n) ==
  /\ At(n, "write") /\ Opens(n)
  /\ \/ /\ temps' = IF n \in DOMAIN temps
                     THEN With(temps, n, temps[n] \cup {jobs[n].made + 1}) ELSE temps
        /\ Makes(n, FALSE) /\ UNCHANGED printFaults
     \/ Makes(n, TRUE) /\ MayFail /\ UNCHANGED temps
  /\ UNCHANGED <<listUp, onDisk, deleting, queue, managers, viewFiles>>

\* efix is through with its files, or cannot open the next, and ends.
Written(n) == ~Opens(n)

\* It may also be killed, or not be installed: then the file is left as it is.
EndsFile(n) ==
  LET place == IF jobs[n].way = "view" THEN "viewer" ELSE "set"
  IN /\ At(n, "write")
     /\ \/ Written(n) /\ Goto(n, place) /\ UNCHANGED printFaults
        \/ /\ jobs' = [jobs EXCEPT ![n] = [@ EXCEPT !.pc = place, !.cut = TRUE]]
           /\ MayFail
     /\ UNCHANGED <<listUp, onDisk, deleting, queue, managers, temps, viewFiles>>

\* The viewer is started on a file that may be gone.
StartsViewer(n) ==
  /\ At(n, "viewer") /\ Goto(n, "done")
  /\ UNCHANGED <<listUp, onDisk, deleting, queue, managers, temps, viewFiles, printFaults>>

\* set_filename()
SetsFilename(n) ==
  /\ At(n, "set") /\ Goto(n, "print")
  /\ managers' = IF managers[jobs[n].mgr].ready
                 THEN [managers EXCEPT ![jobs[n].mgr] = [@ EXCEPT !.file = n]] ELSE managers
  /\ UNCHANGED <<listUp, onDisk, deleting, queue, temps, viewFiles, printFaults>>

\* The manager holds a reference to itself while its dialog or its job lives.
Owned(ms, m) == ref(ms, m)

\* print()
CallsPrint(n) ==
  /\ At(n, "print") /\ Goto(n, "drop")
  /\ LET m == jobs[n].mgr
     IN managers' = IF managers[m].ready
                    THEN Owned([managers EXCEPT ![m] =
                                  [@ EXCEPT !.ready = FALSE, !.at = "notified"]], m)
                    ELSE managers
  /\ UNCHANGED <<listUp, onDisk, deleting, queue, temps, viewFiles, printFaults>>

\* The thread ends, and with it its IntrusivePtr.
ThreadEnds(n) ==
  /\ At(n, "drop") /\ Goto(n, "done")
  /\ managers' = unref(managers, jobs[n].mgr)
  /\ UNCHANGED <<listUp, onDisk, deleting, queue, temps, viewFiles, printFaults>>

----------------------------------------------------------------------------
(* FilePrintManager in the main loop *)

Idle(ms, m) == [ms EXCEPT ![m] = [@ EXCEPT !.ready = TRUE, !.at = "idle"]]

\* clean_up(), and the end of the manager's hold of itself.
CleansUp(m) ==
  /\ temps' = Without(temps, {managers[m].file})
  /\ managers' = unref(Idle(managers, m), m)

Cancelled_Bug(m) ==
  /\ managers' = unref(Idle(managers, m), m)
  /\ UNCHANGED temps

\* print_cancel()
Cancelled(m) == CleansUp(m)

\* show_dialog(): nothing to print, or a dialog.  Its parent is the window of the
\* list: without it what happens is undefined, and followed no further.
ShowsDialog(m) ==
  /\ managers[m].at = "notified"
  /\ managers' = IF managers[m].file = None
                 THEN unref(Idle(managers, m), m)
                 ELSE [managers EXCEPT ![m] =
                         [@ EXCEPT !.at = IF listUp THEN "dialog" ELSE "stray"]]
  /\ UNCHANGED <<listUp, onDisk, deleting, jobs, queue, temps, viewFiles, printFaults>>

Rejected(m) ==
  /\ managers[m].at = "dialog" /\ Cancelled(m)
  /\ UNCHANGED <<listUp, onDisk, deleting, jobs, queue, viewFiles, printFaults>>

\* print_file(): no printer, or it cannot take the file; or the job is sent.
Accepted(m) ==
  /\ managers[m].at = "dialog"
  /\ \/ /\ managers' = [managers EXCEPT ![m] = [@ EXCEPT !.at = "printing"]]
        /\ UNCHANGED <<temps, printFaults>>
     \/ CleansUp(m) /\ MayFail
  /\ UNCHANGED <<listUp, onDisk, deleting, jobs, queue, viewFiles>>

\* file_print_job_complete(), with an error or without.
JobCompletes(m) ==
  /\ managers[m].at = "printing" /\ CleansUp(m)
  /\ UNCHANGED <<listUp, onDisk, deleting, jobs, queue, viewFiles, printFaults>>

ThreadSteps(n) ==
  \/ Pops(n) \/ FindsPages(n) \/ MakesFile(n) \/ MakesPage(n) \/ EndsFile(n)
  \/ StartsViewer(n)
  \/ SetsFilename(n) \/ CallsPrint(n) \/ ThreadEnds(n)

ManagerSteps(m) ==
  MainLoopFree /\ (ShowsDialog(m) \/ Rejected(m) \/ Accepted(m) \/ JobCompletes(m))

NextPrints ==
  \/ PrintsFax \/ PipesFax \/ ViewsFax \/ DeletesFax \/ UnlinksPage \/ ListCloses
  \/ \E n \in DOMAIN jobs : ThreadSteps(n)
  \/ \E m \in DOMAIN managers : ManagerSteps(m)

SpecPrints == InitPrints /\ [][NextPrints]_printVars

----------------------------------------------------------------------------
(* Properties *)

\* Jobs that hold the reference of manager m.
Holders(m) == {n \in DOMAIN jobs : jobs[n].mgr = m
                 /\ jobs[n].pc \in {"parms", "make", "write", "set", "print", "drop", "stray"}}

Entries(m) == Cardinality({k \in DOMAIN queue : queue[k] = m})

\* The count of a manager is the number of those who hold it: the queue, one
\* thread, and the manager itself between print() and the end of its job.  So
\* it is deleted once, and after its last use, whichever of the thread and the
\* print system is done first (print(), show_dialog(), print_file()).
CountsHolders ==
  \A m \in DOMAIN managers :
    managers[m].refs = Entries(m) + Cardinality(Holders(m))
                         + (IF managers[m].at = "idle" THEN 0 ELSE 1)

\* While the dialog is there a thread that is about to take a manager from the
\* queue finds one: AsyncQueuePopError is never thrown.
QueueSuffices ==
  listUp => Len(queue) = Cardinality({n \in DOMAIN jobs : jobs[n].pc = "pop"})

\* No two managers print one file, and no manager is given two jobs.
OneManagerEach ==
  \A m, n \in DOMAIN managers :
    /\ managers[m].file # None /\ managers[m].file = managers[n].file => m = n
    /\ managers[m].at # "idle" => managers[m].file # None

ManagersHeld == CountsHolders /\ QueueSuffices /\ OneManagerEach

\* If nothing got lost on the way a file holds the pages of the fax from the first
\* on, and all of them unless the fax has meanwhile been deleted.
HoldsFax(n) ==
  jobs[n].cut \/ \E k \in 0..PagesOfFax :
                   temps[n] = 1..k /\ (onDisk[jobs[n].fax] = Whole => k = PagesOfFax)

\* A temporary file is there only while a thread makes it or a manager prints
\* it, or, one to be viewed, while the dialog is open; and it is there as long
\* as a manager may print it.  What is printed or viewed is complete: it lacks only
\* what a deletion of the fax, a lack of space or a failure of efix took.
TempFilesRemoved ==
  /\ \A n \in DOMAIN temps :
       /\ \/ jobs[n].way = "view" /\ n \in viewFiles
          \/ jobs[n].pc \in {"write", "set", "print", "stray"}
          \/ \E m \in DOMAIN managers : managers[m].file = n /\ managers[m].at # "idle"
       /\ jobs[n].pc = "viewer" => HoldsFax(n)
  /\ \A m \in DOMAIN managers :
       managers[m].at # "idle" => managers[m].file \in DOMAIN temps /\ HoldsFax(managers[m].file)

\* A print manager and its temporary file live as long as they are needed.
PrintsKept == ManagersHeld /\ TempFilesRemoved

=============================================================================
