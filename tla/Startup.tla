------------------------------ MODULE Startup ------------------------------
(***************************************************************************)
(* Starting and ending the program (main.cpp): the lock file that a start  *)
(* creates, finds in use or finds stale, the fifo by which a second start  *)
(* asks the program that runs to show its window, the thread that reads    *)
(* this fifo (MainWindow::pipe_thread()), and atexit_cleanup().  A process *)
(* may die at any time and leaves both files behind.                       *)
(*                                                                         *)
(* A process that opens the fifo to read counts as a reader while it waits *)
(* for a writer.  Process ids are not used twice; a lock file may hold that *)
(* of another program at first ("foreign"), or be unreadable.              *)
(***************************************************************************)
EXTENDS Integers, Sequences, FiniteSets

CONSTANT Starts  \* the processes, each of which is started once

ASSUME StartupAssumption == Starts \cap {"none", "", "foreign", "unreadable"} = {}

VARIABLES
  stage,    \* for each process, where it stands in main()
  found,    \* what a process has read from the lock file
  tries,    \* count in is_program_running()
  lockfile, \* what the lock file holds, "" when there is no pid in it, or "none"
  psWorks,  \* is there a `ps' to ask, constant
  denied,   \* may the directory not be written to, constant
  fifo,     \* is there a fifo
  pipe,     \* the pids in it
  reader,   \* for each process, its thread that reads the fifo
  presented,\* the processes whose windows were presented
  raced     \* history: a start fell into a gap of another one

startVars == <<stage, found, tries, lockfile, psWorks, denied, fifo, pipe, reader, presented,
               raced>>

Running == {p \in Starts : stage[p] = "running"}
InTable == {p \in Starts : stage[p] \notin {"new", "ended"}}
Reads(p) == reader[p] \in {"waiting", "reading"}

-----------------------------------------------------------------------------
(* is_program_running()                                                    *)

\* The exclusive open.  After the second stale lock the loop ends, with a new
\* file that no pid is written to or with none.
OpenLock(p) ==
  IF lockfile = "none" /\ ~denied
  THEN /\ lockfile' = ""
       /\ stage' = [stage EXCEPT ![p] = IF tries'[p] < 2 THEN "created" ELSE "starting"]
  ELSE /\ lockfile' = lockfile
       /\ stage' = [stage EXCEPT ![p] = IF tries'[p] < 2 THEN "exists" ELSE "starting"]

Start(p) ==
  /\ stage[p] = "new"
  /\ tries' = tries /\ OpenLock(p)
  /\ UNCHANGED <<found, psWorks, denied, fifo, pipe, reader, presented, raced>>

\* access(): while there is no file the loop goes round for ever with a message,
\* since nothing tries to create it any more; so it does once it has removed one
\* that it could not read.
LookAtLock(p) ==
  /\ stage[p] = "exists"
  /\ lockfile # "none"
  /\ IF lockfile = "unreadable"
     THEN /\ lockfile' = IF denied THEN lockfile ELSE "none"
          /\ UNCHANGED <<stage, found>>
     ELSE /\ found' = [found EXCEPT ![p] = lockfile]
          /\ stage' = [stage EXCEPT ![p] = "read"]
          /\ lockfile' = lockfile
  /\ UNCHANGED <<tries, psWorks, denied, fifo, pipe, reader, presented, raced>>

\* is_in_process_table(): `ps' tells the program from another one, but of a
\* process that is gone, and without a pid, it tells nothing.
is_in_process_table(pid) ==
  CASE psWorks /\ pid \in InTable -> 1
    [] psWorks /\ pid = "foreign" -> 0
    [] OTHER -> -1

\* kill() is only asked when a pid was read.
Stale_Bug(pid) == is_in_process_table(pid) # 1 /\ pid # ""
Stale(pid) == \/ is_in_process_table(pid) = 0
              \/ pid \notin {"", "foreign"} \cup InTable

\* A stale lock file is unlinked, whoever's it is by now, and opened again.
Unlink(p) ==
  /\ stage[p] = "read" /\ Stale(found[p])
  /\ lockfile' = IF denied THEN lockfile ELSE "none"
  /\ raced' = (raced \/ lockfile # found[p])
  /\ stage' = [stage EXCEPT ![p] = "unlinked"]
  /\ UNCHANGED <<found, tries, psWorks, denied, fifo, pipe, reader, presented>>

OpenAgain(p) ==
  /\ stage[p] = "unlinked"
  /\ tries' = [tries EXCEPT ![p] = @ + 1]
  /\ OpenLock(p)
  /\ raced' = (raced \/ stage'[p] = "starting")
  /\ UNCHANGED <<found, psWorks, denied, fifo, pipe, reader, presented>>

\* The lock is in use: the fifo is opened without waiting.  If that fails, the
\* program starts although another one runs, without a lock.
OpenFifo(p) ==
  /\ stage[p] = "read" /\ ~Stale(found[p])
  /\ tries' = [tries EXCEPT ![p] = 2]
  /\ IF fifo /\ (\E q \in Starts : Reads(q))
     THEN stage' = [stage EXCEPT ![p] = "signalling"] /\ raced' = raced
     ELSE stage' = [stage EXCEPT ![p] = "starting"] /\ raced' = TRUE
  /\ UNCHANGED <<found, lockfile, psWorks, denied, fifo, pipe, reader, presented>>

\* Without a reader the write kills the process.  Either way this start is over.
WriteFifo(p) ==
  /\ stage[p] = "signalling"
  /\ pipe' = IF \E q \in Starts : Reads(q) THEN Append(pipe, found[p]) ELSE pipe
  /\ stage' = [stage EXCEPT ![p] = "ended"]
  /\ UNCHANGED <<found, tries, lockfile, psWorks, denied, fifo, reader, presented, raced>>

\* The pid goes to the file that was opened, be it still the lock file or not.
WritePid(p) ==
  /\ stage[p] = "created"
  /\ lockfile' = IF lockfile = "" THEN p ELSE lockfile
  /\ stage' = [stage EXCEPT ![p] = "starting"]
  /\ UNCHANGED <<found, tries, psWorks, denied, fifo, pipe, reader, presented, raced>>

-----------------------------------------------------------------------------
(* The program that runs, and its pipe_thread().                           *)

\* start_pipe_thread(), last in the constructor of MainWindow.
Run(p) ==
  /\ stage[p] = "starting"
  /\ stage' = [stage EXCEPT ![p] = "running"]
  /\ reader' = [reader EXCEPT ![p] = "starting"]
  /\ UNCHANGED <<found, tries, lockfile, psWorks, denied, fifo, pipe, presented, raced>>

\* mkfifo() unless there is one, and the open.
OpenReader(p) ==
  /\ stage[p] = "running" /\ reader[p] \in {"starting", "closed"}
  /\ reader[p] = "closed" => fifo
  /\ fifo' = TRUE
  /\ reader' = [reader EXCEPT ![p] = "waiting"]
  /\ UNCHANGED <<stage, found, tries, lockfile, psWorks, denied, pipe, presented, raced>>

\* A writer came: the thread reads one pid, and presents the window if it is that
\* of its own process.
Read(p) ==
  /\ stage[p] = "running" /\ reader[p] = "waiting"
  /\ pipe # <<>>
  /\ presented' = IF Head(pipe) = p THEN presented \cup {p} ELSE presented
  /\ pipe' = Tail(pipe)
  /\ reader' = [reader EXCEPT ![p] = "reading"]
  /\ UNCHANGED <<stage, found, tries, lockfile, psWorks, denied, fifo, raced>>

\* What is in the fifo when no one has it open to read is lost.
CloseReader(p) ==
  /\ stage[p] = "running" /\ reader[p] = "reading"
  /\ reader' = [reader EXCEPT ![p] = "closed"]
  /\ pipe' = IF \E q \in Starts \ {p} : Reads(q) THEN pipe ELSE <<>>
  /\ UNCHANGED <<stage, found, tries, lockfile, psWorks, denied, fifo, presented, raced>>

\* The process is gone, its thread with it.
Gone(p) ==
  /\ stage' = [stage EXCEPT ![p] = "ended"]
  /\ reader' = [reader EXCEPT ![p] = "none"]
  /\ pipe' = IF \E q \in Starts \ {p} : Reads(q) THEN pipe ELSE <<>>
  /\ UNCHANGED <<found, tries, psWorks, denied, presented, raced>>

\* atexit_cleanup() removes the lock file and the fifo, its own or not.
Exit(p) ==
  /\ stage[p] = "running"
  /\ Gone(p)
  /\ lockfile' = IF denied THEN lockfile ELSE "none"
  /\ fifo' = (denied /\ fifo)

Die(p) ==
  /\ stage[p] \notin {"new", "ended"}
  /\ Gone(p)
  /\ UNCHANGED <<lockfile, fifo>>

-----------------------------------------------------------------------------
InitStart ==
  /\ stage = [p \in Starts |-> "new"]
  /\ found = [p \in Starts |-> ""] /\ tries = [p \in Starts |-> 0]
  /\ lockfile \in {"none", "", "foreign", "unreadable"}
  /\ psWorks \in BOOLEAN /\ denied \in BOOLEAN
  /\ fifo \in BOOLEAN /\ pipe = <<>>
  /\ reader = [p \in Starts |-> "none"]
  /\ presented = {} /\ raced = FALSE

NextStart ==
  \E p \in Starts :
    \/ Start(p) \/ LookAtLock(p) \/ Unlink(p) \/ OpenAgain(p) \/ OpenFifo(p) \/ WriteFifo(p)
    \/ WritePid(p) \/ Run(p) \/ OpenReader(p) \/ Read(p) \/ CloseReader(p) \/ Exit(p) \/ Die(p)

SpecStart == InitStart /\ [][NextStart]_startVars

-----------------------------------------------------------------------------
(* There is one program at a time, and the lock file is its own, however   *)
(* starts, ends and deaths follow each other, unless a start fell into one *)
(* of the gaps: between the look at a stale lock file and its removal,     *)
(* between the creation of a lock file and the fifo, or between two        *)
(* readings of the fifo; or the lock file has no pid, or one that another  *)
(* program has by now and there is no `ps' to say so.  Else a lock that a  *)
(* dead process left keeps nobody out, and that of one that runs lets      *)
(* nobody in.                                                              *)
OneInstance ==
  ~raced /\ ~denied =>
    /\ Cardinality(Running) <= 1
    /\ \A p \in Running : lockfile = p

=============================================================================
