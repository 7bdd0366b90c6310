------------------------------ MODULE ModemLocks ------------------------------
(***************************************************************************)
(* How programs share the modem: the UUCP lock files of efax/efaxos.c and  *)
(* the part of efax's main() in which a program holds, lends and gives     *)
(* back its locks.  Each process is one run of efax.                       *)
(*                                                                         *)
(* A lock is taken by looking at the file and then renaming a file of      *)
(* one's own over it, so other processes act between the two; and the pid  *)
(* is written only when the file is closed, after the rename.              *)
(***************************************************************************)
EXTENDS Naturals, Sequences, FiniteSets, Functions

CONSTANTS
  Procs,      \* runs of efax
  LockFiles,  \* for each its lock files (-x), in order
  Sharing,    \* those that share the device while they wait (-s)
  Foreign,    \* those of another user: kill() says EPERM, not ESRCH
  Stale,      \* files that hold the pid of a process long gone
  Crashes,    \* bound: processes killed outright
  Signals     \* bound: signals caught

Files == UNION {Range(LockFiles[p]) : p \in Procs}

ASSUME LocksAssumption ==
  /\ LockFiles \in [Procs -> Seq(Files)]
  /\ \A p \in Procs : IsInjective(LockFiles[p]) /\ LockFiles[p] # <<>>
  /\ Procs \cap {"nobody", "gone"} = {}
  /\ Sharing \subseteq Procs /\ Foreign \subseteq Procs /\ Stale \subseteq Files
  /\ Crashes \in Nat /\ Signals \in Nat

VARIABLES
  lock,     \* each lock file: none, or by whom and whether the pid is in it
  pc, goal, \* each process: its place, and what it goes through its locks for
  i,        \* the lock file it is at
  lent,     \* it has lent the modem and not locked it again
  missed,   \* history: whose locks were made since it looked at its file
  robbed,   \* history: processes whose locks another took from them
  killed,
  signalled \* who was sent a signal, and where it was

locksVars == <<lock, pc, goal, i, lent, missed, robbed, killed, signalled>>

NoLock == [by |-> "nobody", flushed |-> TRUE]
Old    == [by |-> "gone", flushed |-> TRUE]

File(p) == LockFiles[p][i[p]]

Alive(q) == q \in Procs /\ pc[q] \notin {"ended", "dead"}

\* kill ( pid, 0 ) fails with ESRCH.
Gone_Bug(q) == ~Alive(q) \/ q \in Foreign

GoneNever_Bug(q) == FALSE

Gone(q) == ~Alive(q)

InitLocks ==
  /\ lock = [f \in Files |-> IF f \in Stale THEN Old ELSE NoLock]
  /\ pc = [p \in Procs |-> "idle"] /\ goal = [p \in Procs |-> "lock"]
  /\ i = [p \in Procs |-> 1]
  /\ lent = {} /\ missed = [p \in Procs |-> {}] /\ robbed = {}
  /\ killed = 0 /\ signalled = {}

IsAt(p, place) == pc[p] = place
Goto(p, place) == pc' = [pc EXCEPT ![p] = place]

\* lockall(), unlockall(): from the first file.
Through(p, g) ==
  /\ Goto(p, "look") /\ goal' = [goal EXCEPT ![p] = g] /\ i' = [i EXCEPT ![p] = 1]

After == [lock |-> "open", lend |-> "wait", relock |-> "session", cleanup |-> "exit"]

\* The next file, or what follows the last.
Onward(p) ==
  /\ UNCHANGED goal
  /\ IF i[p] < Len(LockFiles[p])
     THEN Goto(p, "look") /\ i' = [i EXCEPT ![p] = @ + 1] /\ UNCHANGED lent
     ELSE /\ Goto(p, After[goal[p]]) /\ UNCHANGED i
          /\ lent' = IF goal[p] = "relock" THEN lent \ {p} ELSE lent

Locks(p) == goal[p] \in {"lock", "relock"}

\* err 1: begin_session() polls; answer() gives up, and with it every lock is
\* left where it is (locked = 1).
Busy_Bug(p) ==
  /\ Goto(p, IF goal[p] = "lock" THEN "poll" ELSE "session")
  /\ lent' = lent \ {p}
  /\ UNCHANGED <<goal, i>>

Busy(p) ==
  /\ Goto(p, IF goal[p] = "lock" THEN "poll" ELSE "ended")
  /\ UNCHANGED <<goal, i, lent>>

\* err 2: begin_session() has no modem to clean up yet, answer() takes it for
\* err 1, unlockall() goes on and answer() then fails.
GivesUp(p) ==
  IF Locks(p) THEN Goto(p, "ended") /\ UNCHANGED <<goal, i, lent>> ELSE Onward(p)

Begins(p) ==
  /\ IsAt(p, "idle") /\ Through(p, "lock")
  /\ UNCHANGED <<lock, lent, missed, robbed, killed, signalled>>

NotOurs(p) == IF Locks(p) THEN Busy(p) ELSE Onward(p)

\* ttlocked(): an empty file reads as pid 0, which is always there.
Looks(p) ==
  /\ IsAt(p, "look")
  /\ missed' = [missed EXCEPT ![p] = {}]
  /\ LET l == lock[File(p)]
     IN IF l = NoLock
        THEN IF Locks(p) THEN Goto(p, "make") /\ UNCHANGED <<goal, i, lent>> ELSE Onward(p)
        ELSE IF ~l.flushed THEN NotOurs(p)
        ELSE IF Gone(l.by) THEN Goto(p, "unstale") /\ UNCHANGED <<goal, i, lent>>
        ELSE IF l.by # p THEN NotOurs(p)
        ELSE IF Locks(p) THEN Onward(p)
        ELSE Goto(p, "unlock") /\ UNCHANGED <<goal, i, lent>>
  /\ UNCHANGED <<lock, robbed, killed, signalled>>

\* A lock of a process that lives is taken from it.
Robs(p, f) ==
  robbed' = IF lock[f].by # p /\ Alive(lock[f].by)
            THEN robbed \cup {lock[f].by} ELSE robbed

\* remove() of a lock that was stale when it was read.
RemovesStale(p) ==
  /\ IsAt(p, "unstale")
  /\ IF lock[File(p)] = NoLock THEN GivesUp(p) /\ UNCHANGED <<lock, robbed>>
     ELSE /\ Robs(p, File(p))
          /\ lock' = [lock EXCEPT ![File(p)] = NoLock]
          /\ IF Locks(p) THEN Goto(p, "make") /\ UNCHANGED <<goal, i, lent>> ELSE Onward(p)
  /\ UNCHANGED <<missed, killed, signalled>>

\* ttlock(): TMP..<pid> is renamed to the lock file, over whatever is there.
Renames(p) ==
  /\ IsAt(p, "make")
  /\ Robs(p, File(p))
  /\ lock' = [lock EXCEPT ![File(p)] = [by |-> p, flushed |-> FALSE]]
  /\ missed' = [q \in Procs |-> IF q # p /\ IsAt(q, "idle") = FALSE /\ File(q) = File(p)
                                THEN missed[q] \cup {p} ELSE missed[q]]
  /\ Goto(p, "close")
  /\ UNCHANGED <<goal, i, lent, killed, signalled>>

\* TMP..<pid> cannot be made.
CannotMake(p) ==
  /\ IsAt(p, "make") /\ GivesUp(p)
  /\ UNCHANGED <<lock, missed, robbed, killed, signalled>>

\* fclose() writes the pid, into the file that p renamed wherever it is now.
Closes(p) ==
  /\ IsAt(p, "close")
  /\ lock' = [lock EXCEPT ![File(p)].flushed = @ \/ lock[File(p)].by = p]
  /\ Onward(p)
  /\ UNCHANGED <<missed, robbed, killed, signalled>>

\* ttunlock(): the lock was ours when it was read.
Unlocks(p) ==
  /\ IsAt(p, "unlock")
  /\ IF lock[File(p)] = NoLock THEN UNCHANGED <<lock, robbed>>
     ELSE Robs(p, File(p)) /\ lock' = [lock EXCEPT ![File(p)] = NoLock]
  /\ Onward(p)
  /\ UNCHANGED <<missed, killed, signalled>>

\* ttyopen(): the device is opened, is busy, or cannot be opened.
Opens(p) ==
  /\ IsAt(p, "open")
  /\ \E place \in {"begin", "poll", "ended"} : Goto(p, place)
  /\ UNCHANGED <<lock, goal, i, lent, missed, robbed, killed, signalled>>

OpensAtLast(p) == IsAt(p, "open") /\ Opens(p) /\ pc'[p] = "begin"

Polls(p) ==
  /\ IsAt(p, "poll") /\ Through(p, "lock")
  /\ UNCHANGED <<lock, lent, missed, robbed, killed, signalled>>

\* begin_session() and modem_init() are done: answer() lends the device.
Lends(p) ==
  /\ IsAt(p, "begin") /\ p \in Sharing
  /\ Through(p, "lend") /\ lent' = lent \cup {p}
  /\ UNCHANGED <<lock, missed, robbed, killed, signalled>>

\* The telephone rings.
Rings(p) ==
  /\ IsAt(p, "wait") /\ Through(p, "relock")
  /\ UNCHANGED <<lock, lent, missed, robbed, killed, signalled>>

PicksUp(p) ==
  /\ IsAt(p, "begin") /\ p \notin Sharing /\ Goto(p, "session")
  /\ UNCHANGED <<lock, goal, i, lent, missed, robbed, killed, signalled>>

\* The session is over, or something in it has failed: cleanup().
SessionOver(p) ==
  /\ pc[p] \in {"begin", "session"} /\ Goto(p, "reset")
  /\ UNCHANGED <<lock, goal, i, lent, missed, robbed, killed, signalled>>

\* end_session(): the modem is reset, and then the locks are removed.
Resets(p) ==
  /\ IsAt(p, "reset") /\ Through(p, "cleanup")
  /\ UNCHANGED <<lock, lent, missed, robbed, killed, signalled>>

\* exit() writes what is in the buffers of open files.
Exits(p) ==
  /\ IsAt(p, "exit") /\ Goto(p, "ended")
  /\ lock' = [f \in Files |-> [lock[f] EXCEPT !.flushed = @ \/ lock[f].by = p]]
  /\ UNCHANGED <<goal, i, lent, missed, robbed, killed, signalled>>

Started(p) == pc[p] \notin {"idle", "ended", "dead"}

\* onsig() runs cleanup ( 5 ) and exits; it is set once the device is open.
Signalled(p) ==
  /\ Cardinality(signalled) < Signals /\ signalled' = signalled \cup {<<p, pc[p]>>}
  /\ Started(p) /\ (goal[p] \in {"lend", "relock"} \/ pc[p] \in {"begin", "session"})
  /\ Goto(p, "reset")
  /\ UNCHANGED <<lock, goal, i, lent, missed, robbed, killed>>

Killed(p) ==
  /\ killed < Crashes /\ killed' = killed + 1
  /\ Started(p) /\ Goto(p, "dead")
  /\ UNCHANGED <<lock, goal, i, lent, missed, robbed, signalled>>

LockSteps(p) ==
  \/ Looks(p) \/ RemovesStale(p) \/ Renames(p) \/ Closes(p) \/ Unlocks(p)
  \/ Opens(p) \/ Polls(p) \/ Lends(p) \/ PicksUp(p) \/ SessionOver(p) \/ Resets(p)
  \/ Exits(p)

NextLocks == \E p \in Procs :
  \/ Begins(p) \/ LockSteps(p) \/ Rings(p)
  \/ CannotMake(p) \/ Signalled(p) \/ Killed(p)

SpecLocks == InitLocks /\ [][NextLocks]_locksVars

\* System calls return, sessions and sleeps end; that a device found busy is
\* one day not busy is assumed too, that the telephone rings is not.
FairLocks == \A p \in Procs : WF_locksVars(LockSteps(p)) /\ SF_locksVars(OpensAtLast(p))

----------------------------------------------------------------------------
(* Properties *)

LocksTypeOK ==
  /\ lock \in [Files -> [by : Procs \cup {"nobody", "gone"}, flushed : BOOLEAN]]
  /\ pc \in [Procs -> {"idle", "look", "make", "close", "unstale", "unlock", "open", "poll",
                       "begin", "wait", "session", "reset", "exit", "ended", "dead"}]
  /\ goal \in [Procs -> {"lock", "lend", "relock", "cleanup"}]
  /\ i \in [Procs -> Nat] /\ \A p \in Procs : i[p] \in 1..Len(LockFiles[p])
  /\ lent \subseteq Procs /\ missed \in [Procs -> SUBSET Procs] /\ robbed \subseteq Procs

\* Talking to the modem.
Talks(p) == pc[p] \in {"begin", "session", "reset"}

\* A process that talks to the modem and has not lent it holds all its locks,
\* unless one was taken from it (lockall(), begin_session(), answer()).
TalksUnderLock ==
  \A p \in Procs : Talks(p) /\ p \notin lent =>
    p \in robbed \/ \A f \in Range(LockFiles[p]) : lock[f].by = p

\* A lock is taken from a process that lives only by one that had looked at the
\* file before that lock was made: the window between ttlocked() and rename()
\* is the only way in.
RobbedOnlyInRace ==
  [][\A f \in Files : Alive(lock[f].by) /\ lock'[f].by # lock[f].by
       => \E p \in Procs : /\ pc'[p] # pc[p] \/ i'[p] # i[p]
                           /\ p = lock[f].by \/ lock[f].by \in missed[p]]_locksVars

\* A process that ran cleanup() leaves no lock of its own (unlockall()), unless the
\* signal came when a lock was made and not yet written.
NoLockLeft ==
  \A p \in Procs : IsAt(p, "ended") /\ goal[p] = "cleanup" /\ <<p, "close">> \notin signalled
                    => \A f \in Files : lock[f].by # p

\* The locks are where they should be: held while needed, given back after.
LocksHeld == LocksTypeOK /\ TalksUnderLock /\ NoLockLeft

\* The pid of a process killed before it was written: nobody can remove the lock.
Orphan == \E f \in Files : ~lock[f].flushed /\ ~Alive(lock[f].by)

\* Who waits for the modem gets it, or fails: a lock whose process is gone does
\* not keep others out (ttlocked()), unless that one is empty. (Where a lock was
\* robbed two processes may each hold one file and wait for the other.)
WaitersServed ==
  \A p \in Procs : IsAt(p, "look") /\ goal[p] = "lock"
                     ~> pc[p] \in {"begin", "ended", "dead"} \/ Orphan \/ robbed # {}

=============================================================================
