--------------------------- MODULE ReceivedFaxStore ---------------------------
(***************************************************************************)
(* What becomes of the files of a received fax.  The receiving efax opens  *)
(* a file for each page in the directory faxin/current.  When it has ended *)
(* receive_cleanup() of src/efax_controller.cpp moves them to a directory  *)
(* of their own, named after the time, by a link for each file and only    *)
(* then an unlink for each.  clean_up_receive_dir() of src/main.cpp does   *)
(* the same when the program starts, and in the atexit() handler when the  *)
(* X server has gone and a session may be running.                         *)
(*                                                                         *)
(* One system call on the directories is one step, and the power may fail  *)
(* between any two.  EfaxController does all this in one action.  Names    *)
(* that end in _Bug are seeded faults, as there.                           *)
(***************************************************************************)
EXTENDS Naturals, FiniteSets

CONSTANTS MaxFaxes,     \* bound: calls answered
          MaxPages,     \* bound: page files of a call, the last, empty one counted
          Names,        \* the time stamps that may name a directory
          NoName,       \* no directory is being filled
          Faults        \* the failures a behaviour may meet

FaultKinds == {"mkdir", "opendir", "link", "crash"}

ASSUME StoreAssumption == /\ MaxFaxes \in Nat /\ MaxPages \in Nat
                          /\ NoName \notin Names
                          /\ Faults \subseteq FaultKinds

VARIABLES
  pc,        \* what the program is doing
  leaving,   \* it is in its atexit() handler
  efax,      \* the efax process; dying: SIGTERM was sent, and it has not ended
  fax,       \* the last call answered
  page,      \* the page file efax has open, 0 if none
  exists,    \* the directory faxin/current is there
  current,   \* the page files in it
  data,      \* the page files that hold data
  dirs,      \* the directories made for faxes
  saved,     \* the page files in each of them
  name,      \* faxname: the directory being filled
  list,      \* filelist
  whole,     \* history: calls of which efax received a page or more, and ended
  failed     \* history: an operation on the directories failed, or the power

process == <<pc, leaving>>
line    == <<efax, fax, page, whole>>
moving  == <<name, list>>
vars    == <<process, line, exists, current, data, dirs, saved, moving, failed>>

Pages == (1..MaxFaxes) \X (1..MaxPages)
Open == <<fax, page>>

\* A file keeps its data under each name that is linked to it.
Filed == UNION {saved[n] : n \in dirs}
PagesOf(f) == {x \in data : x[1] = f}

Init ==
  /\ pc = "idle" /\ leaving = FALSE
  /\ efax = "none" /\ fax = 0 /\ page = 0 /\ whole = {}
  /\ exists = FALSE /\ current = {} /\ data = {}
  /\ dirs = {} /\ saved = [n \in Names |-> {}]
  /\ name = NoName /\ list = {}
  /\ failed = FALSE

----------------------------------------------------------------------------
(* The session: receive() and the efax it starts *)

\* The directory is used whether or not mkdir() has made it.
MayReceive_Bug == TRUE

MayReceive == ~exists

\* An efax that is still dying holds the modem; nothing comes of a session then.
Receive ==
  /\ pc = "idle" /\ efax = "none"
  /\ MayReceive
  /\ exists' = TRUE
  /\ efax' = "running" /\ page' = 0
  /\ pc' = "session"
  /\ UNCHANGED <<leaving, fax, whole, current, data, dirs, saved, moving, failed>>

\* fopen() for a page of the name cuts off a file of that name.
Opened(f, k) == {x \in current : x[2] # k} \cup {<<f, k>>}

AnswersCall ==
  /\ efax = "running" /\ page = 0 /\ fax < MaxFaxes /\ MaxPages > 0
  /\ fax' = fax + 1 /\ page' = 1
  /\ current' = Opened(fax + 1, 1)
  /\ UNCHANGED <<process, efax, whole, exists, data, dirs, saved, moving, failed>>

\* What efax has written leaves the buffer of stdio.
Flushed == data \cup {Open}

WritesPage ==
  /\ efax = "running" /\ page > 0
  /\ data' = Flushed
  /\ UNCHANGED <<process, line, exists, current, dirs, saved, moving, failed>>

\* A page has been received: its file is closed and the next one opened.
NextPage ==
  /\ efax = "running" /\ page \in 1..(MaxPages - 1)
  /\ data' = Flushed
  /\ page' = page + 1
  /\ current' = Opened(fax, page + 1)
  /\ UNCHANGED <<process, efax, fax, whole, exists, dirs, saved, moving, failed>>

\* The call is over: the file opened for a page that did not come is removed.
\* Without a page the first file stays, with what exit() flushes.
EfaxEnds ==
  /\ efax = "running"
  /\ efax' = "none"
  /\ IF page > 1
     THEN /\ current' = current \ {Open}
          /\ data' = data \ {Open}
          /\ whole' = whole \cup {fax}
     ELSE /\ data' = IF page = 1 THEN Flushed ELSE data
          /\ UNCHANGED <<current, whole>>
  /\ UNCHANGED <<process, fax, page, exists, dirs, saved, moving, failed>>

\* SIGTERM of stop() or of the exit, whose handler runs exit(), or SIGKILL.
EfaxKilled ==
  /\ efax # "none"
  /\ efax' = "none"
  /\ data' = data \/ (page > 0 /\ data' = Flushed)
  /\ UNCHANGED <<process, fax, page, whole, exists, current, dirs, saved, moving, failed>>

----------------------------------------------------------------------------
(* receive_cleanup(), and the moving of the files *)

Done == /\ pc' = IF leaving THEN "down" ELSE "idle"
        /\ leaving' = FALSE
        /\ name' = NoName /\ list' = {}

\* A session that brought nothing, or a first page without data, ends with
\* the removal of current; any other with the saving of the fax.
Cleanup ==
  /\ pc = "session" /\ efax = "none"
  /\ IF current = {}
     THEN /\ exists' = FALSE
          /\ Done
     ELSE /\ pc' = IF \E x \in current \ data : x[2] = 1 THEN "zero" ELSE "mkdir"
          /\ UNCHANGED <<leaving, exists, moving>>
  /\ UNCHANGED <<line, current, data, dirs, saved, failed>>

UnlinksZero ==
  /\ pc = "zero"
  /\ current' = {x \in current : x[2] # 1}
  /\ pc' = "rmdir"
  /\ UNCHANGED <<leaving, line, exists, data, dirs, saved, moving, failed>>

\* clean_up_receive_dir() does not look at the size of the first page.
CleanUpReceiveDir ==
  /\ pc = "clean"
  /\ IF current = {}
     THEN /\ exists' = FALSE
          /\ Done
     ELSE /\ pc' = "mkdir"
          /\ UNCHANGED <<leaving, exists, moving>>
  /\ UNCHANGED <<line, current, data, dirs, saved, failed>>

NewNames == Names \ dirs

\* mkdir(), tried with up to four time stamps.
MakesDir ==
  /\ pc = "mkdir"
  /\ \E n \in NewNames :
       /\ name' = n
       /\ dirs' = dirs \cup {n}
  /\ pc' = "opendir"
  /\ UNCHANGED <<leaving, line, exists, current, data, saved, list, failed>>

\* Also when Names has run out, which bounds a behaviour.
MakesNoDir ==
  /\ pc = "mkdir"
  /\ "mkdir" \in Faults \/ NewNames = {}
  /\ Done
  /\ failed' = TRUE
  /\ UNCHANGED <<line, exists, current, data, dirs, saved>>

ListsFiles ==
  /\ pc = "opendir"
  /\ list' = current
  /\ pc' = "move"
  /\ UNCHANGED <<leaving, line, exists, current, data, dirs, saved, name, failed>>

ListsNoFiles ==
  /\ pc = "opendir"
  /\ "opendir" \in Faults
  /\ Done
  /\ failed' = TRUE
  /\ UNCHANGED <<line, exists, current, data, dirs, saved>>

LinksFile ==
  /\ pc = "move"
  /\ \E x \in list \ saved[name] : saved' = [saved EXCEPT ![name] = @ \cup {x}]
  /\ UNCHANGED <<process, line, exists, current, data, dirs, moving, failed>>

\* Nothing is unlinked: all of the fax stays in current, a part is linked.
LinkFails ==
  /\ pc = "move"
  /\ "link" \in Faults
  /\ ~(list \subseteq saved[name])
  /\ Done
  /\ failed' = TRUE
  /\ UNCHANGED <<line, exists, current, data, dirs, saved>>

\* Each file is unlinked once it is linked, before the others are.
Unlinkable_Bug == list \cap saved[name]

\* The files that may be unlinked: none before the last link is made.
Unlinkable == IF list \subseteq saved[name] THEN list ELSE {}

UnlinksFile ==
  /\ pc = "move"
  /\ \E x \in Unlinkable \cap current : current' = current \ {x}
  /\ UNCHANGED <<process, line, exists, data, dirs, saved, moving, failed>>

AllMoved ==
  /\ pc = "move"
  /\ list \subseteq saved[name] /\ list \cap current = {}
  /\ pc' = "rmdir"
  /\ UNCHANGED <<leaving, line, exists, current, data, dirs, saved, moving, failed>>

\* rmdir() fails on a directory that is not empty, which is only reported.
RemovesDir ==
  /\ pc = "rmdir"
  /\ exists' = (current # {})
  /\ Done
  /\ UNCHANGED <<line, current, data, dirs, saved, failed>>

----------------------------------------------------------------------------
(* The end of the process and its next start *)

\* The exit is taken without a look at what current holds.
AtExit_Bug == pc' = "down" /\ leaving' = FALSE

AtExit == pc' = "clean" /\ leaving' = TRUE

\* atexit_cleanup(), called from exit() in the main loop.
XServerGone ==
  /\ pc \in {"idle", "session"}
  /\ efax' = IF efax = "running" THEN "dying" ELSE efax
  /\ AtExit
  /\ UNCHANGED <<fax, page, whole, exists, current, data, dirs, saved, moving, failed>>

Crash ==
  /\ "crash" \in Faults
  /\ pc # "down"
  /\ pc' = "down" /\ leaving' = FALSE
  /\ efax' = "none"
  /\ name' = NoName /\ list' = {}
  /\ failed' = TRUE
  /\ UNCHANGED <<fax, page, whole, exists, current, data, dirs, saved>>

Start ==
  /\ pc = "down"
  /\ pc' = "clean"
  /\ UNCHANGED <<leaving, line, exists, current, data, dirs, saved, moving, failed>>

----------------------------------------------------------------------------
Efax == AnswersCall \/ WritesPage \/ NextPage \/ EfaxEnds \/ EfaxKilled
Moves == \/ Cleanup \/ UnlinksZero \/ CleanUpReceiveDir \/ MakesDir \/ MakesNoDir
         \/ ListsFiles \/ ListsNoFiles \/ LinksFile \/ LinkFails \/ UnlinksFile
         \/ AllMoved \/ RemovesDir
Next == Receive \/ Efax \/ Moves \/ XServerGone \/ Crash \/ Start

Spec == Init /\ [][Next]_vars

\* The timer runs and the calls on the directories return.
FairSpec == Spec /\ WF_vars(Moves)

----------------------------------------------------------------------------
TypeOK ==
  /\ pc \in {"idle", "session", "clean", "zero", "mkdir", "opendir", "move", "rmdir", "down"}
  /\ leaving \in BOOLEAN /\ exists \in BOOLEAN /\ failed \in BOOLEAN
  /\ efax \in {"none", "running", "dying"}
  /\ fax \in 0..MaxFaxes /\ page \in 0..MaxPages
  /\ whole \subseteq 1..MaxFaxes
  /\ current \subseteq Pages /\ data \subseteq Pages /\ list \subseteq Pages
  /\ dirs \subseteq Names
  /\ saved \in [Names -> SUBSET Pages]
  /\ name \in Names \cup {NoName}

(* No page efax has received is lost, whatever fails and whenever the      *)
(* power does: its file has a name in faxin/current or in a directory of   *)
(* received faxes.                                                         *)
NothingLost == data \subseteq current \cup Filed

(* A directory never holds pages of two faxes.                             *)
OneFaxEach == \A n \in dirs : \A x, y \in saved[n] : x[1] = y[1]

(* A fax received to its end is never only in pieces: all its pages are    *)
(* still in faxin/current, or all are in one directory.                    *)
KeptTogether ==
  \A f \in whole : PagesOf(f) \subseteq current
                   \/ \E n \in dirs : PagesOf(f) \subseteq saved[n]

(* Faxes are neither mixed nor torn apart.                                 *)
FaxesApart == OneFaxEach /\ KeptTogether

(* A program that waits for its next session, and has met no failure, has  *)
(* each page in one directory only, and nothing in faxin/current.          *)
StoredOnce ==
  pc = "idle" /\ ~failed =>
    /\ ~exists
    /\ \A x \in data : Cardinality({n \in dirs : x \in saved[n]}) = 1

(* A fax received to its end gets a directory of its own, whether the      *)
(* program goes on or leaves, unless an operation fails.                   *)
FaxesFiled ==
  \A f \in 1..MaxFaxes :
    f \in whole ~> failed \/ \E n \in dirs : PagesOf(f) # {} /\ PagesOf(f) \subseteq saved[n]

(* A fax received to its end is filed, and once: nothing is stored twice   *)
(* while nothing fails.                                                    *)
FiledOnce == []StoredOnce /\ FaxesFiled

=============================================================================
