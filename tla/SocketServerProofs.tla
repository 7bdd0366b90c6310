-------------------------- MODULE SocketServerProofs --------------------------
(***************************************************************************)
(* Proofs about SocketServer, for every set of jobs, ports and settings,   *)
(* every number the jobs are counted up to, and every choice of what the   *)
(* user does and what goes wrong.                                          *)
(***************************************************************************)
EXTENDS SocketServer, SequenceLemmas

Emissions == {"stdout", "changed", "fax", "error"}
Holding == {"accepted", "read", "report", "add", "save", "changed", "offer"}
Queueing == {"save", "changed", "offer"}

(* The types of what the two buffers are made from.  The list itself is    *)
(* left out: the properties of the buffers do not depend on what is in it. *)
BufferTypes ==
  /\ thread \in {"none", "setup", "greet", "accept", "accepted", "read", "report", "add",
                "save", "changed", "offer", "ended"}
  /\ job \in Jobs \cup {NoJob} /\ clients \subseteq Jobs
  /\ text \in BOOLEAN /\ faxToSend \in Numbered \cup {NoFax}
  /\ inbox \in Seq(Emissions)
  /\ received \in Seq(Jobs) /\ announced \in Seq(Jobs)

CountTypes == count \in 0..MaxCount /\ saved.count \in 0..MaxCount /\ draft.count \in 0..MaxCount

\* The server thread has a job, and has counted it before it queues it.
JobHeld == /\ thread \in Holding => job \in Jobs
           /\ thread \in {"add"} \cup Queueing => count # 0

\* A number that is not 0 tells a taken fax_to_send from an empty one.
Buffers == BufferTypes /\ CountTypes /\ JobHeld /\ PlacesNotified

\* There is a thread only in a server that runs, and a server only in a process.
Idle == /\ ~running => fd = "closed" /\ thread = "none"
        /\ gui = "down" => ~running

\* The inductive invariant.
Serving == Buffers /\ Idle /\ HandedOverOnce /\ RowsCurrent

----------------------------------------------------------------------------
(* A place is empty exactly when its number is 0. *)
LEMMA EmptyPlace == ASSUME faxToSend \in Numbered \cup {NoFax}
                    PROVE  faxToSend.number = 0 <=> faxToSend = NoFax
<1>1. \A n \in Numbered : n.number # 0
  BY ChoicesAssumption DEF Numbered
<1> QED BY <1>1 DEF NoFax

(* The number given to a job is one that fax_to_send can carry. *)
LEMMA CountsOn == ASSUME count \in 0..MaxCount PROVE NextCount \in 1..MaxCount
BY ChoicesAssumption DEF NextCount

(* What an emission puts in the pipe. *)
LEMMA EmitAppends ==
  ASSUME inbox \in Seq(Emissions), NEW m \in Emissions, inbox' = Append(inbox, m)
  PROVE  /\ inbox' \in Seq(Emissions)
         /\ Emitted(m)' = Emitted(m) \cup {Len(inbox) + 1}
         /\ \A w : w # m => Emitted(w)' = Emitted(w)
         /\ Len(inbox) + 1 \notin Emitted(m)
<1>1. /\ Len(inbox') = Len(inbox) + 1
      /\ inbox'[Len(inbox) + 1] = m
      /\ \A k \in 1..Len(inbox) : inbox'[k] = inbox[k]
      /\ Len(inbox) \in Nat
  OBVIOUS
<1>2. inbox' \in Seq(Emissions)
  OBVIOUS
<1>3. 1..Len(inbox') = (1..Len(inbox)) \cup {Len(inbox) + 1}
  BY <1>1
<1>4. Len(inbox) + 1 \notin 1..Len(inbox)
  BY <1>1
<1> QED BY <1>1, <1>2, <1>3, <1>4 DEF Emitted

(* What reading the pipe leaves in it. *)
LEMMA ReadTails ==
  ASSUME inbox \in Seq(Emissions), inbox # <<>>, inbox' = Tail(inbox)
  PROVE  /\ inbox' \in Seq(Emissions)
         /\ Head(inbox) \in Emissions
         /\ 1 \in Emitted(Head(inbox))
         /\ \A w, k : k \in Emitted(w)' <=> k + 1 \in Emitted(w) /\ k \in Nat \ {0}
         /\ \A w, k : k \in Emitted(w) => k \in Nat \ {0}
<1>1. /\ Len(inbox') = Len(inbox) - 1
      /\ \A k \in 1..Len(inbox') : inbox'[k] = inbox[k + 1]
      /\ Len(inbox) \in Nat \ {0}
      /\ Head(inbox) = inbox[1]
  OBVIOUS
<1>2. inbox' \in Seq(Emissions) /\ Head(inbox) \in Emissions
  OBVIOUS
<1>3. 1 \in Emitted(Head(inbox))
  BY <1>1 DEF Emitted
<1>4. ASSUME NEW w, NEW k PROVE k \in Emitted(w)' <=> k + 1 \in Emitted(w) /\ k \in Nat \ {0}
  BY <1>1 DEF Emitted
<1>5. \A w, k : k \in Emitted(w) => k \in Nat \ {0}
  BY DEF Emitted
<1> QED BY <1>2, <1>3, <1>4, <1>5

(* A place that was empty is filled and notified. *)
LEMMA Fills ==
  ASSUME inbox \in Seq(Emissions), NEW m \in {"stdout", "fax"}, inbox' = Append(inbox, m),
         Emitted(m) = {}
  PROVE  Emitted(m)' # {} /\ AtMostOne(Emitted(m))'
<1>1. Emitted(m)' = {Len(inbox) + 1}
  BY EmitAppends DEF Emissions
<1> QED BY <1>1 DEF AtMostOne

(* Other emissions change neither place. *)
LEMMA Passes ==
  ASSUME inbox \in Seq(Emissions), NEW m \in Emissions, inbox' = Append(inbox, m),
         NEW w, w # m
  PROVE  Emitted(w)' = Emitted(w) /\ (AtMostOne(Emitted(w)) => AtMostOne(Emitted(w))')
<1>1. Emitted(w)' = Emitted(w)
  BY EmitAppends
<1> QED BY <1>1 DEF AtMostOne

(* The slot that empties a place reads the only notification of it. *)
LEMMA Empties ==
  ASSUME inbox \in Seq(Emissions), NEW m, Takes(m), AtMostOne(Emitted(m))
  PROVE  Emitted(m)' = {} /\ Emitted(m) # {}
<1>1. inbox # <<>> /\ inbox' = Tail(inbox) /\ m = Head(inbox)
  BY DEF Takes
<1>2. 1 \in Emitted(m)
  BY <1>1, ReadTails
<1>3. ASSUME NEW k \in Emitted(m)' PROVE FALSE
  <2>1. k + 1 \in Emitted(m) /\ k \in Nat \ {0}
    BY <1>1, <1>3, ReadTails
  <2>2. k + 1 = 1
    BY <1>2, <2>1 DEF AtMostOne
  <2> QED BY <2>1, <2>2
<1> QED BY <1>2, <1>3

(* The other slots leave it as it is. *)
LEMMA Keeps ==
  ASSUME inbox \in Seq(Emissions), NEW m, Takes(m), NEW w, w # m
  PROVE  /\ Emitted(w)' # {} <=> Emitted(w) # {}
         /\ AtMostOne(Emitted(w)) => AtMostOne(Emitted(w))'
<1>1. inbox # <<>> /\ inbox' = Tail(inbox) /\ m = Head(inbox)
  BY DEF Takes
<1>2. \A k : k \in Emitted(w)' <=> k + 1 \in Emitted(w) /\ k \in Nat \ {0}
  BY <1>1, ReadTails
<1>3. ASSUME NEW k \in Emitted(w) PROVE k - 1 \in Emitted(w)'
  <2>1. k \in Nat \ {0}
    BY <1>1, <1>3, ReadTails
  <2>2. k # 1
    BY <1>1, <1>3 DEF Emitted
  <2>3. (k - 1) + 1 = k /\ k - 1 \in Nat \ {0}
    BY <2>1, <2>2
  <2> QED BY <1>2, <1>3, <2>3
<1>4. Emitted(w)' # {} <=> Emitted(w) # {}
  BY <1>2, <1>3
<1>5. ASSUME AtMostOne(Emitted(w)), NEW a \in Emitted(w)', NEW b \in Emitted(w)' PROVE a = b
  <2>1. a + 1 = b + 1 /\ a \in Nat /\ b \in Nat
    BY <1>2, <1>5 DEF AtMostOne
  <2> QED BY <2>1
<1> QED BY <1>4, <1>5 DEF AtMostOne

(* A step that leaves the two places and the pipe alone. *)
LEMMA PlacesFrame ==
  ASSUME PlacesNotified, UNCHANGED <<text, faxToSend, inbox>>
  PROVE  PlacesNotified'
BY DEF PlacesNotified, Emitted, AtMostOne

(* The end of a process empties both places and the pipe. *)
LEMMA PlacesEmptied ==
  ASSUME text' = FALSE, faxToSend' = NoFax, inbox' = <<>>
  PROVE  PlacesNotified'
<1>1. \A w : Emitted(w)' = {}
  BY DEF Emitted
<1> QED BY <1>1 DEF PlacesNotified, AtMostOne

(* An emission that has no place. *)
LEMMA PlacesPassed ==
  ASSUME inbox \in Seq(Emissions), PlacesNotified, UNCHANGED <<text, faxToSend>>,
         NEW m \in {"changed", "error"}, inbox' = Append(inbox, m)
  PROVE  PlacesNotified'
<1>1. \A w \in {"stdout", "fax"} :
        Emitted(w)' = Emitted(w) /\ (AtMostOne(Emitted(w)) => AtMostOne(Emitted(w))')
  BY Passes DEF Emissions
<1> QED BY <1>1 DEF PlacesNotified

----------------------------------------------------------------------------
(* Every step keeps the two places and their notifications together. *)
LEMMA PlacesStep ==
  ASSUME Buffers, [Next]_vars
  PROVE  PlacesNotified'
<1>0. BufferTypes /\ CountTypes /\ JobHeld /\ PlacesNotified
  BY DEF Buffers
<1>1. inbox \in Seq(Emissions)
  BY <1>0 DEF BufferTypes
<1>2. CASE WritesStdout
  <2>1. Emitted("stdout") = {} /\ inbox' = Append(inbox, "stdout") /\ text' = TRUE
        /\ faxToSend' = faxToSend
    BY <1>0, <1>2 DEF WritesStdout, TextFree, PlacesNotified
  <2>2. Emitted("stdout")' # {} /\ AtMostOne(Emitted("stdout"))'
    BY <1>1, <2>1, Fills
  <2>3. Emitted("fax")' = Emitted("fax")
        /\ (AtMostOne(Emitted("fax")) => AtMostOne(Emitted("fax"))')
    BY <1>1, <2>1, Passes DEF Emissions
  <2> QED BY <1>0, <2>1, <2>2, <2>3 DEF PlacesNotified
<1>3. CASE OffersFax
  <2>1. Emitted("fax") = {} /\ inbox' = Append(inbox, "fax") /\ text' = text
    BY <1>0, <1>3, EmptyPlace DEF OffersFax, FaxFree, PlacesNotified, BufferTypes
  <2>2. faxToSend' # NoFax
    <3>1. faxToSend' = [job |-> job, number |-> count] /\ count # 0
      BY <1>0, <1>3 DEF OffersFax, JobHeld, Queueing
    <3>2. faxToSend'.number # 0
      BY <3>1
    <3> QED BY <3>2 DEF NoFax
  <2>3. Emitted("fax")' # {} /\ AtMostOne(Emitted("fax"))'
    BY <1>1, <2>1, Fills
  <2>4. Emitted("stdout")' = Emitted("stdout")
        /\ (AtMostOne(Emitted("stdout")) => AtMostOne(Emitted("stdout"))')
    BY <1>1, <2>1, Passes DEF Emissions
  <2> QED BY <1>0, <2>1, <2>2, <2>3, <2>4 DEF PlacesNotified
<1>4. CASE StdoutSlot
  <2>1. Takes("stdout") /\ text' = FALSE /\ faxToSend' = faxToSend
    BY <1>4 DEF StdoutSlot
  <2>2. Emitted("stdout")' = {}
    BY <1>0, <1>1, <2>1, Empties DEF PlacesNotified
  <2>3. /\ Emitted("fax")' # {} <=> Emitted("fax") # {}
        /\ AtMostOne(Emitted("fax")) => AtMostOne(Emitted("fax"))'
    BY <1>1, <2>1, Keeps
  <2> QED BY <1>0, <2>1, <2>2, <2>3 DEF PlacesNotified, AtMostOne
<1>5. CASE FaxSlot
  <2>1. Takes("fax") /\ faxToSend' = NoFax /\ text' = text
    BY <1>5 DEF FaxSlot
  <2>2. Emitted("fax")' = {}
    BY <1>0, <1>1, <2>1, Empties DEF PlacesNotified
  <2>3. /\ Emitted("stdout")' # {} <=> Emitted("stdout") # {}
        /\ AtMostOne(Emitted("stdout")) => AtMostOne(Emitted("stdout"))'
    BY <1>1, <2>1, Keeps
  <2> QED BY <1>0, <2>1, <2>2, <2>3 DEF PlacesNotified, AtMostOne
<1>6. CASE ListSlot \/ ErrorSlot
  <2>1. PICK m \in {"changed", "error"} : Takes(m)
    BY <1>6 DEF ListSlot, ErrorSlot
  <2>2. UNCHANGED <<text, faxToSend>>
    BY <1>6 DEF ListSlot, ErrorSlot
  <2>3. /\ Emitted("stdout")' # {} <=> Emitted("stdout") # {}
        /\ AtMostOne(Emitted("stdout")) => AtMostOne(Emitted("stdout"))'
    BY <1>1, <2>1, Keeps
  <2>4. /\ Emitted("fax")' # {} <=> Emitted("fax") # {}
        /\ AtMostOne(Emitted("fax")) => AtMostOne(Emitted("fax"))'
    BY <1>1, <2>1, Keeps
  <2> QED BY <1>0, <2>2, <2>3, <2>4 DEF PlacesNotified
<1>7. CASE SetupFails \/ AcceptFails \/ NotifiesList
  <2>1. PICK m \in {"changed", "error"} : inbox' = Append(inbox, m)
    BY <1>7 DEF SetupFails, AcceptFails, Fails, NotifiesList, EmitsChanged
  <2>2. UNCHANGED <<text, faxToSend>>
    BY <1>7 DEF SetupFails, AcceptFails, NotifiesList
  <2> QED BY <1>0, <1>1, <2>1, <2>2, PlacesPassed
<1>8. CASE TakesJob
  <2>1. UNCHANGED <<text, faxToSend>> /\ (inbox' = inbox \/ inbox' = Append(inbox, "error"))
    BY <1>8 DEF TakesJob, Fails
  <2> QED BY <1>0, <1>1, <2>1, PlacesPassed, PlacesFrame
<1>9. CASE SetsUp \/ Sleeps \/ Accepts \/ IsCancelled \/ Reads \/ AddsFile \/ SavesFile
  BY <1>0, <1>9, PlacesFrame DEF SetsUp, Sleeps, Accepts, IsCancelled, Reads, AddsFile,
                                 SavesFile, buffers
<1>10. CASE Gui \/ User \/ Boot
  BY <1>0, <1>10, PlacesFrame DEF Gui, JoinReturns, RemoveOpens, RemoveSaves, User,
                                  SettingsChanged, Close, RemoveFile, Boot, buffers
<1>11. CASE Exit \/ Crash
  BY <1>11, PlacesEmptied DEF Exit, Crash, Ends
<1>12. CASE UNCHANGED vars
  BY <1>0, <1>12, PlacesFrame DEF vars, buffers
<1> QED BY <1>2, <1>3, <1>4, <1>5, <1>6, <1>7, <1>8, <1>9, <1>10, <1>11, <1>12
        DEF Next, Server, Slots

----------------------------------------------------------------------------
(* The numbers stay within what they are counted up to. *)
LEMMA CountStep ==
  ASSUME CountTypes, [Next]_vars
  PROVE  CountTypes'
<1>0. count \in 0..MaxCount /\ saved.count \in 0..MaxCount /\ draft.count \in 0..MaxCount
  BY DEF CountTypes
<1>1. 0 \in 0..MaxCount /\ NoList.count = 0 /\ MaxCount \in Nat
  BY ChoicesAssumption DEF NoList
<1>2. CASE WritesStdout
  <2>1. count' \in 0..MaxCount
    <3>1. NextCount \in 0..MaxCount
      BY <1>0, <1>1, CountsOn
    <3> QED BY <1>0, <1>2, <3>1 DEF WritesStdout
  <2> QED BY <1>0, <1>2, <2>1 DEF WritesStdout, disk, CountTypes
<1>3. CASE AddsFile
  BY <1>0, <1>1, <1>3 DEF AddsFile, CountTypes
<1>4. CASE SavesFile
  <2>1. saved' = Overlay(SavesList)
    BY <1>4 DEF SavesFile
  <2>2. saved'.count \in 0..MaxCount
    BY <1>0, <2>1 DEF Overlay, SavesList
  <2> QED BY <1>0, <1>4, <2>2 DEF SavesFile, queue, CountTypes
<1>5. CASE RemoveOpens
  BY <1>0, <1>1, <1>5 DEF RemoveOpens, queue, CountTypes
<1>6. CASE RemoveSaves
  <2>1. saved' = Overlay(draft)
    BY <1>6 DEF RemoveSaves
  <2>2. saved'.count \in 0..MaxCount
    BY <1>0, <2>1 DEF Overlay
  <2> QED BY <1>0, <1>1, <1>6, <2>2 DEF RemoveSaves, queue, CountTypes
<1>7. CASE Exit \/ Crash
  BY <1>0, <1>1, <1>7 DEF Exit, Crash, Ends, CountTypes
<1>8. CASE Boot
  BY <1>0, <1>8 DEF Boot, ReadQueuedFaxes, disk, CountTypes
<1>9. CASE \/ SetupFails \/ SetsUp \/ Sleeps \/ Accepts \/ IsCancelled \/ AcceptFails
           \/ TakesJob \/ Reads \/ NotifiesList \/ OffersFax
  BY <1>0, <1>9 DEF SetupFails, SetsUp, Sleeps, Accepts, IsCancelled, AcceptFails, TakesJob,
                    Reads, NotifiesList, OffersFax, queue, disk, CountTypes
<1>10. CASE Slots \/ User \/ JoinReturns \/ UNCHANGED vars
  BY <1>0, <1>10 DEF Slots, StdoutSlot, ListSlot, FaxSlot, ErrorSlot, User, SettingsChanged,
                     Close, RemoveFile, JoinReturns, queue, disk, vars, CountTypes
<1> QED BY <1>2, <1>3, <1>4, <1>5, <1>6, <1>7, <1>8, <1>9, <1>10 DEF Next, Server, Gui

----------------------------------------------------------------------------
(* The buffers keep their types. *)
LEMMA TypesStep ==
  ASSUME Buffers, [Next]_vars
  PROVE  BufferTypes'
<1>0. /\ BufferTypes /\ CountTypes /\ JobHeld /\ PlacesNotified
      /\ inbox \in Seq(Emissions)
  BY DEF Buffers, BufferTypes
<1>1. \A m \in Emissions : Append(inbox, m) \in Seq(Emissions)
  BY <1>0
<1>2. inbox # <<>> => Tail(inbox) \in Seq(Emissions)
  BY <1>0
<1>3. CASE WritesStdout
  BY <1>0, <1>1, <1>3 DEF WritesStdout, BufferTypes, Emissions, disk, history
<1>4. CASE SetupFails \/ AcceptFails \/ NotifiesList
  BY <1>0, <1>1, <1>4 DEF SetupFails, AcceptFails, NotifiesList, Fails, EmitsChanged,
                          BufferTypes, Emissions, history
<1>5. CASE TakesJob
  BY <1>0, <1>1, <1>5 DEF TakesJob, Fails, BufferTypes, Emissions, history
<1>6. CASE AddsFile
  <2>1. job \in Jobs
    BY <1>0, <1>6 DEF AddsFile, JobHeld, Holding
  <2>2. received' \in Seq(Jobs)
    BY <1>0, <1>6, <2>1 DEF AddsFile, BufferTypes
  <2> QED BY <1>0, <1>6, <2>2 DEF AddsFile, BufferTypes, buffers
<1>7. CASE OffersFax
  <2>1. job \in Jobs /\ count \in 1..MaxCount
    BY <1>0, <1>7 DEF OffersFax, JobHeld, Holding, Queueing, CountTypes
  <2>2. faxToSend' \in Numbered
    BY <1>7, <2>1 DEF OffersFax, Numbered
  <2>3. inbox' \in Seq(Emissions)
    BY <1>1, <1>7 DEF OffersFax, Emissions
  <2> QED BY <1>0, <1>7, <2>2, <2>3 DEF OffersFax, BufferTypes, history
<1>8. CASE Accepts
  BY <1>0, <1>8 DEF Accepts, BufferTypes, buffers, history
<1>9. CASE SetsUp \/ Sleeps \/ IsCancelled \/ Reads \/ SavesFile
  BY <1>0, <1>9 DEF SetsUp, Sleeps, IsCancelled, Reads, SavesFile, BufferTypes, buffers, history
<1>10. CASE StdoutSlot \/ ListSlot \/ ErrorSlot
  BY <1>0, <1>2, <1>10 DEF StdoutSlot, ListSlot, ErrorSlot, Takes, BufferTypes, server, history
<1>11. CASE FaxSlot
  <2>1. Takes("fax")
    BY <1>11 DEF FaxSlot
  <2>2. faxToSend # NoFax
    BY <1>0, <2>1, Empties DEF PlacesNotified
  <2>3. faxToSend.job \in Jobs
    BY <1>0, <2>2 DEF BufferTypes, Numbered
  <2>4. announced' \in Seq(Jobs)
    BY <1>0, <1>11, <2>3 DEF FaxSlot, BufferTypes
  <2>5. inbox' \in Seq(Emissions)
    BY <1>2, <2>1 DEF Takes
  <2> QED BY <1>0, <1>11, <2>4, <2>5 DEF FaxSlot, BufferTypes
<1>12. CASE SettingsChanged
  BY <1>0, <1>12 DEF SettingsChanged, StopServer, StartServer, BufferTypes, buffers, history
<1>13. CASE JoinReturns
  BY <1>0, <1>13 DEF JoinReturns, StartServer, BufferTypes, buffers, history
<1>14. CASE Close \/ RemoveFile \/ RemoveOpens \/ RemoveSaves
  BY <1>0, <1>14 DEF Close, StopServer, RemoveFile, RemoveOpens, RemoveSaves, BufferTypes,
                     server, buffers, history
<1>15. CASE Boot
  BY <1>0, <1>15 DEF Boot, StartServer, BufferTypes, buffers, history
<1>16. CASE Exit \/ Crash
  <2>1. faxToSend' = NoFax /\ inbox' = <<>> /\ received' = <<>> /\ announced' = <<>>
        /\ text' = FALSE /\ thread' = "none" /\ job' = NoJob /\ clients' = clients
    BY <1>16 DEF Exit, Crash, Ends
  <2>2. inbox' \in Seq(Emissions) /\ received' \in Seq(Jobs) /\ announced' \in Seq(Jobs)
    BY <2>1
  <2> QED BY <1>0, <2>1, <2>2 DEF BufferTypes
<1>17. CASE UNCHANGED vars
  BY <1>0, <1>17 DEF vars, server, buffers, history, BufferTypes
<1> QED BY <1>3, <1>4, <1>5, <1>6, <1>7, <1>8, <1>9, <1>10, <1>11, <1>12, <1>13, <1>14,
           <1>15, <1>16, <1>17 DEF Next, Server, Slots, Gui, User

(* A thread that handles a connection has its job, and has counted it. *)
LEMMA JobStep ==
  ASSUME Buffers, Idle, [Next]_vars
  PROVE  JobHeld'
<1>0. BufferTypes /\ CountTypes /\ JobHeld /\ Idle
  BY DEF Buffers
<1>1. CASE WritesStdout
  <2>1. thread = "greet" => JobHeld'
    BY <1>1 DEF WritesStdout, JobHeld, Holding, Queueing
  <2>2. ASSUME thread # "greet" PROVE JobHeld'
    <3>1. thread' = "add" /\ count' = NextCount /\ job \in Jobs /\ job' = job
      BY <1>0, <1>1, <2>2 DEF WritesStdout, JobHeld, Holding
    <3>2. count' # 0
      BY <1>0, <3>1, CountsOn, ChoicesAssumption DEF CountTypes
    <3> QED BY <3>1, <3>2 DEF JobHeld, Holding, Queueing
  <2> QED BY <2>1, <2>2
<1>2. CASE Accepts
  BY <1>0, <1>2 DEF Accepts, BufferTypes, JobHeld, Holding, Queueing
<1>3. CASE \/ SetupFails \/ SetsUp \/ Sleeps \/ IsCancelled \/ AcceptFails \/ TakesJob \/ Reads
           \/ AddsFile \/ SavesFile \/ NotifiesList \/ OffersFax
  BY <1>0, <1>3 DEF SetupFails, SetsUp, Sleeps, IsCancelled, AcceptFails, TakesJob, Reads,
                    AddsFile, SavesFile, NotifiesList, OffersFax, Fails, queue,
                    JobHeld, Holding, Queueing
<1>4. CASE Slots \/ RemoveFile \/ RemoveOpens \/ RemoveSaves \/ Close \/ UNCHANGED vars
  BY <1>0, <1>4 DEF Slots, StdoutSlot, ListSlot, FaxSlot, ErrorSlot, RemoveFile, RemoveOpens,
                    RemoveSaves, Close, StopServer, vars, server, queue, JobHeld, Holding,
                    Queueing
<1>5. CASE SettingsChanged
  BY <1>0, <1>5 DEF SettingsChanged, StopServer, StartServer, queue, JobHeld, Holding, Queueing
<1>6. CASE JoinReturns
  BY <1>0, <1>6 DEF JoinReturns, StartServer, queue, JobHeld, Holding, Queueing
<1>7. CASE Exit \/ Crash
  BY <1>7 DEF Exit, Crash, Ends, JobHeld, Holding, Queueing
<1>8. CASE Boot
  <2>1. thread = "none"
    BY <1>0, <1>8 DEF Boot, Idle
  <2>2. thread' \in {"setup", "none"}
    BY <1>8, <2>1 DEF Boot, StartServer
  <2> QED BY <2>2 DEF JobHeld, Holding, Queueing
<1> QED BY <1>1, <1>2, <1>3, <1>4, <1>5, <1>6, <1>7, <1>8 DEF Next, Server, Gui, User

----------------------------------------------------------------------------
(* A server is stopped with its thread joined and its socket closed. *)
LEMMA IdleStep ==
  ASSUME Idle, [Next]_vars
  PROVE  Idle'
<1>1. CASE Server
  BY <1>1 DEF Idle, Server, SetupFails, SetsUp, WritesStdout, Sleeps, Accepts, IsCancelled,
              AcceptFails, TakesJob, Reads, AddsFile, SavesFile, NotifiesList, OffersFax,
              settings
<1>2. CASE Slots
  BY <1>2 DEF Idle, Slots, StdoutSlot, ListSlot, FaxSlot, ErrorSlot, settings, server
<1>3. CASE SettingsChanged \/ Close \/ RemoveFile
  BY <1>3 DEF Idle, SettingsChanged, Close, RemoveFile, StopServer, StartServer, settings, server
<1>4. CASE JoinReturns
  BY <1>4 DEF Idle, JoinReturns, StartServer, CloseSocket
<1>5. CASE RemoveOpens \/ RemoveSaves
  BY <1>5 DEF Idle, RemoveOpens, RemoveSaves, settings, server
<1>6. CASE Exit \/ Crash
  BY <1>6 DEF Idle, Exit, Crash, Ends
<1>7. CASE Boot
  BY <1>7 DEF Idle, Boot, StartServer
<1>8. CASE UNCHANGED vars
  BY <1>8 DEF Idle, vars, settings, server
<1> QED BY <1>1, <1>2, <1>3, <1>4, <1>5, <1>6, <1>7, <1>8 DEF Next, Gui, User

----------------------------------------------------------------------------
(* The job in fax_to_send, and the one the server thread has queued. *)
Placed == IF faxToSend # NoFax THEN <<faxToSend.job>> ELSE <<>>
InHand == IF thread \in Queueing THEN <<job>> ELSE <<>>
InOrder == received = announced \o Placed \o InHand

LEMMA InOrderIs == HandedOverOnce <=> InOrder
BY DEF HandedOverOnce, InOrder, Placed, InHand, Queueing

LEMMA InOrderIsPrime == HandedOverOnce' <=> InOrder'
BY DEF HandedOverOnce, InOrder, Placed, InHand, Queueing

(* A step that moves no job. *)
LEMMA OrderFrame ==
  ASSUME HandedOverOnce, UNCHANGED <<received, announced, faxToSend>>,
         (thread' = thread /\ job' = job) \/ (thread \in Queueing /\ thread' \in Queueing /\ job' = job)
         \/ (thread \notin Queueing /\ thread' \notin Queueing)
  PROVE  HandedOverOnce'
BY DEF HandedOverOnce, Queueing

(* Every step keeps the jobs in order. *)
LEMMA OrderStep ==
  ASSUME Buffers, Idle, HandedOverOnce, [Next]_vars
  PROVE  HandedOverOnce'
<1>0. /\ BufferTypes /\ CountTypes /\ JobHeld /\ PlacesNotified /\ Idle
      /\ received \in Seq(Jobs) /\ announced \in Seq(Jobs) /\ inbox \in Seq(Emissions)
      /\ HandedOverOnce
  BY DEF Buffers, BufferTypes
<1>1. Placed \in Seq(Jobs)
  BY <1>0 DEF Placed, BufferTypes, Numbered
<1>2. InOrder
  BY InOrderIs
<1>3. CASE AddsFile
  <2>1. job \in Jobs /\ job' = job /\ InHand = <<>> /\ InHand' = <<job>>
    BY <1>0, <1>3 DEF AddsFile, JobHeld, Holding, InHand, Queueing
  <2>2. Placed' = Placed /\ announced' = announced
    BY <1>3 DEF AddsFile, Placed, buffers
  <2>3. received = announced \o Placed
    BY <1>0, <1>1, <1>2, <2>1 DEF InOrder
  <2>4. received' = Append(received, job)
    BY <1>3 DEF AddsFile
  <2>5. received' = received \o <<job>>
    BY <1>0, <2>1, <2>4
  <2>6. InOrder'
    BY <2>1, <2>2, <2>3, <2>5 DEF InOrder
  <2> QED BY <2>6, InOrderIsPrime
<1>4. CASE OffersFax
  <2>1. job \in Jobs /\ InHand = <<job>> /\ InHand' = <<>>
    BY <1>0, <1>4 DEF OffersFax, JobHeld, Holding, InHand, Queueing
  <2>2. Placed = <<>>
    BY <1>0, <1>4, EmptyPlace DEF OffersFax, FaxFree, Placed, BufferTypes
  <2>3. Placed' = <<job>>
    <3>1. faxToSend' = [job |-> job, number |-> count] /\ count # 0
      BY <1>0, <1>4 DEF OffersFax, JobHeld, Queueing
    <3>2. faxToSend' # NoFax /\ faxToSend'.job = job
      BY <3>1 DEF NoFax
    <3> QED BY <3>2 DEF Placed
  <2>4. received' = received /\ announced' = announced
    BY <1>4 DEF OffersFax, history
  <2>5. received = announced \o <<job>>
    BY <1>0, <1>2, <2>1, <2>2 DEF InOrder
  <2>6. announced \o <<job>> \o <<>> = announced \o <<job>>
    BY <1>0, <2>1
  <2>7. InOrder'
    BY <2>1, <2>3, <2>4, <2>5, <2>6 DEF InOrder
  <2> QED BY <2>7, InOrderIsPrime
<1>5. CASE FaxSlot
  <2>1. Takes("fax") /\ faxToSend' = NoFax /\ announced' = Append(announced, faxToSend.job)
        /\ received' = received /\ thread' = thread /\ job' = job
    BY <1>5 DEF FaxSlot
  <2>2. faxToSend # NoFax
    BY <1>0, <2>1, Empties DEF PlacesNotified
  <2>3. faxToSend.job \in Jobs /\ Placed = <<faxToSend.job>> /\ Placed' = <<>>
    BY <1>0, <2>1, <2>2 DEF BufferTypes, Numbered, Placed
  <2>4. announced' = announced \o Placed
    <3> DEFINE j == faxToSend.job
    <3>1. j \in Jobs /\ announced' = Append(announced, j) /\ Placed = <<j>>
      BY <2>1, <2>3
    <3> HIDE DEF j
    <3>2. Append(announced, j) = announced \o <<j>>
      BY <1>0, <3>1
    <3> QED BY <3>1, <3>2
  <2>5. announced' \in Seq(Jobs)
    BY <1>0, <2>1, <2>3
  <2>6. announced' \o <<>> = announced'
    BY <2>5
  <2>7. InHand' = InHand
    BY <2>1 DEF InHand
  <2>8. InOrder'
    BY <1>2, <2>1, <2>3, <2>4, <2>6, <2>7 DEF InOrder
  <2> QED BY <2>8, InOrderIsPrime
<1>6. CASE \/ SetupFails \/ SetsUp \/ WritesStdout \/ Sleeps \/ Accepts \/ IsCancelled
           \/ AcceptFails \/ TakesJob \/ Reads \/ SavesFile \/ NotifiesList
  BY <1>0, <1>6, OrderFrame DEF SetupFails, SetsUp, WritesStdout, Sleeps, Accepts, IsCancelled,
       AcceptFails, TakesJob, Reads, SavesFile, NotifiesList, Fails, buffers, history, Queueing
<1>7. CASE StdoutSlot \/ ListSlot \/ ErrorSlot \/ UNCHANGED vars
  BY <1>0, <1>7, OrderFrame DEF StdoutSlot, ListSlot, ErrorSlot, vars, server, buffers, history
<1>8. CASE Close \/ RemoveFile \/ RemoveOpens \/ RemoveSaves
  BY <1>0, <1>8, OrderFrame DEF Close, StopServer, RemoveFile, RemoveOpens, RemoveSaves,
                                server, buffers, history
<1>9. CASE SettingsChanged
  <2>1. UNCHANGED <<received, announced, faxToSend>>
    BY <1>9 DEF SettingsChanged, buffers, history
  <2>2. \/ thread' = thread /\ job' = job
        \/ thread = "none" /\ thread' \in {"setup", "none"}
    BY <1>0, <1>9 DEF SettingsChanged, StopServer, StartServer, Idle
  <2> QED BY <1>0, <2>1, <2>2, OrderFrame DEF Queueing
<1>10. CASE JoinReturns
  BY <1>0, <1>10, OrderFrame DEF JoinReturns, StartServer, buffers, history, Queueing
<1>11. CASE Boot
  <2>1. UNCHANGED <<received, announced, faxToSend>>
    BY <1>11 DEF Boot, buffers, history
  <2>2. thread = "none" /\ thread' \in {"setup", "none"}
    BY <1>0, <1>11 DEF Boot, StartServer, Idle
  <2> QED BY <1>0, <2>1, <2>2, OrderFrame DEF Queueing
<1>12. CASE Exit \/ Crash
  <2>1. faxToSend' = NoFax /\ received' = <<>> /\ announced' = <<>> /\ thread' = "none"
    BY <1>12 DEF Exit, Crash, Ends
  <2>2. Placed' = <<>> /\ InHand' = <<>>
    BY <2>1 DEF Placed, InHand, Queueing
  <2>3. <<>> = <<>> \o <<>> \o <<>>
    OBVIOUS
  <2>4. InOrder'
    BY <2>1, <2>2, <2>3 DEF InOrder
  <2> QED BY <2>4, InOrderIsPrime
<1> QED BY <1>3, <1>4, <1>5, <1>6, <1>7, <1>8, <1>9, <1>10, <1>11, <1>12
        DEF Next, Server, Slots, Gui, User

----------------------------------------------------------------------------
(* Every step keeps the list on the screen current, or to be made so. *)
LEMMA RowsStep ==
  ASSUME Buffers, Idle, RowsCurrent, [Next]_vars
  PROVE  RowsCurrent'
<1>0. /\ inbox \in Seq(Emissions) /\ Idle /\ RowsCurrent
  BY DEF Buffers, BufferTypes
<1>1. CASE AddsFile
  BY <1>1 DEF AddsFile, RowsCurrent
<1>2. CASE SavesFile
  BY <1>2 DEF SavesFile, RowsCurrent
<1>3. CASE NotifiesList
  <2>1. Emitted("changed")' # {}
    BY <1>0, <1>3, EmitAppends DEF NotifiesList, EmitsChanged, Emissions
  <2> QED BY <2>1 DEF RowsCurrent
<1>4. CASE ListSlot
  BY <1>4 DEF ListSlot, RowsCurrent
<1>5. CASE RemoveFile
  BY <1>5 DEF RemoveFile, RowsCurrent
<1>6. CASE Boot
  BY <1>6 DEF Boot, RowsCurrent
<1>7. CASE Exit \/ Crash
  BY <1>7 DEF Exit, Crash, Ends, RowsCurrent
<1>8. CASE StdoutSlot \/ FaxSlot \/ ErrorSlot
  <2>1. UNCHANGED <<rows, filenames, thread>>
    BY <1>8 DEF StdoutSlot, FaxSlot, ErrorSlot, queue, server
  <2>2. PICK m \in {"stdout", "fax", "error"} : Takes(m)
    BY <1>8 DEF StdoutSlot, FaxSlot, ErrorSlot
  <2>3. Emitted("changed")' # {} <=> Emitted("changed") # {}
    BY <1>0, <2>2, Keeps
  <2> QED BY <1>0, <2>1, <2>3 DEF RowsCurrent
<1>9. CASE WritesStdout \/ OffersFax \/ SetupFails \/ AcceptFails
  <2>1. UNCHANGED <<rows, filenames>> /\ thread \notin {"save", "changed"}
    BY <1>9 DEF WritesStdout, OffersFax, SetupFails, AcceptFails, queue
  <2>2. PICK m \in {"stdout", "fax", "error"} : inbox' = Append(inbox, m)
    BY <1>9 DEF WritesStdout, OffersFax, SetupFails, AcceptFails, Fails
  <2>3. Emitted("changed")' = Emitted("changed")
    BY <1>0, <2>2, Passes DEF Emissions
  <2> QED BY <1>0, <2>1, <2>3 DEF RowsCurrent
<1>10. CASE TakesJob
  <2>1. UNCHANGED <<rows, filenames>> /\ thread \notin {"save", "changed"}
        /\ (inbox' = inbox \/ inbox' = Append(inbox, "error"))
    BY <1>10 DEF TakesJob, Fails, queue
  <2>2. inbox' = inbox => Emitted("changed")' = Emitted("changed")
    BY DEF Emitted
  <2>3. inbox' = Append(inbox, "error") => Emitted("changed")' = Emitted("changed")
    BY <1>0, Passes DEF Emissions
  <2> QED BY <1>0, <2>1, <2>2, <2>3 DEF RowsCurrent
<1>11. CASE SetsUp \/ Sleeps \/ Accepts \/ IsCancelled \/ Reads
  <2>1. UNCHANGED <<rows, filenames, inbox>> /\ (thread \notin {"save", "changed"} \/ thread' = thread)
    BY <1>11 DEF SetsUp, Sleeps, Accepts, IsCancelled, Reads, queue, buffers
  <2> QED BY <1>0, <2>1 DEF RowsCurrent, Emitted
<1>12. CASE Close \/ RemoveOpens \/ RemoveSaves \/ UNCHANGED vars
  <2>1. UNCHANGED <<rows, filenames, inbox, thread>>
    BY <1>12 DEF Close, StopServer, RemoveOpens, RemoveSaves, vars, queue, buffers, server
  <2> QED BY <1>0, <2>1 DEF RowsCurrent, Emitted
<1>13. CASE SettingsChanged \/ JoinReturns
  <2>1. UNCHANGED <<rows, filenames, inbox>> /\ (thread \notin {"save", "changed"} \/ thread' = thread)
    BY <1>0, <1>13 DEF SettingsChanged, JoinReturns, StopServer, StartServer, Idle, queue, buffers
  <2> QED BY <1>0, <2>1 DEF RowsCurrent, Emitted
<1> QED BY <1>1, <1>2, <1>3, <1>4, <1>5, <1>6, <1>7, <1>8, <1>9, <1>10, <1>11, <1>12, <1>13
        DEF Next, Server, Slots, Gui, User

----------------------------------------------------------------------------
(* No process: nothing is in a buffer or counted. *)
LEMMA InitServes == Init => Serving
<1> SUFFICES ASSUME Init PROVE Serving
  OBVIOUS
<1>1. /\ thread = "none" /\ job = NoJob /\ clients = Jobs /\ text = FALSE /\ faxToSend = NoFax
      /\ inbox = <<>> /\ received = <<>> /\ announced = <<>> /\ count = 0 /\ saved = NoList
      /\ draft = NoList /\ filenames = <<>> /\ rows = <<>> /\ running = FALSE /\ fd = "closed"
  BY DEF Init
<1>2. BufferTypes
  <2>1. inbox \in Seq(Emissions) /\ received \in Seq(Jobs) /\ announced \in Seq(Jobs)
    BY <1>1
  <2> QED BY <1>1, <2>1 DEF BufferTypes
<1>3. CountTypes
  BY <1>1, ChoicesAssumption DEF CountTypes, NoList
<1>4. JobHeld
  BY <1>1 DEF JobHeld, Holding, Queueing
<1>5. PlacesNotified
  <2>1. \A w : Emitted(w) = {}
    BY <1>1 DEF Emitted
  <2> QED BY <1>1, <2>1 DEF PlacesNotified, AtMostOne
<1>6. Idle
  BY <1>1 DEF Idle
<1>7. HandedOverOnce
  <2>1. Placed = <<>> /\ InHand = <<>>
    BY <1>1 DEF Placed, InHand, Queueing
  <2>2. <<>> = <<>> \o <<>> \o <<>>
    OBVIOUS
  <2> QED BY <1>1, <2>1, <2>2, InOrderIs DEF InOrder
<1>8. RowsCurrent
  BY <1>1 DEF RowsCurrent
<1> QED BY <1>2, <1>3, <1>4, <1>5, <1>6, <1>7, <1>8 DEF Serving, Buffers

(* In every state the two threads agree on the buffers, the jobs and the   *)
(* list on the screen.                                                     *)
THEOREM ServingHolds == Spec => []Serving
<1>1. Serving /\ [Next]_vars => Serving'
  <2> SUFFICES ASSUME Serving, [Next]_vars PROVE Serving'
    OBVIOUS
  <2>1. Buffers /\ Idle /\ HandedOverOnce /\ RowsCurrent
    BY DEF Serving
  <2>2. CountTypes
    BY <2>1 DEF Buffers
  <2>3. Buffers'
    BY <2>1, <2>2, TypesStep, CountStep, JobStep, PlacesStep DEF Buffers
  <2> QED BY <2>1, <2>3, IdleStep, OrderStep, RowsStep DEF Serving
<1> QED BY <1>1, InitServes, PTL DEF Spec

(* The text line and the job that the server thread leaves for the GUI     *)
(* thread are each notified exactly once, so that none is overwritten or   *)
(* forgotten, whatever is started, stopped or removed meanwhile            *)
(* (write_stdout_from_thread(), read_socket() and their slots).            *)
THEOREM PlacesAreNotified == Spec => []PlacesNotified
<1>1. Serving => PlacesNotified
  BY DEF Serving, Buffers
<1> QED BY <1>1, ServingHolds, PTL

(* Every job that add_file() queued in this process is announced in order, *)
(* stands in fax_to_send, or is the one the server thread still has: none  *)
(* is lost by a stop, nor announced a second time.                         *)
THEOREM JobsAreHandedOver == Spec => []HandedOverOnce
<1>1. Serving => HandedOverOnce
  BY DEF Serving
<1> QED BY <1>1, ServingHolds, PTL

(* The list displayed is filenames_s, or a Notifier emission that will     *)
(* make it so is in the pipe or about to be put there.                     *)
THEOREM RowsStayCurrent == Spec => []RowsCurrent
<1>1. Serving => RowsCurrent
  BY DEF Serving
<1> QED BY <1>1, ServingHolds, PTL

(* Whatever ended the server thread - stop(), a failed bind() or accept(), *)
(* or a thread that could not be started - a server that does not run has  *)
(* neither a thread to join nor an open socket.                            *)
THEOREM SocketIsClosed == Spec => []SocketClosed
<1>1. Serving => SocketClosed
  BY DEF Serving, Idle, SocketClosed
<1> QED BY <1>1, ServingHolds, PTL

(* The list shown and the closing of the server, together as the run checks *)
(* them.                                                                   *)
THEOREM ServerSettles == Spec => []ServerSettled
<1>1. RowsCurrent /\ SocketClosed => ServerSettled
  BY DEF ServerSettled
<1> QED BY <1>1, RowsStayCurrent, SocketIsClosed, PTL

----------------------------------------------------------------------------
(* The queue: which jobs are in it, in the saved list and in the list that *)
(* the GUI thread is about to save, and under which numbers.               *)

Unqueued == {"accepted", "read", "report", "add"}

Apart(list) == \A a, b \in 1..Len(list) : list[a].job = list[b].job => a = b

\* The jobs of the list have come, and are not the one that is still to be queued.
Come(list) ==
  \A k \in 1..Len(list) : list[k].job \notin clients /\ (thread \in Unqueued => list[k].job # job)

StartOf(s, t) == Len(s) <= Len(t) /\ \A k \in 1..Len(s) : s[k] = t[k]

ListTypes == filenames \in Seq(Numbered) /\ saved.jobs \in Seq(Numbered) /\ draft.jobs \in Seq(Numbered)

FilesKept ==
  /\ Apart(filenames) /\ Apart(saved.jobs) /\ Come(filenames) /\ Come(saved.jobs)
  /\ ListedFilesExist
  /\ thread \in Unqueued => job \notin clients
  /\ thread \in {"read", "report", "add"} => job \in files

(* While either thread saves, the list on the disk is one the queue has    *)
(* only grown from; while both do, it is empty.                            *)
SavesInOrder ==
  /\ gui = "saving" => StartOf(draft.jobs, filenames) /\ StartOf(saved.jobs, filenames)
  /\ thread = "save" => StartOf(saved.jobs, filenames)
  /\ gui = "saving" /\ thread = "save" => saved.jobs = <<>>

QueueKept == ListTypes /\ FilesKept /\ SavesInOrder

(* The entries of one list are entries of the other, in the same order.    *)
Drawn(new, old) ==
  \E pos \in [1..Len(new) -> 1..Len(old)] :
    /\ \A a, b \in 1..Len(new) : a < b => pos[a] < pos[b]
    /\ \A n \in 1..Len(new) : new[n] = old[pos[n]]

Rising(list, top) ==
  /\ \A a, b \in 1..Len(list) : a < b => list[a].number < list[b].number
  /\ \A k \in 1..Len(list) : list[k].number <= top

LEMMA DrawnKeeps ==
  ASSUME NEW old \in Seq(Numbered), NEW new \in Seq(Numbered), Drawn(new, old)
  PROVE  /\ Apart(old) => Apart(new)
         /\ Come(old) => Come(new)
         /\ \A top : Rising(old, top) => Rising(new, top)
         /\ \A n \in 1..Len(new) : \E k \in 1..Len(old) : new[n] = old[k]
<1>1. PICK pos \in [1..Len(new) -> 1..Len(old)] :
        /\ \A a, b \in 1..Len(new) : a < b => pos[a] < pos[b]
        /\ \A n \in 1..Len(new) : new[n] = old[pos[n]]
  BY DEF Drawn
<1>2. \A n \in 1..Len(new) : pos[n] \in 1..Len(old)
  BY <1>1
<1>3. ASSUME Apart(old) PROVE Apart(new)
  <2> SUFFICES ASSUME NEW a \in 1..Len(new), NEW b \in 1..Len(new), new[a].job = new[b].job
               PROVE  a = b
    BY DEF Apart
  <2>1. pos[a] = pos[b]
    BY <1>1, <1>2, <1>3 DEF Apart
  <2>2. Len(new) \in Nat /\ Len(old) \in Nat
    OBVIOUS
  <2>3. ~(a < b) /\ ~(b < a)
    BY <1>1, <1>2, <2>1, <2>2
  <2> QED BY <2>2, <2>3
<1>4. Come(old) => Come(new)
  BY <1>1, <1>2 DEF Come
<1>5. \A top : Rising(old, top) => Rising(new, top)
  BY <1>1, <1>2 DEF Rising
<1> QED BY <1>1, <1>2, <1>3, <1>4, <1>5

(* A list that skips one entry of another. *)
LEMMA SkipIsDrawn ==
  ASSUME NEW list \in Seq(Numbered), NEW k \in Nat, NEW new \in Seq(Numbered),
         Len(new) = Len(list) - 1,
         \A n \in 1..Len(new) : new[n] = IF n < k THEN list[n] ELSE list[n + 1]
  PROVE  /\ Drawn(new, list)
         /\ \A n \in 1..Len(new) : \E m \in 1..Len(list) : m # k /\ new[n] = list[m]
<1>0. Len(list) \in Nat /\ Len(new) \in Nat
  OBVIOUS
<1> DEFINE pos == [n \in 1..Len(new) |-> IF n < k THEN n ELSE n + 1]
<1>1. ASSUME NEW n \in 1..Len(new)
      PROVE  /\ (IF n < k THEN n ELSE n + 1) \in 1..Len(list)
             /\ new[n] = list[pos[n]] /\ pos[n] # k
  <2>1. CASE n < k
    BY <1>0, <2>1
  <2>2. CASE ~(n < k)
    BY <1>0, <2>2
  <2> QED BY <2>1, <2>2
<1>2. pos \in [1..Len(new) -> 1..Len(list)]
  BY <1>1
<1>3. \A a, b \in 1..Len(new) : a < b => pos[a] < pos[b]
  BY <1>0
<1> HIDE DEF pos
<1> QED BY <1>1, <1>2, <1>3 DEF Drawn

(* A list with one entry taken out. *)
LEMMA WithoutIsDrawn ==
  ASSUME NEW list \in Seq(Numbered), NEW k \in 1..Len(list)
  PROVE  LET new == SubSeq(list, 1, k - 1) \o SubSeq(list, k + 1, Len(list))
         IN /\ new \in Seq(Numbered) /\ Drawn(new, list)
            /\ \A n \in 1..Len(new) : \E m \in 1..Len(list) : m # k /\ new[n] = list[m]
<1>0. k \in Nat \ {0} /\ Len(list) \in Nat /\ k <= Len(list) /\ k - 1 \in Int /\ k + 1 \in Int
      /\ \A n \in 1..Len(list) : list[n] \in Numbered
  OBVIOUS
<1>1. PICK s \in Seq(Numbered) : s = SubSeq(list, 1, k - 1) /\ Len(s) = k - 1
                                 /\ \A n \in 1..(k - 1) : s[n] = list[n]
  <2> DEFINE s == SubSeq(list, 1, k - 1)
  <2>1. s \in Seq(Numbered) /\ Len(s) = k - 1 /\ \A n \in 1..(k - 1) : s[n] = list[n]
    BY <1>0, SubSeqProperties
  <2> QED BY <2>1
<1>2. PICK t \in Seq(Numbered) : t = SubSeq(list, k + 1, Len(list)) /\ Len(t) = Len(list) - k
                                 /\ \A n \in 1..(Len(list) - k) : t[n] = list[k + n]
  <2> DEFINE t == SubSeq(list, k + 1, Len(list))
  <2>1. t \in Seq(Numbered) /\ Len(t) = Len(list) - k
        /\ \A n \in 1..(Len(list) - k) : t[n] = list[k + n]
    BY <1>0, SubSeqProperties
  <2> QED BY <2>1
<1>3. PICK new \in Seq(Numbered) :
        /\ new = s \o t /\ Len(new) = Len(s) + Len(t)
        /\ \A n \in 1..(Len(s) + Len(t)) : new[n] = IF n <= Len(s) THEN s[n] ELSE t[n - Len(s)]
  <2>1. /\ s \o t \in Seq(Numbered) /\ Len(s \o t) = Len(s) + Len(t)
        /\ \A n \in 1..(Len(s) + Len(t)) : (s \o t)[n] = IF n <= Len(s) THEN s[n] ELSE t[n - Len(s)]
    BY ConcatProperties
  <2> QED BY <2>1
<1>4. Len(new) = Len(list) - 1
  <2>1. Len(new) = Len(s) + Len(t) /\ Len(s) = k - 1 /\ Len(t) = Len(list) - k
    BY <1>1, <1>2, <1>3
  <2> QED BY <1>0, <2>1
<1>5. ASSUME NEW n \in 1..Len(new) PROVE new[n] = IF n < k THEN list[n] ELSE list[n + 1]
  <2>1. CASE n < k
    <3>1. n \in 1..(k - 1) /\ n <= k - 1
      BY <1>0, <1>4, <2>1
    <3>2. new[n] = s[n]
      <4>1. n <= Len(s) /\ n \in 1..(Len(s) + Len(t))
        BY <1>1, <1>3, <3>1
      <4> QED BY <1>3, <4>1
    <3> QED BY <1>1, <2>1, <3>1, <3>2
  <2>2. CASE n >= k
    <3>1. n - (k - 1) \in 1..(Len(list) - k) /\ k + (n - (k - 1)) = n + 1 /\ ~(n <= k - 1)
      BY <1>0, <1>4, <2>2
    <3>2. new[n] = t[n - (k - 1)]
      BY <1>1, <1>2, <1>3, <3>1
    <3> QED BY <1>0, <1>2, <2>2, <3>1, <3>2
  <2> QED BY <1>0, <1>4, <2>1, <2>2
<1>6. Drawn(new, list) /\ \A n \in 1..Len(new) : \E m \in 1..Len(list) : m # k /\ new[n] = list[m]
  BY <1>0, <1>4, <1>5, SkipIsDrawn
<1> QED BY <1>1, <1>2, <1>3, <1>6

(* The loop of read_queued_faxes() takes entries in order, those with a file. *)
LEMMA StillThereIsDrawn ==
  ASSUME NEW list \in Seq(Numbered)
  PROVE  /\ StillThere(list) \in Seq(Numbered) /\ Drawn(StillThere(list), list)
         /\ \A n \in 1..Len(StillThere(list)) : StillThere(list)[n].job \in files
<1> DEFINE N == Len(list)
           X == Seq(Numbered)
           step == [n \in 1..N |-> [s \in X |-> IF list[n].job \in files THEN Append(s, list[n]) ELSE s]]
           Fits(k) == k = [n \in 0..N |-> IF n = 0 THEN <<>>
                                          ELSE IF list[n].job \in files THEN Append(k[n - 1], list[n])
                                          ELSE k[n - 1]]
           kept == CHOOSE k : Fits(k)
<1>1. N \in Nat /\ <<>> \in X /\ \A n \in 1..N : list[n] \in Numbered
  BY EmptySeq
<1>0. PICK c \in X : c = <<>>
  BY <1>1
<1>2. step \in [1..N -> [X -> X]]
  <2> SUFFICES ASSUME NEW n \in 1..N, NEW s \in X
               PROVE  (IF list[n].job \in files THEN Append(s, list[n]) ELSE s) \in X
    OBVIOUS
  <2> QED BY <1>1, AppendProperties
<1>3. PICK g \in [0..N -> X] : g[0] = c /\ \A i \in 1..N : g[i] = step[i][g[i - 1]]
  <2> HIDE DEF step, N, X
  <2>1. PICK g : Recursion(g, N, X, c, step)
    BY <1>1, <1>2, RecursionExists
  <2> QED BY <2>1 DEF Recursion
<1>4. \A i \in 1..N : g[i] = IF list[i].job \in files THEN Append(g[i - 1], list[i]) ELSE g[i - 1]
  <2> SUFFICES ASSUME NEW i \in 1..N
               PROVE  g[i] = IF list[i].job \in files THEN Append(g[i - 1], list[i]) ELSE g[i - 1]
    OBVIOUS
  <2>1. i - 1 \in 0..N /\ g[i - 1] \in X
    <3>1. i - 1 \in 0..N
      BY <1>1
    <3> HIDE DEF N, X, step
    <3> QED BY <1>3, <3>1
  <2>2. g[i] = step[i][g[i - 1]]
    BY <1>3
  <2> QED BY <2>1, <2>2
<1>5. Fits(g)
  <2>1. \A i \in 0..N : i # 0 => i \in 1..N
    BY <1>1
  <2> QED BY <1>0, <1>3, <1>4, <2>1
<1>6. Fits(kept)
  <2> HIDE DEF Fits
  <2> QED BY <1>5
<1>7. StillThere(list) = kept[N]
  BY DEF StillThere
<1>8. PICK k : k = kept
  OBVIOUS
<1>9. k[0] = <<>> /\ \A i \in 1..N : k[i] = IF list[i].job \in files THEN Append(k[i - 1], list[i])
                                            ELSE k[i - 1]
  <2>1. Fits(k)
    BY <1>6, <1>8
  <2> HIDE DEF kept
  <2>2. 0 \in 0..N /\ \A i \in 1..N : i \in 0..N /\ i # 0
    BY <1>1
  <2> QED BY <2>1, <2>2
<1> HIDE DEF kept, Fits, step
<1> DEFINE DrawnUpTo(s, n) ==
             \E pos \in [1..Len(s) -> 1..n] :
               /\ \A a, b \in 1..Len(s) : a < b => pos[a] < pos[b]
               /\ \A m \in 1..Len(s) : s[m] = list[pos[m]] /\ list[pos[m]].job \in files
           S == {n \in 0..N : k[n] \in X /\ DrawnUpTo(k[n], n)}
<1>10. 0 \in S
  <2>1. Len(<<>>) = 0 /\ 1..0 = {}
    OBVIOUS
  <2>2. [m \in {} |-> 0] \in [1..0 -> 1..0]
    BY <2>1
  <2>3. DrawnUpTo(<<>>, 0)
    BY <2>1, <2>2
  <2> HIDE DEF DrawnUpTo
  <2>4. DrawnUpTo(k[0], 0) /\ k[0] \in X /\ 0 \in 0..N
    BY <1>1, <1>9, <2>3
  <2> QED BY <2>4
<1>11. ASSUME NEW n \in 1..N, n - 1 \in S PROVE n \in S
  <2>0. n \in Nat /\ n - 1 \in Nat /\ n # n - 1
    BY <1>1
  <2>1. PICK s : s = k[n - 1] /\ s \in X
    BY <1>11
  <2>2. PICK pos \in [1..Len(s) -> 1..(n - 1)] :
               /\ \A a, b \in 1..Len(s) : a < b => pos[a] < pos[b]
               /\ \A m \in 1..Len(s) : s[m] = list[pos[m]] /\ list[pos[m]].job \in files
    BY <1>11, <2>1
  <2>3. CASE list[n].job \in files
    <3>1. PICK t : t = Append(s, list[n])
      OBVIOUS
    <3>2. t \in X /\ Len(t) = Len(s) + 1 /\ t[Len(s) + 1] = list[n] /\ Len(s) \in Nat
          /\ \A m \in 1..Len(s) : t[m] = s[m]
      BY <1>1, <2>1, <3>1, AppendProperties
    <3> DEFINE new == [m \in 1..Len(t) |-> IF m = Len(s) + 1 THEN n ELSE pos[m]]
    <3>3. \A m \in 1..Len(t) : m # Len(s) + 1 => m \in 1..Len(s) /\ pos[m] \in 1..(n - 1)
      <4>1. \A m \in 1..Len(t) : m # Len(s) + 1 => m \in 1..Len(s)
        BY <3>2
      <4> QED BY <4>1, <2>2
    <3>4. new \in [1..Len(t) -> 1..n]
      BY <3>3, <2>0
    <3>5. \A a, b \in 1..Len(t) : a < b => new[a] < new[b]
      <4> SUFFICES ASSUME NEW a \in 1..Len(t), NEW b \in 1..Len(t), a < b PROVE new[a] < new[b]
        OBVIOUS
      <4>1. a # Len(s) + 1
        BY <3>2
      <4>2. a \in 1..Len(s) /\ pos[a] \in 1..(n - 1) /\ new[a] = pos[a]
        BY <3>3, <4>1
      <4>3. CASE b = Len(s) + 1
        BY <4>2, <4>3, <2>0
      <4>4. CASE b # Len(s) + 1
        BY <4>2, <4>4, <3>3, <2>2
      <4> QED BY <4>3, <4>4
    <3>6. \A m \in 1..Len(t) : t[m] = list[new[m]] /\ list[new[m]].job \in files
      BY <3>2, <3>3, <2>2, <2>3
    <3>7. DrawnUpTo(t, n)
      <4> HIDE DEF new
      <4> QED BY <3>4, <3>5, <3>6
    <3>8. k[n] = t
      BY <1>9, <2>1, <2>3, <3>1
    <3> HIDE DEF DrawnUpTo
    <3> QED BY <3>2, <3>7, <3>8
  <2>4. CASE list[n].job \notin files
    <3>1. k[n] = s
      BY <1>9, <2>1, <2>4
    <3>2. pos \in [1..Len(s) -> 1..n]
      BY <2>0, <2>2
    <3>3. DrawnUpTo(s, n)
      BY <2>2, <3>2
    <3> HIDE DEF DrawnUpTo
    <3> QED BY <2>1, <3>1, <3>3
  <2> QED BY <2>3, <2>4
<1>12. 0..N \subseteq S
  <2> HIDE DEF S
  <2> QED BY <1>1, <1>10, <1>11, InductionTo
<1>13. N \in S
  <2> HIDE DEF S
  <2> QED BY <1>1, <1>12
<1>14. PICK s : s = StillThere(list)
  OBVIOUS
<1>15. s \in X /\ DrawnUpTo(s, N)
  <2>1. s = k[N]
    BY <1>7, <1>8, <1>14
  <2>2. k[N] \in X /\ DrawnUpTo(k[N], N)
    <3> HIDE DEF DrawnUpTo
    <3> QED BY <1>13
  <2> QED BY <2>1, <2>2
<1> HIDE DEF S
<1>16. Drawn(s, list) /\ \A n \in 1..Len(s) : s[n].job \in files
  BY <1>15 DEF Drawn
<1> QED BY <1>14, <1>15, <1>16

LEMMA StartIsDrawn ==
  ASSUME NEW s \in Seq(Numbered), NEW t \in Seq(Numbered), StartOf(s, t)
  PROVE  Drawn(s, t)
<1> DEFINE pos == [n \in 1..Len(s) |-> n]
<1>1. pos \in [1..Len(s) -> 1..Len(t)]
  BY DEF StartOf
<1>2. \A n \in 1..Len(s) : pos[n] = n /\ s[n] = t[n]
  BY DEF StartOf
<1> HIDE DEF pos
<1> QED BY <1>1, <1>2 DEF Drawn

(* What a stream leaves that writes a list over the one in the file.        *)
LEMMA OverlayIs ==
  ASSUME NEW list, list.jobs \in Seq(Numbered), saved.jobs \in Seq(Numbered)
  PROVE  /\ Len(saved.jobs) <= Len(list.jobs) =>
              Overlay(list).jobs = list.jobs /\ Overlay(list).count = list.count
         /\ Len(saved.jobs) > Len(list.jobs) /\ StartOf(list.jobs, saved.jobs) =>
              /\ Overlay(list).jobs \in Seq(Numbered) /\ Drawn(Overlay(list).jobs, saved.jobs)
              /\ Overlay(list).count = saved.count
<1>0. PICK s, t : s = list.jobs /\ t = saved.jobs
  OBVIOUS
<1>1. s \in Seq(Numbered) /\ t \in Seq(Numbered) /\ Len(s) \in Nat /\ Len(t) \in Nat
      /\ \A n \in 1..Len(t) : t[n] \in Numbered
  BY <1>0
<1>2. /\ Overlay(list).jobs = s \o SubSeq(t, Len(s) + 2, Len(t))
      /\ Overlay(list).count = IF Len(t) > Len(s) THEN saved.count ELSE list.count
  BY <1>0 DEF Overlay
<1>3. CASE Len(t) <= Len(s)
  <2>1. SubSeq(t, Len(s) + 2, Len(t)) = <<>>
    <3>1. Len(s) + 2 \in Int /\ Len(t) \in Int /\ Len(t) < Len(s) + 2
      BY <1>1, <1>3
    <3> QED BY <3>1, SubSeqEmpty
  <2>2. s \o <<>> = s
    BY <1>1, ConcatEmptySeq
  <2>3. ~(Len(t) > Len(s))
    BY <1>1, <1>3
  <2> QED BY <1>0, <1>2, <2>1, <2>2, <2>3
<1>4. CASE Len(t) > Len(s) /\ StartOf(s, t)
  <2>0. Len(s) + 2 \in Int /\ Len(t) \in Int /\ \A n \in (Len(s) + 2)..Len(t) : t[n] \in Numbered
    BY <1>1
  <2>1. PICK r \in Seq(Numbered) : /\ r = SubSeq(t, Len(s) + 2, Len(t))
                                   /\ Len(r) = Len(t) - Len(s) - 1
                                   /\ \A n \in 1..(Len(t) - Len(s) - 1) : r[n] = t[Len(s) + 1 + n]
    <3> DEFINE r == SubSeq(t, Len(s) + 2, Len(t))
    <3>1. /\ r \in Seq(Numbered) /\ Len(r) = IF Len(s) + 2 <= Len(t) THEN Len(t) - (Len(s) + 2) + 1 ELSE 0
          /\ \A n \in 1..(Len(t) - (Len(s) + 2) + 1) : r[n] = t[Len(s) + 2 + n - 1]
      BY <2>0, SubSeqProperties
    <3>0. r = SubSeq(t, Len(s) + 2, Len(t))
      OBVIOUS
    <3> HIDE DEF r
    <3>2. Len(r) = Len(t) - Len(s) - 1
      <4>1. Len(r) = IF Len(s) + 2 <= Len(t) THEN Len(t) - (Len(s) + 2) + 1 ELSE 0
        BY <3>1
      <4> QED BY <1>1, <1>4, <4>1
    <3>3. Len(t) - (Len(s) + 2) + 1 = Len(t) - Len(s) - 1
      BY <1>1
    <3>4. \A n \in 1..(Len(t) - Len(s) - 1) : Len(s) + 2 + n - 1 = Len(s) + 1 + n
      BY <1>1
    <3>5. \A n \in 1..(Len(t) - Len(s) - 1) : r[n] = t[Len(s) + 1 + n]
      BY <3>1, <3>3, <3>4
    <3> QED BY <3>0, <3>1, <3>2, <3>5
  <2>2. PICK new \in Seq(Numbered) :
          /\ new = s \o r /\ Len(new) = Len(s) + Len(r)
          /\ \A n \in 1..(Len(s) + Len(r)) : new[n] = IF n <= Len(s) THEN s[n] ELSE r[n - Len(s)]
    <3>1. /\ s \o r \in Seq(Numbered) /\ Len(s \o r) = Len(s) + Len(r)
          /\ \A n \in 1..(Len(s) + Len(r)) : (s \o r)[n] = IF n <= Len(s) THEN s[n] ELSE r[n - Len(s)]
      BY <1>1, ConcatProperties
    <3> QED BY <3>1
  <2>3. Len(new) = Len(t) - 1
    <3>1. Len(new) = Len(s) + Len(r) /\ Len(r) = Len(t) - Len(s) - 1
      BY <2>1, <2>2
    <3> QED BY <1>1, <3>1
  <2>4. ASSUME NEW n \in 1..Len(new) PROVE new[n] = IF n < Len(s) + 1 THEN t[n] ELSE t[n + 1]
    <3>1. n \in 1..(Len(s) + Len(r)) /\ n \in 1..(Len(t) - 1)
      BY <2>2, <2>3
    <3>2. CASE n < Len(s) + 1
      <4>1. n <= Len(s) /\ n \in 1..Len(s)
        BY <1>1, <3>1, <3>2
      <4>2. new[n] = s[n] /\ s[n] = t[n]
        BY <1>4, <2>2, <3>1, <4>1 DEF StartOf
      <4> QED BY <3>2, <4>2
    <3>3. CASE ~(n < Len(s) + 1)
      <4>1. ~(n <= Len(s)) /\ n - Len(s) \in 1..(Len(t) - Len(s) - 1)
            /\ Len(s) + 1 + (n - Len(s)) = n + 1
        BY <1>1, <3>1, <3>3
      <4>2. new[n] = r[n - Len(s)]
        BY <2>2, <3>1, <4>1
      <4> QED BY <2>1, <3>3, <4>1, <4>2
    <3> QED BY <3>2, <3>3
  <2>5. Drawn(new, t)
    <3>1. Len(s) + 1 \in Nat
      BY <1>1
    <3> QED BY <1>1, <2>3, <2>4, <3>1, SkipIsDrawn
  <2>6. Overlay(list).jobs = new /\ Overlay(list).count = saved.count
    BY <1>2, <1>4, <2>1, <2>2
  <2>7. ~(Len(t) <= Len(s))
    BY <1>1, <1>4
  <2> QED BY <1>0, <2>5, <2>6, <2>7
<1> QED BY <1>0, <1>3, <1>4

----------------------------------------------------------------------------
(* Steps that leave the lists alone. *)
LEMMA QueueFrame ==
  ASSUME QueueKept, UNCHANGED <<filenames, saved, draft>>, files \subseteq files',
         clients' \subseteq clients,
         thread' \in Unqueued => thread \in Unqueued /\ job' = job,
         thread' \in {"read", "report", "add"} => job' \in files',
         thread' = "save" => thread = "save", gui' = "saving" => gui = "saving"
  PROVE  QueueKept'
<1>1. ListTypes'
  BY DEF QueueKept, ListTypes
<1>2. FilesKept'
  <2>1. Apart(filenames') /\ Apart(saved'.jobs)
    BY DEF QueueKept, FilesKept
  <2>2. Come(filenames)' /\ Come(saved.jobs)'
    BY DEF QueueKept, FilesKept, Come
  <2>3. ListedFilesExist'
    BY DEF QueueKept, FilesKept, ListedFilesExist
  <2> QED BY <2>1, <2>2, <2>3 DEF QueueKept, FilesKept
<1>3. SavesInOrder'
  BY DEF QueueKept, SavesInOrder
<1> QED BY <1>1, <1>2, <1>3 DEF QueueKept

LEMMA AcceptsKeeps ==
  ASSUME QueueKept, Accepts
  PROVE  QueueKept'
<1>1. PICK j \in clients : job' = j /\ clients' = clients \ {j}
  BY DEF Accepts
<1>2. /\ UNCHANGED <<filenames, saved, draft, files, gui>>
      /\ thread = "accept" /\ thread' = "accepted"
  BY DEF Accepts, queue, disk
<1>3. Come(filenames)' /\ Come(saved.jobs)'
  BY <1>1, <1>2 DEF QueueKept, FilesKept, Come
<1>4. FilesKept'
  BY <1>1, <1>2, <1>3 DEF QueueKept, FilesKept, ListedFilesExist, Unqueued
<1>5. SavesInOrder' /\ ListTypes'
  BY <1>2 DEF QueueKept, SavesInOrder, ListTypes
<1> QED BY <1>4, <1>5 DEF QueueKept

(* The job that is queued has a file and is not in the queue yet.           *)
LEMMA AddsKeeps ==
  ASSUME Buffers, QueueKept, AddsFile
  PROVE  QueueKept'
<1>0. /\ thread = "add" /\ thread' = "save" /\ saved' = NoList
      /\ UNCHANGED <<gui, job, clients, draft, files>>
      /\ filenames \in Seq(Numbered)
  BY DEF AddsFile, QueueKept, ListTypes
<1>1. job \in Jobs /\ count \in 1..MaxCount
  BY <1>0 DEF Buffers, JobHeld, CountTypes, Holding
<1>2. PICK new \in Numbered : new = [job |-> job, number |-> count]
  BY <1>1 DEF Numbered
<1>3. new.job = job
  BY <1>2
<1>4. filenames' = Append(filenames, new)
  BY <1>2 DEF AddsFile
<1>5. /\ filenames' \in Seq(Numbered) /\ Len(filenames') = Len(filenames) + 1
      /\ \A k \in 1..Len(filenames) : filenames'[k] = filenames[k]
      /\ filenames'[Len(filenames) + 1] = new
      /\ Len(filenames) \in Nat
  BY <1>0, <1>4, AppendProperties
<1>6. \A k \in 1..Len(filenames') : k # Len(filenames) + 1 => k \in 1..Len(filenames)
  BY <1>5
<1>7. \A k \in 1..Len(filenames) : filenames[k].job # job /\ filenames[k].job \in files
                                   /\ filenames[k].job \notin clients
  BY <1>0 DEF QueueKept, FilesKept, Come, Unqueued, ListedFilesExist
<1>8. job \in files /\ job \notin clients
  BY <1>0 DEF QueueKept, FilesKept, Unqueued
<1>9. saved'.jobs = <<>> /\ saved'.jobs \in Seq(Numbered) /\ Len(saved'.jobs) = 0
  BY <1>0 DEF NoList
<1>10. Apart(filenames')
  <2> SUFFICES ASSUME NEW a \in 1..Len(filenames'), NEW b \in 1..Len(filenames'),
                      filenames'[a].job = filenames'[b].job
               PROVE  a = b
    BY DEF Apart
  <2>1. CASE a = Len(filenames) + 1
    BY <1>3, <1>5, <1>6, <1>7, <2>1
  <2>2. CASE b = Len(filenames) + 1
    BY <1>3, <1>5, <1>6, <1>7, <2>2
  <2>3. CASE a # Len(filenames) + 1 /\ b # Len(filenames) + 1
    <3>1. a \in 1..Len(filenames) /\ b \in 1..Len(filenames)
      BY <1>6, <2>3
    <3> QED BY <1>5, <3>1 DEF QueueKept, FilesKept, Apart
  <2> QED BY <2>1, <2>2, <2>3
<1>11. Come(filenames)'
  BY <1>0, <1>3, <1>5, <1>6, <1>7, <1>8 DEF Come, Unqueued
<1>12. ListedFilesExist'
  BY <1>0, <1>3, <1>5, <1>6, <1>7, <1>8 DEF ListedFilesExist
<1>13. 1..0 = {}
  OBVIOUS
<1>14. Apart(saved'.jobs) /\ Come(saved.jobs)' /\ StartOf(saved'.jobs, filenames')
  BY <1>5, <1>9, <1>13 DEF Apart, Come, StartOf
<1>15. FilesKept'
  BY <1>0, <1>10, <1>11, <1>12, <1>14 DEF FilesKept, Unqueued
<1>16. gui = "saving" => StartOf(draft.jobs, filenames')
  <2> SUFFICES ASSUME gui = "saving" PROVE StartOf(draft.jobs, filenames')
    OBVIOUS
  <2>1. StartOf(draft.jobs, filenames) /\ draft.jobs \in Seq(Numbered)
    BY DEF QueueKept, SavesInOrder, ListTypes
  <2>2. Len(draft.jobs) \in Nat /\ Len(draft.jobs) <= Len(filenames)
    BY <2>1 DEF StartOf
  <2>3. \A k \in 1..Len(draft.jobs) : k \in 1..Len(filenames)
    BY <1>5, <2>2
  <2> QED BY <1>5, <2>1, <2>2, <2>3 DEF StartOf
<1>17. SavesInOrder'
  BY <1>0, <1>9, <1>14, <1>16 DEF SavesInOrder
<1>18. ListTypes'
  BY <1>0, <1>5, <1>9 DEF QueueKept, ListTypes
<1> QED BY <1>15, <1>17, <1>18 DEF QueueKept

LEMMA SavesFileIs ==
  ASSUME QueueKept, SavesFile
  PROVE  saved'.jobs = filenames /\ saved'.count = count
<1>1. saved' = Overlay(SavesList) /\ thread = "save"
  BY DEF SavesFile
<1>2. SavesList.jobs = filenames /\ SavesList.count = count
  BY DEF SavesList
<1>3. Len(saved.jobs) <= Len(SavesList.jobs)
  BY <1>1, <1>2 DEF QueueKept, SavesInOrder, StartOf
<1> QED BY <1>1, <1>2, <1>3, OverlayIs DEF QueueKept, ListTypes

LEMMA SavesKeeps ==
  ASSUME QueueKept, SavesFile
  PROVE  QueueKept'
<1>1. /\ UNCHANGED <<gui, job, clients, filenames, draft, files>>
      /\ thread = "save" /\ thread' = "changed" /\ saved'.jobs = filenames
  BY SavesFileIs DEF SavesFile, queue
<1>2. StartOf(filenames, filenames)
  BY DEF QueueKept, ListTypes, StartOf
<1>3. Come(filenames)' /\ Come(saved.jobs)'
  BY <1>1 DEF QueueKept, FilesKept, Come, Unqueued
<1>4. FilesKept'
  BY <1>1, <1>3 DEF QueueKept, FilesKept, ListedFilesExist, Unqueued
<1>5. SavesInOrder'
  BY <1>1, <1>2 DEF QueueKept, SavesInOrder
<1>6. ListTypes'
  BY <1>1 DEF QueueKept, ListTypes
<1> QED BY <1>4, <1>5, <1>6 DEF QueueKept

(* The file that is unlinked is that of no other job, nor of the one that   *)
(* is being received.                                                       *)
LEMMA RemoveKeeps ==
  ASSUME QueueKept, RemoveFile
  PROVE  QueueKept' /\ Drawn(filenames', filenames) /\ filenames' \in Seq(Numbered)
<1>0. /\ UNCHANGED <<job, clients, thread, draft, saved>>
      /\ thread # "save" /\ gui' = "removed"
      /\ filenames \in Seq(Numbered)
  BY DEF RemoveFile, FilenamesLocked, server, QueueKept, ListTypes
<1>1. PICK k \in 1..Len(filenames) :
        /\ filenames' = SubSeq(filenames, 1, k - 1) \o SubSeq(filenames, k + 1, Len(filenames))
        /\ files' = files \ {filenames[k].job}
  BY DEF RemoveFile
<1>2. /\ filenames' \in Seq(Numbered) /\ Drawn(filenames', filenames)
      /\ \A n \in 1..Len(filenames') : \E m \in 1..Len(filenames) : m # k /\ filenames'[n] = filenames[m]
  BY <1>0, <1>1, WithoutIsDrawn
<1>3. Apart(filenames') /\ Come(filenames')
  BY <1>0, <1>2, DrawnKeeps DEF QueueKept, FilesKept
<1>4. Come(filenames)' /\ Come(saved.jobs)'
  BY <1>0, <1>3 DEF QueueKept, FilesKept, Come
<1>5. ListedFilesExist'
  BY <1>0, <1>1, <1>2 DEF QueueKept, FilesKept, ListedFilesExist, Apart
<1>6. thread \in {"read", "report", "add"} => job \in files'
  BY <1>1 DEF QueueKept, FilesKept, Come, Unqueued
<1>7. FilesKept'
  BY <1>0, <1>3, <1>4, <1>5, <1>6 DEF QueueKept, FilesKept
<1>8. SavesInOrder' /\ ListTypes'
  BY <1>0, <1>2 DEF QueueKept, SavesInOrder, ListTypes
<1> QED BY <1>2, <1>7, <1>8 DEF QueueKept

LEMMA OpensKeeps ==
  ASSUME QueueKept, RemoveOpens
  PROVE  QueueKept'
<1>1. /\ UNCHANGED <<thread, job, clients, filenames, files>>
      /\ gui' = "saving" /\ saved' = NoList /\ draft'.jobs = filenames
  BY DEF RemoveOpens, server, queue
<1>2. saved'.jobs = <<>> /\ saved'.jobs \in Seq(Numbered) /\ Len(saved'.jobs) = 0 /\ 1..0 = {}
  BY <1>1 DEF NoList
<1>3. StartOf(filenames, filenames) /\ StartOf(saved'.jobs, filenames)
  BY <1>2 DEF QueueKept, ListTypes, StartOf
<1>4. Apart(saved'.jobs) /\ Come(saved.jobs)' /\ Come(filenames)'
  BY <1>1, <1>2 DEF QueueKept, FilesKept, Apart, Come
<1>5. FilesKept'
  BY <1>1, <1>4 DEF QueueKept, FilesKept, ListedFilesExist
<1>6. SavesInOrder' /\ ListTypes'
  BY <1>1, <1>2, <1>3 DEF QueueKept, SavesInOrder, ListTypes
<1> QED BY <1>5, <1>6 DEF QueueKept

(* What the GUI thread leaves on the disk when it has saved the list it had *)
(* in its buffer: that list, or a longer one without a line.                *)
LEMMA RemoveSavesIs ==
  ASSUME QueueKept, RemoveSaves
  PROVE  /\ saved'.jobs \in Seq(Numbered)
         /\ Apart(saved'.jobs) /\ Come(saved'.jobs)
         /\ thread = "save" => StartOf(saved'.jobs, filenames)
         /\ \/ saved'.jobs = draft.jobs /\ saved'.count = draft.count
            \/ Drawn(saved'.jobs, saved.jobs) /\ saved'.count = saved.count
<1>0. /\ saved' = Overlay(draft) /\ gui = "saving" /\ filenames \in Seq(Numbered)
      /\ draft.jobs \in Seq(Numbered) /\ saved.jobs \in Seq(Numbered)
      /\ StartOf(draft.jobs, filenames) /\ StartOf(saved.jobs, filenames)
  BY DEF RemoveSaves, QueueKept, SavesInOrder, ListTypes
<1>1. Len(draft.jobs) \in Nat /\ Len(saved.jobs) \in Nat
  BY <1>0
<1>2. CASE Len(saved.jobs) <= Len(draft.jobs)
  <2>1. saved'.jobs = draft.jobs /\ saved'.count = draft.count
    BY <1>0, <1>2, OverlayIs
  <2>2. Drawn(draft.jobs, filenames)
    BY <1>0, StartIsDrawn
  <2>3. Apart(draft.jobs) /\ Come(draft.jobs)
    BY <1>0, <2>2, DrawnKeeps DEF QueueKept, FilesKept
  <2> QED BY <1>0, <2>1, <2>3
<1>3. CASE Len(saved.jobs) > Len(draft.jobs)
  <2>1. StartOf(draft.jobs, saved.jobs)
    <3>1. \A k \in 1..Len(draft.jobs) : k \in 1..Len(saved.jobs)
      BY <1>1, <1>3
    <3>2. \A k \in 1..Len(draft.jobs) : draft.jobs[k] = saved.jobs[k]
      BY <1>0, <3>1 DEF StartOf
    <3> QED BY <1>1, <1>3, <3>2 DEF StartOf
  <2>2. saved'.jobs \in Seq(Numbered) /\ Drawn(saved'.jobs, saved.jobs) /\ saved'.count = saved.count
    BY <1>0, <1>3, <2>1, OverlayIs
  <2>3. Apart(saved'.jobs) /\ Come(saved'.jobs)
    <3>1. PICK s : s = saved'.jobs
      OBVIOUS
    <3>2. Apart(s) /\ Come(s)
      BY <1>0, <2>2, <3>1, DrawnKeeps DEF QueueKept, FilesKept
    <3> QED BY <3>1, <3>2
  <2>4. thread # "save"
    <3>1. thread = "save" => saved.jobs = <<>>
      BY <1>0 DEF QueueKept, SavesInOrder
    <3>2. saved.jobs # <<>>
      BY <1>1, <1>3
    <3> QED BY <3>1, <3>2
  <2> QED BY <2>2, <2>3, <2>4
<1> QED BY <1>1, <1>2, <1>3

LEMMA RemoveSavesKeeps ==
  ASSUME QueueKept, RemoveSaves
  PROVE  QueueKept'
<1>1. /\ UNCHANGED <<thread, job, clients, filenames, files>>
      /\ gui' = "loop" /\ draft' = NoList
  BY DEF RemoveSaves, server, queue
<1>2. draft'.jobs \in Seq(Numbered)
  BY <1>1 DEF NoList
<1>3. Come(saved.jobs)' /\ Come(filenames)'
  BY <1>1, RemoveSavesIs DEF QueueKept, FilesKept, Come
<1>4. FilesKept'
  BY <1>1, <1>3, RemoveSavesIs DEF QueueKept, FilesKept, ListedFilesExist
<1>5. SavesInOrder' /\ ListTypes'
  BY <1>1, <1>2, RemoveSavesIs DEF QueueKept, SavesInOrder, ListTypes
<1> QED BY <1>4, <1>5 DEF QueueKept

LEMMA BootIs ==
  ASSUME QueueKept, Idle, Boot
  PROVE  /\ filenames' \in Seq(Numbered) /\ Drawn(filenames', saved.jobs)
         /\ count' = saved.count /\ gui' # "saving"
         /\ thread' \notin Unqueued \cup {"save"}
         /\ \A k \in 1..Len(filenames') : filenames'[k].job \in files
<1>1. filenames' = StillThere(saved.jobs) /\ count' = saved.count /\ gui = "down"
  BY DEF Boot, ReadQueuedFaxes
<1>2. thread = "none"
  BY <1>1 DEF Idle
<1>3. thread' \in {"setup", "none"} /\ gui' = "loop"
  BY <1>2 DEF Boot, StartServer
<1>4. saved.jobs \in Seq(Numbered)
  BY DEF QueueKept, ListTypes
<1> QED BY <1>1, <1>3, <1>4, StillThereIsDrawn DEF Unqueued

LEMMA BootKeeps ==
  ASSUME QueueKept, Idle, Boot
  PROVE  QueueKept'
<1>1. UNCHANGED <<clients, draft, saved, files>>
  BY DEF Boot, disk
<1>2. Apart(filenames') /\ Come(filenames')
  <2>1. PICK s : s = filenames'
    OBVIOUS
  <2>2. s \in Seq(Numbered) /\ Drawn(s, saved.jobs)
    BY <2>1, BootIs
  <2>3. Apart(s) /\ Come(s)
    BY <2>2, DrawnKeeps DEF QueueKept, FilesKept, ListTypes
  <2> QED BY <2>1, <2>3
<1>3. thread' \notin Unqueued
  BY BootIs
<1>4. Come(filenames)' /\ Come(saved.jobs)'
  BY <1>1, <1>2, <1>3 DEF QueueKept, FilesKept, Come
<1>5. ListedFilesExist'
  BY <1>1, BootIs DEF ListedFilesExist
<1>6. FilesKept'
  BY <1>1, <1>2, <1>3, <1>4, <1>5 DEF QueueKept, FilesKept, Unqueued
<1>7. SavesInOrder' /\ ListTypes'
  BY <1>1, BootIs DEF QueueKept, SavesInOrder, ListTypes
<1> QED BY <1>6, <1>7 DEF QueueKept

LEMMA EndsKeeps ==
  ASSUME QueueKept, Ends
  PROVE  QueueKept'
<1>1. /\ UNCHANGED <<clients, saved, files>> /\ gui' = "down" /\ thread' = "none"
      /\ filenames' = <<>> /\ draft' = NoList
  BY DEF Ends
<1>2. /\ filenames' \in Seq(Numbered) /\ draft'.jobs \in Seq(Numbered)
      /\ Len(filenames') = 0 /\ 1..0 = {}
  BY <1>1 DEF NoList
<1>3. Apart(filenames') /\ Come(filenames)' /\ Come(saved.jobs)' /\ ListedFilesExist'
  BY <1>1, <1>2 DEF QueueKept, FilesKept, Apart, Come, ListedFilesExist, Unqueued
<1>4. FilesKept'
  BY <1>1, <1>3 DEF QueueKept, FilesKept, Unqueued
<1>5. SavesInOrder' /\ ListTypes'
  BY <1>1, <1>2 DEF QueueKept, SavesInOrder, ListTypes
<1> QED BY <1>4, <1>5 DEF QueueKept

(* Every step keeps the queue, its files and the list on the disk together. *)
LEMMA QueueStep ==
  ASSUME Serving, QueueKept, [Next]_vars
  PROVE  QueueKept'
<1>0. Buffers /\ Idle
  BY DEF Serving
<1>1. CASE TakesJob
  BY <1>1, QueueFrame DEF TakesJob, Fails, queue, Unqueued
<1>2. CASE SetupFails \/ SetsUp \/ Sleeps \/ IsCancelled \/ AcceptFails \/ Reads
  BY <1>2, QueueFrame DEF SetupFails, SetsUp, Sleeps, IsCancelled, AcceptFails, Reads, Fails,
                          queue, disk, Unqueued, QueueKept, FilesKept
<1>3. CASE WritesStdout \/ NotifiesList \/ OffersFax
  BY <1>3, QueueFrame DEF WritesStdout, NotifiesList, OffersFax, queue, disk, Unqueued, QueueKept,
                          FilesKept
<1>4. CASE StdoutSlot \/ ListSlot \/ FaxSlot \/ ErrorSlot
  BY <1>4, QueueFrame DEF StdoutSlot, ListSlot, FaxSlot, ErrorSlot, Takes, server, queue, disk,
                          QueueKept, FilesKept
<1>5. CASE SettingsChanged
  <2>1. /\ UNCHANGED <<filenames, saved, draft, files, clients>> /\ gui' # "saving"
        /\ (thread' = thread /\ job' = job) \/ thread' \in {"setup", "none"}
    BY <1>5 DEF SettingsChanged, StopServer, StartServer, queue, disk
  <2> QED BY <2>1, QueueFrame DEF Unqueued, QueueKept, FilesKept
<1>6. CASE JoinReturns
  <2>1. /\ UNCHANGED <<filenames, saved, draft, files, clients>> /\ gui' # "saving"
        /\ thread' \in {"setup", "none"}
    BY <1>6 DEF JoinReturns, StartServer, queue, disk
  <2> QED BY <2>1, QueueFrame DEF Unqueued
<1>7. CASE Close \/ UNCHANGED vars
  BY <1>7, QueueFrame DEF Close, StopServer, vars, server, queue, disk, QueueKept, FilesKept
<1> QED BY <1>0, <1>1, <1>2, <1>3, <1>4, <1>5, <1>6, <1>7, AcceptsKeeps, AddsKeeps, SavesKeeps,
           RemoveKeeps, OpensKeeps, RemoveSavesKeeps, BootKeeps, EndsKeeps
        DEF Next, Server, Slots, Gui, User, Exit, Crash

----------------------------------------------------------------------------
(* The numbers of the jobs, while no more than MaxCount jobs come: the      *)
(* counter is then never started again.                                     *)

FewJobs == IsFiniteSet(Jobs) /\ Cardinality(Jobs) <= MaxCount

Arrived == Cardinality(Jobs \ clients)
Uncounted == {"accepted", "read", "report"}

(* In each list the numbers rise up to the count that is kept with it, and  *)
(* no count is more than the jobs that have come.                           *)
NumbersRise ==
  /\ Rising(filenames, count) /\ Rising(saved.jobs, saved.count)
  /\ thread = "add" => \A k \in 1..Len(filenames) : filenames[k].number < count
  /\ gui = "saving" => Rising(draft.jobs, draft.count)
  /\ count <= Arrived /\ saved.count <= Arrived /\ draft.count <= Arrived
  /\ thread \in Uncounted => count < Arrived

LEMMA ArrivedIsNumber ==
  ASSUME FewJobs, clients \subseteq Jobs
  PROVE  Arrived \in Nat /\ Arrived <= MaxCount
<1>1. IsFiniteSet(Jobs) /\ Jobs \ clients \subseteq Jobs
  BY DEF FewJobs
<1>2. /\ Cardinality(Jobs \ clients) \in Nat /\ Cardinality(Jobs) \in Nat
      /\ Cardinality(Jobs \ clients) <= Cardinality(Jobs)
  BY <1>1, FS_Subset, FS_CardinalityType
<1> QED BY <1>2, ChoicesAssumption DEF FewJobs, Arrived

(* Steps that leave lists, counts and clients alone. *)
LEMMA NumbersFrame ==
  ASSUME NumbersRise, UNCHANGED <<filenames, saved, draft, count, clients>>,
         thread' = "add" => thread = "add",
         thread' \in Uncounted => thread \in Uncounted,
         gui' = "saving" => gui = "saving"
  PROVE  NumbersRise'
BY DEF NumbersRise, Arrived

LEMMA EmptyRises == Rising(<<>>, 0)
<1>1. Len(<<>>) = 0 /\ 1..0 = {}
  OBVIOUS
<1> QED BY <1>1 DEF Rising

LEMMA AcceptsRises ==
  ASSUME FewJobs, Serving, NumbersRise, Accepts
  PROVE  NumbersRise'
<1>1. PICK j \in clients : clients' = clients \ {j}
  BY DEF Accepts
<1>2. /\ UNCHANGED <<filenames, saved, draft, count, gui>>
      /\ thread' = "accepted"
  BY DEF Accepts, queue, disk
<1>3. clients \subseteq Jobs /\ CountTypes
  BY DEF Serving, Buffers, BufferTypes
<1>4. Arrived' = Arrived + 1
  <2>1. IsFiniteSet(Jobs \ clients) /\ j \notin Jobs \ clients
    BY <1>1, FS_Subset DEF FewJobs
  <2>2. Jobs \ clients' = (Jobs \ clients) \cup {j}
    BY <1>1, <1>3
  <2>3. Cardinality((Jobs \ clients) \cup {j}) = Cardinality(Jobs \ clients) + 1
    BY <2>1, FS_AddElement
  <2> QED BY <2>2, <2>3 DEF Arrived
<1>5. Arrived \in Nat
  BY <1>3, ArrivedIsNumber
<1>6. count \in Nat /\ saved.count \in Nat /\ draft.count \in Nat
  BY <1>3, ChoicesAssumption DEF CountTypes
<1>7. count < Arrived' /\ count <= Arrived' /\ saved.count <= Arrived' /\ draft.count <= Arrived'
  BY <1>4, <1>5, <1>6 DEF NumbersRise
<1> QED BY <1>2, <1>7 DEF NumbersRise, Uncounted

(* The number counted next is greater than all in the queue. *)
LEMMA WritesRises ==
  ASSUME FewJobs, Serving, QueueKept, NumbersRise, WritesStdout
  PROVE  NumbersRise'
<1>0. /\ UNCHANGED <<filenames, saved, draft, clients, gui>>
      /\ thread \in {"greet", "report"}
  BY DEF WritesStdout, disk
<1>1. CASE thread = "greet"
  BY <1>0, <1>1, NumbersFrame DEF WritesStdout, Uncounted
<1>2. CASE thread = "report"
  <2>1. count' = NextCount /\ thread' = "add"
    BY <1>2 DEF WritesStdout
  <2>2. Arrived \in Nat /\ Arrived <= MaxCount /\ count \in Nat /\ MaxCount \in Nat
    BY ArrivedIsNumber, ChoicesAssumption DEF Serving, Buffers, BufferTypes, CountTypes
  <2>3. count < Arrived
    BY <1>2 DEF NumbersRise, Uncounted
  <2>4. count' = count + 1
    BY <2>1, <2>2, <2>3 DEF NextCount
  <2>5. \A k \in 1..Len(filenames) : filenames[k].number \in Nat /\ filenames[k].number <= count
    <3>1. \A n \in Numbered : n.number \in Nat
      BY ChoicesAssumption DEF Numbered
    <3>2. \A k \in 1..Len(filenames) : filenames[k] \in Numbered
      BY DEF QueueKept, ListTypes
    <3> QED BY <3>1, <3>2 DEF NumbersRise, Rising
  <2>6. \A k \in 1..Len(filenames) : filenames[k].number < count' /\ filenames[k].number <= count'
    BY <2>2, <2>4, <2>5
  <2>7. count' <= Arrived
    BY <2>2, <2>3, <2>4
  <2>8. Arrived' = Arrived
    BY <1>0 DEF Arrived
  <2>9. Rising(filenames, count')
    BY <2>6 DEF NumbersRise, Rising
  <2> QED BY <1>0, <2>1, <2>6, <2>7, <2>8, <2>9 DEF NumbersRise, Uncounted
<1> QED BY <1>0, <1>1, <1>2

LEMMA AddsRises ==
  ASSUME FewJobs, Serving, QueueKept, NumbersRise, AddsFile
  PROVE  NumbersRise'
<1>0. /\ thread = "add" /\ thread' = "save" /\ saved' = NoList
      /\ UNCHANGED <<gui, count, clients, draft>> /\ filenames \in Seq(Numbered)
  BY DEF AddsFile, QueueKept, ListTypes
<1>1. job \in Jobs /\ count \in 1..MaxCount
  BY <1>0 DEF Serving, Buffers, JobHeld, CountTypes, Holding
<1>2. PICK new \in Numbered : new = [job |-> job, number |-> count]
  BY <1>1 DEF Numbered
<1>3. new.number = count
  BY <1>2
<1>4. filenames' = Append(filenames, new)
  BY <1>2 DEF AddsFile
<1>5. /\ Len(filenames') = Len(filenames) + 1
      /\ \A k \in 1..Len(filenames) : filenames'[k] = filenames[k]
      /\ filenames'[Len(filenames) + 1] = new
      /\ Len(filenames) \in Nat
  BY <1>0, <1>4, AppendProperties
<1>6. \A k \in 1..Len(filenames') : k # Len(filenames) + 1 => k \in 1..Len(filenames)
  BY <1>5
<1>7. \A k \in 1..Len(filenames) : filenames[k].number < count
  BY <1>0 DEF NumbersRise
<1>8. ASSUME NEW a \in 1..Len(filenames'), NEW b \in 1..Len(filenames'), a < b
      PROVE  filenames'[a].number < filenames'[b].number
  <2>1. a \in 1..Len(filenames)
    BY <1>5, <1>8
  <2>2. CASE b = Len(filenames) + 1
    BY <1>3, <1>5, <1>7, <2>1, <2>2
  <2>3. CASE b # Len(filenames) + 1
    BY <1>5, <1>6, <1>8, <2>1, <2>3 DEF NumbersRise, Rising
  <2> QED BY <2>2, <2>3
<1>9. ASSUME NEW k \in 1..Len(filenames') PROVE filenames'[k].number <= count
  <2>1. CASE k = Len(filenames) + 1
    BY <1>1, <1>3, <1>5, <2>1
  <2>2. CASE k # Len(filenames) + 1
    BY <1>5, <1>6, <2>2 DEF NumbersRise, Rising
  <2> QED BY <2>1, <2>2
<1>10. Rising(filenames', count)
  BY <1>8, <1>9 DEF Rising
<1>11. saved'.jobs = <<>> /\ saved'.count = 0
  BY <1>0 DEF NoList
<1>12. Rising(saved'.jobs, saved'.count)
  BY <1>11, EmptyRises
<1>13. Arrived' = Arrived /\ Arrived \in Nat
  BY <1>0, ArrivedIsNumber DEF Arrived, Serving, Buffers, BufferTypes
<1>14. saved'.count <= Arrived
  BY <1>11, <1>13
<1> QED BY <1>0, <1>10, <1>12, <1>13, <1>14 DEF NumbersRise, Uncounted

LEMMA SavesRises ==
  ASSUME QueueKept, NumbersRise, SavesFile
  PROVE  NumbersRise'
<1>1. /\ UNCHANGED <<gui, clients, count, filenames, draft>>
      /\ thread' = "changed" /\ saved'.jobs = filenames /\ saved'.count = count
  BY SavesFileIs DEF SavesFile, queue
<1> QED BY <1>1 DEF NumbersRise, Arrived, Uncounted

LEMMA RemoveRises ==
  ASSUME QueueKept, NumbersRise, RemoveFile
  PROVE  NumbersRise'
<1>1. UNCHANGED <<thread, clients, count, draft, saved>> /\ gui' = "removed"
  BY DEF RemoveFile, server
<1>2. PICK s : s = filenames'
  OBVIOUS
<1>3. s \in Seq(Numbered) /\ Drawn(s, filenames) /\ filenames \in Seq(Numbered)
  BY <1>2, RemoveKeeps DEF QueueKept, ListTypes
<1>4. Rising(s, count) /\ \A n \in 1..Len(s) : \E k \in 1..Len(filenames) : s[n] = filenames[k]
  BY <1>3, DrawnKeeps DEF NumbersRise
<1> QED BY <1>1, <1>2, <1>4 DEF NumbersRise, Arrived

LEMMA OpensRises ==
  ASSUME FewJobs, Serving, NumbersRise, RemoveOpens
  PROVE  NumbersRise'
<1>1. /\ UNCHANGED <<thread, clients, filenames, count>>
      /\ saved'.jobs = <<>> /\ saved'.count = 0
      /\ draft'.jobs = filenames /\ draft'.count = count
  BY DEF RemoveOpens, server, queue, NoList
<1>2. Rising(saved'.jobs, saved'.count)
  BY <1>1, EmptyRises
<1>3. Arrived' = Arrived /\ Arrived \in Nat
  BY <1>1, ArrivedIsNumber DEF Arrived, Serving, Buffers, BufferTypes
<1>4. saved'.count <= Arrived
  BY <1>1, <1>3
<1> QED BY <1>1, <1>2, <1>3, <1>4 DEF NumbersRise

LEMMA RemoveSavesRises ==
  ASSUME FewJobs, Serving, QueueKept, NumbersRise, RemoveSaves
  PROVE  NumbersRise'
<1>1. /\ UNCHANGED <<thread, clients, filenames, count>>
      /\ gui = "saving" /\ gui' = "loop" /\ draft'.count = 0
  BY DEF RemoveSaves, server, queue, NoList
<1>2. Arrived' = Arrived /\ Arrived \in Nat
  BY <1>1, ArrivedIsNumber DEF Arrived, Serving, Buffers, BufferTypes
<1>3. draft'.count <= Arrived
  BY <1>1, <1>2
<1>4. Rising(saved'.jobs, saved'.count) /\ saved'.count <= Arrived
  <2>1. CASE saved'.jobs = draft.jobs /\ saved'.count = draft.count
    BY <1>1, <2>1 DEF NumbersRise
  <2>2. CASE Drawn(saved'.jobs, saved.jobs) /\ saved'.count = saved.count
    <3>1. PICK s : s = saved'.jobs
      OBVIOUS
    <3>2. s \in Seq(Numbered) /\ Drawn(s, saved.jobs) /\ saved.jobs \in Seq(Numbered)
      BY <2>2, <3>1, RemoveSavesIs DEF QueueKept, ListTypes
    <3>3. Rising(s, saved.count)
      BY <3>2, DrawnKeeps DEF NumbersRise
    <3> QED BY <2>2, <3>1, <3>3 DEF NumbersRise
  <2> QED BY <2>1, <2>2, RemoveSavesIs
<1> QED BY <1>1, <1>2, <1>3, <1>4 DEF NumbersRise

LEMMA BootRises ==
  ASSUME Serving, QueueKept, NumbersRise, Boot
  PROVE  NumbersRise'
<1>0. Idle
  BY DEF Serving
<1>1. /\ UNCHANGED <<clients, draft, saved>> /\ count' = saved.count
      /\ thread' \notin Unqueued /\ gui' # "saving"
  BY <1>0, BootIs DEF Boot, disk
<1>2. PICK s : s = filenames'
  OBVIOUS
<1>3. s \in Seq(Numbered) /\ Drawn(s, saved.jobs) /\ saved.jobs \in Seq(Numbered)
  BY <1>0, <1>2, BootIs DEF QueueKept, ListTypes
<1>4. Rising(s, saved.count)
  BY <1>3, DrawnKeeps DEF NumbersRise
<1> QED BY <1>1, <1>2, <1>4 DEF NumbersRise, Arrived, Unqueued, Uncounted

LEMMA EndsRises ==
  ASSUME FewJobs, Serving, NumbersRise, Ends
  PROVE  NumbersRise'
<1>1. /\ UNCHANGED <<clients, saved>> /\ gui' = "down" /\ thread' = "none"
      /\ filenames' = <<>> /\ count' = 0 /\ draft'.count = 0
  BY DEF Ends, NoList
<1>2. Arrived' = Arrived /\ Arrived \in Nat
  BY <1>1, ArrivedIsNumber DEF Arrived, Serving, Buffers, BufferTypes
<1>3. count' <= Arrived /\ draft'.count <= Arrived
  BY <1>1, <1>2
<1> QED BY <1>1, <1>2, <1>3, EmptyRises DEF NumbersRise, Uncounted

LEMMA NumbersStep ==
  ASSUME FewJobs, Serving, QueueKept, NumbersRise, [Next]_vars
  PROVE  NumbersRise'
<1>0. Idle
  BY DEF Serving
<1>1. CASE SetupFails \/ SetsUp \/ Sleeps \/ IsCancelled \/ AcceptFails \/ Reads \/ TakesJob
  BY <1>1, NumbersFrame DEF SetupFails, SetsUp, Sleeps, IsCancelled, AcceptFails, Reads, TakesJob,
                            Fails, queue, disk, Uncounted
<1>2. CASE NotifiesList \/ OffersFax
  BY <1>2, NumbersFrame DEF NotifiesList, OffersFax, queue, disk, Uncounted
<1>3. CASE StdoutSlot \/ ListSlot \/ FaxSlot \/ ErrorSlot
  BY <1>3, NumbersFrame DEF StdoutSlot, ListSlot, FaxSlot, ErrorSlot, Takes, server, queue, disk
<1>4. CASE SettingsChanged
  <2>1. /\ UNCHANGED <<filenames, saved, draft, count, clients>> /\ gui' # "saving"
        /\ thread' = thread \/ thread' \in {"setup", "none"}
    BY <1>4 DEF SettingsChanged, StopServer, StartServer, queue, disk
  <2> QED BY <2>1, NumbersFrame DEF Uncounted
<1>5. CASE JoinReturns
  <2>1. /\ UNCHANGED <<filenames, saved, draft, count, clients>> /\ gui' # "saving"
        /\ thread' \in {"setup", "none"}
    BY <1>5 DEF JoinReturns, StartServer, queue, disk
  <2> QED BY <2>1, NumbersFrame DEF Uncounted
<1>6. CASE Close \/ UNCHANGED vars
  BY <1>6, NumbersFrame DEF Close, StopServer, vars, server, queue, disk
<1> QED BY <1>0, <1>1, <1>2, <1>3, <1>4, <1>5, <1>6, AcceptsRises, WritesRises, AddsRises,
           SavesRises, RemoveRises, OpensRises, RemoveSavesRises, BootRises, EndsRises
        DEF Next, Server, Slots, Gui, User, Exit, Crash

LEMMA InitQueue == Init => QueueKept
<1> SUFFICES ASSUME Init PROVE QueueKept
  OBVIOUS
<1>1. /\ filenames = <<>> /\ saved.jobs = <<>> /\ draft.jobs = <<>>
      /\ thread = "none" /\ gui = "down"
  BY DEF Init, NoList
<1>2. filenames \in Seq(Numbered) /\ <<>> \in Seq(Numbered) /\ Len(<<>>) = 0 /\ 1..0 = {}
  BY <1>1
<1>3. ListTypes
  BY <1>1, <1>2 DEF ListTypes
<1>4. FilesKept
  BY <1>1, <1>2 DEF FilesKept, Apart, Come, ListedFilesExist, Unqueued
<1> QED BY <1>1, <1>3, <1>4 DEF QueueKept, SavesInOrder

LEMMA InitNumbers == ASSUME FewJobs, Init PROVE NumbersRise
<1>1. /\ filenames = <<>> /\ saved.jobs = <<>> /\ saved.count = 0 /\ draft.count = 0 /\ count = 0
      /\ thread = "none" /\ gui = "down" /\ clients = Jobs
  BY DEF Init, NoList
<1>2. Arrived \in Nat
  BY <1>1, ArrivedIsNumber
<1> QED BY <1>1, <1>2, EmptyRises DEF NumbersRise, Uncounted

(* In every state a queued job has come, its file is there, and whatever of *)
(* the queue is on the disk is a part of it.                                *)
THEOREM QueueHolds == Spec => []QueueKept
<1>1. Serving /\ QueueKept /\ [Next]_vars => QueueKept'
  BY QueueStep
<1> QED BY <1>1, InitQueue, ServingHolds, PTL DEF Spec

(* However often the program dies between the writing of the saved list and *)
(* the making or removal of a file, each job that is queued has its own     *)
(* temporary file: add_file(), remove_file(), save_queued_faxes() and       *)
(* read_queued_faxes(), for any number of jobs.                             *)
THEOREM FilesOfTheQueueExist == Spec => []ListedFilesExist
<1>1. QueueKept => ListedFilesExist
  BY DEF QueueKept, FilesKept
<1> QED BY <1>1, QueueHolds, PTL

(* As long as no more jobs have come than the numbers go (9999 in the code, *)
(* which starts again with 1 then), the jobs of the queue, those read back  *)
(* from the saved list as well, have files and numbers of their own.        *)
THEOREM QueueStaysSound == ASSUME FewJobs PROVE Spec => []QueueSound
<1>1. Init => NumbersRise
  BY InitNumbers
<1>2. Serving /\ QueueKept /\ NumbersRise /\ [Next]_vars => NumbersRise'
  BY NumbersStep
<1>3. QueueKept /\ NumbersRise => QueueSound
  <2> SUFFICES ASSUME QueueKept, NumbersRise PROVE QueueSound
    OBVIOUS
  <2>1. UniqueNumbers
    <3> SUFFICES ASSUME NEW a \in 1..Len(filenames), NEW b \in 1..Len(filenames),
                        filenames[a].number = filenames[b].number
                 PROVE  a = b
      BY DEF UniqueNumbers
    <3>1. filenames[a] \in Numbered /\ filenames[b] \in Numbered /\ a \in Nat /\ b \in Nat
      BY DEF QueueKept, ListTypes
    <3>2. filenames[a].number \in Nat /\ filenames[b].number \in Nat
      BY <3>1 DEF Numbered
    <3>3. ~(a < b) /\ ~(b < a)
      BY <3>2 DEF NumbersRise, Rising
    <3> QED BY <3>1, <3>3
  <2> QED BY <2>1 DEF QueueSound, QueueKept, FilesKept
<1>4. Spec => []NumbersRise
  BY <1>1, <1>2, ServingHolds, QueueHolds, PTL DEF Spec
<1> QED BY <1>3, <1>4, QueueHolds, PTL

=============================================================================
