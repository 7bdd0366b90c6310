------------------------ MODULE EfaxControllerProofs ------------------------
(***************************************************************************)
(* Proofs about EfaxController, for every set of jobs, number of files,    *)
(* set of faults and number of calls.                                      *)
(***************************************************************************)
EXTENDS EfaxController, SequenceTheorems, TLAPS

(* What the properties need besides themselves: a session that sends has a *)
(* job, and the worker has put a prefix of its files, in order, in parms.  *)
JobNamed == state \in SendStates => lastItem \in Items

InOrder(args) == \A k \in 1..Len(args) : args[k].file = <<lastItem, k>>

PagesInOrder ==
  /\ worker # "none" => Len(parms) <= NFiles[lastItem] /\ InOrder(parms)
  /\ worker = "made" \/ (inbox # <<>> /\ Head(inbox) = "fax_made")
       => Carries(parms, lastItem)

Sessions == TypeOK /\ OneDriver /\ JobNamed /\ PagesInOrder

----------------------------------------------------------------------------
(* The type of one page of a job. *)
LEMMA PageType ==
  ASSUME NEW i \in Items, NEW n \in Nat, n < NFiles[i], NEW b \in BOOLEAN
  PROVE  [file |-> <<i, n + 1>>, fresh |-> b] \in Pages
<1>1. n + 1 \in 1..NFiles[i]
  BY JobsAssumption
<1>2. <<i, n + 1>> \in Files
  BY <1>1 DEF Files, FilesOf
<1> QED BY <1>2 DEF Pages

(* No child, and a child just forked, are children. *)
LEMMA ChildTypes ==
  /\ NoChild \in Children
  /\ \A args \in Seq(Pages) : Running(args) \in Children
  /\ <<>> \in Seq(Pages)
<1>1. <<>> \in Seq(Pages)
  OBVIOUS
<1> QED BY <1>1 DEF NoChild, Running, Children, ExitCodes

(* KillChild leaves a well-typed child that has ended, if there is one. *)
LEMMA KillType ==
  ASSUME TypeOK, KillChild
  PROVE  /\ child' \in Children
         /\ child'.args = child.args
         /\ child'.pc = "none" <=> child.pc = "none"
         /\ child'.pc # "running"
         /\ current' \in {"none", "empty", "zero", "fax"}
         /\ inbound' \in Nat
<1>1. CASE child.pc = "running"
  <2>1. PICK code \in ExitCodes : child' = [child EXCEPT !.pc = "zombie", !.code = code]
    BY <1>1 DEF KillChild
  <2>2. child' = [pc |-> "zombie", code |-> code, args |-> child.args]
    BY <2>1 DEF TypeOK, Children
  <2>3. CallProceeds \/ UNCHANGED <<current, inbound>>
    BY <1>1 DEF KillChild
  <2>4. current' \in {"none", "empty", "zero", "fax"} /\ inbound' \in Nat
    BY <2>3 DEF CallProceeds, TypeOK
  <2> QED BY <1>1, <2>2, <2>4 DEF TypeOK, Children
<1>2. CASE child.pc # "running"
  BY <1>2 DEF KillChild, TypeOK
<1> QED BY <1>1, <1>2

(* The controller starts with no session. *)
LEMMA SessionsInit == Init => Sessions
<1> SUFFICES ASSUME Init PROVE Sessions
  OBVIOUS
<1> USE DEF States, Converting, ReceiveModes, SendStates
<1>1. <<>> \in Seq({"fax_made", "no_fax_made"})
  OBVIOUS
<1>2. TypeOK
  BY <1>1, ChildTypes DEF Init, TypeOK
<1>3. OneDriver /\ JobNamed /\ PagesInOrder
  BY DEF Init, OneDriver, JobNamed, PagesInOrder, NoChild
<1> QED BY <1>2, <1>3 DEF Sessions

USE DEF vars, session, work, inDisk, outDisk, control, States, SendStates, Converting,
        ReceiveModes, Receives

(* A session that starts from the user's side. *)
LEMMA UserStep ==
  ASSUME Sessions, User
  PROVE  Sessions'
<1> USE DEF Sessions
<1>1. ASSUME NEW i \in Items, SendOnStandby(i)
      PROVE  Sessions'
  <2>1. KillChild /\ child.pc # "none" /\ Receives(child) /\ worker = "none" /\ inbox = <<>>
    BY <1>1 DEF SendOnStandby, OneDriver
  <2>2. TypeOK'
    BY <1>1, <2>1, KillType DEF SendOnStandby, TypeOK
  <2>3. OneDriver'
    BY <1>1, <2>1, KillType DEF SendOnStandby, OneDriver
  <2>4. JobNamed' /\ PagesInOrder'
    BY <1>1, <2>1 DEF SendOnStandby, JobNamed, PagesInOrder
  <2> QED BY <2>2, <2>3, <2>4
<1>2. ASSUME NEW i \in Items, SendNow(i)
      PROVE  Sessions'
  <2>1. TypeOK'
    BY <1>2, ChildTypes DEF SendNow, MayConvert, StartConversion, TypeOK
  <2>2. OneDriver'
    BY <1>2 DEF SendNow, MayConvert, StartConversion, OneDriver
  <2>3. JobNamed'
    BY <1>2 DEF SendNow, JobNamed
  <2>4. worker = "none" /\ inbox = <<>> /\ UNCHANGED inbox /\ parms' = <<>> /\ lastItem' \in Items
        /\ worker' \in {"none", "convert"}
    BY <1>2 DEF SendNow, MayConvert, StartConversion, OneDriver
  <2>5. PagesInOrder'
    BY <2>4, JobsAssumption DEF PagesInOrder, InOrder
  <2> QED BY <2>1, <2>2, <2>3, <2>5
<1>3. ASSUME NEW mode \in ReceiveModes, Receive(mode)
      PROVE  Sessions'
  <2>1. TypeOK'
    BY <1>3, ChildTypes DEF Receive, ReceiveFrom, TypeOK
  <2>2. OneDriver'
    BY <1>3 DEF Receive, ReceiveFrom, Running, NoChild, OneDriver
  <2> QED BY <1>3, <2>1, <2>2 DEF Receive, ReceiveFrom, JobNamed, PagesInOrder, InOrder, Carries
<1>4. CASE Stop
  <2>1. TypeOK'
    BY <1>4, KillType DEF Stop, TypeOK
  <2>2. OneDriver'
    BY <1>4, KillType DEF Stop, OneDriver
  <2> QED BY <1>4, <2>1, <2>2 DEF Stop, JobNamed, PagesInOrder, InOrder, Carries
<1>5. CASE EfaxClosedown
  <2>1. TypeOK'
    <3>1. CASE UNCHANGED <<closeDown, child, current, inbound>> /\ phase' = "quit"
      BY <1>5, <3>1 DEF EfaxClosedown, TypeOK
    <3>2. CASE KillChild /\ closeDown' = TRUE /\ UNCHANGED phase
      BY <1>5, <3>2, KillType DEF EfaxClosedown, TypeOK
    <3> QED BY <1>5, <3>1, <3>2 DEF EfaxClosedown
  <2>2. OneDriver'
    BY <1>5, KillType DEF EfaxClosedown, MayQuit, OneDriver
  <2> QED BY <1>5, <2>1, <2>2 DEF EfaxClosedown, JobNamed, PagesInOrder, InOrder, Carries
<1>6. CASE ResetCount
  BY <1>6 DEF ResetCount, TypeOK, OneDriver, JobNamed, PagesInOrder, InOrder, Carries
<1> QED BY <1>1, <1>2, <1>3, <1>4, <1>5, <1>6 DEF User

(* A step of make_fax_thread(). *)
LEMMA WorkerStep ==
  ASSUME Sessions, Worker
  PROVE  Sessions'
<1> USE DEF Sessions
<1>1. worker # "none" /\ state \in Converting /\ inbox = <<>> /\ lastItem \in Items
  BY DEF Worker, ConvertFile, AllConverted, WorkerNotifies, OneDriver, JobNamed, TypeOK
<1>2. CASE ConvertFile
  <2> DEFINE f == <<lastItem, Len(parms) + 1>>
             page(b) == [file |-> f, fresh |-> b]
  <2>1. Len(parms) \in Nat /\ Len(parms) < NFiles[lastItem] /\ NFiles[lastItem] \in Nat
    BY <1>1, <1>2, JobsAssumption DEF ConvertFile, TypeOK
  <2>2. \A b \in BOOLEAN : page(b) \in Pages
    BY <1>1, <2>1, PageType
  <2>3. f \in Files
    BY <2>2 DEF Pages
  <2>4. \A b \in BOOLEAN : page(b).file = <<lastItem, Len(parms) + 1>>
    OBVIOUS
  <2>5. \/ (\E b \in BOOLEAN : parms' = Append(parms, page(b))) /\ worker' = worker
        \/ parms' = parms /\ worker' = "failed"
    BY <1>2 DEF ConvertFile
  <2>6. pages' \subseteq Files
    BY <1>2, <2>3 DEF ConvertFile, TypeOK
  <2> HIDE DEF f, page
  <2>7. /\ parms' \in Seq(Pages) /\ worker' \in {"convert", "failed"}
        /\ Len(parms') <= NFiles[lastItem]
        /\ InOrder(parms')
    <3>1. worker = "convert" /\ parms \in Seq(Pages) /\ InOrder(parms)
          /\ Len(parms) <= NFiles[lastItem]
      BY <1>1, <1>2 DEF ConvertFile, TypeOK, PagesInOrder
    <3>2. ASSUME NEW b \in BOOLEAN, parms' = Append(parms, page(b))
          PROVE  /\ parms' \in Seq(Pages) /\ Len(parms') = Len(parms) + 1
                 /\ InOrder(parms')
      BY <2>1, <2>2, <2>4, <3>1, <3>2 DEF InOrder
    <3> QED BY <2>1, <2>5, <3>1, <3>2 DEF InOrder
  <2>8. sem' \in Nat /\ UNCHANGED lastItem
    BY <1>2 DEF ConvertFile, Post, TypeOK
  <2>9. TypeOK'
    BY <1>2, <2>6, <2>7, <2>8 DEF ConvertFile, TypeOK
  <2>10. OneDriver' /\ JobNamed'
    BY <1>1, <1>2, <2>7 DEF ConvertFile, OneDriver, JobNamed
  <2>11. PagesInOrder'
    BY <1>1, <1>2, <2>7, <2>8 DEF ConvertFile, PagesInOrder, InOrder
  <2> QED BY <2>9, <2>10, <2>11
<1>3. CASE AllConverted
  BY <1>1, <1>3 DEF AllConverted, Post, TypeOK, OneDriver, JobNamed, PagesInOrder, InOrder, Carries
<1>4. CASE WorkerNotifies
  <2> DEFINE m == IF worker = "made" THEN "fax_made" ELSE "no_fax_made"
  <2>1. inbox' = <<m>> /\ worker' = "none"
    BY <1>1, <1>4 DEF WorkerNotifies
  <2>2. inbox' \in Seq({"fax_made", "no_fax_made"}) /\ Len(inbox') = 1 /\ Head(inbox') = m
    BY <2>1
  <2>3. TypeOK' /\ OneDriver' /\ JobNamed'
    BY <1>1, <1>4, <2>1, <2>2 DEF WorkerNotifies, TypeOK, OneDriver, JobNamed
  <2>4. PagesInOrder'
    BY <1>4, <2>1, <2>2 DEF WorkerNotifies, PagesInOrder, Carries
  <2> QED BY <2>3, <2>4
<1> QED BY <1>2, <1>3, <1>4 DEF Worker

(* receive() and the end of a session, for a controller without a worker. *)
LEMMA ReceiveType ==
  ASSUME NEW cur \in {"none", "empty", "zero", "fax"}, NEW mode \in ReceiveModes,
         TypeOK, ReceiveFrom(cur, mode)
  PROVE  /\ state' \in {"inactive", mode} /\ shown' \in {shown, mode}
         /\ child' \in Children /\ io' \in {"closed", "watched"}
         /\ current' \in {"none", "empty", "zero", "fax"}
         /\ state' = "inactive" => child'.pc = "none"
         /\ state' = mode => child'.pc = "running" /\ Receives(child')
<1>1. /\ Running(<<>>) \in Children /\ NoChild \in Children
      /\ Running(<<>>).pc = "running" /\ Running(<<>>).args = <<>> /\ NoChild.pc = "none"
  BY ChildTypes DEF Running, NoChild
<1>2. CASE state' = mode /\ shown' = mode /\ child' = Running(<<>>) /\ io' = "watched"
           /\ current' = "empty"
  BY <1>1, <1>2
<1>3. CASE state' = "inactive" /\ shown' = shown /\ child' = NoChild /\ io' = "closed"
           /\ current' = cur
  BY <1>1, <1>3
<1> QED BY <1>2, <1>3 DEF ReceiveFrom

(* sendfax_slot() and no_fax_made_slot(). *)
LEMMA SlotStep ==
  ASSUME Sessions, Slots
  PROVE  Sessions'
<1> USE DEF Sessions
<1>1. /\ state \in Converting /\ worker = "none" /\ Len(inbox) = 1 /\ child.pc = "none"
      /\ inbox # <<>> /\ lastItem \in Items /\ parms \in Seq(Pages)
      /\ inbox \in Seq({"fax_made", "no_fax_made"}) /\ sem \in Nat
  BY DEF Slots, FaxMadeSlot, NoFaxMadeSlot, OneDriver, JobNamed, TypeOK
<1>2. Tail(inbox) = <<>>
  <2>1. Tail(inbox) \in Seq({"fax_made", "no_fax_made"}) /\ Len(Tail(inbox)) = 0
    BY <1>1
  <2> QED BY <2>1, EmptySeq
<1>3. <<>> \in Seq({"fax_made", "no_fax_made"})
  OBVIOUS
<1>4. CASE FaxMadeSlot
  <2>1. Carries(parms, lastItem) /\ parms # <<>>
    BY <1>1, <1>4, JobsAssumption DEF FaxMadeSlot, PagesInOrder, Carries
  <2>2. child' = Running(parms) /\ child' \in Children
    BY <1>1, <1>4, ChildTypes DEF FaxMadeSlot
  <2>3. TypeOK'
    BY <1>1, <1>2, <1>3, <1>4, <2>2 DEF FaxMadeSlot, Wait, TypeOK
  <2>4. OneDriver'
    BY <1>1, <1>2, <1>4, <2>1, <2>2 DEF FaxMadeSlot, OneDriver, Running
  <2> QED BY <1>1, <1>2, <1>4, <2>3, <2>4 DEF FaxMadeSlot, JobNamed, PagesInOrder
<1>5. CASE NoFaxMadeSlot
  <2>1. /\ inbox' = <<>> /\ sem' \in Nat /\ pages' \subseteq Files
        /\ UNCHANGED <<phase, closeDown, populating, worker, parms, inbound, faxin, scrap,
                      rxCount, archived, delivered, removed, lastItem>>
    BY <1>1, <1>2, <1>5 DEF NoFaxMadeSlot, Wait, UnlinkPages, TypeOK
  <2>2. /\ state' \in {"inactive", "receive_standby"} /\ shown' \in States
        /\ child' \in Children /\ io' \in {"closed", "watched"}
        /\ current' \in {"none", "empty", "zero", "fax"}
        /\ state' = "inactive" => child'.pc = "none"
        /\ state' = "receive_standby" => child'.pc = "running" /\ Receives(child')
    <3>1. CASE state = "send_on_standby"
      BY <1>5, <3>1, ReceiveType DEF NoFaxMadeSlot, TypeOK
    <3>2. CASE state # "send_on_standby"
      BY <1>5, <3>2, ChildTypes DEF NoFaxMadeSlot, GoInactive, NoChild, TypeOK
    <3> QED BY <3>1, <3>2
  <2>3. TypeOK'
    BY <1>3, <2>1, <2>2 DEF TypeOK
  <2>4. OneDriver' /\ JobNamed' /\ PagesInOrder'
    BY <1>1, <2>1, <2>2 DEF OneDriver, JobNamed, PagesInOrder
  <2> QED BY <2>3, <2>4
<1> QED BY <1>4, <1>5 DEF Slots

(* timer_event(). *)
LEMMA TimerStep ==
  ASSUME Sessions, Timer
  PROVE  Sessions'
<1> USE DEF Sessions
<1>1. worker = "none" /\ inbox = <<>> /\ child.pc = "zombie"
  BY DEF Timer, ReapSend, ReapStartSend, ReapReceive, Reaps, OneDriver
<1>2. phase' \in {"run", "quit", "down"}
  BY DEF Timer, ReapSend, ReapStartSend, ReapReceive, QuitIfDue, TypeOK
<1>3. \A o \in CleanupOutcomes : o.current \in {"none", "empty", "zero", "fax"}
                                  /\ o.full \in Nat /\ o.notified \in Nat /\ o.scrap \in BOOLEAN
  <2> DEFINE good(o) == /\ o.current \in {"none", "empty", "zero", "fax"}
                        /\ o.full \in Nat /\ o.notified \in Nat /\ o.scrap \in BOOLEAN
             a == [current |-> "none", full |-> 1, scrap |-> FALSE, notified |-> 1]
             b == [current |-> "fax", full |-> 0, scrap |-> FALSE, notified |-> 0]
             c == [current |-> "fax", full |-> 0, scrap |-> TRUE, notified |-> 1]
             d == [current |-> "none", full |-> 0, scrap |-> FALSE, notified |-> 0]
  <2>1. good(a) /\ good(b) /\ good(c) /\ good(d)
    OBVIOUS
  <2> HIDE DEF good
  <2>2. \A o \in CleanupOutcomes : o = a \/ o = b \/ o = c \/ o = d
    BY DEF CleanupOutcomes
  <2>3. \A o \in CleanupOutcomes : good(o)
    BY <2>1, <2>2
  <2> QED BY <2>3 DEF good
<1>4. CASE ReapSend
  <2>1. lastItem \in Items
    BY <1>4 DEF ReapSend, JobNamed
  <2>2. /\ pages' \subseteq Files /\ archived' \subseteq Items /\ delivered' \subseteq Items
        /\ removed' \subseteq Items
    BY <1>4, <2>1 DEF ReapSend, SettleJob, SaveSent, UnlinkPages, TypeOK
  <2>3. /\ state' \in {"inactive", "receive_standby"} /\ shown' \in States
        /\ child' \in Children /\ io' \in {"closed", "watched"}
        /\ current' \in {"none", "empty", "zero", "fax"}
        /\ state' = "inactive" => child'.pc = "none"
        /\ state' = "receive_standby" => child'.pc = "running" /\ Receives(child')
    <3>1. CASE StandbyAfterSend
      BY <1>4, <3>1, ReceiveType DEF ReapSend, TypeOK
    <3>2. CASE ~StandbyAfterSend
      BY <1>4, <3>2, ChildTypes DEF ReapSend, GoInactive, NoChild, TypeOK
    <3> QED BY <3>1, <3>2
  <2>4. TypeOK'
    BY <1>2, <1>4, <2>2, <2>3 DEF ReapSend, TypeOK
  <2>5. OneDriver' /\ JobNamed' /\ PagesInOrder'
    BY <1>1, <1>4, <2>3 DEF ReapSend, OneDriver, JobNamed, PagesInOrder
  <2> QED BY <2>4, <2>5
<1>5. CASE ReapStartSend
  <2>1. PICK o \in CleanupOutcomes : current' = o.current /\ Store(o)
    BY <1>5 DEF ReapStartSend
  <2>2. /\ current' \in {"none", "empty", "zero", "fax"} /\ inbound' \in Nat /\ faxin' \in Nat
        /\ rxCount' \in Nat /\ scrap' \in BOOLEAN
    BY <1>3, <2>1 DEF Store, TypeOK
  <2>3. /\ state' \in {"inactive", "send_on_standby"} /\ shown' \in States
        /\ child' = NoChild /\ io' \in {"closed", "open"}
        /\ parms' \in {parms, <<>>} /\ UNCHANGED <<sem, inbox>>
        /\ state' = "inactive" => worker' = "none"
        /\ state' = "send_on_standby" => worker' = "convert" /\ parms' = <<>>
    BY <1>1, <1>5 DEF ReapStartSend, StartConversion, GoInactive, TypeOK
  <2>4. TypeOK'
    BY <1>1, <1>2, <1>5, <2>2, <2>3, ChildTypes DEF ReapStartSend, TypeOK
  <2>5. OneDriver'
    BY <1>1, <2>3 DEF OneDriver, NoChild
  <2>6. JobNamed' /\ PagesInOrder'
    BY <1>1, <1>5, <2>3, JobsAssumption DEF ReapStartSend, JobNamed, PagesInOrder, InOrder
  <2> QED BY <2>4, <2>5, <2>6
<1>6. CASE ReapReceive
  <2>1. PICK o \in CleanupOutcomes :
              /\ Store(o)
              /\ IF StandbyAfterReceive
                 THEN ReceiveFrom(o.current, "receive_standby")
                 ELSE GoInactive /\ current' = o.current
    BY <1>6 DEF ReapReceive
  <2>2. inbound' \in Nat /\ faxin' \in Nat /\ rxCount' \in Nat /\ scrap' \in BOOLEAN
    BY <1>3, <2>1 DEF Store, TypeOK
  <2>3. /\ state' \in {"inactive", "receive_standby"} /\ shown' \in States
        /\ child' \in Children /\ io' \in {"closed", "watched"}
        /\ current' \in {"none", "empty", "zero", "fax"}
        /\ state' = "inactive" => child'.pc = "none"
        /\ state' = "receive_standby" => child'.pc = "running" /\ Receives(child')
    <3>1. CASE StandbyAfterReceive
      BY <1>3, <2>1, <3>1, ReceiveType DEF TypeOK
    <3>2. CASE ~StandbyAfterReceive
      BY <1>3, <2>1, <3>2, ChildTypes DEF GoInactive, NoChild, TypeOK
    <3> QED BY <3>1, <3>2
  <2>4. TypeOK'
    BY <1>2, <1>6, <2>2, <2>3 DEF ReapReceive, TypeOK
  <2>5. OneDriver' /\ JobNamed' /\ PagesInOrder'
    BY <1>1, <1>6, <2>3 DEF ReapReceive, OneDriver, JobNamed, PagesInOrder
  <2> QED BY <2>4, <2>5
<1> QED BY <1>4, <1>5, <1>6 DEF Timer

(* The lists, the efax process, and the end and start of the program. *)
LEMMA OtherStep ==
  ASSUME Sessions, Populate \/ Call \/ EfaxExits \/ Exit \/ Crash \/ Start
  PROVE  Sessions'
<1> USE DEF Sessions
<1>1. CASE Populate
  BY <1>1 DEF Populate, TypeOK, OneDriver, JobNamed, PagesInOrder, InOrder, Carries
<1>2. CASE Call
  BY <1>2 DEF Call, CallProceeds, TypeOK, OneDriver, JobNamed, PagesInOrder, InOrder, Carries
<1>3. CASE EfaxExits
  <2>1. PICK code \in ExitCodes : child' = [child EXCEPT !.pc = "zombie", !.code = code]
    BY <1>3 DEF EfaxExits
  <2>2. child' = [pc |-> "zombie", code |-> code, args |-> child.args]
    BY <2>1 DEF TypeOK, Children
  <2>3. child' \in Children /\ child'.pc # "none" /\ child'.args = child.args
        /\ child.pc # "none"
    BY <1>3, <2>2 DEF EfaxExits, TypeOK, Children
  <2>4. UNCHANGED <<session, work, inDisk, outDisk, state, shown, lastItem, io>>
    BY <1>3 DEF EfaxExits
  <2>5. TypeOK'
    BY <2>3, <2>4 DEF TypeOK
  <2>6. OneDriver'
    BY <2>3, <2>4 DEF OneDriver
  <2> QED BY <2>4, <2>5, <2>6 DEF JobNamed, PagesInOrder, InOrder, Carries
<1>4. <<>> \in Seq({"fax_made", "no_fax_made"}) /\ NoChild.pc = "none"
  BY DEF NoChild
<1>5. ASSUME ProcessGone, current' \in {"none", "empty", "zero", "fax"}, faxin' \in Nat,
             scrap' \in BOOLEAN
      PROVE  Sessions'
  <2>1. TypeOK'
    BY <1>4, <1>5, ChildTypes DEF ProcessGone, TypeOK
  <2>2. OneDriver' /\ JobNamed' /\ PagesInOrder'
    BY <1>4, <1>5 DEF ProcessGone, OneDriver, JobNamed, PagesInOrder
  <2> QED BY <2>1, <2>2
<1>6. CleanUpReceiveDir => /\ current' \in {"none", "empty", "zero", "fax"} /\ faxin' \in Nat
                           /\ scrap' \in BOOLEAN
  <2>1. CleanUpReceiveDir => current' \in {"none", "empty", "zero", "fax"} /\ faxin' \in Nat
    <3>1. CleanUpReceiveDir => /\ current' = "none" \/ current' = current
                               /\ faxin' = faxin \/ faxin' = faxin + 1
      BY Zenon DEF CleanUpReceiveDir
    <3> QED BY <3>1 DEF TypeOK
  <2>2. CleanUpReceiveDir => scrap' \in BOOLEAN
    <3>1. CASE scrap' = (scrap \/ current = "zero")
      BY <3>1
    <3>2. CASE scrap' \in {scrap, TRUE}
      BY <3>2 DEF TypeOK
    <3> QED BY <3>1, <3>2 DEF CleanUpReceiveDir
  <2> QED BY <2>1, <2>2
<1>7. CASE Exit
  BY <1>5, <1>6, <1>7 DEF Exit
<1>8. CASE Crash
  BY <1>5, <1>8 DEF Crash, TypeOK
<1>9. CASE Start
  <2>1. TypeOK'
    BY <1>6, <1>9 DEF Start, TypeOK
  <2> QED BY <1>9, <2>1 DEF Start, OneDriver, JobNamed, PagesInOrder, InOrder, Carries
<1> QED BY <1>1, <1>2, <1>3, <1>7, <1>8, <1>9

LEMMA SessionsStutter == Sessions /\ UNCHANGED vars => Sessions'
BY DEF Sessions, TypeOK, OneDriver, JobNamed, PagesInOrder, InOrder, Carries

LEMMA SessionsStep == Sessions /\ [Next]_vars => Sessions'
BY UserStep, WorkerStep, SlotStep, TimerStep, OtherStep, SessionsStutter DEF Next

(* The model's types, and one driver to a session: between them the worker,*)
(* its notification and the child account for every state but inactive.    *)
THEOREM SessionsHold == Spec => []Sessions
<1>1. Init => Sessions
  BY SessionsInit
<1>2. Sessions /\ [Next]_vars => Sessions'
  BY SessionsStep
<1> QED BY <1>1, <1>2, PTL DEF Spec

(* Every variable keeps its type, whatever the environment does wrong.     *)
THEOREM TypeCorrect == Spec => []TypeOK
<1>1. Sessions => TypeOK
  BY DEF Sessions
<1> QED BY <1>1, SessionsHold, PTL

(* A session has one driver: make_fax_thread(), its notification on the    *)
(* way to sendfax_slot() or no_fax_made_slot(), or the efax process.       *)
THEOREM OneDriverHolds == Spec => []OneDriver
<1>1. Sessions => OneDriver
  BY DEF Sessions
<1> QED BY <1>1, SessionsHold, PTL

----------------------------------------------------------------------------
(* The outcomes of receive_cleanup() keep count of the faxes. *)
LEMMA CleanupConserves ==
  ASSUME TypeOK, FaxesConserved, NEW o \in CleanupOutcomes, Store(o)
  PROVE  inbound' = faxin' + (IF o.current = "fax" THEN 1 ELSE 0)
<1>1. o.full + (IF o.current = "fax" THEN 1 ELSE 0) = IF current = "fax" THEN 1 ELSE 0
  <2>1. CASE current = "fax"
    <3>1. \/ o = [current |-> "none", full |-> 1, scrap |-> FALSE, notified |-> 1]
          \/ o = [current |-> "fax", full |-> 0, scrap |-> FALSE, notified |-> 0]
          \/ o = [current |-> "fax", full |-> 0, scrap |-> TRUE, notified |-> 1]
      BY <2>1 DEF CleanupOutcomes
    <3> QED BY <2>1, <3>1
  <2>2. CASE current # "fax"
    <3>1. o = [current |-> "none", full |-> 0, scrap |-> FALSE, notified |-> 0]
      BY <2>2 DEF CleanupOutcomes
    <3> QED BY <2>2, <3>1
  <2> QED BY <2>1, <2>2
<1>2. faxin' = faxin + o.full /\ inbound' = inbound
  BY DEF Store
<1>3. o.full \in Nat /\ faxin \in Nat
  <2>1. o.full \in {0, 1}
    BY DEF CleanupOutcomes
  <2> QED BY <2>1 DEF TypeOK
<1> QED BY <1>1, <1>2, <1>3 DEF FaxesConserved

(* Every fax that arrived is kept, in faxin/current or in a directory of   *)
(* its own: through every stop, failure to save, crash and restart.        *)
THEOREM FaxesAreConserved == Spec => []FaxesConserved
<1>1. Init => FaxesConserved
  BY DEF Init, FaxesConserved
<1>2. ASSUME Sessions, FaxesConserved, [Next]_vars
      PROVE  FaxesConserved'
  <2>0. TypeOK
    BY <1>2 DEF Sessions
  <2>1. ASSUME UNCHANGED <<current, inbound, faxin>> PROVE FaxesConserved'
    BY <1>2, <2>1 DEF FaxesConserved
  <2>2. ASSUME CallProceeds \/ UNCHANGED <<current, inbound>>, UNCHANGED faxin
        PROVE  FaxesConserved'
    BY <1>2, <2>0, <2>2 DEF CallProceeds, FaxesConserved, TypeOK
  <2>3. ASSUME KillChild, UNCHANGED faxin PROVE FaxesConserved'
    BY <2>2, <2>3 DEF KillChild
  <2>4. ASSUME NEW cur, NEW mode, inbound' = faxin' + (IF cur = "fax" THEN 1 ELSE 0),
               ReceiveFrom(cur, mode)
        PROVE  FaxesConserved'
    BY <2>4 DEF ReceiveFrom, FaxesConserved
  <2>5. ASSUME CleanUpReceiveDir, UNCHANGED inbound PROVE FaxesConserved'
    <3>1. \/ current' = "none" /\ faxin' = IF current = "fax" THEN faxin + 1 ELSE faxin
          \/ UNCHANGED <<faxin, current>>
      BY <2>5, Zenon DEF CleanUpReceiveDir
    <3> QED BY <1>2, <2>0, <2>5, <3>1 DEF FaxesConserved, TypeOK
  <2>6. CASE User
    <3>1. ASSUME NEW i \in Items, SendOnStandby(i) PROVE FaxesConserved'
      BY <2>3, <3>1 DEF SendOnStandby
    <3>2. ASSUME NEW i \in Items, SendNow(i) PROVE FaxesConserved'
      BY <2>1, <3>2 DEF SendNow
    <3>3. ASSUME NEW mode \in ReceiveModes, Receive(mode) PROVE FaxesConserved'
      BY <1>2, <2>4, <3>3 DEF Receive, FaxesConserved
    <3>4. CASE Stop
      BY <2>3, <3>4 DEF Stop
    <3>5. CASE EfaxClosedown
      BY <2>1, <2>3, <3>5 DEF EfaxClosedown
    <3>6. CASE ResetCount
      BY <2>1, <3>6 DEF ResetCount
    <3> QED BY <2>6, <3>1, <3>2, <3>3, <3>4, <3>5, <3>6 DEF User
  <2>7. CASE Worker
    BY <2>1, <2>7 DEF Worker, ConvertFile, AllConverted, WorkerNotifies
  <2>8. CASE FaxMadeSlot
    BY <2>1, <2>8 DEF FaxMadeSlot
  <2>9. CASE NoFaxMadeSlot
    BY <1>2, <2>1, <2>4, <2>9 DEF NoFaxMadeSlot, FaxesConserved
  <2>10. CASE ReapSend
    BY <1>2, <2>1, <2>4, <2>10 DEF ReapSend, FaxesConserved
  <2>11. CASE ReapStartSend
    <3>1. PICK o \in CleanupOutcomes : current' = o.current /\ Store(o)
      BY <2>11 DEF ReapStartSend
    <3> QED BY <1>2, <2>0, <3>1, CleanupConserves DEF FaxesConserved
  <2>12. CASE ReapReceive
    <3>1. PICK o \in CleanupOutcomes :
                /\ Store(o)
                /\ IF StandbyAfterReceive
                   THEN ReceiveFrom(o.current, "receive_standby")
                   ELSE GoInactive /\ current' = o.current
      BY <2>12 DEF ReapReceive
    <3>2. inbound' = faxin' + (IF o.current = "fax" THEN 1 ELSE 0)
      BY <1>2, <2>0, <3>1, CleanupConserves
    <3> QED BY <2>4, <3>1, <3>2 DEF FaxesConserved
  <2>13. CASE Populate \/ EfaxExits
    BY <2>1, <2>13 DEF Populate, EfaxExits
  <2>14. CASE Call
    BY <2>2, <2>14 DEF Call
  <2>15. CASE Exit
    BY <2>5, <2>15 DEF Exit, ProcessGone
  <2>16. CASE Crash
    BY <2>1, <2>16 DEF Crash, ProcessGone
  <2>17. CASE Start
    BY <2>5, <2>17 DEF Start
  <2>18. CASE UNCHANGED vars
    BY <2>1, <2>18
  <2> QED BY <1>2, <2>6, <2>7, <2>8, <2>9, <2>10, <2>11, <2>12, <2>13, <2>14, <2>15, <2>16,
             <2>17, <2>18 DEF Next, Slots, Timer
<1> QED BY <1>1, <1>2, SessionsHold, PTL DEF Spec

----------------------------------------------------------------------------
(* An efax that sends carries the job that will be settled when it ends.   *)
THEOREM SendsTheJobHolds == Spec => []SendsTheJob
<1>1. Init => SendsTheJob
  BY DEF Init, SendsTheJob, NoChild
<1>2. ASSUME Sessions, SendsTheJob, [Next]_vars
      PROVE  SendsTheJob'
  <2>0. TypeOK /\ OneDriver /\ PagesInOrder
    BY <1>2 DEF Sessions
  <2>1. ASSUME UNCHANGED <<child, lastItem>> PROVE SendsTheJob'
    BY <1>2, <2>1 DEF SendsTheJob, Carries, Receives
  <2>2. ASSUME child'.args = child.args, child'.pc = "none" <=> child.pc = "none",
               UNCHANGED lastItem
        PROVE  SendsTheJob'
    BY <1>2, <2>2 DEF SendsTheJob, Carries, Receives
  <2>3. ASSUME child' = NoChild \/ child' = Running(<<>>) PROVE SendsTheJob'
    BY <2>3 DEF SendsTheJob, NoChild, Running, Receives
  <2>4. ASSUME KillChild, UNCHANGED lastItem PROVE SendsTheJob'
    BY <2>0, <2>2, <2>4, KillType
  <2>5. ASSUME NEW cur, NEW mode, ReceiveFrom(cur, mode) PROVE SendsTheJob'
    BY <2>3, <2>5 DEF ReceiveFrom
  <2>6. ASSUME GoInactive PROVE SendsTheJob'
    BY <2>3, <2>6 DEF GoInactive
  <2>7. CASE User
    <3>1. ASSUME NEW i \in Items, SendOnStandby(i) PROVE SendsTheJob'
      <4>1. KillChild /\ Receives(child)
        BY <2>0, <3>1 DEF SendOnStandby, OneDriver, ReceiveModes
      <4> QED BY <2>0, <4>1, KillType DEF SendsTheJob, Receives
    <3>2. ASSUME NEW i \in Items, SendNow(i) PROVE SendsTheJob'
      BY <2>0, <3>2 DEF SendNow, MayConvert, OneDriver, SendsTheJob
    <3>3. ASSUME NEW mode \in ReceiveModes, Receive(mode) PROVE SendsTheJob'
      BY <2>5, <3>3 DEF Receive
    <3>4. CASE Stop
      BY <2>4, <3>4 DEF Stop
    <3>5. CASE EfaxClosedown
      BY <2>1, <2>4, <3>5 DEF EfaxClosedown
    <3>6. CASE ResetCount
      BY <2>1, <3>6 DEF ResetCount
    <3> QED BY <2>7, <3>1, <3>2, <3>3, <3>4, <3>5, <3>6 DEF User
  <2>8. CASE Worker
    BY <2>1, <2>8 DEF Worker, ConvertFile, AllConverted, WorkerNotifies
  <2>9. CASE FaxMadeSlot
    <3>1. child' = Running(parms) /\ lastItem' = lastItem /\ Carries(parms, lastItem)
      BY <2>0, <2>9 DEF FaxMadeSlot, PagesInOrder
    <3>2. child'.args = parms
      BY <3>1 DEF Running
    <3> QED BY <3>1, <3>2 DEF SendsTheJob, Carries
  <2>10. CASE NoFaxMadeSlot
    BY <2>5, <2>6, <2>10 DEF NoFaxMadeSlot
  <2>11. CASE ReapSend
    BY <2>5, <2>6, <2>11 DEF ReapSend
  <2>12. CASE ReapStartSend
    BY <2>3, <2>6, <2>12 DEF ReapStartSend
  <2>13. CASE ReapReceive
    BY <2>5, <2>6, <2>13 DEF ReapReceive
  <2>14. CASE EfaxExits
    <3>1. PICK code \in ExitCodes : child' = [child EXCEPT !.pc = "zombie", !.code = code]
      BY <2>14 DEF EfaxExits
    <3>2. child' = [pc |-> "zombie", code |-> code, args |-> child.args]
      BY <2>0, <3>1 DEF TypeOK, Children
    <3> QED BY <2>2, <2>14, <3>2 DEF EfaxExits
  <2>15. CASE Populate \/ Call \/ Start
    BY <2>1, <2>15 DEF Populate, Call, Start, control
  <2>16. CASE Exit \/ Crash
    BY <2>3, <2>16 DEF Exit, Crash, ProcessGone
  <2>17. CASE UNCHANGED vars
    BY <2>1, <2>17 DEF vars, control
  <2> QED BY <1>2, <2>7, <2>8, <2>9, <2>10, <2>11, <2>12, <2>13, <2>14, <2>15, <2>16, <2>17
          DEF Next, Slots, Timer
<1> QED BY <1>1, <1>2, SessionsHold, PTL DEF Spec

(* What SettleJob adds to removed it adds to delivered: the efax that      *)
(* ended with success carried the job.                                     *)
LEMMA SettledIsDelivered ==
  ASSUME Sessions, SendsTheJob, RemovedAreDelivered, state \in Converting,
         child.pc = "zombie", SettleJob
  PROVE  RemovedAreDelivered'
<1>1. CASE child.code = 0
  <2>1. Carries(child.args, lastItem)
    BY DEF Sessions, OneDriver, Converting, SendsTheJob
  <2>2. lastItem \in Items
    BY DEF Sessions, JobNamed, Converting, SendStates
  <2>3. lastItem \in delivered' /\ delivered \subseteq delivered'
    BY <1>1, <2>1, <2>2 DEF SettleJob
  <2>4. removed' = IF lastItem \in SocketItems THEN removed \cup {lastItem} ELSE removed
    BY <1>1 DEF SettleJob
  <2> QED BY <2>3, <2>4 DEF RemovedAreDelivered
<1>2. CASE child.code # 0
  BY <1>2 DEF SettleJob, RemovedAreDelivered
<1> QED BY <1>1, <1>2

(* A print job leaves the socket server's queue only after an efax that    *)
(* carried all of its files ended with success.                            *)
THEOREM RemovedWereDelivered == Spec => []RemovedAreDelivered
<1>1. Init => RemovedAreDelivered
  BY DEF Init, RemovedAreDelivered
<1>2. ASSUME Sessions, SendsTheJob, RemovedAreDelivered, [Next]_vars
      PROVE  RemovedAreDelivered'
  <2>1. ASSUME UNCHANGED <<delivered, removed>> PROVE RemovedAreDelivered'
    BY <1>2, <2>1 DEF RemovedAreDelivered
  <2>2. CASE User
    BY <2>1, <2>2 DEF User, SendOnStandby, SendNow, Receive, Stop, EfaxClosedown, ResetCount,
                      outDisk
  <2>3. CASE Worker \/ Slots
    BY <2>1, <2>3 DEF Worker, ConvertFile, AllConverted, WorkerNotifies, Slots, FaxMadeSlot,
                      NoFaxMadeSlot, outDisk
  <2>4. CASE ReapSend
    BY <1>2, <2>4, SettledIsDelivered DEF ReapSend, Reaps
  <2>5. CASE ReapStartSend \/ ReapReceive
    BY <2>1, <2>5 DEF ReapStartSend, ReapReceive, outDisk
  <2>6. CASE Populate \/ Call \/ EfaxExits \/ Exit \/ Crash \/ Start \/ UNCHANGED vars
    BY <2>1, <2>6 DEF Populate, Call, EfaxExits, Exit, Crash, Start, ProcessGone, outDisk, vars
  <2> QED BY <1>2, <2>2, <2>3, <2>4, <2>5, <2>6 DEF Next, Timer
<1> QED BY <1>1, <1>2, SessionsHold, SendsTheJobHolds, PTL DEF Spec

----------------------------------------------------------------------------
(* The semaphore counts the notifications that are due: one per job that   *)
(* make_fax_thread() is done with.  So fax_made_sem.wait() never blocks.   *)
THEOREM SemaphoreBalances == Spec => []SemBalanced
<1>1. Init => SemBalanced
  BY DEF Init, SemBalanced
<1>2. ASSUME Sessions, SemBalanced, [Next]_vars
      PROVE  SemBalanced'
  <2>0. TypeOK /\ OneDriver
    BY <1>2 DEF Sessions
  <2>1. ASSUME UNCHANGED <<sem, inbox, worker>> PROVE SemBalanced'
    BY <1>2, <2>1 DEF SemBalanced
  <2>2. ASSUME NEW s, StartConversion(s), worker = "none" PROVE SemBalanced'
    BY <1>2, <2>2 DEF StartConversion, SemBalanced
  <2>3. CASE User
    <3>1. ASSUME NEW i \in Items, SendNow(i) PROVE SemBalanced'
      <4>1. worker = "none"
        BY <2>0, <3>1 DEF SendNow, MayConvert, OneDriver
      <4> QED BY <2>2, <3>1, <4>1 DEF SendNow
    <3>2. CASE \E i \in Items : SendOnStandby(i)
      BY <2>1, <3>2 DEF SendOnStandby, work
    <3>3. CASE (\E mode \in ReceiveModes : Receive(mode)) \/ Stop \/ EfaxClosedown \/ ResetCount
      BY <2>1, <3>3 DEF Receive, Stop, EfaxClosedown, ResetCount, work
    <3> QED BY <2>3, <3>1, <3>2, <3>3 DEF User
  <2>4. CASE ConvertFile
    <3>1. \/ UNCHANGED <<sem, inbox, worker>>
          \/ worker = "convert" /\ worker' = "failed" /\ sem' = sem + 1 /\ inbox' = inbox
      BY <2>4 DEF ConvertFile, Post
    <3> QED BY <1>2, <2>0, <2>1, <3>1 DEF SemBalanced, TypeOK
  <2>5. CASE AllConverted
    BY <1>2, <2>0, <2>5 DEF AllConverted, Post, SemBalanced, TypeOK
  <2>6. CASE WorkerNotifies
    <3>1. PICK m \in {"fax_made", "no_fax_made"} : inbox' = Append(inbox, m)
      BY <2>6 DEF WorkerNotifies
    <3>2. Len(inbox') = Len(inbox) + 1
      BY <2>0, <3>1 DEF TypeOK
    <3>3. worker \in {"made", "failed"} /\ worker' = "none" /\ sem' = sem
      BY <2>6 DEF WorkerNotifies
    <3> QED BY <1>2, <2>0, <3>2, <3>3 DEF SemBalanced, TypeOK
  <2>7. CASE Slots
    <3>1. inbox # <<>> /\ inbox' = Tail(inbox) /\ sem' = sem - 1 /\ worker' = worker
      BY <2>7 DEF Slots, FaxMadeSlot, NoFaxMadeSlot, Wait
    <3>2. Len(inbox') = Len(inbox) - 1 /\ Len(inbox) \in Nat \ {0}
      BY <2>0, <3>1 DEF TypeOK
    <3>3. sem \in Nat /\ sem = Len(inbox) + (IF worker \in {"made", "failed"} THEN 1 ELSE 0)
      BY <1>2, <2>0 DEF SemBalanced, TypeOK
    <3>4. sem - 1 = Len(inbox) - 1 + (IF worker \in {"made", "failed"} THEN 1 ELSE 0)
      BY <3>2, <3>3
    <3> QED BY <3>1, <3>2, <3>4 DEF SemBalanced
  <2>8. CASE ReapStartSend
    <3>1. worker = "none"
      BY <2>0, <2>8 DEF ReapStartSend, OneDriver
    <3> QED BY <2>1, <2>2, <2>8, <3>1 DEF ReapStartSend, work
  <2>9. CASE ReapSend \/ ReapReceive \/ Populate \/ Call \/ EfaxExits \/ Start \/ UNCHANGED vars
    BY <2>1, <2>9 DEF ReapSend, ReapReceive, Populate, Call, EfaxExits, Start, vars, work
  <2>10. CASE Exit \/ Crash
    BY <2>10 DEF Exit, Crash, ProcessGone, SemBalanced
  <2> QED BY <1>2, <2>3, <2>4, <2>5, <2>6, <2>7, <2>8, <2>9, <2>10 DEF Next, Worker, Timer
<1> QED BY <1>1, <1>2, SessionsHold, PTL DEF Spec

(* gtk_main() is told to end only in state inactive, and by OneDriver      *)
(* neither a thread, nor a notification, nor an efax is left then.         *)
THEOREM QuitIsClean == Spec => []QuitsWhenDone
<1> DEFINE Q == phase = "quit" => state = "inactive"
<1>1. Init => Q
  BY DEF Init
<1>2. ASSUME Sessions, Q, [Next]_vars
      PROVE  Q'
  <2>0. OneDriver
    BY <1>2 DEF Sessions
  <2>1. CASE User
    BY <1>2, <2>1 DEF User, SendOnStandby, SendNow, Receive, Stop, EfaxClosedown, MayQuit, ResetCount
  <2>2. CASE Worker
    BY <1>2, <2>2 DEF Worker, ConvertFile, AllConverted, WorkerNotifies, session, control
  <2>3. CASE Slots
    BY <2>3 DEF Slots, FaxMadeSlot, NoFaxMadeSlot, session
  <2>4. CASE Timer
    BY <2>4 DEF Timer, ReapSend, ReapStartSend, ReapReceive, Reaps, QuitIfDue
  <2>5. CASE Populate \/ Call \/ EfaxExits \/ UNCHANGED vars
    BY <1>2, <2>5 DEF Populate, Call, EfaxExits, vars, session, control
  <2>6. CASE Exit \/ Crash \/ Start
    BY <2>6 DEF Exit, Crash, Start, ProcessGone
  <2> QED BY <1>2, <2>1, <2>2, <2>3, <2>4, <2>5, <2>6 DEF Next
<1>3. Sessions /\ Q => QuitsWhenDone
  BY DEF Sessions, OneDriver, QuitsWhenDone
<1> QED BY <1>1, <1>2, <1>3, SessionsHold, PTL DEF Spec

----------------------------------------------------------------------------
(* The controller implements FaxService.  First, how the mapped variables  *)
(* read in each kind of state.                                             *)
SJob == IF state \in SendStates THEN lastItem ELSE NoItem
SDialled == child.pc # "none" /\ ~Receives(child)
SModem == IF child.pc # "running" THEN "free" ELSE IF Receives(child) THEN "rx" ELSE "tx"

(* Before a step: a job is dialled only once it has been converted, and a  *)
(* controller that receives or does nothing has no job.                    *)
LEMMA MappedState ==
  ASSUME Sessions
  PROVE  /\ SJob # NoItem => state \in SendStates /\ lastItem \in Items
         /\ state \in SendStates => SJob = lastItem /\ SJob \in Items /\ SJob # NoItem
         /\ state \notin SendStates => SJob = NoItem /\ ~SDialled
         /\ child.pc \in {"none", "zombie"} => SModem = "free"
         /\ SDialled => child.pc # "none" /\ state \in Converting
<1>1. lastItem \in Items => lastItem # NoItem
  BY JobsAssumption
<1>2. TypeOK /\ OneDriver /\ JobNamed
  BY DEF Sessions
<1>3. SModem = "free" \/ child.pc = "running"
  BY DEF SModem
<1>4. state \notin SendStates => ~SDialled
  BY <1>2 DEF OneDriver, SDialled, TypeOK, States, SendStates
<1>5. SDialled => child.pc # "none" /\ state \in Converting
  BY <1>2 DEF OneDriver, SDialled, TypeOK, States, SendStates, Converting
<1> QED BY <1>1, <1>2, <1>3, <1>4, <1>5 DEF SJob, JobNamed

(* The outcomes of receive(), from a step that leaves no job. *)
LEMMA MappedReceive ==
  ASSUME NEW cur, NEW mode \in ReceiveModes, ReceiveFrom(cur, mode)
  PROVE  SJob' = NoItem /\ SDialled' = FALSE /\ SModem' \in {"free", "rx"}
<1>1. state' \notin SendStates
  BY DEF ReceiveFrom, ReceiveModes, SendStates
<1>2. \/ child'.pc = "none"
      \/ child'.pc = "running" /\ Receives(child)'
  BY DEF ReceiveFrom, NoChild, Running, Receives
<1> QED BY <1>1, <1>2 DEF SJob, SDialled, SModem, Receives

(* The end of a session without another. *)
LEMMA MappedInactive ==
  ASSUME state' = "inactive", child' = NoChild
  PROVE  SJob' = NoItem /\ SDialled' = FALSE /\ SModem' = "free"
BY DEF SJob, SDialled, SModem, NoChild, SendStates, Receives

(* A kill takes the modem from the child. *)
LEMMA MappedKill ==
  ASSUME TypeOK, KillChild
  PROVE  SModem' = "free" /\ SDialled' = SDialled
<1>1. /\ child'.args = child.args
      /\ child'.pc = "none" <=> child.pc = "none"
      /\ child'.pc # "running"
  BY KillType
<1> QED BY <1>1 DEF SModem, SDialled, Receives

(* An efax that ended with success delivered the job in hand, no other:    *)
(* the first file it carried says whose it was.                            *)
LEMMA DeliversOne ==
  ASSUME Sessions, SendsTheJob, state \in Converting, child.pc = "zombie", SettleJob
  PROVE  delivered' = delivered \/ (SDialled /\ delivered' = delivered \cup {lastItem})
<1>1. Carries(child.args, lastItem) /\ ~Receives(child)
  BY DEF Sessions, OneDriver, Converting, SendsTheJob
<1>2. lastItem \in Items
  BY DEF Sessions, JobNamed, Converting, SendStates
<1>3. ASSUME NEW i \in Items, Carries(child.args, i) PROVE i = lastItem
  <2>1. Len(child.args) \in Nat \ {0}
    BY <1>1, <1>2, JobsAssumption DEF Carries
  <2>2. child.args[1].file = <<i, 1>> /\ child.args[1].file = <<lastItem, 1>>
    BY <1>1, <1>3, <2>1 DEF Carries
  <2> QED BY <2>2
<1>4. {i \in Items : Carries(child.args, i)} = {lastItem}
  BY <1>1, <1>2, <1>3
<1>5. CASE child.code = 0
  BY <1>1, <1>4, <1>5 DEF SettleJob, SDialled
<1>6. CASE child.code # 0
  BY <1>6 DEF SettleJob
<1> QED BY <1>5, <1>6

(* The actions of the service, in the mapped variables. *)
LEMMA ServiceActions ==
  /\ \A i \in Items :
       /\ SJob = NoItem /\ SJob' = i /\ SDialled' = FALSE
       /\ SModem' = "free" /\ delivered' = delivered
       => Service!Next
  /\ /\ SJob # NoItem /\ ~SDialled /\ SModem = "free"
     /\ SDialled' = TRUE /\ SModem' = "tx" /\ SJob' = SJob /\ delivered' = delivered
     => Service!Next
  /\ /\ SModem # "free" /\ SModem' = "free"
     /\ SJob' = SJob /\ SDialled' = SDialled /\ delivered' = delivered
     => Service!Next
  /\ /\ SJob # NoItem /\ SModem = "free"
     /\ SJob' = NoItem /\ SDialled' = FALSE /\ SModem' \in {"free", "rx"}
     /\ delivered' = delivered \/ (SDialled /\ delivered' = delivered \cup {SJob})
     => Service!Next
  /\ /\ SJob = NoItem /\ SModem = "free"
     /\ SJob' = NoItem /\ SDialled' = SDialled /\ SModem' = "rx" /\ delivered' = delivered
     => Service!Next
  /\ /\ SJob' = NoItem /\ SDialled' = FALSE /\ SModem' = "free" /\ delivered' = delivered
     => Service!Next
BY DEF Service!Next, Service!Accept, Service!Dial, Service!HangUp, Service!Settle,
       Service!Listen, Service!PowerOff, SJob, SDialled, SModem

(* Each step of the controller is a step of the service, or none. *)
LEMMA ServiceStep ==
  ASSUME Sessions, SendsTheJob, [Next]_vars
  PROVE  Service!Next \/ UNCHANGED <<SJob, SDialled, SModem, delivered>>
<1> DEFINE Same == UNCHANGED <<SJob, SDialled, SModem, delivered>>
<1>0. TypeOK /\ OneDriver /\ PagesInOrder
  BY DEF Sessions
<1>1. ASSUME UNCHANGED <<state, lastItem, child, delivered>> PROVE Same
  BY <1>1 DEF SJob, SDialled, SModem, Receives
<1>2. ASSUME KillChild, UNCHANGED <<state, lastItem, delivered>> PROVE Service!Next \/ Same
  <2>1. SJob' = SJob
    BY <1>2 DEF SJob
  <2>2. SModem' = "free" /\ SDialled' = SDialled
    BY <1>0, <1>2, MappedKill
  <2>3. CASE SModem = "free"
    BY <1>2, <2>1, <2>2, <2>3
  <2>4. CASE SModem # "free"
    BY <1>2, <2>1, <2>2, <2>4, ServiceActions
  <2> QED BY <2>3, <2>4
<1>3. CASE User
  <2>1. ASSUME NEW i \in Items, SendOnStandby(i) PROVE Service!Next
    <3>1. SJob' = i
      BY <2>1 DEF SendOnStandby, SJob, SendStates
    <3>2. SJob = NoItem /\ ~SDialled
      BY <2>1, MappedState DEF SendOnStandby, SendStates
    <3>3. SModem' = "free" /\ SDialled' = SDialled
      BY <1>0, <2>1, MappedKill DEF SendOnStandby
    <3> QED BY <2>1, <3>1, <3>2, <3>3, ServiceActions DEF SendOnStandby, outDisk
  <2>2. ASSUME NEW i \in Items, SendNow(i) PROVE Service!Next
    <3>1. child = NoChild \/ child.pc = "none"
      BY <1>0, <2>2 DEF SendNow, MayConvert, OneDriver
    <3>2. child' = child /\ delivered' = delivered
      BY <2>2 DEF SendNow, outDisk
    <3>3. SDialled' = FALSE /\ SModem' = "free"
      BY <3>1, <3>2 DEF SDialled, SModem, NoChild, Receives
    <3>4. SJob = NoItem
      BY <2>2 DEF SendNow, MayConvert, SJob, SendStates
    <3>5. SJob' = i \/ SJob' = NoItem
      BY <2>2 DEF SendNow, StartConversion, SJob, SendStates
    <3> QED BY <3>2, <3>3, <3>4, <3>5, ServiceActions
  <2>3. ASSUME NEW mode \in ReceiveModes, Receive(mode) PROVE Service!Next
    <3>1. SJob = NoItem /\ SDialled = FALSE /\ SModem = "free"
      BY <1>0, <2>3 DEF Receive, SJob, SendStates, OneDriver, SDialled, SModem
    <3>2. SJob' = NoItem /\ SDialled' = FALSE /\ SModem' \in {"free", "rx"}
      BY <2>3, MappedReceive DEF Receive
    <3> QED BY <2>3, <3>1, <3>2, ServiceActions DEF Receive, outDisk
  <2>4. CASE Stop
    BY <1>2, <2>4 DEF Stop, outDisk
  <2>5. CASE EfaxClosedown
    BY <1>1, <1>2, <2>5 DEF EfaxClosedown, outDisk
  <2>6. CASE ResetCount
    BY <1>1, <2>6 DEF ResetCount, outDisk
  <2> QED BY <1>3, <2>1, <2>2, <2>3, <2>4, <2>5, <2>6 DEF User
<1>4. CASE Worker \/ Populate \/ Call
  BY <1>1, <1>4 DEF Worker, ConvertFile, AllConverted, WorkerNotifies, Populate, Call, control,
                    outDisk
<1>5. CASE FaxMadeSlot
  <2>1. state \in Converting /\ child.pc = "none"
    BY <1>0, <1>5 DEF FaxMadeSlot, OneDriver, TypeOK, States, SendStates, Converting
  <2>2. SJob # NoItem /\ ~SDialled /\ SModem = "free"
    BY <2>1, MappedState DEF Converting, SendStates, SDialled
  <2>3. SJob' = SJob /\ delivered' = delivered
    BY <1>5 DEF FaxMadeSlot, SJob, outDisk
  <2>4. parms # <<>>
    <3>1. lastItem \in Items
      BY <2>1, MappedState DEF Converting, SendStates
    <3> QED BY <1>0, <1>5, <3>1, JobsAssumption DEF FaxMadeSlot, PagesInOrder, Carries
  <2>5. child' = Running(parms)
    BY <1>5 DEF FaxMadeSlot
  <2>6. SDialled' = TRUE /\ SModem' = "tx"
    BY <2>4, <2>5 DEF SDialled, SModem, Running, Receives
  <2> QED BY <2>2, <2>3, <2>6, ServiceActions
<1>6. CASE NoFaxMadeSlot
  <2>1. state \in Converting /\ child.pc = "none"
    BY <1>0, <1>6 DEF NoFaxMadeSlot, OneDriver, TypeOK, States, SendStates, Converting
  <2>2. SJob # NoItem /\ SModem = "free"
    BY <2>1, MappedState DEF Converting, SendStates
  <2>3. SJob' = NoItem /\ SDialled' = FALSE /\ SModem' \in {"free", "rx"}
    BY <1>6, MappedReceive, MappedInactive DEF NoFaxMadeSlot, GoInactive, ReceiveModes
  <2> QED BY <1>6, <2>2, <2>3, ServiceActions DEF NoFaxMadeSlot
<1>7. CASE ReapSend
  <2>1. state \in Converting /\ child.pc = "zombie" /\ SettleJob
    BY <1>7 DEF ReapSend, Reaps
  <2>2. SJob # NoItem /\ SModem = "free" /\ SJob = lastItem
    BY <2>1, MappedState DEF Converting, SendStates
  <2>3. SJob' = NoItem /\ SDialled' = FALSE /\ SModem' \in {"free", "rx"}
    BY <1>7, MappedReceive, MappedInactive DEF ReapSend, GoInactive, ReceiveModes
  <2>4. delivered' = delivered \/ (SDialled /\ delivered' = delivered \cup {SJob})
    BY <2>1, <2>2, DeliversOne
  <2> QED BY <2>2, <2>3, <2>4, ServiceActions
<1>8. CASE ReapStartSend
  <2>1. state = "start_send_on_standby" /\ child.pc = "zombie" /\ Receives(child)
    BY <1>0, <1>8 DEF ReapStartSend, Reaps, OneDriver
  <2>2. SJob # NoItem /\ SModem = "free" /\ SJob = lastItem
    BY <2>1, MappedState DEF SendStates
  <2>3. SDialled = FALSE
    BY <2>1 DEF SDialled
  <2>4. child' = NoChild /\ UNCHANGED <<lastItem, delivered>>
    BY <1>8 DEF ReapStartSend, GoInactive, outDisk
  <2>5. state' \in {"send_on_standby", "inactive"}
    BY <1>8 DEF ReapStartSend, StartConversion, GoInactive
  <2>6. SDialled' = FALSE /\ SModem' = "free"
    BY <2>4 DEF SDialled, SModem, NoChild
  <2>7. SJob' = SJob \/ SJob' = NoItem
    BY <2>2, <2>4, <2>5 DEF SJob, SendStates
  <2> QED BY <2>2, <2>3, <2>4, <2>6, <2>7, ServiceActions
<1>9. CASE ReapReceive
  <2>1. SJob = NoItem /\ SDialled = FALSE /\ SModem = "free"
    BY <1>0, <1>9 DEF ReapReceive, Reaps, OneDriver, SJob, SDialled, SModem, ReceiveModes, SendStates
  <2>2. SJob' = NoItem /\ SDialled' = FALSE /\ SModem' \in {"free", "rx"}
    <3>1. PICK o \in CleanupOutcomes :
                IF StandbyAfterReceive
                THEN ReceiveFrom(o.current, "receive_standby")
                ELSE GoInactive
      BY <1>9 DEF ReapReceive
    <3> QED BY <3>1, MappedReceive, MappedInactive DEF GoInactive, ReceiveModes
  <2> QED BY <1>9, <2>1, <2>2, ServiceActions DEF ReapReceive, outDisk
<1>10. CASE EfaxExits
  <2>1. PICK code \in ExitCodes : child' = [child EXCEPT !.pc = "zombie", !.code = code]
    BY <1>10 DEF EfaxExits
  <2>2. child' = [pc |-> "zombie", code |-> code, args |-> child.args] /\ child.pc = "running"
    BY <1>0, <1>10, <2>1 DEF EfaxExits, TypeOK, Children
  <2>3. SModem # "free" /\ SModem' = "free" /\ SDialled' = SDialled
    BY <2>2 DEF SModem, SDialled, Receives
  <2>4. SJob' = SJob /\ delivered' = delivered
    BY <1>10 DEF EfaxExits, SJob, outDisk
  <2> QED BY <2>3, <2>4, ServiceActions
<1>11. CASE Exit \/ Crash
  <2>1. state' = "inactive" /\ child' = NoChild /\ delivered' = delivered
    BY <1>11 DEF Exit, Crash, ProcessGone, outDisk
  <2> QED BY <2>1, MappedInactive, ServiceActions
<1>12. CASE Start \/ UNCHANGED vars
  BY <1>1, <1>12 DEF Start, vars, control, outDisk
<1> QED BY <1>3, <1>4, <1>5, <1>6, <1>7, <1>8, <1>9, <1>10, <1>11, <1>12 DEF Next, Slots, Timer

(* The controller keeps FaxService's promises: no job is accepted while    *)
(* another is in hand, none is dialled twice or over a call that is being  *)
(* received, and none counts as delivered that was not dialled.            *)
THEOREM ServiceImplemented == Spec => ImplementsService
<1>1. Init => Service!Init
  BY DEF Init, Service!Init, NoChild, SendStates
<1>2. ASSUME Sessions, SendsTheJob, [Next]_vars
      PROVE  [Service!Next]_(Service!vars)
  BY <1>2, ServiceStep DEF Service!vars, SJob, SDialled, SModem
<1> QED BY <1>1, <1>2, SessionsHold, SendsTheJobHolds, PTL DEF Spec, ImplementsService, Service!Spec

(* Types, the driver of a session, fax_made_sem and the end of the main    *)
(* loop, together as the run checks them.                                  *)
THEOREM SessionsAreSound == Spec => []SessionsSound
<1>1. TypeOK /\ OneDriver /\ SemBalanced /\ QuitsWhenDone => SessionsSound
  BY DEF SessionsSound
<1> QED BY <1>1, TypeCorrect, OneDriverHolds, SemaphoreBalances, QuitIsClean, PTL

----------------------------------------------------------------------------
(* The readers without a lock. *)

(* A list is built by a process that runs. *)
BuilderRuns == phase = "down" => ~populating

LEMMA BuilderRunsInit == Init => BuilderRuns
  BY DEF Init, BuilderRuns

LEMMA BuilderRunsStep == BuilderRuns /\ [Next]_vars => BuilderRuns'
<1> SUFFICES ASSUME BuilderRuns, [Next]_vars
             PROVE  BuilderRuns'
  OBVIOUS
<1>1. CASE Exit \/ Crash
  BY <1>1 DEF Exit, Crash, ProcessGone, BuilderRuns
<1>2. CASE Populate \/ Start
  BY <1>2 DEF Populate, Start, BuilderRuns
<1>3. CASE User
  BY <1>3 DEF User, SendOnStandby, SendNow, Receive, Stop, EfaxClosedown, ResetCount, BuilderRuns, session
<1>4. CASE Worker \/ Slots \/ Call \/ EfaxExits \/ UNCHANGED vars
  BY <1>4 DEF Worker, ConvertFile, AllConverted, WorkerNotifies, Slots, FaxMadeSlot, NoFaxMadeSlot,
        Call, EfaxExits, BuilderRuns, session, vars
<1>5. CASE Timer
  BY <1>5 DEF Timer, ReapSend, ReapStartSend, ReapReceive, Reaps, QuitIfDue, BuilderRuns
<1> QED BY <1>1, <1>2, <1>3, <1>4, <1>5 DEF Next

(* What a sequence keeps when an element is put at its end. *)
LEMMA Grows ==
  ASSUME NEW S, NEW q \in Seq(S), NEW x \in S
  PROVE  SubSeq(q, 1, Len(q)) = q /\ SubSeq(Append(q, x), 1, Len(q)) = q
  OBVIOUS

(* WorkerUndisturbed of one step. *)
LEMMA WorkerStepKeeps ==
  ASSUME Sessions, [Next]_vars, worker # "none", worker' # "none"
  PROVE  lastItem' = lastItem /\ SubSeq(parms', 1, Len(parms)) = parms
<1>1. parms \in Seq(Pages) /\ SubSeq(parms, 1, Len(parms)) = parms
  <2>1. parms \in Seq(Pages)
    BY DEF Sessions, TypeOK
  <2> QED BY <2>1
<1>2. state \notin {"inactive", "start_send_on_standby"} \cup ReceiveModes
  BY DEF Sessions, OneDriver
<1>3. CASE UNCHANGED <<lastItem, parms>>
  BY <1>1, <1>3
<1>4. CASE ConvertFile
  <2>1. JobNamed /\ state \in Converting
    BY <1>2 DEF Sessions, TypeOK, States, SendStates, Converting
  <2>2. lastItem \in Items
    BY <2>1 DEF JobNamed, Converting, SendStates
  <2>3. lastItem' = lastItem
    BY <1>4 DEF ConvertFile, control
  <2>4. UNCHANGED parms \/ \E b \in BOOLEAN :
          parms' = Append(parms, [file |-> <<lastItem, Len(parms) + 1>>, fresh |-> b])
    BY <1>4 DEF ConvertFile
  <2>5. CASE UNCHANGED parms
    BY <1>1, <2>3, <2>5
  <2>6. ASSUME NEW b \in BOOLEAN,
               parms' = Append(parms, [file |-> <<lastItem, Len(parms) + 1>>, fresh |-> b])
        PROVE  SubSeq(parms', 1, Len(parms)) = parms
    <3>1. Len(parms) \in Nat /\ Len(parms) < NFiles[lastItem]
      BY <1>1, <1>4 DEF ConvertFile
    <3>2. [file |-> <<lastItem, Len(parms) + 1>>, fresh |-> b] \in Pages
      BY <2>2, <3>1, PageType
    <3> QED BY <1>1, <2>6, <3>2, Grows
  <2> QED BY <2>3, <2>4, <2>5, <2>6
<1>5. CASE User
  BY <1>2, <1>3, <1>5 DEF User, SendOnStandby, SendNow, MayConvert, Receive, Stop, EfaxClosedown, ResetCount,
        ReceiveModes, work
<1>6. CASE Exit \/ Crash
  BY <1>6 DEF Exit, Crash, ProcessGone
<1>7. CASE AllConverted \/ WorkerNotifies \/ Slots
  BY <1>3, <1>7 DEF AllConverted, WorkerNotifies, Slots, FaxMadeSlot, NoFaxMadeSlot, control
<1>8. CASE Timer
  BY <1>2, <1>3, <1>8 DEF Timer, ReapSend, ReapStartSend, ReapReceive, work
<1>9. CASE Populate \/ Call \/ EfaxExits \/ Start \/ UNCHANGED vars
  BY <1>3, <1>9 DEF Populate, Call, EfaxExits, Start, vars, work, control
<1> QED BY <1>4, <1>5, <1>6, <1>7, <1>8, <1>9 DEF Next, Worker

(* ListUndisturbed of one step. *)
LEMMA ListStepKeeps ==
  ASSUME BuilderRuns, [Next]_vars, populating, phase' # "down"
  PROVE  archived' = archived /\ faxin' = faxin
<1>1. CASE User
  BY <1>1 DEF User, SendOnStandby, SendNow, Receive, Stop, EfaxClosedown, ResetCount, inDisk, outDisk
<1>2. CASE Timer \/ Start
  BY <1>2 DEF Timer, ReapSend, ReapStartSend, ReapReceive, Reaps, TimerMayAct, Start, BuilderRuns
<1>3. CASE Exit \/ Crash
  BY <1>3 DEF Exit, Crash, ProcessGone
<1>4. CASE Populate \/ Worker \/ Slots \/ Call \/ EfaxExits \/ UNCHANGED vars
  BY <1>4 DEF Populate, Worker, ConvertFile, AllConverted, WorkerNotifies, Slots, FaxMadeSlot, NoFaxMadeSlot,
        Call, EfaxExits, vars, inDisk, outDisk
<1> QED BY <1>1, <1>2, <1>3, <1>4 DEF Next

(* ReadersUndisturbed: make_fax_thread() reads last_fax_item_sent and its   *)
(* own vector without a lock, and populate_fax_list() runs the main loop   *)
(* while it reads a directory, and neither sees anything change.           *)
THEOREM ReadersAreUndisturbed == Spec => ReadersUndisturbed
<1>1. Sessions /\ [Next]_vars =>
        [worker # "none" /\ worker' # "none" =>
           lastItem' = lastItem /\ SubSeq(parms', 1, Len(parms)) = parms]_vars
  BY WorkerStepKeeps
<1>2. BuilderRuns /\ [Next]_vars =>
        [populating /\ phase' # "down" => archived' = archived /\ faxin' = faxin]_vars
  BY ListStepKeeps
<1>3. Spec => []BuilderRuns
  BY BuilderRunsInit, BuilderRunsStep, PTL DEF Spec
<1> QED BY <1>1, <1>2, <1>3, SessionsHold, PTL DEF Spec, ReadersUndisturbed, WorkerUndisturbed, ListUndisturbed

----------------------------------------------------------------------------
(* What a session leaves. *)

(* stdout_pipe and its iowatch belong to the session and to the child.     *)
LEMMA IOMatchesStep ==
  ASSUME Sessions, IOMatches, [Next]_vars
  PROVE  IOMatches'
<1>0. TypeOK /\ OneDriver
  BY DEF Sessions
<1>1. NoChild.pc = "none" /\ \A args : Running(args).pc = "running"
  BY DEF NoChild, Running
<1>2. ASSUME UNCHANGED <<io, state>>, child'.pc = "none" <=> child.pc = "none"
      PROVE  IOMatches'
  BY <1>2 DEF IOMatches
<1>3. ASSUME UNCHANGED <<io, state, child>> PROVE IOMatches'
  BY <1>2, <1>3
<1>4. ASSUME KillChild, UNCHANGED io,
             state' = state \/ (state # "inactive" /\ state' # "inactive")
      PROVE  IOMatches'
  BY <1>0, <1>4, KillType DEF IOMatches
<1>5. ASSUME GoInactive PROVE IOMatches'
  BY <1>1, <1>5 DEF GoInactive, IOMatches
<1>6. ASSUME NEW cur, NEW mode \in ReceiveModes, ReceiveFrom(cur, mode) PROVE IOMatches'
  BY <1>1, <1>6 DEF ReceiveFrom, IOMatches
<1>7. ASSUME NEW s \in Converting, StartConversion(s), child'.pc = "none" PROVE IOMatches'
  BY <1>7 DEF StartConversion, IOMatches
<1>8. CASE User
  <2>1. ASSUME NEW i \in Items, SendOnStandby(i) PROVE IOMatches'
    BY <1>4, <2>1 DEF SendOnStandby
  <2>2. ASSUME NEW i \in Items, SendNow(i) PROVE IOMatches'
    BY <1>0, <1>7, <2>2 DEF SendNow, MayConvert, OneDriver
  <2>3. ASSUME NEW mode \in ReceiveModes, Receive(mode) PROVE IOMatches'
    BY <1>6, <2>3 DEF Receive
  <2>4. CASE Stop
    BY <1>4, <2>4 DEF Stop
  <2>5. CASE EfaxClosedown
    BY <1>3, <1>4, <2>5 DEF EfaxClosedown
  <2>6. CASE ResetCount
    BY <1>3, <2>6 DEF ResetCount
  <2> QED BY <1>8, <2>1, <2>2, <2>3, <2>4, <2>5, <2>6 DEF User
<1>9. CASE Worker
  BY <1>3, <1>9 DEF Worker, ConvertFile, AllConverted, WorkerNotifies
<1>10. CASE FaxMadeSlot
  <2>1. state # "inactive"
    BY <1>0, <1>10 DEF FaxMadeSlot, OneDriver
  <2> QED BY <1>1, <1>10, <2>1 DEF FaxMadeSlot, IOMatches
<1>11. CASE NoFaxMadeSlot
  BY <1>5, <1>6, <1>11 DEF NoFaxMadeSlot
<1>12. CASE ReapSend
  BY <1>5, <1>6, <1>12 DEF ReapSend
<1>13. CASE ReapStartSend
  BY <1>1, <1>5, <1>7, <1>13 DEF ReapStartSend
<1>14. CASE ReapReceive
  BY <1>5, <1>6, <1>14 DEF ReapReceive
<1>15. CASE EfaxExits
  <2>1. PICK code \in ExitCodes : child' = [child EXCEPT !.pc = "zombie", !.code = code]
    BY <1>15 DEF EfaxExits
  <2>2. child' = [pc |-> "zombie", code |-> code, args |-> child.args] /\ child.pc # "none"
    BY <1>0, <1>15, <2>1 DEF EfaxExits, TypeOK, Children
  <2> QED BY <1>2, <1>15, <2>2 DEF EfaxExits
<1>16. CASE Exit \/ Crash
  BY <1>1, <1>16 DEF Exit, Crash, ProcessGone, IOMatches
<1>17. CASE Populate \/ Call \/ Start \/ UNCHANGED vars
  BY <1>3, <1>17 DEF Populate, Call, Start
<1> QED BY <1>8, <1>9, <1>10, <1>11, <1>12, <1>13, <1>14, <1>15, <1>16, <1>17
        DEF Next, Slots, Timer

(* Whatever goes wrong, unjoin_child() and the slots close what a session  *)
(* opened, and close nothing they do not have.                             *)
THEOREM IOMatchesHolds == Spec => []IOMatches
<1>1. Init => IOMatches
  BY DEF Init, IOMatches, NoChild
<1> QED BY <1>1, IOMatchesStep, SessionsHold, PTL DEF Spec

(* faxin/current is there only for an efax that receives, from the moment  *)
(* the main loop runs until the process is gone.                           *)
CurrentInUse == phase # "down" /\ current # "none" => child.pc # "none" /\ Receives(child)

DiskWorks == "save" \notin Faults

LEMMA CurrentInUseStep ==
  ASSUME Sessions, CurrentInUse, DiskWorks, [Next]_vars
  PROVE  CurrentInUse'
<1>0. TypeOK /\ OneDriver
  BY DEF Sessions
<1>1. \A mode : Running(<<>>).pc = "running" /\ Running(<<>>).args = <<>>
  BY DEF Running
<1>2. ASSUME UNCHANGED <<phase, current, child>> PROVE CurrentInUse'
  BY <1>2 DEF CurrentInUse
<1>3. ASSUME KillChild, phase # "down" PROVE CurrentInUse'
  <2>1. CASE child.pc = "running" /\ Receives(child)
    BY <1>0, <1>3, <2>1, KillType DEF CurrentInUse
  <2>2. CASE ~(child.pc = "running" /\ Receives(child))
    <3>1. current' = current
      BY <1>3, <2>2 DEF KillChild, CallProceeds
    <3> QED BY <1>0, <1>3, <3>1, KillType DEF CurrentInUse
  <2> QED BY <2>1, <2>2
<1>4. ASSUME NEW mode, ReceiveFrom("none", mode) PROVE CurrentInUse'
  BY <1>1, <1>4 DEF ReceiveFrom, CurrentInUse
<1>5. ASSUME current' = "none" PROVE CurrentInUse'
  BY <1>5 DEF CurrentInUse
<1>6. ASSUME NEW o \in CleanupOutcomes PROVE o.current = "none"
  BY <1>6 DEF CleanupOutcomes, DiskWorks
<1>7. ASSUME CleanUpReceiveDir PROVE current' = "none"
  BY <1>7 DEF CleanUpReceiveDir, DiskWorks
<1>8. phase = "run" /\ (child.pc = "none" \/ ~Receives(child)) => current = "none"
  BY DEF CurrentInUse
<1>9. CASE User
  <2>1. ASSUME NEW i \in Items, SendOnStandby(i) PROVE CurrentInUse'
    BY <1>3, <2>1 DEF SendOnStandby
  <2>2. ASSUME NEW i \in Items, SendNow(i) PROVE CurrentInUse'
    BY <1>2, <2>2 DEF SendNow
  <2>3. ASSUME NEW mode \in ReceiveModes, Receive(mode) PROVE CurrentInUse'
    <3>1. current = "none"
      BY <1>0, <1>8, <2>3 DEF Receive, OneDriver
    <3> QED BY <1>4, <2>3, <3>1 DEF Receive
  <2>4. CASE Stop
    BY <1>3, <2>4 DEF Stop
  <2>5. CASE EfaxClosedown
    <3>1. CASE MayQuit
      <4>1. current = "none" /\ current' = current
        BY <1>0, <1>8, <2>5, <3>1 DEF EfaxClosedown, MayQuit, OneDriver
      <4> QED BY <1>5, <4>1
    <3>2. CASE ~MayQuit
      BY <1>3, <2>5, <3>2 DEF EfaxClosedown
    <3> QED BY <3>1, <3>2
  <2>6. CASE ResetCount
    BY <1>2, <2>6 DEF ResetCount
  <2> QED BY <1>9, <2>1, <2>2, <2>3, <2>4, <2>5, <2>6 DEF User
<1>10. CASE Worker
  BY <1>2, <1>10 DEF Worker, ConvertFile, AllConverted, WorkerNotifies
<1>11. CASE Slots
  <2>1. phase = "run" /\ child.pc = "none" /\ current = "none"
    <3>1. phase = "run" /\ inbox # <<>>
      BY <1>11 DEF Slots, FaxMadeSlot, NoFaxMadeSlot
    <3>2. child.pc = "none"
      BY <1>0, <3>1 DEF OneDriver, TypeOK
    <3> QED BY <1>8, <3>1, <3>2
  <2>2. CASE FaxMadeSlot
    BY <1>5, <2>1, <2>2 DEF FaxMadeSlot
  <2>3. CASE NoFaxMadeSlot
    BY <1>4, <1>5, <2>1, <2>3 DEF NoFaxMadeSlot
  <2> QED BY <1>11, <2>2, <2>3 DEF Slots
<1>12. CASE ReapSend
  <2>1. current = "none"
    BY <1>0, <1>8, <1>12 DEF ReapSend, Reaps, OneDriver
  <2> QED BY <1>4, <1>5, <1>12, <2>1 DEF ReapSend
<1>13. CASE ReapStartSend
  BY <1>5, <1>6, <1>13 DEF ReapStartSend
<1>14. CASE ReapReceive
  BY <1>4, <1>5, <1>6, <1>14 DEF ReapReceive
<1>15. CASE Call
  BY <1>15 DEF Call, CallProceeds, CurrentInUse
<1>16. CASE EfaxExits
  <2>1. PICK code \in ExitCodes : child' = [child EXCEPT !.pc = "zombie", !.code = code]
    BY <1>16 DEF EfaxExits
  <2>2. child' = [pc |-> "zombie", code |-> code, args |-> child.args] /\ child.pc # "none"
    BY <1>0, <1>16, <2>1 DEF EfaxExits, TypeOK, Children
  <2> QED BY <1>16, <2>2 DEF EfaxExits, CurrentInUse
<1>17. CASE Exit \/ Start
  BY <1>5, <1>7, <1>17 DEF Exit, Start
<1>18. CASE Crash
  BY <1>18 DEF Crash, ProcessGone, CurrentInUse
<1>19. CASE Populate \/ UNCHANGED vars
  BY <1>2, <1>19 DEF Populate
<1> QED BY <1>9, <1>10, <1>11, <1>12, <1>13, <1>14, <1>15, <1>16, <1>17, <1>18, <1>19
        DEF Next, Timer

LEMMA CurrentInUseHolds == ASSUME DiskWorks PROVE Spec => []CurrentInUse
<1>1. Init => CurrentInUse
  BY DEF Init, CurrentInUse
<1>2. Sessions /\ CurrentInUse /\ [Next]_vars => CurrentInUse'
  BY CurrentInUseStep
<1> QED BY <1>1, <1>2, SessionsHold, PTL DEF Spec

(* Page files lie beside the job that is being converted or sent, beside no*)
(* file that make_fax_thread() has still to convert, and every page it has *)
(* taken it has made.                                                      *)
AllFresh(args) == \A k \in 1..Len(args) : args[k].fresh

PagesOfTheJob ==
  /\ state \notin Converting => pages = {}
  /\ state \in Converting => pages \subseteq FilesOf(lastItem)
  /\ worker # "none" => pages \subseteq {<<lastItem, k>> : k \in 1..Len(parms)}

FreshSoFar ==
  /\ worker # "none" \/ inbox # <<>> => AllFresh(parms)
  /\ child.pc # "none" => AllFresh(child.args)

PagesKept == PagesOfTheJob /\ FreshSoFar

NoPowerFailure == "crash" \notin Faults

(* What does not touch the pages, and a child with nothing to send. *)
LEMMA PagesFrame ==
  ASSUME PagesKept, UNCHANGED <<pages, lastItem, work>>, state' = state,
         child'.pc = "none" <=> child.pc = "none", child'.args = child.args
  PROVE  PagesKept'
BY DEF PagesKept, PagesOfTheJob, FreshSoFar, AllFresh

LEMMA PagesGone ==
  ASSUME pages' = {}, worker' = "none", inbox' = <<>>,
         child'.pc = "none" \/ child'.args = <<>>
  PROVE  PagesKept'
BY DEF PagesKept, PagesOfTheJob, FreshSoFar, AllFresh

LEMMA PagesUser ==
  ASSUME Sessions, PagesKept, User
  PROVE  PagesKept'
<1>0. TypeOK /\ OneDriver
  BY DEF Sessions
<1>1. \A mode : Running(<<>>).args = <<>> /\ NoChild.pc = "none"
  BY DEF Running, NoChild
<1>2. ASSUME NEW i \in Items, SendOnStandby(i) PROVE PagesKept'
  <2>1. pages = {} /\ worker = "none" /\ inbox = <<>> /\ child.args = <<>>
    BY <1>0, <1>2 DEF SendOnStandby, OneDriver, PagesKept, PagesOfTheJob
  <2>2. child'.args = child.args
    BY <1>0, <1>2, KillType DEF SendOnStandby
  <2> QED BY <1>2, <2>1, <2>2, PagesGone DEF SendOnStandby
<1>3. ASSUME NEW i \in Items, SendNow(i) PROVE PagesKept'
  <2>1. pages' = {} /\ child'.pc = "none" /\ inbox' = <<>> /\ parms' = <<>>
    BY <1>0, <1>3 DEF SendNow, MayConvert, StartConversion, OneDriver, PagesKept, PagesOfTheJob
  <2> QED BY <2>1 DEF PagesKept, PagesOfTheJob, FreshSoFar, AllFresh
<1>4. ASSUME NEW mode \in ReceiveModes, Receive(mode) PROVE PagesKept'
  <2>1. pages' = {} /\ worker' = "none" /\ inbox' = <<>>
    BY <1>0, <1>4 DEF Receive, OneDriver, PagesKept, PagesOfTheJob
  <2>2. child'.pc = "none" \/ child'.args = <<>>
    BY <1>1, <1>4 DEF Receive, ReceiveFrom
  <2> QED BY <2>1, <2>2, PagesGone
<1>5. CASE Stop
  BY <1>0, <1>5, KillType, PagesFrame DEF Stop
<1>6. CASE EfaxClosedown
  <2>1. (child'.pc = "none" <=> child.pc = "none") /\ child'.args = child.args
    BY <1>0, <1>6, KillType DEF EfaxClosedown
  <2> QED BY <1>6, <2>1, PagesFrame DEF EfaxClosedown
<1>7. CASE ResetCount
  BY <1>7, PagesFrame DEF ResetCount
<1> QED BY <1>2, <1>3, <1>4, <1>5, <1>6, <1>7 DEF User

LEMMA PagesWorker ==
  ASSUME Sessions, PagesKept, Worker
  PROVE  PagesKept'
<1>0. TypeOK /\ OneDriver /\ JobNamed
  BY DEF Sessions
<1>1. /\ worker # "none" /\ state \in Converting /\ inbox = <<>> /\ lastItem \in Items
      /\ child.pc = "none"
  BY <1>0 DEF Worker, ConvertFile, AllConverted, WorkerNotifies, OneDriver, JobNamed, TypeOK
<1>2. /\ pages \subseteq FilesOf(lastItem) /\ AllFresh(parms) /\ parms \in Seq(Pages)
      /\ pages \subseteq {<<lastItem, k>> : k \in 1..Len(parms)}
  BY <1>0, <1>1 DEF PagesKept, PagesOfTheJob, FreshSoFar, TypeOK
<1>3. CASE ConvertFile
  <2> DEFINE n == Len(parms)
             f == <<lastItem, n + 1>>
             page(b) == [file |-> f, fresh |-> b]
  <2>1. n \in Nat /\ n < NFiles[lastItem] /\ NFiles[lastItem] \in Nat
    BY <1>1, <1>2, <1>3, JobsAssumption DEF ConvertFile
  <2>2. f \notin pages
    <3>1. n + 1 \notin 1..n
      BY <2>1
    <3> QED BY <1>2, <3>1
  <2>3. f \in FilesOf(lastItem)
    <3>1. n + 1 \in 1..NFiles[lastItem]
      BY <2>1
    <3> QED BY <3>1 DEF FilesOf
  <2>4. \/ pages' = pages \cup {f} /\ parms' = Append(parms, page(TRUE))
        \/ UNCHANGED <<parms, pages>>
    BY <1>3, <2>2 DEF ConvertFile
  <2>5. page(TRUE) \in Pages
    BY <1>1, <2>1, PageType
  <2>6. UNCHANGED <<session, inbox, control>>
    BY <1>3 DEF ConvertFile
  <2>7. CASE pages' = pages \cup {f} /\ parms' = Append(parms, page(TRUE))
    <3>1. pages' \subseteq FilesOf(lastItem)
      BY <1>2, <2>3, <2>7
    <3>2. Len(parms') = n + 1
      BY <1>2, <2>5, <2>7
    <3>3. AllFresh(parms')
      <4> SUFFICES ASSUME NEW k \in 1..Len(parms') PROVE parms'[k].fresh
        BY DEF AllFresh
      <4>1. page(TRUE).fresh
        OBVIOUS
      <4> HIDE DEF page
      <4>2. CASE k = n + 1
        <5>1. parms'[k] = page(TRUE)
          BY <1>2, <2>5, <2>7, <4>2, AppendProperties
        <5> QED BY <4>1, <5>1
      <4>3. CASE k # n + 1
        <5>1. k \in 1..n
          BY <2>1, <3>2, <4>3
        <5>2. parms'[k] = parms[k]
          BY <1>2, <2>5, <2>7, <5>1
        <5> QED BY <1>2, <5>1, <5>2 DEF AllFresh
      <4> QED BY <4>2, <4>3
    <3>4. pages' \subseteq {<<lastItem, k>> : k \in 1..Len(parms')}
      <4>1. 1..n \subseteq 1..(n + 1) /\ n + 1 \in 1..(n + 1)
        BY <2>1
      <4> QED BY <1>2, <2>7, <3>2, <4>1
    <3> QED BY <1>1, <2>6, <3>1, <3>3, <3>4 DEF PagesKept, PagesOfTheJob, FreshSoFar
  <2>8. CASE UNCHANGED <<parms, pages>>
    BY <1>1, <1>2, <2>6, <2>8 DEF PagesKept, PagesOfTheJob, FreshSoFar, AllFresh
  <2> QED BY <2>4, <2>7, <2>8
<1>4. CASE AllConverted \/ WorkerNotifies
  <2>1. UNCHANGED <<session, parms, pages, control>> /\ (worker' = "none" \/ worker' = "made")
    BY <1>4 DEF AllConverted, WorkerNotifies
  <2> QED BY <1>1, <1>2, <2>1 DEF PagesKept, PagesOfTheJob, FreshSoFar, AllFresh
<1> QED BY <1>3, <1>4 DEF Worker

LEMMA PagesSlot ==
  ASSUME Sessions, PagesKept, Slots
  PROVE  PagesKept'
<1>0. TypeOK /\ OneDriver /\ JobNamed
  BY DEF Sessions
<1>1. \A args : Running(args).args = args /\ NoChild.pc = "none"
  BY DEF Running, NoChild
<1>2. /\ state \in Converting /\ worker = "none" /\ Len(inbox) = 1 /\ inbox # <<>>
      /\ inbox \in Seq({"fax_made", "no_fax_made"})
  BY <1>0 DEF Slots, FaxMadeSlot, NoFaxMadeSlot, OneDriver, TypeOK
<1>3. Tail(inbox) = <<>>
  <2>1. Tail(inbox) \in Seq({"fax_made", "no_fax_made"}) /\ Len(Tail(inbox)) = 0
    BY <1>2
  <2> QED BY <2>1, EmptySeq
<1>4. pages \subseteq FilesOf(lastItem) /\ AllFresh(parms)
  BY <1>2 DEF PagesKept, PagesOfTheJob, FreshSoFar
<1>5. CASE FaxMadeSlot
  <2>1. UNCHANGED <<pages, worker, parms, state, lastItem>> /\ inbox' = <<>>
        /\ child'.args = parms
    BY <1>1, <1>3, <1>5 DEF FaxMadeSlot
  <2> QED BY <1>2, <1>4, <2>1 DEF PagesKept, PagesOfTheJob, FreshSoFar, AllFresh
<1>6. CASE NoFaxMadeSlot
  <2>1. pages' = {} /\ worker' = "none" /\ inbox' = <<>>
    BY <1>2, <1>3, <1>4, <1>6 DEF NoFaxMadeSlot, UnlinkPages
  <2>2. child'.pc = "none" \/ child'.args = <<>>
    BY <1>1, <1>6 DEF NoFaxMadeSlot, ReceiveFrom, GoInactive
  <2> QED BY <2>1, <2>2, PagesGone
<1> QED BY <1>5, <1>6 DEF Slots

LEMMA PagesTimer ==
  ASSUME Sessions, PagesKept, DiskWorks, Timer
  PROVE  PagesKept'
<1>0. TypeOK /\ OneDriver /\ JobNamed
  BY DEF Sessions
<1>1. Running(<<>>).args = <<>> /\ NoChild.pc = "none"
  BY DEF Running, NoChild
<1>2. worker = "none" /\ inbox = <<>> /\ child.pc = "zombie"
  BY <1>0 DEF Timer, ReapSend, ReapStartSend, ReapReceive, Reaps, OneDriver
<1>3. CASE ReapSend
  <2>1. pages' = {}
    <3>1. pages \subseteq FilesOf(lastItem)
      BY <1>3 DEF ReapSend, PagesKept, PagesOfTheJob
    <3> QED BY <1>3, <3>1 DEF ReapSend, SettleJob, SaveSent, UnlinkPages, DiskWorks
  <2>2. child'.pc = "none" \/ child'.args = <<>>
    BY <1>1, <1>3 DEF ReapSend, ReceiveFrom, GoInactive
  <2> QED BY <1>2, <1>3, <2>1, <2>2, PagesGone DEF ReapSend
<1>4. CASE ReapStartSend
  <2>1. pages' = {} /\ inbox' = <<>> /\ child'.pc = "none"
    BY <1>1, <1>2, <1>4 DEF ReapStartSend, StartConversion, GoInactive, PagesKept, PagesOfTheJob
  <2>2. worker' = "none" \/ parms' = <<>>
    BY <1>2, <1>4 DEF ReapStartSend, StartConversion
  <2> QED BY <2>1, <2>2 DEF PagesKept, PagesOfTheJob, FreshSoFar, AllFresh
<1>5. CASE ReapReceive
  <2>1. pages' = {} /\ worker' = "none" /\ inbox' = <<>>
    BY <1>2, <1>5 DEF ReapReceive, PagesKept, PagesOfTheJob
  <2>2. child'.pc = "none" \/ child'.args = <<>>
    BY <1>1, <1>5 DEF ReapReceive, ReceiveFrom, GoInactive
  <2> QED BY <2>1, <2>2, PagesGone
<1> QED BY <1>3, <1>4, <1>5 DEF Timer

LEMMA PagesOther ==
  ASSUME Sessions, PagesKept, QuitsWhenDone, NoPowerFailure,
         Populate \/ Call \/ EfaxExits \/ Exit \/ Crash \/ Start \/ UNCHANGED vars
  PROVE  PagesKept'
<1>0. TypeOK
  BY DEF Sessions
<1>1. CASE EfaxExits
  <2>1. PICK code \in ExitCodes : child' = [child EXCEPT !.pc = "zombie", !.code = code]
    BY <1>1 DEF EfaxExits
  <2>2. child' = [pc |-> "zombie", code |-> code, args |-> child.args] /\ child.pc # "none"
    BY <1>0, <1>1, <2>1 DEF EfaxExits, TypeOK, Children
  <2>3. child'.pc # "none" /\ child'.args = child.args
    BY <2>2
  <2> QED BY <1>1, <2>2, <2>3, PagesFrame DEF EfaxExits
<1>2. CASE Exit
  <2>1. pages = {}
    BY <1>2 DEF Exit, QuitsWhenDone, PagesKept, PagesOfTheJob
  <2>2. NoChild.pc = "none"
    BY DEF NoChild
  <2> QED BY <1>2, <2>1, <2>2, PagesGone DEF Exit, ProcessGone
<1>3. CASE Populate \/ Call \/ Start \/ UNCHANGED vars
  BY <1>3, PagesFrame DEF Populate, Call, Start
<1> QED BY <1>1, <1>2, <1>3 DEF Crash, NoPowerFailure

LEMMA PagesKeptHolds == ASSUME DiskWorks, NoPowerFailure PROVE Spec => []PagesKept
<1>1. Init => PagesKept
  BY DEF Init, PagesKept, PagesOfTheJob, FreshSoFar, NoChild
<1>2. Sessions /\ QuitsWhenDone /\ PagesKept /\ [Next]_vars => PagesKept'
  BY PagesUser, PagesWorker, PagesSlot, PagesTimer, PagesOther DEF Next
<1> QED BY <1>1, <1>2, SessionsHold, QuitIsClean, PTL DEF Spec

(* On a disk that works and without a power failure no session trips over  *)
(* one before it: timer_event() and the slots leave no faxin/current, no   *)
(* page of another job and no watch of a pipe, whichever files failed to   *)
(* convert and however often the user stopped, sent and received.          *)
THEOREM NothingIsLeftBehind ==
  ASSUME DiskWorks, NoPowerFailure
  PROVE  Spec => []NothingLeftBehind
<1>1. CurrentInUse /\ PagesKept /\ IOMatches => NothingLeftBehind
  BY DEF CurrentInUse, PagesKept, PagesOfTheJob, FreshSoFar, AllFresh, NothingLeftBehind,
         CurrentIsFree, NoStrayPages, SendsFreshPages
<1> QED BY <1>1, CurrentInUseHolds, PagesKeptHolds, IOMatchesHolds, PTL

----------------------------------------------------------------------------
(* Standby. *)

(* Directories can be made, faxes saved and threads started.               *)
SystemWorks == {"mkdir", "save", "thread"} \cap Faults = {}

LEMMA StatusStep ==
  ASSUME Sessions, CurrentInUse, ShowsState, SystemWorks, [Next]_vars
  PROVE  ShowsState'
<1>0. TypeOK /\ OneDriver
  BY DEF Sessions
<1>1. phase = "run" /\ (child.pc = "none" \/ ~Receives(child)) => current = "none"
  BY DEF CurrentInUse
<1>2. ASSUME UNCHANGED <<state, shown>> PROVE ShowsState'
  BY <1>2 DEF ShowsState
<1>3. ASSUME shown' = state' PROVE ShowsState'
  BY <1>3 DEF ShowsState
<1>4. ASSUME NEW mode, ReceiveFrom("none", mode) PROVE shown' = state'
  BY <1>4 DEF ReceiveFrom, SystemWorks
<1>5. ASSUME NEW o \in CleanupOutcomes PROVE o.current = "none"
  BY <1>5 DEF CleanupOutcomes, SystemWorks
<1>6. CASE User
  <2>1. ASSUME NEW mode \in ReceiveModes, Receive(mode) PROVE ShowsState'
    <3>1. current = "none"
      BY <1>0, <1>1, <2>1 DEF Receive, OneDriver
    <3> QED BY <1>3, <1>4, <2>1, <3>1 DEF Receive
  <2>2. ASSUME NEW i \in Items, SendOnStandby(i) PROVE ShowsState'
    BY <2>2 DEF SendOnStandby, ShowsState
  <2>3. ASSUME NEW i \in Items, SendNow(i) PROVE ShowsState'
    BY <1>3, <2>3 DEF SendNow, StartConversion
  <2>4. CASE Stop \/ EfaxClosedown
    BY <1>2, <2>4 DEF Stop, EfaxClosedown
  <2>5. CASE ResetCount
    BY <1>3, <2>5 DEF ResetCount
  <2> QED BY <1>6, <2>1, <2>2, <2>3, <2>4, <2>5 DEF User
<1>7. CASE Worker
  BY <1>2, <1>7 DEF Worker, ConvertFile, AllConverted, WorkerNotifies
<1>8. CASE FaxMadeSlot
  BY <1>2, <1>8 DEF FaxMadeSlot
<1>9. CASE NoFaxMadeSlot
  <2>1. current = "none"
    <3>1. phase = "run" /\ inbox # <<>>
      BY <1>9 DEF NoFaxMadeSlot
    <3>2. child.pc = "none"
      BY <1>0, <3>1 DEF OneDriver, TypeOK
    <3> QED BY <1>1, <3>1, <3>2
  <2> QED BY <1>3, <1>4, <1>9, <2>1 DEF NoFaxMadeSlot, GoInactive
<1>10. CASE ReapSend
  <2>1. current = "none"
    BY <1>0, <1>1, <1>10 DEF ReapSend, Reaps, OneDriver
  <2> QED BY <1>3, <1>4, <1>10, <2>1 DEF ReapSend, GoInactive
<1>11. CASE ReapStartSend
  BY <1>3, <1>11 DEF ReapStartSend, StartConversion, GoInactive
<1>12. CASE ReapReceive
  BY <1>3, <1>4, <1>5, <1>12 DEF ReapReceive, GoInactive
<1>13. CASE Exit \/ Crash
  BY <1>3, <1>13 DEF Exit, Crash, ProcessGone
<1>14. CASE Populate \/ Call \/ EfaxExits \/ Start \/ UNCHANGED vars
  BY <1>2, <1>14 DEF Populate, Call, EfaxExits, Start
<1> QED BY <1>6, <1>7, <1>8, <1>9, <1>10, <1>11, <1>12, <1>13, <1>14 DEF Next, Slots, Timer

(* StandbyResumed of one step. *)
LEMMA StandbyStep ==
  ASSUME Sessions, CurrentInUse, SystemWorks, [Next]_vars,
         state \in {"start_send_on_standby", "send_on_standby"}, phase' = "run", ~closeDown
  PROVE  state' \in {"start_send_on_standby", "send_on_standby", "receive_standby"}
<1>0. TypeOK /\ OneDriver
  BY DEF Sessions
<1>1. phase = "run" /\ (child.pc = "none" \/ ~Receives(child)) => current = "none"
  BY DEF CurrentInUse
<1>2. ASSUME UNCHANGED state
      PROVE  state' \in {"start_send_on_standby", "send_on_standby", "receive_standby"}
  BY <1>2
<1>3. ASSUME ReceiveFrom("none", "receive_standby") PROVE state' = "receive_standby"
  BY <1>3 DEF ReceiveFrom, SystemWorks
<1>4. CASE User
  BY <1>2, <1>4 DEF User, SendOnStandby, SendNow, MayConvert, Receive, Stop, EfaxClosedown,
        ResetCount
<1>5. CASE Worker
  BY <1>2, <1>5 DEF Worker, ConvertFile, AllConverted, WorkerNotifies
<1>6. CASE FaxMadeSlot
  BY <1>2, <1>6 DEF FaxMadeSlot
<1>7. CASE NoFaxMadeSlot
  <2>1. phase = "run" /\ inbox # <<>>
    BY <1>7 DEF NoFaxMadeSlot
  <2>2. state = "send_on_standby" /\ current = "none"
    BY <1>0, <1>1, <2>1 DEF OneDriver
  <2> QED BY <1>3, <1>7, <2>2 DEF NoFaxMadeSlot
<1>8. CASE ReapSend
  <2>1. state = "send_on_standby" /\ current = "none"
    BY <1>0, <1>1, <1>8 DEF ReapSend, Reaps, OneDriver
  <2> QED BY <1>3, <1>8, <2>1 DEF ReapSend, StandbyAfterSend
<1>9. CASE ReapStartSend
  BY <1>9 DEF ReapStartSend, StartConversion, SystemWorks
<1>10. CASE Exit \/ Crash
  BY <1>10 DEF Exit, Crash, ProcessGone
<1>11. CASE Populate \/ Call \/ EfaxExits \/ Start \/ UNCHANGED vars
  BY <1>2, <1>11 DEF Populate, Call, EfaxExits, Start
<1>12. CASE ReapReceive
  BY <1>12 DEF ReapReceive
<1> QED BY <1>4, <1>5, <1>6, <1>7, <1>8, <1>9, <1>10, <1>11, <1>12 DEF Next, Slots, Timer

(* A send that took the program off standby puts it back on standby unless *)
(* a quit waits, through failed conversions, failed calls and power        *)
(* failures, and the status line shows each state display_state() is for.  *)
THEOREM StandbyIsKept == ASSUME SystemWorks PROVE Spec => StandbyKept
<1>1. DiskWorks
  BY DEF SystemWorks, DiskWorks
<1>2. Init => ShowsState
  BY DEF Init, ShowsState
<1>3. Sessions /\ CurrentInUse /\ ShowsState /\ [Next]_vars => ShowsState'
  BY StatusStep
<1>4. Sessions /\ CurrentInUse /\ [Next]_vars =>
        [/\ state \in {"start_send_on_standby", "send_on_standby"}
         /\ phase' = "run" /\ ~closeDown
         => state' \in {"start_send_on_standby", "send_on_standby", "receive_standby"}]_vars
  BY StandbyStep
<1>5. Spec => []CurrentInUse
  BY <1>1, CurrentInUseHolds
<1> QED BY <1>2, <1>3, <1>4, <1>5, SessionsHold, PTL DEF Spec, StandbyKept, StandbyResumed

=============================================================================
