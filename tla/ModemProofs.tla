----------------------------- MODULE ModemProofs -----------------------------
(***************************************************************************)
(* Theorems about efax and its modem, that share nothing.                  *)
(*                                                                         *)
(* EfaxCall, for any documents, modems, hang-ups and faults: what efax     *)
(* counts, tells the modem and keeps of its pages in a call with a Class 2 *)
(* modem is what becomes of them.  The argument follows the page at hand:  *)
(* its format is the one the modem has, what was said after the page       *)
(* before is about it, and those before it, and no others, count as sent,  *)
(* unless the other end has hung up without an error, which the exit code  *)
(* then tells.                                                             *)
(*                                                                         *)
(* ModemLocks, for any number of processes and lock files, any signals and *)
(* kills: a process that talks to the modem holds all its locks unless it  *)
(* was robbed, it can be robbed only in the window between a look and a    *)
(* rename, and it leaves no lock behind when it ends through cleanup().    *)
(* The argument follows one process through its files: what it has before  *)
(* the file that it is at (HoldingAt) or has no longer (LeavingAt), and    *)
(* what another can have put at that file since it looked (WindowAt).      *)
(***************************************************************************)
EXTENDS EfaxCall, ModemLocks, SequenceTheorems, TLAPS

-----------------------------------------------------------------------------
(* Calls.                                                                  *)

Fields == {"pc", "err", "doc", "calling", "class", "method", "second", "cur", "dp", "vr",
           "changed", "ppm", "pagetry", "good", "hsc", "done", "files", "sent", "confirmed",
           "onAir", "before"}

Before    == {"sync", "setup0", "class", "caps", "setup1", "dial", "answer"}
Sending   == {"rdpage", "format", "start", "data", "postpage"}
Receiving == {"wrpage", "receive", "endpage", "refuse"}
Ending    == {"kill", "resync", "reset", "ended"}

FileOf == [lines : {"none", "some", "all"}, closed : BOOLEAN]

(* The fields of r that are not in F are those of q. *)
Agree(q, r, F) == DOMAIN q = Fields /\ \A x \in Fields \ F : q[x] = r[x]

CallTypes ==
  /\ DOMAIN s = Fields
  /\ s.pc \in Before \cup Sending \cup Receiving \cup Ending \cup {"class1"}
  /\ s.doc \in Seq({0, 1}) /\ s.files \in Seq(FileOf)
  /\ s.vr \in {0, 1} /\ s.good \in BOOLEAN /\ s.done \in BOOLEAN /\ gone \in BOOLEAN
  /\ CallTypeOK

(* Until the session begins nothing has happened to any page; a session of  *)
(* Class 1 is one by its class, and only who has nothing to send receives.  *)
Fresh ==
  /\ s.pc \in Before =>
       /\ s.err = 0 /\ s.hsc = -1 /\ s.done = FALSE /\ s.cur = 1 /\ s.dp = 0 /\ s.pagetry = 0
       /\ s.sent = {} /\ s.confirmed = {} /\ s.onAir = <<>> /\ s.files = <<>>
  /\ s.pc = "class1" => s.class = 1 /\ s.err = 0
  /\ s.pc \in Receiving => s.doc = <<>>

(* What is said after page c of a document. *)
PPM(doc, c) == IF c = Len(doc) THEN "EOP" ELSE IF doc[c + 1] = doc[c] THEN "MPS" ELSE "EOM"

(* The page at hand. *)
PageAtHand ==
  s.pc \in Sending =>
    /\ s.err = 0 /\ s.done = FALSE /\ s.cur \in Pages
    /\ s.pc \in {"rdpage", "format", "start"} => s.pagetry < NTXRETRY
    /\ s.pc # "rdpage" => s.vr = s.doc[s.cur] /\ s.ppm = PPM(s.doc, s.cur)
    /\ s.pc = "rdpage" /\ s.dp = 1 => s.hsc = 0 \/ s.cur < Len(s.doc)

(* What the modem was told, and what it sent last. *)
ModemTold ==
  /\ s.pc \in Before \cup (Sending \ {"format"}) /\ ~gone => told \in {s.vr, Unknown}
  /\ s.onAir # <<>> => s.onAir.page \in Pages /\ s.onAir.vr \in {s.doc[s.onAir.page], Unknown}
  /\ s.pc \in Sending /\ ~gone /\ s.onAir # <<>> =>
       /\ s.before = PPM(s.doc, s.onAir.page)
       /\ s.pc \in {"rdpage", "data", "postpage"} => s.onAir.page = s.cur
       /\ s.pc \in {"format", "start"} => s.onAir.page \in {s.cur, s.cur - 1}

(* The pages before the one at hand count as sent. *)
Counted ==
  /\ s.pc \in Sending =>
       s.hsc = 0 \/ s.sent = 1..(IF s.pc = "rdpage" /\ s.dp = 1 THEN s.cur ELSE s.cur - 1)
  /\ s.pc \in Ending /\ s.err = 0 /\ s.calling /\ s.class # 1 => s.sent = Pages \/ s.hsc = 0
  /\ CountedIsConfirmed

Filled(fs) == \A n \in 1..Len(fs) : fs[n].lines # "none"

(* Only the file that is written to may have nothing in it. *)
FilesFilled ==
  /\ s.pc # "receive" => Filled(s.files)
  /\ s.pc = "receive" => s.files # <<>> /\ s.files[Len(s.files)].lines = "none" /\ Filled(Removed(s.files))

CallInv == CallTypes /\ Fresh /\ PageAtHand /\ ModemTold /\ Counted /\ FilesFilled

(* What is shown of every step. *)
StepGood == CallInv' /\ KeepsPages /\ PostPageTrue

----------------------------------------------------------------------------
(* Files *)

LEMMA FilesRemoved ==
  ASSUME NEW fs \in Seq(FileOf), fs # <<>>
  PROVE  /\ Removed(fs) \in Seq(FileOf) /\ Len(Removed(fs)) = Len(fs) - 1 /\ Len(fs) \in Nat \ {0}
         /\ \A n \in 1..(Len(fs) - 1) : Removed(fs)[n] = fs[n]
<1>1. Len(fs) \in Nat \ {0}
  BY EmptySeq
<1> QED BY <1>1 DEF Removed

LEMMA FilesClosed ==
  ASSUME NEW fs \in Seq(FileOf)
  PROVE  /\ Closed(fs) \in Seq(FileOf) /\ Len(Closed(fs)) = Len(fs)
         /\ \A n \in 1..Len(fs) : Closed(fs)[n].lines = fs[n].lines
<1>1. CASE fs = <<>>
  BY <1>1 DEF Closed
<1>2. CASE fs # <<>>
  <2> DEFINE last == [fs[Len(fs)] EXCEPT !.closed = TRUE]
             front == Removed(fs)
  <2>1. Len(fs) \in Nat \ {0} /\ Len(fs) \in 1..Len(fs)
    BY <1>2, EmptySeq
  <2>2. fs[Len(fs)] \in FileOf
    BY <2>1, ElementOfSeq
  <2>3. last \in FileOf /\ last.lines = fs[Len(fs)].lines
    BY <2>2 DEF FileOf
  <2>4. front \in Seq(FileOf) /\ Len(front) = Len(fs) - 1 /\ \A n \in 1..(Len(fs) - 1) : front[n] = fs[n]
    BY <1>2, FilesRemoved
  <2>5. Closed(fs) = Append(front, last)
    BY <1>2 DEF Closed, Removed
  <2> HIDE DEF last, front
  <2>6. /\ Append(front, last) \in Seq(FileOf) /\ Len(Append(front, last)) = Len(front) + 1
        /\ \A n \in 1..Len(front) : Append(front, last)[n] = front[n]
        /\ Append(front, last)[Len(front) + 1] = last
    BY <2>3, <2>4, AppendProperties
  <2>7. Len(front) + 1 = Len(fs)
    BY <2>1, <2>4
  <2>8. ASSUME NEW n \in 1..Len(fs) PROVE Closed(fs)[n].lines = fs[n].lines
    <3>1. CASE n = Len(fs)
      BY <2>3, <2>5, <2>6, <2>7, <3>1
    <3>2. CASE n # Len(fs)
      <4>1. n \in 1..(Len(fs) - 1)
        BY <2>1, <3>2
      <4>2. Append(front, last)[n] = fs[n]
        BY <2>4, <2>6, <4>1
      <4> QED BY <2>5, <4>2
    <3> QED BY <3>1, <3>2
  <2> QED BY <2>5, <2>6, <2>7, <2>8
<1> QED BY <1>1, <1>2

LEMMA FilesOpened ==
  ASSUME NEW fs \in Seq(FileOf)
  PROVE  /\ Opened(fs) \in Seq(FileOf) /\ Len(Opened(fs)) = Len(fs) + 1
         /\ Opened(fs)[Len(fs) + 1].lines = "none"
         /\ \A n \in 1..Len(fs) : Opened(fs)[n].lines = fs[n].lines
         /\ Removed(Opened(fs)) = Closed(fs)
<1> DEFINE new == [lines |-> "none", closed |-> FALSE]
<1>1. new \in FileOf /\ new.lines = "none"
  BY DEF FileOf
<1>2. Opened(fs) = Append(Closed(fs), new)
  BY DEF Opened
<1>3. Closed(fs) \in Seq(FileOf) /\ Len(Closed(fs)) = Len(fs) /\ Len(fs) \in Nat
      /\ \A n \in 1..Len(fs) : Closed(fs)[n].lines = fs[n].lines
  BY FilesClosed
<1> HIDE DEF new
<1>4. /\ Append(Closed(fs), new) \in Seq(FileOf) /\ Len(Append(Closed(fs), new)) = Len(fs) + 1
      /\ \A n \in 1..Len(fs) : Append(Closed(fs), new)[n] = Closed(fs)[n]
      /\ Append(Closed(fs), new)[Len(fs) + 1] = new
  BY <1>1, <1>3, AppendProperties
<1>5. Removed(Append(Closed(fs), new)) = Closed(fs)
  <2> DEFINE q == Closed(fs)
  <2> HIDE DEF q
  <2>1. q \in Seq(FileOf)
    BY <1>3 DEF q
  <2>2. Len(Append(q, new)) - 1 = Len(q)
    BY <1>1, <2>1, AppendProperties
  <2>3. SubSeq(Append(q, new), 1, Len(q)) = q
    BY <1>1, <2>1
  <2> QED BY <2>2, <2>3 DEF Removed, q
<1> QED BY <1>1, <1>2, <1>3, <1>4, <1>5

----------------------------------------------------------------------------
(* The modem and the record *)

ModemTypes == heard \in Hangups \cup {-1} /\ gone \in BOOLEAN /\ bad \in 0..MaxBad

LEMMA Outcomes ==
  ASSUME ModemTypes, Succeeds \/ Fails \/ HangsUp
  PROVE  /\ ModemTypes'
         /\ (Succeeds => heard' = -1 /\ ~gone /\ ~gone')
         /\ (Fails => heard' = -1 /\ gone' = gone)
         /\ (HangsUp => heard' \in Nat /\ ~gone /\ gone')
<1>1. CASE Succeeds
  BY <1>1, CallAssumption DEF Succeeds, Fails, HangsUp, ModemTypes
<1>2. CASE Fails
  BY <1>2, CallAssumption DEF Succeeds, Fails, HangsUp, ModemTypes
<1>3. CASE HangsUp
  BY <1>3, CallAssumption DEF Succeeds, Fails, HangsUp, ModemTypes
<1> QED BY <1>1, <1>2, <1>3

LEMMA Overs ==
  ASSUME NEW r, DOMAIN r = Fields
  PROVE  /\ Agree(CleanUp(r), r, {"pc", "method"}) /\ CleanUp(r).pc \in {"resync", "ended"}
         /\ Agree(Over(r), r, {"pc", "method"}) /\ Over(r).pc \in Ending
<1>1. Agree(CleanUp(r), r, {"pc", "method"}) /\ CleanUp(r).pc \in {"resync", "ended"}
  BY DEF CleanUp, Agree, Fields
<1>2. CASE r.hsc < 0
  <2>1. Over(r) = [r EXCEPT !.pc = "kill"]
    BY <1>2 DEF Over
  <2> QED BY <1>1, <2>1 DEF Agree, Fields, Ending
<1>3. CASE ~(r.hsc < 0)
  <2>1. Over(r) = CleanUp(r)
    BY <1>3 DEF Over
  <2> QED BY <1>1, <2>1 DEF Ending
<1> QED BY <1>2, <1>3

LEMMA Hung ==
  ASSUME NEW r, DOMAIN r = Fields, r.err \in 0..4, r.hsc \in Hangups \cup {-1},
         heard' \in Hangups \cup {-1}
  PROVE  /\ Agree(gethsc(r), r, {"hsc", "err"})
         /\ gethsc(r).err \in 0..4 /\ gethsc(r).hsc \in Hangups \cup {-1}
         /\ (heard' = -1 => gethsc(r).hsc = r.hsc /\ gethsc(r).err = r.err)
         /\ (heard' # -1 => gethsc(r).hsc = heard' /\ heard' >= 0)
         /\ (gethsc(r).err = 0 => r.err = 0 /\ (heard' = -1 \/ heard' = 0))
         /\ (r.hsc >= 0 => gethsc(r).hsc >= 0)
<1>1. heard' \in Nat \/ heard' = -1
  BY CallAssumption
<1>2. CASE heard' = -1
  <2>1. gethsc(r) = r
    BY <1>2 DEF gethsc
  <2> QED BY <1>2, <2>1 DEF Agree
<1>3. CASE heard' \in Nat
  <2>1. gethsc(r) = [r EXCEPT !.hsc = heard', !.err = IF heard' > 0 /\ r.err = 0 THEN 2 ELSE r.err]
    BY <1>3 DEF gethsc
  <2>2. /\ Agree(gethsc(r), r, {"hsc", "err"}) /\ gethsc(r).hsc = heard'
        /\ gethsc(r).err = IF heard' > 0 /\ r.err = 0 THEN 2 ELSE r.err
    BY <2>1 DEF Agree, Fields
  <2> QED BY <1>3, <2>2
<1> QED BY <1>1, <1>2, <1>3

----------------------------------------------------------------------------
(* Ways on *)

(* The session is over, or there was none. *)
LEMMA Leaves ==
  ASSUME CallInv, ModemTypes', told' \in {0, 1, Unknown},
         Agree(s', s, {"pc", "method", "err", "hsc", "good", "done", "files", "cur", "vr", "changed", "ppm", "class"}),
         s'.pc \in Ending, s'.err \in 0..4, s'.hsc \in Hangups \cup {-1},
         s.hsc >= 0 => s'.hsc >= 0, s.err # 0 => s'.err # 0,
         s'.cur \in 1..(Len(s.doc) + 1), s'.vr \in {0, 1}, s'.good \in BOOLEAN, s'.done \in BOOLEAN,
         s'.files \in Seq(FileOf), Filled(s'.files), KeepsPages,
         s'.err = 0 /\ s.calling /\ s'.class # 1 => s.sent = Pages \/ s'.hsc = 0
  PROVE  StepGood
<1> USE DEF CallInv
<1>1. /\ DOMAIN s' = Fields /\ s'.doc = s.doc /\ s'.calling = s.calling /\ s'.dp = s.dp
      /\ s'.pagetry = s.pagetry /\ s'.sent = s.sent /\ s'.confirmed = s.confirmed /\ s'.onAir = s.onAir
  BY DEF Agree, Fields
<1>2. CallTypes'
  BY <1>1 DEF CallTypes, CallTypeOK, ModemTypes, Pages
<1>3. Fresh' /\ PageAtHand'
  BY DEF Fresh, PageAtHand, Before, Sending, Receiving, Ending
<1>4. ModemTold'
  BY <1>1 DEF ModemTold, Before, Sending, Ending, Pages
<1>5. Counted'
  BY <1>1 DEF Counted, CountedIsConfirmed, Sending, Ending, Pages
<1>6. FilesFilled'
  BY DEF FilesFilled, Ending
<1>7. PostPageTrue
  BY DEF PostPageTrue, Ending
<1> QED BY <1>2, <1>3, <1>4, <1>5, <1>6, <1>7 DEF StepGood

(* Nothing has been sent or received yet. *)
LEMMA GoesOn ==
  ASSUME CallInv, ModemTypes', told' \in {0, 1, Unknown}, s.pc \in Before,
         Agree(s', s, {"pc", "method", "class", "second", "vr"}), s'.pc \in Before,
         s'.vr \in {0, 1}, ~gone' => told' \in {s'.vr, Unknown}
  PROVE  StepGood
<1> USE DEF CallInv
<1>1. /\ DOMAIN s' = Fields /\ s'.doc = s.doc /\ s'.calling = s.calling /\ s'.dp = s.dp
      /\ s'.pagetry = s.pagetry /\ s'.sent = s.sent /\ s'.confirmed = s.confirmed /\ s'.onAir = s.onAir
      /\ s'.err = s.err /\ s'.hsc = s.hsc /\ s'.done = s.done /\ s'.good = s.good /\ s'.cur = s.cur
      /\ s'.files = s.files
  BY DEF Agree, Fields
<1>2. CallTypes'
  BY <1>1 DEF CallTypes, CallTypeOK, ModemTypes, Pages
<1>3. Fresh' /\ PageAtHand'
  BY <1>1 DEF Fresh, PageAtHand, Before, Sending, Receiving
<1>4. ModemTold'
  BY <1>1 DEF ModemTold, Fresh, Before, Sending
<1>5. Counted'
  BY <1>1 DEF Counted, CountedIsConfirmed, Fresh, Before, Sending, Ending
<1>6. FilesFilled'
  <2>1. s.files = <<>> /\ Len(s.files) = 0
    BY EmptySeq DEF Fresh
  <2> QED BY <1>1, <2>1 DEF FilesFilled, Filled, Before
<1>7. KeepsPages /\ PostPageTrue
  BY <1>1 DEF KeepsPages, PostPageTrue, Before
<1> QED BY <1>2, <1>3, <1>4, <1>5, <1>6, <1>7 DEF StepGood

(* The connection is there: the session begins. *)
LEMMA CallBegins ==
  ASSUME CallInv, ModemTypes', told' = told, s.pc \in Before, (gone' \/ gone' = gone),
         NEW r, Agree(r, s, {}), s' \in Session(r)
  PROVE  StepGood
<1> USE DEF CallInv
<1> DEFINE place == IF r.class = 1 THEN "class1" ELSE IF r.doc # <<>> THEN "rdpage" ELSE "wrpage"
<1>1. PICK good \in BOOLEAN : s' = [r EXCEPT !.pc = place, !.good = good]
  BY DEF Session
<1>2. /\ Agree(s', s, {"pc", "good"}) /\ s'.good = good
      /\ s'.pc = IF s.class = 1 THEN "class1" ELSE IF s.doc # <<>> THEN "rdpage" ELSE "wrpage"
  <2>1. r.class = s.class /\ r.doc = s.doc
    BY DEF Agree, Fields
  <2>2. place = IF s.class = 1 THEN "class1" ELSE IF s.doc # <<>> THEN "rdpage" ELSE "wrpage"
    BY <2>1
  <2> HIDE DEF place
  <2>3. Agree(s', s, {"pc", "good"}) /\ s'.good = good /\ s'.pc = place
    BY <1>1 DEF Agree, Fields
  <2> QED BY <2>2, <2>3
<1>3. /\ DOMAIN s' = Fields /\ s'.doc = s.doc /\ s'.calling = s.calling /\ s'.dp = s.dp
      /\ s'.pagetry = s.pagetry /\ s'.sent = s.sent /\ s'.confirmed = s.confirmed /\ s'.onAir = s.onAir
      /\ s'.err = s.err /\ s'.hsc = s.hsc /\ s'.done = s.done /\ s'.cur = s.cur /\ s'.vr = s.vr
      /\ s'.files = s.files /\ s'.class = s.class
  BY <1>2 DEF Agree, Fields
<1>4. CallTypes'
  BY <1>2, <1>3 DEF CallTypes, CallTypeOK, ModemTypes, Pages, Sending, Receiving
<1>5. s.doc # <<>> => 1 \in Pages
  BY EmptySeq DEF CallTypes, Pages
<1>6. Fresh' /\ PageAtHand'
  BY <1>2, <1>3, <1>5 DEF Fresh, PageAtHand, Before, Sending, Receiving, Pages, NTXRETRY
<1>7. ModemTold'
  BY <1>2, <1>3 DEF ModemTold, Fresh, Before, Sending
<1>8. Counted'
  <2>1. s'.sent = {} /\ s'.cur = 1 /\ s'.dp = 0 /\ s'.pc \in {"class1", "rdpage", "wrpage"}
    BY <1>2, <1>3 DEF Fresh
  <2>2. {} = 1..(1 - 1) /\ {} \ s'.confirmed = {}
    OBVIOUS
  <2> QED BY <2>1, <2>2 DEF Counted, CountedIsConfirmed, Sending, Ending
<1>9. FilesFilled'
  <2>1. s.files = <<>> /\ Len(s.files) = 0
    BY EmptySeq DEF Fresh
  <2> QED BY <1>2, <1>3, <2>1 DEF FilesFilled, Filled
<1>10. KeepsPages /\ PostPageTrue
  BY <1>2, <1>3 DEF KeepsPages, PostPageTrue
<1> QED BY <1>4, <1>6, <1>7, <1>8, <1>9, <1>10 DEF StepGood

----------------------------------------------------------------------------
(* Sending *)

LEMMA TypesGiven ==
  ASSUME CallInv
  PROVE  /\ ModemTypes /\ DOMAIN s = Fields /\ s.err \in 0..4 /\ s.hsc \in Hangups \cup {-1}
         /\ s.cur \in 1..(Len(s.doc) + 1) /\ s.vr \in {0, 1} /\ told \in {0, 1, Unknown} /\ s.dp \in {0, 1}
         /\ s.good \in BOOLEAN /\ s.done \in BOOLEAN /\ s.files \in Seq(FileOf)
         /\ s.doc \in Seq({0, 1}) /\ Len(s.doc) \in Nat /\ Pages = 1..Len(s.doc)
         /\ s.pagetry \in 0..3
  BY DEF CallInv, CallTypes, CallTypeOK, ModemTypes, Pages, NTXRETRY

LEMMA ReadsPageGood ==
  ASSUME CallInv, ReadsPage
  PROVE  StepGood
<1> DEFINE c == s.cur + s.dp
<1>1. UNCHANGED <<told, heard, gone, bad>> /\ s.pc = "rdpage"
  BY DEF ReadsPage, At
<1>2. ModemTypes' /\ told' \in {0, 1, Unknown}
  BY <1>1, TypesGiven DEF ModemTypes
<1>3. /\ s.err = 0 /\ s.done = FALSE /\ s.cur \in Pages /\ s.pagetry < NTXRETRY
      /\ c \in 1..(Len(s.doc) + 1) /\ c \in Nat
      /\ s.hsc = 0 \/ s.sent = 1..(IF s.dp = 1 THEN s.cur ELSE s.cur - 1)
  <2>1. /\ s.err = 0 /\ s.done = FALSE /\ s.cur \in Pages /\ s.pagetry < NTXRETRY
        /\ s.hsc = 0 \/ s.sent = 1..(IF s.dp = 1 THEN s.cur ELSE s.cur - 1)
    BY <1>1 DEF CallInv, PageAtHand, Counted, Sending
  <2>2. c \in 1..(Len(s.doc) + 1) /\ c \in Nat
    BY <2>1, TypesGiven
  <2> QED BY <2>1, <2>2
<1>4. CASE c > Len(s.doc)
  <2> DEFINE r == [s EXCEPT !.cur = c, !.err = 2]
  <2>1. rdpage(s) = r
    BY <1>4 DEF rdpage
  <2>2. Agree(r, s, {"cur", "err"}) /\ r.err = 2 /\ r.cur = c
    BY TypesGiven DEF Agree, Fields
  <2>3. s' = Over(r)
    BY <2>1, <2>2 DEF ReadsPage
  <2> HIDE DEF r
  <2>4. Agree(s', r, {"pc", "method"}) /\ s'.pc \in Ending
    BY <2>2, <2>3, Overs DEF Agree
  <2>5. Agree(s', s, {"pc", "method", "cur", "err"}) /\ s'.err = 2 /\ s'.cur = c
    BY <2>2, <2>4 DEF Agree, Fields
  <2>6. s'.files = s.files /\ s'.hsc = s.hsc /\ s'.vr = s.vr /\ s'.good = s.good /\ s'.done = s.done
    BY <2>5 DEF Agree, Fields
  <2>7. Filled(s.files)
    BY <1>1 DEF CallInv, FilesFilled
  <2>8. Agree(s', s, {"pc", "method", "err", "hsc", "good", "done", "files", "cur", "vr", "changed", "ppm", "class"})
    BY <2>5 DEF Agree
  <2> QED BY <1>2, <1>3, <2>4, <2>5, <2>6, <2>7, <2>8, Leaves, TypesGiven DEF KeepsPages
<1>5. CASE ~(c > Len(s.doc))
  <2> DEFINE ch == s.doc[c] # s.vr
             r == [s EXCEPT !.cur = c, !.vr = s.doc[c], !.changed = ch, !.ppm = PPM(s.doc, c)]
             place == IF ch THEN "format" ELSE "start"
  <2>1. rdpage(s) = r
    BY <1>5 DEF rdpage, PPM
  <2>2. /\ Agree(r, s, {"cur", "vr", "changed", "ppm"}) /\ r.cur = c /\ r.vr = s.doc[c]
        /\ r.changed = ch /\ r.ppm = PPM(s.doc, c)
    BY TypesGiven DEF Agree, Fields
  <2>3. r.err = 0
    BY <1>3, <2>2 DEF Agree, Fields
  <2>4. s' = [r EXCEPT !.pc = place]
    BY <2>1, <2>2, <2>3 DEF ReadsPage
  <2> HIDE DEF r, place
  <2>5. /\ Agree(s', s, {"pc", "cur", "vr", "changed", "ppm"}) /\ s'.cur = c /\ s'.vr = s.doc[c]
        /\ s'.ppm = PPM(s.doc, c) /\ s'.pc = place
    BY <2>2, <2>4 DEF Agree, Fields
  <2>6. /\ s'.doc = s.doc /\ s'.files = s.files /\ s'.hsc = s.hsc /\ s'.err = 0 /\ s'.done = FALSE /\ s'.dp = s.dp
        /\ s'.pagetry = s.pagetry /\ s'.sent = s.sent /\ s'.confirmed = s.confirmed /\ s'.onAir = s.onAir
        /\ s'.before = s.before /\ s'.good = s.good
    BY <1>3, <2>5 DEF Agree, Fields
  <2>7. c \in 1..Len(s.doc) /\ s.doc[c] \in {0, 1}
    BY <1>3, <1>5, TypesGiven
  <2>8. s'.pc \in {"format", "start"} /\ (s'.pc = "start" => s.doc[c] = s.vr)
    BY <2>5 DEF place
  <2>9. CallTypes'
    <3>1. c \in 1..(Len(s.doc) + 1)
      BY <1>3
    <3>2. CallTypeOK'
      BY <1>1, <2>5, <2>6, <2>7, <3>1 DEF CallInv, CallTypes, CallTypeOK, Pages
    <3> QED BY <1>1, <2>5, <2>6, <2>7, <2>8, <3>2 DEF CallInv, CallTypes, Agree, Sending
  <2>10. Fresh' /\ PageAtHand'
    BY <1>3, <2>5, <2>6, <2>7, <2>8 DEF Fresh, PageAtHand, Before, Receiving, Pages
  <2>11. ModemTold'
    <3>1. (s'.pc = "start" /\ ~gone' => told' \in {s'.vr, Unknown})
      BY <1>1, <2>5, <2>8 DEF CallInv, ModemTold, Sending
    <3>2. s.onAir # <<>> /\ ~gone => s.before = PPM(s.doc, s.onAir.page) /\ s.onAir.page = s.cur
      BY <1>1 DEF CallInv, ModemTold, Sending
    <3>3. s.cur \in {c, c - 1}
      BY TypesGiven
    <3>4. s.onAir # <<>> => s.onAir.page \in Pages /\ s.onAir.vr \in {s.doc[s.onAir.page], Unknown}
      BY DEF CallInv, ModemTold
    <3> QED BY <1>1, <2>5, <2>6, <2>8, <3>1, <3>2, <3>3, <3>4 DEF ModemTold, Before, Sending, Pages
  <2>12. Counted'
    <3>1. s.hsc = 0 \/ s.sent = 1..(c - 1)
      BY <1>3, TypesGiven
    <3>2. s'.hsc = 0 \/ s'.sent = 1..(s'.cur - 1)
      BY <2>5, <2>6, <3>1
    <3>3. CountedIsConfirmed'
      BY <1>3, <2>6 DEF CallInv, Counted, CountedIsConfirmed
    <3> QED BY <2>8, <3>2, <3>3 DEF Counted, Ending
  <2>13. FilesFilled'
    BY <1>1, <2>6, <2>8 DEF CallInv, FilesFilled
  <2>14. KeepsPages /\ PostPageTrue
    BY <2>6, <2>8 DEF KeepsPages, PostPageTrue
  <2> QED BY <2>9, <2>10, <2>11, <2>12, <2>13, <2>14 DEF StepGood, CallInv
<1> QED BY <1>4, <1>5

(* A session that ends with what gethsc() says of a hang-up, or with an     *)
(* error, without another word about pages.                                *)
LEMMA Quits ==
  ASSUME CallInv, ModemTypes', told' \in {0, 1, Unknown}, s.pc \in Sending, NEW r, s' = Over(r),
         Agree(r, s, {"err", "hsc"}), r.err \in 0..4, r.hsc \in Hangups \cup {-1},
         s.hsc >= 0 => r.hsc >= 0, r.err = 0 => r.hsc = 0
  PROVE  StepGood
<1>1. Agree(s', r, {"pc", "method"}) /\ s'.pc \in Ending
  BY Overs DEF Agree
<1>2. Agree(s', s, {"pc", "method", "err", "hsc"}) /\ s'.err = r.err /\ s'.hsc = r.hsc
  BY <1>1 DEF Agree, Fields
<1>3. s'.files = s.files /\ s'.vr = s.vr /\ s'.good = s.good /\ s'.done = s.done /\ s'.cur = s.cur
  BY <1>2 DEF Agree, Fields
<1>4. Filled(s.files) /\ s.err = 0
  BY DEF CallInv, FilesFilled, PageAtHand, Sending
<1>5. Agree(s', s, {"pc", "method", "err", "hsc", "good", "done", "files", "cur", "vr", "changed", "ppm", "class"})
  BY <1>2 DEF Agree
<1> QED BY <1>1, <1>2, <1>3, <1>4, <1>5, Leaves, TypesGiven DEF KeepsPages

LEMMA HangUpIsHeard ==
  ASSUME CallInv, HangsUp, NEW r, r = gethsc(s)
  PROVE  /\ Agree(r, s, {"hsc", "err"}) /\ r.err \in 0..4 /\ r.hsc \in Hangups \cup {-1}
         /\ (r.err = 0 => r.hsc = 0 /\ s.err = 0) /\ r.hsc >= 0 /\ ModemTypes' /\ gone'
<1>1. ModemTypes' /\ heard' \in Nat /\ gone'
  BY TypesGiven, Outcomes
<1>2. heard' \in Hangups \cup {-1} /\ heard' # -1
  BY <1>1 DEF ModemTypes
<1> QED BY <1>1, <1>2, TypesGiven, Hung

LEMMA TellsFormatGood ==
  ASSUME CallInv, TellsFormat
  PROVE  StepGood
<1>1. s.pc = "format" /\ told' \in {s.vr, Unknown} /\ told' \in {0, 1, Unknown}
  BY TypesGiven DEF TellsFormat, At
<1>2. /\ s.err = 0 /\ s.done = FALSE /\ s.cur \in Pages /\ s.pagetry < NTXRETRY
      /\ s.vr = s.doc[s.cur] /\ s.ppm = PPM(s.doc, s.cur)
  BY <1>1 DEF CallInv, PageAtHand, Sending
<1>3. \/ (Succeeds \/ Fails) /\ s' = [s EXCEPT !.pc = "start"]
      \/ HangsUp /\ s' = Again(gethsc(s))
  BY DEF TellsFormat
<1>4. ASSUME NEW place \in {"start", "rdpage"}, NEW q, s' = [q EXCEPT !.pc = place],
             Agree(q, s, {"hsc", "err"}), q.err = 0, q.hsc \in Hangups \cup {-1}, ModemTypes',
             q.hsc = s.hsc \/ q.hsc = 0, place = "rdpage" => q.hsc = 0 /\ gone', gone' \/ gone' = gone
      PROVE  StepGood
  <2>1. Agree(s', s, {"pc", "hsc", "err"}) /\ s'.pc = place /\ s'.hsc = q.hsc /\ s'.err = 0
    BY <1>4 DEF Agree, Fields
  <2>2. /\ s'.doc = s.doc /\ s'.files = s.files /\ s'.done = FALSE /\ s'.dp = s.dp
        /\ s'.pagetry = s.pagetry /\ s'.sent = s.sent /\ s'.confirmed = s.confirmed /\ s'.onAir = s.onAir
        /\ s'.before = s.before /\ s'.good = s.good /\ s'.cur = s.cur /\ s'.vr = s.vr /\ s'.ppm = s.ppm
    BY <1>2, <2>1 DEF Agree, Fields
  <2>3. CallTypeOK'
    BY <1>1, <1>4, <2>1, <2>2 DEF CallInv, CallTypes, CallTypeOK, ModemTypes, Pages
  <2>4. CallTypes'
    BY <1>4, <2>1, <2>2, <2>3 DEF CallInv, CallTypes, Agree, ModemTypes, Sending
  <2>5. Fresh' /\ PageAtHand'
    BY <1>2, <1>4, <2>1, <2>2 DEF Fresh, PageAtHand, Before, Receiving, Pages
  <2>6. ModemTold'
    BY <1>1, <1>4, <2>1, <2>2 DEF CallInv, ModemTold, Before, Sending, Pages
  <2>7. Counted'
    <3>1. s.hsc = 0 \/ s.sent = 1..(s.cur - 1)
      BY <1>1 DEF CallInv, Counted, Sending
    <3>2. CountedIsConfirmed'
      BY <1>2, <1>4, <2>1, <2>2 DEF CallInv, Counted, CountedIsConfirmed
    <3> QED BY <1>4, <2>1, <2>2, <3>1, <3>2 DEF Counted, Ending
  <2>8. FilesFilled' /\ KeepsPages /\ PostPageTrue
    BY <1>1, <1>4, <2>1, <2>2 DEF CallInv, FilesFilled, KeepsPages, PostPageTrue
  <2> QED BY <2>4, <2>5, <2>6, <2>7, <2>8 DEF StepGood, CallInv
<1>5. CASE (Succeeds \/ Fails) /\ s' = [s EXCEPT !.pc = "start"]
  <2>1. ModemTypes' /\ gone' = gone
    <3>1. ModemTypes' /\ (Succeeds => ~gone /\ ~gone') /\ (Fails => gone' = gone)
      BY <1>5, TypesGiven, Outcomes
    <3>2. CASE Succeeds
      BY <3>1, <3>2, TypesGiven DEF Succeeds
    <3>3. CASE Fails
      BY <3>1, <3>3
    <3> QED BY <1>5, <3>2, <3>3
  <2> QED BY <1>2, <1>4, <1>5, <2>1, TypesGiven DEF Agree
<1>6. CASE HangsUp /\ s' = Again(gethsc(s))
  <2> DEFINE r == gethsc(s)
  <2>1. /\ Agree(r, s, {"hsc", "err"}) /\ r.err \in 0..4 /\ r.hsc \in Hangups \cup {-1}
        /\ (r.err = 0 => r.hsc = 0 /\ s.err = 0) /\ r.hsc >= 0 /\ ModemTypes' /\ gone'
    BY <1>6, HangUpIsHeard
  <2>2. r.done = FALSE
    BY <1>2, <2>1 DEF Agree, Fields
  <2> HIDE DEF r
  <2>3. s' = IF r.err # 0 THEN Over(r) ELSE [r EXCEPT !.pc = "rdpage"]
    BY <1>6, <2>2 DEF Again, r
  <2>4. CASE r.err # 0
    BY <1>1, <2>1, <2>3, <2>4, Quits DEF Sending
  <2>5. CASE r.err = 0
    BY <1>4, <2>1, <2>3, <2>5
  <2> QED BY <2>4, <2>5
<1> QED BY <1>3, <1>5, <1>6

LEMMA StartsPageGood ==
  ASSUME CallInv, StartsPage
  PROVE  StepGood
<1>1. s.pc = "start" /\ told' = told /\ told' \in {0, 1, Unknown}
  BY TypesGiven DEF StartsPage, At
<1>2. /\ s.err = 0 /\ s.done = FALSE /\ s.cur \in Pages /\ s.pagetry < NTXRETRY
      /\ s.vr = s.doc[s.cur] /\ s.ppm = PPM(s.doc, s.cur)
  BY <1>1 DEF CallInv, PageAtHand, Sending
<1>3. CASE Fails /\ s' = Over([s EXCEPT !.err = 3])
  <2> DEFINE r == [s EXCEPT !.err = 3]
  <2>1. Agree(r, s, {"err", "hsc"}) /\ r.err = 3 /\ r.hsc = s.hsc
    BY TypesGiven DEF Agree, Fields
  <2>2. ModemTypes'
    BY <1>3, TypesGiven, Outcomes
  <2>3. s' = Over(r)
    BY <1>3
  <2> HIDE DEF r
  <2> QED BY <1>1, <2>1, <2>2, <2>3, Quits, TypesGiven DEF Sending
<1>4. CASE HangsUp /\ s' = Over(gethsc(s))
  <2> DEFINE r == gethsc(s)
  <2>1. /\ Agree(r, s, {"hsc", "err"}) /\ r.err \in 0..4 /\ r.hsc \in Hangups \cup {-1}
        /\ (r.err = 0 => r.hsc = 0 /\ s.err = 0) /\ r.hsc >= 0 /\ ModemTypes' /\ gone'
    BY <1>4, HangUpIsHeard
  <2>2. s' = Over(r)
    BY <1>4
  <2> HIDE DEF r
  <2> QED BY <1>1, <2>1, <2>2, Quits DEF Sending
<1>5. CASE Succeeds /\ s' = [s EXCEPT !.pc = "data", !.pagetry = @ + 1, !.before = s.ppm,
                                       !.onAir = [page |-> s.cur, vr |-> told]]
  <2> DEFINE sheet == [page |-> s.cur, vr |-> told]
  <2>1. sheet.page = s.cur /\ sheet.vr = told
    OBVIOUS
  <2> HIDE DEF sheet
  <2>2. /\ Agree(s', s, {"pc", "pagetry", "before", "onAir"}) /\ s'.pc = "data"
        /\ s'.pagetry = s.pagetry + 1 /\ s'.before = s.ppm /\ s'.onAir = sheet
    BY <1>5, TypesGiven DEF Agree, Fields, sheet
  <2>3. /\ s'.doc = s.doc /\ s'.files = s.files /\ s'.done = FALSE /\ s'.dp = s.dp /\ s'.err = 0
        /\ s'.sent = s.sent /\ s'.confirmed = s.confirmed /\ s'.hsc = s.hsc
        /\ s'.good = s.good /\ s'.cur = s.cur /\ s'.vr = s.vr /\ s'.ppm = s.ppm
    BY <1>2, <2>2 DEF Agree, Fields
  <2>4. ModemTypes' /\ ~gone /\ ~gone'
    BY <1>5, TypesGiven, Outcomes
  <2>5. s'.pagetry \in 0..3
    BY <1>2, <2>2, TypesGiven DEF NTXRETRY
  <2>6. CallTypeOK'
    BY <1>1, <2>2, <2>3, <2>4, <2>5 DEF CallInv, CallTypes, CallTypeOK, ModemTypes, Pages, NTXRETRY
  <2>7. CallTypes'
    BY <2>2, <2>3, <2>4, <2>6 DEF CallInv, CallTypes, Agree, ModemTypes, Sending
  <2>8. Fresh' /\ PageAtHand'
    BY <1>2, <2>2, <2>3 DEF Fresh, PageAtHand, Before, Receiving, Pages
  <2>9. told \in {s.vr, Unknown}
    BY <1>1, <2>4 DEF CallInv, ModemTold, Sending
  <2>10. ModemTold'
    BY <1>1, <1>2, <2>1, <2>2, <2>3, <2>9 DEF ModemTold, Sending, Pages
  <2>11. Counted'
    <3>1. s.hsc = 0 \/ s.sent = 1..(s.cur - 1)
      BY <1>1 DEF CallInv, Counted, Sending
    <3>2. CountedIsConfirmed'
      BY <1>2, <2>3 DEF CallInv, Counted, CountedIsConfirmed
    <3> QED BY <2>2, <2>3, <3>1, <3>2 DEF Counted, Ending
  <2>12. FilesFilled' /\ KeepsPages
    BY <1>1, <2>2, <2>3 DEF CallInv, FilesFilled, KeepsPages
  <2>13. PostPageTrue
    <3>1. SUFFICES ASSUME s.onAir # <<>>, s.cur # s.onAir.page
                   PROVE  /\ s.cur = s.onAir.page + 1
                          /\ s.before = IF s.doc[s.cur] = s.doc[s.onAir.page] THEN "MPS" ELSE "EOM"
      BY <2>1, <2>2 DEF PostPageTrue
    <3>2. s.onAir.page \in {s.cur, s.cur - 1} /\ s.before = PPM(s.doc, s.onAir.page)
      BY <1>1, <2>4, <3>1 DEF CallInv, ModemTold, Sending
    <3>3. s.onAir.page + 1 = s.cur /\ s.onAir.page # Len(s.doc)
      BY <1>2, <3>1, <3>2, TypesGiven
    <3> QED BY <3>2, <3>3 DEF PPM
  <2> QED BY <2>7, <2>8, <2>10, <2>11, <2>12, <2>13 DEF StepGood, CallInv
<1> QED BY <1>3, <1>4, <1>5 DEF StartsPage

(* The end of a page: it counts and the next one comes, or it is sent again, *)
(* or the session is over.                                                 *)
LEMMA AfterPageGood ==
  ASSUME CallInv, s.pc \in {"data", "postpage"}, told' = told, ModemTypes',
         NEW r, Agree(r, s, {"err", "good", "confirmed"}), r.err \in 0..4, r.good \in BOOLEAN,
         r.confirmed = s.confirmed \/ r.confirmed = s.confirmed \cup {s.cur},
         r.good => s.cur \in r.confirmed \/ r.err # 0 \/ heard' # -1,
         gone' = gone \/ heard' # -1,
         s' = AfterPage(r)
  PROVE  StepGood
<1> DEFINE a == gethsc(r)
           c == Settled(a)
           hung == heard' >= 0
           d == [c EXCEPT !.done = @ \/ hung]
<1>1. /\ s.err = 0 /\ s.done = FALSE /\ s.cur \in Pages /\ s.pagetry \in 0..3
      /\ s.vr = s.doc[s.cur] /\ s.ppm = PPM(s.doc, s.cur)
      /\ s.hsc = 0 \/ s.sent = 1..(s.cur - 1)
  BY TypesGiven DEF CallInv, PageAtHand, Counted, Sending
<1>2. /\ DOMAIN r = Fields /\ r.hsc = s.hsc /\ heard' \in Hangups \cup {-1} /\ r.cur = s.cur /\ r.ppm = s.ppm
      /\ r.pagetry = s.pagetry /\ r.sent = s.sent /\ r.done = FALSE
  BY <1>1 DEF Agree, Fields, ModemTypes
<1>3. /\ Agree(a, r, {"hsc", "err"}) /\ a.err \in 0..4 /\ a.hsc \in Hangups \cup {-1}
      /\ (heard' = -1 => a.hsc = s.hsc /\ a.err = r.err) /\ (heard' # -1 => a.hsc = heard' /\ hung)
      /\ (a.err = 0 => r.err = 0 /\ (heard' = -1 \/ heard' = 0)) /\ (s.hsc >= 0 => a.hsc >= 0)
  BY <1>2, TypesGiven, Hung
<1>4. hung \in BOOLEAN /\ (heard' = -1 => hung = FALSE)
  OBVIOUS
<1>5. /\ Agree(a, s, {"hsc", "err", "good", "confirmed"}) /\ a.good = r.good /\ a.confirmed = r.confirmed
      /\ a.cur = s.cur /\ a.ppm = s.ppm /\ a.sent = s.sent /\ a.pagetry = s.pagetry /\ a.done = FALSE
  BY <1>2, <1>3 DEF Agree, Fields
<1> HIDE DEF hung, a
<1>6. CASE a.good \/ NoRetry
  <2> DEFINE last == s.ppm = "EOP"
             next == IF last THEN s.cur + 1 ELSE s.cur
  <2>1. c = [a EXCEPT !.sent = s.sent \cup {s.cur}, !.pagetry = 0, !.dp = 1, !.cur = next, !.done = last]
    BY <1>5, <1>6 DEF Settled, Agree, Fields
  <2> HIDE DEF c, next
  <2>2. /\ Agree(c, a, {"sent", "pagetry", "dp", "cur", "done"}) /\ c.sent = s.sent \cup {s.cur}
        /\ c.pagetry = 0 /\ c.dp = 1 /\ c.cur = next /\ c.done = last
    BY <1>5, <2>1 DEF Agree, Fields
  <2>3. /\ Agree(d, a, {"sent", "pagetry", "dp", "cur", "done"}) /\ d.sent = s.sent \cup {s.cur}
        /\ d.pagetry = 0 /\ d.dp = 1 /\ d.cur = next /\ d.done = (last \/ hung)
    BY <2>2 DEF Agree, Fields
  <2> HIDE DEF d
  <2>4. d.err = a.err /\ d.hsc = a.hsc
    BY <2>3 DEF Agree, Fields
  <2>5. s' = Again(d)
    BY DEF AfterPage, a, c, d, hung
  <2>6. last <=> s.cur = Len(s.doc)
    BY <1>1 DEF PPM
  <2>7. \/ d.err = 0 /\ ~last /\ ~hung /\ s' = [d EXCEPT !.pc = "rdpage"]
        \/ (d.err # 0 \/ last \/ hung) /\ s' = Over(d)
    <3>1. CASE d.err # 0 \/ last \/ hung
      BY <2>3, <2>5, <3>1 DEF Again
    <3>2. CASE ~(d.err # 0 \/ last \/ hung)
      BY <2>3, <2>5, <3>2 DEF Again
    <3> QED BY <3>1, <3>2
  <2>8. /\ DOMAIN s' = Fields /\ \A x \in Fields \ {"pc", "method", "done"} : s'[x] = d[x]
        /\ s'.done \in BOOLEAN
        /\ \/ s'.pc = "rdpage" /\ s'.done = FALSE /\ d.err = 0 /\ ~last /\ ~hung
           \/ s'.pc \in Ending /\ (d.err # 0 \/ last \/ hung)
    <3>1. CASE s' = [d EXCEPT !.pc = "rdpage"] /\ d.err = 0 /\ ~last /\ ~hung
      <4>1. d.done = FALSE
        BY <2>3, <3>1
      <4> QED BY <2>3, <3>1, <4>1 DEF Agree, Fields
    <3>2. CASE s' = Over(d) /\ (d.err # 0 \/ last \/ hung)
      <4>1. Agree(s', d, {"pc", "method"}) /\ s'.pc \in Ending
        BY <2>3, <3>2, Overs DEF Agree
      <4> QED BY <2>3, <3>2, <4>1 DEF Agree, Fields
    <3> QED BY <2>7, <3>1, <3>2
  <2>9. /\ s'.doc = s.doc /\ s'.files = s.files /\ s'.class = s.class /\ s'.calling = s.calling /\ s'.dp = 1
        /\ s'.err = a.err /\ s'.hsc = a.hsc /\ s'.sent = s.sent \cup {s.cur} /\ s'.confirmed = r.confirmed
        /\ s'.onAir = s.onAir /\ s'.before = s.before /\ s'.good = r.good /\ s'.cur = next /\ s'.vr = s.vr
        /\ s'.pagetry = 0
    BY <1>5, <2>3, <2>8 DEF Agree, Fields
  <2>10. next \in 1..(Len(s.doc) + 1) /\ (~last => next = s.cur /\ s.cur < Len(s.doc))
    BY <1>1, <2>6, TypesGiven DEF next
  <2>11. CallTypeOK'
    BY <1>1, <1>3, <2>9, <2>10 DEF CallInv, CallTypes, CallTypeOK, ModemTypes, Pages, NTXRETRY
  <2>12. CallTypes'
    BY <2>8, <2>9, <2>11 DEF CallInv, CallTypes, ModemTypes, Sending
  <2>13. Fresh' /\ PageAtHand'
    <3>1. s'.pc = "rdpage" => s'.done = FALSE /\ s'.err = 0 /\ s'.cur = s.cur /\ s.cur < Len(s.doc)
      BY <2>4, <2>8, <2>9, <2>10 DEF Ending
    <3>2. s'.pc \in {"rdpage"} \cup Ending
      BY <2>8
    <3> QED BY <1>1, <2>9, <3>1, <3>2 DEF Fresh, PageAtHand, Before, Sending, Receiving, Ending, Pages, NTXRETRY
  <2>14. ModemTold'
    <3>1. s.onAir # <<>> => s.onAir.page \in Pages /\ s.onAir.vr \in {s.doc[s.onAir.page], Unknown}
      BY DEF CallInv, ModemTold
    <3>2. CASE s'.pc = "rdpage"
      <4>1. heard' = -1 /\ gone' = gone
        BY <1>3, <2>8, <3>2 DEF Ending
      <4>2. ~gone => told \in {s.vr, Unknown}
        BY DEF CallInv, ModemTold, Sending
      <4>3. ~gone /\ s.onAir # <<>> => s.before = PPM(s.doc, s.onAir.page) /\ s.onAir.page = s.cur
        BY DEF CallInv, ModemTold, Sending
      <4>4. s'.cur = s.cur
        BY <2>8, <2>9, <2>10, <3>2 DEF Ending
      <4> QED BY <2>9, <3>1, <3>2, <4>1, <4>2, <4>3, <4>4 DEF ModemTold, Pages
    <3>3. CASE s'.pc \in Ending
      BY <2>9, <3>1, <3>3 DEF ModemTold, Before, Sending, Ending, Pages
    <3> QED BY <2>8, <3>2, <3>3
  <2>15. Counted'
    <3>1. s.hsc = 0 \/ s'.sent = 1..s.cur
      BY <1>1, <2>9, TypesGiven
    <3>2. s'.err = 0 => (heard' = -1 /\ s'.hsc = s.hsc) \/ s'.hsc = 0
      BY <1>3, <2>9
    <3>3. CountedIsConfirmed'
      <4>1. SUFFICES ASSUME s'.err = 0, ~NoRetry, ~(s'.hsc >= 0)
                     PROVE  s'.sent \ s'.confirmed = {}
        BY DEF CountedIsConfirmed
      <4>2. heard' = -1 /\ ~(s.hsc >= 0) /\ r.err = 0
        BY <1>3, <2>9, <3>2, <4>1
      <4>3. s.sent \ s.confirmed = {}
        BY <1>1, <4>1, <4>2 DEF CallInv, Counted, CountedIsConfirmed
      <4>4. s.cur \in r.confirmed
        BY <1>5, <1>6, <4>1, <4>2
      <4> QED BY <2>9, <4>3, <4>4
    <3>4. s'.pc = "rdpage" => s'.hsc = 0 \/ s'.sent = 1..s'.cur
      BY <2>4, <2>8, <2>9, <2>10, <3>1, <3>2 DEF Ending
    <3>5. s'.pc \in Ending /\ s'.err = 0 => s'.sent = Pages \/ s'.hsc = 0
      <4>1. SUFFICES ASSUME s'.pc \in Ending, s'.err = 0, s'.hsc # 0
                     PROVE  s'.sent = Pages
        OBVIOUS
      <4>2. heard' = -1 /\ s.hsc # 0
        BY <3>2, <4>1
      <4>3. last
        BY <1>4, <2>4, <2>8, <2>9, <4>1, <4>2 DEF Ending
      <4> QED BY <2>6, <3>1, <4>2, <4>3, TypesGiven
    <3> QED BY <2>8, <2>9, <3>3, <3>4, <3>5 DEF Counted, Sending, Ending, Pages
  <2>16. FilesFilled' /\ KeepsPages /\ PostPageTrue
    BY <2>8, <2>9 DEF CallInv, FilesFilled, KeepsPages, PostPageTrue, Ending
  <2> QED BY <2>12, <2>13, <2>14, <2>15, <2>16 DEF StepGood, CallInv
<1>7. CASE ~(a.good \/ NoRetry)
  <2> DEFINE e == IF s.pagetry >= NTXRETRY THEN 2 ELSE a.err
  <2>1. c = [a EXCEPT !.dp = 0, !.err = e]
    BY <1>5, <1>7 DEF Settled, Agree, Fields
  <2> HIDE DEF c, e
  <2>2. Agree(c, a, {"dp", "err"}) /\ c.dp = 0 /\ c.err = e
    BY <1>5, <2>1 DEF Agree, Fields
  <2>3. c.done = FALSE
    BY <1>5, <2>2 DEF Agree, Fields
  <2>4. Agree(d, a, {"dp", "err", "done"}) /\ d.dp = 0 /\ d.err = e /\ d.done = hung
    BY <1>4, <2>2, <2>3 DEF Agree, Fields
  <2> HIDE DEF d
  <2>5. s' = Again(d)
    BY DEF AfterPage, a, c, d, hung
  <2>6. e \in 0..4 /\ (e = 0 => a.err = 0 /\ s.pagetry < NTXRETRY)
    BY <1>1, <1>3 DEF e, NTXRETRY
  <2>7. /\ DOMAIN s' = Fields /\ \A x \in Fields \ {"pc", "method"} : s'[x] = d[x]
        /\ \/ s'.pc = "rdpage" /\ e = 0 /\ ~hung
           \/ s'.pc \in Ending /\ (e # 0 \/ hung)
    <3>1. CASE e # 0 \/ hung
      <4>1. s' = Over(d)
        BY <2>4, <2>5, <3>1 DEF Again
      <4>2. Agree(s', d, {"pc", "method"}) /\ s'.pc \in Ending
        BY <2>4, <4>1, Overs DEF Agree
      <4> QED BY <3>1, <4>2 DEF Agree
    <3>2. CASE ~(e # 0 \/ hung)
      <4>1. s' = [d EXCEPT !.pc = "rdpage"]
        BY <2>4, <2>5, <3>2 DEF Again
      <4> QED BY <2>4, <3>2, <4>1 DEF Agree, Fields
    <3> QED BY <3>1, <3>2
  <2>8. /\ s'.doc = s.doc /\ s'.files = s.files /\ s'.class = s.class /\ s'.calling = s.calling /\ s'.dp = 0
        /\ s'.err = e /\ s'.hsc = a.hsc /\ s'.sent = s.sent /\ s'.confirmed = r.confirmed
        /\ s'.onAir = s.onAir /\ s'.before = s.before /\ s'.good = r.good /\ s'.cur = s.cur /\ s'.vr = s.vr
        /\ s'.pagetry = s.pagetry /\ s'.done = hung
    BY <1>5, <2>4, <2>7 DEF Agree, Fields
  <2>9. CallTypeOK'
    BY <1>1, <1>3, <2>6, <2>8 DEF CallInv, CallTypes, CallTypeOK, ModemTypes, Pages, NTXRETRY
  <2>10. CallTypes'
    BY <1>4, <2>7, <2>8, <2>9 DEF CallInv, CallTypes, ModemTypes, Sending
  <2>11. Fresh' /\ PageAtHand'
    <3>1. s'.pc = "rdpage" => s'.done = FALSE /\ s'.err = 0 /\ s'.pagetry < NTXRETRY
      BY <1>4, <2>6, <2>7, <2>8 DEF Ending
    <3> QED BY <1>1, <2>7, <2>8, <3>1 DEF Fresh, PageAtHand, Before, Sending, Receiving, Ending, Pages
  <2>12. ModemTold'
    <3>1. s.onAir # <<>> => s.onAir.page \in Pages /\ s.onAir.vr \in {s.doc[s.onAir.page], Unknown}
      BY DEF CallInv, ModemTold
    <3>2. CASE s'.pc = "rdpage"
      <4>1. heard' = -1 /\ gone' = gone
        BY <1>3, <2>7, <3>2 DEF Ending
      <4>2. ~gone => told \in {s.vr, Unknown}
        BY DEF CallInv, ModemTold, Sending
      <4>3. ~gone /\ s.onAir # <<>> => s.before = PPM(s.doc, s.onAir.page) /\ s.onAir.page = s.cur
        BY DEF CallInv, ModemTold, Sending
      <4> QED BY <2>8, <3>1, <3>2, <4>1, <4>2, <4>3 DEF ModemTold, Pages
    <3>3. CASE s'.pc \in Ending
      BY <2>8, <3>1, <3>3 DEF ModemTold, Before, Sending, Ending, Pages
    <3> QED BY <2>7, <3>2, <3>3
  <2>13. Counted'
    <3>1. s'.err = 0 => (heard' = -1 /\ s'.hsc = s.hsc) \/ s'.hsc = 0
      BY <1>3, <2>6, <2>8
    <3>2. CountedIsConfirmed'
      <4>1. s.sent \ s.confirmed # {} => s.hsc >= 0 \/ NoRetry
        BY <1>1 DEF CallInv, Counted, CountedIsConfirmed
      <4>2. s'.sent \ s'.confirmed # {} => s.sent \ s.confirmed # {}
        BY <2>8
      <4> QED BY <1>3, <2>8, <4>1, <4>2 DEF CountedIsConfirmed
    <3>3. s'.pc = "rdpage" => s'.hsc = 0 \/ s'.sent = 1..(s'.cur - 1)
      BY <1>1, <2>7, <2>8, <3>1 DEF Ending
    <3>4. s'.pc \in Ending /\ s'.err = 0 => s'.hsc = 0
      BY <1>4, <2>7, <2>8, <3>1 DEF Ending
    <3> QED BY <2>7, <2>8, <3>2, <3>3, <3>4 DEF Counted, Sending, Ending
  <2>14. FilesFilled' /\ KeepsPages /\ PostPageTrue
    BY <2>7, <2>8 DEF CallInv, FilesFilled, KeepsPages, PostPageTrue, Ending
  <2> QED BY <2>10, <2>11, <2>12, <2>13, <2>14 DEF StepGood, CallInv
<1> QED BY <1>6, <1>7

LEMMA DataEndsGood ==
  ASSUME CallInv, DataEnds
  PROVE  StepGood
<1>1. s.pc = "data" /\ told' = told /\ told' \in {0, 1, Unknown}
  BY TypesGiven DEF DataEnds, At
<1>2. CASE (Succeeds \/ Fails) /\ s' = [s EXCEPT !.pc = "postpage"]
  <2>1. ModemTypes' /\ (gone' = gone)
    <3>1. ModemTypes' /\ (Succeeds => ~gone /\ ~gone') /\ (Fails => gone' = gone)
      BY <1>2, TypesGiven, Outcomes
    <3>2. CASE Succeeds
      BY <3>1, <3>2, TypesGiven DEF Succeeds
    <3>3. CASE Fails
      BY <3>1, <3>3
    <3> QED BY <1>2, <3>2, <3>3
  <2>2. Agree(s', s, {"pc"}) /\ s'.pc = "postpage"
    BY <1>2, TypesGiven DEF Agree, Fields
  <2>3. /\ s'.doc = s.doc /\ s'.files = s.files /\ s'.done = s.done /\ s'.dp = s.dp /\ s'.err = s.err
        /\ s'.sent = s.sent /\ s'.confirmed = s.confirmed /\ s'.hsc = s.hsc /\ s'.pagetry = s.pagetry
        /\ s'.good = s.good /\ s'.cur = s.cur /\ s'.vr = s.vr /\ s'.ppm = s.ppm /\ s'.onAir = s.onAir
        /\ s'.before = s.before
    BY <2>2 DEF Agree, Fields
  <2>4. CallTypeOK'
    BY <1>1, <2>1, <2>3 DEF CallInv, CallTypes, CallTypeOK, ModemTypes, Pages
  <2>5. CallTypes' /\ Fresh' /\ PageAtHand'
    BY <1>1, <2>1, <2>2, <2>3, <2>4 DEF CallInv, CallTypes, Agree, ModemTypes, Fresh, PageAtHand, Before,
          Sending, Receiving, Pages
  <2>6. ModemTold'
    BY <1>1, <2>1, <2>2, <2>3 DEF CallInv, ModemTold, Before, Sending, Pages
  <2>7. Counted'
    BY <1>1, <2>2, <2>3 DEF CallInv, Counted, CountedIsConfirmed, Sending, Ending
  <2>8. FilesFilled' /\ KeepsPages /\ PostPageTrue
    BY <1>1, <2>2, <2>3 DEF CallInv, FilesFilled, KeepsPages, PostPageTrue
  <2> QED BY <2>5, <2>6, <2>7, <2>8 DEF StepGood, CallInv
<1>3. CASE HangsUp /\ s' = AfterPage(s)
  <2>1. ModemTypes' /\ heard' # -1
    BY <1>3, TypesGiven, Outcomes
  <2>2. Agree(s, s, {"err", "good", "confirmed"})
    BY TypesGiven DEF Agree
  <2> QED BY <1>1, <1>3, <2>1, <2>2, TypesGiven, AfterPageGood
<1> QED BY <1>2, <1>3 DEF DataEnds

LEMMA Judged ==
  ASSUME CallInv
  PROVE  /\ Agree(Confirmed(s), s, {"err", "good", "confirmed"}) /\ Confirmed(s).err = s.err
         /\ Confirmed(s).good = TRUE /\ Confirmed(s).confirmed = s.confirmed \cup {s.cur}
         /\ Agree(Refused(s), s, {"err", "good", "confirmed"}) /\ Refused(s).err = s.err
         /\ Refused(s).good = FALSE /\ Refused(s).confirmed = s.confirmed
  BY TypesGiven DEF Confirmed, Refused, Agree, Fields

LEMMA PageEndGood ==
  ASSUME CallInv, s.pc \in {"data", "postpage"}, told' = told, Succeeds \/ Fails \/ HangsUp,
         s' = AfterPage(Confirmed(s)) \/ s' = AfterPage(Refused(s))
  PROVE  StepGood
<1>1. ModemTypes' /\ (gone' = gone \/ heard' # -1)
  <2>1. ModemTypes' /\ (Succeeds => ~gone /\ ~gone') /\ (Fails => gone' = gone) /\ (HangsUp => heard' # -1)
    BY TypesGiven, Outcomes
  <2>2. CASE Succeeds
    BY <2>1, <2>2, TypesGiven DEF Succeeds
  <2> QED BY <2>1, <2>2
<1>2. CASE s' = AfterPage(Confirmed(s))
  <2> DEFINE r == Confirmed(s)
  <2>1. /\ Agree(r, s, {"err", "good", "confirmed"}) /\ r.err = s.err
        /\ r.good = TRUE /\ r.confirmed = s.confirmed \cup {s.cur}
    BY Judged
  <2>2. s' = AfterPage(r)
    BY <1>2
  <2> HIDE DEF r
  <2>3. r.err \in 0..4 /\ r.good \in BOOLEAN /\ s.cur \in r.confirmed
    BY <2>1, TypesGiven
  <2> QED BY <1>1, <2>1, <2>2, <2>3, AfterPageGood
<1>3. CASE s' = AfterPage(Refused(s))
  <2> DEFINE r == Refused(s)
  <2>1. /\ Agree(r, s, {"err", "good", "confirmed"}) /\ r.err = s.err
        /\ r.good = FALSE /\ r.confirmed = s.confirmed
    BY Judged
  <2>2. s' = AfterPage(r)
    BY <1>3
  <2> HIDE DEF r
  <2>3. r.err \in 0..4 /\ r.good \in BOOLEAN /\ ~r.good
    BY <2>1, TypesGiven
  <2> QED BY <1>1, <2>1, <2>2, <2>3, AfterPageGood
<1> QED BY <1>2, <1>3

LEMMA EndsPageGood ==
  ASSUME CallInv, EndsPage \/ DataAndPageEnd
  PROVE  StepGood
<1>1. s.pc \in {"data", "postpage"} /\ told' = told
  BY DEF EndsPage, DataAndPageEnd, At
<1>2. CASE (Succeeds \/ Fails \/ HangsUp) /\ (s' = AfterPage(Confirmed(s)) \/ s' = AfterPage(Refused(s)))
  BY <1>1, <1>2, PageEndGood
<1>3. CASE Fails /\ s' = AfterPage([s EXCEPT !.err = 3])
  <2> DEFINE r == [s EXCEPT !.err = 3]
  <2>1. Agree(r, s, {"err", "good", "confirmed"}) /\ r.err = 3 /\ r.good = s.good /\ r.confirmed = s.confirmed
    BY TypesGiven DEF Agree, Fields
  <2>2. s' = AfterPage(r) /\ ModemTypes' /\ gone' = gone
    BY <1>3, TypesGiven, Outcomes
  <2> HIDE DEF r
  <2> QED BY <1>1, <2>1, <2>2, TypesGiven, AfterPageGood
<1>4. CASE HangsUp /\ s' = AfterPage(s)
  <2>1. ModemTypes' /\ heard' # -1
    BY <1>4, TypesGiven, Outcomes
  <2>2. Agree(s, s, {"err", "good", "confirmed"})
    BY TypesGiven DEF Agree
  <2> QED BY <1>1, <1>4, <2>1, <2>2, TypesGiven, AfterPageGood
<1> QED BY <1>2, <1>3, <1>4 DEF EndsPage, DataAndPageEnd

----------------------------------------------------------------------------
(* Receiving *)

Keeps(fs, gs) ==
  \A n \in 1..Len(fs) : fs[n].lines # "none" => n \in 1..Len(gs) /\ gs[n].lines = fs[n].lines

LEMMA KeepsFiles ==
  ASSUME CallInv, s'.files \in Seq(FileOf), Keeps(s.files, s'.files)
  PROVE  KeepsPages
<1>1. DOMAIN s.files = 1..Len(s.files) /\ DOMAIN s'.files = 1..Len(s'.files)
  BY TypesGiven
<1> QED BY <1>1 DEF KeepsPages, Keeps

(* The file for the next page is not needed, or gets a page. *)
LEMMA LastFile ==
  ASSUME NEW fs \in Seq(FileOf), fs # <<>>, fs[Len(fs)].lines = "none", Filled(Removed(fs))
  PROVE  /\ Removed(fs) \in Seq(FileOf) /\ Keeps(fs, Removed(fs))
         /\ \A f \in FileOf : f.lines # "none" =>
              LET gs == Append(Removed(fs), f)
              IN gs \in Seq(FileOf) /\ Filled(gs) /\ Keeps(fs, gs)
<1> DEFINE rs == Removed(fs)
<1>1. /\ rs \in Seq(FileOf) /\ Len(rs) = Len(fs) - 1 /\ Len(fs) \in Nat \ {0}
      /\ \A n \in 1..(Len(fs) - 1) : rs[n] = fs[n]
  BY FilesRemoved
<1>2. Filled(rs)
  OBVIOUS
<1> HIDE DEF rs
<1>3. ASSUME NEW n \in 1..Len(fs), fs[n].lines # "none" PROVE n \in 1..Len(rs) /\ rs[n] = fs[n]
  <2>1. n # Len(fs)
    BY <1>3
  <2>2. n \in 1..(Len(fs) - 1)
    BY <1>1, <2>1
  <2> QED BY <1>1, <2>2
<1>4. Keeps(fs, rs)
  BY <1>3 DEF Keeps
<1>5. ASSUME NEW f \in FileOf, f.lines # "none"
      PROVE  LET gs == Append(rs, f) IN gs \in Seq(FileOf) /\ Filled(gs) /\ Keeps(fs, gs)
  <2> DEFINE gs == Append(rs, f)
  <2>1. /\ gs \in Seq(FileOf) /\ Len(gs) = Len(rs) + 1 /\ gs[Len(rs) + 1] = f
        /\ \A n \in 1..Len(rs) : gs[n] = rs[n]
    BY <1>1, AppendProperties
  <2> HIDE DEF gs
  <2>2. Len(rs) \in Nat
    BY <1>1
  <2>3. Filled(gs)
    <3>1. ASSUME NEW n \in 1..Len(gs) PROVE gs[n].lines # "none"
      <4>1. n \in 1..Len(rs) \/ n = Len(rs) + 1
        BY <2>1, <2>2
      <4> QED BY <1>2, <1>5, <2>1, <4>1 DEF Filled
    <3> QED BY <3>1 DEF Filled
  <2>4. Keeps(fs, gs)
    <3>1. ASSUME NEW n \in 1..Len(fs), fs[n].lines # "none"
          PROVE  n \in 1..Len(gs) /\ gs[n].lines = fs[n].lines
      <4>1. n \in 1..Len(rs) /\ rs[n] = fs[n]
        BY <1>3, <3>1
      <4>2. n \in 1..Len(gs)
        BY <2>1, <2>2, <4>1
      <4> QED BY <2>1, <4>1, <4>2
    <3> QED BY <3>1 DEF Keeps
  <2> QED BY <2>1, <2>3, <2>4 DEF gs
<1> QED BY <1>1, <1>4, <1>5 DEF rs

LEMMA NothingSentYet ==
  ASSUME CallInv, s.pc \in Receiving
  PROVE  s.doc = <<>> /\ s.sent = Pages
<1>1. s.doc = <<>> /\ Len(s.doc) = 0
  BY EmptySeq DEF CallInv, Fresh
<1>2. s.sent \subseteq Pages
  BY DEF CallInv, CallTypes, CallTypeOK
<1>3. 1..0 = {}
  OBVIOUS
<1>4. Pages = {}
  BY <1>1, <1>3, TypesGiven
<1> QED BY <1>1, <1>2, <1>4

(* The reception goes on. *)
LEMMA Receives ==
  ASSUME CallInv, s.pc \in Receiving, ModemTypes', told' = told,
         Agree(s', s, {"pc", "err", "hsc", "good", "files"}), s'.pc \in Receiving,
         s'.err \in 0..4, s'.hsc \in Hangups \cup {-1}, s.hsc >= 0 => s'.hsc >= 0, s.err # 0 => s'.err # 0,
         s'.good \in BOOLEAN, s'.files \in Seq(FileOf), Keeps(s.files, s'.files), FilesFilled'
  PROVE  StepGood
<1>1. /\ DOMAIN s' = Fields /\ s'.doc = s.doc /\ s'.calling = s.calling /\ s'.dp = s.dp /\ s'.done = s.done
      /\ s'.pagetry = s.pagetry /\ s'.sent = s.sent /\ s'.confirmed = s.confirmed /\ s'.onAir = s.onAir
      /\ s'.cur = s.cur /\ s'.vr = s.vr
  BY DEF Agree, Fields
<1>2. CallTypeOK'
  BY <1>1, TypesGiven DEF CallInv, CallTypes, CallTypeOK, ModemTypes, Pages
<1>3. CallTypes'
  BY <1>1, <1>2 DEF CallInv, CallTypes, ModemTypes
<1>4. Fresh' /\ PageAtHand'
  BY <1>1, NothingSentYet DEF Fresh, PageAtHand, Before, Sending, Receiving
<1>5. ModemTold'
  BY <1>1 DEF CallInv, ModemTold, Before, Sending, Receiving, Pages
<1>6. Counted'
  BY <1>1 DEF CallInv, Counted, CountedIsConfirmed, Sending, Receiving, Ending
<1>7. KeepsPages /\ PostPageTrue
  BY KeepsFiles DEF PostPageTrue, Receiving
<1> QED BY <1>3, <1>4, <1>5, <1>6, <1>7 DEF StepGood, CallInv

(* The reception ends. *)
LEMMA Stops ==
  ASSUME CallInv, s.pc \in Receiving, ModemTypes', told' = told, NEW r, s' = Over(r),
         Agree(r, s, {"err", "hsc", "files"}), r.err \in 0..4, r.hsc \in Hangups \cup {-1},
         s.hsc >= 0 => r.hsc >= 0, s.err # 0 => r.err # 0,
         r.files \in Seq(FileOf), Keeps(s.files, r.files), Filled(r.files)
  PROVE  StepGood
<1>1. Agree(s', r, {"pc", "method"}) /\ s'.pc \in Ending
  BY Overs DEF Agree
<1>2. Agree(s', s, {"pc", "method", "err", "hsc", "files"}) /\ s'.err = r.err /\ s'.hsc = r.hsc /\ s'.files = r.files
  BY <1>1 DEF Agree, Fields
<1>3. s'.vr = s.vr /\ s'.good = s.good /\ s'.done = s.done /\ s'.cur = s.cur
  BY <1>2 DEF Agree, Fields
<1>4. KeepsPages
  BY <1>2, KeepsFiles
<1>5. Agree(s', s, {"pc", "method", "err", "hsc", "good", "done", "files", "cur", "vr", "changed", "ppm", "class"})
  BY <1>2 DEF Agree
<1> QED BY <1>1, <1>2, <1>3, <1>4, <1>5, Leaves, NothingSentYet, TypesGiven

(* Files that become a page longer, or stay, keep what they have. *)
LEMMA KeptByClosing ==
  ASSUME NEW fs \in Seq(FileOf), Filled(fs)
  PROVE  /\ Closed(fs) \in Seq(FileOf) /\ Filled(Closed(fs)) /\ Keeps(fs, Closed(fs))
         /\ Keeps(fs, fs)
<1>1. /\ Closed(fs) \in Seq(FileOf) /\ Len(Closed(fs)) = Len(fs)
      /\ \A n \in 1..Len(fs) : Closed(fs)[n].lines = fs[n].lines
  BY FilesClosed
<1> QED BY <1>1 DEF Filled, Keeps

LEMMA KeptByOpening ==
  ASSUME NEW fs \in Seq(FileOf), Filled(fs)
  PROVE  LET gs == Opened(fs)
         IN /\ gs \in Seq(FileOf) /\ Keeps(fs, gs)
            /\ gs # <<>> /\ gs[Len(gs)].lines = "none" /\ Filled(Removed(gs))
<1> DEFINE gs == Opened(fs)
<1>1. /\ gs \in Seq(FileOf) /\ Len(gs) = Len(fs) + 1 /\ gs[Len(fs) + 1].lines = "none"
      /\ \A n \in 1..Len(fs) : gs[n].lines = fs[n].lines
      /\ Removed(gs) = Closed(fs)
  BY FilesOpened
<1>2. Filled(Closed(fs))
  BY KeptByClosing
<1> HIDE DEF gs
<1>3. Len(fs) \in Nat
  OBVIOUS
<1>4. gs # <<>>
  BY <1>1, <1>3, EmptySeq
<1>5. Keeps(fs, gs)
  BY <1>1, <1>3 DEF Keeps
<1> QED BY <1>1, <1>2, <1>4, <1>5 DEF gs

LEMMA OpensFileGood ==
  ASSUME CallInv, OpensFile
  PROVE  StepGood
<1>1. s.pc = "wrpage" /\ UNCHANGED <<told, heard, gone>> /\ s.pc \in Receiving
  BY DEF OpensFile, At, Receiving
<1>2. Filled(s.files) /\ s.files \in Seq(FileOf)
  BY <1>1, TypesGiven DEF CallInv, FilesFilled
<1>3. CASE s' = [s EXCEPT !.pc = "receive", !.files = Opened(@)] /\ UNCHANGED bad
  <2> DEFINE gs == Opened(s.files)
  <2>1. /\ gs \in Seq(FileOf) /\ Keeps(s.files, gs)
        /\ gs # <<>> /\ gs[Len(gs)].lines = "none" /\ Filled(Removed(gs))
    BY <1>2, KeptByOpening
  <2>2. s' = [s EXCEPT !.pc = "receive", !.files = gs]
    BY <1>3
  <2> HIDE DEF gs
  <2>3. Agree(s', s, {"pc", "files"}) /\ s'.pc = "receive" /\ s'.files = gs
    BY <2>2, TypesGiven DEF Agree, Fields
  <2>4. s'.err = s.err /\ s'.hsc = s.hsc /\ s'.good = s.good
        /\ Agree(s', s, {"pc", "err", "hsc", "good", "files"})
    BY <2>3 DEF Agree, Fields
  <2>5. ModemTypes' /\ told' = told
    BY <1>1, <1>3, TypesGiven DEF ModemTypes
  <2>6. FilesFilled' /\ s'.pc \in Receiving
    BY <2>1, <2>3 DEF FilesFilled, Receiving
  <2> QED BY <1>1, <2>1, <2>3, <2>4, <2>5, <2>6, TypesGiven, Receives
<1>4. CASE bad < MaxBad /\ bad' = bad + 1 /\ s' = Over([s EXCEPT !.err = 2, !.files = Closed(@)])
  <2> DEFINE gs == Closed(s.files)
             r == [s EXCEPT !.err = 2, !.files = gs]
  <2>1. gs \in Seq(FileOf) /\ Keeps(s.files, gs) /\ Filled(gs)
    BY <1>2, KeptByClosing
  <2>2. s' = Over(r)
    BY <1>4
  <2> HIDE DEF gs
  <2>3. Agree(r, s, {"err", "hsc", "files"}) /\ r.err = 2 /\ r.files = gs /\ r.hsc = s.hsc
    BY TypesGiven DEF Agree, Fields
  <2> HIDE DEF r
  <2>4. ModemTypes' /\ told' = told
    <3>1. bad' \in 0..MaxBad
      BY <1>4, TypesGiven, CallAssumption DEF ModemTypes
    <3> QED BY <1>1, <3>1, TypesGiven DEF ModemTypes
  <2> QED BY <1>1, <2>1, <2>2, <2>3, <2>4, TypesGiven, Stops
<1> QED BY <1>3, <1>4 DEF OpensFile

LEMMA DataComesGood ==
  ASSUME CallInv, DataComes
  PROVE  StepGood
<1>1. s.pc = "receive" /\ told' = told /\ Succeeds /\ s.pc \in Receiving
  BY DEF DataComes, At, Receiving
<1>2. PICK lines \in {"all", "some"} :
        s' = [s EXCEPT !.pc = "endpage", !.good = lines = "all",
                       !.files = Append(Removed(@), [lines |-> lines, closed |-> FALSE])]
  BY DEF DataComes
<1> DEFINE f == [lines |-> lines, closed |-> FALSE]
           gs == Append(Removed(s.files), f)
           whole == lines = "all"
<1>3. f \in FileOf /\ f.lines # "none" /\ whole \in BOOLEAN
  BY DEF FileOf
<1>4. s.files # <<>> /\ s.files[Len(s.files)].lines = "none" /\ Filled(Removed(s.files))
  BY <1>1 DEF CallInv, FilesFilled
<1> HIDE DEF f
<1>5. gs \in Seq(FileOf) /\ Filled(gs) /\ Keeps(s.files, gs)
  BY <1>3, <1>4, LastFile, TypesGiven
<1>6. s' = [s EXCEPT !.pc = "endpage", !.good = whole, !.files = gs]
  BY <1>2 DEF f
<1> HIDE DEF gs, whole
<1>7. Agree(s', s, {"pc", "good", "files"}) /\ s'.pc = "endpage" /\ s'.files = gs /\ s'.good = whole
  BY <1>6, TypesGiven DEF Agree, Fields
<1>8. s'.err = s.err /\ s'.hsc = s.hsc /\ Agree(s', s, {"pc", "err", "hsc", "good", "files"})
  BY <1>7 DEF Agree, Fields
<1>9. ModemTypes'
  BY <1>1, TypesGiven, Outcomes
<1>10. FilesFilled' /\ s'.pc \in Receiving
  BY <1>5, <1>7 DEF FilesFilled, Receiving
<1> QED BY <1>1, <1>3, <1>5, <1>7, <1>8, <1>9, <1>10, TypesGiven, Receives

(* The responses that end a reception, with what was written of the files. *)
LEMMA HeardAtTheEnd ==
  ASSUME CallInv, Succeeds \/ HangsUp, NEW q, Agree(q, s, {"files"})
  PROVE  /\ Agree(gethsc(q), s, {"err", "hsc", "files"}) /\ gethsc(q).files = q.files
         /\ gethsc(q).err \in 0..4 /\ gethsc(q).hsc \in Hangups \cup {-1}
         /\ (s.hsc >= 0 => gethsc(q).hsc >= 0) /\ (s.err # 0 => gethsc(q).err # 0) /\ ModemTypes'
<1>1. ModemTypes' /\ heard' \in Hangups \cup {-1}
  <2>1. ModemTypes'
    BY TypesGiven, Outcomes
  <2> QED BY <2>1 DEF ModemTypes
<1>2. DOMAIN q = Fields /\ q.err = s.err /\ q.hsc = s.hsc /\ q.err \in 0..4 /\ q.hsc \in Hangups \cup {-1}
  BY TypesGiven DEF Agree, Fields
<1>3. /\ Agree(gethsc(q), q, {"hsc", "err"})
      /\ gethsc(q).err \in 0..4 /\ gethsc(q).hsc \in Hangups \cup {-1}
      /\ (gethsc(q).err = 0 => q.err = 0) /\ (q.hsc >= 0 => gethsc(q).hsc >= 0)
  BY <1>1, <1>2, Hung
<1>4. Agree(gethsc(q), s, {"err", "hsc", "files"}) /\ gethsc(q).files = q.files
  BY <1>3 DEF Agree, Fields
<1> QED BY <1>1, <1>2, <1>3, <1>4

LEMMA NoPageGood ==
  ASSUME CallInv, NoMorePages \/ CannotReceive
  PROVE  StepGood
<1>1. s.pc = "receive" /\ told' = told /\ s.pc \in Receiving
  BY DEF NoMorePages, CannotReceive, At, Receiving
<1> DEFINE gs == Removed(s.files)
           q == NoPage(s)
<1>2. gs \in Seq(FileOf) /\ Filled(gs) /\ Keeps(s.files, gs)
  <2>1. s.files # <<>> /\ s.files[Len(s.files)].lines = "none" /\ Filled(Removed(s.files))
    BY <1>1 DEF CallInv, FilesFilled
  <2> QED BY <2>1, LastFile, TypesGiven
<1>3. Agree(q, s, {"files"}) /\ q.files = gs
  BY TypesGiven DEF NoPage, Agree, Fields
<1> HIDE DEF gs, q
<1>4. CASE (Succeeds \/ HangsUp) /\ s' = Over(gethsc(q))
  <2> DEFINE r == gethsc(q)
  <2>1. /\ Agree(r, s, {"err", "hsc", "files"}) /\ r.files = gs /\ r.err \in 0..4 /\ r.hsc \in Hangups \cup {-1}
        /\ (s.hsc >= 0 => r.hsc >= 0) /\ (s.err # 0 => r.err # 0) /\ ModemTypes'
    BY <1>3, <1>4, HeardAtTheEnd
  <2>2. s' = Over(r)
    BY <1>4
  <2> HIDE DEF r
  <2> QED BY <1>1, <1>2, <2>1, <2>2, Stops
<1>5. CASE Fails /\ s' = Over([q EXCEPT !.err = 3])
  <2> DEFINE r == [q EXCEPT !.err = 3]
  <2>1. Agree(r, s, {"err", "hsc", "files"}) /\ r.files = gs /\ r.err = 3 /\ r.hsc = s.hsc
    BY <1>3 DEF Agree, Fields
  <2>2. s' = Over(r) /\ ModemTypes'
    BY <1>5, TypesGiven, Outcomes
  <2> HIDE DEF r
  <2> QED BY <1>1, <1>2, <2>1, <2>2, TypesGiven, Stops
<1> QED BY <1>4, <1>5 DEF NoMorePages, CannotReceive, q

LEMMA PageEndsGood ==
  ASSUME CallInv, PageEnds
  PROVE  StepGood
<1>1. s.pc = "endpage" /\ told' = told /\ s.pc \in Receiving
  BY DEF PageEnds, At, Receiving
<1>2. Filled(s.files) /\ s.files \in Seq(FileOf)
  BY <1>1, TypesGiven DEF CallInv, FilesFilled
<1> DEFINE gs == Closed(s.files)
<1>3. gs \in Seq(FileOf) /\ Filled(gs) /\ Keeps(s.files, gs) /\ Keeps(s.files, s.files)
      /\ Removed(Opened(s.files)) = gs
  BY <1>2, KeptByClosing, FilesOpened
<1> HIDE DEF gs
<1>4. CASE Succeeds /\ s' = [s EXCEPT !.pc = IF s.good THEN "wrpage" ELSE "refuse"]
  <2> DEFINE place == IF s.good THEN "wrpage" ELSE "refuse"
  <2>1. s' = [s EXCEPT !.pc = place] /\ place \in {"wrpage", "refuse"}
    BY <1>4
  <2> HIDE DEF place
  <2>2. Agree(s', s, {"pc"}) /\ s'.pc \in {"wrpage", "refuse"} /\ s'.files = s.files
    BY <2>1, TypesGiven DEF Agree, Fields
  <2>3. s'.err = s.err /\ s'.hsc = s.hsc /\ s'.good = s.good
        /\ Agree(s', s, {"pc", "err", "hsc", "good", "files"})
    BY <2>2 DEF Agree, Fields
  <2>4. ModemTypes'
    BY <1>4, TypesGiven, Outcomes
  <2>5. FilesFilled' /\ s'.pc \in Receiving
    BY <1>2, <2>2 DEF FilesFilled, Receiving
  <2> QED BY <1>1, <1>3, <2>2, <2>3, <2>4, <2>5, TypesGiven, Receives
<1>5. ASSUME NEW r, s' = CutOff(r), Agree(r, s, {"err", "hsc", "files"}), r.files = s.files,
             r.err \in 0..4, r.hsc \in Hangups \cup {-1},
             s.hsc >= 0 => r.hsc >= 0, s.err # 0 => r.err # 0, ModemTypes'
      PROVE  StepGood
  <2> DEFINE q == [r EXCEPT !.files = gs]
  <2>1. s' = Over(q)
    BY <1>3, <1>5 DEF CutOff
  <2>2. Agree(q, s, {"err", "hsc", "files"}) /\ q.files = gs /\ q.err = r.err /\ q.hsc = r.hsc
    BY <1>5 DEF Agree, Fields
  <2> HIDE DEF q
  <2> QED BY <1>1, <1>3, <1>5, <2>1, <2>2, Stops
<1>6. CASE Fails /\ s' = CutOff([s EXCEPT !.err = 3])
  <2> DEFINE r == [s EXCEPT !.err = 3]
  <2>1. Agree(r, s, {"err", "hsc", "files"}) /\ r.files = s.files /\ r.err = 3 /\ r.hsc = s.hsc
    BY TypesGiven DEF Agree, Fields
  <2>2. s' = CutOff(r) /\ ModemTypes'
    BY <1>6, TypesGiven, Outcomes
  <2> HIDE DEF r
  <2> QED BY <1>5, <2>1, <2>2, TypesGiven
<1>7. CASE HangsUp /\ s' = CutOff(gethsc(s))
  <2> DEFINE r == gethsc(s)
  <2>1. Agree(s, s, {"files"})
    BY TypesGiven DEF Agree
  <2>2. /\ Agree(r, s, {"err", "hsc", "files"}) /\ r.files = s.files /\ r.err \in 0..4
        /\ r.hsc \in Hangups \cup {-1}
        /\ (s.hsc >= 0 => r.hsc >= 0) /\ (s.err # 0 => r.err # 0) /\ ModemTypes'
    BY <1>7, <2>1, HeardAtTheEnd
  <2>3. s' = CutOff(r)
    BY <1>7
  <2> HIDE DEF r
  <2> QED BY <1>5, <2>2, <2>3
<1> QED BY <1>4, <1>6, <1>7 DEF PageEnds

LEMMA RefusesPageGood ==
  ASSUME CallInv, RefusesPage
  PROVE  StepGood
<1>1. s.pc = "refuse" /\ told' = told /\ s.pc \in Receiving
  BY DEF RefusesPage, At, Receiving
<1>2. Filled(s.files) /\ s.files \in Seq(FileOf)
  BY <1>1, TypesGiven DEF CallInv, FilesFilled
<1>3. Keeps(s.files, s.files)
  BY <1>2, KeptByClosing
<1>4. ASSUME NEW r, s' = [r EXCEPT !.pc = "wrpage"], Agree(r, s, {"err", "hsc", "files"}), r.files = s.files,
             r.err \in 0..4, r.hsc \in Hangups \cup {-1},
             s.hsc >= 0 => r.hsc >= 0, s.err # 0 => r.err # 0, ModemTypes'
      PROVE  StepGood
  <2>1. Agree(s', s, {"pc", "err", "hsc", "good", "files"}) /\ s'.pc = "wrpage" /\ s'.files = s.files
        /\ s'.err = r.err /\ s'.hsc = r.hsc /\ s'.good = s.good
    BY <1>4 DEF Agree, Fields
  <2>2. FilesFilled' /\ s'.pc \in Receiving
    BY <1>2, <2>1 DEF FilesFilled, Receiving
  <2> QED BY <1>1, <1>2, <1>3, <1>4, <2>1, <2>2, TypesGiven, Receives
<1>5. CASE (Succeeds \/ Fails) /\ s' = [s EXCEPT !.pc = "wrpage"]
  <2>1. Agree(s, s, {"err", "hsc", "files"})
    BY TypesGiven DEF Agree
  <2>2. ModemTypes'
    BY <1>5, TypesGiven, Outcomes
  <2> QED BY <1>4, <1>5, <2>1, <2>2, TypesGiven
<1>6. CASE HangsUp /\ s' = IF gethsc(s).err # 0 THEN Over(gethsc(s)) ELSE [gethsc(s) EXCEPT !.pc = "wrpage"]
  <2> DEFINE r == gethsc(s)
  <2>1. Agree(s, s, {"files"})
    BY TypesGiven DEF Agree
  <2>2. /\ Agree(r, s, {"err", "hsc", "files"}) /\ r.files = s.files /\ r.err \in 0..4
        /\ r.hsc \in Hangups \cup {-1}
        /\ (s.hsc >= 0 => r.hsc >= 0) /\ (s.err # 0 => r.err # 0) /\ ModemTypes'
    BY <1>6, <2>1, HeardAtTheEnd
  <2>3. s' = Over(r) \/ s' = [r EXCEPT !.pc = "wrpage"]
    BY <1>6
  <2> HIDE DEF r
  <2> QED BY <1>1, <1>2, <1>3, <1>4, <2>2, <2>3, Stops
<1> QED BY <1>5, <1>6 DEF RefusesPage

----------------------------------------------------------------------------
(* Before and after the session *)

(* There will be no session. *)
LEMMA CallGivesUp ==
  ASSUME CallInv, s.pc \in Before, ModemTypes', told' \in {0, 1, Unknown}, NEW r, s' = CleanUp(r),
         Agree(r, s, {"err", "hsc"}), r.err \in 1..4, r.hsc \in Hangups \cup {-1}
  PROVE  StepGood
<1>1. s.err = 0 /\ s.hsc = -1 /\ s.files = <<>>
  BY DEF CallInv, Fresh
<1>2. Agree(s', r, {"pc", "method"}) /\ s'.pc \in Ending
  BY Overs DEF Agree, Ending
<1>3. Agree(s', s, {"pc", "method", "err", "hsc"}) /\ s'.err = r.err /\ s'.hsc = r.hsc
  BY <1>2 DEF Agree, Fields
<1>4. s'.files = s.files /\ s'.cur = s.cur /\ s'.vr = s.vr /\ s'.good = s.good /\ s'.done = s.done
  BY <1>3 DEF Agree, Fields
<1>5. Filled(s'.files) /\ KeepsPages
  BY <1>1, <1>4, EmptySeq DEF Filled, KeepsPages
<1>6. Agree(s', s, {"pc", "method", "err", "hsc", "good", "done", "files", "cur", "vr", "changed", "ppm", "class"})
  BY <1>3 DEF Agree
<1>7. s'.err \in 0..4 /\ s'.err # 0
  BY <1>3
<1>8. ~(s.hsc >= 0)
  BY <1>1
<1> QED BY <1>1, <1>2, <1>3, <1>4, <1>5, <1>6, <1>7, <1>8, Leaves, TypesGiven

LEMMA GivesUpWith ==
  ASSUME CallInv, s.pc \in Before, ModemTypes', told' \in {0, 1, Unknown},
         NEW e \in 1..4, s' = CleanUp([s EXCEPT !.err = e])
  PROVE  StepGood
<1> DEFINE r == [s EXCEPT !.err = e]
<1>1. Agree(r, s, {"err", "hsc"}) /\ r.err = e /\ r.hsc = s.hsc
  BY TypesGiven DEF Agree, Fields
<1>2. s' = CleanUp(r)
  OBVIOUS
<1> HIDE DEF r
<1> QED BY <1>1, <1>2, TypesGiven, CallGivesUp

LEMMA SyncsGood ==
  ASSUME CallInv, Syncs
  PROVE  StepGood
<1>1. s.pc = "sync" /\ s.pc \in Before /\ told' = told
  BY DEF Syncs, At, Before
<1>2. ~gone => told \in {s.vr, Unknown}
  BY <1>1 DEF CallInv, ModemTold
<1>3. CASE Succeeds /\ s' = [s EXCEPT !.pc = "setup0"]
  <2>1. Agree(s', s, {"pc", "method", "class", "second", "vr"}) /\ s'.vr = s.vr /\ s'.pc \in Before
    BY <1>3, TypesGiven DEF Agree, Fields, Before
  <2>2. ModemTypes' /\ (~gone' => ~gone)
    BY <1>3, TypesGiven, Outcomes
  <2> QED BY <1>1, <1>2, <2>1, <2>2, TypesGiven, GoesOn
<1>4. CASE Fails /\ s' = [s EXCEPT !.method = @ + 1]
  <2>1. Agree(s', s, {"pc", "method", "class", "second", "vr"}) /\ s'.vr = s.vr /\ s'.pc = s.pc
    BY <1>4, TypesGiven DEF Agree, Fields
  <2>2. ModemTypes' /\ gone' = gone
    BY <1>4, TypesGiven, Outcomes
  <2> QED BY <1>1, <1>2, <2>1, <2>2, TypesGiven, GoesOn
<1>5. CASE Fails /\ s' = CleanUp([s EXCEPT !.err = 4])
  <2>1. ModemTypes'
    BY <1>5, TypesGiven, Outcomes
  <2> QED BY <1>1, <1>5, <2>1, TypesGiven, GivesUpWith
<1> QED BY <1>3, <1>4, <1>5 DEF Syncs

LEMMA SetsUpGood ==
  ASSUME CallInv, SetsUp
  PROVE  StepGood
<1>1. s.pc \in Before /\ told' = told
  BY DEF SetsUp, Before
<1>2. ~gone => told \in {s.vr, Unknown}
  BY <1>1 DEF CallInv, ModemTold
<1> DEFINE place == IF s.pc = "setup0" THEN "class" ELSE IF s.calling THEN "dial" ELSE "answer"
<1>3. CASE Succeeds /\ s' = [s EXCEPT !.pc = place]
  <2>1. place \in Before
    BY DEF Before
  <2> HIDE DEF place
  <2>2. Agree(s', s, {"pc", "method", "class", "second", "vr"}) /\ s'.vr = s.vr /\ s'.pc \in Before
    BY <1>3, <2>1, TypesGiven DEF Agree, Fields
  <2>3. ModemTypes' /\ (~gone' => ~gone)
    BY <1>3, TypesGiven, Outcomes
  <2> QED BY <1>1, <1>2, <2>2, <2>3, TypesGiven, GoesOn
<1>4. CASE Fails /\ s' = CleanUp([s EXCEPT !.err = 3])
  <2>1. ModemTypes'
    BY <1>4, TypesGiven, Outcomes
  <2> QED BY <1>1, <1>4, <2>1, TypesGiven, GivesUpWith
<1> QED BY <1>3, <1>4 DEF SetsUp

LEMMA SetsClassGood ==
  ASSUME CallInv, SetsClass
  PROVE  StepGood
<1>1. s.pc \in Before /\ told' = told
  BY DEF SetsClass, At, Before
<1>2. ~gone => told \in {s.vr, Unknown}
  BY <1>1 DEF CallInv, ModemTold
<1>3. ASSUME Succeeds, NEW q, q = s \/ (\E c : q = [s EXCEPT !.class = c]), s' = [q EXCEPT !.pc = "caps"]
      PROVE  StepGood
  <2>1. Agree(q, s, {"class"})
    BY <1>3, TypesGiven DEF Agree, Fields
  <2>2. Agree(s', s, {"pc", "method", "class", "second", "vr"}) /\ s'.vr = s.vr /\ s'.pc \in Before
    BY <1>3, <2>1 DEF Agree, Fields, Before
  <2>3. ModemTypes' /\ (~gone' => ~gone)
    BY <1>3, TypesGiven, Outcomes
  <2> QED BY <1>1, <1>2, <2>2, <2>3, TypesGiven, GoesOn
<1>4. CASE Succeeds /\ s' = [s EXCEPT !.pc = "caps"]
  BY <1>3, <1>4
<1>5. CASE Succeeds /\ \E offers \in Offers \ {{}} : s' = [s EXCEPT !.pc = "caps", !.class = Chosen(offers)]
  <2>1. PICK offers : s' = [s EXCEPT !.pc = "caps", !.class = Chosen(offers)]
    BY <1>5
  <2> DEFINE c == Chosen(offers)
  <2>2. s' = [s EXCEPT !.pc = "caps", !.class = c]
    BY <2>1
  <2> HIDE DEF c
  <2>3. s' = [[s EXCEPT !.class = c] EXCEPT !.pc = "caps"]
    BY <2>2
  <2> QED BY <1>3, <1>5, <2>3
<1>6. CASE Fails /\ s' = CleanUp([s EXCEPT !.err = 3])
  <2>1. ModemTypes'
    BY <1>6, TypesGiven, Outcomes
  <2> QED BY <1>1, <1>6, <2>1, TypesGiven, GivesUpWith
<1> QED BY <1>4, <1>5, <1>6 DEF SetsClass

LEMMA SetsCapabilitiesGood ==
  ASSUME CallInv, SetsCapabilities
  PROVE  StepGood
<1>1. s.pc \in Before
  BY DEF SetsCapabilities, At, Before
<1>2. CASE Succeeds /\ \E vr \in IF s.class = 1 THEN {DefaultVR} ELSE {0, 1} :
                          s' = [s EXCEPT !.pc = "setup1", !.vr = vr] /\ told' = vr
  <2>1. PICK vr \in {0, 1} : s' = [s EXCEPT !.pc = "setup1", !.vr = vr] /\ told' = vr
    BY <1>2 DEF DefaultVR
  <2>2. Agree(s', s, {"pc", "method", "class", "second", "vr"}) /\ s'.vr = vr /\ s'.pc \in Before
    BY <2>1, TypesGiven DEF Agree, Fields, Before
  <2>3. ModemTypes'
    BY <1>2, TypesGiven, Outcomes
  <2> QED BY <1>1, <2>1, <2>2, <2>3, GoesOn
<1>3. CASE Fails /\ s' = CleanUp([s EXCEPT !.err = 3]) /\ UNCHANGED told
  <2>1. ModemTypes'
    BY <1>3, TypesGiven, Outcomes
  <2> QED BY <1>1, <1>3, <2>1, TypesGiven, GivesUpWith
<1>4. CASE Fails /\ \E vr \in {0, 1} :
                       s' = [s EXCEPT !.pc = "setup1", !.vr = vr] /\ told' = Unknown
  <2>1. PICK vr \in {0, 1} : s' = [s EXCEPT !.pc = "setup1", !.vr = vr] /\ told' = Unknown
    BY <1>4
  <2>2. Agree(s', s, {"pc", "method", "class", "second", "vr"}) /\ s'.vr = vr /\ s'.pc \in Before
    BY <2>1, TypesGiven DEF Agree, Fields, Before
  <2>3. ModemTypes'
    BY <1>4, TypesGiven, Outcomes
  <2> QED BY <1>1, <2>1, <2>2, <2>3, GoesOn
<1> QED BY <1>2, <1>3, <1>4 DEF SetsCapabilities

(* There is a connection, or there is none. *)
LEMMA Connects ==
  ASSUME CallInv, s.pc \in Before, told' = told, Succeeds, s' \in Session(s)
  PROVE  StepGood
<1>1. ModemTypes' /\ gone' = gone
  <2>1. ModemTypes' /\ ~gone /\ ~gone'
    BY TypesGiven, Outcomes
  <2> QED BY <2>1, TypesGiven DEF Succeeds
<1>2. Agree(s, s, {})
  BY TypesGiven DEF Agree
<1> QED BY <1>1, <1>2, CallBegins

LEMMA DialsGood ==
  ASSUME CallInv, Dials
  PROVE  StepGood
<1>1. s.pc \in Before /\ told' = told
  BY DEF Dials, At, Before
<1>2. ASSUME Succeeds \/ Fails, NEW e \in {1, 2}, s' = CleanUp([s EXCEPT !.err = e]) PROVE StepGood
  <2>1. ModemTypes'
    BY <1>2, TypesGiven, Outcomes
  <2>2. e \in 1..4
    BY <1>2
  <2> QED BY <1>1, <1>2, <2>1, <2>2, TypesGiven, GivesUpWith
<1>3. CASE HangsUp /\ s' \in LET r == gethsc([s EXCEPT !.hsc = -1])
                             IN IF r.err = 0 THEN Session([r EXCEPT !.hsc = -1]) ELSE {CleanUp(r)}
  <2> DEFINE q == [s EXCEPT !.hsc = -1]
             r == gethsc(q)
             b == [r EXCEPT !.hsc = -1]
  <2>1. Agree(q, s, {}) /\ q.err = 0 /\ q.hsc = -1
    BY <1>1, TypesGiven DEF CallInv, Fresh, Agree, Fields
  <2> HIDE DEF q
  <2>2. ModemTypes' /\ gone' /\ heard' \in Hangups \cup {-1}
    <3>1. ModemTypes' /\ gone'
      BY <1>3, TypesGiven, Outcomes
    <3> QED BY <3>1 DEF ModemTypes
  <2>3. Agree(r, q, {"hsc", "err"}) /\ r.err \in 0..4 /\ r.hsc \in Hangups \cup {-1}
    BY <2>1, <2>2, Hung DEF Agree
  <2>4. Agree(r, s, {"err", "hsc"})
    BY <2>1, <2>3 DEF Agree, Fields
  <2>5. s' \in IF r.err = 0 THEN Session(b) ELSE {CleanUp(r)}
    BY <1>3 DEF q
  <2> HIDE DEF r
  <2>6. CASE r.err = 0
    <3>1. s.err = 0 /\ s.hsc = -1
      BY <1>1 DEF CallInv, Fresh
    <3>2. Agree(b, s, {})
      BY <2>4, <2>6, <3>1 DEF Agree, Fields
    <3> HIDE DEF b
    <3> QED BY <1>1, <2>2, <2>5, <2>6, <3>2, CallBegins
  <2>7. CASE r.err # 0
    <3>1. r.err \in 1..4 /\ s' = CleanUp(r)
      BY <2>3, <2>5, <2>7
    <3> QED BY <1>1, <2>2, <2>3, <2>4, <3>1, TypesGiven, CallGivesUp
  <2> QED BY <2>6, <2>7
<1> QED BY <1>1, <1>2, <1>3, Connects DEF Dials

LEMMA AnswersGood ==
  ASSUME CallInv, Answers
  PROVE  StepGood
<1>1. s.pc \in Before /\ told' = told /\ s.pc = "answer"
  BY DEF Answers, At, Before
<1>2. ASSUME Succeeds \/ Fails \/ HangsUp, NEW e \in {2, 3}, s' = CleanUp([s EXCEPT !.err = e])
      PROVE  StepGood
  <2>1. ModemTypes'
    BY <1>2, TypesGiven, Outcomes
  <2>2. e \in 1..4
    BY <1>2
  <2> QED BY <1>1, <1>2, <2>1, <2>2, TypesGiven, GivesUpWith
<1>3. CASE Fails /\ s' = [s EXCEPT !.second = TRUE]
  <2>1. Agree(s', s, {"pc", "method", "class", "second", "vr"}) /\ s'.vr = s.vr /\ s'.pc = s.pc
    BY <1>3, TypesGiven DEF Agree, Fields
  <2>2. ModemTypes' /\ gone' = gone
    BY <1>3, TypesGiven, Outcomes
  <2>3. ~gone => told \in {s.vr, Unknown}
    BY <1>1 DEF CallInv, ModemTold
  <2> QED BY <1>1, <2>1, <2>2, <2>3, TypesGiven, GoesOn
<1> QED BY <1>1, <1>2, <1>3, Connects DEF Answers

(* The run of efax ends. *)
LEMMA RunsOut ==
  ASSUME CallInv, s.pc \in Ending, ModemTypes', told' = told,
         Agree(s', s, {"pc", "method"}), s'.pc \in Ending
  PROVE  StepGood
<1>1. s'.err = s.err /\ s'.hsc = s.hsc /\ s'.files = s.files /\ s'.cur = s.cur /\ s'.vr = s.vr
      /\ s'.good = s.good /\ s'.done = s.done /\ s'.class = s.class
  BY DEF Agree, Fields
<1>2. Filled(s'.files) /\ KeepsPages
  BY <1>1 DEF CallInv, FilesFilled, KeepsPages, Ending
<1>3. s'.err = 0 /\ s.calling /\ s'.class # 1 => s.sent = Pages \/ s'.hsc = 0
  BY <1>1 DEF CallInv, Counted
<1>4. Agree(s', s, {"pc", "method", "err", "hsc", "good", "done", "files", "cur", "vr", "changed", "ppm", "class"})
  BY DEF Agree
<1> QED BY <1>1, <1>2, <1>3, <1>4, Leaves, TypesGiven

LEMMA KillsGood ==
  ASSUME CallInv, Kills
  PROVE  StepGood
<1>1. s.pc \in Ending /\ s' = CleanUp(s) /\ told' = told /\ ModemTypes'
  BY TypesGiven, Outcomes DEF Kills, At, Ending
<1>2. Agree(s', s, {"pc", "method"}) /\ s'.pc \in Ending
  BY <1>1, TypesGiven, Overs DEF Ending
<1> QED BY <1>1, <1>2, RunsOut

LEMMA EndsSessionGood ==
  ASSUME CallInv, EndsSession
  PROVE  StepGood
<1>1. s.pc \in {"resync", "reset"} /\ s.pc \in Ending /\ heard' = -1 /\ gone' = gone /\ told' = told
  BY DEF EndsSession, Ending
<1>2. bad' \in 0..MaxBad
  BY TypesGiven, CallAssumption DEF EndsSession, ModemTypes
<1>3. ModemTypes'
  BY <1>1, <1>2, TypesGiven DEF ModemTypes
<1>4. s' = [s EXCEPT !.pc = "reset"] \/ s' = [s EXCEPT !.pc = "ended"] \/ s' = [s EXCEPT !.method = @ + 1]
  BY DEF EndsSession
<1>5. Agree(s', s, {"pc", "method"}) /\ s'.pc \in Ending
  BY <1>1, <1>4, TypesGiven DEF Agree, Fields, Ending
<1> QED BY <1>1, <1>3, <1>5, RunsOut

LEMMA Class1SessionGood ==
  ASSUME CallInv, Class1Session
  PROVE  StepGood
<1>1. s.pc = "class1" /\ told' = told /\ (Succeeds \/ Fails)
  BY DEF Class1Session, At
<1>2. PICK e \in {0, 2, 3} : s' = CleanUp([s EXCEPT !.err = e])
  BY DEF Class1Session
<1> DEFINE r == [s EXCEPT !.err = e]
<1>3. Agree(r, s, {"err"}) /\ r.err = e /\ s' = CleanUp(r)
  BY <1>2, TypesGiven DEF Agree, Fields
<1> HIDE DEF r
<1>4. Agree(s', r, {"pc", "method"}) /\ s'.pc \in Ending
  BY <1>3, Overs DEF Agree, Ending
<1>5. Agree(s', s, {"pc", "method", "err"}) /\ s'.err = e
  BY <1>3, <1>4 DEF Agree, Fields
<1>6. s'.hsc = s.hsc /\ s'.files = s.files /\ s'.cur = s.cur /\ s'.vr = s.vr
      /\ s'.good = s.good /\ s'.done = s.done /\ s'.class = s.class
      /\ Agree(s', s, {"pc", "method", "err", "hsc", "good", "done", "files", "cur", "vr", "changed", "ppm", "class"})
  BY <1>5 DEF Agree, Fields
<1>7. s.class = 1 /\ s.err = 0
  BY <1>1 DEF CallInv, Fresh
<1>8. Filled(s'.files) /\ KeepsPages
  BY <1>1, <1>6 DEF CallInv, FilesFilled, KeepsPages
<1>9. ModemTypes'
  BY <1>1, TypesGiven, Outcomes
<1> QED BY <1>1, <1>4, <1>5, <1>6, <1>7, <1>8, <1>9, Leaves, TypesGiven

----------------------------------------------------------------------------
(* The specification *)

LEMMA InitGood ==
  ASSUME InitCall
  PROVE  CallInv
<1>1. PICK doc \in Documents, calling \in Calls, class \in Options :
        s = [Start EXCEPT !.doc = doc, !.calling = calling, !.class = class]
  BY DEF InitCall
<1>2. told = 1 /\ heard = -1 /\ gone = FALSE /\ bad = 0
  BY DEF InitCall, DefaultVR
<1>3. /\ DOMAIN s = Fields /\ s.pc = "sync" /\ s.err = 0 /\ s.doc = doc /\ s.cur = 1 /\ s.dp = 0 /\ s.vr = 1
      /\ s.pagetry = 0 /\ s.good = FALSE /\ s.hsc = -1 /\ s.done = FALSE /\ s.files = <<>>
      /\ s.sent = {} /\ s.confirmed = {} /\ s.onAir = <<>>
  BY <1>1 DEF Start, Fields, DefaultVR
<1>4. doc \in Seq({0, 1}) /\ Len(doc) \in Nat
  BY CallAssumption
<1>5. CallTypeOK
  BY <1>2, <1>3, <1>4, CallAssumption DEF CallTypeOK, Pages, NTXRETRY
<1>6. CallTypes
  BY <1>2, <1>3, <1>4, <1>5, EmptySeq DEF CallTypes, Before
<1>7. Fresh /\ PageAtHand /\ ModemTold
  BY <1>2, <1>3 DEF Fresh, PageAtHand, ModemTold, Before, Sending, Receiving
<1>8. Counted
  BY <1>3 DEF Counted, CountedIsConfirmed, Sending, Ending
<1>9. FilesFilled
  BY <1>3, EmptySeq DEF FilesFilled, Filled
<1> QED BY <1>6, <1>7, <1>8, <1>9 DEF CallInv

LEMMA Stutters ==
  ASSUME CallInv, UNCHANGED callVars
  PROVE  StepGood
<1>1. s' = s /\ told' = told /\ heard' = heard /\ gone' = gone /\ bad' = bad
  BY DEF callVars
<1>2. CallInv'
  BY <1>1 DEF CallInv, CallTypes, CallTypeOK, Fresh, PageAtHand, ModemTold, Counted, CountedIsConfirmed,
       FilesFilled, Pages
<1>3. KeepsPages /\ PostPageTrue
  BY <1>1 DEF KeepsPages, PostPageTrue
<1> QED BY <1>2, <1>3 DEF StepGood

LEMMA EveryStep ==
  ASSUME CallInv, [NextCall]_callVars
  PROVE  StepGood
<1>1. CASE Syncs \/ SetsUp \/ SetsClass \/ SetsCapabilities \/ Dials \/ Answers
  BY <1>1, SyncsGood, SetsUpGood, SetsClassGood, SetsCapabilitiesGood, DialsGood, AnswersGood
<1>2. CASE Class1Session \/ EndsSession \/ Kills
  BY <1>2, Class1SessionGood, EndsSessionGood, KillsGood
<1>3. CASE ReadsPage \/ TellsFormat \/ StartsPage \/ DataEnds \/ EndsPage \/ DataAndPageEnd
  BY <1>3, ReadsPageGood, TellsFormatGood, StartsPageGood, DataEndsGood, EndsPageGood
<1>4. CASE OpensFile \/ DataComes \/ NoMorePages \/ CannotReceive \/ PageEnds \/ RefusesPage
  BY <1>4, OpensFileGood, DataComesGood, NoPageGood, PageEndsGood, RefusesPageGood
<1>5. CASE UNCHANGED callVars
  BY <1>5, Stutters
<1> QED BY <1>1, <1>2, <1>3, <1>4, <1>5 DEF NextCall, CallSteps, Ended

(* The invariant holds in every state, and every step keeps pages and      *)
(* announces the next.                                                     *)
THEOREM CallHolds == SpecCall => [](CallInv)
<1>1. InitCall => CallInv
  BY InitGood
<1>2. CallInv /\ [NextCall]_callVars => CallInv'
  BY EveryStep DEF StepGood
<1> QED BY <1>1, <1>2, PTL DEF SpecCall

(* What efax knows of its pages is what became of them: a page counts as   *)
(* sent only if the other end confirmed it or the line went down with it.  *)
THEOREM CallIsSound == SpecCall => []CallSound
<1>1. CallInv => CallSound
  BY DEF CallInv, CallTypes, Counted, CallSound
<1> QED BY <1>1, CallHolds, PTL

(* efax that has dialled and says success has sent every page of any       *)
(* document, unless a normal end was reported before its time.             *)
THEOREM SuccessIsAllSent == SpecCall => []SuccessMeansAllSent
<1>1. CallInv => SuccessMeansAllSent
  BY DEF CallInv, Counted, SuccessMeansAllSent, At, Ending
<1> QED BY <1>1, CallHolds, PTL

(* Every page is sent in its format, and what was said after the page      *)
(* before is true of it.                                                   *)
THEOREM PagesAreAnnounced == SpecCall => PagesAnnounced
<1>1. CallInv => FormatTold
  BY DEF CallInv, ModemTold, FormatTold
<1>2. CallInv /\ [NextCall]_callVars => [PostPageTrue]_callVars
  BY EveryStep DEF StepGood
<1> QED BY <1>1, <1>2, CallHolds, PTL DEF SpecCall, PagesAnnounced

(* Whatever cuts a reception off, no file without a page stays, and none   *)
(* with one is lost.                                                       *)
THEOREM ReceivedIsKept == SpecCall => ReceivedKept
<1>1. CallInv => ReceivedStays
  <2>1. ASSUME CallInv, At("ended") PROVE ReceivedStays
    BY <2>1, TypesGiven DEF CallInv, FilesFilled, Filled, ReceivedStays, At
  <2> QED BY <2>1 DEF ReceivedStays
<1>2. CallInv /\ [NextCall]_callVars => [KeepsPages]_callVars
  BY EveryStep DEF StepGood
<1> QED BY <1>1, <1>2, CallHolds, PTL DEF SpecCall, ReceivedKept

-----------------------------------------------------------------------------
(* Locks.                                                                  *)

\* The first n locks of a process are its own, or it was robbed.
Has(p, n) == p \in robbed \/ \A k \in 1..n : lock[LockFiles[p][k]].by = p

(* Which places go with which of the four ways through the files.          *)
PlacesAt(p) ==
  /\ pc[p] \in {"make", "close"} => Locks(p)
  /\ pc[p] = "unlock" => ~Locks(p)
  /\ pc[p] \in {"idle", "open", "poll", "begin"} => goal[p] = "lock"
  /\ pc[p] = "wait" => goal[p] = "lend"
  /\ pc[p] = "session" => Locks(p)
  /\ pc[p] = "exit" => goal[p] = "cleanup"
  /\ goal[p] = "lend" => p \in lent
  /\ goal[p] = "relock" /\ pc[p] \in {"look", "make", "close", "unstale"} => p \in lent

(* On the way up a process has the locks before the one it is at.          *)
HoldingAt(p) ==
  /\ pc[p] \in {"look", "make", "unstale"} /\ Locks(p) => Has(p, i[p] - 1)
  /\ pc[p] = "close" => Has(p, i[p])
  /\ pc[p] = "open" \/ (Talks(p) /\ p \notin lent) => Has(p, Len(LockFiles[p]))

(* What lies at the file a process is about to change belongs to nobody    *)
(* alive, to itself, or to one that came after it looked.                  *)
WindowAt(p) ==
  pc[p] \in {"make", "unstale", "unlock"} =>
    LET q == lock[File(p)].by IN ~Alive(q) \/ q = p \/ q \in missed[p]

(* In cleanup() a process has none of the locks before the one it is at.   *)
LeavingAt(p) ==
  goal[p] = "cleanup" /\ <<p, "close">> \notin signalled =>
    /\ pc[p] \in {"look", "unstale", "unlock"} =>
         \A k \in 1..(i[p] - 1) : lock[LockFiles[p][k]].by # p
    /\ pc[p] \in {"exit", "ended"} => \A f \in Files : lock[f].by # p

(* Locks are only at files of their process, and an empty one belongs to a *)
(* process that is about to write it, or that a signal or kill prevented.  *)
OwnedBy(p) == \A f \in Files : lock[f].by = p =>
  /\ f \in Range(LockFiles[p])
  /\ pc[p] # "idle"
  /\ ~lock[f].flushed => \/ pc[p] = "close" /\ f = File(p)
                         \/ pc[p] = "dead"
                         \/ <<p, "close">> \in signalled

Sound(p) == PlacesAt(p) /\ HoldingAt(p) /\ WindowAt(p) /\ LeavingAt(p) /\ OwnedBy(p)

LocksInv == LocksTypeOK /\ \A p \in Procs : Sound(p)

Step(p) == \/ Begins(p) \/ LockSteps(p) \/ Rings(p)
           \/ CannotMake(p) \/ Signalled(p) \/ Killed(p)

----------------------------------------------------------------------------
(* The lock files of a process.                                            *)

LEMMA Numbered ==
  ASSUME NEW p \in Procs
  PROVE  /\ Len(LockFiles[p]) \in Nat \ {0}
         /\ \A k \in 1..Len(LockFiles[p]) : LockFiles[p][k] \in Files
         /\ DOMAIN LockFiles[p] = 1..Len(LockFiles[p])
         /\ \A f \in Range(LockFiles[p]) :
              f \in Files /\ \E k \in 1..Len(LockFiles[p]) : f = LockFiles[p][k]
         /\ \A k \in 1..Len(LockFiles[p]) : LockFiles[p][k] \in Range(LockFiles[p])
         /\ \A k, m \in 1..Len(LockFiles[p]) : LockFiles[p][k] = LockFiles[p][m] => k = m
<1>1. LockFiles[p] \in Seq(Files) /\ LockFiles[p] # <<>> /\ IsInjective(LockFiles[p])
  BY LocksAssumption
<1>2. Len(LockFiles[p]) \in Nat \ {0} /\ DOMAIN LockFiles[p] = 1..Len(LockFiles[p])
  BY <1>1
<1>3. \A k \in 1..Len(LockFiles[p]) : LockFiles[p][k] \in Files
  BY <1>1
<1>4. \A k, m \in 1..Len(LockFiles[p]) : LockFiles[p][k] = LockFiles[p][m] => k = m
  BY <1>1, <1>2 DEF IsInjective
<1>5. \A f \in Range(LockFiles[p]) :
         f \in Files /\ \E k \in 1..Len(LockFiles[p]) : f = LockFiles[p][k]
  BY <1>2, <1>3 DEF Range
<1>6. \A k \in 1..Len(LockFiles[p]) : LockFiles[p][k] \in Range(LockFiles[p])
  BY <1>2 DEF Range
<1> QED BY <1>2, <1>3, <1>4, <1>5, <1>6

LEMMA Present ==
  ASSUME LocksTypeOK, NEW p \in Procs
  PROVE  /\ i[p] \in 1..Len(LockFiles[p]) /\ i[p] \in Nat \ {0}
         /\ File(p) = LockFiles[p][i[p]] /\ File(p) \in Files
         /\ Len(LockFiles[p]) \in Nat
BY Numbered DEF LocksTypeOK, File

----------------------------------------------------------------------------
(* What a step leaves alone.                                               *)

Goals == {"lock", "lend", "relock", "cleanup"}
Stations == {"idle", "look", "make", "close", "unstale", "unlock", "open", "poll",
             "begin", "wait", "session", "reset", "exit", "ended", "dead"}

\* A step moves one process.
Moves(p, x, g, k) ==
  /\ pc' = [pc EXCEPT ![p] = x] /\ goal' = [goal EXCEPT ![p] = g]
  /\ i' = [i EXCEPT ![p] = k] /\ lent' \in {lent, lent \ {p}, lent \cup {p}}

Moved(p) == \E x \in Stations, g \in Goals, k \in 1..Len(LockFiles[p]) : Moves(p, x, g, k)

LEMMA GoesOnWithLocks ==
  ASSUME LocksTypeOK, NEW p \in Procs, Onward(p) \/ GivesUp(p) \/ NotOurs(p)
  PROVE  Moved(p)
<1> DEFINE g == goal[p]
<1>1. g \in Goals /\ goal = [goal EXCEPT ![p] = g] /\ i = [i EXCEPT ![p] = i[p]]
  BY DEF LocksTypeOK, Goals
<1>2. After[g] \in Stations
  BY <1>1 DEF After, Goals, Stations
<1>3. i[p] \in 1..Len(LockFiles[p])
  BY Present
<1>4. CASE Onward(p)
  <2>1. CASE i[p] < Len(LockFiles[p])
    <3>1. i[p] + 1 \in 1..Len(LockFiles[p])
      BY <2>1, Present
    <3>2. Moves(p, "look", g, i[p] + 1)
      BY <1>1, <1>4, <2>1 DEF Onward, Goto, Moves
    <3> QED BY <1>1, <3>1, <3>2 DEF Moved, Stations
  <2>2. CASE ~(i[p] < Len(LockFiles[p]))
    <3>1. Moves(p, After[g], g, i[p])
      BY <1>1, <1>4, <2>2 DEF Onward, Goto, Moves
    <3> QED BY <1>1, <1>2, <1>3, <3>1 DEF Moved
  <2> QED BY <2>1, <2>2
<1>5. CASE ~Onward(p)
  <2>1. \E x \in {"ended", "poll"} : Moves(p, x, g, i[p])
    BY <1>1, <1>5 DEF GivesUp, NotOurs, Busy, Goto, Moves
  <2> QED BY <1>1, <1>3, <2>1 DEF Moved, Stations
<1> QED BY <1>4, <1>5

LEMMA OneMoves ==
  ASSUME LocksTypeOK, NEW p \in Procs, Step(p)
  PROVE  Moved(p)
<1> DEFINE g == goal[p]
<1>1. g \in Goals /\ goal = [goal EXCEPT ![p] = g] /\ i = [i EXCEPT ![p] = i[p]]
  BY DEF LocksTypeOK, Goals
<1>2. i[p] \in 1..Len(LockFiles[p]) /\ 1 \in 1..Len(LockFiles[p])
  BY Present
<1>3. CASE \E h \in Goals : Through(p, h) /\ lent' \in {lent, lent \cup {p}}
  <2>1. PICK h \in Goals : Through(p, h) /\ lent' \in {lent, lent \cup {p}}
    BY <1>3
  <2>2. Moves(p, "look", h, 1)
    BY <2>1 DEF Through, Goto, Moves
  <2> QED BY <1>2, <2>2 DEF Moved, Stations
<1>4. CASE Begins(p) \/ Polls(p) \/ Lends(p) \/ Rings(p) \/ Resets(p)
  BY <1>3, <1>4 DEF Begins, Polls, Lends, Rings, Resets, Goals
<1>5. CASE \E x \in Stations : Goto(p, x) /\ UNCHANGED <<goal, i, lent>>
  <2>1. PICK x \in Stations : Goto(p, x) /\ UNCHANGED <<goal, i, lent>>
    BY <1>5
  <2>2. Moves(p, x, g, i[p])
    BY <1>1, <2>1 DEF Goto, Moves
  <2> QED BY <1>1, <1>2, <2>2 DEF Moved
<1>6. CASE Opens(p) \/ PicksUp(p) \/ SessionOver(p) \/ Signalled(p) \/ Killed(p)
           \/ Exits(p) \/ Renames(p)
  BY <1>5, <1>6 DEF Opens, PicksUp, SessionOver, Signalled, Killed, Exits, Renames, Stations
<1>7. CASE Looks(p)
  <2>1. \/ Onward(p) \/ NotOurs(p)
        \/ /\ UNCHANGED <<goal, i, lent>>
           /\ \E x \in {"make", "unstale", "unlock"} : Goto(p, x)
    BY <1>7 DEF Looks
  <2> QED BY <2>1, <1>5, GoesOnWithLocks DEF Stations
<1>8. CASE RemovesStale(p) \/ CannotMake(p) \/ Closes(p) \/ Unlocks(p)
  <2>1. \/ Onward(p) \/ GivesUp(p)
        \/ UNCHANGED <<goal, i, lent>> /\ Goto(p, "make")
    BY <1>8 DEF RemovesStale, CannotMake, Closes, Unlocks
  <2> QED BY <2>1, <1>5, GoesOnWithLocks DEF Stations
<1> QED BY <1>4, <1>6, <1>7, <1>8 DEF Step, LockSteps

----------------------------------------------------------------------------
(* What a step does to the lock files.                                     *)

\* Nothing; or a lock is removed, made, or has its pid written.
Removes(p) == lock' = [lock EXCEPT ![File(p)] = NoLock] /\ Robs(p, File(p))
Makes(p) == lock' = [lock EXCEPT ![File(p)] = [by |-> p, flushed |-> FALSE]]
            /\ Robs(p, File(p))
Writes(p) == /\ robbed' = robbed
             /\ \A f \in Files : /\ lock'[f].by = lock[f].by
                                 /\ lock'[f].flushed \in BOOLEAN
                                 /\ lock[f].flushed => lock'[f].flushed
             /\ lock' \in [Files -> [by : Procs \cup {"nobody", "gone"}, flushed : BOOLEAN]]

LEMMA OneWrites ==
  ASSUME LocksTypeOK, NEW p \in Procs, Step(p)
  PROVE  \/ pc[p] \in {"unstale", "unlock"} /\ Removes(p)
         \/ pc[p] = "make" /\ Makes(p)
         \/ Writes(p)
<1>1. CASE UNCHANGED <<lock, robbed>>
  BY <1>1 DEF Writes, LocksTypeOK
<1>2. CASE Begins(p) \/ Looks(p) \/ CannotMake(p) \/ Opens(p) \/ Polls(p) \/ Lends(p)
           \/ Rings(p) \/ PicksUp(p) \/ SessionOver(p) \/ Resets(p) \/ Signalled(p) \/ Killed(p)
  BY <1>1, <1>2 DEF Begins, Looks, CannotMake, Opens, Polls, Lends, Rings, PicksUp, SessionOver,
    Resets, Signalled, Killed
<1>3. CASE RemovesStale(p) \/ Unlocks(p)
  <2>1. CASE RemovesStale(p)
    <3>1. pc[p] = "unstale" /\ (UNCHANGED <<lock, robbed>> \/ Removes(p))
      BY <2>1 DEF RemovesStale, Removes, IsAt
    <3> QED BY <3>1, <1>1
  <2>2. CASE Unlocks(p)
    <3>1. pc[p] = "unlock" /\ (UNCHANGED <<lock, robbed>> \/ Removes(p))
      BY <2>2 DEF Unlocks, Removes, IsAt
    <3> QED BY <3>1, <1>1
  <2> QED BY <1>3, <2>1, <2>2
<1>4. CASE Renames(p)
  BY <1>4 DEF Renames, Makes, IsAt
<1>5. CASE Closes(p) \/ Exits(p)
  <2>1. File(p) \in Files
    BY Present
  <2>2. CASE Closes(p)
    <3> DEFINE l == lock[File(p)]
               b == l.flushed \/ l.by = p
               m == [l EXCEPT !.flushed = b]
    <3>1. robbed' = robbed /\ lock' = [lock EXCEPT ![File(p)] = m]
      BY <2>2 DEF Closes
    <3>2. l \in [by : Procs \cup {"nobody", "gone"}, flushed : BOOLEAN]
      BY <2>1 DEF LocksTypeOK
    <3>3. b \in BOOLEAN /\ (l.flushed => b)
      OBVIOUS
    <3> HIDE DEF b
    <3>4. m \in [by : Procs \cup {"nobody", "gone"}, flushed : BOOLEAN]
          /\ m.by = l.by /\ m.flushed = b
      BY <3>2, <3>3
    <3> HIDE DEF m, l
    <3> QED BY <2>1, <3>1, <3>3, <3>4 DEF Writes, LocksTypeOK, l
  <2>3. CASE Exits(p)
    <3>1. robbed' = robbed
          /\ lock' = [f \in Files |-> [lock[f] EXCEPT !.flushed = @ \/ lock[f].by = p]]
      BY <2>3 DEF Exits
    <3> QED BY <3>1 DEF Writes, LocksTypeOK
  <2> QED BY <1>5, <2>2, <2>3
<1> QED BY <1>2, <1>3, <1>4, <1>5 DEF Step, LockSteps

LEMMA TypeStep ==
  ASSUME LocksTypeOK, NEW p \in Procs, Step(p)
  PROVE  LocksTypeOK'
<1>1. PICK x \in Stations, g \in Goals, k \in 1..Len(LockFiles[p]) : Moves(p, x, g, k)
  BY OneMoves DEF Moved
<1>2. File(p) \in Files /\ Len(LockFiles[p]) \in Nat
  BY Present
<1>3. pc' \in [Procs -> Stations] /\ goal' \in [Procs -> Goals] /\ lent' \subseteq Procs
  BY <1>1 DEF LocksTypeOK, Moves, Stations, Goals
<1>4. i' \in [Procs -> Nat] /\ \A q \in Procs : i'[q] \in 1..Len(LockFiles[q])
  BY <1>1, <1>2 DEF LocksTypeOK, Moves
<1>5. lock' \in [Files -> [by : Procs \cup {"nobody", "gone"}, flushed : BOOLEAN]]
  <2>1. NoLock \in [by : Procs \cup {"nobody", "gone"}, flushed : BOOLEAN]
        /\ [by |-> p, flushed |-> FALSE] \in [by : Procs \cup {"nobody", "gone"}, flushed : BOOLEAN]
    BY DEF NoLock
  <2>2. CASE Removes(p)
    BY <1>2, <2>1, <2>2 DEF LocksTypeOK, Removes
  <2>3. CASE Makes(p)
    BY <1>2, <2>1, <2>3 DEF LocksTypeOK, Makes
  <2>4. CASE Writes(p)
    BY <2>4 DEF Writes
  <2> QED BY <2>2, <2>3, <2>4, OneWrites
<1>6. robbed' \subseteq Procs
  BY OneWrites DEF LocksTypeOK, Removes, Makes, Writes, Robs, Alive
<1>7. missed' \in [Procs -> SUBSET Procs]
  <2>1. CASE Looks(p)
    BY <2>1 DEF Looks, LocksTypeOK
  <2>3. CASE Renames(p)
    <3>1. missed' = [q \in Procs |-> IF q # p /\ IsAt(q, "idle") = FALSE /\ File(q) = File(p)
                                     THEN missed[q] \cup {p} ELSE missed[q]]
      BY <2>3 DEF Renames
    <3>2. \A q \in Procs : missed[q] \subseteq Procs
      BY DEF LocksTypeOK
    <3> QED BY <3>1, <3>2
  <2>2. CASE ~(Looks(p) \/ Renames(p))
    <3>1. missed' = missed
      BY <2>2 DEF Step, LockSteps, Begins, CannotMake, Opens, Polls, Lends, Rings, PicksUp,
        SessionOver, Resets, Signalled, Killed, RemovesStale, Unlocks, Closes, Exits
    <3> QED BY <3>1 DEF LocksTypeOK
  <2> QED BY <2>1, <2>2, <2>3
<1> QED BY <1>3, <1>4, <1>5, <1>6, <1>7 DEF LocksTypeOK, Stations, Goals

----------------------------------------------------------------------------
(* What one process does, seen by another.                                 *)

LEMMA Bystander ==
  ASSUME LocksTypeOK, NEW p \in Procs, Step(p), NEW q \in Procs \ {p}
  PROVE  /\ pc'[q] = pc[q] /\ goal'[q] = goal[q] /\ i'[q] = i[q]
         /\ q \in lent' <=> q \in lent
         /\ <<q, "close">> \in signalled' <=> <<q, "close">> \in signalled
         /\ \A f \in Files : lock'[f].by = q =>
              lock[f].by = q /\ (lock[f].flushed => lock'[f].flushed)
         /\ Alive(q) => \A f \in Files :
              lock[f].by = q => lock'[f].by = q \/ q \in robbed'
         /\ q \in robbed => q \in robbed'
<1>1. PICK x \in Stations, g \in Goals, k \in 1..Len(LockFiles[p]) : Moves(p, x, g, k)
  BY OneMoves DEF Moved
<1>2. File(p) \in Files
  BY Present
<1>3. pc'[q] = pc[q] /\ goal'[q] = goal[q] /\ i'[q] = i[q] /\ (q \in lent' <=> q \in lent)
  BY <1>1 DEF Moves, LocksTypeOK
<1>4. <<q, "close">> \in signalled' <=> <<q, "close">> \in signalled
  <2>1. signalled' = signalled \/ signalled' = signalled \cup {<<p, pc[p]>>}
    BY DEF Step, LockSteps, Begins, Looks, CannotMake, Opens, Polls, Lends, Rings, PicksUp,
      SessionOver, Resets, Signalled, Killed, RemovesStale, Renames, Unlocks, Closes, Exits
  <2> QED BY <2>1
<1>5. lock \in [Files -> [by : Procs \cup {"nobody", "gone"}, flushed : BOOLEAN]]
  BY DEF LocksTypeOK
<1>6. "nobody" \notin Procs
  BY LocksAssumption
<1>7. CASE Removes(p)
  <2>1. lock'[File(p)].by = "nobody" /\ \A f \in Files \ {File(p)} : lock'[f] = lock[f]
    BY <1>2, <1>5, <1>7 DEF Removes, NoLock
  <2>2. robbed \subseteq robbed'
        /\ (lock[File(p)].by = q /\ Alive(q) => q \in robbed')
    BY <1>7 DEF Removes, Robs
  <2> QED BY <1>3, <1>4, <1>6, <2>1, <2>2
<1>8. CASE Makes(p)
  <2>1. lock'[File(p)].by = p /\ \A f \in Files \ {File(p)} : lock'[f] = lock[f]
    BY <1>2, <1>5, <1>8 DEF Makes
  <2>2. robbed \subseteq robbed'
        /\ (lock[File(p)].by = q /\ Alive(q) => q \in robbed')
    BY <1>8 DEF Makes, Robs
  <2> QED BY <1>3, <1>4, <2>1, <2>2
<1>9. CASE Writes(p)
  BY <1>3, <1>4, <1>9 DEF Writes
<1> QED BY <1>7, <1>8, <1>9, OneWrites

LEMMA LiveSteps ==
  ASSUME NEW p \in Procs, Step(p)
  PROVE  pc[p] \notin {"ended", "dead"}
BY DEF Step, LockSteps, Begins, Looks, CannotMake, Opens, Polls, Lends, Rings, PicksUp,
  SessionOver, Resets, Signalled, Killed, RemovesStale, Renames, Unlocks, Closes, Exits, IsAt, Started

LEMMA StaysDead ==
  ASSUME LocksTypeOK, NEW p \in Procs, Step(p), NEW r, ~Alive(r)
  PROVE  ~(r \in Procs /\ pc'[r] \notin {"ended", "dead"})
<1>1. CASE r \in Procs
  <2>1. r # p
    BY <1>1, LiveSteps DEF Alive
  <2> QED BY <1>1, <2>1, Bystander DEF Alive
<1> QED BY <1>1 DEF Alive

\* What was made at a file since another looked is in missed of that one.
LEMMA Missed ==
  ASSUME LocksTypeOK, NEW p \in Procs, Step(p), NEW q \in Procs \ {p}
  PROVE  /\ missed[q] \subseteq missed'[q]
         /\ pc[q] # "idle" => \/ lock'[File(q)] = lock[File(q)]
                              \/ lock'[File(q)] = NoLock
                              \/ lock'[File(q)].by = p /\ p \in missed'[q]
                              \/ lock'[File(q)].by = lock[File(q)].by
<1>1. File(q) \in Files /\ File(p) \in Files
  BY Present
<1>2. CASE Renames(p)
  <2>1. missed' = [r \in Procs |-> IF r # p /\ IsAt(r, "idle") = FALSE /\ File(r) = File(p)
                                   THEN missed[r] \cup {p} ELSE missed[r]]
        /\ lock' = [lock EXCEPT ![File(p)] = [by |-> p, flushed |-> FALSE]]
    BY <1>2 DEF Renames
  <2>2. missed'[q] = IF IsAt(q, "idle") = FALSE /\ File(q) = File(p)
                     THEN missed[q] \cup {p} ELSE missed[q]
    BY <2>1
  <2>3. File(q) # File(p) => lock'[File(q)] = lock[File(q)]
    BY <1>1, <2>1 DEF LocksTypeOK
  <2>4. File(q) = File(p) => lock'[File(q)].by = p
    BY <1>1, <2>1 DEF LocksTypeOK
  <2> QED BY <2>2, <2>3, <2>4 DEF IsAt
<1>3. CASE ~Renames(p)
  <2>1. missed'[q] = missed[q]
    BY <1>3 DEF Step, LockSteps, Begins, CannotMake, Opens, Polls, Lends, Rings, PicksUp, Looks,
      SessionOver, Resets, Signalled, Killed, RemovesStale, Unlocks, Closes, Exits, LocksTypeOK
  <2>2. CASE RemovesStale(p) \/ Unlocks(p)
    <3>1. lock' \in {lock, [lock EXCEPT ![File(p)] = NoLock]}
      BY <2>2 DEF RemovesStale, Unlocks
    <3> QED BY <1>1, <2>1, <3>1 DEF LocksTypeOK
  <2>3. CASE ~(RemovesStale(p) \/ Unlocks(p))
    <3>2. \A f \in Files : lock'[f].by = lock[f].by
      <4>1. CASE Closes(p) \/ Exits(p)
        BY <4>1, OneWrites DEF Closes, Exits, IsAt, Writes
      <4>2. CASE ~(Closes(p) \/ Exits(p))
        <5>1. lock' = lock
          BY <1>3, <2>3, <4>2 DEF Step, LockSteps, Begins, CannotMake, Opens, Polls, Lends, Rings,
            PicksUp, Looks, SessionOver, Resets, Signalled, Killed
        <5> QED BY <5>1
      <4> QED BY <4>1, <4>2
    <3> QED BY <1>1, <2>1, <3>2
  <2> QED BY <2>2, <2>3
<1> QED BY <1>2, <1>3

LEMMA BystanderHas ==
  ASSUME LocksTypeOK, NEW p \in Procs, Step(p), NEW q \in Procs \ {p}, Alive(q),
         NEW n \in 0..Len(LockFiles[q]), Has(q, n)
  PROVE  Has(q, n)'
<1>1. \A k \in 1..n : LockFiles[q][k] \in Files
  BY Numbered
<1> QED BY <1>1, Bystander DEF Has

LEMMA BystanderSound ==
  ASSUME LocksInv, NEW p \in Procs, Step(p), NEW q \in Procs \ {p}
  PROVE  Sound(q)'
<1>1. LocksTypeOK /\ Sound(q)
  BY DEF LocksInv
<1>2. /\ pc'[q] = pc[q] /\ goal'[q] = goal[q] /\ i'[q] = i[q] /\ (q \in lent' <=> q \in lent)
      /\ File(q)' = File(q) /\ File(q) \in Files
      /\ i[q] \in 1..Len(LockFiles[q]) /\ Len(LockFiles[q]) \in Nat \ {0}
  BY <1>1, Bystander, Present, Numbered DEF File
<1>3. PlacesAt(q)'
  BY <1>1, <1>2 DEF Sound, PlacesAt, Locks
<1>4. HoldingAt(q)'
  <2>1. i[q] - 1 \in 0..Len(LockFiles[q]) /\ i[q] \in 0..Len(LockFiles[q])
        /\ Len(LockFiles[q]) \in 0..Len(LockFiles[q])
    BY <1>2
  <2>2. ASSUME pc[q] \notin {"ended", "dead"}, NEW n \in 0..Len(LockFiles[q]), Has(q, n)
        PROVE  Has(q, n)'
    BY <1>1, <2>2, BystanderHas DEF Alive
  <2>3. pc[q] \in {"look", "make", "unstale"} /\ Locks(q) => Has(q, i[q] - 1)'
    <3>1. SUFFICES ASSUME pc[q] \in {"look", "make", "unstale"}, Locks(q) PROVE Has(q, i[q] - 1)'
      OBVIOUS
    <3>2. Has(q, i[q] - 1)
      BY <1>1, <3>1 DEF Sound, HoldingAt
    <3>3. ASSUME NEW n \in 0..Len(LockFiles[q]), n = i[q] - 1 PROVE Has(q, n)'
      BY <3>1, <3>2, <3>3, <2>2
    <3> QED BY <3>3, <2>1, <1>2 DEF Has
  <2>4. pc[q] = "close" => Has(q, i[q])'
    <3>1. SUFFICES ASSUME pc[q] = "close" PROVE Has(q, i[q])'
      OBVIOUS
    <3>2. Has(q, i[q])
      BY <1>1, <3>1 DEF Sound, HoldingAt
    <3>3. ASSUME NEW n \in 0..Len(LockFiles[q]), n = i[q] PROVE Has(q, n)'
      BY <3>1, <3>2, <3>3, <2>2
    <3> QED BY <3>3, <2>1, <1>2 DEF Has
  <2>5. pc[q] = "open" \/ (Talks(q) /\ q \notin lent) => Has(q, Len(LockFiles[q]))'
    <3>1. SUFFICES ASSUME pc[q] = "open" \/ (Talks(q) /\ q \notin lent)
                   PROVE  Has(q, Len(LockFiles[q]))'
      OBVIOUS
    <3>2. Has(q, Len(LockFiles[q]))
      BY <1>1, <3>1 DEF Sound, HoldingAt
    <3> QED BY <3>1, <3>2, <2>1, <2>2 DEF Talks
  <2> QED BY <1>2, <2>3, <2>4, <2>5 DEF HoldingAt, Has, Talks, Locks
<1>5. WindowAt(q)'
  <2>1. SUFFICES ASSUME pc[q] \in {"make", "unstale", "unlock"}, NEW r, r = lock'[File(q)].by
                 PROVE  ~(r \in Procs /\ pc'[r] \notin {"ended", "dead"}) \/ r = q \/ r \in missed'[q]
    BY <1>2 DEF WindowAt, Alive
  <2>2. r = lock[File(q)].by \/ r = "nobody" \/ r \in missed'[q]
    BY <1>1, <2>1, Missed DEF NoLock
  <2>3. "nobody" \notin Procs
    BY LocksAssumption
  <2>4. CASE r = lock[File(q)].by
    <3>1. ~Alive(r) \/ r = q \/ r \in missed[q]
      BY <1>1, <2>1, <2>4 DEF Sound, WindowAt
    <3>2. missed[q] \subseteq missed'[q]
      BY <1>1, Missed
    <3>3. CASE ~Alive(r)
      BY <1>1, <3>3, StaysDead
    <3> QED BY <3>1, <3>2, <3>3
  <2> QED BY <2>2, <2>3, <2>4
<1>6. LeavingAt(q)'
  <2>1. \A f \in Files : lock'[f].by = q => lock[f].by = q
    BY <1>1, Bystander
  <2>2. \A k \in 1..(i[q] - 1) : LockFiles[q][k] \in Files
    BY <1>2, Numbered
  <2>3. <<q, "close">> \in signalled' <=> <<q, "close">> \in signalled
    BY <1>1, Bystander
  <2> QED BY <1>1, <1>2, <2>1, <2>2, <2>3 DEF Sound, LeavingAt
<1>7. OwnedBy(q)'
  <2>1. \A f \in Files : lock'[f].by = q =>
           lock[f].by = q /\ (lock[f].flushed => lock'[f].flushed)
    BY <1>1, Bystander
  <2>3. <<q, "close">> \in signalled' <=> <<q, "close">> \in signalled
    BY <1>1, Bystander
  <2> QED BY <1>1, <1>2, <2>1, <2>3 DEF Sound, OwnedBy
<1> QED BY <1>3, <1>4, <1>5, <1>6, <1>7 DEF Sound

----------------------------------------------------------------------------
(* What one process does, seen by itself.                                  *)

LEMMA SelfMoved ==
  ASSUME LocksTypeOK, NEW p \in Procs, Step(p)
  PROVE  /\ pc'[p] # "idle"
         /\ signalled \subseteq signalled'
         /\ pc[p] = "close" => \/ <<p, "close">> \in signalled' \/ pc'[p] = "dead"
                              \/ (lock'[File(p)].by = p => lock'[File(p)].flushed)
<1>1. pc[p] \in Stations /\ pc \in [Procs -> Stations] /\ File(p) \in Files
  BY Present DEF LocksTypeOK, Stations
<1>2. signalled \subseteq signalled'
  BY DEF Step, LockSteps, Begins, Looks, CannotMake, Opens, Polls, Lends, Rings, PicksUp,
    SessionOver, Resets, Signalled, Killed, RemovesStale, Renames, Unlocks, Closes, Exits
<1>3. pc'[p] # "idle"
  <2>1. \E x \in Stations \ {"idle"} : pc' = [pc EXCEPT ![p] = x]
    <3>1. After[goal[p]] \in Stations \ {"idle"}
      BY DEF LocksTypeOK, After, Stations
    <3>2. CASE Onward(p) \/ GivesUp(p) \/ NotOurs(p)
      BY <3>1, <3>2 DEF Onward, GivesUp, NotOurs, Busy, Goto, Stations
    <3> QED BY <3>2 DEF Step, LockSteps, Begins, Looks, CannotMake, Opens, Polls, Lends, Rings, PicksUp,
      SessionOver, Resets, Signalled, Killed, RemovesStale, Renames, Unlocks, Closes, Exits,
      Through, Goto, Stations
  <2> QED BY <1>1, <2>1
<1>4. ASSUME pc[p] = "close"
      PROVE  \/ <<p, "close">> \in signalled' \/ pc'[p] = "dead"
             \/ (lock'[File(p)].by = p => lock'[File(p)].flushed)
  <2>1. Closes(p) \/ Signalled(p) \/ Killed(p)
    BY <1>4 DEF Step, LockSteps, Begins, Looks, CannotMake, Opens, Polls, Lends, Rings, PicksUp,
      SessionOver, Resets, RemovesStale, Renames, Unlocks, Exits, IsAt
  <2>2. CASE Closes(p)
    <3>1. lock' = [lock EXCEPT ![File(p)].flushed = @ \/ lock[File(p)].by = p]
      BY <2>2 DEF Closes
    <3>2. lock'[File(p)].by = lock[File(p)].by
      BY <1>1, <3>1 DEF LocksTypeOK
    <3>3. ASSUME lock[File(p)].by = p PROVE lock'[File(p)].flushed
      <4> DEFINE l == lock[File(p)]
      <4>1. lock' = [lock EXCEPT ![File(p)] = [l EXCEPT !.flushed = TRUE]]
        <5>1. (l.flushed \/ l.by = p) = TRUE
          BY <3>3
        <5> QED BY <3>1, <5>1
      <4>2. l \in [by : Procs \cup {"nobody", "gone"}, flushed : BOOLEAN]
        BY <1>1 DEF LocksTypeOK
      <4> QED BY <1>1, <4>1, <4>2 DEF LocksTypeOK
    <3> QED BY <3>2, <3>3
  <2>3. CASE Signalled(p)
    BY <1>4, <2>3 DEF Signalled
  <2>4. CASE Killed(p)
    BY <1>1, <2>4 DEF Killed, Goto
  <2> QED BY <2>1, <2>2, <2>3, <2>4
<1> QED BY <1>2, <1>3, <1>4

LEMMA SelfOwned ==
  ASSUME LocksInv, NEW p \in Procs, Step(p)
  PROVE  OwnedBy(p)'
<1>1. LocksTypeOK /\ OwnedBy(p)
  BY DEF LocksInv, Sound
<1>2. /\ i[p] \in 1..Len(LockFiles[p]) /\ File(p) = LockFiles[p][i[p]] /\ File(p) \in Files
      /\ File(p) \in Range(LockFiles[p])
  BY <1>1, Present, Numbered
<1>3. pc'[p] # "idle" /\ signalled \subseteq signalled' /\ pc[p] # "dead"
  BY <1>1, SelfMoved, LiveSteps
<1>4. CASE Renames(p)
  <2>1. /\ lock' = [lock EXCEPT ![File(p)] = [by |-> p, flushed |-> FALSE]]
        /\ pc[p] = "make" /\ pc' = [pc EXCEPT ![p] = "close"] /\ i' = i
    BY <1>4 DEF Renames, IsAt, Goto
  <2>2. pc'[p] = "close" /\ File(p)' = File(p)
    BY <1>1, <2>1 DEF LocksTypeOK, File
  <2>3. \A f \in Files \ {File(p)} : lock'[f] = lock[f]
    BY <1>1, <1>2, <2>1 DEF LocksTypeOK
  <2> QED BY <1>1, <1>2, <1>3, <2>1, <2>2, <2>3 DEF OwnedBy
<1>5. CASE ~Renames(p)
  <2>1. \A f \in Files : lock'[f].by = p =>
           lock[f].by = p /\ (lock[f].flushed => lock'[f].flushed)
    <3>1. CASE Writes(p)
      BY <3>1 DEF Writes
    <3>2. CASE Removes(p)
      <4>1. lock'[File(p)].by = "nobody" /\ \A f \in Files \ {File(p)} : lock'[f] = lock[f]
        BY <1>1, <1>2, <3>2 DEF Removes, NoLock, LocksTypeOK
      <4> QED BY <4>1, LocksAssumption
    <3>3. pc[p] = "make" => Writes(p)
      <4>1. pc[p] = "make" => lock' = lock /\ robbed' = robbed
        BY <1>5 DEF Step, LockSteps, Begins, CannotMake, Opens, Polls, Lends, Rings, PicksUp, Looks,
          SessionOver, Resets, Signalled, Killed, RemovesStale, Unlocks, Closes, Exits, IsAt
      <4> QED BY <1>1, <4>1 DEF Writes, LocksTypeOK
    <3> QED BY <1>1, <3>1, <3>2, <3>3, OneWrites
  <2>2. pc[p] = "close" => \/ <<p, "close">> \in signalled' \/ pc'[p] = "dead"
                           \/ (lock'[File(p)].by = p => lock'[File(p)].flushed)
    BY <1>1, SelfMoved
  <2> QED BY <1>1, <1>3, <2>1, <2>2 DEF OwnedBy
<1> QED BY <1>4, <1>5

\* The next file, or the last one passed.
LEMMA OnwardSound ==
  ASSUME LocksInv, NEW p \in Procs, OwnedBy(p)', Onward(p), signalled' = signalled,
         pc[p] \in {"look", "make", "close", "unstale", "unlock"},
         Locks(p) => p \in robbed' \/ \A k \in 1..i[p] : lock'[LockFiles[p][k]].by = p,
         goal[p] = "cleanup" /\ <<p, "close">> \notin signalled =>
           \A k \in 1..i[p] : lock'[LockFiles[p][k]].by # p
  PROVE  PlacesAt(p)' /\ HoldingAt(p)' /\ WindowAt(p)' /\ LeavingAt(p)'
<1>1. LocksTypeOK /\ PlacesAt(p)
  BY DEF LocksInv, Sound
<1>2. /\ i[p] \in 1..Len(LockFiles[p]) /\ Len(LockFiles[p]) \in Nat /\ goal' = goal
      /\ goal[p] \in Goals
  BY <1>1, Present DEF Onward, LocksTypeOK, Goals
<1>3. CASE i[p] < Len(LockFiles[p])
  <2>1. pc'[p] = "look" /\ i'[p] = i[p] + 1 /\ lent' = lent
    BY <1>1, <1>3 DEF Onward, Goto, LocksTypeOK
  <2>2. 1..(i'[p] - 1) = 1..i[p]
    BY <1>2, <2>1
  <2> QED BY <1>1, <1>2, <2>1, <2>2 DEF PlacesAt, HoldingAt, WindowAt, LeavingAt, Has, Talks, Locks
<1>4. CASE ~(i[p] < Len(LockFiles[p]))
  <2>1. /\ pc'[p] = After[goal[p]] /\ i[p] = Len(LockFiles[p])
        /\ lent' = IF goal[p] = "relock" THEN lent \ {p} ELSE lent
    BY <1>1, <1>2, <1>4 DEF Onward, Goto, LocksTypeOK
  <2>2. CASE Locks(p)
    <3>1. Has(p, Len(LockFiles[p]))'
      BY <2>1, <2>2 DEF Has
    <3>2. pc'[p] = IF goal[p] = "lock" THEN "open" ELSE "session"
      BY <2>1, <2>2 DEF After, Locks
    <3> QED BY <1>1, <1>2, <2>1, <2>2, <3>1, <3>2
            DEF PlacesAt, HoldingAt, WindowAt, LeavingAt, Talks, Locks
  <2>3. CASE goal[p] = "lend"
    <3>1. pc'[p] = "wait" /\ p \in lent' /\ goal'[p] = "lend"
      BY <1>1, <1>2, <2>1, <2>3 DEF After, PlacesAt
    <3> QED BY <3>1 DEF PlacesAt, HoldingAt, WindowAt, LeavingAt, Talks, Locks
  <2>4. CASE goal[p] = "cleanup"
    <3>1. pc'[p] = "exit" /\ goal'[p] = "cleanup"
      BY <1>2, <2>1, <2>4 DEF After
    <3>2. <<p, "close">> \notin signalled => \A f \in Files : lock'[f].by # p
      <4>1. \A f \in Range(LockFiles[p]) : \E k \in 1..i[p] : f = LockFiles[p][k]
        <5>1. \A f \in Range(LockFiles[p]) :
                \E k \in 1..Len(LockFiles[p]) : f = LockFiles[p][k]
          BY ONLY p \in Procs, Numbered
        <5> QED BY <2>1, <5>1
      <4> QED BY <2>4, <4>1 DEF OwnedBy
    <3> QED BY <3>1, <3>2 DEF PlacesAt, HoldingAt, WindowAt, LeavingAt, Talks, Locks
  <2> QED BY <1>2, <2>2, <2>3, <2>4 DEF Goals, Locks
<1> QED BY <1>3, <1>4

LEMMA SelfSound ==
  ASSUME LocksInv, NEW p \in Procs, Step(p)
  PROVE  Sound(p)'
<1> DEFINE Rest == PlacesAt(p)' /\ HoldingAt(p)' /\ WindowAt(p)' /\ LeavingAt(p)'
<1>1. LocksTypeOK /\ PlacesAt(p) /\ HoldingAt(p) /\ WindowAt(p) /\ LeavingAt(p) /\ OwnedBy(p)
  BY DEF LocksInv, Sound
<1>2. OwnedBy(p)'
  BY SelfOwned
<1>3. /\ i[p] \in 1..Len(LockFiles[p]) /\ File(p) = LockFiles[p][i[p]] /\ File(p) \in Files
      /\ Len(LockFiles[p]) \in Nat \ {0}
      /\ \A k \in 1..Len(LockFiles[p]) : LockFiles[p][k] \in Files
      /\ \A k, m \in 1..Len(LockFiles[p]) : LockFiles[p][k] = LockFiles[p][m] => k = m
  BY <1>1, Present, Numbered
<1>4. CASE Begins(p) \/ Polls(p) \/ Lends(p) \/ Rings(p) \/ Resets(p)
  <2>1. PICK g \in Goals : /\ Through(p, g) /\ lent' \in {lent, lent \cup {p}}
                           /\ g \in {"lend", "relock"} => p \in lent'
    BY <1>1, <1>4 DEF Begins, Polls, Lends, Rings, Resets, Goals, IsAt, PlacesAt
  <2>2. pc'[p] = "look" /\ goal'[p] = g /\ i'[p] = 1
    BY <1>1, <2>1 DEF Through, Goto, LocksTypeOK
  <2>3. 1..(i'[p] - 1) = {}
    BY <2>2
  <2> QED BY <1>2, <2>1, <2>2, <2>3
          DEF Sound, PlacesAt, HoldingAt, WindowAt, LeavingAt, Has, Talks, Locks
<1>5. CASE Opens(p) \/ PicksUp(p) \/ SessionOver(p) \/ Killed(p)
  <2>1. /\ UNCHANGED <<lock, goal, i, lent, robbed, signalled>>
        /\ \E x \in Stations : pc' = [pc EXCEPT ![p] = x]
            /\ \/ pc[p] = "open" /\ x \in {"begin", "poll", "ended"}
               \/ pc[p] = "begin" /\ x = "session"
               \/ pc[p] \in {"begin", "session"} /\ x = "reset"
               \/ x = "dead"
    BY <1>5 DEF Opens, PicksUp, SessionOver, Killed, Goto, IsAt, Stations
  <2>2. /\ goal'[p] = goal[p] /\ i'[p] = i[p] /\ (p \in lent' <=> p \in lent)
        /\ \/ pc[p] = "open" /\ pc'[p] \in {"begin", "poll", "ended"}
           \/ pc[p] = "begin" /\ pc'[p] = "session"
           \/ pc[p] \in {"begin", "session"} /\ pc'[p] = "reset"
           \/ pc'[p] = "dead"
    BY <1>1, <2>1 DEF LocksTypeOK
  <2> QED BY <1>1, <1>2, <2>1, <2>2
          DEF Sound, PlacesAt, HoldingAt, WindowAt, LeavingAt, Has, Talks, Locks
<1>6. CASE Signalled(p)
  <2>1. /\ UNCHANGED <<lock, goal, i, lent, robbed>> /\ pc' = [pc EXCEPT ![p] = "reset"]
        /\ goal[p] \in {"lend", "relock"} \/ pc[p] \in {"begin", "session"}
        /\ pc[p] \notin {"idle", "ended", "dead"}
    BY <1>6 DEF Signalled, Goto, Started
  <2>2. pc'[p] = "reset" /\ goal'[p] = goal[p] /\ (p \in lent' <=> p \in lent)
    BY <1>1, <2>1 DEF LocksTypeOK
  <2>3. p \notin lent => Talks(p)
    BY <1>1, <2>1 DEF PlacesAt, Talks, Locks, LocksTypeOK
  <2>4. goal[p] # "cleanup" \/ pc[p] = "reset"
    BY <1>1, <2>1 DEF PlacesAt, Locks
  <2> QED BY <1>1, <1>2, <2>1, <2>2, <2>3, <2>4
          DEF Sound, PlacesAt, HoldingAt, WindowAt, LeavingAt, Has, Talks, Locks
<1>7. CASE Exits(p)
  <2>1. /\ pc[p] = "exit" /\ pc' = [pc EXCEPT ![p] = "ended"]
        /\ lock' = [f \in Files |-> [lock[f] EXCEPT !.flushed = @ \/ lock[f].by = p]]
        /\ UNCHANGED <<goal, i, lent, robbed, signalled>>
    BY <1>7 DEF Exits, IsAt, Goto
  <2>2. pc'[p] = "ended" /\ \A f \in Files : lock'[f].by = lock[f].by
    BY <1>1, <2>1 DEF LocksTypeOK
  <2>3. PlacesAt(p)' /\ HoldingAt(p)' /\ WindowAt(p)'
    BY <1>1, <2>1, <2>2 DEF PlacesAt, HoldingAt, WindowAt, Talks, Locks
  <2>4. LeavingAt(p)'
    BY <1>1, <2>1, <2>2 DEF LeavingAt
  <2> QED BY <1>2, <2>3, <2>4 DEF Sound
<1>8. CASE Looks(p)
  <2> DEFINE l == lock[File(p)]
  <2>1. pc[p] = "look" /\ UNCHANGED <<lock, robbed, signalled>>
    BY <1>8 DEF Looks, IsAt
  <2>2. l \in [by : Procs \cup {"nobody", "gone"}, flushed : BOOLEAN] /\ NoLock.by # p
    BY <1>1, <1>3, LocksAssumption DEF LocksTypeOK, NoLock
  <2>3. \/ Onward(p) /\ ~Locks(p) /\ (l.by # p \/ ~l.flushed)
        \/ Onward(p) /\ Locks(p) /\ l.by = p
        \/ Busy(p) /\ Locks(p)
        \/ /\ UNCHANGED <<goal, i, lent>>
           /\ \/ Goto(p, "make") /\ Locks(p) /\ l = NoLock
              \/ Goto(p, "unstale") /\ ~Alive(l.by)
              \/ Goto(p, "unlock") /\ ~Locks(p) /\ l.by = p
    BY <1>8, <2>2 DEF Looks, NotOurs, Gone
  <2>4. CASE Onward(p) /\ ~Locks(p) /\ (l.by # p \/ ~l.flushed)
    <3>1. goal[p] = "cleanup" /\ <<p, "close">> \notin signalled => l.by # p
      BY <1>1, <1>3, <2>1, <2>4 DEF OwnedBy
    <3>2. goal[p] = "cleanup" /\ <<p, "close">> \notin signalled =>
            \A k \in 1..i[p] : lock'[LockFiles[p][k]].by # p
      BY <1>1, <1>3, <2>1, <3>1 DEF LeavingAt
    <3> QED BY <1>2, <2>1, <2>4, <3>2, OnwardSound DEF Sound
  <2>5. CASE Onward(p) /\ Locks(p) /\ l.by = p
    <3>1. p \in robbed' \/ \A k \in 1..i[p] : lock'[LockFiles[p][k]].by = p
      BY <1>1, <1>3, <2>1, <2>5 DEF HoldingAt, Has
    <3> QED BY <1>2, <2>1, <2>5, <3>1, OnwardSound DEF Sound, Locks
  <2>6. CASE Busy(p) /\ Locks(p)
    <3>1. UNCHANGED <<goal, i, lent>> /\ pc'[p] \in {"poll", "ended"}
          /\ (pc'[p] = "poll" => goal[p] = "lock")
      BY <1>1, <2>6 DEF Busy, Goto, LocksTypeOK
    <3> QED BY <1>1, <1>2, <2>1, <2>6, <3>1
            DEF Sound, PlacesAt, HoldingAt, WindowAt, LeavingAt, Talks, Locks
  <2>7. CASE /\ UNCHANGED <<goal, i, lent>>
             /\ \/ Goto(p, "make") /\ Locks(p) /\ l = NoLock
                \/ Goto(p, "unstale") /\ ~Alive(l.by)
                \/ Goto(p, "unlock") /\ ~Locks(p) /\ l.by = p
    <3>1. /\ \/ pc'[p] = "make" /\ Locks(p)
             \/ pc'[p] = "unstale"
             \/ pc'[p] = "unlock" /\ ~Locks(p)
          /\ ~Alive(l.by) \/ l.by = p
      BY <1>1, <2>7, LocksAssumption DEF Goto, LocksTypeOK, NoLock, Alive
    <3>2. PlacesAt(p)' /\ HoldingAt(p)'
      BY <1>1, <2>1, <2>7, <3>1 DEF PlacesAt, HoldingAt, Has, Talks, Locks
    <3>3. LeavingAt(p)'
      BY <1>1, <2>1, <2>7, <3>1 DEF LeavingAt
    <3>4. WindowAt(p)'
      <4>1. File(p)' = File(p) /\ lock' = lock
        BY <2>1, <2>7 DEF File
      <4>2. ~Alive(l.by) => ~(l.by \in Procs /\ pc'[l.by] \notin {"ended", "dead"})
        <5>1. l.by \in Procs /\ l.by # p => pc'[l.by] = pc[l.by]
          BY <1>1, <2>7 DEF Goto, LocksTypeOK
        <5>2. Alive(p)
          BY <2>1 DEF Alive
        <5> QED BY <5>1, <5>2 DEF Alive
      <4> QED BY <3>1, <4>1, <4>2 DEF WindowAt, Alive
    <3> QED BY <1>2, <3>2, <3>3, <3>4 DEF Sound
  <2> QED BY <2>3, <2>4, <2>5, <2>6, <2>7
<1>9. CASE RemovesStale(p)
  <2>1. pc[p] = "unstale" /\ signalled' = signalled
    BY <1>9 DEF RemovesStale, IsAt
  <2>2. CASE lock[File(p)] = NoLock
    <3>1. UNCHANGED <<lock, robbed>> /\ GivesUp(p) /\ lock[File(p)].by # p
      BY <1>9, <2>2, LocksAssumption DEF RemovesStale, NoLock
    <3>2. CASE Locks(p)
      <4>1. UNCHANGED <<goal, i, lent>> /\ pc'[p] = "ended"
        BY <1>1, <3>1, <3>2 DEF GivesUp, Goto, LocksTypeOK
      <4> QED BY <1>1, <1>2, <2>1, <3>2, <4>1
              DEF Sound, PlacesAt, HoldingAt, WindowAt, LeavingAt, Talks, Locks
    <3>3. CASE ~Locks(p)
      <4>1. Onward(p)
        BY <3>1, <3>3 DEF GivesUp
      <4>2. goal[p] = "cleanup" /\ <<p, "close">> \notin signalled =>
              \A k \in 1..i[p] : lock'[LockFiles[p][k]].by # p
        BY <1>1, <1>3, <2>1, <3>1 DEF LeavingAt
      <4> QED BY <1>2, <2>1, <3>3, <4>1, <4>2, OnwardSound DEF Sound
    <3> QED BY <3>2, <3>3
  <2>3. CASE lock[File(p)] # NoLock
    <3>1. /\ lock' = [lock EXCEPT ![File(p)] = NoLock] /\ robbed \subseteq robbed'
          /\ IF Locks(p) THEN Goto(p, "make") /\ UNCHANGED <<goal, i, lent>> ELSE Onward(p)
      BY <1>9, <2>3 DEF RemovesStale, Robs
    <3>2. lock'[File(p)] = NoLock /\ NoLock.by \notin Procs
          /\ \A k \in 1..(i[p] - 1) : lock'[LockFiles[p][k]] = lock[LockFiles[p][k]]
      BY <1>1, <1>3, <3>1, LocksAssumption DEF LocksTypeOK, NoLock
    <3>3. CASE Locks(p)
      <4>1. pc'[p] = "make" /\ UNCHANGED <<goal, i, lent>> /\ File(p)' = File(p)
        BY <1>1, <3>1, <3>3 DEF Goto, LocksTypeOK, File
      <4>2. HoldingAt(p)'
        BY <1>1, <2>1, <3>1, <3>2, <3>3, <4>1 DEF HoldingAt, Has, Talks, Locks
      <4>3. WindowAt(p)'
        BY <3>2, <4>1 DEF WindowAt, Alive
      <4> QED BY <1>1, <1>2, <2>1, <3>3, <4>1, <4>2, <4>3 DEF Sound, PlacesAt, LeavingAt, Locks
    <3>4. CASE ~Locks(p)
      <4>1. goal[p] = "cleanup" /\ <<p, "close">> \notin signalled =>
              \A k \in 1..i[p] : lock'[LockFiles[p][k]].by # p
        BY <1>1, <1>3, <2>1, <3>2 DEF LeavingAt
      <4> QED BY <1>2, <2>1, <3>1, <3>4, <4>1, OnwardSound DEF Sound
    <3> QED BY <3>3, <3>4
  <2> QED BY <2>2, <2>3
<1>10. CASE Renames(p)
  <2>1. /\ pc[p] = "make" /\ pc' = [pc EXCEPT ![p] = "close"] /\ robbed \subseteq robbed'
        /\ lock' = [lock EXCEPT ![File(p)] = [by |-> p, flushed |-> FALSE]]
        /\ UNCHANGED <<goal, i, lent, signalled>>
    BY <1>10 DEF Renames, Robs, Goto, IsAt
  <2>2. pc'[p] = "close" /\ Locks(p) /\ lock'[File(p)].by = p
        /\ \A k \in 1..(i[p] - 1) : lock'[LockFiles[p][k]] = lock[LockFiles[p][k]]
    BY <1>1, <1>3, <2>1 DEF LocksTypeOK, PlacesAt
  <2>3. HoldingAt(p)'
    BY <1>1, <1>3, <2>1, <2>2 DEF HoldingAt, Has, Talks, Locks
  <2> QED BY <1>1, <1>2, <2>1, <2>2, <2>3 DEF Sound, PlacesAt, WindowAt, LeavingAt, Locks
<1>11. CASE CannotMake(p)
  <2>1. pc[p] = "make" /\ GivesUp(p) /\ UNCHANGED <<lock, robbed, signalled>> /\ Locks(p)
    BY <1>1, <1>11 DEF CannotMake, IsAt, PlacesAt
  <2>2. UNCHANGED <<goal, i, lent>> /\ pc'[p] = "ended"
    BY <1>1, <2>1 DEF GivesUp, Goto, LocksTypeOK
  <2> QED BY <1>1, <1>2, <2>1, <2>2
          DEF Sound, PlacesAt, HoldingAt, WindowAt, LeavingAt, Talks, Locks
<1>12. CASE Closes(p)
  <2>1. pc[p] = "close" /\ Onward(p) /\ robbed' = robbed /\ signalled' = signalled /\ Locks(p)
    BY <1>1, <1>12 DEF Closes, IsAt, PlacesAt
  <2>2. \A f \in Files : lock'[f].by = lock[f].by
    BY <1>1, <2>1, OneWrites DEF Writes
  <2>3. p \in robbed' \/ \A k \in 1..i[p] : lock'[LockFiles[p][k]].by = p
    BY <1>1, <1>3, <2>1, <2>2 DEF HoldingAt, Has
  <2> QED BY <1>2, <2>1, <2>3, OnwardSound DEF Sound, Locks
<1>13. CASE Unlocks(p)
  <2>1. /\ pc[p] = "unlock" /\ Onward(p) /\ signalled' = signalled /\ ~Locks(p)
        /\ IF lock[File(p)] = NoLock THEN lock' = lock
           ELSE lock' = [lock EXCEPT ![File(p)] = NoLock]
    BY <1>1, <1>13 DEF Unlocks, IsAt, PlacesAt
  <2>2. lock'[File(p)] = NoLock /\ NoLock.by \notin Procs
        /\ \A k \in 1..(i[p] - 1) : lock'[LockFiles[p][k]] = lock[LockFiles[p][k]]
    BY <1>1, <1>3, <2>1, LocksAssumption DEF LocksTypeOK, NoLock
  <2>3. goal[p] = "cleanup" /\ <<p, "close">> \notin signalled =>
          \A k \in 1..i[p] : lock'[LockFiles[p][k]].by # p
    BY <1>1, <1>3, <2>1, <2>2 DEF LeavingAt
  <2> QED BY <1>2, <2>1, <2>3, OnwardSound DEF Sound
<1> QED BY <1>4, <1>5, <1>6, <1>7, <1>8, <1>9, <1>10, <1>11, <1>12, <1>13 DEF Step, LockSteps

----------------------------------------------------------------------------
LEMMA InitSound == InitLocks => LocksInv
<1> SUFFICES ASSUME InitLocks PROVE LocksInv
  OBVIOUS
<1>1. \A p \in Procs : 1 \in 1..Len(LockFiles[p])
  BY Numbered
<1>2. LocksTypeOK
  <2>1. Old \in [by : Procs \cup {"nobody", "gone"}, flushed : BOOLEAN]
        /\ NoLock \in [by : Procs \cup {"nobody", "gone"}, flushed : BOOLEAN]
    BY DEF Old, NoLock
  <2> QED BY <1>1, <2>1 DEF InitLocks, LocksTypeOK
<1>3. ASSUME NEW p \in Procs PROVE Sound(p)
  <2>1. \A f \in Files : lock[f].by # p
    BY LocksAssumption DEF InitLocks, Old, NoLock
  <2>2. pc[p] = "idle" /\ goal[p] = "lock" /\ p \notin lent
    BY DEF InitLocks
  <2> QED BY <2>1, <2>2 DEF Sound, PlacesAt, HoldingAt, WindowAt, LeavingAt, OwnedBy, Talks
<1> QED BY <1>2, <1>3 DEF LocksInv

LEMMA StepSound == LocksInv /\ [NextLocks]_locksVars => LocksInv'
<1> SUFFICES ASSUME LocksInv, [NextLocks]_locksVars PROVE LocksInv'
  OBVIOUS
<1>1. CASE UNCHANGED locksVars
  BY <1>1 DEF locksVars, LocksInv, LocksTypeOK, Sound, PlacesAt, HoldingAt, WindowAt, LeavingAt, OwnedBy,
    Has, Talks, Locks, File, Alive
<1>2. ASSUME NEW p \in Procs, Step(p) PROVE LocksInv'
  BY <1>2, TypeStep, SelfSound, BystanderSound DEF LocksInv
<1> QED BY <1>1, <1>2 DEF NextLocks, Step

(* The inductive invariant, from which the rest follows.                   *)
THEOREM LockingHolds == SpecLocks => []LocksInv
BY InitSound, StepSound, PTL DEF SpecLocks

(* The locks are held while the modem is talked to and given back by       *)
(* cleanup(), for any processes, lock files, signals and kills.            *)
THEOREM LocksAreHeld == SpecLocks => []LocksHeld
<1>1. ASSUME LocksInv PROVE LocksHeld
  <2>1. TalksUnderLock
    <3>1. ASSUME NEW p \in Procs, Talks(p), p \notin lent, p \notin robbed,
                 NEW f \in Range(LockFiles[p])
          PROVE  lock[f].by = p
      <4>1. \A k \in 1..Len(LockFiles[p]) : lock[LockFiles[p][k]].by = p
        BY <1>1, <3>1 DEF LocksInv, Sound, HoldingAt, Has
      <4> QED BY <3>1, <4>1, Numbered
    <3> QED BY <3>1 DEF TalksUnderLock
  <2>2. NoLockLeft
    BY <1>1 DEF LocksInv, Sound, LeavingAt, NoLockLeft, IsAt
  <2> QED BY <1>1, <2>1, <2>2 DEF LocksHeld, LocksInv
<1> QED BY <1>1, LockingHolds, PTL

(* A lock is taken from a process that lives only by one that had looked   *)
(* at the file before that lock was made: the window between ttlocked()    *)
(* and rename() is the only way in, however many programs share a modem.   *)
THEOREM RobbedInRace == SpecLocks => RobbedOnlyInRace
<1>1. ASSUME LocksInv, [NextLocks]_locksVars, NEW f \in Files, Alive(lock[f].by), lock'[f].by # lock[f].by
      PROVE  \E p \in Procs : /\ pc'[p] # pc[p] \/ i'[p] # i[p]
                              /\ p = lock[f].by \/ lock[f].by \in missed[p]
  <2>1. PICK p \in Procs : Step(p)
    BY <1>1 DEF NextLocks, Step, locksVars
  <2>2. LocksTypeOK /\ Sound(p) /\ File(p) \in Files
    BY <1>1, Present DEF LocksInv
  <2>3. f = File(p) /\ pc[p] \in {"make", "unstale", "unlock"}
    BY <1>1, <2>1, <2>2, OneWrites DEF Removes, Makes, Writes, LocksTypeOK
  <2>4. p = lock[f].by \/ lock[f].by \in missed[p]
    BY <1>1, <2>2, <2>3 DEF Sound, WindowAt
  <2>5. pc'[p] # pc[p]
    <3>1. After[goal[p]] \in {"open", "wait", "session", "exit"}
      BY <2>2 DEF LocksTypeOK, After
    <3>2. \/ Renames(p) \/ CannotMake(p) \/ RemovesStale(p) \/ Unlocks(p)
          \/ Signalled(p) \/ Killed(p)
      BY <2>1, <2>3 DEF Step, LockSteps, Begins, Looks, Opens, Polls, Lends, Rings, PicksUp,
        SessionOver, Resets, Closes, Exits, IsAt
    <3>3. \E x \in {"close", "make", "reset", "dead", "ended", "look", "open", "wait", "session", "exit"} :
             pc' = [pc EXCEPT ![p] = x] /\ (x = "make" => pc[p] = "unstale")
      <4>1. CASE Onward(p)
        BY <3>1, <4>1 DEF Onward, Goto
      <4>2. CASE GivesUp(p) /\ ~Onward(p)
        BY <4>2 DEF GivesUp, Goto
      <4> QED BY <3>2, <4>1, <4>2 DEF Renames, CannotMake, RemovesStale, Unlocks, Signalled, Killed,
        Goto, IsAt
    <3> QED BY <2>2, <2>3, <3>3 DEF LocksTypeOK
  <2> QED BY <2>4, <2>5
<1>2. LocksInv /\ [NextLocks]_locksVars =>
        [\A f \in Files : Alive(lock[f].by) /\ lock'[f].by # lock[f].by
           => \E p \in Procs : /\ pc'[p] # pc[p] \/ i'[p] # i[p]
                               /\ p = lock[f].by \/ lock[f].by \in missed[p]]_locksVars
  BY <1>1
<1> QED BY <1>2, LockingHolds, PTL DEF SpecLocks, RobbedOnlyInRace

==============================================================================
