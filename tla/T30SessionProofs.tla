--------------------------- MODULE T30SessionProofs ---------------------------
(***************************************************************************)
(* For any documents, modems, lines and number of faults: in a session     *)
(* what an end counts as sent is in a file of the other end, and what is   *)
(* written there is what was sent, in order and in its format.  The        *)
(* argument is about an end s and the other end u, with what s has put on  *)
(* the line, x, and what u has, y; it holds of the two in either order.    *)
(***************************************************************************)
EXTENDS T30Session, SequenceTheorems, TLAPS

(* What the run, too, assumes of the session: efax is without option -o n, *)
(* with which it counts a page as sent whatever is answered (noretry in    *)
(* c1sndrcv()); a page on the line may be garbled but its carrier is not   *)
(* lost, after which receive_data() leaves the file open for another page. *)
Sound == ~NoRetry /\ ~Cuts

(* The other machine does not accept a page by PIP, after which a session   *)
(* whose last page that was ends with an error.                            *)
NoPIP == "PIP" \notin PeerAnswers

Docs == CallerPages \cup AnswererPages

Fields == {"pc", "err", "localBR", "remoteBR", "br", "localVR", "remoteVR",
           "vr", "doc", "cur", "dp", "ppm", "try", "pagetry", "remtx", "sent", "t",
           "frame", "good", "rxpage", "writepending", "files"}

Line == [page : Nat, yres : Resolutions, lines : Resolutions, asked : Resolutions,
         quality : {"good", "bad", "cut"}]

(* A record of an end, field by field. *)
Typed(s) ==
  /\ DOMAIN s = Fields /\ s = [f \in DOMAIN s |-> s[f]]
  /\ s.pc \in Listening \cup {"off"} /\ s.err \in 0..3
  /\ s.localBR \in Codes /\ s.remoteBR \in Codes \cup {-1} /\ s.br \in Codes
  /\ s.localVR \in Resolutions /\ s.remoteVR \in Resolutions
  /\ s.vr \in Resolutions /\ s.doc \in Docs /\ s.doc \in Seq(Resolutions)
  /\ s.cur \in Nat \ {0} /\ s.dp \in {0, 1} /\ s.ppm \in PostPage
  /\ s.try \in Nat /\ s.pagetry \in Nat /\ s.remtx \in BOOLEAN /\ s.sent \in Seq(Nat)
  /\ s.t \in 0..MaxDIS /\ s.frame \in {"none", "carrier", "DIS", "DCS", "MPS", "EOM", "EOP"}
  /\ s.good \in BOOLEAN /\ s.rxpage \in Nat /\ s.writepending \in BOOLEAN
  /\ s.files \in Seq(Seq(Line))

\* An end that is typed field by field is one of States.
LEMMA TypedIs ==
  ASSUME NEW s, Typed(s) PROVE s \in States
<1>1. s.doc \in CallerPages \cup AnswererPages
  BY DEF Typed, Docs
<1>2. PostPage = {"MPS", "EOM", "EOP"}
  BY DEF PostPage
<1> QED BY <1>1, <1>2 DEF Typed, States, Fields, Line

----------------------------------------------------------------------------
(* The inductive invariant *)

Receiving == {"waitR", "F", "train", "data"}
Sending   == {"waitDCS", "waitPPR"}
Replies   == {"MCF", "RTN", "RTP", "PIN", "PIP", "CFR", "FTT"}
Accepts   == {"MCF", "RTP", "PIP"}

\* What is said after page c of a document.
PPM(doc, c) == IF c = Len(doc) THEN "EOP"
               ELSE IF doc[c + 1] # doc[c] THEN "EOM" ELSE "MPS"

AtPage(s) == s.cur \in DOMAIN s.doc /\ s.localVR = s.doc[s.cur] /\ s.ppm = PPM(s.doc, s.cur)

\* The session is of the resolution that both ends have.
Agreed(s) == s.vr = Lesser(s.localVR, s.remoteVR)

\* What a sender knows of the resolution the other end asked for is so.
Known(s, u) == s.pc \in Sending => s.remoteVR = u.localVR

(* Each page that came is in a file of its own, and the file opened for the *)
(* next is empty; it is there but for the time the opening is postponed.    *)
FilesShape(s) ==
  /\ s.rxpage <= Len(s.files) /\ Len(s.files) <= s.rxpage + 1
  /\ \A i \in 1..Len(s.files) :
       IF i <= s.rxpage THEN Len(s.files[i]) = 1 /\ s.files[i][1].quality # "cut"
                        ELSE s.files[i] = <<>>
  /\ s.writepending => (s.pc = "F" /\ Len(s.files) = s.rxpage)
  /\ (s.pc \in Receiving /\ ~s.writepending) => Len(s.files) = s.rxpage + 1
  /\ (s.pc # "off" /\ ~s.writepending /\ s.rxpage > 0) => Len(s.files) = s.rxpage + 1

(* What holds of an end by itself. *)
Own(s) ==
  /\ Typed(s) /\ FilesShape(s)
  /\ s.pc # "off" => (s.err = 0 /\ s.remoteBR # -1)
  /\ s.pc \in Sending => (AtPage(s) /\ Agreed(s))
  /\ (s.pc \in Receiving /\ s.doc # <<>>) => (s.dp = 0 \/ s.cur > Len(s.doc))
  /\ s.sent # <<>> \/ (s.cur = 1 /\ s.dp = 0)

Page(s, q) == <<[Data(s) EXCEPT !.quality = q], Frame(s.ppm)>>

(* What an end may have on the line. *)
Spoken(s, x) ==
  \/ x = <<>>
  \/ s.pc = "waitDCS" /\ x \in {<<DCS(s), TCF(s)>>, <<TCF(s)>>}
  \/ s.pc = "waitPPR" /\ x \in {Page(s, "good"), Page(s, "bad"), <<Frame(s.ppm)>>}
  \/ s.pc = "waitR" /\ x = <<DIS(s)>>
  \/ /\ s.pc \in {"F", "train", "data", "off"}
     /\ \E k \in Replies : x = <<Frame(k)>> /\ (k = "PIP" => ~NoPIP)
  \/ s.pc = "off" /\ x = <<Frame("DCN")>>

\* Page p is in a file of u.
Has(u, p) == \E i \in 1..u.rxpage : u.files[i][1].page = p

(* While s waits for the answer to a page u is at its rate and format, and  *)
(* has the page as soon as it would confirm it.                             *)
Paging(s, u, x, y) ==
  s.pc = "waitPPR" =>
    /\ u.pc \notin {"waitDCS", "train"} /\ u.br = s.br /\ u.vr = s.vr
    /\ Len(x) = 2 => u.pc = "data"
    /\ (\E k \in Accepts : y = <<Frame(k)>>) => Has(u, s.cur)
    /\ (y = <<Frame("MCF")>> /\ s.ppm = "MPS") => u.pc = "data"
    /\ (Len(x) < 2 /\ u.good) => Has(u, s.cur)

(* An end is trained for the page that the other is about to send.          *)
Training(s, u, y) ==
  /\ u.pc = "train" => (s.pc \in {"waitDCS", "off"} /\ (s.pc = "waitDCS" => u.vr = s.vr))
  /\ (s.pc = "waitDCS" /\ y = <<Frame("CFR")>>) => (u.pc = "data" /\ u.br = s.br /\ u.vr = s.vr)

\* In a document of one format there is no change of format, at which alone an
\* end that has confirmed a page goes back to the start.
OneStart(s, u) ==
  /\ u.frame = "EOM" => ~OneFormat(s.doc)
  /\ (OneFormat(s.doc) /\ s.dp = 1 /\ s.pc \in {"T", "waitDCS"}) => u.pc # "waitR"

NotSkipped(s) == OneFormat(s.doc) => 1..(s.cur - 1) \cap DOMAIN s.doc \subseteq SentPages(s)

SentKept(s, u) == \A i \in 1..Len(s.sent) : Has(u, s.sent[i])

(* What u has written of what s has sent. *)
Filed(s, u) ==
  /\ u.rxpage > 0 => u.files[1][1].page = 1
  /\ \A i \in 1..u.rxpage :
       /\ u.files[i][1].page \in DOMAIN s.doc /\ u.files[i][1].page <= s.cur
       /\ u.files[i][1].yres = u.files[i][1].lines
       /\ u.files[i][1].lines = Lesser(s.doc[u.files[i][1].page], u.files[i][1].asked)
  /\ \A i, j \in 1..u.rxpage : i <= j => u.files[i][1].page <= u.files[j][1].page
  /\ OneFormat(s.doc) => \A i \in 2..u.rxpage : u.files[i][1].page <= u.files[i - 1][1].page + 1

Half(s, u, x, y) ==
  /\ Own(s) /\ Spoken(s, x) /\ (x = <<>> \/ y = <<>>)
  /\ Paging(s, u, x, y) /\ Training(s, u, y) /\ OneStart(s, u) /\ Known(s, u)
  /\ s.remtx => u.doc # <<>>
  /\ SentKept(s, u) /\ NotSkipped(s) /\ Filed(s, u)

Both(s, u, x, y) == Half(s, u, x, y) /\ Half(u, s, y, x)

(* The last page is confirmed only to an end that is done, or that polls,   *)
(* unless it can be accepted by PIP.                                       *)
Confirmed(s) ==
  (NoPIP /\ s.doc # <<>> /\ Len(s.doc) \in SentPages(s)) =>
    ((s.pc = "off" /\ s.err = 0) \/ s.remtx)

(* The two ends and what they have put on the line.                         *)
Joined ==
  /\ st = [e \in Ends |-> st[e]] /\ air = [e \in Ends |-> air[e]]
  /\ channel \in Channels /\ faults \in 0..MaxFaults

IInv == /\ Joined
        /\ \A e \in Ends : /\ Half(st[e], st[Other(e)], air[e], air[Other(e)])
                           /\ Confirmed(st[e])

----------------------------------------------------------------------------
(* What a step of s may leave as it is *)

\* The fields of q that are not in changed are those of s.
Agree(q, s, changed) ==
  DOMAIN q = Fields /\ q = [f \in DOMAIN q |-> q[f]] /\ \A f \in Fields \ changed : q[f] = s[f]

\* The pages s has been sent are as they were.
SamePages(s, q) == q.rxpage = s.rxpage /\ \A i \in 1..s.rxpage : q.files[i] = s.files[i]

\* A receiver whose page files are as they were has still what was sent to it.
LEMMA PagesStay ==
  ASSUME NEW s, NEW q, NEW u, s.rxpage \in Nat,
         SamePages(s, q), SentKept(u, s), Filed(u, s)
  PROVE  /\ SentKept(u, q) /\ Filed(u, q)
         /\ \A p : Has(s, p) => Has(q, p)
<1>1. \A p : Has(s, p) => Has(q, p)
  BY DEF SamePages, Has
<1>2. SentKept(u, q)
  BY <1>1 DEF SentKept
<1>3. \A i \in 1..q.rxpage : q.files[i][1] = s.files[i][1]
  BY DEF SamePages
<1>4. q.rxpage = s.rxpage
  BY DEF SamePages
<1>5. Filed(u, q)
  <2>1. \A i \in 2..q.rxpage : i - 1 \in 1..q.rxpage /\ i \in 1..q.rxpage
    BY <1>4
  <2>2. OneFormat(u.doc) =>
          \A i \in 2..q.rxpage : q.files[i][1].page <= q.files[i - 1][1].page + 1
    BY <1>3, <1>4, <2>1 DEF Filed
  <2>3. q.rxpage > 0 => q.files[1][1] = s.files[1][1]
    BY <1>3, <1>4
  <2> QED BY <1>3, <1>4, <2>2, <2>3 DEF Filed
<1> QED BY <1>1, <1>2, <1>5

\* What is filed of a sender is filed of it when it has gone on.
LEMMA FiledOnward ==
  ASSUME NEW s, NEW q, NEW u, Filed(s, u), q.doc = s.doc, s.cur \in Nat, q.cur \in Nat,
         q.cur >= s.cur, \A i \in 1..u.rxpage : u.files[i][1].page \in Nat
  PROVE  Filed(q, u)
<1>1. \A i \in 1..u.rxpage : u.files[i][1].page <= q.cur
  BY DEF Filed
<1> QED BY <1>1 DEF Filed

(* What is to be shown of a step of s, to q, that changes nothing of what  *)
(* it was sent: the rest is as it was.                                     *)
LEMMA StepGood ==
  ASSUME NEW s, NEW u, NEW x, NEW y, NEW q, NEW x2, NEW y2, Both(s, u, x, y),
         Own(q), Spoken(q, x2), Spoken(u, y2), x2 = <<>> \/ y2 = <<>>,
         q.doc = s.doc, SamePages(s, q), q.cur >= s.cur, q.remtx => u.doc # <<>>,
         Paging(q, u, x2, y2), Training(q, u, y2), OneStart(q, u),
         Paging(u, q, y2, x2), Training(u, q, x2), OneStart(u, q),
         Known(q, u), q.localVR = s.localVR \/ u.pc \notin Sending,
         SentKept(q, u), NotSkipped(q)
  PROVE  Both(q, u, x2, y2)
<1>1. /\ Filed(s, u) /\ Filed(u, s) /\ SentKept(u, s) /\ NotSkipped(u) /\ Own(u) /\ Own(s)
      /\ u.remtx => s.doc # <<>>
  BY DEF Both, Half
<1>2. SentKept(u, q) /\ Filed(u, q)
  BY <1>1, PagesStay DEF Own, Typed
<1>3. \A i \in 1..u.rxpage : u.files[i][1].page \in Nat
  <2>1. s.doc \in Seq(Resolutions)
    BY <1>1 DEF Own, Typed
  <2>2. \A k \in DOMAIN s.doc : k \in Nat
    BY <2>1
  <2> QED BY <1>1, <2>2 DEF Filed
<1>4. Filed(q, u)
  <2>1. s.cur \in Nat /\ q.cur \in Nat
    BY <1>1 DEF Own, Typed
  <2> QED BY <1>1, <1>3, <2>1, FiledOnward
<1>5. Known(u, q)
  BY DEF Both, Half, Known
<1> QED BY <1>1, <1>2, <1>4, <1>5 DEF Both, Half

----------------------------------------------------------------------------
(* What is heard tells where the other end is *)

LEMMA KindsApart ==
  /\ Replies = {"MCF", "RTN", "RTP", "PIN", "PIP", "CFR", "FTT"}
  /\ PostPage = {"MPS", "EOM", "EOP"}
BY DEF Replies, PostPage

(* The signals of each kind, as they stand at the head of the line.         *)
Heard(u, y) ==
  LET k == Head(y).kind IN
  /\ k = "DIS" => u.pc = "waitR" /\ y = <<DIS(u)>>
  /\ k \in Replies => u.pc \in {"F", "train", "data", "off"} /\ y = <<Frame(k)>>
  /\ k = "PIP" => ~NoPIP
  /\ k = "DCS" => u.pc = "waitDCS" /\ y = <<DCS(u), TCF(u)>>
  /\ k = "TCF" => u.pc = "waitDCS" /\ y = <<TCF(u)>>
  /\ k = "DATA" => u.pc = "waitPPR" /\ y \in {Page(u, "good"), Page(u, "bad")}
  /\ k \in PostPage => u.pc = "waitPPR" /\ y = <<Frame(u.ppm)>> /\ k = u.ppm
  /\ k = "DCN" => u.pc = "off"
  /\ k \in Replies \cup PostPage \cup {"DIS", "DCS", "TCF", "DATA", "DCN"}

\* A page on the line is the data and then the post-page message.
LEMMA PageIs ==
  ASSUME NEW s, NEW k
  PROVE  /\ Len(Page(s, k)) = 2 /\ Page(s, k) # <<>>
         /\ Tail(Page(s, k)) = <<Frame(s.ppm)>>
         /\ Head(Page(s, k)).kind = "DATA" /\ Head(Page(s, k)).br = s.br
         /\ Head(Page(s, k)).page = s.cur /\ Head(Page(s, k)).quality = k
         /\ Head(Page(s, k)).vr = Lesser(s.localVR, s.vr)
BY DEF Page, Data

\* What is at the head of the line tells the state of the end it comes from.
LEMMA HeardIs ==
  ASSUME NEW u, NEW y, Own(u), Spoken(u, y), y # <<>>
  PROVE  Heard(u, y) /\ Spoken(u, Tail(y))
<1>1. u.ppm \in PostPage
  BY DEF Own, Typed
<1>2. CASE u.pc = "waitDCS" /\ y \in {<<DCS(u), TCF(u)>>, <<TCF(u)>>}
  <2>1. y = <<DCS(u), TCF(u)>> => Head(y).kind = "DCS" /\ Tail(y) = <<TCF(u)>>
    BY DEF DCS
  <2>2. y = <<TCF(u)>> => Head(y).kind = "TCF" /\ Tail(y) = <<>>
    BY DEF TCF
  <2> QED BY <1>2, <2>1, <2>2, KindsApart DEF Heard, Spoken
<1>3. CASE u.pc = "waitPPR" /\ y \in {Page(u, "good"), Page(u, "bad")}
  <2>1. Head(y).kind = "DATA" /\ Tail(y) = <<Frame(u.ppm)>>
    BY <1>3, PageIs
  <2> QED BY <1>3, <2>1, KindsApart DEF Heard, Spoken
<1>4. CASE u.pc = "waitPPR" /\ y = <<Frame(u.ppm)>>
  <2>1. Head(y).kind = u.ppm /\ Tail(y) = <<>>
    BY <1>4 DEF Frame
  <2> QED BY <1>1, <1>4, <2>1, KindsApart DEF Heard, Spoken
<1>5. CASE u.pc = "waitR" /\ y = <<DIS(u)>>
  <2>1. Head(y).kind = "DIS" /\ Tail(y) = <<>>
    BY <1>5 DEF DIS
  <2> QED BY <1>5, <2>1, KindsApart DEF Heard, Spoken
<1>6. CASE /\ u.pc \in {"F", "train", "data", "off"}
           /\ \E k \in Replies : y = <<Frame(k)>> /\ (k = "PIP" => ~NoPIP)
  <2>1. PICK k \in Replies : y = <<Frame(k)>> /\ (k = "PIP" => ~NoPIP)
    BY <1>6
  <2>2. Head(y).kind = k /\ Tail(y) = <<>>
    BY <2>1 DEF Frame
  <2> QED BY <1>6, <2>1, <2>2, KindsApart DEF Heard, Spoken
<1>7. CASE u.pc = "off" /\ y = <<Frame("DCN")>>
  <2>1. Head(y).kind = "DCN" /\ Tail(y) = <<>>
    BY <1>7 DEF Frame
  <2> QED BY <1>7, <2>1, KindsApart DEF Heard, Spoken
<1> QED BY <1>2, <1>3, <1>4, <1>5, <1>6, <1>7 DEF Spoken

----------------------------------------------------------------------------
(* The steps of an end, by what they change of it *)

LEMMA OwnIs ==
  ASSUME NEW s, Own(s)
  PROVE  /\ Typed(s) /\ s.rxpage \in Nat /\ s.cur \in Nat /\ s.files \in Seq(Seq(Line))
         /\ s.doc \in Seq(Resolutions) /\ s.pc \in Listening \cup {"off"}
         /\ s.ppm \in PostPage
         /\ s.good \in BOOLEAN /\ s.writepending \in BOOLEAN /\ s.dp \in {0, 1}
         /\ s.sent \in Seq(Nat) /\ FilesShape(s)
BY DEF Own, Typed

(* Nothing that the invariant is about changes. *)
Trifles == {"t", "try", "pagetry", "remoteBR", "remoteVR", "remtx", "frame"}

\* Counters, and what is known of the other end, may change.
LEMMA TrifleGood ==
  ASSUME NEW s, NEW u, NEW x, NEW y, NEW q, Both(s, u, x, y), Typed(q), Agree(q, s, Trifles),
         s.pc # "off" => q.remoteBR # -1, q.remtx => u.doc # <<>>,
         q.remoteVR = s.remoteVR \/ q.remoteVR = u.localVR,
         q.frame = s.frame \/ q.frame # "EOM"
  PROVE  Both(q, u, x, y)
<1>1. /\ q.pc = s.pc /\ q.err = s.err /\ q.localBR = s.localBR /\ q.localVR = s.localVR
      /\ q.br = s.br /\ q.vr = s.vr
      /\ q.doc = s.doc /\ q.cur = s.cur /\ q.dp = s.dp /\ q.ppm = s.ppm /\ q.sent = s.sent
      /\ q.good = s.good /\ q.rxpage = s.rxpage /\ q.writepending = s.writepending
      /\ q.files = s.files
  BY DEF Agree, Fields, Trifles
<1>2. Half(s, u, x, y) /\ Half(u, s, y, x)
  BY DEF Both
<1>11. Known(q, u) /\ (s.pc \in Sending => q.remoteVR = s.remoteVR)
  BY <1>1, <1>2 DEF Half, Known
<1>3. Own(q)
  BY <1>1, <1>2, <1>11 DEF Half, Own, FilesShape, AtPage, Agreed
<1>4. Spoken(q, x)
  BY <1>1, <1>2 DEF Half, Spoken, Page, Data, DIS, DCS, TCF
<1>5. SamePages(s, q) /\ q.cur >= s.cur
  BY <1>1, <1>2 DEF SamePages, Half, Own, Typed
<1>6. Paging(q, u, x, y) /\ Training(q, u, y) /\ OneStart(q, u)
  BY <1>1, <1>2 DEF Half, Paging, Training, OneStart
<1>7. \A p : Has(q, p) <=> Has(s, p)
  BY <1>1 DEF Has
<1>8. Paging(u, q, y, x) /\ Training(u, q, x)
  BY <1>1, <1>2, <1>7 DEF Half, Paging, Training
<1>9. OneStart(u, q)
  BY <1>1, <1>2 DEF Half, OneStart
<1>10. SentKept(q, u) /\ NotSkipped(q)
  BY <1>1, <1>2 DEF Half, SentKept, NotSkipped, SentPages
<1> QED BY <1>1, <1>2, <1>3, <1>4, <1>5, <1>6, <1>8, <1>9, <1>10, <1>11, StepGood DEF Half

\* A page that is on the line is about to be heard.
LEMMA PageIsHeard ==
  ASSUME NEW s, NEW u, NEW x, NEW y, Paging(u, s, y, x), Spoken(u, y), u.pc = "waitPPR",
         s.pc # "data"
  PROVE  Len(y) < 2 /\ y \in {<<>>, <<Frame(u.ppm)>>}
<1>1. y = <<>> \/ y = <<Frame(u.ppm)>> \/ y \in {Page(u, "good"), Page(u, "bad")}
  BY DEF Spoken
<1>2. Len(y) # 2
  BY DEF Paging
<1>3. y = <<>> => Len(y) < 2
  OBVIOUS
<1>4. y = <<Frame(u.ppm)>> => Len(y) < 2
  OBVIOUS
<1> QED BY <1>1, <1>2, <1>3, <1>4, PageIs

(* The end hangs up. *)
LEMMA HangsUp ==
  ASSUME NEW s, NEW u, NEW x, NEW y, NEW q, NEW x2, Both(s, u, x, y), s.pc \notin {"data", "train"},
         Typed(q), q.pc = "off", FilesShape(q), SamePages(s, q), q.doc = s.doc,
         q.frame = s.frame, q.good = s.good, q.br = s.br, q.vr = s.vr, q.localVR = s.localVR,
         q.remtx => u.doc # <<>>, SentKept(q, u), q.cur >= s.cur, NotSkipped(q),
         q.sent # <<>> \/ (q.cur = 1 /\ q.dp = 0),
         x2 \in {<<>>, <<Frame("DCN")>>} \/ (x2 = x /\ s.pc = "F")
  PROVE  Both(q, u, x2, <<>>)
<1>1. Half(s, u, x, y) /\ Half(u, s, y, x) /\ Own(s)
  BY DEF Both, Half
<1>2. Own(q)
  BY DEF Own, Sending, Receiving
<1>3. Spoken(q, x2) /\ Spoken(u, <<>>)
  BY <1>1 DEF Half, Spoken
<1>4. Paging(q, u, x2, <<>>) /\ Training(q, u, <<>>) /\ OneStart(q, u)
  BY <1>1 DEF Half, Paging, Training, OneStart
<1>5. \A p : Has(s, p) => Has(q, p)
  BY DEF Has, SamePages
<1>6. x2 \in {<<>>, <<Frame("DCN")>>} =>
        x2 # <<Frame("CFR")>> /\ \A k \in Accepts : x2 # <<Frame(k)>>
  <2>1. \A k : <<>> # <<Frame(k)>>
    OBVIOUS
  <2>2. \A k : <<Frame("DCN")>> = <<Frame(k)>> => k = "DCN"
    BY DEF Frame
  <2>3. "DCN" # "CFR" /\ "DCN" \notin Accepts
    BY DEF Accepts
  <2> QED BY ONLY <2>1, <2>2, <2>3
<1>7. Paging(u, q, <<>>, x2)
  <2>1. SUFFICES ASSUME u.pc = "waitPPR"
                 PROVE  /\ q.pc \notin {"waitDCS", "train"} /\ q.br = u.br /\ q.vr = u.vr
                        /\ (\E k \in Accepts : x2 = <<Frame(k)>>) => Has(q, u.cur)
                        /\ (x2 = <<Frame("MCF")>> /\ u.ppm = "MPS") => q.pc = "data"
                        /\ q.good => Has(q, u.cur)
    BY DEF Paging
  <2>2. Paging(u, s, y, x) /\ Spoken(u, y)
    BY <1>1 DEF Half
  <2>3. Len(y) < 2
    BY <2>1, <2>2, PageIsHeard
  <2>4. (\E k \in Accepts : x2 = <<Frame(k)>>) => Has(q, u.cur)
    <3>1. CASE x2 = x
      BY <1>5, <2>1, <2>2, <3>1 DEF Paging
    <3> QED BY <1>6, <3>1
  <2> QED BY <1>5, <1>6, <2>1, <2>2, <2>3, <2>4 DEF Paging, Accepts
<1>8. Training(u, q, x2)
  BY <1>1, <1>6 DEF Half, Training
<1>9. OneStart(u, q)
  BY <1>1 DEF Half, OneStart
<1>10. Known(q, u)
  BY DEF Known, Sending
<1> QED BY <1>2, <1>3, <1>4, <1>7, <1>8, <1>9, <1>10, StepGood

(* The end announces a page, at a rate and in a format. *)
LEMMA Announces ==
  ASSUME NEW s, NEW u, NEW x, NEW y, NEW q, NEW x2, Both(s, u, x, y),
         s.pc \notin {"data", "train", "off"}, ~s.writepending, Typed(q),
         Agree(q, s, {"pc", "br", "try", "cur", "localVR", "vr", "ppm", "remoteBR"}),
         q.pc = "waitDCS", AtPage(q), Agreed(q), s.remoteVR = u.localVR,
         u.pc = "waitDCS" => q.localVR = s.localVR, q.remoteBR # -1, q.cur >= s.cur, NotSkipped(q),
         q.sent # <<>> \/ (q.cur = 1 /\ q.dp = 0),
         u.pc # "waitPPR", u.pc = "train" => (s.pc = "waitDCS" /\ q.vr = s.vr),
         (OneFormat(s.doc) /\ s.dp = 1) => u.pc # "waitR",
         x2 = <<DCS(q), TCF(q)>>
  PROVE  Both(q, u, x2, <<>>)
<1>1. Half(s, u, x, y) /\ Half(u, s, y, x) /\ Own(s)
  BY DEF Both, Half
<1>2. /\ q.err = s.err /\ q.localBR = s.localBR
      /\ q.remoteVR = s.remoteVR
      /\ q.doc = s.doc /\ q.dp = s.dp /\ q.sent = s.sent
      /\ q.good = s.good /\ q.rxpage = s.rxpage /\ q.writepending = s.writepending
      /\ q.files = s.files /\ q.frame = s.frame /\ q.remtx = s.remtx
  BY DEF Agree, Fields
<1>3. FilesShape(q)
  BY <1>1, <1>2 DEF Own, FilesShape, Receiving
<1>4. Own(q)
  BY <1>1, <1>2, <1>3 DEF Own, Sending, Receiving
<1>5. Spoken(q, x2) /\ Spoken(u, <<>>)
  BY DEF Spoken
<1>6. SamePages(s, q)
  BY <1>2 DEF SamePages
<1>7. /\ Paging(q, u, x2, <<>>) /\ Training(q, u, <<>>) /\ OneStart(q, u)
  BY <1>1, <1>2 DEF Half, Paging, Training, OneStart
<1>8. x2 # <<Frame("CFR")>>
  BY DEF Frame
<1>9. Paging(u, q, <<>>, x2) /\ Training(u, q, x2) /\ OneStart(u, q)
  BY <1>1, <1>2, <1>8 DEF Half, Paging, Training, OneStart
<1>10. SentKept(q, u)
  BY <1>1, <1>2 DEF Half, SentKept
<1>11. Known(q, u) /\ (q.localVR = s.localVR \/ u.pc \notin Sending)
  BY <1>2 DEF Known, Sending
<1> QED BY <1>1, <1>2, <1>4, <1>5, <1>6, <1>7, <1>9, <1>10, <1>11, StepGood DEF Half

(* The end sends a page, to one that is ready for it. *)
LEMMA SendsPage ==
  ASSUME NEW s, NEW u, NEW x, NEW y, NEW q, NEW x2, Both(s, u, x, y),
         s.pc \in Sending, Typed(q),
         Agree(q, s, {"pc", "try", "pagetry", "cur", "ppm"}),
         q.pc = "waitPPR", AtPage(q), q.cur >= s.cur, NotSkipped(q),
         q.sent # <<>> \/ (q.cur = 1 /\ q.dp = 0),
         u.pc = "data", u.br = q.br, u.vr = q.vr, x2 = Page(q, "good")
  PROVE  Both(q, u, x2, <<>>)
<1>1. Half(s, u, x, y) /\ Half(u, s, y, x) /\ Own(s)
  BY DEF Both, Half
<1>2. /\ q.err = s.err /\ q.localBR = s.localBR /\ q.localVR = s.localVR
      /\ q.doc = s.doc /\ q.dp = s.dp /\ q.sent = s.sent
      /\ q.good = s.good /\ q.rxpage = s.rxpage /\ q.writepending = s.writepending
      /\ q.files = s.files /\ q.frame = s.frame /\ q.remtx = s.remtx
      /\ q.remoteBR = s.remoteBR /\ q.remoteVR = s.remoteVR
      /\ q.br = s.br /\ q.vr = s.vr
  BY DEF Agree, Fields
<1>3. FilesShape(q)
  BY <1>1, <1>2 DEF Own, FilesShape, Receiving, Sending
<1>4. Own(q)
  BY <1>1, <1>2, <1>3 DEF Own, Sending, Receiving, Agreed
<1>5. Spoken(q, x2) /\ Spoken(u, <<>>)
  BY DEF Spoken
<1>6. SamePages(s, q)
  BY <1>2 DEF SamePages
<1>7. (\A k \in Accepts : <<>> # <<Frame(k)>>) /\ <<>> # <<Frame("MCF")>> /\ Len(x2) = 2
  BY PageIs
<1>8. /\ Paging(q, u, x2, <<>>) /\ Training(q, u, <<>>) /\ OneStart(q, u)
  <2>1. Paging(q, u, x2, <<>>)
    <3>1. ~(Len(x2) < 2)
      <4>1. PICK n : n = Len(x2)
        OBVIOUS
      <4>2. n = 2
        BY <1>7, <4>1
      <4>3. ~(n < 2)
        BY ONLY <4>2
      <4> QED BY <4>1, <4>3
    <3> QED BY <1>7, <3>1 DEF Paging
  <2>2. Training(q, u, <<>>) /\ OneStart(q, u)
    BY <1>1, <1>2 DEF Half, Training, OneStart
  <2> QED BY <2>1, <2>2
<1>9. Paging(u, q, <<>>, x2) /\ Training(u, q, x2) /\ OneStart(u, q)
  BY <1>1, <1>2 DEF Half, Paging, Training, OneStart
<1>10. SentKept(q, u)
  BY <1>1, <1>2 DEF Half, SentKept
<1>11. Known(q, u)
  BY <1>1, <1>2 DEF Half, Known
<1> QED BY <1>1, <1>2, <1>4, <1>5, <1>6, <1>8, <1>9, <1>10, <1>11, StepGood DEF Half

(* The end asks again whether the page has come. *)
LEMMA AsksAgain ==
  ASSUME NEW s, NEW u, NEW x, NEW y, NEW q, NEW x2, Both(s, u, x, y),
         s.pc = "waitPPR", Len(x) < 2, Typed(q), Agree(q, s, {"try"}), x2 = <<Frame(q.ppm)>>
  PROVE  Both(q, u, x2, <<>>)
<1>1. Half(s, u, x, y) /\ Half(u, s, y, x) /\ Own(s)
  BY DEF Both, Half
<1>2. /\ q.pc = s.pc /\ q.err = s.err /\ q.localBR = s.localBR /\ q.localVR = s.localVR
      /\ q.br = s.br /\ q.vr = s.vr
      /\ q.doc = s.doc /\ q.cur = s.cur /\ q.dp = s.dp /\ q.ppm = s.ppm /\ q.sent = s.sent
      /\ q.good = s.good /\ q.rxpage = s.rxpage /\ q.writepending = s.writepending
      /\ q.files = s.files /\ q.frame = s.frame /\ q.remtx = s.remtx
      /\ q.remoteBR = s.remoteBR /\ q.remoteVR = s.remoteVR
  BY DEF Agree, Fields
<1>3. Own(q)
  BY <1>1, <1>2 DEF Own, FilesShape, AtPage, Agreed
<1>4. Spoken(q, x2) /\ Spoken(u, <<>>)
  BY <1>2 DEF Spoken
<1>5. SamePages(s, q) /\ q.cur >= s.cur
  BY <1>1, <1>2 DEF SamePages, Own, Typed
<1>6. (\A k \in Accepts : <<>> # <<Frame(k)>>) /\ <<>> # <<Frame("MCF")>> /\ Len(x2) = 1
  OBVIOUS
<1>7. /\ Paging(q, u, x2, <<>>) /\ Training(q, u, <<>>) /\ OneStart(q, u)
  BY <1>1, <1>2, <1>6 DEF Half, Paging, Training, OneStart
<1>8. \A k \in Accepts \cup {"MCF", "CFR"} : x2 # <<Frame(k)>>
  <2>1. q.ppm \in {"MPS", "EOM", "EOP"}
    BY DEF Typed, PostPage
  <2> QED BY <2>1 DEF Frame, Accepts
<1>9. Paging(u, q, <<>>, x2)
  <2>1. SUFFICES ASSUME u.pc = "waitPPR"
                 PROVE  q.br = u.br /\ q.vr = u.vr /\ (q.good => Has(q, u.cur))
    BY <1>2, <1>8, <2>1 DEF Paging
  <2>2. Paging(u, s, y, x) /\ Spoken(u, y)
    BY <1>1 DEF Half
  <2>3. Len(y) < 2
    BY <2>1, <2>2, PageIsHeard
  <2> QED BY <1>2, <2>1, <2>2, <2>3 DEF Paging, Has
<1>10. Training(u, q, x2) /\ OneStart(u, q)
  BY <1>1, <1>2, <1>8 DEF Half, Training, OneStart
<1>11. SentKept(q, u) /\ NotSkipped(q)
  BY <1>1, <1>2 DEF Half, SentKept, NotSkipped, SentPages
<1>12. Known(q, u)
  BY <1>1, <1>2 DEF Half, Known
<1> QED BY <1>1, <1>2, <1>3, <1>4, <1>5, <1>7, <1>9, <1>10, <1>11, <1>12, StepGood DEF Half

(* The end waits for the other to begin again, with the next format. *)
LEMMA WaitsAtT ==
  ASSUME NEW s, NEW u, NEW x, NEW y, NEW q, Both(s, u, x, y),
         s.pc = "waitPPR", x = <<>>, Typed(q), Agree(q, s, {"pc", "pagetry"}), q.pc = "T",
         ~OneFormat(s.doc)
  PROVE  Both(q, u, <<>>, <<>>)
<1>1. Half(s, u, x, y) /\ Half(u, s, y, x) /\ Own(s)
  BY DEF Both, Half
<1>2. /\ q.err = s.err /\ q.localBR = s.localBR /\ q.localVR = s.localVR
      /\ q.br = s.br /\ q.vr = s.vr
      /\ q.doc = s.doc /\ q.cur = s.cur /\ q.dp = s.dp /\ q.ppm = s.ppm /\ q.sent = s.sent
      /\ q.good = s.good /\ q.rxpage = s.rxpage /\ q.writepending = s.writepending
      /\ q.files = s.files /\ q.frame = s.frame /\ q.remtx = s.remtx
      /\ q.remoteBR = s.remoteBR /\ q.remoteVR = s.remoteVR
  BY DEF Agree, Fields
<1>3. Own(q)
  BY <1>1, <1>2 DEF Own, FilesShape, Sending, Receiving
<1>4. Spoken(q, <<>>) /\ Spoken(u, <<>>)
  BY DEF Spoken
<1>5. SamePages(s, q) /\ q.cur >= s.cur
  BY <1>1, <1>2 DEF SamePages, Own, Typed
<1>6. /\ Paging(q, u, <<>>, <<>>) /\ Training(q, u, <<>>) /\ OneStart(q, u)
  BY <1>1, <1>2 DEF Half, Paging, Training, OneStart
<1>7. \A k : <<>> # <<Frame(k)>>
  OBVIOUS
<1>8. Paging(u, q, <<>>, <<>>)
  <2>1. SUFFICES ASSUME u.pc = "waitPPR"
                 PROVE  q.br = u.br /\ q.vr = u.vr /\ (q.good => Has(q, u.cur))
    BY <1>7 DEF Paging
  <2>2. Paging(u, s, y, x) /\ Spoken(u, y)
    BY <1>1 DEF Half
  <2>3. Len(y) < 2
    BY <2>1, <2>2, PageIsHeard
  <2> QED BY <1>2, <2>1, <2>2, <2>3 DEF Paging, Has
<1>9. Training(u, q, <<>>) /\ OneStart(u, q)
  BY <1>1, <1>2, <1>7 DEF Half, Training, OneStart
<1>10. SentKept(q, u) /\ NotSkipped(q)
  BY <1>1, <1>2 DEF Half, SentKept, NotSkipped, SentPages
<1>11. Known(q, u)
  BY DEF Known, Sending
<1> QED BY <1>1, <1>2, <1>3, <1>4, <1>5, <1>6, <1>8, <1>9, <1>10, <1>11, StepGood DEF Half

(* The end invites the other to send. *)
LEMMA Invites ==
  ASSUME NEW s, NEW u, NEW x, NEW y, NEW q, NEW x2, Both(s, u, x, y),
         s.pc \in {"T", "waitPPR", "waitR", "F"}, ~s.writepending, Typed(q), FilesShape(q),
         Agree(q, s, {"pc", "t", "files", "cur"}), SamePages(s, q),
         q.pc = "waitR", q.cur >= s.cur, NotSkipped(q),
         q.sent # <<>> \/ (q.cur = 1 /\ q.dp = 0),
         q.doc # <<>> => (q.dp = 0 \/ q.cur > Len(q.doc)),
         (OneFormat(u.doc) /\ u.pc \in {"T", "waitDCS"}) => (s.pc = "waitR" \/ u.dp = 0),
         x2 = <<DIS(q)>>
  PROVE  Both(q, u, x2, <<>>)
<1>1. Half(s, u, x, y) /\ Half(u, s, y, x) /\ Own(s)
  BY DEF Both, Half
<1>2. /\ q.err = s.err /\ q.localBR = s.localBR /\ q.localVR = s.localVR
      /\ q.br = s.br /\ q.vr = s.vr
      /\ q.doc = s.doc /\ q.dp = s.dp /\ q.ppm = s.ppm /\ q.sent = s.sent
      /\ q.good = s.good /\ q.rxpage = s.rxpage /\ q.writepending = s.writepending
      /\ q.frame = s.frame /\ q.remtx = s.remtx /\ q.remoteBR = s.remoteBR
      /\ q.remoteVR = s.remoteVR
  BY DEF Agree, Fields
<1>3. Own(q)
  BY <1>1, <1>2 DEF Own, Sending, Receiving
<1>4. Spoken(q, x2) /\ Spoken(u, <<>>)
  BY DEF Spoken
<1>5. \A k : x2 # <<Frame(k)>>
  <2>1. DOMAIN DIS(q) # DOMAIN Frame("MCF") /\ \A k : DOMAIN Frame(k) = {"kind"}
    BY DEF DIS, Frame
  <2> QED BY <2>1
<1>6. /\ Paging(q, u, x2, <<>>) /\ Training(q, u, <<>>) /\ OneStart(q, u)
  BY <1>1, <1>2 DEF Half, Paging, Training, OneStart
<1>7. \A p : Has(s, p) => Has(q, p)
  BY DEF Has, SamePages
<1>8. Paging(u, q, <<>>, x2)
  <2>1. SUFFICES ASSUME u.pc = "waitPPR"
                 PROVE  q.br = u.br /\ q.vr = u.vr /\ (q.good => Has(q, u.cur))
    BY <1>5 DEF Paging
  <2>2. Paging(u, s, y, x) /\ Spoken(u, y)
    BY <1>1 DEF Half
  <2>3. Len(y) < 2
    BY <2>1, <2>2, PageIsHeard
  <2> QED BY <1>2, <1>7, <2>1, <2>2, <2>3 DEF Paging
<1>9. Training(u, q, x2) /\ OneStart(u, q)
  BY <1>1, <1>2, <1>5 DEF Half, Training, OneStart
<1>10. SentKept(q, u)
  BY <1>1, <1>2 DEF Half, SentKept
<1>11. Known(q, u)
  BY DEF Known, Sending
<1> QED BY <1>1, <1>2, <1>3, <1>4, <1>6, <1>8, <1>9, <1>10, <1>11, StepGood DEF Half

----------------------------------------------------------------------------
(* The steps of an end that receives *)

\* Nothing changes of what an end keeps and counts.
Stores == {"pc", "frame", "good", "br", "vr", "try"}

\* A receiver that goes from one state to another keeps what it has.
LEMMA StoresStay ==
  ASSUME NEW s, NEW u, NEW x, NEW y, NEW q, Both(s, u, x, y), ~s.writepending, Typed(q),
         Agree(q, s, Stores), s.pc \in Receiving, q.pc \in Receiving
  PROVE  /\ Own(q) /\ SamePages(s, q) /\ q.cur >= s.cur /\ q.doc = s.doc /\ q.remtx = s.remtx
         /\ (q.remtx => u.doc # <<>>) /\ SentKept(q, u) /\ NotSkipped(q)
         /\ \A p : Has(q, p) <=> Has(s, p)
         /\ q.files = s.files /\ q.dp = s.dp /\ q.localVR = s.localVR /\ Known(q, u)
<1>1. Half(s, u, x, y) /\ Own(s)
  BY DEF Both, Half
<1>2. /\ q.err = s.err /\ q.localBR = s.localBR /\ q.localVR = s.localVR
      /\ q.remoteBR = s.remoteBR /\ q.remoteVR = s.remoteVR
      /\ q.doc = s.doc /\ q.cur = s.cur /\ q.dp = s.dp /\ q.ppm = s.ppm /\ q.sent = s.sent
      /\ q.rxpage = s.rxpage /\ q.writepending = s.writepending
      /\ q.files = s.files /\ q.remtx = s.remtx
  BY DEF Agree, Fields, Stores
<1>3. FilesShape(q)
  BY <1>1, <1>2 DEF Own, FilesShape, Receiving
<1>4. Own(q)
  BY <1>1, <1>2, <1>3 DEF Own, Sending, Receiving
<1>5. SamePages(s, q) /\ q.cur >= s.cur
  BY <1>1, <1>2 DEF SamePages, Own, Typed
<1>6. SentKept(q, u) /\ NotSkipped(q)
  BY <1>1, <1>2 DEF Half, SentKept, NotSkipped, SentPages
<1>7. \A p : Has(q, p) <=> Has(s, p)
  BY <1>2 DEF Has
<1>8. Known(q, u)
  BY DEF Known, Sending, Receiving
<1> QED BY <1>1, <1>2, <1>4, <1>5, <1>6, <1>7, <1>8 DEF Half

(* The end answers a post-page message. *)
LEMMA AnswersPage ==
  ASSUME NEW s, NEW u, NEW x, NEW y, NEW q, NEW x2, NEW a, Both(s, u, x, y),
         ~s.writepending, s.pc \in {"waitR", "F"}, u.pc = "waitPPR", y = <<Frame(u.ppm)>>,
         a \in PostPageAnswers, a = "PIP" => ~NoPIP, a \in Accepts => s.good,
         Typed(q), Agree(q, s, {"pc", "frame"}), q.frame = u.ppm,
         q.pc = IF a = "MCF" /\ u.ppm = "MPS" THEN "data" ELSE "F",
         x2 = <<Frame(a)>>
  PROVE  Both(q, u, x2, <<>>)
<1>1. Half(s, u, x, y) /\ Half(u, s, y, x) /\ Own(s) /\ Own(u)
  BY DEF Both, Half
<1>2. Agree(q, s, Stores) /\ s.pc \in Receiving /\ q.pc \in Receiving
  BY DEF Agree, Stores, Receiving
<1>3. q.br = s.br /\ q.vr = s.vr /\ q.good = s.good
  BY DEF Agree, Fields
<1>4. Spoken(q, x2) /\ Spoken(u, <<>>)
  BY DEF Spoken, Replies, PostPageAnswers
<1>5. Len(y) < 2 /\ Paging(u, s, y, x)
  BY <1>1 DEF Half
<1>6. Training(q, u, <<>>) /\ Paging(q, u, x2, <<>>) /\ OneStart(q, u)
  BY <1>1, <1>2, <1>3 DEF Half, Training, Paging, OneStart, Receiving, Agree, Fields
<1>7. Paging(u, q, <<>>, x2)
  <2>1. (\E k \in Accepts : x2 = <<Frame(k)>>) => a \in Accepts
    BY DEF Frame
  <2>2. x2 = <<Frame("MCF")>> => a = "MCF"
    BY DEF Frame
  <2>3. s.good => Has(q, u.cur)
    <3>1. s.good => Has(s, u.cur)
      BY <1>5 DEF Paging
    <3>2. Has(q, u.cur) <=> Has(s, u.cur)
      <4>1. q.rxpage = s.rxpage /\ q.files = s.files
        BY DEF Agree, Fields
      <4> QED BY <4>1 DEF Has
    <3> QED BY <3>1, <3>2
  <2>4. Len(<<>>) # 2
    OBVIOUS
  <2> QED BY <1>3, <1>5, <2>1, <2>2, <2>3, <2>4 DEF Paging
<1>8. Training(u, q, x2)
  BY DEF Training
<1>9. OneStart(u, q)
  <2>1. q.frame = "EOM" => ~OneFormat(u.doc)
    <3>1. SUFFICES ASSUME u.ppm = "EOM" PROVE ~OneFormat(u.doc)
      OBVIOUS
    <3>2. AtPage(u) /\ u.doc \in Seq(Resolutions)
      BY <1>1 DEF Own, Sending, Typed
    <3>3. u.cur \in 1..Len(u.doc) /\ u.cur # Len(u.doc) /\ u.doc[u.cur + 1] # u.doc[u.cur]
      BY <3>1, <3>2 DEF AtPage, PPM
    <3>4. u.cur + 1 \in DOMAIN u.doc /\ u.cur \in DOMAIN u.doc
      BY <3>2, <3>3
    <3> QED BY <3>3, <3>4 DEF OneFormat
  <2> QED BY <2>1 DEF OneStart
<1>10. /\ Own(q) /\ SamePages(s, q) /\ q.cur >= s.cur /\ q.doc = s.doc /\ q.remtx = s.remtx
       /\ (q.remtx => u.doc # <<>>) /\ SentKept(q, u) /\ NotSkipped(q)
       /\ q.localVR = s.localVR /\ Known(q, u)
  BY ONLY <1>2, StoresStay, Both(s, u, x, y), ~s.writepending, Typed(q)
<1> QED BY <1>4, <1>6, <1>7, <1>8, <1>9, <1>10, StepGood

(* The end hears a DCS, and awaits the training check. *)
LEMMA HearsDCS ==
  ASSUME NEW s, NEW u, NEW x, NEW y, NEW q, NEW y2, Both(s, u, x, y),
         ~s.writepending, s.pc \in {"waitR", "F"}, u.pc = "waitDCS", x = <<>>, Spoken(u, y2),
         Typed(q), Agree(q, s, {"pc", "frame", "br", "vr"}), q.pc = "train", q.frame = "DCS",
         q.vr = u.vr
  PROVE  Both(q, u, <<>>, y2)
<1>1. Half(s, u, x, y) /\ Half(u, s, y, x) /\ Own(s) /\ Own(u)
  BY DEF Both, Half
<1>2. Agree(q, s, Stores) /\ s.pc \in Receiving /\ q.pc \in Receiving
  BY DEF Agree, Stores, Receiving
<1>3. Spoken(q, <<>>)
  BY DEF Spoken
<1>4. \A k : <<>> # <<Frame(k)>>
  OBVIOUS
<1>5. Training(q, u, y2) /\ Paging(q, u, <<>>, y2)
  BY DEF Training, Paging
<1>6. OneStart(q, u)
  BY <1>1 DEF Half, OneStart, Agree, Fields
<1>7. Paging(u, q, y2, <<>>) /\ Training(u, q, <<>>) /\ OneStart(u, q)
  BY <1>4 DEF Paging, Training, OneStart
<1> QED BY <1>1, <1>2, <1>3, <1>5, <1>6, <1>7, StoresStay, StepGood

(* The end tells whether it was trained. *)
LEMMA TellsTraining ==
  ASSUME NEW s, NEW u, NEW x, NEW y, NEW q, NEW x2, NEW k, Both(s, u, x, y),
         ~s.writepending, s.pc = "train", Typed(q), Agree(q, s, {"pc", "good"}),
         k \in {"CFR", "FTT"}, q.pc = IF k = "CFR" THEN "data" ELSE "F",
         (k = "CFR" /\ u.pc = "waitDCS") => s.br = u.br,
         x2 = <<Frame(k)>>
  PROVE  Both(q, u, x2, <<>>)
<1>1. Half(s, u, x, y) /\ Half(u, s, y, x) /\ Own(s) /\ Own(u)
  BY DEF Both, Half
<1>2. Agree(q, s, Stores) /\ s.pc \in Receiving /\ q.pc \in Receiving
  BY DEF Agree, Stores, Receiving
<1>3. Spoken(q, x2) /\ Spoken(u, <<>>)
  BY DEF Spoken, Replies
<1>4. u.pc \in {"waitDCS", "off"} /\ (u.pc = "waitDCS" => s.vr = u.vr)
  BY <1>1 DEF Half, Training
<1>5. q.vr = s.vr /\ q.br = s.br /\ q.frame = s.frame
  BY DEF Agree, Fields
<1>6. Training(q, u, <<>>) /\ Paging(q, u, x2, <<>>)
  BY <1>4 DEF Training, Paging
<1>7. OneStart(q, u)
  BY <1>1 DEF Half, OneStart, Agree, Fields
<1>8. x2 = <<Frame("CFR")>> => k = "CFR"
  BY DEF Frame
<1>9. Paging(u, q, <<>>, x2) /\ Training(u, q, x2)
  BY <1>4, <1>5, <1>8 DEF Paging, Training
<1>10. OneStart(u, q)
  BY <1>1, <1>5 DEF Half, OneStart
<1> QED BY <1>1, <1>2, <1>3, <1>6, <1>7, <1>9, <1>10, StoresStay, StepGood

(* The end leaves its state for another, and hears the rest of what there   *)
(* is: training data that nobody awaits, or a frame instead of a page.      *)
LEMMA GoesOver ==
  ASSUME NEW s, NEW u, NEW x, NEW y, NEW q, NEW y2, Both(s, u, x, y),
         ~s.writepending, s.pc \in {"F", "data"}, q.pc \in {"F", "data"}, Typed(q),
         Agree(q, s, {"pc", "frame"}), q.frame = s.frame \/ q.frame # "EOM",
         Spoken(u, y2), x = <<>> \/ y2 = <<>>, x = <<>> \/ u.pc = "off",
         u.pc = "waitPPR" => (Len(y) < 2 /\ Len(y2) < 2)
  PROVE  Both(q, u, x, y2)
<1>1. Half(s, u, x, y) /\ Half(u, s, y, x) /\ Own(s) /\ Own(u)
  BY DEF Both, Half
<1>2. Agree(q, s, Stores) /\ s.pc \in Receiving /\ q.pc \in Receiving
  BY DEF Agree, Stores, Receiving
<1>3. Spoken(q, x)
  BY <1>1 DEF Half, Spoken
<1>4. q.vr = s.vr /\ q.br = s.br /\ q.good = s.good /\ q.dp = s.dp /\ q.doc = s.doc
  BY DEF Agree, Fields
<1>5. Training(q, u, y2) /\ Paging(q, u, x, y2) /\ OneStart(q, u)
  BY <1>1, <1>4 DEF Half, Training, Paging, OneStart
<1>6. \A k : <<>> # <<Frame(k)>>
  OBVIOUS
<1>7. Paging(u, q, y2, x)
  <2>1. SUFFICES ASSUME u.pc = "waitPPR"
                 PROVE  q.br = u.br /\ q.vr = u.vr /\ (q.good => Has(q, u.cur))
    <3>1. Len(y2) < 2 => Len(y2) # 2
      OBVIOUS
    <3> QED BY <1>6, <3>1 DEF Paging
  <2>2. Paging(u, s, y, x)
    BY <1>1 DEF Half
  <2> QED BY <1>2, <1>4, <2>1, <2>2, StoresStay DEF Paging
<1>8. Training(u, q, x) /\ OneStart(u, q)
  BY <1>1, <1>4, <1>6 DEF Half, Training, OneStart
<1> QED BY <1>1, <1>2, <1>3, <1>5, <1>7, <1>8, StoresStay, StepGood

(* One more page is in the files of q than in those of s. *)
OneMore(s, q, line) ==
  /\ q.rxpage = s.rxpage + 1 /\ Len(q.files) = s.rxpage + 1
  /\ q.files[s.rxpage + 1] = <<line>>
  /\ \A i \in 1..s.rxpage : q.files[i] = s.files[i]

\* A page filed after those before it, as its sender is at that page.
LEMMA PageFiled ==
  ASSUME NEW s, NEW u, NEW q, NEW line, OneMore(s, q, line), s.rxpage \in Nat, Own(u),
         line.page = u.cur, line.yres = line.lines,
         line.lines = Lesser(u.doc[u.cur], line.asked), u.cur \in DOMAIN u.doc,
         Filed(u, s), SentKept(u, s), NotSkipped(u)
  PROVE  Filed(u, q)
<1> DEFINE n == s.rxpage
<1>1. /\ u.doc \in Seq(Resolutions) /\ u.cur \in Nat /\ u.cur >= 1 /\ u.sent \in Seq(Nat)
      /\ u.sent # <<>> \/ u.cur = 1
  BY DEF Own, Typed
<1>2. DOMAIN u.doc \subseteq Nat
  BY <1>1
<1>3. n \in Nat /\ q.rxpage = n + 1 /\ q.files[n + 1][1] = line
      /\ \A i \in 1..n : q.files[i][1] = s.files[i][1]
  BY DEF OneMore
<1>4. \A i \in 1..n : /\ s.files[i][1].page \in DOMAIN u.doc /\ s.files[i][1].page <= u.cur
                      /\ s.files[i][1].page \in Nat
                      /\ s.files[i][1].yres = s.files[i][1].lines
                      /\ s.files[i][1].lines =
                           Lesser(u.doc[s.files[i][1].page], s.files[i][1].asked)
  BY <1>2 DEF Filed
<1>5. \A i, j \in 1..n : i <= j => s.files[i][1].page <= s.files[j][1].page
  BY DEF Filed
<1> HIDE DEF n
<1>6. \A i \in 1..(n + 1) : i \in 1..n \/ i = n + 1
  BY <1>3
<1>7. q.files[1][1].page = 1
  <2>1. CASE n = 0
    <3>1. u.sent = <<>>
      <4>1. SUFFICES ASSUME u.sent # <<>> PROVE FALSE
        OBVIOUS
      <4>2. 1 \in 1..Len(u.sent)
        BY <1>1, <4>1
      <4>3. PICK i \in 1..s.rxpage : TRUE
        BY <4>2 DEF SentKept, Has
      <4> QED BY <2>1, <4>3 DEF n
    <3> QED BY <1>1, <1>3, <2>1, <3>1
  <2>2. CASE n > 0
    <3>1. 1 \in 1..n /\ s.files[1][1].page = 1
      BY <1>3, <2>2 DEF Filed, n
    <3> QED BY <1>3, <3>1
  <2> QED BY <1>3, <2>1, <2>2
<1>8. \A i \in 1..(n + 1) :
        /\ q.files[i][1].page \in DOMAIN u.doc /\ q.files[i][1].page <= u.cur
        /\ q.files[i][1].yres = q.files[i][1].lines
        /\ q.files[i][1].lines = Lesser(u.doc[q.files[i][1].page], q.files[i][1].asked)
  <2>1. TAKE i \in 1..(n + 1)
  <2>2. CASE i \in 1..n
    BY <1>3, <1>4, <2>2
  <2>3. CASE i = n + 1
    BY <1>1, <1>3, <2>3
  <2> QED BY <1>6, <2>2, <2>3
<1>9. \A i, j \in 1..(n + 1) : i <= j => q.files[i][1].page <= q.files[j][1].page
  <2>1. SUFFICES ASSUME NEW i \in 1..(n + 1), NEW j \in 1..(n + 1), i <= j
                 PROVE  q.files[i][1].page <= q.files[j][1].page
    OBVIOUS
  <2>2. CASE j \in 1..n
    <3>1. i \in 1..n
      BY <1>3, <2>1, <2>2
    <3> QED BY <1>3, <1>5, <2>1, <2>2, <3>1
  <2>3. CASE j = n + 1
    BY <1>3, <1>8, <2>3
  <2> QED BY <1>6, <2>2, <2>3
<1>10. ASSUME OneFormat(u.doc), NEW i \in 2..(n + 1)
       PROVE  q.files[i][1].page <= q.files[i - 1][1].page + 1
  <2>1. i - 1 \in 1..n /\ i \in 1..(n + 1)
    BY <1>3
  <2>2. CASE i \in 1..n
    <3>1. s.files[i][1].page <= s.files[i - 1][1].page + 1
      BY <1>10, <2>2, <1>3 DEF Filed, n
    <3> QED BY <1>3, <2>1, <2>2, <3>1
  <2>3. CASE i = n + 1
    <3>1. q.files[i][1].page = u.cur /\ q.files[i - 1][1].page = s.files[n][1].page
          /\ s.files[n][1].page \in Nat /\ n \in 1..n
      BY <1>3, <1>4, <2>1, <2>3
    <3>2. CASE u.cur = 1
      BY <3>1, <3>2
    <3>3. CASE u.cur # 1
      <4>1. u.cur - 1 \in 1..(u.cur - 1) \cap DOMAIN u.doc
        BY <1>1, <3>3
      <4>2. u.cur - 1 \in SentPages(u)
        BY <1>10, <4>1 DEF NotSkipped
      <4>3. PICK k \in 1..Len(u.sent) : u.sent[k] = u.cur - 1
        <5>1. PICK k \in DOMAIN u.sent : u.sent[k] = u.cur - 1
          BY <4>2 DEF SentPages
        <5>2. DOMAIN u.sent = 1..Len(u.sent)
          BY <1>1
        <5> QED BY <5>1, <5>2
      <4>4. PICK j \in 1..n : s.files[j][1].page = u.cur - 1
        BY <4>3 DEF SentKept, Has, n
      <4>5. j <= n /\ s.files[j][1].page <= s.files[n][1].page
        BY <1>3, <1>5, <3>1, <4>4
      <4>6. u.cur <= s.files[n][1].page + 1
        <5>1. PICK a : a = s.files[n][1].page
          OBVIOUS
        <5>2. a \in Nat /\ u.cur - 1 <= a
          BY <3>1, <4>4, <4>5, <5>1
        <5>3. u.cur <= a + 1
          BY <1>1, <5>2
        <5> QED BY <5>1, <5>3
      <4> QED BY <3>1, <4>6
    <3> QED BY <3>2, <3>3
  <2> QED BY <1>6, <2>1, <2>2, <2>3
<1> QED BY <1>3, <1>7, <1>8, <1>9, <1>10 DEF Filed

(* A page comes, and is written to the file that was opened for it. *)
LEMMA PageComes ==
  ASSUME NEW s, NEW u, NEW x, NEW y, NEW q, NEW y2, NEW k, NEW line, Both(s, u, x, y),
         s.pc = "data", u.pc = "waitPPR", x = <<>>, k \in {"good", "bad"},
         line = [page |-> u.cur, yres |-> s.vr, lines |-> Lesser(u.localVR, u.vr),
                 asked |-> s.localVR, quality |-> k], Typed(q),
         Agree(q, s, {"pc", "good", "writepending", "rxpage", "files"}),
         q.pc = "F", q.good, q.writepending, q.rxpage = s.rxpage + 1,
         q.files = [s.files EXCEPT ![Len(s.files)] = Append(s.files[Len(s.files)], line)],
         y2 = <<Frame(u.ppm)>>
  PROVE  Both(q, u, <<>>, y2)
<1>1. /\ Half(s, u, x, y) /\ Half(u, s, y, x) /\ Own(s) /\ Own(u)
      /\ FilesShape(s) /\ Filed(u, s) /\ SentKept(u, s) /\ NotSkipped(u) /\ AtPage(u)
      /\ Agreed(u) /\ Known(u, s)
  BY DEF Both, Half, Own, Sending
<1>2. /\ q.err = s.err /\ q.localBR = s.localBR /\ q.localVR = s.localVR
      /\ q.remoteBR = s.remoteBR /\ q.remoteVR = s.remoteVR
      /\ q.doc = s.doc /\ q.cur = s.cur /\ q.dp = s.dp /\ q.ppm = s.ppm /\ q.sent = s.sent
      /\ q.remtx = s.remtx /\ q.br = s.br /\ q.vr = s.vr /\ q.frame = s.frame
  BY DEF Agree, Fields
<1>3. /\ Len(s.files) = s.rxpage + 1 /\ s.rxpage \in Nat /\ s.files \in Seq(Seq(Line))
      /\ s.files[s.rxpage + 1] = <<>>
      /\ \A i \in 1..s.rxpage : Len(s.files[i]) = 1 /\ s.files[i][1].quality # "cut"
  <2>1. ~s.writepending /\ s.rxpage \in Nat /\ s.files \in Seq(Seq(Line))
    BY <1>1 DEF FilesShape, Own, Typed
  <2>2. Len(s.files) = s.rxpage + 1
    BY <1>1, <2>1 DEF FilesShape, Receiving
  <2>3. s.rxpage + 1 \in 1..Len(s.files) /\ ~(s.rxpage + 1 <= s.rxpage)
    BY <2>1, <2>2
  <2>4. \A i \in 1..s.rxpage : i \in 1..Len(s.files) /\ i <= s.rxpage
    BY <2>1, <2>2
  <2> QED BY <1>1, <2>1, <2>2, <2>3, <2>4 DEF FilesShape
<1>4. OneMore(s, q, line)
  <2>1. Append(s.files[s.rxpage + 1], line) = <<line>>
    BY <1>3
  <2>2. \A i \in 1..s.rxpage : i # Len(s.files) /\ i \in DOMAIN s.files
    BY <1>3
  <2>3. Len(q.files) = Len(s.files) /\ q.files[s.rxpage + 1] = <<line>>
    BY <1>3, <2>1
  <2> QED BY <1>3, <2>2, <2>3 DEF OneMore
<1>5. /\ line.page = u.cur /\ u.cur \in DOMAIN u.doc /\ line.quality # "cut"
      /\ line.yres = line.lines /\ line.lines = Lesser(u.doc[u.cur], line.asked)
  <2>1. s.vr = u.vr
    BY <1>1 DEF Half, Paging
  <2>2. u.vr = Lesser(u.localVR, s.localVR) /\ u.localVR = u.doc[u.cur]
    BY <1>1 DEF Agreed, Known, Sending, AtPage
  <2>3. u.localVR \in {0, 1} /\ s.localVR \in {0, 1}
    BY <1>1 DEF Own, Typed, Resolutions
  <2>4. Lesser(u.localVR, u.vr) = Lesser(u.localVR, s.localVR)
    BY <2>2, <2>3 DEF Lesser
  <2>5. /\ line.page = u.cur /\ line.yres = s.vr /\ line.lines = Lesser(u.localVR, u.vr)
        /\ line.asked = s.localVR /\ line.quality = k
    OBVIOUS
  <2> QED BY <1>1, <2>1, <2>2, <2>4, <2>5 DEF AtPage
<1>6. Filed(u, q)
  BY <1>1, <1>3, <1>4, <1>5, PageFiled
<1>7. FilesShape(q)
  <2>1. \A i \in 1..Len(q.files) : Len(q.files[i]) = 1 /\ q.files[i][1].quality # "cut"
    <3>1. TAKE i \in 1..Len(q.files)
    <3>2. i \in 1..s.rxpage \/ i = s.rxpage + 1
      BY <1>3, <1>4 DEF OneMore
    <3>3. CASE i \in 1..s.rxpage
      BY <1>3, <1>4, <3>3 DEF OneMore
    <3>4. CASE i = s.rxpage + 1
      <4>1. q.files[i] = <<line>>
        BY <1>4, <3>4 DEF OneMore
      <4>2. \A l : Len(<<l>>) = 1 /\ <<l>>[1] = l
        OBVIOUS
      <4>3. Len(q.files[i]) = 1 /\ q.files[i][1] = line
        BY <4>1, <4>2
      <4> QED BY <1>5, <4>3
    <3> QED BY <3>2, <3>3, <3>4
  <2>2. Len(q.files) = q.rxpage /\ q.rxpage \in Nat
    BY <1>3, <1>4 DEF OneMore
  <2> QED BY <2>1, <2>2 DEF FilesShape
<1>8. Own(q)
  BY <1>1, <1>2, <1>7 DEF Own, Sending, Receiving
<1>9. \A p : Has(s, p) => Has(q, p)
  <2>1. \A i \in 1..s.rxpage : i \in 1..q.rxpage
    BY <1>3
  <2> QED BY <1>4, <2>1 DEF Has, OneMore
<1>10. Has(q, u.cur)
  <2>1. q.rxpage \in 1..q.rxpage /\ q.files[q.rxpage][1].page = u.cur
    BY <1>3, <1>4, <1>5 DEF OneMore
  <2> QED BY <2>1 DEF Has
<1>11. SentKept(u, q)
  BY <1>1, <1>9 DEF SentKept
<1>12. Spoken(q, <<>>) /\ Spoken(u, y2)
  BY DEF Spoken
<1>13. Paging(q, u, <<>>, y2) /\ Training(q, u, y2) /\ OneStart(q, u)
  BY <1>1, <1>2 DEF Half, Paging, Training, OneStart
<1>14. Paging(u, q, y2, <<>>)
  <2>1. q.br = u.br /\ q.vr = u.vr
    BY <1>1, <1>2 DEF Half, Paging
  <2>2. Len(y2) # 2 /\ \A a : <<>> # <<Frame(a)>>
    OBVIOUS
  <2> QED BY <1>10, <2>1, <2>2 DEF Paging
<1>15. Training(u, q, <<>>) /\ OneStart(u, q)
  BY <1>1, <1>2 DEF Half, Training, OneStart
<1>16. SentKept(q, u) /\ NotSkipped(q) /\ Filed(q, u)
  BY <1>1, <1>2 DEF Half, SentKept, NotSkipped, SentPages, Filed
<1>17. Known(q, u) /\ Known(u, q)
  BY <1>1, <1>2 DEF Half, Known, Sending
<1> QED BY <1>1, <1>2, <1>6, <1>8, <1>11, <1>12, <1>13, <1>14, <1>15, <1>16, <1>17 DEF Both, Half

(* A page cannot be written, and is refused. *)
LEMMA PageRefused ==
  ASSUME NEW s, NEW u, NEW x, NEW y, NEW q, NEW y2, Both(s, u, x, y),
         s.pc = "data", u.pc = "waitPPR", x = <<>>, Typed(q),
         Agree(q, s, {"pc", "good"}), q.pc = "F", ~q.good, y2 = <<Frame(u.ppm)>>
  PROVE  Both(q, u, <<>>, y2)
<1>1. Half(s, u, x, y) /\ Half(u, s, y, x) /\ Own(s) /\ Own(u)
  BY DEF Both, Half
<1>2. Agree(q, s, Stores) /\ s.pc \in Receiving /\ q.pc \in Receiving /\ ~s.writepending
  BY <1>1 DEF Agree, Stores, Receiving, Own, FilesShape
<1>3. q.vr = s.vr /\ q.br = s.br /\ q.frame = s.frame
  BY DEF Agree, Fields
<1>4. Spoken(q, <<>>) /\ Spoken(u, y2)
  BY DEF Spoken
<1>5. Training(q, u, y2) /\ Paging(q, u, <<>>, y2) /\ OneStart(q, u)
  BY <1>1 DEF Half, Training, Paging, OneStart, Agree, Fields
<1>6. Len(y2) # 2 /\ \A a : <<>> # <<Frame(a)>>
  OBVIOUS
<1>7. Paging(u, q, y2, <<>>)
  <2>1. q.br = u.br /\ q.vr = u.vr
    BY <1>1, <1>3 DEF Half, Paging
  <2> QED BY <1>6, <2>1 DEF Paging
<1>8. Training(u, q, <<>>) /\ OneStart(u, q)
  BY <1>1, <1>3 DEF Half, Training, OneStart
<1>9. /\ Own(q) /\ SamePages(s, q) /\ q.cur >= s.cur /\ q.doc = s.doc /\ q.remtx = s.remtx
      /\ (q.remtx => u.doc # <<>>) /\ SentKept(q, u) /\ NotSkipped(q)
      /\ q.localVR = s.localVR /\ Known(q, u)
  <2>1. Typed(q) /\ Both(s, u, x, y)
    OBVIOUS
  <2>2. Own(q) /\ SamePages(s, q) /\ SentKept(q, u) /\ NotSkipped(q) /\ Known(q, u)
    BY <1>2, <2>1, StoresStay
  <2>3. q.doc = s.doc /\ q.remtx = s.remtx /\ q.cur = s.cur /\ q.localVR = s.localVR
    BY DEF Agree, Fields
  <2>4. (s.remtx => u.doc # <<>>) /\ s.cur \in Nat
    BY <1>1 DEF Half, Own, Typed
  <2> QED BY <2>2, <2>3, <2>4
<1> QED BY <1>4, <1>5, <1>7, <1>8, <1>9, StepGood

(* The file for the next page is opened, at last. *)
LEMMA FlushGood ==
  ASSUME NEW s, NEW u, NEW x, NEW y, NEW q, Both(s, u, x, y), q = Flush(s)
  PROVE  /\ Both(q, u, x, y) /\ q.writepending = FALSE
         /\ Agree(q, s, {"writepending", "files"})
<1>1. /\ Half(s, u, x, y) /\ Half(u, s, y, x) /\ Own(s) /\ Own(u) /\ Typed(s)
      /\ FilesShape(s)
  BY DEF Both, Half, Own
<1>2. CASE ~s.writepending
  <2>1. q = s
    BY <1>2 DEF Flush
  <2>2. s.writepending = FALSE /\ Agree(s, s, {"writepending", "files"})
    BY <1>1, <1>2 DEF Typed, Agree
  <2> QED BY <2>1, <2>2
<1>3. CASE s.writepending
  <2>1. /\ Agree(q, s, {"writepending", "files"}) /\ q.writepending = FALSE
        /\ q.files = Append(SubSeq(s.files, 1, s.rxpage), <<>>)
    BY <1>1, <1>3 DEF Typed, Agree, Flush, OpenFile, Fields
  <2>2. /\ q.pc = s.pc /\ q.err = s.err /\ q.localBR = s.localBR /\ q.localVR = s.localVR
        /\ q.br = s.br /\ q.vr = s.vr
        /\ q.doc = s.doc /\ q.cur = s.cur /\ q.dp = s.dp /\ q.ppm = s.ppm /\ q.sent = s.sent
        /\ q.good = s.good /\ q.rxpage = s.rxpage /\ q.frame = s.frame /\ q.remtx = s.remtx
        /\ q.remoteBR = s.remoteBR /\ q.remoteVR = s.remoteVR
    BY <2>1 DEF Agree, Fields
  <2>3. s.pc = "F" /\ Len(s.files) = s.rxpage /\ s.rxpage \in Nat /\ s.files \in Seq(Seq(Line))
    BY <1>1, <1>3 DEF FilesShape, Typed
  <2>4. SubSeq(s.files, 1, s.rxpage) = s.files
    BY <2>3
  <2>5. /\ q.files \in Seq(Seq(Line)) /\ Len(q.files) = s.rxpage + 1
        /\ q.files[s.rxpage + 1] = <<>> /\ \A i \in 1..s.rxpage : q.files[i] = s.files[i]
    <3>1. <<>> \in Seq(Line)
      OBVIOUS
    <3> QED BY <2>1, <2>3, <2>4, <3>1
  <2>6. Typed(q)
    BY <1>1, <2>1, <2>5 DEF Typed, Agree, Fields
  <2>7. FilesShape(q)
    <3>1. ASSUME NEW i \in 1..Len(q.files)
          PROVE  IF i <= q.rxpage THEN Len(q.files[i]) = 1 /\ q.files[i][1].quality # "cut"
                                  ELSE q.files[i] = <<>>
      <4>1. CASE i <= s.rxpage
        <5>1. i \in 1..Len(s.files)
          BY <2>3, <2>5, <4>1
        <5>2. q.files[i] = s.files[i]
          BY <2>3, <2>5, <4>1, <5>1
        <5>3. Len(s.files[i]) = 1 /\ s.files[i][1].quality # "cut"
          BY <1>1, <4>1, <5>1 DEF FilesShape
        <5> QED BY <2>2, <4>1, <5>2, <5>3
      <4>2. CASE ~(i <= s.rxpage)
        <5>1. i = s.rxpage + 1
          BY <2>3, <2>5, <4>2
        <5> QED BY <2>2, <2>5, <4>2, <5>1
      <4> QED BY <4>1, <4>2
    <3> QED BY <2>1, <2>2, <2>3, <2>5, <3>1 DEF FilesShape
  <2>8. Own(q)
    BY <1>1, <2>2, <2>6, <2>7 DEF Own, AtPage, Agreed
  <2>9. Spoken(q, x)
    BY <1>1, <2>2 DEF Half, Spoken, Page, Data, DIS, DCS, TCF
  <2>10. SamePages(s, q) /\ q.cur >= s.cur
    BY <2>2, <2>5, <1>1 DEF SamePages, Typed
  <2>11. \A p : Has(q, p) <=> Has(s, p)
    BY <2>2, <2>5 DEF Has
  <2>12. Paging(q, u, x, y) /\ Training(q, u, y) /\ OneStart(q, u)
    BY <1>1, <2>2 DEF Half, Paging, Training, OneStart
  <2>13. Paging(u, q, y, x) /\ Training(u, q, x) /\ OneStart(u, q)
    BY <1>1, <2>2, <2>11 DEF Half, Paging, Training, OneStart
  <2>14. SentKept(q, u) /\ NotSkipped(q)
    BY <1>1, <2>2 DEF Half, SentKept, NotSkipped, SentPages
  <2>16. Known(q, u)
    BY <1>1, <2>2 DEF Half, Known
  <2>15. Both(q, u, x, y)
    BY <1>1, <2>2, <2>8, <2>9, <2>10, <2>12, <2>13, <2>14, <2>16, StepGood DEF Half
  <2> QED BY <2>1, <2>15
<1>4. s.writepending \in BOOLEAN
  BY <1>1 DEF Typed
<1> QED BY <1>2, <1>3, <1>4

(* The page counts as sent, or is to be sent again. *)
LEMMA CountGood ==
  ASSUME NEW s, NEW u, NEW x, NEW y, NEW q, Both(s, u, x, y), s.pc = "waitPPR", Typed(q),
         Agree(q, s, {"pagetry", "dp", "sent"}),
         \/ q.dp = 0 /\ q.sent = s.sent
         \/ q.dp = 1 /\ q.sent = Append(s.sent, s.cur) /\ Has(u, s.cur)
  PROVE  Both(q, u, x, y) /\ (q.dp = 1 => q.cur \in SentPages(q))
<1>1. Half(s, u, x, y) /\ Half(u, s, y, x) /\ Own(s) /\ Own(u)
  BY DEF Both, Half
<1>2. /\ q.pc = s.pc /\ q.err = s.err /\ q.localBR = s.localBR /\ q.localVR = s.localVR
      /\ q.br = s.br /\ q.vr = s.vr
      /\ q.doc = s.doc /\ q.cur = s.cur /\ q.ppm = s.ppm
      /\ q.good = s.good /\ q.rxpage = s.rxpage /\ q.frame = s.frame /\ q.remtx = s.remtx
      /\ q.remoteBR = s.remoteBR /\ q.remoteVR = s.remoteVR /\ q.files = s.files
      /\ q.writepending = s.writepending
  BY DEF Agree, Fields
<1>3. s.sent \in Seq(Nat) /\ s.cur \in Nat
  BY <1>1 DEF Own, Typed
<1>4. /\ SentPages(s) \subseteq SentPages(q) /\ (q.dp = 1 => q.cur \in SentPages(q))
      /\ SentKept(q, u) /\ (q.sent # <<>> \/ (q.cur = 1 /\ q.dp = 0))
  <2>1. CASE q.dp = 0 /\ q.sent = s.sent
    BY <1>1, <1>2, <2>1 DEF Half, Own, SentPages, SentKept
  <2>2. CASE q.dp = 1 /\ q.sent = Append(s.sent, s.cur) /\ Has(u, s.cur)
    <3>1. /\ Len(q.sent) = Len(s.sent) + 1 /\ q.sent[Len(s.sent) + 1] = s.cur
          /\ \A i \in 1..Len(s.sent) : q.sent[i] = s.sent[i]
          /\ Len(s.sent) \in Nat /\ DOMAIN s.sent = 1..Len(s.sent)
          /\ DOMAIN q.sent = 1..Len(q.sent)
      BY <1>3, <2>2
    <3>2. SentKept(q, u)
      BY <1>1, <2>2, <3>1 DEF Half, SentKept
    <3>3. SentPages(s) \subseteq SentPages(q) /\ q.cur \in SentPages(q)
      BY <1>2, <3>1 DEF SentPages
    <3>4. q.sent # <<>>
      BY <3>1
    <3> QED BY <3>2, <3>3, <3>4
  <2> QED BY <2>1, <2>2
<1>5. Own(q)
  BY <1>1, <1>2, <1>4 DEF Own, FilesShape, AtPage, Agreed, Receiving
<1>6. Spoken(q, x)
  BY <1>1, <1>2 DEF Half, Spoken, Page, Data, DIS, DCS, TCF
<1>7. SamePages(s, q) /\ q.cur >= s.cur /\ NotSkipped(q)
  BY <1>1, <1>2, <1>3, <1>4 DEF Half, SamePages, NotSkipped
<1>8. \A p : Has(q, p) <=> Has(s, p)
  BY <1>2 DEF Has
<1>9. Paging(q, u, x, y) /\ Training(q, u, y) /\ OneStart(q, u)
  BY <1>1, <1>2 DEF Half, Paging, Training, OneStart
<1>10. Paging(u, q, y, x) /\ Training(u, q, x) /\ OneStart(u, q)
  BY <1>1, <1>2, <1>8 DEF Half, Paging, Training, OneStart
<1>11. Known(q, u)
  BY <1>1, <1>2 DEF Half, Known
<1> QED BY <1>1, <1>2, <1>4, <1>5, <1>6, <1>7, <1>9, <1>10, <1>11, StepGood DEF Half

(* The line loses or damages what s has put on it. *)
LEMMA LineGood ==
  ASSUME NEW s, NEW u, NEW x, NEW y, NEW x2, Both(s, u, x, y), x # <<>>,
         \/ x2 = Tail(x) /\ Head(x).kind # "DATA"
         \/ s.pc = "waitPPR" /\ x2 = Page(s, "bad") /\ x = Page(s, "good")
  PROVE  Both(s, u, x2, y)
<1>1. Half(s, u, x, y) /\ Half(u, s, y, x) /\ Own(s) /\ Own(u) /\ Spoken(s, x) /\ y = <<>>
  BY DEF Both, Half
<1>2. Spoken(s, Tail(x))
  BY <1>1, HeardIs
<1>3. Spoken(s, x2)
  BY <1>2 DEF Spoken
<1>4. \/ x2 = <<>>
      \/ s.pc = "waitDCS" /\ x2 = <<TCF(s)>>
      \/ s.pc = "waitPPR" /\ x2 = Page(s, "bad") /\ x = Page(s, "good")
  <2>1. \A a : Tail(<<a>>) = <<>>
    OBVIOUS
  <2>2. \A a, b : Tail(<<a, b>>) = <<b>>
    OBVIOUS
  <2>3. CASE x2 = Tail(x) /\ Head(x).kind # "DATA"
    <3>1. CASE \E k : x = <<k>>
      BY <2>1, <2>3, <3>1
    <3>2. CASE s.pc = "waitDCS" /\ x = <<DCS(s), TCF(s)>>
      BY <2>2, <2>3, <3>2
    <3>3. x \notin {Page(s, "good"), Page(s, "bad")}
      BY <2>3, PageIs
    <3> QED BY <1>1, <3>1, <3>2, <3>3 DEF Spoken
  <2> QED BY <2>3
<1>5. \A k : x2 # <<Frame(k)>>
  <2>1. \A k : <<>> # <<Frame(k)>>
    OBVIOUS
  <2>2. \A k : <<TCF(s)>> # <<Frame(k)>>
    <3>1. \A k : DOMAIN TCF(s) # DOMAIN Frame(k)
      BY DEF TCF, Frame
    <3> QED BY <3>1
  <2>3. \A k : Page(s, "bad") # <<Frame(k)>>
    BY DEF Page
  <2> QED BY <1>4, <2>1, <2>2, <2>3
<1>6. Paging(s, u, x2, y)
  <2>1. SUFFICES ASSUME s.pc = "waitPPR" PROVE Paging(s, u, x2, y)
    BY DEF Paging
  <2>2. CASE x2 = <<>>
    <3>1. Len(x) < 2 \/ Len(x) = 2
      <4>1. x \in {Page(s, "good"), Page(s, "bad"), <<Frame(s.ppm)>>}
        BY <1>1, <2>1 DEF Spoken
      <4>2. \A a : Len(<<a>>) < 2
        OBVIOUS
      <4> QED BY <4>1, <4>2, PageIs
    <3>2. Len(x) # 2
      <4>1. SUFFICES ASSUME x \in {Page(s, "good"), Page(s, "bad")} PROVE FALSE
        <5>1. \A a : Len(<<a>>) # 2
          OBVIOUS
        <5> QED BY <1>1, <2>1, <5>1 DEF Spoken
      <4>2. Tail(x) # <<>> /\ Head(x).kind = "DATA" /\ x2 # Page(s, "bad")
        BY <2>2, <4>1, PageIs
      <4> QED BY <4>2
    <3>3. Len(x2) # 2
      BY <2>2
    <3> QED BY <1>1, <3>1, <3>2, <3>3 DEF Half, Paging
  <2>3. CASE x2 = Page(s, "bad") /\ x = Page(s, "good")
    <3>1. Len(x) = 2 /\ Len(x2) = 2
      BY <2>3, PageIs
    <3> QED BY <1>1, <3>1 DEF Half, Paging
  <2> QED BY <1>4, <2>1, <2>2, <2>3
<1>7. Training(s, u, y) /\ OneStart(s, u) /\ Training(u, s, x2) /\ OneStart(u, s)
  BY <1>1, <1>5 DEF Half, Training
<1>8. Paging(u, s, y, x2)
  BY <1>1, <1>5 DEF Half, Paging
<1>9. SamePages(s, s) /\ s.cur >= s.cur
  BY <1>1 DEF SamePages, Own, Typed
<1> QED BY <1>1, <1>3, <1>6, <1>7, <1>8, <1>9, StepGood DEF Half

----------------------------------------------------------------------------
(* The labels of c1sndrcv() *)

\* What s and the line are when s goes on as r says.
Follows(r, u, x, left) ==
  /\ Both(r[1], u, IF r[2] = <<>> THEN x ELSE r[2],
          IF r[2] = <<>> /\ r[1].pc # "off" THEN left ELSE <<>>)
  /\ Confirmed(r[1])

\* The tables of rates map codes to codes, but for the last fallback.
LEMMA RatesAreCodes ==
  /\ \A c \in Codes : /\ fallback[c] \in Codes \cup {-1} /\ brindex[c] \in Codes
                      /\ DISRate[c] \in Codes /\ DCSRate[c] \in Codes
<1>1. \A c \in Codes : c + 1 \in 1..8
  BY DEF Codes
<1>2. \A c \in Codes : fallback[c] \in Codes \cup {-1}
  BY <1>1 DEF fallback, Codes
<1>3. \A c \in Codes : brindex[c] \in Codes
  BY <1>1 DEF brindex, Codes
<1>4. \A c \in Codes : DISRate[c] \in Codes
  BY <1>1 DEF DISRate, Codes
<1>5. \A c \in Codes : DCSRate[c] \in Codes
  BY <1>1 DEF DCSRate, Codes
<1> QED BY <1>2, <1>3, <1>4, <1>5

\* An end that is not done has not had its last page confirmed, or polls.
LEMMA ConfirmedLater ==
  ASSUME NEW s, NEW q, Confirmed(s), s.pc # "off", q.doc = s.doc, q.sent = s.sent,
         s.remtx => q.remtx
  PROVE  Confirmed(q)
BY DEF Confirmed, SentPages

\* B: the file opened in vain is removed, and the pages stay.
LEMMA BIs ==
  ASSUME NEW z, Typed(z), FilesShape(z), z.pc # "off", ~z.writepending, NEW err \in 0..3,
         NEW q, q = B(z, err)[1]
  PROVE  /\ Agree(q, z, {"pc", "err", "files"}) /\ q.pc = "off" /\ q.err = err
         /\ Typed(q) /\ FilesShape(q) /\ SamePages(z, q)
         /\ B(z, err)[2] = <<>> /\ C(z, err) = <<q, <<Frame("DCN")>>>>
<1>1. /\ Agree(q, z, {"pc", "err", "files"}) /\ q.pc = "off" /\ q.err = err
      /\ q.files = IF z.rxpage > 0 THEN SubSeq(z.files, 1, Len(z.files) - 1) ELSE z.files
      /\ B(z, err)[2] = <<>> /\ C(z, err) = <<q, <<Frame("DCN")>>>>
  <2> DEFINE fs == IF z.rxpage > 0 THEN SubSeq(z.files, 1, Len(z.files) - 1) ELSE z.files
  <2>1. q = [z EXCEPT !.pc = "off", !.err = err, !.files = fs]
    BY DEF B
  <2>2. B(z, err)[2] = <<>> /\ C(z, err) = <<q, <<Frame("DCN")>>>>
    BY DEF B, C
  <2> HIDE DEF fs
  <2>3. Agree(q, z, {"pc", "err", "files"}) /\ q.pc = "off" /\ q.err = err /\ q.files = fs
    <3>1. DOMAIN q = Fields
      BY <2>1 DEF Typed
    <3>4. q = [f \in DOMAIN q |-> q[f]]
      BY <2>1
    <3>2. \A f \in Fields \ {"pc", "err", "files"} : q[f] = z[f]
      BY <2>1 DEF Typed, Fields
    <3>3. q.pc = "off" /\ q.err = err /\ q.files = fs
      BY <2>1 DEF Typed, Fields
    <3> QED BY <3>1, <3>2, <3>3, <3>4 DEF Agree
  <2> QED BY <2>2, <2>3 DEF fs
<1>2. /\ z.rxpage \in Nat /\ z.files \in Seq(Seq(Line)) /\ q.rxpage = z.rxpage
      /\ q.writepending = FALSE
  BY <1>1 DEF Typed, Agree, Fields
<1>3. CASE z.rxpage > 0
  <2>1. Len(z.files) = z.rxpage + 1
    BY <1>3 DEF FilesShape
  <2>2. q.files = SubSeq(z.files, 1, z.rxpage)
    BY <1>1, <1>2, <1>3, <2>1
  <2>3. /\ q.files \in Seq(Seq(Line)) /\ Len(q.files) = z.rxpage
        /\ \A i \in 1..z.rxpage : q.files[i] = z.files[i]
    BY <1>2, <2>1, <2>2
  <2>4. \A i \in 1..z.rxpage : i \in 1..Len(z.files) /\ i <= z.rxpage
    BY <1>2, <2>1
  <2>5. FilesShape(q)
    BY <1>1, <1>2, <2>3, <2>4 DEF FilesShape, Receiving
  <2>6. Typed(q)
    BY <1>1, <2>3 DEF Typed, Agree, Fields
  <2> QED BY <1>1, <1>2, <2>3, <2>5, <2>6 DEF SamePages
<1>4. CASE ~(z.rxpage > 0)
  <2>1. q.files = z.files
    BY <1>1, <1>4
  <2>2. FilesShape(q)
    BY <1>1, <1>2, <2>1 DEF FilesShape, Receiving
  <2>3. Typed(q)
    BY <1>1, <2>1 DEF Typed, Agree, Fields
  <2> QED BY <1>1, <1>2, <2>1, <2>2, <2>3 DEF SamePages
<1> QED BY <1>3, <1>4

\* B and C, and what is set on the way there.
LEMMA BGood ==
  ASSUME NEW s, NEW u, NEW x, NEW y, Both(s, u, x, y), s.pc \notin {"data", "train", "off"},
         ~s.writepending, NEW z, Typed(z), Agree(z, s, {"cur", "remoteBR"}),
         z.cur >= s.cur, z.cur = s.cur \/ s.sent # <<>>, NotSkipped(z), NEW err \in 0..3,
         NEW q, q = B(z, err)[1]
  PROVE  /\ (x = <<>> \/ s.pc = "F") => Both(q, u, x, <<>>)
         /\ Both(q, u, <<Frame("DCN")>>, <<>>)
         /\ B(z, err)[2] = <<>> /\ C(z, err) = <<q, <<Frame("DCN")>>>>
         /\ q.pc = "off" /\ q.err = err /\ q.sent = s.sent /\ q.doc = s.doc
         /\ q.remtx = s.remtx
<1>1. Half(s, u, x, y) /\ Own(s) /\ FilesShape(s)
  BY DEF Both, Half, Own
<1>2. /\ z.pc = s.pc /\ z.err = s.err /\ z.br = s.br /\ z.vr = s.vr /\ z.localVR = s.localVR
      /\ z.doc = s.doc /\ z.dp = s.dp /\ z.sent = s.sent /\ z.good = s.good
      /\ z.rxpage = s.rxpage /\ z.writepending = s.writepending
      /\ z.files = s.files /\ z.frame = s.frame /\ z.remtx = s.remtx
  BY DEF Agree, Fields
<1>3. FilesShape(z)
  BY <1>1, <1>2 DEF FilesShape
<1>4. /\ Agree(q, z, {"pc", "err", "files"}) /\ q.pc = "off" /\ q.err = err
      /\ Typed(q) /\ FilesShape(q) /\ SamePages(z, q)
      /\ B(z, err)[2] = <<>> /\ C(z, err) = <<q, <<Frame("DCN")>>>>
  BY <1>2, <1>3, BIs
<1>5. /\ q.br = s.br /\ q.vr = s.vr /\ q.localVR = s.localVR /\ q.doc = s.doc
      /\ q.dp = s.dp /\ q.sent = s.sent
      /\ q.good = s.good /\ q.frame = s.frame /\ q.remtx = s.remtx /\ q.cur = z.cur
  BY <1>2, <1>4 DEF Agree, Fields
<1>6. SamePages(s, q)
  BY <1>2, <1>4 DEF SamePages
<1>7. NotSkipped(q)
  BY <1>2, <1>5 DEF NotSkipped, SentPages
<1>8. q.sent # <<>> \/ (q.cur = 1 /\ q.dp = 0)
  BY <1>1, <1>5 DEF Own
<1>9. (q.remtx => u.doc # <<>>) /\ SentKept(q, u)
  BY <1>1, <1>5 DEF Half, SentKept
<1>10. q.cur >= s.cur
  BY <1>5
<1>11. Both(q, u, <<Frame("DCN")>>, <<>>)
  <2>1. PICK x2 : x2 = <<Frame("DCN")>>
    OBVIOUS
  <2>2. Both(q, u, x2, <<>>)
    BY <1>4, <1>5, <1>6, <1>7, <1>8, <1>9, <1>10, <2>1, HangsUp
  <2> QED BY <2>1, <2>2
<1>12. (x = <<>> \/ s.pc = "F") => Both(q, u, x, <<>>)
  BY <1>4, <1>5, <1>6, <1>7, <1>8, <1>9, <1>10, HangsUp
<1> QED BY <1>4, <1>5, <1>11, <1>12

\* D_2: DCS and training check for the page at hand.
LEMMA D_2Good ==
  ASSUME NEW s, NEW u, NEW x, NEW y, NEW left, Both(s, u, x, y), Confirmed(s),
         s.pc \notin {"data", "train", "off"}, ~s.writepending,
         NEW z, Typed(z), Agree(z, s, {"cur", "localVR", "ppm", "remoteBR"}),
         AtPage(z), s.remoteVR = u.localVR, u.pc = "waitDCS" => z.localVR = s.localVR,
         z.remoteBR # -1, z.cur >= s.cur, NotSkipped(z),
         z.cur = s.cur \/ s.sent # <<>>,
         u.pc # "waitPPR", u.pc = "train" => (s.pc = "waitDCS" /\ z.localVR = s.localVR),
         (OneFormat(s.doc) /\ s.dp = 1) => u.pc # "waitR"
  PROVE  Follows(D_2(z), u, x, left)
<1>1. PICK q : q = D_2(z)[1]
  OBVIOUS
<1>2. PICK m : m = mincap(z)
  OBVIOUS
<1>3. /\ Agree(m, z, {"vr", "br"}) /\ m.vr = Lesser(z.localVR, z.remoteVR) /\ m.br \in Codes
  <2>1. /\ DOMAIN m = Fields /\ m = [g \in DOMAIN m |-> m[g]]
        /\ \A g \in Fields \ {"vr", "br"} : m[g] = z[g]
        /\ m.vr = Lesser(z.localVR, z.remoteVR) /\ m.br \in {z.remoteBR, z.localBR}
    BY <1>2 DEF Typed, mincap, Fields
  <2>2. z.remoteBR \in Codes /\ z.localBR \in Codes
    BY DEF Typed
  <2> QED BY <2>1, <2>2 DEF Agree
<1>4. /\ Agree(q, m, {"pc", "try"}) /\ q.pc = "waitDCS" /\ q.try = z.try + 1
      /\ D_2(z)[2] = <<DCS(m), TCF(m)>>
  <2>1. D_2(z) = <<[m EXCEPT !.pc = "waitDCS", !.try = m.try + 1], <<DCS(m), TCF(m)>>>>
    BY <1>2 DEF D_2
  <2>2. q = [m EXCEPT !.pc = "waitDCS", !.try = m.try + 1] /\ m.try = z.try
    BY <1>1, <1>3, <2>1 DEF Agree, Fields
  <2>3. DOMAIN q = Fields /\ q = [g \in DOMAIN q |-> q[g]]
    BY <1>3, <2>2 DEF Agree
  <2>4. /\ \A g \in Fields \ {"pc", "try"} : q[g] = m[g]
        /\ q.pc = "waitDCS" /\ q.try = z.try + 1
    BY <1>3, <2>2 DEF Agree, Fields
  <2> QED BY <2>1, <2>3, <2>4 DEF Agree
<1>14. /\ q.localVR = z.localVR /\ q.remoteVR = z.remoteVR /\ q.vr = m.vr /\ q.br = m.br
       /\ q.vr = Lesser(q.localVR, q.remoteVR) /\ z.remoteVR = s.remoteVR
       /\ Agree(q, z, {"pc", "br", "vr", "try"})
  BY <1>3, <1>4 DEF Agree, Fields
<1>15. Typed(q)
  <2>1. q.vr \in Resolutions /\ q.br \in Codes /\ q.try \in Nat /\ q.pc \in Listening
    <3>1. z.localVR \in Resolutions /\ z.remoteVR \in Resolutions /\ z.try \in Nat
      BY DEF Typed
    <3> QED BY <1>3, <1>4, <1>14, <3>1 DEF Lesser, Listening
  <2> QED BY <1>14, <2>1 DEF Typed, Agree, Fields
<1>5. /\ q.cur = z.cur /\ q.ppm = z.ppm /\ q.doc = z.doc /\ q.remoteBR = z.remoteBR
      /\ q.sent = z.sent /\ q.dp = z.dp /\ z.sent = s.sent /\ z.dp = s.dp /\ z.doc = s.doc
      /\ q.remtx = s.remtx
  BY <1>14 DEF Agree, Fields
<1>6. Agree(q, s, {"pc", "br", "try", "cur", "localVR", "vr", "ppm", "remoteBR"})
  BY <1>14 DEF Agree
<1>7. AtPage(q) /\ Agreed(q) /\ NotSkipped(q)
  BY <1>5, <1>14 DEF AtPage, Agreed, NotSkipped, SentPages
<1>16. u.pc = "train" => (s.pc = "waitDCS" /\ q.vr = s.vr)
  <2>1. s.pc = "waitDCS" => Agreed(s)
    BY DEF Both, Half, Own, Sending
  <2> QED BY <1>14, <2>1 DEF Agreed
<1>8. s.sent # <<>> \/ (s.cur = 1 /\ s.dp = 0)
  BY DEF Both, Half, Own
<1>9. q.sent # <<>> \/ (q.cur = 1 /\ q.dp = 0)
  BY <1>5, <1>8
<1>10. PICK x2 : x2 = <<DCS(q), TCF(q)>>
  OBVIOUS
<1>11. Both(q, u, x2, <<>>)
  BY <1>4, <1>5, <1>6, <1>7, <1>9, <1>10, <1>14, <1>15, <1>16, Announces
<1>12. x2 # <<>> /\ D_2(z)[2] = x2
  <2>1. DCS(m) = DCS(q) /\ TCF(m) = TCF(q)
    BY <1>14 DEF DCS, TCF
  <2> QED BY <1>4, <1>10, <2>1
<1>13. Confirmed(q)
  BY <1>5, ConfirmedLater
<1> QED BY <1>1, <1>11, <1>12, <1>13 DEF Follows

(* D: the next page, or the same again, is announced. *)
LEMMA DGood ==
  ASSUME NEW s, NEW u, NEW x, NEW y, NEW left, Both(s, u, x, y), Confirmed(s),
         s.pc \notin {"data", "train", "off"}, ~s.writepending, x = <<>>, s.doc # <<>>,
         u.pc \notin {"waitPPR", "train", "waitDCS"}, s.remoteVR = u.localVR,
         (OneFormat(s.doc) /\ s.dp = 1) =>
           (s.cur > Len(s.doc) \/ (u.pc # "waitR" /\ s.cur \in SentPages(s)))
  PROVE  Follows(D(s), u, x, left)
<1>1. Half(s, u, x, y) /\ Own(s) /\ Typed(s) /\ FilesShape(s) /\ NotSkipped(s)
  BY DEF Both, Half, Own
<1>2. /\ s.cur \in Nat /\ s.cur >= 1 /\ s.dp \in {0, 1} /\ s.doc \in Seq(Resolutions)
      /\ s.cur + s.dp \in Nat \ {0} /\ s.cur + s.dp >= s.cur
      /\ s.cur + s.dp = s.cur \/ s.sent # <<>>
  BY <1>1 DEF Own, Typed
<1>3. ASSUME NEW z, z.cur = s.cur + s.dp, z.doc = s.doc, z.sent = s.sent PROVE NotSkipped(z)
  <2>1. SUFFICES ASSUME OneFormat(s.doc), NEW p \in 1..(s.cur + s.dp - 1) \cap DOMAIN s.doc
                 PROVE  p \in SentPages(s)
    <3>1. SentPages(z) = SentPages(s)
      BY <1>3 DEF SentPages
    <3>2. 1..(z.cur - 1) \cap DOMAIN z.doc = 1..(s.cur + s.dp - 1) \cap DOMAIN s.doc
      BY <1>2, <1>3
    <3>3. OneFormat(z.doc) = OneFormat(s.doc)
      BY <1>3
    <3> QED BY <3>1, <3>2, <3>3 DEF NotSkipped
  <2>2. CASE p \in 1..(s.cur - 1)
    BY <1>1, <2>1, <2>2 DEF NotSkipped
  <2>3. CASE p \notin 1..(s.cur - 1)
    <3>1. s.dp = 1 /\ p = s.cur
      BY <1>2, <2>1, <2>3
    <3>2. p <= Len(s.doc)
      BY <1>2, <2>1
    <3> QED BY <1>2, <2>1, <3>1, <3>2
  <2> QED BY <2>2, <2>3
<1>4. CASE NoPage(s)
  <2>1. PICK z : z = [s EXCEPT !.cur = s.cur + s.dp]
    OBVIOUS
  <2>2. /\ Agree(z, s, {"cur"}) /\ z.cur = s.cur + s.dp
    BY <1>1, <2>1 DEF Typed, Agree, Fields
  <2>3. Typed(z) /\ Agree(z, s, {"cur", "remoteBR"}) /\ z.doc = s.doc /\ z.sent = s.sent
    BY <1>1, <1>2, <2>2 DEF Typed, Agree, Fields
  <2>4. NotSkipped(z)
    BY <1>3, <2>2, <2>3
  <2>5. D(s) = B(z, 2)
    BY <1>4, <2>1 DEF D
  <2>6. PICK q : q = B(z, 2)[1]
    OBVIOUS
  <2>7. /\ Both(q, u, x, <<>>) /\ B(z, 2)[2] = <<>> /\ q.pc = "off"
        /\ q.sent = s.sent /\ q.doc = s.doc /\ q.remtx = s.remtx
    <3>1. z.cur >= s.cur /\ (z.cur = s.cur \/ s.sent # <<>>) /\ 2 \in 0..3
      BY <1>2, <2>2
    <3> QED BY <2>3, <2>4, <2>6, <3>1, BGood
  <2>8. Confirmed(q)
    BY <2>7, ConfirmedLater
  <2> QED BY <2>5, <2>6, <2>7, <2>8 DEF Follows
<1>5. CASE ~NoPage(s)
  <2>1. PICK c : c = s.cur + s.dp
    OBVIOUS
  <2>2. c \in Nat \ {0} /\ c >= s.cur /\ c \in 1..Len(s.doc) /\ c \in DOMAIN s.doc
        /\ s.doc[c] \in Resolutions /\ PPM(s.doc, c) \in PostPage
    BY <1>2, <1>5, <2>1 DEF NoPage, PPM, PostPage
  <2>3. PICK z : z = rdpage(s)
    OBVIOUS
  <2>4. z = [s EXCEPT !.cur = c, !.localVR = s.doc[c], !.ppm = PPM(s.doc, c)]
    BY <2>1, <2>3 DEF rdpage, PPM
  <2>5. /\ Agree(z, s, {"cur", "localVR", "ppm"}) /\ z.cur = c /\ z.localVR = s.doc[c]
        /\ z.ppm = PPM(s.doc, c)
    BY <1>1, <2>4 DEF Typed, Agree, Fields
  <2>6. /\ Typed(z) /\ z.doc = s.doc /\ z.sent = s.sent /\ z.remoteBR = s.remoteBR
        /\ Agree(z, s, {"cur", "localVR", "ppm", "remoteBR"})
    BY <1>1, <2>2, <2>5 DEF Typed, Agree, Fields
  <2>7. AtPage(z) /\ NotSkipped(z)
    BY <1>3, <2>1, <2>2, <2>5, <2>6 DEF AtPage
  <2>8. z.remoteBR # -1
    BY <1>1, <2>6 DEF Own
  <2>9. (OneFormat(s.doc) /\ s.dp = 1) => u.pc # "waitR"
    BY <1>2, <2>1, <2>2
  <2>10. D(s) = D_2(z)
    BY <1>5, <2>3 DEF D
  <2>11. z.cur >= s.cur /\ (z.cur = s.cur \/ s.sent # <<>>)
    BY <1>2, <2>1, <2>5
  <2> QED BY <2>6, <2>7, <2>8, <2>9, <2>10, <2>11, D_2Good
<1> QED BY <1>4, <1>5

(* I_2: the page and the post-page message are sent. *)
LEMMA I_2Good ==
  ASSUME NEW s, NEW u, NEW x, NEW y, NEW left, Both(s, u, x, y), Confirmed(s), s.pc \in Sending,
         NEW z, Typed(z), Agree(z, s, {"cur", "ppm"}), AtPage(z), z.cur >= s.cur,
         NotSkipped(z), z.cur = s.cur \/ s.sent # <<>>,
         u.pc = "data", u.br = z.br, u.vr = z.vr
  PROVE  Follows(I_2(z), u, x, left)
<1>1. /\ z.doc \in Seq(Resolutions) /\ z.cur \in 1..Len(z.doc) /\ Len(z.doc) \in Nat
      /\ z.ppm = PPM(z.doc, z.cur) /\ z.ppm \in PostPage /\ z.pagetry + 1 \in Nat
  BY DEF Typed, AtPage
<1>2. (IF lastpage(z) THEN "EOP" ELSE z.ppm) = z.ppm
  BY <1>1 DEF lastpage, PPM
<1>3. /\ I_2(z)[1] = [z EXCEPT !.pc = "waitPPR", !.pagetry = z.pagetry + 1, !.try = 1,
                              !.ppm = z.ppm]
      /\ I_2(z)[2] = <<Data(z), Frame(z.ppm)>>
  BY <1>2 DEF I_2
<1>4. PICK q : q = I_2(z)[1]
  OBVIOUS
<1>5. /\ Agree(q, z, {"pc", "pagetry", "try"}) /\ q.pc = "waitPPR"
      /\ q.pagetry = z.pagetry + 1 /\ q.try = 1
  <2>1. DOMAIN q = Fields
    BY <1>3, <1>4 DEF Typed
  <2>2. q = [f \in DOMAIN q |-> q[f]]
    BY <1>3, <1>4
  <2>3. \A f \in Fields \ {"pc", "pagetry", "try"} : q[f] = z[f]
    BY <1>3, <1>4 DEF Typed, Fields
  <2>4. q.pc = "waitPPR" /\ q.pagetry = z.pagetry + 1 /\ q.try = 1
    BY <1>3, <1>4 DEF Typed, Fields
  <2> QED BY <2>1, <2>2, <2>3, <2>4 DEF Agree
<1>6. Typed(q)
  <2>1. q.pc \in Listening /\ q.pagetry \in Nat /\ q.try \in Nat
    BY <1>1, <1>5 DEF Listening
  <2> QED BY <1>5, <2>1 DEF Typed, Agree, Fields
<1>7. /\ q.cur = z.cur /\ q.vr = z.vr /\ q.localVR = z.localVR /\ q.ppm = z.ppm
      /\ q.doc = z.doc /\ q.br = z.br
      /\ q.sent = z.sent /\ q.dp = z.dp /\ z.sent = s.sent /\ z.dp = s.dp /\ z.doc = s.doc
      /\ q.remtx = s.remtx
  BY <1>5 DEF Agree, Fields
<1>8. Agree(q, s, {"pc", "try", "pagetry", "cur", "ppm"})
  BY <1>5 DEF Agree
<1>9. AtPage(q) /\ NotSkipped(q)
  BY <1>7 DEF AtPage, NotSkipped, SentPages
<1>10. s.sent # <<>> \/ (s.cur = 1 /\ s.dp = 0)
  BY DEF Both, Half, Own
<1>11. q.sent # <<>> \/ (q.cur = 1 /\ q.dp = 0)
  BY <1>7, <1>10
<1>12. I_2(z)[2] = Page(q, "good") /\ Page(q, "good") # <<>>
  BY <1>3, <1>7 DEF Page, Data
<1>13. PICK x2 : x2 = Page(q, "good")
  OBVIOUS
<1>14. Both(q, u, x2, <<>>)
  BY <1>5, <1>6, <1>7, <1>8, <1>9, <1>11, <1>13, SendsPage
<1>15. Confirmed(q)
  BY <1>7, ConfirmedLater DEF Sending
<1> QED BY <1>4, <1>12, <1>13, <1>14, <1>15 DEF Follows

(* I: the next page of the same format. *)
LEMMA IGood ==
  ASSUME NEW s, NEW u, NEW x, NEW y, NEW left, Both(s, u, x, y), Confirmed(s), s.pc = "waitPPR",
         s.ppm = "MPS", s.dp = 1, s.cur \in SentPages(s), u.pc = "data"
  PROVE  Follows(I(s), u, x, left)
<1>1. /\ Half(s, u, x, y) /\ Own(s) /\ Typed(s) /\ NotSkipped(s) /\ AtPage(s)
      /\ u.br = s.br /\ u.vr = s.vr
  BY DEF Both, Half, Own, Sending, Paging
<1>2. /\ s.doc \in Seq(Resolutions) /\ s.cur \in 1..Len(s.doc) /\ s.cur # Len(s.doc)
      /\ s.doc[s.cur + 1] = s.doc[s.cur] /\ s.localVR = s.doc[s.cur] /\ Len(s.doc) \in Nat
  BY <1>1 DEF Typed, AtPage, PPM
<1>3. PICK c : c = s.cur + s.dp
  OBVIOUS
<1>4. /\ c \in Nat \ {0} /\ c >= s.cur /\ c \in 1..Len(s.doc) /\ c \in DOMAIN s.doc
      /\ s.doc[c] = s.localVR /\ s.doc[c] \in Resolutions /\ PPM(s.doc, c) \in PostPage
      /\ ~NoPage(s)
  BY <1>2, <1>3 DEF NoPage, PPM, PostPage
<1>5. PICK z : z = rdpage(s)
  OBVIOUS
<1>6. z = [s EXCEPT !.cur = c, !.localVR = s.doc[c], !.ppm = PPM(s.doc, c)]
  BY <1>3, <1>5 DEF rdpage, PPM
<1>7. Agree(z, s, {"cur", "ppm"}) /\ z.cur = c /\ z.localVR = s.doc[c] /\ z.ppm = PPM(s.doc, c)
  BY <1>1, <1>4, <1>6 DEF Typed, Agree, Fields
<1>8. Typed(z) /\ z.doc = s.doc /\ z.sent = s.sent /\ z.br = s.br /\ z.vr = s.vr
  BY <1>1, <1>4, <1>7 DEF Typed, Agree, Fields
<1>9. AtPage(z)
  BY <1>4, <1>7, <1>8 DEF AtPage
<1>10. NotSkipped(z)
  <2>1. SentPages(z) = SentPages(s) /\ OneFormat(z.doc) = OneFormat(s.doc)
    BY <1>8 DEF SentPages
  <2>2. \A p \in 1..(c - 1) : p \in 1..(s.cur - 1) \/ p = s.cur
    BY <1>2, <1>3
  <2> QED BY <1>1, <1>7, <1>8, <2>1, <2>2 DEF NotSkipped
<1>11. s.sent # <<>>
  BY <1>1 DEF Own
<1>12. I(s) = I_2(z)
  BY <1>4, <1>5 DEF I
<1>13. s.pc \in Sending
  BY DEF Sending
<1> QED BY <1>1, <1>4, <1>7, <1>8, <1>9, <1>10, <1>11, <1>12, <1>13, I_2Good

\* The post-page message again.
LEMMA sendppmGood ==
  ASSUME NEW s, NEW u, NEW x, NEW y, NEW left, Both(s, u, x, y), Confirmed(s), s.pc = "waitPPR",
         Len(x) < 2
  PROVE  Follows(sendppm(s), u, x, left)
<1>1. Typed(s)
  BY DEF Both, Half, Own
<1>2. PICK q : q = sendppm(s)[1]
  OBVIOUS
<1>3. Agree(q, s, {"try"}) /\ q.try = s.try + 1 /\ sendppm(s)[2] = <<Frame(s.ppm)>>
  BY <1>1, <1>2 DEF Typed, Agree, sendppm, Fields
<1>4. Typed(q)
  <2>1. q.try \in Nat
    BY <1>1, <1>3 DEF Typed
  <2> QED BY <1>1, <1>3, <2>1 DEF Typed, Agree, Fields
<1>5. q.ppm = s.ppm /\ q.doc = s.doc /\ q.sent = s.sent /\ q.remtx = s.remtx
  BY <1>3 DEF Agree, Fields
<1>6. PICK x2 : x2 = <<Frame(q.ppm)>>
  OBVIOUS
<1>7. Both(q, u, x2, <<>>)
  BY <1>3, <1>4, <1>6, AsksAgain
<1>8. sendppm(s)[2] = x2 /\ x2 # <<>>
  BY <1>3, <1>5, <1>6
<1>9. Confirmed(q)
  BY <1>5, ConfirmedLater
<1> QED BY <1>2, <1>7, <1>8, <1>9 DEF Follows

\* T: a sender goes back to wait for DIS before a page of another format.
LEMMA TGood ==
  ASSUME NEW s, NEW u, NEW x, NEW y, NEW left, Both(s, u, x, y), Confirmed(s), s.pc = "waitPPR",
         x = <<>>, left = <<>>, s.ppm = "EOM"
  PROVE  Follows(T(s), u, x, left)
<1>1. Typed(s) /\ AtPage(s)
  BY DEF Both, Half, Own, Sending
<1>2. PICK q : q = T(s)[1]
  OBVIOUS
<1>3. /\ Agree(q, s, {"pc", "pagetry"}) /\ q.pc = "T" /\ q.pagetry = 0 /\ T(s)[2] = <<>>
  BY <1>1, <1>2 DEF Typed, Agree, T, Fields
<1>4. Typed(q)
  <2>1. q.pc \in Listening /\ q.pagetry \in Nat
    BY <1>3 DEF Listening
  <2> QED BY <1>1, <1>3, <2>1 DEF Typed, Agree, Fields
<1>5. q.doc = s.doc /\ q.sent = s.sent /\ q.remtx = s.remtx
  BY <1>3 DEF Agree, Fields
<1>6. ~OneFormat(s.doc)
  <2>1. s.cur \in 1..Len(s.doc) /\ s.cur # Len(s.doc) /\ s.doc[s.cur + 1] # s.doc[s.cur]
        /\ s.doc \in Seq(Resolutions)
    BY <1>1 DEF AtPage, PPM, Typed
  <2>2. s.cur + 1 \in DOMAIN s.doc /\ s.cur \in DOMAIN s.doc
    BY <2>1
  <2> QED BY <2>1, <2>2 DEF OneFormat
<1>7. Both(q, u, <<>>, <<>>)
  BY <1>3, <1>4, <1>6, WaitsAtT
<1>8. Confirmed(q)
  BY <1>5, ConfirmedLater
<1> QED BY <1>2, <1>3, <1>7, <1>8 DEF Follows

\* fs are the files of z, with an empty one for the next page.
Opened(fs, z) ==
  /\ fs \in Seq(Seq(Line)) /\ Len(fs) = z.rxpage + 1
  /\ \A i \in 1..z.rxpage : fs[i] = z.files[i]
  /\ \A i \in 1..Len(fs) : IF i <= z.rxpage THEN Len(fs[i]) = 1 /\ fs[i][1].quality # "cut"
                           ELSE fs[i] = <<>>

(* The file for the next page is opened, if it was not. *)
LEMMA OpenIs ==
  ASSUME NEW z, Typed(z), FilesShape(z), z.pc # "off", ~z.writepending,
         NEW fs, fs = Append(SubSeq(z.files, 1, z.rxpage), <<>>)
  PROVE  Opened(fs, z)
<1>1. z.rxpage \in Nat /\ z.files \in Seq(Seq(Line)) /\ z.rxpage <= Len(z.files)
  BY DEF Typed, FilesShape
<1>2. PICK g : g = SubSeq(z.files, 1, z.rxpage)
  OBVIOUS
<1>3. g \in Seq(Seq(Line)) /\ Len(g) = z.rxpage /\ \A i \in 1..z.rxpage : g[i] = z.files[i]
  BY <1>1, <1>2
<1>4. <<>> \in Seq(Line)
  OBVIOUS
<1>5. /\ fs \in Seq(Seq(Line)) /\ Len(fs) = z.rxpage + 1 /\ fs[z.rxpage + 1] = <<>>
      /\ \A i \in 1..z.rxpage : fs[i] = z.files[i]
  BY <1>1, <1>2, <1>3, <1>4
<1>6. ASSUME NEW i \in 1..Len(fs)
      PROVE  IF i <= z.rxpage THEN Len(fs[i]) = 1 /\ fs[i][1].quality # "cut" ELSE fs[i] = <<>>
  <2>1. CASE i <= z.rxpage
    <3>1. i \in 1..z.rxpage /\ i \in 1..Len(z.files)
      BY <1>1, <1>5, <2>1
    <3>2. Len(z.files[i]) = 1 /\ z.files[i][1].quality # "cut"
      BY <2>1, <3>1 DEF FilesShape
    <3> QED BY <1>5, <2>1, <3>1, <3>2
  <2>2. CASE ~(i <= z.rxpage)
    <3>1. i = z.rxpage + 1
      BY <1>1, <1>5, <2>2
    <3> QED BY <1>5, <2>2, <3>1
  <2> QED BY <2>1, <2>2
<1> QED BY <1>5, <1>6 DEF Opened

(* R: the first invitation, or the first after a change of roles. *)
LEMMA RGood ==
  ASSUME NEW s, NEW u, NEW x, NEW y, NEW left, Both(s, u, x, y),
         s.pc \in {"T", "waitPPR", "waitR", "F"}, ~s.writepending,
         NEW z, Typed(z), Agree(z, s, {"cur"}), z.cur >= s.cur, NotSkipped(z),
         z.cur = s.cur \/ s.sent # <<>>,
         s.doc # <<>> => (s.dp = 0 \/ z.cur > Len(s.doc)),
         (OneFormat(u.doc) /\ u.pc \in {"T", "waitDCS"}) => u.dp = 0,
         (NoPIP /\ s.doc # <<>> /\ Len(s.doc) \in SentPages(s)) => s.remtx
  PROVE  Follows(R(z), u, x, left)
<1>1. Half(s, u, x, y) /\ Own(s) /\ FilesShape(s)
  BY DEF Both, Half, Own
<1>2. /\ z.pc = s.pc /\ z.doc = s.doc /\ z.dp = s.dp /\ z.sent = s.sent /\ z.remtx = s.remtx
      /\ z.rxpage = s.rxpage /\ z.writepending = s.writepending /\ z.files = s.files
  BY DEF Agree, Fields
<1>3. FilesShape(z) /\ z.pc # "off" /\ ~z.writepending
  BY <1>1, <1>2 DEF FilesShape
<1>4. PICK fs : fs = Append(SubSeq(z.files, 1, z.rxpage), <<>>)
  OBVIOUS
<1>5. /\ fs \in Seq(Seq(Line)) /\ Len(fs) = z.rxpage + 1
      /\ \A i \in 1..z.rxpage : fs[i] = z.files[i]
      /\ \A i \in 1..Len(fs) : IF i <= z.rxpage THEN Len(fs[i]) = 1 /\ fs[i][1].quality # "cut"
                               ELSE fs[i] = <<>>
  <2>1. Opened(fs, z)
    BY <1>3, <1>4, OpenIs
  <2> QED BY <2>1 DEF Opened
<1>6. PICK w : w = [z EXCEPT !.files = fs, !.t = 0]
  OBVIOUS
<1>7. R(z) = SendDIS(w)
  <2>1. OpenFile(z, z.rxpage) = [z EXCEPT !.files = fs]
    BY <1>4 DEF OpenFile
  <2>2. [OpenFile(z, z.rxpage) EXCEPT !.t = 0] = w
    BY <1>6, <2>1
  <2> QED BY <2>2 DEF R
<1>8. /\ Agree(w, z, {"files", "t"}) /\ w.files = fs /\ w.t = 0
  BY <1>6 DEF Typed, Agree, Fields
<1>9. PICK q : q = [w EXCEPT !.pc = "waitR", !.t = w.t + 1]
  OBVIOUS
<1>10. SendDIS(w) = <<q, <<DIS(w)>>>>
  BY <1>8, <1>9 DEF SendDIS, MaxDIS
<1>11. Agree(q, w, {"pc", "t"}) /\ q.pc = "waitR" /\ q.t = 1
  <2>1. DOMAIN q = Fields
    BY <1>8, <1>9 DEF Agree
  <2>2. q = [f \in DOMAIN q |-> q[f]]
    BY <1>9
  <2>3. \A f \in Fields \ {"pc", "t"} : q[f] = w[f]
    BY <1>8, <1>9 DEF Agree, Fields
  <2>4. q.pc = "waitR" /\ q.t = 1
    BY <1>8, <1>9 DEF Agree, Fields
  <2> QED BY <2>1, <2>2, <2>3, <2>4 DEF Agree
<1>12. /\ Agree(q, s, {"pc", "t", "files", "cur"}) /\ q.files = fs /\ q.cur = z.cur
       /\ q.doc = s.doc /\ q.dp = s.dp /\ q.sent = s.sent /\ q.remtx = s.remtx
       /\ q.rxpage = s.rxpage /\ q.writepending = s.writepending
  BY <1>2, <1>8, <1>11 DEF Agree, Fields
<1>13. Typed(q)
  <2>1. q.pc \in Listening /\ q.t \in 0..MaxDIS
    BY <1>11 DEF Listening, MaxDIS
  <2>2. q.files \in Seq(Seq(Line)) /\ Agree(q, z, {"pc", "t", "files"})
    BY <1>5, <1>8, <1>11 DEF Agree, Fields
  <2> QED BY <2>1, <2>2 DEF Typed, Agree, Fields
<1>14. FilesShape(q)
  <2>1. q.rxpage \in Nat
    BY <1>13 DEF Typed
  <2> QED BY <1>2, <1>3, <1>5, <1>11, <1>12, <2>1 DEF FilesShape
<1>15. SamePages(s, q)
  BY <1>2, <1>5, <1>12 DEF SamePages
<1>16. NotSkipped(q)
  BY <1>2, <1>12 DEF NotSkipped, SentPages
<1>17. q.sent # <<>> \/ (q.cur = 1 /\ q.dp = 0)
  BY <1>1, <1>12 DEF Own
<1>18. DIS(w) = DIS(q)
  BY <1>11 DEF DIS, Agree, Fields
<1>19. PICK x2 : x2 = <<DIS(q)>>
  OBVIOUS
<1>20. Both(q, u, x2, <<>>)
  BY <1>11, <1>12, <1>13, <1>14, <1>15, <1>16, <1>17, <1>19, Invites
<1>21. Confirmed(q)
  BY <1>12 DEF Confirmed, SentPages
<1>22. R(z)[1] = q /\ R(z)[2] = x2 /\ x2 # <<>>
  BY <1>7, <1>10, <1>18, <1>19
<1> QED BY <1>20, <1>21, <1>22 DEF Follows

(* The invitation again, until T1 has passed. *)
LEMMA SendDISGood ==
  ASSUME NEW s, NEW u, NEW x, NEW y, NEW left, Both(s, u, x, y), Confirmed(s), s.pc = "waitR"
  PROVE  Follows(SendDIS(s), u, x, left)
<1>1. Half(s, u, x, y) /\ Own(s) /\ Typed(s) /\ FilesShape(s) /\ ~s.writepending /\ NotSkipped(s)
  BY DEF Both, Half, Own, FilesShape
<1>2. s.cur \in Nat /\ s.cur >= s.cur /\ s.t \in 0..MaxDIS
  BY <1>1 DEF Typed
<1>3. CASE s.t >= MaxDIS
  <2>1. SendDIS(s) = C(s, 3)
    BY <1>3 DEF SendDIS, C_timeout
  <2>2. PICK q : q = B(s, 3)[1]
    OBVIOUS
  <2>3. Agree(s, s, {"cur", "remoteBR"}) /\ 3 \in 0..3
    BY <1>1 DEF Agree, Typed
  <2>4. /\ Both(q, u, <<Frame("DCN")>>, <<>>) /\ C(s, 3) = <<q, <<Frame("DCN")>>>>
        /\ q.sent = s.sent /\ q.doc = s.doc /\ q.remtx = s.remtx
    BY <1>1, <1>2, <2>2, <2>3, BGood
  <2>5. Confirmed(q)
    BY <2>4, ConfirmedLater
  <2>6. SendDIS(s)[1] = q /\ SendDIS(s)[2] = <<Frame("DCN")>> /\ <<Frame("DCN")>> # <<>>
    BY <2>1, <2>4
  <2> QED BY <2>4, <2>5, <2>6 DEF Follows
<1>4. CASE ~(s.t >= MaxDIS)
  <2>1. PICK q : q = [s EXCEPT !.pc = "waitR", !.t = s.t + 1]
    OBVIOUS
  <2>2. SendDIS(s) = <<q, <<DIS(s)>>>>
    BY <1>4, <2>1 DEF SendDIS
  <2>3. Agree(q, s, {"t"}) /\ q.t = s.t + 1
    BY <1>1, <2>1 DEF Typed, Agree, Fields
  <2>4. Typed(q)
    <3>1. q.t \in 0..MaxDIS
      BY <1>2, <1>4, <2>3 DEF MaxDIS
    <3> QED BY <1>1, <2>3, <3>1 DEF Typed, Agree, Fields
  <2>5. /\ q.pc = "waitR" /\ q.doc = s.doc /\ q.dp = s.dp /\ q.sent = s.sent
        /\ q.remtx = s.remtx
        /\ q.rxpage = s.rxpage /\ q.writepending = s.writepending /\ q.files = s.files
        /\ q.cur = s.cur
    BY <2>3 DEF Agree, Fields
  <2>6. FilesShape(q) /\ SamePages(s, q) /\ NotSkipped(q)
    BY <1>1, <2>5 DEF FilesShape, SamePages, NotSkipped, SentPages
  <2>7. q.sent # <<>> \/ (q.cur = 1 /\ q.dp = 0)
    BY <1>1, <2>5 DEF Own
  <2>8. q.doc # <<>> => (q.dp = 0 \/ q.cur > Len(q.doc))
    BY <1>1, <2>5 DEF Own, Receiving
  <2>9. DIS(s) = DIS(q)
    BY <2>3 DEF DIS, Agree, Fields
  <2>10. PICK x2 : x2 = <<DIS(q)>>
    OBVIOUS
  <2>11. Agree(q, s, {"pc", "t", "files", "cur"})
    BY <2>3 DEF Agree
  <2>12. Both(q, u, x2, <<>>)
    BY <1>1, <1>2, <2>4, <2>5, <2>6, <2>7, <2>8, <2>10, <2>11, Invites
  <2>13. Confirmed(q)
    BY <2>5, ConfirmedLater
  <2>14. SendDIS(s)[1] = q /\ SendDIS(s)[2] = x2 /\ x2 # <<>>
    BY <2>2, <2>9, <2>10
  <2> QED BY <2>12, <2>13, <2>14 DEF Follows
<1> QED BY <1>3, <1>4

\* An invitation tells truly whether its sender has anything to send.
LEMMA KnownGood ==
  ASSUME NEW s, NEW u, NEW x, NEW y, NEW f, Both(s, u, x, y), Confirmed(s), s.pc # "off",
         f = DIS(u), NEW z, Typed(z), Agree(z, s, Trifles \ {"remtx", "remoteBR", "remoteVR"}),
         z.frame = s.frame \/ z.frame # "EOM",
         NEW q, Agree(q, z, {"remoteBR", "remoteVR", "remtx"}), q.remoteBR = f.br,
         q.remoteVR = f.vr, q.remtx = f.tx
  PROVE  /\ Both(q, u, x, y) /\ Confirmed(q) /\ Agree(q, s, Trifles)
         /\ q.remoteVR = u.localVR
<1>1. /\ s.remtx => u.doc # <<>>
      /\ u.localBR \in Codes /\ u.localVR \in Resolutions /\ Typed(s)
  BY DEF Both, Half, Own, Typed
<1>2. f.br \in Codes /\ f.tx \in BOOLEAN /\ (f.tx <=> u.doc # <<>>) /\ f.vr = u.localVR
  BY <1>1, RatesAreCodes DEF DIS
<1>4. Typed(q)
  BY <1>1, <1>2 DEF Typed, Agree, Fields
<1>5. Agree(q, s, Trifles)
  BY DEF Agree, Trifles
<1>6. q.remoteBR # -1 /\ q.frame = z.frame /\ q.doc = s.doc /\ q.sent = s.sent
  BY <1>2, <1>5 DEF Codes, Agree, Fields, Trifles
<1>7. Both(q, u, x, y)
  <2>1. q.remtx => u.doc # <<>>
    BY <1>2
  <2>2. s.pc # "off" => q.remoteBR # -1
    BY <1>6
  <2>3. q.frame = s.frame \/ q.frame # "EOM"
    BY <1>6
  <2> QED BY <1>2, <1>4, <1>5, <2>1, <2>2, <2>3, TrifleGood
<1>8. Confirmed(q)
  BY <1>1, <1>2, <1>6, ConfirmedLater
<1> QED BY <1>2, <1>5, <1>7, <1>8

(* A: the end that was invited sends, if it has anything to send, or else   *)
(* invites in its turn.                                                     *)
LEMMA AGood ==
  ASSUME NEW s, NEW u, NEW x, NEW y, NEW left, Both(s, u, x, y), Confirmed(s),
         s.pc \in {"T", "waitDCS", "waitR", "F"}, ~s.writepending, x = <<>>, u.pc = "waitR",
         NEW f, f = DIS(u), NEW z, Typed(z),
         Agree(z, s, Trifles \ {"remtx", "remoteBR", "remoteVR"}),
         z.frame = s.frame \/ z.frame # "EOM"
  PROVE  Follows(A(z, f), u, x, left)
<1>1. PICK q : q = [z EXCEPT !.remoteBR = f.br, !.remoteVR = f.vr, !.remtx = f.tx]
  OBVIOUS
<1>2. f.kind = "DIS"
  BY DEF DIS
<1>3. /\ Agree(q, z, {"remoteBR", "remoteVR", "remtx"})
      /\ q.remoteBR = f.br /\ q.remoteVR = f.vr /\ q.remtx = f.tx
  BY <1>1 DEF Typed, Agree, Fields
<1>4. Both(q, u, x, y) /\ Confirmed(q) /\ Agree(q, s, Trifles) /\ q.remoteVR = u.localVR
  BY <1>3, KnownGood
<1>5. /\ q.pc = s.pc /\ q.doc = s.doc /\ q.writepending = s.writepending /\ q.dp = s.dp
      /\ q.cur = s.cur /\ q.sent = s.sent /\ z.doc = s.doc
  BY <1>4 DEF Agree, Fields, Trifles
<1>6. Half(q, u, x, y) /\ Own(q) /\ Typed(q) /\ NotSkipped(q) /\ Half(u, q, y, x)
  BY <1>4 DEF Both, Half, Own
<1>7. A(z, f) = IF s.doc # <<>> THEN D(q) ELSE R(q)
  BY <1>1, <1>2, <1>5 DEF A
<1>8. CASE s.doc # <<>>
  <2>1. u.pc \notin {"waitPPR", "train", "waitDCS"} /\ q.pc \notin {"data", "train", "off"}
    BY <1>5
  <2>2. (OneFormat(q.doc) /\ q.dp = 1) =>
          (q.cur > Len(q.doc) \/ (u.pc # "waitR" /\ q.cur \in SentPages(q)))
    <3>1. CASE q.pc \in {"T", "waitDCS"}
      BY <1>6, <3>1 DEF Half, OneStart
    <3>2. CASE q.pc \in {"waitR", "F"}
      BY <1>5, <1>6, <1>8, <3>2 DEF Own, Receiving
    <3> QED BY <1>5, <3>1, <3>2
  <2>3. Follows(D(q), u, x, left)
    BY <1>4, <1>5, <1>8, <2>1, <2>2, DGood
  <2> QED BY <1>7, <1>8, <2>3
<1>9. CASE s.doc = <<>>
  <2>1. q.pc # "waitDCS"
    <3>1. q.pc = "waitDCS" => q.cur \in DOMAIN q.doc
      BY <1>6 DEF Own, Sending, AtPage
    <3> QED BY <1>5, <1>9, <3>1
  <2>2. q.pc \in {"T", "waitPPR", "waitR", "F"} /\ ~q.writepending /\ Agree(q, q, {"cur"})
    BY <1>5, <1>6, <2>1 DEF Agree, Typed
  <2>3. q.cur >= q.cur
    BY <1>6 DEF Typed
  <2>4. Follows(R(q), u, x, left)
    BY <1>4, <1>5, <1>6, <1>9, <2>2, <2>3, RGood
  <2> QED BY <1>7, <1>9, <2>4
<1> QED BY <1>8, <1>9

(* The answer of the end that receives to a post-page message. *)
LEMMA AnsweredGood ==
  ASSUME NEW s, NEW u, NEW x, NEW y, NEW left, Both(s, u, x, y), Confirmed(s),
         s.pc \in {"waitR", "F"}, ~s.writepending, u.pc = "waitPPR", y = <<Frame(u.ppm)>>,
         NEW a, a \in PostPageAnswers, a = "PIP" => ~NoPIP, a \in Accepts => s.good
  PROVE  Follows(Answered(s, u.ppm, a), u, x, left)
<1>1. Typed(s) /\ Typed(u)
  BY DEF Both, Half, Own
<1>2. PICK to : to = IF a = "MCF" /\ u.ppm = "MPS" THEN "data" ELSE "F"
  OBVIOUS
<1>3. PICK q : q = [s EXCEPT !.pc = to, !.frame = u.ppm]
  OBVIOUS
<1>4. Answered(s, u.ppm, a) = <<q, <<Frame(a)>>>>
  BY <1>2, <1>3 DEF Answered
<1>5. Agree(q, s, {"pc", "frame"}) /\ q.pc = to /\ q.frame = u.ppm
  <2>1. DOMAIN q = Fields
    BY <1>1, <1>3 DEF Typed
  <2>2. q = [g \in DOMAIN q |-> q[g]]
    BY <1>3
  <2>3. \A g \in Fields \ {"pc", "frame"} : q[g] = s[g]
    BY <1>1, <1>3 DEF Typed, Fields
  <2>4. q.pc = to /\ q.frame = u.ppm
    BY <1>1, <1>3 DEF Typed, Fields
  <2> QED BY <2>1, <2>2, <2>3, <2>4 DEF Agree
<1>6. Typed(q)
  <2>1. q.pc \in Listening /\ q.frame \in {"MPS", "EOM", "EOP"}
    BY <1>1, <1>2, <1>5 DEF Typed, PostPage, Listening
  <2> QED BY <1>1, <1>5, <2>1 DEF Typed, Agree, Fields
<1>7. PICK x2 : x2 = <<Frame(a)>>
  OBVIOUS
<1>8. Both(q, u, x2, <<>>)
  BY <1>2, <1>5, <1>6, <1>7, AnswersPage
<1>9. Confirmed(q)
  BY <1>5, ConfirmedLater DEF Agree, Fields
<1>10. Answered(s, u.ppm, a)[1] = q /\ Answered(s, u.ppm, a)[2] = x2 /\ x2 # <<>>
  BY <1>4, <1>7
<1> QED BY <1>8, <1>9, <1>10 DEF Follows

\* B by an end whose postponed file has been opened.
LEMMA EndsAtB ==
  ASSUME NEW s, NEW u, NEW x, NEW y, NEW left, Both(s, u, x, y), Confirmed(s),
         s.pc \notin {"data", "train", "off"}, ~s.writepending, x = <<>> \/ s.pc = "F",
         NEW err \in 0..3
  PROVE  Follows(B(s, err), u, x, left)
<1>1. Half(s, u, x, y) /\ Typed(s) /\ NotSkipped(s)
  BY DEF Both, Half, Own
<1>2. s.cur >= s.cur /\ Agree(s, s, {"cur", "remoteBR"})
  BY <1>1 DEF Typed, Agree
<1>3. PICK q : q = B(s, err)[1]
  OBVIOUS
<1>4. /\ Both(q, u, x, <<>>) /\ B(s, err)[2] = <<>> /\ q.pc = "off"
      /\ q.sent = s.sent /\ q.doc = s.doc /\ q.remtx = s.remtx
  BY <1>1, <1>2, <1>3, BGood
<1>5. Confirmed(q)
  BY <1>4, ConfirmedLater
<1> QED BY <1>3, <1>4, <1>5 DEF Follows

\* C, and C_timeout.
LEMMA EndsAtC ==
  ASSUME NEW s, NEW u, NEW x, NEW y, NEW left, Both(s, u, x, y), Confirmed(s),
         s.pc \notin {"data", "train", "off"}, ~s.writepending, NEW err \in 0..3
  PROVE  Follows(C(s, err), u, x, left)
<1>1. Half(s, u, x, y) /\ Typed(s) /\ NotSkipped(s)
  BY DEF Both, Half, Own
<1>2. s.cur >= s.cur /\ Agree(s, s, {"cur", "remoteBR"})
  BY <1>1 DEF Typed, Agree
<1>3. PICK q : q = B(s, err)[1]
  OBVIOUS
<1>4. /\ Both(q, u, <<Frame("DCN")>>, <<>>) /\ C(s, err) = <<q, <<Frame("DCN")>>>>
      /\ q.sent = s.sent /\ q.doc = s.doc /\ q.remtx = s.remtx
  BY <1>1, <1>2, <1>3, BGood
<1>5. Confirmed(q)
  BY <1>4, ConfirmedLater
<1>6. C(s, err)[1] = q /\ C(s, err)[2] = <<Frame("DCN")>> /\ <<Frame("DCN")>> # <<>>
  BY <1>4
<1> QED BY <1>4, <1>5, <1>6 DEF Follows

(* F_2: a command. *)
LEMMA CommandedGood ==
  ASSUME NEW s, NEW u, NEW x, NEW y, Both(s, u, x, y), Confirmed(s), s.pc \in {"waitR", "F"},
         ~s.writepending, y # <<>>, NEW f, f = Head(y), f.kind \notin Carriers
  PROVE  Follows(Commanded(s, f), u, x, Tail(y))
<1>1. /\ Half(s, u, x, y) /\ Half(u, s, y, x) /\ Own(s) /\ Typed(s) /\ Own(u) /\ Typed(u)
      /\ Spoken(u, y) /\ x = <<>> /\ s.err = 0
  BY DEF Both, Half, Own
<1>2. Heard(u, y) /\ Spoken(u, Tail(y))
  BY <1>1, HeardIs
<1>3. CASE f.kind = "DIS"
  <2>1. u.pc = "waitR" /\ f = DIS(u)
    BY <1>2, <1>3 DEF Heard
  <2>2. PICK z : z = [s EXCEPT !.try = 0, !.frame = "DIS"]
    OBVIOUS
  <2>3. Agree(z, s, {"try", "frame"}) /\ z.try = 0 /\ z.frame = "DIS"
    BY <1>1, <2>2 DEF Typed, Agree, Fields
  <2>4. Typed(z) /\ Agree(z, s, Trifles \ {"remtx", "remoteBR", "remoteVR"})
    <3>1. z.try \in Nat /\ z.frame \in {"none", "carrier", "DIS", "DCS", "MPS", "EOM", "EOP"}
      BY <2>3
    <3>2. Typed(z)
      BY <1>1, <2>3, <3>1 DEF Typed, Agree, Fields
    <3> QED BY <2>3, <3>2 DEF Agree, Trifles
  <2>5. Commanded(s, f) = A(z, f)
    <3>1. f.kind # "DCS" /\ f.kind \notin PostPage /\ f.kind # "DCN"
      BY <1>3 DEF PostPage
    <3> QED BY <1>3, <2>2, <3>1 DEF Commanded
  <2> QED BY <1>1, <2>1, <2>3, <2>4, <2>5, AGood
<1>4. CASE f.kind = "DCS"
  <2>1. u.pc = "waitDCS" /\ f = DCS(u)
    BY <1>2, <1>4 DEF Heard
  <2>2. f.vr = u.vr /\ f.br \in Codes /\ f.vr \in Resolutions
    BY <1>1, <2>1, RatesAreCodes DEF DCS, Typed
  <2>3. PICK q : q = [s EXCEPT !.pc = "train", !.br = f.br, !.vr = f.vr, !.frame = "DCS"]
    OBVIOUS
  <2>4. Commanded(s, f) = <<q, <<>>>>
    <3>1. f.kind # "DIS" /\ f.kind \notin PostPage /\ f.kind # "DCN"
      BY <1>4 DEF PostPage
    <3> QED BY <1>4, <2>3, <3>1 DEF Commanded
  <2>5. /\ Agree(q, s, {"pc", "frame", "br", "vr"}) /\ q.pc = "train" /\ q.frame = "DCS"
        /\ q.br = f.br /\ q.vr = f.vr
    <3>1. DOMAIN q = Fields
      BY <1>1, <2>3 DEF Typed
    <3>2. q = [g \in DOMAIN q |-> q[g]]
      BY <2>3
    <3>3. \A g \in Fields \ {"pc", "frame", "br", "vr"} : q[g] = s[g]
      BY <1>1, <2>3 DEF Typed, Fields
    <3>4. q.pc = "train" /\ q.frame = "DCS" /\ q.br = f.br /\ q.vr = f.vr
      BY <1>1, <2>3 DEF Typed, Fields
    <3> QED BY <3>1, <3>2, <3>3, <3>4 DEF Agree
  <2>6. Typed(q)
    <3>1. /\ q.pc \in Listening /\ q.br \in Codes /\ q.vr \in Resolutions
          /\ q.frame \in {"none", "carrier", "DIS", "DCS", "MPS", "EOM", "EOP"}
      BY <2>2, <2>5 DEF Listening
    <3>2. /\ DOMAIN q = Fields /\ q = [g \in DOMAIN q |-> q[g]]
          /\ \A g \in Fields \ {"pc", "frame", "br", "vr"} : q[g] = s[g]
      BY <2>5 DEF Agree
    <3>3. Typed(s)
      BY <1>1
    <3> QED BY ONLY <3>1, <3>2, <3>3 DEF Typed, Fields
  <2>7. Both(q, u, <<>>, Tail(y))
    <3>1. PICK y2 : y2 = Tail(y)
      OBVIOUS
    <3>2. Both(q, u, <<>>, y2)
      BY <1>1, <1>2, <2>1, <2>2, <2>5, <2>6, <3>1, HearsDCS
    <3> QED BY <3>1, <3>2
  <2>8. Confirmed(q)
    BY <2>5, ConfirmedLater DEF Agree, Fields
  <2> QED BY <1>1, <2>4, <2>5, <2>7, <2>8 DEF Follows
<1>5. CASE f.kind \in PostPage
  <2>1. u.pc = "waitPPR" /\ y = <<Frame(u.ppm)>> /\ f.kind = u.ppm
    BY <1>2, <1>5 DEF Heard
  <2>2. PICK a : a = IF s.good THEN "MCF" ELSE "RTN"
    OBVIOUS
  <2>3. a \in PostPageAnswers /\ a # "PIP" /\ (a \in Accepts => s.good)
    BY <2>2 DEF PostPageAnswers, Accepts
  <2>4. Commanded(s, f) = Answered(s, u.ppm, a)
    <3>1. f.kind # "DIS" /\ f.kind # "DCS" /\ f.kind # "DCN"
      BY <1>5 DEF PostPage
    <3>2. Commanded(s, f) = Answered(s, f.kind, IF s.good THEN "MCF" ELSE "RTN")
      BY <1>5, <3>1 DEF Commanded
    <3> QED BY <2>1, <2>2, <3>2
  <2> QED BY <2>1, <2>3, <2>4, AnsweredGood
<1>6. CASE f.kind \notin PostPage \cup {"DIS", "DCS"}
  <2>1. Commanded(s, f) = B(s, 0) \/ Commanded(s, f) = B(s, 3)
    BY <1>1, <1>6 DEF Commanded
  <2>2. 0 \in 0..3 /\ 3 \in 0..3 /\ s.pc \notin {"data", "train", "off"}
    OBVIOUS
  <2>3. Follows(B(s, 0), u, x, Tail(y)) /\ Follows(B(s, 3), u, x, Tail(y))
    BY <1>1, <2>2, EndsAtB
  <2> QED BY <2>1, <2>3
<1> QED BY <1>3, <1>4, <1>5, <1>6

(* The answer to DCS and the training check. *)
LEMMA AnsweredDCSGood ==
  ASSUME NEW s, NEW u, NEW x, NEW y, Both(s, u, x, y), Confirmed(s), s.pc = "waitDCS",
         y # <<>>, NEW f, f = Head(y), f.kind \notin Carriers
  PROVE  Follows(AnsweredDCS(s, f), u, x, Tail(y))
<1>1. /\ Half(s, u, x, y) /\ Own(s) /\ Typed(s) /\ Own(u) /\ Typed(u) /\ Spoken(u, y)
      /\ x = <<>>
      /\ ~s.writepending /\ s.remoteBR # -1 /\ AtPage(s) /\ NotSkipped(s)
      /\ Training(s, u, y)
      /\ Paging(u, s, y, x) /\ s.remoteVR = u.localVR
  BY DEF Both, Half, Own, FilesShape, Sending, Known
<1>2. Heard(u, y)
  BY <1>1, HeardIs
<1>3. Agree(s, s, {"cur", "remoteBR", "localVR", "ppm"}) /\ s.cur >= s.cur
  BY <1>1 DEF Typed, Agree
<1>4. \A err \in 0..3 : Follows(C(s, err), u, x, Tail(y))
  BY <1>1, EndsAtC
<1>5. CASE f.kind = "DIS"
  <2>1. u.pc = "waitR" /\ f = DIS(u)
    BY <1>2, <1>5 DEF Heard
  <2>2. Agree(s, s, Trifles \ {"remtx", "remoteBR", "remoteVR"})
    BY <1>1 DEF Typed, Agree
  <2>3. Follows(A(s, f), u, x, Tail(y))
    BY <1>1, <2>1, <2>2, AGood
  <2>4. AnsweredDCS(s, f) = IF s.try >= MAXTRY THEN C(s, 3) ELSE A(s, f)
    BY <1>5 DEF AnsweredDCS, C_timeout
  <2> QED BY <1>4, <2>3, <2>4
<1>6. CASE f.kind = "FTT"
  <2>1. u.pc \in {"F", "train", "data", "off"}
    BY <1>2, <1>6 DEF Heard, Replies
  <2>2. fallback[s.br] \in Codes \cup {-1}
    BY <1>1, RatesAreCodes DEF Typed
  <2>3. CASE fallback[s.br] >= 0
    <3>1. PICK z : z = [s EXCEPT !.remoteBR = fallback[s.br]]
      OBVIOUS
    <3>2. Agree(z, s, {"remoteBR"}) /\ z.remoteBR = fallback[s.br]
      <4>1. DOMAIN z = Fields /\ z.remoteBR = fallback[s.br]
        BY <1>1, <3>1 DEF Typed, Fields
      <4>2. z = [g \in DOMAIN z |-> z[g]]
        BY <3>1
      <4>3. \A g \in Fields \ {"remoteBR"} : z[g] = s[g]
        BY <1>1, <3>1 DEF Typed, Fields
      <4> QED BY <4>1, <4>2, <4>3 DEF Agree
    <3>3. z.remoteBR # -1 /\ z.remoteBR \in Codes
      BY <2>2, <2>3, <3>2 DEF Codes
    <3>4. Typed(z) /\ Agree(z, s, {"cur", "localVR", "ppm", "remoteBR"})
      BY <1>1, <3>2, <3>3 DEF Typed, Agree, Fields
    <3>5. z.cur = s.cur /\ z.localVR = s.localVR /\ z.ppm = s.ppm /\ z.doc = s.doc /\ z.sent = s.sent
      BY <3>2 DEF Agree, Fields
    <3>6. AtPage(z) /\ NotSkipped(z) /\ z.cur >= s.cur
      BY <1>1, <1>3, <3>5 DEF AtPage, NotSkipped, SentPages
    <3>7. Follows(D_2(z), u, x, Tail(y))
      BY <1>1, <2>1, <3>3, <3>4, <3>5, <3>6, D_2Good
    <3>8. AnsweredDCS(s, f) = D_2([s EXCEPT !.remoteBR = fallback[s.br]])
      BY <1>6, <2>3 DEF AnsweredDCS
    <3> QED BY <3>1, <3>7, <3>8
  <2>4. CASE ~(fallback[s.br] >= 0)
    <3>1. PICK z : z = [s EXCEPT !.remoteBR = -1]
      OBVIOUS
    <3>2. Agree(z, s, {"remoteBR"}) /\ z.remoteBR = -1
      <4>1. DOMAIN z = Fields /\ z.remoteBR = -1
        BY <1>1, <3>1 DEF Typed, Fields
      <4>2. z = [g \in DOMAIN z |-> z[g]]
        BY <3>1
      <4>3. \A g \in Fields \ {"remoteBR"} : z[g] = s[g]
        BY <1>1, <3>1 DEF Typed, Fields
      <4> QED BY <4>1, <4>2, <4>3 DEF Agree
    <3>3. Typed(z) /\ Agree(z, s, {"cur", "remoteBR"})
      BY <1>1, <3>2 DEF Typed, Agree, Fields
    <3>4. z.cur = s.cur /\ z.doc = s.doc /\ z.sent = s.sent
      BY <3>2 DEF Agree, Fields
    <3>5. NotSkipped(z) /\ z.cur >= s.cur
      BY <1>1, <1>3, <3>4 DEF NotSkipped, SentPages
    <3>6. PICK q : q = B(z, 2)[1]
      OBVIOUS
    <3>7. 2 \in 0..3 /\ s.pc \notin {"data", "train", "off"}
      OBVIOUS
    <3>8. /\ Both(q, u, <<Frame("DCN")>>, <<>>) /\ C(z, 2) = <<q, <<Frame("DCN")>>>>
          /\ q.pc = "off" /\ q.sent = s.sent /\ q.doc = s.doc /\ q.remtx = s.remtx
      BY <1>1, <3>3, <3>4, <3>5, <3>6, <3>7, BGood
    <3>9. Confirmed(q)
      BY <3>8, ConfirmedLater
    <3>10. C(z, 2)[1] = q /\ C(z, 2)[2] = <<Frame("DCN")>> /\ <<Frame("DCN")>> # <<>>
      BY <3>8
    <3>11. Follows(C(z, 2), u, x, Tail(y))
      BY <3>8, <3>9, <3>10 DEF Follows
    <3>12. AnsweredDCS(s, f) = C([s EXCEPT !.remoteBR = -1], 2)
      BY <1>6, <2>4 DEF AnsweredDCS
    <3> QED BY <3>1, <3>11, <3>12
  <2> QED BY <2>3, <2>4
<1>7. CASE f.kind = "CFR"
  <2>1. y = <<Frame("CFR")>>
    BY <1>2, <1>7 DEF Heard, Replies
  <2>2. u.pc = "data" /\ u.br = s.br /\ u.vr = s.vr
    BY <1>1, <2>1 DEF Training
  <2>3. Agree(s, s, {"cur", "ppm"}) /\ s.pc \in Sending
    BY <1>1 DEF Typed, Agree, Sending
  <2>4. Follows(I_2(s), u, x, Tail(y))
    BY <1>1, <1>3, <2>2, <2>3, I_2Good
  <2>5. AnsweredDCS(s, f) = I_2(s)
    BY <1>7 DEF AnsweredDCS
  <2> QED BY <2>4, <2>5
<1>8. CASE f.kind \notin {"DIS", "FTT", "CFR"}
  <2>1. AnsweredDCS(s, f) = C(s, 3)
    BY <1>8 DEF AnsweredDCS
  <2> QED BY <1>4, <2>1
<1> QED BY <1>5, <1>6, <1>7, <1>8

(* The answer to a page. *)
LEMMA AnsweredPageGood ==
  ASSUME Sound, NEW s, NEW u, NEW x, NEW y, Both(s, u, x, y), Confirmed(s), s.pc = "waitPPR",
         y # <<>>, NEW f, f = Head(y), f.kind \notin Carriers
  PROVE  Follows(AnsweredPage(s, f), u, x, Tail(y))
<1>1. /\ Half(s, u, x, y) /\ Own(s) /\ Typed(s) /\ Own(u) /\ Spoken(u, y) /\ x = <<>>
      /\ s.err = 0
      /\ ~s.writepending /\ AtPage(s) /\ NotSkipped(s) /\ Paging(s, u, x, y)
      /\ s.cur \in DOMAIN s.doc /\ s.remoteVR = u.localVR
  BY DEF Both, Half, Own, FilesShape, Sending, AtPage, Known
<1>2. Heard(u, y)
  BY <1>1, HeardIs
<1>3. s.doc # <<>> /\ Len(s.doc) \in Nat /\ s.cur \in 1..Len(s.doc) /\ s.pagetry \in Nat
  BY <1>1 DEF Typed
<1>4. f.kind \in Replies \cup PostPage \cup {"DIS", "DCS", "TCF", "DATA", "DCN"}
  BY <1>2 DEF Heard
<1>5. Counts(f) <=> f.kind \in Accepts
  BY <1>4 DEF Counts, Sound, Replies, PostPage, Accepts
<1>6. CASE f.kind \notin {"MCF", "RTP", "PIP", "PIN", "RTN"}
  <2>1. ~Counts(f) /\ f.kind \notin {"PIN", "RTN"}
    BY <1>5, <1>6 DEF Accepts
  <2>2. AnsweredPage(s, f) = C(s, 3)
    BY <2>1 DEF AnsweredPage
  <2>3. 3 \in 0..3 /\ s.pc \notin {"data", "train", "off"}
    OBVIOUS
  <2>4. Follows(C(s, 3), u, x, Tail(y))
    BY <1>1, <2>3, EndsAtC
  <2> QED BY <2>2, <2>4
<1>7. CASE f.kind \in {"MCF", "RTP", "PIP", "PIN", "RTN"}
  <2>1. u.pc \in {"F", "data", "off"} /\ y = <<Frame(f.kind)>>
    BY <1>1, <1>2, <1>7 DEF Heard, Replies, Paging
  <2>2. PICK c : c = Counted(s, f)
    OBVIOUS
  <2>3. Agree(c, s, {"pagetry", "dp", "sent"})
    <3>1. CASE Counts(f)
      <4>1. c = [s EXCEPT !.pagetry = 0, !.dp = 1, !.sent = Append(s.sent, s.cur)]
        BY <2>2, <3>1 DEF Counted
      <4>2. DOMAIN c = Fields
        BY <1>1, <4>1 DEF Typed
      <4>3. c = [g \in DOMAIN c |-> c[g]]
        BY <4>1
      <4>4. \A g \in Fields \ {"pagetry", "dp", "sent"} : c[g] = s[g]
        BY <1>1, <4>1 DEF Typed, Fields
      <4> QED BY <4>2, <4>3, <4>4 DEF Agree
    <3>2. CASE ~Counts(f)
      <4>1. c = [s EXCEPT !.dp = 0]
        BY <2>2, <3>2 DEF Counted
      <4> QED BY <1>1, <4>1 DEF Typed, Agree, Fields
    <3> QED BY <3>1, <3>2
  <2>4. Counts(f) => (c.pagetry = 0 /\ c.dp = 1 /\ c.sent = Append(s.sent, s.cur))
    BY <1>1, <2>2 DEF Counted, Typed, Fields
  <2>5. ~Counts(f) => (c.pagetry = s.pagetry /\ c.dp = 0 /\ c.sent = s.sent)
    BY <1>1, <2>2 DEF Counted, Typed, Fields
  <2>6. Typed(c)
    <3>1. s.sent \in Seq(Nat) /\ s.cur \in Nat
      BY <1>1 DEF Typed
    <3>2. c.pagetry \in Nat /\ c.dp \in {0, 1}
      BY <1>3, <2>4, <2>5
    <3>3. c.sent \in Seq(Nat)
      <4>1. Append(s.sent, s.cur) \in Seq(Nat)
        BY <3>1
      <4> QED BY <2>4, <2>5, <3>1, <4>1
    <3> QED BY <1>1, <2>3, <3>2, <3>3 DEF Typed, Agree, Fields
  <2>7. Counts(f) => Has(u, s.cur)
    BY <1>1, <1>5, <2>1 DEF Paging
  <2>8. Both(c, u, x, y) /\ (c.dp = 1 => c.cur \in SentPages(c))
    BY <2>3, <2>4, <2>5, <2>6, <2>7, CountGood
  <2>9. /\ c.pc = "waitPPR" /\ c.err = 0 /\ c.doc = s.doc /\ c.cur = s.cur /\ c.ppm = s.ppm
        /\ c.remtx = s.remtx /\ c.writepending = FALSE /\ c.remoteBR = s.remoteBR
        /\ c.remoteVR = u.localVR
    BY <1>1, <2>3 DEF Agree, Fields
  <2>10. NotSkipped(c) /\ Half(c, u, x, y)
    BY <2>8 DEF Both, Half
  <2>11. c.ppm = PPM(c.doc, c.cur)
    BY <1>1, <2>9 DEF AtPage
  <2>12. Tail(y) = <<>>
    BY <2>1
  <2>13. (~Counts(f) \/ c.ppm # "EOP" \/ f.kind = "PIP") => Confirmed(c)
    <3>1. CASE ~Counts(f)
      BY <2>5, <2>9, <3>1 DEF Confirmed, SentPages
    <3>2. CASE Counts(f) /\ c.ppm # "EOP"
      <4>1. c.cur # Len(c.doc)
        BY <2>11, <3>2 DEF PPM
      <4>2. s.sent \in Seq(Nat)
        BY <1>1 DEF Typed
      <4>3. SentPages(c) = SentPages(s) \cup {s.cur}
        <5>1. c.sent = Append(s.sent, s.cur)
          BY <2>4, <3>2
        <5>2. /\ Len(c.sent) = Len(s.sent) + 1 /\ c.sent[Len(s.sent) + 1] = s.cur
              /\ \A i \in 1..Len(s.sent) : c.sent[i] = s.sent[i]
          BY <4>2, <5>1
        <5>3. DOMAIN c.sent = 1..(Len(s.sent) + 1) /\ DOMAIN s.sent = 1..Len(s.sent)
          BY <4>2, <5>1
        <5>4. Len(s.sent) \in Nat
          BY <4>2
        <5> QED BY <5>2, <5>3, <5>4 DEF SentPages
      <4>4. Len(s.doc) \in SentPages(c) => Len(s.doc) \in SentPages(s)
        BY <2>9, <4>1, <4>3
      <4> QED BY <2>9, <4>4 DEF Confirmed
    <3>3. CASE f.kind = "PIP"
      BY <1>2, <3>3 DEF Heard, Confirmed
    <3> QED BY <3>1, <3>2, <3>3
  <2>14. c.pc \notin {"data", "train", "off"} /\ u.pc \notin {"waitPPR", "train", "waitR"}
    BY <2>1, <2>9
  <2>15. Confirmed(c) => Follows(D(c), u, x, Tail(y))
    <3>1. (OneFormat(c.doc) /\ c.dp = 1) =>
            (c.cur > Len(c.doc) \/ (u.pc # "waitR" /\ c.cur \in SentPages(c)))
      BY <2>8, <2>14
    <3>2. c.doc # <<>> /\ ~c.writepending /\ c.remoteVR = u.localVR
      BY <1>3, <2>9
    <3>3. u.pc \notin {"waitPPR", "train", "waitDCS"}
      BY <2>1
    <3> QED BY <1>1, <2>8, <2>14, <3>1, <3>2, <3>3, DGood
  <2>16. CASE f.kind \in {"PIN", "PIP"}
    <3>1. PICK z : z = [c EXCEPT !.try = 0]
      OBVIOUS
    <3>2. Agree(z, c, {"try"}) /\ z.try = 0
      BY <2>6, <3>1 DEF Typed, Agree, Fields
    <3>3. Typed(z) /\ Agree(z, c, Trifles)
      <4>1. z.try \in Nat
        BY <3>2
      <4>2. Typed(z)
        BY <2>6, <3>2, <4>1 DEF Typed, Agree, Fields
      <4> QED BY <3>2, <4>2 DEF Agree, Trifles
    <3>4. /\ z.pc = c.pc /\ z.remoteBR = c.remoteBR /\ z.remtx = c.remtx
          /\ z.frame = c.frame
          /\ z.doc = c.doc /\ z.dp = c.dp /\ z.writepending = FALSE
          /\ z.sent = c.sent /\ z.cur = c.cur /\ z.remoteVR = u.localVR
      BY <2>9, <3>2 DEF Agree, Fields
    <3>5. (c.pc # "off" => z.remoteBR # -1) /\ (z.remtx => u.doc # <<>>)
      BY <2>10, <3>4 DEF Half, Own
    <3>6. Both(z, u, x, y)
      BY <2>8, <3>3, <3>4, <3>5, TrifleGood
    <3>7. Confirmed(z)
      <4>1. Confirmed(c)
        BY <1>5, <2>13, <2>16 DEF Accepts
      <4> QED BY <2>14, <3>4, <4>1, ConfirmedLater
    <3>8. /\ ~z.writepending /\ z.doc # <<>> /\ z.pc \notin {"data", "train", "off"}
          /\ (OneFormat(z.doc) /\ z.dp = 1) =>
               (z.cur > Len(z.doc) \/ (u.pc # "waitR" /\ z.cur \in SentPages(z)))
      BY <1>3, <2>8, <2>9, <2>14, <3>4 DEF SentPages
    <3>9. Follows(D(z), u, x, Tail(y))
      <4>1. u.pc \notin {"waitPPR", "train", "waitDCS"}
        BY <2>1
      <4> QED BY <1>1, <3>4, <3>6, <3>7, <3>8, <4>1, DGood
    <3>10. AnsweredPage(s, f) = A(z, f)
      <4>1. (Counts(f) \/ f.kind \in {"PIN", "RTN"}) /\ f.kind \notin {"MCF", "RTP", "RTN"}
        BY <1>5, <2>16 DEF Accepts
      <4>2. AnsweredPage(s, f) = A([c EXCEPT !.try = 0], f)
        BY <2>2, <4>1 DEF AnsweredPage
      <4> QED BY <3>1, <4>2
    <3>11. A(z, f) = D(z)
      BY <2>16, <3>8 DEF A
    <3> QED BY <3>9, <3>10, <3>11
  <2>17. CASE f.kind \in {"MCF", "RTP", "RTN"} /\ c.ppm = "MPS"
    <3>1. AnsweredPage(s, f) = IF f.kind = "MCF" THEN I(c) ELSE D(c)
      <4>1. Counts(f) \/ f.kind \in {"PIN", "RTN"}
        BY <1>5, <2>17 DEF Accepts
      <4> QED BY <2>2, <2>17, <4>1 DEF AnsweredPage
    <3>2. CASE f.kind = "MCF"
      <4>1. u.pc = "data" /\ c.dp = 1 /\ c.cur \in SentPages(c)
        BY <1>1, <1>5, <2>1, <2>4, <2>8, <2>9, <2>17, <3>2 DEF Paging, Accepts
      <4>2. Follows(I(c), u, x, Tail(y))
        BY <2>8, <2>9, <2>13, <2>17, <4>1, IGood
      <4> QED BY <3>1, <3>2, <4>2
    <3>3. CASE f.kind # "MCF"
      BY <2>13, <2>15, <2>17, <3>1, <3>3
    <3> QED BY <3>2, <3>3
  <2>18. CASE f.kind \in {"MCF", "RTP", "RTN"} /\ c.ppm = "EOM"
    <3>1. AnsweredPage(s, f) = T(c)
      <4>1. Counts(f) \/ f.kind \in {"PIN", "RTN"}
        BY <1>5, <2>18 DEF Accepts
      <4>2. c.ppm # "MPS"
        BY <2>18
      <4> QED BY <2>2, <2>18, <4>1, <4>2 DEF AnsweredPage
    <3>2. PICK left : left = Tail(y)
      OBVIOUS
    <3>3. Follows(T(c), u, x, left)
      BY <1>1, <2>8, <2>9, <2>12, <2>13, <2>18, <3>2, TGood
    <3> QED BY <3>1, <3>2, <3>3
  <2>19. CASE f.kind \in {"MCF", "RTP"} /\ c.ppm = "EOP"
    <3>1. c.cur = Len(c.doc)
      BY <2>11, <2>19 DEF PPM
    <3>2. PICK z : z = [c EXCEPT !.cur = c.cur + 1]
      OBVIOUS
    <3>3. Agree(z, c, {"cur"}) /\ z.cur = c.cur + 1
      BY <2>6, <3>2 DEF Typed, Agree, Fields
    <3>4. z.cur \in Nat \ {0} /\ z.cur >= c.cur /\ z.cur > Len(c.doc) /\ c.cur \in Nat
      BY <1>3, <2>9, <3>1, <3>3
    <3>5. Typed(z) /\ Agree(z, c, {"cur", "remoteBR"})
      <4>1. Typed(z)
        BY <2>6, <3>3, <3>4 DEF Typed, Agree, Fields
      <4> QED BY <3>3, <4>1 DEF Agree
    <3>6. z.doc = c.doc /\ z.sent = c.sent
      BY <3>3 DEF Agree, Fields
    <3>7. c.dp = 1 /\ c.sent # <<>>
      <4>1. c.sent = Append(s.sent, s.cur) /\ c.dp = 1 /\ s.sent \in Seq(Nat) /\ s.cur \in Nat
        BY <1>1, <1>5, <2>4, <2>19 DEF Typed, Accepts
      <4> QED BY <4>1
    <3>8. NotSkipped(z)
      <4>1. SUFFICES ASSUME OneFormat(c.doc), NEW p \in 1..(z.cur - 1) \cap DOMAIN c.doc
                     PROVE  p \in SentPages(c)
        BY <3>6 DEF NotSkipped, SentPages
      <4>2. p = c.cur \/ p \in 1..(c.cur - 1)
        BY <3>3, <3>4, <4>1
      <4> QED BY <2>8, <2>10, <3>7, <4>1, <4>2 DEF NotSkipped
    <3>9. CASE c.remtx
      <4>1. AnsweredPage(s, f) = R([c EXCEPT !.cur = c.cur + 1])
        BY <1>5, <2>2, <2>19, <3>9 DEF AnsweredPage, Accepts
      <4>2. c.pc \in {"T", "waitPPR", "waitR", "F"} /\ ~c.writepending
        BY <2>9
      <4>3. Follows(R(z), u, x, Tail(y))
        BY <2>1, <2>8, <3>3, <3>4, <3>5, <3>7, <3>8, <3>9, <4>2, RGood
      <4> QED BY <3>2, <4>1, <4>3
    <3>10. CASE ~c.remtx
      <4>1. AnsweredPage(s, f) = C([c EXCEPT !.cur = c.cur + 1], s.err)
        BY <1>5, <2>2, <2>19, <3>10 DEF AnsweredPage, Accepts
      <4>2. PICK q : q = B(z, 0)[1]
        OBVIOUS
      <4>3. 0 \in 0..3 /\ ~c.writepending
        BY <2>9
      <4>4. /\ Both(q, u, <<Frame("DCN")>>, <<>>) /\ C(z, 0) = <<q, <<Frame("DCN")>>>>
            /\ q.pc = "off" /\ q.err = 0
        BY <2>8, <2>14, <3>4, <3>5, <3>7, <3>8, <4>2, <4>3, BGood
      <4>5. Confirmed(q)
        BY <4>4 DEF Confirmed
      <4>6. C(z, 0)[1] = q /\ C(z, 0)[2] = <<Frame("DCN")>> /\ <<Frame("DCN")>> # <<>>
        BY <4>4
      <4>7. Follows(C(z, 0), u, x, Tail(y))
        BY <4>4, <4>5, <4>6 DEF Follows
      <4> QED BY <1>1, <3>2, <4>1, <4>7
    <3> QED BY <3>9, <3>10
  <2>20. CASE f.kind = "RTN" /\ c.ppm = "EOP"
    <3>1. AnsweredPage(s, f) = D(c) \/ AnsweredPage(s, f) = GivesUp(c)
      BY <1>5, <2>2, <2>20 DEF AnsweredPage, Accepts
    <3>2. Confirmed(c) /\ ~c.writepending
      BY <1>5, <2>9, <2>13, <2>20 DEF Accepts
    <3>3. c.err \in 0..3
      BY <2>9
    <3>4. Follows(C(c, c.err), u, x, Tail(y))
      BY <2>8, <2>14, <3>2, <3>3, EndsAtC
    <3> QED BY <2>15, <3>1, <3>2, <3>4 DEF GivesUp
  <2>21. c.ppm \in {"MPS", "EOM", "EOP"}
    BY <2>6 DEF Typed, PostPage
  <2> QED BY <1>7, <2>16, <2>17, <2>18, <2>19, <2>20, <2>21
<1> QED BY <1>6, <1>7

\* What is said of a training check.
LEMMA TrainedGood ==
  ASSUME NEW s, NEW u, NEW x, NEW y, NEW left, Both(s, u, x, y), Confirmed(s), s.pc = "train",
         NEW ok \in BOOLEAN, (ok /\ u.pc = "waitDCS") => s.br = u.br
  PROVE  Follows(Trained(s, ok), u, x, left)
<1>1. Typed(s) /\ ~s.writepending
  BY DEF Both, Half, Own, FilesShape
<1>2. PICK k : k = IF ok THEN "CFR" ELSE "FTT"
  OBVIOUS
<1>3. PICK to : to = IF ok THEN "data" ELSE "F"
  OBVIOUS
<1>4. PICK q : q = [s EXCEPT !.good = ok, !.pc = to]
  OBVIOUS
<1>5. Trained(s, ok) = <<q, <<Frame(k)>>>>
  BY <1>2, <1>3, <1>4 DEF Trained
<1>6. Agree(q, s, {"pc", "good"}) /\ q.pc = to /\ q.good = ok
  <2>1. DOMAIN q = Fields
    BY <1>1, <1>4 DEF Typed
  <2>2. q = [g \in DOMAIN q |-> q[g]]
    BY <1>4
  <2>3. \A g \in Fields \ {"pc", "good"} : q[g] = s[g]
    BY <1>1, <1>4 DEF Typed, Fields
  <2>4. q.pc = to /\ q.good = ok
    BY <1>1, <1>4 DEF Typed, Fields
  <2> QED BY <2>1, <2>2, <2>3, <2>4 DEF Agree
<1>7. Typed(q)
  <2>1. q.pc \in Listening /\ q.good \in BOOLEAN
    BY <1>3, <1>6 DEF Listening
  <2> QED BY <1>1, <1>6, <2>1 DEF Typed, Agree, Fields
<1>8. PICK x2 : x2 = <<Frame(k)>>
  OBVIOUS
<1>9. /\ k \in {"CFR", "FTT"} /\ q.pc = IF k = "CFR" THEN "data" ELSE "F"
      /\ (k = "CFR" /\ u.pc = "waitDCS") => s.br = u.br
  BY <1>2, <1>3, <1>6
<1>10. Both(q, u, x2, <<>>)
  BY <1>1, <1>6, <1>7, <1>8, <1>9, TellsTraining
<1>11. Confirmed(q)
  BY <1>6, ConfirmedLater DEF Agree, Fields
<1>12. Trained(s, ok)[1] = q /\ Trained(s, ok)[2] = x2 /\ x2 # <<>>
  BY <1>5, <1>8
<1> QED BY <1>10, <1>11, <1>12 DEF Follows

(* receive_data(): the page is in the file. *)
LEMMA ReceivedGood ==
  ASSUME NEW s, NEW u, NEW x, NEW y, Both(s, u, x, y), Confirmed(s), s.pc = "data",
         y # <<>>, NEW f, f = Head(y), f.kind = "DATA"
  PROVE  Follows(Received(s, f), u, x, Tail(y))
<1>1. /\ Own(s) /\ Typed(s) /\ FilesShape(s) /\ Own(u) /\ Typed(u) /\ Spoken(u, y)
      /\ x = <<>>
  BY DEF Both, Half, Own
<1>2. u.pc = "waitPPR" /\ y \in {Page(u, "good"), Page(u, "bad")}
  BY <1>1, HeardIs DEF Heard
<1>3. /\ f.page = u.cur /\ f.vr = Lesser(u.localVR, u.vr)
      /\ f.quality \in {"good", "bad"} /\ Tail(y) = <<Frame(u.ppm)>>
  BY <1>2, PageIs
<1>4. PICK line : line = [page |-> f.page, yres |-> s.vr, lines |-> f.vr,
                          asked |-> s.localVR, quality |-> f.quality]
  OBVIOUS
<1>5. PICK fs : fs = [s.files EXCEPT ![Len(s.files)] = Append(s.files[Len(s.files)], line)]
  OBVIOUS
<1>6. PICK q : q = [s EXCEPT !.files = fs, !.pc = "F", !.good = TRUE, !.writepending = TRUE,
                             !.rxpage = s.rxpage + 1]
  OBVIOUS
<1>7. Received(s, f) = <<q, <<>>>>
  <2>1. PICK kept : kept = [s EXCEPT !.files = fs]
    OBVIOUS
  <2>2. f.quality # "cut"
    BY <1>3
  <2>3. Received(s, f) = <<[kept EXCEPT !.pc = "F", !.good = TRUE, !.writepending = TRUE,
                                        !.rxpage = @ + 1], <<>>>>
    BY <1>4, <1>5, <2>1, <2>2 DEF Received
  <2>4. [kept EXCEPT !.pc = "F", !.good = TRUE, !.writepending = TRUE, !.rxpage = @ + 1] = q
    <3>1. DOMAIN s = Fields /\ DOMAIN kept = Fields
      BY <1>1, <2>1 DEF Typed
    <3>2. kept.rxpage = s.rxpage
      BY <2>1, <3>1 DEF Fields
    <3> QED BY <1>6, <2>1, <3>1, <3>2 DEF Fields
  <2> QED BY <2>3, <2>4
<1>8. /\ Agree(q, s, {"pc", "good", "writepending", "rxpage", "files"})
      /\ q.pc = "F" /\ q.good /\ q.writepending /\ q.rxpage = s.rxpage + 1
      /\ q.files = fs
  <2>1. DOMAIN q = Fields
    BY <1>1, <1>6 DEF Typed
  <2>2. q = [g \in DOMAIN q |-> q[g]]
    BY <1>6
  <2>3. \A g \in Fields \ {"pc", "good", "writepending", "rxpage", "files"} : q[g] = s[g]
    BY <1>1, <1>6 DEF Typed, Fields
  <2>4. /\ q.pc = "F" /\ q.good /\ q.writepending /\ q.rxpage = s.rxpage + 1
        /\ q.files = fs
    BY <1>1, <1>6 DEF Typed, Fields
  <2> QED BY <2>1, <2>2, <2>3, <2>4 DEF Agree
<1>9. fs \in Seq(Seq(Line))
  <2>1. s.files \in Seq(Seq(Line)) /\ Len(s.files) = s.rxpage + 1 /\ s.rxpage \in Nat
    BY <1>1 DEF Typed, FilesShape, Receiving
  <2>2. s.files[Len(s.files)] \in Seq(Line) /\ Len(s.files) \in 1..Len(s.files)
    BY <2>1
  <2>3. line \in Line
    <3>1. /\ f.page \in Nat /\ s.vr \in Resolutions /\ s.localVR \in Resolutions
          /\ f.vr \in Resolutions /\ f.quality \in {"good", "bad", "cut"}
      BY <1>1, <1>3 DEF Typed, Lesser
    <3> QED BY <1>4, <3>1 DEF Line
  <2>4. Append(s.files[Len(s.files)], line) \in Seq(Line)
    BY <2>2, <2>3
  <2> QED BY <1>5, <2>1, <2>2, <2>4
<1>10. Typed(q)
  <2>1. /\ q.pc \in Listening /\ q.good \in BOOLEAN /\ q.writepending \in BOOLEAN
        /\ q.rxpage \in Nat /\ q.files \in Seq(Seq(Line))
    <3>1. s.rxpage \in Nat
      BY <1>1 DEF Typed
    <3>2. q.rxpage \in Nat
      BY <1>8, <3>1
    <3>3. q.pc \in Listening /\ q.good \in BOOLEAN /\ q.writepending \in BOOLEAN
      BY <1>1, <1>6, <1>8 DEF Typed, Fields, Listening
    <3> QED BY <1>8, <1>9, <3>2, <3>3
  <2>2. Typed(s) /\ Agree(q, s, {"pc", "good", "writepending", "rxpage", "files"})
    BY <1>1, <1>8
  <2> QED BY <2>1, <2>2 DEF Typed, Agree, Fields
<1>11. PICK y2 : y2 = <<Frame(u.ppm)>>
  OBVIOUS
<1>12. PICK k : k = f.quality
  OBVIOUS
<1>13. /\ k \in {"good", "bad"}
       /\ line = [page |-> u.cur, yres |-> s.vr, lines |-> Lesser(u.localVR, u.vr),
                  asked |-> s.localVR, quality |-> k]
  BY <1>3, <1>4, <1>12
<1>14. q.files = [s.files EXCEPT ![Len(s.files)] = Append(s.files[Len(s.files)], line)]
  BY <1>5, <1>8
<1>15. Both(q, u, <<>>, y2)
  BY <1>1, <1>2, <1>8, <1>10, <1>11, <1>13, <1>14, PageComes
<1>16. Confirmed(q)
  BY <1>8, ConfirmedLater DEF Agree, Fields
<1>17. Received(s, f)[1] = q /\ Received(s, f)[2] = <<>> /\ q.pc # "off"
  BY <1>7, <1>8
<1> QED BY <1>1, <1>3, <1>11, <1>15, <1>16, <1>17 DEF Follows

\* The page cannot be written.
LEMMA RefusedGood ==
  ASSUME NEW s, NEW u, NEW x, NEW y, Both(s, u, x, y), Confirmed(s), s.pc = "data",
         y # <<>>, Head(y).kind = "DATA"
  PROVE  Follows(F([s EXCEPT !.good = FALSE]), u, x, Tail(y))
<1>1. Own(s) /\ Typed(s) /\ Own(u) /\ Spoken(u, y) /\ x = <<>>
  BY DEF Both, Half, Own
<1>2. u.pc = "waitPPR" /\ y \in {Page(u, "good"), Page(u, "bad")}
  BY <1>1, HeardIs DEF Heard
<1>3. Tail(y) = <<Frame(u.ppm)>>
  BY <1>2, PageIs
<1>4. PICK q : q = F([s EXCEPT !.good = FALSE])[1]
  OBVIOUS
<1>5. q = [[s EXCEPT !.good = FALSE] EXCEPT !.pc = "F"]
  BY <1>4 DEF F
<1>6. Agree(q, s, {"pc", "good"}) /\ q.pc = "F" /\ ~q.good
  <2>1. DOMAIN q = Fields
    BY <1>1, <1>5 DEF Typed
  <2>2. q = [g \in DOMAIN q |-> q[g]]
    BY <1>5
  <2>3. \A g \in Fields \ {"pc", "good"} : q[g] = s[g]
    BY <1>1, <1>5 DEF Typed, Fields
  <2>4. q.pc = "F" /\ ~q.good
    BY <1>1, <1>5 DEF Typed, Fields
  <2> QED BY <2>1, <2>2, <2>3, <2>4 DEF Agree
<1>7. Typed(q)
  <2>1. q.pc \in Listening /\ q.good \in BOOLEAN
    BY <1>1, <1>5, <1>6 DEF Typed, Fields, Listening
  <2> QED BY <1>1, <1>6, <2>1 DEF Typed, Agree, Fields
<1>8. PICK y2 : y2 = <<Frame(u.ppm)>>
  OBVIOUS
<1>9. Both(q, u, <<>>, y2)
  BY <1>1, <1>2, <1>6, <1>7, <1>8, PageRefused
<1>10. Confirmed(q)
  BY <1>6, ConfirmedLater DEF Agree, Fields
<1>11. F([s EXCEPT !.good = FALSE])[2] = <<>> /\ q.pc # "off"
  BY <1>6 DEF F
<1> QED BY <1>1, <1>3, <1>4, <1>8, <1>9, <1>10, <1>11 DEF Follows

\* The postponed file is opened, and nothing else.
LEMMA FlushedGood ==
  ASSUME NEW s, NEW u, NEW x, NEW y, Both(s, u, x, y), Confirmed(s), s.pc # "off",
         NEW q, q = Flush(s)
  PROVE  /\ Both(q, u, x, y) /\ Confirmed(q) /\ ~q.writepending /\ Typed(q)
         /\ q.pc = s.pc /\ q.frame = s.frame /\ q.good = s.good
<1>1. Both(q, u, x, y) /\ q.writepending = FALSE /\ Agree(q, s, {"writepending", "files"})
  BY FlushGood
<1>2. /\ q.pc = s.pc /\ q.frame = s.frame /\ q.good = s.good /\ q.doc = s.doc
      /\ q.sent = s.sent /\ q.remtx = s.remtx
  BY <1>1 DEF Agree, Fields
<1>3. Confirmed(q)
  BY <1>2, ConfirmedLater
<1>4. Typed(q)
  BY <1>1 DEF Both, Half, Own
<1> QED BY <1>1, <1>2, <1>3, <1>4

Turned(s, to, fr) == [s EXCEPT !.pc = to, !.frame = fr]

\* What a receiver that turns to another state keeps of its fields.
LEMMA TurnsIs ==
  ASSUME NEW s, Typed(s), NEW to, NEW fr, NEW q, q = Turned(s, to, fr)
  PROVE  Agree(q, s, {"pc", "frame"}) /\ q.pc = to /\ q.frame = fr
<1>1. DOMAIN q = Fields
  BY DEF Typed, Turned
<1>2. q = [g \in DOMAIN q |-> q[g]]
  BY DEF Turned
<1>3. \A g \in Fields \ {"pc", "frame"} : q[g] = s[g]
  BY DEF Typed, Fields, Turned
<1>4. q.pc = to /\ q.frame = fr
  BY DEF Typed, Fields, Turned
<1> QED BY <1>1, <1>2, <1>3, <1>4 DEF Agree

(* The data carrier and the frames that are not what was waited for. *)
LEMMA CarrierGood ==
  ASSUME NEW s, NEW u, NEW x, NEW y, NEW y2, NEW q, Both(s, u, x, y), Confirmed(s),
         s.pc \in {"F", "data"}, ~s.writepending,
         Agree(q, s, {"pc", "frame"}), q.pc \in {"F", "data"},
         q.frame = s.frame \/ q.frame = "carrier",
         Spoken(u, y2), x = <<>> \/ (y2 = <<>> /\ u.pc = "off"),
         u.pc = "waitPPR" => (Len(y) < 2 /\ Len(y2) < 2)
  PROVE  Both(q, u, x, y2) /\ Confirmed(q)
<1>1. Typed(s)
  BY DEF Both, Half, Own
<1>2. Typed(q)
  <2>1. /\ q.pc \in Listening
        /\ q.frame \in {"none", "carrier", "DIS", "DCS", "MPS", "EOM", "EOP"}
    BY <1>1 DEF Listening, Typed
  <2> QED BY <1>1, <2>1 DEF Typed, Agree, Fields
<1>3. q.frame = s.frame \/ q.frame # "EOM"
  OBVIOUS
<1>4. Both(q, u, x, y2)
  BY <1>2, <1>3, GoesOver
<1>5. Confirmed(q)
  BY ConfirmedLater DEF Agree, Fields
<1> QED BY <1>4, <1>5

\* T: the invitation, or another frame.
LEMMA InvitationGood ==
  ASSUME NEW s, NEW u, NEW x, NEW y, Both(s, u, x, y), Confirmed(s), s.pc = "T", y # <<>>,
         NEW f, f = Head(y)
  PROVE  Follows(IF f.kind = "DIS" THEN A([s EXCEPT !.try = 0], f) ELSE C(s, s.err),
                 u, x, Tail(y))
<1>1. /\ Own(s) /\ Typed(s) /\ Own(u) /\ Spoken(u, y) /\ x = <<>> /\ ~s.writepending
  BY DEF Both, Half, Own, FilesShape
<1>2. CASE f.kind = "DIS"
  <2>1. u.pc = "waitR" /\ f = DIS(u)
    <3>1. Heard(u, y)
      BY <1>1, HeardIs
    <3> QED BY <1>2, <3>1 DEF Heard
  <2>2. PICK z : z = [s EXCEPT !.try = 0]
    OBVIOUS
  <2>3. Agree(z, s, {"try"}) /\ z.try = 0
    BY <1>1, <2>2 DEF Typed, Agree, Fields
  <2>4. Typed(z) /\ Agree(z, s, Trifles \ {"remtx", "remoteBR", "remoteVR"}) /\ z.frame = s.frame
    <3>1. z.try \in Nat
      BY <2>3
    <3>2. Typed(z)
      BY <1>1, <2>3, <3>1 DEF Typed, Agree, Fields
    <3>3. z.frame = s.frame
      BY <2>3 DEF Agree, Fields
    <3> QED BY <2>3, <3>2, <3>3 DEF Agree, Trifles
  <2>5. Follows(A(z, f), u, x, Tail(y))
    BY <1>1, <2>1, <2>4, AGood
  <2> QED BY <1>2, <2>2, <2>5
<1>3. CASE f.kind # "DIS"
  <2>1. s.err \in 0..3 /\ s.pc \notin {"data", "train", "off"}
    BY <1>1 DEF Typed
  <2>2. Follows(C(s, s.err), u, x, Tail(y))
    BY <1>1, <2>1, EndsAtC
  <2> QED BY <1>3, <2>2
<1> QED BY <1>2, <1>3

\* A frame that is not data: what is on the line when it is heard.
LEMMA NoDataIsShort ==
  ASSUME NEW u, NEW y, Spoken(u, y), u.pc = "waitPPR", Own(u),
         y = <<>> \/ Head(y).kind # "DATA"
  PROVE  Len(y) < 2
<1>1. y = <<>> \/ y = <<Frame(u.ppm)>> \/ y \in {Page(u, "good"), Page(u, "bad")}
  BY DEF Spoken
<1>2. y = <<>> => Len(y) < 2
  OBVIOUS
<1>3. y = <<Frame(u.ppm)>> => Len(y) < 2
  OBVIOUS
<1> QED BY <1>1, <1>2, <1>3, PageIs

\* What a receiver that waits for data hears and is none.
LEMMA NoPageGood ==
  ASSUME NEW s, NEW u, NEW x, NEW y, Both(s, u, x, y), Confirmed(s), s.pc = "data", y # <<>>,
         NEW f, f = Head(y)
  PROVE  /\ (f.kind \in Carriers /\ (f.kind = "DATA" => f.br # s.br)) =>
              Follows(<<s, <<>>>>, u, x, Tail(y))
         /\ f.kind \notin Carriers => Follows(F(s), u, x, y)
<1>1. /\ Own(s) /\ Typed(s) /\ Own(u) /\ Spoken(u, y) /\ x = <<>> /\ ~s.writepending
      /\ Paging(u, s, y, x)
  BY DEF Both, Half, Own, FilesShape
<1>2. Heard(u, y)
  BY <1>1, HeardIs
<1>3. ASSUME f.kind \in Carriers, f.kind = "DATA" => f.br # s.br
      PROVE  Follows(<<s, <<>>>>, u, x, Tail(y))
  <2>1. f.kind # "DATA"
    <3>1. SUFFICES ASSUME f.kind = "DATA" PROVE FALSE
      OBVIOUS
    <3>2. u.pc = "waitPPR" /\ y \in {Page(u, "good"), Page(u, "bad")}
      BY <1>2, <3>1 DEF Heard
    <3>3. f.br = u.br
      BY <3>2, PageIs
    <3> QED BY <1>1, <1>3, <3>1, <3>2, <3>3 DEF Paging
  <2>2. PICK y2 : y2 = Tail(y)
    OBVIOUS
  <2>3. Both(u, s, y, x)
    BY DEF Both
  <2>4. Both(u, s, y2, x)
    BY <2>1, <2>2, <2>3, LineGood
  <2>5. Both(s, u, x, y2)
    BY <2>4 DEF Both
  <2>6. <<s, <<>>>>[1] = s /\ <<s, <<>>>>[2] = <<>> /\ s.pc # "off"
    OBVIOUS
  <2> QED BY <2>2, <2>5, <2>6 DEF Follows
<1>4. ASSUME f.kind \notin Carriers PROVE Follows(F(s), u, x, y)
  <2>1. u.pc = "waitPPR" => Len(y) < 2
    BY <1>1, <1>4, NoDataIsShort DEF Carriers
  <2>2. PICK q : q = Turned(s, "F", s.frame)
    OBVIOUS
  <2>3. Both(q, u, x, y) /\ Confirmed(q) /\ q.pc = "F"
    <3>1. Agree(q, s, {"pc", "frame"}) /\ q.pc = "F" /\ q.frame = s.frame
      BY <1>1, <2>2, TurnsIs
    <3> QED BY <1>1, <2>1, <3>1, CarrierGood
  <2>4. F(s) = <<q, <<>>>>
    <3>1. q = [s EXCEPT !.pc = "F"]
      BY <1>1, <2>2 DEF Typed, Fields, Turned
    <3> QED BY <3>1 DEF F
  <2>5. F(s)[1] = q /\ F(s)[2] = <<>> /\ q.pc # "off"
    BY <2>3, <2>4
  <2> QED BY <2>3, <2>5 DEF Follows
<1> QED BY <1>3, <1>4

\* A data carrier where a frame was expected.
LEMMA WrongCarrierGood ==
  ASSUME NEW s, NEW u, NEW x, NEW y, Both(s, u, x, y), Confirmed(s), s.pc = "F", y # <<>>
  PROVE  Follows(<<[Flush(s) EXCEPT !.pc = "data", !.frame = "carrier"], <<>>>>, u, x, y)
<1>1. PICK z : z = Flush(s)
  OBVIOUS
<1>2. Both(z, u, x, y) /\ Confirmed(z) /\ ~z.writepending /\ Typed(z) /\ z.pc = "F"
  BY <1>1, FlushedGood
<1>3. /\ Own(u) /\ Spoken(u, y) /\ x = <<>> /\ Paging(u, z, y, x)
  BY <1>2 DEF Both, Half
<1>4. u.pc = "waitPPR" => Len(y) < 2
  BY <1>2, <1>3, PageIsHeard
<1>5. PICK q : q = Turned(z, "data", "carrier")
  OBVIOUS
<1>6. q = [z EXCEPT !.pc = "data", !.frame = "carrier"]
  BY <1>5 DEF Turned
<1>7. Agree(q, z, {"pc", "frame"}) /\ q.pc = "data" /\ q.frame = "carrier"
  BY <1>2, <1>5, TurnsIs
<1>8. Both(q, u, x, y) /\ Confirmed(q)
  BY <1>2, <1>3, <1>4, <1>7, CarrierGood
<1>9. <<q, <<>>>>[1] = q /\ <<q, <<>>>>[2] = <<>> /\ q.pc # "off"
  BY <1>7
<1>10. Follows(<<q, <<>>>>, u, x, y)
  BY <1>8, <1>9 DEF Follows
<1> QED BY <1>1, <1>6, <1>10

(* A timer runs out. *)
LEMMA ExpiredGood ==
  ASSUME NEW s, NEW u, NEW x, NEW y, NEW left, Both(s, u, x, y), Confirmed(s),
         s.pc \in Listening, s.pc = "waitPPR" => Len(x) < 2,
         s.pc = "data" => (y = <<>> /\ left = <<>> /\ (x = <<>> \/ u.pc = "off"))
  PROVE  Follows(Expired(s), u, x, left)
<1>1. /\ Half(s, u, x, y) /\ Own(s) /\ Typed(s) /\ Own(u) /\ Spoken(s, x)
      /\ s.pc # "F" => ~s.writepending
      /\ NotSkipped(s) /\ s.remoteBR # -1 /\ (s.pc = "waitDCS" => AtPage(s)) /\ OneStart(s, u)
      /\ OneStart(u, s) /\ Paging(u, s, y, x)
  BY DEF Both, Half, Own, FilesShape, Sending, Listening
<1>2. 3 \in 0..3
  OBVIOUS
<1>3. s.pc \in {"T", "waitDCS", "waitPPR", "waitR", "F", "train", "data"}
  BY DEF Listening
<1>4. CASE s.pc = "T"
  <2>1. x = <<>>
    BY <1>1, <1>4 DEF Spoken
  <2>2. Follows(B(s, 3), u, x, left)
    BY <1>1, <1>2, <1>4, <2>1, EndsAtB
  <2> QED BY <1>4, <2>2 DEF Expired
<1>5. CASE s.pc = "waitDCS"
  <2>1. s.pc \notin {"data", "train", "off"} /\ ~s.writepending
    BY <1>1, <1>5
  <2>2. Follows(C(s, 3), u, x, left)
    BY <1>2, <2>1, EndsAtC
  <2>3. Agree(s, s, {"cur", "localVR", "ppm", "remoteBR"}) /\ s.cur >= s.cur
    BY <1>1 DEF Typed, Agree
  <2>4. /\ u.pc # "waitPPR" /\ ((OneFormat(s.doc) /\ s.dp = 1) => u.pc # "waitR")
        /\ s.remoteVR = u.localVR
    BY <1>1, <1>5 DEF Half, Paging, OneStart, Known, Sending
  <2>5. Follows(D_2(s), u, x, left)
    BY <1>1, <1>5, <2>1, <2>3, <2>4, D_2Good
  <2>6. Expired(s) = IF s.try >= MAXTRY THEN C(s, 3) ELSE D_2(s)
    BY <1>5 DEF Expired, C_timeout
  <2> QED BY <2>2, <2>5, <2>6
<1>6. CASE s.pc = "waitPPR"
  <2>1. s.pc \notin {"data", "train", "off"} /\ ~s.writepending
    BY <1>1, <1>6
  <2>2. Follows(C(s, 3), u, x, left)
    BY <1>2, <2>1, EndsAtC
  <2>3. Follows(sendppm(s), u, x, left)
    BY <1>6, sendppmGood
  <2>4. Expired(s) = IF s.try >= MAXTRY THEN C(s, 3) ELSE sendppm(s)
    BY <1>6 DEF Expired, C_timeout
  <2> QED BY <2>2, <2>3, <2>4
<1>7. CASE s.pc = "waitR"
  <2>1. Follows(SendDIS(s), u, x, left)
    BY <1>7, SendDISGood
  <2> QED BY <1>7, <2>1 DEF Expired
<1>8. CASE s.pc = "F"
  <2>1. PICK z : z = Flush(s)
    OBVIOUS
  <2>2. /\ Both(z, u, x, y) /\ Confirmed(z) /\ ~z.writepending /\ Typed(z) /\ z.pc = "F"
        /\ z.frame = s.frame
    BY <1>8, <2>1, FlushedGood
  <2>3. CASE s.frame = "EOM"
    <3>1. Half(z, u, x, y) /\ OneStart(u, z) /\ NotSkipped(z) /\ Own(z)
      BY <2>2 DEF Both, Half
    <3>2. Agree(z, z, {"cur"}) /\ z.cur >= z.cur
      BY <2>2 DEF Typed, Agree
    <3>3. z.doc # <<>> => (z.dp = 0 \/ z.cur > Len(z.doc))
      BY <2>2, <3>1 DEF Own, Receiving
    <3>4. (OneFormat(u.doc) /\ u.pc \in {"T", "waitDCS"}) => u.dp = 0
      BY <2>2, <2>3, <3>1 DEF OneStart
    <3>5. (NoPIP /\ z.doc # <<>> /\ Len(z.doc) \in SentPages(z)) => z.remtx
      BY <2>2 DEF Confirmed
    <3>6. z.pc \in {"T", "waitPPR", "waitR", "F"}
      BY <2>2
    <3>7. Follows(R(z), u, x, left)
      BY <2>2, <3>1, <3>2, <3>3, <3>4, <3>5, <3>6, RGood
    <3> QED BY <1>8, <2>1, <2>3, <3>7 DEF Expired
  <2>4. CASE s.frame # "EOM"
    <3>1. Follows(B(z, 3), u, x, left)
      BY <1>2, <2>2, EndsAtB
    <3> QED BY <1>8, <2>1, <2>4, <3>1 DEF Expired
  <2> QED BY <2>3, <2>4
<1>9. CASE s.pc = "train"
  <2>1. Follows(Trained(s, FALSE), u, x, left)
    BY <1>9, TrainedGood
  <2> QED BY <1>9, <2>1 DEF Expired
<1>10. CASE s.pc = "data"
  <2>1. /\ y = <<>> /\ left = <<>> /\ (x = <<>> \/ u.pc = "off") /\ Spoken(u, <<>>)
        /\ Len(<<>>) < 2 /\ ~s.writepending
    BY <1>1, <1>10 DEF Spoken
  <2>2. PICK q : q = Turned(s, "F", s.frame)
    OBVIOUS
  <2>4. Agree(q, s, {"pc", "frame"}) /\ q.pc = "F" /\ q.frame = s.frame
    BY <1>1, <2>2, TurnsIs
  <2>5. Spoken(u, left) /\ Len(left) < 2 /\ Len(y) < 2
    BY <2>1
  <2>6. Both(q, u, x, left) /\ Confirmed(q) /\ q.pc = "F"
    BY <1>10, <2>1, <2>4, <2>5, CarrierGood
  <2>7. F(s) = <<q, <<>>>>
    <3>1. q = [s EXCEPT !.pc = "F"]
      BY <1>1, <2>2 DEF Typed, Fields, Turned
    <3> QED BY <3>1 DEF F
  <2>8. F(s)[1] = q /\ F(s)[2] = <<>> /\ q.pc # "off"
    BY <2>6, <2>7
  <2>9. Follows(F(s), u, x, left)
    BY <2>6, <2>8 DEF Follows
  <2> QED BY <1>10, <2>9 DEF Expired
<1> QED BY <1>3, <1>4, <1>5, <1>6, <1>7, <1>8, <1>9, <1>10

----------------------------------------------------------------------------
(* The invariant *)

LEMMA TheOther ==
  ASSUME NEW e \in Ends
  PROVE  /\ Other(e) \in Ends /\ Other(e) # e /\ Other(Other(e)) = e
         /\ \A g \in Ends : g = e \/ g = Other(e)
BY DEF Ends, Other

\* The invariant speaks of each end and of the other.
LEMMA PairGood ==
  ASSUME IInv, NEW e \in Ends
  PROVE  /\ Both(st[e], st[Other(e)], air[e], air[Other(e)])
         /\ Confirmed(st[e]) /\ Confirmed(st[Other(e)])
<1>1. Other(e) \in Ends /\ Other(Other(e)) = e
  BY TheOther
<1>2. Half(st[e], st[Other(e)], air[e], air[Other(e)]) /\ Confirmed(st[e])
  BY DEF IInv
<1>3. /\ Half(st[Other(e)], st[Other(Other(e))], air[Other(e)], air[Other(Other(e))])
      /\ Confirmed(st[Other(e)])
  BY <1>1 DEF IInv
<1> QED BY <1>1, <1>2, <1>3 DEF Both

\* The invariant is one of a pair of ends, whichever is named first.
LEMMA PairsMakeIInv ==
  ASSUME Joined', NEW e \in Ends,
         NEW s, NEW u, NEW x, NEW y, s = st'[e], u = st'[Other(e)], x = air'[e], y = air'[Other(e)],
         Both(s, u, x, y), Confirmed(s), Confirmed(u)
  PROVE  IInv'
<1>1. Other(e) \in Ends /\ Other(Other(e)) = e /\ \A g \in Ends : g = e \/ g = Other(e)
  BY TheOther
<1>2. Half(s, u, x, y) /\ Half(u, s, y, x)
  BY DEF Both
<1>3. ASSUME NEW g \in Ends
      PROVE  /\ Half(st'[g], st'[Other(g)], air'[g], air'[Other(g)])
             /\ Confirmed(st'[g])
  <2>1. CASE g = e
    BY <1>2, <2>1
  <2>2. CASE g = Other(e)
    BY <1>1, <1>2, <2>2
  <2> QED BY <1>1, <2>1, <2>2
<1>4. (\A g \in Ends : /\ Half(st[g], st[Other(g)], air[g], air[Other(g)])
                       /\ Confirmed(st[g]))'
  BY <1>3
<1> QED BY <1>4 DEF IInv

\* An end goes on.
LEMMA GoesGood ==
  ASSUME IInv, NEW e \in Ends, NEW r, NEW left, Goes(e, r, left), faults' \in 0..MaxFaults,
         Follows(r, st[Other(e)], air[e], left)
  PROVE  IInv'
<1>1. Other(e) \in Ends /\ Other(e) # e
  BY TheOther
<1>2. /\ st = [g \in Ends |-> st[g]] /\ air = [g \in Ends |-> air[g]]
      /\ channel \in Channels
  BY DEF IInv, Joined
<1>3. PICK x : x = IF r[2] = <<>> THEN air[e] ELSE r[2]
  OBVIOUS
<1>4. PICK y : y = IF r[2] = <<>> /\ r[1].pc # "off" THEN left ELSE <<>>
  OBVIOUS
<1>5. /\ st' = [st EXCEPT ![e] = r[1]] /\ air' = [air EXCEPT ![e] = x, ![Other(e)] = y]
      /\ channel' = channel
  BY <1>3, <1>4 DEF Goes
<1>6. st'[e] = r[1] /\ st'[Other(e)] = st[Other(e)]
  BY <1>1, <1>2, <1>5
<1>7. air'[e] = x /\ air'[Other(e)] = y
  BY <1>1, <1>2, <1>5
<1>8. Joined'
  <2>1. st' = [g \in Ends |-> st'[g]] /\ air' = [g \in Ends |-> air'[g]]
    BY <1>2, <1>5
  <2> QED BY <1>2, <1>5, <2>1 DEF Joined
<1>9. PICK s, u : s = r[1] /\ u = st[Other(e)]
  OBVIOUS
<1>10. Both(s, u, x, y) /\ Confirmed(s)
  BY <1>3, <1>4, <1>9 DEF Follows
<1>11. Confirmed(u)
  BY <1>9, PairGood
<1> QED BY <1>6, <1>7, <1>8, <1>9, <1>10, <1>11, PairsMakeIInv

\* A signal is lost or damaged.
LEMMA LineSteps ==
  ASSUME Sound, IInv, NEW e \in Ends, Lose(e) \/ Damage(e)
  PROVE  IInv'
<1>1. Other(e) \in Ends /\ Other(e) # e
  BY TheOther
<1>2. /\ st = [g \in Ends |-> st[g]] /\ air = [g \in Ends |-> air[g]]
      /\ channel \in Channels
      /\ faults \in 0..MaxFaults
  BY DEF IInv, Joined
<1>3. PICK s, u, x, y : s = st[e] /\ u = st[Other(e)] /\ x = air[e] /\ y = air[Other(e)]
  OBVIOUS
<1>4. Both(s, u, x, y) /\ Confirmed(s) /\ Confirmed(u)
  BY <1>3, PairGood
<1>5. x # <<>> /\ st' = st /\ channel' = channel /\ faults < MaxFaults /\ faults' = faults + 1
  BY <1>3 DEF Lose, Damage
<1>6. faults' \in 0..MaxFaults
  BY <1>2, <1>5, SessionAssumption DEF SessionAssumption
<1>7. PICK x2 : air' = [air EXCEPT ![e] = x2] /\ Both(s, u, x2, y)
  <2>1. CASE Lose(e)
    <3>1. PICK x2 : x2 = Tail(x)
      OBVIOUS
    <3>2. air' = [air EXCEPT ![e] = x2]
      BY <1>3, <2>1, <3>1 DEF Lose
    <3>3. Head(x).kind # "DATA"
      BY <1>3, <2>1 DEF Lose, Sound
    <3>4. Both(s, u, x2, y)
      BY <1>4, <1>5, <3>1, <3>3, LineGood
    <3> QED BY <3>2, <3>4
  <2>2. CASE Damage(e)
    <3>1. Head(x).kind = "DATA" /\ Head(x).quality = "good"
      BY <1>3, <2>2 DEF Damage
    <3>2. Own(s) /\ Spoken(s, x)
      BY <1>4 DEF Both, Half
    <3>3. Heard(s, x)
      BY <1>5, <3>2, HeardIs
    <3>4. s.pc = "waitPPR" /\ x \in {Page(s, "good"), Page(s, "bad")}
      BY <3>1, <3>3 DEF Heard
    <3>5. x = Page(s, "good")
      BY <3>1, <3>4, PageIs
    <3>6. air' = [air EXCEPT ![e][1].quality = "bad"]
      BY <2>2 DEF Damage, Sound
    <3>7. PICK x2 : x2 = [x EXCEPT ![1].quality = "bad"]
      OBVIOUS
    <3>8. air' = [air EXCEPT ![e] = x2]
      BY <1>3, <3>6, <3>7
    <3>9. x2 = Page(s, "bad")
      <4>1. PICK g, b, m : /\ g = [Data(s) EXCEPT !.quality = "good"]
                           /\ b = [Data(s) EXCEPT !.quality = "bad"] /\ m = Frame(s.ppm)
        OBVIOUS
      <4>2. [g EXCEPT !.quality = "bad"] = b
        BY <4>1 DEF Data
      <4>3. x = <<g, m>> /\ Page(s, "bad") = <<b, m>>
        BY <3>5, <4>1 DEF Page
      <4>4. x2 = [<<g, m>> EXCEPT ![1] = [g EXCEPT !.quality = "bad"]]
        BY <3>7, <4>3
      <4>5. [<<g, m>> EXCEPT ![1] = b] = <<b, m>>
        OBVIOUS
      <4> QED BY <4>2, <4>3, <4>4, <4>5
    <3>10. Both(s, u, x2, y)
      BY <1>4, <1>5, <3>4, <3>5, <3>9, LineGood
    <3> QED BY <3>8, <3>10
  <2> QED BY <2>1, <2>2
<1>8. air'[e] = x2 /\ air'[Other(e)] = y /\ st'[e] = s /\ st'[Other(e)] = u
  BY <1>1, <1>2, <1>3, <1>5, <1>7
<1>9. Joined'
  <2>1. air' = [g \in Ends |-> air'[g]]
    BY <1>2, <1>7
  <2> QED BY <1>2, <1>5, <1>6, <2>1 DEF Joined
<1> QED BY <1>4, <1>7, <1>8, <1>9, PairsMakeIInv

\* The steps by which an end goes on.
LEMMA EndSteps ==
  ASSUME Sound, IInv, NEW e \in Ends,
         Progress(e) \/ PeerAnswersOtherwise(e) \/ DiskFails(e) \/ TimesOutEarly(e)
  PROVE  IInv'
<1>1. PICK s, u, x, y : s = st[e] /\ u = st[Other(e)] /\ x = air[e] /\ y = air[Other(e)]
  OBVIOUS
<1>2. Both(s, u, x, y) /\ Confirmed(s)
  BY <1>1, PairGood
<1>3. /\ Own(s) /\ Typed(s) /\ Own(u) /\ Spoken(u, y) /\ Spoken(s, x)
      /\ (x = <<>> \/ y = <<>>)
      /\ Paging(s, u, x, y)
  BY <1>2 DEF Both, Half, Own
<1>4. faults \in 0..MaxFaults /\ MaxFaults \in Nat
  BY SessionAssumption DEF IInv, Joined, SessionAssumption
<1>5. faults' \in 0..MaxFaults
  <2>1. Progress(e) => faults' = faults
    BY Zenon DEF Progress, HearsInvitation, HearsDCSAnswer, HearsPageAnswer, HearsCommand,
                 HearsWrongCarrier, HearsTraining, HearsPage, HearsNoPage, TimesOut
  <2>2. (PeerAnswersOtherwise(e) \/ DiskFails(e) \/ TimesOutEarly(e)) =>
          (faults < MaxFaults /\ faults' = faults + 1)
    BY Zenon DEF PeerAnswersOtherwise, DiskFails, TimesOutEarly
  <2> QED BY <1>4, <2>1, <2>2
<1>6. \A r, left : (Goes(e, r, left) /\ Follows(r, u, x, left)) => IInv'
  BY <1>1, <1>5, GoesGood
<1>7. y # <<>> => Heard(u, y)
  BY <1>3, HeardIs
<1>8. CASE HearsInvitation(e)
  <2>1. PICK f : f = Head(y)
    OBVIOUS
  <2>2. /\ s.pc = "T" /\ y # <<>>
        /\ Goes(e, IF f.kind = "DIS" THEN A([s EXCEPT !.try = 0], f) ELSE C(s, s.err), Tail(y))
    BY <1>1, <1>8, <2>1 DEF HearsInvitation, HearsFrame, Hears, Signal, Rest
  <2>3. Follows(IF f.kind = "DIS" THEN A([s EXCEPT !.try = 0], f) ELSE C(s, s.err),
                u, x, Tail(y))
    BY <1>2, <2>1, <2>2, InvitationGood
  <2> QED BY <1>6, <2>2, <2>3
<1>9. CASE HearsDCSAnswer(e)
  <2>1. PICK f : f = Head(y)
    OBVIOUS
  <2>2. /\ s.pc = "waitDCS" /\ y # <<>> /\ f.kind \notin Carriers
        /\ Goes(e, AnsweredDCS(s, f), Tail(y))
    BY <1>1, <1>9, <2>1 DEF HearsDCSAnswer, HearsFrame, Hears, Signal, Rest
  <2>3. Follows(AnsweredDCS(s, f), u, x, Tail(y))
    BY <1>2, <2>1, <2>2, AnsweredDCSGood
  <2> QED BY <1>6, <2>2, <2>3
<1>10. CASE HearsPageAnswer(e)
  <2>1. PICK f : f = Head(y)
    OBVIOUS
  <2>2. /\ s.pc = "waitPPR" /\ y # <<>> /\ f.kind \notin Carriers
        /\ Goes(e, AnsweredPage(s, f), Tail(y))
    BY <1>1, <1>10, <2>1 DEF HearsPageAnswer, HearsFrame, Hears, Signal, Rest
  <2>3. Follows(AnsweredPage(s, f), u, x, Tail(y))
    BY <1>2, <2>1, <2>2, AnsweredPageGood
  <2> QED BY <1>6, <2>2, <2>3
<1>11. CASE HearsCommand(e)
  <2>1. PICK f, z : f = Head(y) /\ z = Flush(s)
    OBVIOUS
  <2>2. /\ s.pc \in {"waitR", "F"} /\ y # <<>> /\ f.kind \notin Carriers
        /\ Goes(e, Commanded(z, f), Tail(y))
    BY <1>1, <1>11, <2>1 DEF HearsCommand, HearsFrame, Hears, Signal, Rest
  <2>3. Both(z, u, x, y) /\ Confirmed(z) /\ ~z.writepending /\ z.pc \in {"waitR", "F"}
    BY <1>2, <2>1, <2>2, FlushedGood
  <2>4. Follows(Commanded(z, f), u, x, Tail(y))
    BY <2>1, <2>2, <2>3, CommandedGood
  <2> QED BY <1>6, <2>2, <2>4
<1>12. CASE HearsWrongCarrier(e)
  <2>1. /\ s.pc \in {"T", "waitDCS", "waitPPR", "waitR", "F"} /\ y # <<>>
        /\ IF s.pc = "F"
           THEN Goes(e, <<[Flush(s) EXCEPT !.pc = "data", !.frame = "carrier"], <<>>>>, y)
           ELSE Goes(e, Expired(s), Tail(y))
    BY <1>1, <1>12 DEF HearsWrongCarrier, HearsCarrier, Hears, Signal, Rest
  <2>2. CASE s.pc = "F"
    <3>1. Follows(<<[Flush(s) EXCEPT !.pc = "data", !.frame = "carrier"], <<>>>>, u, x, y)
      BY <1>2, <2>1, <2>2, WrongCarrierGood
    <3> QED BY <1>6, <2>1, <2>2, <3>1
  <2>3. CASE s.pc # "F"
    <3>1. s.pc \in Listening /\ s.pc # "data" /\ Len(x) < 2
      BY <1>3, <2>1, <2>3 DEF Listening
    <3>2. Follows(Expired(s), u, x, Tail(y))
      BY <1>2, <3>1, ExpiredGood
    <3> QED BY <1>6, <2>1, <2>3, <3>2
  <2> QED BY <2>2, <2>3
<1>13. CASE HearsTraining(e)
  <2>1. PICK f : f = Head(y)
    OBVIOUS
  <2>2. PICK ok : ok = (f.kind = "TCF" /\ f.br = s.br /\ Rank[f.br] <= channel)
    OBVIOUS
  <2>3. s.pc = "train" /\ y # <<>> /\ Goes(e, Trained(s, ok), Tail(y))
    BY <1>1, <1>13, <2>1, <2>2 DEF HearsTraining, Hears, Signal, Rest
  <2>4. ok \in BOOLEAN
    BY <2>2
  <2>5. (ok /\ u.pc = "waitDCS") => s.br = u.br
    <3>1. SUFFICES ASSUME ok PROVE s.br = u.br
      OBVIOUS
    <3>2. f.kind = "TCF" /\ f.br = s.br
      BY <2>2, <3>1
    <3>3. y = <<TCF(u)>>
      BY <1>7, <2>1, <2>3, <3>2 DEF Heard
    <3>4. f.br = u.br
      BY <2>1, <3>3 DEF TCF
    <3> QED BY <3>2, <3>4
  <2>6. Follows(Trained(s, ok), u, x, Tail(y))
    BY <1>2, <2>3, <2>4, <2>5, TrainedGood
  <2> QED BY <1>6, <2>3, <2>6
<1>14. CASE HearsPage(e)
  <2>1. PICK f : f = Head(y)
    OBVIOUS
  <2>2. s.pc = "data" /\ y # <<>> /\ f.kind = "DATA" /\ Goes(e, Received(s, f), Tail(y))
    BY <1>1, <1>14, <2>1 DEF HearsPage, HearsCarrier, Hears, Signal, Rest
  <2>3. Follows(Received(s, f), u, x, Tail(y))
    BY <1>2, <2>1, <2>2, ReceivedGood
  <2> QED BY <1>6, <2>2, <2>3
<1>15. CASE HearsNoPage(e)
  <2>1. PICK f : f = Head(y)
    OBVIOUS
  <2>2. /\ s.pc = "data" /\ y # <<>>
        /\ IF f.kind \in Carriers
           THEN (f.kind = "DATA" => f.br # s.br) /\ Goes(e, <<s, <<>>>>, Tail(y))
           ELSE Goes(e, F(s), y)
    BY <1>1, <1>15, <2>1 DEF HearsNoPage, Hears, Signal, Rest
  <2>3. /\ (f.kind \in Carriers /\ (f.kind = "DATA" => f.br # s.br)) =>
             Follows(<<s, <<>>>>, u, x, Tail(y))
        /\ f.kind \notin Carriers => Follows(F(s), u, x, y)
    BY <1>2, <2>1, <2>2, NoPageGood
  <2> QED BY <1>6, <2>2, <2>3
<1>16. CASE TimesOut(e)
  <2>1. /\ s.pc \in Listening /\ y = <<>> /\ (x = <<>> \/ u.pc = "off")
        /\ Goes(e, Expired(s), <<>>)
    BY <1>1, <1>16 DEF TimesOut, Silent
  <2>2. s.pc = "waitPPR" => Len(x) < 2
    <3>1. CASE x = <<>>
      BY <3>1
    <3>2. CASE u.pc = "off" /\ x # <<>> /\ s.pc = "waitPPR"
      <4>1. Len(x) # 2
        BY <1>3, <3>2 DEF Paging
      <4>2. x = <<Frame(s.ppm)>> \/ x \in {Page(s, "good"), Page(s, "bad")}
        BY <1>3, <3>2 DEF Spoken
      <4>3. x = <<Frame(s.ppm)>> => Len(x) < 2
        OBVIOUS
      <4> QED BY <4>1, <4>2, <4>3, PageIs
    <3> QED BY <2>1, <3>1, <3>2
  <2>3. PICK left : left = <<>>
    OBVIOUS
  <2>4. Follows(Expired(s), u, x, left)
    BY <1>2, <2>1, <2>2, <2>3, ExpiredGood
  <2> QED BY <1>6, <2>1, <2>3, <2>4
<1>17. CASE PeerAnswersOtherwise(e)
  <2>1. PICK f, z : f = Head(y) /\ z = Flush(s)
    OBVIOUS
  <2>2. PICK a \in PeerAnswers : /\ a \in {"MCF", "RTP", "PIP"} => s.good
                                 /\ Goes(e, Answered(z, f.kind, a), Tail(y))
    BY <1>1, <1>17, <2>1 DEF PeerAnswersOtherwise, HearsFrame, Hears, Signal, Rest
  <2>3. s.pc = "F" /\ y # <<>> /\ f.kind \in PostPage
    BY <1>1, <1>17, <2>1 DEF PeerAnswersOtherwise, HearsFrame, Hears, Signal
  <2>4. /\ Both(z, u, x, y) /\ Confirmed(z) /\ ~z.writepending /\ z.pc = "F"
        /\ z.good = s.good
    BY <1>2, <2>1, <2>3, FlushedGood
  <2>5. u.pc = "waitPPR" /\ y = <<Frame(u.ppm)>> /\ f.kind = u.ppm
    BY <1>7, <2>1, <2>3 DEF Heard
  <2>6. a \in PostPageAnswers /\ (a = "PIP" => ~NoPIP)
    BY <2>2, SessionAssumption DEF NoPIP
  <2>8. a \in Accepts => z.good
    BY <2>2, <2>4 DEF Accepts
  <2>7. Follows(Answered(z, u.ppm, a), u, x, Tail(y))
    BY <2>4, <2>5, <2>6, <2>8, AnsweredGood
  <2> QED BY <1>6, <2>2, <2>5, <2>7
<1>18. CASE DiskFails(e)
  <2>1. /\ s.pc = "data" /\ y # <<>> /\ Head(y).kind = "DATA"
        /\ Goes(e, F([s EXCEPT !.good = FALSE]), Tail(y))
    BY <1>1, <1>18 DEF DiskFails, HearsCarrier, Hears, Signal, Rest
  <2>2. Follows(F([s EXCEPT !.good = FALSE]), u, x, Tail(y))
    BY <1>2, <2>1, RefusedGood
  <2> QED BY <1>6, <2>1, <2>2
<1>19. CASE TimesOutEarly(e)
  <2>1. /\ s.pc \in {"waitDCS", "waitPPR", "waitR"}
        /\ \A i \in DOMAIN x : x[i].kind \notin Carriers
        /\ Goes(e, Expired(s), <<>>)
    BY <1>1, <1>19 DEF TimesOutEarly
  <2>2. s.pc = "waitPPR" => Len(x) < 2
    <3>1. SUFFICES ASSUME s.pc = "waitPPR" PROVE Len(x) < 2
      OBVIOUS
    <3>2. x = <<>> \/ x = <<Frame(s.ppm)>> \/ x \in {Page(s, "good"), Page(s, "bad")}
      BY <1>3, <3>1 DEF Spoken
    <3>3. \A q : Page(s, q)[1].kind = "DATA" /\ 1 \in DOMAIN Page(s, q)
      BY DEF Page, Data
    <3>4. x \notin {Page(s, "good"), Page(s, "bad")}
      BY <2>1, <3>3 DEF Carriers
    <3>5. x = <<>> => Len(x) < 2
      OBVIOUS
    <3>6. x = <<Frame(s.ppm)>> => Len(x) < 2
      OBVIOUS
    <3> QED BY <3>2, <3>4, <3>5, <3>6
  <2>3. PICK left : left = <<>>
    OBVIOUS
  <2>4. s.pc \in Listening /\ s.pc # "data"
    BY <2>1 DEF Listening
  <2>5. Follows(Expired(s), u, x, left)
    BY <1>2, <2>2, <2>4, ExpiredGood
  <2> QED BY <1>6, <2>1, <2>3, <2>5
<1> QED BY <1>8, <1>9, <1>10, <1>11, <1>12, <1>13, <1>14, <1>15, <1>16, <1>17, <1>18, <1>19
        DEF Progress

\* An end that has done nothing yet.
Idle(s) ==
  /\ Typed(s) /\ s.err = 0 /\ s.remoteBR # -1 /\ s.cur = 1 /\ s.dp = 0 /\ s.sent = <<>>
  /\ s.remtx = FALSE /\ s.rxpage = 0 /\ s.writepending = FALSE /\ s.frame = "none"

\* An end at the start is typed and idle.
LEMMA FreshIs ==
  ASSUME NEW pc, NEW doc \in Docs, NEW rate \in Rates, NEW finest \in Finest
  PROVE  /\ pc \in Listening => Idle(Fresh(pc, doc, rate, finest))
         /\ Fresh(pc, doc, rate, finest).pc = pc
         /\ Fresh(pc, doc, rate, finest).files = <<>>
         /\ Fresh(pc, doc, rate, finest).t = 0 /\ Fresh(pc, doc, rate, finest).rxpage = 0
         /\ DOMAIN Fresh(pc, doc, rate, finest) = Fields
<1>1. PICK s : s = Fresh(pc, doc, rate, finest)
  OBVIOUS
<1>2. /\ DOMAIN s = Fields /\ s = [g \in DOMAIN s |-> s[g]]
  BY <1>1 DEF Fresh, Fields
<1>3. /\ s.pc = pc /\ s.err = 0 /\ s.localBR = rate /\ s.remoteBR = 3 /\ s.br = 3
      /\ s.localVR = finest /\ s.remoteVR = 1 /\ s.vr = 1 /\ s.doc = doc /\ s.cur = 1
      /\ s.dp = 0 /\ s.ppm = "EOP" /\ s.try = 0 /\ s.pagetry = 0
      /\ s.remtx = FALSE /\ s.sent = <<>> /\ s.t = 0 /\ s.frame = "none" /\ s.good = FALSE
      /\ s.rxpage = 0 /\ s.writepending = FALSE /\ s.files = <<>>
  BY <1>1 DEF Fresh
<1>4. doc \in Seq(Resolutions) /\ rate \in Codes /\ finest \in Resolutions
  BY SessionAssumption DEF SessionAssumption, Docs, Codes
<1>5. /\ 0 \in 0..3 /\ 3 \in Codes /\ 1 \in Resolutions /\ 0 \in 0..MaxDIS
      /\ "EOP" \in PostPage
      /\ <<>> \in Seq(Nat) /\ <<>> \in Seq(Seq(Line))
  BY DEF Codes, Resolutions, MaxDIS, PostPage
<1>6. pc \in Listening => Typed(s)
  <2>1. /\ s.err \in 0..3 /\ s.localBR \in Codes /\ s.remoteBR \in Codes \cup {-1}
        /\ s.br \in Codes /\ s.localVR \in Resolutions /\ s.remoteVR \in Resolutions
        /\ s.vr \in Resolutions /\ s.doc \in Docs
        /\ s.doc \in Seq(Resolutions) /\ s.ppm \in PostPage
    BY <1>3, <1>4, <1>5
  <2>2. /\ s.cur \in Nat \ {0} /\ s.dp \in {0, 1} /\ s.try \in Nat /\ s.pagetry \in Nat
        /\ s.rxpage \in Nat /\ s.t \in 0..MaxDIS
    BY <1>3, <1>5
  <2>3. s.remtx \in BOOLEAN /\ s.good \in BOOLEAN /\ s.writepending \in BOOLEAN
    BY <1>3
  <2>4. /\ s.sent \in Seq(Nat) /\ s.files \in Seq(Seq(Line))
        /\ s.frame \in {"none", "carrier", "DIS", "DCS", "MPS", "EOM", "EOP"}
    BY <1>3, <1>5
  <2>5. pc \in Listening => s.pc \in Listening \cup {"off"}
    BY <1>3
  <2> QED BY <1>2, <2>1, <2>2, <2>3, <2>4, <2>5 DEF Typed
<1> QED BY <1>1, <1>2, <1>3, <1>6 DEF Idle

\* The end that answers begins with an invitation.
LEMMA InvitesFirst ==
  ASSUME NEW doc \in Docs, NEW rate \in Rates, NEW finest \in Finest,
         NEW w, w = R(Fresh("R", doc, rate, finest))[1]
  PROVE  /\ R(Fresh("R", doc, rate, finest))[2] = <<DIS(w)>>
         /\ Idle(w) /\ w.pc = "waitR" /\ w.doc = doc /\ FilesShape(w)
<1>1. PICK z : z = Fresh("R", doc, rate, finest)
  OBVIOUS
<1>2. z.files = <<>> /\ z.t = 0 /\ z.rxpage = 0 /\ DOMAIN z = Fields
  BY <1>1 DEF Fresh, Fields
<1>3. PICK v : v = [OpenFile(z, z.rxpage) EXCEPT !.t = 0]
  OBVIOUS
<1>4. PICK fs : fs = Append(SubSeq(z.files, 1, z.rxpage), <<>>)
  OBVIOUS
<1>5. fs = <<<<>>>>
  <2>1. SubSeq(z.files, 1, z.rxpage) = <<>>
    BY <1>2
  <2>2. Append(<<>>, <<>>) = <<<<>>>>
    OBVIOUS
  <2> QED BY <1>4, <2>1, <2>2
<1>6. v = [[z EXCEPT !.files = fs] EXCEPT !.t = 0]
  BY <1>3, <1>4 DEF OpenFile
<1>7. v.t = 0
  BY <1>2, <1>6 DEF Fields
<1>8. R(z) = <<[v EXCEPT !.pc = "waitR", !.t = v.t + 1], <<DIS(v)>>>>
  BY <1>3, <1>7 DEF R, SendDIS, MaxDIS
<1>9. w = [v EXCEPT !.pc = "waitR", !.t = 1]
  BY <1>1, <1>7, <1>8
<1>10. /\ DOMAIN w = Fields /\ w = [g \in DOMAIN w |-> w[g]]
       /\ w.pc = "waitR" /\ w.t = 1 /\ w.files = <<<<>>>>
  BY <1>2, <1>5, <1>6, <1>9 DEF Fields
<1>11. \A g \in Fields \ {"pc", "t", "files"} : w[g] = z[g] /\ v[g] = z[g]
  BY <1>2, <1>6, <1>9
<1>12. PICK r : r = Fresh("T", doc, rate, finest)
  OBVIOUS
<1>13. Idle(r) /\ r.doc = doc
  BY <1>12, FreshIs DEF Fresh, Listening
<1>14. \A g \in Fields \ {"pc"} : z[g] = r[g]
  <2>1. /\ z.err = r.err /\ z.localBR = r.localBR /\ z.remoteBR = r.remoteBR /\ z.br = r.br
        /\ z.localVR = r.localVR /\ z.remoteVR = r.remoteVR
        /\ z.vr = r.vr /\ z.doc = r.doc /\ z.cur = r.cur /\ z.dp = r.dp /\ z.ppm = r.ppm
    BY <1>1, <1>12 DEF Fresh
  <2>2. /\ z.try = r.try /\ z.pagetry = r.pagetry /\ z.remtx = r.remtx /\ z.sent = r.sent
        /\ z.t = r.t /\ z.frame = r.frame /\ z.good = r.good /\ z.rxpage = r.rxpage
        /\ z.writepending = r.writepending /\ z.files = r.files
    BY <1>1, <1>12 DEF Fresh
  <2> QED BY <2>1, <2>2 DEF Fields
<1>15. Typed(w)
  <2>1. w.pc \in Listening /\ w.t \in 0..MaxDIS
    BY <1>10 DEF Listening, MaxDIS
  <2>2. w.files \in Seq(Seq(Line))
    <3>1. <<>> \in Seq(Line) /\ \A a \in Seq(Line) : <<a>> \in Seq(Seq(Line))
      OBVIOUS
    <3>2. <<<<>>>> \in Seq(Seq(Line))
      BY <3>1
    <3> QED BY <1>10, <3>2
  <2>3. \A g \in Fields \ {"pc", "t", "files"} : w[g] = r[g]
    BY <1>11, <1>14
  <2>4. Typed(r) /\ DOMAIN w = Fields /\ w = [g \in DOMAIN w |-> w[g]]
    BY <1>10, <1>13 DEF Idle
  <2> QED BY <2>1, <2>2, <2>3, <2>4 DEF Typed, Fields
<1>16. Idle(w) /\ w.doc = doc
  BY <1>11, <1>13, <1>14, <1>15 DEF Idle, Fields
<1>17. DIS(v) = DIS(w)
  <2>1. v.localBR = w.localBR /\ v.localVR = w.localVR /\ v.doc = w.doc
    BY <1>11 DEF Fields
  <2> QED BY <2>1 DEF DIS
<1>18. FilesShape(w)
  <2>1. Len(<<<<>>>>) = 1 /\ <<<<>>>>[1] = <<>>
    OBVIOUS
  <2>2. Len(w.files) = 1 /\ w.files[1] = <<>>
    BY <1>10, <2>1
  <2>3. w.rxpage = 0 /\ ~w.writepending /\ w.pc = "waitR"
    BY <1>10, <1>16 DEF Idle
  <2>4. \A i \in 1..Len(w.files) : IF i <= w.rxpage
          THEN Len(w.files[i]) = 1 /\ w.files[i][1].quality # "cut" ELSE w.files[i] = <<>>
    BY <2>2, <2>3
  <2> QED BY <2>2, <2>3, <2>4 DEF FilesShape
<1> QED BY <1>1, <1>8, <1>10, <1>16, <1>17, <1>18

(* Nothing has been sent by an idle end, nor to it. *)
LEMMA IdlePair ==
  ASSUME NEW s, NEW u, NEW x, NEW y, Idle(s), Idle(u), Spoken(s, x), x = <<>> \/ y = <<>>,
         s.pc \in {"T", "waitR"}, u.pc \in {"T", "waitR"},
         FilesShape(s), y # <<Frame("CFR")>>
  PROVE  Half(s, u, x, y) /\ Confirmed(s)
<1>1. Own(s)
  BY DEF Own, Idle, Sending
<1>2. Paging(s, u, x, y) /\ Training(s, u, y) /\ OneStart(s, u)
      /\ Known(s, u)
  BY DEF Paging, Training, OneStart, Known, Sending, Idle
<1>3. Len(s.sent) = 0 /\ DOMAIN s.sent = {}
  BY DEF Idle
<1>4. SentKept(s, u)
  BY <1>3 DEF SentKept
<1>5. NotSkipped(s)
  BY DEF NotSkipped, Idle
<1>6. Filed(s, u)
  BY DEF Filed, Idle
<1>7. Confirmed(s)
  BY <1>3 DEF Confirmed, SentPages
<1> QED BY <1>1, <1>2, <1>4, <1>5, <1>6, <1>7 DEF Half, Idle

\* The invariant holds as the session begins.
LEMMA InitGood ==
  Init => IInv
<1>1. SUFFICES ASSUME Init PROVE IInv
  OBVIOUS
<1>2. PICK doc \in CallerPages, kept \in AnswererPages, a \in Rates, b \in Rates,
          fa \in Finest, fb \in Finest :
        /\ st = [e \in Ends |-> IF e = "caller" THEN Fresh("T", doc, a, fa)
                                ELSE R(Fresh("R", kept, b, fb))[1]]
        /\ air = [e \in Ends |-> IF e = "caller" THEN <<>> ELSE R(Fresh("R", kept, b, fb))[2]]
  BY <1>1 DEF Init
<1>3. channel \in Channels /\ faults = 0 /\ 0 \in 0..MaxFaults
  BY <1>1, SessionAssumption DEF Init, SessionAssumption
<1>4. PICK c : c = Fresh("T", doc, a, fa)
  OBVIOUS
<1>16. PICK w : w = R(Fresh("R", kept, b, fb))[1]
  OBVIOUS
<1>5. doc \in Docs /\ kept \in Docs /\ "T" \in Listening
  BY DEF Docs, Listening
<1>6. Idle(c) /\ c.pc = "T" /\ c.files = <<>>
  BY <1>4, <1>5, FreshIs
<1>7. /\ R(Fresh("R", kept, b, fb))[2] = <<DIS(w)>> /\ Idle(w) /\ w.pc = "waitR"
      /\ w.doc = kept
      /\ FilesShape(w)
  <2>1. R(Fresh("R", kept, b, fb))[2] = <<DIS(w)>>
    BY <1>16, <1>5, InvitesFirst
  <2>2. Idle(w) /\ w.pc = "waitR" /\ w.doc = kept
    BY <1>16, <1>5, InvitesFirst
  <2>3. FilesShape(w)
    BY <1>16, <1>5, InvitesFirst
  <2> QED BY <2>1, <2>2, <2>3
<1>8. FilesShape(c)
  BY <1>6 DEF FilesShape, Receiving, Idle
<1>10. /\ Spoken(c, <<>>) /\ Spoken(w, <<DIS(w)>>) /\ <<DIS(w)>> # <<Frame("CFR")>>
       /\ <<>> # <<Frame("CFR")>>
  BY <1>7 DEF Spoken, DIS, Frame
<1>11. PICK y : y = <<DIS(w)>>
  OBVIOUS
<1>12. Half(c, w, <<>>, y) /\ Confirmed(c)
  BY <1>6, <1>7, <1>8, <1>10, <1>11, IdlePair
<1>13. Half(w, c, y, <<>>) /\ Confirmed(w)
  BY <1>6, <1>7, <1>10, <1>11, IdlePair
<1>14. /\ st["caller"] = c /\ st["answerer"] = w /\ air["caller"] = <<>>
       /\ air["answerer"] = y
  BY <1>2, <1>4, <1>16, <1>7, <1>11 DEF Ends
<1>15. Joined
  BY <1>2, <1>3 DEF Joined
<1> QED BY <1>12, <1>13, <1>14, <1>15 DEF IInv, Ends, Other

\* The invariant is inductive: whatever an end does, on whatever line.
LEMMA NextGood ==
  ASSUME Sound, IInv, [Next]_vars
  PROVE  IInv'
<1>1. CASE \E e \in Ends : \/ Progress(e) \/ PeerAnswersOtherwise(e)
                           \/ DiskFails(e) \/ TimesOutEarly(e)
  BY <1>1, EndSteps
<1>2. CASE \E e \in Ends : Lose(e) \/ Damage(e)
  BY <1>2, LineSteps
<1>3. CASE UNCHANGED vars
  <2>1. st' = st /\ air' = air /\ channel' = channel /\ faults' = faults
    BY <1>3 DEF vars
  <2> QED BY <2>1 DEF IInv, Joined
<1> QED BY <1>1, <1>2, <1>3 DEF Next, Finished

\* The invariant holds in all of a session, whatever happens on the line.
THEOREM SessionInvariant == (Sound /\ Spec) => []IInv
<1>1. SUFFICES ASSUME Sound PROVE Spec => []IInv
  OBVIOUS
<1>2. (IInv /\ [Next]_vars) => IInv'
  BY <1>1, NextGood
<1> QED BY <1>2, InitGood, PTL DEF Spec

----------------------------------------------------------------------------
(* What follows from it *)

LEMMA FilesHold ==
  ASSUME NEW u, Own(u)
  PROVE  /\ DOMAIN u.files = 1..Len(u.files) /\ u.rxpage \in Nat /\ Len(u.files) \in Nat
         /\ \A i \in 1..u.rxpage : /\ i \in DOMAIN u.files /\ DOMAIN u.files[i] = {1}
                                   /\ Len(u.files[i]) = 1 /\ u.files[i] # <<>>
                                   /\ u.files[i][1].quality # "cut"
         /\ \A i \in DOMAIN u.files : i \notin 1..u.rxpage => u.files[i] = <<>>
<1>1. FilesShape(u) /\ u.rxpage \in Nat /\ u.files \in Seq(Seq(Line))
  BY OwnIs
<1>2. DOMAIN u.files = 1..Len(u.files) /\ Len(u.files) \in Nat
  BY <1>1
<1>3. \A i \in 1..u.rxpage : i \in DOMAIN u.files
  BY <1>1, <1>2 DEF FilesShape
<1>4. ASSUME NEW i \in 1..u.rxpage
      PROVE  /\ DOMAIN u.files[i] = {1} /\ Len(u.files[i]) = 1 /\ u.files[i] # <<>>
             /\ u.files[i][1].quality # "cut"
  <2>1. u.files[i] \in Seq(Line) /\ Len(u.files[i]) = 1 /\ u.files[i][1].quality # "cut"
    BY <1>1, <1>2, <1>3 DEF FilesShape
  <2> QED BY <2>1
<1>5. ASSUME NEW i \in DOMAIN u.files, i \notin 1..u.rxpage PROVE u.files[i] = <<>>
  BY <1>1, <1>2, <1>5 DEF FilesShape
<1> QED BY <1>1, <1>2, <1>3, <1>4, <1>5

\* PagesAccounted is a part of the invariant.
LEMMA Accounted ==
  ASSUME IInv PROVE TypeOK /\ SentIsKept /\ OneFormatNotSkipped /\ (NoPIP => ConfirmedIsSuccess)
<1>1. \A e \in Ends : Other(e) \in Ends
  BY TheOther
<1>2. \A e \in Ends : Half(st[e], st[Other(e)], air[e], air[Other(e)]) /\ Confirmed(st[e])
  BY DEF IInv
<1>3. \A e \in Ends : Own(st[e]) /\ Typed(st[e])
  BY <1>2 DEF Half, Own
<1>4. TypeOK
  <2>1. \A e \in Ends : st[e] \in States
    BY <1>3, TypedIs
  <2> QED BY <2>1 DEF TypeOK, IInv, Joined
<1>5. SentIsKept
  <2>1. SUFFICES ASSUME NEW e \in Ends, NEW i \in DOMAIN st[e].sent
                 PROVE  Keeps(Other(e), st[e].sent[i])
    BY DEF SentIsKept
  <2>2. PICK s, u : s = st[e] /\ u = st[Other(e)]
    OBVIOUS
  <2>3. Typed(s) /\ SentKept(s, u) /\ Own(u)
    BY <1>1, <1>2, <1>3, <2>2 DEF Half
  <2>4. i \in 1..Len(s.sent)
    BY <2>2, <2>3 DEF Typed
  <2>5. PICK k \in 1..u.rxpage : u.files[k][1].page = s.sent[i]
    BY <2>3, <2>4 DEF SentKept, Has
  <2>6. k \in DOMAIN u.files /\ 1 \in DOMAIN u.files[k] /\ u.files[k][1].quality # "cut"
    BY <2>3, FilesHold
  <2> QED BY <2>2, <2>5, <2>6 DEF Keeps
<1>6. OneFormatNotSkipped
  <2>1. \A e \in Ends : NotSkipped(st[e])
    BY <1>2 DEF Half
  <2> QED BY <2>1 DEF OneFormatNotSkipped, NotSkipped
<1>7. NoPIP => ConfirmedIsSuccess
  <2>1. SUFFICES ASSUME NoPIP, NEW e \in Ends, st[e].pc = "off", st[e].doc # <<>>,
                        SentPages(st[e]) = DOMAIN st[e].doc
                 PROVE  st[e].err = 0 \/ st[e].remtx
    BY DEF ConfirmedIsSuccess
  <2>2. st[e].doc \in Seq(Resolutions)
    BY <1>3 DEF Typed
  <2>3. Len(st[e].doc) \in DOMAIN st[e].doc
    BY <2>1, <2>2
  <2> QED BY <1>2, <2>1, <2>3 DEF Confirmed
<1> QED BY <1>4, <1>5, <1>6, <1>7

\* PagesMatch is a part of the invariant.
LEMMA Matched ==
  ASSUME IInv PROVE PagesMatch
<1>1. \A e \in Ends : Other(e) \in Ends /\ Other(Other(e)) = e
  BY TheOther
<1>2. ASSUME NEW e \in Ends
      PROVE  /\ Own(st[e]) /\ Filed(st[Other(e)], st[e])
             /\ Spoken(st[e], air[e]) /\ Paging(st[e], st[Other(e)], air[e], air[Other(e)])
  BY <1>1 DEF IInv, Half
<1>3. FilesInOrder
  <2>1. SUFFICES ASSUME NEW e \in Ends, NEW i \in DOMAIN st[e].files
                 PROVE  LET fs == st[e].files IN
                        Len(fs[i]) <= 1 /\ (fs[i] # <<>> =>
                          IF i = 1 THEN fs[i][1].page = 1
                          ELSE /\ fs[i - 1] # <<>> /\ fs[i][1].page >= fs[i - 1][1].page
                               /\ OneFormat(st[Other(e)].doc) =>
                                    fs[i][1].page <= fs[i - 1][1].page + 1)
    BY DEF FilesInOrder
  <2>2. PICK u, s : u = st[e] /\ s = st[Other(e)]
    OBVIOUS
  <2>3. Own(u) /\ Filed(s, u)
    BY <1>2, <2>2
  <2>4. i \in Nat /\ i >= 1 /\ u.rxpage \in Nat
    BY <2>2, <2>3, FilesHold
  <2>5. CASE i \notin 1..u.rxpage
    <3>1. u.files[i] = <<>>
      BY <2>2, <2>3, <2>5, FilesHold
    <3>2. Len(<<>>) <= 1
      OBVIOUS
    <3> QED BY <2>2, <3>1, <3>2
  <2>6. CASE i \in 1..u.rxpage
    <3>1. Len(u.files[i]) <= 1 /\ u.files[i] # <<>>
      <4>1. Len(u.files[i]) = 1 /\ u.files[i] # <<>>
        BY <2>3, <2>6, FilesHold
      <4> QED BY <4>1
    <3>2. i = 1 => u.files[i][1].page = 1
      BY <2>3, <2>4, <2>6 DEF Filed
    <3>3. ASSUME i # 1
          PROVE  /\ u.files[i - 1] # <<>> /\ u.files[i][1].page >= u.files[i - 1][1].page
                 /\ OneFormat(s.doc) => u.files[i][1].page <= u.files[i - 1][1].page + 1
      <4>1. i - 1 \in 1..u.rxpage /\ i \in 2..u.rxpage /\ i - 1 <= i
        BY <2>4, <2>6, <3>3
      <4>2. u.files[i - 1] # <<>>
        BY <2>3, <4>1, FilesHold
      <4>3. u.files[i - 1][1].page <= u.files[i][1].page
        BY <2>3, <2>6, <4>1 DEF Filed
      <4>4. OneFormat(s.doc) => u.files[i][1].page <= u.files[i - 1][1].page + 1
        BY <2>3, <4>1 DEF Filed
      <4>5. u.files[i - 1][1].page \in Nat /\ u.files[i][1].page \in Nat
        <5>1. u.files \in Seq(Seq(Line))
          BY <2>3, OwnIs
        <5>2. \A k \in 1..u.rxpage : u.files[k] \in Seq(Line) /\ 1 \in DOMAIN u.files[k]
          BY <2>3, <5>1, FilesHold
        <5>3. \A k \in 1..u.rxpage : u.files[k][1] \in Line
          BY <5>2
        <5> QED BY <2>6, <4>1, <5>3 DEF Line
      <4> QED BY <4>2, <4>3, <4>4, <4>5
    <3> QED BY <2>2, <3>1, <3>2, <3>3
  <2> QED BY <2>5, <2>6
<1>4. FormatsMatch
  <2>1. SUFFICES ASSUME NEW e \in Ends, NEW i \in DOMAIN st[e].files,
                        NEW j \in DOMAIN st[e].files[i]
                 PROVE  LET line == st[e].files[i][j]
                        IN /\ line.yres = line.lines
                           /\ line.lines = Lesser(st[Other(e)].doc[line.page], line.asked)
    BY DEF FormatsMatch
  <2>2. PICK u, s : u = st[e] /\ s = st[Other(e)]
    OBVIOUS
  <2>3. Own(u) /\ Filed(s, u)
    BY <1>2, <2>2
  <2>4. i \in 1..u.rxpage
    <3>1. SUFFICES ASSUME i \notin 1..u.rxpage PROVE FALSE
      OBVIOUS
    <3>2. u.files[i] = <<>>
      BY <2>2, <2>3, <3>1, FilesHold
    <3>3. DOMAIN <<>> = {}
      OBVIOUS
    <3> QED BY <2>1, <2>2, <3>2, <3>3
  <2>5. j = 1
    BY <2>2, <2>3, <2>4, FilesHold
  <2> QED BY <2>2, <2>3, <2>4, <2>5 DEF Filed
<1>5. RatesAgree
  <2>1. SUFFICES ASSUME NEW e \in Ends, air[e] # <<>>, Head(air[e]).kind = "DATA",
                        st[Other(e)].pc = "data"
                 PROVE  Head(air[e]).br = st[Other(e)].br
    BY DEF RatesAgree
  <2>2. PICK s, u, x : s = st[e] /\ u = st[Other(e)] /\ x = air[e]
    OBVIOUS
  <2>3. Own(s) /\ Spoken(s, x) /\ Paging(s, u, x, air[Other(e)])
    BY <1>2, <2>2
  <2>4. Heard(s, x)
    BY <2>1, <2>2, <2>3, HeardIs
  <2>5. s.pc = "waitPPR" /\ x \in {Page(s, "good"), Page(s, "bad")}
    BY <2>1, <2>2, <2>4 DEF Heard
  <2>6. Head(x).br = s.br
    BY <2>5, PageIs
  <2> QED BY <2>2, <2>3, <2>5, <2>6 DEF Paging
<1> QED BY <1>3, <1>4, <1>5 DEF PagesMatch

(* What an end counts as sent is in a file of the other end, and no page of *)
(* a document of one format is passed over, whatever a peer answers (the    *)
(* switch after sendppm, dp and F: of c1sndrcv()).                          *)
THEOREM PagesAreKept == (Sound /\ Spec) => [](SentIsKept /\ OneFormatNotSkipped)
<1>1. IInv => SentIsKept /\ OneFormatNotSkipped
  BY Accounted
<1> QED BY <1>1, SessionInvariant, PTL

(* With this, an end whose pages have all been confirmed does not report a  *)
(* failure, if none was by PIP.                                            *)
THEOREM PagesAreAccounted == (Sound /\ NoPIP /\ Spec) => []PagesAccounted
<1>1. SUFFICES ASSUME NoPIP PROVE (Sound /\ Spec) => []PagesAccounted
  OBVIOUS
<1>2. IInv => PagesAccounted
  BY <1>1, Accounted DEF PagesAccounted
<1> QED BY <1>2, SessionInvariant, PTL

(* What is written is what was sent: a file holds one page, the files are   *)
(* in the order of the pages, each says the resolution its lines were sent  *)
(* at, which is its page's unless the receiver asked for less, and a page   *)
(* comes at the rate its receiver was trained at (writepending, ppm and the *)
(* training of c1sndrcv(); mincap() and the decimation of send_data()).     *)
THEOREM PagesDoMatch == (Sound /\ Spec) => []PagesMatch
<1>1. IInv => PagesMatch
  BY Matched
<1> QED BY <1>1, SessionInvariant, PTL

=============================================================================
