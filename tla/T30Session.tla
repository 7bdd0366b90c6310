------------------------------ MODULE T30Session ------------------------------
(***************************************************************************)
(* A Class 1 fax session: c1sndrcv() of efax/efax.c at both ends of a      *)
(* telephone line.  The caller sends the pages it has, or polls when it    *)
(* has none; the answering end receives, or sends what it has when polled. *)
(*                                                                         *)
(* The gotos of c1sndrcv() are operators that bear the names of its        *)
(* labels; each takes the state s of an end and gives <<new state, signals *)
(* it puts on the line>>.  An action is what happens between two points at *)
(* which an end listens.  The line is half duplex: an end that transmits   *)
(* hears nothing, so whatever was on its way to it is lost.                *)
(*                                                                         *)
(* Names that end in _Bug are seeded faults.                               *)
(***************************************************************************)
EXTENDS Integers, Sequences, FiniteSets

CONSTANTS
  CallerPages,    \* what the caller may have to send: sequences of resolutions
  AnswererPages,  \* what the answering end may have, to be polled
  Finest,         \* finest resolution an end may be set to receive (option -c)
  Rates,          \* bit rates the modem of an end may have, as codes 0..7
  Channels,       \* how fast the line may be: ranks of rates, -1 if no rate works
  PeerAnswers,    \* answers to a page that only machines other than efax give
  NoRetry,        \* option -o n
  Cuts,           \* a page may break off or not be heard at all
  MaxFaults       \* bound: signals lost, damaged or late, disk errors

Resolutions == {0, 1}
Codes == 0..7
PostPageAnswers == {"MCF", "RTN", "RTP", "PIN", "PIP"}

ASSUME SessionAssumption ==
  /\ CallerPages \subseteq Seq(Resolutions) /\ AnswererPages \subseteq Seq(Resolutions)
  /\ Finest \subseteq Resolutions
  /\ Rates \subseteq 0..5 /\ Channels \subseteq -1..7
  /\ PeerAnswers \subseteq PostPageAnswers
  /\ NoRetry \in BOOLEAN /\ Cuts \in BOOLEAN /\ MaxFaults \in Nat

VARIABLES
  st,       \* each end: the variables of c1sndrcv(), the files written, pages sent
  air,      \* the signals an end has put on the line and the other has not heard
  channel,  \* how fast the line is
  faults    \* faults so far

vars == <<st, air, channel, faults>>

Ends == {"caller", "answerer"}
Other(e) == IF e = "caller" THEN "answerer" ELSE "caller"

MAXTRY   == 3
NTXRETRY == 3
MaxDIS   == 5      \* transmissions of DIS in T1, one every T2 + 1 s

----------------------------------------------------------------------------
(* Rates.  Codes 6 and 7 are V.17 at 7200 and 9600 bps.                     *)

\* The next rate after one that failed.
fallback == [c \in Codes |-> <<-1, 0, 1, 2, 7, 4, 3, 6>>[c + 1]]

brindex == [c \in Codes |-> <<0, 1, 2, 3, 4, 7, 5, 6>>[c + 1]]

\* How fast a rate is: its place in the order in which fallback goes down.
Rank == [c \in Codes |-> <<0, 1, 2, 3, 6, 7, 4, 5>>[c + 1]]

\* t30tab: what the peer understands of a rate announced in a DIS or a DCS.
DISRate == [c \in Codes |-> <<0, 1, 3, 3, 5, 5, 0, 0>>[c + 1]]
DCSRate == [c \in Codes |-> <<0, 1, 2, 3, 4, 5, 0, 0>>[c + 1]]

Lesser(a, b) == IF b < a THEN b ELSE a

\* mincap(): the resolution and the rate of the session.
mincap(s) ==
  [s EXCEPT !.vr = Lesser(s.localVR, s.remoteVR),
            !.br = IF brindex[s.remoteBR] < brindex[s.localBR] THEN s.remoteBR ELSE s.localBR]

----------------------------------------------------------------------------
(* Signals and the state of an end *)

Frame(k)     == [kind |-> k]
DIS(s)       == [kind |-> "DIS", br |-> DISRate[s.localBR], vr |-> s.localVR,
                 tx |-> s.doc # <<>>]
DCS(s)       == [kind |-> "DCS", br |-> DCSRate[s.br], vr |-> s.vr]
TCF(s)       == [kind |-> "TCF", br |-> s.br]

\* The lines of a page; when the page is finer than the session two become one.
Data(s)      == [kind |-> "DATA", br |-> s.br, vr |-> Lesser(s.localVR, s.vr),
                 page |-> s.cur, quality |-> "good"]
Carriers     == {"TCF", "DATA"}

Listening == {"T", "waitDCS", "waitPPR", "waitR", "F", "train", "data"}

Fresh(pc, doc, rate, finest) ==
  [pc |-> pc, err |-> 0, localBR |-> rate, remoteBR |-> 3, br |-> 3,
   localVR |-> finest, remoteVR |-> 1, vr |-> 1,
   doc |-> doc, cur |-> 1, dp |-> 0, ppm |-> "EOP", try |-> 0, pagetry |-> 0,
   remtx |-> FALSE, sent |-> <<>>,
   t |-> 0, frame |-> "none", good |-> FALSE, rxpage |-> 0,
   writepending |-> FALSE, files |-> <<>>]

\* nextopage(): the file of page n is opened, truncated if it was there.
OpenFile(s, n) == [s EXCEPT !.files = Append(SubSeq(@, 1, n), <<>>)]

\* B: hang up; the last file, opened for a page that did not come, is removed.
\* The code removes it when a page was received, and not otherwise.
B(s, e) ==
  <<[s EXCEPT !.pc = "off", !.err = e,
              !.files = IF s.rxpage > 0 THEN SubSeq(@, 1, Len(@) - 1) ELSE @],
    <<>>>>

C(s, e) == <<B(s, e)[1], <<Frame("DCN")>>>>

C_timeout(s) == C(s, 3)

----------------------------------------------------------------------------
(* The sender *)

lastpage(s) == s.cur >= Len(s.doc)

\* rdpage(): go to the next page, or to the same again, and find what to say
\* when it has been sent.  The local capability becomes the page's resolution,
\* and stays that when the end goes on to receive.
rdpage_Bug(s) ==
  LET c == s.cur + s.dp
  IN [s EXCEPT !.cur = c, !.localVR = s.doc[c],
               !.ppm = IF c = Len(s.doc) THEN "EOP" ELSE "MPS"]

rdpage(s) ==
  LET c == s.cur + s.dp
  IN [s EXCEPT !.cur = c, !.localVR = s.doc[c],
               !.ppm = IF c = Len(s.doc) THEN "EOP"
                       ELSE IF s.doc[c + 1] # s.doc[c] THEN "EOM" ELSE "MPS"]

NoPage(s) == s.cur + s.dp > Len(s.doc)

D_2(s) ==
  LET m == mincap(s)
  IN <<[m EXCEPT !.pc = "waitDCS", !.try = @ + 1], <<DCS(m), TCF(m)>>>>

D(s) == IF NoPage(s) THEN B([s EXCEPT !.cur = @ + s.dp], 2) ELSE D_2(rdpage(s))

\* I_2: the page, then the post-page message.
I_2(s) ==
  LET ppm == IF lastpage(s) THEN "EOP" ELSE s.ppm
  IN <<[s EXCEPT !.pc = "waitPPR", !.pagetry = @ + 1, !.try = 1, !.ppm = ppm],
       <<Data(s), Frame(ppm)>>>>

I(s) == IF NoPage(s) THEN B([s EXCEPT !.cur = @ + s.dp], 2) ELSE I_2(rdpage(s))

sendppm(s) == <<[s EXCEPT !.try = @ + 1], <<Frame(s.ppm)>>>>

T(s) == <<[s EXCEPT !.pc = "T", !.pagetry = 0], <<>>>>

----------------------------------------------------------------------------
(* The receiver *)

SendDISForever_Bug(s) == <<[s EXCEPT !.pc = "waitR"], <<DIS(s)>>>>

SendDIS(s) ==
  IF s.t >= MaxDIS THEN C_timeout(s)
  ELSE <<[s EXCEPT !.pc = "waitR", !.t = @ + 1], <<DIS(s)>>>>

R(s) == SendDIS([OpenFile(s, s.rxpage) EXCEPT !.t = 0])

\* A: send if there is something to send, else receive.
A(s, f) ==
  LET known == IF f.kind = "DIS"
               THEN [s EXCEPT !.remoteBR = f.br, !.remoteVR = f.vr, !.remtx = f.tx] ELSE s
  IN IF s.doc # <<>> THEN D(known) ELSE R(known)

\* The postponed close and open, when the next frame has come or has not.
Flush_Bug(s) == [s EXCEPT !.writepending = FALSE]

Flush(s) ==
  IF s.writepending THEN [OpenFile(s, s.rxpage) EXCEPT !.writepending = FALSE] ELSE s

F(s) == <<[s EXCEPT !.pc = "F"], <<>>>>

Answered(s, ppm, a) ==
  <<[s EXCEPT !.pc = IF a = "MCF" /\ ppm = "MPS" THEN "data" ELSE "F", !.frame = ppm],
    <<Frame(a)>>>>

PostPage == {"MPS", "EOM", "EOP"}

\* F_2: a command.
Commanded(s, f) ==
  CASE f.kind = "DIS" -> A([s EXCEPT !.try = 0, !.frame = "DIS"], f)
    [] f.kind = "DCS" ->
         <<[s EXCEPT !.pc = "train", !.br = f.br, !.vr = f.vr, !.frame = "DCS"], <<>>>>
    [] f.kind \in PostPage -> Answered(s, f.kind, IF s.good THEN "MCF" ELSE "RTN")
    [] f.kind = "DCN" -> B(s, s.err)
    [] OTHER -> B(s, 3)

\* CFR or FTT after the training check.
Trained(s, ok) ==
  <<[s EXCEPT !.good = ok, !.pc = IF ok THEN "data" ELSE "F"],
    <<Frame(IF ok THEN "CFR" ELSE "FTT")>>>>

\* receive_data(): the errors of a page are not counted, so that every page
\* with its end-of-page codes is good; without them the file stays open.  The
\* file says the lines are of the session's resolution, yres; what resolution
\* they are of, lines, and what this end had announced, asked, is to compare.
Received(s, f) ==
  LET line == [page |-> f.page, yres |-> s.vr, lines |-> f.vr, asked |-> s.localVR,
               quality |-> f.quality]
      files == [s.files EXCEPT ![Len(s.files)] = Append(@, line)]
      kept == [s EXCEPT !.files = files]
  IN IF f.quality = "cut" THEN <<kept, <<>>>>
     ELSE <<[kept EXCEPT !.pc = "F", !.good = TRUE, !.writepending = TRUE,
                         !.rxpage = @ + 1], <<>>>>

----------------------------------------------------------------------------
(* The answers a sender hears *)

\* The frame after DCS and training check.
AnsweredDCS(s, f) ==
  CASE f.kind = "DIS" -> IF s.try >= MAXTRY THEN C_timeout(s) ELSE A(s, f)
    [] f.kind = "FTT" -> IF fallback[s.br] >= 0
                         THEN D_2([s EXCEPT !.remoteBR = fallback[s.br]])
                         ELSE C([s EXCEPT !.remoteBR = -1], 2)
    [] f.kind = "CFR" -> I_2(s)
    [] OTHER          -> C(s, 3)

\* The common retry logic: is the page counted as sent?
Counts(f) == NoRetry \/ f.kind \in {"MCF", "RTP", "PIP"}

Counted(s, f) ==
  IF Counts(f) THEN [s EXCEPT !.pagetry = 0, !.dp = 1, !.sent = Append(@, s.cur)]
  ELSE [s EXCEPT !.dp = 0]

\* No attempt is made to send the page again: nor is it an error.
GivesUp(s) == C(s, s.err)

\* The frame after a post-page message.  With NoRetry any frame counts as MCF.
AnsweredPage(s, f) ==
  LET c == Counted(s, f)
  IN IF ~Counts(f) /\ f.kind \notin {"PIN", "RTN"} THEN C(s, 3)
     ELSE IF f.kind \notin {"MCF", "RTP", "RTN"} THEN A([c EXCEPT !.try = 0], f)
     ELSE IF c.ppm = "MPS" THEN (IF f.kind = "MCF" THEN I(c) ELSE D(c))
     ELSE IF c.ppm = "EOM" THEN T(c)
     ELSE IF f.kind # "RTN" THEN
       LET done == [c EXCEPT !.cur = @ + 1]
       IN IF c.remtx THEN R(done) ELSE C(done, s.err)
     ELSE IF ~NoRetry /\ s.pagetry < NTXRETRY THEN D(c)
     ELSE GivesUp(c)

----------------------------------------------------------------------------
(* Actions *)

Init ==
  /\ \E doc \in CallerPages, kept \in AnswererPages, a, b \in Rates, fa, fb \in Finest :
       LET answers == R(Fresh("R", kept, b, fb))
       IN /\ doc # <<>> \/ kept # <<>>
          /\ st = [e \in Ends |-> IF e = "caller" THEN Fresh("T", doc, a, fa) ELSE answers[1]]
          /\ air = [e \in Ends |-> IF e = "caller" THEN <<>> ELSE answers[2]]
  /\ channel \in Channels
  /\ faults = 0

\* An end goes on; when it transmits, what was on its way to it is not heard.
Goes(e, r, left) ==
  /\ st' = [st EXCEPT ![e] = r[1]]
  /\ air' = [air EXCEPT ![e] = IF r[2] = <<>> THEN @ ELSE r[2],
                        ![Other(e)] = IF r[2] = <<>> /\ r[1].pc # "off" THEN left ELSE <<>>]
  /\ UNCHANGED channel

Signal(e) == Head(air[Other(e)])
Rest(e)   == Tail(air[Other(e)])
Hears(e, states) == st[e].pc \in states /\ air[Other(e)] # <<>>
HearsFrame(e, states) == Hears(e, states) /\ Signal(e).kind \notin Carriers
HearsCarrier(e, states) == Hears(e, states) /\ Signal(e).kind \in Carriers

\* What an end does when its timer runs out.
Expired(s) ==
  CASE s.pc = "T"       -> B(s, 3)
    [] s.pc = "waitDCS" -> IF s.try >= MAXTRY THEN C_timeout(s) ELSE D_2(s)
    [] s.pc = "waitPPR" -> IF s.try >= MAXTRY THEN C_timeout(s) ELSE sendppm(s)
    [] s.pc = "waitR"   -> SendDIS(s)
    [] s.pc = "F"       -> IF s.frame = "EOM" THEN R(Flush(s)) ELSE B(Flush(s), 3)
    [] s.pc = "train"   -> Trained(s, FALSE)
    [] s.pc = "data"    -> F(s)

\* T: wait for DIS.  Any other frame ends the session, without an error.
HearsInvitation(e) ==
  /\ HearsFrame(e, {"T"})
  /\ Goes(e, IF Signal(e).kind = "DIS" THEN A([st[e] EXCEPT !.try = 0], Signal(e))
             ELSE C(st[e], st[e].err), Rest(e))
  /\ UNCHANGED faults

HearsDCSAnswer(e) ==
  /\ HearsFrame(e, {"waitDCS"})
  /\ Goes(e, AnsweredDCS(st[e], Signal(e)), Rest(e))
  /\ UNCHANGED faults

HearsPageAnswer(e) ==
  /\ HearsFrame(e, {"waitPPR"})
  /\ Goes(e, AnsweredPage(st[e], Signal(e)), Rest(e))
  /\ UNCHANGED faults

HearsCommand(e) ==
  /\ HearsFrame(e, {"waitR", "F"})
  /\ Goes(e, Commanded(Flush(st[e]), Signal(e)), Rest(e))
  /\ UNCHANGED faults

\* A machine other than efax gives an answer of its own; it accepts a page only
\* if it has received one.
PeerAnswersOtherwise(e) ==
  /\ faults < MaxFaults
  /\ HearsFrame(e, {"F"}) /\ Signal(e).kind \in PostPage
  /\ \E a \in PeerAnswers :
       /\ a \in {"MCF", "RTP", "PIP"} => st[e].good
       /\ Goes(e, Answered(Flush(st[e]), Signal(e).kind, a), Rest(e))
  /\ faults' = faults + 1

\* getfr() meets a data carrier where a frame was expected: a receiver that has
\* had its first frame takes it for the data, the others count it as no frame.
HearsWrongCarrier(e) ==
  /\ HearsCarrier(e, {"T", "waitDCS", "waitPPR", "waitR", "F"})
  /\ IF st[e].pc = "F"
     THEN Goes(e, <<[Flush(st[e]) EXCEPT !.pc = "data", !.frame = "carrier"], <<>>>>,
               air[Other(e)])
     ELSE Goes(e, Expired(st[e]), Rest(e))
  /\ UNCHANGED faults

\* gettrain(): passed if sent at the rate the DCS named and the line carries it.
HearsTraining(e) ==
  /\ Hears(e, {"train"})
  /\ Goes(e, Trained(st[e], /\ Signal(e).kind = "TCF" /\ Signal(e).br = st[e].br
                            /\ Rank[Signal(e).br] <= channel), Rest(e))
  /\ UNCHANGED faults

HearsPage(e) ==
  /\ HearsCarrier(e, {"data"}) /\ Signal(e).kind = "DATA" /\ Signal(e).br = st[e].br
  /\ Goes(e, Received(st[e], Signal(e)), Rest(e))
  /\ UNCHANGED faults

\* The modem reports a wrong carrier (+FCERROR): training data leaves nothing
\* in the file; a frame is then read as one.
HearsNoPage(e) ==
  /\ Hears(e, {"data"})
  /\ IF Signal(e).kind \in Carriers
     THEN /\ Signal(e).kind = "DATA" => Signal(e).br # st[e].br
          /\ Goes(e, <<st[e], <<>>>>, Rest(e))
     ELSE Goes(e, F(st[e]), air[Other(e)])
  /\ UNCHANGED faults

\* The page cannot be written: reception is cancelled and the page refused.
DiskFails(e) ==
  /\ faults < MaxFaults
  /\ HearsCarrier(e, {"data"}) /\ Signal(e).kind = "DATA" /\ Signal(e).br = st[e].br
  /\ Goes(e, F([st[e] EXCEPT !.good = FALSE]), Rest(e))
  /\ faults' = faults + 1

\* Silence: nothing is on its way to this end, nor will the other answer.
Silent(e) == air[Other(e)] = <<>> /\ (air[e] = <<>> \/ st[Other(e)].pc = "off")

TimesOut(e) ==
  /\ st[e].pc \in Listening /\ Silent(e)
  /\ Goes(e, Expired(st[e]), <<>>)
  /\ UNCHANGED faults

\* The answer comes too late: this end has given up waiting for it.
TimesOutEarly(e) ==
  /\ faults < MaxFaults
  /\ st[e].pc \in {"waitDCS", "waitPPR", "waitR"} /\ ~Silent(e)
  /\ \A i \in DOMAIN air[e] : air[e][i].kind \notin Carriers
  /\ Goes(e, Expired(st[e]), <<>>)
  /\ faults' = faults + 1

Lose(e) ==
  /\ faults < MaxFaults /\ air[e] # <<>> /\ (Head(air[e]).kind = "DATA" => Cuts)
  /\ air' = [air EXCEPT ![e] = Tail(@)]
  /\ faults' = faults + 1
  /\ UNCHANGED <<st, channel>>

Damage(e) ==
  /\ faults < MaxFaults /\ air[e] # <<>> /\ Head(air[e]).kind = "DATA"
  /\ Head(air[e]).quality = "good"
  /\ \E q \in {"bad"} \cup (IF Cuts THEN {"cut"} ELSE {}) :
       air' = [air EXCEPT ![e][1].quality = q]
  /\ faults' = faults + 1
  /\ UNCHANGED <<st, channel>>

Over == \A e \in Ends : st[e].pc = "off"

Finished == Over /\ UNCHANGED vars

Progress(e) ==
  \/ HearsInvitation(e) \/ HearsDCSAnswer(e) \/ HearsPageAnswer(e)
  \/ HearsCommand(e) \/ HearsWrongCarrier(e)
  \/ HearsTraining(e) \/ HearsPage(e) \/ HearsNoPage(e)
  \/ TimesOut(e)

Next ==
  \/ \E e \in Ends : Progress(e)
  \/ \E e \in Ends : PeerAnswersOtherwise(e)
  \/ \E e \in Ends : DiskFails(e) \/ TimesOutEarly(e) \/ Lose(e) \/ Damage(e)
  \/ Finished

Spec == Init /\ [][Next]_vars

\* Timers run out and signals arrive; nothing else is assumed of the line.
FairSpec == Spec /\ \A e \in Ends : WF_vars(Progress(e))

----------------------------------------------------------------------------
(* Properties *)

States ==
  [pc : Listening \cup {"off"}, err : 0..3, localBR : Codes, remoteBR : Codes \cup {-1},
   br : Codes, localVR : Resolutions, remoteVR : Resolutions, vr : Resolutions,
   doc : CallerPages \cup AnswererPages, cur : Nat \ {0}, dp : {0, 1},
   ppm : {"MPS", "EOM", "EOP"}, try : Nat, pagetry : Nat, remtx : BOOLEAN,
   sent : Seq(Nat), t : 0..MaxDIS,
   frame : {"none", "carrier", "DIS", "DCS", "MPS", "EOM", "EOP"}, good : BOOLEAN,
   rxpage : Nat, writepending : BOOLEAN,
   files : Seq(Seq([page : Nat, yres : Resolutions, lines : Resolutions,
                    asked : Resolutions, quality : {"good", "bad", "cut"}]))]

TypeOK == st \in [Ends -> States] /\ channel \in Channels /\ faults \in 0..MaxFaults

\* Page p is in a file of this end, with the codes that end a page.
Keeps(e, p) == \E i \in DOMAIN st[e].files : \E j \in DOMAIN st[e].files[i] :
                 st[e].files[i][j].page = p /\ st[e].files[i][j].quality # "cut"

\* A page that is counted as sent is in a file of the other end, and stays in
\* one when that end hangs up and removes the file it opened in vain, whatever
\* frames were lost, repeated or late (the switch after sendppm and F: of
\* c1sndrcv()).
SentIsKept == \A e \in Ends : \A i \in DOMAIN st[e].sent : Keeps(Other(e), st[e].sent[i])

SentPages(s) == {s.sent[i] : i \in DOMAIN s.sent}

OneFormat(doc) == \A p \in DOMAIN doc : doc[p] = doc[1]

\* A file holds one page; the files are in the order of the pages, a page sent
\* again in a file of its own after the first, and
\* none is missing in a document of one format (writepending of c1sndrcv()).
FilesInOrder ==
  \A e \in Ends : LET fs == st[e].files IN
    \A i \in DOMAIN fs : Len(fs[i]) <= 1 /\ (fs[i] # <<>> =>
       IF i = 1 THEN fs[i][1].page = 1
       ELSE /\ fs[i - 1] # <<>> /\ fs[i][1].page >= fs[i - 1][1].page
            /\ OneFormat(st[Other(e)].doc) => fs[i][1].page <= fs[i - 1][1].page + 1)

\* A page is written at the resolution its lines are sent at, which is its own
\* unless the receiver, in its DIS, asked for a lower one: whatever DIS or DCS was
\* lost, repeated or late, the DCS of a page of another format comes before it
\* (ppm of rdpage(), mincap() and decimate of send_data()).
FormatsMatch ==
  \A e \in Ends : \A i \in DOMAIN st[e].files : \A j \in DOMAIN st[e].files[i] :
    LET line == st[e].files[i][j]
    IN /\ line.yres = line.lines
       /\ line.lines = Lesser(st[Other(e)].doc[line.page], line.asked)

\* A page comes at the rate its receiver was trained at: an answer to a DCS is
\* never taken for the answer to a later one.
RatesAgree ==
  \A e \in Ends : air[e] # <<>> /\ Head(air[e]).kind = "DATA" /\ st[Other(e)].pc = "data"
                    => Head(air[e]).br = st[Other(e)].br

\* When all pages have been confirmed efax does not report a failure, unless it
\* went on to poll.
ConfirmedIsSuccess ==
  \A e \in Ends : st[e].pc = "off" /\ st[e].doc # <<>> /\ SentPages(st[e]) = DOMAIN st[e].doc
                    => st[e].err = 0 \/ st[e].remtx

\* In a document of one format no page is left behind unconfirmed (dp).
OneFormatNotSkipped ==
  \A e \in Ends : OneFormat(st[e].doc) =>
    1..(st[e].cur - 1) \cap DOMAIN st[e].doc \subseteq SentPages(st[e])

\* What an end counts as sent is with the other end, and nothing is passed over.
PagesAccounted == TypeOK /\ SentIsKept /\ OneFormatNotSkipped /\ ConfirmedIsSuccess

\* What is written is what was sent: in order, in its format, at its rate.
PagesMatch == FilesInOrder /\ FormatsMatch /\ RatesAgree

\* The session ends at both ends, however bad the line.
SessionEnds == <>Over

=============================================================================
