------------------------------- MODULE EfaxCall -------------------------------
(***************************************************************************)
(* One run of efax from the opened modem to its exit code: main() of       *)
(* efax/efax.c, the dialogue with the modem of efax/efaxio.c, and the fax  *)
(* session of a Class 2 or 2.0 modem, c2sndrcv(), in which the modem has   *)
(* the protocol and efax its commands.  The session of a Class 1 modem is  *)
(* T30Session.                                                             *)
(*                                                                         *)
(* Each action is a command and what efax does with the response.  The     *)
(* modem may answer anything; bad answers are counted, except those that   *)
(* are the other end's right.                                              *)
(***************************************************************************)
EXTENDS Integers, Sequences, FiniteSets

CONSTANTS
  Documents,  \* what there may be to send: sequences of resolutions
  Calls,      \* -t: efax may dial; it may answer
  Options,    \* modem classes that options may name: 1, 2, 20 for 2.0, 0 for none
  Offers,     \* sets of classes the modem may have
  SoftAA,     \* -o a: answer as data first, and with getty defined
  NoRetry,    \* -o n
  Hangups,    \* codes a modem may report with +FHNG; 0 is a normal end
  MaxPages,   \* bound: pages the other end has
  MaxBad      \* bound: commands that fail

ASSUME CallAssumption ==
  /\ Documents \subseteq Seq({0, 1}) /\ Options \subseteq {0, 1, 2, 20}
  /\ Offers \subseteq SUBSET {1, 2, 20}
  /\ Calls \subseteq BOOLEAN /\ SoftAA \in BOOLEAN /\ NoRetry \in BOOLEAN
  /\ Hangups \subseteq Nat /\ MaxPages \in Nat /\ MaxBad \in Nat

VARIABLES
  s,        \* the variables of main() and c2sndrcv(), and the files written
  told,     \* modem: the resolution it was last given with +FDIS or at the start,
            \* or Unknown: the command failed, and it has this or the one before
  heard,    \* modem: the code of +FHNG in the responses to the last command, or -1
  gone,     \* modem: the connection is over
  bad       \* commands that failed so far

callVars == <<s, told, heard, gone, bad>>

NTXRETRY == 3
DefaultVR == 1      \* DEFCAP
Unknown == -1

Start ==
  [pc |-> "sync", err |-> 0, doc |-> <<>>, calling |-> TRUE, class |-> 0, method |-> 0, second |-> FALSE,
   cur |-> 1, dp |-> 0, vr |-> DefaultVR, changed |-> FALSE, ppm |-> "EOP", pagetry |-> 0,
   good |-> FALSE, hsc |-> -1, done |-> FALSE, files |-> <<>>,
   sent |-> {}, confirmed |-> {}, onAir |-> <<>>, before |-> "none"]

InitCall ==
  /\ \E doc \in Documents, calling \in Calls, class \in Options :
       s = [Start EXCEPT !.doc = doc, !.calling = calling, !.class = class]
  /\ told = DefaultVR /\ heard = -1 /\ gone = FALSE /\ bad = 0

----------------------------------------------------------------------------
(* Commands *)

At(place) == s.pc = place

\* A command that succeeds, with no word of a hang-up.
Succeeds == ~gone /\ heard' = -1 /\ UNCHANGED <<gone, bad>>

\* A wrong response or none.
Fails ==
  /\ gone \/ bad < MaxBad
  /\ bad' = IF gone THEN bad ELSE bad + 1
  /\ heard' = -1 /\ UNCHANGED gone

\* The other end hangs up, and the modem says so with the response.
HangsUp ==
  /\ ~gone /\ gone' = TRUE
  /\ heard' \in Hangups
  /\ UNCHANGED bad

gethsc_Bug(r) == IF heard' < 0 THEN r ELSE [r EXCEPT !.hsc = heard']

\* gethsc ( &hsc, &err ), on the responses to the last command.
gethsc(r) ==
  IF heard' < 0 THEN r
  ELSE [r EXCEPT !.hsc = heard', !.err = IF heard' > 0 /\ r.err = 0 THEN 2 ELSE r.err]

\* cleanup ( err ): a modem that did not respond is not reset.
CleanUp(r) == [r EXCEPT !.pc = IF r.err = 4 THEN "ended" ELSE "resync", !.method = 0]

\* done: of c2sndrcv(); +FK if the line is not known to be down.
Over(r) == IF r.hsc < 0 THEN [r EXCEPT !.pc = "kill"] ELSE CleanUp(r)

Kills ==
  /\ At("kill") /\ (Succeeds \/ Fails \/ HangsUp)
  /\ s' = CleanUp(s) /\ UNCHANGED told

----------------------------------------------------------------------------
(* Before and after the session *)

\* modemsync(): wait, then drop DTR, then send escapes, then give up.
Syncs ==
  /\ At("sync")
  /\ \/ Succeeds /\ s' = [s EXCEPT !.pc = "setup0"]
     \/ Fails /\ s' = IF s.method < 3 THEN [s EXCEPT !.method = @ + 1]
                      ELSE CleanUp([s EXCEPT !.err = 4])
  /\ UNCHANGED told

\* setup() with the -i and the -j commands.
SetsUp ==
  /\ s.pc \in {"setup0", "setup1"}
  /\ \/ Succeeds /\ s' = [s EXCEPT !.pc =
          IF s.pc = "setup0" THEN "class" ELSE IF s.calling THEN "dial" ELSE "answer"]
     \/ Fails /\ s' = CleanUp([s EXCEPT !.err = 3])
  /\ UNCHANGED told

\* The class, if none was named; "2" is also found in 2.0.
Chosen(offers) == IF 20 \in offers THEN 20 ELSE IF 2 \in offers THEN 2 ELSE 1

\* modem_init(): the class is asked for, and set.
SetsClass ==
  /\ At("class")
  /\ \/ Succeeds /\ s' = [s EXCEPT !.pc = "caps"] /\ s.class # 0
     \/ Succeeds /\ s.class = 0
        /\ \E offers \in Offers \ {{}} :
             s' = [s EXCEPT !.pc = "caps", !.class = Chosen(offers)]
     \/ Fails /\ s' = CleanUp([s EXCEPT !.err = 3])
  /\ UNCHANGED told

\* modem_init(): Class 1, the highest rate; else +FCR=1, and the capabilities
\* either given to the modem or taken from it.  Only +FCR=1 and the question
\* for the rate must succeed; that +FDCC or +FCC failed is logged.
SetsCapabilities ==
  /\ At("caps")
  /\ \/ Succeeds /\ \E vr \in IF s.class = 1 THEN {DefaultVR} ELSE {0, 1} :
          s' = [s EXCEPT !.pc = "setup1", !.vr = vr] /\ told' = vr
     \/ Fails /\ s.class # 1 /\ \E vr \in {0, 1} :
          s' = [s EXCEPT !.pc = "setup1", !.vr = vr] /\ told' = Unknown
     \/ Fails /\ s' = CleanUp([s EXCEPT !.err = 3]) /\ UNCHANGED told

\* c1sndrcv() or c2sndrcv(): what there is to do.  The good of the latter is
\* not initialised.
Session(r) ==
  {[r EXCEPT !.pc = IF r.class = 1 THEN "class1"
                    ELSE IF r.doc # <<>> THEN "rdpage" ELSE "wrpage",
             !.good = good] : good \in IF r.class = 2 THEN BOOLEAN ELSE {FALSE}}

\* dial(): a modem of each class has its own response for a connection.
Dials ==
  /\ At("dial")
  /\ \/ Succeeds /\ s' \in Session(s)
     \/ Succeeds /\ s' = CleanUp([s EXCEPT !.err = 1])
     \/ Fails /\ s' = CleanUp([s EXCEPT !.err = 2])
     \/ HangsUp /\ LET r == gethsc([s EXCEPT !.hsc = -1])
                   IN s' \in IF r.err = 0 THEN Session([r EXCEPT !.hsc = -1]) ELSE {CleanUp(r)}
  /\ UNCHANGED told

\* answer() and ansmode(): a fax call; a data or a voice call, for which no
\* command is defined or its exec() fails; or none, and a second try as a fax.
Answers ==
  /\ At("answer")
  /\ \/ Succeeds /\ s' \in Session(s)
     \/ Succeeds /\ \E e \in {2, 3} : s' = CleanUp([s EXCEPT !.err = e])
     \/ Fails /\ s' = IF SoftAA /\ ~s.second THEN [s EXCEPT !.second = TRUE]
                      ELSE CleanUp([s EXCEPT !.err = 3])
     \/ HangsUp /\ s' = CleanUp([s EXCEPT !.err = 3])
  /\ UNCHANGED told

Class1Session ==
  /\ At("class1") /\ (Succeeds \/ Fails)
  /\ \E e \in {0, 2, 3} : s' = CleanUp([s EXCEPT !.err = e])
  /\ UNCHANGED told

\* end_session(): the modem in step again, and the -k commands.
EndsSession ==
  /\ s.pc \in {"resync", "reset"}
  /\ heard' = -1 /\ UNCHANGED <<told, gone>>
  /\ \/ UNCHANGED bad /\ s' = [s EXCEPT !.pc = IF s.pc = "resync" THEN "reset" ELSE "ended"]
     \/ /\ bad < MaxBad /\ bad' = bad + 1
        /\ s' = IF s.pc = "resync" /\ s.method < 3 THEN [s EXCEPT !.method = @ + 1]
                ELSE [s EXCEPT !.pc = "ended"]

----------------------------------------------------------------------------
(* Sending *)

lastpage(r) == r.cur >= Len(r.doc)

rdpagePPM_Bug(r) ==
  LET c == r.cur + r.dp
  IN IF c > Len(r.doc) THEN [r EXCEPT !.cur = c, !.err = 2]
     ELSE [r EXCEPT !.cur = c, !.vr = r.doc[c], !.changed = r.doc[c] # r.vr,
                    !.ppm = IF c = Len(r.doc) THEN "EOP"
                            ELSE IF r.doc[c] = r.vr THEN "MPS" ELSE "EOM"]

\* rdpage(): the page, whether its format is another than that of the one
\* before, and what to say after it.
rdpage(r) ==
  LET c == r.cur + r.dp
  IN IF c > Len(r.doc) THEN [r EXCEPT !.cur = c, !.err = 2]
     ELSE [r EXCEPT !.cur = c, !.vr = r.doc[c], !.changed = r.doc[c] # r.vr,
                    !.ppm = IF c = Len(r.doc) THEN "EOP"
                            ELSE IF r.doc[c + 1] = r.doc[c] THEN "MPS" ELSE "EOM"]

\* The top of the loop.
Again(r) == IF r.err # 0 \/ r.done THEN Over(r) ELSE [r EXCEPT !.pc = "rdpage"]

ReadsPage ==
  /\ At("rdpage")
  /\ LET r == rdpage(s)
     IN s' = IF r.err # 0 THEN Over(r)
             ELSE [r EXCEPT !.pc = IF r.changed THEN "format" ELSE "start"]
  /\ UNCHANGED <<told, heard, gone, bad>>

\* +FDIS or +FIS; a failure of the command is only logged.
TellsFormat ==
  /\ At("format")
  /\ \/ Succeeds /\ told' = s.vr /\ s' = [s EXCEPT !.pc = "start"]
     \/ Fails /\ told' = Unknown /\ s' = [s EXCEPT !.pc = "start"]
     \/ HangsUp /\ told' = Unknown /\ s' = Again(gethsc(s))

\* +FDT, send_data() and the end of the data.  On a Class 2.0 modem that is the
\* post-page message too.
StartsPage ==
  /\ At("start")
  /\ \/ Succeeds /\ s' = [s EXCEPT !.pc = "data", !.pagetry = @ + 1, !.before = s.ppm,
                                   !.onAir = [page |-> s.cur, vr |-> told]]
     \/ Fails /\ s' = Over([s EXCEPT !.err = 3])
     \/ HangsUp /\ s' = Over(gethsc(s))
  /\ UNCHANGED told

Settled(r) ==
  LET counted == [r EXCEPT !.sent = @ \cup {r.cur}, !.pagetry = 0, !.dp = 1,
                           !.cur = IF r.ppm = "EOP" THEN @ + 1 ELSE @,
                           !.done = r.ppm = "EOP"]
      again == [r EXCEPT !.dp = 0, !.err = IF r.pagetry >= NTXRETRY THEN 2 ELSE @]
  IN IF r.good \/ NoRetry THEN counted ELSE again

\* After a hang-up the loop is left; a page that counts is not left behind.
AfterPage(r) ==
  LET c == Settled(gethsc(r)) IN Again([c EXCEPT !.done = @ \/ heard' >= 0])

Confirmed(r) == [r EXCEPT !.good = TRUE, !.confirmed = @ \cup {r.cur}]

Refused_Bug(r) == [r EXCEPT !.good = TRUE]

Refused(r) == [r EXCEPT !.good = FALSE]

\* Class 2: the data end; a hang-up leaves good as it was.
DataEnds ==
  /\ At("data") /\ s.class = 2
  /\ \/ (Succeeds \/ Fails) /\ s' = [s EXCEPT !.pc = "postpage"]
     \/ HangsUp /\ s' = AfterPage(s)
  /\ UNCHANGED told

\* +FET, and the answer of the other end in +FPTS.  No +FPTS is taken as a page
\* received, or, if +FHNG came, leaves good as it was.
EndsPage ==
  /\ At("postpage")
  /\ \/ Succeeds /\ \E r \in {Confirmed(s), Refused(s)} : s' = AfterPage(r)
     \/ Fails /\ s' = AfterPage([s EXCEPT !.err = 3])
     \/ HangsUp /\ s' = AfterPage(s)
  /\ UNCHANGED told

\* Class 2.0: the response tells, with a hang-up as without.
DataAndPageEnd ==
  /\ At("data") /\ s.class = 20
  /\ \/ Succeeds /\ s' = AfterPage(Confirmed(s))
     \/ Succeeds /\ s' = AfterPage(Refused(s))
     \/ Fails /\ s' = AfterPage(Refused(s))
     \/ HangsUp /\ \E r \in {Confirmed(s), Refused(s)} : s' = AfterPage(r)
  /\ UNCHANGED told

----------------------------------------------------------------------------
(* Receiving *)

\* wrpage(): the last file is closed and one for the next page opened; with -1
\* closed and removed.
Closed(fs) == IF fs = <<>> THEN fs
              ELSE Append(SubSeq(fs, 1, Len(fs) - 1), [fs[Len(fs)] EXCEPT !.closed = TRUE])
Opened(fs) == Append(Closed(fs), [lines |-> "none", closed |-> FALSE])
Removed(fs) == SubSeq(fs, 1, Len(fs) - 1)

OpensFile ==
  /\ At("wrpage")
  /\ \/ s' = [s EXCEPT !.pc = "receive", !.files = Opened(@)] /\ UNCHANGED bad
     \/ /\ bad < MaxBad /\ bad' = bad + 1
        /\ s' = Over([s EXCEPT !.err = 2, !.files = Closed(@)])
  /\ UNCHANGED <<told, heard, gone>>

\* receive_data(): whole or broken off.
DataComes ==
  /\ At("receive") /\ Len(s.files) <= MaxPages /\ Succeeds
  /\ \E lines \in {"all", "some"} :
       s' = [s EXCEPT !.pc = "endpage", !.good = lines = "all",
                      !.files = Append(Removed(@), [lines |-> lines, closed |-> FALSE])]
  /\ UNCHANGED told

NoPage(r) == [r EXCEPT !.files = Removed(@)]

\* The response OK to +FDR: there are no more pages.
NoMorePages ==
  /\ At("receive") /\ (Succeeds \/ HangsUp)
  /\ s' = Over(gethsc(NoPage(s)))
  /\ UNCHANGED told

CannotReceive ==
  /\ At("receive") /\ Fails
  /\ s' = Over([NoPage(s) EXCEPT !.err = 3])
  /\ UNCHANGED told

\* Two calls of wrpage(): the page is closed, the file for another removed.
CutOff_Bug(r) == Over([r EXCEPT !.files = Removed(@)])

CutOff(r) == Over([r EXCEPT !.files = Removed(Opened(@))])

\* The response after the data; a bad page is refused with +FPTS=2, or +FPS=2.
PageEnds ==
  /\ At("endpage")
  /\ \/ Succeeds /\ s' = [s EXCEPT !.pc = IF s.good THEN "wrpage" ELSE "refuse"]
     \/ Fails /\ s' = CutOff([s EXCEPT !.err = 3])
     \/ HangsUp /\ s' = CutOff(gethsc(s))
  /\ UNCHANGED told

\* A hang-up here leaves the loop only if it is an error, the file as it is.
RefusesPage ==
  /\ At("refuse")
  /\ \/ (Succeeds \/ Fails) /\ s' = [s EXCEPT !.pc = "wrpage"]
     \/ HangsUp /\ LET r == gethsc(s)
                   IN s' = IF r.err # 0 THEN Over(r) ELSE [r EXCEPT !.pc = "wrpage"]
  /\ UNCHANGED told

Ended == At("ended") /\ UNCHANGED callVars

CallSteps ==
  \/ Syncs \/ SetsUp \/ SetsClass \/ SetsCapabilities \/ Dials \/ Answers \/ Class1Session \/ EndsSession \/ Kills
  \/ ReadsPage \/ TellsFormat \/ StartsPage \/ DataEnds \/ EndsPage \/ DataAndPageEnd
  \/ OpensFile \/ DataComes \/ NoMorePages \/ CannotReceive \/ PageEnds \/ RefusesPage

NextCall == CallSteps \/ Ended

SpecCall == InitCall /\ [][NextCall]_callVars

----------------------------------------------------------------------------
(* Properties *)

Pages == DOMAIN s.doc

CallTypeOK ==
  /\ s.err \in 0..4 /\ s.cur \in 1..(Len(s.doc) + 1) /\ s.dp \in {0, 1}
  /\ s.pagetry \in 0..NTXRETRY /\ s.hsc \in Hangups \cup {-1}
  /\ s.sent \subseteq Pages /\ s.confirmed \subseteq Pages
  /\ told \in {0, 1, Unknown} /\ heard \in Hangups \cup {-1} /\ bad \in 0..MaxBad

\* The modem sends every page in the format of its file: it was told of the
\* change before the page that changes, also when a page is sent again
\* (changed of rdpage(), +FDIS).  It may have another format only if the last
\* command that named one failed.
FormatTold == s.onAir # <<>> => s.onAir.vr \in {s.doc[s.onAir.page], Unknown}

\* After a page the other end was told what comes: MPS before a page of the
\* same format, EOM before one of another, EOP before none (rdpage(), +FET).
PostPageTrue ==
  s'.pc = "data" /\ s.pc # "data" /\ s.onAir # <<>> /\ s'.onAir.page # s.onAir.page =>
    /\ s'.onAir.page = s.onAir.page + 1
    /\ s.before = IF s.doc[s'.onAir.page] = s.doc[s.onAir.page] THEN "MPS" ELSE "EOM"

\* The other end knows at each page what it will get next, and the modem in
\* which format.
PagesAnnounced == []FormatTold /\ [][PostPageTrue]_callVars

\* A page counts as sent only if the other end confirmed it, or the line went
\* down with it on the way (good of c2sndrcv(), and option -o n).
CountedIsConfirmed == s.sent \ s.confirmed # {} => s.hsc >= 0 \/ s.err # 0 \/ NoRetry

\* What efax knows of its pages is what became of them.
CallSound == CallTypeOK /\ CountedIsConfirmed

\* efax that has dialled and says success has sent every page; with no normal
\* end of the connection reported before its time.
SuccessMeansAllSent ==
  At("ended") /\ s.err = 0 /\ s.calling /\ s.class # 1 => s.sent = Pages \/ s.hsc = 0

\* What is received stays in a file of its own, and no other file stays
\* (wrpage ( outf, -1 ) where no page came).
ReceivedStays ==
  At("ended") => \A n \in DOMAIN s.files : s.files[n].lines # "none"

\* A page for which data came is in its file to the end.
KeepsPages ==
  \A n \in DOMAIN s.files : s.files[n].lines # "none" =>
    n \in DOMAIN s'.files /\ s'.files[n].lines = s.files[n].lines

\* Whatever cuts a reception off, the pages that came before stay.
ReceivedKept == []ReceivedStays /\ [][KeepsPages]_callVars

=============================================================================
