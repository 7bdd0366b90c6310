----------------------------- MODULE MCDesktop -----------------------------
(***************************************************************************)
(* The parts of the main program that share nothing with each other, each  *)
(* with small constants.  A behaviour is one of one part, chosen at the    *)
(* start, while the others stay as they were.                              *)
(***************************************************************************)
EXTENDS SendForm, AddressBook, LogFile, Startup, MCSettings

VARIABLE part

desktopVars == <<part, formVars, bookVars, logVars, startVars, settingVars>>

\* AddressBook: lines as the program writes them, and others.
Divided(name, number) == [name |-> name, number |-> number, divided |-> TRUE]
MCFirstBooks ==
  {<<>>, <<Divided("a", "1"), Divided("b", "2"), Divided("a", "")>>,
   <<[name |-> "b", number |-> "", divided |-> FALSE], Divided("raw", "1"), Divided("a", "2")>>}

Init ==
  /\ part \in {"form", "book", "log", "start", "settings"}
  /\ InitForm /\ (part # "form" => config = [popup |-> FALSE, found |-> FALSE])
  /\ InitBook /\ (part # "book" => bookfile = <<>>)
  /\ InitLog /\ (part # "log" => configured = "")
  /\ InitStart
  /\ part # "start" => lockfile = "none" /\ ~psWorks /\ ~denied /\ ~fifo
  /\ InitSettings
  /\ part # "settings" => keys = {"NAME", "NUMBER"} /\ codesets = Choose("utf-8", "utf-8") /\ homeRc = NoFile /\ sharedRc = NoFile

Next ==
  /\ \/ /\ part = "form" /\ NextForm
        /\ UNCHANGED <<bookVars, logVars, startVars, settingVars>>
     \/ /\ part = "book" /\ NextBook
        /\ UNCHANGED <<formVars, logVars, startVars, settingVars>>
     \/ /\ part = "log" /\ NextLog
        /\ UNCHANGED <<formVars, bookVars, startVars, settingVars>>
     \/ /\ part = "start" /\ NextStart
        /\ UNCHANGED <<formVars, bookVars, logVars, settingVars>>
     \/ /\ part = "settings" /\ NextSettings
        /\ UNCHANGED <<formVars, bookVars, logVars, startVars>>
  /\ UNCHANGED part

Spec == Init /\ [][Next]_desktopVars

=============================================================================
