------------------------------- MODULE MCModem -------------------------------
(***************************************************************************)
(* The two things that efax does beside a Class 1 session, each with small *)
(* constants: it leads a modem through a call (EfaxCall), and shares it    *)
(* with other programs (ModemLocks).  The two share nothing: a behaviour   *)
(* is one of one part, chosen at the start.                                *)
(***************************************************************************)
EXTENDS EfaxCall, ModemLocks

VARIABLE part

modemVars == <<part, callVars, locksVars>>

\* EfaxCall: nothing to send, or pages of one format and of two.
Docs == {<<>>, <<1, 0>>, <<0, 0, 1>>}
AnyClass == {0, 2}
Modems == {{1}, {1, 2}, {1, 2, 20}, {1, 20}}
Both == {TRUE, FALSE}
AnyEnd == {0, 50}

\* ModemLocks: two programs with two lock files, one of which was left behind.
Two == {"p1", "p2"}
BothFiles == [p \in Two |-> <<"LCK..modem", "LCK..ttyS0">>]
Lender == {"p1"}
Other == {"p2"}
Left == {"LCK..modem"}

Init ==
  /\ part \in {"call", "locks"} /\ InitCall /\ InitLocks
  /\ part # "call" => s = Start

Next ==
  /\ \/ part = "call" /\ NextCall /\ UNCHANGED locksVars
     \/ part = "locks" /\ NextLocks /\ UNCHANGED callVars
  /\ UNCHANGED part

Spec == Init /\ [][Next]_modemVars /\ (part = "locks" => FairLocks)
=============================================================================
