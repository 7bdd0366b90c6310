------------------------------ MODULE FaxService ------------------------------
(***************************************************************************)
(* What the session controller promises, with neither thread nor process:  *)
(* one modem, one job at a time.  A job is accepted, dialled at most once, *)
(* and settled before the next is accepted; it counts as delivered only if *)
(* it was dialled.  The modem is never taken by two users at once, and a   *)
(* receiver gives it up before an accepted job is dialled.                 *)
(***************************************************************************)
CONSTANTS Items, NoItem

VARIABLES job,     \* the job in hand, or NoItem
          dialled, \* whether the modem was taken for it
          modem,   \* "free", "tx" or "rx"
          ledger   \* the jobs delivered

vars == <<job, dialled, modem, ledger>>

Init == job = NoItem /\ dialled = FALSE /\ modem = "free" /\ ledger = {}

\* A job is taken from a user when there is none; a receiver is made to stop.
Accept(i) == /\ job = NoItem /\ i \in Items
             /\ job' = i /\ dialled' = FALSE
             /\ modem' = "free"
             /\ UNCHANGED ledger

Dial == /\ job # NoItem /\ ~dialled /\ modem = "free"
        /\ dialled' = TRUE /\ modem' = "tx"
        /\ UNCHANGED <<job, ledger>>

HangUp == /\ modem # "free" /\ modem' = "free"
          /\ UNCHANGED <<job, dialled, ledger>>

\* The job in hand is settled; the modem may go to a receiver at once.
Settle == /\ job # NoItem /\ modem = "free"
          /\ job' = NoItem /\ dialled' = FALSE
          /\ modem' \in {"free", "rx"}
          /\ ledger' \in {ledger} \cup IF dialled THEN {ledger \cup {job}} ELSE {}

Listen == /\ job = NoItem /\ modem = "free" /\ modem' = "rx"
          /\ UNCHANGED <<job, dialled, ledger>>

\* The program ends, at any point, and forgets the job.
PowerOff == /\ job' = NoItem /\ dialled' = FALSE /\ modem' = "free"
            /\ UNCHANGED ledger

Next == (\E i \in Items : Accept(i)) \/ Dial \/ HangUp \/ Settle \/ Listen \/ PowerOff

Spec == Init /\ [][Next]_vars

============================================================================
