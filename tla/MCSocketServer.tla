---------------------------- MODULE MCSocketServer ----------------------------
(* The instances of SocketServer that TLC checks. *)
EXTENDS SocketServer, TLC

CONSTANTS j1, j2, j3, j4, p1, p2

TwoJobs == {j1, j2}
ThreeJobs == {j1, j2, j3}
FourJobs == {j1, j2, j3, j4}
TwoPorts == {p1, p2}

Config(on, port, other) == [on |-> on, listen |-> [port |-> port, other |-> other]]

\* The box checked and not, and a change of the port.
ThreeConfigs == {Config(TRUE, p1, FALSE), Config(FALSE, p1, FALSE), Config(TRUE, p2, FALSE)}
OneConfig == {Config(TRUE, p1, FALSE)}
OnAndOff == {Config(TRUE, p1, FALSE), Config(FALSE, p1, FALSE)}

NoFaults == {}
NoActs == {}
ServerFaults == FaultKinds \ {"crash", "thread"}
AllFaults == FaultKinds
AllActs == ActKinds
Settings == {"settings"}
Removals == {"remove"}

Symmetry == Permutations(Jobs)
=============================================================================
