-------------------------- MODULE MCReceivedFaxStore --------------------------
(* Two faxes of up to two pages, and a directory more than they need, for a *)
(* fax that is saved again after a failure.                                 *)
EXTENDS ReceivedFaxStore

CONSTANTS n1, n2, n3

MCNames == {n1, n2, n3}
AllFaults == FaultKinds

=============================================================================
