-------------------------- MODULE MCEfaxController --------------------------
(* Constants for model checking EfaxController: a document of two files and *)
(* a print job of one, so that a job can follow another, be a print job or  *)
(* fail after a part of it has been converted.                              *)
EXTENDS EfaxController

CONSTANTS doc, printJob

MCItems == {doc, printJob}
MCSocketItems == {printJob}
MCNFiles == [i \in MCItems |-> IF i = doc THEN 2 ELSE 1]
NoFaults == {}
ConversionFaults == {"convert"}
AllFaults == FaultKinds

============================================================================
