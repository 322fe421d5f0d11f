-------------------------- MODULE MC_DeviceReport --------------------------
(* An instance of DeviceReport for TLC: a header of 2 bytes, structures of *)
(* 3 and 4, and pages shorter than the header up to longer than both.      *)
EXTENDS DeviceReport

AllCallers == {"info", "dump", "tries", "partition"}

SomeSizes == [page \in Pages |-> IF page = "property03" THEN 4 ELSE 3]
=============================================================================
