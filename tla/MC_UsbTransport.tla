-------------------------- MODULE MC_UsbTransport --------------------------
(* Instances of UsbTransport for TLC: three commands, so that a late       *)
(* answer can meet the next call and the one after it.                     *)
EXTENDS UsbTransport

AllKinds == {"none", "in", "out"}
=============================================================================
