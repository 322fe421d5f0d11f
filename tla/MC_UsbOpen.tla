----------------------------- MODULE MC_UsbOpen -----------------------------
(* Instances of UsbOpen for TLC: two sticks of known type, and two         *)
(* processes.                                                              *)
EXTENDS UsbOpen, TLC

CONSTANTS p1, p2, d1, d2

Ids == (d1 :> "cruzer" @@ d2 :> "micro")

Known == <<"micro", "cruzer">>

TwoSticks == <<d1, d2>>

Stick(configs, interfaces, altsettings, endpoints) ==
  [configs |-> configs, interfaces |-> interfaces, altsettings |-> altsettings,
   endpoints |-> endpoints]

Good == Stick(1, 1, 1, <<"out", "in">>)

(* A stick with its endpoints the other way round, and those u3_open() has *)
(* to refuse, next to a good one.                                          *)
SomeSticks ==
  {(d1 :> s @@ d2 :> Good) :
     s \in {Good, Stick(1, 1, 1, <<"in", "out">>), Stick(2, 1, 1, <<"out", "in">>),
            Stick(1, 2, 1, <<"out", "in">>), Stick(1, 1, 2, <<"out", "in">>),
            Stick(1, 1, 1, <<"in", "in">>), Stick(1, 1, 1, <<"out", "out">>),
            Stick(1, 1, 1, <<"in", "out", "in">>)}}

ProcSymmetry == Permutations(Procs)
=============================================================================
