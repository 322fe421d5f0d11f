----------------------------- MODULE StickLock -----------------------------
(***************************************************************************)
(* What the models of the actions rely on when they set Exclusive = TRUE:  *)
(* a stick is reached by at most one process at a time, which gets it only *)
(* when nobody has it and loses it when it lets go, dies, or the stick     *)
(* leaves the bus.                                                         *)
(***************************************************************************)
CONSTANTS Procs, Devices

VARIABLE linked    \* the processes whose open handle reaches each stick

Init == linked = [d \in Devices |-> {}]

Acquire(p, d) ==
  /\ linked[d] = {}
  /\ \A e \in Devices : p \notin linked[e]
  /\ linked' = [linked EXCEPT ![d] = {p}]

Release(d) == linked' = [linked EXCEPT ![d] = {}]

Next == \E d \in Devices : Release(d) \/ \E p \in Procs : Acquire(p, d)

Spec == Init /\ [][Next]_linked
=============================================================================
