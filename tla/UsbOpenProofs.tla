--------------------------- MODULE UsbOpenProofs ---------------------------
(***************************************************************************)
(* Proofs about UsbOpen, for every set of processes and devices.           *)
(***************************************************************************)
EXTENDS UsbOpen, TLAPS

(* A handle reaches its device from usb_open() until the device leaves.    *)
HandleInv ==
  \A p \in Procs :
    /\ pc[p] \in {"idle", "open"} => handle[p] = "none"
    /\ handle[p] = "live" => dev[p] \in plugged

(* The claim belongs to a process that is past usb_claim_interface(), on   *)
(* an interface without a driver; and such a process has it as long as its *)
(* handle reaches the device.                                              *)
Past == {"endpoints"} \cup InUse

ClaimInv ==
  /\ \A d \in Devices : Claimed(d) =>
       /\ pc[claim[d]] \in Past /\ dev[claim[d]] = d /\ handle[claim[d]] = "live"
       /\ d \notin driver
  /\ \A p \in Procs : pc[p] \in Past /\ handle[p] = "live" => claim[dev[p]] = p

(* The endpoints of an opened device.                                      *)
EndsInv == \A p \in Procs : pc[p] \in InUse => epIn[p] = "in" /\ epOut[p] = "out"

(* Something of an unfinished command is only in a stick without driver,   *)
(* and not in one whose configuration was set, on the wire or by the       *)
(* kernel's driver before, with nobody there since.                        *)
StaleInv ==
  /\ stale \subseteq plugged \ driver
  /\ \A p \in Procs :
       p \notin shared \cup unset /\ handle[p] = "live" =>
         /\ pc[p] \in {"detach", "claim"} => ~Claimed(dev[p]) /\ dev[p] \notin stale
         /\ At(p, "endpoints") => dev[p] \notin stale

OpenInv == TypeOK /\ HandleInv /\ ClaimInv /\ EndsInv /\ StaleInv

-----------------------------------------------------------------------------
(* What a process that ends leaves behind is consistent.                   *)
LEMMA GoneKeeps ==
  ASSUME OpenInv, NEW p \in Procs, Gone(p)
  PROVE  OpenInv'
<1> USE UsbOpenAssumption DEF OpenInv, At, GoTo, Claimed
<1>1. TypeOK'
  BY DEF Gone, Released, TypeOK, Labels
<1>2. HandleInv'
  BY DEF Gone, TypeOK, HandleInv
<1>3. ClaimInv'
  BY DEF Gone, Released, TypeOK, ClaimInv, Past, InUse
<1>4. EndsInv'
  BY DEF Gone, TypeOK, EndsInv, InUse
<1>5. StaleInv'
  BY DEF Gone, Released, TypeOK, StaleInv
<1> QED BY <1>1, <1>2, <1>3, <1>4, <1>5

(* Finding a device touches no stick.                                      *)
LEMMA LocateKeeps ==
  ASSUME OpenInv, NEW p \in Procs, Locate(p)
  PROVE  OpenInv'
<1> USE UsbOpenAssumption DEF OpenInv, At, GoTo, Claimed
<1>0. CASE Gone(p)
  BY <1>0, GoneKeeps
<1>1. CASE ~Gone(p)
  <2> USE <1>1 DEF vars, procVars, stickVars, Locate, First, Found
  <2>1. TypeOK'
    BY DEF TypeOK, Labels, Directions
  <2>2. HandleInv'
    BY DEF TypeOK, HandleInv
  <2>3. ClaimInv'
    BY DEF TypeOK, HandleInv, ClaimInv, Past, InUse
  <2>4. EndsInv'
    BY DEF TypeOK, EndsInv, InUse, Descriptors, Directions
  <2>5. StaleInv'
    BY DEF TypeOK, HandleInv, ClaimInv, StaleInv, Past, InUse
  <2> QED BY <2>1, <2>2, <2>3, <2>4, <2>5
<1> QED BY <1>0, <1>1

(* A handle is opened to a device on the bus.                              *)
LEMMA OpenHandleKeeps ==
  ASSUME OpenInv, NEW p \in Procs, OpenHandle(p)
  PROVE  OpenInv'
<1> USE UsbOpenAssumption DEF OpenInv, At, GoTo, Claimed
<1>0. CASE Gone(p)
  BY <1>0, GoneKeeps
<1>1. CASE ~Gone(p)
  <2> USE <1>1 DEF vars, procVars, stickVars, OpenHandle
  <2>1. TypeOK'
    BY DEF TypeOK, Labels, Directions
  <2>2. HandleInv'
    BY DEF TypeOK, HandleInv
  <2>3. ClaimInv'
    BY DEF TypeOK, HandleInv, ClaimInv, Past, InUse
  <2>4. EndsInv'
    BY DEF TypeOK, EndsInv, InUse, Descriptors, Directions
  <2>5. StaleInv'
    BY DEF TypeOK, HandleInv, ClaimInv, StaleInv, Past, InUse
  <2> QED BY <2>1, <2>2, <2>3, <2>4, <2>5
<1> QED BY <1>0, <1>1

(* Setting the configuration clears a stick that nobody has.               *)
LEMMA ConfigureKeeps ==
  ASSUME OpenInv, NEW p \in Procs, Configure(p)
  PROVE  OpenInv'
<1> USE UsbOpenAssumption DEF OpenInv, At, GoTo, Claimed
<1>0. CASE Gone(p)
  BY <1>0, GoneKeeps
<1>1. CASE ~Gone(p)
  <2> USE <1>1 DEF vars, procVars, stickVars, Configure, Free
  <2>1. TypeOK'
    BY DEF TypeOK, Labels, Directions
  <2>2. HandleInv'
    BY DEF TypeOK, HandleInv
  <2>3. ClaimInv'
    BY DEF TypeOK, HandleInv, ClaimInv, Past, InUse
  <2>4. EndsInv'
    BY DEF TypeOK, EndsInv, InUse, Descriptors, Directions
  <2>5. StaleInv'
    BY DEF TypeOK, HandleInv, ClaimInv, StaleInv, Past, InUse
  <2> QED BY <2>1, <2>2, <2>3, <2>4, <2>5
<1> QED BY <1>0, <1>1

(* Detaching the driver leaves claims alone.                               *)
LEMMA DetachKeeps ==
  ASSUME OpenInv, NEW p \in Procs, Detach(p)
  PROVE  OpenInv'
<1> USE UsbOpenAssumption DEF OpenInv, At, GoTo, Claimed
<1>0. CASE Gone(p)
  BY <1>0, GoneKeeps
<1>1. CASE ~Gone(p)
  <2> USE <1>1 DEF vars, procVars, stickVars, Detach
  <2>1. TypeOK'
    BY DEF TypeOK, Labels, Directions
  <2>2. HandleInv'
    BY DEF TypeOK, HandleInv
  <2>3. ClaimInv'
    <3>1. /\ pc' = [pc EXCEPT ![p] = "claim"] /\ pc[p] = "detach"
          /\ driver' \subseteq driver /\ UNCHANGED <<claim, dev, handle>>
      OBVIOUS
    <3> QED BY ONLY <3>1, OpenInv DEF OpenInv, Claimed, TypeOK, ClaimInv, Past, InUse
  <2>4. EndsInv'
    BY DEF TypeOK, EndsInv, InUse, Descriptors, Directions
  <2>5. StaleInv'
    BY DEF TypeOK, HandleInv, ClaimInv, StaleInv, Past, InUse
  <2> QED BY <2>1, <2>2, <2>3, <2>4, <2>5
<1> QED BY <1>0, <1>1

(* A claim is taken of an interface that is free, and remembered by the others. *)
LEMMA ClaimKeeps ==
  ASSUME OpenInv, NEW p \in Procs, Claim(p)
  PROVE  OpenInv'
<1> USE UsbOpenAssumption DEF OpenInv, At, GoTo, Claimed
<1>0. CASE Gone(p)
  BY <1>0, GoneKeeps
<1>1. CASE ~Gone(p)
  <2> USE <1>1 DEF vars, procVars, stickVars, Claim, Free
  <2>1. TypeOK'
    BY DEF TypeOK, Labels, Directions
  <2>2. HandleInv'
    BY DEF TypeOK, HandleInv
  <2>3. ClaimInv'
    BY DEF TypeOK, HandleInv, ClaimInv, Past, InUse
  <2>4. EndsInv'
    BY DEF TypeOK, EndsInv, InUse, Descriptors, Directions
  <2>5. StaleInv'
    BY DEF TypeOK, HandleInv, ClaimInv, StaleInv, Past, InUse
  <2> QED BY <2>1, <2>2, <2>3, <2>4, <2>5
<1> QED BY <1>0, <1>1

(* The endpoints of a device that is opened are one of each direction.     *)
LEMMA EndpointsKeeps ==
  ASSUME OpenInv, NEW p \in Procs, Endpoints(p)
  PROVE  OpenInv'
<1> USE UsbOpenAssumption DEF OpenInv, At, GoTo, Claimed
<1>0. CASE Gone(p)
  BY <1>0, GoneKeeps
<1>1. CASE ~Gone(p)
  <2> USE <1>1 DEF vars, procVars, stickVars, Endpoints, Chosen
  <2>0. /\ desc[dev[p]].endpoints \in Seq(Directions)
        /\ pc' = [pc EXCEPT ![p] = "opened"] /\ pc[p] = "endpoints"
        /\ UNCHANGED <<stickVars, dev, handle, shared, unset>>
    BY DEF TypeOK, Descriptors
  <2>a. PICK in \in Directions, out \in Directions :
          /\ epIn' = [epIn EXCEPT ![p] = in] /\ epOut' = [epOut EXCEPT ![p] = out]
          /\ in = "in" /\ out = "out"
    BY <2>0 DEF Directions
  <2>1. TypeOK'
    BY ONLY <2>0, <2>a, OpenInv, p \in Procs DEF OpenInv, TypeOK, Labels, stickVars
  <2>2. HandleInv'
    BY DEF TypeOK, HandleInv
  <2>3. ClaimInv'
    BY DEF TypeOK, HandleInv, ClaimInv, Past, InUse
  <2>4. EndsInv'
    BY ONLY <2>0, <2>a, OpenInv, p \in Procs DEF OpenInv, TypeOK, EndsInv, InUse
  <2>5. StaleInv'
    BY DEF TypeOK, HandleInv, ClaimInv, StaleInv, Past, InUse
  <2> QED BY <2>1, <2>2, <2>3, <2>4, <2>5
<1> QED BY <1>0, <1>1

(* Only the process with the claim puts a command into the stick.          *)
LEMMA SendKeeps ==
  ASSUME OpenInv, NEW p \in Procs, Send(p)
  PROVE  OpenInv'
<1> USE UsbOpenAssumption DEF OpenInv, At, GoTo, Claimed
<1>0. CASE Gone(p)
  BY <1>0, GoneKeeps
<1>1. CASE ~Gone(p)
  <2> USE <1>1 DEF vars, procVars, stickVars, Send, Reaches
  <2>1. TypeOK'
    BY DEF TypeOK, Labels, Directions
  <2>2. HandleInv'
    BY DEF TypeOK, HandleInv
  <2>3. ClaimInv'
    BY DEF TypeOK, HandleInv, ClaimInv, Past, InUse
  <2>4. EndsInv'
    BY DEF TypeOK, EndsInv, InUse, Descriptors, Directions
  <2>5. StaleInv'
    BY DEF TypeOK, HandleInv, ClaimInv, StaleInv, Past, InUse
  <2> QED BY <2>1, <2>2, <2>3, <2>4, <2>5
<1> QED BY <1>0, <1>1

(* An answered command leaves nothing behind.                              *)
LEMMA AnsweredKeeps ==
  ASSUME OpenInv, NEW p \in Procs, Answered(p)
  PROVE  OpenInv'
<1> USE UsbOpenAssumption DEF OpenInv, At, GoTo, Claimed
<1>0. CASE Gone(p)
  BY <1>0, GoneKeeps
<1>1. CASE ~Gone(p)
  <2> USE <1>1 DEF vars, procVars, stickVars, Answered, Reaches
  <2>1. TypeOK'
    BY DEF TypeOK, Labels, Directions
  <2>2. HandleInv'
    BY DEF TypeOK, HandleInv
  <2>3. ClaimInv'
    BY DEF TypeOK, HandleInv, ClaimInv, Past, InUse
  <2>4. EndsInv'
    BY DEF TypeOK, EndsInv, InUse, Descriptors, Directions
  <2>5. StaleInv'
    BY DEF TypeOK, HandleInv, ClaimInv, StaleInv, Past, InUse
  <2> QED BY <2>1, <2>2, <2>3, <2>4, <2>5
<1> QED BY <1>0, <1>1

(* A stick that leaves the bus loses driver, claim and handles together.   *)
LEMMA UnplugKeeps ==
  ASSUME OpenInv, NEW d \in Devices, Unplug(d)
  PROVE  OpenInv'
<1> USE UsbOpenAssumption DEF OpenInv, At, GoTo, Claimed, Unplug, procVars
<1>1. TypeOK'
  BY DEF TypeOK, Labels
<1>2. HandleInv'
  BY DEF TypeOK, HandleInv
<1>3. ClaimInv'
  BY DEF TypeOK, HandleInv, ClaimInv, Past, InUse
<1>4. EndsInv'
  BY DEF EndsInv
<1>5. StaleInv'
  BY DEF TypeOK, HandleInv, ClaimInv, StaleInv, Past, InUse
<1> QED BY <1>1, <1>2, <1>3, <1>4, <1>5

(* A stick that comes gets its driver.                                     *)
LEMMA PlugKeeps ==
  ASSUME OpenInv, NEW d \in Devices, Plug(d)
  PROVE  OpenInv'
<1> USE UsbOpenAssumption DEF OpenInv, At, GoTo, Claimed, Plug, procVars
<1>1. TypeOK'
  BY DEF TypeOK, Labels
<1>2. HandleInv'
  BY DEF TypeOK, HandleInv
<1>3. ClaimInv'
  BY DEF TypeOK, HandleInv, ClaimInv, Past, InUse
<1>4. EndsInv'
  BY DEF EndsInv
<1>5. StaleInv'
  BY DEF TypeOK, HandleInv, ClaimInv, StaleInv, Past, InUse
<1> QED BY <1>1, <1>2, <1>3, <1>4, <1>5

(* A driver is only bound to an interface nobody has claimed.              *)
LEMMA BindKeeps ==
  ASSUME OpenInv, NEW d \in Devices, Bind(d)
  PROVE  OpenInv'
<1> USE UsbOpenAssumption DEF OpenInv, At, GoTo, Claimed, Bind, procVars
<1>1. TypeOK'
  BY DEF TypeOK, Labels
<1>2. HandleInv'
  BY DEF TypeOK, HandleInv
<1>3. ClaimInv'
  BY DEF TypeOK, HandleInv, ClaimInv, Past, InUse
<1>4. EndsInv'
  BY DEF EndsInv
<1>5. StaleInv'
  BY DEF TypeOK, HandleInv, ClaimInv, StaleInv, Past, InUse
<1> QED BY <1>1, <1>2, <1>3, <1>4, <1>5

-----------------------------------------------------------------------------
(* OpenInv holds of sticks as the operating system has found them ...      *)
LEMMA InitOpenInv == Init => OpenInv
  BY UsbOpenAssumption
  DEF Init, OpenInv, TypeOK, Labels, HandleInv, ClaimInv, EndsInv, StaleInv, Past, InUse,
      Claimed, At

(* ... and every step keeps it.                                            *)
LEMMA NextOpenInv == OpenInv /\ [Next]_vars => OpenInv'
<1> SUFFICES ASSUME OpenInv, [Next]_vars PROVE OpenInv'
  OBVIOUS
<1>1. ASSUME NEW p \in Procs, Open(p) PROVE OpenInv'
  BY <1>1, LocateKeeps, OpenHandleKeeps, ConfigureKeeps, DetachKeeps, ClaimKeeps,
     EndpointsKeeps DEF Open
<1>2. ASSUME NEW p \in Procs, Send(p) \/ Answered(p) PROVE OpenInv'
  BY <1>2, SendKeeps, AnsweredKeeps
<1>3. ASSUME NEW p \in Procs, Close(p) \/ Killed(p) PROVE OpenInv'
  BY <1>3, GoneKeeps DEF Close, Killed
<1>4. ASSUME NEW d \in Devices, Unplug(d) \/ Plug(d) \/ Bind(d) PROVE OpenInv'
  BY <1>4, UnplugKeeps, PlugKeeps, BindKeeps
<1>5. CASE UNCHANGED vars
  BY <1>5 DEF vars, procVars, stickVars, OpenInv, TypeOK, HandleInv, ClaimInv, EndsInv,
              StaleInv, Past, InUse, Claimed, At
<1> QED BY <1>1, <1>2, <1>3, <1>4, <1>5 DEF Next

(* The invariant of opening and closing devices.                           *)
THEOREM OpenCorrect == Spec => []OpenInv
<1> QED BY InitOpenInv, NextOpenInv, PTL DEF Spec

(* Type correctness of u3_open() and u3_close().                           *)
THEOREM TypeCorrect == Spec => []TypeOK
<1>1. OpenInv => TypeOK
  BY DEF OpenInv
<1> QED BY <1>1, OpenCorrect, PTL

(* For any number of processes and sticks, a u3_open() that succeeded has  *)
(* given its process the two endpoints and an interface of its own.        *)
THEOREM OpenedHasAll == Spec => []OpenedIsUsable
<1>1. OpenInv => OpenedIsUsable
  BY UsbOpenAssumption
  DEF OpenInv, TypeOK, HandleInv, ClaimInv, EndsInv, OpenedIsUsable, Past, InUse, Claimed
<1> QED BY <1>1, OpenCorrect, PTL

(* A run that does not overlap with another, and whose SET_CONFIGURATION   *)
(* did not fail on the wire, finds a stick that has forgotten whatever an  *)
(* earlier run left in it: that the kernel may have refused the request,   *)
(* and nobody looked, does no harm.                                        *)
THEOREM RefusalsAreHarmless == Spec => []CleanUnlessUnset
<1>1. OpenInv => CleanUnlessUnset
  BY DEF OpenInv, StaleInv, CleanUnlessUnset, Reaches
<1> QED BY <1>1, OpenCorrect, PTL

-----------------------------------------------------------------------------
(* A stick is linked to the process that has claimed it, and no other.     *)
LEMMA LinkedByClaim ==
  ASSUME OpenInv, NEW d \in Devices
  PROVE  /\ Linked[d] \subseteq {claim[d]}
         /\ ~Claimed(d) => Linked[d] = {}
  BY UsbOpenAssumption DEF OpenInv, TypeOK, ClaimInv, Past, InUse, Linked, Claimed

(* A process that ends lets go of its stick.                               *)
LEMMA GoneReleases ==
  ASSUME OpenInv, NEW p \in Procs, pc[p] # "idle", Gone(p)
  PROVE  Lock!Release(dev[p]) \/ UNCHANGED Linked
<1>1. Linked' = [d \in Devices |-> Linked[d] \ {p}]
  BY DEF OpenInv, TypeOK, Gone, GoTo, Linked, InUse
<1>2. dev[p] \in Devices
  BY DEF OpenInv, TypeOK
<1>3. CASE p \in Linked[dev[p]]
  <2>1. Linked[dev[p]] = {p}
    BY <1>2, <1>3, LinkedByClaim
  <2>2. \A d \in Devices \ {dev[p]} : p \notin Linked[d]
    BY DEF Linked
  <2>3. Linked' = [Linked EXCEPT ![dev[p]] = {}]
    <3>1. Linked = [d \in Devices |-> Linked[d]]
      BY DEF Linked
    <3>2. \A d \in Devices : Linked[d] \ {p} = IF d = dev[p] THEN {} ELSE Linked[d]
      BY <2>1, <2>2
    <3>3. Linked' = [d \in Devices |-> IF d = dev[p] THEN {} ELSE Linked[d]]
      BY ONLY <1>1, <3>2
    <3> QED BY ONLY <3>1, <3>3
  <2> QED BY <2>3 DEF Lock!Release
<1>4. CASE p \notin Linked[dev[p]]
  <2>1. \A d \in Devices : p \notin Linked[d]
    BY <1>4 DEF Linked
  <2>2. Linked' = Linked
    BY <1>1, <2>1 DEF Linked
  <2> QED BY <2>2
<1> QED BY <1>3, <1>4

(* A u3_open() that succeeds takes a stick nobody has.                     *)
LEMMA EndpointsAcquires ==
  ASSUME OpenInv, NEW p \in Procs, Endpoints(p), ~Gone(p)
  PROVE  Lock!Acquire(p, dev[p]) \/ UNCHANGED Linked
<1>1. /\ pc[p] = "endpoints" /\ pc' = [pc EXCEPT ![p] = "opened"]
      /\ UNCHANGED <<dev, handle, claim>> /\ dev[p] \in Devices
  BY DEF OpenInv, TypeOK, Endpoints, At, GoTo, stickVars
<1>2. \A d \in Devices : p \notin Linked[d]
  BY <1>1 DEF Linked, InUse
<1>3. CASE handle[p] = "live"
  <2>1. claim[dev[p]] = p
    BY <1>1, <1>3 DEF OpenInv, ClaimInv, Past
  <2>2. Linked[dev[p]] = {}
    BY <1>1, <1>2, <2>1, LinkedByClaim
  <2>3. Linked' = [Linked EXCEPT ![dev[p]] = {p}]
    <3>1. Linked = [d \in Devices |-> Linked[d]]
      BY DEF Linked
    <3>2. Linked' = [d \in Devices |-> IF d = dev[p] THEN Linked[d] \cup {p} ELSE Linked[d]]
      BY <1>1, <1>3 DEF Linked, InUse, OpenInv, TypeOK
    <3> QED BY ONLY <1>1, <2>2, <3>1, <3>2
  <2> QED BY <1>2, <2>2, <2>3 DEF Lock!Acquire
<1>4. CASE handle[p] # "live"
  <2>1. Linked' = Linked
    BY <1>1, <1>4 DEF Linked, InUse, OpenInv, TypeOK
  <2> QED BY <2>1
<1> QED BY <1>3, <1>4

(* No other step of a process changes who reaches a stick.                 *)
LEMMA OthersKeepLinks ==
  ASSUME OpenInv, NEW p \in Procs, ~Gone(p),
         Locate(p) \/ OpenHandle(p) \/ Configure(p) \/ Detach(p) \/ Claim(p) \/ Send(p)
           \/ Answered(p)
  PROVE  UNCHANGED Linked
<1>1. CASE Locate(p)
  BY <1>1 DEF OpenInv, TypeOK, Locate, At, GoTo, Linked, InUse
<1>2. CASE OpenHandle(p)
  BY <1>2 DEF OpenInv, TypeOK, OpenHandle, At, GoTo, Linked, InUse
<1>3. CASE Configure(p) \/ Detach(p) \/ Claim(p)
  BY <1>3 DEF OpenInv, TypeOK, Configure, Detach, Claim, At, GoTo, Linked, InUse
<1>4. CASE Send(p) \/ Answered(p)
  BY <1>4 DEF OpenInv, TypeOK, Send, Answered, At, GoTo, Linked, InUse
<1> QED BY <1>1, <1>2, <1>3, <1>4

(* Opening and closing implement the lock the models of the actions assume *)
(* with Exclusive = TRUE, for any number of processes and sticks.          *)
THEOREM ImplementsLock == Spec => LockSpec
<1>1. Init => Lock!Init
  BY DEF Init, Lock!Init, Linked, InUse
<1>2. ASSUME OpenInv, [Next]_vars PROVE [Lock!Next]_Linked
  <2>1. ASSUME NEW p \in Procs, Gone(p), pc[p] # "idle" PROVE [Lock!Next]_Linked
    <3>1. dev[p] \in Devices
      BY <1>2, <2>1 DEF OpenInv, TypeOK
    <3> QED BY <1>2, <2>1, <3>1, GoneReleases DEF Lock!Next
  <2>2. ASSUME NEW p \in Procs, Open(p) \/ Send(p) \/ Answered(p), ~Gone(p)
        PROVE [Lock!Next]_Linked
    <3>1. CASE Endpoints(p)
      <4>1. dev[p] \in Devices
        BY <1>2, <3>1 DEF OpenInv, TypeOK, Endpoints, At
      <4> QED BY <1>2, <2>2, <3>1, <4>1, EndpointsAcquires DEF Lock!Next
    <3>2. CASE ~Endpoints(p)
      BY <1>2, <2>2, <3>2, OthersKeepLinks DEF Open
    <3> QED BY <3>1, <3>2
  <2>3. ASSUME NEW p \in Procs, Open(p) \/ Send(p) \/ Answered(p) \/ Close(p) \/ Killed(p)
        PROVE \/ Gone(p) /\ pc[p] # "idle"
              \/ (Open(p) \/ Send(p) \/ Answered(p)) /\ ~Gone(p)
    <3>1. CASE Locate(p)
      BY <1>2, <3>1 DEF OpenInv, TypeOK, Locate, Gone, At, GoTo, Open
    <3>2. CASE ~Locate(p)
      <4>1. pc[p] # "idle"
        BY <2>3, <3>2 DEF Open, OpenHandle, Configure, Detach, Claim, Endpoints, Send, Answered,
                          Close, Killed, At
      <4>2. Close(p) \/ Killed(p) => Gone(p)
        BY DEF Close, Killed
      <4>3. CASE Gone(p)
        BY ONLY <4>1, <4>3
      <4>4. CASE ~Gone(p)
        <5>1. ~Close(p) /\ ~Killed(p)
          BY <4>2, <4>4
        <5> QED BY ONLY <2>3, <4>4, <5>1
      <4> QED BY ONLY <4>3, <4>4
    <3> QED BY <3>1, <3>2
  <2>4. ASSUME NEW d \in Devices, Unplug(d) PROVE [Lock!Next]_Linked
    <3>1. Linked' = [Linked EXCEPT ![d] = {}]
      <4>1. Linked = [e \in Devices |-> Linked[e]]
        BY DEF Linked
      <4>2. Linked' = [e \in Devices |-> IF e = d THEN {} ELSE Linked[e]]
        BY <1>2, <2>4 DEF OpenInv, TypeOK, Unplug, Linked
      <4> QED BY ONLY <4>1, <4>2
    <3> QED BY <3>1 DEF Lock!Next, Lock!Release
  <2>5. ASSUME NEW d \in Devices, Plug(d) \/ Bind(d) PROVE UNCHANGED Linked
    BY <2>5 DEF Plug, Bind, procVars, Linked
  <2>6. CASE UNCHANGED vars
    BY <2>6 DEF vars, procVars, Linked
  <2> QED BY <1>2, <2>1, <2>2, <2>3, <2>4, <2>5, <2>6 DEF Next
<1>3. Spec => Lock!Init /\ [][Lock!Next]_Linked
  BY <1>1, <1>2, OpenCorrect, PTL DEF Spec
<1> QED BY <1>3 DEF LockSpec, Lock!Spec
=============================================================================
