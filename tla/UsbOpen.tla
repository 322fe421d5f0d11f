------------------------------ MODULE UsbOpen ------------------------------
(***************************************************************************)
(* u3_open() and u3_close() of the libusb subsystem, call by call: finding *)
(* the device, its handle, the configuration, the kernel's driver, the     *)
(* claim and the endpoints, by any number of processes on any number of    *)
(* sticks that are plugged, unplugged and given back to their driver at    *)
(* any time.                                                               *)
(*                                                                         *)
(* What a run of the tool leaves in the stick when it ends in the middle   *)
(* of a command (a packet in an endpoint, a command not yet answered) is   *)
(* one bit, "stale".  The kernel refuses SET_CONFIGURATION while the       *)
(* interface has a driver or a claim, and gives a claim to one process at  *)
(* a time.  Its own driver resets a stick that does not answer as it       *)
(* should.                                                                 *)
(***************************************************************************)
EXTENDS Naturals, Sequences

CONSTANTS Procs, Devices,
          NoDevice, NoProc,
          Id,             \* idVendor and idProduct of each device
          KnownIds,       \* u3_dev_list
          Bus,            \* the devices in the order they are enumerated in
          Sticks          \* the descriptors the devices may have

Directions == {"in", "out"}

Descriptors == [configs : Nat, interfaces : Nat, altsettings : Nat,
                endpoints : Seq(Directions)]

ASSUME UsbOpenAssumption ==
  /\ NoDevice \notin Devices /\ NoProc \notin Procs
  /\ Bus \in Seq(Devices)
  /\ Sticks \subseteq [Devices -> Descriptors]

VARIABLES pc,         \* where in u3_open(), the action or u3_close() each process is
          dev,        \* u3_device
          handle,     \* handle_wrapper->handle: does it reach the device?
          epIn, epOut,    \* the directions of ep_in and ep_out
          shared,     \* those who shared: another had the claim since the configuration
          unset,      \* those whose SET_CONFIGURATION was let through and came to nothing
          plugged,    \* the devices on the bus
          driver,     \* those whose interface the kernel's driver is bound to
          claim,      \* the process that has claimed each interface
          stale,      \* those that hold something of an unfinished command
          desc        \* the descriptors

procVars == <<pc, dev, handle, epIn, epOut, shared, unset>>
stickVars == <<plugged, driver, claim, stale, desc>>
vars == <<procVars, stickVars>>

Labels == {"idle", "open", "configure", "detach", "claim", "endpoints", "opened",
           "command"}

TypeOK ==
  /\ pc \in [Procs -> Labels]
  /\ dev \in [Procs -> Devices \cup {NoDevice}]
  /\ \A p \in Procs : pc[p] # "idle" => dev[p] \in Devices
  /\ handle \in [Procs -> {"none", "live", "dead"}]
  /\ epIn \in [Procs -> Directions \cup {"none"}]
  /\ epOut \in [Procs -> Directions \cup {"none"}]
  /\ shared \subseteq Procs /\ unset \subseteq Procs
  /\ plugged \subseteq Devices /\ driver \subseteq Devices /\ stale \subseteq Devices
  /\ claim \in [Devices -> Procs \cup {NoProc}]
  /\ desc \in [Devices -> Descriptors]

(* Sticks as the operating system has found them.                          *)
Init ==
  /\ pc = [p \in Procs |-> "idle"]
  /\ dev = [p \in Procs |-> NoDevice]
  /\ handle = [p \in Procs |-> "none"]
  /\ epIn = [p \in Procs |-> "none"]
  /\ epOut = [p \in Procs |-> "none"]
  /\ shared = {} /\ unset = {}
  /\ plugged \in SUBSET Devices
  /\ driver = plugged
  /\ claim = [d \in Devices |-> NoProc]
  /\ stale = {}
  /\ desc \in Sticks

At(p, label) == pc[p] = label

GoTo(p, label) == pc' = [pc EXCEPT ![p] = label]

Released(p) == [d \in Devices |-> IF claim[d] = p THEN NoProc ELSE claim[d]]

(* The process has ended, and the kernel has closed what it had open.      *)
Gone(p) ==
  /\ GoTo(p, "idle")
  /\ dev' = [dev EXCEPT ![p] = NoDevice]
  /\ handle' = [handle EXCEPT ![p] = "none"]
  /\ epIn' = [epIn EXCEPT ![p] = "none"]
  /\ epOut' = [epOut EXCEPT ![p] = "none"]
  /\ shared' = shared \ {p} /\ unset' = unset \ {p}
  /\ claim' = Released(p)
  /\ UNCHANGED <<plugged, driver, stale, desc>>

-----------------------------------------------------------------------------
(* locate_u3_device(): the first device on the busses with these numbers;  *)
(* the argument is such a pair, or "scan" for the first pair of            *)
(* u3_dev_list that is there.                                              *)

Matches(id) == {i \in DOMAIN Bus : Bus[i] \in plugged /\ Id[Bus[i]] = id}

Found == {k \in DOMAIN KnownIds : Matches(KnownIds[k]) # {}}

First(i, indices) == i \in indices /\ \A j \in indices : i <= j

(* Mutant of Locate: no device found is not an error.                      *)
LocateUnchecked(p) ==
  /\ At(p, "idle")
  /\ GoTo(p, "open")
  /\ \/ \E i \in DOMAIN Bus :
          First(i, Matches(Id[Bus[i]])) /\ dev' = [dev EXCEPT ![p] = Bus[i]]
     \/ Found = {} /\ UNCHANGED dev
  /\ UNCHANGED <<stickVars, handle, epIn, epOut, shared, unset>>

Locate(p) ==
  /\ At(p, "idle")
  /\ \E i \in DOMAIN Bus :
       /\ \/ First(i, Matches(Id[Bus[i]]))
          \/ \E k \in Found : First(k, Found) /\ First(i, Matches(KnownIds[k]))
       /\ dev' = [dev EXCEPT ![p] = Bus[i]]
  /\ GoTo(p, "open")
  /\ UNCHANGED <<stickVars, handle, epIn, epOut, shared, unset>>

-----------------------------------------------------------------------------
(* u3_open(); a failure closes the handle, main() prints its message and   *)
(* exits.                                                                  *)

(* usb_open().  Its NULL is used as a handle by the very next call of the  *)
(* library, which ends the process.                                        *)
OpenHandle(p) ==
  /\ At(p, "open")
  /\ \/ /\ dev[p] \in plugged /\ desc[dev[p]].configs = 1
        /\ handle' = [handle EXCEPT ![p] = "live"]
        /\ GoTo(p, "configure")
        /\ UNCHANGED <<stickVars, dev, epIn, epOut, shared, unset>>
     \/ Gone(p)

Claimed(d) == claim[d] # NoProc

(* The kernel lets the process have the interface, or configure the stick. *)
Free(p) == handle[p] = "live" /\ dev[p] \notin driver /\ ~Claimed(dev[p])

(* Mutant of Configure: a configuration that is set is not set again.      *)
ConfigureOnce(p) ==
  /\ At(p, "configure")
  /\ \/ /\ desc[dev[p]].interfaces = 1 /\ desc[dev[p]].altsettings = 1
        /\ UNCHANGED <<stale, unset>>
        /\ shared' = IF Claimed(dev[p]) THEN shared \cup {p} ELSE shared \ {p}
        /\ GoTo(p, "detach")
        /\ UNCHANGED <<dev, handle, epIn, epOut, plugged, driver, claim, desc>>
     \/ ~(desc[dev[p]].interfaces = 1 /\ desc[dev[p]].altsettings = 1) /\ Gone(p)

(* usb_set_configuration(), whose result is not looked at.  The kernel     *)
(* refuses it, or passes the request on: then the stick forgets the        *)
(* command it was at, or the request stalls or times out on the wire and   *)
(* the stick is as it was.                                                 *)
Configure(p) ==
  /\ At(p, "configure")
  /\ \/ /\ desc[dev[p]].interfaces = 1 /\ desc[dev[p]].altsettings = 1
        /\ \/ Free(p) /\ stale' = stale \ {dev[p]} /\ unset' = unset \ {p}
           \/ Free(p) /\ UNCHANGED stale /\ unset' = unset \cup {p}
           \/ ~Free(p) /\ UNCHANGED stale /\ unset' = unset \ {p}
        /\ shared' = IF Claimed(dev[p]) THEN shared \cup {p} ELSE shared \ {p}
        /\ GoTo(p, "detach")
        /\ UNCHANGED <<dev, handle, epIn, epOut, plugged, driver, claim, desc>>
     \/ ~(desc[dev[p]].interfaces = 1 /\ desc[dev[p]].altsettings = 1) /\ Gone(p)

(* usb_detach_kernel_driver_np(), or -61 when there is no driver.          *)
Detach(p) ==
  /\ At(p, "detach")
  /\ \/ /\ handle[p] = "live"
        /\ driver' = driver \ {dev[p]}
        /\ GoTo(p, "claim")
        /\ UNCHANGED <<dev, handle, epIn, epOut, shared, unset, plugged, claim, stale, desc>>
     \/ Gone(p)

(* Mutant of Claim: its result is not looked at either.                    *)
ClaimUnchecked(p) ==
  /\ At(p, "claim")
  /\ claim' = IF Free(p) THEN [claim EXCEPT ![dev[p]] = p] ELSE claim
  /\ GoTo(p, "endpoints")
  /\ UNCHANGED <<dev, handle, epIn, epOut, shared, unset, plugged, driver, stale, desc>>

(* usb_claim_interface(): a driver that is back, or another process's      *)
(* claim, is -EBUSY.                                                       *)
Claim(p) ==
  /\ At(p, "claim")
  /\ \/ /\ Free(p)
        /\ claim' = [claim EXCEPT ![dev[p]] = p]
        /\ shared' = shared \cup {q \in Procs \ {p} : dev[q] = dev[p]}
        /\ GoTo(p, "endpoints")
        /\ UNCHANGED <<dev, handle, epIn, epOut, unset, plugged, driver, stale, desc>>
     \/ Gone(p)

(* Mutant of Chosen: the second endpoint is taken for the other direction. *)
ChosenUnchecked(in, out) == in = "in" \/ out = "out"

(* "Both usb endpoints in same direction!"                                 *)
Chosen(in, out) == in # out

(* The first endpoint tells which of the two is which; claimed_fail gives  *)
(* the claim back.                                                         *)
Endpoints(p) ==
  /\ At(p, "endpoints")
  /\ LET ends == desc[dev[p]].endpoints
         in == IF ends[1] = "in" THEN ends[1] ELSE ends[2]
         out == IF ends[1] = "in" THEN ends[2] ELSE ends[1]
     IN  \/ /\ Len(ends) = 2 /\ Chosen(in, out)
            /\ epIn' = [epIn EXCEPT ![p] = in]
            /\ epOut' = [epOut EXCEPT ![p] = out]
            /\ GoTo(p, "opened")
            /\ UNCHANGED <<stickVars, dev, handle, shared, unset>>
         \/ ~(Len(ends) = 2 /\ Chosen(in, out)) /\ Gone(p)

-----------------------------------------------------------------------------
(* What a process does with the stick: u3_send_cmd(), which may end with a *)
(* command left in the stick, and u3_close(), which gives the claim back   *)
(* and the driver nothing.                                                 *)

Reaches(p) == handle[p] = "live" /\ claim[dev[p]] = p

Send(p) ==
  /\ At(p, "opened")
  /\ Reaches(p)
  /\ stale' = stale \cup {dev[p]}
  /\ GoTo(p, "command")
  /\ UNCHANGED <<dev, handle, epIn, epOut, shared, unset, plugged, driver, claim, desc>>

Answered(p) ==
  /\ At(p, "command")
  /\ \/ Reaches(p) /\ stale' = stale \ {dev[p]}
     \/ UNCHANGED stale
  /\ GoTo(p, "opened")
  /\ UNCHANGED <<dev, handle, epIn, epOut, shared, unset, plugged, driver, claim, desc>>

Close(p) == At(p, "opened") /\ Gone(p)

Killed(p) == ~At(p, "idle") /\ Gone(p)

-----------------------------------------------------------------------------
(* The owner and the kernel                                                *)

Unplug(d) ==
  /\ d \in plugged
  /\ plugged' = plugged \ {d}
  /\ driver' = driver \ {d}
  /\ claim' = [claim EXCEPT ![d] = NoProc]
  /\ stale' = stale \ {d}
  /\ handle' = [p \in Procs |-> IF dev[p] = d /\ handle[p] = "live" THEN "dead"
                                ELSE handle[p]]
  /\ UNCHANGED <<pc, dev, epIn, epOut, shared, unset, desc>>

Plug(d) ==
  /\ d \notin plugged
  /\ plugged' = plugged \cup {d}
  /\ driver' = driver \cup {d}
  /\ UNCHANGED <<procVars, claim, stale, desc>>

(* The owner binds the driver through sysfs.                               *)
Bind(d) ==
  /\ d \in plugged \ driver /\ ~Claimed(d)
  /\ driver' = driver \cup {d}
  /\ stale' = stale \ {d}
  /\ UNCHANGED <<procVars, plugged, claim, desc>>

Open(p) ==
  Locate(p) \/ OpenHandle(p) \/ Configure(p) \/ Detach(p) \/ Claim(p) \/ Endpoints(p)

Next ==
  \/ \E p \in Procs : Open(p) \/ Send(p) \/ Answered(p) \/ Close(p) \/ Killed(p)
  \/ \E d \in Devices : Unplug(d) \/ Plug(d) \/ Bind(d)

Spec == Init /\ [][Next]_vars

-----------------------------------------------------------------------------
(* Properties                                                              *)

InUse == {"opened", "command"}

(* A u3_open() that succeeded has given its process the one endpoint to    *)
(* write to and the one to read from, whatever the order they come in, and *)
(* as long as the stick has not left the bus the claim that goes with      *)
(* them; nobody, the kernel's driver included, shares it.                  *)
OpenedIsUsable ==
  \A p \in Procs : pc[p] \in InUse =>
    /\ epIn[p] = "in" /\ epOut[p] = "out"
    /\ handle[p] = "live" => claim[dev[p]] = p /\ dev[p] \notin driver

(* A process that gets the claim finds nothing of an earlier, unfinished   *)
(* command in the stick, unless another process had the claim when it set  *)
(* the configuration or got and lost it before its own, or its request     *)
(* failed on the wire.  Of the errors of usb_set_configuration() that the  *)
(* code does not look at, the kernel's refusals are harmless as long as    *)
(* runs do not overlap; a failure on the wire is not.                      *)
CleanUnlessUnset ==
  \A p \in Procs :
    At(p, "endpoints") /\ Reaches(p) /\ p \notin shared \cup unset => dev[p] \notin stale

(* The abstract lock.                                                      *)
Linked == [d \in Devices |-> {p \in Procs : pc[p] \in InUse /\ dev[p] = d /\ handle[p] = "live"}]

Lock == INSTANCE StickLock WITH linked <- Linked

LockSpec == Lock!Spec

(* "Don't try to detach driver on Linux": a stick that has a driver keeps  *)
(* it as long as it is on the bus.                                         *)
DriverStays == [][\A d \in Devices : d \in driver /\ d \in plugged' => d \in driver']_vars
=============================================================================
