---------------------------- MODULE UsbTransport ----------------------------
(***************************************************************************)
(* u3_send_cmd() of the libusb subsystem: a command block, at most one     *)
(* packet of data (no command of u3_commands.c carries more than the 2048  *)
(* bytes of USB_MAX_PACKET_LEN), and a command status, over two bulk       *)
(* endpoints of a stick that holds one packet in each.  Every transfer may *)
(* time out, and the stick may still go on with what it was sent.          *)
(*                                                                         *)
(* The tag of every command is 1, so that nothing in a packet says which   *)
(* command it belongs to: the fields "cmd" are for the properties only.    *)
(*                                                                         *)
(* All actions but -D stop at the first call that fails; do_dump() reports *)
(* the failure and sends its next command (GoesOn = TRUE).                 *)
(***************************************************************************)
EXTENDS Naturals

CONSTANTS MaxCommands,    \* bound on the number of calls
          Kinds,          \* the transfer directions of the commands sent
          GoesOn          \* does the caller go on after a failed call?

ASSUME UsbTransportAssumption ==
  /\ MaxCommands \in Nat
  /\ Kinds \subseteq {"none", "in", "out"}
  /\ GoesOn \in BOOLEAN
  /\ GoesOn => Kinds = {"in"}

VARIABLES pc,           \* where u3_send_cmd() or its caller is
          cmd, kind,    \* the number of the call, and its dxfer_direction
          dataOf,       \* the command whose data is in dxfer_data, 0 for none
          answer,       \* what the last call returned
          answerOf,     \* the command whose CSW that was
          outBox,       \* the packet in the stick's bulk-out endpoint
          inBox,        \* the packet in its bulk-in endpoint
          dev,          \* what the stick is doing
          devCmd, devKind, devStatus,    \* and for which command
          performed     \* the status the stick performed command cmd with

hostVars == <<pc, cmd, kind, dataOf, answer, answerOf>>
devVars == <<dev, devCmd, devKind, devStatus, performed>>
vars == <<hostVars, devVars, outBox, inBox>>

Statuses == {"zero", "nonzero"}

Busy == {"cbw", "out", "in", "csw"}

(* A packet; "what" is the direction of a CBW, the status of a CSW.        *)
Packets ==
  LET Made(types, whats) == [type : types, cmd : 0 .. MaxCommands, what : whats]
  IN  Made({"nothing", "data", "stall"}, {"none"})
        \cup Made({"cbw"}, {"none", "in", "out"}) \cup Made({"csw"}, Statuses)

Packet(type, of, what) == [type |-> type, cmd |-> of, what |-> what]

Nothing == Packet("nothing", 0, "none")

TypeOK ==
  /\ pc \in Busy \cup {"ready", "ended", "aborted"}
  /\ cmd \in 0 .. MaxCommands
  /\ kind \in {"none", "in", "out"}
  /\ dataOf \in 0 .. MaxCommands
  /\ answer \in Statuses \cup {"none", "failure"}
  /\ answerOf \in 0 .. MaxCommands
  /\ outBox \in Packets /\ inBox \in Packets
  /\ dev \in {"idle", "receiving", "working", "sending", "reporting"}
  /\ devCmd \in 0 .. MaxCommands
  /\ devKind \in {"none", "in", "out"}
  /\ devStatus \in Statuses
  /\ performed \in Statuses \cup {"no"}

Init ==
  /\ pc = "ended" /\ cmd = 0 /\ kind = "none" /\ dataOf = 0
  /\ answer = "none" /\ answerOf = 0
  /\ outBox = Nothing /\ inBox = Nothing
  /\ dev = "idle" /\ devCmd = 0 /\ devKind = "none" /\ devStatus = "zero"
  /\ performed = "no"

-----------------------------------------------------------------------------
(* The caller                                                              *)

(* Mutant of Open: the configuration is not set.                           *)
OpenAsItIs ==
  /\ pc \in {"ended", "aborted"}
  /\ pc' = "ready"
  /\ UNCHANGED <<cmd, kind, dataOf, answer, answerOf, devVars, outBox, inBox>>

(* u3_open() of the next run of the tool: usb_set_configuration() and      *)
(* usb_set_altinterface() put the endpoints into their initial state, and  *)
(* the stick forgets the command it was at.  The results are not looked    *)
(* at; here the first has worked, which takes a stick nobody else has.     *)
Open ==
  /\ pc \in {"ended", "aborted"}
  /\ pc' = "ready"
  /\ outBox' = Nothing /\ inBox' = Nothing /\ dev' = "idle"
  /\ UNCHANGED <<cmd, kind, dataOf, answer, answerOf, devCmd, devKind, devStatus, performed>>

Call(k) ==
  /\ pc = "ready" /\ cmd < MaxCommands
  /\ pc' = "cbw" /\ cmd' = cmd + 1 /\ kind' = k
  /\ dataOf' = 0 /\ answer' = "none" /\ answerOf' = 0 /\ performed' = "no"
  /\ UNCHANGED <<dev, devCmd, devKind, devStatus, outBox, inBox>>

(* u3_close().                                                             *)
Close ==
  /\ pc = "ready"
  /\ pc' = "ended"
  /\ UNCHANGED <<cmd, kind, dataOf, answer, answerOf, devVars, outBox, inBox>>

(* Mutant of Fails: every caller goes on.                                  *)
FailsGoingOn ==
  /\ answer' = "failure"
  /\ pc' = "ready"
  /\ UNCHANGED <<cmd, kind, dataOf, answerOf>>

(* U3_FAILURE, and what the caller does then.                              *)
Fails ==
  /\ answer' = "failure"
  /\ pc' = IF GoesOn THEN "ready" ELSE "ended"
  /\ UNCHANGED <<cmd, kind, dataOf, answerOf>>

Killed ==
  /\ pc \in Busy
  /\ pc' = "ended" /\ answer' = "failure"
  /\ UNCHANGED <<cmd, kind, dataOf, answerOf, devVars, outBox, inBox>>

GoTo(phase) == pc' = phase /\ UNCHANGED <<cmd, kind, dataOf, answer, answerOf>>

-----------------------------------------------------------------------------
(* u3_send_cmd()                                                           *)

(* Mutants of Phase: the direction is not translated; the data phase of a  *)
(* command that asks for data is left out.                                 *)
PhaseUntranslated(k) == k

PhaseNoData(k) == IF k = "out" THEN "out" ELSE "csw"

Phase(k) == IF k = "none" THEN "csw" ELSE k

(* usb_bulk_write(): it may fail and the packet arrive nevertheless.       *)
Write(packet, next) ==
  /\ \/ outBox = Nothing /\ outBox' = packet /\ (GoTo(next) \/ Fails)
     \/ UNCHANGED outBox /\ Fails
  /\ UNCHANGED <<devVars, inBox>>

WriteCbw == pc = "cbw" /\ Write(Packet("cbw", cmd, kind), Phase(kind))

WriteData == pc = "out" /\ Write(Packet("data", cmd, "none"), "csw")

(* usb_bulk_read(): only a negative result fails, so that whatever packet  *)
(* is there is taken for the data, even a CSW that is shorter.             *)
ReadData ==
  /\ pc = "in"
  /\ \/ /\ inBox.type \in {"data", "csw"}
        /\ inBox' = Nothing
        /\ pc' = "csw"
        /\ dataOf' = IF inBox.type = "data" THEN inBox.cmd ELSE 0
        /\ UNCHANGED <<cmd, kind, answer, answerOf>>
     \/ UNCHANGED inBox /\ Fails
  /\ UNCHANGED <<devVars, outBox>>

(* Mutants of ReadStatus: a status that could not be read is taken for     *)
(* zero; and one that does not come is waited for.                         *)
ReadStatusUnchecked ==
  /\ pc = "csw"
  /\ pc' = "ready" /\ answer' = "zero" /\ answerOf' = cmd
  /\ UNCHANGED <<cmd, kind, dataOf, devVars, inBox, outBox>>

ReadStatusNoTimeout ==
  /\ pc = "csw"
  /\ inBox.type = "csw"
  /\ inBox' = Nothing
  /\ pc' = "ready" /\ answer' = inBox.what /\ answerOf' = inBox.cmd
  /\ UNCHANGED <<cmd, kind, dataOf, devVars, outBox>>

(* assert(tag == csw.dCSWTag) passes for every CSW and stops the tool for  *)
(* any other packet, whose bytes are no tag.                               *)
ReadStatus ==
  /\ pc = "csw"
  /\ \/ /\ inBox.type = "csw"
        /\ inBox' = Nothing
        /\ pc' = "ready" /\ answer' = inBox.what /\ answerOf' = inBox.cmd
        /\ UNCHANGED <<cmd, kind, dataOf>>
     \/ /\ inBox.type = "data"
        /\ inBox' = Nothing
        /\ pc' = "aborted" /\ answer' = "failure"
        /\ UNCHANGED <<cmd, kind, dataOf, answerOf>>
     \/ UNCHANGED inBox /\ Fails
  /\ UNCHANGED <<devVars, outBox>>

-----------------------------------------------------------------------------
(* The stick                                                               *)

TakeCbw ==
  /\ dev = "idle" /\ outBox.type = "cbw"
  /\ dev' = IF outBox.what = "out" THEN "receiving" ELSE "working"
  /\ devCmd' = outBox.cmd /\ devKind' = outBox.what
  /\ outBox' = Nothing
  /\ UNCHANGED <<hostVars, devStatus, performed, inBox>>

TakeData ==
  /\ dev = "receiving" /\ outBox # Nothing
  /\ dev' = "working" /\ outBox' = Nothing
  /\ UNCHANGED <<hostVars, devCmd, devKind, devStatus, performed, inBox>>

Perform ==
  /\ dev = "working"
  /\ dev' = IF devKind = "in" THEN "sending" ELSE "reporting"
  /\ devStatus' \in Statuses
  /\ performed' = IF devCmd = cmd THEN devStatus' ELSE performed
  /\ UNCHANGED <<hostVars, devCmd, devKind, outBox, inBox>>

(* A command that cannot be served may have its data phase stalled; the    *)
(* tool never clears the halt of the endpoint.                             *)
SendData ==
  /\ dev = "sending" /\ inBox = Nothing
  /\ \/ inBox' = Packet("data", devCmd, "none")
     \/ devStatus = "nonzero" /\ inBox' = Packet("stall", devCmd, "none")
  /\ dev' = "reporting"
  /\ UNCHANGED <<hostVars, devCmd, devKind, devStatus, performed, outBox>>

Report ==
  /\ dev = "reporting" /\ inBox = Nothing
  /\ inBox' = Packet("csw", devCmd, devStatus)
  /\ dev' = "idle"
  /\ UNCHANGED <<hostVars, devCmd, devKind, devStatus, performed, outBox>>

-----------------------------------------------------------------------------
Caller == Open \/ Close \/ Killed \/ \E k \in Kinds : Call(k)

SendCmd == WriteCbw \/ WriteData \/ ReadData \/ ReadStatus

Stick == TakeCbw \/ TakeData \/ Perform \/ SendData \/ Report

Next == Caller \/ SendCmd \/ Stick

Spec == Init /\ [][Next]_vars

(* The process runs, and its transfers time out; nothing is assumed of the *)
(* stick.                                                                  *)
FairSpec == Spec /\ WF_vars(SendCmd)

-----------------------------------------------------------------------------
(* Properties                                                              *)

(* The status a call returns is that of its own command, and so is the     *)
(* data of a command that reads: no packet of an earlier command is taken  *)
(* for an answer, although nothing in it would tell.                       *)
OwnAnswer ==
  answer \in Statuses =>
    /\ answerOf = cmd
    /\ kind = "in" => dataOf = cmd

(* assert(tag == csw.dCSWTag) never fails.                                 *)
NeverAborts == pc # "aborted"

(* u3_send_cmd() returns, even from a stick that does not answer.          *)
SendReturns == pc \in Busy ~> pc \notin Busy

(* The inductive invariant behind these, for callers that stop: where the  *)
(* stick is with the current command ...                                   *)
StickInv ==
  /\ outBox.type = "cbw" =>
       dev = "idle" /\ inBox = Nothing /\ outBox.cmd = cmd /\ outBox.what = kind
         /\ performed = "no"
  /\ dev # "idle" => devCmd = cmd /\ devKind = kind
  /\ outBox # Nothing \/ dev # "idle" => cmd > 0
  /\ dev = "receiving" => kind = "out"
  /\ dev \in {"receiving", "working"} => performed = "no" /\ inBox = Nothing
  /\ dev \in {"sending", "reporting"} => performed = devStatus
  /\ dev \in {"working", "sending", "reporting"} => outBox = Nothing
  /\ dev = "sending" => inBox = Nothing /\ kind = "in"
  /\ inBox.type = "csw" =>
       dev = "idle" /\ outBox = Nothing /\ inBox.cmd = cmd /\ inBox.what = performed
  /\ inBox.type \in {"data", "stall"} => dev = "reporting" /\ kind = "in"
  /\ inBox.type = "data" => inBox.cmd = cmd

(* ... and where u3_send_cmd() is when the stick is there.                 *)
HostInv ==
  /\ pc \in {"ready", "cbw"} => dev = "idle" /\ outBox = Nothing /\ inBox = Nothing
  /\ pc = "cbw" => cmd > 0 /\ performed = "no"
  /\ pc = "out" => /\ kind = "out"
                   /\ \/ dev = "idle" /\ outBox.type = "cbw"
                      \/ dev = "receiving" /\ outBox = Nothing
  /\ pc = "in" => /\ kind = "in"
                  /\ \/ dev = "idle" /\ outBox.type = "cbw"
                     \/ dev \in {"working", "sending"}
                     \/ dev = "reporting" /\ inBox # Nothing
  /\ pc = "csw" => \/ dev = "idle" /\ outBox.type = "cbw" /\ kind = "none"
                   \/ dev = "receiving" /\ outBox # Nothing
                   \/ dev = "working" /\ kind # "in"
                   \/ dev = "reporting" /\ inBox = Nothing
                   \/ dev = "idle" /\ inBox.type = "csw"
  /\ pc = "csw" /\ kind = "in" => dataOf = cmd

ExchangeInv == TypeOK /\ StickInv /\ HostInv /\ OwnAnswer /\ NeverAborts

(* What the callers are told is what ScsiChannel promises.                 *)
Channel == INSTANCE ScsiChannel WITH busy <- IF pc \in Busy THEN 1 ELSE 0

ChannelSpec == Channel!Spec
=============================================================================
