---------------------------- MODULE ScsiCommand ----------------------------
(***************************************************************************)
(* What u3_send_cmd() promises its callers, whatever the subsystem behind  *)
(* it: U3_SUCCESS with the command's SCSI status, or U3_FAILURE, after     *)
(* which nobody knows whether the command was executed.                    *)
(***************************************************************************)
EXTENDS Naturals

Statuses == {0, 1}    \* 0 for success, 1 for every other value

(* The command runs and its status comes back; or the stick is busy and    *)
(* answers with a non-zero status without running it; or the call fails    *)
(* because the command was lost, or because only its answer was.           *)
ScsiCall(Command(_), NoEffect, OnStatus(_), OnFailure) ==
  \/ \E status \in Statuses : Command(status) /\ OnStatus(status)
  \/ NoEffect /\ OnStatus(1)
  \/ NoEffect /\ OnFailure
  \/ \E status \in Statuses : Command(status) /\ OnFailure
=============================================================================
