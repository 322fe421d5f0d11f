---------------------------- MODULE ScsiChannel ----------------------------
(***************************************************************************)
(* What a caller may rely on in a series of u3_send_cmd() calls: the stick *)
(* performs a command at most once, never after the next one was sent, and *)
(* a call that does not fail returns the status its own command was        *)
(* performed with.  A call that fails says nothing: its command may have   *)
(* been performed, may still be, or may never be.                          *)
(***************************************************************************)
EXTENDS Naturals

CONSTANT MaxCommands    \* bound on the number of calls

VARIABLES cmd,          \* the number of the call
          busy,         \* 1 during the call, else 0
          performed,    \* the status the stick performed it with, or "no"
          answer        \* what the call returned

Statuses == {"zero", "nonzero"}

Init == cmd = 0 /\ busy = 0 /\ performed = "no" /\ answer = "none"

Call ==
  /\ busy = 0 /\ cmd < MaxCommands
  /\ busy' = 1 /\ cmd' = cmd + 1
  /\ performed' = "no" /\ answer' = "none"

Perform(status) ==
  /\ cmd > 0 /\ performed = "no"
  /\ performed' = status
  /\ UNCHANGED <<cmd, busy, answer>>

Return ==
  /\ busy = 1 /\ performed # "no"
  /\ busy' = 0 /\ answer' = performed
  /\ UNCHANGED <<cmd, performed>>

Fail ==
  /\ busy = 1
  /\ busy' = 0 /\ answer' = "failure"
  /\ UNCHANGED <<cmd, performed>>

Next == Call \/ Return \/ Fail \/ \E status \in Statuses : Perform(status)

Spec == Init /\ [][Next]_<<cmd, busy, performed, answer>>
=============================================================================
