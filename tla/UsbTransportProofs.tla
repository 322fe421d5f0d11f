------------------------- MODULE UsbTransportProofs -------------------------
(* Proofs about UsbTransport, for any number of commands: first for        *)
(* callers that stop at the first failure, then for every caller, as far   *)
(* as the stick is done with one command before the next is sent.          *)
EXTENDS UsbTransport, TLAPS

(* No command is mistaken for another part of an exchange.                 *)
LEMMA PacketFacts ==
  /\ Nothing \in Packets /\ Nothing.type = "nothing"
  /\ \A n \in 0 .. MaxCommands :
       /\ Packet("data", n, "none") \in Packets /\ Packet("stall", n, "none") \in Packets
       /\ \A k \in {"none", "in", "out"} : Packet("cbw", n, k) \in Packets
       /\ \A s \in Statuses : Packet("csw", n, s) \in Packets
  /\ \A t, n, w :
       /\ Packet(t, n, w).type = t /\ Packet(t, n, w).cmd = n /\ Packet(t, n, w).what = w
       /\ t # "nothing" => Packet(t, n, w) # Nothing
<1>1. MaxCommands \in Nat
  BY UsbTransportAssumption
<1> QED BY <1>1 DEF Nothing, Packet, Packets

(* The fields of a packet.                                                 *)
LEMMA PacketParts ==
  ASSUME NEW packet \in Packets
  PROVE  /\ packet.cmd \in 0 .. MaxCommands
         /\ packet.type \in {"nothing", "cbw", "data", "csw", "stall"}
         /\ packet.type = "cbw" => packet.what \in {"none", "in", "out"}
         /\ packet.type = "csw" => packet.what \in Statuses
BY DEF Packets

(* The variables keep their types in every step, whoever takes it.         *)
LEMMA TypeStep ==
  ASSUME TypeOK, [Next]_vars
  PROVE  TypeOK'
<1>0. MaxCommands \in Nat /\ Kinds \subseteq {"none", "in", "out"}
  BY UsbTransportAssumption
<1> USE <1>0 DEF TypeOK, Busy, Statuses
<1>1. CASE Caller
  BY <1>1, PacketFacts DEF Caller, Open, Close, Killed, Call, devVars
<1>2. CASE SendCmd
  <2>1. CASE WriteCbw \/ WriteData
    BY <2>1, PacketFacts DEF WriteCbw, WriteData, Write, GoTo, Fails, Phase, devVars
  <2>2. CASE ReadData
    BY <2>2, PacketFacts, PacketParts DEF ReadData, Fails, devVars
  <2>3. CASE ReadStatus
    BY <2>3, PacketFacts, PacketParts DEF ReadStatus, Fails, devVars
  <2> QED BY <1>2, <2>1, <2>2, <2>3 DEF SendCmd
<1>3. CASE Stick
  <2>1. CASE TakeCbw
    BY <2>1, PacketFacts, PacketParts DEF TakeCbw, hostVars
  <2>2. CASE TakeData \/ Perform
    BY <2>2, PacketFacts DEF TakeData, Perform, hostVars
  <2>3. CASE SendData \/ Report
    BY <2>3, PacketFacts DEF SendData, Report, hostVars
  <2> QED BY <1>3, <2>1, <2>2, <2>3 DEF Stick
<1>4. CASE UNCHANGED vars
  BY <1>4 DEF vars, hostVars, devVars
<1> QED BY <1>1, <1>2, <1>3, <1>4 DEF Next

(* Every variable of the exchange has its type in every reachable state,   *)
(* whatever times out and whoever calls.                                   *)
THEOREM TypeCorrect == Spec => []TypeOK
<1>1. Init => TypeOK
  BY PacketFacts, UsbTransportAssumption DEF Init, TypeOK, Busy, Statuses
<1>2. TypeOK /\ [Next]_vars => TypeOK'
  BY TypeStep
<1> QED BY <1>1, <1>2, PTL DEF Spec

-----------------------------------------------------------------------------

(* Every step of callers that stop preserves the inductive invariant.      *)
LEMMA ExchangeStep ==
  ASSUME GoesOn = FALSE, ExchangeInv, [Next]_vars
  PROVE  ExchangeInv'
<1>1. TypeOK'
  BY TypeStep DEF ExchangeInv
<1> SUFFICES StickInv' /\ HostInv' /\ OwnAnswer' /\ NeverAborts'
  BY <1>1 DEF ExchangeInv
<1> USE PacketFacts DEF ExchangeInv, TypeOK, StickInv, HostInv, OwnAnswer, NeverAborts, Busy, Statuses
<1>2. CASE Open
  BY <1>2 DEF Open
<1>3. CASE Close \/ Killed
  BY <1>3 DEF Close, Killed, devVars
<1>4. ASSUME NEW k \in Kinds, Call(k)
      PROVE  StickInv' /\ HostInv' /\ OwnAnswer' /\ NeverAborts'
  BY <1>4 DEF Call
<1>5. CASE WriteCbw
  BY <1>5 DEF WriteCbw, Write, GoTo, Fails, Phase, devVars
<1>6. CASE WriteData
  BY <1>6 DEF WriteData, Write, GoTo, Fails, devVars
<1>7. CASE ReadData
  BY <1>7 DEF ReadData, Fails, devVars
<1>8. CASE ReadStatus
  BY <1>8 DEF ReadStatus, Fails, devVars
<1>9. CASE TakeCbw
  BY <1>9 DEF TakeCbw, hostVars
<1>10. CASE TakeData
  BY <1>10 DEF TakeData, hostVars
<1>11. CASE Perform
  BY <1>11 DEF Perform, hostVars
<1>12. CASE SendData
  BY <1>12 DEF SendData, hostVars
<1>13. CASE Report
  BY <1>13 DEF Report, hostVars
<1>14. CASE UNCHANGED vars
  BY <1>14 DEF vars, hostVars, devVars
<1> QED
  BY <1>2, <1>3, <1>4, <1>5, <1>6, <1>7, <1>8, <1>9, <1>10, <1>11, <1>12, <1>13, <1>14
     DEF Next, Caller, SendCmd, Stick

(* For callers that stop, the stick and u3_send_cmd() agree on where the   *)
(* exchange is.                                                            *)
THEOREM ExchangeInvariant ==
  ASSUME GoesOn = FALSE
  PROVE  Spec => []ExchangeInv
<1>1. Init => ExchangeInv
  BY PacketFacts, UsbTransportAssumption
     DEF Init, ExchangeInv, TypeOK, StickInv, HostInv, OwnAnswer, NeverAborts, Busy, Statuses
<1>2. ExchangeInv /\ [Next]_vars => ExchangeInv'
  BY ExchangeStep
<1> QED BY <1>1, <1>2, PTL DEF Spec

(* The answer a call returns belongs to its own command, although the tag  *)
(* is the same in all of them.                                             *)
THEOREM AnswersAreOwn ==
  ASSUME GoesOn = FALSE
  PROVE  Spec => []OwnAnswer
<1>1. ExchangeInv => OwnAnswer
  BY DEF ExchangeInv
<1> QED BY <1>1, ExchangeInvariant, PTL

(* The assertion of u3_send_cmd() holds.                                   *)
THEOREM AssertionHolds ==
  ASSUME GoesOn = FALSE
  PROVE  Spec => []NeverAborts
<1>1. ExchangeInv => NeverAborts
  BY DEF ExchangeInv
<1> QED BY <1>1, ExchangeInvariant, PTL

-----------------------------------------------------------------------------

(* Every step is one of ScsiChannel or changes nothing it sees.            *)
LEMMA ChannelStep ==
  ASSUME TypeOK, StickInv, [Next]_vars
  PROVE  [Channel!Next]_<<cmd, IF pc \in Busy THEN 1 ELSE 0, performed, answer>>
<1> DEFINE Shown == <<cmd, IF pc \in Busy THEN 1 ELSE 0, performed, answer>>
<1> USE PacketFacts DEF TypeOK, Busy, Statuses
<1>1. CASE Open \/ Close \/ TakeCbw \/ TakeData \/ SendData \/ Report \/ UNCHANGED vars
  <2>1. UNCHANGED Shown
    BY <1>1 DEF Open, Close, TakeCbw, TakeData, SendData, Report, hostVars, devVars, vars
  <2> QED BY <2>1
<1>2. ASSUME NEW k \in Kinds, Call(k) PROVE Channel!Call
  BY <1>2 DEF Call, Channel!Call
<1>3. CASE Killed
  <2>1. Channel!Fail
    BY <1>3 DEF Killed, devVars, Channel!Fail
  <2> QED BY <2>1 DEF Channel!Next
<1>4. CASE WriteCbw \/ WriteData \/ ReadData
  <2>1. pc \in Busy
    BY <1>4 DEF WriteCbw, WriteData, ReadData
  <2>2. UNCHANGED performed /\ (Fails \/ (pc' \in Busy /\ UNCHANGED <<cmd, answer>>))
    BY <1>4 DEF WriteCbw, WriteData, ReadData, Write, GoTo, Phase, devVars
  <2>3. CASE Fails
    BY <2>1, <2>2, <2>3 DEF Fails, Channel!Fail, Channel!Next
  <2>4. CASE pc' \in Busy /\ UNCHANGED <<cmd, answer>>
    BY <2>1, <2>2, <2>4
  <2> QED BY <2>2, <2>3, <2>4
<1>5. CASE ReadStatus
  <2>1. pc \in Busy /\ pc' \notin Busy /\ UNCHANGED <<cmd, performed>>
    BY <1>5 DEF ReadStatus, Fails, devVars
  <2>2. answer' = "failure" \/ (inBox.type = "csw" /\ answer' = inBox.what)
    BY <1>5 DEF ReadStatus, Fails
  <2>3. CASE answer' = "failure"
    BY <2>1, <2>3 DEF Channel!Fail, Channel!Next
  <2>4. CASE inBox.type = "csw" /\ answer' = inBox.what
    <3>1. inBox.what = performed /\ performed # "no"
      BY <2>4, PacketParts DEF StickInv
    <3> QED BY <2>1, <2>4, <3>1 DEF Channel!Return, Channel!Next
  <2> QED BY <2>2, <2>3, <2>4
<1>6. CASE Perform
  <2>1. performed = "no" /\ devCmd = cmd /\ cmd > 0
    BY <1>6 DEF Perform, StickInv
  <2>2. Channel!Perform(devStatus')
    BY <1>6, <2>1 DEF Perform, hostVars, Channel!Perform
  <2> QED BY <1>6, <2>2 DEF Perform, Channel!Next, Channel!Statuses
<1> QED
  BY <1>1, <1>2, <1>3, <1>4, <1>5, <1>6 DEF Next, Caller, SendCmd, Stick, Channel!Next

(* The packet exchange implements ScsiChannel: the abstraction of a call   *)
(* that SecurityTool and CdTool are written with.                          *)
THEOREM ImplementsChannel ==
  ASSUME GoesOn = FALSE
  PROVE  Spec => ChannelSpec
<1>1. Init => Channel!Init
  BY DEF Init, Channel!Init, Busy
<1>2. ExchangeInv /\ [Next]_vars
        => [Channel!Next]_<<cmd, IF pc \in Busy THEN 1 ELSE 0, performed, answer>>
  BY ChannelStep DEF ExchangeInv
<1> QED
  BY <1>1, <1>2, ExchangeInvariant, PTL DEF Spec, ChannelSpec, Channel!Spec
-----------------------------------------------------------------------------
(* Callers that go on.                                                     *)

(* The stick is done with all it was sent, and all it sent has been read.  *)
Settled == dev = "idle" /\ outBox = Nothing /\ inBox = Nothing

AnyCall == \E k \in Kinds : Call(k)

(* Whoever calls finds the stick done.                                     *)
CallsSettled == [][AnyCall => Settled]_vars

(* What is left of ExchangeInv while do_dump() is between a call that      *)
(* failed and the next one: the stick may be anywhere with the old command.*)
LateInv ==
  /\ TypeOK /\ StickInv /\ OwnAnswer /\ NeverAborts
  /\ HostInv \/ (pc = "ready" /\ answer = "failure")

(* A step preserves LateInv, whether or not the caller goes on after a     *)
(* failure, if it is no call to a stick that is still busy.                *)
LEMMA LateStep ==
  ASSUME LateInv, [Next]_vars, [AnyCall => Settled]_vars
  PROVE  LateInv'
<1>1. TypeOK'
  BY TypeStep DEF LateInv
<1> SUFFICES /\ StickInv' /\ OwnAnswer' /\ NeverAborts'
             /\ HostInv' \/ (pc' = "ready" /\ answer' = "failure")
  BY <1>1 DEF LateInv
<1> USE PacketFacts DEF LateInv, TypeOK, StickInv, HostInv, OwnAnswer, NeverAborts, Busy, Statuses
<1>2. CASE Open
  BY <1>2 DEF Open
<1>3. CASE Close \/ Killed
  BY <1>3 DEF Close, Killed, devVars
<1>4. ASSUME NEW k \in Kinds, Call(k)
      PROVE  /\ StickInv' /\ OwnAnswer' /\ NeverAborts'
             /\ HostInv' \/ (pc' = "ready" /\ answer' = "failure")
  <2>1. Settled
    BY <1>4 DEF AnyCall, Call, vars, hostVars
  <2> QED BY <1>4, <2>1 DEF Call, Settled
<1>5. CASE WriteCbw
  BY <1>5 DEF WriteCbw, Write, GoTo, Fails, Phase, devVars
<1>6. CASE WriteData
  BY <1>6 DEF WriteData, Write, GoTo, Fails, devVars
<1>7. CASE ReadData
  BY <1>7 DEF ReadData, Fails, devVars
<1>8. CASE ReadStatus
  BY <1>8 DEF ReadStatus, Fails, devVars
<1>9. CASE TakeCbw
  BY <1>9 DEF TakeCbw, hostVars
<1>10. CASE TakeData
  BY <1>10 DEF TakeData, hostVars
<1>11. CASE Perform
  BY <1>11 DEF Perform, hostVars
<1>12. CASE SendData
  BY <1>12 DEF SendData, hostVars
<1>13. CASE Report
  BY <1>13 DEF Report, hostVars
<1>14. CASE UNCHANGED vars
  BY <1>14 DEF vars, hostVars, devVars
<1> QED
  BY <1>2, <1>3, <1>4, <1>5, <1>6, <1>7, <1>8, <1>9, <1>10, <1>11, <1>12, <1>13, <1>14
     DEF Next, Caller, SendCmd, Stick

(* LateInv holds as long as no call finds the stick busy.                  *)
LEMMA LateInvariant == Spec /\ CallsSettled => []LateInv
<1>1. Init => LateInv
  BY PacketFacts, UsbTransportAssumption
     DEF Init, LateInv, TypeOK, StickInv, HostInv, OwnAnswer, NeverAborts, Busy, Statuses
<1>2. LateInv /\ [Next]_vars /\ [AnyCall => Settled]_vars => LateInv'
  BY LateStep
<1> QED BY <1>1, <1>2, PTL DEF Spec, CallsSettled

(* -D too is told the answers of its own commands as long as it sends none *)
(* to a stick that is not done with one that failed: nothing else can mix  *)
(* up two answers or stop it at the assertion.                             *)
THEOREM SettledAnswersAreOwn == Spec /\ CallsSettled => [](OwnAnswer /\ NeverAborts)
<1>1. LateInv => OwnAnswer /\ NeverAborts
  BY DEF LateInv
<1> QED BY <1>1, LateInvariant, PTL

(* And as long as it does not, it is told what ScsiChannel promises.       *)
THEOREM SettledImplementsChannel == Spec /\ CallsSettled => ChannelSpec
<1>1. Init => Channel!Init
  BY DEF Init, Channel!Init, Busy
<1>2. LateInv /\ [Next]_vars
        => [Channel!Next]_<<cmd, IF pc \in Busy THEN 1 ELSE 0, performed, answer>>
  BY ChannelStep DEF LateInv
<1> QED
  BY <1>1, <1>2, LateInvariant, PTL DEF Spec, ChannelSpec, Channel!Spec
=============================================================================
