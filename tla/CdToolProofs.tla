---------------------------- MODULE CdToolProofs ----------------------------
(* Proofs about CdTool, for every device size, block size and word size,   *)
(* every rounding the device may do, and any number of processes, with the *)
(* claim of u3_open() or without it; only OkIsLoaded needs the claim.      *)
EXTENDS CdTool, TLAPS

(* The variables of the file are kept together by most steps.              *)
USE DEF fileVars

(* A remainder is below its divisor.                                       *)
LEMMA Remainder ==
  ASSUME NEW k \in Nat, NEW w \in Nat \ {0}
  PROVE  k % w \in 0 .. w - 1
OBVIOUS

(* The assumptions on the constants, without their quantifiers.            *)
LEMMA ConstantTypes ==
  /\ DeviceSize \in Nat /\ Word \in Nat \ {0} /\ DeviceSize < Word
  /\ DeviceSize \in Sectors /\ 0 \in Sectors /\ Sectors \subseteq Nat
  /\ SectorSize \in Nat \ {0}
  /\ Requests \subseteq Nat /\ IsoSizes \subseteq Nat
<1>1. /\ Word \in Nat \ {0} /\ DeviceSize \in Sectors
      /\ SectorSize \in Nat \ {0}
      /\ Requests \subseteq Nat /\ IsoSizes \subseteq Nat
  BY CdPartitionAssumption, CdToolAssumption
<1>2. DeviceSize \in Nat /\ DeviceSize < Word
  BY <1>1 DEF Sectors
<1>3. 0 \in Sectors /\ Sectors \subseteq Nat
  BY <1>1 DEF Sectors
<1> QED BY <1>1, <1>2, <1>3

(* The conversions from bytes to sectors and blocks yield numbers.         *)
LEMMA BytesTypes ==
  ASSUME NEW n \in Nat
  PROVE  CdSectors(n) \in Sectors /\ LoadSectors(n) \in Nat
<1>1. SectorSize \in Nat \ {0} /\ Word \in Nat \ {0}
  BY ConstantTypes
<1>2. n \div SectorSize \in Nat
  BY <1>1
<1>3. Extra(n) \in Nat
  BY DEF Extra
<1>4. ASSUME NEW k \in Nat PROVE Uint32(k) \in Sectors
  BY <1>1, Remainder DEF Uint32, Sectors
<1>5. ASSUME NEW k \in Nat PROVE Uint32(k) \in Nat
  BY <1>1, Remainder DEF Uint32
<1>6. Uint32(n \div SectorSize) + Extra(n) \in Nat
  BY <1>2, <1>3, <1>5
<1>7. CdSectors(n) \in Sectors
  BY <1>4, <1>6 DEF CdSectors
<1>8. LoadSectors(n) \in Nat
  BY <1>2, <1>3 DEF LoadSectors
<1> QED BY <1>7, <1>8

(* The stick rounds sector counts to sector counts, up and down.           *)
LEMMA RoundTypes ==
  ASSUME NEW n \in Sectors
  PROVE  /\ RoundUp[n] \in Sectors
         /\ RoundDown[n] \in Sectors /\ RoundDown[n] <= n
BY CdPartitionAssumption

(* Every initial state is well-typed.                                      *)
LEMMA TypeInit == Init => TypeOK
<1> SUFFICES ASSUME Init PROVE TypeOK
  OBVIOUS
<1>1. PICK cd \in Sectors :
        cd <= DeviceSize /\ table = [cd |-> cd, data |-> RoundDown[DeviceSize - cd]]
  BY DEF Init
<1>2. DeviceSize - cd \in Sectors
  BY <1>1, ConstantTypes DEF Sectors
<1>3. table \in Tables
  BY <1>1, <1>2, RoundTypes DEF Tables
<1>4. disc \in [Blocks -> (Nat \X Nat)]
  BY DEF Init, Foreign
<1> QED BY <1>3, <1>4, ConstantTypes DEF Init, TypeOK, Labels, PartitionLabels, LoadLabels, Sectors

(* What a command does to the stick keeps its state well-typed.            *)
LEMMA StickTypes ==
  ASSUME TypeOK, NEW p \in Procs, NEW status \in Statuses,
         \/ Repartition([cd |-> sectors[p], data |-> dataSize[p]], status)
              /\ At(p, "partition")
         \/ WriteBlock(blockNum[p], <<size[p], filePos[p]>>, status)
         \/ Disconnect(status)
         \/ UNCHANGED discVars
         \/ Reconnect
  PROVE  /\ table' \in Tables /\ staged' \in Tables
         /\ disc' \in [Blocks -> (Nat \X Nat)]
         /\ plugged' \in BOOLEAN
<1> USE DEF TypeOK
<1>1. CASE Repartition([cd |-> sectors[p], data |-> dataSize[p]], status)
             /\ At(p, "partition")
  BY <1>1 DEF Repartition, Tables, Foreign, At, PartitionLabels
<1>2. CASE WriteBlock(blockNum[p], <<size[p], filePos[p]>>, status)
  BY <1>2 DEF WriteBlock, discVars
<1>3. CASE Disconnect(status)
  BY <1>3 DEF Disconnect
<1>4. CASE UNCHANGED discVars
  BY <1>4 DEF discVars
<1>5. CASE Reconnect
  BY <1>5 DEF Reconnect
<1> QED BY <1>1, <1>2, <1>3, <1>4, <1>5

(* The tool's own variables, in every step that is not the stick's.        *)
LEMMA ToolTypes ==
  ASSUME TypeOK, NEW p \in Procs, Main(p) \/ Act(p) \/ Killed(p) \/ Signal(p) \/ Append(p)
  PROVE  /\ pc' \in [Procs -> Labels]
         /\ result' \in [Procs -> {"none", "ok", "failed", "declined"}]
         /\ action' \in [Procs -> {"none", "partition", "load"}]
         /\ size' \in [Procs -> Nat]
         /\ filePos' \in [Procs -> Nat] /\ blockNum' \in [Procs -> Nat]
         /\ length' \in [Procs -> Nat] /\ eof' \subseteq Procs
         /\ quit' \in [Procs -> BOOLEAN]
         /\ linked' \subseteq Procs
<1> USE DEF TypeOK, Labels, PartitionLabels, LoadLabels, At, GoTo, Finish, GivesUp
<1>0. /\ Requests \subseteq Nat /\ IsoSizes \subseteq Nat
      /\ Actions \subseteq {"none", "partition", "load"}
  BY CdToolAssumption
<1>1. CASE Start(p)
  <2>1. action' \in [Procs -> {"none", "partition", "load"}]
    BY <1>0, <1>1 DEF Start
  <2> QED BY <1>1, <2>1 DEF Start
<1>2. CASE Gone(p)
  BY <1>2 DEF Gone
<1>3. CASE Open(p) \/ Confirm(p) \/ Signal(p)
  <2>1. CASE Confirm(p)
    <3>1. size' \in [Procs -> Nat]
      BY <1>0, <2>1 DEF Confirm
    <3> QED BY <2>1, <3>1 DEF Confirm
  <2> QED BY <1>3, <2>1 DEF Open, Signal
<1>4. CASE RoundCdSize(p) \/ ReadDeviceSize(p) \/ RoundDataSize(p) \/ SleepOver(p)
  BY <1>4 DEF RoundCdSize, ReadDeviceSize, RoundDataSize, SleepOver
<1>5. CASE Partition(p)
  BY <1>5 DEF Partition, SendCmd, ScsiCall, PartitionStatus
<1>6. CASE Reset(p)
  BY <1>6 DEF Reset, SendCmd, ScsiCall, ResetStatus
<1>7. CASE Stat(p) \/ PartitionInfo(p) \/ CheckFits(p) \/ OpenFile(p) \/ ReadBlock(p)
  <2>1. CASE Stat(p)
    <3>1. size' \in [Procs -> Nat]
      BY <1>0, <2>1 DEF Stat
    <3> QED BY <2>1, <3>1 DEF Stat
  <2>2. CASE PartitionInfo(p) \/ CheckFits(p)
    BY <2>2 DEF PartitionInfo, CheckFits
  <2>3. CASE OpenFile(p)
    <3>1. length' \in [Procs -> Nat]
      BY <1>0, <2>3 DEF OpenFile
    <3> QED BY <2>3, <3>1 DEF OpenFile
  <2>4. CASE ReadBlock(p)
    BY <2>4 DEF ReadBlock
  <2> QED BY <1>7, <2>1, <2>2, <2>3, <2>4
<1>8. CASE WriteCd(p)
  <2>1. blockNum' = blockNum \/ blockNum' = [blockNum EXCEPT ![p] = @ + 1]
    BY <1>8 DEF WriteCd, ScsiCall, WriteStatus
  <2>2. blockNum' \in [Procs -> Nat]
    BY <2>1
  <2>3. \/ pc' = [pc EXCEPT ![p] = "read"] /\ UNCHANGED result
        \/ \E r \in {"ok", "failed"} : Finish(p, r)
    BY <1>8 DEF WriteCd, ScsiCall, WriteStatus
  <2> QED BY <1>8, <2>2, <2>3 DEF WriteCd
<1>9. CASE Append(p)
  <2>1. length' \in [Procs -> Nat]
    BY <1>0, <1>9 DEF Append
  <2> QED BY <1>9, <2>1 DEF Append
<1> QED
  BY <1>1, <1>2, <1>3, <1>4, <1>5, <1>6, <1>7, <1>8, <1>9
     DEF Main, Act, Close, Killed, OpenFails

(* The sizes and what they belong to.                                      *)
LEMMA SizeTypes ==
  ASSUME TypeOK, NEW p \in Procs, Main(p) \/ Act(p) \/ Killed(p) \/ Signal(p) \/ Append(p)
  PROVE  /\ sectors' \in [Procs -> Nat]
         /\ dataSize' \in [Procs -> Sectors]
         /\ \A q \in Procs :
              /\ pc'[q] \in PartitionLabels => action'[q] = "partition"
              /\ pc'[q] \in LoadLabels => action'[q] = "load"
              /\ pc'[q] = "idle" => action'[q] = "none"
              /\ pc'[q] = "open" => action'[q] # "none"
              /\ action'[q] # "load" => sectors'[q] \in Sectors
<1> USE DEF TypeOK, Labels, PartitionLabels, LoadLabels, At, GoTo, Finish, GivesUp
<1>0. 0 \in Sectors /\ Sectors \subseteq Nat /\ Requests \subseteq Nat /\ IsoSizes \subseteq Nat
  BY ConstantTypes
<1>1. CASE Start(p)
  <2>1. /\ pc' = [pc EXCEPT ![p] = "open"] /\ pc[p] = "idle"
        /\ UNCHANGED <<sectors, dataSize>>
        /\ \/ action' = [action EXCEPT ![p] = "partition"]
           \/ action' = [action EXCEPT ![p] = "load"]
    BY <1>1, CdToolAssumption DEF Start
  <2>2. action[p] # "load" => sectors[p] \in Sectors
    OBVIOUS
  <2> QED BY <2>1, <2>2
<1>2. CASE Gone(p)
  BY <1>0, <1>2 DEF Gone
<1>3. CASE Open(p) \/ Signal(p) \/ Append(p)
  <2>1. CASE Open(p)
    BY <2>1 DEF Open
  <2>2. CASE Signal(p) \/ Append(p)
    BY <2>2 DEF Signal, Append
  <2> QED BY <1>3, <2>1, <2>2
<1>4. CASE Confirm(p)
  <2>1. \A n \in Requests : CdSectors(n) \in Sectors
    BY <1>0, BytesTypes
  <2>2. \/ sectors' = sectors
        \/ \E k \in Sectors : sectors' = [sectors EXCEPT ![p] = k]
    BY <1>4, <2>1 DEF Confirm
  <2>3. /\ UNCHANGED <<action, dataSize>> /\ pc[p] = "confirm"
        /\ \E l \in {"roundup", "property", "close"} : pc' = [pc EXCEPT ![p] = l]
    BY <1>4 DEF Confirm
  <2> QED BY <1>0, <2>2, <2>3
<1>5. CASE RoundCdSize(p)
  <2>1. sectors[p] \in Sectors
    BY <1>5 DEF RoundCdSize
  <2>2. RoundUp[sectors[p]] \in Sectors /\ RoundUp[sectors[p]] \in Nat
    BY <1>0, <2>1, RoundTypes
  <2>3. /\ sectors' = [sectors EXCEPT ![p] = RoundUp[sectors[p]]] \/ sectors' = sectors
        /\ UNCHANGED <<action, dataSize>>
        /\ pc' = [pc EXCEPT ![p] = "property"] \/ pc' = [pc EXCEPT ![p] = "close"]
    BY <1>5 DEF RoundCdSize
  <2> QED BY <1>5, <2>2, <2>3 DEF RoundCdSize
<1>6. CASE ReadDeviceSize(p)
  <2>1. sectors[p] \in Nat
    OBVIOUS
  <2>2. DeviceSize \in Nat /\ DeviceSize < Word /\ Word \in Nat
    BY ConstantTypes
  <2>3. ASSUME NEW n \in Nat, n <= DeviceSize PROVE DeviceSize - n \in Sectors
    BY <2>2, <2>3 DEF Sectors
  <2> QED BY <1>6, <2>1, <2>3 DEF ReadDeviceSize
<1>7. CASE RoundDataSize(p)
  BY <1>7, RoundTypes DEF RoundDataSize
<1>8. CASE Partition(p)
  BY <1>8 DEF Partition, SendCmd, ScsiCall, PartitionStatus
<1>9. CASE Reset(p) \/ SleepOver(p)
  BY <1>9 DEF Reset, SendCmd, ScsiCall, ResetStatus, SleepOver
<1>10. CASE Stat(p)
  <2>1. \A n \in IsoSizes : LoadSectors(n) \in Nat
    BY <1>0, BytesTypes
  <2> QED BY <1>10, <2>1 DEF Stat
<1>11. CASE PartitionInfo(p) \/ CheckFits(p) \/ OpenFile(p) \/ ReadBlock(p)
  BY <1>11 DEF PartitionInfo, CheckFits, OpenFile, ReadBlock
<1>12. CASE WriteCd(p)
  BY <1>12 DEF WriteCd, ScsiCall, WriteStatus
<1> QED
  BY <1>1, <1>2, <1>3, <1>4, <1>5, <1>6, <1>7, <1>8, <1>9, <1>10, <1>11, <1>12
     DEF Main, Act, Close, Killed, OpenFails

(* Which commands each step can have sent to the stick.                    *)
LEMMA StickSteps ==
  ASSUME [Next]_vars
  PROVE  \/ UNCHANGED discVars
         \/ Reconnect
         \/ Disconnect(0)
         \/ \E p \in Procs :
              /\ At(p, "partition") /\ UNCHANGED <<sectors, dataSize>>
              /\ Repartition(NewTable(p), 0)
         \/ \E p \in Procs, status \in Statuses :
              WriteBlock(blockNum[p], <<size[p], filePos[p]>>, status)
<1>1. CASE Stick
  BY <1>1 DEF Stick
<1>2. CASE UNCHANGED vars
  BY <1>2 DEF vars
<1>3. ASSUME NEW p \in Procs, Partition(p)
      PROVE  \/ UNCHANGED discVars
             \/ At(p, "partition") /\ UNCHANGED <<sectors, dataSize>>
                  /\ Repartition(NewTable(p), 0)
  BY <1>3 DEF Partition, SendCmd, ScsiCall, Repartition
<1>4. ASSUME NEW p \in Procs, Reset(p)
      PROVE  UNCHANGED discVars \/ Disconnect(0)
  BY <1>4 DEF Reset, SendCmd, ScsiCall, Disconnect
<1>5. ASSUME NEW p \in Procs, WriteCd(p)
      PROVE  \/ UNCHANGED discVars
             \/ \E status \in Statuses :
                  WriteBlock(blockNum[p], <<size[p], filePos[p]>>, status)
  BY <1>5 DEF WriteCd, ScsiCall, GivesUp
<1>6. ASSUME NEW p \in Procs,
             Main(p) \/ Act(p) \/ Killed(p) \/ Signal(p) \/ Append(p),
             ~Partition(p), ~Reset(p), ~WriteCd(p)
      PROVE  UNCHANGED discVars
  BY <1>6 DEF Main, Act, Killed, Signal, Start, Open, OpenFails, Confirm, Close, Gone,
     RoundCdSize, ReadDeviceSize, RoundDataSize, SleepOver, Stat, PartitionInfo,
     CheckFits, OpenFile, ReadBlock, Answered, GivesUp, Append
<1> QED BY <1>1, <1>2, <1>3, <1>4, <1>5, <1>6 DEF Next

(* Every step keeps the types.                                             *)
LEMMA TypeStep ==
  ASSUME TypeOK, [Next]_vars
  PROVE  TypeOK'
<1> DEFINE StickTyped == /\ table' \in Tables /\ staged' \in Tables
                         /\ disc' \in [Blocks -> (Nat \X Nat)]
                         /\ plugged' \in BOOLEAN
<1>1. StickTyped
  <2>1. CASE UNCHANGED discVars
    BY <2>1 DEF TypeOK, discVars
  <2>2. CASE Reconnect
    BY <2>2 DEF TypeOK, Reconnect
  <2>3. CASE Disconnect(0)
    BY <2>3 DEF TypeOK, Disconnect
  <2>4. ASSUME NEW p \in Procs, At(p, "partition"), Repartition(NewTable(p), 0)
        PROVE  StickTyped
    BY <2>4, StickTypes DEF NewTable, Statuses
  <2>5. ASSUME NEW p \in Procs, NEW status \in Statuses,
               WriteBlock(blockNum[p], <<size[p], filePos[p]>>, status)
        PROVE  StickTyped
    BY <2>5, StickTypes
  <2> QED BY <2>1, <2>2, <2>3, <2>4, <2>5, StickSteps
<1>2. CASE Stick \/ UNCHANGED vars
  BY <1>1, <1>2 DEF TypeOK, Stick, procVars, vars
<1>3. ASSUME NEW p \in Procs, Main(p) \/ Act(p) \/ Killed(p) \/ Signal(p) \/ Append(p)
      PROVE  TypeOK'
  <2> HIDE DEF StickTyped
  <2>1. /\ sectors' \in [Procs -> Nat]
        /\ dataSize' \in [Procs -> Sectors]
        /\ \A q \in Procs :
             /\ pc'[q] \in PartitionLabels => action'[q] = "partition"
             /\ pc'[q] \in LoadLabels => action'[q] = "load"
             /\ pc'[q] = "idle" => action'[q] = "none"
             /\ pc'[q] = "open" => action'[q] # "none"
             /\ action'[q] # "load" => sectors'[q] \in Sectors
    BY <1>3, SizeTypes
  <2> QED BY <1>1, <1>3, <2>1, ToolTypes DEF TypeOK, StickTyped
<1> QED BY <1>2, <1>3 DEF Next

(* Every state is well-typed; in particular the sector counts handed to    *)
(* the stick are uint32_t values, whatever size -p was given.              *)
THEOREM TypeCorrect == Spec => []TypeOK
<1>1. TypeOK /\ [Next]_vars => TypeOK'
  BY TypeStep
<1> QED BY TypeInit, <1>1, PTL DEF Spec

-----------------------------------------------------------------------------
(* The partition table.                                                    *)

(* What do_partition() knows of its two sizes survives every step.         *)
LEMMA SizesStep ==
  ASSUME TypeOK, \A r \in Procs : SizesFit(r), [Next]_vars, NEW q \in Procs
  PROVE  SizesFit(q)'
<1> USE DEF TypeOK, SizesFit, At, GoTo, Finish, GivesUp, Labels
<1> DEFINE Kept == pc'[q] = pc[q] /\ sectors'[q] = sectors[q] /\ dataSize'[q] = dataSize[q]
           Away == pc'[q] \notin {"rounddown", "partition"}
<1>1. CASE Kept
  BY <1>1
<1>2. CASE Away
  BY <1>2
<1>3. CASE Stick \/ UNCHANGED vars
  BY <1>3 DEF Stick, procVars, vars
<1>4. ASSUME NEW p \in Procs, Main(p) \/ Killed(p) \/ Signal(p) \/ Append(p)
      PROVE Kept \/ Away
  BY <1>4 DEF Main, Killed, Signal, Append, Start, Open, OpenFails, Confirm, Close, Gone
<1>5. ASSUME NEW p \in Procs,
             \/ RoundCdSize(p) \/ Partition(p) \/ Reset(p) \/ SleepOver(p)
             \/ Stat(p) \/ PartitionInfo(p) \/ CheckFits(p) \/ OpenFile(p)
             \/ ReadBlock(p) \/ WriteCd(p)
      PROVE  Kept \/ Away
  <2>1. sectors'[q] = sectors[q] \/ p = q
    BY <1>5 DEF RoundCdSize, Partition, Reset, SleepOver, Stat, PartitionInfo, CheckFits,
       OpenFile, ReadBlock, WriteCd
  <2>2. dataSize' = dataSize
    BY <1>5 DEF RoundCdSize, Partition, Reset, SleepOver, Stat, PartitionInfo, CheckFits,
       OpenFile, ReadBlock, WriteCd
  <2>3. \E l \in Labels \ {"rounddown", "partition"} : pc' = [pc EXCEPT ![p] = l]
    BY <1>5 DEF RoundCdSize, Partition, Reset, SleepOver, Stat, PartitionInfo, CheckFits,
       OpenFile, ReadBlock, WriteCd, SendCmd, ScsiCall, PartitionStatus, ResetStatus,
       WriteStatus, PartitionLabels, LoadLabels
  <2> QED BY <2>1, <2>2, <2>3
<1>6. ASSUME NEW p \in Procs, ReadDeviceSize(p) PROVE SizesFit(q)'
  <2>1. CASE Kept \/ Away
    BY <2>1
  <2>2. CASE p = q /\ sectors[p] <= DeviceSize
             /\ dataSize' = [dataSize EXCEPT ![p] = DeviceSize - sectors[p]]
             /\ pc' = [pc EXCEPT ![p] = "rounddown"] /\ UNCHANGED sectors
    <3>1. sectors[p] \in Nat /\ DeviceSize \in Nat
      BY ConstantTypes
    <3>2. sectors'[q] + dataSize'[q] = DeviceSize
      BY <2>2, <3>1
    <3> QED BY <2>2, <3>2
  <2> QED BY <1>6, <2>1, <2>2 DEF ReadDeviceSize
<1>7. ASSUME NEW p \in Procs, RoundDataSize(p) PROVE SizesFit(q)'
  <2>1. CASE Kept \/ Away
    BY <2>1
  <2>2. CASE p = q /\ dataSize' = [dataSize EXCEPT ![p] = RoundDown[dataSize[p]]]
             /\ pc' = [pc EXCEPT ![p] = "partition"] /\ UNCHANGED sectors
    <3>1. sectors[p] + dataSize[p] = DeviceSize
      BY <1>7 DEF RoundDataSize
    <3>2. /\ RoundDown[dataSize[p]] \in Nat /\ RoundDown[dataSize[p]] <= dataSize[p]
          /\ sectors[p] \in Nat /\ dataSize[p] \in Nat
      BY RoundTypes, ConstantTypes
    <3>3. sectors'[q] + dataSize'[q] <= DeviceSize
      BY <2>2, <3>1, <3>2
    <3> QED BY <2>2, <3>3
  <2> QED BY <1>7, <2>1, <2>2 DEF RoundDataSize
<1> QED
  BY <1>1, <1>2, <1>3, <1>4, <1>5, <1>6, <1>7 DEF Next, Act

(* A table that comes into force, or is staged, was fit when it was sent.  *)
LEMMA TableStep ==
  ASSUME TableInv, [Next]_vars
  PROVE  TableInv'
<1> USE DEF TableInv
<1>1. TypeOK' /\ \A q \in Procs : SizesFit(q)'
  BY TypeStep, SizesStep
<1>2. CASE UNCHANGED <<table, staged>>
  BY <1>1, <1>2 DEF TableFits
<1>3. CASE Disconnect(0)
  BY <1>1, <1>3 DEF TableFits, Disconnect
<1>4. ASSUME NEW p \in Procs, At(p, "partition"), Repartition(NewTable(p), 0)
      PROVE  TableInv'
  <2>1. sectors[p] + dataSize[p] <= DeviceSize
    BY <1>4 DEF SizesFit
  <2>2. table' = table /\ staged'.cd = sectors[p] /\ staged'.data = dataSize[p]
    BY <1>4 DEF Repartition, NewTable
  <2> QED BY <1>1, <2>1, <2>2 DEF TableFits
<1> QED
  BY <1>2, <1>3, <1>4, StickSteps DEF discVars, Reconnect, WriteBlock

(* The first tables fit.                                                   *)
LEMMA TableInit ==
  ASSUME Init
  PROVE  TableInv
<1>1. PICK cd \in Sectors :
        cd <= DeviceSize /\ table = [cd |-> cd, data |-> RoundDown[DeviceSize - cd]]
  BY DEF Init
<1>2. cd \in Nat /\ DeviceSize \in Nat /\ DeviceSize - cd \in Sectors
  BY <1>1, ConstantTypes DEF Sectors
<1>3. /\ RoundDown[DeviceSize - cd] \in Nat
      /\ RoundDown[DeviceSize - cd] <= DeviceSize - cd
  BY <1>2, RoundTypes, ConstantTypes
<1>4. table.cd + table.data <= DeviceSize
  BY <1>1, <1>2, <1>3
<1> QED BY <1>4, TypeInit DEF Init, TableInv, TableFits, SizesFit, At

(* The stick is never told to lay out more sectors than it has, whatever   *)
(* is asked for, however it rounds, and whoever else repartitions it.      *)
THEOREM TablesFit == Spec => []TableFits
<1>1. Init => TableInv
  BY TableInit
<1>2. TableInv /\ [Next]_vars => TableInv'
  BY TableStep
<1>3. TableInv => TableFits
  BY DEF TableInv
<1> QED BY <1>1, <1>2, <1>3, PTL DEF Spec

-----------------------------------------------------------------------------
(* Loading.                                                                *)

(* What a step of the tool does to a process that does not take it.        *)
LEMMA OthersStep ==
  ASSUME TypeOK, NEW p \in Procs, NEW q \in Procs, p # q,
         Main(p) \/ Act(p) \/ Killed(p) \/ Signal(p) \/ Append(p)
  PROVE  /\ pc'[q] = pc[q] /\ result'[q] = result[q] /\ action'[q] = action[q]
         /\ size'[q] = size[q] /\ filePos'[q] = filePos[q] /\ blockNum'[q] = blockNum[q]
         /\ length'[q] = length[q] /\ (q \in eof' <=> q \in eof)
         /\ quit'[q] = quit[q]
<1> USE DEF TypeOK, GoTo, Finish, GivesUp
<1>1. CASE Main(p) \/ Killed(p) \/ Signal(p) \/ Append(p)
  BY <1>1 DEF Main, Start, Open, OpenFails, Confirm, Close, Killed, Signal, Append, Gone
<1>2. CASE RoundCdSize(p) \/ ReadDeviceSize(p) \/ RoundDataSize(p) \/ SleepOver(p)
  BY <1>2 DEF RoundCdSize, ReadDeviceSize, RoundDataSize, SleepOver
<1>3. CASE Partition(p) \/ Reset(p)
  BY <1>3 DEF Partition, Reset, SendCmd, ScsiCall, PartitionStatus, ResetStatus
<1>4. CASE Stat(p) \/ PartitionInfo(p) \/ CheckFits(p) \/ OpenFile(p) \/ ReadBlock(p)
  BY <1>4 DEF Stat, PartitionInfo, CheckFits, OpenFile, ReadBlock
<1>5. CASE WriteCd(p)
  BY <1>5 DEF WriteCd, ScsiCall, WriteStatus
<1> QED BY <1>1, <1>2, <1>3, <1>4, <1>5 DEF Act

(* Who reaches the stick after a step, and from which label a process gets *)
(* where.                                                                  *)
LEMMA LinkedStep ==
  ASSUME TypeOK, NEW p \in Procs, Main(p) \/ Act(p) \/ Killed(p) \/ Signal(p) \/ Append(p)
  PROVE  \/ Open(p)
         \/ Gone(p)
         \/ /\ Reset(p) /\ linked' = IF plugged' THEN linked ELSE {}
            /\ pc'[p] \in {"sleep", "close"} /\ action'[p] = "partition"
            /\ p \notin linked => UNCHANGED plugged
         \/ /\ UNCHANGED <<linked, plugged>>
            /\ pc'[p] \in LoadLabels => pc[p] \in LoadLabels
            /\ Loaded(p)' => pc[p] \in LoadLabels \/ Loaded(p)
            /\ pc'[p] \in {"idle", "open"} => pc[p] \in {"idle", "open"}
<1> USE DEF TypeOK, Labels, PartitionLabels, LoadLabels, At, GoTo, Finish, GivesUp, Loaded
<1>1. CASE Start(p) \/ Confirm(p) \/ Signal(p) \/ Append(p)
  <2>1. CASE Start(p)
    BY <2>1 DEF Start, discVars
  <2>2. CASE Confirm(p)
    BY <2>2 DEF Confirm, discVars
  <2>3. CASE Signal(p) \/ Append(p)
    BY <2>3 DEF Signal, Append, discVars
  <2> QED BY <1>1, <2>1, <2>2, <2>3
<1>2. CASE OpenFails(p) \/ Close(p) \/ Killed(p)
  BY <1>2 DEF OpenFails, Close, Killed
<1>3. CASE RoundCdSize(p) \/ ReadDeviceSize(p) \/ RoundDataSize(p) \/ SleepOver(p)
  BY <1>3 DEF RoundCdSize, ReadDeviceSize, RoundDataSize, SleepOver, Answered, discVars
<1>4. CASE Partition(p)
  BY <1>4 DEF Partition, SendCmd, ScsiCall, PartitionStatus, Repartition, discVars
<1>5. CASE Reset(p)
  BY <1>5 DEF Reset, SendCmd, ScsiCall, ResetStatus, discVars
<1>6. CASE Stat(p) \/ PartitionInfo(p) \/ CheckFits(p) \/ OpenFile(p) \/ ReadBlock(p)
  BY <1>6 DEF Stat, PartitionInfo, CheckFits, OpenFile, ReadBlock, Answered, discVars
<1>7. CASE WriteCd(p)
  BY <1>7 DEF WriteCd, ScsiCall, WriteStatus, WriteBlock, discVars
<1> QED BY <1>1, <1>2, <1>3, <1>4, <1>5, <1>6, <1>7 DEF Main, Act

(* With the claim, the loading process stays the only one linked.          *)
LEMMA AloneStep ==
  ASSUME Exclusive = TRUE, LoadInv, [Next]_vars
  PROVE  /\ linked' # {} => plugged'
         /\ \A p, q \in linked' : p = q
         /\ \A q \in Procs : LoadingAlone(q)'
<1> DEFINE Alone == /\ linked' # {} => plugged'
                    /\ \A p, q \in linked' : p = q
                    /\ \A q \in Procs : LoadingAlone(q)'
<1> USE DEF LoadInv, LoadingAlone, Loaded, At
<1>1. CASE UNCHANGED vars
  BY <1>1 DEF vars, procVars, discVars
<1>2. CASE Stick
  <2>1. \A p \in linked : p \in Procs
    BY DEF TypeOK
  <2>2. UNCHANGED <<procVars, linked>> /\ (linked # {} => plugged')
    BY <1>2, <2>1 DEF Stick, Reconnect
  <2> QED BY <2>2 DEF procVars
<1>3. ASSUME NEW p \in Procs, Main(p) \/ Act(p) \/ Killed(p) \/ Signal(p) \/ Append(p)
      PROVE  Alone
  <2>1. TypeOK /\ linked \subseteq Procs
    BY DEF TypeOK
  <2>2. \A q \in Procs \ {p} :
          /\ pc'[q] \in LoadLabels <=> pc[q] \in LoadLabels
          /\ Loaded(q)' <=> Loaded(q)
          /\ pc'[q] \in {"idle", "open"} <=> pc[q] \in {"idle", "open"}
    BY <1>3, <2>1, OthersStep
  <2>3. CASE Open(p)
    <3>1. linked = {} /\ linked' = {p} /\ plugged' /\ pc'[p] \notin {"idle", "open", "close"}
      BY <2>1, <2>3 DEF Open, GoTo, TypeOK, discVars
    <3> QED BY <2>1, <2>2, <3>1
  <2>4. CASE Gone(p)
    <3>1. linked' = linked \ {p} /\ pc'[p] = "idle" /\ UNCHANGED plugged
      BY <2>1, <2>4 DEF Gone, TypeOK, discVars
    <3> QED BY <2>1, <2>2, <3>1 DEF LoadLabels
  <2>5. CASE /\ Reset(p) /\ linked' = IF plugged' THEN linked ELSE {}
             /\ pc'[p] \in {"sleep", "close"} /\ action'[p] = "partition"
             /\ p \notin linked => UNCHANGED plugged
    BY <2>1, <2>2, <2>5 DEF LoadLabels
  <2>6. CASE /\ UNCHANGED <<linked, plugged>>
             /\ pc'[p] \in LoadLabels => pc[p] \in LoadLabels
             /\ Loaded(p)' => pc[p] \in LoadLabels \/ Loaded(p)
             /\ pc'[p] \in {"idle", "open"} => pc[p] \in {"idle", "open"}
    BY <2>1, <2>2, <2>6
  <2> QED BY <1>3, <2>1, <2>3, <2>4, <2>5, <2>6, LinkedStep
<1> QED BY <1>1, <1>2, <1>3 DEF Next

(* A file has one block more than its full ones if there is a rest.        *)
LEMMA BlockCounts ==
  ASSUME NEW n \in Nat
  PROVE  /\ FullBlocks(n) \in Nat /\ BlockCount(n) \in Nat
         /\ FullBlocks(n) <= BlockCount(n) /\ BlockCount(n) <= FullBlocks(n) + 1
<1>1. SectorSize \in Nat \ {0} /\ BlockSectors \in Nat \ {0}
  BY CdToolAssumption, CdPartitionAssumption
<1>2. BlockBytes \in Nat \ {0}
  BY <1>1, SMTT(30) DEF BlockBytes
<1>3. FullBlocks(n) \in Nat
  BY <1>2 DEF FullBlocks
<1> QED BY <1>3 DEF BlockCount

(* Nobody but the process that loads changes what it has written.          *)
LEMMA DiscStep ==
  ASSUME LoadInv, [Next]_vars, NEW q \in Procs,
         pc[q] \in LoadLabels \/ Loaded(q), ~WriteCd(q)
  PROVE  UNCHANGED disc
<1>1. linked = {q}
  BY DEF LoadInv, LoadingAlone
<1>2. ASSUME NEW p \in Procs, Partition(p) PROVE UNCHANGED disc
  <2>1. p # q
    BY <1>2 DEF Partition, At, Loaded, LoadLabels
  <2> QED BY <1>1, <1>2, <2>1 DEF Partition, SendCmd, discVars
<1>3. ASSUME NEW p \in Procs, WriteCd(p) PROVE UNCHANGED disc
  <2>1. p # q
    BY <1>3
  <2> QED BY <1>1, <1>3, <2>1 DEF WriteCd, GivesUp, discVars
<1>4. ASSUME NEW p \in Procs, Reset(p) PROVE UNCHANGED disc
  BY <1>4 DEF Reset, SendCmd, ScsiCall, Disconnect, discVars
<1>5. ASSUME NEW p \in Procs, Main(p) \/ Act(p) \/ Killed(p) \/ Signal(p) \/ Append(p),
             ~Partition(p), ~WriteCd(p), ~Reset(p)
      PROVE  UNCHANGED disc
  BY <1>5 DEF Main, Act, Killed, Signal, Start, Open, OpenFails, Confirm, Close, Gone,
     RoundCdSize, ReadDeviceSize, RoundDataSize, SleepOver, Stat, PartitionInfo,
     CheckFits, OpenFile, ReadBlock, Append, Answered, GivesUp, discVars
<1>6. CASE Stick
  BY <1>6 DEF Stick, Reconnect, Disconnect
<1>7. CASE UNCHANGED vars
  BY <1>7 DEF vars, discVars
<1> QED BY <1>2, <1>3, <1>4, <1>5, <1>6, <1>7 DEF Next

(* A step that moves neither the file nor the CD on.                       *)
LEMMA SameStep ==
  ASSUME LoadInv, [Next]_vars, NEW q \in Procs, ~WriteCd(q),
         pc'[q] = pc[q], result'[q] = result[q], action'[q] = action[q],
         size'[q] = size[q], filePos'[q] = filePos[q], blockNum'[q] = blockNum[q],
         length'[q] = length[q], q \in eof' <=> q \in eof, quit[q] => quit'[q]
  PROVE  InStep(q)'
<1>1. InStep(q)
  BY DEF LoadInv
<1>2. pc[q] \in LoadLabels \/ Loaded(q) => UNCHANGED disc
  BY DiscStep
<1>3. Loaded(q)' <=> Loaded(q)
  BY DEF Loaded, At
<1>4. pc[q] \in {"read", "write"} => pc[q] \in LoadLabels
  BY DEF LoadLabels
<1>6. UNCHANGED disc /\ PrefixOnDisc(q, blockNum[q]) => PrefixOnDisc(q, blockNum[q])'
  BY DEF PrefixOnDisc
<1>7. UNCHANGED disc /\ PrefixOnDisc(q, BlockCount(length[q])) => PrefixOnDisc(q, BlockCount(length[q]))'
  BY DEF PrefixOnDisc, BlockCount, FullBlocks, HasRest
<1>8. BlockCount(length[q])' = BlockCount(length[q]) /\ FullBlocks(length[q])' = FullBlocks(length[q])
  BY DEF BlockCount, FullBlocks, HasRest
<1> QED BY <1>1, <1>2, <1>3, <1>4, <1>6, <1>7, <1>8 DEF InStep, At

(* What the copy loop writes.                                              *)
LEMMA WriteStep ==
  ASSUME LoadInv, NEW q \in Procs, WriteCd(q)
  PROVE  InStep(q)'
<1>0. /\ TypeOK /\ InStep(q) /\ pc[q] = "write"
      /\ size' = size /\ filePos' = filePos /\ quit' = quit /\ length' = length /\ eof' = eof
  BY DEF LoadInv, WriteCd, At
<1>1. CASE pc' = [pc EXCEPT ![q] = "close"] /\ result' = [result EXCEPT ![q] = "failed"]
  BY <1>0, <1>1 DEF InStep, At, Loaded, TypeOK
<1>2. CASE /\ WriteBlock(blockNum[q], <<size[q], filePos[q]>>, 0)
           /\ WriteStatus(q, 0)
  <2> DEFINE b == blockNum[q]
  <2>1. /\ b \in Nat /\ filePos[q] = b + 1 /\ PrefixOnDisc(q, b)
        /\ q \notin eof => b + 1 <= FullBlocks(length[q])
        /\ q \in eof => b + 1 = BlockCount(length[q])
    BY <1>0 DEF InStep, At, TypeOK
  <2>2. /\ disc' = [disc EXCEPT ![b] = <<size[q], b + 1>>] /\ disc \in [Blocks -> (Nat \X Nat)]
        /\ b \in Blocks
    BY <1>0, <1>2, <2>1 DEF WriteBlock, Inside, TypeOK
  <2>3. ASSUME NEW k \in 0 .. b
        PROVE  k \in Blocks /\ disc'[k] = <<size[q], k + 1>>
    <3>1. k \in Nat
      OBVIOUS
    <3>2. CASE k = b
      BY <2>2, <2>3, <3>2
    <3>3. CASE k # b
      <4>1. k \in 0 .. b - 1
        BY <2>1, <2>3, <3>1, <3>3
      <4> QED BY <2>1, <2>2, <2>3, <3>3, <4>1 DEF PrefixOnDisc
    <3> QED BY <3>2, <3>3
  <2>4. blockNum' = [blockNum EXCEPT ![q] = b + 1] /\ blockNum'[q] = b + 1
    BY <1>0, <1>2 DEF WriteStatus, TypeOK
  <2>a. (b + 1) - 1 = b
    BY <2>1
  <2>5. PrefixOnDisc(q, blockNum[q])'
    BY <1>0, <2>3, <2>4, <2>a DEF PrefixOnDisc
  <2>7. CASE q \notin eof /\ GoTo(q, "read")
    <3>1. pc'[q] = "read" /\ filePos'[q] = blockNum'[q]
      BY <1>0, <2>1, <2>4, <2>7 DEF GoTo, TypeOK
    <3>2. filePos'[q] <= FullBlocks(length[q])
      BY <1>0, <2>1, <2>7
    <3> QED BY <1>0, <2>5, <2>7, <3>1, <3>2 DEF InStep, At, Loaded, FullBlocks
  <2>8. CASE (q \in eof \/ quit[q]) /\ Finish(q, "ok")
    <3>1. pc'[q] = "close"
      BY <1>0, <2>8 DEF Finish, TypeOK
    <3>2. CASE quit[q]
      BY <1>0, <3>1, <3>2 DEF InStep, At
    <3>3. CASE q \in eof
      <4>1. BlockCount(length[q]) = b + 1
        BY <2>1, <3>3
      <4>2. PrefixOnDisc(q, BlockCount(length[q]))'
        BY <1>0, <2>3, <2>a, <4>1 DEF PrefixOnDisc, BlockCount, FullBlocks, HasRest
      <4> QED BY <3>1, <4>2 DEF InStep, At
    <3> QED BY <2>8, <3>2, <3>3
  <2> QED BY <1>2, <2>7, <2>8 DEF WriteStatus
<1> QED
  BY <1>1, <1>2 DEF WriteCd, ScsiCall, WriteStatus, WriteBlock, Statuses, GivesUp, Finish

(* A longer file has no fewer full blocks.                                 *)
LEMMA LongerFile ==
  ASSUME NEW n \in Nat, NEW m \in Nat, n < m
  PROVE  FullBlocks(n) <= FullBlocks(m)
<1>1. BlockBytes \in Nat \ {0}
  <2>1. SectorSize \in Nat \ {0} /\ BlockSectors \in Nat \ {0}
    BY CdToolAssumption, CdPartitionAssumption
  <2> QED BY <2>1, SMTT(30) DEF BlockBytes
<1> DEFINE b == BlockBytes
<1> HIDE DEF b
<1>2. b \in Nat \ {0}
  BY <1>1 DEF b
<1>3. n \div b <= m \div b
  BY <1>2, SMTT(60)
<1> QED BY <1>3 DEF FullBlocks, b

(* Growing, a file keeps what was read of it.                              *)
LEMMA AppendStep ==
  ASSUME LoadInv, NEW q \in Procs, Append(q)
  PROVE  InStep(q)'
<1>1. /\ TypeOK /\ InStep(q) /\ pc[q] \in {"read", "write"} /\ q \notin eof
      /\ UNCHANGED <<pc, disc, size, filePos, eof, blockNum>>
  BY DEF LoadInv, Append, discVars
<1>2. length'[q] \in Nat /\ length[q] \in Nat /\ length[q] < length'[q]
  <2>1. IsoSizes \subseteq Nat
    BY CdToolAssumption
  <2> QED BY <1>1, <2>1 DEF Append, TypeOK
<1>3. FullBlocks(length[q]) <= FullBlocks(length'[q])
  BY <1>2, LongerFile
<1>4. /\ FullBlocks(length[q]) \in Nat /\ FullBlocks(length'[q]) \in Nat
      /\ filePos[q] \in Nat
  BY <1>1, <1>2, BlockCounts DEF TypeOK
<1>5. filePos[q] <= FullBlocks(length[q]) => filePos[q] <= FullBlocks(length'[q])
  BY <1>3, <1>4
<1>6. PrefixOnDisc(q, blockNum[q]) => PrefixOnDisc(q, blockNum[q])'
  BY <1>1 DEF PrefixOnDisc
<1>7. FullBlocks(length[q])' = FullBlocks(length'[q])
  BY DEF FullBlocks
<1> QED BY <1>1, <1>5, <1>6, <1>7 DEF InStep, At, Loaded

(* The copy loop keeps the file, block_num and the CD in step.             *)
LEMMA InStepStep ==
  ASSUME Exclusive = TRUE, LoadInv, [Next]_vars, NEW q \in Procs
  PROVE  InStep(q)'
<1>0. TypeOK /\ InStep(q) /\ size[q] \in Nat
  BY DEF LoadInv, TypeOK
<1>1. CASE WriteCd(q)
  BY <1>1, WriteStep
<1>2. CASE Stick \/ UNCHANGED vars
  <2>1. UNCHANGED procVars
    BY <1>2 DEF Stick, vars
  <2> QED BY <1>1, <2>1, SameStep DEF procVars
<1>3. ASSUME NEW p \in Procs, p # q, Main(p) \/ Act(p) \/ Killed(p) \/ Signal(p) \/ Append(p), ~WriteCd(q)
      PROVE  InStep(q)'
  <2>1. /\ pc'[q] = pc[q] /\ result'[q] = result[q] /\ action'[q] = action[q]
        /\ size'[q] = size[q] /\ filePos'[q] = filePos[q] /\ blockNum'[q] = blockNum[q]
        /\ length'[q] = length[q] /\ (q \in eof' <=> q \in eof)
        /\ quit'[q] = quit[q]
    BY <1>0, <1>3, OthersStep
  <2> QED BY <1>3, <2>1, SameStep
<1> USE DEF InStep, At, GoTo, Finish, GivesUp, Loaded, Labels, PartitionLabels, LoadLabels
<1>4. CASE Main(q) \/ Killed(q)
  <2>1. CASE Start(q)
    BY <1>0, <2>1 DEF Start, TypeOK
  <2>2. CASE Open(q) \/ Confirm(q)
    BY <1>0, <2>2 DEF Open, Confirm, TypeOK
  <2>3. CASE Gone(q)
    BY <1>0, <2>3 DEF Gone, TypeOK
  <2> QED BY <1>4, <2>1, <2>2, <2>3 DEF Main, OpenFails, Close, Killed
<1>5. CASE Signal(q) /\ ~WriteCd(q)
  <2>1. /\ UNCHANGED <<pc, action, size, filePos, length, eof, blockNum, result>>
        /\ quit'[q]
    BY <1>0, <1>5 DEF Signal, TypeOK
  <2> QED BY <1>5, <2>1, SameStep
<1>6. CASE RoundCdSize(q) \/ ReadDeviceSize(q) \/ RoundDataSize(q) \/ SleepOver(q)
  BY <1>0, <1>6 DEF RoundCdSize, ReadDeviceSize, RoundDataSize, SleepOver, TypeOK
<1>7. CASE Partition(q) \/ Reset(q)
  BY <1>0, <1>7 DEF Partition, Reset, SendCmd, ScsiCall, PartitionStatus, ResetStatus, TypeOK
<1>8. CASE Stat(q) \/ PartitionInfo(q) \/ CheckFits(q)
  BY <1>0, <1>8 DEF Stat, PartitionInfo, CheckFits, TypeOK
<1>9. CASE OpenFile(q)
  <2>1. filePos'[q] = 0 /\ blockNum'[q] = 0 /\ length'[q] \in Nat /\ q \notin eof'
    <3>1. IsoSizes \subseteq Nat
      BY CdToolAssumption
    <3> QED BY <1>0, <1>9, <3>1 DEF OpenFile, TypeOK
  <2>2. PrefixOnDisc(q, blockNum[q])'
    <3>1. 0 .. 0 - 1 = {}
      OBVIOUS
    <3> QED BY <2>1, <3>1 DEF PrefixOnDisc
  <2>3. filePos'[q] <= FullBlocks(length[q])'
    BY <2>1, BlockCounts DEF FullBlocks
  <2> QED BY <1>0, <1>9, <2>1, <2>2, <2>3 DEF OpenFile, TypeOK
<1>10. CASE ReadBlock(q)
  <2>1. /\ filePos[q] = blockNum[q] /\ filePos[q] <= FullBlocks(length[q]) /\ filePos[q] \in Nat
        /\ PrefixOnDisc(q, blockNum[q]) /\ q \notin eof /\ length[q] \in Nat
    BY <1>0, <1>10 DEF ReadBlock, TypeOK
  <2>2. UNCHANGED <<disc, size, length, blockNum, quit>>
    BY <1>10 DEF ReadBlock, discVars
  <2>3. /\ FullBlocks(length[q]) \in Nat /\ BlockCount(length[q]) \in Nat
        /\ FullBlocks(length[q]) <= BlockCount(length[q])
        /\ BlockCount(length[q]) <= FullBlocks(length[q]) + 1
    BY <2>1, BlockCounts
  <2>4. CASE /\ filePos[q] < BlockCount(length[q]) /\ filePos' = [filePos EXCEPT ![q] = @ + 1]
             /\ eof' = IF CameShort(filePos[q] + 1, length[q]) THEN eof \cup {q} ELSE eof
             /\ GoTo(q, "write")
    <3>1. pc'[q] = "write" /\ filePos'[q] = filePos[q] + 1 /\ blockNum'[q] = blockNum[q]
      BY <1>0, <2>2, <2>4 DEF TypeOK
    <3>2. q \in eof' <=> filePos[q] + 1 > FullBlocks(length[q])
      BY <2>1, <2>4 DEF CameShort
    <3>3. q \notin eof' => filePos[q] + 1 <= FullBlocks(length[q])
      BY <2>1, <2>3, <3>2
    <3>4. q \in eof' => filePos[q] + 1 = BlockCount(length[q])
      BY <2>1, <2>3, <2>4, <3>2
    <3>5. PrefixOnDisc(q, blockNum[q])'
      BY <2>1, <2>2 DEF PrefixOnDisc
    <3>6. length' = length
      BY <2>2
    <3>7. /\ FullBlocks(length[q])' = FullBlocks(length[q])
          /\ BlockCount(length[q])' = BlockCount(length[q])
      BY <3>6 DEF BlockCount, FullBlocks, HasRest
    <3> QED BY <2>1, <3>1, <3>3, <3>4, <3>5, <3>7
  <2>5. CASE filePos[q] >= BlockCount(length[q]) /\ Finish(q, "ok")
    <3>1. blockNum[q] = BlockCount(length[q])
      BY <2>1, <2>3, <2>5
    <3>2. PrefixOnDisc(q, BlockCount(length[q]))'
      BY <2>1, <2>2, <3>1 DEF PrefixOnDisc, BlockCount, FullBlocks, HasRest
    <3>3. pc'[q] = "close"
      BY <1>0, <2>5 DEF TypeOK
    <3> QED BY <3>2, <3>3
  <2>6. CASE Finish(q, "failed")
    BY <1>0, <2>6 DEF TypeOK
  <2> QED BY <1>10, <2>4, <2>5, <2>6 DEF ReadBlock
<1>11. CASE Append(q)
  BY <1>11, AppendStep
<1> QED
  BY <1>1, <1>2, <1>3, <1>4, <1>5, <1>6, <1>7, <1>8, <1>9, <1>10, <1>11 DEF Next, Act

(* Nothing is loaded at first.                                             *)
LEMMA LoadInit == Init => LoadInv
<1> SUFFICES ASSUME Init PROVE LoadInv
  OBVIOUS
<1>1. TypeOK
  BY TypeInit
<1> QED BY <1>1 DEF Init, LoadInv, LoadingAlone, InStep, Loaded, At, LoadLabels

(* With the claim, every step keeps the invariant of the copy loop.        *)
LEMMA LoadStep ==
  ASSUME Exclusive = TRUE, LoadInv, [Next]_vars
  PROVE  LoadInv'
<1>1. TypeOK'
  BY TypeStep DEF LoadInv
<1> QED BY <1>1, AloneStep, InStepStep DEF LoadInv

(* With the claim, the copy loop writes the file read, in order, to a      *)
(* stick that nobody else reaches.                                         *)
THEOREM LoadCorrect ==
  ASSUME Exclusive = TRUE
  PROVE  Spec => []LoadInv
<1>1. LoadInv /\ [Next]_vars => LoadInv'
  BY LoadStep
<1> QED BY LoadInit, <1>1, PTL DEF Spec

(* The lock u3_open() and u3_close() implement, on the one stick there is. *)
TheStick == "stick"

Lock == INSTANCE StickLock WITH Devices <- {TheStick}, linked <- [d \in {TheStick} |-> linked]

(* With the claim, the CD actions take and give back the stick as the lock *)
(* of StickLock says, which u3_open() and u3_close() implement; a reset    *)
(* the stick disconnects at takes it away.                                 *)
THEOREM ImplementsLock == ASSUME Exclusive = TRUE PROVE Spec => Lock!Spec
<1> DEFINE links == [d \in {TheStick} |-> linked]
<1>1. Init => Lock!Init
  BY DEF Init, Lock!Init
<1>2. ASSUME LoadInv, [Next]_vars PROVE [Lock!Next]_links
  <2>1. TypeOK /\ linked \subseteq Procs /\ \A p, q \in linked : p = q
    BY <1>2 DEF LoadInv, TypeOK
  <2>2. ASSUME linked' = {} PROVE Lock!Release(TheStick)
    BY <2>2 DEF Lock!Release
  <2>3. CASE Stick \/ UNCHANGED vars
    BY <2>3 DEF Stick, vars
  <2>4. ASSUME NEW p \in Procs, Open(p) PROVE Lock!Acquire(p, TheStick)
    <3>1. linked = {} /\ linked' = {p}
      BY <2>4 DEF Open
    <3> QED BY <3>1 DEF Lock!Acquire
  <2>5. ASSUME NEW p \in Procs, Gone(p) PROVE linked' = {} \/ UNCHANGED linked
    BY <2>1, <2>5 DEF Gone
  <2>6. ASSUME NEW p \in Procs, Main(p) \/ Act(p) \/ Killed(p) \/ Signal(p) \/ Append(p)
        PROVE  Open(p) \/ linked' = {} \/ UNCHANGED linked
    BY <2>1, <2>5, <2>6, LinkedStep
  <2> HIDE DEF links
  <2>7. UNCHANGED linked => UNCHANGED links
    BY DEF links
  <2> QED BY <1>2, <2>2, <2>3, <2>4, <2>6, <2>7 DEF Next, Lock!Next
<1>3. Spec => Lock!Init /\ [][Lock!Next]_links
  BY <1>1, <1>2, LoadCorrect, PTL DEF Spec
<1> QED BY <1>3 DEF Lock!Spec

(* When -l says OK and was not interrupted, the whole image is on the CD,  *)
(* as it was when its end was read.                                        *)
THEOREM OkIsLoaded ==
  ASSUME Exclusive = TRUE
  PROVE  Spec => []OkMeansLoaded
<1>1. LoadInv => OkMeansLoaded
  BY DEF LoadInv, InStep, OkMeansLoaded
<1> QED BY <1>1, LoadCorrect, PTL

(* What the copy loop has yet to do: every block is read and then written. *)
Remaining(p) ==
  2 * (BlockCount(length[p]) - filePos[p]) + (IF At(p, "write") THEN 1 ELSE 0)

Copying(p) == pc[p] \in {"read", "write"}

LessToDo(p) == /\ Remaining(p) \in Nat /\ Remaining(p)' \in Nat
               /\ Remaining(p)' < Remaining(p)

(* A step of the loop that stays in it leaves less to do.                  *)
CopyAdvances ==
  [][ \A p \in Procs : Act(p) /\ Copying(p) /\ Copying(p)' => LessToDo(p) ]_vars

(* The safety half of LoadEnds: no step of -l repeats one, whatever the    *)
(* lengths of the file and of what was read of it, so that only a file     *)
(* that is appended to for ever can keep the loop going.                   *)
THEOREM CopyGoesOn ==
  ASSUME Exclusive = TRUE
  PROVE  Spec => CopyAdvances
<1>1. ASSUME LoadInv, NEW p \in Procs, Act(p), Copying(p), Copying(p)'
      PROVE  LessToDo(p)
  <2> USE DEF LessToDo
  <2> DEFINE b == BlockCount(length[p])
  <2>0. TypeOK /\ length[p] \in Nat /\ filePos[p] \in Nat /\ InStep(p)
    BY <1>1 DEF LoadInv, TypeOK
  <2>1. /\ b \in Nat /\ FullBlocks(length[p]) \in Nat /\ FullBlocks(length[p]) <= b
    BY <2>0, BlockCounts
  <2>2. filePos[p] <= b
    <3>1. filePos[p] <= FullBlocks(length[p]) \/ filePos[p] = b
      BY <1>1, <2>0 DEF InStep, Copying, At
    <3> QED BY <2>0, <2>1, <3>1
  <2>3. ReadBlock(p) \/ WriteCd(p)
    BY <1>1 DEF Act, Copying, At, RoundCdSize, ReadDeviceSize, RoundDataSize, Partition,
       Reset, SleepOver, Stat, PartitionInfo, CheckFits, OpenFile
  <2>4. UNCHANGED length
    BY <2>3 DEF ReadBlock, WriteCd
  <2> HIDE DEF b
  <2>5. /\ Remaining(p) = 2 * (b - filePos[p]) + (IF pc[p] = "write" THEN 1 ELSE 0)
        /\ Remaining(p)' = 2 * (b - filePos'[p]) + (IF pc'[p] = "write" THEN 1 ELSE 0)
    BY <2>4 DEF Remaining, At, b
  <2>6. CASE ReadBlock(p)
    <3>1. filePos[p] < b /\ filePos'[p] = filePos[p] + 1 /\ pc[p] = "read"
      BY <1>1, <2>0, <2>6 DEF ReadBlock, Finish, GoTo, Copying, At, TypeOK, b
    <3> QED BY <2>0, <2>1, <2>5, <3>1
  <2>7. CASE WriteCd(p)
    <3>1. pc' = [pc EXCEPT ![p] = "read"] \/ pc' = [pc EXCEPT ![p] = "close"]
      BY <2>7 DEF WriteCd, ScsiCall, WriteStatus, GivesUp, GoTo, Finish
    <3>2. filePos' = filePos /\ pc[p] = "write" /\ pc'[p] = "read"
      BY <1>1, <2>0, <2>7, <3>1 DEF WriteCd, Copying, At, TypeOK
    <3> QED BY <2>0, <2>1, <2>2, <2>5, <3>2
  <2> QED BY <2>3, <2>6, <2>7
<1>2. LoadInv /\ [Next]_vars =>
        [ \A p \in Procs : Act(p) /\ Copying(p) /\ Copying(p)' => LessToDo(p) ]_vars
  BY <1>1, Zenon
<1> QED BY <1>2, LoadCorrect, PTL DEF Spec, CopyAdvances

-----------------------------------------------------------------------------
(* The partition asked for.                                                *)

(* A step of one process leaves the sizes of another alone, and lets no    *)
(* other reach the stick.                                                  *)
LEMMA OthersSizes ==
  ASSUME TypeOK, NEW p \in Procs, NEW q \in Procs, p # q,
         Main(p) \/ Act(p) \/ Killed(p) \/ Signal(p) \/ Append(p)
  PROVE  /\ sectors'[q] = sectors[q]
         /\ q \in linked' => q \in linked
<1> USE DEF TypeOK
<1>1. CASE Main(p) \/ Killed(p) \/ Signal(p) \/ Append(p)
  BY <1>1 DEF Main, Start, Open, OpenFails, Confirm, Close, Killed, Signal, Append, Gone
<1>2. CASE RoundCdSize(p) \/ ReadDeviceSize(p) \/ RoundDataSize(p) \/ SleepOver(p)
  BY <1>2 DEF RoundCdSize, ReadDeviceSize, RoundDataSize, SleepOver
<1>3. CASE Partition(p) \/ Reset(p)
  BY <1>3 DEF Partition, Reset
<1>4. CASE Stat(p) \/ PartitionInfo(p) \/ CheckFits(p) \/ OpenFile(p) \/ ReadBlock(p)
  BY <1>4 DEF Stat, PartitionInfo, CheckFits, OpenFile, ReadBlock
<1>5. CASE WriteCd(p)
  BY <1>5 DEF WriteCd
<1> QED BY <1>1, <1>2, <1>3, <1>4, <1>5 DEF Act

(* Only a process that reaches the stick stages a table.                   *)
LEMMA StagedStep ==
  ASSUME [Next]_vars
  PROVE  \/ UNCHANGED staged
         \/ \E p \in Procs : p \in linked /\ Partition(p)
<1>1. CASE Stick \/ UNCHANGED vars
  BY <1>1 DEF Stick, Reconnect, Disconnect, vars, discVars
<1>2. ASSUME NEW p \in Procs, Partition(p)
      PROVE  UNCHANGED staged \/ p \in linked
  BY <1>2 DEF Partition, SendCmd, discVars
<1>3. ASSUME NEW p \in Procs, Reset(p) PROVE UNCHANGED staged
  BY <1>3 DEF Reset, SendCmd, ScsiCall, Disconnect, discVars
<1>4. ASSUME NEW p \in Procs, WriteCd(p) PROVE UNCHANGED staged
  BY <1>4 DEF WriteCd, ScsiCall, WriteBlock, GivesUp, discVars
<1>5. ASSUME NEW p \in Procs,
             Main(p) \/ Act(p) \/ Killed(p) \/ Signal(p) \/ Append(p),
             ~Partition(p), ~Reset(p), ~WriteCd(p)
      PROVE  UNCHANGED staged
  BY <1>5 DEF Main, Act, Killed, Signal, Start, Open, OpenFails, Confirm, Close, Gone,
     RoundCdSize, ReadDeviceSize, RoundDataSize, SleepOver, Stat, PartitionInfo,
     CheckFits, OpenFile, ReadBlock, Append, Answered, GivesUp, discVars
<1> QED BY <1>1, <1>2, <1>3, <1>4, <1>5 DEF Next

(* A step that leaves a process where it is, with its sizes.               *)
LEMMA SameSize ==
  ASSUME LoadInv, NEW q \in Procs, SizeKept(q), [Next]_vars, ~Partition(q),
         pc'[q] = pc[q], sectors'[q] = sectors[q], size'[q] = size[q],
         q \in linked' => q \in linked
  PROVE  SizeKept(q)'
<1>1. At(q, "reset") /\ q \in linked => UNCHANGED staged
  <2>1. ASSUME q \in linked, NEW p \in Procs, p \in linked, Partition(p) PROVE p = q
    BY <2>1 DEF LoadInv
  <2> QED BY <2>1, StagedStep
<1>2. CdSectors(size[q])' = CdSectors(size[q])
  BY DEF CdSectors, Extra, Uint32
<1> QED BY <1>1, <1>2 DEF SizeKept, At

(* What do_partition() makes of the size it was asked for.                 *)
LEMMA SizeKeptStep ==
  ASSUME LoadInv, \A r \in Procs : SizeKept(r), [Next]_vars, NEW q \in Procs
  PROVE  SizeKept(q)'
<1>0. TypeOK /\ SizeKept(q) /\ Sectors \subseteq Nat
  BY ConstantTypes DEF LoadInv
<1> DEFINE Away == pc'[q] \notin {"roundup", "property", "rounddown", "partition", "reset"}
<1>1. CASE Away
  BY <1>1 DEF SizeKept, At
<1>2. CASE Stick \/ UNCHANGED vars
  <2>1. UNCHANGED <<pc, sectors, size, linked>>
    BY <1>2 DEF Stick, procVars, vars
  <2>2. CASE ~Partition(q)
    BY <1>0, <2>1, <2>2, SameSize
  <2>3. CASE Partition(q)
    <3>1. pc[q] = "partition"
      BY <2>3 DEF Partition, At
    <3> QED BY <1>0, <2>1, <3>1 DEF SizeKept, At, CdSectors, Extra, Uint32
  <2> QED BY <2>2, <2>3
<1>3. ASSUME NEW p \in Procs, p # q, Main(p) \/ Act(p) \/ Killed(p) \/ Signal(p) \/ Append(p)
      PROVE  SizeKept(q)'
  <2>1. /\ pc'[q] = pc[q] /\ size'[q] = size[q] /\ sectors'[q] = sectors[q]
        /\ q \in linked' => q \in linked
    BY <1>0, <1>3, OthersStep, OthersSizes
  <2>2. CASE ~Partition(q)
    BY <1>0, <2>1, <2>2, SameSize
  <2>3. CASE Partition(q)
    <3>1. pc[q] = "partition"
      BY <2>3 DEF Partition, At
    <3> QED BY <1>0, <2>1, <3>1 DEF SizeKept, At, CdSectors, Extra, Uint32
  <2> QED BY <2>2, <2>3
<1> DEFINE Moved == /\ pc'[q] = pc[q] /\ sectors'[q] = sectors[q] /\ size'[q] = size[q]
                    /\ q \in linked' => q \in linked
                    /\ ~Partition(q)
<1>4. CASE Moved
  BY <1>0, <1>4, SameSize
<1>5. CASE Start(q) \/ Open(q) \/ Gone(q) \/ SleepOver(q)
  BY <1>0, <1>1, <1>5 DEF Start, Open, Gone, SleepOver, GoTo, Finish, TypeOK
<1>6. CASE (Signal(q) \/ Append(q)) /\ ~Partition(q)
  BY <1>0, <1>4, <1>6 DEF Signal, Append
<1>7. CASE Confirm(q)
  <2>1. CASE Finish(q, "declined")
    BY <1>0, <1>1, <2>1 DEF Finish, TypeOK
  <2>2. ASSUME NEW n \in Requests,
               size' = [size EXCEPT ![q] = n], sectors' = [sectors EXCEPT ![q] = CdSectors(n)],
               GoTo(q, IF CdSectors(n) # 0 THEN "roundup" ELSE "property")
        PROVE  SizeKept(q)'
    <3>1. CdSectors(n) \in Nat
      BY <1>0, BytesTypes, ConstantTypes
    <3>2. /\ pc'[q] \in {"roundup", "property"} /\ size'[q] = n /\ sectors'[q] = CdSectors(n)
          /\ pc'[q] = "roundup" => CdSectors(n) # 0
          /\ CdSectors(size[q])' = CdSectors(n)
      BY <1>0, <2>2 DEF GoTo, TypeOK, CdSectors, Extra, Uint32
    <3> QED BY <3>1, <3>2 DEF SizeKept, At
  <2> QED BY <1>7, <2>1, <2>2 DEF Confirm
<1>8. CASE RoundCdSize(q)
  <2>1. CASE Finish(q, "failed")
    BY <1>0, <1>1, <2>1 DEF Finish, TypeOK
  <2>2. CASE sectors' = [sectors EXCEPT ![q] = RoundUp[sectors[q]]] /\ GoTo(q, "property")
    <3>1. /\ sectors[q] = CdSectors(size[q]) /\ sectors[q] \in Sectors
          /\ size[q] \in Nat /\ pc[q] = "roundup"
      BY <1>0, <1>8 DEF RoundCdSize, SizeKept, At, TypeOK, PartitionLabels
    <3>2. RoundUp[sectors[q]] \in Nat /\ RoundUp[sectors[q]] >= sectors[q]
      BY <1>0, <3>1, CdPartitionAssumption
    <3>3. /\ pc'[q] = "property" /\ sectors'[q] = RoundUp[sectors[q]]
          /\ CdSectors(size[q])' = CdSectors(size[q])
      BY <1>0, <1>8, <2>2 DEF RoundCdSize, GoTo, TypeOK, CdSectors, Extra, Uint32
    <3>4. sectors[q] # 0 /\ sectors[q] \in Nat
      BY <1>0, <3>1 DEF SizeKept, At
    <3>5. RoundUp[sectors[q]] # 0
      BY <3>2, <3>4
    <3> QED BY ONLY <3>1, <3>2, <3>3, <3>4, <3>5 DEF SizeKept, At
  <2> QED BY <1>8, <2>1, <2>2 DEF RoundCdSize, GivesUp
<1>9. CASE ReadDeviceSize(q) \/ RoundDataSize(q)
  <2>1. CASE Finish(q, "failed")
    BY <1>0, <1>1, <2>1 DEF Finish, TypeOK
  <2>2. CASE GoTo(q, "rounddown") \/ GoTo(q, "partition")
    <3>1. /\ pc'[q] \in {"rounddown", "partition"} /\ UNCHANGED <<sectors, size>>
          /\ pc[q] \in {"property", "rounddown"}
      BY <1>0, <1>9, <2>2 DEF ReadDeviceSize, RoundDataSize, At, GoTo, TypeOK
    <3>2. CdSectors(size[q])' = CdSectors(size[q])
      BY <3>1 DEF CdSectors, Extra, Uint32
    <3> QED BY <1>0, <3>1, <3>2 DEF SizeKept, At
  <2> QED BY <1>9, <2>1, <2>2 DEF ReadDeviceSize, RoundDataSize, GivesUp
<1>10. CASE Partition(q)
  <2>1. CASE Finish(q, "failed")
    BY <1>0, <1>1, <2>1 DEF Finish, TypeOK
  <2>2. CASE Repartition(NewTable(q), 0) /\ GoTo(q, "reset")
    <3>1. /\ pc'[q] = "reset" /\ UNCHANGED <<sectors, size>> /\ pc[q] = "partition"
          /\ staged'.cd = sectors[q]
      BY <1>0, <1>10, <2>2 DEF Partition, Repartition, NewTable, At, GoTo, TypeOK
    <3>2. CdSectors(size[q])' = CdSectors(size[q])
      BY <3>1 DEF CdSectors, Extra, Uint32
    <3> QED BY <1>0, <3>1, <3>2 DEF SizeKept, At
  <2> QED BY <1>10, <2>1, <2>2 DEF Partition, SendCmd, ScsiCall, PartitionStatus, Repartition
<1>11. CASE Reset(q)
  <2>1. pc'[q] \in {"sleep", "close"}
    BY <1>0, <1>11 DEF Reset, SendCmd, ScsiCall, ResetStatus, GoTo, Finish, TypeOK
  <2> QED BY <1>1, <2>1
<1>12. CASE Stat(q) \/ PartitionInfo(q) \/ CheckFits(q) \/ OpenFile(q) \/ ReadBlock(q) \/ WriteCd(q)
  <2>1. \E l \in {"info", "info2", "fopen", "read", "write", "close"} :
          pc' = [pc EXCEPT ![q] = l]
    BY <1>12 DEF Stat, PartitionInfo, CheckFits, OpenFile, ReadBlock, WriteCd, ScsiCall,
       WriteStatus, GivesUp, GoTo, Finish
  <2> QED BY <1>0, <1>1, <2>1 DEF TypeOK
<1> QED
  BY <1>2, <1>3, <1>5, <1>6, <1>7, <1>8, <1>9, <1>10, <1>11, <1>12
     DEF Next, Main, Act, OpenFails, Close, Killed
(* Counting in sectors loses no byte.                                      *)
LEMMA SectorsHold ==
  ASSUME NEW n \in Nat
  PROVE  LoadSectors(n) * SectorSize >= n /\ (LoadSectors(n) = 0 <=> n = 0)
<1> DEFINE s == SectorSize
           k == n \div s
           r == n % s
<1>1. s \in Nat \ {0}
  BY ConstantTypes
<1> HIDE DEF s
<1>2. k \in Nat /\ r \in 0 .. s - 1 /\ n = s * k + r
  BY <1>1, SMTT(30)
<1> HIDE DEF k, r
<1>3. LoadSectors(n) = IF r # 0 THEN k + 1 ELSE k
  BY <1>2 DEF LoadSectors, Extra, k, r, s
<1>4. (k + 1) * s = s * k + s /\ k * s = s * k
  BY <1>1, <1>2, SMTT(30)
<1>5. CASE r = 0
  <2>1. k = 0 => s * k = 0
    BY <1>1
  <2>2. k # 0 => s * k # 0
    BY <1>1, <1>2, SMTT(30)
  <2>3. s * k \in Nat
    BY <1>1, <1>2, SMTT(30)
  <2>4. n = s * k /\ LoadSectors(n) = k
    BY <1>2, <1>3, <1>5, <2>3
  <2>5. k * s >= n /\ (k = 0 <=> n = 0)
    BY <1>1, <1>4, <2>1, <2>2, <2>3, <2>4
  <2> QED BY <2>4, <2>5 DEF s
<1>6. CASE r # 0
  <2>1. s * k \in Nat
    BY <1>1, <1>2, SMTT(30)
  <2>2. n # 0 /\ s * k + s >= n
    BY <1>1, <1>2, <1>6, <2>1
  <2> QED BY <1>2, <1>3, <1>4, <1>6, <2>2 DEF s
<1> QED BY <1>5, <1>6

(* A size that fits in a uint32_t of sectors is converted faithfully.      *)
LEMMA FittingSizes ==
  ASSUME NEW n \in Nat, FitsInWord(n)
  PROVE  CdSectors(n) = LoadSectors(n)
<1>1. Word \in Nat \ {0} /\ n \div SectorSize \in Nat /\ Extra(n) \in {0, 1}
  BY ConstantTypes DEF Extra
<1>2. ASSUME NEW k \in Nat, k < Word PROVE Uint32(k) = k
  BY <1>1, <1>2 DEF Uint32
<1>3. (n \div SectorSize) + Extra(n) < Word
  BY DEF FitsInWord, LoadSectors
<1>4. Uint32(n \div SectorSize) = n \div SectorSize
  BY <1>1, <1>2, <1>3
<1> QED BY <1>1, <1>2, <1>3, <1>4 DEF CdSectors, LoadSectors

(* When -p has reset the stick, the CD partition is as large as asked for, *)
(* for every sector size and rounding.                                     *)
THEOREM RequestIsMet ==
  ASSUME Exclusive = TRUE
  PROVE  Spec => PartitionMeetsRequest
<1>1. Init => RequestInv
  BY LoadInit DEF Init, RequestInv, SizeKept, At
<1>2. RequestInv /\ [Next]_vars => RequestInv'
  <2> SUFFICES ASSUME RequestInv, [Next]_vars PROVE RequestInv'
    OBVIOUS
  <2> QED BY LoadStep, SizeKeptStep DEF RequestInv
<1>3. ASSUME RequestInv, [Next]_vars, NEW p \in Procs,
             At(p, "reset"), At(p, "sleep")', FitsInWord(size[p])
      PROVE  HoldsRequest(p)'
  <2>0. TypeOK /\ SizeKept(p) /\ pc[p] = "reset" /\ pc'[p] = "sleep"
    BY <1>3 DEF RequestInv, LoadInv, At
  <2>1. Reset(p)
    <3>1. ASSUME NEW q \in Procs, q # p, Main(q) \/ Act(q) \/ Killed(q) \/ Signal(q) \/ Append(q)
          PROVE  FALSE
      BY <2>0, <3>1, OthersStep
    <3>2. ~UNCHANGED pc
      BY <2>0
    <3>3. Main(p) \/ Act(p) \/ Killed(p) \/ Signal(p) \/ Append(p)
      BY <1>3, <3>1, <3>2 DEF Next, Stick, procVars, vars
    <3>4. ~Gone(p) /\ ~Signal(p) /\ ~Append(p)
      BY <2>0, <3>2 DEF Gone, Signal, Append, TypeOK
    <3> QED
      BY <2>0, <3>3, <3>4 DEF Main, Act, Killed, Start, Open, OpenFails, Confirm, Close, At,
         RoundCdSize, ReadDeviceSize, RoundDataSize, Partition, SleepOver, Stat,
         PartitionInfo, CheckFits, OpenFile, ReadBlock, WriteCd
  <2>2. p \in linked /\ Disconnect(0) /\ UNCHANGED size
    BY <2>0, <2>1 DEF Reset, SendCmd, ScsiCall, ResetStatus, Disconnect, Finish, TypeOK
  <2>3. table'.cd = sectors[p]
    BY <2>0, <2>2 DEF SizeKept, At, Disconnect
  <2>4. size[p] \in Nat /\ sectors[p] \in Nat /\ CdSectors(size[p]) \in Nat
    BY <2>0, BytesTypes, ConstantTypes DEF TypeOK
  <2>5. /\ sectors[p] >= LoadSectors(size[p])
        /\ sectors[p] = 0 <=> LoadSectors(size[p]) = 0
    BY <1>3, <2>0, <2>4, FittingSizes DEF SizeKept
  <2>6. /\ LoadSectors(size[p]) * SectorSize >= size[p]
        /\ LoadSectors(size[p]) = 0 <=> size[p] = 0
    BY <2>4, SectorsHold
  <2>7. sectors[p] * SectorSize >= LoadSectors(size[p]) * SectorSize
    <3>1. SectorSize \in Nat /\ LoadSectors(size[p]) \in Nat
      BY <2>4, BytesTypes, ConstantTypes
    <3>2. ASSUME NEW i \in Nat, NEW j \in Nat, NEW s \in Nat, i >= j PROVE i * s >= j * s
      BY <3>2, SMTT(30)
    <3> QED BY <2>4, <2>5, <3>1, <3>2
  <2>8. /\ sectors[p] * SectorSize \in Nat /\ LoadSectors(size[p]) * SectorSize \in Nat
    BY <2>4, BytesTypes, ConstantTypes, SMTT(30)
  <2>9. sectors[p] * SectorSize >= size[p]
    BY <2>4, <2>6, <2>7, <2>8
  <2> QED BY <2>2, <2>3, <2>5, <2>6, <2>9 DEF HoldsRequest
<1>4. RequestInv /\ [Next]_vars
        => [\A p \in Procs : At(p, "reset") /\ At(p, "sleep")' /\ FitsInWord(size[p])
              => HoldsRequest(p)']_vars
  BY <1>3
<1> QED BY <1>1, <1>2, <1>4, PTL DEF Spec, PartitionMeetsRequest

(* The size that is on its way to the stick is the one that was asked for. *)
AskedFor(p) ==
  pc[p] \in {"roundup", "property", "rounddown", "partition", "reset"} => size[p] \in Requests

(* Nothing but a new request changes it.                                   *)
LEMMA AskedForStep ==
  ASSUME TypeOK, NEW p \in Procs, AskedFor(p), [Next]_vars
  PROVE  AskedFor(p)'
<1> USE DEF TypeOK, AskedFor, At, GoTo, Finish, GivesUp
<1>1. CASE Stick \/ UNCHANGED vars
  BY <1>1 DEF Stick, procVars, vars
<1>2. ASSUME NEW q \in Procs, q # p, Main(q) \/ Act(q) \/ Killed(q) \/ Signal(q) \/ Append(q)
      PROVE  AskedFor(p)'
  BY <1>2, OthersStep
<1>3. CASE Main(p) \/ Killed(p) \/ Signal(p) \/ Append(p)
  BY <1>3 DEF Main, Start, Open, OpenFails, Confirm, Close, Killed, Signal, Append, Gone
<1>4. CASE RoundCdSize(p) \/ ReadDeviceSize(p) \/ RoundDataSize(p) \/ SleepOver(p)
  BY <1>4 DEF RoundCdSize, ReadDeviceSize, RoundDataSize, SleepOver
<1>5. CASE Partition(p)
  BY <1>5 DEF Partition
<1>6. CASE Reset(p)
  BY <1>6 DEF Reset, SendCmd, ScsiCall, ResetStatus
<1>7. CASE Stat(p) \/ PartitionInfo(p) \/ CheckFits(p) \/ OpenFile(p) \/ ReadBlock(p) \/ WriteCd(p)
  BY <1>7 DEF Stat, PartitionInfo, CheckFits, OpenFile, ReadBlock, WriteCd, ScsiCall, WriteStatus
<1> QED BY <1>1, <1>2, <1>3, <1>4, <1>5, <1>6, <1>7 DEF Next, Act

(* Where no request is of 2^32 sectors or more, -p always makes the CD as  *)
(* large as the man page says: the truncation to a uint32_t is the only    *)
(* thing that is wrong with it.                                            *)
THEOREM FittingRequestsAreMet ==
  ASSUME Exclusive = TRUE, \A n \in Requests : FitsInWord(n)
  PROVE  Spec => CdHoldsRequest
<1> DEFINE Inv == TypeOK /\ \A p \in Procs : AskedFor(p)
           Met == \A p \in Procs : At(p, "reset") /\ At(p, "sleep")' /\ FitsInWord(size[p])
                    => HoldsRequest(p)'
           Holds == \A p \in Procs : At(p, "reset") /\ At(p, "sleep")' => HoldsRequest(p)'
<1>1. Init => Inv
  BY TypeInit DEF Init, AskedFor
<1>2. Inv /\ [Next]_vars => Inv'
  BY TypeStep, AskedForStep
<1>3. Inv /\ [Met]_vars => [Holds]_vars
  BY DEF AskedFor, At
<1>4. Spec => [][Met]_vars
  BY RequestIsMet DEF PartitionMeetsRequest
<1>5. Spec => []Inv
  BY <1>1, <1>2, PTL DEF Spec
<1>6. Spec => [][Holds]_vars
  BY <1>3, <1>4, <1>5, PTL
<1> QED BY <1>6 DEF CdHoldsRequest
-----------------------------------------------------------------------------
(* The blocks written.                                                     *)

(* The table in force changes with a reset that reaches the stick, or when *)
(* nobody has the stick open.                                              *)
LEMMA ForceStep ==
  ASSUME [Next]_vars
  PROVE  \/ UNCHANGED table
         \/ /\ table' = staged
            /\ \/ Stick /\ \A r \in Procs : pc[r] \in {"idle", "open"}
               \/ \E p \in Procs : Reset(p) /\ p \in linked
<1>1. CASE Stick \/ UNCHANGED vars
  BY <1>1 DEF Stick, Reconnect, Disconnect, vars, discVars
<1>2. ASSUME NEW p \in Procs, Partition(p) \/ WriteCd(p)
      PROVE  UNCHANGED table
  BY <1>2 DEF Partition, WriteCd, SendCmd, ScsiCall, Repartition, WriteBlock, GivesUp, discVars
<1>3. ASSUME NEW p \in Procs, Reset(p)
      PROVE  UNCHANGED table \/ (p \in linked /\ table' = staged)
  BY <1>3 DEF Reset, SendCmd, ScsiCall, Disconnect, discVars
<1>4. ASSUME NEW p \in Procs,
             Main(p) \/ Act(p) \/ Killed(p) \/ Signal(p) \/ Append(p),
             ~Partition(p), ~Reset(p), ~WriteCd(p)
      PROVE  UNCHANGED table
  BY <1>4 DEF Main, Act, Killed, Signal, Start, Open, OpenFails, Confirm, Close, Gone,
     RoundCdSize, ReadDeviceSize, RoundDataSize, SleepOver, Stat, PartitionInfo,
     CheckFits, OpenFile, ReadBlock, Append, Answered, GivesUp, discVars
<1> QED BY <1>1, <1>2, <1>3, <1>4 DEF Next

(* Every table on its way to the stick, and on it, is of whole blocks.     *)
LEMMA WholeStep ==
  ASSUME \A n \in Sectors : WholeBlocks(RoundUp[n]), InsideInv, [Next]_vars
  PROVE  /\ WholeBlocks(table.cd)' /\ WholeBlocks(staged.cd)'
         /\ \A q \in Procs : pc'[q] \in {"property", "rounddown", "partition"}
                             => WholeBlocks(sectors[q])'
<1>0. TypeOK
  BY DEF InsideInv, LoadInv
<1>1. WholeBlocks(table.cd)'
  BY ForceStep DEF InsideInv, WholeBlocks
<1>2. WholeBlocks(staged.cd)'
  <2>1. ASSUME NEW p \in Procs, p \in linked, Partition(p)
        PROVE  WholeBlocks(staged.cd)'
    <3>1. pc[p] = "partition"
      BY <2>1 DEF Partition, At
    <3>2. WholeBlocks(sectors[p])
      BY <3>1 DEF InsideInv, StillFits
    <3>3. staged'.cd = sectors[p] \/ staged' = staged
      BY <2>1 DEF Partition, SendCmd, ScsiCall, Repartition, NewTable, discVars
    <3> QED BY <3>2, <3>3 DEF InsideInv, WholeBlocks
  <2> QED BY <2>1, StagedStep DEF InsideInv, WholeBlocks
<1>3. ASSUME NEW q \in Procs, pc'[q] \in {"property", "rounddown", "partition"}
      PROVE  WholeBlocks(sectors[q])'
  <2>0. pc[q] \in {"property", "rounddown", "partition"} => WholeBlocks(sectors[q])
    BY DEF InsideInv, StillFits
  <2>1. CASE pc'[q] = pc[q] /\ sectors'[q] = sectors[q]
    BY <1>3, <2>0, <2>1 DEF WholeBlocks
  <2>2. CASE Stick \/ UNCHANGED vars
    BY <2>1, <2>2 DEF Stick, procVars, vars
  <2>3. ASSUME NEW p \in Procs, p # q, Main(p) \/ Act(p) \/ Killed(p) \/ Signal(p) \/ Append(p)
        PROVE  WholeBlocks(sectors[q])'
    BY <1>0, <2>1, <2>3, OthersStep, OthersSizes
  <2>4. CASE Start(q) \/ Open(q) \/ Gone(q) \/ SleepOver(q)
    BY <1>0, <1>3, <2>4 DEF Start, Open, Gone, SleepOver, GoTo, Finish, TypeOK
  <2>5. CASE Signal(q) \/ Append(q)
    BY <2>1, <2>5 DEF Signal, Append
  <2>6. CASE Confirm(q)
    <3>1. sectors'[q] = 0
      <4>1. PICK n \in Requests : /\ sectors' = [sectors EXCEPT ![q] = CdSectors(n)]
                                  /\ GoTo(q, IF CdSectors(n) # 0 THEN "roundup" ELSE "property")
        BY <1>0, <1>3, <2>6 DEF Confirm, Finish, TypeOK
      <4> QED BY <1>0, <1>3, <4>1 DEF GoTo, TypeOK
    <3>2. BlockSectors \in Nat
      BY CdPartitionAssumption
    <3> QED BY <3>1, <3>2 DEF WholeBlocks
  <2>7. CASE RoundCdSize(q)
    <3>1. sectors[q] \in Sectors /\ sectors' = [sectors EXCEPT ![q] = RoundUp[sectors[q]]]
      BY <1>0, <1>3, <2>7 DEF RoundCdSize, GivesUp, Finish, At, TypeOK, PartitionLabels
    <3>2. WholeBlocks(RoundUp[sectors[q]]) /\ sectors'[q] = RoundUp[sectors[q]]
      BY <1>0, <3>1 DEF TypeOK
    <3> QED BY <3>2 DEF WholeBlocks
  <2>8. CASE ReadDeviceSize(q) \/ RoundDataSize(q)
    <3>1. UNCHANGED sectors /\ pc[q] \in {"property", "rounddown"}
      BY <2>8 DEF ReadDeviceSize, RoundDataSize, At
    <3> QED BY <2>0, <3>1 DEF WholeBlocks
  <2>9. CASE Partition(q) \/ Reset(q)
    BY <1>0, <1>3, <2>9 DEF Partition, Reset, SendCmd, ScsiCall, PartitionStatus, ResetStatus,
       GoTo, Finish, TypeOK
  <2>10. CASE Stat(q) \/ PartitionInfo(q) \/ CheckFits(q) \/ OpenFile(q) \/ ReadBlock(q) \/ WriteCd(q)
    <3>1. \E l \in {"info", "info2", "fopen", "read", "write", "close"} :
            pc' = [pc EXCEPT ![q] = l]
      BY <2>10 DEF Stat, PartitionInfo, CheckFits, OpenFile, ReadBlock, WriteCd, ScsiCall,
         WriteStatus, GivesUp, GoTo, Finish
    <3> QED BY <1>0, <1>3, <3>1 DEF TypeOK
  <2> QED
    BY <2>2, <2>3, <2>4, <2>5, <2>6, <2>7, <2>8, <2>9, <2>10
       DEF Next, Main, Act, OpenFails, Close, Killed
<1> QED BY <1>1, <1>2, <1>3

(* What was compared with the CD partition is still inside it when the     *)
(* blocks are written.                                                     *)
LEMMA FitStep ==
  ASSUME InsideInv, [Next]_vars, NEW q \in Procs, pc'[q] \in {"fopen", "read", "write"}
  PROVE  sectors'[q] <= table'.cd
<1>0. TypeOK
  BY DEF InsideInv, LoadInv
<1>1. pc[q] \in LoadLabels => linked = {q}
  BY DEF InsideInv, LoadInv, LoadingAlone
<1>2. pc[q] \in LoadLabels => UNCHANGED table
  <2>1. ASSUME NEW p \in Procs, Reset(p), p \in linked, pc[q] \in LoadLabels PROVE FALSE
    BY <1>1, <2>1 DEF Reset, At, LoadLabels
  <2> QED BY <2>1, ForceStep DEF LoadLabels
<1>3. pc[q] \in {"fopen", "read", "write"} => sectors[q] <= table.cd
  BY DEF InsideInv, StillFits
<1>4. CASE pc[q] \in {"fopen", "read", "write"} /\ sectors'[q] = sectors[q]
  BY <1>2, <1>3, <1>4 DEF LoadLabels
<1>5. CASE Stick \/ UNCHANGED vars
  BY <1>4, <1>5 DEF Stick, procVars, vars
<1>6. ASSUME NEW p \in Procs, p # q, Main(p) \/ Act(p) \/ Killed(p) \/ Signal(p) \/ Append(p)
      PROVE  sectors'[q] <= table'.cd
  BY <1>0, <1>4, <1>6, OthersStep, OthersSizes
<1>7. CASE Main(q) \/ Killed(q) \/ SleepOver(q)
  BY <1>0, <1>7 DEF Main, Killed, Start, Open, OpenFails, Confirm, Close, Gone, SleepOver, GoTo,
     Finish, TypeOK
<1>8. CASE Signal(q) \/ Append(q)
  BY <1>4, <1>8 DEF Signal, Append
<1>9. CASE RoundCdSize(q) \/ ReadDeviceSize(q) \/ RoundDataSize(q)
  BY <1>0, <1>9 DEF RoundCdSize, ReadDeviceSize, RoundDataSize, GivesUp, GoTo, Finish, TypeOK
<1>10. CASE Partition(q) \/ Reset(q)
  BY <1>0, <1>10 DEF Partition, Reset, SendCmd, ScsiCall, PartitionStatus, ResetStatus,
     GoTo, Finish, TypeOK
<1>11. CASE Stat(q) \/ PartitionInfo(q)
  BY <1>0, <1>11 DEF Stat, PartitionInfo, GivesUp, GoTo, Finish, TypeOK
<1>12. CASE CheckFits(q)
  <2>1. sectors[q] <= table.cd /\ UNCHANGED sectors /\ pc[q] = "info2"
    BY <1>0, <1>12 DEF CheckFits, GivesUp, GoTo, Finish, At, TypeOK
  <2> QED BY <1>2, <2>1 DEF LoadLabels
<1>13. CASE OpenFile(q) \/ ReadBlock(q) \/ WriteCd(q)
  <2>1. pc[q] \in {"fopen", "read", "write"} /\ UNCHANGED sectors
    BY <1>13 DEF OpenFile, ReadBlock, WriteCd, At
  <2> QED BY <1>4, <2>1
<1> QED
  BY <1>5, <1>6, <1>7, <1>8, <1>9, <1>10, <1>11, <1>12, <1>13 DEF Next, Act

(* A file of n bytes that fits in m blocks' worth of sectors has at most m *)
(* blocks.                                                                 *)
LEMMA BlocksFit ==
  ASSUME NEW n \in Nat, NEW m \in Nat, LoadSectors(n) <= m * BlockSectors
  PROVE  BlockCount(n) <= m
<1> DEFINE s == SectorSize
           c == BlockSectors
           b == BlockBytes
           k == n \div b
           r == n % b
           l == LoadSectors(n)
<1>1. s \in Nat \ {0} /\ c \in Nat \ {0} /\ b = s * c
  BY CdToolAssumption, CdPartitionAssumption DEF BlockBytes
<1>2. l * s >= n /\ l <= m * c /\ l \in Nat
  BY SectorsHold, BytesTypes
<1> HIDE DEF s, c, b, l
<1>3. b \in Nat \ {0}
  BY <1>1, SMTT(30)
<1>4. k \in Nat /\ r \in 0 .. b - 1 /\ n = b * k + r
  BY <1>3, SMTT(30)
<1> HIDE DEF k, r
<1>5. m * c \in Nat /\ (m * c) * s = b * m /\ b * m \in Nat
  BY <1>1, <1>3, SMTT(30)
<1>6. l * s <= (m * c) * s
  <2>1. ASSUME NEW i \in Nat, NEW j \in Nat, NEW h \in Nat, i <= j PROVE i * h <= j * h
    BY <2>1, SMTT(30)
  <2> QED BY <1>1, <1>2, <1>5, <2>1
<1>7. l * s \in Nat /\ b * k \in Nat
  BY <1>1, <1>2, <1>3, <1>4, SMTT(30)
<1>8. b * k + r <= b * m
  BY <1>2, <1>4, <1>5, <1>6, <1>7
<1>9. k <= m
  <2>1. k >= m + 1 => b * k >= b * m + b
    BY <1>3, <1>4, SMTT(30)
  <2> QED BY <1>3, <1>4, <1>5, <1>7, <1>8, <2>1
<1>10. r # 0 => k # m
  BY <1>4, <1>5, <1>8
<1>11. BlockCount(n) = IF r # 0 THEN k + 1 ELSE k
  BY <1>4 DEF BlockCount, FullBlocks, HasRest, k, r, b
<1> QED BY <1>4, <1>9, <1>10, <1>11

(* With the claim, on a stick that rounds up to whole blocks, no block is  *)
(* written that is not inside the CD partition, unless the file grew.      *)
THEOREM WritesAreInside ==
  ASSUME Exclusive = TRUE, \A n \in Sectors : WholeBlocks(RoundUp[n])
  PROVE  Spec => []WritesInside
<1>1. Init => InsideInv
  <2> SUFFICES ASSUME Init PROVE InsideInv
    OBVIOUS
  <2>1. WholeBlocks(table.cd)
    <3>1. table.cd = 0 \/ \E n \in Sectors : table.cd = RoundUp[n]
      BY DEF Init
    <3>2. WholeBlocks(0)
      BY CdPartitionAssumption DEF WholeBlocks
    <3> QED BY <3>1, <3>2
  <2>2. staged = table /\ \A p \in Procs : pc[p] = "idle"
    BY DEF Init
  <2> QED BY <2>1, <2>2, LoadInit, TableInit DEF InsideInv, StillFits
<1>2. InsideInv /\ [Next]_vars => InsideInv'
  <2> SUFFICES ASSUME InsideInv, [Next]_vars PROVE InsideInv'
    OBVIOUS
  <2>1. LoadInv' /\ TableInv'
    BY LoadStep, TableStep DEF InsideInv
  <2>2. \A p \in Procs : StillFits(p)'
    BY WholeStep, FitStep DEF StillFits
  <2> QED BY <2>1, <2>2, WholeStep DEF InsideInv
<1>3. ASSUME InsideInv, NEW p \in Procs, At(p, "write"), LoadSectors(length[p]) <= sectors[p]
      PROVE  Inside(blockNum[p])
  <2> DEFINE b == blockNum[p]
             c == BlockSectors
  <2>1. /\ b \in Nat /\ length[p] \in Nat /\ sectors[p] \in Nat /\ filePos[p] = b + 1
        /\ sectors[p] <= table.cd /\ table.cd \in Nat /\ table.data \in Nat
        /\ table.cd + table.data <= DeviceSize
    BY <1>3, ConstantTypes
       DEF InsideInv, LoadInv, TableInv, TableFits, StillFits, InStep, TypeOK, Tables, At
  <2>2. PICK m \in Nat : table.cd = m * c
    BY <1>3, <2>1 DEF InsideInv, WholeBlocks
  <2>3. c \in Nat \ {0} /\ LoadSectors(length[p]) \in Nat /\ DeviceSize \in Nat
    BY <2>1, BytesTypes, ConstantTypes, CdPartitionAssumption
  <2>4. BlockCount(length[p]) <= m
    BY <1>3, <2>1, <2>2, <2>3, BlocksFit
  <2>5. b + 1 <= BlockCount(length[p])
    <3>1. /\ FullBlocks(length[p]) \in Nat /\ BlockCount(length[p]) \in Nat
          /\ FullBlocks(length[p]) <= BlockCount(length[p])
      BY <2>1, BlockCounts
    <3>2. filePos[p] <= FullBlocks(length[p]) \/ filePos[p] = BlockCount(length[p])
      BY <1>3 DEF InsideInv, LoadInv, InStep
    <3> QED BY <2>1, <3>1, <3>2
  <2>6. b + 1 <= m
    <3>1. BlockCount(length[p]) \in Nat
      BY <2>1, BlockCounts
    <3> QED BY <2>1, <2>4, <2>5, <3>1
  <2> HIDE DEF b, c
  <2>7. (b + 1) * c <= m * c
    BY <2>1, <2>3, <2>6, SMTT(30)
  <2>8. (b + 1) * c <= DeviceSize /\ (b + 1) * c \in Nat
    BY <2>1, <2>2, <2>3, <2>7
  <2>9. b <= DeviceSize \div c
    <3>1. /\ DeviceSize \div c \in Nat
          /\ DeviceSize < c * (DeviceSize \div c) + c
      BY <2>3, SMTT(30)
    <3>2. ASSUME b > DeviceSize \div c PROVE FALSE
      <4>1. c * b >= c * (DeviceSize \div c) + c
        BY <2>1, <2>3, <3>1, <3>2, SMTT(30)
      <4>2. (b + 1) * c = c * b + c /\ c * b \in Nat
        BY <2>1, <2>3, SMTT(30)
      <4> QED BY <2>3, <2>8, <3>1, <4>1, <4>2
    <3> QED BY <2>1, <3>1, <3>2
  <2> QED BY <2>1, <2>2, <2>7, <2>9 DEF Inside, Blocks, b, c
<1>4. InsideInv => WritesInside
  BY <1>3 DEF WritesInside
<1> QED BY <1>1, <1>2, <1>4, PTL DEF Spec
=============================================================================
