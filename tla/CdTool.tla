------------------------------- MODULE CdTool -------------------------------
(***************************************************************************)
(* The CD actions of u3-tool (-p repartition, -l load an image), from      *)
(* main() down to u3_send_cmd(), run by any number of tool processes       *)
(* against one stick.  One step is one prompt, one library call or one     *)
(* u3_send_cmd(); SIGINT and SIGTERM set "quit" between any two of them.   *)
(*                                                                         *)
(* A file is identified with the size stat() found, and the content of its *)
(* k-th block with <<size, k>>; the file fopen() finds may have another    *)
(* length by then, and may grow while it is read.  The two u3_send_cmd()   *)
(* calls of u3_read_device_property() ask for a constant and are one step. *)
(***************************************************************************)
EXTENDS CdPartition

CONSTANTS Procs,
          Actions,      \* the actions users ask for
          Requests,     \* (uint64_t) strtoll() of the arguments of -p, in bytes
          IsoSizes,     \* sizes of the files given to -l, in bytes
          SectorSize,   \* U3_SECTOR_SIZE
          Exclusive     \* does u3_open() claim the device?

ASSUME CdToolAssumption ==
  /\ Actions \subseteq {"partition", "load"}
  /\ Requests \subseteq Nat /\ IsoSizes \subseteq Nat
  /\ SectorSize \in Nat \ {0}
  /\ Exclusive \in BOOLEAN

VARIABLES pc,         \* where each process is
          action,     \* the action parsed from its command line
          size,       \* do_partition(): size;  do_load(): file_stat.st_size
          sectors,    \* cd_sectors, then cd_size of u3_partition() and do_load()
          dataSize,   \* data_size of u3_partition()
          filePos,    \* blocks fread() has returned
          length,     \* how long the file that is read is by now
          eof,        \* the processes whose feof(fp) is true
          blockNum,   \* block_num
          quit,       \* quit: has SIGINT or SIGTERM arrived?
          result,     \* what it reports
          linked      \* the processes whose handle reaches the stick

fileVars == <<filePos, length, eof>>
procVars == <<pc, action, size, sectors, dataSize, fileVars, blockNum, quit, result>>
vars == <<discVars, procVars, linked>>

PartitionLabels ==
  {"confirm", "roundup", "property", "rounddown", "partition", "reset", "sleep"}

LoadLabels == {"stat", "info", "info2", "fopen", "read", "write"}

Labels == {"idle", "open", "close"} \cup PartitionLabels \cup LoadLabels

BlockBytes == SectorSize * BlockSectors      \* U3_BLOCK_SIZE

FullBlocks(n) == n \div BlockBytes
HasRest(n) == n % BlockBytes # 0
BlockCount(n) == FullBlocks(n) + (IF HasRest(n) THEN 1 ELSE 0)

(* Sectors needed for n bytes: in do_load() an off_t, in do_partition() a  *)
(* uint32_t, so that the quotient is truncated before it is incremented.   *)
Extra(n) == IF n % SectorSize # 0 THEN 1 ELSE 0

LoadSectors(n) == (n \div SectorSize) + Extra(n)

Uint32(n) == n % Word

(* Mutants of CdSectors: not truncated; and the odd bytes forgotten.       *)
CdSectorsWide(n) == LoadSectors(n)

CdSectorsCut(n) == Uint32(n \div SectorSize)

CdSectors(n) == Uint32(Uint32(n \div SectorSize) + Extra(n))

TypeOK ==
  /\ table \in Tables /\ staged \in Tables
  /\ disc \in [Blocks -> (Nat \X Nat)]
  /\ plugged \in BOOLEAN
  /\ pc \in [Procs -> Labels]
  /\ action \in [Procs -> {"none", "partition", "load"}]
  /\ size \in [Procs -> Nat]
  /\ sectors \in [Procs -> Nat]
  /\ \A p \in Procs :
       /\ pc[p] \in PartitionLabels => action[p] = "partition"
       /\ pc[p] \in LoadLabels => action[p] = "load"
       /\ pc[p] = "idle" => action[p] = "none"
       /\ pc[p] = "open" => action[p] # "none"
       /\ action[p] # "load" => sectors[p] \in Sectors
  /\ dataSize \in [Procs -> Sectors]
  /\ filePos \in [Procs -> Nat] /\ length \in [Procs -> Nat] /\ eof \subseteq Procs
  /\ blockNum \in [Procs -> Nat]
  /\ quit \in [Procs -> BOOLEAN]
  /\ result \in [Procs -> {"none", "ok", "failed", "declined"}]
  /\ linked \subseteq Procs

(* A stick whose tables are any that an earlier, finished repartitioning   *)
(* can have left.                                                          *)
Init ==
  /\ \E cd \in Sectors :
       /\ cd <= DeviceSize
       /\ cd = 0 \/ \E n \in Sectors : cd = RoundUp[n]
       /\ table = [cd |-> cd, data |-> RoundDown[DeviceSize - cd]]
  /\ staged = table
  /\ disc = [b \in Blocks |-> Foreign]
  /\ plugged = TRUE
  /\ pc = [p \in Procs |-> "idle"]
  /\ action = [p \in Procs |-> "none"]
  /\ size = [p \in Procs |-> 0]
  /\ sectors = [p \in Procs |-> 0]
  /\ dataSize = [p \in Procs |-> 0]
  /\ filePos = [p \in Procs |-> 0] /\ length = [p \in Procs |-> 0] /\ eof = {}
  /\ blockNum = [p \in Procs |-> 0]
  /\ quit = [p \in Procs |-> FALSE]
  /\ result = [p \in Procs |-> "none"]
  /\ linked = {}

At(p, label) == pc[p] = label

GoTo(p, label) ==
  /\ pc' = [pc EXCEPT ![p] = label]
  /\ UNCHANGED result

Finish(p, outcome) ==
  /\ pc' = [pc EXCEPT ![p] = "close"]
  /\ result' = [result EXCEPT ![p] = outcome]

Gone(p) ==
  /\ pc' = [pc EXCEPT ![p] = "idle"]
  /\ action' = [action EXCEPT ![p] = "none"]
  /\ size' = [size EXCEPT ![p] = 0]
  /\ sectors' = [sectors EXCEPT ![p] = 0]
  /\ dataSize' = [dataSize EXCEPT ![p] = 0]
  /\ filePos' = [filePos EXCEPT ![p] = 0]
  /\ length' = [length EXCEPT ![p] = 0]
  /\ eof' = eof \ {p}
  /\ blockNum' = [blockNum EXCEPT ![p] = 0]
  /\ quit' = [quit EXCEPT ![p] = FALSE]
  /\ result' = [result EXCEPT ![p] = "none"]
  /\ linked' = linked \ {p}
  /\ UNCHANGED discVars

(* A handle opened before the stick disconnected reaches nothing.          *)
SendCmd(p, Command(_), OnStatus(_)) ==
  \/ /\ p \in linked
     /\ ScsiCall(Command, UNCHANGED discVars, OnStatus, Finish(p, "failed"))
  \/ /\ p \notin linked
     /\ UNCHANGED discVars /\ Finish(p, "failed")

(* A command that only asks: the answer moves the action on; a failure, a  *)
(* non-zero status or an answer that is not accepted ends it.              *)
Answered(p) == p \in linked /\ UNCHANGED discVars

GivesUp(p) == Finish(p, "failed") /\ UNCHANGED discVars

-----------------------------------------------------------------------------
(* main()                                                                  *)

Start(p) ==
  /\ At(p, "idle")
  /\ \E a \in Actions : action' = [action EXCEPT ![p] = a]
  /\ GoTo(p, "open")
  /\ UNCHANGED <<discVars, size, sectors, dataSize, fileVars, blockNum, quit, linked>>

Open(p) ==
  /\ At(p, "open")
  /\ plugged
  /\ Exclusive => linked = {}
  /\ linked' = linked \cup {p}
  /\ GoTo(p, IF action[p] = "load" THEN "stat" ELSE "confirm")
  /\ UNCHANGED <<discVars, action, size, sectors, dataSize, fileVars, blockNum, quit>>

OpenFails(p) == At(p, "open") /\ Gone(p)

(* confirm(), and the conversion do_partition() starts with; u3_partition  *)
(* has the CD size rounded unless it is zero.                              *)
Confirm(p) ==
  /\ At(p, "confirm")
  /\ \/ \E n \in Requests :
          /\ size' = [size EXCEPT ![p] = n]
          /\ sectors' = [sectors EXCEPT ![p] = CdSectors(n)]
          /\ GoTo(p, IF CdSectors(n) # 0 THEN "roundup" ELSE "property")
     \/ UNCHANGED <<size, sectors>> /\ Finish(p, "declined")
  /\ UNCHANGED <<discVars, action, dataSize, fileVars, blockNum, quit, linked>>

Close(p) == At(p, "close") /\ Gone(p)

Killed(p) == pc[p] \notin {"idle", "open"} /\ Gone(p)

(* set_quit(), once the handlers are installed before u3_open().           *)
Signal(p) ==
  /\ pc[p] \notin {"idle", "close"}
  /\ ~quit[p]
  /\ quit' = [quit EXCEPT ![p] = TRUE]
  /\ UNCHANGED <<discVars, pc, action, size, sectors, dataSize, fileVars, blockNum,
                 result, linked>>

-----------------------------------------------------------------------------
(* do_partition()                                                          *)

RoundCdSize(p) ==
  /\ At(p, "roundup")
  /\ \/ /\ Answered(p)
        /\ sectors' = [sectors EXCEPT ![p] = RoundUp[sectors[p]]]
        /\ GoTo(p, "property")
     \/ GivesUp(p) /\ UNCHANGED sectors
  /\ UNCHANGED <<action, size, dataSize, fileVars, blockNum, quit, linked>>

(* Property 0x03.  A page of an unexpected length is one more way to give  *)
(* up.                                                                     *)
ReadDeviceSize(p) ==
  /\ At(p, "property")
  /\ \/ /\ Answered(p)
        /\ sectors[p] <= DeviceSize
        /\ dataSize' = [dataSize EXCEPT ![p] = DeviceSize - sectors[p]]
        /\ GoTo(p, "rounddown")
     \/ GivesUp(p) /\ UNCHANGED dataSize
  /\ UNCHANGED <<action, size, sectors, fileVars, blockNum, quit, linked>>

(* Mutant of RoundDataSize: the rest is rounded up, like the CD.           *)
RoundDataSizeUp(p) ==
  /\ At(p, "rounddown")
  /\ \/ /\ Answered(p)
        /\ dataSize' = [dataSize EXCEPT ![p] = RoundUp[dataSize[p]]]
        /\ GoTo(p, "partition")
     \/ GivesUp(p) /\ UNCHANGED dataSize
  /\ UNCHANGED <<action, size, sectors, fileVars, blockNum, quit, linked>>

RoundDataSize(p) ==
  /\ At(p, "rounddown")
  /\ \/ /\ Answered(p)
        /\ dataSize' = [dataSize EXCEPT ![p] = RoundDown[dataSize[p]]]
        /\ GoTo(p, "partition")
     \/ GivesUp(p) /\ UNCHANGED dataSize
  /\ UNCHANGED <<action, size, sectors, fileVars, blockNum, quit, linked>>

NewTable(p) == [cd |-> sectors[p], data |-> dataSize[p]]

PartitionStatus(p, status) ==
  \/ status = 0 /\ GoTo(p, "reset")
  \/ status # 0 /\ Finish(p, "failed")

Partition(p) ==
  /\ At(p, "partition")
  /\ SendCmd(p, LAMBDA status : Repartition(NewTable(p), status),
                LAMBDA status : PartitionStatus(p, status))
  /\ UNCHANGED <<action, size, sectors, dataSize, fileVars, blockNum, quit, linked>>

(* u3_reset(): a stick that disconnects leaves every handle behind.        *)
ResetStatus(p, status) ==
  \/ status = 0 /\ GoTo(p, "sleep")
  \/ status # 0 /\ Finish(p, "failed")

Reset(p) ==
  /\ At(p, "reset")
  /\ SendCmd(p, Disconnect, LAMBDA status : ResetStatus(p, status))
  /\ linked' = IF plugged' THEN linked ELSE {}
  /\ UNCHANGED <<action, size, sectors, dataSize, fileVars, blockNum, quit>>

(* ... and the two seconds it waits are over, the stick back or not.       *)
SleepOver(p) ==
  /\ At(p, "sleep")
  /\ Finish(p, "ok")
  /\ UNCHANGED <<discVars, action, size, sectors, dataSize, fileVars, blockNum,
                 quit, linked>>

-----------------------------------------------------------------------------
(* do_load()                                                               *)

Stat(p) ==
  /\ At(p, "stat")
  /\ \/ \E n \in IsoSizes \ {0} :
          /\ size' = [size EXCEPT ![p] = n]
          /\ sectors' = [sectors EXCEPT ![p] = LoadSectors(n)]
          /\ GoTo(p, "info")
     \/ UNCHANGED <<size, sectors>> /\ Finish(p, "failed")
  /\ UNCHANGED <<discVars, action, dataSize, fileVars, blockNum, quit, linked>>

(* u3_partition_info(): the entry of the CD partition is read by a second  *)
(* command when the first says that there is one; otherwise cd_size is 0,  *)
(* and no image fits.                                                      *)
PartitionInfo(p) ==
  /\ At(p, "info")
  /\ \/ Answered(p) /\ table.cd # 0 /\ GoTo(p, "info2")
     \/ GivesUp(p)
  /\ UNCHANGED <<action, size, sectors, dataSize, fileVars, blockNum, quit, linked>>

(* Mutant of CheckFits: the image is not compared with the CD.             *)
CheckNothing(p) ==
  /\ At(p, "info2")
  /\ \/ Answered(p) /\ GoTo(p, "fopen")
     \/ GivesUp(p)
  /\ UNCHANGED <<action, size, sectors, dataSize, fileVars, blockNum, quit, linked>>

CheckFits(p) ==
  /\ At(p, "info2")
  /\ \/ Answered(p) /\ sectors[p] <= table.cd /\ GoTo(p, "fopen")
     \/ GivesUp(p)
  /\ UNCHANGED <<action, size, sectors, dataSize, fileVars, blockNum, quit, linked>>

OpenFile(p) ==
  /\ At(p, "fopen")
  /\ \/ /\ \E n \in IsoSizes : length' = [length EXCEPT ![p] = n]
        /\ GoTo(p, "read")
     \/ UNCHANGED length /\ Finish(p, "failed")
  /\ UNCHANGED <<discVars, action, size, sectors, dataSize, filePos, eof, blockNum,
                 quit, linked>>

(* Mutant of CameShort: the rest of the file is forgotten.                 *)
CameShortEarly(k, n) == k >= FullBlocks(n)

(* The k-th block read from a file of n bytes is short: feof().            *)
CameShort(k, n) == k > FullBlocks(n)

(* Mutant of ReadBlock: an empty read is tried again.                      *)
ReadBlockForever(p) ==
  /\ At(p, "read")
  /\ \/ /\ filePos[p] < BlockCount(length[p])
        /\ filePos' = [filePos EXCEPT ![p] = @ + 1]
        /\ eof' = IF CameShort(filePos[p] + 1, length[p]) THEN eof \cup {p} ELSE eof
        /\ GoTo(p, "write")
     \/ UNCHANGED <<filePos, eof>> /\ GoTo(p, "read")
  /\ UNCHANGED <<discVars, action, size, sectors, dataSize, length, blockNum, quit, linked>>

(* The block read is written unless there was nothing left to read; then   *)
(* feof() ends the loop.                                                   *)
ReadBlock(p) ==
  /\ At(p, "read")
  /\ \/ /\ filePos[p] < BlockCount(length[p])
        /\ filePos' = [filePos EXCEPT ![p] = @ + 1]
        /\ eof' = IF CameShort(filePos[p] + 1, length[p]) THEN eof \cup {p} ELSE eof
        /\ GoTo(p, "write")
     \/ /\ filePos[p] >= BlockCount(length[p])
        /\ UNCHANGED filePos
        /\ eof' = eof \cup {p}
        /\ Finish(p, "ok")
     \/ UNCHANGED <<filePos, eof>> /\ Finish(p, "failed")
  /\ UNCHANGED <<discVars, action, size, sectors, dataSize, length, blockNum, quit, linked>>

(* Somebody appends to the file before its end has been read.              *)
Append(p) ==
  /\ pc[p] \in {"read", "write"} /\ p \notin eof
  /\ \E n \in IsoSizes : n > length[p] /\ length' = [length EXCEPT ![p] = n]
  /\ UNCHANGED <<discVars, pc, action, size, sectors, dataSize, filePos, eof, blockNum,
                 quit, result, linked>>

(* Mutant of WriteStatus: block_num counts blocks that were not written.   *)
WriteStatusSkips(p, status) ==
  /\ blockNum' = [blockNum EXCEPT ![p] = @ + 1]
  /\ \/ (p \in eof \/ quit[p]) /\ Finish(p, "ok")
     \/ p \notin eof /\ ~quit[p] /\ GoTo(p, "read")
  /\ status \in Statuses

WriteStatus(p, status) ==
  \/ /\ status = 0
     /\ blockNum' = [blockNum EXCEPT ![p] = @ + 1]
     /\ \/ (p \in eof \/ quit[p]) /\ Finish(p, "ok")
        \/ p \notin eof /\ ~quit[p] /\ GoTo(p, "read")
  \/ status # 0 /\ Finish(p, "failed") /\ UNCHANGED blockNum

WriteCd(p) ==
  /\ At(p, "write")
  /\ \/ /\ p \in linked
        /\ ScsiCall(LAMBDA status : WriteBlock(blockNum[p], <<size[p], filePos[p]>>, status),
                    UNCHANGED discVars,
                    LAMBDA status : WriteStatus(p, status),
                    Finish(p, "failed") /\ UNCHANGED blockNum)
     \/ GivesUp(p) /\ UNCHANGED blockNum
  /\ UNCHANGED <<action, size, sectors, dataSize, fileVars, quit, linked>>

-----------------------------------------------------------------------------
(* The stick comes back after a reset; or its owner replugs it between two *)
(* uses of the tool, and a table still staged comes into force.            *)
Stick ==
  /\ \/ Reconnect
     \/ (\A p \in Procs : pc[p] \in {"idle", "open"}) /\ plugged /\ Disconnect(0)
  /\ UNCHANGED <<procVars, linked>>

Main(p) == Start(p) \/ Open(p) \/ OpenFails(p) \/ Confirm(p) \/ Close(p)

Act(p) ==
  \/ RoundCdSize(p) \/ ReadDeviceSize(p) \/ RoundDataSize(p) \/ Partition(p)
  \/ Reset(p) \/ SleepOver(p)
  \/ Stat(p) \/ PartitionInfo(p) \/ CheckFits(p) \/ OpenFile(p) \/ ReadBlock(p)
  \/ WriteCd(p)

Next == Stick \/ \E p \in Procs : Main(p) \/ Act(p) \/ Killed(p) \/ Signal(p) \/ Append(p)

Spec == Init /\ [][Next]_vars

(* The operating system keeps running the process; nothing is assumed of   *)
(* its user or of the stick.                                               *)
FairSpec == Spec /\ \A p \in Procs : WF_vars(Act(p))

-----------------------------------------------------------------------------
(* Properties                                                              *)

(* No table ever written, and so none ever in force, promises more sectors *)
(* than the device has: rounding up, the check against the device size and *)
(* rounding down come in an order that guarantees it.                      *)
TableFits ==
  /\ table.cd + table.data <= DeviceSize
  /\ staged.cd + staged.data <= DeviceSize

(* What do_partition() knows between its check and its command.            *)
SizesFit(p) ==
  /\ At(p, "rounddown") => sectors[p] + dataSize[p] = DeviceSize
  /\ At(p, "partition") => sectors[p] + dataSize[p] <= DeviceSize

(* The inductive invariant behind TableFits.                               *)
TableInv == TypeOK /\ TableFits /\ \A p \in Procs : SizesFit(p)

(* The bytes asked for with -p are a sector count a uint32_t can hold.     *)
FitsInWord(n) == LoadSectors(n) < Word

HoldsRequest(p) ==
  /\ table.cd * SectorSize >= size[p]
  /\ table.cd = 0 <=> size[p] = 0

(* When -p has reset the stick, the CD partition in force is as large as   *)
(* it was asked to be: what was staged is what was asked for, whatever     *)
(* other runs staged, were killed over or left half done before.           *)
PartitionMeetsRequest ==
  [][ \A p \in Procs : At(p, "reset") /\ At(p, "sleep")' /\ FitsInWord(size[p])
        => HoldsRequest(p)' ]_vars

(* The same for every argument: "The argument specifies the size of the CD *)
(* partition".                                                             *)
CdHoldsRequest ==
  [][ \A p \in Procs : At(p, "reset") /\ At(p, "sleep")' => HoldsRequest(p)' ]_vars

(* u3_cd_write() is never asked for a block that is not wholly inside the  *)
(* CD partition, unless the file has outgrown what was compared with it:   *)
(* the one size check before the loop covers the padding of the last block *)
(* and every command in between.                                           *)
WritesInside ==
  \A p \in Procs :
    At(p, "write") /\ LoadSectors(length[p]) <= sectors[p] => Inside(blockNum[p])

(* The blocks before block n hold the file's first blocks, in order.       *)
PrefixOnDisc(p, n) ==
  \A k \in 0 .. n - 1 : k \in Blocks /\ disc[k] = <<size[p], k + 1>>

Loaded(p) == At(p, "close") /\ action[p] = "load" /\ result[p] = "ok"

(* "OK" without an interruption means that the whole image is on the CD,   *)
(* every block at its place and none of an earlier image among them: the   *)
(* image as it was when its end was read, however long stat() found it.    *)
OkMeansLoaded ==
  \A p \in Procs : Loaded(p) /\ ~quit[p] => PrefixOnDisc(p, BlockCount(length[p]))

(* The inductive invariant behind OkMeansLoaded, with the claim: only the  *)
(* loading process reaches the stick, and the copy loop keeps the file and *)
(* the CD in step.                                                         *)
LoadingAlone(p) ==
  /\ pc[p] \in LoadLabels => linked = {p}
  /\ Loaded(p) => linked = {p}
  /\ p \in linked => pc[p] \notin {"idle", "open"}

InStep(p) ==
  /\ pc[p] \in Labels \ {"read", "write", "close"} =>
       filePos[p] = 0 /\ blockNum[p] = 0 /\ p \notin eof
  /\ At(p, "read") =>
       filePos[p] = blockNum[p] /\ filePos[p] <= FullBlocks(length[p]) /\ p \notin eof
  /\ At(p, "write") =>
       /\ filePos[p] = blockNum[p] + 1
       /\ p \notin eof => filePos[p] <= FullBlocks(length[p])
       /\ p \in eof => filePos[p] = BlockCount(length[p])
  /\ pc[p] \in {"read", "write"} => PrefixOnDisc(p, blockNum[p])
  /\ Loaded(p) /\ ~quit[p] => PrefixOnDisc(p, BlockCount(length[p]))

LoadInv ==
  /\ TypeOK
  /\ linked # {} => plugged
  /\ \A p, q \in linked : p = q
  /\ \A p \in Procs : LoadingAlone(p) /\ InStep(p)

(* The invariant behind PartitionMeetsRequest: the size only grows on its  *)
(* way from the argument to the stick, and who resets a stick it reaches   *)
(* resets it to its own table.                                             *)
SizeKept(p) ==
  /\ At(p, "roundup") => sectors[p] = CdSectors(size[p]) /\ sectors[p] # 0
  /\ pc[p] \in {"roundup", "property", "rounddown", "partition", "reset"} =>
       /\ sectors[p] >= CdSectors(size[p])
       /\ sectors[p] = 0 <=> CdSectors(size[p]) = 0
  /\ At(p, "reset") /\ p \in linked => staged.cd = sectors[p]

RequestInv == LoadInv /\ \A p \in Procs : SizeKept(p)

(* The invariant behind WritesInside, where the stick rounds up to whole   *)
(* blocks: what was compared with the CD partition still is.               *)
WholeBlocks(n) == \E m \in 0 .. n : n = m * BlockSectors

StillFits(p) ==
  /\ pc[p] \in {"fopen", "read", "write"} => sectors[p] <= table.cd
  /\ pc[p] \in {"property", "rounddown", "partition"} => WholeBlocks(sectors[p])

InsideInv ==
  /\ LoadInv /\ TableInv
  /\ \A p \in Procs : StillFits(p)
  /\ WholeBlocks(table.cd) /\ WholeBlocks(staged.cd)

(* The copy loop ends, at the end of the file at the latest.               *)
LoadEnds == \A p \in Procs : pc[p] \in {"read", "write"} ~> pc[p] \in {"close", "idle"}
=============================================================================
