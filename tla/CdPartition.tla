---------------------------- MODULE CdPartition ----------------------------
(***************************************************************************)
(* The partition table of a U3 stick and the contents of its CD partition, *)
(* as u3-tool sees them through the vendor commands 0x20 (round), 0x21     *)
(* (table), 0x22 (repartition), 0x42 (write CD block) and 0x101 (reset).   *)
(* The firmware is not part of the repository: it is modelled from its use *)
(* in src/src/u3_commands.c and src/src/main.c and from the authors' notes *)
(* in src/doc/commands.txt:64-172 and 468-490.                             *)
(***************************************************************************)
EXTENDS ScsiCommand

CONSTANTS DeviceSize,     \* property 0x03, device_size, in sectors
          BlockSectors,   \* sectors in a CD block
          Word,           \* 2^32: sector counts are uint32_t
          RoundUp,        \* command 0x20, direction round_up
          RoundDown       \* command 0x20, direction round_down

Sectors == 0 .. Word - 1

ASSUME CdPartitionAssumption ==
  /\ Word \in Nat \ {0} /\ BlockSectors \in Nat \ {0}
  /\ DeviceSize \in Sectors
  /\ RoundUp \in [Sectors -> Sectors] /\ RoundDown \in [Sectors -> Sectors]
  /\ \A n \in Sectors : RoundUp[n] >= n /\ RoundDown[n] <= n

VARIABLES table,     \* the partition table in force
          staged,    \* the table written last, in force after a reset
          disc,      \* what each block of the CD partition holds
          plugged    \* is the stick connected?

discVars == <<table, staged, disc, plugged>>

Tables == [cd : Sectors, data : Sectors]
Blocks == 0 .. DeviceSize \div BlockSectors

Foreign == <<0, 0>>    \* contents that are not of the image being loaded

Inside(block) == block \in Blocks /\ (block + 1) * BlockSectors <= table.cd

(* Repartition: nothing that was on the stick survives, but the new table  *)
(* waits for a reset.                                                      *)
Repartition(new, status) ==
  /\ status = 0
  /\ staged' = new
  /\ disc' = [b \in Blocks |-> Foreign]
  /\ UNCHANGED <<table, plugged>>

WriteBlock(block, content, status) ==
  \/ /\ Inside(block) /\ status = 0
     /\ disc' = [disc EXCEPT ![block] = content]
     /\ UNCHANGED <<table, staged, plugged>>
  \/ /\ ~Inside(block) /\ status = 1
     /\ UNCHANGED discVars

(* The stick disconnects, and comes back with the staged table.            *)
Disconnect(status) ==
  /\ status = 0
  /\ plugged' = FALSE
  /\ table' = staged
  /\ UNCHANGED <<staged, disc>>

Reconnect ==
  /\ ~plugged
  /\ plugged' = TRUE
  /\ UNCHANGED <<table, staged, disc>>
=============================================================================
