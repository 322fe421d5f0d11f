----------------------------- MODULE SecureZone -----------------------------
(***************************************************************************)
(* The password-protected zone of a U3 stick, as u3-tool sees it through   *)
(* the vendor commands 0xA0 (info), 0xA2 (secure), 0xA4 (unlock), 0xA6     *)
(* (change password) and 0xA7 (remove security).  The firmware is not part *)
(* of the repository: it is modelled from the way src/src/u3_commands.c    *)
(* and src/src/main.c use it, and from what the authors of the tool found  *)
(* out about it (src/doc/commands.txt:280-294, 408-424).                   *)
(*                                                                         *)
(* A password stands for its hash: u3_pass_to_hash is taken as injective.  *)
(***************************************************************************)
EXTENDS ScsiCommand

CONSTANTS Passwords,    \* the passwords that can be typed
          NoPassword,   \* no password typed, or none set on the zone
          TotalSize,    \* dpart_info.total_size, in sectors
          MaxTry        \* property 0x0C, max_pass_try

ASSUME SecureZoneAssumption ==
  /\ NoPassword \notin Passwords
  /\ TotalSize \in Nat
  /\ MaxTry \in Nat \ {0}

VARIABLES zone,       \* dpart_info.secured_size; 0 when there is no zone
          unlocked,   \* dpart_info.unlocked: 1 or 0
          passTry,    \* dpart_info.pass_try: wrong passwords since the last good one
          passwd,     \* the password the zone is protected with
          data        \* whether the user's files on the data partition survive

zoneVars == <<zone, unlocked, passTry, passwd, data>>

ZoneTypeOK ==
  /\ zone \in 0 .. TotalSize
  /\ unlocked \in {0, 1}
  /\ passTry \in 0 .. MaxTry
  /\ passwd \in Passwords \cup {NoPassword}
  /\ data \in {"present", "lost"}

Blocked == passTry = MaxTry

(* Any state an earlier owner can have left the stick in: no zone, a zone  *)
(* on a part of the partition, a full one, a blocked one.                  *)
ZoneInit ==
  /\ ZoneTypeOK
  /\ zone = 0 => passTry = 0 /\ unlocked = 0 /\ passwd = NoPassword
  /\ zone # 0 => passwd # NoPassword
  /\ Blocked => unlocked = 0
  /\ data = IF Blocked THEN "lost" ELSE "present"

-----------------------------------------------------------------------------
(* Commands and the SCSI status each answers with.                         *)

(* A command that proves knowledge of the password.  A stick that cannot   *)
(* serve it refuses it and counts nothing.                                 *)
Refuse(status) ==
  /\ status = 1
  /\ UNCHANGED zoneVars

(* A wrong password is counted, and the last one destroys the data.        *)
CountTry(hash, status) ==
  /\ hash # passwd
  /\ status = 1
  /\ passTry' = passTry + 1
  /\ data' = IF passTry + 1 = MaxTry THEN "lost" ELSE data
  /\ UNCHANGED <<zone, unlocked, passwd>>

(* The right one clears the counter.                                       *)
ClearTries(hash, status) ==
  /\ hash = passwd
  /\ status = 0
  /\ passTry' = 0
  /\ UNCHANGED data

Serves == zone # 0 /\ ~Blocked

Unlock(hash, status) ==
  \/ ~Serves /\ Refuse(status)
  \/ Serves /\ CountTry(hash, status)
  \/ /\ Serves /\ ClearTries(hash, status)
     /\ unlocked' = 1
     /\ UNCHANGED <<zone, passwd>>

ChangePassword(old, new, status) ==
  \/ ~Serves /\ Refuse(status)
  \/ Serves /\ CountTry(old, status)
  \/ /\ Serves /\ ClearTries(old, status)
     /\ passwd' = new
     /\ UNCHANGED <<zone, unlocked>>

(* Only a zone as large as the data partition can be dissolved; the        *)
(* command is refused on any other, the password not even looked at.       *)
Dissolvable == Serves /\ zone = TotalSize

RemoveZone(hash, status) ==
  \/ ~Dissolvable /\ Refuse(status)
  \/ Dissolvable /\ CountTry(hash, status)
  \/ /\ Dissolvable /\ ClearTries(hash, status)
     /\ zone' = 0
     /\ unlocked' = 0
     /\ passwd' = NoPassword

(* Securing needs no password and works on a blocked stick.  The files of  *)
(* an open partition stay; a zone that was there is replaced and what it   *)
(* held is gone.                                                           *)
MakeZone(size, hash, status) ==
  \/ size > TotalSize /\ Refuse(status)
  \/ /\ size <= TotalSize
     /\ status = 0
     /\ zone' = size
     /\ passwd' = hash
     /\ passTry' = 0
     /\ unlocked' \in {0, 1}
     /\ data' = IF zone # 0 THEN "lost" ELSE data

-----------------------------------------------------------------------------
(* What the owner does with the stick between two uses of the tool.        *)

(* Reformat the data partition and put files on it.                        *)
StoreFiles ==
  /\ data = "lost"
  /\ zone = 0 \/ unlocked = 1
  /\ data' = "present"
  /\ UNCHANGED <<zone, unlocked, passTry, passwd>>

(* Unplug the stick and plug it in again: the zone comes up locked.        *)
Replug ==
  /\ unlocked = 1
  /\ unlocked' = 0
  /\ UNCHANGED <<zone, passTry, passwd, data>>
=============================================================================
