---------------------------- MODULE VolumeGrowth ----------------------------
(***************************************************************************)
(* The growth chain of var-disk-managerd's unlock: an enlarged volume is    *)
(* followed by its partition, the LUKS mapping and the filesystem, each by  *)
(* a command of its own, with a power cut or a failure possible between any *)
(* two of them and every later boot starting over.  Sizes are in any unit.  *)
(***************************************************************************)
EXTENDS Integers

CONSTANTS
  Threshold,  \* GROW_THRESHOLD: slack a full-size partition may leave unused
  Slack,      \* LUKS_HEADER_SLACK: what the LUKS header explains
  MaxSize     \* bound of the volume's size

ASSUME GrowthAssumption ==
  /\ Threshold \in Nat \ {0} /\ Slack \in Nat /\ MaxSize \in Nat

VARIABLES
  step,    \* the next command of the boot
  volume,  \* size of the backing volume
  part,    \* size of partition 1
  fs,      \* size of the btrfs filesystem in it
  mapping, \* size of the open mapping, 0 when closed
  grew     \* what maybe_grow_partition returned

growthVars == <<step, volume, part, fs, mapping, grew>>

(* Any state earlier boots, interrupted anywhere, may have left.            *)
GrowthInit ==
  /\ volume \in 1 .. MaxSize /\ part \in 1 .. volume /\ fs \in 1 .. part
  /\ step = "off" /\ mapping = 0 /\ grew = FALSE

-----------------------------------------------------------------------------
Enlarge ==
  /\ step = "off"
  /\ volume' \in volume + 1 .. MaxSize
  /\ UNCHANGED <<step, part, fs, mapping, grew>>

BootStarts == step = "off" /\ step' = "measure" /\ UNCHANGED <<volume, part, fs, mapping, grew>>

PowerCut ==
  /\ step # "off"
  /\ step' = "off" /\ mapping' = 0 /\ grew' = FALSE
  /\ UNCHANGED <<volume, part, fs>>

(* maybe_grow_partition: nothing to do when only slack is unused.           *)
Measure ==
  /\ step = "measure"
  /\ step' = IF part + Threshold >= volume THEN "open" ELSE "move_gpt"
  /\ UNCHANGED <<volume, part, fs, mapping, grew>>

(* sgdisk -e                                                                *)
MoveBackupHeader ==
  step = "move_gpt" /\ step' = "recreate" /\ UNCHANGED <<volume, part, fs, mapping, grew>>

(* Mutation: the new partition takes any free range.                        *)
RecreatePartition_AnyRange ==
  /\ step = "recreate" /\ step' = "open"
  /\ part' \in 1 .. volume /\ grew' = TRUE
  /\ UNCHANGED <<volume, fs, mapping>>

(* sgdisk -d 1 -n 1:0:0: from the old start to the new end; the table and   *)
(* alignment take less than the threshold.                                  *)
RecreatePartition ==
  /\ step = "recreate" /\ step' = "open"
  /\ part' \in {p \in 1 .. volume : p + Threshold >= volume}
  /\ grew' = TRUE
  /\ UNCHANGED <<volume, fs, mapping>>

(* cryptsetup open: whatever size the mapping comes up with, it holds the   *)
(* filesystem and lies in the partition.                                    *)
OpenMapping ==
  /\ step = "open" /\ step' = "check"
  /\ mapping' \in fs .. part
  /\ UNCHANGED <<volume, part, fs, grew>>

(* Mutation: only a partition grown in this boot extends the mapping.       *)
NeedsResize_OnlyIfGrew == grew

(* The mapping follows the partition, whenever that grew.                   *)
NeedsResize == grew \/ mapping + Slack < part

(* cryptsetup resize to the partition, less at most the header.             *)
CheckMapping ==
  /\ step = "check" /\ step' = "resize_fs"
  /\ IF NeedsResize THEN mapping' \in {m \in mapping .. part : m + Slack >= part}
     ELSE mapping' = mapping
  /\ UNCHANGED <<volume, part, fs, grew>>

(* btrfs filesystem resize max                                              *)
ResizeFilesystem ==
  /\ step = "resize_fs" /\ step' = "released"
  /\ fs' = mapping
  /\ UNCHANGED <<volume, part, mapping, grew>>

GrowthCommands == {"measure", "move_gpt", "recreate", "check", "resize_fs"}

GrowthFails ==
  step \in GrowthCommands /\ step' = "failed" /\ UNCHANGED <<volume, part, fs, mapping, grew>>

Boot == \/ Measure \/ MoveBackupHeader \/ RecreatePartition \/ OpenMapping
        \/ CheckMapping \/ ResizeFilesystem

GrowthNext == Enlarge \/ BootStarts \/ PowerCut \/ Boot \/ GrowthFails

GrowthSpec == GrowthInit /\ [][GrowthNext]_growthVars

-----------------------------------------------------------------------------
(* Every variable has its type; sizes stay within the bound.                *)
GrowthTypeOK ==
  /\ step \in GrowthCommands \cup {"off", "open", "released", "failed"}
  /\ volume \in 1 .. MaxSize /\ part \in 1 .. MaxSize /\ fs \in 1 .. MaxSize
  /\ mapping \in 0 .. MaxSize
  /\ grew \in BOOLEAN

(* The layers nest at every instant: no interruption of the growth leaves a *)
(* partition that cuts the filesystem in it, or a mapping beyond either.    *)
LayersNest ==
  /\ fs <= part /\ part <= volume
  /\ mapping # 0 => fs <= mapping /\ mapping <= part

(* A boot that unlocks closes the whole chain, however many earlier boots   *)
(* grew only some of the layers: what the filesystem does not use of the    *)
(* volume is explained by the partition table and the LUKS header.          *)
GrowthCloses ==
  step = "released" => volume <= fs + Slack + Threshold

(* Growing is all the chain does: no layer ever shrinks.                    *)
LayersOnlyGrow == [][part' >= part /\ fs' >= fs]_growthVars
=============================================================================
