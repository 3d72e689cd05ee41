------------------------------ MODULE VarDisks ------------------------------
(***************************************************************************)
(* What is on a data disk, what the probes of var-disk-managerd read of it,*)
(* and the two pure decisions taken from those readings: classify and plan *)
(* (packages/var-disk-manager/src/lib.rs).                                 *)
(***************************************************************************)
EXTENDS Integers, FiniteSets

CONSTANTS
  Disk,         \* the data volumes the glob can select
  NoDisk,       \* no volume
  Pass,         \* the passphrases an operator types
  NoPass,       \* no key slot, nothing typed
  MaxVersion,   \* bound: how many times the server writes its /var
  FaultyProbe   \* volumes on which a whole-disk blkid may fail

ASSUME DisksAssumption ==
  /\ IsFiniteSet(Disk) /\ NoDisk \notin Disk
  /\ NoPass \notin Pass
  /\ MaxVersion \in Nat \ {0}
  /\ FaultyProbe \subseteq Disk

-----------------------------------------------------------------------------
(* Contents.  The content of a `var` (or `.migrate-src`) subvolume is the  *)
(* version of the server's data in it: versions grow with every write.     *)

Absent     == -2     \* there is no such subvolume
Incomplete == -1     \* btrfs receive did not finish it
Fresh      ==  0     \* created empty

Content == Absent .. MaxVersion

(* `table`: a partition table; `part`: partition 1, by its PARTUUID; `sig`: *)
(* the signature in partition 1 or, without one, on the whole disk;         *)
(* `inner`: the filesystem inside an encrypted partition; `label`: the      *)
(* btrfs filesystem carries the label /var is mounted by; `key`: the        *)
(* passphrase of the LUKS key slot.                                         *)
Media == [table : {"none", "gpt"},
          part  : {"none", "luks_uuid", "var_guid", "other"},
          sig   : {"none", "crypto_LUKS", "btrfs", "other"},
          inner : {"none", "btrfs", "other"},
          label : {"none", "var"},
          var   : Content,
          src   : Content,
          key   : Pass \cup {NoPass}]

EmptyMedia == [table |-> "none", part |-> "none", sig |-> "none",
               inner |-> "none", label |-> "none", var |-> Absent,
               src |-> Absent, key |-> NoPass]

(* What runtime.repart.var left on a server that was never encrypted.       *)
LegacyMedia(l) == [table |-> "gpt", part |-> "var_guid", sig |-> "btrfs",
                   inner |-> "none", label |-> l, var |-> 1,
                   src |-> Absent, key |-> NoPass]

(* What an earlier migration or provisioning left.                          *)
LuksMedia(k) == [table |-> "gpt", part |-> "luks_uuid", sig |-> "crypto_LUKS",
                 inner |-> "btrfs", label |-> "var", var |-> 1,
                 src |-> Absent, key |-> k]

(* Volumes that are not the manager's: an empty partition table, a          *)
(* filesystem on the whole disk, a partition of somebody else.              *)
ForeignMedia ==
  {[EmptyMedia EXCEPT !.table = "gpt"],
   [EmptyMedia EXCEPT !.sig = "other"],
   [table |-> "gpt", part |-> "other", sig |-> "btrfs", inner |-> "none",
    label |-> "none", var |-> Absent, src |-> Absent, key |-> NoPass]}

(* Content whose loss nobody asked for: data the server wrote, and anything *)
(* a provider or another system put on a volume.                            *)
IsForeign(m) == \/ m.table = "gpt" /\ m.part = "none"
                \/ m.sig = "other"
                \/ m.part = "other"
HoldsData(m) == m.var >= 1

(* The manager's own volumes, as classify knows them.                       *)
IsLegacy(m) == m.table = "gpt" /\ m.part = "var_guid" /\ m.sig = "btrfs"
IsLuks(m)   == m.table = "gpt" /\ m.part = "luks_uuid" /\ m.sig = "crypto_LUKS"

-----------------------------------------------------------------------------
(* probe: None of the code is "none".  blkid and lsblk exit non-zero when   *)
(* they find nothing, and probe_value maps EVERY failing exit to None: the  *)
(* readings of a partition, and the whole-disk readings of a FaultyProbe    *)
(* volume, may be None for that reason.  The -part1 link may lag behind the *)
(* disk's own (`late`); the partition is read only when it is there.        *)

Reading(v, faulty) == IF faulty THEN {v, "none"} ELSE {v}

Probes(m, late, faulty) ==
  [part1       : IF m.part = "none" THEN {"missing"}
                 ELSE IF late THEN {"missing", "present"} ELSE {"present"},
   fstype      : Reading(m.sig, TRUE),
   partuuid    : Reading(m.part, TRUE),
   disk_pttype : Reading(m.table, faulty),
   disk_fstype : Reading(IF m.table = "gpt" THEN "none" ELSE m.sig, faulty)]

DiskClass == {"Luks", "Legacy", "Blank", "Foreign"}

(* Mutation: a partition table alone does not make a volume foreign.        *)
classify_NoTableCheck(p) ==
  CASE p.part1 = "present" -> "Foreign"
    [] p.part1 = "missing" /\ p.disk_fstype = "none" -> "Blank"
    [] OTHER -> "Foreign"

(* One volume's class, from its probes.                                     *)
classify(p) ==
  CASE p.part1 = "present" /\ p.fstype = "crypto_LUKS" /\ p.partuuid = "luks_uuid"
         -> "Luks"
    [] p.part1 = "present" /\ p.fstype = "btrfs" /\ p.partuuid = "var_guid"
         -> "Legacy"
    [] p.part1 = "missing" /\ p.disk_pttype = "none" /\ p.disk_fstype = "none"
         -> "Blank"
    [] OTHER -> "Foreign"

(* The class (or its absence) that a volume of the manager's must have for  *)
(* the plan to take it into account.                                        *)
Recognised(m, c) == /\ IsLuks(m)   => c = "Luks"
                    /\ IsLegacy(m) => c = "Legacy"

-----------------------------------------------------------------------------
(* plan: `class` gives the class of every volume that was listed.           *)

OfClass(class, c) == {d \in DOMAIN class : class[d] = c}

Duplicated(class) ==
  {c \in {"Luks", "Legacy", "Blank"} :
     \E d, e \in OfClass(class, c) : d # e}

PlanKind == {"Block", "Detach", "Unlock", "Migrate", "BootLegacy",
             "Provision", "NoDisks"}

(* Mutation: a legacy volume beside a LUKS one boots unencrypted.           *)
plan_LegacyFirst(class) ==
  LET has(c) == OfClass(class, c) # {} IN
  IF Duplicated(class) # {} THEN "Block"
  ELSE IF has("Legacy") THEN (IF has("Blank") THEN "Migrate" ELSE "BootLegacy")
  ELSE IF has("Luks") THEN "Unlock" ELSE "NoDisks"

(* A LUKS volume decides first, then a legacy one; a blank volume is used   *)
(* only when there is no LUKS volume.                                       *)
plan(class) ==
  LET has(c) == OfClass(class, c) # {} IN
  IF Duplicated(class) # {} THEN "Block"
  ELSE IF has("Luks")   THEN (IF has("Legacy") THEN "Detach"  ELSE "Unlock")
  ELSE IF has("Legacy") THEN (IF has("Blank")  THEN "Migrate" ELSE "BootLegacy")
  ELSE (IF has("Blank") THEN "Provision" ELSE "NoDisks")

(* The one volume of a class, for the plans that name one.                  *)
TheDisk(class, c) == IF OfClass(class, c) = {} THEN NoDisk
                     ELSE CHOOSE d \in OfClass(class, c) : TRUE
=============================================================================
