------------------------ MODULE VarDiskManagerProofs ------------------------
(***************************************************************************)
(* TLAPS proofs about VarDiskManager, for any number of volumes, passphrases*)
(* and server writes, and any interleaving of power cycles, failures, late  *)
(* volumes, failing partition probes and plugging, when no whole-disk blkid *)
(* fails.  The second half is about where the data is as long as no plan    *)
(* missed a volume: /var starts only on the data the server wrote last, and *)
(* the daemon implements VarData.  The last part is about VolumeGrowth,     *)
(* which this machine's growth commands stand for, and has its own          *)
(* variables.                                                               *)
(***************************************************************************)
EXTENDS VarDiskManager, VolumeGrowth, TLAPS, FiniteSetTheorems

-----------------------------------------------------------------------------
(* The inductive invariant: what the volumes are, whatever happened to them,*)
(* and what each command may rely on of the volumes the plan named.         *)

IsBlank(m)  == m.table = "none" /\ m.sig = "none"

(* A partition needs a table; a /var is on a volume the manager knows and   *)
(* never newer than what the server wrote.                                  *)
MediaOK == \A d \in Disk :
  /\ media[d].part # "none" => media[d].table = "gpt"
  /\ media[d].var # Absent => IsLegacy(media[d]) \/ IsLuks(media[d])
  /\ media[d].var <= latest /\ media[d].src <= latest

(* While the plan is being made the classes describe the volumes.           *)
ClassesOK == pc = "classify" => \A d \in Disk :
  /\ class[d] = "Blank"  => IsBlank(media[d])
  /\ class[d] = "Legacy" => IsLegacy(media[d])
  /\ class[d] = "Luks"   => IsLuks(media[d])

BeforeFormat == {"migrate.inspect", "migrate.size", "ask.new", "ask.repeat",
                 "format.zap"}
EmptyLuks    == {"format.open", "format.mkfs", "migrate.snapshot",
                 "migrate.receive", "migrate.copied", "migrate.promote"}
OnLuks       == EmptyLuks \cup
                {"unlock.grow", "unlock.ask", "unlock.open", "unlock.resize",
                 "unlock.probe", "unlock.subvol", "unlock.ask_subvol",
                 "unlock.ask_mkfs", "unlock.mkfs", "create.var",
                 "migrate.tidy_new"}
OnSource     == {"legacy.label", "migrate.inspect", "migrate.size",
                 "migrate.snapshot", "migrate.receive", "migrate.copied",
                 "migrate.promote", "migrate.tidy_new", "migrate.tidy_old"}

(* The volume a command writes to is what the command takes it for.         *)
TargetOK ==
  /\ pc \in BeforeFormat => target \in Disk /\ IsBlank(media[target])
  /\ pc = "format.part" => target \in Disk /\ media[target] = EmptyMedia
  /\ pc = "format.luks" => /\ target \in Disk
                           /\ media[target].table = "gpt"
                           /\ media[target].part = "luks_uuid"
                           /\ media[target].sig = "none"
                           /\ media[target].var = Absent
  /\ pc \in OnLuks => target \in Disk /\ IsLuks(media[target])
  /\ pc \in EmptyLuks => media[target].var = Absent

SourceOK ==
  /\ source # NoDisk => source \in Disk /\ IsLegacy(media[source])
  /\ pc \in OnSource => source # NoDisk

RunningOK == pc = "running" => rootvar \in Disk /\ media[rootvar].var # Absent

IInv == TypeOK /\ MediaOK /\ ClassesOK /\ TargetOK /\ SourceOK /\ RunningOK

-----------------------------------------------------------------------------
(* What the manager may find on a volume before it ever ran.                *)
LEMMA InitialMediaOK ==
  ASSUME NEW m \in InitialMedia
  PROVE  /\ m \in Media
         /\ m.part # "none" => m.table = "gpt"
         /\ m.var \in {Absent, 1} /\ m.src = Absent
         /\ m.var = 1 => IsLegacy(m) \/ IsLuks(m)
<1> USE DisksAssumption DEF EmptyMedia, Media, Content, Absent
<1>1. CASE m = EmptyMedia
  BY <1>1
<1>2. CASE m \in ForeignMedia
  <2>1. CASE m = [EmptyMedia EXCEPT !.table = "gpt"]
    BY <2>1
  <2>2. CASE m = [EmptyMedia EXCEPT !.sig = "other"]
    BY <2>2
  <2>3. CASE m = [table |-> "gpt", part |-> "other", sig |-> "btrfs",
                  inner |-> "none", label |-> "none", var |-> Absent,
                  src |-> Absent, key |-> NoPass]
    BY <2>3
  <2>4. QED
    BY <1>2, <2>1, <2>2, <2>3 DEF ForeignMedia
<1>3. ASSUME NEW l \in {"none", "var"}, m = LegacyMedia(l)
      PROVE  m \in Media /\ IsLegacy(m) /\ m.var = 1 /\ m.src = Absent
  BY <1>3 DEF LegacyMedia, IsLegacy
<1>4. ASSUME NEW k \in Pass, m = LuksMedia(k)
      PROVE  m \in Media /\ IsLuks(m) /\ m.var = 1 /\ m.src = Absent
  BY <1>4 DEF LuksMedia, IsLuks
<1>5. QED
  BY <1>1, <1>2, <1>3, <1>4 DEF InitialMedia, IsLegacy, IsLuks

LEMMA InitIInv == Init => IInv
<1> SUFFICES ASSUME Init PROVE IInv
  OBVIOUS
<1> USE DisksAssumption
<1>1. media \in [Disk -> Media]
  BY InitialMediaOK DEF Init
<1>m. missed \in BOOLEAN
  BY Zenon DEF Init
<1>2. TypeOK
  BY <1>1, <1>m DEF Init, TypeOK, PC, Commands, Notice, NoPolls, Unlisted
<1>3. \A d \in Disk : media[d].var = 1 => latest = 1
  BY DEF Init, HoldsData
<1>4. latest \in {0, 1}
  BY DEF Init
<1>5. MediaOK
  BY <1>3, <1>4, InitialMediaOK DEF Init, MediaOK, Absent
<1>6. ClassesOK /\ TargetOK /\ SourceOK /\ RunningOK
  BY DEF Init, ClassesOK, TargetOK, SourceOK, RunningOK, BeforeFormat,
         EmptyLuks, OnLuks, OnSource
<1>7. QED
  BY <1>2, <1>5, <1>6 DEF IInv

(* The machine's own steps.                                                 *)
LEMMA MachineIInv == ASSUME IInv, Machine PROVE IInv'
<1> USE DisksAssumption
    DEF IInv, TypeOK, MediaOK, ClassesOK, TargetOK, SourceOK, RunningOK, PC,
        Commands, BeforeFormat, EmptyLuks, OnLuks, OnSource, boot, ghosts
<1>1. CASE PowerOn         BY <1>1 DEF PowerOn, Notice
<1>2. CASE PowerOff        BY <1>2 DEF PowerOff, NoPolls, Unlisted
<1>3. CASE MountVar        BY <1>3 DEF MountVar, Labelled
<1>4. CASE ServerWrites
  BY <1>4, ManagerAssumption DEF ServerWrites, IsLegacy, IsLuks, IsBlank, Media, Content, Absent
<1>5. ASSUME NEW d \in Disk, DiskAppears(d) PROVE IInv'
  BY <1>5 DEF DiskAppears
<1>6. ASSUME NEW d \in Disk, Plug(d) PROVE IInv'
  BY <1>6 DEF Plug
<1>7. ASSUME NEW d \in Disk, Unplug(d) PROVE IInv'
  BY <1>7 DEF Unplug
<1>8. QED
  BY <1>1, <1>2, <1>3, <1>4, <1>5, <1>6, <1>7 DEF Machine

(* What a probe of a volume that answers says of it.                        *)
LEMMA ClassifyOK ==
  ASSUME NEW m \in Media, m.part # "none" => m.table = "gpt",
         NEW late \in BOOLEAN, NEW p \in Probes(m, late, FALSE)
  PROVE  /\ classify(p) \in DiskClass
         /\ classify(p) = "Blank"  => IsBlank(m)
         /\ classify(p) = "Legacy" => IsLegacy(m)
         /\ classify(p) = "Luks"   => IsLuks(m)
<1>1. classify(p) \in DiskClass
  BY DEF classify, DiskClass
<1>a. /\ p.fstype \in {m.sig, "none"} /\ p.partuuid \in {m.part, "none"}
      /\ p.disk_pttype = m.table
      /\ p.disk_fstype = IF m.table = "gpt" THEN "none" ELSE m.sig
  BY DEF Probes, Reading
<1>2. classify(p) = "Blank" => IsBlank(m)
  <2>1. classify(p) = "Blank" => p.disk_pttype = "none" /\ p.disk_fstype = "none"
    BY DEF classify
  <2>2. QED
    BY <1>a, <2>1 DEF IsBlank
<1>3. classify(p) = "Legacy" => m.part = "var_guid" /\ m.sig = "btrfs"
  BY <1>a DEF classify
<1>4. classify(p) = "Luks" => m.part = "luks_uuid" /\ m.sig = "crypto_LUKS"
  BY <1>a DEF classify
<1>5. QED
  BY <1>1, <1>2, <1>3, <1>4 DEF IsLegacy, IsLuks

LEMMA ProbeIInv ==
  ASSUME FaultyProbe = {}, IInv, NEW d \in Disk, ProbeDisk(d)
  PROVE  IInv'
<1>1. media[d] \in Media /\ (media[d].part # "none" => media[d].table = "gpt")
  BY DEF IInv, TypeOK, MediaOK
<1>2. PICK p \in Probes(media[d], d \in LateDisk, FALSE) :
        class' = [class EXCEPT ![d] = classify(p)]
  <2>1. (d \in FaultyProbe) = FALSE
    OBVIOUS
  <2>2. QED
    BY <2>1, Zenon DEF ProbeDisk
<1>3. /\ classify(p) \in DiskClass
      /\ classify(p) = "Blank"  => IsBlank(media[d])
      /\ classify(p) = "Legacy" => IsLegacy(media[d])
      /\ classify(p) = "Luks"   => IsLuks(media[d])
  <2>1. (d \in LateDisk) \in BOOLEAN
    OBVIOUS
  <2>2. QED
    BY <1>1, <2>1, ClassifyOK, Zenon
<1>4. /\ pc = "classify"
      /\ UNCHANGED <<pc, attached, visible, media, polls, target, source, mapper,
                     entry, notice, rootvar, ghosts>>
  BY DEF ProbeDisk
<1>5. \A e \in Disk : class'[e] = IF e = d THEN classify(p) ELSE class[e]
  BY <1>2 DEF IInv, TypeOK
<1>6. TypeOK'
  BY <1>2, <1>3, <1>4 DEF IInv, TypeOK, ghosts
<1>7. ClassesOK'
  BY <1>3, <1>4, <1>5 DEF IInv, ClassesOK, IsBlank, IsLegacy, IsLuks
<1>8. MediaOK' /\ TargetOK' /\ SourceOK' /\ RunningOK'
  BY <1>4 DEF IInv, MediaOK, TargetOK, SourceOK, RunningOK, ghosts, IsBlank,
              IsLegacy, IsLuks
<1>9. QED
  BY <1>6, <1>7, <1>8 DEF IInv

(* A plan names volumes of the classes it was made for.                     *)
LEMMA PlanOK ==
  ASSUME NEW c
  PROVE  /\ plan(c) \in PlanKind
         /\ plan(c) = "Unlock" => OfClass(c, "Luks") # {}
         /\ plan(c) \in {"Migrate", "Provision"} => OfClass(c, "Blank") # {}
         /\ plan(c) \in {"Migrate", "BootLegacy"} => OfClass(c, "Legacy") # {}
<1> HIDE DEF Duplicated, OfClass
<1> QED
  BY DEF plan, PlanKind

LEMMA TheDiskOK ==
  ASSUME ClassesOK, class \in [Disk -> DiskClass \cup {"unlisted", "unprobed"}],
         pc = "classify", NEW c, OfClass(class, c) # {}
  PROVE  /\ TheDisk(class, c) \in Disk
         /\ c = "Blank"  => IsBlank(media[TheDisk(class, c)])
         /\ c = "Legacy" => IsLegacy(media[TheDisk(class, c)])
         /\ c = "Luks"   => IsLuks(media[TheDisk(class, c)])
<1> DEFINE d == TheDisk(class, c)
<1>1. d \in OfClass(class, c)
  BY DEF TheDisk
<1>2. d \in Disk /\ class[d] = c
  BY <1>1 DEF OfClass
<1> HIDE DEF d
<1>3. QED
  BY <1>2 DEF ClassesOK, d

LEMMA DecideIInv == ASSUME IInv, Decide PROVE IInv'
<1> USE DisksAssumption
<1> DEFINE p == plan(class)
<1>1. /\ pc = "classify" /\ pc' = FirstStep(p)
      /\ target' = Target(p) /\ source' = Source(p)
      /\ UNCHANGED <<attached, visible, media, polls, class, mapper, entry,
                     rootvar, latest, accepted, encrypted>>
      /\ notice' \in Notice
  BY DEF Decide, IInv, TypeOK, Notice
<1>m. missed' \in BOOLEAN
  BY Zenon DEF Decide
<1>2. /\ p \in PlanKind
      /\ p = "Unlock" => OfClass(class, "Luks") # {}
      /\ p \in {"Migrate", "Provision"} => OfClass(class, "Blank") # {}
      /\ p \in {"Migrate", "BootLegacy"} => OfClass(class, "Legacy") # {}
  BY PlanOK
<1> HIDE DEF p
<1>3. p = "Unlock" => target' \in Disk /\ IsLuks(media[target'])
  BY <1>1, <1>2, TheDiskOK DEF IInv, TypeOK, Target
<1>4. p \in {"Migrate", "Provision"} => target' \in Disk /\ IsBlank(media[target'])
  BY <1>1, <1>2, TheDiskOK DEF IInv, TypeOK, Target
<1>5. p \notin {"Unlock", "Migrate", "Provision"} => target' = NoDisk
  BY <1>1 DEF Target
<1>6. p \in {"Migrate", "BootLegacy"} => source' \in Disk /\ IsLegacy(media[source'])
  BY <1>1, <1>2, TheDiskOK DEF IInv, TypeOK, Source
<1>7. p \notin {"Migrate", "BootLegacy"} => source' = NoDisk
  BY <1>1 DEF Source
<1>8. /\ p = "Unlock" => pc' = "unlock.grow"
      /\ p = "Migrate" => pc' = "migrate.inspect"
      /\ p = "BootLegacy" => pc' = "legacy.label"
      /\ p = "Provision" => pc' = "ask.new"
      /\ p \in {"Block", "Detach", "NoDisks"} => pc' \in {"blocked", "failed"}
  BY <1>1 DEF FirstStep
<1>9. TypeOK'
  BY <1>1, <1>m, <1>2, <1>3, <1>4, <1>5, <1>6, <1>7, <1>8
     DEF IInv, TypeOK, PC, Commands, PlanKind, ghosts
<1>10. TargetOK'
  BY <1>1, <1>2, <1>3, <1>4, <1>8
     DEF TargetOK, IsLuks, IsBlank, BeforeFormat, EmptyLuks, OnLuks, PlanKind
<1>11. SourceOK'
  BY <1>1, <1>2, <1>6, <1>7, <1>8 DEF SourceOK, IsLegacy, OnSource, PlanKind
<1>12. MediaOK' /\ ClassesOK' /\ RunningOK'
  BY <1>1, <1>2, <1>8
     DEF IInv, MediaOK, ClassesOK, RunningOK, IsLuks, IsLegacy, IsBlank, ghosts,
         PlanKind
<1>13. QED
  BY <1>9, <1>10, <1>11, <1>12 DEF IInv

(* Enumerating, probing and planning.                                       *)
LEMMA PlanningIInv == ASSUME FaultyProbe = {}, IInv, Planning PROVE IInv'
<1> USE DisksAssumption
    DEF IInv, TypeOK, MediaOK, ClassesOK, TargetOK, SourceOK, RunningOK, PC,
        Commands, BeforeFormat, EmptyLuks, OnLuks, OnSource, boot, ghosts
<1>1. CASE Poll
  <2>1. Cardinality(visible) \in Nat
    BY FS_Subset, FS_CardinalityType
  <2>2. QED
    BY <1>1, <2>1 DEF Poll, StableAfter
<1>2. CASE ListVolumes     BY <1>2 DEF ListVolumes, NoPolls
<1>3. ASSUME NEW d \in Disk, ProbeDisk(d) PROVE IInv'
  BY <1>3, ProbeIInv
<1>4. CASE Decide
  BY <1>4, DecideIInv
<1>5. QED
  BY <1>1, <1>2, <1>3, <1>4 DEF Planning

(* mkfs, the partition and the LUKS header change no more than they should. *)
LEMMA WithBtrfsOK ==
  ASSUME NEW m \in Media
  PROVE  /\ WithBtrfs(m) \in Media
         /\ WithBtrfs(m).table = m.table /\ WithBtrfs(m).part = m.part
         /\ WithBtrfs(m).sig = m.sig
         /\ WithBtrfs(m).var = m.var /\ WithBtrfs(m).src = m.src
<1> DEFINE i == [m EXCEPT !.inner = "btrfs"]
<1>1. WithBtrfs(m) = [i EXCEPT !.label = "var"]
  BY DEF WithBtrfs, Media
<1>2. i \in Media
  BY DEF Media
<1>3. /\ i.table = m.table /\ i.part = m.part /\ i.sig = m.sig
      /\ i.var = m.var /\ i.src = m.src
  BY DEF Media
<1> HIDE DEF i
<1>4. WithBtrfs(m) \in Media
  BY <1>1, <1>2 DEF Media
<1>5. /\ WithBtrfs(m).table = i.table /\ WithBtrfs(m).part = i.part
      /\ WithBtrfs(m).sig = i.sig
  BY <1>1, <1>2 DEF Media
<1>6. WithBtrfs(m).var = i.var /\ WithBtrfs(m).src = i.src
  BY <1>1, <1>2 DEF Media
<1>7. QED
  BY <1>3, <1>4, <1>5, <1>6

LEMMA CreatePartitionOK ==
  ASSUME NEW m \in Media, NEW n,
         n = [m EXCEPT !.table = "gpt", !.part = "luks_uuid"]
  PROVE  /\ n \in Media /\ n.table = "gpt" /\ n.part = "luks_uuid"
         /\ n.sig = m.sig /\ n.var = m.var /\ n.src = m.src
  BY DEF Media

LuksFormatted(m, k) ==
  [m EXCEPT !.sig = "crypto_LUKS", !.inner = "none", !.key = k]

LEMMA LuksFormatOK ==
  ASSUME NEW m \in Media, NEW k \in Pass \cup {NoPass}, NEW n,
         n = LuksFormatted(m, k)
  PROVE  /\ n \in Media /\ n.table = m.table /\ n.part = m.part
         /\ n.sig = "crypto_LUKS" /\ n.var = m.var /\ n.src = m.src
<1>1. n \in Media
  BY DEF Media, LuksFormatted
<1>2. n.table = m.table /\ n.part = m.part /\ n.sig = "crypto_LUKS"
  BY DEF Media, LuksFormatted
<1>3. n.var = m.var /\ n.src = m.src
  BY DEF Media, LuksFormatted
<1>4. QED
  BY <1>1, <1>2, <1>3

LEMMA EmptyMediaOK == EmptyMedia \in Media
  BY DisksAssumption DEF EmptyMedia, Media, Content, Absent

(* The commands of unlock and of booting from a legacy volume.              *)
LEMMA UnlockingIInv == ASSUME IInv, Unlocking \/ LabelLegacy PROVE IInv'
<1> USE DisksAssumption
    DEF IInv, TypeOK, MediaOK, ClassesOK, TargetOK, SourceOK, RunningOK, PC,
        Commands, BeforeFormat, EmptyLuks, OnLuks, OnSource, boot, ghosts,
        Goto, Writes, Block, Confirm, Notice
<1>1. CASE GrowPartition   BY <1>1 DEF GrowPartition
<1>2. CASE AskUnlock       BY <1>2 DEF AskUnlock
<1>3. CASE OpenVolume      BY <1>3 DEF OpenVolume
<1>4. CASE ResizeMapping   BY <1>4 DEF ResizeMapping
<1>5. CASE ProbeMapper     BY <1>5 DEF ProbeMapper
<1>6. CASE CheckSubvol     BY <1>6 DEF CheckSubvol
<1>7. CASE ConfirmSubvol   BY <1>7 DEF ConfirmSubvol
<1>8. CASE ConfirmMkfs     BY <1>8 DEF ConfirmMkfs
<1>9. CASE MkfsMapper
  BY <1>9, WithBtrfsOK DEF MkfsMapper, IsLuks, IsLegacy, IsBlank
<1>10. CASE CreateVar
  BY <1>10 DEF CreateVar, Media, Content, Absent, Fresh, IsLuks, IsLegacy, IsBlank
<1>11. CASE LabelLegacy
  BY <1>11 DEF LabelLegacy, Media, IsLuks, IsLegacy, IsBlank
<1>12. QED
  BY <1>1, <1>2, <1>3, <1>4, <1>5, <1>6, <1>7, <1>8, <1>9, <1>10, <1>11
     DEF Unlocking

(* The two commands that turn the zapped volume into an empty LUKS one.     *)
LEMMA FormatWriteIInv ==
  ASSUME IInv, target \in Disk, ~IsLegacy(media[target]), NEW n \in Media,
         \/ pc = "format.part" /\ pc' = "format.luks" /\ n.sig = "none"
         \/ pc = "format.luks" /\ pc' = "format.open" /\ n.sig = "crypto_LUKS",
         n.table = "gpt", n.part = "luks_uuid", n.var = Absent, n.src <= latest,
         media' = [media EXCEPT ![target] = n],
         UNCHANGED <<attached, notice, boot, ghosts>>
  PROVE  IInv'
<1>1. TypeOK'
  BY DEF IInv, TypeOK, PC, Commands, boot, ghosts
<1>2. \A d \in Disk : media'[d] = IF d = target THEN n ELSE media[d]
  BY DEF IInv, TypeOK
<1>3. MediaOK'
  BY <1>2 DEF IInv, TypeOK, MediaOK, ghosts, Absent, IsLegacy, IsLuks
<1>4. ClassesOK' /\ RunningOK'
  BY DEF ClassesOK, RunningOK
<1>5. TargetOK'
  BY <1>2 DEF TargetOK, BeforeFormat, OnLuks, EmptyLuks, boot, IsLuks
<1>6. SourceOK'
  BY <1>2 DEF IInv, SourceOK, OnSource, boot
<1>7. QED
  BY <1>1, <1>3, <1>4, <1>5, <1>6 DEF IInv

LEMMA CreatePartitionIInv == ASSUME IInv, CreatePartition PROVE IInv'
<1> DEFINE m == media[target]
           n == [m EXCEPT !.table = "gpt", !.part = "luks_uuid"]
<1>1. /\ target \in Disk /\ media[target] = EmptyMedia
      /\ pc = "format.part" /\ pc' = "format.luks"
      /\ UNCHANGED <<attached, notice, boot, ghosts>>
      /\ media' = [media EXCEPT ![target] = n]
  BY DEF IInv, TargetOK, CreatePartition, Writes
<1>2. /\ EmptyMedia.var = Absent /\ EmptyMedia.src = Absent
      /\ EmptyMedia.sig = "none"
      /\ ~IsLegacy(EmptyMedia)
  BY DEF EmptyMedia, IsLegacy
<1>3. /\ n \in Media /\ n.table = "gpt" /\ n.part = "luks_uuid"
      /\ n.sig = "none" /\ n.var = Absent /\ n.src = Absent
  <2>1. m = EmptyMedia /\ m \in Media
    BY <1>1, EmptyMediaOK
  <2> HIDE DEF m
  <2>2. n = [m EXCEPT !.table = "gpt", !.part = "luks_uuid"]
    OBVIOUS
  <2> HIDE DEF n
  <2>3. /\ n \in Media /\ n.table = "gpt" /\ n.part = "luks_uuid"
        /\ n.sig = m.sig /\ n.var = m.var /\ n.src = m.src
    BY <2>1, <2>2, CreatePartitionOK
  <2>4. QED
    BY <1>2, <2>1, <2>3
<1>4. Absent <= latest
  BY DEF IInv, TypeOK, Absent
<1> HIDE DEF n
<1>5. QED
  BY <1>1, <1>2, <1>3, <1>4, FormatWriteIInv

LEMMA LuksFormatIInv == ASSUME IInv, LuksFormat PROVE IInv'
<1> DEFINE m == media[target]
           n == [m EXCEPT !.sig = "crypto_LUKS", !.inner = "none",
                          !.key = entry]
<1>1. /\ target \in Disk
      /\ pc = "format.luks" /\ pc' = "format.open"
      /\ UNCHANGED <<attached, notice, boot, ghosts>>
      /\ media' = [media EXCEPT ![target] = n]
  BY DEF IInv, TargetOK, LuksFormat, Writes
<1>2. /\ m \in Media /\ entry \in Pass \cup {NoPass}
      /\ m.table = "gpt" /\ m.part = "luks_uuid"
      /\ m.var = Absent /\ m.src <= latest
  BY <1>1 DEF IInv, TypeOK, TargetOK, MediaOK
<1>3. /\ n \in Media /\ n.table = "gpt" /\ n.part = "luks_uuid"
      /\ n.sig = "crypto_LUKS" /\ n.var = Absent /\ n.src <= latest
  <2> HIDE DEF m
  <2>1. n = LuksFormatted(m, entry)
    BY DEF LuksFormatted
  <2> HIDE DEF n
  <2>2. /\ n \in Media /\ n.table = m.table /\ n.part = m.part
        /\ n.sig = "crypto_LUKS" /\ n.var = m.var /\ n.src = m.src
    BY <1>2, <2>1, LuksFormatOK, Zenon
  <2>3. QED
    BY <1>2, <2>2
<1>4. ~IsLegacy(media[target])
  <2>1. media[target].sig = "none" \/ media[target].part # "var_guid"
    BY <1>2
  <2>2. QED
    BY <2>1 DEF IsLegacy
<1> HIDE DEF n
<1>5. QED
  BY <1>1, <1>3, <1>4, FormatWriteIInv

(* A new passphrase and the format of the blank volume.                     *)
LEMMA FormattingIInv == ASSUME IInv, Formatting PROVE IInv'
<1> USE DisksAssumption, ManagerAssumption
    DEF IInv, TypeOK, MediaOK, ClassesOK, TargetOK, SourceOK, RunningOK, PC,
        Commands, BeforeFormat, EmptyLuks, OnLuks, OnSource, boot, ghosts,
        Writes, Notice
<1>1. CASE AskNew          BY <1>1 DEF AskNew
<1>2. CASE AskRepeat       BY <1>2 DEF AskRepeat
<1>3. CASE ZapDisk
  BY <1>3 DEF ZapDisk, EmptyMedia, Media, Content, Absent, IsLuks, IsLegacy, IsBlank
<1>4. CASE CreatePartition BY <1>4, CreatePartitionIInv
<1>5. CASE LuksFormat      BY <1>5, LuksFormatIInv
<1>6. CASE OpenNew         BY <1>6 DEF OpenNew
<1>7. CASE Mkfs
  BY <1>7, WithBtrfsOK DEF Mkfs, IsLuks, IsLegacy, IsBlank
<1>8. QED
  BY <1>1, <1>2, <1>3, <1>4, <1>5, <1>6, <1>7 DEF Formatting

(* The copy of a migration.                                                 *)
LEMMA MigratingIInv == ASSUME IInv, Migrating PROVE IInv'
<1> USE DisksAssumption
    DEF IInv, TypeOK, MediaOK, ClassesOK, TargetOK, SourceOK, RunningOK, PC,
        Commands, BeforeFormat, EmptyLuks, OnLuks, OnSource, boot, ghosts,
        Goto, Writes, Block, Notice
<1>1. CASE InspectSource
  BY <1>1 DEF InspectSource, Media, Content, Absent, IsLuks, IsLegacy, IsBlank
<1>2. CASE CheckSize       BY <1>2 DEF CheckSize
<1>3. CASE SnapshotSource
  BY <1>3 DEF SnapshotSource, Media, IsLuks, IsLegacy, IsBlank
<1>4. CASE StartReceive
  BY <1>4 DEF StartReceive, Media, Content, Absent, Incomplete, IsLuks, IsLegacy, IsBlank
<1>5. CASE FinishReceive
  BY <1>5 DEF FinishReceive, Media, IsLuks, IsLegacy, IsBlank
<1>6. CASE PromoteCopy
  BY <1>6 DEF PromoteCopy, Media, IsLuks, IsLegacy, IsBlank
<1>7. CASE TidyNew
  BY <1>7 DEF TidyNew, Media, Content, Absent, IsLuks, IsLegacy, IsBlank
<1>8. CASE TidyOld
  BY <1>8 DEF TidyOld, Media, Content, Absent, IsLuks, IsLegacy, IsBlank
<1>9. CASE CloseMapper     BY <1>9 DEF CloseMapper
<1>10. QED
  BY <1>1, <1>2, <1>3, <1>4, <1>5, <1>6, <1>7, <1>8, <1>9 DEF Migrating

LEMMA NextIInv ==
  ASSUME FaultyProbe = {}
  PROVE  IInv /\ [Next]_vars => IInv'
<1> SUFFICES ASSUME IInv, [Next]_vars PROVE IInv'
  OBVIOUS
<1>1. CASE Machine  BY <1>1, MachineIInv
<1>2. CASE Daemon
  BY <1>2, PlanningIInv, UnlockingIInv, FormattingIInv, MigratingIInv DEF Daemon
<1>3. CASE CommandFails
  BY <1>3 DEF CommandFails, Goto, boot, ghosts, IInv, TypeOK, PC, Commands,
              MediaOK, ClassesOK, TargetOK, SourceOK, RunningOK, BeforeFormat,
              EmptyLuks, OnLuks, OnSource
<1>4. CASE UNCHANGED vars
  BY <1>4 DEF vars, IInv, TypeOK, MediaOK, ClassesOK, TargetOK, SourceOK, RunningOK
<1>5. QED
  BY <1>1, <1>2, <1>3, <1>4 DEF Next

(* The inductive invariant holds in every reachable state.                  *)
THEOREM SpecIInv == ASSUME FaultyProbe = {} PROVE Spec => []IInv
<1>1. IInv /\ [Next]_vars => IInv'
  BY NextIInv
<1>2. QED
  BY <1>1, InitIInv, PTL DEF Spec

(* Every variable keeps its type, for any number of volumes and of boots.   *)
THEOREM SpecTypeOK == ASSUME FaultyProbe = {} PROVE Spec => []TypeOK
<1>1. IInv => TypeOK
  BY DEF IInv
<1>2. QED
  BY <1>1, SpecIInv, PTL

-----------------------------------------------------------------------------
(* No step destroys data or touches a volume that is not the manager's.     *)

KeepsData == \A d \in Disk :
  /\ HoldsData(media[d]) => media'[d].var >= media[d].var
  /\ IsForeign(media[d]) => media'[d] = media[d]

(* The commands that leave the volumes as they are.                         *)
LEMMA QuietKeepsData == ASSUME IInv, media' = media PROVE KeepsData
  BY DEF IInv, TypeOK, Media, Content, Absent, KeepsData

(* A command may write a volume without data that is not foreign, or give   *)
(* one that has data a version at least as new.                             *)
LEMMA WriteKeepsData ==
  ASSUME IInv, NEW d \in Disk, NEW m, media' = [media EXCEPT ![d] = m],
         ~IsForeign(media[d]),
         HoldsData(media[d]) => m.var >= media[d].var
  PROVE  KeepsData
  BY DEF IInv, TypeOK, Media, Content, Absent, KeepsData

(* A command that only marks a volume or writes its .migrate-src.           *)
LEMMA MarkKeepsData ==
  ASSUME IInv, NEW d \in Disk, NEW m, media' = [media EXCEPT ![d] = m],
         ~IsForeign(media[d]),
         \/ \E v : m = [media[d] EXCEPT !.src = v]
         \/ \E v : m = [media[d] EXCEPT !.label = v]
         \/ m = WithBtrfs(media[d])
  PROVE  KeepsData
<1>1. media[d] \in Media
  BY DEF IInv, TypeOK
<1>2. media[d].var \in Int
  BY <1>1 DEF Media, Content, Absent
<1>3. m.var = media[d].var
  BY <1>1, WithBtrfsOK DEF Media
<1>4. media[d].var >= media[d].var
  BY <1>2
<1>5. QED
  BY <1>3, <1>4, WriteKeepsData

(* The volumes that commands write are not foreign.                         *)
LEMMA KnownVolumes ==
  ASSUME IInv
  PROVE  /\ pc \in BeforeFormat \cup OnLuks \cup {"format.part", "format.luks"}
              => target \in Disk /\ ~IsForeign(media[target])
         /\ pc \in OnSource => source \in Disk /\ ~IsForeign(media[source])
         /\ pc = "running" => rootvar \in Disk /\ ~IsForeign(media[rootvar])
<1>1. \A m : IsLegacy(m) \/ IsLuks(m) => ~IsForeign(m)
  BY DEF IsLegacy, IsLuks, IsForeign
<1>2. \A d \in Disk : IsBlank(media[d]) => ~IsForeign(media[d])
  BY DEF IInv, TypeOK, MediaOK, IsBlank, IsForeign, Media
<1>3. ~IsForeign(EmptyMedia)
  BY DEF IsForeign, EmptyMedia
<1>4. pc \in BeforeFormat \cup OnLuks \cup {"format.part"}
        => target \in Disk /\ ~IsForeign(media[target])
  BY <1>1, <1>2, <1>3 DEF IInv, TargetOK
<1>5. pc = "format.luks" => target \in Disk /\ ~IsForeign(media[target])
  BY DEF IInv, TargetOK, IsForeign
<1>6. pc \in OnSource => source \in Disk /\ ~IsForeign(media[source])
  BY <1>1 DEF IInv, SourceOK
<1>7. pc = "running" => rootvar \in Disk /\ ~IsForeign(media[rootvar])
  BY <1>1 DEF IInv, RunningOK, MediaOK
<1>8. QED
  BY <1>4, <1>5, <1>6, <1>7

(* One case per command that writes a volume; the others are quiet.         *)
LEMMA StepKeepsData == ASSUME IInv, Next PROVE KeepsData
<1> USE KnownVolumes, WriteKeepsData
    DEF BeforeFormat, EmptyLuks, OnLuks, OnSource, Writes
<1>1. CASE ServerWrites
  <2> DEFINE m == [media[rootvar] EXCEPT !.var = latest + 1]
  <2>1. /\ rootvar \in Disk /\ ~IsForeign(media[rootvar])
        /\ media' = [media EXCEPT ![rootvar] = m]
    BY <1>1 DEF ServerWrites
  <2>2. media[rootvar] \in Media /\ media[rootvar].var <= latest /\ latest \in Int
    BY <2>1 DEF IInv, TypeOK, MediaOK
  <2>3. m.var = latest + 1 /\ media[rootvar].var \in Int
    BY <2>2 DEF Media, Content, Absent
  <2>4. m.var >= media[rootvar].var
    BY <2>2, <2>3
  <2> HIDE DEF m
  <2>5. QED
    BY <2>1, <2>4
<1>2. CASE MkfsMapper
  BY <1>2, MarkKeepsData DEF MkfsMapper
<1>3. CASE CreateVar
  <2>1. ~HoldsData(media[target])
    BY <1>3 DEF CreateVar, HoldsData, Absent
  <2>2. QED
    BY <1>3, <2>1 DEF CreateVar
<1>4. CASE LabelLegacy
  BY <1>4, MarkKeepsData DEF LabelLegacy
<1>5. CASE InspectSource
  BY <1>5, MarkKeepsData, QuietKeepsData DEF InspectSource, Goto
<1>6. CASE ZapDisk
  <2>1. ~HoldsData(media[target])
    BY <1>6 DEF ZapDisk, IInv, TargetOK, MediaOK, IsBlank, IsLegacy, IsLuks,
                HoldsData, Absent
  <2>2. QED
    BY <1>6, <2>1 DEF ZapDisk
<1>7. CASE CreatePartition
  <2>1. ~HoldsData(media[target])
    BY <1>7 DEF CreatePartition, IInv, TargetOK, EmptyMedia, HoldsData, Absent
  <2>2. QED
    BY <1>7, <2>1 DEF CreatePartition
<1>8. CASE LuksFormat
  <2>1. ~HoldsData(media[target])
    BY <1>8 DEF LuksFormat, IInv, TargetOK, HoldsData, Absent
  <2>2. QED
    BY <1>8, <2>1 DEF LuksFormat
<1>9. CASE Mkfs
  BY <1>9, MarkKeepsData DEF Mkfs
<1>10. CASE SnapshotSource
  BY <1>10, MarkKeepsData DEF SnapshotSource
<1>11. CASE StartReceive
  BY <1>11, MarkKeepsData DEF StartReceive
<1>12. CASE FinishReceive
  BY <1>12, MarkKeepsData DEF FinishReceive
<1>13. CASE PromoteCopy
  <2>1. ~HoldsData(media[target])
    BY <1>13 DEF PromoteCopy, IInv, TargetOK, HoldsData, Absent
  <2>2. QED
    BY <1>13, <2>1 DEF PromoteCopy
<1>14. CASE TidyNew
  BY <1>14, MarkKeepsData DEF TidyNew
<1>15. CASE TidyOld
  BY <1>15, MarkKeepsData DEF TidyOld
<1>16. CASE media' = media
  BY <1>16, QuietKeepsData
<1>17. QED
  <2>1. CASE Machine
    BY <2>1, <1>1, <1>16
       DEF Machine, PowerOn, PowerOff, MountVar, DiskAppears, Plug, Unplug
  <2>2. CASE Planning
    BY <2>2, <1>16 DEF Planning, Poll, ListVolumes, Decide, ProbeDisk
  <2>3. CASE Unlocking
    BY <2>3, <1>2, <1>3, <1>16
       DEF Unlocking, GrowPartition, AskUnlock, OpenVolume, ResizeMapping,
           ProbeMapper, CheckSubvol, ConfirmSubvol, ConfirmMkfs, Goto, Block, Confirm
  <2>4. CASE Formatting
    BY <2>4, <1>6, <1>7, <1>8, <1>9, <1>16 DEF Formatting, AskNew, AskRepeat, OpenNew
  <2>5. CASE Migrating
    BY <2>5, <1>5, <1>10, <1>11, <1>12, <1>13, <1>14, <1>15, <1>16
       DEF Migrating, CheckSize, CloseMapper, Goto, Block
  <2>6. CASE CommandFails
    BY <2>6, <1>16 DEF CommandFails, Goto
  <2>7. QED
    BY <2>1, <2>2, <2>3, <2>4, <2>5, <2>6, <1>4 DEF Next, Daemon

(* classify's zero-signature rule is the only way to a format: whatever is  *)
(* interrupted, retried or plugged, no step of the daemon or the server     *)
(* destroys data or writes a volume that is not the manager's.              *)
THEOREM SpecNothingPreciousIsWritten ==
  ASSUME FaultyProbe = {} PROVE Spec => NothingPreciousIsWritten
<1>1. IInv /\ [Next]_vars => [KeepsData]_vars
  BY StepKeepsData
<1>2. Spec => [][KeepsData]_vars
  BY <1>1, SpecIInv, PTL DEF Spec
<1>3. QED
  BY <1>2 DEF NothingPreciousIsWritten, KeepsData

(* The version the server wrote last changes only when the server writes.   *)
LEMMA LatestGrows ==
  ASSUME Next
  PROVE  \/ ServerWrites
         \/ latest' = latest
  BY DEF Next, Machine, PowerOn, PowerOff, MountVar, DiskAppears, Plug, Unplug,
         Daemon, Planning, Poll, ListVolumes, Decide, ProbeDisk, Unlocking,
         GrowPartition, AskUnlock, OpenVolume, ResizeMapping, ProbeMapper,
         CheckSubvol, ConfirmSubvol, ConfirmMkfs, MkfsMapper, CreateVar,
         LabelLegacy, Formatting, AskNew, AskRepeat, ZapDisk, CreatePartition,
         LuksFormat, OpenNew, Mkfs, Migrating, InspectSource, CheckSize,
         SnapshotSource, StartReceive, FinishReceive, PromoteCopy, TidyNew,
         TidyOld, CloseMapper, CommandFails, Goto, Writes, Block, Confirm, ghosts

(* The server's last data is on some volume in every reachable state.       *)
THEOREM SpecLatestDataSurvives ==
  ASSUME FaultyProbe = {} PROVE Spec => []LatestDataSurvives
<1>1. Init => LatestDataSurvives
  BY DisksAssumption DEF Init, LatestDataSurvives, HoldsData, InitialMedia,
         EmptyMedia, ForeignMedia, LegacyMedia, LuksMedia, Absent
<1>2. ASSUME IInv, IInv', LatestDataSurvives, Next PROVE LatestDataSurvives'
  <2>1. CASE ServerWrites
    <3>1. rootvar \in Disk /\ media'[rootvar].var = latest'
      BY <2>1, <1>2 DEF ServerWrites, IInv, TypeOK, RunningOK, Media
    <3>2. QED
      BY <3>1 DEF LatestDataSurvives
  <2>2. CASE latest' = latest /\ latest >= 1
    <3>1. PICK d \in Disk : media[d].var = latest
      BY <1>2, <2>2 DEF LatestDataSurvives
    <3>2. media'[d].var >= latest /\ media'[d].var <= latest
      BY <1>2, <2>2, <3>1, StepKeepsData
         DEF KeepsData, HoldsData, IInv, MediaOK
    <3>3. media'[d].var = latest'
      <4>1. media'[d].var \in Int /\ latest \in Int
        BY <1>2 DEF IInv, TypeOK, Media, Content, Absent
      <4>2. QED
        BY <2>2, <3>2, <4>1
    <3>4. QED
      BY <3>3 DEF LatestDataSurvives
  <2>3. QED
    BY <1>2, <2>1, <2>2, LatestGrows DEF LatestDataSurvives
<1>3. LatestDataSurvives /\ UNCHANGED vars => LatestDataSurvives'
  BY DEF LatestDataSurvives, vars
<1>4. QED
  BY <1>1, <1>2, <1>3, SpecIInv, PTL DEF Spec

-----------------------------------------------------------------------------
(* What MIGRATION COMPLETE rests on: an unencrypted volume always holds     *)
(* data, and after each command of the copy the two volumes agree on what   *)
(* that command was to bring about.                                         *)

Tidying == {"migrate.tidy_new", "migrate.tidy_old", "migrate.close"}
Copying == {"migrate.receive", "migrate.copied", "migrate.promote"} \cup Tidying
Complete == pc = "blocked" /\ notice = "complete"

LegacyHolds == \A d \in Disk : IsLegacy(media[d]) => HoldsData(media[d])

CopyOK ==
  /\ notice = "complete" => pc \in {"off", "blocked"}
  /\ pc \in Copying \/ Complete =>
       /\ target \in Disk /\ IsLuks(media[target])
       /\ source \in Disk /\ IsLegacy(media[source])
  /\ pc \in {"migrate.receive", "migrate.copied"} =>
       media[source].src = media[source].var
  /\ pc = "migrate.promote" => media[target].src = media[source].var
  /\ pc \in Tidying \/ Complete => media[target].var = media[source].var
  /\ pc \in {"migrate.tidy_old", "migrate.close"} \/ Complete =>
       media[target].src = Absent
  /\ pc = "migrate.close" \/ Complete => media[source].src = Absent
  /\ Complete => mapper = NoDisk

(* No command makes an unencrypted volume of the manager's.                 *)
LEMMA StepKeepsLegacy ==
  ASSUME IInv, Next, NEW d \in Disk, IsLegacy(media'[d])
  PROVE  IsLegacy(media[d])
<1>1. ASSUME NEW e \in Disk, NEW m, media' = [media EXCEPT ![e] = m],
             \/ m.part = media[e].part /\ m.sig = media[e].sig
             \/ m.part \in {"none", "luks_uuid"}
             \/ IsLegacy(media[e])
      PROVE  IsLegacy(media[d])
  <2>1. CASE d = e
    <3>1. media'[d] = m
      BY <1>1, <2>1 DEF IInv, TypeOK
    <3>2. CASE IsLegacy(media[e])
      BY <2>1, <3>2
    <3>3. CASE m.part = media[e].part /\ m.sig = media[e].sig
      <4>1. IsLegacy(m) => m.part = "var_guid" /\ m.sig = "btrfs"
        BY DEF IsLegacy
      <4>2. media[d].part = "var_guid" /\ media[d].sig = "btrfs"
        BY <2>1, <3>1, <3>3, <4>1
      <4>3. QED
        BY <4>2 DEF IInv, MediaOK, IsLegacy
    <3>4. CASE m.part \in {"none", "luks_uuid"}
      BY <3>1, <3>4 DEF IsLegacy
    <3>5. QED
      BY <1>1, <3>2, <3>3, <3>4
  <2>2. CASE d # e
    BY <1>1, <2>2 DEF IInv, TypeOK
  <2>3. QED
    BY <2>1, <2>2
<1>2. ASSUME NEW e \in Disk, NEW m, media' = [media EXCEPT ![e] = m],
             \/ \E v : m = [media[e] EXCEPT !.var = v]
             \/ \E v : m = [media[e] EXCEPT !.src = v]
             \/ \E v : m = [media[e] EXCEPT !.label = v]
             \/ m = WithBtrfs(media[e])
      PROVE  IsLegacy(media[d])
  <2>1. media[e] \in Media
    BY DEF IInv, TypeOK
  <2>2. m.part = media[e].part /\ m.sig = media[e].sig
    BY <1>2, <2>1, WithBtrfsOK DEF Media
  <2>3. QED
    BY <1>1, <1>2, <2>2
<1>3. /\ pc \in BeforeFormat \cup OnLuks \cup {"format.part", "format.luks"}
           => target \in Disk
      /\ pc \in OnSource => source \in Disk
      /\ pc = "running" => rootvar \in Disk
  BY KnownVolumes
<1> USE <1>3 DEF BeforeFormat, EmptyLuks, OnLuks, OnSource, Writes
<1>4. CASE ServerWrites    BY <1>2, <1>4 DEF ServerWrites
<1>5. CASE MkfsMapper      BY <1>2, <1>5 DEF MkfsMapper
<1>6. CASE CreateVar       BY <1>2, <1>6 DEF CreateVar
<1>7. CASE LabelLegacy     BY <1>2, <1>7 DEF LabelLegacy
<1>8. CASE Mkfs            BY <1>2, <1>8 DEF Mkfs
<1>9. CASE SnapshotSource  BY <1>2, <1>9 DEF SnapshotSource
<1>10. CASE StartReceive   BY <1>2, <1>10 DEF StartReceive
<1>11. CASE FinishReceive  BY <1>2, <1>11 DEF FinishReceive
<1>12. CASE PromoteCopy    BY <1>2, <1>12 DEF PromoteCopy
<1>13. CASE TidyNew        BY <1>2, <1>13 DEF TidyNew
<1>14. CASE TidyOld        BY <1>2, <1>14 DEF TidyOld
<1>15. CASE ZapDisk
  <2>1. EmptyMedia.part = "none"
    BY DEF EmptyMedia
  <2>2. QED
    BY <1>1, <1>15, <2>1 DEF ZapDisk
<1>16. CASE CreatePartition
  <2> DEFINE n == [media[target] EXCEPT !.table = "gpt", !.part = "luks_uuid"]
  <2>1. media[target] \in Media /\ n.part = "luks_uuid"
    BY <1>16 DEF CreatePartition, IInv, TypeOK, Media
  <2>2. media' = [media EXCEPT ![target] = n] /\ target \in Disk
    BY <1>16 DEF CreatePartition
  <2> HIDE DEF n
  <2>3. QED
    BY <1>1, <2>1, <2>2
<1>17. CASE LuksFormat
  <2> DEFINE n == LuksFormatted(media[target], entry)
  <2>1. /\ target \in Disk /\ media' = [media EXCEPT ![target] = n]
        /\ media[target].part = "luks_uuid"
    BY <1>17 DEF LuksFormat, LuksFormatted, IInv, TargetOK
  <2>2. n.part = media[target].part
    BY <2>1, LuksFormatOK DEF IInv, TypeOK
  <2> HIDE DEF n
  <2>3. QED
    BY <1>1, <2>1, <2>2
<1>18. CASE InspectSource
  <2>1. CASE media' = media
    BY <2>1
  <2>2. CASE media' # media
    BY <1>2, <1>18, <2>2 DEF InspectSource, Goto
  <2>3. QED
    BY <2>1, <2>2
<1>19. CASE media' = media
  BY <1>19
<1>20. QED
  <2>1. CASE Machine
    BY <2>1, <1>4, <1>19
       DEF Machine, PowerOn, PowerOff, MountVar, DiskAppears, Plug, Unplug
  <2>2. CASE Planning
    BY <2>2, <1>19 DEF Planning, Poll, ListVolumes, Decide, ProbeDisk
  <2>3. CASE Unlocking
    BY <2>3, <1>5, <1>6, <1>19
       DEF Unlocking, GrowPartition, AskUnlock, OpenVolume, ResizeMapping,
           ProbeMapper, CheckSubvol, ConfirmSubvol, ConfirmMkfs, Goto, Block, Confirm
  <2>4. CASE Formatting
    BY <2>4, <1>15, <1>16, <1>17, <1>8, <1>19
       DEF Formatting, AskNew, AskRepeat, OpenNew
  <2>5. CASE Migrating
    BY <2>5, <1>18, <1>9, <1>10, <1>11, <1>12, <1>13, <1>14, <1>19
       DEF Migrating, CheckSize, CloseMapper, Goto, Block
  <2>6. CASE CommandFails
    BY <2>6, <1>19 DEF CommandFails, Goto
  <2>7. QED
    BY <2>1, <2>2, <2>3, <2>4, <2>5, <2>6, <1>7 DEF Next, Daemon

(* An unencrypted volume keeps its data, for no command makes another one.  *)
LEMMA StepLegacyHolds ==
  ASSUME IInv, IInv', LegacyHolds, Next PROVE LegacyHolds'
<1> SUFFICES ASSUME NEW d \in Disk, IsLegacy(media'[d])
             PROVE  HoldsData(media'[d])
  BY DEF LegacyHolds, HoldsData, IsLegacy
<1>1. HoldsData(media[d])
  BY StepKeepsLegacy DEF LegacyHolds
<1>2. media'[d].var >= media[d].var /\ media[d].var >= 1
  BY <1>1, StepKeepsData DEF KeepsData, HoldsData
<1>3. media[d].var \in Int /\ media'[d].var \in Int
  <2>1. media \in [Disk -> Media] /\ media' \in [Disk -> Media]
    BY DEF IInv, TypeOK
  <2>2. QED
    BY <2>1 DEF Media, Content, Absent
<1>4. QED
  BY <1>2, <1>3 DEF HoldsData

(* The volumes of a copy are two, and a command of it changes one field.    *)
LEMMA CopyVolumes ==
  ASSUME IInv, CopyOK, pc \in {"migrate.snapshot"} \cup Copying
  PROVE  /\ target \in Disk /\ IsLuks(media[target]) /\ media[target] \in Media
         /\ source \in Disk /\ IsLegacy(media[source]) /\ media[source] \in Media
         /\ source # target
<1>1. /\ target \in Disk /\ IsLuks(media[target])
      /\ source \in Disk /\ IsLegacy(media[source])
  BY DEF IInv, TargetOK, SourceOK, CopyOK, OnLuks, EmptyLuks, OnSource
<1>2. source # target
  BY <1>1 DEF IsLuks, IsLegacy
<1>3. QED
  BY <1>1, <1>2 DEF IInv, TypeOK

LEMMA CopyWrite ==
  ASSUME IInv, CopyOK, pc \in {"migrate.snapshot"} \cup Copying,
         NEW d \in {target, source}, NEW m, media' = [media EXCEPT ![d] = m],
         m.table = media[d].table, m.part = media[d].part, m.sig = media[d].sig
  PROVE  /\ media'[d] = m
         /\ \A e \in Disk : e # d => media'[e] = media[e]
         /\ IsLuks(media'[target]) /\ IsLegacy(media'[source])
<1>1. /\ target \in Disk /\ IsLuks(media[target])
      /\ source \in Disk /\ IsLegacy(media[source])
      /\ source # target
  BY CopyVolumes
<1>2. media'[d] = m /\ \A e \in Disk : e # d => media'[e] = media[e]
  BY <1>1 DEF IInv, TypeOK
<1>3. (IsLuks(m) <=> IsLuks(media[d])) /\ (IsLegacy(m) <=> IsLegacy(media[d]))
  BY DEF IsLuks, IsLegacy
<1>4. QED
  BY <1>1, <1>2, <1>3

LEMMA SubvolumeOK ==
  ASSUME NEW m \in Media, NEW v, NEW n,
         n = [m EXCEPT !.src = v] \/ n = [m EXCEPT !.var = v]
  PROVE  /\ n.table = m.table /\ n.part = m.part /\ n.sig = m.sig
         /\ n = [m EXCEPT !.src = v] => n.src = v /\ n.var = m.var
         /\ n = [m EXCEPT !.var = v] => n.var = v /\ n.src = m.src
  BY DEF Media

(* Whatever leaves the copy leaves nothing to keep.                         *)
LEMMA OutsideCopy ==
  ASSUME pc' \notin Copying, ~Complete',
         notice' = "complete" => pc' \in {"off", "blocked"}
  PROVE  CopyOK'
BY DEF CopyOK, Copying, Tidying

LEMMA MigratingCopyOK ==
  ASSUME IInv, CopyOK, Migrating PROVE CopyOK'
<1> USE DEF Copying, Tidying, Complete
<1>1. CASE InspectSource \/ CheckSize
  BY <1>1, OutsideCopy DEF InspectSource, CheckSize, Goto, Block, Writes, boot, CopyOK
<1>2. ASSUME NEW from \in {"migrate.snapshot"} \cup Copying,
             NEW to \in Copying \ {from}, NEW d \in {target, source}, NEW v,
             Writes(from, to, d, [media[d] EXCEPT !.src = v])
      PROVE  /\ pc = from /\ pc' = to /\ UNCHANGED <<target, source, notice>>
             /\ target \in Disk /\ source \in Disk /\ target # source
             /\ IsLuks(media'[target]) /\ IsLegacy(media'[source])
             /\ media'[d].src = v /\ media'[d].var = media[d].var
             /\ \A e \in Disk : e # d => media'[e] = media[e]
  <2> DEFINE m == [media[d] EXCEPT !.src = v]
  <2>1. /\ pc = from /\ pc' = to /\ UNCHANGED <<target, source, notice>>
        /\ media' = [media EXCEPT ![d] = m]
    BY <1>2 DEF Writes, boot
  <2>2. /\ target \in Disk /\ source \in Disk /\ target # source
        /\ pc \in {"migrate.snapshot"} \cup Copying
    BY <2>1, CopyVolumes
  <2>3. /\ IsLuks(media'[target]) /\ IsLegacy(media'[source])
        /\ media'[d].src = v /\ media'[d].var = media[d].var
        /\ \A e \in Disk : e # d => media'[e] = media[e]
    <3>1. media[d] \in Media
      BY CopyVolumes, <2>2
    <3>2. m = [media[d] EXCEPT !.src = v]
      OBVIOUS
    <3> HIDE DEF m
    <3>3. /\ m.table = media[d].table /\ m.part = media[d].part
          /\ m.sig = media[d].sig /\ m.src = v /\ m.var = media[d].var
      BY <3>1, <3>2, SubvolumeOK
    <3>4. QED
      BY <2>1, <2>2, <3>3, CopyWrite
  <2>4. QED
    BY <2>1, <2>2, <2>3
<1>3. CASE SnapshotSource
  <2> DEFINE v == media[source].var
  <2>1. Writes("migrate.snapshot", "migrate.receive", source,
               [media[source] EXCEPT !.src = v])
    BY <1>3 DEF SnapshotSource
  <2> HIDE DEF v
  <2>2. /\ pc' = "migrate.receive" /\ UNCHANGED <<target, source, notice>>
        /\ target \in Disk /\ source \in Disk
        /\ IsLuks(media'[target]) /\ IsLegacy(media'[source])
        /\ media'[source].src = v /\ media'[source].var = media[source].var
        /\ pc = "migrate.snapshot"
    BY <2>1, <1>2
  <2>3. media'[source'].src = media'[source'].var
    BY <2>2 DEF v
  <2>4. QED
    BY <2>2, <2>3 DEF CopyOK
<1>4. CASE StartReceive
  <2>1. Writes("migrate.receive", "migrate.copied", target,
               [media[target] EXCEPT !.src = Incomplete])
    BY <1>4 DEF StartReceive
  <2>2. QED
    BY <2>1, <1>2 DEF CopyOK
<1>5. CASE FinishReceive
  <2>1. Writes("migrate.copied", "migrate.promote", target,
               [media[target] EXCEPT !.src = media[source].src])
    BY <1>5 DEF FinishReceive
  <2>2. pc = "migrate.copied"
    BY <2>1 DEF Writes
  <2>3. media[source].src = media[source].var
    BY <2>2 DEF CopyOK
  <2>4. QED
    BY <2>1, <2>3, <1>2 DEF CopyOK
<1>6. CASE PromoteCopy
  <2> DEFINE v == media[target].src
             m == [media[target] EXCEPT !.var = v]
  <2>1. /\ pc = "migrate.promote" /\ pc' = "migrate.tidy_new"
        /\ UNCHANGED <<target, source, notice>>
        /\ media' = [media EXCEPT ![target] = m]
    BY <1>6 DEF PromoteCopy, Writes, boot
  <2>2. /\ target \in Disk /\ source \in Disk /\ target # source
        /\ IsLuks(media'[target]) /\ IsLegacy(media'[source])
        /\ media'[target].var = v
        /\ \A e \in Disk : e # target => media'[e] = media[e]
    <3>1. /\ media[target] \in Media /\ target \in Disk /\ source \in Disk
          /\ target # source /\ target \in {target, source}
      BY <2>1, CopyVolumes
    <3>2. m = [media[target] EXCEPT !.var = v]
      OBVIOUS
    <3> HIDE DEF m, v
    <3>3. /\ m.table = media[target].table /\ m.part = media[target].part
          /\ m.sig = media[target].sig /\ m.var = v
      BY <3>1, <3>2, SubvolumeOK
    <3>4. QED
      BY <2>1, <3>1, <3>3, CopyWrite
  <2>3. v = media[source].var
    BY <2>1 DEF CopyOK
  <2> HIDE DEF v
  <2>4. QED
    BY <2>1, <2>2, <2>3 DEF CopyOK
<1>7. CASE TidyNew
  <2>1. Writes("migrate.tidy_new", "migrate.tidy_old", target,
               [media[target] EXCEPT !.src = Absent])
    BY <1>7 DEF TidyNew
  <2>2. QED
    BY <2>1, <1>2 DEF CopyOK
<1>8. CASE TidyOld
  <2>1. Writes("migrate.tidy_old", "migrate.close", source,
               [media[source] EXCEPT !.src = Absent])
    BY <1>8 DEF TidyOld
  <2>2. QED
    BY <2>1, <1>2 DEF CopyOK
<1>9. CASE CloseMapper
  BY <1>9 DEF CloseMapper, CopyOK, ghosts
<1>10. QED
  BY <1>1, <1>3, <1>4, <1>5, <1>6, <1>7, <1>8, <1>9 DEF Migrating

LEMMA NextCopyOK == ASSUME IInv, CopyOK, [Next]_vars PROVE CopyOK'
<1> USE OutsideCopy DEF Copying, Tidying, Complete, boot, ghosts
<1>1. CASE Machine
  <2>1. CASE \E d \in Disk : DiskAppears(d)
    BY <2>1 DEF DiskAppears, CopyOK
  <2>2. CASE PowerOn \/ PowerOff \/ MountVar \/ ServerWrites
    BY <2>2 DEF PowerOn, PowerOff, MountVar, ServerWrites, CopyOK
  <2>3. CASE \E d \in Disk : Plug(d) \/ Unplug(d)
    BY <2>3 DEF Plug, Unplug, CopyOK
  <2>4. QED
    BY <1>1, <2>1, <2>2, <2>3 DEF Machine
<1>2. CASE Planning
  <2>1. CASE Decide
    <3>1. FirstStep(plan(class)) \in {"unlock.grow", "migrate.inspect",
            "legacy.label", "ask.new", "blocked", "failed"}
      BY PlanOK DEF FirstStep, PlanKind
    <3>2. FirstStep(plan(class)) = "blocked" =>
            plan(class) \in {"Block", "Detach"}
      BY PlanOK DEF FirstStep, PlanKind
    <3>3. QED
      BY <2>1, <3>1, <3>2 DEF Decide, CopyOK
  <2>2. CASE Poll \/ ListVolumes \/ \E d \in Disk : ProbeDisk(d)
    BY <2>2 DEF Poll, ListVolumes, ProbeDisk, CopyOK
  <2>3. QED
    BY <1>2, <2>1, <2>2 DEF Planning
<1>3. CASE Unlocking \/ LabelLegacy
  BY <1>3 DEF Unlocking, GrowPartition, AskUnlock, OpenVolume, ResizeMapping,
       ProbeMapper, CheckSubvol, ConfirmSubvol, ConfirmMkfs, MkfsMapper,
       CreateVar, LabelLegacy, Goto, Block, Confirm, Writes, CopyOK
<1>4. CASE Formatting
  BY <1>4 DEF Formatting, AskNew, AskRepeat, ZapDisk, CreatePartition,
       LuksFormat, OpenNew, Mkfs, Writes, CopyOK
<1>5. CASE Migrating
  BY <1>5, MigratingCopyOK
<1>6. CASE CommandFails
  BY <1>6 DEF CommandFails, Goto, Commands, CopyOK
<1>7. CASE UNCHANGED vars
  BY <1>7 DEF vars, CopyOK
<1>8. QED
  BY <1>1, <1>2, <1>3, <1>4, <1>5, <1>6, <1>7 DEF Next, Daemon

(* The operator is told to detach the old volume only when the new one holds*)
(* all of its data: the daemon's MIGRATION COMPLETE is true on any machine, *)
(* after any number of interrupted attempts.                                *)
THEOREM SpecCompleteMeansCopied ==
  ASSUME FaultyProbe = {} PROVE Spec => []CompleteMeansCopied
<1>1. Init => CopyOK
  BY DEF Init, CopyOK, Copying, Tidying, Complete
<1>2. Init => LegacyHolds
  BY DEF Init, LegacyHolds, HoldsData, InitialMedia, EmptyMedia, ForeignMedia,
         LegacyMedia, LuksMedia, IsLegacy
<1>3. IInv /\ CopyOK /\ [Next]_vars => CopyOK'
  BY NextCopyOK
<1>4. IInv /\ IInv' /\ LegacyHolds /\ [Next]_vars => LegacyHolds'
  BY StepLegacyHolds DEF LegacyHolds, IsLegacy, HoldsData, vars
<1>5. CopyOK /\ LegacyHolds => CompleteMeansCopied
  BY DEF CopyOK, LegacyHolds, CompleteMeansCopied, Complete, HoldsData
<1>6. QED
  BY <1>1, <1>2, <1>3, <1>4, <1>5, SpecIInv, PTL DEF Spec

-----------------------------------------------------------------------------
(* Where the data is.  The argument: data on an encrypted volume is always  *)
(* the latest, there is one such volume, and the operator never unplugs it; *)
(* so every boot that misses no volume sees it, and plan either unlocks it  *)
(* or blocks.  Once a plan has missed a volume none of this is claimed.     *)

HasData(d) == IsLuks(media[d]) /\ HoldsData(media[d])

(* Links and classes are those of plugged volumes; late links and failed    *)
(* probes may miss some of them.                                            *)
VisibleOK == visible \subseteq attached /\ (pc = "off" => visible = {})
SeenOK == pc = "classify" => \A d \in Disk : class[d] # "unlisted" => d \in attached

(* The dm-crypt mapping is opened by the plan's commands.                   *)
MapperOK == pc \in {"off", "enumerate", "list", "classify"} => mapper = NoDisk

(* No /var is a part of a copy.                                             *)
VersionsOK == \A d \in Disk : media[d].var # Incomplete

OneLegacy == \A d, e \in Disk : IsLegacy(media[d]) /\ IsLegacy(media[e]) => d = e

HomeOK == \A d \in Disk : HasData(d) =>
  /\ d \in attached /\ media[d].var = latest
  /\ \A e \in Disk : HasData(e) => e = d

(* An unencrypted volume is out of date only once an encrypted one has data.*)
StaleOK == \A d \in Disk :
  IsLegacy(media[d]) /\ media[d].var # latest => \E e \in Disk : HasData(e)

EncryptedOK == \A d \in encrypted : HasData(d)

FreshOK == \A d \in Disk : media[d].var = Fresh => d \in accepted

(* A volume gets an empty /var only once an operator agreed to it.          *)
AgreedOK ==
  \/ pc \in {"unlock.mkfs", "create.var"}
  \/ /\ pc \in {"format.zap", "format.part", "format.luks", "format.open",
                "format.mkfs"}
     /\ source = NoDisk
  => target \in accepted

(* While a plan is carried out the plugged volumes are those it was made    *)
(* for.                                                                     *)
Idle == {"off", "enumerate", "list", "classify", "blocked", "failed"}
OnUnlock == {"unlock.grow", "unlock.ask", "unlock.open", "unlock.resize",
             "unlock.probe", "unlock.subvol", "unlock.ask_subvol",
             "unlock.ask_mkfs", "unlock.mkfs", "create.var"}

AloneOK == pc \notin Idle =>
  /\ \A d \in attached : IsLuks(media[d]) => d = target
  /\ target # NoDisk => target \in attached
  /\ target # NoDisk /\ source = NoDisk =>
       \A d \in attached : ~IsLegacy(media[d])
  /\ mapper \in {NoDisk, target}
  /\ pc \in OnUnlock => source = NoDisk
  /\ pc = "legacy.label" => target = NoDisk
  /\ pc \in {"released", "running"} =>
       \/ target = NoDisk
       \/ source = NoDisk /\ target # NoDisk /\ IsLuks(media[target])

RunningHome == pc = "running" =>
  \/ rootvar = target /\ IsLuks(media[target])
  \/ target = NoDisk /\ rootvar # NoDisk /\ IsLegacy(media[rootvar])

RootOK == pc # "running" => rootvar = NoDisk

DataOK == VersionsOK /\ OneLegacy /\ HomeOK /\ StaleOK /\ EncryptedOK /\ FreshOK
(* The plan being carried out was made on all volumes of the manager's.     *)
PlanOnAll == AloneOK /\ RunningHome

BootOK == VisibleOK /\ MapperOK /\ SeenOK /\ AgreedOK /\ RootOK
DInv   == /\ IInv /\ CopyOK /\ LegacyHolds /\ BootOK
          /\ ~missed => DataOK /\ PlanOnAll

-----------------------------------------------------------------------------
(* What a step does to the volumes: only the server, CreateVar and          *)
(* PromoteCopy change a /var, and only the format of the blank target turns *)
(* a volume into another kind.                                              *)

SameKind(d) == /\ IsLuks(media'[d])   <=> IsLuks(media[d])
               /\ IsLegacy(media'[d]) <=> IsLegacy(media[d])
SameVar(d)  == media'[d].var = media[d].var

NewVar == ServerWrites \/ CreateVar \/ PromoteCopy
Format == ZapDisk \/ CreatePartition \/ LuksFormat

(* A command that only marks a volume or writes its .migrate-src.           *)
LEMMA MarkWrite ==
  ASSUME IInv, NEW d \in Disk, NEW m, media' = [media EXCEPT ![d] = m],
         \/ \E v : m = [media[d] EXCEPT !.src = v]
         \/ \E v : m = [media[d] EXCEPT !.label = v]
         \/ m = WithBtrfs(media[d])
  PROVE  \A e \in Disk : SameKind(e) /\ SameVar(e)
<1>1. media[d] \in Media
  BY DEF IInv, TypeOK
<1>2. \A e \in Disk : media'[e] = IF e = d THEN m ELSE media[e]
  BY DEF IInv, TypeOK
<1>3. /\ m.table = media[d].table /\ m.part = media[d].part
      /\ m.sig = media[d].sig /\ m.var = media[d].var
  BY <1>1, WithBtrfsOK DEF Media
<1>4. (IsLuks(m) <=> IsLuks(media[d])) /\ (IsLegacy(m) <=> IsLegacy(media[d]))
  BY <1>3 DEF IsLuks, IsLegacy
<1>5. QED
  BY <1>2, <1>3, <1>4 DEF SameKind, SameVar

(* One that changes a /var.                                                 *)
WithVar(d, v) == [media EXCEPT ![d] = [media[d] EXCEPT !.var = v]]

LEMMA VarWrite ==
  ASSUME IInv, NEW d \in Disk, NEW v,
         media' = WithVar(d, v)
  PROVE  /\ \A e \in Disk : SameKind(e)
         /\ \A e \in Disk : media'[e].var = IF e = d THEN v ELSE media[e].var
<1> DEFINE m == [media[d] EXCEPT !.var = v]
<1>1. media[d] \in Media
  BY DEF IInv, TypeOK
<1>2. \A e \in Disk : media'[e] = IF e = d THEN m ELSE media[e]
  BY DEF WithVar, IInv, TypeOK
<1>3. /\ m.table = media[d].table /\ m.part = media[d].part
      /\ m.sig = media[d].sig /\ m.var = v
  BY <1>1 DEF Media
<1> HIDE DEF m
<1>4. (IsLuks(m) <=> IsLuks(media[d])) /\ (IsLegacy(m) <=> IsLegacy(media[d]))
  BY <1>3 DEF IsLuks, IsLegacy
<1>5. QED
  BY <1>2, <1>3, <1>4 DEF SameKind

(* The format never touches a volume with a /var.                           *)
LEMMA FormatWrite ==
  ASSUME IInv, Format
  PROVE  /\ target \in Disk
         /\ \A e \in Disk : SameVar(e) /\ (e # target => SameKind(e))
         /\ media[target].var = Absent
         /\ ~IsLuks(media[target])
         /\ ~IsLegacy(media[target]) /\ ~IsLegacy(media'[target])
         /\ ~LuksFormat => ~IsLuks(media'[target])
<1>1. ASSUME NEW m, target \in Disk, media' = [media EXCEPT ![target] = m],
             m.var = media[target].var
      PROVE  /\ \A e \in Disk : SameVar(e) /\ (e # target => SameKind(e))
             /\ media'[target] = m
  BY <1>1 DEF IInv, TypeOK, SameVar, SameKind
<1>2. CASE ZapDisk
  <2>1. /\ target \in Disk /\ IsBlank(media[target])
        /\ media' = [media EXCEPT ![target] = EmptyMedia]
    BY <1>2 DEF ZapDisk, Writes, IInv, TargetOK, BeforeFormat
  <2>2. /\ ~IsLuks(media[target]) /\ ~IsLegacy(media[target])
        /\ ~IsLuks(EmptyMedia) /\ ~IsLegacy(EmptyMedia)
        /\ EmptyMedia.var = Absent
    BY <2>1 DEF IsBlank, IsLuks, IsLegacy, EmptyMedia
  <2>3. media[target].var = Absent
    BY <2>1, <2>2 DEF IInv, MediaOK
  <2> QED
    BY <1>1, <1>2, <2>1, <2>2, <2>3
<1>3. CASE CreatePartition
  <2> DEFINE n == [media[target] EXCEPT !.table = "gpt", !.part = "luks_uuid"]
  <2>1. /\ target \in Disk /\ media[target] = EmptyMedia
        /\ media' = [media EXCEPT ![target] = n]
    BY <1>3 DEF CreatePartition, Writes, IInv, TargetOK
  <2>2. /\ n.part = "luks_uuid" /\ n.sig = media[target].sig
        /\ n.var = media[target].var
    BY <2>1, CreatePartitionOK, EmptyMediaOK
  <2>3. /\ EmptyMedia.var = Absent /\ EmptyMedia.sig = "none"
        /\ ~IsLuks(EmptyMedia) /\ ~IsLegacy(EmptyMedia)
    BY DEF EmptyMedia, IsLuks, IsLegacy
  <2> HIDE DEF n
  <2>4. ~IsLuks(n) /\ ~IsLegacy(n)
    BY <2>1, <2>2, <2>3 DEF IsLuks, IsLegacy
  <2> QED
    BY <1>1, <2>1, <2>2, <2>3, <2>4
<1>4. CASE LuksFormat
  <2> DEFINE n == LuksFormatted(media[target], entry)
  <2>1. /\ target \in Disk /\ media[target].part = "luks_uuid"
        /\ media[target].sig = "none" /\ media[target].var = Absent
        /\ media' = [media EXCEPT ![target] = n]
    BY <1>4 DEF LuksFormat, LuksFormatted, Writes, IInv, TargetOK
  <2>2. n.part = media[target].part /\ n.var = media[target].var
    BY <2>1, LuksFormatOK DEF IInv, TypeOK
  <2> HIDE DEF n
  <2>3. ~IsLuks(media[target]) /\ ~IsLegacy(media[target]) /\ ~IsLegacy(n)
    BY <2>1, <2>2 DEF IsLuks, IsLegacy
  <2> QED
    BY <1>1, <1>4, <2>1, <2>2, <2>3
<1>5. QED
  BY <1>2, <1>3, <1>4 DEF Format

(* Every other step leaves each /var and each volume's kind as they were.   *)
LEMMA QuietStep ==
  ASSUME IInv, Next, ~NewVar, ~Format
  PROVE  \A e \in Disk : SameKind(e) /\ SameVar(e)
<1>1. /\ pc \in BeforeFormat \cup OnLuks \cup {"format.part", "format.luks"}
           => target \in Disk
      /\ pc \in OnSource => source \in Disk
      /\ pc = "running" => rootvar \in Disk
  BY KnownVolumes
<1> USE <1>1, MarkWrite DEF BeforeFormat, EmptyLuks, OnLuks, OnSource, Writes
<1>2. CASE MkfsMapper      BY <1>2 DEF MkfsMapper
<1>3. CASE LabelLegacy     BY <1>3 DEF LabelLegacy
<1>4. CASE Mkfs            BY <1>4 DEF Mkfs
<1>5. CASE SnapshotSource  BY <1>5 DEF SnapshotSource
<1>6. CASE StartReceive    BY <1>6 DEF StartReceive
<1>7. CASE FinishReceive   BY <1>7 DEF FinishReceive
<1>8. CASE TidyNew         BY <1>8 DEF TidyNew
<1>9. CASE TidyOld         BY <1>9 DEF TidyOld
<1>10. CASE media' = media
  BY <1>10 DEF SameKind, SameVar
<1>11. CASE InspectSource
  BY <1>10, <1>11 DEF InspectSource, Goto
<1>12. QED
  <2>1. CASE Machine
    BY <2>1, <1>10
       DEF NewVar, Machine, PowerOn, PowerOff, MountVar, DiskAppears, Plug, Unplug
  <2>2. CASE Planning
    BY <2>2, <1>10 DEF Planning, Poll, ListVolumes, Decide, ProbeDisk
  <2>3. CASE Unlocking
    BY <2>3, <1>2, <1>10
       DEF NewVar, Unlocking, GrowPartition, AskUnlock, OpenVolume, ResizeMapping,
           ProbeMapper, CheckSubvol, ConfirmSubvol, ConfirmMkfs, Goto, Block, Confirm
  <2>4. CASE Formatting
    BY <2>4, <1>4, <1>10 DEF Format, Formatting, AskNew, AskRepeat, OpenNew
  <2>5. CASE Migrating
    BY <2>5, <1>11, <1>5, <1>6, <1>7, <1>8, <1>9, <1>10
       DEF NewVar, Migrating, CheckSize, CloseMapper, Goto, Block
  <2>6. CASE CommandFails
    BY <2>6, <1>10 DEF CommandFails, Goto
  <2>7. QED
    BY <2>1, <2>2, <2>3, <2>4, <2>5, <2>6, <1>3 DEF Next, Daemon

(* An operator takes back no agreement, and only the server writes data.    *)
LEMMA AgreementsGrow ==
  ASSUME Next, ~ServerWrites
  PROVE  /\ latest' = latest /\ encrypted' = encrypted
         /\ accepted \subseteq accepted'
  BY DEF Next, Machine, PowerOn, PowerOff, MountVar, DiskAppears, Plug, Unplug,
         Daemon, Planning, Poll, ListVolumes, Decide, ProbeDisk, Unlocking,
         GrowPartition, AskUnlock, OpenVolume, ResizeMapping, ProbeMapper,
         CheckSubvol, ConfirmSubvol, ConfirmMkfs, MkfsMapper, CreateVar,
         LabelLegacy, Formatting, AskNew, AskRepeat, ZapDisk, CreatePartition,
         LuksFormat, OpenNew, Mkfs, Migrating, InspectSource, CheckSize,
         SnapshotSource, StartReceive, FinishReceive, PromoteCopy, TidyNew,
         TidyOld, CloseMapper, CommandFails, Goto, Writes, Block, Confirm, ghosts

(* The volume with the encrypted data stays plugged.                        *)
LEMMA HomeStaysPlugged ==
  ASSUME IInv, HomeOK, Next, NEW d \in Disk, HasData(d)
  PROVE  d \in attached'
<1>1. d \in attached /\ media[d].var = latest /\ media[d].part # "var_guid"
  BY DEF HomeOK, HasData, IsLuks
<1>2. media[d].var # Absent
  BY DEF HasData, HoldsData, Absent
<1>3. \A e \in Disk : Unplug(e) => e # d
  BY <1>1, <1>2 DEF Unplug
<1>4. \/ attached' = attached
      \/ \E e \in Disk : Plug(e) \/ Unplug(e)
  BY DEF Next, Machine, PowerOn, PowerOff, MountVar, ServerWrites, DiskAppears,
         Daemon, Planning, Poll, ListVolumes, Decide, ProbeDisk, Unlocking,
         GrowPartition, AskUnlock, OpenVolume, ResizeMapping, ProbeMapper,
         CheckSubvol, ConfirmSubvol, ConfirmMkfs, MkfsMapper, CreateVar,
         LabelLegacy, Formatting, AskNew, AskRepeat, ZapDisk, CreatePartition,
         LuksFormat, OpenNew, Mkfs, Migrating, InspectSource, CheckSize,
         SnapshotSource, StartReceive, FinishReceive, PromoteCopy, TidyNew,
         TidyOld, CloseMapper, CommandFails, Goto, Writes, Block, Confirm
<1>5. QED
  BY <1>1, <1>3, <1>4 DEF Plug, Unplug

-----------------------------------------------------------------------------
(* The data's invariants, a step at a time.                                 *)

LEMMA OneLegacyStep == ASSUME IInv, OneLegacy, Next PROVE OneLegacy'
  BY StepKeepsLegacy DEF OneLegacy, IsLegacy

(* Where no /var changes.                                                   *)
LEMMA SameDataStep ==
  ASSUME IInv, DataOK, Next, ~NewVar PROVE DataOK'
<1>1. /\ latest' = latest /\ encrypted' = encrypted
      /\ accepted \subseteq accepted'
  BY AgreementsGrow DEF NewVar
<1>2. \A e \in Disk : SameVar(e)
  BY QuietStep, FormatWrite
<1>3. \A e \in Disk : HasData(e)' <=> HasData(e)
  <2>1. ASSUME NEW e \in Disk, HoldsData(media[e])
        PROVE  SameKind(e)
    BY <2>1, QuietStep, FormatWrite DEF HoldsData, Absent
  <2>2. ASSUME NEW e \in Disk
        PROVE  HoldsData(media'[e]) <=> HoldsData(media[e])
    BY <1>2 DEF SameVar, HoldsData
  <2>3. QED
    BY <2>1, <2>2 DEF HasData, SameKind, HoldsData, IsLuks
<1>4. \A e \in Disk : IsLegacy(media'[e]) => IsLegacy(media[e])
  BY StepKeepsLegacy
<1>5. VersionsOK' /\ FreshOK'
  BY <1>1, <1>2 DEF DataOK, VersionsOK, FreshOK, SameVar
<1>6. HomeOK'
  BY <1>1, <1>2, <1>3, HomeStaysPlugged DEF DataOK, HomeOK, SameVar
<1>7. StaleOK'
  BY <1>1, <1>2, <1>3, <1>4 DEF DataOK, StaleOK, SameVar, IsLegacy
<1>8. encrypted \subseteq Disk
  BY DEF IInv, TypeOK
<1>9. EncryptedOK'
  BY <1>1, <1>3, <1>8 DEF DataOK, EncryptedOK
<1>10. QED
  BY <1>5, <1>6, <1>7, <1>9, OneLegacyStep DEF DataOK

(* The server writes on the one volume it may run from.                     *)
LEMMA ServerWritesStep ==
  ASSUME IInv, DataOK, AloneOK, RunningHome, ServerWrites PROVE DataOK'
<1>1. /\ pc = "running" /\ rootvar \in Disk /\ latest' = latest + 1
      /\ media' = WithVar(rootvar, latest + 1)
      /\ accepted' = accepted \ {rootvar} /\ attached' = attached
      /\ encrypted' = IF media[rootvar].sig = "crypto_LUKS"
                      THEN encrypted \cup {rootvar} ELSE encrypted
      /\ latest \in Nat /\ encrypted \subseteq Disk
  BY ManagerAssumption, DisksAssumption
     DEF ServerWrites, WithVar, IInv, TypeOK, RunningOK, Absent
<1>2. /\ \A e \in Disk : SameKind(e)
      /\ \A e \in Disk : media'[e].var = IF e = rootvar THEN latest + 1 ELSE media[e].var
  BY <1>1, VarWrite
<1>3. HoldsData(media'[rootvar]) /\ media'[rootvar].var = latest'
  BY <1>1, <1>2 DEF HoldsData
<1>4. \A e \in Disk : e # rootvar => (HasData(e)' <=> HasData(e))
  BY <1>2 DEF HasData, HoldsData, SameKind, IsLuks
<1>5. ASSUME rootvar = target, IsLuks(media[target])
      PROVE  HomeOK' /\ StaleOK' /\ EncryptedOK'
  <2>1. target \in attached /\ \E d \in Disk : d = rootvar /\ HasData(d)'
    <3>1. target \in attached
      BY <1>1, <1>5, DisksAssumption DEF AloneOK, Idle
    <3>2. IsLuks(media'[rootvar])
      BY <1>1, <1>2, <1>5 DEF SameKind
    <3>3. QED
      BY <1>1, <1>3, <3>1, <3>2 DEF HasData
  <2>2. \A e \in Disk : HasData(e) => e = rootvar
    BY <1>1, <1>5 DEF DataOK, HomeOK, AloneOK, Idle, HasData
  <2>3. HomeOK'
    BY <1>1, <1>3, <1>4, <1>5, <2>1, <2>2 DEF HomeOK
  <2>4. StaleOK'
    BY <1>1, <2>1 DEF StaleOK
  <2>5. EncryptedOK'
    BY <1>1, <1>4, <2>1 DEF DataOK, EncryptedOK
  <2>6. QED
    BY <2>3, <2>4, <2>5
<1>6. ASSUME target = NoDisk, IsLegacy(media[rootvar])
      PROVE  HomeOK' /\ StaleOK' /\ EncryptedOK'
  <2>1. ~IsLuks(media[rootvar]) /\ media[rootvar].sig = "btrfs"
    BY <1>6 DEF IsLegacy, IsLuks
  <2>2. \A e \in Disk : ~HasData(e)
    BY <1>1, <1>6, DisksAssumption DEF DataOK, HomeOK, AloneOK, Idle, HasData
  <2>3. \A e \in Disk : ~HasData(e)'
    BY <1>1, <1>2, <1>4, <2>1, <2>2 DEF HasData, SameKind, IsLuks, HoldsData
  <2>4. HomeOK'
    BY <2>3 DEF HomeOK
  <2>5. \A e \in Disk : IsLegacy(media'[e]) => e = rootvar
    BY <1>1, <1>2, <1>6 DEF DataOK, OneLegacy, SameKind
  <2>6. StaleOK'
    BY <1>3, <2>5 DEF StaleOK, IsLegacy
  <2>7. encrypted' = encrypted
    BY <1>1, <2>1
  <2>8. EncryptedOK'
    BY <1>1, <2>2, <2>3, <2>7 DEF DataOK, EncryptedOK
  <2>9. QED
    BY <2>4, <2>6, <2>8
<1>7. VersionsOK' /\ FreshOK'
  BY <1>1, <1>2 DEF DataOK, VersionsOK, FreshOK, Incomplete, Fresh
<1>8. HomeOK' /\ StaleOK' /\ EncryptedOK'
  BY <1>1, <1>5, <1>6 DEF RunningHome
<1>9. OneLegacy'
  BY <1>2 DEF DataOK, OneLegacy, SameKind, IsLegacy
<1>10. QED
  BY <1>7, <1>8, <1>9 DEF DataOK

(* An empty /var is where it was agreed to.                                 *)
LEMMA CreateVarStep ==
  ASSUME IInv, DataOK, AgreedOK, CreateVar PROVE DataOK'
<1>1. /\ pc = "create.var" /\ target \in Disk /\ media[target].var = Absent
      /\ media' = WithVar(target, Fresh)
      /\ UNCHANGED <<attached, latest, accepted, encrypted>>
      /\ encrypted \subseteq Disk /\ target \in accepted
  BY DEF CreateVar, Writes, WithVar, ghosts, IInv, TypeOK, TargetOK, OnLuks,
         AgreedOK
<1>2. /\ \A e \in Disk : SameKind(e)
      /\ \A e \in Disk : media'[e].var = IF e = target THEN Fresh ELSE media[e].var
  BY <1>1, VarWrite
<1>3. \A e \in Disk : HasData(e)' <=> HasData(e)
  <2>1. ~HoldsData(media[target]) /\ ~HoldsData(media'[target])
    BY <1>1, <1>2 DEF HoldsData, Absent, Fresh
  <2>2. QED
    BY <1>2, <2>1 DEF HasData, SameKind, HoldsData, IsLuks
<1>4. VersionsOK' /\ FreshOK' /\ OneLegacy'
  BY <1>1, <1>2
     DEF DataOK, VersionsOK, FreshOK, OneLegacy, SameKind, IsLegacy, Fresh, Incomplete
<1>5. HomeOK'
  <2>1. \A e \in Disk : HasData(e) => e # target
    BY <1>1 DEF HasData, HoldsData, Absent
  <2>2. QED
    BY <1>1, <1>2, <1>3, <2>1 DEF DataOK, HomeOK
<1>6. StaleOK'
  <2>1. \A e \in Disk : IsLegacy(media'[e]) => e # target
    BY <1>1, <1>2
       DEF SameKind, IInv, TargetOK, OnLuks, IsLuks, IsLegacy
  <2>2. QED
    BY <1>1, <1>2, <1>3, <2>1 DEF DataOK, StaleOK, SameKind, IsLegacy
<1>7. EncryptedOK'
  BY <1>1, <1>3 DEF DataOK, EncryptedOK
<1>8. QED
  BY <1>4, <1>5, <1>6, <1>7 DEF DataOK

(* The source of a migration holds the latest data: an older one would have *)
(* met an encrypted volume with data, which is plugged and not the target.  *)
LEMMA SourceIsLatest ==
  ASSUME IInv, CopyOK, DataOK, LegacyHolds, AloneOK, pc = "migrate.promote"
  PROVE  /\ media[target].src = latest /\ latest >= 1
         /\ \A e \in Disk : ~HasData(e)
<1>1. /\ target \in Disk /\ source \in Disk /\ IsLegacy(media[source])
      /\ media[target].src = media[source].var /\ media[target].var = Absent
  BY DEF CopyOK, Copying, Tidying, IInv, TargetOK, EmptyLuks
<1>2. ~HasData(target)
  BY <1>1 DEF HasData, HoldsData, Absent
<1>3. \A e \in Disk : ~HasData(e)
  BY <1>2 DEF DataOK, HomeOK, AloneOK, Idle, HasData
<1>4. media[source].var = latest
  BY <1>1, <1>3 DEF DataOK, StaleOK
<1>5. media[source].var >= 1
  BY <1>1 DEF LegacyHolds, HoldsData
<1>6. QED
  BY <1>1, <1>3, <1>4, <1>5

LEMMA PromoteCopyStep ==
  ASSUME IInv, CopyOK, DataOK, LegacyHolds, AloneOK, PromoteCopy PROVE DataOK'
<1> DEFINE v == media[target].src
<1>1. /\ pc = "migrate.promote" /\ target \in Disk /\ IsLuks(media[target])
      /\ media' = WithVar(target, v)
      /\ UNCHANGED <<attached, latest, accepted, encrypted>>
      /\ encrypted \subseteq Disk
  BY DEF PromoteCopy, Writes, WithVar, ghosts, IInv, TypeOK, TargetOK, OnLuks,
         EmptyLuks
<1>2. v = latest /\ latest >= 1 /\ \A e \in Disk : ~HasData(e)
  BY <1>1, SourceIsLatest
<1> HIDE DEF v
<1>3. /\ \A e \in Disk : SameKind(e)
      /\ \A e \in Disk : media'[e].var = IF e = target THEN v ELSE media[e].var
  BY <1>1, VarWrite
<1>4. /\ \E d \in Disk : d = target /\ HasData(d)'
      /\ media'[target].var = latest'
  <2>1. media'[target].var = latest /\ IsLuks(media'[target])
    BY <1>1, <1>2, <1>3 DEF SameKind
  <2>2. QED
    BY <1>1, <1>2, <2>1 DEF HasData, HoldsData
<1>5. target' = target /\ target \in attached
  BY <1>1, DisksAssumption DEF PromoteCopy, Writes, boot, AloneOK, Idle
<1>6. \A e \in Disk : HasData(e)' => e = target
  BY <1>2, <1>3 DEF HasData, HoldsData, SameKind, IsLuks
<1>7. HomeOK'
  BY <1>1, <1>4, <1>5, <1>6 DEF HomeOK
<1>8. StaleOK'
  BY <1>1, <1>4, <1>5 DEF StaleOK
<1>9. EncryptedOK'
  BY <1>1, <1>2 DEF DataOK, EncryptedOK
<1>10. VersionsOK' /\ FreshOK' /\ OneLegacy'
  BY <1>1, <1>2, <1>3
     DEF DataOK, VersionsOK, FreshOK, OneLegacy, SameKind, IsLegacy, Fresh, Incomplete
<1>11. QED
  BY <1>7, <1>8, <1>9, <1>10 DEF DataOK

-----------------------------------------------------------------------------
(* The boot's invariants, a step at a time.                                 *)

LEMMA KindsStep ==
  ASSUME IInv, Next, NEW d \in Disk
  PROVE  /\ IsLegacy(media'[d]) <=> IsLegacy(media[d])
         /\ IsLuks(media[d]) => IsLuks(media'[d])
         /\ IsLuks(media'[d]) => IsLuks(media[d]) \/ (LuksFormat /\ d = target)
<1>1. CASE ServerWrites
  <2>1. /\ rootvar \in Disk
        /\ media' = WithVar(rootvar, latest + 1)
    BY <1>1 DEF ServerWrites, WithVar, IInv, RunningOK
  <2>2. QED
    BY <2>1, VarWrite DEF SameKind
<1>2. CASE CreateVar
  <2>1. /\ target \in Disk
        /\ media' = WithVar(target, Fresh)
    BY <1>2 DEF CreateVar, Writes, WithVar, IInv, TargetOK, OnLuks
  <2>2. QED
    BY <2>1, VarWrite DEF SameKind
<1>3. CASE PromoteCopy
  <2> DEFINE v == media[target].src
  <2>1. /\ target \in Disk
        /\ media' = WithVar(target, v)
    BY <1>3 DEF PromoteCopy, Writes, WithVar, IInv, TargetOK, OnLuks, EmptyLuks
  <2> HIDE DEF v
  <2>2. QED
    BY <2>1, VarWrite DEF SameKind
<1>4. CASE Format
  BY <1>4, FormatWrite DEF SameKind
<1>5. CASE ~NewVar /\ ~Format
  BY <1>5, QuietStep DEF SameKind
<1>6. QED
  BY <1>1, <1>2, <1>3, <1>4, <1>5 DEF NewVar

LEMMA FirstStepOK ==
  FirstStep(plan(class)) \in {"unlock.grow", "migrate.inspect", "legacy.label",
                              "ask.new", "blocked", "failed"}
  BY PlanOK DEF FirstStep, PlanKind

LEMMA VisibleStep ==
  ASSUME VisibleOK, Next PROVE VisibleOK'
<1>1. CASE Machine
  BY <1>1 DEF VisibleOK, Machine, PowerOn, PowerOff, MountVar, ServerWrites,
              DiskAppears, Plug, Unplug, boot
<1>2. CASE CommandFails \/ LabelLegacy \/ Planning
  BY <1>2, FirstStepOK DEF VisibleOK, CommandFails, Commands, Goto, LabelLegacy, Writes, Planning,
              Poll, ListVolumes, Decide, ProbeDisk, boot
<1>3. CASE Unlocking
  BY <1>3 DEF VisibleOK, Unlocking, GrowPartition, AskUnlock, OpenVolume,
       ResizeMapping, ProbeMapper, CheckSubvol, ConfirmSubvol, ConfirmMkfs,
       MkfsMapper, CreateVar, Goto, Block, Confirm, Writes, boot
<1>4. CASE Formatting
  BY <1>4 DEF VisibleOK, Formatting, AskNew, AskRepeat, ZapDisk, CreatePartition,
       LuksFormat, OpenNew, Mkfs, Writes, boot
<1>5. CASE Migrating
  BY <1>5 DEF VisibleOK, Migrating, InspectSource, CheckSize, SnapshotSource,
       StartReceive, FinishReceive, PromoteCopy, TidyNew, TidyOld, CloseMapper,
       Goto, Block, Writes, boot
<1>6. QED
  BY <1>1, <1>2, <1>3, <1>4, <1>5 DEF Next, Daemon

LEMMA MapperStep ==
  ASSUME MapperOK, Next PROVE MapperOK'
<1> USE DEF MapperOK, boot
<1>1. CASE Machine
  BY <1>1 DEF Machine, PowerOn, PowerOff, MountVar, ServerWrites,
              DiskAppears, Plug, Unplug
<1>2. CASE CommandFails \/ LabelLegacy \/ Planning
  BY <1>2, FirstStepOK DEF CommandFails, Commands, Goto, LabelLegacy, Writes, Planning,
              Poll, ListVolumes, Decide, ProbeDisk
<1>3. CASE Unlocking
  BY <1>3 DEF Unlocking, GrowPartition, AskUnlock, OpenVolume,
       ResizeMapping, ProbeMapper, CheckSubvol, ConfirmSubvol, ConfirmMkfs,
       MkfsMapper, CreateVar, Goto, Block, Confirm, Writes
<1>4. CASE Formatting
  BY <1>4 DEF Formatting, AskNew, AskRepeat, ZapDisk, CreatePartition,
       LuksFormat, OpenNew, Mkfs, Writes
<1>5. CASE Migrating
  BY <1>5 DEF Migrating, InspectSource, CheckSize, SnapshotSource,
       StartReceive, FinishReceive, PromoteCopy, TidyNew, TidyOld, CloseMapper,
       Goto, Block, Writes
<1>6. QED
  BY <1>1, <1>2, <1>3, <1>4, <1>5 DEF Next, Daemon

(* Every agreement is recorded before the command that relies on it.        *)
LEMMA AgreedStep ==
  ASSUME IInv, AgreedOK, Next PROVE AgreedOK'
<1> USE DEF AgreedOK, boot, ghosts
<1>1. CASE Machine
  BY <1>1 DEF Machine, PowerOn, PowerOff, MountVar, ServerWrites,
              DiskAppears, Plug, Unplug
<1>2. CASE CommandFails \/ LabelLegacy \/ Planning
  BY <1>2, FirstStepOK DEF CommandFails, Commands, Goto, LabelLegacy, Writes, Planning,
              Poll, ListVolumes, Decide, ProbeDisk
<1>3. CASE Unlocking
  BY <1>3 DEF Unlocking, GrowPartition, AskUnlock, OpenVolume,
       ResizeMapping, ProbeMapper, CheckSubvol, ConfirmSubvol, ConfirmMkfs,
       MkfsMapper, CreateVar, Goto, Block, Confirm, Writes
<1>4. CASE Formatting
  BY <1>4 DEF Formatting, AskNew, AskRepeat, ZapDisk, CreatePartition,
       LuksFormat, OpenNew, Mkfs, Writes
<1>5. CASE Migrating
  BY <1>5 DEF Migrating, InspectSource, CheckSize, SnapshotSource,
       StartReceive, FinishReceive, PromoteCopy, TidyNew, TidyOld, CloseMapper,
       Goto, Block, Writes
<1>6. QED
  BY <1>1, <1>2, <1>3, <1>4, <1>5 DEF Next, Daemon

LEMMA SeenStep ==
  ASSUME IInv, VisibleOK, SeenOK, Next
  PROVE  SeenOK'
<1>1. CASE ListVolumes
  BY <1>1 DEF ListVolumes, VisibleOK, SeenOK
<1>2. ASSUME NEW d \in Disk, ProbeDisk(d) PROVE SeenOK'
  <2>1. /\ pc = "classify" /\ class[d] = "unprobed" /\ UNCHANGED <<pc, attached>>
        /\ \A e \in Disk : e # d => class'[e] = class[e]
    BY <1>2 DEF ProbeDisk, IInv, TypeOK
  <2>2. QED
    BY <2>1 DEF SeenOK
<1>3. CASE pc' # "classify"
  BY <1>3 DEF SeenOK
<1>4. CASE UNCHANGED <<pc, attached, class>>
  BY <1>4 DEF SeenOK
<1>5. pc' = "classify" => \/ UNCHANGED <<pc, attached, class>>
                          \/ ListVolumes
                          \/ \E d \in Disk : ProbeDisk(d)
  <2> USE DEF boot
  <2>1. CASE Machine
    BY <2>1 DEF Machine, PowerOn, PowerOff, MountVar, ServerWrites,
                DiskAppears, Plug, Unplug
  <2>2. CASE CommandFails \/ LabelLegacy \/ Planning
    BY <2>2, FirstStepOK DEF CommandFails, Commands, Goto, LabelLegacy, Writes,
                Planning, Poll, Decide
  <2>3. CASE Unlocking
    BY <2>3 DEF Unlocking, GrowPartition, AskUnlock, OpenVolume,
         ResizeMapping, ProbeMapper, CheckSubvol, ConfirmSubvol, ConfirmMkfs,
         MkfsMapper, CreateVar, Goto, Block, Confirm, Writes
  <2>4. CASE Formatting
    BY <2>4 DEF Formatting, AskNew, AskRepeat, ZapDisk, CreatePartition,
         LuksFormat, OpenNew, Mkfs, Writes
  <2>5. CASE Migrating
    BY <2>5 DEF Migrating, InspectSource, CheckSize, SnapshotSource,
         StartReceive, FinishReceive, PromoteCopy, TidyNew, TidyOld, CloseMapper,
         Goto, Block, Writes
  <2>6. QED
    BY <2>1, <2>2, <2>3, <2>4, <2>5 DEF Next, Daemon
<1>6. QED
  BY <1>1, <1>2, <1>3, <1>4, <1>5

(* What a plan missed stays missed, and only plans miss anything.           *)
LEMMA MissedStep == ASSUME Next, ~missed' PROVE ~missed
<1> USE DEF boot, ghosts
<1>1. CASE Decide
  BY <1>1, Zenon DEF Decide
<1>2. CASE Machine
  BY <1>2 DEF Machine, PowerOn, PowerOff, MountVar, ServerWrites,
              DiskAppears, Plug, Unplug
<1>3. CASE CommandFails \/ LabelLegacy \/ (Planning /\ ~Decide)
  BY <1>3 DEF CommandFails, Goto, LabelLegacy, Writes, Planning, Poll,
              ListVolumes, ProbeDisk
<1>4. CASE Unlocking
  BY <1>4 DEF Unlocking, GrowPartition, AskUnlock, OpenVolume,
       ResizeMapping, ProbeMapper, CheckSubvol, ConfirmSubvol, ConfirmMkfs,
       MkfsMapper, CreateVar, Goto, Block, Confirm, Writes
<1>5. CASE Formatting
  BY <1>5 DEF Formatting, AskNew, AskRepeat, ZapDisk, CreatePartition,
       LuksFormat, OpenNew, Mkfs, Writes
<1>6. CASE Migrating
  BY <1>6 DEF Migrating, InspectSource, CheckSize, SnapshotSource,
       StartReceive, FinishReceive, PromoteCopy, TidyNew, TidyOld, CloseMapper,
       Goto, Block, Writes
<1>7. QED
  BY <1>1, <1>2, <1>3, <1>4, <1>5, <1>6 DEF Next, Daemon

(* A plan that goes on without missing a volume saw what each of them is.   *)
LEMMA NothingMissed ==
  ASSUME Decide, ~missed', pc' \notin Idle
  PROVE  \A d \in attached : Recognised(media[d], class[d])
<1>1. FirstStep(plan(class)) \notin {"blocked", "failed"}
  BY DEF Decide, Idle
<1>2. Overlooked = {}
  BY <1>1, Zenon DEF Decide
<1>3. QED
  BY <1>2 DEF Overlooked

(* A plan is made for one volume of each class it uses, and for no LUKS     *)
(* volume but the one it unlocks.                                           *)
LEMMA PlanAlone ==
  ASSUME NEW c, plan(c) \in {"Unlock", "Migrate", "BootLegacy", "Provision"}
  PROVE  /\ \A d, e \in OfClass(c, "Luks") : d = e
         /\ plan(c) # "Unlock" => OfClass(c, "Luks") = {}
         /\ plan(c) \in {"Unlock", "Provision"} => OfClass(c, "Legacy") = {}
<1>1. Duplicated(c) = {}
  BY DEF plan
<1>2. \A d, e \in OfClass(c, "Luks") : d = e
  BY <1>1 DEF Duplicated
<1>3. QED
  BY <1>1, <1>2 DEF plan

LEMMA DecideAlone ==
  ASSUME IInv, MapperOK, SeenOK, Decide, ~missed' PROVE AloneOK'
<1>0. SUFFICES ASSUME pc' \notin Idle PROVE AloneOK'
  BY DEF AloneOK
<1> DEFINE p == plan(class)
<1>1. /\ pc = "classify" /\ pc' = FirstStep(p)
      /\ target' = Target(p) /\ source' = Source(p)
      /\ UNCHANGED <<attached, media, mapper>>
      /\ \A d \in Disk : class[d] # "unprobed"
      /\ DOMAIN class = Disk /\ attached \subseteq Disk
  BY DEF Decide, IInv, TypeOK, ghosts
<1>2. /\ pc' = "unlock.grow" => p = "Unlock"
      /\ pc' = "migrate.inspect" => p = "Migrate"
      /\ pc' = "legacy.label" => p = "BootLegacy"
      /\ pc' = "ask.new" => p = "Provision"
      /\ pc' \in {"unlock.grow", "migrate.inspect", "legacy.label", "ask.new",
                  "blocked", "failed"}
  BY <1>1, PlanOK DEF FirstStep, PlanKind
<1>3. /\ p = "Unlock" => OfClass(class, "Luks") # {}
      /\ p \in {"Migrate", "Provision"} => OfClass(class, "Blank") # {}
      /\ p \in {"Migrate", "BootLegacy"} => OfClass(class, "Legacy") # {}
  BY PlanOK
<1>4. \A d \in attached : /\ IsLuks(media[d])   => d \in OfClass(class, "Luks")
                          /\ IsLegacy(media[d]) => d \in OfClass(class, "Legacy")
  BY <1>0, <1>1, NothingMissed DEF Recognised, OfClass
<1>5. \A c \in {"Luks", "Legacy", "Blank"} :
        OfClass(class, c) # {} => /\ TheDisk(class, c) \in OfClass(class, c)
                                  /\ TheDisk(class, c) \in attached
  <2>1. \A c \in {"Luks", "Legacy", "Blank"} : OfClass(class, c) \subseteq attached
    BY <1>1 DEF SeenOK, OfClass
  <2>2. QED
    BY <2>1 DEF TheDisk
<1>6. mapper' = NoDisk
  BY <1>1 DEF MapperOK
<1> HIDE DEF p
<1>7. CASE p = "Unlock"
  <2>1. target' = TheDisk(class, "Luks") /\ source' = NoDisk
    BY <1>1, <1>7 DEF Target, Source
  <2>2. /\ target' \in attached /\ target' \in OfClass(class, "Luks")
        /\ \A d, e \in OfClass(class, "Luks") : d = e
        /\ OfClass(class, "Legacy") = {}
    BY <1>3, <1>5, <1>7, <2>1, PlanAlone DEF p
  <2>3. /\ \A d \in attached' : IsLuks(media'[d]) => d = target'
        /\ \A d \in attached' : ~IsLegacy(media'[d])
    BY <1>1, <1>4, <2>2
  <2>4. pc' = "unlock.grow"
    BY <1>1, <1>7 DEF FirstStep
  <2>5. QED
    BY <1>1, <1>6, <2>1, <2>2, <2>3, <2>4 DEF AloneOK
<1>8. CASE p \in {"Migrate", "BootLegacy", "Provision"}
  <2>1. OfClass(class, "Luks") = {}
    BY <1>8, PlanAlone DEF p
  <2>2. \A d \in attached' : ~IsLuks(media'[d])
    BY <1>1, <1>4, <2>1
  <2>3. target' # NoDisk => target' \in attached'
    BY <1>1, <1>3, <1>5, <1>8 DEF Target
  <2>4. target' # NoDisk /\ source' = NoDisk =>
          \A d \in attached' : ~IsLegacy(media'[d])
    <3>1. CASE p = "Provision"
      BY <1>1, <1>4, <3>1, PlanAlone DEF p
    <3>2. CASE p = "Migrate"
      <4>1. source' \in attached
        BY <1>1, <1>3, <1>5, <3>2 DEF Source
      <4>2. source' # NoDisk
        BY <1>1, <4>1, DisksAssumption
      <4>3. QED
        BY <4>2
    <3>3. CASE p = "BootLegacy"
      BY <1>1, <3>3 DEF Target
    <3>4. QED
      BY <1>8, <3>1, <3>2, <3>3
  <2>5. pc' \in {"migrate.inspect", "legacy.label", "ask.new"}
    BY <1>1, <1>8 DEF FirstStep
  <2>6. pc' = "legacy.label" => target' = NoDisk
    BY <1>1, <1>2 DEF Target
  <2>7. QED
    BY <1>6, <2>2, <2>3, <2>4, <2>5, <2>6 DEF AloneOK, OnUnlock
<1>9. CASE p \notin {"Unlock", "Migrate", "BootLegacy", "Provision"}
  BY <1>2, <1>9 DEF AloneOK, Idle
<1>10. QED
  BY <1>7, <1>8, <1>9

(* The commands of a plan keep to its volumes.                              *)
LEMMA StayAlone ==
  ASSUME Next, ~Decide, pc' \notin Idle
  PROVE  /\ pc \notin Idle /\ UNCHANGED <<attached, target, source>>
         /\ mapper' \in {mapper, target}
         /\ pc' \in OnUnlock => pc \in OnUnlock \/ source = NoDisk
         /\ pc' = "legacy.label" => pc = "legacy.label"
         /\ pc' \in {"released", "running"} =>
              pc \in {"released", "running", "legacy.label"} \cup OnUnlock
<1> USE DEF Idle, OnUnlock, boot
<1>1. CASE Machine
  BY <1>1 DEF Machine, PowerOn, PowerOff, MountVar, ServerWrites,
              DiskAppears, Plug, Unplug
<1>2. CASE CommandFails \/ LabelLegacy \/ Planning
  BY <1>2 DEF CommandFails, Commands, Goto, LabelLegacy, Writes,
              Planning, Poll, ListVolumes, ProbeDisk
<1>3. CASE Unlocking
  BY <1>3 DEF Unlocking, GrowPartition, AskUnlock, OpenVolume,
       ResizeMapping, ProbeMapper, CheckSubvol, ConfirmSubvol, ConfirmMkfs,
       MkfsMapper, CreateVar, Goto, Block, Confirm, Writes
<1>4. CASE Formatting
  BY <1>4 DEF Formatting, AskNew, AskRepeat, ZapDisk, CreatePartition,
       LuksFormat, OpenNew, Mkfs, Writes
<1>5. CASE Migrating
  BY <1>5 DEF Migrating, InspectSource, CheckSize, SnapshotSource,
       StartReceive, FinishReceive, PromoteCopy, TidyNew, TidyOld, CloseMapper,
       Goto, Block, Writes
<1>6. QED
  BY <1>1, <1>2, <1>3, <1>4, <1>5 DEF Next, Daemon

LEMMA AloneStep ==
  ASSUME IInv, BootOK, AloneOK, Next, ~missed' PROVE AloneOK'
<1>1. CASE Decide
  BY <1>1, DecideAlone DEF BootOK
<1>2. CASE pc' \in Idle
  BY <1>2 DEF AloneOK
<1>3. CASE ~Decide /\ pc' \notin Idle
  <2>1. /\ pc \notin Idle /\ UNCHANGED <<attached, target, source>>
        /\ mapper' \in {mapper, target}
        /\ pc' \in OnUnlock => pc \in OnUnlock \/ source = NoDisk
        /\ pc' = "legacy.label" => pc = "legacy.label"
        /\ pc' \in {"released", "running"} =>
             pc \in {"released", "running", "legacy.label"} \cup OnUnlock
    BY <1>3, StayAlone
  <2>2. attached \subseteq Disk /\ target \in Disk \cup {NoDisk}
    BY DEF IInv, TypeOK
  <2>3. \A d \in attached : IsLuks(media'[d]) => IsLuks(media[d]) \/ d = target
    BY <2>2, KindsStep
  <2>4. \A d \in attached : IsLegacy(media'[d]) <=> IsLegacy(media[d])
    BY <2>2, KindsStep
  <2>5. target \in Disk /\ IsLuks(media[target]) => IsLuks(media'[target])
    BY KindsStep
  <2>6. pc \in OnUnlock => target \in Disk /\ IsLuks(media[target])
    BY DEF IInv, TargetOK, OnUnlock, OnLuks
  <2>7. AloneOK
    OBVIOUS
  <2>8. /\ \A d \in attached' : IsLuks(media'[d]) => d = target'
        /\ target' # NoDisk => target' \in attached'
        /\ target' # NoDisk /\ source' = NoDisk =>
             \A d \in attached' : ~IsLegacy(media'[d])
        /\ mapper' \in {NoDisk, target'}
        /\ pc' \in OnUnlock => source' = NoDisk
        /\ pc' = "legacy.label" => target' = NoDisk
    BY <2>1, <2>3, <2>4, <2>7 DEF AloneOK
  <2>9. pc' \in {"released", "running"} =>
          \/ target' = NoDisk
          \/ source' = NoDisk /\ target' # NoDisk /\ IsLuks(media'[target'])
    <3>1. CASE pc \in OnUnlock
      BY <2>1, <2>5, <2>6, <2>7, <3>1, DisksAssumption DEF AloneOK
    <3>2. CASE pc = "legacy.label"
      BY <2>1, <2>7, <3>2 DEF AloneOK
    <3>3. CASE pc \in {"released", "running"}
      BY <2>1, <2>2, <2>5, <2>7, <3>3 DEF AloneOK
    <3>4. QED
      BY <2>1, <3>1, <3>2, <3>3
  <2>10. QED
    BY <2>8, <2>9 DEF AloneOK
<1>4. QED
  BY <1>1, <1>2, <1>3

(* The mount finds the plan's own volume: the label of any other filesystem *)
(* with a /var would be a volume the plan has excluded.                     *)
LEMMA MountHome ==
  ASSUME IInv, VisibleOK, AloneOK, pc = "released",
         NEW d \in Labelled, media[d].var # Absent
  PROVE  \/ d = target /\ IsLuks(media[target])
         \/ target = NoDisk /\ IsLegacy(media[d])
<1>1. /\ d \in Disk /\ (IsLegacy(media[d]) \/ IsLuks(media[d]))
      /\ (d \in visible /\ media[d].sig = "btrfs") \/ d = mapper
      /\ visible \subseteq attached /\ mapper \in {NoDisk, target}
      /\ \/ target = NoDisk
         \/ source = NoDisk /\ target # NoDisk /\ IsLuks(media[target])
      /\ target # NoDisk /\ source = NoDisk =>
             \A e \in attached : ~IsLegacy(media[e])
  BY DEF Labelled, IInv, MediaOK, VisibleOK, AloneOK, Idle
<1>2. CASE d = mapper
  BY <1>1, <1>2, DisksAssumption
<1>3. CASE d \in visible /\ media[d].sig = "btrfs"
  <2>1. IsLegacy(media[d])
    BY <1>1, <1>3 DEF IsLuks
  <2>2. target = NoDisk
    BY <1>1, <1>3, <2>1
  <2>3. QED
    BY <2>1, <2>2
<1>4. QED
  BY <1>1, <1>2, <1>3

LEMMA RunningStep ==
  ASSUME IInv, VisibleOK, PlanOnAll, Next PROVE RunningHome'
<1>1. CASE MountVar
  <2>1. CASE pc' # "running"
    BY <2>1 DEF RunningHome
  <2>2. CASE pc' = "running"
    <3>1. PICK d \in Labelled : media[d].var # Absent /\ rootvar' = d
      BY <1>1, <2>2 DEF MountVar
    <3>2. pc = "released" /\ UNCHANGED <<target, media>> /\ d \in Disk
      BY <1>1 DEF MountVar, Labelled
    <3>3. \/ d = target /\ IsLuks(media[target])
          \/ target = NoDisk /\ IsLegacy(media[d])
      BY <3>1, <3>2, MountHome DEF PlanOnAll
    <3>4. d # NoDisk
      BY <3>2, DisksAssumption
    <3>5. QED
      BY <3>1, <3>2, <3>3, <3>4 DEF RunningHome, IsLegacy, IsLuks
  <2>3. QED
    BY <2>1, <2>2
<1>2. CASE pc' # "running"
  BY <1>2 DEF RunningHome
<1>3. CASE pc = "running" /\ pc' = "running"
  <2>1. UNCHANGED <<target, rootvar>>
    <3>1. pc \notin Commands
      BY <1>3 DEF Commands
    <3>2. QED
      BY <1>3, <3>1 DEF Next, Machine, PowerOn, PowerOff, MountVar, ServerWrites,
         DiskAppears, Plug, Unplug, boot, Daemon, Planning, Poll, ListVolumes,
         Decide, ProbeDisk, Unlocking, GrowPartition, AskUnlock, OpenVolume,
         ResizeMapping, ProbeMapper, CheckSubvol, ConfirmSubvol, ConfirmMkfs,
         MkfsMapper, CreateVar, LabelLegacy, Formatting, AskNew, AskRepeat,
         ZapDisk, CreatePartition, LuksFormat, OpenNew, Mkfs, Migrating,
         InspectSource, CheckSize, SnapshotSource, StartReceive, FinishReceive,
         PromoteCopy, TidyNew, TidyOld, CloseMapper, CommandFails, Goto, Writes,
         Block, Confirm
  <2>2. rootvar \in Disk
    BY <1>3 DEF IInv, RunningOK
  <2>3. /\ IsLuks(media[rootvar]) => IsLuks(media'[rootvar])
        /\ IsLegacy(media[rootvar]) => IsLegacy(media'[rootvar])
    BY <2>2, KindsStep
  <2>4. QED
    BY <1>3, <2>1, <2>3 DEF PlanOnAll, RunningHome
<1>4. pc' = "running" => pc = "running" \/ MountVar
  <2> USE DEF boot
  <2>1. CASE Machine
    BY <2>1 DEF Machine, PowerOn, PowerOff, ServerWrites, DiskAppears, Plug, Unplug
  <2>2. CASE CommandFails \/ LabelLegacy \/ Planning
    BY <2>2, FirstStepOK DEF CommandFails, Goto, LabelLegacy, Writes,
                Planning, Poll, ListVolumes, Decide, ProbeDisk
  <2>3. CASE Unlocking
    BY <2>3 DEF Unlocking, GrowPartition, AskUnlock, OpenVolume,
         ResizeMapping, ProbeMapper, CheckSubvol, ConfirmSubvol, ConfirmMkfs,
         MkfsMapper, CreateVar, Goto, Block, Confirm, Writes
  <2>4. CASE Formatting
    BY <2>4 DEF Formatting, AskNew, AskRepeat, ZapDisk, CreatePartition,
         LuksFormat, OpenNew, Mkfs, Writes
  <2>5. CASE Migrating
    BY <2>5 DEF Migrating, InspectSource, CheckSize, SnapshotSource,
         StartReceive, FinishReceive, PromoteCopy, TidyNew, TidyOld, CloseMapper,
         Goto, Block, Writes
  <2>6. QED
    BY <2>1, <2>2, <2>3, <2>4, <2>5 DEF Next, Daemon
<1>5. QED
  BY <1>1, <1>2, <1>3, <1>4

LEMMA RootStep == ASSUME RootOK, Next PROVE RootOK'
<1> USE DEF RootOK, boot
<1>1. CASE Machine
  BY <1>1 DEF Machine, PowerOn, PowerOff, MountVar, ServerWrites,
              DiskAppears, Plug, Unplug
<1>2. CASE CommandFails \/ LabelLegacy \/ Planning
  BY <1>2 DEF CommandFails, Commands, Goto, LabelLegacy, Writes, Planning,
              Poll, ListVolumes, Decide, ProbeDisk
<1>3. CASE Unlocking
  BY <1>3 DEF Unlocking, GrowPartition, AskUnlock, OpenVolume,
       ResizeMapping, ProbeMapper, CheckSubvol, ConfirmSubvol, ConfirmMkfs,
       MkfsMapper, CreateVar, Goto, Block, Confirm, Writes
<1>4. CASE Formatting
  BY <1>4 DEF Formatting, AskNew, AskRepeat, ZapDisk, CreatePartition,
       LuksFormat, OpenNew, Mkfs, Writes
<1>5. CASE Migrating
  BY <1>5 DEF Migrating, InspectSource, CheckSize, SnapshotSource,
       StartReceive, FinishReceive, PromoteCopy, TidyNew, TidyOld, CloseMapper,
       Goto, Block, Writes
<1>6. QED
  BY <1>1, <1>2, <1>3, <1>4, <1>5 DEF Next, Daemon

-----------------------------------------------------------------------------
(* The inductive invariant.                                                 *)

LEMMA InitDInv == Init => DInv
<1> SUFFICES ASSUME Init PROVE DInv
  OBVIOUS
<1>1. IInv /\ media \in [Disk -> InitialMedia]
  BY InitIInv DEF Init
<1>2. CopyOK
  BY DEF Init, CopyOK, Copying, Tidying, Complete
<1>3. \A d \in Disk :
        /\ media[d].var \in Int
        /\ media[d].var = -2 \/ media[d].var = 1
        /\ IsLegacy(media[d]) => media[d].var = 1
  BY <1>1 DEF Absent, InitialMedia, EmptyMedia, ForeignMedia, LegacyMedia, LuksMedia, IsLegacy
<1>4. PICK server \in attached \cup {NoDisk} :
        /\ \A d \in Disk : HoldsData(media[d]) <=> d = server
        /\ latest = IF server = NoDisk THEN 0 ELSE 1
        /\ encrypted = {d \in Disk : d = server /\ media[d].sig = "crypto_LUKS"}
  BY Zenon DEF Init
<1>5. LegacyHolds
  <2>1. ASSUME NEW d \in Disk, IsLegacy(media[d]) PROVE HoldsData(media[d])
    BY <1>3, <2>1 DEF HoldsData
  <2>2. QED
    BY <2>1 DEF LegacyHolds
<1>6. VersionsOK /\ FreshOK
  <2>1. \A d \in Disk : media[d].var # -1 /\ media[d].var # 0
    BY <1>3
  <2>2. QED
    BY <2>1 DEF VersionsOK, FreshOK, Incomplete, Fresh
<1>7. OneLegacy
  BY <1>4, <1>5 DEF OneLegacy, LegacyHolds
<1>8. HomeOK /\ StaleOK
  <2>1. \A d \in Disk : HoldsData(media[d]) =>
          d = server /\ d # NoDisk /\ media[d].var = latest
    BY <1>3, <1>4, DisksAssumption DEF HoldsData
  <2>2. HomeOK
    BY <1>4, <2>1 DEF HomeOK, HasData
  <2>3. StaleOK
    BY <1>5, <2>1 DEF StaleOK, LegacyHolds
  <2>4. QED
    BY <2>2, <2>3
<1>9. EncryptedOK
  <2>1. ASSUME NEW d \in encrypted PROVE HasData(d)
    <3>1. d \in Disk /\ HoldsData(media[d]) /\ media[d].sig = "crypto_LUKS"
      BY <1>4
    <3>2. media[d].var # Absent
      BY <3>1 DEF HoldsData, Absent
    <3>3. IsLuks(media[d])
      BY <1>1, <3>1, <3>2 DEF IInv, MediaOK, IsLegacy, IsLuks
    <3>4. QED
      BY <3>1, <3>3 DEF HasData
  <2>2. QED
    BY <2>1 DEF EncryptedOK
<1>10. BootOK /\ PlanOnAll
  BY DEF Init, BootOK, VisibleOK, MapperOK, SeenOK, AgreedOK, RootOK,
         PlanOnAll, AloneOK, Idle, RunningHome
<1>11. QED
  BY <1>1, <1>2, <1>5, <1>6, <1>7, <1>8, <1>9, <1>10 DEF DInv, DataOK

LEMMA NextDInv ==
  ASSUME FaultyProbe = {}, DInv, [Next]_vars PROVE DInv'
<1>1. CASE UNCHANGED vars
  BY <1>1 DEF vars, DInv, IInv, TypeOK, MediaOK, ClassesOK, TargetOK, SourceOK,
     RunningOK, CopyOK, Complete, LegacyHolds, DataOK, VersionsOK, OneLegacy, HomeOK,
     StaleOK, EncryptedOK, FreshOK, HasData, BootOK, VisibleOK, MapperOK, SeenOK,
     AgreedOK, PlanOnAll, AloneOK, RunningHome, RootOK, IsLegacy, IsLuks, HoldsData
<1>2. CASE Next
  <2>1. IInv' /\ CopyOK'
    BY <1>2, NextIInv, NextCopyOK DEF DInv
  <2>2. LegacyHolds'
    BY <1>2, <2>1, StepLegacyHolds DEF DInv
  <2>3. ASSUME ~missed' PROVE DataOK' /\ PlanOnAll'
    <3>1. DataOK /\ PlanOnAll
      BY <1>2, <2>3, MissedStep DEF DInv
    <3>2. DataOK'
      BY <1>2, <3>1, SameDataStep, ServerWritesStep, CreateVarStep, PromoteCopyStep
         DEF DInv, BootOK, PlanOnAll, NewVar
    <3>3. PlanOnAll'
      BY <1>2, <2>3, <3>1, AloneStep, RunningStep DEF DInv, BootOK, PlanOnAll
    <3>4. QED
      BY <3>2, <3>3
  <2>4. BootOK'
    BY <1>2, VisibleStep, MapperStep, SeenStep, AgreedStep, RootStep DEF DInv, BootOK
  <2>5. QED
    BY <2>1, <2>2, <2>3, <2>4 DEF DInv
<1>3. QED
  BY <1>1, <1>2

(* Where the data is, in every reachable state.                             *)
THEOREM SpecDInv ==
  ASSUME FaultyProbe = {} PROVE Spec => []DInv
<1>1. DInv /\ [Next]_vars => DInv'
  BY NextDInv
<1>2. QED
  BY <1>1, InitDInv, PTL DEF Spec

-----------------------------------------------------------------------------
(* What the system starts on, or runs on.                                   *)
LEMMA HomeData ==
  ASSUME DInv, ~missed, pc \in {"released", "running"},
         NEW d \in Disk, media[d].var # Absent,
         \/ d = target /\ IsLuks(media[target])
         \/ target = NoDisk /\ IsLegacy(media[d])
  PROVE  /\ IsLuks(media[d]) \/ \A e \in Disk : ~HasData(e)
         /\ \/ media[d].var = latest
            \/ media[d].var = Fresh /\ d \in accepted
<1>1. /\ media[d].var # Incomplete /\ media[d].var \in Content
      /\ MaxVersion \in Nat
  BY DisksAssumption
     DEF DInv, IInv, TypeOK, DataOK, VersionsOK, Media
<1>2. media[d].var = Fresh \/ HoldsData(media[d])
  BY <1>1 DEF Content, Absent, Incomplete, Fresh, HoldsData
<1>3. CASE IsLuks(media[d])
  BY <1>1, <1>2, <1>3 DEF DInv, DataOK, HomeOK, FreshOK, HasData
<1>4. CASE target = NoDisk /\ IsLegacy(media[d])
  <2>1. \A e \in Disk : ~HasData(e)
    BY <1>4, DisksAssumption
       DEF DInv, DataOK, HomeOK, PlanOnAll, AloneOK, Idle, HasData
  <2>2. media[d].var = latest
    BY <1>1, <1>4, <2>1 DEF DInv, DataOK, StaleOK
  <2>3. QED
    BY <1>1, <1>4, <2>1, <2>2
<1>5. QED
  BY <1>3, <1>4

LEMMA RunningOnHome ==
  ASSUME DInv, ~missed, pc = "running"
  PROVE  /\ rootvar \in Disk
         /\ IsLuks(media[rootvar]) \/ \A e \in Disk : ~HasData(e)
         /\ \/ media[rootvar].var = latest
            \/ media[rootvar].var = Fresh /\ rootvar \in accepted
<1>1. /\ rootvar \in Disk /\ media[rootvar].var # Absent
      /\ \/ rootvar = target /\ IsLuks(media[target])
         \/ target = NoDisk /\ IsLegacy(media[rootvar])
  BY DEF DInv, IInv, RunningOK, PlanOnAll, RunningHome
<1>2. QED
  BY <1>1, HomeData

(* /var is never mounted from a volume that is out of date, and an empty    *)
(* one only if an operator agreed to it, until a plan misses a volume.      *)
THEOREM SpecRunsOnLatestData ==
  ASSUME FaultyProbe = {} PROVE Spec => []RunsOnLatestData
<1>1. DInv => RunsOnLatestData
  BY RunningOnHome DEF RunsOnLatestData
<1>2. QED
  BY <1>1, SpecDInv, PTL

(* Once the server has written to an encrypted volume it never again runs   *)
(* from an unencrypted one, until a plan misses a volume.                   *)
THEOREM SpecNeverUnencryptedAgain ==
  ASSUME FaultyProbe = {} PROVE Spec => []NeverUnencryptedAgain
<1>1. DInv => NeverUnencryptedAgain
  <2> SUFFICES ASSUME DInv, ~missed, pc = "running", encrypted # {}
               PROVE  media[rootvar].sig = "crypto_LUKS"
    BY DEF NeverUnencryptedAgain
  <2>1. \E e \in Disk : HasData(e)
    BY DEF DInv, DataOK, EncryptedOK, IInv, TypeOK
  <2>2. QED
    BY <2>1, RunningOnHome DEF IsLuks
<1>2. QED
  BY <1>1, SpecDInv, PTL

-----------------------------------------------------------------------------
(* The refinement.  Every step changes what VarData sees in one of its ways *)
(* or not at all.                                                           *)

Store == [d \in Disk |-> media[d].var]
Seen  == <<Store, rootvar, latest, accepted, missed>>

LEMMA InitSeen == Init => Data!Init
<1> SUFFICES ASSUME Init PROVE Data!Init
  OBVIOUS
<1>1. \A d \in Disk : media[d].var \in Int /\ (media[d].var = -2 \/ media[d].var = 1)
  BY DEF Init, Absent, InitialMedia, EmptyMedia, ForeignMedia, LegacyMedia, LuksMedia
<1>2. latest \in {0, 1}
  BY DEF Init
<1>3. \A d \in Disk : HoldsData(media[d]) <=> media[d].var = 1
  BY <1>1 DEF HoldsData
<1>4. latest = 1 <=> \E d \in Disk : media[d].var = 1
  <2>1. PICK server \in attached \cup {NoDisk} :
          /\ \A d \in Disk : HoldsData(media[d]) <=> d = server
          /\ latest = IF server = NoDisk THEN 0 ELSE 1
    BY Zenon DEF Init
  <2>2. server \in Disk \cup {NoDisk}
    BY DEF Init
  <2>3. (\E d \in Disk : media[d].var = 1) <=> server # NoDisk
    BY <1>3, <2>1, <2>2, DisksAssumption
  <2>4. QED
    BY <2>1, <2>3
<1>5. QED
  BY <1>1, <1>2, <1>4 DEF Init, Data!Init, Data!Absent, Data!Fresh

(* Which steps are seen, but for those that change a /var.                  *)
LEMMA SeenSteps ==
  ASSUME Next, ~NewVar
  PROVE  \/ UNCHANGED <<rootvar, accepted, missed>>
         \/ Decide \/ PowerOff \/ MountVar \/ ConfirmSubvol \/ ConfirmMkfs \/ AskRepeat
<1> USE DEF boot, ghosts, NewVar
<1>1. CASE Machine
  BY <1>1 DEF Machine, PowerOn, DiskAppears, Plug, Unplug
<1>2. CASE CommandFails \/ LabelLegacy \/ Planning
  BY <1>2 DEF CommandFails, Goto, LabelLegacy, Writes, Planning,
              Poll, ListVolumes, ProbeDisk
<1>3. CASE Unlocking
  BY <1>3 DEF Unlocking, GrowPartition, AskUnlock, OpenVolume,
       ResizeMapping, ProbeMapper, CheckSubvol, MkfsMapper, Goto, Block, Writes
<1>4. CASE Formatting
  BY <1>4 DEF Formatting, AskNew, ZapDisk, CreatePartition,
       LuksFormat, OpenNew, Mkfs, Writes
<1>5. CASE Migrating
  BY <1>5 DEF Migrating, InspectSource, CheckSize, SnapshotSource,
       StartReceive, FinishReceive, TidyNew, TidyOld, CloseMapper,
       Goto, Block, Writes
<1>6. QED
  BY <1>1, <1>2, <1>3, <1>4, <1>5 DEF Next, Daemon

(* They start or stop the system or record an agreement.                    *)
LEMMA QuietSeen ==
  ASSUME DInv, Next, ~NewVar PROVE Data!Next \/ UNCHANGED Seen
<1>1. Store' = Store
  BY QuietStep, FormatWrite DEF SameVar, DInv, Store
<1>2. latest' = latest
  BY AgreementsGrow DEF NewVar
<1>3. /\ pc # "running" => rootvar = NoDisk
      /\ pc \in {"unlock.ask_subvol", "unlock.ask_mkfs", "ask.repeat"} => target \in Disk
  BY DEF DInv, BootOK, RootOK, IInv, TargetOK, OnLuks, BeforeFormat
<1>4. CASE UNCHANGED <<rootvar, accepted, missed>>
  BY <1>1, <1>2, <1>4 DEF Seen
<1>a. CASE Decide
  <2>1. pc = "classify" /\ UNCHANGED <<rootvar, accepted>>
    BY <1>a DEF Decide
  <2>b. missed \in BOOLEAN /\ missed' \in BOOLEAN
    BY <1>a, Zenon DEF Decide, DInv, IInv, TypeOK
  <2>2. CASE missed'
    <3>1. Data!Overlook
      <4>1. missed' = TRUE
        BY <2>2, <2>b, Zenon
      <4>2. QED
        BY <1>1, <1>2, <1>3, <2>1, <4>1 DEF Store, Data!Overlook
    <3>2. QED
      BY <3>1 DEF Data!Next
  <2>3. CASE ~missed'
    <3>1. ~missed
      BY <2>3, MissedStep
    <3>2. missed' = missed
      BY <2>3, <2>b, <3>1, Zenon
    <3>3. QED
      BY <1>4, <2>1, <3>2
  <2>4. QED
    BY <2>2, <2>3
<1>5. CASE PowerOff
  <2>1. rootvar' = NoDisk /\ UNCHANGED <<accepted, missed>>
    BY <1>5 DEF PowerOff, ghosts
  <2>2. CASE rootvar = NoDisk
    BY <1>1, <1>2, <2>1, <2>2 DEF Seen
  <2>3. CASE rootvar # NoDisk
    BY <1>1, <1>2, <2>1, <2>3 DEF Store, Data!Next, Data!Stop
  <2>4. QED
    BY <2>2, <2>3
<1>6. CASE MountVar
  <2>1. CASE rootvar' = rootvar
    BY <1>1, <1>2, <1>6, <2>1 DEF MountVar, ghosts, Seen
  <2>2. CASE rootvar' # rootvar
    <3>1. PICK d \in Labelled : media[d].var # Absent /\ rootvar' = d
      BY <1>6, <2>2 DEF MountVar
    <3>2. /\ d \in Disk /\ pc = "released" /\ rootvar = NoDisk
          /\ UNCHANGED <<accepted, missed>>
      BY <1>3, <1>6 DEF Labelled, MountVar, ghosts
    <3>3. \/ media[d].var = latest
          \/ media[d].var = Fresh /\ d \in accepted
          \/ missed
      <4> SUFFICES ASSUME ~missed PROVE \/ media[d].var = latest
                                        \/ media[d].var = Fresh /\ d \in accepted
        OBVIOUS
      <4>1. \/ d = target /\ IsLuks(media[target])
            \/ target = NoDisk /\ IsLegacy(media[d])
        BY <3>1, <3>2, MountHome DEF DInv, BootOK, PlanOnAll
      <4>2. QED
        BY <3>1, <3>2, <4>1, HomeData
    <3>4. Data!Start(d)
      BY <1>1, <1>2, <3>1, <3>2, <3>3
         DEF Store, Data!Start, Data!Absent, Data!Fresh, Absent, Fresh
    <3>5. QED
      BY <3>2, <3>4 DEF Data!Next
  <2>3. QED
    BY <2>1, <2>2
<1>7. ASSUME rootvar = NoDisk, UNCHANGED <<rootvar, missed>>, target \in Disk,
             accepted' = accepted \cup {target}
      PROVE  Data!Next
  <2>1. Data!Agree(target)
    BY <1>1, <1>2, <1>7 DEF Store, Data!Agree
  <2>2. QED
    BY <1>7, <2>1 DEF Data!Next
<1>8. CASE ConfirmSubvol \/ ConfirmMkfs
  <2>1. /\ pc \in {"unlock.ask_subvol", "unlock.ask_mkfs"} /\ UNCHANGED <<rootvar, missed>>
        /\ accepted' = accepted \/ accepted' = accepted \cup {target}
    BY <1>8 DEF ConfirmSubvol, ConfirmMkfs, Confirm, Block, boot, ghosts
  <2>2. QED
    BY <1>3, <1>4, <1>7, <2>1
<1>9. CASE AskRepeat
  <2>1. /\ pc = "ask.repeat" /\ UNCHANGED <<rootvar, missed>>
        /\ accepted' = accepted \/ accepted' = accepted \cup {target}
    BY <1>9 DEF AskRepeat
  <2>2. QED
    BY <1>3, <1>4, <1>7, <2>1
<1>10. QED
  BY <1>4, <1>a, <1>5, <1>6, <1>8, <1>9, SeenSteps

LEMMA StepSeen ==
  ASSUME DInv, Next PROVE Data!Next \/ UNCHANGED Seen
<1>1. CASE ServerWrites
  <2>1. /\ pc = "running" /\ rootvar \in Disk /\ latest < MaxVersion
        /\ latest' = latest + 1 /\ accepted' = accepted \ {rootvar}
        /\ media' = WithVar(rootvar, latest + 1)
        /\ UNCHANGED <<rootvar, missed>>
    BY <1>1 DEF ServerWrites, WithVar, boot, DInv, IInv, RunningOK
  <2>2. \A e \in Disk : media'[e].var = IF e = rootvar THEN latest + 1 ELSE media[e].var
    BY <2>1, VarWrite DEF DInv
  <2>3. Store' = [Store EXCEPT ![rootvar] = latest + 1]
    BY <2>1, <2>2 DEF Store
  <2>4. rootvar # NoDisk
    BY <2>1, DisksAssumption
  <2>5. QED
    BY <2>1, <2>3, <2>4 DEF Store, Data!Next, Data!Write
<1>2. CASE CreateVar
  <2>1. /\ pc = "create.var" /\ target \in Disk /\ media[target].var = Absent
        /\ media' = WithVar(target, Fresh)
        /\ UNCHANGED <<rootvar, latest, accepted, missed>>
        /\ target \in accepted /\ rootvar = NoDisk
    BY <1>2 DEF CreateVar, Writes, WithVar, boot, ghosts, DInv, IInv, TargetOK, OnLuks,
                BootOK, AgreedOK, RootOK
  <2>2. \A e \in Disk : media'[e].var = IF e = target THEN Fresh ELSE media[e].var
    BY <2>1, VarWrite DEF DInv
  <2>3. Store' = [Store EXCEPT ![target] = Fresh] /\ Store[target] = Absent
    BY <2>1, <2>2 DEF Store
  <2>4. PICK d \in Disk : d = target
    BY <2>1
  <2>5. Data!CreateEmpty(d)
    BY <2>1, <2>3, <2>4
       DEF Store, Data!CreateEmpty, Data!Absent, Data!Fresh, Absent, Fresh
  <2>6. QED
    BY <2>5 DEF Data!Next
<1>3. CASE PromoteCopy
  <2> DEFINE v == media[target].src
  <2>1. /\ pc = "migrate.promote" /\ target \in Disk /\ source \in Disk
        /\ media[target].var = Absent /\ IsLegacy(media[source])
        /\ media' = WithVar(target, v)
        /\ UNCHANGED <<rootvar, latest, accepted, missed>>
        /\ rootvar = NoDisk /\ v = media[source].var
    BY <1>3 DEF PromoteCopy, Writes, WithVar, boot, ghosts, DInv, IInv, TargetOK, EmptyLuks,
                BootOK, RootOK, CopyOK, Copying, Tidying
  <2> HIDE DEF v
  <2>2. \A e \in Disk : media'[e].var = IF e = target THEN v ELSE media[e].var
    <3>1. IInv /\ target \in Disk
          /\ media' = WithVar(target, v)
      BY <2>1 DEF DInv
    <3>2. QED
      BY <3>1, VarWrite
  <2>3. v # Absent
    BY <2>1 DEF DInv, LegacyHolds, HoldsData, Absent
  <2>4. /\ Store' = [Store EXCEPT ![target] = Store[source]]
        /\ Store[target] = Absent /\ Store[source] # Absent
    BY <2>1, <2>2, <2>3 DEF Store
  <2>5. PICK from \in Disk, to \in Disk : from = source /\ to = target
    BY <2>1
  <2>6. Data!Copy(from, to)
    BY <2>1, <2>4, <2>5 DEF Store, Data!Copy, Data!Absent, Absent
  <2>7. QED
    BY <2>6 DEF Data!Next
<1>4. QED
  BY <1>1, <1>2, <1>3, QuietSeen DEF NewVar

(* var-disk-managerd implements VarData: whatever is interrupted, retried   *)
(* or plugged, /var starts only on the latest data or on an empty volume an *)
(* operator agreed to (until a plan misses a volume), and a migrated /var   *)
(* appears at once and whole, missed volumes or not.                        *)
THEOREM SpecImplementsVarData ==
  ASSUME FaultyProbe = {} PROVE Spec => ImplementsVarData
<1>1. DInv /\ [Next]_vars => [Data!Next]_Data!vars
  <2>1. UNCHANGED vars => UNCHANGED Seen
    BY DEF vars, Seen, Store
  <2>2. UNCHANGED Seen => UNCHANGED Data!vars
    BY DEF Seen, Store, Data!vars
  <2>3. QED
    BY <2>1, <2>2, StepSeen
<1>2. QED
  BY <1>1, InitSeen, SpecDInv, PTL DEF Spec, ImplementsVarData, Data!Spec

-----------------------------------------------------------------------------
(***************************************************************************)
(* The growth of an enlarged volume (VolumeGrowth), for all sizes and       *)
(* thresholds.                                                              *)
(***************************************************************************)

(* What the boot knows at each command: a partition that was found, or      *)
(* made, full-size stays so, and once the mapping was checked only the      *)
(* header's slack separates it from the partition.                          *)
BootKnows ==
  /\ step \in {"off", "measure", "move_gpt", "recreate", "open"} => mapping = 0
  /\ step \in {"move_gpt", "recreate"} => part + Threshold < volume
  /\ step \in {"open", "check", "resize_fs", "released"} => volume <= part + Threshold
  /\ step \in {"check", "resize_fs", "released"} => mapping \in fs .. part
  /\ step \in {"resize_fs", "released"} => part <= mapping + Slack
  /\ step = "released" => fs = mapping

(* The part of the type invariant the arithmetic needs.                     *)
SizesOK ==
  /\ step \in GrowthCommands \cup {"off", "open", "released", "failed"}
  /\ volume \in 1 .. MaxSize /\ part \in 1 .. MaxSize /\ fs \in 1 .. MaxSize
  /\ mapping \in 0 .. MaxSize

GrowthIInv == SizesOK /\ LayersNest /\ BootKnows

LEMMA GrowthInitIInv == GrowthInit => GrowthIInv
  BY GrowthAssumption DEF GrowthInit, GrowthIInv, SizesOK, LayersNest, BootKnows, GrowthCommands

(* A partition short of the threshold is smaller than one within it.        *)
LEMMA Recreated ==
  ASSUME NEW p \in Int, NEW q \in Int, NEW v \in Int, NEW t \in Int,
         p + t < v, q + t >= v
  PROVE  p < q
  OBVIOUS

(* So recreating the partition never cuts the filesystem.                   *)
LEMMA RecreatePartitionGrows ==
  ASSUME GrowthIInv, RecreatePartition
  PROVE  /\ part < part' /\ fs <= part'
         /\ part' \in 1 .. MaxSize /\ part' <= volume
         /\ volume <= part' + Threshold
<1>1. step = "recreate"
  BY DEF RecreatePartition
<1>2. part' \in 1 .. volume /\ part' + Threshold >= volume
  BY DEF RecreatePartition
<1>3. /\ part + Threshold < volume /\ fs <= part
      /\ part \in Int /\ fs \in Int /\ volume \in Int /\ volume <= MaxSize
  BY <1>1, GrowthAssumption DEF GrowthIInv, SizesOK, LayersNest, BootKnows
<1>4. part' \in Int /\ Threshold \in Int
  BY <1>2, <1>3, GrowthAssumption
<1>5. part < part'
  BY <1>2, <1>3, <1>4, Recreated
<1>6. part' \in 1 .. MaxSize /\ part' <= volume
  BY <1>2, <1>3, GrowthAssumption
<1>7. fs <= part'
  BY <1>3, <1>4, <1>5
<1>8. part' + Threshold >= volume
  BY <1>2
<1>9. volume <= part' + Threshold
  BY <1>8, <1>3, <1>4
<1>10. QED
  BY <1>5, <1>6, <1>7, <1>9

(* One case per command: each keeps the layers nested and leaves what the   *)
(* next command relies on.                                                  *)
LEMMA GrowthNextIInv == GrowthIInv /\ [GrowthNext]_growthVars => GrowthIInv'
<1> SUFFICES ASSUME GrowthIInv, [GrowthNext]_growthVars PROVE GrowthIInv'
  OBVIOUS
<1> USE GrowthAssumption DEF GrowthIInv, SizesOK, LayersNest, BootKnows, GrowthCommands
<1>1. CASE Enlarge           BY <1>1 DEF Enlarge
<1>2. CASE BootStarts        BY <1>2 DEF BootStarts
<1>3. CASE PowerCut          BY <1>3 DEF PowerCut
<1>4. CASE Measure           BY <1>4 DEF Measure
<1>5. CASE MoveBackupHeader  BY <1>5 DEF MoveBackupHeader
<1>6. CASE RecreatePartition
  <2>1. /\ step = "recreate" /\ step' = "open"
        /\ volume' = volume /\ fs' = fs /\ mapping' = mapping
    BY <1>6 DEF RecreatePartition
  <2>2. QED
    BY <1>6, <2>1, RecreatePartitionGrows
<1>7. CASE OpenMapping       BY <1>7 DEF OpenMapping
<1>8. CASE CheckMapping      BY <1>8 DEF CheckMapping, NeedsResize
<1>9. CASE ResizeFilesystem  BY <1>9 DEF ResizeFilesystem
<1>10. CASE GrowthFails      BY <1>10 DEF GrowthFails
<1>11. CASE UNCHANGED growthVars   BY <1>11 DEF growthVars
<1>12. QED
  BY <1>1, <1>2, <1>3, <1>4, <1>5, <1>6, <1>7, <1>8, <1>9, <1>10, <1>11
     DEF GrowthNext, Boot

THEOREM GrowthSpecIInv == GrowthSpec => []GrowthIInv
  BY GrowthInitIInv, GrowthNextIInv, PTL DEF GrowthSpec

(* maybe_grow_partition's answer is a Boolean in every state.               *)
LEMMA SpecGrewBoolean == GrowthSpec => [](grew \in BOOLEAN)
<1>1. GrowthInit => grew \in BOOLEAN
  BY DEF GrowthInit
<1>2. grew \in BOOLEAN /\ [GrowthNext]_growthVars => (grew \in BOOLEAN)'
  <2> SUFFICES ASSUME grew \in BOOLEAN, [GrowthNext]_growthVars PROVE grew' \in BOOLEAN
    OBVIOUS
  <2>1. grew' = TRUE \/ grew' = FALSE \/ grew' = grew
    BY DEF GrowthNext, Boot, Enlarge, BootStarts, PowerCut, Measure, MoveBackupHeader,
           RecreatePartition, OpenMapping, CheckMapping, ResizeFilesystem,
           GrowthFails, growthVars
  <2>2. QED
    BY <2>1, Zenon
<1>3. QED
  BY <1>1, <1>2, PTL DEF GrowthSpec

(* Every variable keeps its type.                                           *)
THEOREM GrowthSpecTypeOK == GrowthSpec => []GrowthTypeOK
<1>1. GrowthIInv /\ grew \in BOOLEAN => GrowthTypeOK
  BY DEF GrowthIInv, SizesOK, GrowthTypeOK
<1>2. QED
  BY <1>1, GrowthSpecIInv, SpecGrewBoolean, PTL

(* No interruption of the growth leaves layers that do not nest.            *)
THEOREM SpecLayersNest == GrowthSpec => []LayersNest
  BY GrowthSpecIInv, PTL DEF GrowthIInv

(* An unlocked boot has closed the chain, whatever earlier boots left.      *)
THEOREM SpecGrowthCloses == GrowthSpec => []GrowthCloses
<1>1. GrowthIInv => GrowthCloses
  BY GrowthAssumption DEF GrowthIInv, SizesOK, BootKnows, GrowthCloses, GrowthCommands
<1>2. QED
  BY <1>1, GrowthSpecIInv, PTL

(* No step shrinks the partition or the filesystem.                         *)
THEOREM SpecLayersOnlyGrow == GrowthSpec => LayersOnlyGrow
<1>1. GrowthIInv /\ [GrowthNext]_growthVars => [part' >= part /\ fs' >= fs]_growthVars
  <2> SUFFICES ASSUME GrowthIInv, GrowthNext PROVE part' >= part /\ fs' >= fs
    OBVIOUS
  <2> USE GrowthAssumption DEF GrowthIInv, SizesOK, LayersNest, BootKnows, GrowthCommands
  <2>1. CASE RecreatePartition
    <3>1. fs' = fs
      BY <2>1 DEF RecreatePartition
    <3>2. QED
      BY <2>1, <3>1, RecreatePartitionGrows
  <2>2. CASE ResizeFilesystem  BY <2>2 DEF ResizeFilesystem
  <2>3. CASE UNCHANGED <<part, fs>> BY <2>3
  <2>4. QED
    BY <2>1, <2>2, <2>3
       DEF GrowthNext, Boot, Enlarge, BootStarts, PowerCut, Measure, MoveBackupHeader,
           OpenMapping, CheckMapping, GrowthFails
<1>2. QED
  BY <1>1, GrowthSpecIInv, PTL DEF GrowthSpec, LayersOnlyGrow
=============================================================================
