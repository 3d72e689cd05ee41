--------------------------- MODULE VarDiskManager ---------------------------
(***************************************************************************)
(* var-disk-managerd, the initrd daemon that classifies the data volumes    *)
(* and unlocks, migrates or provisions /var, with everything around it that *)
(* decides whether data survives: the volumes and what is on them, power    *)
(* cycles between any two commands, commands that fail, volumes that        *)
(* enumerate late, and the operator who answers prompts and plugs volumes.  *)
(*                                                                         *)
(* One step is one external command (or one answer to a prompt), because a  *)
(* power cut can fall between any two of them.  The step's name in `pc` is  *)
(* the command about to run.                                                *)
(***************************************************************************)
EXTENDS VarDisks

CONSTANTS
  LateDisk,    \* volumes whose links may appear long after the others'
  TooSmall,    \* volumes smaller than the used data plus SIZE_HEADROOM
  Weak,        \* passphrases shorter than --min-passphrase-len
  StablePolls, \* equal polls that end the enumeration (5 in the code)
  MaxPolls     \* polls after which it ends anyway (90 in the code)

ASSUME ManagerAssumption ==
  /\ LateDisk \subseteq Disk /\ TooSmall \subseteq Disk /\ Weak \subseteq Pass
  /\ StablePolls \in Nat \ {0} /\ MaxPolls \in Nat \ {0}

VARIABLES
  pc,        \* what the machine is about to do
  attached,  \* volumes plugged into the machine
  visible,   \* those whose by-id link exists
  media,     \* what is on each volume; survives everything
  polls,     \* the enumeration loop: polls done, previous count, equal ones
  class,     \* the classes found so far in this boot
  target,    \* volume the plan works on
  source,    \* legacy volume a migration copies from
  mapper,    \* volume behind the open dm-crypt mapping
  entry,     \* passphrase held in memory
  notice,    \* why the boot is blocked, as shown to the operator
  rootvar,   \* volume /var is mounted from in the running system
  latest,    \* (ghost) version of the data the server wrote last
  accepted,  \* (ghost) volumes an operator agreed to start with an empty /var
  encrypted, \* (ghost) encrypted volumes the server has written its data to
  missed     \* (ghost) a plan left out a volume of the manager's

\* State of one boot, lost with the power.
boot == <<visible, polls, class, target, source, mapper, entry, rootvar>>
ghosts == <<latest, accepted, encrypted, missed>>
vars == <<pc, attached, visible, media, polls, class, target, source,
          mapper, entry, notice, rootvar, latest, accepted, encrypted, missed>>

NoPolls == [done |-> 0, prev |-> 0, stable |-> 0]
Unlisted == [d \in Disk |-> "unlisted"]
Notice == {"none", "duplicates", "detach", "complete", "aborted", "declined",
           "unexpected"}

-----------------------------------------------------------------------------
(* A machine with at most one volume that holds the server's data.          *)

InitialMedia == {EmptyMedia} \cup ForeignMedia
                \cup {LegacyMedia(l) : l \in {"none", "var"}}
                \cup {LuksMedia(k) : k \in Pass \ Weak}

Init ==
  /\ attached \in SUBSET Disk
  /\ \E server \in attached \cup {NoDisk} :
       /\ media \in [Disk -> InitialMedia]
       /\ \A d \in Disk : HoldsData(media[d]) <=> d = server
       /\ latest = IF server = NoDisk THEN 0 ELSE 1
       /\ encrypted = {d \in Disk : d = server /\ media[d].sig = "crypto_LUKS"}
  /\ pc = "off" /\ notice = "none" /\ accepted = {} /\ missed = FALSE
  /\ visible = {} /\ polls = NoPolls /\ class = Unlisted
  /\ target = NoDisk /\ source = NoDisk /\ mapper = NoDisk
  /\ entry = NoPass /\ rootvar = NoDisk

-----------------------------------------------------------------------------
(* The machine and its operator.                                            *)

(* The service starts with every boot; a prompt volume is there already.    *)
PowerOn ==
  /\ pc = "off"
  /\ pc' = "enumerate" /\ visible' = attached \ LateDisk /\ notice' = "none"
  /\ UNCHANGED <<attached, media, polls, class, target, source, mapper, entry,
                 rootvar, ghosts>>

(* A power cycle, a crash, or an orderly shutdown, at any point.            *)
PowerOff ==
  /\ pc # "off"
  /\ pc' = "off" /\ visible' = {} /\ polls' = NoPolls /\ class' = Unlisted
  /\ target' = NoDisk /\ source' = NoDisk /\ mapper' = NoDisk
  /\ entry' = NoPass /\ rootvar' = NoDisk
  /\ UNCHANGED <<attached, media, notice, ghosts>>

(* The link of a slow volume appears.                                       *)
DiskAppears(d) ==
  /\ pc # "off" /\ d \in attached \ visible
  /\ visible' = visible \cup {d}
  /\ UNCHANGED <<pc, attached, media, polls, class, target, source, mapper,
                 entry, notice, rootvar, ghosts>>

Plug(d) ==
  /\ pc = "off" /\ d \notin attached
  /\ attached' = attached \cup {d}
  /\ UNCHANGED <<pc, media, notice, boot, ghosts>>

(* The operator unplugs what a blocked boot names, never the extra volume   *)
(* that holds the server's data, or gives up a volume without a /var.       *)
Unplug(d) ==
  /\ pc = "off" /\ d \in attached
  /\ \/ notice \in {"detach", "complete"} /\ media[d].part = "var_guid"
     \/ /\ notice = "duplicates" /\ media[d].var # latest
        /\ \E e \in attached \ {d} : /\ media[e].part = media[d].part
                                     /\ media[e].sig = media[d].sig
     \/ media[d].var = Absent
  /\ attached' = attached \ {d}
  /\ UNCHANGED <<pc, media, notice, boot, ghosts>>

-----------------------------------------------------------------------------
(* run: enumerate until the set of volumes stops growing, list, classify    *)
(* every volume, act on the plan.                                           *)

(* Consecutive polls that found this many volumes, at least one.            *)
StableAfter(count) ==
  IF count > 0 /\ count = polls.prev THEN polls.stable + 1 ELSE 0

Poll ==
  /\ pc = "enumerate"
  /\ LET count  == Cardinality(visible)
         stable == StableAfter(count)
     IN /\ polls' = [done |-> polls.done + 1, prev |-> count, stable |-> stable]
        /\ pc' = IF stable >= StablePolls \/ polls.done + 1 >= MaxPolls
                 THEN "list" ELSE "enumerate"
  /\ UNCHANGED <<attached, visible, media, class, target, source, mapper,
                 entry, notice, rootvar, ghosts>>

ListVolumes ==
  /\ pc = "list" /\ pc' = "classify"
  /\ class' = [d \in Disk |-> IF d \in visible THEN "unprobed" ELSE "unlisted"]
  /\ polls' = NoPolls
  /\ UNCHANGED <<attached, visible, media, target, source, mapper, entry,
                 notice, rootvar, ghosts>>

ProbeDisk(d) ==
  /\ pc = "classify" /\ class[d] = "unprobed"
  /\ \E p \in Probes(media[d], d \in LateDisk, d \in FaultyProbe) :
       class' = [class EXCEPT ![d] = classify(p)]
  /\ UNCHANGED <<pc, attached, visible, media, polls, target, source, mapper,
                 entry, notice, rootvar, ghosts>>

(* Mutation: without volumes the daemon enumerates again.                   *)
FirstStep_NoDisksRetries(p) ==
  IF p = "NoDisks" THEN "enumerate" ELSE "failed"

(* The first command of a plan.                                             *)
FirstStep(p) ==
  CASE p = "Unlock"             -> "unlock.grow"
    [] p = "Migrate"            -> "migrate.inspect"
    [] p = "BootLegacy"         -> "legacy.label"
    [] p = "Provision"          -> "ask.new"
    [] p \in {"Block", "Detach"} -> "blocked"
    [] p = "NoDisks"            -> "failed"

(* Mutation: the two volumes of a migration swapped.                        *)
Target_Swapped(p) ==
  TheDisk(class, CASE p = "Unlock"  -> "Luks"
                   [] p = "Migrate" -> "Legacy"
                   [] OTHER         -> "Blank")

(* The volume a plan writes to, and the one it copies or boots from.        *)
Target(p) == CASE p = "Unlock" -> TheDisk(class, "Luks")
               [] p \in {"Migrate", "Provision"} -> TheDisk(class, "Blank")
               [] OTHER -> NoDisk
Source(p) == IF p \in {"Migrate", "BootLegacy"} THEN TheDisk(class, "Legacy")
             ELSE NoDisk

(* The plugged volumes of the manager's that the classes miss: their link   *)
(* came too late, or a probe of their partition failed.                     *)
Overlooked == {d \in attached : ~Recognised(media[d], class[d])}

Decide ==
  /\ pc = "classify" /\ \A d \in Disk : class[d] # "unprobed"
  /\ LET p == plan(class) IN
     /\ pc' = FirstStep(p)
     /\ target' = Target(p)
     /\ source' = Source(p)
     /\ notice' = CASE p = "Block"  -> "duplicates"
                     [] p = "Detach" -> "detach"
                     [] OTHER        -> notice
     /\ missed' = (missed \/ (FirstStep(p) \notin {"blocked", "failed"}
                               /\ Overlooked # {}))
  /\ UNCHANGED <<attached, visible, media, polls, class, mapper, entry,
                 rootvar, latest, accepted, encrypted>>

-----------------------------------------------------------------------------
(* Shapes shared by the commands below.                                     *)

(* A command that only moves the daemon on.                                 *)
Goto(from, to) ==
  /\ pc = from /\ pc' = to
  /\ UNCHANGED <<attached, media, notice, boot, ghosts>>

(* A command that leaves `m` on volume d.                                   *)
Writes(from, to, d, m) ==
  /\ pc = from /\ pc' = to
  /\ media' = [media EXCEPT ![d] = m]
  /\ UNCHANGED <<attached, notice, boot, ghosts>>

Block(from, why) ==
  /\ pc = from /\ pc' = "blocked" /\ notice' = why
  /\ UNCHANGED <<attached, media, boot, ghosts>>

(* A y/n prompt; ask_confirm takes nothing else for an answer.              *)
Confirm(from, yes) ==
  \/ /\ pc = from /\ pc' = yes /\ accepted' = accepted \cup {target}
     /\ UNCHANGED <<attached, media, notice, boot, latest, encrypted, missed>>
  \/ Block(from, "declined")

Commands == {"classify", "unlock.grow", "unlock.resize", "unlock.subvol",
             "unlock.mkfs", "legacy.label", "migrate.inspect", "migrate.size",
             "format.zap", "format.part", "format.luks", "format.open",
             "format.mkfs", "create.var", "migrate.snapshot",
             "migrate.receive", "migrate.copied", "migrate.promote",
             "migrate.tidy_new", "migrate.tidy_old", "migrate.close"}

(* A command exits non-zero: `?` ends the daemon and the boot drops to      *)
(* emergency.  What had been done stays done.                               *)
CommandFails == \E c \in Commands : Goto(c, "failed")

-----------------------------------------------------------------------------
(* unlock.  The growth of partition, mapping and filesystem is module       *)
(* VolumeGrowth; here its commands are steps that may fail.                 *)

GrowPartition == Goto("unlock.grow", "unlock.ask")

AskUnlock ==
  /\ pc = "unlock.ask" /\ pc' = "unlock.open" /\ entry' \in Pass
  /\ UNCHANGED <<attached, visible, media, polls, class, target, source,
                 mapper, notice, rootvar, ghosts>>

(* A wrong passphrase, or an open that fails for any reason, asks again.    *)
OpenVolume ==
  \/ Goto("unlock.open", "unlock.ask")
  \/ /\ pc = "unlock.open" /\ entry = media[target].key
     /\ pc' = "unlock.resize" /\ mapper' = target
     /\ UNCHANGED <<attached, visible, media, polls, class, target, source,
                    entry, notice, rootvar, ghosts>>

ResizeMapping == Goto("unlock.resize", "unlock.probe")

(* mapper_fs_from_blkid: what blkid says of the open mapping, or Unknown.   *)
ProbeMapper ==
  \/ Goto("unlock.probe", "unlock.subvol")   /\ media[target].inner = "btrfs"
  \/ Goto("unlock.probe", "unlock.ask_mkfs") /\ media[target].inner = "none"
  \/ Block("unlock.probe", "unexpected")

(* subvol_exists is FALSE also when `btrfs subvolume show` fails.           *)
CheckSubvol ==
  \/ Goto("unlock.subvol", "released") /\ media[target].var # Absent
  \/ Goto("unlock.subvol", "unlock.ask_subvol")

ConfirmSubvol == Confirm("unlock.ask_subvol", "create.var")
(* Mutation: an empty mapping is formatted without asking.                  *)
ConfirmMkfs_AutoYes == Goto("unlock.ask_mkfs", "unlock.mkfs")

ConfirmMkfs   == Confirm("unlock.ask_mkfs", "unlock.mkfs")

(* mkfs.btrfs, without -f, refuses a device that carries a signature.       *)
WithBtrfs(m) == [m EXCEPT !.inner = "btrfs", !.label = "var"]

MkfsMapper ==
  /\ Writes("unlock.mkfs", "create.var", target, WithBtrfs(media[target]))
  /\ media[target].inner = "none"

(* create_var_subvol, and the same command in unlock.                       *)
CreateVar ==
  /\ Writes("create.var", "released", target, [media[target] EXCEPT !.var = Fresh])
  /\ media[target].var = Absent

-----------------------------------------------------------------------------
(* ensure_label: boot from the unencrypted volume.                          *)

LabelLegacy == Writes("legacy.label", "released", source,
                      [media[source] EXCEPT !.label = "var"])

-----------------------------------------------------------------------------
(* migrate and provision up to the new passphrase.                          *)

(* Mount the source and delete the snapshot an interrupted attempt left,    *)
(* unless the check for it fails.                                           *)
InspectSource ==
  \/ Writes("migrate.inspect", "migrate.size", source,
            [media[source] EXCEPT !.src = Absent])
  \/ Goto("migrate.inspect", "migrate.size")

(* parse_btrfs_used may not understand the figure: aborted as well.         *)
CheckSize ==
  \/ target \notin TooSmall /\ Goto("migrate.size", "ask.new")
  \/ Block("migrate.size", "aborted")

AskNew ==
  /\ pc = "ask.new"
  /\ \E a \in Pass : IF a \in Weak THEN pc' = pc /\ entry' = entry
                     ELSE pc' = "ask.repeat" /\ entry' = a
  /\ UNCHANGED <<attached, visible, media, polls, class, target, source,
                 mapper, notice, rootvar, ghosts>>

(* Only provisioning starts an empty /var: a new passphrase, typed twice,   *)
(* is the operator's agreement to it.                                       *)
AskRepeat ==
  /\ pc = "ask.repeat"
  /\ \E b \in Pass :
       IF b = entry
       THEN /\ pc' = "format.zap" /\ entry' = entry
            /\ accepted' = IF source = NoDisk THEN accepted \cup {target}
                           ELSE accepted
       ELSE /\ pc' = "ask.new" /\ entry' = NoPass /\ accepted' = accepted
  /\ UNCHANGED <<attached, visible, media, polls, class, target, source,
                 mapper, notice, rootvar, latest, encrypted, missed>>

-----------------------------------------------------------------------------
(* format_encrypted, on the volume classified Blank.                        *)

ZapDisk == Writes("format.zap", "format.part", target, EmptyMedia)

CreatePartition ==
  Writes("format.part", "format.luks", target,
         [media[target] EXCEPT !.table = "gpt", !.part = "luks_uuid"])

LuksFormat ==
  Writes("format.luks", "format.open", target,
         [media[target] EXCEPT !.sig = "crypto_LUKS", !.inner = "none",
                               !.key = entry])

OpenNew ==
  /\ pc = "format.open" /\ entry = media[target].key
  /\ pc' = "format.mkfs" /\ mapper' = target
  /\ UNCHANGED <<attached, visible, media, polls, class, target, source,
                 entry, notice, rootvar, ghosts>>

Mkfs ==
  Writes("format.mkfs",
         IF source = NoDisk THEN "create.var" ELSE "migrate.snapshot",
         target, WithBtrfs(media[target]))

-----------------------------------------------------------------------------
(* The copy of a migration.                                                 *)

(* Mutation: a leftover snapshot is taken for the new one.                  *)
SnapshotSource_ReuseLeftover ==
  \/ Writes("migrate.snapshot", "migrate.receive", source,
            [media[source] EXCEPT !.src = media[source].var])
     /\ media[source].src = Absent
  \/ Goto("migrate.snapshot", "migrate.receive") /\ media[source].src # Absent

(* With a leftover snapshot in the way the command fails.                   *)
SnapshotSource ==
  /\ Writes("migrate.snapshot", "migrate.receive", source,
            [media[source] EXCEPT !.src = media[source].var])
  /\ media[source].src = Absent

(* btrfs receive has created its subvolume; the pump is running.            *)
StartReceive ==
  Writes("migrate.receive", "migrate.copied", target,
         [media[target] EXCEPT !.src = Incomplete])

(* Mutation: the exit status of btrfs receive is ignored.                   *)
FinishReceive_IgnoreStatus == Goto("migrate.copied", "migrate.promote")

(* Send and receive both ended well; a failure of either is CommandFails.   *)
FinishReceive ==
  Writes("migrate.copied", "migrate.promote", target,
         [media[target] EXCEPT !.src = media[source].src])

PromoteCopy ==
  Writes("migrate.promote", "migrate.tidy_new", target,
         [media[target] EXCEPT !.var = media[target].src])

TidyNew == Writes("migrate.tidy_new", "migrate.tidy_old", target,
                  [media[target] EXCEPT !.src = Absent])

TidyOld == Writes("migrate.tidy_old", "migrate.close", source,
                  [media[source] EXCEPT !.src = Absent])

CloseMapper ==
  /\ pc = "migrate.close" /\ pc' = "blocked"
  /\ mapper' = NoDisk /\ notice' = "complete"
  /\ UNCHANGED <<attached, visible, media, polls, class, target, source,
                 entry, rootvar, ghosts>>

-----------------------------------------------------------------------------
(* The system the initrd hands over to.                                     *)

(* /dev/disk/by-label/<label> is any of the visible filesystems with it.    *)
Labelled == {d \in Disk : /\ media[d].label = "var"
                          /\ \/ d \in visible /\ media[d].sig = "btrfs"
                             \/ d = mapper}

(* sysroot-var.mount: After= the daemon's success; subvol=var must exist.   *)
MountVar ==
  /\ pc = "released"
  /\ \E d \in Labelled :
       IF media[d].var = Absent THEN pc' = "failed" /\ rootvar' = rootvar
       ELSE pc' = "running" /\ rootvar' = d
  /\ UNCHANGED <<attached, visible, media, polls, class, target, source,
                 mapper, entry, notice, ghosts>>

ServerWrites ==
  /\ pc = "running" /\ latest < MaxVersion
  /\ latest' = latest + 1
  /\ media' = [media EXCEPT ![rootvar] = [media[rootvar] EXCEPT !.var = latest + 1]]
  /\ accepted' = accepted \ {rootvar}
  /\ encrypted' = IF media[rootvar].sig = "crypto_LUKS"
                  THEN encrypted \cup {rootvar} ELSE encrypted
  /\ UNCHANGED <<pc, attached, notice, boot, missed>>

-----------------------------------------------------------------------------
Machine == PowerOn \/ PowerOff \/ MountVar \/ ServerWrites
           \/ \E d \in Disk : DiskAppears(d) \/ Plug(d) \/ Unplug(d)

Planning == Poll \/ ListVolumes \/ Decide \/ \E d \in Disk : ProbeDisk(d)

Unlocking == GrowPartition \/ AskUnlock \/ OpenVolume \/ ResizeMapping
             \/ ProbeMapper \/ CheckSubvol \/ ConfirmSubvol \/ ConfirmMkfs
             \/ MkfsMapper \/ CreateVar

Formatting == AskNew \/ AskRepeat \/ ZapDisk \/ CreatePartition \/ LuksFormat
              \/ OpenNew \/ Mkfs

Migrating == InspectSource \/ CheckSize \/ SnapshotSource \/ StartReceive
             \/ FinishReceive \/ PromoteCopy \/ TidyNew \/ TidyOld \/ CloseMapper

Daemon == Planning \/ Unlocking \/ LabelLegacy \/ Formatting \/ Migrating

Next == Machine \/ Daemon \/ CommandFails

Spec == Init /\ [][Next]_vars

-----------------------------------------------------------------------------
(* Properties.                                                              *)

PC == Commands \cup {"off", "enumerate", "list", "unlock.ask", "unlock.open",
                     "unlock.probe", "unlock.ask_subvol", "unlock.ask_mkfs",
                     "ask.new", "ask.repeat", "blocked", "failed", "released",
                     "running"}

(* Every variable of the model has its type.                                *)
TypeOK ==
  /\ pc \in PC
  /\ attached \in SUBSET Disk /\ visible \in SUBSET Disk
  /\ media \in [Disk -> Media]
  /\ polls \in [done : Nat, prev : Nat, stable : Nat]
  /\ class \in [Disk -> DiskClass \cup {"unlisted", "unprobed"}]
  /\ target \in Disk \cup {NoDisk} /\ source \in Disk \cup {NoDisk}
  /\ mapper \in Disk \cup {NoDisk} /\ rootvar \in Disk \cup {NoDisk}
  /\ entry \in Pass \cup {NoPass}
  /\ notice \in Notice
  /\ latest \in 0 .. MaxVersion
  /\ accepted \in SUBSET Disk /\ encrypted \in SUBSET Disk
  /\ missed \in BOOLEAN

(* Whatever is interrupted, retried, declined or plugged, the data the      *)
(* server wrote last is on some volume: no sequence of boots of the daemon  *)
(* destroys the only copy.                                                  *)
LatestDataSurvives ==
  latest >= 1 => \E d \in Disk : media[d].var = latest

(* No step destroys or rolls back data on any volume, and a volume that is  *)
(* not the manager's (empty partition table, foreign filesystem or          *)
(* partition) is never written: classify's zero-signature rule is the only  *)
(* way to a format.                                                         *)
NothingPreciousIsWritten ==
  [][\A d \in Disk :
       /\ HoldsData(media[d]) => media'[d].var >= media[d].var
       /\ IsForeign(media[d]) => media'[d] = media[d]]_vars

(* When the daemon reports MIGRATION COMPLETE, the new volume holds exactly *)
(* what the old one holds and no temporary snapshot is left on either, so   *)
(* detaching the old volume as told loses nothing.                          *)
CompleteMeansCopied ==
  pc = "blocked" /\ notice = "complete" =>
    /\ media[target].var = media[source].var /\ HoldsData(media[target])
    /\ media[target].src = Absent /\ media[source].src = Absent
    /\ mapper = NoDisk

(* The system never runs on a /var older than what it wrote last; it runs   *)
(* on an empty one only if an operator agreed to that volume starting empty *)
(* (confirm prompt or new passphrase).  Excepted is a server on which a     *)
(* plan was carried out that had missed one of the manager's volumes, from  *)
(* that boot on: such a volume reads like somebody else's, and the code     *)
(* boots what is left.                                                      *)
RunsOnLatestData ==
  pc = "running" /\ ~missed =>
    \/ media[rootvar].var = latest
    \/ (media[rootvar].var = Fresh /\ rootvar \in accepted)

(* "legacy + LUKS -> BLOCK boot; never run off the unencrypted disk again": *)
(* once data was written to an encrypted volume, /var is never mounted from *)
(* an unencrypted one, as long as no plan missed a volume of the manager's. *)
NeverUnencryptedAgain ==
  pc = "running" /\ encrypted # {} /\ ~missed =>
    media[rootvar].sig = "crypto_LUKS"

(* What all of it amounts to is module VarData: /var starts only on the     *)
(* latest data or on an empty volume an operator agreed to (or, once a plan *)
(* missed a volume, on what it found), an empty /var is created only where  *)
(* there is none and only when agreed, and a migrated /var appears at once  *)
(* and whole, never a part of a copy.                                       *)
Data == INSTANCE VarData WITH store <- [d \in Disk |-> media[d].var],
                              running <- rootvar
ImplementsVarData == Data!Spec

(* Under fair scheduling of the daemon and of the mount that waits for it,  *)
(* every boot reaches a decision or waits for an operator: with no volume   *)
(* at all, or volumes that keep appearing, enumeration still ends.          *)
Prompts == {"unlock.ask", "unlock.ask_subvol", "unlock.ask_mkfs", "ask.new",
            "ask.repeat"}
FairSpec == Spec /\ WF_vars(Daemon) /\ WF_vars(MountVar)

EveryBootDecides ==
  pc = "enumerate" ~> pc \in Prompts \cup {"running", "blocked", "failed", "off"}
=============================================================================
