# foundrix: a TLA+ development

foundrix is a collection of NixOS modules with a handful of programs of its own.
The modules are declarative and have no behaviour to check; the programs do: they
format and migrate data volumes, hold a boot until secrets are proven, write
system images over disks, bridge a game controller, and keep a desktop's monitors
in step. This directory holds specifications of those programs, TLC runs over
small instances of them, and TLAPS proofs for instances of any size. Paths below
are relative to `src/packages/` unless they start with `services/` or `config/`.

* [Inventory](#inventory): the parts of the system
* [Modules](#modules): what is modelled, and how it corresponds to the code
* [Runs](#runs): what is checked, and why the bounds are enough
* [Fairness](#fairness)
* [Findings](#findings): where code and documentation disagree
* [Proofs](#proofs)
* [What is not modelled](#what-is-not-modelled)
* [Plan](#plan)

## Inventory

| Component | State it keeps | Operations | What makes it hard |
|---|---|---|---|
| **var-disk-manager, daemon** (`var-disk-manager/src/{lib,bin/daemon}.rs`, `config/filesystem/var-luks.nix`) | what is on each data volume (partition table, partition, signature, `/var` and temporary subvolumes); one boot's plan, open mapping, passphrase | enumerate volumes, classify, then unlock, migrate a legacy volume, provision a blank one, boot a legacy one, or block the boot | power cuts between any two commands, commands that fail, probes that fail, volumes that enumerate late, an operator who declines, retries and unplugs |
| **var-disk-manager, volume growth** (`daemon.rs` maybe_grow_partition, grow_if_larger) | sizes of volume, partition, mapping, filesystem | grow each layer on every unlock | a boot that grows one layer and dies before the next |
| **var-disk-manager, prompt hub and TUI** (`daemon.rs`, `bin/tui.rs`) | the published snapshot, one prompt at a time, a queue of submissions; per client its screen, unread keys and input | post a prompt, publish, serve, submit, take or drop an answer | several operators whose screens lag, answers to prompts that are gone, clients that leave, a daemon that exits |
| **operator-secrets** (`operator-secrets/src`, `services/operator-secrets.nix`) | a file per secret, a temporary file per writer, the screen's state | check, validate until decided, ask, write, edit session | validators that cannot decide, a collector restarted beside an edit session, power cuts inside a write, issuers that rotate credentials |
| **oidc-credential-validator** | none | discovery, introspection or token probe, verdict | providers that accept one authentication method only, proxies, lost bodies, refused grants |
| **flasher-tui** (and `config/recipes/flasher.nix`) | the list of disks, a selection, a screen, one flashing thread and its channel | discover, select, confirm, flash, shell, reboot | lists that are old when used, disks mounted or pulled meanwhile, a thread that fails or outlives its screen |
| **nsw2-service** (`bridge.rs`, `poll.rs`, `rumble.rs`) | two threads, two channels with an eventfd each, a shutdown eventfd, effect tables here and in the kernel | read reports, emit input, answer uploads and erases, play and stop rumble | two-step sends and drains that interleave, commands coalesced, either thread ending first, unplugging |
| **hypr-workspaced** (`workspace.rs`, `daemon.rs`, `request.rs`, `query.rs`, `ipc.rs`) | slots of the known monitors, the last synchronised workspace, pinned windows; Hyprland keeps the rest | switch, move, navigate, swap, collapse, pin, assign, sync | every operation is a series of queries and requests with the user acting in between, events that are late, echoed or replaced |
| nsw2-service initialisation and reports (`init.rs`, `report.rs`) | none | USB byte sequences, report decoding | pure I/O |
| **nftables-dns-update** (`services/nftables-dns-update.py`, `services/nftables-dns.nix`) | per run what it resolved and the handles it found; the table keeps rules and sets | look up the hosts, list the chain, replace sets and rules of one protocol in one batch | DNS that changes or fails, a reload between the listing and the batch, what earlier runs left |
| **zitadel configuration** (`services/zitadel-configure.ts`, `services/zitadel.nix`) | a credential file; Zitadel keeps users, organisations, project, app, roles and grants | bring them to what a deployment declares, a request at a time | a run cut anywhere and repeated, a secret handed out once only, the console editing beside it, lists that are replaced as a whole |
| **stalwart configuration** (`services/stalwart-configure.ts`, `services/stalwart-self-service-api.ts`, `services/stalwart.nix`) | the mail server's principals and their addresses | converge the sink and the admin account; serve requests that change addresses | two writers that read before they write, moving the catch-all from one account to another, names that follow Zitadel's |
| backup services (`services/backup/*.nix`) | snapshots, remote copies | shell units run by timers | interruption |
| NixOS modules, images, hardware | none | evaluated by nix | no state machine |

How the parts interact: the two boot daemons each own a Unix socket their TUI
clients connect to (the hub of operator-secrets has the shape of
var-disk-manager's); systemd orders them before the mounts and units that need
them; operator-secrets runs validators as subprocesses and reads only the verdict
they print; a deployment runs the zitadel configuration and then the stalwart one, the
self-service API asks Zitadel for the caller's role, and Stalwart names a principal by
the user name Zitadel presents at sign-in; nftables-dns-update is started by a timer
and works on a table nftables reloads; flasher-tui, nsw2-service and hypr-workspaced talk to nothing else of
foundrix, but to the kernel, the operator and Hyprland.

What correctness means, per part:

* **var-disk-manager**: the data the server wrote last is never lost, rolled back or
  copied in part; nothing foreign is written; as long as no plan missed a volume of the
  manager's, `/var` is never an old one and, once encrypted, never unencrypted again; every
  boot decides or asks.
* **volume growth**: layers nest at every instant, never shrink, and an unlocked boot
  has closed the chain.
* **prompt hub**: an answer is given to the prompt it was meant for, no snapshot is
  lost, no answer is stuck.
* **operator-secrets and its validator**: a boot is released on proven values only, a
  stored credential is given up for a proven one only, an operator is asked only
  for what is missing or known to be wrong, and no file is ever half written.
* **flasher-tui**: only the confirmed disk is written, and the screen tells the truth
  about it.
* **nsw2-service**: input reaches games, the motor ends where games left it, either
  end of the bridge ends the other.
* **hypr-workspaced**: when all has settled monitors agree, workspaces are on their
  monitors, and no window is lost.
* **nftables-dns-update**: an address that stays allowed is never shut out, a run opens
  exactly what it resolved, and the chain follows DNS whatever hit earlier runs.
* **zitadel, stalwart**: credentials handed out keep working, a run repeated after any cut
  converges without duplicates and takes nothing it did not give, mail always has
  somewhere to go, and it goes where its reader signs in.

`PROJECT.json` lists the same components with their status, and under `hazards`
the lines where these properties are at stake.

## Modules

| Module | Models | Extends |
|---|---|---|
| `VarDisks` | media, probes, `classify`, `plan` (pure operators) | |
| `VarDiskManager` | the daemon, one step per external command | `VarDisks` |
| `VarData` | the abstract promise about `/var` | |
| `VolumeGrowth` | the growth chain | |
| `PromptHub` | daemon, sockets and TUI clients | |
| `OidcValidator` | what a validator says, from what a provider answers (pure) | |
| `OperatorSecrets` | collector, edit session, files | `OidcValidator` |
| `FlasherTui` | event loop, flashing thread, disks | |
| `Nsw2Bridge` | both threads, the kernel's force-feedback side, games | |
| `HyprWorkspaced` | the daemon and the Hyprland session it acts on | |
| `NftablesDns` | the updater, its timer, DNS and the kernel's table | |
| `ZitadelConfigure` | a run of `zitadel-configure configure`, Zitadel, the console | |
| `StalwartConfigure` | a run of `stalwart-configure`, the self-service API, sign-ins | |
| `MailDeployment` | deployments: both of them, composed | `ZitadelConfigure`, `StalwartConfigure` |
| `VarDiskManagerProofs` | theorems of `VarDiskManager`, of its data and the refinement, and of `VolumeGrowth` | both, `TLAPS` |
| `OperatorSecretsProofs` | theorems of `OidcValidator` and `OperatorSecrets` | `OperatorSecrets`, `TLAPS` |
| `PromptHubProofs`, `FlasherTuiProofs`, `Nsw2BridgeProofs`, `HyprWorkspacedProofs`, `NftablesDnsProofs`, `MailDeploymentProofs` | theorems of one module each | their module, `TLAPS` |
| `MC*` | values for TLC | their module |

Operators named `X_Y` next to an operator `X` are plausible bugs in `X`
(a dropped guard, a missing reset); they are used nowhere, except in
its place to see that a property notices.

### VarDisks, VarDiskManager, VarData

`media[d]` is what survives everything: the volume's partition table, partition,
signature, the filesystem inside, its label, its key, and the *version* of the
server's data in `/var` and in the temporary subvolume of a migration. Versions
grow with every write of the server, so old data, new data, an incomplete copy
and no data are told apart without modelling contents.

`pc` names the command about to run; every external command of the daemon
(`sgdisk`, `cryptsetup`, `mkfs.btrfs`, `btrfs send | receive`, ...) is a step, for a
power cut (`PowerOff`) or a failure (`CommandFails`) may come between any two. The
variables of one boot are reset by `PowerOff`; `media` and `notice` are not. The
operator may answer a prompt either way, enter a wrong or weak passphrase, plug
volumes while the machine is off, and unplug what a blocked boot told them to
(`Unplug`). Drawing, progress bars and logging are left out.

A probe may fail. `probe_value` turns every failing exit of `blkid` and `lsblk` into
`None` (`daemon.rs:217`), and `Probes` lets both readings of a partition
(`daemon.rs:340-346`) come out that way on any volume of any boot; the two readings of a
whole disk do so on the volumes of `FaultyProbe`. An encrypted volume with a failed reading
is Foreign to `classify`, like one whose link came late, and so is a legacy one. The history
`missed` records that a plan was carried out that had taken one of the manager's own
volumes for somebody else's or had not seen it; what a server runs on holds up to that, for
the code then boots what is left.

`VarData` is the promise without any of this: a store of versions, a system that
starts only on the latest or on an agreed empty volume, and copies that appear
whole. Overlooking a volume is a step of its own there (`Overlook`); after it the system may
start on any `/var`, but still nothing appears in part, is made without consent or goes
back. `ImplementsVarData` maps `store` to `media[d].var` and `running` to `rootvar`.

### VolumeGrowth

The commands of an unlock that change sizes, in any unit, with names of their own
(`step`, `mapping`, `GrowthSpec`) beside `VarDiskManager`'s. `GrowthInit` allows every
nested state, hence every state earlier interrupted boots may have left, and
volumes may be enlarged between boots. The threshold of 16 MiB (`GROW_THRESHOLD`,
`daemon.rs:80`) and the 64 MiB of slack for the LUKS header (line 85) are constants.
A partition's start is not modelled: another range shows only as a wrong size.

### PromptHub

The main task (`Ask`, `TakeAnswer`, `DropStale`, `Exit`), per connection the writer
task (`SendSnapshot`, `HangUp`; a watch channel that keeps the newest snapshot), the
reader task (`ForwardSubmission`), the two directions of the socket, and the client
(`ReceiveSnapshot`, `Press`, `HandleKey`, `Leave`). A pressed key remembers which
prompt was on the screen when it was pressed and when it was handled; this is
what the properties compare.

### OidcValidator, OperatorSecrets

`OidcValidator` is the validator's decision as operators: `classify_introspection`,
`token_request`, `negotiated_methods`, `try_methods`, `check`. Providers and their
answers are external: which endpoints a document declares, which methods it
lists, which ones the client may use, and, per request, an answer out of the
classes the code tells apart, or a body that could not be read. `OidcVerdicts`
is what the validator can say at all of a credential the issuer accepts, and of
one it does not; `OperatorSecrets` draws every verdict from it.

What is assumed of providers, and external to the code: an introspection endpoint
authenticates its client before it answers `active` (RFC 7662, also named in
`main.rs:323-329`); a token endpoint mints tokens for authenticated clients only;
nothing but a failed authentication is answered by `invalid_client`, or by a bare
401 or 403 (RFC 6749). A provider that breaks the last one (some answer
`invalid_client` to a grant they do not offer) makes the validator call a good
credential invalid: the operator is asked again, and the stored file stays.

`OperatorSecrets` has two runs of the daemon, the collector (`boot`) and an edit
session (`edit`), which share only the files. `write_secret` is one step per system
call. `file` is what processes see, `durable` what may be there after a power cut:
a rename adds to it until the directory is synced, and content that was not synced
may come back cut short (`torn`). `accepts` is the issuers' truth, `proven` and
`rejected` are histories of it at the time of each verdict. One validation is one
step, also of the generic `validate_command`; the time it takes shows as the
other run's steps before and after it.

### FlasherTui

The event loop with its screens and keys, `discover_disks` (a sorted list that is
old from the moment it is made), the shell, the flashing threads with a message
channel each, and greetd running the program again. Keys may be pressed at any
moment, so a key typed ahead is a key pressed as soon as its screen is up.
`content[d]` is the set of image chunks in place on a disk; writes are O_DSYNC, so
what a thread has written is on the disk. Disks keep their device names (fixed
slots); findmnt knows a filesystem on a partition, not one on a mapping. `is_mounted` is
both of its queries: when findmnt or lsblk cannot run or fails, it answers that the disk is
not mounted (`main.rs:125-157`). `List` lets them fail for any disk, and `overlooked` keeps which
mounted disks a failed query let into the current list.

### Nsw2Bridge

A send is two steps (queue, then eventfd) and a drain is two (take until empty,
then reset), as in `poll.rs`. The kernel's side of force feedback (`uploaded`, `ffq`,
`request`) is modelled from how the service uses it: effect ids chosen lowest
first, a queue of events, one upload or erase at a time. A play carries its repeat count:
the code starts the motor for 1 (`bridge.rs:268`), stops it for 0, and ignores any other
(line 284, `HandleRepeat`). `emit_state` may fail; the state is recorded as emitted all the same
(lines 143-146), and `lost` keeps the buttons whose last change went that way. Left out:
EINTR, reports that do not parse, the 30 s limit the kernel puts on an unanswered
upload, and finding the device.

### HyprWorkspaced

Each query and each request is a step (queries of one computation that commute
are one). `shows`, `home`, `focus`, `at` are Hyprland's state; `wire` its event socket;
`watch` the one-element channel for workspace events, `changes` the queue of monitor
events. Requests computed and not sent yet are the set `todo`; each has a turn, and one
whose turn is first is sent next. Turns follow the loops of the code (the legs of a swap,
monitors by their ids); requests of one turn are the windows Hyprland listed, in an
order nobody promises, so any of them may be first. The user may swipe,
focus, open and close windows and plug monitors between any two. The slot
registry is a constant, since it only ever grows; pinned patterns are sets
of windows; workspace rules, special workspaces, disabled monitors and the
restart of the bar have no effect on this state and are left out.

Three histories say what was lost: `missed` (a switch on one monitor was replaced
unread by an event of another, or a request of a sync failed), `unassigned` (a
monitor event was lost or an assignment failed), `aborted` (a swap ended half
way). They are set where the loss happens, and the properties hold up to them. For the
first, an event carries whose doing it is (`Sender`): a request of a sync that brings a
monitor to the virtual workspace of the sync is its own, everything else the user's. Nothing in
the daemon looks at it.

### NftablesDns

One lookup, one listing and one batch are a step each; the batch is a transaction of
the kernel, refused as a whole when a handle or a set in it is gone (`Accepted`).
The dynamic accept rules are a set: all of them stand before the drop rule and accept, so
their order among themselves changes nothing. `find_drop_handle_and_old_sets` reads them as
the code does, by rule, not by set, and finds no set: nft's JSON prints a rule's set as
`@name`, so no word of it starts with the prefix the code looks for (lines 98-102). A set's
name is a hash of every resolved element, cut to 8 hexadecimal digits; in the model the name
carries the elements themselves, so two names differ exactly if the elements do, and a
collision of two 32-bit hashes, which would add one run's elements to the set of another,
is left out. The timer starts run after run; DNS answers change, `getaddrinfo` and `nft list`
fail, and nftables is reloaded (the updater runs on) or restarted (the updater with it,
`partOf`). Only the drop rule of the static chain is kept: the others accept nothing the
properties speak of. Ports are numbers out of a small set, addresses model values.

### ZitadelConfigure, StalwartConfigure, MailDeployment

Every request of the two scripts is a step, and so is each half of replacing the
credential file. `srv` is Zitadel's state and `loc` what the process has read, lost when
it ends; `issued` counts the client ids and secrets Zitadel has handed out, which it
does once each; `file` is the credential file, `durable` what a power cut may bring it
back to (the directory is not synced), `carried` the copy an operator gave another
machine. `mail` is Stalwart's state: per principal its addresses and roles. `Patched` is
the server's patch of single items, `Deployed` what the code sends for a principal it
did not find. Zitadel and Stalwart are external and modelled from the requests sent and
the answers handled: lists are replaced or patched as the endpoint's body says, a
request for what is gone is refused.

A deployment runs zitadel-configure and then, if it completed, stalwart-configure
(`stalwart.nix:524-543`). Between any two requests the console may edit organisations,
roles, user names and the app, a request may fail, the machine may lose power, the
self-service API may be between its read and its patch, and someone may sign in. `Init`
is a fresh instance or one an older deployment left, with the accounts under their
older names and the catch-all on the admin. The console may also grant the project to an
organisation and give the admin another user name, the one `convergeUserGrant` looks for or
not; a run that finds no admin warns and completes (`zitadel-configure.ts:1384-1391`). An
organisation is of one domain at most: one of two would be listed twice in `GrantedOrgs`, and
the run would fail on the second, refused grant. A read of Stalwart may be answered with an
error (`Misread`), which reads like an account that is not there. `back` records that the
admin may hold a catch-all address again after the hand-over: one was given to it by hand
after the run had read the account, or that read was such a one.

While one of the runs goes on, what only concerns the other is not interleaved with
it: it would commute with every step. Left out of both scripts: policies, languages,
branding, actions, public and SAML apps; domain principals, DKIM keys and settings.
They are converged after or beside these objects and share no state with them.

## Runs

Every run finishes without a bound cutting anything but the quantities named.

| Run | Instance | Shows |
|---|---|---|
| `vardisk_retry` | 3 volumes of every kind, symmetric, with late links and failing partition probes, 2 passphrases, 2 server writes | all safety of the daemon and that it implements `VarData`, over any number of boots |
| `vardisk_late` | 2 volumes with late links, one too small, failing partition probes, fair | every boot decides |
| `vardisk_faulty_probe` | 2 volumes whose whole-disk probes may fail | a finding, below |
| `volume_growth` | sizes to 6, threshold 1, slack 1 | the growth chain over any number of boots |
| `prompt_hub` | 2 clients, 2 prompts, 2 + 1 keys, 1 unread snapshot per socket, fair | what an answer may mean, no lost update, and that answers arrive |
| `operator_secrets` | 2 secrets, one without validator, 2 values, 2 starts, 1 power cut, 1 rotation | all safety of collector, edit session and writes |
| `nsw2_bridge` | 1 button, 2 effects, queues of 2, 3 calls (repeated plays among them), 2 input events, failing emits and writes, fair | effect tables, the motor, input and both kinds of shutdown |
| `nsw2_lost_stop` | 1 effect, 3 calls, fair | a finding, below |
| `hypr_workspaced` | 2 monitors with swapped slots, 1 window, 2 virtual workspaces, 3 inputs | settled states |
| `flasher_tui` | a stick, a disk that fits, one too small, 2 chunks, 2 flashes, 1 shell, failing mount queries, fair | screen, target and end of a flash |
| `nftables_dns` | 2 hosts in 3 connections over tcp and udp, 2 IPv4 and 1 IPv6 address, 2 rounds of lookups, 2 changes of DNS, 1 fault, 1 reload, fair | the swap, and that the chain follows DNS over any number of runs |
| `mail_deployment` | 2 domains, 1 sink account, 3 organisations, 2 deployments, 2 disturbances, 1 request by hand | credentials, organisations, roles, catch-all and addresses |

`TypeOK` of each module is not spent a run's property on: it is a theorem for every
module with state (`GrowthTypeOK` for `VolumeGrowth`). So is `LayersOnlyGrow` of
`VolumeGrowth`.

Why these bounds:

* *Three volumes* hold the target, the source and one more of any class, the most
  a plan speaks of; *two versions* separate old from new. Boots are not bounded.
* *Sizes to 6* with threshold and slack 1 leave room for every order of the four
  sizes, with and without a gap that must be closed.
* *Two prompts* put a stale generation behind a prompt, *two clients* compete for one,
  and *two keys* let one be pressed before and one after the change. One unread
  snapshot is enough for a client to lag by any number of them, for the watch channel
  drops what lies between.
* *Two starts* are a collector and an edit session beside it, or a collector
  and its successor; one power cut can fall anywhere in either.
  `TwoInOrder` puts the secret with a validator before the one without.
* *Two effects and three calls* let a game upload and play and another stop, or erase
  and upload again under the freed id; a queue of two holds a command and the one
  that overtakes it, and the room one more notify needs. The inductive invariant of
  the proofs was also checked with 5 calls and 3 events (19.9 million states).
* *Three inputs* are a gesture, a second one while the daemon reacts, and a hotplug
  or a failed request between. The run was also made by hand with four (19,255,877
  states, no error). Slots that are not the monitors' ids matter: before the
  assignment the daemon falls back to ids.
* *Two chunks* separate untouched, begun and complete; *two flashes* let a second
  thread meet a first one; the disk too small fails half way.
* *Three connections* share a host between tcp and udp, so that one protocol may go
  empty while the other does not; *two changes* of DNS separate what was resolved
  from what holds and from what the last run left; one reload hits any point of a
  run, one fault any lookup or listing. Runs of the updater are not bounded.
* *Two deployments* are one that is cut and the one that repeats it, or one that
  names a sink account and one that does not; *two disturbances* cut a run and edit
  the console before, within or after it; *three organisations* leave room for a
  duplicate beside both domains; *one request by hand* is between its read and its
  patch while a run passes.

`CHECK_DEADLOCK FALSE` stands where the system may rest: nobody asks, plugs,
presses or starts anything any more, or the bridge has ended.

## Fairness

* `VarDiskManager`: weak fairness of the daemon's steps and of the mount that waits
  for it. None for the operator, the power, or the links of late volumes.
* `PromptHub`: weak fairness of the submissions poll, and per client of the writer,
  the reader, receiving snapshots and handling keys: tokio polls every ready task
  again and again, and `select!` picks among ready branches at random. None for
  asking, pressing keys, connecting or leaving.
* `Nsw2Bridge`: weak fairness of both threads and of the controller's stream of
  reports (it sends them unasked while it is plugged in). None for the player, the
  games, unplugging or failures.
* `FlasherTui`: weak fairness of the loop's receiving (it polls every 50 ms) and of
  the flashing thread, whose reads and writes return. None for keys.
* `NftablesDns`: weak fairness of the timer and of the updater's lookups, listings and
  batches: the timer elapses again and again (`nftables-dns.nix:137-144`) and every
  lookup and `nft` returns. None for DNS, faults or reloads.
* `OperatorSecrets`, `HyprWorkspaced` and `MailDeployment` are checked for safety only. A parked
  collector goes on when a validator decides or an operator enters what is
  accepted, and nothing in the code makes either happen; whether echoes of
  workspace switches die out depends on how fast Hyprland delivers them; a failed
  configuration run is repeated only by the next deployment.

## Findings

* **A failing probe reads as an empty volume** (`vardisk_faulty_probe`). `lib.rs:152`
  says `None` means the probe ran and found nothing, and that one that could not run
  must abort the boot; `daemon.rs:217` returns `None` for every non-zero exit of
  `blkid`, an I/O error included. A foreign volume whose table cannot be read is
  classified blank and formatted. All other runs, and the proofs, assume that
  whole-disk probes do not fail this way (`FaultyProbe = {}`); partition probes fail in all of
  them.
* **A stop can be left in the channel** (`nsw2_lost_stop`). `PollableReceiver::drain`
  resets the eventfd after `try_recv` saw the channel empty (`poll.rs:103-110`); a
  command sent and notified in between loses its wakeup. If it was the last stop,
  the motor runs on, where `bridge.rs:8-18` promises event-driven wakeups. The same
  loss does not hurt input (`InputArrives`), since a controller keeps reporting.

Met while modelling, without a run of their own:

* `var-luks.nix:8` "never run off the unencrypted disk again" does not hold when a
  partition probe of the LUKS volume fails, or its link appears after the plan was made:
  the volume is Foreign or unseen, a legacy volume still attached gives the plan BootLegacy, and
  the server runs on the old data of the unencrypted one (`daemon.rs:217, 340-346`). Dropping
  `~missed` from `NeverUnencryptedAgain` or `RunsOnLatestData` makes `vardisk_retry` show the boot.
* `daemon.rs:170-171` of hypr-workspaced takes an event of the workspace synchronised
  last for an echo; an echo of the one before starts a sync back.
* `tui.rs:182` "a new prompt invalidates half-typed input": the client clears its
  buffer, not the terminal's queue, so a key pressed for one prompt may answer the
  next (`KeysMeanTheirPrompt`). What does hold is `NothingHalfTypedIsTaken`: no
  key *handled* under another prompt is part of an answer.
* flasher-tui offers a disk as unmounted when what is mounted is a LUKS or LVM mapping
  on it (`main.rs:147`), and also when findmnt or lsblk cannot run or fails
  (`main.rs:125-157`: `unwrap_or(false)` and `else return false`): a disk mounted by name is then
  listed, confirmed and written. `OnlyTheConfirmedDiskIsWritten` excepts just the disks that
  came into the current list that way (`overlooked`).
* nsw2-service gives a changed effect a new id although the kernel keeps the old one
  (`bridge.rs:252`); `EffectsAgree` and `MotorObeys` hold until a game does that.
* nsw2-service ignores a play with a repeat count above 1 (`bridge.rs:268, 284`), where
  `bridge.rs:13` says that it translates play and stop: the motor stays as it was.
  `MotorObeys` says so, and asks nothing of such a play.
* nsw2-service records a state as emitted when `emit_state` failed (`bridge.rs:143-146`), so
  the difference is not emitted again: a button sticks until it changes once more.
  `InputArrives` excepts the buttons this has happened to last (`lost`).
* nftables-dns-update: old sets are never deleted, where line 131 promises to replace them.
  A listed rule names its set as `@name`, and the scan looks for words that start with
  the bare prefix (`nftables-dns-update.py:98-102`); so every change of DNS leaves a set of
  each family in the table until nftables is reloaded. They accept nothing, no rule using
  them any more, and `RunOpensExactly` holds beside them. When one host of a protocol fails to
  resolve and another does not, the first one's addresses are closed until the next
  run; the model contains this, and `ChainFollowsDns` says that it heals.
* zitadel-configure: a run cut between making an organisation and adding its domain
  (`zitadel-configure.ts:840`) is followed by one that adopts the organisation by its
  name and never adds the domain. `convergeAdminIamRoles` looks for the admin under the
  bare name only (line 943), `convergeUserGrant` under both. Role updates read and
  replace (line 964): a role the console gives in between is lost, where line 932 says
  "Additive by construction" (`NoRoleTaken` excepts it). Project grants that are there never
  get roles declared later (lines 860-863), and when no user matches the admin's name the run
  completes with a warning and no role granted (lines 1384-1391); `RolesReach` excepts both. An
  organisation that carries two of the domains is listed twice and fails the run at its
  second grant. A secret regenerated in the console stays out of step with
  the stored one, which is written on (`FileServes` excepts it). A rename of the
  credential file is not followed by a sync of its directory, so a power cut may
  undo it; the client secret is then made anew on the next run.
* stalwart-configure: `getPrincipal` takes an error status for an absent principal, and
  what it then deploys may replace the account's addresses (`EditsSurvive` excepts it). The
  same misreading in `removeAddresses` (`stalwart-configure.ts:95, 294-295`) completes a run with
  the catch-all still on the admin beside the sink, which lines 330-332 are there to prevent;
  `MailReachesItsReader` excepts it (`back`).
  Changing `catchAllUser` from one account to another leaves the catch-all on the
  first one as well.

## Proofs

Everything in the `*Proofs` modules is proved for all values of the constants, under
the assumptions named `...Assumption` in the modules (which TLC evaluates in the runs),
and nothing else unless said here.

* **VarDiskManagerProofs**: `TypeOK`, `NothingPreciousIsWritten`, `LatestDataSurvives` and
  `CompleteMeansCopied`, for any number of volumes. Assumed besides: finitely many volumes,
  at least one server write possible, `FaultyProbe = {}`. None of them is inductive: that a
  format hits nothing precious holds because the plan named the volume, the plan because
  of the classes, the classes because of the probes, all of them read earlier in the
  boot. `IInv` carries this: `MediaOK` (what a volume can look like at all), `ClassesOK` (what
  each class says of the medium), `TargetOK` and `SourceOK` (what each command may assume
  of the volumes the plan named), `RunningOK` (the mounted volume is a labelled one). For
  the copy, `LegacyHolds` says that an unencrypted volume always has data, and `CopyOK`
  what the snapshot, the temporary subvolume and the new `/var` hold at each command of
  a migration. Late links, failing partition probes, retries and power cuts are covered:
  a class that is wrong is Foreign, and the rest only changes what is visible or resets the
  boot.
* **The data, in VarDiskManagerProofs**: `RunsOnLatestData`, `NeverUnencryptedAgain` and `ImplementsVarData`, the
  refinement itself, for any number of volumes, with late links and failing partition
  probes. All of it holds until a plan misses a volume (`missed`), and the refinement beyond
  that, since `VarData` has the same step. The argument: an encrypted volume that holds
  data is the only one, holds the latest, and is never unplugged (`HomeOK`), so a boot that
  carries out its plan has seen and recognised it (`VisibleOK`, `SeenOK`) or sets `missed`, and the
  plan unlocks it or blocks; the unencrypted volume is out
  of date only once an encrypted one has data (`StaleOK`). While a plan is carried out the
  plugged volumes are those it was made for (`AloneOK`), up to the mounted root
  (`RunningHome`, `RootOK`), and an empty `/var` is made only where the operator agreed
  (`AgreedOK`, `FreshOK`). Each command that changes
  data is then one lemma: a step of `VarData` or a stutter.
* **The growth chain, in VarDiskManagerProofs**: `GrowthTypeOK`, `LayersNest`, `GrowthCloses`, `LayersOnlyGrow`. The
  invariant says at each command which gaps are closed already; that a grown partition
  always leads to a resize is what makes the chain close.
* **PromptHubProofs**: `TypeOK`, `AnswersMeanTheirPrompt`, `NothingHalfTypedIsTaken`,
  `NewestSnapshotIsOnItsWay`, for any clients, keys and bounds. Prompt numbers are posted
  once, so a number ties every shown prompt, queued key and answer on its way to one
  prompt; input is emptied whenever the screen changes, so all its keys were handled
  under what is shown.
* **The validator, in OperatorSecretsProofs**: `ValidatorIsSound`: whichever endpoint, methods and answers a
  provider has, an accepted credential is never called invalid, one that is not
  accepted never valid. The argument is one lemma per kind of client (authenticated,
  stranger) over all answers, and two on the methods: at least one the client may use is
  tried, and "invalid" is said only when every tried one said it.
* **OperatorSecretsProofs**: `ReleasedMeansProven`, `AskedForAReason`, `BlockedIsHonest`,
  `NeverHalfWritten`, `OnlyProvenIsWritten`, `TypeOK`, for any secrets, order, values and
  bounds. The verdicts come in by `ValidatorIsSound`. `IInv` adds: what is about to be
  renamed is proven (`WriteOK`) and synced (`TmpOK`), so no power cut can leave it torn
  (`DurableOK`); what the collector has behind it stays proven while edit sessions write
  (`Behind`), and what it judges is still in the file or replaced by something proven
  (`Judged`); a block still set belongs to a repeated try (`BlockOK`).
* **FlasherTuiProofs**: `TypeOK`, `ScreenIsTrue`, `OnlyTheConfirmedDiskIsWritten` and
  `OneWriterAtATime`, for any disks, sizes and number of flashes (finitely many disks). What
  ties them is the flashing thread: a message says no more than its thread has done and
  its last one is the last (`ToldOK`, `PlacedOK`), the thread on the screen is the one that
  is listened to and has the disk that was named (`ListeningOK`, `ThreadOK`), and the index
  on the screen still means that disk (`NamedOK`), which was no stick when it was listed,
  nor mounted unless its own query had failed (`ListedOK`).
* **Nsw2BridgeProofs**: `TypeOK`, `EffectsAgree` and `MotorObeys`, for any buttons, effects, queue
  lengths and bounds. At most one upload or erase is under way, and the two tables
  differ by no more than what it is about to change (`QuietOK`, `WaitingOK`). The motor is
  traced back: the last play or stop the kernel still holds is what games asked for
  last (`AskedOK`), repeated plays aside; once it holds none, the newest command queued,
  taken or written is (`ChainOK`). Both hold until a game changes an effect in place (`reused`).

* **HyprWorkspacedProofs**: `TypeOK`, `NoneStranded`, `WorkspacesAtHome` and `InSyncAtRest`, for any
  monitors, slots and windows. What makes them hold is spread over the requests not sent yet. A
  swap: a request that parks a window has one with a later turn that takes the same window
  out (`TodoOK`), so a parked window always has its way out in `todo` (`ParkOK`), and only a failure
  of a silent move can drop it, which is `aborted`. Homes: while no monitor event is on its
  way, waiting or lost (`Calm`), no monitor comes or goes; an assignment before its moves
  knows exactly the present monitors (`SeenOK`), and from its moves on every workspace is at home
  or a request for it is still to be sent (`HomeOK`, `Relocating`). Every relocation, the ones of a
  sync included, goes to the slot of its workspace (`TodoOK`), and what Hyprland shows
  instead on the old monitor was there already or is an orphan (`RelocateHome`). So a sync of a
  calm session moves no workspace (`MovesOK`): focusing one changes the monitor it is
  meant for and no other (`AtHome`). Agreement: outside a sync there is a virtual workspace
  the loop has synchronised last, or none, such that every monitor is `Fine`: it shows that one, or
  what it shows is the user's doing and the event that says so is still unread and
  the last one of that monitor (`Pending`). During a sync the same holds of its `goal`, or a
  request that brings the monitor there is still to be sent (`Visiting`), or it is the event's own
  monitor, to which the sync goes back (`Returning`): that is why the mutant without
  `Refocus` fails. Only two steps take word of the user away: reading it, which starts the
  sync, and a newer event of another monitor, which is `missed`. Assumed:
  slots are distinct monitors' numbers, below 99 (`u8` in the code, and the buffer is
  workspace 999), at most nine virtual workspaces.
* **NftablesDnsProofs**: `TypeOK`, `SwapIsAtomic` and `RunOpensExactly`, for any hosts,
  connections and addresses (finitely many connections). A set holds what the hash in its
  name says, also when it is added a second time (`SetsOK`); a handle names one rule
  (`HandlesOK`); what the updater found in the chain is still what a listing would find, or
  nftables was reloaded since and everything is gone, and then the batch is refused as a
  whole (`FoundOK`). So nothing comes between a listing and its batch.
* **MailDeploymentProofs**: `TypeOK`, `CarriedSecretWorks`, `FileServes`, `NoLookalikeOrg`,
  `RolesReach`, `MailReachesItsReader`, `NoRoleTaken`, `CatchAllHeld` and `EditsSurvive`, for any
  domains, accounts, organisations and numbers of deployments.
  *Credentials*: client ids only grow, and along the copies they are ordered: carried
  away, on the disk, in the file, in the app, issued (`CopiesOK`); a copy of the app's id has
  the app's secret unless that was regenerated behind the script's back (`Right`), and what
  the process has in hand is such a copy until it is written (`ReadOK`).
  *Organisations*: no two are of one domain, unless the console raced the run (`OrgsOK`); at
  every request of the search an organisation of a domain that has no owner yet is still
  on the list, or was on it by its name (`OwnersOK`), so none is made twice.
  *Roles and logins*: what is there is contained in what the run read and writes back,
  as long as nobody edits between, and a grant to an organisation is the run's, with every
  declared role, or the console's (`RolesOK`); a user is under its full name from the
  rename on (`LoginOK`). *Mail*: the catch-all is with the account it was moved to before it
  is taken from the old one, and from the read before it is taken the admin gets none
  unless `back` says so (`MailOK`).

Before it was proved, each inductive invariant was checked by TLC on its run's
instance, as an invariant of the reachable states.

Only model-checked:

* All liveness (`EveryBootDecides`, `AnswersArrive`, `InputArrives`, `BothEnd`, `FlashEnds`,
  `ChainFollowsDns`), which is out of the prover's reach, as are ENABLED and what recursive
  definitions compute.

## What is not modelled

* The socket, clients and env-file encoding of operator-secrets: the hub repeats
  `PromptHub`'s; files are values, complete, partial, torn or absent. A form that is
  refused is asked for again and changes nothing.
* `init.rs` and `report.rs` of nsw2-service: fixed byte sequences.
* The text protocol and pattern matching of hypr-workspaced, and its client.
* Drawing, logging, progress figures, command-line parsing everywhere.
* The policies, languages, branding, actions, public and SAML apps of zitadel-configure
  (its second task); the domain principals, DKIM keys and settings of
  stalwart-configure. They read an object and bring it to the declared value, and nothing
  modelled here depends on it.
* The backups (`services/backup/*.nix`): shell fragments inside nix units around btrbk,
  `pg_dump` and a loop-mounted image on a share; what is kept and expired is btrbk's
  decision, whose code is not here. Declarative nix.

## Plan

Done: the modules above, first `VarDiskManager` with its abstract specification, because
losing data is the worst the system can do, then what holds a boot (`PromptHub`,
`OperatorSecrets` with its validator), the concurrent daemons and the flasher, and then
what runs after the boot (`NftablesDns`, `MailDeployment`). What is left, in this order:

1. **Domains and settings** of the mail deployment, where replacing a settings subtree is
   two requests.
2. **Backups**: the units around btrbk (mounts that come and go, the image resized while
   a run waits for it) with btrbk as an external step that may be interrupted. The
   first question there: `services/backup/smb.nix:183-184` makes the image file at its full size
   before it is formatted, and line 189 takes a file of the right size as done, so a cut in between
   leaves an image that no later run formats; growing has the same gap between lines
   204 and 206.
3. **HyprWorkspaced** with a third monitor as a run, to see `swap` and `collapse` among several
   neighbours; what is proved holds for any number of monitors already.

Runs are kept to one per question; a new module brings one run, with fairness where
something must eventually happen.
