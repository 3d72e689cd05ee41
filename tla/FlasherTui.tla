---------------------------- MODULE FlasherTui ----------------------------
(* flasher-tui: the live image's program that writes a system image over a   *)
(* disk the operator picks and confirms (main.rs run, flash_image,           *)
(* discover_disks, drop_to_shell), and the greetd session that runs it again *)
(* when it ends.                                                             *)
(*                                                                           *)
(* A key may be pressed at any moment.  A disk keeps its device name.        *)
EXTENDS Naturals, Sequences, FiniteSets

CONSTANTS
    Disk,       \* the machine's disks
    Usb,        \* those the kernel reports as usb: the live image is on one
    Size,       \* how many chunks each disk holds
    Chunks,     \* the image, in buffers of 4 MiB
    MaxFlashes, \* bound: flashes
    MaxShells   \* bound: visits to the shell

ASSUME DiskAssumption == IsFiniteSet(Disk) /\ Usb \subseteq Disk /\ Size \in [Disk -> Nat]
ASSUME ImageAssumption == Chunks \in Nat \ {0}
ASSUME BoundsAssumption == MaxFlashes \in Nat /\ MaxShells \in Nat

Flash == 1 .. MaxFlashes
NoFlash == 0

VARIABLES
    main,      \* the program: not running, in its event loop, or in a shell
    disks,     \* app.disks
    overlooked, \* history: the mounted disks a failed query let into that list
    selected,  \* app.list_state: an index into disks, 0 for none
    screen,    \* app.screen
    rx,        \* flash_rx: the flash that is listened to
    thread,    \* each flash's thread
    channel,   \* each flash's messages
    content,   \* the image's chunks that are in place on each disk
    mounted,   \* "direct": findmnt knows the disk or a partition of it by name
    attached,  \* the disks that are there
    named,     \* history: the disk the last Confirm screen named
    flashes, shells

appVars    == <<main, disks, overlooked, selected, screen, named>>
flashVars  == <<rx, thread, channel, content, flashes>>
worldVars  == <<mounted, attached, shells>>
vars       == <<appVars, flashVars, worldVars>>

Screens == [at : {"select", "done", "error"}]
    \cup [at : {"confirm"}, idx : 1 .. Cardinality(Disk)]
    \cup [at : {"flash"}, idx : 1 .. Cardinality(Disk), written : 0 .. Chunks]
Messages == [is : {"writing"}, written : 1 .. Chunks] \cup [is : {"done", "error"}]
Live     == {"open", "copy", "send", "reread"}

TypeOK ==
    /\ main \in {"off", "run", "shell"}
    /\ disks \in Seq(Disk) /\ Len(disks) <= Cardinality(Disk)
    /\ overlooked \subseteq Disk
    /\ selected \in 0 .. Cardinality(Disk)
    /\ main = "run" /\ disks # <<>> => selected \in DOMAIN disks
    /\ screen \in Screens
    /\ screen.at \in {"confirm", "flash"} => screen.idx \in DOMAIN disks
    /\ rx \in Flash \cup {NoFlash}
    /\ thread \in [Flash -> [pc : {"none", "ended"} \cup Live, disk : Disk, written : 0 .. Chunks]]
    /\ channel \in [Flash -> Seq(Messages)]
    /\ content \in [Disk -> SUBSET (1 .. Chunks)]
    /\ mounted \in [Disk -> {"no", "direct", "mapped"}]
    /\ attached \subseteq Disk
    /\ named \in Disk
    /\ flashes \in 0 .. MaxFlashes /\ shells \in 0 .. MaxShells

Init ==
    /\ main = "off"
    /\ disks = <<>> /\ overlooked = {} /\ selected = 0
    /\ screen = [at |-> "select"] /\ rx = NoFlash
    /\ named \in Disk
    /\ thread = [f \in Flash |-> [pc |-> "none", disk |-> named, written |-> 0]]
    /\ channel = [f \in Flash |-> <<>>]
    /\ content = [d \in Disk |-> {}]
    /\ mounted = [d \in Disk |-> IF d \in Usb THEN "direct" ELSE "no"]
    /\ attached \in {a \in SUBSET Disk : Usb \subseteq a}
    /\ flashes = 0 /\ shells = 0

---------------------------------------------------------------------------
(* Disks.                                                                   *)

\* is_mounted asks findmnt for the disk and for /dev/<child> of each child: a
\* filesystem on a mapping (LUKS, LVM) has another name and is not found.  For
\* the disks in fails, findmnt or the lsblk that names the children cannot run
\* or fails, which is taken for "not mounted".
is_mounted(d, fails) == mounted[d] = "direct" /\ d \notin fails

Offered(fails) == {d \in attached : d \notin Usb /\ ~is_mounted(d, fails)}

\* discover_disks: what is offered, largest first.
discover_disks(fails) ==
    LET found == Offered(fails)
    IN {s \in UNION {[1 .. n -> found] : n \in 0 .. Cardinality(found)} :
           /\ \A d \in found : \E i \in DOMAIN s : s[i] = d
           /\ \A i, j \in DOMAIN s : i < j => s[i] # s[j] /\ Size[s[i]] >= Size[s[j]]}

\* The disks are listed; a failed query matters for a mounted disk only.
List ==
    \E fails \in SUBSET {d \in attached \ Usb : mounted[d] = "direct"} :
        disks' \in discover_disks(fails) /\ overlooked' = fails

\* The next frame: a list that is drawn pulls a selection behind its end back.
Shown(list, i) == IF list # <<>> /\ i > Len(list) THEN Len(list) ELSE i

\* The process ends, its thread with it.
Exit ==
    /\ main' = "off"
    /\ thread' = [f \in Flash |-> [thread[f] EXCEPT !.pc = IF @ \in Live THEN "ended" ELSE @]]
    /\ rx' = NoFlash
    /\ screen' = [at |-> "select"]

---------------------------------------------------------------------------
(* main and run.                                                            *)

Start ==
    /\ main = "off"
    /\ main' = "run"
    /\ List
    /\ selected' = IF disks' = <<>> THEN 0 ELSE 1
    /\ screen' = [at |-> "select"]
    /\ UNCHANGED <<named, flashVars, worldVars>>

\* Reading keys: while a flash is listened to, the loop only looks for Ctrl-C.
AtScreen(s) == main = "run" /\ rx = NoFlash /\ screen.at = s

SelectNext ==
    /\ AtScreen("select") /\ disks # <<>>
    /\ selected' = IF selected >= Len(disks) THEN 1 ELSE selected + 1
    /\ UNCHANGED <<main, disks, overlooked, screen, named, flashVars, worldVars>>

SelectPrev ==
    /\ AtScreen("select") /\ disks # <<>>
    /\ selected' = IF selected <= 1 THEN Len(disks) ELSE selected - 1
    /\ UNCHANGED <<main, disks, overlooked, screen, named, flashVars, worldVars>>

\* Enter on a disk: the Confirm screen names it.
Choose ==
    /\ AtScreen("select") /\ selected \in DOMAIN disks
    /\ screen' = [at |-> "confirm", idx |-> selected]
    /\ named' = disks[selected]
    /\ UNCHANGED <<main, disks, overlooked, selected, flashVars, worldVars>>

\* y: a thread gets the path of the disk at that index.
Confirm ==
    /\ AtScreen("confirm") /\ flashes < MaxFlashes
    /\ flashes' = flashes + 1
    /\ screen' = [at |-> "flash", idx |-> screen.idx, written |-> 0]
    /\ rx' = flashes'
    /\ thread' = [thread EXCEPT ![flashes'] =
                     [pc |-> "open", disk |-> disks[screen.idx], written |-> 0]]
    /\ UNCHANGED <<main, disks, overlooked, selected, named, channel, content, worldVars>>

\* Any other key goes back, as does Esc on an error.
Back ==
    /\ AtScreen("confirm") \/ AtScreen("error")
    /\ screen' = [at |-> "select"]
    /\ UNCHANGED <<main, disks, overlooked, selected, named, flashVars, worldVars>>

\* Enter on the last screen: reboot, or if that fails just the end.
Reboot ==
    /\ AtScreen("done") \/ AtScreen("error")
    /\ Exit
    /\ mounted' \in {mounted, [d \in Disk |-> IF d \in Usb THEN "direct" ELSE "no"]}
    /\ UNCHANGED <<disks, overlooked, selected, named, channel, content, flashes,
                   attached, shells>>

\* Mutant: Ctrl-C while flashing goes back to the list.
CtrlC_Back ==
    /\ AtScreen("select") \/ (main = "run" /\ rx # NoFlash)
    /\ screen' = [at |-> "select"] /\ rx' = NoFlash
    /\ UNCHANGED <<main, disks, overlooked, selected, named, thread, channel, content,
                   flashes, worldVars>>

\* Ctrl-C ends the program in the list and while flashing, not elsewhere.
CtrlC ==
    /\ AtScreen("select") \/ (main = "run" /\ rx # NoFlash)
    /\ Exit
    /\ UNCHANGED <<disks, overlooked, selected, named, channel, content, flashes, worldVars>>

Shell ==
    /\ AtScreen("select") /\ shells < MaxShells
    /\ shells' = shells + 1
    /\ main' = "shell"
    /\ UNCHANGED <<disks, overlooked, selected, screen, named, flashVars, mounted, attached>>

\* Mutant: the list is not read again.
ShellEnds_OldList ==
    /\ main = "shell"
    /\ main' = "run"
    /\ UNCHANGED <<disks, overlooked, selected, screen, named, flashVars, worldVars>>

\* After the shell the disks are read again; the selection stays where it was.
ShellEnds ==
    /\ main = "shell"
    /\ main' = "run"
    /\ List
    /\ selected' = Shown(disks', IF disks' # <<>> /\ selected = 0 THEN 1 ELSE selected)
    /\ UNCHANGED <<screen, named, flashVars, worldVars>>

\* The terminal, the shell or lsblk fails: run returns the error.
Fail ==
    /\ main \in {"run", "shell"}
    /\ Exit
    /\ UNCHANGED <<disks, overlooked, selected, named, channel, content, flashes, worldVars>>

\* try_recv: a progress message updates the Flashing screen, the last one
\* replaces it and ends the listening.
Receive ==
    /\ main = "run" /\ rx # NoFlash /\ channel[rx] # <<>>
    /\ channel' = [channel EXCEPT ![rx] = Tail(@)]
    /\ LET message == Head(channel[rx])
       IN IF message.is = "writing"
            THEN screen' = [screen EXCEPT !.written = message.written] /\ UNCHANGED rx
            ELSE screen' = [at |-> message.is] /\ rx' = NoFlash
    /\ UNCHANGED <<main, disks, overlooked, selected, named, thread, content, flashes, worldVars>>

---------------------------------------------------------------------------
(* flash_image.                                                             *)

Step(f, pc) == thread' = [thread EXCEPT ![f].pc = pc]
Tell(f, message) == channel' = [channel EXCEPT ![f] = Append(@, message)]
Quiet == UNCHANGED <<appVars, rx, flashes, worldVars>>

\* The image and the disk are opened; an image is never empty.
Open(f) ==
    /\ thread[f].pc = "open" /\ thread[f].disk \in attached
    /\ Step(f, "copy")
    /\ UNCHANGED <<channel, content>> /\ Quiet

\* Mutant: the writes are buffered.
WriteChunk_Buffered(f) ==
    /\ thread[f].pc = "copy" /\ thread[f].written < Size[thread[f].disk]
    /\ thread[f].written < Chunks /\ thread[f].disk \in attached
    /\ thread' = [thread EXCEPT ![f].pc = "send", ![f].written = @ + 1]
    /\ UNCHANGED <<channel, content>> /\ Quiet

\* The next chunk is read and written with O_DSYNC: it is on the disk when
\* write_all returns.
WriteChunk(f) ==
    /\ thread[f].pc = "copy" /\ thread[f].written < Size[thread[f].disk]
    /\ thread[f].written < Chunks /\ thread[f].disk \in attached
    /\ thread' = [thread EXCEPT ![f].pc = "send", ![f].written = @ + 1]
    /\ content' = [content EXCEPT ![thread[f].disk] = @ \cup {thread[f].written + 1}]
    /\ UNCHANGED channel /\ Quiet

SendProgress(f) ==
    /\ thread[f].pc = "send"
    /\ Tell(f, [is |-> "writing", written |-> thread[f].written])
    /\ Step(f, "copy")
    /\ UNCHANGED content /\ Quiet

\* A read of nothing: the image is over.
EndOfImage(f) ==
    /\ thread[f].pc = "copy" /\ thread[f].written = Chunks
    /\ Step(f, "reread")
    /\ UNCHANGED <<channel, content>> /\ Quiet

\* blockdev's own result is not looked at.
RereadTable(f) ==
    /\ thread[f].pc = "reread"
    /\ Tell(f, [is |-> "done"])
    /\ Step(f, "ended")
    /\ UNCHANGED content /\ Quiet

\* Mutant: the thread gives up without a word.
FlashFails_Silent(f) ==
    /\ thread[f].pc \in {"open", "copy", "reread"}
    /\ Step(f, "ended")
    /\ UNCHANGED <<channel, content>> /\ Quiet

\* Opening, reading, decompressing, writing (the disk is full, or gone) or
\* running blockdev fails.
FlashFails(f) ==
    /\ thread[f].pc \in {"open", "copy", "reread"}
    /\ Tell(f, [is |-> "error"])
    /\ Step(f, "ended")
    /\ UNCHANGED content /\ Quiet

flash_image(f) ==
    \/ Open(f) \/ WriteChunk(f) \/ SendProgress(f) \/ EndOfImage(f) \/ RereadTable(f)
    \/ FlashFails(f)

---------------------------------------------------------------------------
(* The world: the operator mounts from the shell, and pulls or adds disks.  *)

Mount(d, how) ==
    /\ main = "shell" /\ d \in attached \ Usb
    /\ mounted' = [mounted EXCEPT ![d] = how]
    /\ UNCHANGED <<appVars, flashVars, attached, shells>>

Replug(d) ==
    /\ d \notin Usb
    /\ attached' = IF d \in attached THEN attached \ {d} ELSE attached \cup {d}
    /\ mounted' = [mounted EXCEPT ![d] = "no"]
    /\ UNCHANGED <<appVars, flashVars, shells>>

---------------------------------------------------------------------------
Next ==
    \/ Start \/ SelectNext \/ SelectPrev \/ Choose \/ Confirm \/ Back \/ Reboot
    \/ CtrlC \/ Shell \/ ShellEnds \/ Fail \/ Receive
    \/ \E f \in Flash : flash_image(f)
    \/ \E d \in Disk : Replug(d) \/ \E how \in {"no", "direct", "mapped"} : Mount(d, how)

Spec == Init /\ [][Next]_vars

\* The loop comes back every 50 ms while it listens, and the thread's reads and
\* writes return.  Nobody has to press a key.
FairSpec ==
    Spec /\ WF_vars(Receive) /\ \A f \in Flash : WF_vars(flash_image(f))

---------------------------------------------------------------------------
(* Properties.                                                              *)

\* What the operator is told of a disk is on it: "Flash complete" means every
\* chunk of the image, and the progress shown is never ahead of the disk, so
\* pulling the plug loses nothing that was reported (main.rs:174-190).
ScreenIsTrue ==
    main = "run" =>
        /\ screen.at = "done" => content[named] = 1 .. Chunks
        /\ screen.at = "flash" => 1 .. screen.written \subseteq content[named]

\* A thread writes only to the disk the Confirm screen named, which was neither
\* the live image's kind nor mounted by name, whatever was mounted in a shell
\* before, listed when, or selected where (main.rs:101-110, 504-535).  Excepted is
\* just a disk that was mounted when the list was read and got into it because
\* findmnt or lsblk failed, which is_mounted takes for "not mounted" (main.rs:125-157).
OnlyTheConfirmedDiskIsWritten ==
    \A f \in Flash : thread[f].pc \in Live =>
        /\ thread[f].disk = named /\ named \notin Usb
        /\ mounted[named] = "direct" => named \in overlooked

\* No two threads write, and progress finds the Flashing screen it updates
\* (main.rs:466 "unreachable").
OneWriterAtATime ==
    /\ \A f \in Flash : thread[f].pc \in Live => rx = f
    /\ main = "run" => (rx # NoFlash <=> screen.at = "flash")

\* A flash ends on the screen, whatever fails (main.rs:201-204).
FlashEnds == screen.at = "flash" ~> screen.at # "flash"
===========================================================================
