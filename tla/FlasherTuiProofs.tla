------------------------- MODULE FlasherTuiProofs -------------------------
(* Proofs about FlasherTui, for any disks, image and bounds.  What a flash   *)
(* may write to was decided when the list was read, what the screen may say  *)
(* when the thread wrote: IInv carries both from there to here.              *)
EXTENDS FlasherTui, TLAPS, FiniteSetTheorems

\* No listed disk is the live image's, or mounted by name unless its query
\* failed; a mount needs the shell, and leaving it reads the list again.
ListedOK ==
    main = "run" => \A i \in DOMAIN disks :
        disks[i] \notin Usb /\ (mounted[disks[i]] = "direct" => disks[i] \in overlooked)

\* A program that does not read keys shows the list and listens to nothing.
RestOK == main # "run" => screen.at = "select" /\ rx = NoFlash

\* The index on the screen still means the disk that was named.
NamedOK == screen.at \in {"confirm", "flash"} => disks[screen.idx] = named

\* Threads are numbered in the order of the flashes.
FreshOK == \A f \in Flash : f > flashes => thread[f].pc = "none" /\ channel[f] = <<>>

\* What a thread has counted is on its disk.
PlacedOK == \A f \in Flash : 1 .. thread[f].written \subseteq content[thread[f].disk]

\* A message says no more than its thread has done, and the last one is the last.
ToldOK ==
    \A f \in Flash : \A i \in DOMAIN channel[f] :
        /\ channel[f][i].is = "writing" => channel[f][i].written <= thread[f].written
        /\ channel[f][i].is = "done" => thread[f].written = Chunks
        /\ channel[f][i].is # "writing" => thread[f].pc = "ended"

ThreadOK ==
    \A f \in Flash :
        /\ thread[f].pc = "send" => thread[f].written > 0
        /\ thread[f].pc = "reread" => thread[f].written = Chunks
        /\ thread[f].pc \in Live => rx = f

\* The flash that is listened to is the one on the screen.
ListeningOK ==
    /\ rx # NoFlash <=> screen.at = "flash"
    /\ rx # NoFlash =>
         /\ rx <= flashes /\ thread[rx].disk = named
         /\ screen.written <= thread[rx].written

DoneOK == screen.at = "done" => content[named] = 1 .. Chunks

IInv ==
    /\ TypeOK /\ ListedOK /\ RestOK /\ NamedOK /\ FreshOK /\ PlacedOK /\ ToldOK
    /\ ThreadOK /\ ListeningOK /\ DoneOK

USE DiskAssumption, ImageAssumption, BoundsAssumption DEF Flash, NoFlash

---------------------------------------------------------------------------
\* The list holds offered disks only, and no more than there are.
LEMMA DiscoveredDisks ==
    ASSUME TypeOK, List
    PROVE  /\ disks' \in Seq(Disk) /\ Len(disks') <= Cardinality(Disk) /\ overlooked' \subseteq Disk
           /\ \A i \in DOMAIN disks' :
                 disks'[i] \notin Usb /\ (mounted[disks'[i]] = "direct" => disks'[i] \in overlooked')
<1>1. PICK fails \in SUBSET {d \in attached \ Usb : mounted[d] = "direct"} :
        disks' \in discover_disks(fails) /\ overlooked' = fails
  BY DEF List
<1> DEFINE found == Offered(fails)
<1>2. found \subseteq Disk /\ fails \subseteq Disk
  BY DEF Offered, TypeOK
<1>3. IsFiniteSet(found) /\ Cardinality(found) <= Cardinality(Disk)
  BY <1>2, FS_Subset DEF DiskAssumption
<1>4. Cardinality(found) \in Nat /\ Cardinality(Disk) \in Nat
  BY <1>3, FS_CardinalityType DEF DiskAssumption
<1>5. PICK n \in 0 .. Cardinality(found) : disks' \in [1 .. n -> found]
  BY <1>1 DEF discover_disks
<1>6. n \in Nat /\ n <= Cardinality(Disk)
  BY <1>3, <1>4
<1>7. disks' \in Seq(found) /\ Len(disks') = n
  BY <1>5, <1>6
<1>8. \A i \in DOMAIN disks' : disks'[i] \in found
  BY <1>5
<1> QED
  BY <1>1, <1>2, <1>6, <1>7, <1>8 DEF Offered, is_mounted

LEMMA CardinalityOfDisk == Cardinality(Disk) \in Nat
BY FS_CardinalityType DEF DiskAssumption


\* Nothing has been listed, started or written yet.
LEMMA InitIInv == Init => IInv
<1> SUFFICES ASSUME Init PROVE IInv
  OBVIOUS
<1> USE CardinalityOfDisk DEF Init
<1>1. TypeOK
  BY DEF TypeOK, Screens, Messages, Live
<1> QED
  BY <1>1 DEF IInv, ListedOK, RestOK, NamedOK, FreshOK, PlacedOK, ToldOK, ThreadOK,
     ListeningOK, DoneOK, Live

---------------------------------------------------------------------------
(* The event loop.                                                          *)

\* A fresh list is shown with nothing being flashed.
LEMMA StartOK == IInv /\ Start => IInv'
<1> SUFFICES ASSUME IInv, Start PROVE IInv'
  OBVIOUS
<1> USE CardinalityOfDisk DEF IInv, Start, flashVars, worldVars
<1>1. /\ disks' \in Seq(Disk) /\ Len(disks') <= Cardinality(Disk) /\ ListedOK'
      /\ overlooked' \subseteq Disk
  BY DiscoveredDisks DEF ListedOK
<1>2. rx = NoFlash
  BY DEF RestOK
<1>3. selected' \in 0 .. Cardinality(Disk) /\ (disks' # <<>> => selected' \in DOMAIN disks')
  <2>1. /\ Len(disks') \in Nat /\ DOMAIN disks' = 1 .. Len(disks')
        /\ disks' # <<>> => Len(disks') > 0
    BY <1>1
  <2>2. selected' = IF disks' = <<>> THEN 0 ELSE 1
    OBVIOUS
  <2> QED
    BY <1>1, <2>1, <2>2
<1>4. screen' \in Screens /\ screen'.at = "select" /\ main' = "run"
  BY DEF Screens
<1>5. TypeOK'
  BY <1>1, <1>2, <1>3, <1>4 DEF TypeOK
<1> QED
  BY <1>1, <1>2, <1>5 DEF RestOK, NamedOK, FreshOK, PlacedOK, ToldOK, ThreadOK, ListeningOK, DoneOK

\* Moving the selection, choosing and going back touch no flash.
LEMMA SelectOK == IInv /\ (SelectNext \/ SelectPrev) => IInv'
<1> SUFFICES ASSUME IInv, SelectNext \/ SelectPrev PROVE IInv'
  OBVIOUS
<1> USE CardinalityOfDisk DEF IInv, SelectNext, SelectPrev, AtScreen, flashVars, worldVars
<1>1. selected' \in 0 .. Cardinality(Disk) /\ selected' \in DOMAIN disks
  <2>1. Len(disks) \in Nat /\ Len(disks) > 0 /\ DOMAIN disks = 1 .. Len(disks)
    BY DEF TypeOK
  <2>2. selected \in 1 .. Len(disks) /\ Len(disks) <= Cardinality(Disk)
    BY <2>1 DEF TypeOK
  <2> QED
    BY <2>1, <2>2
<1>2. TypeOK'
  BY <1>1 DEF TypeOK
<1> QED
  BY <1>2 DEF ListedOK, RestOK, NamedOK, FreshOK, PlacedOK, ToldOK, ThreadOK, ListeningOK, DoneOK

LEMMA ChooseOK == IInv /\ Choose => IInv'
<1> SUFFICES ASSUME IInv, Choose PROVE IInv'
  OBVIOUS
<1> USE CardinalityOfDisk DEF IInv, Choose, AtScreen, flashVars, worldVars
<1>1. TypeOK'
  <2>1. selected \in DOMAIN disks /\ disks \in Seq(Disk) /\ Len(disks) <= Cardinality(Disk)
    BY DEF TypeOK
  <2>2. named' \in Disk /\ selected \in 1 .. Cardinality(Disk)
    BY <2>1
  <2>3. screen' \in Screens
    BY <2>2 DEF Screens
  <2> HIDE DEF AtScreen
  <2> QED
    BY <2>1, <2>2, <2>3 DEF TypeOK
<1> QED
  BY <1>1 DEF ListedOK, RestOK, NamedOK, FreshOK, PlacedOK, ToldOK, ThreadOK, ListeningOK, DoneOK

\* The new thread gets the disk that was named, and is the one listened to.
LEMMA ConfirmOK == IInv /\ Confirm => IInv'
<1> SUFFICES ASSUME IInv, Confirm PROVE IInv'
  OBVIOUS
<1> USE CardinalityOfDisk DEF IInv, Confirm, AtScreen, worldVars
<1>1. /\ flashes' \in Flash /\ flashes' > flashes
      /\ disks[screen.idx] = named /\ named \in Disk /\ screen.idx \in DOMAIN disks
      /\ screen.idx \in 1 .. Cardinality(Disk)
  <2>1. flashes \in 0 .. MaxFlashes /\ named \in Disk /\ screen.idx \in DOMAIN disks
    BY DEF TypeOK
  <2>2. flashes' \in Flash /\ flashes' > flashes
    BY <2>1
  <2>3. disks[screen.idx] = named
    BY DEF NamedOK
  <2>4. disks \in Seq(Disk) /\ Len(disks) <= Cardinality(Disk)
    BY DEF TypeOK
  <2>5. screen.idx \in 1 .. Cardinality(Disk)
    BY <2>1, <2>4
  <2> QED
    BY <2>1, <2>2, <2>3, <2>5
<1>2. thread'[flashes'] = [pc |-> "open", disk |-> named, written |-> 0]
  BY <1>1 DEF TypeOK
<1>3. \A f \in Flash : f # flashes' => thread'[f] = thread[f]
  BY DEF TypeOK
<1>4. TypeOK'
  <2>1. screen' \in Screens
    BY <1>1, ImageAssumption DEF Screens
  <2>2. thread' \in [Flash -> [pc : {"none", "ended"} \cup Live, disk : Disk, written : 0 .. Chunks]]
    <3>1. [pc |-> "open", disk |-> disks[screen.idx], written |-> 0]
            \in [pc : {"none", "ended"} \cup Live, disk : Disk, written : 0 .. Chunks]
      BY <1>1 DEF Live
    <3> QED
      BY <3>1 DEF TypeOK
  <2>3. flashes' \in 0 .. MaxFlashes
    BY <1>1
  <2> HIDE DEF AtScreen
  <2> QED
    BY <1>1, <2>1, <2>2, <2>3 DEF TypeOK
<1>5. FreshOK' /\ PlacedOK' /\ ToldOK'
  <2>1. flashes + 1 > flashes /\ thread[flashes'].pc = "none" /\ channel[flashes'] = <<>>
    BY <1>1 DEF TypeOK, FreshOK
  <2>2. FreshOK'
    <3>1. flashes \in Nat /\ \A f \in Flash : f > flashes' => f > flashes /\ f # flashes'
      BY DEF TypeOK
    <3> HIDE DEF Confirm, Flash
    <3>2. channel' = channel
      BY DEF Confirm
    <3> QED
      BY <1>3, <3>1, <3>2 DEF FreshOK
  <2>3. PlacedOK'
    BY <1>1, <1>2, <1>3 DEF PlacedOK
  <2>4. ToldOK'
    <3> HIDE DEF Confirm, Flash
    <3>1. channel' = channel
      BY DEF Confirm
    <3> QED
      BY <1>3, <2>1, <3>1 DEF ToldOK
  <2> QED
    BY <2>2, <2>3, <2>4
<1>6. ThreadOK' /\ ListeningOK'
  <2>1. \A f \in Flash : thread[f].pc \notin Live
    BY DEF ThreadOK
  <2>2. ThreadOK'
    BY <1>2, <1>3, <2>1 DEF ThreadOK, Live
  <2>3. ListeningOK'
    BY <1>1, <1>2 DEF ListeningOK
  <2> QED
    BY <2>2, <2>3
<1> QED
  <2>1. ListedOK' /\ RestOK' /\ NamedOK' /\ DoneOK'
    BY <1>1 DEF ListedOK, RestOK, NamedOK, DoneOK
  <2> HIDE DEF Confirm
  <2> QED
    BY <1>4, <1>5, <1>6, <2>1

LEMMA BackOK == IInv /\ Back => IInv'
<1> SUFFICES ASSUME IInv, Back PROVE IInv'
  OBVIOUS
<1> USE CardinalityOfDisk DEF IInv, Back, AtScreen, flashVars, worldVars
<1>1. TypeOK'
  BY DEF TypeOK, Screens
<1> QED
  BY <1>1 DEF ListedOK, RestOK, NamedOK, FreshOK, PlacedOK, ToldOK, ThreadOK, ListeningOK, DoneOK

\* The end of the process ends its threads; what they wrote stays.
LEMMA ExitOK ==
    ASSUME IInv, Exit, UNCHANGED <<disks, overlooked, selected, named, channel, content, flashes, attached, shells>>,
           mounted' \in {mounted, [d \in Disk |-> IF d \in Usb THEN "direct" ELSE "no"]}
    PROVE  IInv'
<1> USE CardinalityOfDisk DEF IInv, Exit
<1>1. \A f \in Flash :
        /\ thread[f] \in [pc : {"none", "ended"} \cup Live, disk : Disk, written : 0 .. Chunks]
        /\ thread'[f] = [thread[f] EXCEPT !.pc = IF @ \in Live THEN "ended" ELSE @]
  BY DEF TypeOK
<1>2. \A f \in Flash :
        /\ thread'[f].disk = thread[f].disk /\ thread'[f].written = thread[f].written
        /\ thread'[f].pc = IF thread[f].pc \in Live THEN "ended" ELSE thread[f].pc
        /\ thread'[f] \in [pc : {"none", "ended"}, disk : Disk, written : 0 .. Chunks]
  BY <1>1 DEF Live
<1>3. TypeOK'
  <2>1. thread' \in [Flash -> [pc : {"none", "ended"} \cup Live, disk : Disk, written : 0 .. Chunks]]
    BY <1>2
  <2> QED
    BY <2>1 DEF TypeOK, Screens
<1>4. \A f \in Flash :
        /\ thread'[f].pc \notin Live /\ thread'[f].pc \notin {"send", "reread"}
        /\ thread[f].pc \in {"none", "ended"} => thread'[f].pc = thread[f].pc
  BY <1>1, <1>2 DEF Live
<1>5. FreshOK' /\ PlacedOK' /\ ToldOK' /\ ThreadOK'
  <2> HIDE DEF Exit, Flash
  <2>1. FreshOK' /\ PlacedOK'
    BY <1>2, <1>4 DEF FreshOK, PlacedOK
  <2>2. ToldOK'
    BY <1>2, <1>4 DEF ToldOK
  <2>3. ThreadOK'
    BY <1>4 DEF ThreadOK
  <2> QED
    BY <2>1, <2>2, <2>3
<1> QED
  BY <1>3, <1>5 DEF ListedOK, RestOK, NamedOK, ListeningOK, DoneOK

\* Entering the shell needs the list on the screen.
LEMMA ShellOK == IInv /\ Shell => IInv'
<1> SUFFICES ASSUME IInv, Shell PROVE IInv'
  OBVIOUS
<1> USE CardinalityOfDisk DEF IInv, Shell, AtScreen, flashVars
<1>1. TypeOK'
  <2>1. shells' \in 0 .. MaxShells
    BY DEF TypeOK
  <2> QED
    BY <2>1 DEF TypeOK
<1> QED
  BY <1>1 DEF ListedOK, RestOK, NamedOK, FreshOK, PlacedOK, ToldOK, ThreadOK, ListeningOK, DoneOK

LEMMA ShellEndsOK == IInv /\ ShellEnds => IInv'
<1> SUFFICES ASSUME IInv, ShellEnds PROVE IInv'
  OBVIOUS
<1> USE CardinalityOfDisk DEF IInv, ShellEnds, flashVars, worldVars
<1>1. /\ disks' \in Seq(Disk) /\ Len(disks') <= Cardinality(Disk) /\ ListedOK'
      /\ overlooked' \subseteq Disk
  BY DiscoveredDisks DEF ListedOK
<1>2. rx = NoFlash /\ screen.at = "select"
  BY DEF RestOK
<1>3. /\ selected' \in 0 .. Cardinality(Disk)
      /\ disks' # <<>> => selected' \in DOMAIN disks'
  BY <1>1 DEF TypeOK, Shown
<1>4. TypeOK'
  BY <1>1, <1>2, <1>3 DEF TypeOK
<1> QED
  BY <1>1, <1>2, <1>4 DEF RestOK, NamedOK, FreshOK, PlacedOK, ToldOK, ThreadOK, ListeningOK, DoneOK

---------------------------------------------------------------------------
(* The channel.                                                             *)

\* A message is shown as it was sent, and the last one ends the listening.
LEMMA ReceiveOK == IInv /\ Receive => IInv'
<1> SUFFICES ASSUME IInv, Receive PROVE IInv'
  OBVIOUS
<1> USE CardinalityOfDisk DEF IInv, Receive, worldVars
<1> DEFINE message == Head(channel[rx])
<1>1. /\ rx \in Flash /\ screen.at = "flash" /\ thread[rx].disk = named /\ main = "run"
      /\ channel[rx] \in Seq(Messages) /\ channel[rx] # <<>>
  BY DEF TypeOK, ListeningOK
<1>2. message \in Messages /\ message = channel[rx][1] /\ 1 \in DOMAIN channel[rx]
  BY <1>1
<1>3. /\ message.is = "writing" => message.written <= thread[rx].written
      /\ message.is = "done" => content[named] = 1 .. Chunks
  BY <1>1, <1>2 DEF ToldOK, PlacedOK, TypeOK
<1>4. /\ \A f \in Flash : channel'[f] = IF f = rx THEN Tail(channel[f]) ELSE channel[f]
      /\ channel' \in [Flash -> Seq(Messages)]
  BY <1>1 DEF TypeOK
<1>5. ToldOK'
  <2> SUFFICES ASSUME NEW f \in Flash, NEW i \in DOMAIN channel'[f]
               PROVE  \E j \in DOMAIN channel[f] : channel'[f][i] = channel[f][j]
    BY DEF ToldOK
  <2>1. CASE f # rx
    BY <1>4, <2>1
  <2>2. CASE f = rx
    <3>1. i + 1 \in DOMAIN channel[f] /\ channel'[f][i] = channel[f][i + 1]
      BY <1>1, <1>4, <2>2
    <3> QED
      BY <3>1
  <2> QED
    BY <2>1, <2>2
<1>6. FreshOK' /\ PlacedOK'
  BY <1>1, <1>4 DEF FreshOK, PlacedOK, TypeOK, ListeningOK
<1>7. CASE message.is = "writing"
  <2>1. /\ screen' = [screen EXCEPT !.written = message.written] /\ rx' = rx
        /\ message.written \in 1 .. Chunks
    BY <1>2, <1>7 DEF Messages
  <2>2. /\ screen'.at = "flash" /\ screen'.idx = screen.idx
        /\ screen'.written = message.written /\ screen' \in Screens
    <3>1. screen \in [at : {"flash"}, idx : 1 .. Cardinality(Disk), written : 0 .. Chunks]
      BY <1>1 DEF TypeOK, Screens
    <3>2. /\ screen' \in [at : {"flash"}, idx : 1 .. Cardinality(Disk), written : 0 .. Chunks]
          /\ screen'.idx = screen.idx /\ screen'.written = message.written
      BY <2>1, <3>1
    <3> QED
      BY <3>2 DEF Screens
  <2>3. TypeOK'
    BY <1>1, <1>4, <2>1, <2>2 DEF TypeOK
  <2> QED
    BY <1>1, <1>3, <1>5, <1>6, <2>1, <2>2, <2>3
    DEF ListedOK, RestOK, NamedOK, ThreadOK, ListeningOK, DoneOK
<1>8. CASE message.is # "writing"
  <2>1. screen' = [at |-> message.is] /\ rx' = NoFlash /\ message.is \in {"done", "error"}
    BY <1>2, <1>8 DEF Messages
  <2>2. TypeOK'
    BY <1>4, <2>1 DEF TypeOK, Screens
  <2>3. thread[rx].pc \notin Live
    BY <1>1, <1>2, <1>8 DEF ToldOK, Live
  <2> QED
    BY <1>1, <1>3, <1>5, <1>6, <2>1, <2>2, <2>3
    DEF ListedOK, RestOK, NamedOK, ThreadOK, ListeningOK, DoneOK
<1> QED
  BY <1>7, <1>8

---------------------------------------------------------------------------
(* The flashing thread and the world.                                       *)

Thread == [pc : {"none", "ended"} \cup Live, disk : Disk, written : 0 .. Chunks]

\* A step of thread f that leaves it as r: it writes to its disk, which only
\* gains chunks, and touches nothing else but its own messages.
Steps(f, r) ==
    /\ Quiet /\ thread[f].pc \in Live
    /\ thread' = [thread EXCEPT ![f] = r]
    /\ r \in Thread /\ r.pc \in Live \cup {"ended"} /\ r.disk = thread[f].disk
    /\ r.written >= thread[f].written
    /\ r.pc = "send" => r.written > 0
    /\ r.pc = "reread" => r.written = Chunks
    /\ content' \in [Disk -> SUBSET (1 .. Chunks)]
    /\ \A d \in Disk : content[d] \subseteq content'[d]
    /\ 1 .. r.written \subseteq content'[r.disk]

\* It is silent, or says something that is true once it is done.
Says(f, r) ==
    \/ UNCHANGED channel
    \/ \E message \in Messages :
         /\ channel' = [channel EXCEPT ![f] = Append(channel[f], message)]
         /\ message.is = "writing" => message.written <= r.written
         /\ message.is = "done" => r.written = Chunks
         /\ message.is # "writing" => r.pc = "ended"

\* Each step of flash_image is of that kind.
LEMMA ThreadSteps ==
    ASSUME IInv, NEW f \in Flash, flash_image(f)
    PROVE  \E r \in Thread : Steps(f, r) /\ Says(f, r)
<1> DEFINE t == thread[f]
           At(pc, w) == [pc |-> pc, disk |-> t.disk, written |-> w]
<1>1. /\ thread \in [Flash -> Thread] /\ t \in Thread
      /\ t.disk \in Disk /\ t.written \in 0 .. Chunks
      /\ content \in [Disk -> SUBSET (1 .. Chunks)]
  BY DEF IInv, TypeOK, Thread
<1>2. 1 .. t.written \subseteq content[t.disk]
  BY DEF IInv, PlacedOK
<1>3. /\ t.pc = "send" => t.written > 0
      /\ t.pc = "reread" => t.written = Chunks
  BY DEF IInv, ThreadOK
<1>4. ASSUME NEW pc \in Live \cup {"ended"}, Step(f, pc)
      PROVE  thread' = [thread EXCEPT ![f] = At(pc, t.written)] /\ At(pc, t.written) \in Thread
  <2>1. [t EXCEPT !.pc = pc] = At(pc, t.written) /\ At(pc, t.written) \in Thread
    BY <1>1 DEF Thread
  <2>2. thread' = [thread EXCEPT ![f] = [t EXCEPT !.pc = pc]]
    BY <1>4 DEF Step
  <2> QED
    BY <2>1, <2>2
<1> HIDE DEF t
<1>5. ASSUME NEW pc \in Live \cup {"ended"}, Step(f, pc), UNCHANGED content, Quiet, t.pc \in Live,
             pc = "send" => t.written > 0, pc = "reread" => t.written = Chunks
      PROVE  Steps(f, At(pc, t.written))
  BY <1>1, <1>2, <1>4, <1>5 DEF Steps, t
<1>6. CASE Open(f)
  <2>1. Steps(f, At("copy", t.written)) /\ UNCHANGED channel
    BY <1>5, <1>6 DEF Open, Live, t
  <2> QED
    BY <2>1 DEF Says, Steps
<1>7. CASE WriteChunk(f)
  <2> DEFINE r == At("send", t.written + 1)
  <2>1. /\ t.pc = "copy" /\ t.written < Chunks /\ Quiet /\ UNCHANGED channel
        /\ content' = [content EXCEPT ![t.disk] = @ \cup {t.written + 1}]
    BY <1>7 DEF WriteChunk, t
  <2>2. thread' = [thread EXCEPT ![f] = r] /\ r \in Thread
    <3>1. thread' = [thread EXCEPT ![f] = [[t EXCEPT !.pc = "send"] EXCEPT !.written = t.written + 1]]
      BY <1>1, <1>7 DEF WriteChunk, t
    <3>2. [[t EXCEPT !.pc = "send"] EXCEPT !.written = t.written + 1] = r
      <4>1. [t EXCEPT !.pc = "send"] = At("send", t.written)
        <5>1. t \in [pc : {"none", "ended"} \cup Live, disk : Disk, written : 0 .. Chunks]
          BY <1>1 DEF Thread
        <5> QED
          BY <5>1
      <4>2. [At("send", t.written) EXCEPT !.written = t.written + 1] = r
        OBVIOUS
      <4> QED
        BY <4>1, <4>2, Zenon
    <3>3. r \in Thread
      BY <1>1, <2>1 DEF Thread, Live
    <3> QED
      BY <3>1, <3>2, <3>3
  <2>3. /\ content' \in [Disk -> SUBSET (1 .. Chunks)]
        /\ \A d \in Disk : content[d] \subseteq content'[d]
        /\ 1 .. r.written \subseteq content'[r.disk]
    <3>1. t.written + 1 \in 1 .. Chunks /\ content'[t.disk] = content[t.disk] \cup {t.written + 1}
      BY <1>1, <2>1
    <3>2. 1 .. t.written + 1 \subseteq content'[t.disk]
      BY <1>1, <1>2, <3>1
    <3>3. content' \in [Disk -> SUBSET (1 .. Chunks)]
      BY <1>1, <2>1, <3>1
    <3>4. \A d \in Disk : content[d] \subseteq content'[d]
      BY <1>1, <2>1, <3>1
    <3> QED
      BY <3>2, <3>3, <3>4
  <2>4. Steps(f, r)
    BY <1>1, <2>1, <2>2, <2>3 DEF Steps, Live, t
  <2> QED
    BY <2>1, <2>2, <2>4 DEF Says
<1>8. CASE SendProgress(f)
  <2> DEFINE message == [is |-> "writing", written |-> t.written]
  <2>1. /\ Steps(f, At("copy", t.written)) /\ At("copy", t.written) \in Thread
        /\ channel' = [channel EXCEPT ![f] = Append(channel[f], message)]
    BY <1>4, <1>5, <1>8 DEF SendProgress, Tell, Live, t
  <2>2. message \in Messages
    <3>1. t.written \in 1 .. Chunks
      BY <1>1, <1>3, <1>8 DEF SendProgress, t
    <3> QED
      BY <3>1 DEF Messages
  <2>3. Says(f, At("copy", t.written))
    <3>1. message.is = "writing" /\ message.written <= At("copy", t.written).written
      BY <1>1
    <3> HIDE DEF message, At
    <3> QED
      BY <2>1, <2>2, <3>1 DEF Says
  <2> QED
    BY <2>1, <2>3
<1>9. CASE EndOfImage(f)
  <2>1. Steps(f, At("reread", t.written)) /\ UNCHANGED channel
    BY <1>5, <1>9 DEF EndOfImage, Live, t
  <2> QED
    BY <2>1 DEF Says, Steps
<1>10. ASSUME NEW is \in {"done", "error"}, Tell(f, [is |-> is]), is = "done" => t.written = Chunks
       PROVE  Says(f, At("ended", t.written))
  BY <1>10 DEF Says, Tell, Messages
<1>11. CASE RereadTable(f)
  <2>1. Steps(f, At("ended", t.written)) /\ Says(f, At("ended", t.written))
    BY <1>3, <1>5, <1>10, <1>11 DEF RereadTable, Live, t
  <2> QED
    BY <2>1 DEF Steps
<1>12. CASE FlashFails(f)
  <2>1. Steps(f, At("ended", t.written)) /\ Says(f, At("ended", t.written))
    BY <1>5, <1>10, <1>12 DEF FlashFails, Live, t
  <2> QED
    BY <2>1 DEF Steps
<1> QED
  BY <1>6, <1>7, <1>8, <1>9, <1>11, <1>12 DEF flash_image

LEMMA ThreadStepOK ==
    ASSUME IInv, NEW f \in Flash, NEW r \in Thread, Steps(f, r), Says(f, r)
    PROVE  IInv'
<1> USE DEF IInv, Quiet, appVars, worldVars
<1>1. /\ thread \in [Flash -> Thread] /\ channel \in [Flash -> Seq(Messages)]
      /\ content \in [Disk -> SUBSET (1 .. Chunks)]
  BY DEF TypeOK, Thread
<1>2. /\ thread' \in [Flash -> Thread]
      /\ thread'[f] = r /\ \A g \in Flash \ {f} : thread'[g] = thread[g]
  BY <1>1 DEF Steps
<1>3. /\ channel' \in [Flash -> Seq(Messages)]
      /\ \A g \in Flash \ {f} : channel'[g] = channel[g]
  <2>1. CASE UNCHANGED channel
    BY <1>1, <2>1
  <2>2. CASE \E message \in Messages : channel' = [channel EXCEPT ![f] = Append(channel[f], message)]
    BY <1>1, <2>2
  <2> QED
    BY <2>1, <2>2 DEF Says
<1>4. TypeOK'
  BY <1>2, <1>3 DEF TypeOK, Thread, Steps
<1>5. /\ rx = f /\ f <= flashes /\ r.disk = named /\ named \in Disk
      /\ r.pc # "none" /\ thread[f].pc # "ended" /\ UNCHANGED <<rx, flashes, named, screen, main>>
  <2>1. /\ thread[f].pc \in Live /\ r.pc \in Live \cup {"ended"}
        /\ r.disk = thread[f].disk /\ UNCHANGED <<rx, flashes, named, screen, main>>
    BY DEF Steps
  <2>2. r.pc # "none" /\ thread[f].pc # "ended"
    BY <2>1 DEF Live
  <2>3. rx = f /\ rx # NoFlash
    BY <2>1 DEF ThreadOK
  <2>4. f <= flashes /\ thread[f].disk = named
    BY <2>3 DEF ListeningOK
  <2>5. named \in Disk
    BY DEF TypeOK
  <2> QED
    BY <2>1, <2>2, <2>3, <2>4, <2>5
<1>6. FreshOK'
  <2>1. \A g \in Flash : g > flashes => g # f
    BY <1>5 DEF TypeOK
  <2> QED
    BY <1>2, <1>3, <1>5, <2>1 DEF FreshOK
<1>7. PlacedOK'
  BY <1>1, <1>2 DEF PlacedOK, Steps, Thread
<1>8. ToldOK'
  <2> HIDE DEF Flash
  <2> SUFFICES ASSUME NEW g \in Flash, NEW i \in DOMAIN channel'[g]
               PROVE  /\ channel'[g][i].is = "writing" => channel'[g][i].written <= thread'[g].written
                      /\ channel'[g][i].is = "done" => thread'[g].written = Chunks
                      /\ channel'[g][i].is # "writing" => thread'[g].pc = "ended"
    BY DEF ToldOK
  <2>1. CASE g # f
    BY <1>2, <1>3, <2>1 DEF ToldOK
  <2>2. CASE g = f /\ i \in DOMAIN channel[f] /\ channel'[f][i] = channel[f][i]
    <3>1. channel[f] \in Seq(Messages) /\ channel[f][i] \in Messages
      BY <1>1, <2>2
    <3>2. channel[f][i].is = "writing" /\ channel[f][i].written <= thread[f].written
      BY <1>5, <2>2, <3>1 DEF ToldOK
    <3>3. thread[f].written \in Nat /\ r.written \in Nat /\ channel[f][i].written \in Nat
      BY <1>1, <3>1, <3>2 DEF Thread, Messages
    <3> QED
      BY <1>2, <2>2, <3>2, <3>3 DEF Steps
  <2>3. CASE g = f /\ UNCHANGED channel
    BY <2>2, <2>3
  <2>4. ASSUME NEW message \in Messages, g = f,
               channel' = [channel EXCEPT ![f] = Append(channel[f], message)],
               message.is = "writing" => message.written <= r.written,
               message.is = "done" => r.written = Chunks,
               message.is # "writing" => r.pc = "ended",
               ~(i \in DOMAIN channel[f] /\ channel'[f][i] = channel[f][i])
        PROVE  channel'[f][i] = message
    <3>1. channel'[f] = Append(channel[f], message) /\ channel[f] \in Seq(Messages)
      BY <1>1, <2>4
    <3> QED
      BY <2>4, <3>1
  <2> QED
    BY <1>2, <2>1, <2>2, <2>3, <2>4 DEF Says
<1>9. ThreadOK'
  BY <1>2, <1>5 DEF ThreadOK, Steps
<1>10. ListeningOK'
  <2>1. screen.written \in Nat /\ thread[f].written \in Nat /\ r.written \in Nat
    <3>1. screen.at = "flash" /\ screen \in Screens
      BY <1>5 DEF TypeOK, ListeningOK
    <3>2. screen.written \in Nat
      BY <3>1 DEF Screens
    <3> QED
      BY <1>1, <3>2 DEF Thread
  <2> QED
    BY <1>2, <1>5, <2>1 DEF ListeningOK, Steps
<1>11. DoneOK'
  BY <1>5 DEF DoneOK, ListeningOK
<1> QED
  <2>1. UNCHANGED <<main, disks, overlooked, mounted, screen, rx, named>>
    BY DEF Steps
  <2>2. ListedOK' /\ RestOK' /\ NamedOK'
    BY <2>1 DEF ListedOK, RestOK, NamedOK
  <2> QED
    BY <1>4, <1>6, <1>7, <1>8, <1>9, <1>10, <1>11, <2>2

\* Disks are mounted from the shell only, and pulled without their filesystems.
LEMMA WorldOK ==
    ASSUME IInv, NEW d \in Disk, Replug(d) \/ \E how \in {"no", "direct", "mapped"} : Mount(d, how)
    PROVE  IInv'
<1> USE DEF IInv, Replug, Mount, appVars, flashVars
<1>1. /\ mounted' \in [Disk -> {"no", "direct", "mapped"}] /\ attached' \subseteq Disk
      /\ UNCHANGED <<appVars, flashVars, shells>>
      /\ main = "run" => \A e \in Disk : mounted'[e] # "direct" \/ mounted'[e] = mounted[e]
  <2>1. CASE Replug(d)
    BY <2>1 DEF TypeOK
  <2>2. CASE \E how \in {"no", "direct", "mapped"} : Mount(d, how)
    BY <2>2 DEF TypeOK
  <2> QED
    BY <2>1, <2>2
<1> HIDE DEF Replug, Mount
<1>2. TypeOK'
  BY <1>1 DEF TypeOK
<1>3. ListedOK'
  BY <1>1 DEF ListedOK, TypeOK
<1> QED
  BY <1>1, <1>2, <1>3 DEF RestOK, NamedOK, FreshOK, PlacedOK, ToldOK, ThreadOK, ListeningOK, DoneOK

---------------------------------------------------------------------------
(* The theorems.                                                            *)

LEMMA NextIInv == IInv /\ [Next]_vars => IInv'
<1> SUFFICES ASSUME IInv, [Next]_vars PROVE IInv'
  OBVIOUS
<1>1. CASE Start
  BY <1>1, StartOK
<1>2. CASE SelectNext \/ SelectPrev
  BY <1>2, SelectOK
<1>3. CASE Choose
  BY <1>3, ChooseOK
<1>4. CASE Confirm
  BY <1>4, ConfirmOK
<1>5. CASE Back
  BY <1>5, BackOK
<1>6. CASE Reboot
  BY <1>6, ExitOK DEF Reboot
<1>7. CASE CtrlC \/ Fail
  BY <1>7, ExitOK DEF CtrlC, Fail, flashVars, worldVars
<1>8. CASE Shell
  BY <1>8, ShellOK
<1>9. CASE ShellEnds
  BY <1>9, ShellEndsOK
<1>10. CASE Receive
  BY <1>10, ReceiveOK
<1>11. ASSUME NEW f \in Flash, flash_image(f) PROVE IInv'
  BY <1>11, ThreadSteps, ThreadStepOK
<1>12. ASSUME NEW d \in Disk, Replug(d) \/ \E how \in {"no", "direct", "mapped"} : Mount(d, how)
       PROVE  IInv'
  BY <1>12, WorldOK
<1>13. CASE UNCHANGED vars
  BY <1>13 DEF vars, appVars, flashVars, worldVars, IInv, TypeOK, ListedOK, RestOK, NamedOK,
     FreshOK, PlacedOK, ToldOK, ThreadOK, ListeningOK, DoneOK
<1> QED
  BY <1>1, <1>2, <1>3, <1>4, <1>5, <1>6, <1>7, <1>8, <1>9, <1>10, <1>11, <1>12, <1>13 DEF Next

\* Whatever keys, shells, disks and failures do: the inductive invariant.
THEOREM SpecIInv == Spec => []IInv
<1>1. Init => IInv
  BY InitIInv
<1>2. IInv /\ [Next]_vars => IInv'
  BY NextIInv
<1> QED
  BY <1>1, <1>2, PTL DEF Spec

\* The loop, the threads and their messages keep their types, and every index
\* on the screen is one of the list.
THEOREM SpecTypeOK == Spec => []TypeOK
<1>1. IInv => TypeOK
  BY DEF IInv
<1> QED
  BY <1>1, SpecIInv, PTL

\* "Flash complete" and the progress are never ahead of the disk (main.rs:174-190).
THEOREM SpecScreenIsTrue == Spec => []ScreenIsTrue
<1>1. IInv => ScreenIsTrue
  <2> SUFFICES ASSUME IInv, main = "run", screen.at = "flash"
               PROVE  1 .. screen.written \subseteq content[named]
    BY DEF IInv, DoneOK, ScreenIsTrue
  <2>1. /\ rx \in Flash /\ thread[rx].disk = named /\ screen.written <= thread[rx].written
        /\ screen.written \in Nat /\ thread[rx].written \in Nat
    <3>1. rx \in Flash /\ thread[rx].disk = named /\ screen.written <= thread[rx].written
      BY DEF IInv, ListeningOK, TypeOK
    <3>2. thread[rx].written \in 0 .. Chunks
      BY <3>1 DEF IInv, TypeOK
    <3>3. screen \in Screens
      BY DEF IInv, TypeOK
    <3>4. screen.written \in 0 .. Chunks
      BY <3>3 DEF Screens
    <3> QED
      BY <3>1, <3>2, <3>4
  <2>2. 1 .. thread[rx].written \subseteq content[named]
    BY <2>1 DEF IInv, PlacedOK
  <2>3. 1 .. screen.written \subseteq 1 .. thread[rx].written
    BY <2>1
  <2> QED
    BY <2>2, <2>3
<1> QED
  BY <1>1, SpecIInv, PTL

\* A thread writes to the confirmed disk only, which is none of the live image's
\* and not mounted by name unless the query for its mounts failed when it was
\* listed (main.rs:101-110, 125-157, 504-535).
THEOREM SpecOnlyTheConfirmedDiskIsWritten == Spec => []OnlyTheConfirmedDiskIsWritten
<1>1. IInv => OnlyTheConfirmedDiskIsWritten
  <2> SUFFICES ASSUME IInv, NEW f \in Flash, thread[f].pc \in Live
               PROVE  /\ thread[f].disk = named /\ named \notin Usb
                      /\ mounted[named] = "direct" => named \in overlooked
    BY DEF OnlyTheConfirmedDiskIsWritten
  <2>1. rx = f /\ rx # NoFlash
    BY DEF IInv, ThreadOK
  <2>2. main = "run" /\ screen.at = "flash" /\ thread[f].disk = named
    BY <2>1 DEF IInv, ListeningOK, RestOK
  <2>3. screen.idx \in DOMAIN disks /\ disks[screen.idx] = named
    BY <2>2 DEF IInv, TypeOK, NamedOK
  <2> QED
    BY <2>2, <2>3 DEF IInv, ListedOK
<1> QED
  BY <1>1, SpecIInv, PTL

\* At most one thread writes, and its progress finds its screen (main.rs:466).
THEOREM SpecOneWriterAtATime == Spec => []OneWriterAtATime
<1>1. IInv => OneWriterAtATime
  BY DEF IInv, ThreadOK, ListeningOK, OneWriterAtATime
<1> QED
  BY <1>1, SpecIInv, PTL
===========================================================================
