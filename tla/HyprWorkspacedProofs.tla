------------------------ MODULE HyprWorkspacedProofs ------------------------
(***************************************************************************)
(* TLAPS proofs about HyprWorkspaced, for any monitors, slots and windows,  *)
(* and any interleaving of the daemon's requests with the session's events. *)
(***************************************************************************)
EXTENDS HyprWorkspaced, TLAPS, SequenceTheorems, FiniteSetTheorems

-----------------------------------------------------------------------------
(* The inductive invariant.                                                 *)

\* What an operation was started for is kept until its last step.
PhaseOK ==
  /\ pc \in {"switch", "move to", "window", "sync", "workspaces", "pinned", "refocus"} => goal \in Virtual
  /\ pc \in {"sync", "workspaces", "pinned", "refocus"} => origin \in Workspace /\ VirtualOf(origin) = goal
  /\ pc = "send" /\ next \in {"pinned", "refocus", "window"} =>
       goal \in Virtual /\ origin \in Workspace /\ VirtualOf(origin) = goal
  /\ pc = "synced" \/ (pc = "send" /\ next = "synced") => goal \in Virtual
  /\ pc = "prime" => origin = Priming

\* What the requests an operation has not sent yet have in common.
TodoOK == \A r \in todo :
  /\ r.op = "relocate" => SlotOf(r.arg) = SlotOfId(r.ws) /\ next \in {"everyone", "pinned"}
  /\ r.op = "follow" => r.ws \in Workspace
  /\ r.op = "window" => todo = {r} /\ at[r.arg] # Buffer /\ next \in {"synced", "idle"}
  /\ r.ws = Buffer => /\ next = "idle" /\ r.op = "silent"
                      /\ \E q \in todo : /\ r.turn < q.turn /\ q.op = "silent"
                                         /\ q.arg = r.arg /\ q.ws # Buffer
  /\ next = "idle" /\ r.op = "silent" => \A q \in todo : q.op = "silent"

\* A window in the buffer is about to leave it.
ParkOK == ~aborted => \A w \in Window : at[w] = Buffer =>
  next = "idle" /\ \E r \in todo : r.op = "silent" /\ r.arg = w /\ r.ws # Buffer

\* No monitor event is on its way, waits or was lost.
Calm == ~unassigned /\ changes = 0 /\ \A i \in DOMAIN wire : wire[i].by # "monitors"

\* An assignment that has not looked at the workspaces' monitors yet.
BeforeMoves == pc \in {"cleanup", "move"} \/ (pc = "send" /\ next = "move")

\* An operation that goes on with what it saw of the monitors.
Looking == BeforeMoves \/ pc \in {"everyone", "workspaces"} \/ (pc = "send" /\ next = "everyone")

SeenOK == Calm =>
  /\ BeforeMoves => known = present
  /\ Looking => \A m \in Monitor : seen[m] # None <=> m \in present

Relocating(id) == pc = "send" /\ next = "everyone"
  /\ \E r \in todo : r.op = "relocate" /\ r.ws = id /\ r.arg \in Owner(id)

HomeOK == Calm /\ pc # "assign" /\ ~BeforeMoves =>
  /\ known = present
  /\ \A id \in Workspace : Owner(id) = {} \/ home[id] \in Owner(id) \/ Relocating(id)

\* A sync that knows the monitors moves no workspace: they are at home.
MovesOK == Calm /\ next = "pinned" => \A r \in todo : r.op # "relocate"

\* What the user made of monitor m is still to be read, and the event that says so
\* is the last one of the monitor.
Pending(m) ==
  /\ shows[m] \in Workspace
  /\ \/ /\ watch.unread /\ watch.id = shows[m] /\ watch.by = "user"
        /\ \A j \in DOMAIN wire : home[wire[j].id] # m
     \/ \E i \in DOMAIN wire : /\ wire[i] = [id |-> shows[m], by |-> "user"]
                               /\ \A j \in DOMAIN wire : i < j => home[wire[j].id] # m

\* A request not sent yet brings monitor m to virtual workspace g.
Visiting(m, g) == pc = "send" /\ next \in {"assigned", "pinned", "window"}
  /\ \E r \in todo : r.op = "focus" /\ home[r.ws] = m /\ VirtualOf(r.ws) = g

\* The sync will go back to the event's workspace.
Returning == pc \in {"pinned", "refocus"} \/ (pc = "send" /\ next \in {"pinned", "refocus"})

\* Monitor m shows virtual workspace g, or the user made it show another one.
Fine(m, g) == VirtualOf(shows[m]) = g \/ Pending(m)

\* Every monitor shows virtual workspace g, or will.
Settled(g) == g \in Virtual /\ \A m \in present :
  Fine(m, g) \/ Visiting(m, g) \/ (Returning /\ home[origin] = m)

\* An assignment is under way that has not visited the monitors, or a sync.
Assigning == pc \in {"assign", "everyone"} \/ BeforeMoves \/ (pc = "send" /\ next = "everyone")
Syncing == \/ pc \in {"sync", "workspaces", "pinned", "refocus", "synced"}
           \/ pc = "window" /\ origin # Priming
           \/ pc = "send" /\ next \in {"pinned", "refocus", "window", "synced"}

\* No operation, or one that neither synchronises nor assigns.
Quiet == ~Syncing /\ ~Assigning

\* The requests not sent yet that focus a window focus one on a workspace.
WindowsOK == \A r \in todo : r.op = "window" => at[r.arg] \in Workspace \cup {Closed}

\* A single monitor is never synchronised.
Several == \E m, n \in present : m # n

\* A sync sees the monitors as they are, brings them to the virtual workspace of its
\* event, and leaves them there until an event that is still to be read.
SyncOK == Calm /\ ~missed /\ Several =>
  /\ pc = "workspaces" => \A m \in present : seen[m] = shows[m] \/ Pending(m)
  /\ Syncing /\ pc \notin {"sync", "workspaces"} => Settled(goal)
  /\ Quiet => \E g \in Virtual : synced \in {NoVirtual, g} /\ Settled(g)
  /\ WindowsOK

IInv == /\ TypeOK /\ PhaseOK /\ TodoOK /\ ParkOK /\ SeenOK /\ HomeOK
        /\ ShownAtHome /\ MovesOK /\ SyncOK

-----------------------------------------------------------------------------
(* The numbers of workspaces.                                               *)

LEMMA IdFacts ==
  ASSUME NEW s \in Monitor, NEW v \in Virtual
  PROVE  /\ Id(s, v) \in Workspace /\ Id(s, v) > 0
         /\ VirtualOf(Id(s, v)) = v /\ SlotOfId(Id(s, v)) = s
         /\ Id(s, v) # Buffer /\ Id(s, v) # None /\ Id(s, v) # Closed
<1>1. s \in 0 .. 98 /\ v \in 1 .. 9
  BY MonitorAssumption, NumVirtualAssumption DEF Virtual
<1>2. (10 * s + v) % 10 = v /\ (10 * s + v) \div 10 = s
  BY <1>1
<1>3. 10 * s + v < 10 => s = 0
  BY <1>1
<1> QED
  BY <1>1, <1>2, <1>3 DEF Id, Workspace, VirtualOf, SlotOfId, Buffer, None, Closed, NoVirtual

LEMMA OrphanFacts ==
  ASSUME NEW o \in Orphans
  PROVE  /\ o \in Nat /\ VirtualOf(o) = NoVirtual /\ o \notin Workspace
         /\ o # Buffer /\ o # None /\ o # Closed
         /\ o + 1 \in Workspace
<1>1. PICK s \in Monitor : o = 10 * s
  BY DEF Orphans, Orphan
<1>2. s \in 0 .. 98 /\ 1 \in Virtual
  BY MonitorAssumption, NumVirtualAssumption DEF Virtual
<1>3. o % 10 = 0
  BY <1>1, <1>2
<1>4. o \notin Workspace
  <2> SUFFICES ASSUME o \in Workspace  PROVE FALSE
    OBVIOUS
  <2>1. PICK t \in Monitor, v \in Virtual : o = Id(t, v)
    BY DEF Workspace
  <2>2. VirtualOf(o) = v /\ o > 0
    BY <2>1, IdFacts
  <2> QED
    BY <1>3, <2>2, NumVirtualAssumption DEF VirtualOf, Virtual, NoVirtual
<1>5. o + 1 = Id(s, 1)
  BY <1>1 DEF Id
<1> QED
  BY <1>1, <1>2, <1>3, <1>4, <1>5, IdFacts DEF VirtualOf, Buffer, None, Closed, NoVirtual

LEMMA WorkspaceFacts ==
  ASSUME NEW id \in Workspace
  PROVE  /\ id # Buffer /\ id # None /\ id # Closed /\ id \notin Orphans /\ id > 0
         /\ VirtualOf(id) \in Virtual /\ VirtualOf(id) # NoVirtual
<1>1. PICK t \in Monitor, v \in Virtual : id = Id(t, v)
  BY DEF Workspace
<1>2. id \notin Orphans
  BY OrphanFacts
<1> QED
  BY <1>1, <1>2, IdFacts, NumVirtualAssumption DEF Virtual, NoVirtual

\* Everywhere a monitor can show.
LEMMA ShowableFacts ==
  ASSUME NEW id \in Workspace \cup Orphans
  PROVE  /\ id # Buffer /\ id # None /\ id # Closed /\ id \in Everywhere
         /\ VirtualOf(id) \in Virtual \cup {NoVirtual}
         /\ VirtualOf(id) # NoVirtual => id \in Workspace
  BY WorkspaceFacts, OrphanFacts DEF Everywhere

LEMMA NextPrevVirtual ==
  ASSUME NEW v \in Virtual
  PROVE  NextVirtual(v) \in Virtual /\ PrevVirtual(v) \in Virtual
  BY NumVirtualAssumption DEF Virtual, NextVirtual, PrevVirtual

LEMMA RequestFacts ==
  ASSUME NEW r \in Request
  PROVE  /\ r.turn \in Nat
         /\ r.op \in {"focus", "active", "silent", "follow", "relocate", "window"}
         /\ r.op \in {"focus", "active", "relocate"} => r.ws \in Workspace
         /\ r.op \in {"silent", "follow"} => r.ws \in Everywhere
         /\ r.op \in {"silent", "follow", "window"} => r.arg \in Window
         /\ r.op = "relocate" => r.arg \in Monitor
         /\ r.op = "window" => r.ws = None
  BY DEF Request

LEMMA SlotOfType ==
  ASSUME NEW m \in Monitor
  PROVE  SlotOf(m) \in Monitor
  BY SlotAssumption DEF SlotOf

\* The workspace of virtual workspace v on monitor m.
LEMMA TargetFacts ==
  ASSUME NEW m \in Monitor, NEW v \in Virtual
  PROVE  /\ Id(SlotOf(m), v) \in Workspace /\ Id(SlotOf(m), v) # Buffer
         /\ SlotOfId(Id(SlotOf(m), v)) = SlotOf(m)
  BY SlotOfType, IdFacts

LEMMA Turns ==
  ASSUME NEW m \in Monitor
  PROVE  m \in Nat /\ 2 * m \in Nat /\ 2 * m + 1 \in Nat
<1>1. m \in 0 .. 98
  BY MonitorAssumption
<1> QED
  BY <1>1

-----------------------------------------------------------------------------
(* Types.                                                                   *)

SessionType ==
  /\ present \subseteq Monitor /\ focus \in present
  /\ shows \in [Monitor -> Workspace \cup Orphans \cup {None}]
  /\ \A m \in Monitor : (shows[m] # None) = (m \in present)
  /\ home \in [Everywhere -> present]
  /\ at \in [Window -> Everywhere \cup {Closed}]

WireType == wire \in Seq(Event) /\ Len(wire) <= MaxWire

JobType ==
  /\ pc \in Operation /\ next \in Sending
  /\ todo \subseteq Request
  /\ pc = "send" <=> todo # {}
  /\ goal \in Virtual \cup {NoVirtual}
  /\ origin \in Workspace \cup {None, Priming}
  /\ seen \in [Monitor -> Workspace \cup Orphans \cup {None}]

KeptType ==
  /\ watch \in [id : Workspace \cup Orphans \cup {None}, by : {"user", "sync"}, unread : BOOLEAN]
  /\ changes \in Nat /\ inputs \in 0 .. MaxInputs
  /\ synced \in Virtual \cup {NoVirtual}
  /\ known \subseteq Monitor /\ pinned \subseteq Window
  /\ missed \in BOOLEAN /\ unassigned \in BOOLEAN /\ aborted \in BOOLEAN

LEMMA TypeParts == TypeOK <=> SessionType /\ WireType /\ JobType /\ KeptType
  BY DEF TypeOK, SessionType, WireType, JobType, KeptType

LEMMA PostType ==
  ASSUME WireType, NEW e \in Event, Post(e)
  PROVE  WireType'
<1>1. wire' \in Seq(Event) /\ Len(wire') = Len(wire) + 1
  BY AppendProperties DEF WireType, Post
<1>2. Len(wire) \in Nat
  BY LenProperties DEF WireType
<1> QED
  BY <1>1, <1>2, BoundsAssumption DEF WireType, Post

LEMMA VisitType ==
  ASSUME SessionType, WireType, NEW id \in Workspace \cup Orphans, NEW by \in {"user", "sync"},
         Visit(id, by)
  PROVE  /\ shows' \in [Monitor -> Workspace \cup Orphans \cup {None}]
         /\ \A m \in Monitor : (shows'[m] # None) = (m \in present)
         /\ focus' \in present
         /\ WireType'
<1>1. id \in Everywhere /\ id # None
  BY ShowableFacts
<1>2. home[id] \in present /\ present \subseteq Monitor
  BY <1>1 DEF SessionType
<1>3. WireType'
  <2>1. [id |-> id, by |-> by] \in Event
    BY DEF Event
  <2> QED
    BY <2>1, PostType DEF Visit, WireType
<1> QED
  BY <1>1, <1>2, <1>3 DEF Visit, SessionType

LEMMA SenderType ==
  ASSUME NEW id
  PROVE  Sender(id) \in {"user", "sync"}
  BY DEF Sender

LEMMA RelocateType ==
  ASSUME SessionType, NEW id \in Workspace, NEW m \in present, Relocate(id, m)
  PROVE  /\ shows' \in [Monitor -> Workspace \cup Orphans \cup {None}]
         /\ \A n \in Monitor : (shows'[n] # None) = (n \in present)
         /\ focus' \in present
         /\ home' \in [Everywhere -> present]
         /\ wire' = wire
<1> DEFINE old == home[id]
           left == {ws \in Workspace : home[ws] = old /\ ws # id}
           free == {ws \in Orphans : \A n \in present : shows[n] # ws}
<1>1. id \in Everywhere /\ id # None /\ old \in present /\ present \subseteq Monitor
  BY ShowableFacts DEF SessionType
<1>2. CASE shows[old] # id \/ old = m
  BY <1>1, <1>2 DEF Relocate, SessionType
<1>3. CASE ~(shows[old] # id \/ old = m)
  <2>1. PICK other \in IF left = {} THEN free ELSE left :
            /\ home' = [home EXCEPT ![id] = m, ![other] = old]
            /\ shows' = IF focus = old THEN [shows EXCEPT ![old] = other, ![m] = id]
                        ELSE [shows EXCEPT ![old] = other]
            /\ focus' = IF focus = old THEN m ELSE focus
            /\ UNCHANGED wire
    BY <1>3 DEF Relocate
  <2>2. other \in Workspace \cup Orphans
    OBVIOUS
  <2>3. other # None
    BY <2>2, ShowableFacts
  <2> HIDE DEF left, free
  <2> QED
    BY <1>1, <2>1, <2>2, <2>3 DEF SessionType
<1> QED
  BY <1>2, <1>3

LEMMA PerformType ==
  ASSUME SessionType, WireType, NEW r \in Request, ~Refused(r),
         r.op = "window" => at[r.arg] # Buffer,
         r.op = "follow" => r.ws \in Workspace \cup Orphans,
         Perform(r)
  PROVE  SessionType' /\ WireType'
<1>1. present' = present
  BY DEF Perform
<1> USE RequestFacts, SenderType
<1>2. CASE r.op = "focus"
  BY <1>1, <1>2, VisitType DEF Perform, SessionType
<1>3. CASE r.op = "silent"
  BY <1>1, <1>3 DEF Perform, SessionType, WireType, Everywhere
<1>4. CASE r.op = "follow"
  BY <1>1, <1>4, VisitType DEF Perform, SessionType
<1>5. CASE r.op = "active"
  BY <1>1, <1>5, VisitType, ShowableFacts DEF Perform, SessionType
<1>6. CASE r.op = "relocate"
  BY <1>1, <1>6, RelocateType DEF Perform, Refused, SessionType, WireType
<1>7. CASE r.op = "window"
  <2>1. at[r.arg] \in Workspace \cup Orphans
    BY <1>7 DEF Refused, SessionType, Everywhere
  <2> QED
    BY <1>1, <1>7, <2>1, VisitType DEF Perform, SessionType
<1> QED
  BY <1>2, <1>3, <1>4, <1>5, <1>6, <1>7

\* The step of the daemon that sends requests, or has none to send.
LEMMA SendAllType ==
  ASSUME JobType, NEW S \in SUBSET Request, NEW p \in Operation \ {"send"},
         S # {} => p \in Sending, SendAll(S, p)
  PROVE  JobType'
  BY DEF SendAll, To, JobType, Operation, Sending

LEMMA ToType ==
  ASSUME JobType, NEW p \in Operation \ {"send"}, pc # "send", To(p), UNCHANGED <<todo, next>>
  PROVE  JobType'
  BY DEF To, JobType

LEMMA AfterJobType == AfterJob \in Operation \ {"send"}
  BY DEF AfterJob, Operation

LEMMA MoveAllType ==
  ASSUME NEW turn \in Nat, NEW from, NEW to \in Everywhere
  PROVE  MoveAll(turn, from, to) \subseteq Request
  BY DEF MoveAll, Req, Request

LEMMA SendJob == JobType /\ Send => JobType'
<1> SUFFICES ASSUME JobType, Send  PROVE JobType'
  OBVIOUS
<1>1. PICK r \in todo : SendAll(todo \ {r}, next)
  BY DEF Send
<1>2. next \in Operation \ {"send"}
  BY DEF JobType, Sending, Operation
<1> QED
  BY <1>1, <1>2, SendAllType DEF JobType

LEMMA SendFailsJob == JobType /\ SendFails => JobType'
<1> SUFFICES ASSUME JobType, SendFails  PROVE JobType'
  OBVIOUS
<1>1. PICK r \in todo :
        IF next = "pinned" THEN SendAll(todo \ {r}, next)
        ELSE IF next \in {"refocus", "window", "synced"} THEN SendAll({}, next)
        ELSE SendAll({}, IF next = "idle" THEN "idle" ELSE AfterJob)
  BY DEF SendFails
<1>2. next \in Operation \ {"send"} /\ "idle" \in Operation \ {"send"}
  BY DEF JobType, Sending, Operation
<1> QED
  BY <1>1, <1>2, AfterJobType, SendAllType DEF JobType

LEMMA QueryFailsJob == JobType /\ QueryFails => JobType'
<1> SUFFICES ASSUME JobType, QueryFails  PROVE JobType'
  OBVIOUS
<1>1. PICK p \in {"refocus", "synced", AfterJob, "idle"} : SendAll({}, p)
  <2>1. SendAll({}, CASE pc = "pinned" -> "refocus"
                     [] pc = "window" /\ origin # Priming -> "synced"
                     [] pc \in {"assign", "cleanup", "move", "everyone"} -> AfterJob
                     [] OTHER -> "idle")
    BY DEF QueryFails
  <2> QED
    BY <2>1
<1>2. p \in Operation \ {"send"}
  BY <1>1, AfterJobType DEF Operation
<1> QED
  BY <1>1, <1>2, SendAllType

LEMMA AssignJob == SessionType /\ JobType /\ Assign => JobType'
  BY DEF SessionType, JobType, Assign, Operation

LEMMA CleanupOrphansJob == JobType /\ CleanupOrphans => JobType'
<1> SUFFICES ASSUME JobType, CleanupOrphans  PROVE JobType'
  OBVIOUS
<1>1. \A o \in Rescued : MoveAll(o, o, o + 1) \subseteq Request
  BY OrphanFacts, MoveAllType DEF Rescued, Everywhere
<1> QED
  BY <1>1, SendAllType DEF CleanupOrphans, Operation, Sending

LEMMA MoveWorkspacesJob == JobType /\ MoveWorkspaces => JobType'
<1> SUFFICES ASSUME JobType, MoveWorkspaces  PROVE JobType'
  OBVIOUS
<1>1. \A id \in Workspace : id \in Nat
  BY MonitorAssumption, NumVirtualAssumption DEF Workspace, Id, Virtual
<1>2. \A id \in Workspace : Misplaced(id) \subseteq Request
  BY <1>1 DEF Misplaced, Req, Request
<1> QED
  BY <1>2, SendAllType DEF MoveWorkspaces, Operation, Sending

LEMMA FocusEveryoneJob == SessionType /\ JobType /\ FocusEveryone => JobType'
<1> SUFFICES ASSUME SessionType, JobType, FocusEveryone  PROVE JobType'
  OBVIOUS
<1> DEFINE shown == VirtualOf(shows[focus])
           v == IF shown = NoVirtual THEN 1 ELSE shown
           visited == {m \in Monitor : seen[m] \notin {None, Id(SlotOf(m), v)}}
           S == {Req(m, "focus", Id(SlotOf(m), v), None) : m \in visited}
<1>1. v \in Virtual
  BY ShowableFacts, NumVirtualAssumption DEF SessionType, Virtual
<1>2. \A m \in Monitor : m \in Nat /\ Id(SlotOf(m), v) \in Workspace
  BY <1>1, TargetFacts, Turns
<1>3. S \subseteq Request
  BY <1>2 DEF Req, Request
<1>4. SendAll(S, "assigned")
  BY DEF FocusEveryone
<1> HIDE DEF S
<1> QED
  BY <1>3, <1>4, SendAllType DEF Operation, Sending

LEMMA VisitMonitorsJob == SessionType /\ JobType /\ PhaseOK /\ VisitMonitors => JobType'
<1> SUFFICES ASSUME SessionType, JobType, PhaseOK, VisitMonitors  PROVE JobType'
  OBVIOUS
<1> DEFINE target(m) == Id(SlotOf(m), goal)
           visited == {m \in Monitor : target(m) # origin /\ seen[m] \notin {None, target(m)}}
           away == {m \in visited : home[target(m)] # m}
           S == {Req(2 * m, "relocate", target(m), m) : m \in away}
                  \cup {Req(2 * m + 1, "focus", target(m), None) : m \in visited}
<1>1. goal \in Virtual
  BY DEF VisitMonitors, PhaseOK
<1>2. \A m \in Monitor : 2 * m \in Nat /\ 2 * m + 1 \in Nat /\ target(m) \in Workspace
  BY <1>1, TargetFacts, Turns
<1>3. S \subseteq Request
  BY <1>2 DEF Req, Request
<1>4. SendAll(S, "pinned")
  BY DEF VisitMonitors
<1> HIDE DEF S
<1> QED
  BY <1>3, <1>4, SendAllType DEF Operation, Sending

LEMMA MovePinnedJob == SessionType /\ JobType /\ PhaseOK /\ MovePinned => JobType'
<1> SUFFICES ASSUME SessionType, JobType, PhaseOK, MovePinned  PROVE JobType'
  OBVIOUS
<1> DEFINE target(w) == Id(SlotOf(home[at[w]]), goal)
           moved == {w \in pinned \cap Open : at[w] # target(w)}
           S == {Req(0, "silent", target(w), w) : w \in moved}
<1>1. goal \in Virtual
  BY DEF MovePinned, PhaseOK
<1>2. \A w \in Open : w \in Window /\ at[w] \in Everywhere /\ home[at[w]] \in Monitor
  BY DEF Open, SessionType
<1>3. \A w \in Open : target(w) \in Everywhere
  BY <1>1, <1>2, SlotOfType, IdFacts DEF Everywhere
<1>4. S \subseteq Request
  BY <1>2, <1>3 DEF Req, Request
<1>5. SendAll(S, "refocus")
  BY DEF MovePinned
<1> HIDE DEF S
<1> QED
  BY <1>4, <1>5, SendAllType DEF Operation, Sending

LEMMA RefocusJob == JobType /\ PhaseOK /\ Refocus => JobType'
<1> SUFFICES ASSUME JobType, PhaseOK, Refocus  PROVE JobType'
  OBVIOUS
<1>1. {} \subseteq Request /\ {Req(0, "focus", origin, None)} \subseteq Request
  BY DEF Refocus, PhaseOK, Req, Request
<1> QED
  BY <1>1, SendAllType DEF Refocus, Operation, Sending

LEMMA FocusUnderCursorJob == JobType /\ FocusUnderCursor => JobType'
<1> SUFFICES ASSUME JobType, FocusUnderCursor  PROVE JobType'
  OBVIOUS
<1>1. PICK then \in {"idle", "synced"} :
        SendAll({}, then) \/ \E w \in Window : SendAll({Req(0, "window", None, w)}, then)
  BY DEF FocusUnderCursor
<1>2. \A w \in Window : {Req(0, "window", None, w)} \subseteq Request
  BY DEF Req, Request
<1> QED
  BY <1>1, <1>2, SendAllType DEF Operation, Sending

LEMMA SwitchJob == SessionType /\ JobType /\ PhaseOK /\ (SwitchVirtual \/ MoveToVirtual) => JobType'
<1> SUFFICES ASSUME SessionType, JobType, PhaseOK, SwitchVirtual \/ MoveToVirtual  PROVE JobType'
  OBVIOUS
<1>1. goal \in Virtual /\ focus \in Monitor
  BY DEF PhaseOK, SwitchVirtual, MoveToVirtual, SessionType
<1>2. /\ {Req(0, "focus", Id(SlotOf(focus), goal), None)} \subseteq Request
      /\ {Req(0, "active", Id(SlotOf(focus), goal), None)} \subseteq Request
  BY <1>1, TargetFacts DEF Req, Request
<1> QED
  BY <1>2, SendAllType DEF SwitchVirtual, MoveToVirtual, Operation, Sending

LEMMA SwapJob == SessionType /\ JobType /\ Swap => JobType'
<1> SUFFICES ASSUME SessionType, JobType, Swap  PROVE JobType'
  OBVIOUS
<1> DEFINE v == VirtualOf(shows[focus])
<1>1. \/ SendAll({}, "idle")
      \/ \E target \in present :
           v # NoVirtual /\ SendAll(SwapLegs(Id(SlotOf(focus), v), Id(SlotOf(target), v)), "idle")
  BY DEF Swap
<1>2. ASSUME NEW target \in present, v # NoVirtual
      PROVE  SwapLegs(Id(SlotOf(focus), v), Id(SlotOf(target), v)) \subseteq Request
  <2>1. v \in Virtual /\ focus \in Monitor /\ target \in Monitor
    BY <1>2, ShowableFacts DEF SessionType
  <2>2. /\ Id(SlotOf(focus), v) \in Everywhere /\ Id(SlotOf(target), v) \in Everywhere
        /\ Buffer \in Everywhere
    BY <2>1, TargetFacts DEF Everywhere
  <2> HIDE DEF v
  <2> QED
    BY <2>2, MoveAllType DEF SwapLegs
<1> QED
  BY <1>1, <1>2, SendAllType DEF Operation, Sending

LEMMA CollapseJob == SessionType /\ JobType /\ Collapse => JobType'
<1> SUFFICES ASSUME SessionType, JobType, Collapse  PROVE JobType'
  OBVIOUS
<1>1. PICK gathered \in SUBSET Window :
        SendAll(IF VirtualOf(shows[focus]) = NoVirtual THEN {}
                ELSE {Req(0, "follow", shows[focus], w) : w \in gathered}, "idle")
  BY DEF Collapse, Open
<1>2. shows[focus] \in Everywhere
  BY DEF SessionType, Everywhere
<1>3. {Req(0, "follow", shows[focus], w) : w \in gathered} \subseteq Request
  BY <1>2 DEF Req, Request
<1> QED
  BY <1>1, <1>3, SendAllType DEF Operation, Sending

\* The steps that send nothing.
LEMMA QuietJob ==
  ASSUME SessionType, JobType, KeptType, PhaseOK,
         Assigned \/ ReceiveChange \/ Prime \/ ReadWatch \/ SyncMonitors \/ Synced \/ Navigate
  PROVE  JobType'
<1>1. CASE Assigned
  BY <1>1, AfterJobType, SendAllType DEF Assigned
<1>2. CASE ReceiveChange
  BY <1>2, ToType DEF ReceiveChange, Idle, Operation
<1>3. CASE Prime
  <2>1. VirtualOf(shows[focus]) \in Virtual \cup {NoVirtual}
    BY ShowableFacts DEF SessionType
  <2>2. CASE VirtualOf(shows[focus]) = NoVirtual
    BY <1>3, <2>2, ToType DEF Prime, Operation
  <2>3. CASE VirtualOf(shows[focus]) # NoVirtual
    BY <1>3, <2>1, <2>3 DEF Prime, JobType, Operation
  <2> QED
    BY <2>2, <2>3
<1>4. CASE ReadWatch
  <2>1. watch.id \in Workspace \cup Orphans \/ VirtualOf(watch.id) = NoVirtual
    BY DEF KeptType, VirtualOf, None
  <2>2. \/ UNCHANGED <<pc, goal, origin>>
        \/ /\ VirtualOf(watch.id) # NoVirtual
           /\ pc' = "sync" /\ goal' = VirtualOf(watch.id) /\ origin' = watch.id
    BY <1>4 DEF ReadWatch
  <2>3. pc # "send" /\ UNCHANGED <<todo, next, seen>>
    BY <1>4 DEF ReadWatch, Idle
  <2> QED
    BY <2>1, <2>2, <2>3, ShowableFacts DEF JobType, Operation
<1>5. CASE SyncMonitors
  BY <1>5, ToType DEF SyncMonitors, SessionType, JobType, Operation
<1>6. CASE Synced
  BY <1>6, ToType DEF Synced, Operation
<1>7. CASE Navigate
  <2> DEFINE primary == {m \in present : SlotOf(m) = 0}
             current == IF primary = {} THEN NoVirtual ELSE VirtualOf(shows[CHOOSE m \in primary : TRUE])
  <2>1. current \in Virtual \cup {NoVirtual}
    BY ShowableFacts DEF SessionType
  <2>2. CASE current = NoVirtual
    BY <1>7, <2>2, ToType DEF Navigate, Operation
  <2>3. CASE current # NoVirtual
    <3>1. goal' \in Virtual /\ pc' = "switch" /\ pc # "send" /\ UNCHANGED <<origin, seen, todo, next>>
      BY <1>7, <2>1, <2>3, NextPrevVirtual DEF Navigate
    <3> QED
      BY <3>1 DEF JobType, Operation
  <2> QED
    BY <2>2, <2>3
<1> QED
  BY <1>1, <1>2, <1>3, <1>4, <1>5, <1>6, <1>7

Commanded == StartSwitch \/ StartMove \/ StartNavigate \/ StartCollapse \/ StartSwap \/ StartAssign
               \/ Pin \/ Unpin

LEMMA CommandedJob == JobType /\ Commanded => JobType'
<1> SUFFICES ASSUME JobType, Commanded  PROVE JobType'
  OBVIOUS
<1>1. PICK p \in Operation \ {"send"}, v \in Virtual \cup {NoVirtual} : Command(p, v)
  BY DEF Commanded, StartSwitch, StartMove, StartNavigate, StartCollapse, StartSwap, StartAssign,
     Pin, Unpin, Operation
<1> QED
  BY <1>1 DEF Command, Idle, JobType

\* Every step of the daemon keeps the type of its job.
LEMMA DaemonJob == SessionType /\ JobType /\ KeptType /\ PhaseOK /\ Daemon => JobType'
  BY SendJob, SendFailsJob, QueryFailsJob, AssignJob, CleanupOrphansJob, MoveWorkspacesJob,
     FocusEveryoneJob, QuietJob, VisitMonitorsJob, MovePinnedJob, RefocusJob, FocusUnderCursorJob,
     SwitchJob, SwapJob, CollapseJob, CommandedJob DEF Daemon, Commanded

LEMMA CountType == inputs \in 0 .. MaxInputs /\ Count => inputs' \in 0 .. MaxInputs
  BY BoundsAssumption DEF Count

LEMMA DaemonKept == SessionType /\ JobType /\ KeptType /\ Daemon => KeptType'
<1> SUFFICES ASSUME SessionType, JobType, KeptType, Daemon  PROVE KeptType'
  OBVIOUS
<1>1. CASE UNCHANGED <<watch, changes, kept, inputs, history>>
  BY <1>1 DEF KeptType, kept, history
<1>2. CASE SendFails
  BY <1>2, CountType DEF SendFails, KeptType, events, kept
<1>3. CASE QueryFails
  BY <1>3, CountType DEF QueryFails, KeptType, events, kept
<1>4. CASE Assign
  BY <1>4 DEF Assign, KeptType, SessionType, events
<1>5. CASE FocusEveryone
  BY <1>5 DEF FocusEveryone, KeptType, events, kept
<1>6. CASE ReceiveChange
  BY <1>6 DEF ReceiveChange, KeptType, history
<1>7. CASE ReadWatch
  BY <1>7 DEF ReadWatch, KeptType, kept
<1>8. CASE Synced
  BY <1>8 DEF Synced, KeptType, JobType, events, history
<1>9. CASE Commanded
  BY <1>9, CountType DEF Commanded, StartSwitch, StartMove, StartNavigate, StartCollapse, StartSwap,
     StartAssign, Pin, Unpin, Command, KeptType, events, kept, history
<1> QED
  BY <1>1, <1>2, <1>3, <1>4, <1>5, <1>6, <1>7, <1>8, <1>9
  DEF Daemon, Commanded, Send, CleanupOrphans, MoveWorkspaces, Assigned, Prime, SyncMonitors,
      VisitMonitors, MovePinned, Refocus, FocusUnderCursor, SwitchVirtual, MoveToVirtual, Navigate,
      Swap, Collapse, events

\* Only requests change what Hyprland has.
LEMMA DaemonWaits == Daemon /\ ~Send => UNCHANGED hyprland /\ UNCHANGED wire
  BY DEF Daemon, SendFails, QueryFails, Assign, CleanupOrphans, MoveWorkspaces, FocusEveryone, Assigned,
     ReceiveChange, Prime, ReadWatch, SyncMonitors, VisitMonitors, MovePinned, Refocus,
     FocusUnderCursor, Synced, StartSwitch, StartMove, StartNavigate, StartCollapse, StartSwap,
     StartAssign, Pin, Unpin, Command, SwitchVirtual, MoveToVirtual, Navigate, Swap, Collapse, events

LEMMA DaemonSession ==
  SessionType /\ WireType /\ JobType /\ TodoOK /\ Daemon => SessionType' /\ WireType'
<1> SUFFICES ASSUME SessionType, WireType, JobType, TodoOK, Daemon  PROVE SessionType' /\ WireType'
  OBVIOUS
<1>1. CASE ~Send
  BY <1>1, DaemonWaits DEF hyprland, SessionType, WireType
<1>2. CASE Send
  <2>1. PICK r \in todo : ~Refused(r) /\ Perform(r)
    BY <1>2 DEF Send
  <2>2. r \in Request
    BY DEF JobType
  <2>3. r.op = "window" => at[r.arg] # Buffer
    BY DEF TodoOK
  <2>4. r.op = "follow" => r.ws \in Workspace \cup Orphans
    BY <2>2, RequestFacts DEF TodoOK, Everywhere
  <2> QED
    BY <2>1, <2>2, <2>3, <2>4, PerformType
<1> QED
  BY <1>1, <1>2

-----------------------------------------------------------------------------
(* The session.                                                             *)

LEMMA DeliverType == WireType /\ KeptType /\ Deliver => WireType' /\ KeptType'
<1> SUFFICES ASSUME WireType, KeptType, Deliver  PROVE WireType' /\ KeptType'
  OBVIOUS
<1>1. wire' \in Seq(Event) /\ Len(wire') = Len(wire) - 1 /\ Head(wire) \in Event
  BY HeadTailProperties DEF Deliver, WireType
<1>2. Len(wire) \in Nat
  BY LenProperties DEF WireType
<1>3. WireType'
  BY <1>1, <1>2, BoundsAssumption DEF WireType
<1>4. Head(wire).by # "monitors" =>
        Head(wire).id \in Workspace \cup Orphans /\ Head(wire).by \in {"user", "sync"}
  BY <1>1 DEF Event
<1>5. CASE Head(wire).by = "monitors"
  BY <1>3, <1>5 DEF Deliver, KeptType, kept
<1>6. CASE Head(wire).by # "monitors"
  <2>1. /\ watch' = [id |-> Head(wire).id, by |-> Head(wire).by, unread |-> TRUE]
        /\ missed' = (missed \/ (watch.unread /\ watch.by = "user" /\ home[watch.id] # home[Head(wire).id]))
        /\ UNCHANGED changes
    BY <1>6 DEF Deliver
  <2>2. missed' \in BOOLEAN
    BY <2>1
  <2>3. UNCHANGED <<kept, inputs, unassigned, aborted>>
    BY DEF Deliver
  <2> QED
    BY <1>3, <1>4, <1>6, <2>1, <2>2, <2>3 DEF KeptType, kept
<1> QED
  BY <1>5, <1>6

LEMMA HotplugType ==
  ASSUME WireType, KeptType, JobType, Hotplug
  PROVE  WireType' /\ KeptType' /\ JobType' /\ at' = at
<1>1. [by |-> "monitors"] \in Event
  BY DEF Event
<1>2. WireType'
  BY <1>1, PostType DEF Hotplug
<1> QED
  BY <1>2, CountType DEF Hotplug, KeptType, JobType, kept, job, history

LEMMA SessionTypes ==
  SessionType /\ WireType /\ JobType /\ KeptType /\ Session
    => SessionType' /\ WireType' /\ JobType' /\ KeptType'
<1> SUFFICES ASSUME SessionType, WireType, JobType, KeptType, Session
             PROVE  SessionType' /\ WireType' /\ JobType' /\ KeptType'
  OBVIOUS
<1>1. CASE Deliver
  BY <1>1, DeliverType DEF Deliver, SessionType, JobType, hyprland, job
<1>2. CASE ListenerRestarts
  <2>1. WireType'
    BY <1>2, EmptySeq, BoundsAssumption DEF ListenerRestarts, WireType
  <2> QED
    BY <1>2, <2>1, CountType DEF ListenerRestarts, SessionType, JobType, KeptType, hyprland, job, kept
<1>3. CASE FocusMonitor
  BY <1>3, CountType DEF FocusMonitor, User, SessionType, WireType, JobType, KeptType, job, kept, history
<1>4. CASE Swipe
  <2>1. PICK id \in Workspace : Visit(id, "user")
    BY <1>4 DEF Swipe
  <2> QED
    BY <1>4, <2>1, VisitType, CountType
    DEF Swipe, User, SessionType, WireType, JobType, KeptType, job, kept, history
<1>5. CASE OpenWindow
  <2>1. shows[focus] \in Everywhere
    BY DEF SessionType, Everywhere
  <2> QED
    BY <1>5, <2>1, CountType
    DEF OpenWindow, User, SessionType, WireType, JobType, KeptType, job, kept, history
<1>6. CASE CloseWindow
  BY <1>6, CountType DEF CloseWindow, User, SessionType, WireType, JobType, KeptType, job, kept, history
<1>7. CASE Unplug
  <2>1. PICK m \in present, n \in present :
          /\ m # n /\ Hotplug
          /\ present' = present \ {m}
          /\ shows' = [shows EXCEPT ![m] = None]
          /\ home' = [id \in Everywhere |-> IF home[id] = m THEN n ELSE home[id]]
          /\ focus' = IF focus = m THEN n ELSE focus
    BY <1>7 DEF Unplug
  <2>2. SessionType'
    BY <2>1, HotplugType DEF SessionType
  <2> QED
    BY <2>1, <2>2, HotplugType
<1>8. CASE Plug
  <2>1. PICK m \in Monitor \ present, returning \in SUBSET Workspace :
          /\ Hotplug
          /\ present' = present \cup {m}
          /\ home' = [id \in Everywhere |-> IF id \in returning THEN m ELSE home[id]]
          /\ \E id \in returning : shows' = [shows EXCEPT ![m] = id]
          /\ UNCHANGED focus
    BY <1>8 DEF Plug
  <2>2. PICK id \in Workspace : id # None /\ shows' = [shows EXCEPT ![m] = id]
    BY <2>1, WorkspaceFacts
  <2>3. home' \in [Everywhere -> present']
    BY <2>1 DEF SessionType
  <2>4. present' \subseteq Monitor /\ focus' \in present'
    <3>1. present' = present \cup {m} /\ focus' = focus /\ m \in Monitor
      BY <2>1
    <3>2. focus \in present /\ present \subseteq Monitor
      BY DEF SessionType
    <3>3. focus \in present' /\ present' \subseteq Monitor
      BY <3>1, <3>2
    <3> QED
      BY <3>1, <3>3
  <2>5. /\ shows' \in [Monitor -> Workspace \cup Orphans \cup {None}]
        /\ \A n \in Monitor : (shows'[n] # None) = (n \in present')
    BY <2>1, <2>2 DEF SessionType
  <2>6. at' = at
    BY <2>1, HotplugType
  <2>7. SessionType'
    BY <2>3, <2>4, <2>5, <2>6 DEF SessionType
  <2> QED
    BY <2>1, <2>7, HotplugType
<1>9. CASE ReloadConfig
  BY <1>9, HotplugType DEF ReloadConfig, SessionType
<1> QED
  BY <1>1, <1>2, <1>3, <1>4, <1>5, <1>6, <1>7, <1>8, <1>9 DEF Session

LEMMA NextType == TypeOK /\ PhaseOK /\ TodoOK /\ [Next]_vars => TypeOK'
<1> SUFFICES ASSUME SessionType, WireType, JobType, KeptType, PhaseOK, TodoOK, [Next]_vars
             PROVE  SessionType' /\ WireType' /\ JobType' /\ KeptType'
  BY DEF TypeOK, SessionType, WireType, JobType, KeptType
<1>1. CASE Daemon
  BY <1>1, DaemonSession, DaemonJob, DaemonKept
<1>2. CASE Session
  BY <1>2, SessionTypes
<1>3. CASE UNCHANGED vars
  BY <1>3 DEF vars, hyprland, events, job, kept, history, SessionType, WireType, JobType, KeptType
<1> QED
  BY <1>1, <1>2, <1>3 DEF Next

-----------------------------------------------------------------------------
(* What an operation keeps.                                                 *)

LEMMA SessionJob == Session => UNCHANGED <<job, kept, aborted>>
  BY DEF Session, Deliver, ListenerRestarts, FocusMonitor, Swipe, OpenWindow, CloseWindow, Unplug, Plug,
     ReloadConfig, Hotplug, User, history

LEMMA SendAllPhase ==
  ASSUME NEW S, NEW p, SendAll(S, p),
         p \in {"switch", "move to", "window", "sync", "workspaces", "pinned", "refocus", "synced"}
           => goal \in Virtual,
         p \in {"sync", "workspaces", "pinned", "refocus"} \/ (S # {} /\ p = "window")
           => origin \in Workspace /\ VirtualOf(origin) = goal,
         p = "prime" => origin = Priming
  PROVE  PhaseOK'
  BY DEF SendAll, To, PhaseOK

LEMMA DaemonPhase == TypeOK /\ PhaseOK /\ Daemon => PhaseOK'
<1> SUFFICES ASSUME TypeOK, PhaseOK, Daemon  PROVE PhaseOK'
  OBVIOUS
<1>0. SessionType /\ JobType /\ KeptType
  BY TypeParts
<1>1. CASE Send
  <2>1. PICK r \in todo : SendAll(todo \ {r}, next)
    BY <1>1 DEF Send
  <2> QED
    BY <1>0, <1>1, <2>1, SendAllPhase DEF PhaseOK, JobType, Sending, Send
<1>2. CASE SendFails
  <2>1. PICK r \in todo :
          IF next = "pinned" THEN SendAll(todo \ {r}, next)
          ELSE IF next \in {"refocus", "window", "synced"} THEN SendAll({}, next)
          ELSE SendAll({}, IF next = "idle" THEN "idle" ELSE AfterJob)
    BY <1>2 DEF SendFails
  <2>2. /\ (AfterJob = "prime" /\ origin = Priming) \/ AfterJob = "idle"
        /\ pc = "send"
    BY <1>2 DEF AfterJob, SendFails
  <2> QED
    BY <2>1, <2>2, SendAllPhase DEF PhaseOK
<1>3. CASE QueryFails
  <2>1. PICK p \in {"refocus", "synced", AfterJob, "idle"} :
          SendAll({}, p) /\ (p = "refocus" => pc = "pinned") /\ (p = "synced" => pc = "window")
    <3>1. SendAll({}, CASE pc = "pinned" -> "refocus"
                       [] pc = "window" /\ origin # Priming -> "synced"
                       [] pc \in {"assign", "cleanup", "move", "everyone"} -> AfterJob
                       [] OTHER -> "idle")
      BY <1>3 DEF QueryFails
    <3>2. AfterJob \notin {"refocus", "synced"}
      BY DEF AfterJob
    <3> QED
      BY <3>1, <3>2
  <2>2. (AfterJob = "prime" /\ origin = Priming) \/ AfterJob = "idle"
    BY DEF AfterJob
  <2> QED
    BY <2>1, <2>2, SendAllPhase DEF PhaseOK
<1>4. CASE Assign \/ CleanupOrphans \/ MoveWorkspaces \/ FocusEveryone
  BY <1>4 DEF Assign, CleanupOrphans, MoveWorkspaces, FocusEveryone, SendAll, To, PhaseOK
<1>5. CASE Assigned
  BY <1>5 DEF Assigned, AfterJob, SendAll, To, PhaseOK
<1>6. CASE ReceiveChange \/ Synced
  BY <1>6 DEF ReceiveChange, Synced, To, Idle, PhaseOK
<1>7. CASE Prime
  <2>1. VirtualOf(shows[focus]) \in Virtual \cup {NoVirtual}
    BY <1>0, ShowableFacts DEF SessionType
  <2> QED
    BY <1>7, <2>1 DEF Prime, To, PhaseOK
<1>8. CASE ReadWatch
  <2>1. watch.id \in Workspace \cup Orphans \/ VirtualOf(watch.id) = NoVirtual
    BY <1>0 DEF KeptType, VirtualOf, None
  <2> QED
    BY <1>8, <2>1, ShowableFacts DEF ReadWatch, Idle, PhaseOK
<1>9. CASE SyncMonitors
  BY <1>9 DEF SyncMonitors, To, PhaseOK
<1>10. CASE VisitMonitors
  <2>1. PICK S : SendAll(S, "pinned")
    BY <1>10 DEF VisitMonitors
  <2> QED
    BY <1>10, <2>1, SendAllPhase DEF VisitMonitors, PhaseOK
<1>11. CASE MovePinned
  <2>1. PICK S : SendAll(S, "refocus")
    BY <1>11 DEF MovePinned
  <2> QED
    BY <1>11, <2>1, SendAllPhase DEF MovePinned, PhaseOK
<1>12. CASE Refocus
  <2>1. PICK S : SendAll(S, "window")
    BY <1>12 DEF Refocus
  <2> QED
    BY <1>12, <2>1, SendAllPhase DEF Refocus, PhaseOK
<1>13. CASE FocusUnderCursor
  <2>1. PICK S, p : p \in {"idle", "synced"} /\ SendAll(S, p)
    BY <1>13 DEF FocusUnderCursor
  <2> QED
    BY <1>13, <2>1, SendAllPhase DEF FocusUnderCursor, PhaseOK
<1>14. CASE SwitchVirtual \/ MoveToVirtual \/ Swap \/ Collapse
  <2>1. PICK S : SendAll(S, "idle")
    BY <1>14 DEF SwitchVirtual, MoveToVirtual, Swap, Collapse
  <2> QED
    BY <2>1, SendAllPhase
<1>15. CASE Navigate
  <2> DEFINE primary == {m \in present : SlotOf(m) = 0}
             current == IF primary = {} THEN NoVirtual ELSE VirtualOf(shows[CHOOSE m \in primary : TRUE])
  <2>1. current \in Virtual \cup {NoVirtual}
    BY <1>0, ShowableFacts DEF SessionType
  <2>2. \/ To("idle")
        \/ current # NoVirtual /\ pc' = "switch" /\ goal' \in {NextVirtual(current), PrevVirtual(current)}
    BY <1>15 DEF Navigate
  <2> QED
    BY <2>1, <2>2, NextPrevVirtual DEF To, PhaseOK
<1>16. CASE Commanded
  BY <1>16 DEF Commanded, StartSwitch, StartMove, StartNavigate, StartCollapse, StartSwap, StartAssign,
     Pin, Unpin, Command, PhaseOK
<1> QED
  BY <1>1, <1>2, <1>3, <1>4, <1>5, <1>6, <1>7, <1>8, <1>9, <1>10, <1>11, <1>12, <1>13, <1>14, <1>15, <1>16
  DEF Daemon, Commanded

LEMMA NextPhase == TypeOK /\ PhaseOK /\ [Next]_vars => PhaseOK'
<1> SUFFICES ASSUME TypeOK, PhaseOK, [Next]_vars  PROVE PhaseOK'
  OBVIOUS
<1>1. CASE Daemon
  BY <1>1, DaemonPhase
<1>2. CASE Session \/ UNCHANGED vars
  BY <1>2, SessionJob DEF vars, job, PhaseOK
<1> QED
  BY <1>1, <1>2 DEF Next

-----------------------------------------------------------------------------
(* The requests not sent yet.                                               *)

LEMMA Waiting == JobType /\ pc # "send" => todo = {}
  BY DEF JobType

\* A list just computed.
LEMMA BuiltTodo ==
  ASSUME NEW S, NEW p, SendAll(S, p), UNCHANGED <<at, known>>,
         \A r \in S : /\ r.op = "relocate" => SlotOf(r.arg) = SlotOfId(r.ws) /\ p \in {"everyone", "pinned"}
                      /\ r.op = "follow" => r.ws \in Workspace
                      /\ r.op = "window" => S = {r} /\ at[r.arg] # Buffer /\ p \in {"synced", "idle"}
                      /\ r.ws # Buffer
                      /\ p = "idle" /\ r.op = "silent" => \A q \in S : q.op = "silent"
  PROVE  TodoOK'
<1>1. todo' = S /\ (S # {} => next' = p)
  BY DEF SendAll
<1>2. \A m : SlotOf(m)' = SlotOf(m)
  BY DEF SlotOf
<1> QED
  BY <1>1, <1>2 DEF TodoOK

LEMMA NoTodo == todo' = {} => TodoOK'
  BY DEF TodoOK

\* A list whose first request is gone.
LEMMA LessTodo ==
  ASSUME JobType, TodoOK, NEW r \in todo, First(r), SendAll(todo \ {r}, next), UNCHANGED known
  PROVE  TodoOK'
<1>1. todo' = todo \ {r} /\ (todo' # {} => next' = next)
  BY DEF SendAll
<1>2. \A m : SlotOf(m)' = SlotOf(m)
  BY DEF SlotOf
<1>3. \A q \in todo : q.turn \in Nat
  BY RequestFacts DEF JobType
<1> SUFFICES ASSUME NEW q \in todo'
             PROVE  /\ q.op = "relocate" => SlotOf(q.arg) = SlotOfId(q.ws) /\ next \in {"everyone", "pinned"}
                    /\ q.op = "follow" => q.ws \in Workspace
                    /\ q.op # "window"
                    /\ q.ws = Buffer =>
                         /\ next = "idle" /\ q.op = "silent"
                         /\ \E l \in todo' : /\ q.turn < l.turn /\ l.op = "silent"
                                             /\ l.arg = q.arg /\ l.ws # Buffer
                    /\ next = "idle" /\ q.op = "silent" => \A l \in todo' : l.op = "silent"
  BY <1>1, <1>2 DEF TodoOK
<1>4. q \in todo /\ q # r
  BY <1>1
<1>5. ASSUME q.ws = Buffer
      PROVE  \E l \in todo' : q.turn < l.turn /\ l.op = "silent" /\ l.arg = q.arg /\ l.ws # Buffer
  <2>1. PICK l \in todo : q.turn < l.turn /\ l.op = "silent" /\ l.arg = q.arg /\ l.ws # Buffer
    BY <1>4, <1>5 DEF TodoOK
  <2>2. l # r
    BY <1>3, <1>4, <2>1 DEF First
  <2> QED
    BY <1>1, <2>1, <2>2
<1> QED
  BY <1>1, <1>4, <1>5 DEF TodoOK

LEMMA MoveAllFacts ==
  ASSUME NEW turn, NEW from, NEW to, NEW r \in MoveAll(turn, from, to)
  PROVE  r.turn = turn /\ r.op = "silent" /\ r.ws = to /\ r.arg \in Window /\ at[r.arg] = from
  BY DEF MoveAll, Req

\* Every window a swap parks, it takes out of the buffer later.
LEMMA SwapTodo ==
  ASSUME NEW a \in Workspace, NEW b \in Workspace, SendAll(SwapLegs(a, b), "idle")
  PROVE  TodoOK'
<1> DEFINE S == SwapLegs(a, b)
<1>1. todo' = S /\ next' = "idle"
  BY DEF SendAll
<1>2. a # Buffer /\ b # Buffer
  BY WorkspaceFacts
<1>3. \A r \in S : r.op = "silent"
  BY MoveAllFacts DEF SwapLegs
<1>4. \A r \in S : r.ws = Buffer =>
        \E q \in S : r.turn < q.turn /\ q.op = "silent" /\ q.arg = r.arg /\ q.ws # Buffer
  <2> SUFFICES ASSUME NEW r \in S, r.ws = Buffer
               PROVE  \E q \in S : r.turn < q.turn /\ q.op = "silent" /\ q.arg = r.arg /\ q.ws # Buffer
    OBVIOUS
  <2>1. r.turn = 1 /\ r.arg \in Window /\ at[r.arg] = a
    BY <1>2, MoveAllFacts DEF SwapLegs
  <2>2. Req(3, "silent", b, r.arg) \in S
    BY <2>1 DEF SwapLegs, MoveAll
  <2> QED
    BY <1>2, <2>1, <2>2 DEF Req
<1> HIDE DEF S
<1> QED
  BY <1>1, <1>3, <1>4 DEF TodoOK

LEMMA DaemonTodo == TypeOK /\ PhaseOK /\ TodoOK /\ Daemon => TodoOK'
<1> SUFFICES ASSUME TypeOK, PhaseOK, TodoOK, Daemon  PROVE TodoOK'
  OBVIOUS
<1>0. SessionType /\ JobType
  BY TypeParts
<1>1. CASE Send
  BY <1>0, <1>1, LessTodo DEF Send, kept
<1>2. CASE SendFails
  <2>1. PICK r \in todo :
          First(r) /\ (SendAll(todo \ {r}, next) \/ \E p : SendAll({}, p))
    BY <1>2 DEF SendFails
  <2>2. UNCHANGED known
    BY <1>2 DEF SendFails, kept
  <2> QED
    BY <1>0, <2>1, <2>2, LessTodo, NoTodo DEF SendAll
<1>3. CASE QueryFails \/ Assigned
  <2>1. \E p : SendAll({}, p)
    BY <1>3 DEF QueryFails, Assigned
  <2> QED
    BY <2>1, NoTodo DEF SendAll
<1>4. CASE Assign \/ ReceiveChange \/ Prime \/ ReadWatch \/ SyncMonitors \/ Synced \/ Navigate \/ Commanded
  <2>1. pc # "send" /\ UNCHANGED todo
    BY <1>4 DEF Assign, ReceiveChange, Prime, ReadWatch, SyncMonitors, Synced, Navigate, Commanded, Idle,
       StartSwitch, StartMove, StartNavigate, StartCollapse, StartSwap, StartAssign, Pin, Unpin, Command
  <2> QED
    BY <1>0, <2>1, Waiting, NoTodo
<1>5. CASE CleanupOrphans
  <2> DEFINE S == UNION {MoveAll(o, o, o + 1) : o \in Rescued}
  <2>1. \A r \in S : r.op = "silent" /\ r.ws # Buffer
    BY MoveAllFacts, OrphanFacts, WorkspaceFacts DEF Rescued
  <2>2. SendAll(S, "move") /\ UNCHANGED <<at, known>>
    BY <1>5 DEF CleanupOrphans, hyprland, kept
  <2> HIDE DEF S
  <2> QED
    BY <2>1, <2>2, BuiltTodo
<1>6. CASE MoveWorkspaces
  <2> DEFINE S == UNION {Misplaced(id) : id \in Workspace}
  <2>1. \A r \in S : r.op = "relocate" /\ r.ws # Buffer /\ SlotOf(r.arg) = SlotOfId(r.ws)
    BY WorkspaceFacts DEF Misplaced, Req
  <2>2. SendAll(S, "everyone") /\ UNCHANGED <<at, known>>
    BY <1>6 DEF MoveWorkspaces, hyprland, kept
  <2> HIDE DEF S
  <2> QED
    BY <2>1, <2>2, BuiltTodo
<1>7. CASE FocusEveryone
  <2> DEFINE shown == VirtualOf(shows[focus])
             v == IF shown = NoVirtual THEN 1 ELSE shown
             visited == {m \in Monitor : seen[m] \notin {None, Id(SlotOf(m), v)}}
             S == {Req(m, "focus", Id(SlotOf(m), v), None) : m \in visited}
  <2>1. v \in Virtual
    BY <1>0, ShowableFacts, NumVirtualAssumption DEF SessionType, Virtual
  <2>2. \A r \in S : r.op = "focus" /\ r.ws # Buffer
    BY <2>1, TargetFacts DEF Req
  <2>3. SendAll(S, "assigned") /\ UNCHANGED <<at, known>>
    BY <1>7 DEF FocusEveryone, hyprland, kept
  <2> HIDE DEF S
  <2> QED
    BY <2>2, <2>3, BuiltTodo
<1>8. CASE VisitMonitors
  <2> DEFINE target(m) == Id(SlotOf(m), goal)
             visited == {m \in Monitor : target(m) # origin /\ seen[m] \notin {None, target(m)}}
             away == {m \in visited : home[target(m)] # m}
             S == {Req(2 * m, "relocate", target(m), m) : m \in away}
                    \cup {Req(2 * m + 1, "focus", target(m), None) : m \in visited}
  <2>1. goal \in Virtual
    BY <1>8 DEF VisitMonitors, PhaseOK
  <2>2. \A m \in Monitor : target(m) # Buffer /\ SlotOfId(target(m)) = SlotOf(m)
    BY <2>1, TargetFacts
  <2>3. \A r \in S : /\ r.op \in {"relocate", "focus"} /\ r.ws # Buffer
                     /\ r.op = "relocate" => SlotOf(r.arg) = SlotOfId(r.ws)
    BY <2>2 DEF Req
  <2>4. SendAll(S, "pinned") /\ UNCHANGED <<at, known>>
    BY <1>8 DEF VisitMonitors, hyprland, kept
  <2> HIDE DEF S
  <2> QED
    BY <2>3, <2>4, BuiltTodo
<1>9. CASE MovePinned
  <2> DEFINE target(w) == Id(SlotOf(home[at[w]]), goal)
             moved == {w \in pinned \cap Open : at[w] # target(w)}
             S == {Req(0, "silent", target(w), w) : w \in moved}
  <2>1. goal \in Virtual
    BY <1>9 DEF MovePinned, PhaseOK
  <2>2. \A w \in pinned \cap Open : target(w) # Buffer
    <3> SUFFICES ASSUME NEW w \in pinned \cap Open  PROVE target(w) # Buffer
      OBVIOUS
    <3>1. at[w] \in Everywhere
      BY <1>0 DEF Open, SessionType
    <3>2. home[at[w]] \in Monitor
      BY <1>0, <3>1 DEF SessionType
    <3> QED
      BY <2>1, <3>2, TargetFacts
  <2>3. \A r \in S : r.op = "silent" /\ r.ws # Buffer
    BY <2>2 DEF Req
  <2>4. SendAll(S, "refocus") /\ UNCHANGED <<at, known>>
    BY <1>9 DEF MovePinned, hyprland, kept
  <2> HIDE DEF S
  <2> QED
    BY <2>3, <2>4, BuiltTodo
<1>10. CASE Refocus
  <2> DEFINE S == IF shows[focus] = origin THEN {} ELSE {Req(0, "focus", origin, None)}
  <2>1. origin # Buffer
    BY <1>10, WorkspaceFacts DEF Refocus, PhaseOK
  <2>2. \A r \in S : r.op = "focus" /\ r.ws # Buffer
    BY <2>1 DEF Req
  <2>3. SendAll(S, "window") /\ UNCHANGED <<at, known>>
    BY <1>10 DEF Refocus, hyprland, kept
  <2> HIDE DEF S
  <2> QED
    BY <2>2, <2>3, BuiltTodo
<1>11. CASE FocusUnderCursor
  <2>1. goal \in Virtual
    BY <1>11 DEF FocusUnderCursor, PhaseOK
  <2>2. UNCHANGED <<at, known>>
    BY <1>11 DEF FocusUnderCursor, hyprland, kept
  <2>3. PICK p \in {"synced", "idle"} :
                 \/ SendAll({}, p)
                 \/ \E w \in Window, m \in present : /\ at[w] = Id(SlotOf(m), goal)
                                                    /\ SendAll({Req(0, "window", None, w)}, p)
    BY <1>11 DEF FocusUnderCursor
  <2>4. CASE SendAll({}, p)
    BY <2>4, NoTodo DEF SendAll
  <2>5. ASSUME NEW w \in Window, NEW m \in present,
               at[w] = Id(SlotOf(m), goal), SendAll({Req(0, "window", None, w)}, p)
        PROVE  TodoOK'
    <3>1. at[w] # Buffer
      BY <1>0, <2>1, <2>5, TargetFacts DEF SessionType
    <3> DEFINE S == {Req(0, "window", None, w)}
    <3>2. \A r \in S : r.op = "window" /\ S = {r} /\ at[r.arg] # Buffer /\ r.ws # Buffer
      BY <3>1 DEF Req, None, Buffer
    <3>3. SendAll(S, p)
      BY <2>5
    <3> HIDE DEF S
    <3> QED
      BY <2>2, <3>2, <3>3, BuiltTodo
  <2> QED
    BY <2>3, <2>4, <2>5
<1>12. CASE SwitchVirtual \/ MoveToVirtual
  <2>1. goal \in Virtual /\ focus \in Monitor
    BY <1>0, <1>12 DEF SwitchVirtual, MoveToVirtual, PhaseOK, SessionType
  <2>2. Id(SlotOf(focus), goal) # Buffer
    BY <2>1, TargetFacts
  <2>3. PICK op \in {"focus", "active"} : SendAll({Req(0, op, Id(SlotOf(focus), goal), None)}, "idle")
    BY <1>12 DEF SwitchVirtual, MoveToVirtual
  <2> DEFINE S == {Req(0, op, Id(SlotOf(focus), goal), None)}
  <2>4. \A r \in S : r.op \in {"focus", "active"} /\ r.ws # Buffer
    BY <2>2 DEF Req
  <2>5. SendAll(S, "idle") /\ UNCHANGED <<at, known>>
    BY <1>12, <2>3 DEF SwitchVirtual, MoveToVirtual, hyprland, kept
  <2> HIDE DEF S
  <2> QED
    BY <2>4, <2>5, BuiltTodo
<1>13. CASE Swap
  <2>1. CASE SendAll({}, "idle")
    BY <2>1, NoTodo DEF SendAll
  <2>2. CASE ~SendAll({}, "idle")
    <3>1. PICK target \in present :
            /\ VirtualOf(shows[focus]) # NoVirtual
            /\ SendAll(SwapLegs(Id(SlotOf(focus), VirtualOf(shows[focus])),
                                Id(SlotOf(target), VirtualOf(shows[focus]))), "idle")
      BY <1>13, <2>2 DEF Swap
    <3>2. VirtualOf(shows[focus]) \in Virtual
      BY <1>0, <3>1, ShowableFacts DEF SessionType
    <3>3. focus \in Monitor /\ target \in Monitor
      BY <1>0, <3>1 DEF SessionType
    <3> QED
      BY <3>1, <3>2, <3>3, TargetFacts, SwapTodo
  <2> QED
    BY <2>1, <2>2
<1>14. CASE Collapse
  <2> DEFINE active == shows[focus]
  <2>1. PICK gathered \in SUBSET Open :
          SendAll(IF VirtualOf(active) = NoVirtual THEN {}
                  ELSE {Req(0, "follow", active, w) : w \in gathered}, "idle")
    BY <1>14 DEF Collapse
  <2>2. active # Buffer /\ (VirtualOf(active) # NoVirtual => active \in Workspace)
    BY <1>0, ShowableFacts DEF SessionType
  <2> DEFINE S == IF VirtualOf(active) = NoVirtual THEN {}
                  ELSE {Req(0, "follow", active, w) : w \in gathered}
  <2>3. \A r \in S : r.op = "follow" /\ r.ws # Buffer /\ r.ws \in Workspace
    BY <2>2 DEF Req
  <2>4. SendAll(S, "idle") /\ UNCHANGED <<at, known>>
    BY <1>14, <2>1 DEF Collapse, hyprland, kept
  <2> HIDE DEF S
  <2> QED
    BY <2>3, <2>4, BuiltTodo
<1> QED
  BY <1>1, <1>2, <1>3, <1>4, <1>5, <1>6, <1>7, <1>8, <1>9, <1>10, <1>11, <1>12, <1>13, <1>14
  DEF Daemon, Commanded

\* The session puts no window into the buffer.
LEMMA SessionWindows ==
  ASSUME SessionType, Session, NEW w \in Window, at'[w] = Buffer
  PROVE  at[w] = Buffer
<1>1. CASE OpenWindow
  BY <1>1, ShowableFacts DEF OpenWindow, SessionType
<1>2. CASE CloseWindow
  BY <1>2 DEF CloseWindow, SessionType, Closed, Buffer
<1> QED
  BY <1>1, <1>2 DEF Session, Deliver, ListenerRestarts, FocusMonitor, Swipe, Unplug, Plug, ReloadConfig,
     Hotplug, hyprland

LEMMA SessionTodo == SessionType /\ JobType /\ TodoOK /\ Session => TodoOK'
<1> SUFFICES ASSUME SessionType, JobType, TodoOK, Session  PROVE TodoOK'
  OBVIOUS
<1>1. todo' = todo /\ next' = next /\ known' = known
  BY SessionJob DEF job, kept
<1>2. \A m : SlotOf(m)' = SlotOf(m)
  BY <1>1 DEF SlotOf
<1>3. \A r \in todo : r.op = "window" => at'[r.arg] # Buffer
  BY RequestFacts, SessionWindows DEF TodoOK, JobType
<1> QED
  BY <1>1, <1>2, <1>3 DEF TodoOK

LEMMA NextTodo == TypeOK /\ PhaseOK /\ TodoOK /\ [Next]_vars => TodoOK'
<1> SUFFICES ASSUME TypeOK, PhaseOK, TodoOK, [Next]_vars  PROVE TodoOK'
  OBVIOUS
<1>1. CASE Daemon
  BY <1>1, DaemonTodo
<1>2. CASE Session
  BY <1>2, TypeParts, SessionTodo
<1>3. CASE UNCHANGED vars
  BY <1>3 DEF vars, hyprland, job, kept, TodoOK, SlotOf
<1> QED
  BY <1>1, <1>2, <1>3 DEF Next

-----------------------------------------------------------------------------
(* The buffer.                                                              *)

LEMMA SendPark == TypeOK /\ TodoOK /\ ParkOK /\ Send => ParkOK'
<1> SUFFICES ASSUME TypeOK, TodoOK, ParkOK, Send, ~aborted', NEW w \in Window, at'[w] = Buffer
             PROVE  next' = "idle" /\ \E q \in todo' : q.op = "silent" /\ q.arg = w /\ q.ws # Buffer
  BY DEF ParkOK
<1>0. SessionType /\ JobType /\ ~aborted
  BY TypeParts DEF Send, history
<1>1. PICK r \in todo : First(r) /\ ~Refused(r) /\ Perform(r) /\ SendAll(todo \ {r}, next)
  BY DEF Send
<1>2. r \in Request
  BY <1>0 DEF JobType
<1>3. todo' = todo \ {r} /\ (todo' # {} => next' = next)
  BY <1>1 DEF SendAll
<1>4. CASE r.op = "silent" /\ r.arg = w
  <2>1. at'[w] = r.ws
    BY <1>0, <1>1, <1>4 DEF Perform, SessionType
  <2>2. PICK q \in todo : r.turn < q.turn /\ q.op = "silent" /\ q.arg = w /\ q.ws # Buffer
    BY <1>1, <1>4, <2>1 DEF TodoOK
  <2>3. q # r /\ next = "idle"
    BY <1>1, <2>1, <2>2 DEF TodoOK
  <2> QED
    BY <1>3, <2>2, <2>3
<1>5. CASE ~(r.op = "silent" /\ r.arg = w)
  <2>1. at[w] = Buffer
    <3>1. CASE r.op = "silent"
      BY <1>0, <1>1, <1>5, <3>1 DEF Perform, SessionType
    <3>2. CASE r.op \in {"follow", "active"}
      BY <1>0, <1>1, <1>2, <3>2, RequestFacts DEF Perform, SessionType, TodoOK
    <3>3. CASE r.op \in {"focus", "relocate", "window"}
      BY <1>1, <3>3 DEF Perform
    <3> QED
      BY <1>2, <3>1, <3>2, <3>3, RequestFacts
  <2>2. PICK q \in todo : next = "idle" /\ q.op = "silent" /\ q.arg = w /\ q.ws # Buffer
    BY <1>0, <2>1 DEF ParkOK
  <2> QED
    BY <1>3, <1>5, <2>2
<1> QED
  BY <1>4, <1>5

LEMMA SendFailsPark == TypeOK /\ TodoOK /\ ParkOK /\ SendFails => ParkOK'
<1> SUFFICES ASSUME TypeOK, TodoOK, ParkOK, SendFails, ~aborted', NEW w \in Window, at[w] = Buffer
             PROVE  FALSE
  BY DEF SendFails, hyprland, ParkOK
<1>1. PICK r \in todo : aborted' = (aborted \/ (next = "idle" /\ r.op = "silent"))
  BY DEF SendFails
<1>2. ~aborted
  BY <1>1
<1>3. PICK q \in todo : next = "idle" /\ q.op = "silent"
  BY <1>2 DEF ParkOK
<1> QED
  BY <1>1, <1>3 DEF TodoOK

LEMMA NextPark == TypeOK /\ TodoOK /\ ParkOK /\ [Next]_vars => ParkOK'
<1> SUFFICES ASSUME TypeOK, TodoOK, ParkOK, [Next]_vars  PROVE ParkOK'
  OBVIOUS
<1>0. SessionType /\ JobType
  BY TypeParts
<1>1. CASE Send \/ SendFails
  BY <1>1, SendPark, SendFailsPark
<1>2. CASE Daemon /\ ~Send /\ ~SendFails
  <2>1. pc # "send"
    BY <1>2 DEF Daemon, QueryFails, Assign, CleanupOrphans, MoveWorkspaces, FocusEveryone, Assigned,
       ReceiveChange, Prime, ReadWatch, SyncMonitors, VisitMonitors, MovePinned, Refocus,
       FocusUnderCursor, Synced, StartSwitch, StartMove, StartNavigate, StartCollapse, StartSwap,
       StartAssign, Pin, Unpin, Command, Idle, SwitchVirtual, MoveToVirtual, Navigate, Swap, Collapse
  <2>2. UNCHANGED at /\ UNCHANGED aborted
    BY <1>2, DaemonWaits DEF hyprland, Daemon, QueryFails, Assign, CleanupOrphans, MoveWorkspaces,
       FocusEveryone, Assigned, ReceiveChange, Prime, ReadWatch, SyncMonitors, VisitMonitors, MovePinned,
       Refocus, FocusUnderCursor, Synced, StartSwitch, StartMove, StartNavigate, StartCollapse, StartSwap,
       StartAssign, Pin, Unpin, Command, SwitchVirtual, MoveToVirtual, Navigate, Swap, Collapse, history
  <2> QED
    BY <1>0, <2>1, <2>2, Waiting DEF ParkOK
<1>3. CASE Session
  <2>1. todo' = todo /\ next' = next /\ aborted' = aborted
    BY <1>3, SessionJob DEF job
  <2> QED
    BY <1>0, <1>3, <2>1, SessionWindows DEF ParkOK
<1>4. CASE UNCHANGED vars
  BY <1>4 DEF vars, hyprland, job, history, ParkOK
<1> QED
  BY <1>1, <1>2, <1>3, <1>4 DEF Next, Daemon

-----------------------------------------------------------------------------
(* Monitor events on their way.                                             *)

LEMMA PostFacts ==
  ASSUME WireType, NEW e \in Event, Post(e)
  PROVE  /\ \A i \in DOMAIN wire : i \in DOMAIN wire' /\ wire'[i] = wire[i]
         /\ \E k \in DOMAIN wire' : wire'[k] = e /\ \A i \in DOMAIN wire' : i = k \/ (i \in DOMAIN wire /\ i < k)
<1>1. wire' = Append(wire, e) /\ wire \in Seq(Event)
  BY DEF Post, WireType
<1>2. /\ Len(wire) \in Nat /\ DOMAIN wire = 1 .. Len(wire)
      /\ DOMAIN wire' = 1 .. (Len(wire) + 1)
  BY <1>1, AppendProperties, LenProperties
<1>3. /\ \A i \in 1 .. Len(wire) : wire'[i] = wire[i]
      /\ wire'[Len(wire) + 1] = e
  BY <1>1, AppendProperties
<1> QED
  BY <1>2, <1>3

LEMMA VisitWire ==
  ASSUME NEW id \in Workspace \cup Orphans, NEW by \in {"user", "sync"}, Visit(id, by)
  PROVE  wire' = wire \/ \E e \in Event : Post(e)
<1>1. [id |-> id, by |-> by] \in Event
  BY DEF Event
<1> QED
  BY <1>1 DEF Visit

LEMMA PerformWire ==
  ASSUME SessionType, NEW r \in Request, ~Refused(r),
         r.op = "window" => at[r.arg] # Buffer,
         r.op = "follow" => r.ws \in Workspace \cup Orphans,
         Perform(r)
  PROVE  wire' = wire \/ \E e \in Event : Post(e)
<1> USE RequestFacts, SenderType
<1>1. CASE r.op = "focus"
  BY <1>1, VisitWire DEF Perform
<1>2. CASE r.op = "silent"
  BY <1>2 DEF Perform
<1>3. CASE r.op = "follow"
  BY <1>3, VisitWire DEF Perform
<1>4. CASE r.op = "active"
  BY <1>4, VisitWire DEF Perform
<1>5. CASE r.op = "relocate"
  BY <1>5, RelocateType DEF Perform, Refused
<1>6. CASE r.op = "window"
  <2>1. at[r.arg] \in Workspace \cup Orphans
    BY <1>6 DEF Refused, SessionType, Everywhere
  <2> QED
    BY <1>6, <2>1, VisitWire DEF Perform
<1> QED
  BY <1>1, <1>2, <1>3, <1>4, <1>5, <1>6

LEMMA CalmPost ==
  ASSUME WireType, NEW e \in Event, Post(e), changes' = changes, unassigned' = unassigned, Calm'
  PROVE  Calm /\ e.by # "monitors"
  BY PostFacts DEF Calm

\* Only an assignment, or receiving the event it is for, makes the daemon calm.
LEMMA DaemonCalm ==
  ASSUME TypeOK, TodoOK, Daemon, ~Assign, ~ReceiveChange, Calm'
  PROVE  Calm
<1>0. SessionType /\ WireType /\ JobType
  BY TypeParts
<1>1. CASE Send
  <2>1. PICK r \in todo : ~Refused(r) /\ Perform(r)
    BY <1>1 DEF Send
  <2>2. r \in Request
    BY <1>0 DEF JobType
  <2>3. r.op = "window" => at[r.arg] # Buffer
    BY DEF TodoOK
  <2>4. r.op = "follow" => r.ws \in Workspace \cup Orphans
    BY <2>2, RequestFacts DEF TodoOK, Everywhere
  <2>5. wire' = wire \/ \E e \in Event : Post(e)
    BY <1>0, <2>1, <2>2, <2>3, <2>4, PerformWire
  <2>6. changes' = changes /\ unassigned' = unassigned
    BY <1>1 DEF Send, history
  <2> QED
    BY <1>0, <2>5, <2>6, CalmPost DEF Calm
<1>2. CASE ~Send
  <2>1. wire' = wire
    BY <1>2, DaemonWaits
  <2>2. changes' = changes
    BY <1>2 DEF Daemon, SendFails, QueryFails, CleanupOrphans, MoveWorkspaces, FocusEveryone, Assigned,
       Prime, ReadWatch, SyncMonitors, VisitMonitors, MovePinned, Refocus, FocusUnderCursor, Synced,
       StartSwitch, StartMove, StartNavigate, StartCollapse, StartSwap, StartAssign, Pin, Unpin, Command,
       SwitchVirtual, MoveToVirtual, Navigate, Swap, Collapse, events
  <2>3. ~unassigned' => ~unassigned
    BY <1>2 DEF Daemon, SendFails, QueryFails, CleanupOrphans, MoveWorkspaces, FocusEveryone, Assigned,
       Prime, ReadWatch, SyncMonitors, VisitMonitors, MovePinned, Refocus, FocusUnderCursor, Synced,
       StartSwitch, StartMove, StartNavigate, StartCollapse, StartSwap, StartAssign, Pin, Unpin, Command,
       SwitchVirtual, MoveToVirtual, Navigate, Swap, Collapse, history
  <2> QED
    BY <2>1, <2>2, <2>3 DEF Calm
<1> QED
  BY <1>1, <1>2

\* A session that stays calm has neither gained nor lost a monitor.
LEMMA SessionCalm ==
  ASSUME TypeOK, Session, Calm'
  PROVE  Calm /\ UNCHANGED <<present, home>>
<1>0. WireType /\ KeptType
  BY TypeParts
<1>1. CASE Deliver
  <2>1. UNCHANGED <<present, home, unassigned>>
    BY <1>1 DEF Deliver, hyprland
  <2>2. Head(wire).by # "monitors"
    BY <1>0, <1>1 DEF Deliver, KeptType, Calm
  <2>3. changes' = changes
    BY <1>1, <2>2 DEF Deliver
  <2>4. wire \in Seq(Event) /\ wire # <<>> /\ wire' = Tail(wire)
    BY <1>0, <1>1 DEF Deliver, WireType
  <2>5. /\ Len(wire) \in Nat /\ DOMAIN wire = 1 .. Len(wire)
        /\ DOMAIN wire' = 1 .. (Len(wire) - 1)
        /\ \A i \in 1 .. (Len(wire) - 1) : wire'[i] = wire[i + 1]
        /\ Head(wire) = wire[1]
    BY <2>4, HeadTailProperties, LenProperties
  <2>6. ASSUME NEW i \in DOMAIN wire  PROVE wire[i].by # "monitors"
    <3>1. CASE i = 1
      BY <2>2, <2>5, <3>1
    <3>2. CASE i # 1
      <4>1. i - 1 \in DOMAIN wire' /\ wire'[i - 1] = wire[i]
        BY <2>5, <3>2
      <4> QED
        BY <4>1 DEF Calm
    <3> QED
      BY <3>1, <3>2
  <2> QED
    BY <2>1, <2>3, <2>6 DEF Calm
<1>2. CASE ListenerRestarts
  BY <1>2 DEF ListenerRestarts, hyprland, Calm
<1>3. CASE FocusMonitor \/ OpenWindow \/ CloseWindow
  BY <1>3 DEF FocusMonitor, OpenWindow, CloseWindow, User, history, Calm
<1>4. CASE Swipe
  <2>1. PICK id \in Workspace : Visit(id, "user")
    BY <1>4 DEF Swipe
  <2>2. changes' = changes /\ unassigned' = unassigned /\ UNCHANGED <<present, home>>
    BY <1>4 DEF Swipe, User, history
  <2>3. wire' = wire \/ \E e \in Event : Post(e)
    BY <2>1, VisitWire
  <2> QED
    BY <1>0, <2>2, <2>3, CalmPost DEF Calm
<1>5. CASE Unplug \/ Plug \/ ReloadConfig
  <2>1. Hotplug
    BY <1>5 DEF Unplug, Plug, ReloadConfig
  <2>2. [by |-> "monitors"] \in Event
    BY DEF Event
  <2>3. changes' = changes /\ unassigned' = unassigned /\ Post([by |-> "monitors"])
    BY <2>1 DEF Hotplug, history
  <2> QED
    BY <1>0, <2>2, <2>3, CalmPost
<1> QED
  BY <1>1, <1>2, <1>3, <1>4, <1>5 DEF Session

-----------------------------------------------------------------------------
(* Where workspaces are.                                                    *)

\* Every step of the daemon that sends nothing starts from an empty list.
LEMMA DaemonStep ==
  ASSUME Daemon, ~Send, ~SendFails
  PROVE  pc # "send"
  BY DEF Daemon, QueryFails, Assign, CleanupOrphans, MoveWorkspaces, FocusEveryone, Assigned,
     ReceiveChange, Prime, ReadWatch, SyncMonitors, VisitMonitors, MovePinned, Refocus,
     FocusUnderCursor, Synced, StartSwitch, StartMove, StartNavigate, StartCollapse, StartSwap,
     StartAssign, Pin, Unpin, Command, Idle, SwitchVirtual, MoveToVirtual, Navigate, Swap, Collapse

\* The layout is only made by an assignment.
LEMMA DaemonKnown == Daemon /\ ~Assign => UNCHANGED <<known, present>>
  BY DaemonWaits DEF hyprland, kept, Perform, Daemon, Send, SendFails, QueryFails, CleanupOrphans,
     MoveWorkspaces, FocusEveryone, Assigned, ReceiveChange, Prime, ReadWatch, SyncMonitors, VisitMonitors,
     MovePinned, Refocus, FocusUnderCursor, Synced, StartSwitch, StartMove, StartNavigate, StartCollapse,
     StartSwap, StartAssign, Pin, Unpin, Command, SwitchVirtual, MoveToVirtual, Navigate, Swap, Collapse

\* Where an assignment before its moves goes on.
LEMMA BeforeMovesSteps ==
  ASSUME JobType, Daemon, ~Assign, Calm', BeforeMoves'
  PROVE  BeforeMoves /\ seen' = seen
<1>1. CASE Send
  <2>1. PICK r \in todo : SendAll(todo \ {r}, next)
    BY <1>1 DEF Send
  <2> QED
    BY <1>1, <2>1 DEF Send, SendAll, To, BeforeMoves, JobType, Sending
<1>2. CASE SendFails
  <2>1. PICK r \in todo :
          IF next = "pinned" THEN SendAll(todo \ {r}, next)
          ELSE IF next \in {"refocus", "window", "synced"} THEN SendAll({}, next)
          ELSE SendAll({}, IF next = "idle" THEN "idle" ELSE AfterJob)
    BY <1>2 DEF SendFails
  <2> QED
    BY <2>1 DEF SendAll, To, AfterJob, BeforeMoves
<1>3. CASE QueryFails
  <2>1. SendAll({}, CASE pc = "pinned" -> "refocus"
                     [] pc = "window" /\ origin # Priming -> "synced"
                     [] pc \in {"assign", "cleanup", "move", "everyone"} -> AfterJob
                     [] OTHER -> "idle")
    BY <1>3 DEF QueryFails
  <2>2. PICK p \in {"refocus", "synced", "prime", "idle"} : SendAll({}, p)
    BY <2>1 DEF AfterJob
  <2> QED
    BY <2>2 DEF SendAll, To, BeforeMoves
<1>4. CASE CleanupOrphans
  BY <1>4 DEF CleanupOrphans, SendAll, To, BeforeMoves
<1> QED
  BY <1>1, <1>2, <1>3, <1>4
  DEF Daemon, MoveWorkspaces, FocusEveryone, Assigned, AfterJob, ReceiveChange, Prime, ReadWatch,
      SyncMonitors, VisitMonitors, MovePinned, Refocus, FocusUnderCursor, Synced, StartSwitch, StartMove,
      StartNavigate, StartCollapse, StartSwap, StartAssign, Pin, Unpin, Command, Idle, SwitchVirtual,
      MoveToVirtual, Navigate, Swap, Collapse, SendAll, To, BeforeMoves

\* Where what was seen of the monitors comes from.
LEMMA LookingSteps ==
  ASSUME JobType, Daemon, ~Assign, Calm', Looking'
  PROVE  \/ Looking /\ seen' = seen
         \/ SyncMonitors /\ seen' = shows
<1>1. CASE BeforeMoves'
  BY <1>1, BeforeMovesSteps DEF Looking
<1>2. CASE Send
  <2>1. PICK r \in todo : SendAll(todo \ {r}, next)
    BY <1>2 DEF Send
  <2> QED
    BY <1>2, <2>1 DEF Send, SendAll, To, BeforeMoves, Looking, JobType, Sending
<1>3. CASE SendFails
  <2>1. PICK r \in todo :
          IF next = "pinned" THEN SendAll(todo \ {r}, next)
          ELSE IF next \in {"refocus", "window", "synced"} THEN SendAll({}, next)
          ELSE SendAll({}, IF next = "idle" THEN "idle" ELSE AfterJob)
    BY <1>3 DEF SendFails
  <2> QED
    BY <2>1 DEF SendAll, To, AfterJob, BeforeMoves, Looking
<1>4. CASE QueryFails
  <2>1. SendAll({}, CASE pc = "pinned" -> "refocus"
                     [] pc = "window" /\ origin # Priming -> "synced"
                     [] pc \in {"assign", "cleanup", "move", "everyone"} -> AfterJob
                     [] OTHER -> "idle")
    BY <1>4 DEF QueryFails
  <2>2. PICK p \in {"refocus", "synced", "prime", "idle"} : SendAll({}, p)
    BY <2>1 DEF AfterJob
  <2> QED
    BY <2>2 DEF SendAll, To, BeforeMoves, Looking
<1>5. CASE MoveWorkspaces
  BY <1>5 DEF MoveWorkspaces, SendAll, To, BeforeMoves, Looking
<1>6. CASE SyncMonitors
  BY <1>6 DEF SyncMonitors, To, BeforeMoves, Looking
<1> QED
  BY <1>1, <1>2, <1>3, <1>4, <1>5, <1>6
  DEF Daemon, CleanupOrphans, FocusEveryone, Assigned, AfterJob, ReceiveChange, Prime, ReadWatch,
      VisitMonitors, MovePinned, Refocus, FocusUnderCursor, Synced, StartSwitch, StartMove,
      StartNavigate, StartCollapse, StartSwap, StartAssign, Pin, Unpin, Command, Idle, SwitchVirtual,
      MoveToVirtual, Navigate, Swap, Collapse, SendAll, To, BeforeMoves, Looking

LEMMA NextSeen == TypeOK /\ TodoOK /\ SeenOK /\ [Next]_vars => SeenOK'
<1> SUFFICES ASSUME TypeOK, TodoOK, SeenOK, [Next]_vars, Calm'
             PROVE  /\ BeforeMoves' => known' = present'
                    /\ Looking' => \A m \in Monitor : seen'[m] # None <=> m \in present'
  BY DEF SeenOK
<1>0. SessionType /\ JobType
  BY TypeParts
<1>1. CASE Assign
  BY <1>0, <1>1 DEF Assign, hyprland, SessionType
<1>2. CASE ReceiveChange
  BY <1>2 DEF ReceiveChange, To, BeforeMoves, Looking
<1>3. CASE Daemon /\ ~Assign /\ ~ReceiveChange
  <2>1. Calm /\ known' = known /\ present' = present
    BY <1>3, DaemonCalm, DaemonKnown
  <2>2. BeforeMoves' => known' = present'
    BY <1>0, <1>3, <2>1, BeforeMovesSteps DEF SeenOK
  <2>3. ASSUME Looking', NEW m \in Monitor  PROVE seen'[m] # None <=> m \in present'
    <3>1. CASE Looking /\ seen' = seen
      BY <2>1, <3>1 DEF SeenOK
    <3>2. CASE seen' = shows
      BY <1>0, <2>1, <3>2 DEF SessionType
    <3> QED
      BY <1>0, <1>3, <2>3, <3>1, <3>2, LookingSteps
  <2> QED
    BY <2>2, <2>3
<1>4. CASE Session
  <2>1. Calm /\ present' = present
    BY <1>4, SessionCalm
  <2>2. UNCHANGED <<pc, next, known, seen>>
    BY <1>4, SessionJob DEF job, kept
  <2> QED
    BY <2>1, <2>2 DEF SeenOK, BeforeMoves, Looking
<1>5. CASE UNCHANGED vars
  BY <1>5 DEF vars, hyprland, events, job, kept, history, SeenOK, Calm, BeforeMoves, Looking
<1> QED
  BY <1>1, <1>2, <1>3, <1>4, <1>5 DEF Next

\* Moving one workspace leaves the other workspaces on their monitors.
LEMMA RelocateHome ==
  ASSUME SessionType, NEW id \in Workspace, NEW m \in present, Relocate(id, m)
  PROVE  \A x \in Workspace : home'[x] = IF x = id THEN m ELSE home[x]
<1> DEFINE old == home[id]
           left == {ws \in Workspace : home[ws] = old /\ ws # id}
           free == {ws \in Orphans : \A n \in present : shows[n] # ws}
<1>1. \A x \in Workspace : x \in Everywhere /\ x \notin Orphans
  BY ShowableFacts, OrphanFacts
<1>2. CASE shows[old] # id \/ old = m
  BY <1>1, <1>2 DEF Relocate, SessionType
<1>3. CASE ~(shows[old] # id \/ old = m)
  <2>1. PICK other \in IF left = {} THEN free ELSE left : home' = [home EXCEPT ![id] = m, ![other] = old]
    BY <1>3 DEF Relocate
  <2>2. other # id /\ (other \in Workspace => home[other] = old)
    BY <1>1, <2>1
  <2> HIDE DEF left, free, old
  <2> QED
    BY <1>1, <2>1, <2>2 DEF SessionType
<1> QED
  BY <1>2, <1>3

\* A request moves no workspace except to the monitor it belongs on.
LEMMA SendHome ==
  ASSUME TypeOK, TodoOK, Send, NEW id \in Workspace,
         Owner(id) = {} \/ home[id] \in Owner(id) \/ Relocating(id)
  PROVE  (Owner(id) = {} \/ home[id] \in Owner(id) \/ Relocating(id))'
<1>0. SessionType /\ JobType
  BY TypeParts
<1>1. PICK r \in todo : First(r) /\ ~Refused(r) /\ Perform(r) /\ SendAll(todo \ {r}, next)
  BY DEF Send
<1>2. r \in Request
  BY <1>0 DEF JobType
<1>3. todo' = todo \ {r} /\ (todo' # {} => next' = next /\ pc' = "send")
  BY <1>1 DEF SendAll, To
<1>4. present' = present /\ known' = known
  BY <1>1 DEF Send, kept, Perform
<1>5. \A x : Owner(x)' = Owner(x)
  BY <1>4 DEF Owner, SlotOf
<1>6. id \in Everywhere /\ id # Buffer
  BY ShowableFacts
<1>7. CASE r.op = "relocate"
  <2>1. r.ws \in Workspace /\ r.arg \in Monitor /\ r.arg \in present
    BY <1>1, <1>2, <1>7, RequestFacts DEF Refused
  <2>2. SlotOf(r.arg) = SlotOfId(r.ws)
    BY <1>7 DEF TodoOK
  <2>3. r.arg \in Owner(r.ws)
    BY <2>1, <2>2 DEF Owner
  <2>4. Relocate(r.ws, r.arg)
    BY <1>1, <1>7 DEF Perform
  <2>5. home'[id] = IF id = r.ws THEN r.arg ELSE home[id]
    BY <1>0, <2>1, <2>4, RelocateHome
  <2>6. CASE id = r.ws
    BY <1>5, <2>3, <2>5, <2>6
  <2>7. CASE id # r.ws
    <3>1. Relocating(id) => Relocating(id)'
      <4> SUFFICES ASSUME Relocating(id)  PROVE Relocating(id)'
        OBVIOUS
      <4>1. PICK q \in todo : next = "everyone" /\ q.op = "relocate" /\ q.ws = id /\ q.arg \in Owner(id)
        BY DEF Relocating
      <4>2. q \in todo'
        BY <1>3, <2>7, <4>1
      <4> QED
        BY <1>3, <1>5, <4>1, <4>2 DEF Relocating
    <3> QED
      BY <1>5, <2>5, <2>7, <3>1
  <2> QED
    BY <2>6, <2>7
<1>8. CASE r.op # "relocate"
  <2>1. home'[id] = home[id]
    BY <1>0, <1>1, <1>2, <1>6, <1>8, RequestFacts DEF Perform, SessionType
  <2>2. Relocating(id) => Relocating(id)'
    <3> SUFFICES ASSUME Relocating(id)  PROVE Relocating(id)'
      OBVIOUS
    <3>1. PICK q \in todo : next = "everyone" /\ q.op = "relocate" /\ q.ws = id /\ q.arg \in Owner(id)
      BY DEF Relocating
    <3>2. q \in todo'
      BY <1>3, <1>8, <3>1
    <3> QED
      BY <1>3, <1>5, <3>1, <3>2 DEF Relocating
  <2> QED
    BY <1>5, <2>1, <2>2
<1> QED
  BY <1>7, <1>8

\* An assignment moves every workspace that is not on its monitor.
LEMMA MoveWorkspacesHome ==
  ASSUME TypeOK, SeenOK, Calm, MoveWorkspaces, NEW id \in Workspace
  PROVE  (Owner(id) = {} \/ home[id] \in Owner(id) \/ Relocating(id))'
<1>0. SessionType
  BY TypeParts
<1>1. UNCHANGED <<present, home, known>>
  BY DEF MoveWorkspaces, hyprland, kept
<1>2. \A x : Owner(x)' = Owner(x)
  BY <1>1 DEF Owner, SlotOf
<1> SUFFICES ASSUME NEW m \in Owner(id), home[id] \notin Owner(id)
             PROVE  Relocating(id)'
  BY <1>1, <1>2
<1>3. m \in present /\ m \in Monitor /\ SlotOf(m) = SlotOfId(id) /\ m # home[id]
  BY <1>0 DEF Owner, SessionType
<1>4. seen[m] # None
  BY <1>3 DEF MoveWorkspaces, BeforeMoves, Looking, SeenOK
<1>5. Req(id, "relocate", id, m) \in Misplaced(id)
  BY <1>3, <1>4 DEF Misplaced
<1> DEFINE S == UNION {Misplaced(x) : x \in Workspace}
<1>6. Req(id, "relocate", id, m) \in S
  BY <1>5
<1>7. SendAll(S, "everyone")
  BY DEF MoveWorkspaces
<1> HIDE DEF S
<1>8. todo' = S /\ pc' = "send" /\ next' = "everyone"
  BY <1>6, <1>7 DEF SendAll, To
<1> QED
  BY <1>2, <1>6, <1>8 DEF Relocating, Req

LEMMA DaemonHome == TypeOK /\ TodoOK /\ SeenOK /\ HomeOK /\ Daemon => HomeOK'
<1> SUFFICES ASSUME TypeOK, TodoOK, SeenOK, HomeOK, Daemon, Calm', pc' # "assign", ~BeforeMoves'
             PROVE  /\ known' = present'
                    /\ \A id \in Workspace : (Owner(id) = {} \/ home[id] \in Owner(id) \/ Relocating(id))'
  BY DEF HomeOK
<1>1. ~Assign /\ ~ReceiveChange
  BY DEF Assign, ReceiveChange, To, BeforeMoves
<1>2. Calm /\ UNCHANGED <<known, present>>
  BY <1>1, DaemonCalm, DaemonKnown
<1>3. CASE MoveWorkspaces
  <2>1. known = present
    BY <1>2, <1>3 DEF MoveWorkspaces, BeforeMoves, SeenOK
  <2> QED
    BY <1>2, <1>3, <2>1, MoveWorkspacesHome
<1>4. CASE Send
  <2>1. ~BeforeMoves
    <3>1. PICK r \in todo : SendAll(todo \ {r}, next)
      BY <1>4 DEF Send
    <3> QED
      BY <1>4, <3>1 DEF Send, SendAll, To, BeforeMoves
  <2>2. pc # "assign"
    BY <1>4 DEF Send
  <2> QED
    BY <1>2, <1>4, <2>1, <2>2, SendHome DEF HomeOK
<1>5. CASE ~MoveWorkspaces /\ ~Send
  <2>1. pc # "assign" /\ ~BeforeMoves /\ ~(pc = "send" /\ next = "everyone")
    <3>1. CASE SendFails
      BY <1>2, <3>1 DEF SendFails, Calm, BeforeMoves
    <3>2. CASE QueryFails
      BY <1>2, <3>2 DEF QueryFails, Calm, BeforeMoves
    <3>3. CASE CleanupOrphans
      BY <3>3 DEF CleanupOrphans, SendAll, To, BeforeMoves
    <3> QED
      BY <1>1, <1>5, <3>1, <3>2, <3>3
      DEF Daemon, FocusEveryone, Assigned, Prime, ReadWatch, SyncMonitors, VisitMonitors, MovePinned, Refocus,
          FocusUnderCursor, Synced, StartSwitch, StartMove, StartNavigate, StartCollapse, StartSwap,
          StartAssign, Pin, Unpin, Command, Idle, SwitchVirtual, MoveToVirtual, Navigate, Swap, Collapse,
          BeforeMoves
  <2>2. known = present /\ \A id \in Workspace : Owner(id) = {} \/ home[id] \in Owner(id)
    BY <1>2, <2>1 DEF HomeOK, Relocating
  <2>3. home' = home
    BY <1>5, DaemonWaits DEF hyprland
  <2>4. \A x : Owner(x)' = Owner(x)
    BY <1>2 DEF Owner, SlotOf
  <2> QED
    BY <1>2, <2>2, <2>3, <2>4
<1> QED
  BY <1>3, <1>4, <1>5

LEMMA NextHome == TypeOK /\ TodoOK /\ SeenOK /\ HomeOK /\ [Next]_vars => HomeOK'
<1> SUFFICES ASSUME TypeOK, TodoOK, SeenOK, HomeOK, [Next]_vars  PROVE HomeOK'
  OBVIOUS
<1>1. CASE Daemon
  BY <1>1, DaemonHome
<1>2. CASE Session
  <2>1. UNCHANGED <<pc, next, todo, known>>
    BY <1>2, SessionJob DEF job, kept
  <2>2. Calm' => Calm /\ UNCHANGED <<present, home>>
    BY <1>2, SessionCalm
  <2>3. ASSUME Calm'  PROVE \A x : Owner(x)' = Owner(x) /\ Relocating(x)' = Relocating(x)
    BY <2>1, <2>2, <2>3 DEF Owner, SlotOf, Relocating
  <2> QED
    BY <2>1, <2>2, <2>3 DEF HomeOK, BeforeMoves
<1>3. CASE UNCHANGED vars
  BY <1>3 DEF vars, hyprland, events, job, kept, history, HomeOK, Calm, BeforeMoves, Owner, SlotOf, Relocating
<1> QED
  BY <1>1, <1>2, <1>3 DEF Next

-----------------------------------------------------------------------------
(* What Hyprland shows.                                                     *)

LEMMA VisitShown ==
  ASSUME SessionType, ShownAtHome, NEW id \in Workspace \cup Orphans, NEW by, Visit(id, by),
         UNCHANGED <<present, home>>
  PROVE  ShownAtHome'
<1>1. id \in Everywhere
  BY ShowableFacts
<1> QED
  BY <1>1 DEF Visit, SessionType, ShownAtHome

LEMMA RelocateShown ==
  ASSUME SessionType, ShownAtHome, NEW id \in Workspace, NEW m \in present, Relocate(id, m),
         UNCHANGED present
  PROVE  ShownAtHome'
<1> DEFINE old == home[id]
           left == {ws \in Workspace : home[ws] = old /\ ws # id}
           free == {ws \in Orphans : \A n \in present : shows[n] # ws}
<1>1. id \in Everywhere /\ old \in present /\ present \subseteq Monitor
  BY ShowableFacts DEF SessionType
<1>2. \A n \in present : shows[n] \in Everywhere
  BY ShowableFacts DEF SessionType
<1>3. CASE shows[old] # id \/ old = m
  <2>1. home' = [home EXCEPT ![id] = m] /\ shows' = shows
    BY <1>3 DEF Relocate
  <2>2. ASSUME NEW n \in present  PROVE home'[shows[n]] = n
    BY <1>1, <1>2, <1>3, <2>1 DEF SessionType, ShownAtHome
  <2> QED
    BY <2>1, <2>2 DEF ShownAtHome
<1>4. CASE ~(shows[old] # id \/ old = m)
  <2>1. PICK other \in IF left = {} THEN free ELSE left :
            /\ home' = [home EXCEPT ![id] = m, ![other] = old]
            /\ shows' = IF focus = old THEN [shows EXCEPT ![old] = other, ![m] = id]
                        ELSE [shows EXCEPT ![old] = other]
    BY <1>4 DEF Relocate
  <2>2. other # id /\ other \in Everywhere
    BY WorkspaceFacts DEF Everywhere
  <2>3. \A n \in present \ {old} : shows[n] # other /\ shows[n] # id
    BY <1>1, <1>4 DEF ShownAtHome
  <2> HIDE DEF left, free, old
  <2>4. \A x \in Everywhere : home'[x] = IF x = other THEN old ELSE IF x = id THEN m ELSE home[x]
    BY <1>1, <2>1, <2>2 DEF SessionType
  <2>5. ASSUME NEW n \in present  PROVE home'[shows'[n]] = n
    <3>1. CASE n = old
      <4>1. shows'[n] = other
        BY <1>1, <1>4, <2>1, <3>1 DEF SessionType
      <4> QED
        BY <2>2, <2>4, <3>1, <4>1
    <3>2. CASE n = m /\ focus = old
      <4>1. shows'[n] = id
        BY <1>1, <1>4, <2>1, <3>2 DEF SessionType
      <4> QED
        BY <1>1, <2>2, <2>4, <3>2, <4>1
    <3>3. CASE n # old /\ ~(n = m /\ focus = old)
      <4>1. shows'[n] = shows[n]
        BY <1>1, <2>1, <3>3 DEF SessionType
      <4> QED
        BY <1>2, <2>3, <2>4, <3>3, <4>1 DEF ShownAtHome
    <3> QED
      BY <3>1, <3>2, <3>3
  <2> QED
    BY <2>5 DEF ShownAtHome
<1> QED
  BY <1>3, <1>4

LEMMA NextShown == TypeOK /\ TodoOK /\ ShownAtHome /\ [Next]_vars => ShownAtHome'
<1> SUFFICES ASSUME TypeOK, TodoOK, ShownAtHome, [Next]_vars  PROVE ShownAtHome'
  OBVIOUS
<1>0. SessionType /\ JobType
  BY TypeParts
<1>1. CASE Send
  <2>1. PICK r \in todo : ~Refused(r) /\ Perform(r)
    BY <1>1 DEF Send
  <2>2. r \in Request /\ present' = present
    BY <1>0, <2>1 DEF JobType, Perform
  <2> USE RequestFacts
  <2>3. CASE r.op \in {"focus", "active", "follow"}
    <3>1. r.ws \in Workspace
      BY <2>2, <2>3 DEF TodoOK
    <3> QED
      BY <1>0, <2>1, <2>2, <2>3, <3>1, VisitShown DEF Perform
  <2>4. CASE r.op = "silent"
    <3>1. shows' = shows /\ \A x \in Workspace \cup Orphans : home'[x] = home[x]
      BY <1>0, <2>1, <2>4, ShowableFacts DEF Perform, SessionType
    <3>2. \A m \in present : shows[m] \in Workspace \cup Orphans
      BY <1>0 DEF SessionType
    <3> QED
      BY <2>2, <3>1, <3>2 DEF ShownAtHome
  <2>5. CASE r.op = "relocate"
    BY <1>0, <2>1, <2>2, <2>5, RelocateShown DEF Perform, Refused
  <2>6. CASE r.op = "window"
    <3>1. at[r.arg] \in Workspace \cup Orphans
      BY <1>0, <2>1, <2>2, <2>6 DEF Refused, TodoOK, SessionType, Everywhere
    <3> QED
      BY <1>0, <2>1, <2>2, <2>6, <3>1, VisitShown DEF Perform
  <2> QED
    BY <2>2, <2>3, <2>4, <2>5, <2>6
<1>2. CASE Daemon /\ ~Send
  BY <1>2, DaemonWaits DEF hyprland, ShownAtHome
<1>3. CASE Swipe
  BY <1>0, <1>3, VisitShown DEF Swipe
<1>4. CASE Deliver \/ ListenerRestarts \/ FocusMonitor \/ OpenWindow \/ CloseWindow \/ ReloadConfig
  BY <1>4 DEF Deliver, ListenerRestarts, FocusMonitor, OpenWindow, CloseWindow, ReloadConfig, hyprland, ShownAtHome
<1>5. CASE Unplug
  <2>1. PICK m \in present, n \in present :
          /\ m # n
          /\ present' = present \ {m}
          /\ shows' = [shows EXCEPT ![m] = None]
          /\ home' = [id \in Everywhere |-> IF home[id] = m THEN n ELSE home[id]]
    BY <1>5 DEF Unplug
  <2>2. \A k \in present : shows[k] \in Everywhere
    BY <1>0, ShowableFacts DEF SessionType
  <2> QED
    BY <1>0, <2>1, <2>2 DEF SessionType, ShownAtHome
<1>6. CASE Plug
  <2>1. PICK m \in Monitor \ present, returning \in SUBSET Workspace :
          /\ \A id \in returning : \A n \in present : shows[n] # id
          /\ present' = present \cup {m}
          /\ home' = [id \in Everywhere |-> IF id \in returning THEN m ELSE home[id]]
          /\ \E id \in returning : shows' = [shows EXCEPT ![m] = id]
    <3>1. PICK m \in Monitor \ present :
            LET returning == {id \in Workspace : SlotOfId(id) = Slot[m] /\ \A n \in present : shows[n] # id}
            IN /\ present' = present \cup {m}
               /\ home' = [id \in Everywhere |-> IF id \in returning THEN m ELSE home[id]]
               /\ \E id \in returning : shows' = [shows EXCEPT ![m] = id]
      BY <1>6 DEF Plug
    <3> DEFINE returning == {id \in Workspace : SlotOfId(id) = Slot[m] /\ \A n \in present : shows[n] # id}
    <3>2. returning \in SUBSET Workspace /\ \A id \in returning : \A n \in present : shows[n] # id
      OBVIOUS
    <3> QED
      BY <3>1, <3>2
  <2>2. PICK id \in returning : shows' = [shows EXCEPT ![m] = id]
    BY <2>1
  <2>3. \A k \in present : shows[k] \in Everywhere
    BY <1>0, ShowableFacts DEF SessionType
  <2>4. id \in Everywhere
    BY ShowableFacts
  <2> QED
    BY <1>0, <2>1, <2>2, <2>3, <2>4 DEF SessionType, ShownAtHome
<1>7. CASE UNCHANGED vars
  BY <1>7 DEF vars, hyprland, ShownAtHome
<1> QED
  BY <1>1, <1>2, <1>3, <1>4, <1>5, <1>6, <1>7 DEF Next, Session

-----------------------------------------------------------------------------
(* A sync moves no workspace.                                               *)

\* While all is calm, the workspace of a virtual workspace and a monitor is there.
LEMMA AtHome ==
  ASSUME TypeOK, HomeOK, Calm, pc # "assign", ~BeforeMoves, ~(pc = "send" /\ next = "everyone"),
         NEW m \in present, NEW v \in Virtual
  PROVE  home[Id(SlotOf(m), v)] = m
<1>0. SessionType
  BY TypeParts
<1>1. known = present /\ m \in Monitor
  BY <1>0 DEF HomeOK, SessionType
<1>2. Id(SlotOf(m), v) \in Workspace /\ SlotOfId(Id(SlotOf(m), v)) = SlotOf(m)
  BY <1>1, TargetFacts
<1>3. m \in Owner(Id(SlotOf(m), v))
  BY <1>2 DEF Owner
<1>4. home[Id(SlotOf(m), v)] \in Owner(Id(SlotOf(m), v))
  BY <1>2, <1>3 DEF HomeOK, Relocating
<1>5. ASSUME NEW n \in Owner(Id(SlotOf(m), v))  PROVE n = m
  <2>1. n \in present /\ n \in Monitor /\ SlotOf(n) = SlotOf(m)
    BY <1>0, <1>2 DEF Owner, SessionType
  <2> QED
    BY <1>1, <2>1, SlotAssumption DEF SlotOf
<1> QED
  BY <1>4, <1>5

LEMMA DaemonMoves ==
  TypeOK /\ PhaseOK /\ TodoOK /\ SeenOK /\ HomeOK /\ MovesOK /\ Daemon => MovesOK'
<1> SUFFICES ASSUME TypeOK, PhaseOK, TodoOK, SeenOK, HomeOK, MovesOK, Daemon, Calm', next' = "pinned",
                    NEW r \in todo'
             PROVE  r.op # "relocate"
  BY DEF MovesOK
<1>0. JobType
  BY TypeParts
<1>1. CASE VisitMonitors
  <2> DEFINE target(m) == Id(SlotOf(m), goal)
             visited == {m \in Monitor : target(m) # origin /\ seen[m] \notin {None, target(m)}}
             away == {m \in visited : home[target(m)] # m}
  <2>1. Calm
    BY <1>1, DaemonCalm DEF VisitMonitors, Assign, ReceiveChange, Idle
  <2>2. pc = "workspaces" /\ goal \in Virtual
    BY <1>1 DEF VisitMonitors, PhaseOK
  <2>3. \A m \in visited : m \in present
    BY <2>1, <2>2 DEF SeenOK, Looking
  <2>4. away = {}
    BY <2>1, <2>2, <2>3, AtHome DEF BeforeMoves
  <2>5. todo' = {Req(2 * m, "relocate", target(m), m) : m \in away}
                  \cup {Req(2 * m + 1, "focus", target(m), None) : m \in visited}
    BY <1>1 DEF VisitMonitors, SendAll
  <2> HIDE DEF away, visited
  <2> QED
    BY <2>4, <2>5 DEF Req
<1>2. CASE Send \/ SendFails
  <2>1. Calm
    BY <1>2, DaemonCalm DEF Send, SendFails, Assign, ReceiveChange, Idle
  <2>2. todo' \subseteq todo /\ next' \in {next, "idle"}
    <3>1. CASE Send
      <4>1. PICK q \in todo : SendAll(todo \ {q}, next)
        BY <3>1 DEF Send
      <4> QED
        BY <4>1 DEF SendAll
    <3>2. CASE SendFails
      <4>1. PICK q \in todo : SendAll(todo \ {q}, next) \/ \E p : SendAll({}, p)
        BY <3>2 DEF SendFails
      <4> QED
        BY <4>1 DEF SendAll
    <3> QED
      BY <1>2, <3>1, <3>2
  <2> QED
    BY <2>1, <2>2 DEF MovesOK
<1>3. CASE ~VisitMonitors /\ ~Send /\ ~SendFails
  <2>1. pc # "send"
    BY <1>3, DaemonStep
  <2>2. todo' = {} \/ todo' = todo \/ next' # "pinned"
    BY <1>3 DEF Daemon, QueryFails, Assign, CleanupOrphans, MoveWorkspaces, FocusEveryone, Assigned,
       ReceiveChange, Prime, ReadWatch, SyncMonitors, MovePinned, Refocus, FocusUnderCursor, Synced,
       StartSwitch, StartMove, StartNavigate, StartCollapse, StartSwap, StartAssign, Pin, Unpin, Command,
       SwitchVirtual, MoveToVirtual, Navigate, Swap, Collapse, SendAll
  <2> QED
    BY <1>0, <2>1, <2>2, Waiting
<1> QED
  BY <1>1, <1>2, <1>3

LEMMA NextMoves ==
  TypeOK /\ PhaseOK /\ TodoOK /\ SeenOK /\ HomeOK /\ MovesOK /\ [Next]_vars => MovesOK'
<1> SUFFICES ASSUME TypeOK, PhaseOK, TodoOK, SeenOK, HomeOK, MovesOK, [Next]_vars  PROVE MovesOK'
  OBVIOUS
<1>1. CASE Daemon
  BY <1>1, DaemonMoves
<1>2. CASE Session
  BY <1>2, SessionJob, SessionCalm DEF job, MovesOK
<1>3. CASE UNCHANGED vars
  BY <1>3 DEF vars, events, job, history, MovesOK, Calm
<1> QED
  BY <1>1, <1>2, <1>3 DEF Next

-----------------------------------------------------------------------------
(* What the user made of a monitor.                                         *)

\* Events of workspaces.
LEMMA WireIds ==
  ASSUME WireType, Calm, NEW i \in DOMAIN wire
  PROVE  wire[i] \in [id : Workspace \cup Orphans, by : {"user", "sync"}]
<1>1. wire[i] \in Event
  <2>1. Len(wire) \in Nat /\ DOMAIN wire = 1 .. Len(wire)
    BY LenProperties DEF WireType
  <2> QED
    BY <2>1, ElementOfSeq DEF WireType
<1> QED
  BY <1>1 DEF Calm, Event

\* Nothing but the buffer's monitor changes.
LEMMA PendingSame ==
  ASSUME WireType, Calm, UNCHANGED <<shows, watch, wire>>,
         \A x \in Workspace \cup Orphans : home'[x] = home[x],
         NEW m, Pending(m)
  PROVE  Pending(m)'
<1>1. \A i \in DOMAIN wire : home'[wire'[i].id] = home[wire[i].id]
  BY WireIds
<1> QED
  BY <1>1 DEF Pending

\* A visit changes one monitor, and says so.
LEMMA VisitPending ==
  ASSUME SessionType, WireType, NEW id \in Workspace, NEW by \in {"user", "sync"}, Visit(id, by),
         UNCHANGED <<home, watch>>, NEW m \in present
  PROVE  /\ shows'[m] = IF m = home[id] THEN id ELSE shows[m]
         /\ shows'[m] = shows[m] /\ Pending(m) => Pending(m)'
         /\ shows'[m] # shows[m] /\ by = "user" => Pending(m)'
<1>1. id \in Everywhere /\ m \in Monitor
  BY ShowableFacts DEF SessionType
<1>2. shows'[m] = IF m = home[id] THEN id ELSE shows[m]
  BY <1>1 DEF Visit, SessionType
<1>3. CASE shows[home[id]] = id
  <2>1. wire' = wire /\ shows'[m] = shows[m]
    BY <1>2, <1>3 DEF Visit
  <2> QED
    BY <1>2, <2>1 DEF Pending
<1>4. CASE shows[home[id]] # id
  <2> DEFINE e == [id |-> id, by |-> by]
  <2>1. e \in Event /\ Post(e)
    BY <1>4 DEF Event, Visit
  <2>2. \A i \in DOMAIN wire : i \in DOMAIN wire' /\ wire'[i] = wire[i]
    BY <2>1, PostFacts
  <2>3. PICK k \in DOMAIN wire' :
          wire'[k] = e /\ \A i \in DOMAIN wire' : i = k \/ (i \in DOMAIN wire /\ i < k)
    BY <2>1, PostFacts
  <2>4. ASSUME shows'[m] = shows[m], Pending(m)  PROVE Pending(m)'
    <3>1. m # home[id]
      BY <1>2, <1>4, <2>4
    <3>2. \A j \in DOMAIN wire' : j = k \/ (j \in DOMAIN wire /\ wire'[j] = wire[j])
      BY <2>2, <2>3
    <3>3. home'[wire'[k].id] # m
      BY <2>3, <3>1
    <3>4. CASE /\ watch.unread /\ watch.id = shows[m] /\ watch.by = "user"
               /\ \A j \in DOMAIN wire : home[wire[j].id] # m
      <4>1. \A j \in DOMAIN wire' : home'[wire'[j].id] # m
        BY <3>2, <3>3, <3>4
      <4> QED
        BY <2>4, <3>4, <4>1 DEF Pending
    <3>5. ASSUME NEW i \in DOMAIN wire, wire[i] = [id |-> shows[m], by |-> "user"],
                 \A j \in DOMAIN wire : i < j => home[wire[j].id] # m
          PROVE  Pending(m)'
      <4>1. i \in DOMAIN wire' /\ wire'[i] = [id |-> shows'[m], by |-> "user"]
        BY <2>2, <2>4, <3>5
      <4>2. \A j \in DOMAIN wire' : i < j => home'[wire'[j].id] # m
        BY <3>2, <3>3, <3>5
      <4> QED
        BY <2>4, <4>1, <4>2 DEF Pending
    <3> QED
      BY <2>4, <3>4, <3>5 DEF Pending
  <2>5. ASSUME shows'[m] # shows[m], by = "user"  PROVE Pending(m)'
    <3>1. shows'[m] = id
      BY <1>2, <2>5
    <3>2. \A j \in DOMAIN wire' : ~(k < j)
      <4>1. WireType'
        BY <2>1, PostType
      <4>2. DOMAIN wire' = 1 .. Len(wire') /\ Len(wire') \in Nat
        BY <4>1, LenProperties DEF WireType
      <4> QED
        BY <2>3, <4>2
    <3> QED
      BY <2>3, <2>5, <3>1, <3>2 DEF Pending
  <2> QED
    BY <1>2, <2>4, <2>5
<1> QED
  BY <1>3, <1>4

\* A visit keeps what is fine, if it is the user's or brings the monitor to g.
LEMMA VisitFine ==
  ASSUME SessionType, WireType, NEW id \in Workspace, NEW by \in {"user", "sync"}, Visit(id, by),
         UNCHANGED <<home, watch>>, NEW m \in present, NEW g, by = "sync" => VirtualOf(id) = g
  PROVE  /\ Fine(m, g) => Fine(m, g)'
         /\ m = home[id] /\ VirtualOf(id) = g => Fine(m, g)'
<1>1. /\ shows'[m] = IF m = home[id] THEN id ELSE shows[m]
      /\ shows'[m] = shows[m] /\ Pending(m) => Pending(m)'
      /\ shows'[m] # shows[m] /\ by = "user" => Pending(m)'
  BY VisitPending
<1> QED
  BY <1>1 DEF Fine

\* The session leaves a monitor as it is, or leaves word of what the user did.
LEMMA SessionPending ==
  ASSUME TypeOK, ShownAtHome, Session, Calm, Calm', ~missed', NEW m \in present
  PROVE  \/ Pending(m)'
         \/ shows'[m] = shows[m] /\ ~Pending(m)
<1>0. SessionType /\ WireType /\ KeptType
  BY TypeParts
<1>1. CASE Deliver
  <2>1. shows' = shows /\ home' = home
    BY <1>1 DEF Deliver, hyprland
  <2> SUFFICES ASSUME Pending(m)  PROVE Pending(m)'
    BY <2>1
  <2>2. wire \in Seq(Event) /\ wire # <<>> /\ wire' = Tail(wire)
    BY <1>0, <1>1 DEF Deliver, WireType
  <2>3. /\ Len(wire) \in Nat /\ DOMAIN wire = 1 .. Len(wire)
        /\ DOMAIN wire' = 1 .. (Len(wire) - 1)
        /\ \A i \in 1 .. (Len(wire) - 1) : wire'[i] = wire[i + 1]
        /\ Head(wire) = wire[1] /\ 1 \in DOMAIN wire
    BY <2>2, HeadTailProperties, LenProperties, EmptySeq
  <2>4. wire[1].by # "monitors"
    BY <2>3 DEF Calm
  <2>5. /\ watch' = [id |-> wire[1].id, by |-> wire[1].by, unread |-> TRUE]
        /\ ~(watch.unread /\ watch.by = "user" /\ home[watch.id] # home[wire[1].id])
    BY <1>1, <2>3, <2>4 DEF Deliver
  <2>6. CASE /\ watch.unread /\ watch.id = shows[m] /\ watch.by = "user"
             /\ \A j \in DOMAIN wire : home[wire[j].id] # m
    <3>1. home[shows[m]] # m
      BY <2>3, <2>5, <2>6
    <3> QED
      BY <3>1 DEF ShownAtHome
  <2>7. ASSUME NEW i \in DOMAIN wire, wire[i] = [id |-> shows[m], by |-> "user"],
               \A j \in DOMAIN wire : i < j => home[wire[j].id] # m
        PROVE  Pending(m)'
    <3>1. \A j \in DOMAIN wire' : j + 1 \in DOMAIN wire /\ wire'[j] = wire[j + 1]
      BY <2>3
    <3>2. CASE i = 1
      <4>0. wire[1].id = shows[m] /\ wire[1].by = "user"
        BY <2>7, <3>2
      <4>1. watch' = [id |-> shows'[m], by |-> "user", unread |-> TRUE]
        BY <2>1, <2>5, <4>0
      <4>2. \A j \in DOMAIN wire' : home'[wire'[j].id] # m
        BY <2>1, <2>3, <2>7, <3>1, <3>2
      <4> QED
        BY <2>1, <4>1, <4>2 DEF Pending
    <3>3. CASE i # 1
      <4>1. i - 1 \in DOMAIN wire' /\ wire'[i - 1] = [id |-> shows'[m], by |-> "user"]
        BY <2>1, <2>3, <2>7, <3>3
      <4>2. \A j \in DOMAIN wire' : i - 1 < j => home'[wire'[j].id] # m
        BY <2>1, <2>3, <2>7, <3>1
      <4> QED
        BY <2>1, <4>1, <4>2 DEF Pending
    <3> QED
      BY <3>2, <3>3
  <2> QED
    BY <2>6, <2>7 DEF Pending
<1>2. CASE ListenerRestarts
  <2>1. UNCHANGED <<shows, home, watch>> /\ wire' = <<>>
    BY <1>2 DEF ListenerRestarts, hyprland
  <2>2. \A i \in DOMAIN wire : wire[i].by # "user"
    BY <1>2 DEF ListenerRestarts
  <2>3. DOMAIN wire' = {}
    BY <2>1, EmptySeq, LenProperties
  <2> QED
    BY <2>1, <2>2, <2>3 DEF Pending
<1>3. CASE FocusMonitor \/ OpenWindow \/ CloseWindow
  <2>1. UNCHANGED <<shows, home, watch, wire>>
    BY <1>3 DEF FocusMonitor, OpenWindow, CloseWindow, User
  <2> QED
    BY <1>0, <2>1, PendingSame
<1>4. CASE Swipe
  <2>1. PICK id \in Workspace : Visit(id, "user")
    BY <1>4 DEF Swipe
  <2>2. UNCHANGED <<home, watch>>
    BY <1>4 DEF Swipe, User
  <2> QED
    BY <1>0, <2>1, <2>2, VisitPending
<1>5. CASE Unplug \/ Plug \/ ReloadConfig
  <2>1. Hotplug
    BY <1>5 DEF Unplug, Plug, ReloadConfig
  <2>2. [by |-> "monitors"] \in Event
    BY DEF Event
  <2>3. changes' = changes /\ unassigned' = unassigned /\ Post([by |-> "monitors"])
    BY <2>1 DEF Hotplug, history
  <2> QED
    BY <1>0, <2>2, <2>3, CalmPost
<1> QED
  BY <1>1, <1>2, <1>3, <1>4, <1>5 DEF Session

-----------------------------------------------------------------------------
(* A sync brings every monitor to its virtual workspace.                    *)

\* A request keeps what is fine.
LEMMA PerformFine ==
  ASSUME TypeOK, TodoOK, MovesOK, Calm, WindowsOK, NEW r \in todo, ~Refused(r), Perform(r), UNCHANGED watch,
         next # "everyone", NEW m \in present, NEW g,
         next \in {"pinned", "refocus", "window", "synced"} => goal = g
  PROVE  /\ \A x \in Workspace : home'[x] = home[x]
         /\ Fine(m, g) => Fine(m, g)'
         /\ r.op = "focus" /\ home[r.ws] = m /\ VirtualOf(r.ws) = g => Fine(m, g)'
<1>0. SessionType /\ WireType /\ JobType
  BY TypeParts
<1>1. r \in Request
  BY <1>0 DEF JobType
<1>2. r.op # "relocate"
  BY DEF TodoOK, MovesOK
<1>3. \A id : Sender(id) \in {"user", "sync"} /\ (Sender(id) = "sync" => VirtualOf(id) = g)
  BY DEF Sender
<1>4. CASE r.op \in {"focus", "follow", "active"}
  <2>1. r.ws \in Workspace /\ Visit(r.ws, Sender(r.ws)) /\ home' = home
    BY <1>1, <1>4, RequestFacts DEF TodoOK, Perform
  <2> QED
    BY <1>0, <1>3, <2>1, VisitFine
<1>5. CASE r.op = "window"
  <2>1. /\ at[r.arg] \in Workspace /\ Visit(at[r.arg], Sender(at[r.arg])) /\ home' = home
    BY <1>5 DEF WindowsOK, Refused, Perform
  <2> QED
    BY <1>0, <1>3, <1>5, <2>1, VisitFine
<1>6. CASE r.op = "silent"
  <2>1. UNCHANGED <<shows, wire>> /\ \A x \in Workspace \cup Orphans : home'[x] = home[x]
    BY <1>0, <1>6, ShowableFacts DEF Perform, SessionType
  <2>2. Pending(m) => Pending(m)'
    BY <1>0, <2>1, PendingSame
  <2> QED
    BY <1>6, <2>1, <2>2 DEF Fine
<1> QED
  BY <1>1, <1>2, <1>4, <1>5, <1>6, RequestFacts

\* Sending a request keeps the monitors on their way to a virtual workspace.
LEMMA SendSettled ==
  ASSUME TypeOK, PhaseOK, TodoOK, MovesOK, Calm, WindowsOK, Send, next # "everyone", NEW g, Settled(g),
         next \in {"pinned", "refocus", "window", "synced"} => goal = g
  PROVE  Settled(g)'
<1>0. SessionType /\ JobType
  BY TypeParts
<1>1. PICK r \in todo : ~Refused(r) /\ Perform(r) /\ SendAll(todo \ {r}, next)
  BY DEF Send
<1>2. present' = present /\ watch' = watch
  BY <1>1 DEF Send, Perform
<1>3. todo' = todo \ {r} /\ (todo' # {} => pc' = "send" /\ next' = next)
  BY <1>1 DEF SendAll, To
<1> SUFFICES ASSUME NEW m \in present
             PROVE  Fine(m, g)' \/ Visiting(m, g)' \/ (Returning /\ home[origin] = m)'
  BY <1>2 DEF Settled
<1>4. /\ \A x \in Workspace : home'[x] = home[x]
      /\ Fine(m, g) => Fine(m, g)'
      /\ r.op = "focus" /\ home[r.ws] = m /\ VirtualOf(r.ws) = g => Fine(m, g)'
  BY <1>1, <1>2, PerformFine
<1>5. CASE Visiting(m, g)
  <2>1. PICK q \in todo : q.op = "focus" /\ home[q.ws] = m /\ VirtualOf(q.ws) = g
    BY <1>5 DEF Visiting
  <2>2. CASE q = r
    BY <1>4, <2>1, <2>2
  <2>3. CASE q # r
    <3>1. q \in todo' /\ q.ws \in Workspace
      BY <1>0, <1>3, <2>1, <2>3, RequestFacts DEF JobType
    <3>2. home'[q.ws] = m
      BY <1>4, <2>1, <3>1
    <3> QED
      BY <1>3, <1>5, <2>1, <3>1, <3>2 DEF Visiting
  <2> QED
    BY <2>2, <2>3
<1>6. CASE Returning /\ home[origin] = m
  <2>1. next \in {"pinned", "refocus"} /\ pc = "send"
    BY <1>6 DEF Returning, Send
  <2>2. origin \in Workspace
    BY <2>1 DEF PhaseOK
  <2>3. origin' = origin /\ Returning'
    BY <1>1, <2>1 DEF SendAll, To, Returning
  <2>4. home'[origin'] = m
    BY <1>4, <1>6, <2>2, <2>3
  <2> QED
    BY <2>3, <2>4
<1> QED
  BY <1>4, <1>5, <1>6 DEF Settled

\* What is left of the goal when an operation sends a request.
LEMMA SendWhere ==
  ASSUME JobType, PhaseOK, Send
  PROVE  /\ pc' # "workspaces" /\ pc # "workspaces" /\ pc # "sync"
         /\ Syncing' => Syncing /\ goal' = goal
         /\ Assigning' <=> Assigning
         /\ Syncing <=> next \in {"pinned", "refocus", "window", "synced"}
         /\ next = "everyone" => Assigning'
         /\ ~Syncing' => ~Syncing
<1>1. PICK r \in todo : SendAll(todo \ {r}, next)
  BY DEF Send
<1>2. pc = "send" /\ next \in Sending
  BY DEF Send, JobType
<1>3. Syncing <=> next \in {"pinned", "refocus", "window", "synced"}
  BY <1>2 DEF Syncing
<1>4. next = "window" => origin # Priming
  BY <1>2, WorkspaceFacts DEF PhaseOK, Priming
<1>5. \/ pc' = "send" /\ next' = next /\ UNCHANGED <<goal, origin>>
      \/ pc' = next /\ (next # "idle" => UNCHANGED <<goal, origin>>)
  BY <1>1 DEF SendAll, To
<1> QED
  BY <1>2, <1>3, <1>4, <1>5 DEF Syncing, Assigning, BeforeMoves, Sending

LEMMA SendSync ==
  ASSUME TypeOK, PhaseOK, TodoOK, MovesOK, SyncOK, Send
  PROVE  SyncOK'
<1>0. JobType
  BY TypeParts
<1> SUFFICES ASSUME Calm', ~missed', Several'
             PROVE  /\ (pc = "workspaces" => \A m \in present : seen[m] = shows[m] \/ Pending(m))'
                    /\ (Syncing /\ pc \notin {"sync", "workspaces"} => Settled(goal))'
                    /\ (Quiet => \E g \in Virtual : synced \in {NoVirtual, g} /\ Settled(g))'
                    /\ WindowsOK'
  BY DEF SyncOK, WindowsOK
<1>1. UNCHANGED <<missed, present, synced>>
  BY DEF Send, history, kept, Perform
<1>2. Calm /\ ~missed /\ Several
  BY <1>1, DaemonCalm DEF Send, Daemon, Assign, ReceiveChange, Idle, Several
<1>3. WindowsOK
  BY <1>2 DEF SyncOK, WindowsOK
<1>4. WindowsOK'
  <2>1. PICK r \in todo : SendAll(todo \ {r}, next)
    BY DEF Send
  <2> QED
    BY <2>1 DEF SendAll, TodoOK, WindowsOK
<1>5. Syncing' => Settled(goal)'
  <2> SUFFICES ASSUME Syncing'  PROVE Settled(goal)'
    OBVIOUS
  <2>1. Syncing /\ goal' = goal /\ pc \notin {"sync", "workspaces"} /\ next # "everyone"
    BY <1>0, SendWhere
  <2>2. Settled(goal)
    BY <1>2, <2>1 DEF SyncOK
  <2>3. PICK g \in Virtual : g = goal
    BY <2>2 DEF Settled
  <2>4. Settled(g) /\ goal = g /\ goal' = g
    BY <2>1, <2>2, <2>3
  <2>5. Settled(g)'
    BY <1>2, <1>3, <2>1, <2>4, SendSettled
  <2> QED
    BY <2>4, <2>5 DEF Settled, Visiting, Fine
<1>6. ASSUME ~Syncing', ~Assigning'
      PROVE  (\E g \in Virtual : synced \in {NoVirtual, g} /\ Settled(g))'
  <2>1. ~Syncing /\ ~Assigning /\ next # "everyone" /\ next \notin {"pinned", "refocus", "window", "synced"}
    BY <1>0, <1>6, SendWhere
  <2>2. PICK g \in Virtual : synced \in {NoVirtual, g} /\ Settled(g)
    BY <1>2, <2>1 DEF SyncOK, Quiet
  <2>3. Settled(g)'
    BY <1>2, <1>3, <2>1, <2>2, SendSettled
  <2>4. g \in Virtual' /\ synced' \in {NoVirtual, g}
    BY <1>1, <2>2 DEF Virtual
  <2> QED
    BY <2>3, <2>4
<1> QED
  BY <1>0, <1>4, <1>5, <1>6, SendWhere DEF Quiet

\* Steps that send nothing leave the monitors as they are.
LEMMA FineKept ==
  ASSUME UNCHANGED <<hyprland, wire, watch>>, NEW m, NEW g
  PROVE  (Fine(m, g)' <=> Fine(m, g)) /\ (Pending(m)' <=> Pending(m))
  BY DEF hyprland, Fine, Pending

LEMMA AllFine ==
  ASSUME NEW g, Settled(g), pc # "send", pc \notin {"pinned", "refocus"}, NEW m \in present
  PROVE  Fine(m, g)
  BY DEF Settled, Visiting, Returning

\* An operation that synchronises nothing starts, goes on or ends.
LEMMA QuietStep ==
  ASSUME SyncOK, Calm, ~missed, Several, Quiet, pc # "send",
         UNCHANGED <<hyprland, wire, watch, synced>>,
         Quiet', pc' # "workspaces", WindowsOK'
  PROVE  SyncOK'
<1>1. PICK g \in Virtual : synced \in {NoVirtual, g} /\ Settled(g)
  BY DEF SyncOK, Quiet
<1>2. pc \notin {"pinned", "refocus"} /\ present' = present
  BY DEF Quiet, Syncing, hyprland
<1>3. \A m \in present : Fine(m, g)'
  BY <1>1, <1>2, AllFine, FineKept
<1>4. Settled(g)'
  BY <1>1, <1>2, <1>3 DEF Settled, Virtual
<1>5. g \in Virtual' /\ synced' \in {NoVirtual, g}
  BY <1>1 DEF Virtual
<1> QED
  BY <1>4, <1>5 DEF SyncOK, Quiet, WindowsOK

LEMMA NoWindows == (\A r \in todo' : r.op # "window") => WindowsOK'
  BY DEF WindowsOK

QuietCommand == StartSwitch \/ StartMove \/ StartNavigate \/ StartCollapse \/ StartSwap \/ Pin \/ Unpin

LEMMA QuietSteps ==
  ASSUME JobType, PhaseOK,
         Prime \/ Navigate \/ Assigned \/ QuietCommand \/ SwitchVirtual \/ MoveToVirtual \/ Swap \/ Collapse
  PROVE  /\ Quiet /\ pc # "send" /\ UNCHANGED <<hyprland, wire, watch, synced, missed>>
         /\ Quiet' /\ pc' # "workspaces" /\ WindowsOK'
<1>1. CASE Prime \/ Navigate \/ QuietCommand
  <2>1. /\ pc \in {"prime", "navigate next", "navigate prev", "idle"} /\ todo' = todo
        /\ UNCHANGED <<hyprland, wire, watch, synced, missed>>
        /\ \/ pc' \in {"idle", "switch", "move to", "navigate next", "navigate prev", "collapse all",
                       "collapse invisible", "swap next", "swap prev"}
           \/ pc' = "window" /\ pc = "prime" /\ origin' = origin
    BY <1>1 DEF Prime, Navigate, QuietCommand, StartSwitch, StartMove, StartNavigate, StartCollapse,
       StartSwap, Pin, Unpin, Command, Idle, To, events, kept, history
  <2>2. todo' = {}
    BY <2>1, Waiting
  <2> QED
    BY <2>1, <2>2 DEF Quiet, Syncing, Assigning, BeforeMoves, PhaseOK, WindowsOK
<1>2. CASE Assigned
  <2>1. SendAll({}, AfterJob)
    BY <1>2 DEF Assigned
  <2> QED
    BY <1>2, <2>1 DEF Assigned, SendAll, To, AfterJob, Quiet, Syncing, Assigning, BeforeMoves, WindowsOK,
       events, kept, history
<1>3. CASE SwitchVirtual \/ MoveToVirtual \/ Swap \/ Collapse
  <2>1. /\ pc \in {"switch", "move to", "swap next", "swap prev", "collapse all", "collapse invisible"}
        /\ UNCHANGED <<hyprland, wire, watch, synced, missed>>
    BY <1>3 DEF SwitchVirtual, MoveToVirtual, Swap, Collapse, events, kept, history
  <2>2. PICK S : SendAll(S, "idle") /\ \A r \in S : r.op # "window"
    <3>1. CASE SwitchVirtual \/ MoveToVirtual
      <4>1. PICK op \in {"focus", "active"} : SendAll({Req(0, op, Id(SlotOf(focus), goal), None)}, "idle")
        BY <3>1 DEF SwitchVirtual, MoveToVirtual
      <4> QED
        BY <4>1 DEF Req
    <3>2. CASE Swap
      <4>1. \A a, b : \A r \in SwapLegs(a, b) : r.op # "window"
        BY MoveAllFacts DEF SwapLegs
      <4>2. SendAll({}, "idle") \/ \E a, b : SendAll(SwapLegs(a, b), "idle")
        BY <3>2 DEF Swap
      <4> QED
        BY <4>1, <4>2
    <3>3. CASE Collapse
      <4>1. PICK G : SendAll(IF VirtualOf(shows[focus]) = NoVirtual THEN {}
                             ELSE {Req(0, "follow", shows[focus], w) : w \in G}, "idle")
        BY <3>3 DEF Collapse
      <4> QED
        BY <4>1 DEF Req
    <3> QED
      BY <1>3, <3>1, <3>2, <3>3
  <2>3. todo' = S /\ (pc' = "idle" \/ (pc' = "send" /\ next' = "idle"))
    BY <2>2 DEF SendAll, To
  <2> QED
    BY <2>1, <2>2, <2>3, NoWindows DEF Quiet, Syncing, Assigning, BeforeMoves
<1> QED
  BY <1>1, <1>2, <1>3

\* An assignment starts, and moves what is not where it belongs.
LEMMA AssigningSteps ==
  ASSUME TypeOK, Assign \/ ReceiveChange \/ StartAssign \/ CleanupOrphans \/ MoveWorkspaces
  PROVE  SyncOK'
<1>0. JobType
  BY TypeParts
<1>1. Assigning' /\ ~Syncing' /\ pc' # "workspaces" /\ WindowsOK'
  <2>1. CASE Assign \/ ReceiveChange \/ StartAssign
    <3>1. pc \in {"assign", "idle"} /\ todo' = todo /\ pc' \in {"cleanup", "assign"}
      BY <2>1 DEF Assign, ReceiveChange, StartAssign, Command, Idle, To
    <3>2. todo' = {}
      BY <1>0, <3>1, Waiting
    <3> QED
      BY <3>1, <3>2 DEF Assigning, BeforeMoves, Syncing, WindowsOK
  <2>2. CASE CleanupOrphans
    <3> DEFINE S == UNION {MoveAll(o, o, o + 1) : o \in Rescued}
    <3>1. \A r \in S : r.op # "window"
      BY MoveAllFacts
    <3>2. SendAll(S, "move")
      BY <2>2 DEF CleanupOrphans
    <3> HIDE DEF S
    <3>3. todo' = S /\ (pc' = "move" \/ (pc' = "send" /\ next' = "move"))
      BY <3>2 DEF SendAll, To
    <3> QED
      BY <3>1, <3>3, NoWindows DEF Assigning, BeforeMoves, Syncing
  <2>3. CASE MoveWorkspaces
    <3> DEFINE S == UNION {Misplaced(id) : id \in Workspace}
    <3>1. \A r \in S : r.op # "window"
      BY DEF Misplaced, Req
    <3>2. SendAll(S, "everyone")
      BY <2>3 DEF MoveWorkspaces
    <3> HIDE DEF S
    <3>3. todo' = S /\ (pc' = "everyone" \/ (pc' = "send" /\ next' = "everyone"))
      BY <3>2 DEF SendAll, To
    <3> QED
      BY <3>1, <3>3, NoWindows DEF Assigning, BeforeMoves, Syncing
  <2> QED
    BY <2>1, <2>2, <2>3
<1> QED
  BY <1>1 DEF SyncOK, WindowsOK, Quiet

\* A sync goes on towards the virtual workspace it is for.
LEMMA SyncStep ==
  ASSUME Syncing', pc' \notin {"sync", "workspaces"}, goal' = goal, Settled(goal)', WindowsOK'
  PROVE  SyncOK'
  BY DEF SyncOK, WindowsOK, Quiet

\* The monitors a sync starts from are the ones that are there.
LEMMA SyncMonitorsSync ==
  ASSUME TypeOK, SyncMonitors
  PROVE  SyncOK'
<1>0. SessionType /\ JobType
  BY TypeParts
<1>1. todo' = {} /\ present' = present /\ shows' = shows
  BY <1>0, Waiting DEF SyncMonitors, hyprland
<1>2. CASE Cardinality(present) <= 1
  <2>1. IsFiniteSet(0 .. 98)
    <3>1. 0 \in Int /\ 98 \in Int
      OBVIOUS
    <3> QED
      BY <3>1, FS_Interval, Zenon
  <2>2. IsFiniteSet(present)
    <3>1. present \subseteq 0 .. 98
      BY <1>0, MonitorAssumption DEF SessionType
    <3> QED
      BY <2>1, <3>1, FS_Subset
  <2>3. Cardinality(present) \in {0, 1}
    BY <1>2, <2>2, FS_CardinalityType
  <2>4. present = {} \/ \E m : present = {m}
    BY <2>2, <2>3, FS_EmptySet, FS_Singleton
  <2>5. ~Several'
    BY <1>1, <2>4 DEF Several
  <2> QED
    BY <2>5 DEF SyncOK
<1>3. CASE ~(Cardinality(present) <= 1)
  <2>1. pc' = "workspaces" /\ seen' = shows
    BY <1>3 DEF SyncMonitors
  <2> QED
    BY <1>1, <2>1 DEF SyncOK, Syncing, Quiet, WindowsOK
<1> QED
  BY <1>2, <1>3

\* Every monitor that does not show the virtual workspace is visited, except the
\* one of the event.
LEMMA VisitMonitorsSync ==
  ASSUME TypeOK, PhaseOK, SeenOK, HomeOK, SyncOK, VisitMonitors, Calm, ~missed, Several
  PROVE  SyncOK'
<1> DEFINE target(m) == Id(SlotOf(m), goal)
           visited == {m \in Monitor : target(m) # origin /\ seen[m] \notin {None, target(m)}}
           away == {m \in visited : home[target(m)] # m}
           S == {Req(2 * m, "relocate", target(m), m) : m \in away}
                  \cup {Req(2 * m + 1, "focus", target(m), None) : m \in visited}
<1>0. SessionType
  BY TypeParts
<1>1. pc = "workspaces" /\ goal \in Virtual /\ UNCHANGED <<hyprland, wire, watch>>
  BY DEF VisitMonitors, PhaseOK, events
<1>2. SendAll(S, "pinned")
  BY DEF VisitMonitors
<1>3. /\ todo' = S /\ UNCHANGED <<goal, origin>>
      /\ IF S = {} THEN pc' = "pinned" ELSE pc' = "send" /\ next' = "pinned"
  BY <1>2 DEF SendAll, To
<1>4. Syncing' /\ Returning'
  BY <1>3 DEF Syncing, Returning
<1>5. \A r \in S : r.op # "window"
  BY DEF Req
<1>6. ASSUME NEW m \in present
      PROVE  Fine(m, goal)' \/ Visiting(m, goal)' \/ (home[origin] = m)'
  <2>1. m \in Monitor /\ target(m) \in Workspace /\ VirtualOf(target(m)) = goal
    BY <1>0, <1>1, SlotOfType, IdFacts DEF SessionType
  <2>2. home[target(m)] = m
    BY <1>1, AtHome DEF BeforeMoves
  <2>3. seen[m] # None
    BY <1>1, <2>1 DEF SeenOK, Looking
  <2>4. CASE target(m) = origin
    BY <1>1, <1>3, <2>2, <2>4 DEF hyprland
  <2>5. CASE seen[m] = target(m)
    <3>1. Fine(m, goal)
      BY <1>1, <2>1, <2>5 DEF SyncOK, Fine
    <3> QED
      BY <1>1, <1>3, <3>1 DEF Fine, Pending, hyprland
  <2>6. CASE target(m) # origin /\ seen[m] # target(m)
    <3>1. Req(2 * m + 1, "focus", target(m), None) \in S
      BY <2>1, <2>3, <2>6
    <3> HIDE DEF S
    <3>2. pc' = "send" /\ next' = "pinned"
      BY <1>3, <3>1
    <3>3. \E r \in todo' : r.op = "focus" /\ home'[r.ws] = m /\ VirtualOf(r.ws) = goal'
      <4>1. Req(2 * m + 1, "focus", target(m), None) \in todo'
        BY <1>3, <3>1
      <4>2. home'[target(m)] = m /\ VirtualOf(target(m)) = goal'
        BY <1>1, <1>3, <2>1, <2>2 DEF hyprland
      <4> HIDE DEF target
      <4> QED
        BY <4>1, <4>2 DEF Req
    <3> QED
      BY <3>2, <3>3 DEF Visiting
  <2> QED
    BY <2>4, <2>5, <2>6
<1>7. Settled(goal)'
  BY <1>1, <1>3, <1>4, <1>6 DEF Settled, Virtual, hyprland
<1> HIDE DEF S
<1> QED
  BY <1>3, <1>4, <1>5, <1>7, NoWindows, SyncStep

LEMMA MovePinnedSync ==
  ASSUME SyncOK, MovePinned, Calm, ~missed, Several
  PROVE  SyncOK'
<1>1. pc = "pinned" /\ UNCHANGED <<hyprland, wire, watch>>
  BY DEF MovePinned, events
<1>2. Settled(goal)
  BY <1>1 DEF SyncOK, Syncing
<1>3. PICK S : SendAll(S, "refocus") /\ \A r \in S : r.op # "window"
  <2>1. PICK G : SendAll({Req(0, "silent", Id(SlotOf(home[at[w]]), goal), w) : w \in G}, "refocus")
    BY DEF MovePinned
  <2> QED
    BY <2>1 DEF Req
<1>4. /\ todo' = S /\ UNCHANGED <<goal, origin>>
      /\ pc' = "refocus" \/ (pc' = "send" /\ next' = "refocus")
  BY <1>3 DEF SendAll, To
<1>5. Syncing' /\ Returning'
  BY <1>4 DEF Syncing, Returning
<1>6. Settled(goal)'
  BY <1>1, <1>2, <1>4, <1>5 DEF Settled, Visiting, Fine, Pending, hyprland
<1> QED
  BY <1>3, <1>4, <1>5, <1>6, NoWindows, SyncStep

\* The event's monitor is the last one visited, unless it has the focus already.
LEMMA RefocusSync ==
  ASSUME TypeOK, PhaseOK, ShownAtHome, SyncOK, Refocus, Calm, ~missed, Several
  PROVE  SyncOK'
<1>0. SessionType
  BY TypeParts
<1>1. pc = "refocus" /\ UNCHANGED <<hyprland, wire, watch>>
  BY DEF Refocus, events
<1>2. Settled(goal) /\ origin \in Workspace /\ VirtualOf(origin) = goal
  BY <1>1 DEF SyncOK, Syncing, PhaseOK
<1> DEFINE S == IF shows[focus] = origin THEN {} ELSE {Req(0, "focus", origin, None)}
<1>3. SendAll(S, "window")
  BY DEF Refocus
<1>4. /\ todo' = S /\ UNCHANGED <<goal, origin>>
      /\ IF S = {} THEN pc' = "window" ELSE pc' = "send" /\ next' = "window"
  BY <1>3 DEF SendAll, To
<1>5. Syncing'
  BY <1>2, <1>4, WorkspaceFacts DEF Syncing, Priming
<1>6. \A r \in S : r.op # "window"
  BY DEF Req
<1>7. ASSUME NEW m \in present  PROVE Fine(m, goal)' \/ Visiting(m, goal)'
  <2>1. CASE Fine(m, goal)
    BY <1>1, <1>4, <2>1 DEF Fine, Pending, hyprland
  <2>2. CASE home[origin] = m /\ shows[focus] = origin
    <3>1. m = focus
      BY <1>0, <2>2 DEF ShownAtHome, SessionType
    <3>2. Fine(m, goal)
      BY <1>2, <2>2, <3>1 DEF Fine
    <3> QED
      BY <2>1, <3>2
  <2>3. CASE home[origin] = m /\ shows[focus] # origin
    <3>1. todo' = {Req(0, "focus", origin, None)} /\ pc' = "send" /\ next' = "window"
      BY <1>4, <2>3
    <3>2. home'[origin] = m /\ VirtualOf(origin) = goal'
      BY <1>1, <1>2, <1>4, <2>3 DEF hyprland
    <3> QED
      BY <3>1, <3>2 DEF Visiting, Req
  <2>4. ~Visiting(m, goal)
    BY <1>1 DEF Visiting
  <2> QED
    BY <1>2, <2>1, <2>2, <2>3, <2>4 DEF Settled
<1>8. Settled(goal)'
  BY <1>1, <1>2, <1>4, <1>7 DEF Settled, Virtual, hyprland
<1> HIDE DEF S
<1> QED
  BY <1>4, <1>5, <1>6, <1>8, NoWindows, SyncStep

\* An assignment ends by visiting every monitor that did not show the virtual
\* workspace of the focused one.
LEMMA FocusEveryoneSync ==
  ASSUME TypeOK, SeenOK, HomeOK, FocusEveryone, Calm, ~missed'
  PROVE  SyncOK'
<1> DEFINE shown == VirtualOf(shows[focus])
           u == IF shown = NoVirtual THEN 1 ELSE shown
<1>0. SessionType /\ JobType
  BY TypeParts
<1>1. PICK v \in Virtual : v = u
  BY <1>0, ShowableFacts, NumVirtualAssumption DEF SessionType, Virtual
<1> DEFINE target(m) == Id(SlotOf(m), v)
           visited == {m \in Monitor : seen[m] \notin {None, target(m)}}
           S == {Req(m, "focus", target(m), None) : m \in visited}
<1>2. pc = "everyone" /\ UNCHANGED <<hyprland, wire, watch, synced>>
  BY DEF FocusEveryone, events, kept
<1>3. /\ SendAll(S, "assigned")
      /\ missed' = \/ missed
                   \/ \E m \in present : seen[m] = target(m) /\ shows[m] # seen[m]
                   \/ synced \notin {NoVirtual, v}
  BY <1>1 DEF FocusEveryone
<1>4. todo' = S /\ IF S = {} THEN pc' = "assigned" ELSE pc' = "send" /\ next' = "assigned"
  BY <1>3 DEF SendAll, To
<1>5. ~Syncing' /\ pc' # "workspaces"
  BY <1>4 DEF Syncing
<1>6. \A r \in S : r.op # "window"
  BY DEF Req
<1>7. ASSUME NEW m \in present  PROVE Fine(m, v)' \/ Visiting(m, v)'
  <2>1. m \in Monitor /\ target(m) \in Workspace /\ VirtualOf(target(m)) = v
    BY <1>0, SlotOfType, IdFacts DEF SessionType
  <2>2. home[target(m)] = m
    BY <1>2, AtHome DEF BeforeMoves
  <2>3. seen[m] # None
    BY <1>2, <2>1 DEF SeenOK, Looking
  <2>4. CASE seen[m] = target(m)
    <3>1. Fine(m, v)
      BY <1>3, <2>1, <2>4 DEF Fine
    <3> QED
      BY <1>2, <3>1, FineKept
  <2>5. CASE seen[m] # target(m)
    <3>1. Req(m, "focus", target(m), None) \in S
      BY <2>1, <2>3, <2>5
    <3> HIDE DEF S
    <3>2. pc' = "send" /\ next' = "assigned" /\ Req(m, "focus", target(m), None) \in todo'
      BY <1>4, <3>1
    <3>3. home'[target(m)] = m
      BY <1>2, <2>2 DEF hyprland
    <3> HIDE DEF target
    <3> QED
      BY <2>1, <3>2, <3>3 DEF Visiting, Req
  <2> QED
    BY <2>4, <2>5
<1>8. Settled(v)' /\ synced' \in {NoVirtual, v} /\ v \in Virtual'
  BY <1>2, <1>3, <1>7 DEF Settled, Virtual, hyprland
<1> HIDE DEF S
<1>9. WindowsOK'
  BY <1>4, <1>6, NoWindows
<1> QED
  BY <1>5, <1>8, <1>9 DEF SyncOK, WindowsOK

\* The window under the cursor is on a workspace that synchronised monitors show.
LEMMA FocusUnderCursorSync ==
  ASSUME TypeOK, PhaseOK, SyncOK, FocusUnderCursor, Calm, ~missed, Several
  PROVE  SyncOK'
<1>0. SessionType
  BY TypeParts
<1>1. pc = "window" /\ goal \in Virtual /\ UNCHANGED <<hyprland, wire, watch, synced>>
  BY DEF FocusUnderCursor, PhaseOK, events, kept
<1> DEFINE then == IF origin = Priming THEN "idle" ELSE "synced"
<1>2. PICK S : /\ SendAll(S, then)
               /\ \A r \in S : \E m \in present : r.op = "window" /\ at[r.arg] = Id(SlotOf(m), goal)
  <2>1. \/ SendAll({}, then)
        \/ \E w \in Window, m \in present : /\ at[w] = Id(SlotOf(m), goal)
                                           /\ SendAll({Req(0, "window", None, w)}, then)
    BY DEF FocusUnderCursor
  <2>2. ASSUME NEW w, NEW r \in {Req(0, "window", None, w)}
        PROVE  r.op = "window" /\ r.arg = w
    BY <2>2 DEF Req
  <2> HIDE DEF then
  <2>3. CASE SendAll({}, then)
    BY <2>3
  <2>4. ASSUME NEW w, NEW m \in present, at[w] = Id(SlotOf(m), goal), SendAll({Req(0, "window", None, w)}, then)
        PROVE  \E S : /\ SendAll(S, then)
                      /\ \A r \in S : \E n \in present : r.op = "window" /\ at[r.arg] = Id(SlotOf(n), goal)
    BY <2>2, <2>4
  <2> QED
    BY <2>1, <2>3, <2>4
<1>3. todo' = S /\ (pc' = then \/ (pc' = "send" /\ next' = then))
  BY <1>2 DEF SendAll, To
<1>4. WindowsOK'
  <2>1. \A m \in present : Id(SlotOf(m), goal) \in Workspace
    BY <1>0, <1>1, TargetFacts DEF SessionType
  <2> QED
    BY <1>1, <1>2, <1>3, <2>1 DEF WindowsOK, hyprland
<1>5. CASE origin = Priming
  <2>1. Quiet /\ Quiet' /\ pc' # "workspaces"
    BY <1>1, <1>3, <1>5 DEF Quiet, Syncing, Assigning, BeforeMoves
  <2> QED
    BY <1>1, <1>4, <2>1, QuietStep
<1>6. CASE origin # Priming
  <2>1. Syncing /\ Syncing' /\ pc' \notin {"sync", "workspaces"} /\ goal' = goal
    BY <1>1, <1>2, <1>3, <1>6 DEF Syncing, SendAll, To
  <2>2. \A m \in present : Fine(m, goal)
    BY <1>1, <2>1, AllFine DEF SyncOK
  <2>3. Settled(goal)'
    BY <1>1, <2>1, <2>2 DEF Settled, Fine, Pending, Virtual, hyprland
  <2> QED
    BY <1>4, <2>1, <2>3, SyncStep
<1> QED
  BY <1>5, <1>6

LEMMA SyncedSync ==
  ASSUME JobType, SyncOK, Synced, Calm, ~missed, Several
  PROVE  SyncOK'
<1>1. /\ pc = "synced" /\ pc' = "idle" /\ synced' = goal /\ todo' = {}
      /\ UNCHANGED <<hyprland, wire, watch>>
  BY Waiting DEF Synced, To, events
<1>2. PICK g \in Virtual : g = goal
  BY <1>1 DEF SyncOK, Syncing, Settled
<1>3. \A m \in present : Fine(m, g)
  BY <1>1, <1>2, AllFine DEF SyncOK, Syncing
<1>4. \A m \in present : Fine(m, g)'
  BY <1>1, <1>3, FineKept
<1>5. Settled(g)' /\ g \in Virtual' /\ synced' \in {NoVirtual, g}
  BY <1>1, <1>2, <1>4 DEF Settled, Virtual, hyprland
<1>6. ~Syncing' /\ WindowsOK'
  BY <1>1 DEF Syncing, WindowsOK
<1> QED
  BY <1>1, <1>5, <1>6 DEF SyncOK, WindowsOK

\* What is read of a monitor is of the virtual workspace synchronised last, or
\* starts a sync.
LEMMA ReadWatchSync ==
  ASSUME JobType, SyncOK, ReadWatch, Calm, Several, ~missed'
  PROVE  SyncOK'
<1>1. /\ pc = "idle" /\ todo' = {} /\ UNCHANGED <<hyprland, wire, synced>>
      /\ watch.unread /\ watch' = [watch EXCEPT !.unread = FALSE]
  BY Waiting DEF ReadWatch, Idle, kept
<1>2. WindowsOK'
  BY <1>1 DEF WindowsOK
<1>3. CASE VirtualOf(watch.id) \notin {NoVirtual, synced}
  <2>1. pc' = "sync"
    BY <1>3 DEF ReadWatch
  <2> QED
    BY <1>2, <2>1 DEF SyncOK, Syncing, WindowsOK, Quiet
<1>4. CASE VirtualOf(watch.id) \in {NoVirtual, synced}
  <2>1. pc' = "idle" /\ ~missed
    BY <1>1, <1>4 DEF ReadWatch
  <2>2. Quiet /\ Quiet'
    BY <1>1, <2>1 DEF Quiet, Syncing, Assigning, BeforeMoves
  <2>3. PICK g \in Virtual : synced \in {NoVirtual, g} /\ Settled(g)
    BY <2>1, <2>2 DEF SyncOK, Quiet
  <2>4. ASSUME NEW m \in present  PROVE Fine(m, g)'
    <3>1. Fine(m, g)
      BY <1>1, <2>3, AllFine
    <3>2. CASE VirtualOf(shows[m]) = g
      BY <1>1, <3>2 DEF Fine, hyprland
    <3>3. CASE shows[m] \in Workspace /\ watch.id = shows[m]
      <4>1. VirtualOf(shows[m]) = g
        BY <1>4, <2>3, <3>3, WorkspaceFacts
      <4> QED
        BY <3>2, <4>1
    <3>4. CASE /\ shows[m] \in Workspace
               /\ \E i \in DOMAIN wire : /\ wire[i] = [id |-> shows[m], by |-> "user"]
                                         /\ \A j \in DOMAIN wire : i < j => home[wire[j].id] # m
      BY <1>1, <3>4 DEF Fine, Pending, hyprland
    <3> QED
      BY <3>1, <3>2, <3>3, <3>4 DEF Fine, Pending
  <2>5. Settled(g)' /\ g \in Virtual' /\ synced' \in {NoVirtual, g}
    BY <1>1, <2>3, <2>4 DEF Settled, Virtual, hyprland
  <2> QED
    BY <1>2, <2>1, <2>2, <2>5 DEF SyncOK, WindowsOK, Quiet
<1> QED
  BY <1>3, <1>4

\* A query that fails gives up a sync that was not finished, or an assignment.
LEMMA QueryFailsSync ==
  ASSUME PhaseOK, SyncOK, QueryFails, Calm', ~missed', Calm, ~missed, Several
  PROVE  SyncOK'
<1>1. /\ pc \notin {"idle", "send", "synced", "assigned"}
      /\ UNCHANGED <<hyprland, wire, watch, synced>>
  BY DEF QueryFails, events, kept
<1>2. pc \notin {"sync", "workspaces", "refocus", "assign", "cleanup", "move", "everyone"}
  BY DEF QueryFails, Calm
<1>3. WindowsOK'
  BY DEF QueryFails, SendAll, WindowsOK
<1>4. CASE pc = "pinned"
  <2>1. SendAll({}, "refocus")
    BY <1>4 DEF QueryFails
  <2>2. pc' = "refocus" /\ UNCHANGED <<goal, origin>>
    BY <2>1 DEF SendAll, To
  <2>3. Settled(goal)
    BY <1>4 DEF SyncOK, Syncing
  <2>4. Settled(goal)'
    BY <1>1, <1>4, <2>2, <2>3 DEF Settled, Visiting, Returning, Fine, Pending, hyprland
  <2> QED
    BY <1>3, <2>2, <2>4, SyncStep DEF Syncing
<1>5. CASE pc = "window" /\ origin # Priming
  <2>1. SendAll({}, "synced")
    BY <1>5 DEF QueryFails
  <2>2. pc' = "synced" /\ goal' = goal
    BY <2>1 DEF SendAll, To
  <2>3. Settled(goal)
    BY <1>5 DEF SyncOK, Syncing
  <2>4. \A m \in present : Fine(m, goal)
    BY <1>5, <2>3, AllFine
  <2>5. Settled(goal)'
    BY <1>1, <2>2, <2>3, <2>4 DEF Settled, Fine, Pending, Virtual, hyprland
  <2> QED
    BY <1>3, <2>2, <2>5, SyncStep DEF Syncing
<1>6. CASE pc # "pinned" /\ ~(pc = "window" /\ origin # Priming)
  <2>1. SendAll({}, "idle")
    BY <1>2, <1>6 DEF QueryFails
  <2>2. pc' = "idle"
    BY <2>1 DEF SendAll, To
  <2>3. Quiet /\ Quiet'
    BY <1>1, <1>2, <1>6, <2>2 DEF Quiet, Syncing, Assigning, BeforeMoves
  <2> QED
    BY <1>1, <1>3, <2>2, <2>3, QuietStep
<1> QED
  BY <1>4, <1>5, <1>6

\* A request that fails: what goes on visits no monitor any more.
LEMMA SendFailsSync ==
  ASSUME JobType, PhaseOK, SyncOK, SendFails, Calm', ~missed', Calm, ~missed, Several
  PROVE  SyncOK'
<1>1. pc = "send" /\ UNCHANGED <<hyprland, wire, watch, synced>>
  BY DEF SendFails, events, kept
<1>2. next \in {"refocus", "synced", "idle"}
  BY DEF SendFails, Calm, JobType, Sending
<1>3. todo' = {} /\ pc' = next /\ (next # "idle" => UNCHANGED <<goal, origin>>)
  <2>1. SendAll({}, next)
    BY <1>2 DEF SendFails
  <2> QED
    BY <2>1 DEF SendAll, To
<1>4. WindowsOK'
  BY <1>3 DEF WindowsOK
<1>5. \A m, g : ~Visiting(m, g)
  BY <1>2 DEF Visiting
<1>6. CASE next \in {"refocus", "synced"}
  <2>1. Settled(goal)
    BY <1>1, <1>6 DEF SyncOK, Syncing
  <2>2. Settled(goal)'
    BY <1>1, <1>3, <1>5, <1>6, <2>1 DEF Settled, Returning, Fine, Pending, Virtual, hyprland
  <2> QED
    BY <1>3, <1>4, <1>6, <2>2, SyncStep DEF Syncing
<1>7. CASE next = "idle"
  <2>1. Quiet /\ Quiet' /\ pc' = "idle"
    BY <1>1, <1>3, <1>7 DEF Quiet, Syncing, Assigning, BeforeMoves
  <2>2. PICK g \in Virtual : synced \in {NoVirtual, g} /\ Settled(g)
    BY <2>1 DEF SyncOK, Quiet
  <2>3. \A m \in present : Fine(m, g)
    BY <1>1, <1>5, <1>7, <2>2 DEF Settled, Returning
  <2>4. \A m \in present : Fine(m, g)'
    BY <1>1, <2>3, FineKept
  <2>5. Settled(g)' /\ g \in Virtual' /\ synced' \in {NoVirtual, g}
    BY <1>1, <2>2, <2>4 DEF Settled, Virtual, hyprland
  <2> QED
    BY <1>4, <2>1, <2>5 DEF SyncOK, WindowsOK, Quiet
<1> QED
  BY <1>2, <1>6, <1>7

LEMMA DaemonSync ==
  TypeOK /\ PhaseOK /\ TodoOK /\ SeenOK /\ HomeOK /\ ShownAtHome /\ MovesOK /\ SyncOK /\ Daemon => SyncOK'
<1> SUFFICES ASSUME TypeOK, PhaseOK, TodoOK, SeenOK, HomeOK, ShownAtHome, MovesOK, SyncOK, Daemon,
                    Calm', ~missed', Several'
             PROVE  SyncOK'
  BY DEF SyncOK
<1>0. JobType
  BY TypeParts
<1>1. CASE Send
  BY <1>1, SendSync
<1>2. CASE Assign \/ ReceiveChange \/ StartAssign \/ CleanupOrphans \/ MoveWorkspaces
  BY <1>2, AssigningSteps
<1>3. CASE ~(Assign \/ ReceiveChange)
  <2>1. Calm /\ Several
    BY <1>3, DaemonCalm, DaemonKnown DEF Several
  <2>2. CASE Prime \/ Navigate \/ Assigned \/ QuietCommand \/ SwitchVirtual \/ MoveToVirtual \/ Swap \/ Collapse
    <3>1. /\ Quiet /\ pc # "send" /\ UNCHANGED <<hyprland, wire, watch, synced, missed>>
          /\ Quiet' /\ pc' # "workspaces" /\ WindowsOK'
      BY <1>0, <2>2, QuietSteps
    <3> QED
      BY <2>1, <3>1, QuietStep
  <2>3. CASE SendFails \/ QueryFails
    <3>1. ~missed
      BY <2>3 DEF SendFails, QueryFails
    <3> QED
      BY <1>0, <2>1, <2>3, <3>1, SendFailsSync, QueryFailsSync
  <2>4. CASE FocusEveryone
    BY <2>1, <2>4, FocusEveryoneSync
  <2>5. CASE ReadWatch
    BY <1>0, <2>1, <2>5, ReadWatchSync
  <2>6. CASE SyncMonitors
    BY <2>6, SyncMonitorsSync
  <2>7. CASE VisitMonitors \/ MovePinned \/ Refocus \/ FocusUnderCursor \/ Synced
    <3>1. ~missed
      BY <2>7 DEF VisitMonitors, MovePinned, Refocus, FocusUnderCursor, Synced, history
    <3> QED
      BY <1>0, <2>1, <2>7, <3>1, VisitMonitorsSync, MovePinnedSync, RefocusSync, FocusUnderCursorSync, SyncedSync
  <2> QED
    BY <1>1, <1>2, <2>2, <2>3, <2>4, <2>5, <2>6, <2>7 DEF Daemon, QuietCommand
<1> QED
  BY <1>2, <1>3

\* A window opens on the workspace of the focused monitor.
LEMMA SessionAt ==
  ASSUME SessionType, Session, NEW w \in Window
  PROVE  at'[w] \in {at[w], Closed, shows[focus]}
<1>1. CASE OpenWindow
  <2>1. PICK o \in Window : at' = [at EXCEPT ![o] = shows[focus]]
    BY <1>1 DEF OpenWindow
  <2> QED
    BY <2>1 DEF SessionType
<1>2. CASE CloseWindow
  BY <1>2 DEF CloseWindow, SessionType
<1> QED
  BY <1>1, <1>2 DEF Session, Deliver, ListenerRestarts, FocusMonitor, Swipe, Unplug, Plug, ReloadConfig,
     Hotplug, hyprland

LEMMA SessionSync ==
  TypeOK /\ TodoOK /\ ShownAtHome /\ SyncOK /\ Session => SyncOK'
<1> SUFFICES ASSUME TypeOK, TodoOK, ShownAtHome, SyncOK, Session, Calm', ~missed', Several'
             PROVE  /\ (pc = "workspaces" => \A m \in present : seen[m] = shows[m] \/ Pending(m))'
                    /\ (Syncing /\ pc \notin {"sync", "workspaces"} => Settled(goal))'
                    /\ (Quiet => \E g \in Virtual : synced \in {NoVirtual, g} /\ Settled(g))'
                    /\ WindowsOK'
  BY DEF SyncOK, WindowsOK
<1>0. SessionType /\ JobType
  BY TypeParts
<1>1. Calm /\ UNCHANGED <<present, home>> /\ UNCHANGED <<job, synced>>
  BY SessionCalm, SessionJob DEF kept
<1>2. ~missed
  BY DEF Session, Deliver, ListenerRestarts, FocusMonitor, Swipe, OpenWindow, CloseWindow, Unplug, Plug,
     ReloadConfig, Hotplug, User, history
<1>3. Several /\ UNCHANGED <<pc, todo, next, goal, origin, seen>>
  BY <1>1 DEF Several, job
<1>4. \A m \in present : Pending(m)' \/ (shows'[m] = shows[m] /\ ~Pending(m))
  BY <1>1, SessionPending
<1>5. /\ Syncing' <=> Syncing
      /\ Assigning' <=> Assigning
      /\ Returning' <=> Returning
  BY <1>3 DEF Syncing, Assigning, BeforeMoves, Returning
<1>6. ASSUME NEW g, Settled(g)  PROVE Settled(g)'
  <2>1. ASSUME NEW m \in present
        PROVE  Fine(m, g)' \/ Visiting(m, g)' \/ (Returning /\ home[origin] = m)'
    <3>1. Fine(m, g) => Fine(m, g)'
      BY <1>4 DEF Fine
    <3>2. Visiting(m, g) => Visiting(m, g)'
      BY <1>1, <1>3 DEF Visiting
    <3> QED
      BY <1>1, <1>3, <1>5, <1>6, <3>1, <3>2 DEF Settled
  <2> QED
    BY <1>1, <1>6, <2>1 DEF Settled, Virtual
<1>7. pc' = "workspaces" => \A m \in present' : seen'[m] = shows'[m] \/ Pending(m)'
  BY <1>1, <1>2, <1>3, <1>4 DEF SyncOK
<1>8. ASSUME Syncing', pc' \notin {"sync", "workspaces"}  PROVE Settled(goal)'
  <2>1. Settled(goal)
    BY <1>1, <1>2, <1>3, <1>5, <1>8 DEF SyncOK
  <2>2. PICK g \in Virtual : g = goal
    BY <2>1 DEF Settled
  <2>3. Settled(g) /\ goal' = g
    BY <1>3, <2>1, <2>2
  <2>4. Settled(g)'
    BY <1>6, <2>3
  <2> QED
    BY <2>3, <2>4 DEF Settled, Visiting, Fine
<1>9. ASSUME ~Syncing', ~Assigning'
      PROVE  (\E g \in Virtual : synced \in {NoVirtual, g} /\ Settled(g))'
  <2>1. PICK g \in Virtual : synced \in {NoVirtual, g} /\ Settled(g)
    BY <1>1, <1>2, <1>3, <1>5, <1>9 DEF SyncOK, Quiet
  <2>2. Settled(g)' /\ g \in Virtual' /\ synced' \in {NoVirtual, g}
    BY <1>1, <1>6, <2>1 DEF Virtual
  <2> QED
    BY <2>2
<1>10. WindowsOK'
  <2> SUFFICES ASSUME NEW r \in todo, r.op = "window"  PROVE at'[r.arg] \in Workspace \cup {Closed}
    BY <1>3 DEF WindowsOK, Workspace, Virtual, Id, Closed
  <2>1. /\ r.arg \in Window /\ pc = "send"
        /\ todo = {r} /\ next \in {"synced", "idle"}
    BY <1>0, RequestFacts DEF JobType, TodoOK
  <2>2. at[r.arg] \in Workspace \cup {Closed}
    BY <1>1, <1>2, <1>3 DEF SyncOK, WindowsOK
  <2>3. PICK g \in Virtual : Settled(g)
    BY <1>1, <1>2, <1>3, <2>1 DEF SyncOK, Syncing, Assigning, BeforeMoves, Settled, Quiet
  <2>4. Fine(focus, g)
    BY <1>0, <2>1, <2>3 DEF Settled, Visiting, Returning, SessionType
  <2>5. shows[focus] \in Workspace
    <3>1. focus \in Monitor /\ shows[focus] \in Workspace \cup Orphans
      BY <1>0 DEF SessionType
    <3>2. g # NoVirtual
      BY NumVirtualAssumption DEF Virtual, NoVirtual
    <3> QED
      BY <2>4, <3>1, <3>2, ShowableFacts DEF Fine, Pending
  <2> QED
    BY <1>0, <2>1, <2>2, <2>5, SessionAt
<1> QED
  BY <1>7, <1>8, <1>9, <1>10 DEF Quiet

LEMMA NextSync ==
  TypeOK /\ PhaseOK /\ TodoOK /\ SeenOK /\ HomeOK /\ ShownAtHome /\ MovesOK /\ SyncOK /\ [Next]_vars => SyncOK'
<1> SUFFICES ASSUME TypeOK, PhaseOK, TodoOK, SeenOK, HomeOK, ShownAtHome, MovesOK, SyncOK, [Next]_vars
             PROVE  SyncOK'
  OBVIOUS
<1>1. CASE Daemon
  BY <1>1, DaemonSync
<1>2. CASE Session
  BY <1>2, SessionSync
<1>3. CASE UNCHANGED vars
  BY <1>3 DEF vars, hyprland, events, job, kept, history, SyncOK, WindowsOK, Quiet, Calm, Several, Syncing, Assigning,
     BeforeMoves, Returning, Settled, Visiting, Fine, Pending
<1> QED
  BY <1>1, <1>2, <1>3 DEF Next

-----------------------------------------------------------------------------
(* The invariant.                                                           *)

LEMMA InitType == Init => TypeOK
<1> SUFFICES ASSUME Init  PROVE TypeOK
  OBVIOUS
<1>1. \A m \in Monitor : shows[m] \in Workspace \cup Orphans /\ shows[m] # None
  BY ShowableFacts DEF Init
<1>2. present = Monitor /\ focus \in present
  BY DEF Init
<1>3. home \in [Everywhere -> present]
  <2>1. ASSUME NEW id \in Everywhere
        PROVE  LET showing == {m \in Monitor : shows[m] = id}
                   owner == {m \in Monitor : Slot[m] = SlotOfId(id)}
               IN (CHOOSE m \in IF showing # {} THEN showing ELSE IF owner # {} THEN owner ELSE Monitor : TRUE)
                    \in Monitor
    <3> DEFINE showing == {m \in Monitor : shows[m] = id}
               owner == {m \in Monitor : Slot[m] = SlotOfId(id)}
               S == IF showing # {} THEN showing ELSE IF owner # {} THEN owner ELSE Monitor
    <3>1. S # {} /\ S \subseteq Monitor
      BY <1>2
    <3> HIDE DEF S
    <3>2. (CHOOSE m \in S : TRUE) \in S
      BY <3>1
    <3> QED
      BY <3>1, <3>2 DEF S
  <2> QED
    BY <1>2, <2>1 DEF Init
<1>4. SessionType
  BY <1>1, <1>2, <1>3 DEF Init, SessionType, Everywhere
<1>5. WireType
  BY EmptySeq, BoundsAssumption DEF Init, WireType
<1>6. JobType
  BY DEF Init, JobType, Operation, Sending
<1>7. KeptType
  <2>1. watch \in [id : Workspace \cup Orphans \cup {None}, by : {"user", "sync"}, unread : BOOLEAN]
    BY DEF Init
  <2>2. /\ changes \in Nat /\ inputs \in 0 .. MaxInputs
        /\ synced \in Virtual \cup {NoVirtual}
        /\ known \subseteq Monitor /\ pinned \subseteq Window
    BY BoundsAssumption DEF Init
  <2>3. missed = FALSE /\ unassigned = TRUE /\ aborted = FALSE
    BY DEF Init
  <2> QED
    BY <2>1, <2>2, <2>3 DEF KeptType
<1> QED
  BY <1>4, <1>5, <1>6, <1>7, TypeParts

LEMMA InitShown == Init => ShownAtHome
<1> SUFFICES ASSUME Init, NEW m \in Monitor  PROVE home[shows[m]] = m
  BY DEF Init, ShownAtHome
<1>1. /\ shows[m] \in Workspace \cup Orphans
      /\ \A n \in Monitor : shows[n] = shows[m] => n = m
  BY DEF Init
<1>2. {n \in Monitor : shows[n] = shows[m]} = {m}
  BY <1>1
<1>3. shows[m] \in Everywhere
  BY <1>1 DEF Everywhere
<1>4. home[shows[m]] = CHOOSE n \in {m} : TRUE
  BY <1>2, <1>3 DEF Init
<1> QED
  BY <1>4

LEMMA InitIInv == Init => IInv
<1> SUFFICES ASSUME Init  PROVE IInv
  OBVIOUS
<1>1. PhaseOK /\ TodoOK
  BY DEF Init, PhaseOK, TodoOK
<1>2. ParkOK
  BY OrphanFacts DEF Init, ParkOK, Closed, Buffer
<1>3. SeenOK /\ HomeOK /\ MovesOK /\ SyncOK
  BY DEF Init, SeenOK, HomeOK, MovesOK, SyncOK, Calm
<1> QED
  BY <1>1, <1>2, <1>3, InitType, InitShown DEF IInv

\* The inductive invariant holds of every reachable state.
THEOREM SpecIInv == Spec => []IInv
<1>1. IInv /\ [Next]_vars => IInv'
  BY NextType, NextPhase, NextTodo, NextPark, NextSeen, NextHome, NextShown, NextMoves, NextSync DEF IInv
<1> QED
  BY InitIInv, <1>1, PTL DEF Spec

\* Every variable has its type; in particular every window, and every workspace a
\* monitor shows, is one whose number the daemon can take apart, and only monitors
\* that are connected have workspaces.
THEOREM SpecTypeOK == Spec => []TypeOK
<1>1. IInv => TypeOK
  BY DEF IInv
<1> QED
  BY <1>1, SpecIInv, PTL

\* A swap that was not cut short leaves no window in the buffer, whatever opens,
\* closes or is moved between its requests (swap_monitor).
THEOREM SpecNoneStranded == Spec => []NoneStranded
<1>1. IInv => NoneStranded
  BY TypeParts DEF IInv, JobType, ParkOK, NoneStranded, Idle
<1> QED
  BY <1>1, SpecIInv, PTL

\* When everything has settled every workspace is on the monitor of its slot, for
\* any set of monitors and any interleaving of unplugging and reassignment
\* (assign_workspaces, sync_monitors).
THEOREM SpecWorkspacesAtHome == Spec => []WorkspacesAtHome
<1>1. IInv => WorkspacesAtHome
  <2> SUFFICES ASSUME IInv, AtRest, ~unassigned
               PROVE  /\ known = present
                      /\ \A id \in Workspace : Owner(id) = {} \/ home[id] \in Owner(id)
    BY DEF WorkspacesAtHome
  <2>1. Calm
    BY DEF AtRest, Calm
  <2>2. pc = "idle"
    BY DEF AtRest, Idle
  <2> QED
    BY <2>1, <2>2 DEF IInv, HomeOK, BeforeMoves, Relocating
<1> QED
  BY <1>1, SpecIInv, PTL

\* When everything has settled all monitors show the same virtual workspace, for
\* any monitors, slots and windows: a gesture during a sync or an assignment, the
\* daemon's own echoes and the requests that fail leave either an event that is
\* still read, or a virtual workspace that all monitors have come to
\* (sync_monitors, assign_workspaces and the loop of run).
THEOREM SpecInSyncAtRest == Spec => []InSyncAtRest
<1>1. IInv => InSyncAtRest
  <2> SUFFICES ASSUME IInv, AtRest, ~missed, ~unassigned, NEW m \in present, NEW n \in present, m # n
               PROVE  VirtualOf(shows[m]) = VirtualOf(shows[n])
    BY DEF InSyncAtRest
  <2>1. pc = "idle" /\ ~watch.unread /\ wire = <<>> /\ Calm
    BY DEF AtRest, Idle, Calm
  <2>2. Several /\ ~Syncing /\ ~Assigning
    BY <2>1 DEF Several, Syncing, Assigning, BeforeMoves
  <2>3. PICK g \in Virtual : Settled(g)
    BY <2>1, <2>2 DEF IInv, SyncOK, Quiet
  <2>4. \A k \in present : Fine(k, g)
    BY <2>1, <2>3, AllFine
  <2>5. \A k : ~Pending(k)
    BY <2>1 DEF Pending
  <2> QED
    BY <2>4, <2>5 DEF Fine
<1> QED
  BY <1>1, SpecIInv, PTL
=============================================================================
