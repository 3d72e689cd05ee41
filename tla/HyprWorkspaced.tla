--------------------------- MODULE HyprWorkspaced ---------------------------
(***************************************************************************)
(* hypr-workspaced shows the same virtual workspace on every monitor of a  *)
(* Hyprland session.  The daemon is one loop (daemon.rs, run) that serves  *)
(* commands, reassigns workspaces when the set of monitors changes, and    *)
(* synchronises the other monitors when a workspace event says that one of *)
(* them has changed.                                                       *)
(*                                                                         *)
(* Every operation reads Hyprland's state with queries, computes from the  *)
(* answers the requests it wants, and sends them one at a time.  A query   *)
(* and a request are one step each: between any two of them the user may   *)
(* change what the query saw.  The answers the daemon goes on using are in *)
(* seen; the requests computed from them, and not sent yet, in todo.       *)
(*                                                                         *)
(* Events travel over a socket (wire) to a task that keeps workspace       *)
(* events in a watch channel, where only the newest can be read, and       *)
(* monitor events in a queue, where none is lost.                          *)
(***************************************************************************)
EXTENDS Integers, Sequences, FiniteSets

CONSTANTS Monitor,      \* Hyprland's ids of the monitors
          Slot,         \* the registry: the permanent slot of each monitor
          Window,
          NumVirtual,   \* virtual workspaces, 9 in the code
          MaxInputs,    \* bound: commands, user steps, hotplugs and failures together
          MaxWire       \* bound: events in the socket's buffer

ASSUME SlotAssumption == Slot \in [Monitor -> Monitor] /\ \A m, n \in Monitor : Slot[m] = Slot[n] => m = n
ASSUME NumVirtualAssumption == NumVirtual \in 1 .. 9
\* Slots are u8, and the buffer's id is of no slot the daemon meets.
ASSUME MonitorAssumption == Monitor \subseteq 0 .. 98
ASSUME BoundsAssumption == MaxInputs \in Nat /\ MaxWire \in Nat

Virtual == 1 .. NumVirtual
None == -1
Priming == 0            \* origin while the daemon starts
NoVirtual == 0          \* Option::None of a virtual workspace
Closed == -1            \* where a window is that is not open
Buffer == 999           \* where swap_monitor parks windows

\* VirtualWorkspace::hyprland_id, from_hyprland_id, next and prev.
Id(slot, v) == 10 * slot + v
VirtualOf(id) == IF id <= 0 \/ id % 10 = 0 THEN NoVirtual ELSE id % 10
NextVirtual(v) == (v % NumVirtual) + 1
PrevVirtual(v) == ((v + NumVirtual - 2) % NumVirtual) + 1

\* MonitorSlot::from_hyprland_id and orphan_workspace_id.
SlotOfId(id) == IF id < 10 THEN 0 ELSE id \div 10
Orphan(slot) == 10 * slot

Workspace == {Id(s, v) : s \in Monitor, v \in Virtual}
Orphans == {Orphan(s) : s \in Monitor} \ {0}
Everywhere == Workspace \cup Orphans \cup {Buffer}

VARIABLES
  present,   \* the connected monitors
  shows,     \* the workspace each monitor shows
  home,      \* the monitor each workspace is on
  focus,     \* the focused monitor
  at,        \* the workspace each window is on
  wire,      \* events between Hyprland and the daemon's listener
  watch,     \* SyncState, the newest workspace event, and whether it is unread
  changes,   \* MonitorChanged events the loop has not received
  pc,        \* the daemon's next step
  todo,      \* requests computed and not sent yet
  next,      \* pc after the last of them
  goal,      \* the virtual workspace of the operation
  origin,    \* the workspace id the operation started from: the event's, for a sync
  seen,      \* what the monitors query of the operation answered
  known,     \* the monitors in the layout
  synced,    \* last_synced_vspace
  pinned,    \* windows that match a pinned pattern
  inputs,    \* commands, user steps, hotplugs and failures so far
  missed,    \* history: a monitor no sync will visit, or a request of one failed
  unassigned,\* history: no assignment since a monitor event was lost, or the last one failed
  aborted    \* history: a swap ended half way

hyprland == <<present, shows, home, focus, at>>
events == <<wire, watch, changes>>
job == <<pc, todo, next, goal, origin, seen>>
kept == <<known, synced, pinned>>
history == <<missed, unassigned, aborted>>
vars == <<hyprland, events, job, kept, inputs, history>>

Count == inputs < MaxInputs /\ inputs' = inputs + 1

\* MonitorLayout::slot_for: a monitor not in the layout is taken for the slot of its id.
SlotOf(m) == IF m \in known THEN Slot[m] ELSE m
\* MonitorLayout::slot_to_monitor_name: the monitor a workspace belongs on.
Owner(id) == {m \in present : SlotOf(m) = SlotOfId(id)}

Open == {w \in Window : at[w] # Closed}

-----------------------------------------------------------------------------
\* The events Hyprland writes and the daemon subscribes to: a monitor changed its
\* workspace, because of the user, a command or an assignment ("user") or of a sync
\* that brings it to its virtual workspace, or the monitors or the config changed.
Event == [id : Workspace \cup Orphans, by : {"user", "sync"}] \cup {[by |-> "monitors"]}

Post(e) == Len(wire) < MaxWire /\ wire' = Append(wire, e)

\* FocusWorkspace: the monitor that holds the workspace shows it and is focused;
\* an event is written when that changes what it shows.
Visit(id, by) == /\ shows' = [shows EXCEPT ![home[id]] = id]
                 /\ focus' = home[id]
                 /\ IF shows[home[id]] = id THEN UNCHANGED wire ELSE Post([id |-> id, by |-> by])

\* One request of those an operation computed: when its turn is, what it asks for
\* and of which window or monitor.
Req(turn, op, ws, arg) == [turn |-> turn, op |-> op, ws |-> ws, arg |-> arg]
Request == [turn : Nat, op : {"focus", "active"}, ws : Workspace, arg : {None}]
             \cup [turn : Nat, op : {"silent", "follow"}, ws : Everywhere, arg : Window]
             \cup [turn : Nat, op : {"relocate"}, ws : Workspace, arg : Monitor]
             \cup [turn : Nat, op : {"window"}, ws : {None}, arg : Window]

\* Hyprland refuses a request for a window or a monitor that is gone.
Refused(r) == \/ r.op \in {"silent", "follow", "window"} /\ at[r.arg] = Closed
              \/ r.op = "relocate" /\ r.arg \notin present
              \/ r.op = "active" /\ \A w \in Window : at[w] # shows[focus]

\* A workspace moved to another monitor: if the old one showed it, it falls back
\* to another of its workspaces, or a new one, and the new monitor shows the moved
\* one if the old one had the focus.
Relocate(id, m) ==
  LET old == home[id]
      left == {ws \in Workspace : home[ws] = old /\ ws # id}
      free == {ws \in Orphans : \A n \in present : shows[n] # ws}
  IN IF shows[old] # id \/ old = m
     THEN home' = [home EXCEPT ![id] = m] /\ UNCHANGED <<shows, focus, wire>>
     ELSE \E other \in IF left = {} THEN free ELSE left :
            /\ home' = [home EXCEPT ![id] = m, ![other] = old]
            /\ shows' = IF focus = old THEN [shows EXCEPT ![old] = other, ![m] = id]
                        ELSE [shows EXCEPT ![old] = other]
            /\ focus' = IF focus = old THEN m ELSE focus
            /\ UNCHANGED wire

\* Who an event of a visit goes back to.
Sender(id) == IF next \in {"pinned", "refocus", "window", "synced"} /\ VirtualOf(id) = goal
              THEN "sync" ELSE "user"

\* What Hyprland does with a request it accepts (Request::send).
Perform(r) ==
  /\ CASE r.op = "focus" -> Visit(r.ws, Sender(r.ws)) /\ UNCHANGED <<home, at>>
       [] r.op = "silent" -> /\ at' = [at EXCEPT ![r.arg] = r.ws]
                             /\ home' = IF r.ws = Buffer /\ \A w \in Window : at[w] # Buffer
                                        THEN [home EXCEPT ![Buffer] = focus] ELSE home
                             /\ UNCHANGED <<shows, focus, wire>>
       [] r.op = "follow" -> /\ at' = [at EXCEPT ![r.arg] = r.ws]
                             /\ Visit(r.ws, Sender(r.ws)) /\ UNCHANGED home
       [] r.op = "active" -> /\ \E w \in Window : at[w] = shows[focus] /\ at' = [at EXCEPT ![w] = r.ws]
                             /\ Visit(r.ws, Sender(r.ws)) /\ UNCHANGED home
       [] r.op = "relocate" -> Relocate(r.ws, r.arg) /\ UNCHANGED at
       [] r.op = "window" -> Visit(at[r.arg], Sender(at[r.arg])) /\ UNCHANGED <<home, at>>
  /\ UNCHANGED present

-----------------------------------------------------------------------------
\* The daemon goes on at p.  What an operation kept for itself ends with it.
To(p) == /\ pc' = p
         /\ IF p = "idle"
            THEN goal' = NoVirtual /\ origin' = None /\ seen' = [m \in Monitor |-> None]
            ELSE UNCHANGED <<goal, origin, seen>>

\* It sends the requests one by one, then goes on at p.
SendAll(requests, p) == /\ todo' = requests
                        /\ next' = IF requests = {} THEN "idle" ELSE p
                        /\ To(IF requests = {} THEN p ELSE "send")

\* The end of an operation: at startup, pointer focus is primed first.
AfterJob == IF origin = Priming THEN "prime" ELSE "idle"

\* The order of requests whose turn is the same, as Hyprland lists windows, is
\* not known.
First(r) == r \in todo /\ \A q \in todo : r.turn <= q.turn

Send == /\ pc = "send"
        /\ \E r \in todo : /\ First(r) /\ ~Refused(r)
                          /\ Perform(r)
                          /\ SendAll(todo \ {r}, next)
        /\ UNCHANGED <<watch, changes, kept, inputs, history>>

\* A request is refused, or times out in Hyprland's queue.  A sync warns and goes
\* on with its next request; the pinned windows and the window under the cursor
\* are given up; every other operation ends with an error.
SendFails ==
  /\ pc = "send"
  /\ \E r \in todo :
       /\ First(r)
       /\ (Refused(r) /\ UNCHANGED inputs) \/ Count
       /\ IF next = "pinned" THEN SendAll(todo \ {r}, next)
          ELSE IF next \in {"refocus", "window", "synced"} THEN SendAll({}, next)
          ELSE SendAll({}, IF next = "idle" THEN "idle" ELSE AfterJob)
       /\ aborted' = (aborted \/ (next = "idle" /\ r.op = "silent"))
  /\ missed' = (missed \/ next \in {"pinned", "window"})
  /\ unassigned' = (unassigned \/ next \in {"move", "everyone", "assigned"})
  /\ UNCHANGED <<hyprland, events, kept>>

\* A query fails: the pinned windows and the focused window are given up, every
\* other operation ends with an error, a sync without marking its workspace.
QueryFails ==
  /\ pc \notin {"idle", "send", "synced", "assigned"}
  /\ Count
  /\ SendAll({}, CASE pc = "pinned" -> "refocus"
                     [] pc = "window" /\ origin # Priming -> "synced"
                     [] pc \in {"assign", "cleanup", "move", "everyone"} -> AfterJob
                     [] OTHER -> "idle")
  /\ missed' = (missed \/ pc \in {"sync", "workspaces", "refocus"})
  /\ unassigned' = (unassigned \/ pc \in {"assign", "cleanup", "move", "everyone"})
  /\ UNCHANGED <<hyprland, events, kept, aborted>>

\* A request for every window on a workspace to go to another one.
MoveAll(turn, from, to) == {Req(turn, "silent", to, w) : w \in {v \in Window : at[v] = from}}

Idle == pc = "idle"

-----------------------------------------------------------------------------
\* WorkspaceManager::assign_workspaces: the layout and the rules, ...
Assign ==
  /\ pc = "assign"
  /\ known' = present
  /\ seen' = shows
  /\ pc' = "cleanup"
  /\ unassigned' = FALSE
  /\ UNCHANGED <<hyprland, events, todo, next, goal, origin, synced, pinned, inputs, missed, aborted>>

\* ... the windows on orphan workspaces up to the highest slot, ...
Rescued == {o \in Orphans : \E m \in known : SlotOfId(o) <= SlotOf(m)}
CleanupOrphans ==
  /\ pc = "cleanup"
  /\ SendAll(UNION {MoveAll(o, o, o + 1) : o \in Rescued}, "move")
  /\ UNCHANGED <<hyprland, events, kept, inputs, history>>

\* Mutant: the monitor's id is taken for its slot.
Misplaced_ById(id) == {Req(id, "relocate", id, m) : m \in ({SlotOfId(id)} \cap present) \ {home[id]}}
\* ... the workspaces that are not on their monitor, ...
Misplaced(id) == {Req(id, "relocate", id, m) : m \in
                    {n \in Monitor \ {home[id]} : seen[n] # None /\ SlotOf(n) = SlotOfId(id)}}
MoveWorkspaces ==
  /\ pc = "move"
  /\ SendAll(UNION {Misplaced(id) : id \in Workspace}, "everyone")
  /\ UNCHANGED <<hyprland, events, kept, inputs, history>>

\* ... and the focused monitor's virtual workspace on every monitor, compared
\* with what the monitors showed before the moves.
FocusEveryone ==
  /\ pc = "everyone"
  /\ LET shown == VirtualOf(shows[focus])
         v == IF shown = NoVirtual THEN 1 ELSE shown
         visited == {m \in Monitor : seen[m] \notin {None, Id(SlotOf(m), v)}}
     IN /\ SendAll({Req(m, "focus", Id(SlotOf(m), v), None) : m \in visited}, "assigned")
        /\ missed' = \/ missed
                     \/ \E m \in present : seen[m] = Id(SlotOf(m), v) /\ shows[m] # seen[m]
                     \/ synced \notin {NoVirtual, v}
  /\ UNCHANGED <<hyprland, events, kept, inputs, unassigned, aborted>>

Assigned ==
  /\ pc = "assigned"
  /\ SendAll({}, AfterJob)
  /\ UNCHANGED <<hyprland, events, kept, inputs, history>>

\* A MonitorChanged event is received: the loop reassigns, and forgets which
\* virtual workspace it synchronised last.
ReceiveChange ==
  /\ Idle
  /\ changes > 0
  /\ changes' = changes - 1
  /\ synced' = NoVirtual
  /\ To("assign")
  /\ UNCHANGED <<hyprland, wire, watch, todo, next, known, pinned, inputs, history>>

\* WorkspaceManager::prime_focus.
Prime ==
  /\ pc = "prime"
  /\ LET v == VirtualOf(shows[focus])
     IN IF v = NoVirtual THEN To("idle")
        ELSE pc' = "window" /\ goal' = v /\ UNCHANGED <<origin, seen>>
  /\ UNCHANGED <<hyprland, events, todo, next, kept, inputs, history>>

-----------------------------------------------------------------------------
\* The loop reads the newest workspace event: nothing is done for an id that is
\* of no virtual workspace, nor for the one that was synchronised last.
ReadWatch ==
  /\ Idle
  /\ watch.unread
  /\ watch' = [watch EXCEPT !.unread = FALSE]
  /\ LET v == VirtualOf(watch.id)
     IN IF v \in {NoVirtual, synced}
        THEN UNCHANGED <<pc, goal, origin, missed>>
        ELSE pc' = "sync" /\ goal' = v /\ origin' = watch.id /\ missed' = FALSE
  /\ UNCHANGED <<hyprland, wire, changes, todo, next, seen, kept, inputs, unassigned, aborted>>

\* WorkspaceManager::sync_monitors: the monitors as they are now, ...
SyncMonitors ==
  /\ pc = "sync"
  /\ IF Cardinality(present) <= 1 THEN To("synced")
     ELSE pc' = "workspaces" /\ seen' = shows /\ UNCHANGED <<goal, origin>>
  /\ UNCHANGED <<hyprland, events, todo, next, kept, inputs, history>>

\* ... each of them visited, its workspace brought back first if it is elsewhere,
\* except the one whose workspace is the event's, ...
VisitMonitors ==
  /\ pc = "workspaces"
  /\ LET target(m) == Id(SlotOf(m), goal)
         visited == {m \in Monitor : target(m) # origin /\ seen[m] \notin {None, target(m)}}
         away == {m \in visited : home[target(m)] # m}
     IN SendAll({Req(2 * m, "relocate", target(m), m) : m \in away}
                  \cup {Req(2 * m + 1, "focus", target(m), None) : m \in visited}, "pinned")
  /\ UNCHANGED <<hyprland, events, kept, inputs, history>>

\* ... the pinned windows to the workspace of their monitor, ...
MovePinned ==
  /\ pc = "pinned"
  /\ LET target(w) == Id(SlotOf(home[at[w]]), goal)
         moved == {w \in pinned \cap Open : at[w] # target(w)}
     IN SendAll({Req(0, "silent", target(w), w) : w \in moved}, "refocus")
  /\ UNCHANGED <<hyprland, events, kept, inputs, history>>

\* Mutant: the event's workspace is not visited again.
Refocus_Skipped ==
  /\ pc = "refocus"
  /\ SendAll({}, "window")
  /\ UNCHANGED <<hyprland, events, kept, inputs, history>>
\* ... back to the event's workspace, if that is not the active one, ...
Refocus ==
  /\ pc = "refocus"
  /\ SendAll(IF shows[focus] = origin THEN {} ELSE {Req(0, "focus", origin, None)}, "window")
  /\ UNCHANGED <<hyprland, events, kept, inputs, history>>

\* ... and the focus to the window under the cursor, if there is one.
FocusUnderCursor ==
  /\ pc = "window"
  /\ LET then == IF origin = Priming THEN "idle" ELSE "synced"
         here == {w \in Window : \E m \in present : at[w] = Id(SlotOf(m), goal)}
     IN \/ SendAll({}, then)
        \/ \E w \in here : SendAll({Req(0, "window", None, w)}, then)
  /\ UNCHANGED <<hyprland, events, kept, inputs, history>>

Synced ==
  /\ pc = "synced"
  /\ synced' = goal
  /\ To("idle")
  /\ UNCHANGED <<hyprland, events, todo, next, known, pinned, inputs, history>>

-----------------------------------------------------------------------------
\* Commands (handle_command).  The loop takes one when it is idle.
Command(p, v) == /\ Idle
                 /\ Count
                 /\ pc' = p
                 /\ goal' = v
                 /\ UNCHANGED <<hyprland, events, todo, next, origin, seen>>

StartSwitch == \E v \in Virtual : Command("switch", v) /\ UNCHANGED <<kept, history>>
StartMove == \E v \in Virtual : Command("move to", v) /\ UNCHANGED <<kept, history>>
StartNavigate == \E p \in {"navigate next", "navigate prev"} : Command(p, NoVirtual) /\ UNCHANGED <<kept, history>>
StartCollapse == \E p \in {"collapse all", "collapse invisible"} : Command(p, NoVirtual) /\ UNCHANGED <<kept, history>>
StartSwap == \E p \in {"swap next", "swap prev"} : Command(p, NoVirtual) /\ UNCHANGED <<kept, history>>
StartAssign == Command("assign", NoVirtual) /\ UNCHANGED <<kept, history>>
Pin == \E w \in Window \ pinned : Command("idle", NoVirtual) /\ pinned' = pinned \cup {w} /\ UNCHANGED <<known, synced, history>>
Unpin == \E w \in pinned : Command("idle", NoVirtual) /\ pinned' = pinned \ {w} /\ UNCHANGED <<known, synced, history>>

\* switch_virtual and move_to_virtual, on the monitor that has the focus now.
SwitchVirtual ==
  /\ pc = "switch"
  /\ SendAll({Req(0, "focus", Id(SlotOf(focus), goal), None)}, "idle")
  /\ UNCHANGED <<hyprland, events, kept, inputs, history>>
MoveToVirtual ==
  /\ pc = "move to"
  /\ SendAll({Req(0, "active", Id(SlotOf(focus), goal), None)}, "idle")
  /\ UNCHANGED <<hyprland, events, kept, inputs, history>>

\* navigate: the step is made from what the monitor of slot 0 shows.
Navigate ==
  /\ pc \in {"navigate next", "navigate prev"}
  /\ LET primary == {m \in present : SlotOf(m) = 0}
         current == IF primary = {} THEN NoVirtual ELSE VirtualOf(shows[CHOOSE m \in primary : TRUE])
     IN IF current = NoVirtual THEN To("idle")
        ELSE /\ pc' = "switch"
             /\ goal' = IF pc = "navigate next" THEN NextVirtual(current) ELSE PrevVirtual(current)
             /\ UNCHANGED <<origin, seen>>
  /\ UNCHANGED <<hyprland, events, todo, next, kept, inputs, history>>

\* Mutant: the windows in the buffer are looked up where they were.
SwapLegs_Lost(a, b) == MoveAll(1, a, Buffer) \cup MoveAll(2, b, a)
\* swap_monitor: the windows of the focused monitor's workspace go to the buffer,
\* those of the neighbour's to the focused one, those in the buffer to the
\* neighbour.  Monitors stand side by side in the order of their ids.
SwapLegs(a, b) == MoveAll(1, a, Buffer) \cup MoveAll(2, b, a) \cup MoveAll(3, a, b)
Swap ==
  /\ pc \in {"swap next", "swap prev"}
  /\ LET beyond == {m \in present : IF pc = "swap next" THEN m > focus ELSE m < focus}
         nearest == {m \in beyond : \A n \in beyond : IF pc = "swap next" THEN m <= n ELSE m >= n}
         v == VirtualOf(shows[focus])
     IN \/ (beyond = {} \/ v = NoVirtual) /\ SendAll({}, "idle")
        \/ \E target \in nearest :
             /\ v # NoVirtual
             /\ SendAll(SwapLegs(Id(SlotOf(focus), v), Id(SlotOf(target), v)), "idle")
  /\ UNCHANGED <<hyprland, events, kept, inputs, history>>

\* collapse: windows of the other monitors' workspaces of this virtual workspace,
\* or of workspaces without a monitor, come to the active workspace.
Valid(id) == VirtualOf(id) # NoVirtual /\ SlotOfId(id) < Cardinality(present)
Collapse ==
  /\ pc \in {"collapse all", "collapse invisible"}
  /\ LET active == shows[focus]
         gathered == {w \in Open :
                        /\ at[w] > 0
                        /\ pc = "collapse all" => at[w] # active /\ VirtualOf(at[w]) = VirtualOf(active)
                        /\ pc = "collapse invisible" => ~Valid(at[w])}
     IN SendAll(IF VirtualOf(active) = NoVirtual THEN {}
                ELSE {Req(0, "follow", active, w) : w \in gathered}, "idle")
  /\ UNCHANGED <<hyprland, events, kept, inputs, history>>

-----------------------------------------------------------------------------
\* The listener's handlers: monitor events are queued, a workspace event replaces
\* the one before.  Replacing an unread switch made on another monitor misses it.
Deliver ==
  /\ wire # <<>>
  /\ wire' = Tail(wire)
  /\ LET e == Head(wire)
     IN IF e.by = "monitors"
        THEN changes' = changes + 1 /\ UNCHANGED <<watch, missed>>
        ELSE /\ watch' = [id |-> e.id, by |-> e.by, unread |-> TRUE]
             /\ missed' = (missed \/ (watch.unread /\ watch.by = "user" /\ home[watch.id] # home[e.id]))
             /\ UNCHANGED changes
  /\ UNCHANGED <<hyprland, job, kept, inputs, unassigned, aborted>>

\* The connection to Hyprland's event socket ends and is made again: what was on
\* its way is lost.
ListenerRestarts ==
  /\ wire # <<>>
  /\ Count
  /\ wire' = <<>>
  /\ missed' = (missed \/ \E i \in DOMAIN wire : wire[i].by = "user")
  /\ unassigned' = (unassigned \/ \E i \in DOMAIN wire : wire[i].by = "monitors")
  /\ UNCHANGED <<hyprland, watch, changes, job, kept, aborted>>

\* What the user does without the daemon: the pointer enters another monitor, a
\* gesture changes the workspace of one monitor, windows open and close.
User == Count /\ UNCHANGED <<watch, changes, job, kept, history>>
FocusMonitor == \E m \in present \ {focus} : focus' = m /\ User /\ UNCHANGED <<present, shows, home, at, wire>>
Swipe == \E id \in Workspace : /\ home[id] = focus /\ shows[focus] # id
                               /\ Visit(id, "user") /\ User /\ UNCHANGED <<present, home, at>>
OpenWindow == \E w \in Window \ Open : /\ at' = [at EXCEPT ![w] = shows[focus]]
                                       /\ User /\ UNCHANGED <<present, shows, home, focus, wire>>
CloseWindow == \E w \in Open : /\ at' = [at EXCEPT ![w] = Closed]
                               /\ User /\ UNCHANGED <<present, shows, home, focus, wire>>

\* Monitors come and go.  The workspaces of one that goes move to another one;
\* those that the rules bind to one that comes return to it, unless they are shown.
Hotplug == /\ known # {}
           /\ Count
           /\ Post([by |-> "monitors"])
           /\ UNCHANGED <<at, watch, changes, job, kept, history>>
Unplug ==
  \E m \in present, n \in present :
    /\ m # n
    /\ Hotplug
    /\ present' = present \ {m}
    /\ shows' = [shows EXCEPT ![m] = None]
    /\ home' = [id \in Everywhere |-> IF home[id] = m THEN n ELSE home[id]]
    /\ focus' = IF focus = m THEN n ELSE focus
Plug ==
  \E m \in Monitor \ present :
    LET returning == {id \in Workspace : SlotOfId(id) = Slot[m] /\ \A n \in present : shows[n] # id}
    IN /\ Hotplug
       /\ present' = present \cup {m}
       /\ home' = [id \in Everywhere |-> IF id \in returning THEN m ELSE home[id]]
       /\ \E id \in returning : shows' = [shows EXCEPT ![m] = id]
       /\ UNCHANGED focus
ReloadConfig == Hotplug /\ UNCHANGED <<present, shows, home, focus>>

-----------------------------------------------------------------------------
\* The daemon starts in a session whose monitors show what Hyprland gave them,
\* with windows anywhere.
Init ==
  /\ present = Monitor
  /\ shows \in {f \in [Monitor -> Workspace \cup Orphans] : \A m, n \in Monitor : f[m] = f[n] => m = n}
  /\ home = [id \in Everywhere |->
               LET showing == {m \in Monitor : shows[m] = id}
                   owner == {m \in Monitor : Slot[m] = SlotOfId(id)}
               IN CHOOSE m \in IF showing # {} THEN showing ELSE IF owner # {} THEN owner ELSE Monitor : TRUE]
  /\ focus \in Monitor
  /\ at \in [Window -> {Closed} \cup Orphans]
  /\ wire = <<>> /\ changes = 0
  /\ watch = [id |-> None, by |-> "sync", unread |-> FALSE]
  /\ pc = "assign" /\ todo = {} /\ next = "idle"
  /\ goal = NoVirtual /\ origin = Priming /\ seen = [m \in Monitor |-> None]
  /\ known = {} /\ synced = NoVirtual /\ pinned = {}
  /\ inputs = 0
  /\ missed = FALSE /\ unassigned = TRUE /\ aborted = FALSE

Daemon == \/ Send \/ SendFails \/ QueryFails
          \/ Assign \/ CleanupOrphans \/ MoveWorkspaces \/ FocusEveryone \/ Assigned
          \/ ReceiveChange \/ Prime
          \/ ReadWatch \/ SyncMonitors \/ VisitMonitors \/ MovePinned \/ Refocus
          \/ FocusUnderCursor \/ Synced
          \/ StartSwitch \/ StartMove \/ StartNavigate \/ StartCollapse \/ StartSwap
          \/ StartAssign \/ Pin \/ Unpin
          \/ SwitchVirtual \/ MoveToVirtual \/ Navigate \/ Swap \/ Collapse

Session == \/ Deliver \/ ListenerRestarts
           \/ FocusMonitor \/ Swipe \/ OpenWindow \/ CloseWindow
           \/ Unplug \/ Plug \/ ReloadConfig

Next == Daemon \/ Session
Spec == Init /\ [][Next]_vars

-----------------------------------------------------------------------------
\* The type invariant.
Operation == {"idle", "send", "assign", "cleanup", "move", "everyone", "assigned", "prime", "window",
              "sync", "workspaces", "pinned", "refocus", "synced", "switch", "move to", "navigate next",
              "navigate prev", "collapse all", "collapse invisible", "swap next", "swap prev"}
Sending == {"idle", "move", "everyone", "assigned", "pinned", "refocus", "window", "synced"}

TypeOK ==
  /\ pc \in Operation /\ next \in Sending
  /\ present \subseteq Monitor /\ focus \in present
  /\ shows \in [Monitor -> Workspace \cup Orphans \cup {None}]
  /\ \A m \in Monitor : (shows[m] # None) = (m \in present)
  /\ home \in [Everywhere -> present]
  /\ at \in [Window -> Everywhere \cup {Closed}]
  /\ wire \in Seq(Event) /\ Len(wire) <= MaxWire
  /\ watch \in [id : Workspace \cup Orphans \cup {None}, by : {"user", "sync"}, unread : BOOLEAN]
  /\ changes \in Nat /\ inputs \in 0 .. MaxInputs
  /\ todo \subseteq Request
  /\ pc = "send" <=> todo # {}
  /\ goal \in Virtual \cup {NoVirtual} /\ synced \in Virtual \cup {NoVirtual}
  /\ origin \in Workspace \cup {None, Priming}
  /\ seen \in [Monitor -> Workspace \cup Orphans \cup {None}]
  /\ known \subseteq Monitor /\ pinned \subseteq Window
  /\ missed \in BOOLEAN /\ unassigned \in BOOLEAN /\ aborted \in BOOLEAN

\* A workspace that is shown is on the monitor that shows it.
ShownAtHome == \A m \in present : home[shows[m]] = m

\* Nothing is under way and nothing is left to react to.
AtRest == Idle /\ wire = <<>> /\ ~watch.unread /\ changes = 0

\* When everything has settled all monitors show the same virtual workspace,
\* whatever commands, gestures, echoes of the daemon's own switches and monitor
\* changes met on the way (daemon.rs, run; sync_monitors; assign_workspaces):
\* except when a switch made on one monitor was replaced unread by an event of
\* another one, or a request or an event was lost.
InSyncAtRest ==
  AtRest /\ ~missed /\ ~unassigned =>
    \A m, n \in present : VirtualOf(shows[m]) = VirtualOf(shows[n])

\* When everything has settled every workspace is on the monitor of its slot, so
\* that focusing it cannot change another monitor (move_workspaces_to_correct_monitors
\* and the relocation of sync_monitors, with lists of monitors that may be old).
WorkspacesAtHome ==
  AtRest /\ ~unassigned =>
    /\ known = present
    /\ \A id \in Workspace : Owner(id) = {} \/ home[id] \in Owner(id)

\* No window is left in the buffer, which no monitor shows, when a swap has ended
\* that was not cut short (swap_monitor's three legs, sent from one list of windows).
NoneStranded == Idle /\ ~aborted => \A w \in Window : at[w] # Buffer
=============================================================================
