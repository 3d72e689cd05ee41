---------------------------- MODULE Nsw2Bridge ----------------------------
(* nsw2-service (bridge.rs, poll.rs): two threads between a game controller *)
(* and the virtual gamepad games open.                                      *)
(*                                                                          *)
(* The HID thread reads reports and sends them on the state channel; the    *)
(* main thread emits them on the virtual device.  The other way the main    *)
(* thread answers the kernel's force-feedback requests and sends rumble     *)
(* commands, the HID thread writes the latest to the motor.  A channel is a *)
(* queue with an eventfd beside it: send is two steps (queue, then notify), *)
(* and so is draining (take until empty, then reset the counter), and the   *)
(* threads interleave between them.                                         *)
EXTENDS Naturals, Sequences, FiniteSetsExt

CONSTANTS
    Button,      \* what a report can show pressed
    MaxEffects,  \* MAX_FF_EFFECTS, also what the kernel is told it may use
    MaxQueue,    \* bound: messages in one channel
    MaxEvents,   \* bound: force-feedback events the kernel holds
    MaxCalls     \* bound: uploads, erases, plays and stops of all games, and
                 \* presses and releases of the player

ASSUME BoundsAssumption ==
    /\ MaxEffects \in Nat \ {0} /\ MaxQueue \in Nat \ {0, 1}
    /\ MaxEvents \in Nat /\ MaxCalls \in Nat

VARIABLES
    held,       \* the buttons the player holds
    plugged,    \* the controller is there
    wire,       \* the report hidraw holds, or none
    motor,      \* what the controller's motor was told last
    hid,        \* where the HID thread is
    hready,     \* its poll's readiness not yet acted upon
    cmd,        \* latest: the newest command of this drain
    stateQ, stateEfd,    \* the state channel and its eventfd
    rumbleQ, rumbleEfd,  \* the rumble channel and its eventfd
    shutdown,   \* shutdown_efd
    main,       \* where the main thread is
    mready,     \* its poll's readiness not yet acted upon
    last,       \* the state emitted last
    left,       \* fetched force-feedback events still to handle
    effects,    \* the daemon's kind of each effect id
    free,       \* available_ids
    pad,        \* the virtual gamepad, as games see it
    lost,       \* history: buttons whose last change failed to be emitted
    uploaded,   \* the kernel's kind of each effect id
    ffq,        \* force-feedback events on the virtual device
    request,    \* the kernel waits for an upload or an erase to be answered
    reused,     \* history: an effect was uploaded again under its id
    asked,      \* history: the motor state the last play, stop or erase asked
                \* for; plays with a repeat count, which are ignored, left out
    calls,      \* how often games and the player acted
    sent        \* history: the rumble command the main thread sent last

controllerVars == <<held, plugged, wire, motor>>
hidVars     == <<hid, hready, cmd>>
channelVars == <<stateQ, stateEfd, rumbleQ, rumbleEfd, shutdown>>
mainVars    == <<main, mready, last, left, effects, free, sent>>
padVars     == <<pad, lost, uploaded, ffq, request, reused, asked>>
kernelVars  == <<padVars, calls>>
vars == <<controllerVars, hidVars, channelVars, mainVars, kernelVars>>

Id     == 0 .. MaxEffects - 1
Report == SUBSET Button
NoReport == [some |-> FALSE, pressed |-> {}]

\* Rumble magnitudes, as far as rumble_frame tells them apart: any strength on
\* either side ("buzz") or none ("still").
Kind   == {"buzz", "still"}
Cmd    == {"buzz", "still", "stop"}
MotorAt(c) == IF c = "buzz" THEN "buzz" ELSE "still"

Event == [type : {"upload"}, id : Id, kind : Kind]
         \cup [type : {"erase", "play", "repeat", "stop"}, id : Id, kind : {"none"}]
Ev(t, i) == [type |-> t, id |-> i, kind |-> "none"]

HidAt  == {"poll", "drain", "reset", "write", "check", "read", "notify",
          "gone", "failed"}
MainAt == {"poll", "drain", "reset", "fetch", "handle", "notify", "check",
          "gone", "failed"}

\* A thread that returned, Ok or Err: its channel ends are dropped.
HidGone  == hid \in {"gone", "failed"}
MainGone == main \in {"gone", "failed"}

TypeOK ==
    /\ held \in Report /\ plugged \in BOOLEAN /\ motor \in Kind
    /\ wire \in [some : BOOLEAN, pressed : Report]
    /\ hid \in HidAt /\ hready \subseteq {"rumble", "hup", "data"}
    /\ cmd \in Cmd \cup {"none"}
    /\ stateQ \in Seq(Report) /\ Len(stateQ) <= MaxQueue /\ stateEfd \in BOOLEAN
    /\ rumbleQ \in Seq(Cmd) /\ Len(rumbleQ) <= MaxQueue /\ rumbleEfd \in BOOLEAN
    /\ shutdown \in BOOLEAN
    /\ main \in MainAt /\ mready \subseteq {"state", "ff", "shutdown"}
    /\ last \in Report /\ left \in 0 .. MaxEvents
    /\ effects \in [Id -> Kind \cup {"none"}] /\ free \subseteq Id
    /\ sent \in Cmd
    /\ pad \in Report /\ lost \in Report /\ uploaded \in [Id -> Kind \cup {"none"}]
    /\ ffq \in Seq(Event) /\ left <= Len(ffq) /\ Len(ffq) <= MaxEvents
    /\ request \in BOOLEAN /\ reused \in BOOLEAN /\ asked \in Kind
    /\ calls \in 0 .. MaxCalls

\* run() with the controller found: nothing pressed, nothing uploaded.
Init ==
    /\ held = {} /\ plugged = TRUE /\ wire = NoReport /\ motor = "still"
    /\ hid = "poll" /\ hready = {} /\ cmd = "none"
    /\ stateQ = <<>> /\ stateEfd = FALSE
    /\ rumbleQ = <<>> /\ rumbleEfd = FALSE /\ shutdown = FALSE
    /\ main = "poll" /\ mready = {} /\ last = {} /\ left = 0
    /\ effects = [i \in Id |-> "none"] /\ free = Id /\ sent = "stop"
    /\ pad = {} /\ lost = {} /\ uploaded = [i \in Id |-> "none"] /\ ffq = <<>>
    /\ request = FALSE /\ reused = FALSE /\ asked = "still" /\ calls = 0

----------------------------------------------------------------------------
(* The controller and its player.                                           *)

Hold(b) ==
    /\ plugged
    /\ calls < MaxCalls /\ calls' = calls + 1
    /\ held' = IF b \in held THEN held \ {b} ELSE held \cup {b}
    /\ UNCHANGED <<plugged, wire, motor, hidVars, channelVars, mainVars, padVars>>

\* The controller streams reports whether or not anything changed.
SendReport ==
    /\ plugged /\ ~wire.some
    /\ wire' = [some |-> TRUE, pressed |-> held]
    /\ UNCHANGED <<held, plugged, motor, hidVars, channelVars, mainVars, kernelVars>>

Unplug ==
    /\ plugged
    /\ plugged' = FALSE
    /\ UNCHANGED <<held, wire, motor, hidVars, channelVars, mainVars, kernelVars>>

----------------------------------------------------------------------------
(* hid_loop.                                                                *)

HidReady == {r \in {"rumble", "hup", "data"} :
                CASE r = "rumble" -> rumbleEfd
                  [] r = "hup"    -> ~plugged
                  [] r = "data"   -> wire.some}

HidPoll ==
    /\ hid = "poll" /\ HidReady # {}
    /\ hready' = HidReady \ {"rumble"}
    /\ hid' = IF "rumble" \in HidReady THEN "drain" ELSE "check"
    /\ UNCHANGED <<cmd, controllerVars, channelVars, mainVars, kernelVars>>

HidTakeRumble_KeepsFirst ==
    /\ hid = "drain" /\ rumbleQ # <<>>
    /\ cmd' = (IF cmd = "none" THEN Head(rumbleQ) ELSE cmd) /\ rumbleQ' = Tail(rumbleQ)
    /\ UNCHANGED <<hid, hready, stateQ, stateEfd, rumbleEfd, shutdown,
                   controllerVars, mainVars, kernelVars>>

\* rumble_rx.drain: try_recv until the channel is empty or its sender is gone.
HidTakeRumble ==
    /\ hid = "drain" /\ rumbleQ # <<>>
    /\ cmd' = Head(rumbleQ) /\ rumbleQ' = Tail(rumbleQ)
    /\ UNCHANGED <<hid, hready, stateQ, stateEfd, rumbleEfd, shutdown,
                   controllerVars, mainVars, kernelVars>>

HidRumbleEmpty ==
    /\ hid = "drain" /\ rumbleQ = <<>>
    /\ hid' = "reset"
    /\ UNCHANGED <<hready, cmd, channelVars, controllerVars, mainVars, kernelVars>>

\* ... and then efd.drain.
HidResetRumble ==
    /\ hid = "reset"
    /\ rumbleEfd' = FALSE
    /\ hid' = IF cmd = "none" THEN "check" ELSE "write"
    /\ UNCHANGED <<hready, cmd, stateQ, stateEfd, rumbleQ, shutdown,
                   controllerVars, mainVars, kernelVars>>

\* write_bulk may fail even with the controller there (RUMBLE_WRITE_TIMEOUT);
\* the error leaves hid_loop at once.
HidWrite ==
    /\ hid = "write"
    /\ cmd' = "none"
    /\ \/ plugged /\ motor' = MotorAt(cmd) /\ hid' = "check"
       \/ motor' = motor /\ hid' = "failed"
    /\ UNCHANGED <<held, plugged, wire, hready, channelVars, mainVars, kernelVars>>

HidCheck ==
    /\ hid = "check"
    /\ hready' = {}
    /\ \/ "hup" \in hready /\ shutdown' = TRUE /\ hid' = "gone"
       \/ /\ "hup" \notin hready /\ shutdown' = shutdown
          /\ hid' = IF "data" \in hready THEN "read" ELSE "poll"
    /\ UNCHANGED <<cmd, stateQ, stateEfd, rumbleQ, rumbleEfd,
                   controllerVars, mainVars, kernelVars>>

\* tx.send of a report that was read; it fails once main_loop has dropped the
\* receiver.  The queue's bound leaves room for one message to a receiver that
\* is about to sleep.
Room(q, at) == Len(q) + (IF at = "reset" THEN 1 ELSE 0) < MaxQueue

HidRead_Deaf ==
    /\ hid = "read" /\ wire.some
    /\ wire' = NoReport
    /\ \/ MainGone /\ UNCHANGED <<stateQ, hid>>
       \/ /\ ~MainGone /\ Room(stateQ, main)
          /\ stateQ' = Append(stateQ, wire.pressed) /\ hid' = "notify"
    /\ UNCHANGED <<held, plugged, motor, hready, cmd, stateEfd, rumbleQ, rumbleEfd,
                   shutdown, mainVars, kernelVars>>

HidRead ==
    /\ hid = "read" /\ wire.some
    /\ wire' = NoReport
    /\ \/ /\ MainGone
          /\ shutdown' = TRUE /\ hid' = "gone" /\ UNCHANGED stateQ
       \/ /\ ~MainGone /\ Room(stateQ, main)
          /\ stateQ' = Append(stateQ, wire.pressed)
          /\ hid' = "notify" /\ UNCHANGED shutdown
    /\ UNCHANGED <<held, plugged, motor, hready, cmd, stateEfd, rumbleQ, rumbleEfd,
                   mainVars, kernelVars>>

HidNotify ==
    /\ hid = "notify"
    /\ stateEfd' = TRUE /\ hid' = "read"
    /\ UNCHANGED <<hready, cmd, stateQ, rumbleQ, rumbleEfd, shutdown,
                   controllerVars, mainVars, kernelVars>>

\* Nothing to read: EAGAIN while the controller is there, an error after that.
HidReadNothing ==
    /\ hid = "read" /\ ~wire.some
    /\ \/ plugged /\ hid' = "poll" /\ shutdown' = shutdown
       \/ ~plugged /\ hid' = "gone" /\ shutdown' = TRUE
    /\ UNCHANGED <<hready, cmd, stateQ, stateEfd, rumbleQ, rumbleEfd,
                   controllerVars, mainVars, kernelVars>>

HidStep == \/ HidPoll \/ HidTakeRumble \/ HidRumbleEmpty \/ HidResetRumble
           \/ HidWrite \/ HidCheck \/ HidRead \/ HidNotify \/ HidReadNothing

----------------------------------------------------------------------------
(* main_loop.                                                               *)

MainReady == {r \in {"state", "ff", "shutdown"} :
                CASE r = "state"    -> stateEfd
                  [] r = "ff"       -> ffq # <<>>
                  [] r = "shutdown" -> shutdown}

AfterState(ready) == IF "ff" \in ready THEN "fetch" ELSE "check"

MainPoll ==
    /\ main = "poll" /\ MainReady # {}
    /\ mready' = MainReady \ {"state"}
    /\ main' = IF "state" \in MainReady THEN "drain" ELSE AfterState(MainReady)
    /\ UNCHANGED <<last, left, effects, free, sent,
                   controllerVars, hidVars, channelVars, kernelVars>>

\* emit_state: only the differences to the last state are emitted.
Emitted(p, new, old) == (p \cup (new \ old)) \ (old \ new)

MainTakeState_LastKept ==
    /\ main = "drain" /\ stateQ # <<>>
    /\ stateQ' = Tail(stateQ)
    /\ pad' = Emitted(pad, Head(stateQ), last)
    /\ UNCHANGED <<stateEfd, rumbleQ, rumbleEfd, shutdown, mainVars,
                   lost, uploaded, ffq, request, reused, asked, calls,
                   controllerVars, hidVars>>

\* The state is recorded whether or not it could be emitted: the error is
\* printed, and the difference is not emitted again.
MainTakeState ==
    /\ main = "drain" /\ stateQ # <<>>
    /\ stateQ' = Tail(stateQ)
    /\ LET changed == SymDiff(Head(stateQ), last) IN
       \/ pad' = Emitted(pad, Head(stateQ), last) /\ lost' = lost \ changed
       \/ changed # {} /\ pad' = pad /\ lost' = lost \cup changed
    /\ last' = Head(stateQ)
    /\ UNCHANGED <<stateEfd, rumbleQ, rumbleEfd, shutdown, main, mready, left, effects,
                   free, sent, uploaded, ffq, request, reused, asked, calls,
                   controllerVars, hidVars>>

\* Empty, or disconnected when the HID thread has dropped its sender.
MainStateEmpty ==
    /\ main = "drain" /\ stateQ = <<>>
    /\ main' = IF HidGone THEN "gone" ELSE "reset"
    /\ UNCHANGED <<mready, last, left, effects, free, sent,
                   controllerVars, hidVars, channelVars, kernelVars>>

MainResetState ==
    /\ main = "reset"
    /\ stateEfd' = FALSE
    /\ main' = AfterState(mready)
    /\ UNCHANGED <<mready, last, left, effects, free, sent, stateQ, rumbleQ, rumbleEfd,
                   shutdown, controllerVars, hidVars, kernelVars>>

\* process_ff takes all the events there are and handles them in order.
MainFetch ==
    /\ main = "fetch"
    /\ left' = Len(ffq) /\ main' = "handle"
    /\ UNCHANGED <<mready, last, effects, free, sent,
                   controllerVars, hidVars, channelVars, kernelVars>>

\* The virtual device fails (fetch_events, or beginning a request).
MainFails ==
    /\ main \in {"fetch", "handle"}
    /\ main' = "failed"
    /\ UNCHANGED <<mready, last, left, effects, free, sent,
                   controllerVars, hidVars, channelVars, kernelVars>>

Handling(type) ==
    /\ main = "handle" /\ left > 0 /\ Head(ffq).type = type
    /\ ffq' = Tail(ffq) /\ left' = left - 1
    /\ UNCHANGED <<mready, last, pad, lost, reused, asked, calls, stateQ, stateEfd, rumbleEfd, shutdown,
                   controllerVars, hidVars>>

\* The lowest free id is the daemon's; the kernel keeps the id it asked for,
\* and keeps the effect only when the answer is not an error.
HandleUpload ==
    /\ Handling("upload")
    /\ request' = FALSE
    /\ LET e == Head(ffq) IN
       \/ /\ free # {}
          /\ LET id == Min(free) IN
             /\ free' = free \ {id}
             /\ effects' = [effects EXCEPT ![id] = e.kind]
          /\ uploaded' = [uploaded EXCEPT ![e.id] = e.kind]
       \/ free = {} /\ UNCHANGED <<free, effects, uploaded>>
    /\ UNCHANGED <<main, sent, rumbleQ>>

HandleErase_KeepsId ==
    /\ Handling("erase")
    /\ request' = FALSE
    /\ effects' = [effects EXCEPT ![Head(ffq).id] = "none"]
    /\ UNCHANGED <<free, main, sent, rumbleQ, uploaded>>

HandleErase ==
    /\ Handling("erase")
    /\ request' = FALSE
    /\ effects' = [effects EXCEPT ![Head(ffq).id] = "none"]
    /\ free' = free \cup {Head(ffq).id}
    /\ UNCHANGED <<main, sent, rumbleQ, uploaded>>

\* rumble_tx.send; an error (the HID thread is gone) is ignored.
SendRumble(c) ==
    \/ /\ ~HidGone /\ Room(rumbleQ, hid)
       /\ rumbleQ' = Append(rumbleQ, c) /\ main' = "notify" /\ sent' = c
    \/ HidGone /\ UNCHANGED <<rumbleQ, main, sent>>

HandlePlay ==
    /\ Handling("play")
    /\ LET kind == effects[Head(ffq).id] IN
       \/ kind # "none" /\ SendRumble(kind)
       \/ kind = "none" /\ UNCHANGED <<rumbleQ, main, sent>>
    /\ UNCHANGED <<effects, free, uploaded, request>>

\* A play with a repeat count is not FF_STATUS_PLAYING: ignored.
HandleRepeat ==
    /\ Handling("repeat")
    /\ UNCHANGED <<main, sent, rumbleQ, effects, free, uploaded, request>>

HandleStop ==
    /\ Handling("stop")
    /\ SendRumble("stop")
    /\ UNCHANGED <<effects, free, uploaded, request>>

MainNotify ==
    /\ main = "notify"
    /\ rumbleEfd' = TRUE /\ main' = "handle"
    /\ UNCHANGED <<mready, last, left, effects, free, sent, stateQ, stateEfd, rumbleQ,
                   shutdown, controllerVars, hidVars, kernelVars>>

MainHandled ==
    /\ main = "handle" /\ left = 0
    /\ main' = "check"
    /\ UNCHANGED <<mready, last, left, effects, free, sent,
                   controllerVars, hidVars, channelVars, kernelVars>>

MainCheck ==
    /\ main = "check"
    /\ main' = IF "shutdown" \in mready THEN "gone" ELSE "poll"
    /\ mready' = {}
    /\ UNCHANGED <<last, left, effects, free, sent,
                   controllerVars, hidVars, channelVars, kernelVars>>

MainWorks == \/ MainPoll \/ MainTakeState \/ MainStateEmpty \/ MainResetState
             \/ MainFetch \/ HandleUpload \/ HandleErase \/ HandlePlay \/ HandleRepeat
             \/ HandleStop \/ MainNotify \/ MainHandled \/ MainCheck

----------------------------------------------------------------------------
(* Games, through the kernel's force-feedback core: uploads and erases hold *)
(* a mutex until the daemon answers, ids are the kernel's, only an uploaded *)
(* effect can be played, and erasing one stops it first.                    *)

Post(events) ==
    /\ ~MainGone
    /\ Len(ffq) + Len(events) <= MaxEvents
    /\ calls < MaxCalls /\ calls' = calls + 1
    /\ ffq' = ffq \o events
    /\ UNCHANGED <<pad, lost, controllerVars, hidVars, channelVars, mainVars>>

Unused == {i \in Id : uploaded[i] = "none"}

\* A new effect under the lowest unused id, or new parameters for one in use.
Upload(i, kind) ==
    /\ ~request
    /\ i \in Unused => i = Min(Unused)
    /\ Post(<<[type |-> "upload", id |-> i, kind |-> kind]>>)
    /\ request' = TRUE
    /\ reused' = (reused \/ i \notin Unused)
    /\ UNCHANGED <<uploaded, asked>>

Erase(i) ==
    /\ ~request /\ i \notin Unused
    /\ Post(<<Ev("stop", i), Ev("erase", i)>>)
    /\ request' = TRUE
    /\ uploaded' = [uploaded EXCEPT ![i] = "none"]
    /\ asked' = "still"
    /\ UNCHANGED reused

Play(i) ==
    /\ i \notin Unused
    /\ Post(<<Ev("play", i)>>)
    /\ asked' = uploaded[i]
    /\ UNCHANGED <<uploaded, request, reused>>

\* A game plays an effect more than once.
Repeat(i) ==
    /\ i \notin Unused
    /\ Post(<<Ev("repeat", i)>>)
    /\ UNCHANGED <<uploaded, request, reused, asked>>

Stop(i) ==
    /\ i \notin Unused
    /\ Post(<<Ev("stop", i)>>)
    /\ asked' = "still"
    /\ UNCHANGED <<uploaded, request, reused>>

----------------------------------------------------------------------------

Environment ==
    \/ \E b \in Button : Hold(b)
    \/ SendReport
    \/ Unplug
    \/ MainFails
    \/ \E i \in Id : \/ Erase(i) \/ Play(i) \/ Repeat(i) \/ Stop(i)
                      \/ \E k \in Kind : Upload(i, k)

Next == Environment \/ HidStep \/ MainWorks

Spec == Init /\ [][Next]_vars

\* Both threads run, and a controller that is plugged in keeps reporting.
\* Nobody has to press, play, unplug or fail.
FairSpec == /\ Spec
            /\ WF_vars(HidStep) /\ WF_vars(MainWorks) /\ WF_vars(SendReport)
----------------------------------------------------------------------------
(* What the bridge promises.                                                *)

\* The daemon's effect table and free ids are the kernel's whenever no upload
\* or erase is under way, as long as no game has uploaded an effect again: the
\* two sides choose ids on their own (bridge.rs:250-266 and the kernel's
\* ff-core), and agree only while both take the lowest.
EffectsAgree == ~reused /\ ~request => effects = uploaded /\ free = Unused

\* With every event handled, every command taken and written, the motor does
\* what games asked for last, whatever was coalesced on the way and whichever
\* effects came and went (bridge.rs:181-196, 244-286).  A play with a repeat
\* count asks for nothing here, as in the code: it moves no motor, and what was
\* asked before it stays in force.
MotorObeys ==
    ffq = <<>> /\ rumbleQ = <<>> /\ cmd = "none" /\ ~HidGone /\ ~reused
        => motor = asked

\* What the player holds is what games see after a while: a report left in the
\* channel by a reset eventfd (poll.rs:99-110) is taken with the next one, and
\* emitting differences (bridge.rs:405-443) loses none.  Excepted are just the
\* buttons whose last change failed to be emitted (bridge.rs:143-146): nothing
\* emits it again before that button changes once more.
InputArrives ==
    \A s \in Report :
        <>[](held = s /\ plugged /\ ~HidGone /\ ~MainGone)
            => <>[](SymDiff(pad, s) \subseteq lost)

\* Neither thread is left behind.  When the main thread ends, the join in run
\* (bridge.rs:110) returns: the HID thread finds its channel closed with the
\* next report, or the controller gone (bridge.rs:199-223).  Unplugging the
\* controller ends the main thread (bridge.rs:96-102, 199-221), unless a rumble
\* write failed: that error leaves hid_loop without a notify (bridge.rs:193-195).
BothEnd == /\ MainGone ~> HidGone
           /\ ~plugged ~> MainGone \/ hid = "failed"

\* A command that ends rumble reaches the motor of a controller that is there:
\* the HID thread "receives RumbleCmds on the rumble channel and writes the
\* corresponding command frames" (bridge.rs:8-9), with "pure event-driven
\* wakeups" (bridge.rs:16-18).
StopSilences ==
    sent # "buzz" ~> motor = "still" \/ sent = "buzz" \/ ~plugged \/ HidGone
===========================================================================
