------------------------- MODULE Nsw2BridgeProofs -------------------------
(* Proofs about Nsw2Bridge, for any buttons, effects and bounds.  The two    *)
(* effect tables differ by exactly the request that is under way, and what   *)
(* the motor will do is decided by the last command on its way there; IInv   *)
(* follows both through the queues.                                          *)
EXTENDS Nsw2Bridge, TLAPS

Rumble   == {"play", "stop"}
Plays    == Rumble \cup {"repeat"}
Requests == {"upload", "erase"}

\* The tables while the answer to e is awaited: a new effect is in neither yet,
\* an erased one is the daemon's only.
TablesAt(e) ==
    \/ /\ e.type = "upload" /\ effects = uploaded /\ free = Unused
       /\ e.id \in Unused /\ e.id = Min(Unused)
    \/ /\ e.type = "erase" /\ e.id \in Unused /\ effects[e.id] # "none"
       /\ free = Unused \ {e.id}
       /\ \A i \in Id \ {e.id} : effects[i] = uploaded[i]

\* At most one upload or erase is in the queue, and one is while the kernel waits.
QuietOK ==
    ~request => /\ \A k \in DOMAIN ffq : ffq[k].type \in Plays
                /\ ~reused => effects = uploaded /\ free = Unused
WaitingOK ==
    request => \E k \in DOMAIN ffq :
                   /\ ffq[k].type \in Requests
                   /\ \A j \in DOMAIN ffq \ {k} : ffq[j].type \in Plays
                   /\ ~reused => TablesAt(ffq[k])

\* The last play or stop in the queue is what was asked for last, and a play
\* that is the last has its effect still.
LastRumble(k) == ffq[k].type \in Rumble /\ \A j \in DOMAIN ffq : j > k => ffq[j].type \notin Rumble
AskedOK ==
    ~reused => \A k \in DOMAIN ffq : LastRumble(k) =>
        \/ ffq[k].type = "stop" /\ asked = "still"
        \/ ffq[k].type = "play" /\ uploaded[ffq[k].id] # "none" /\ asked = uploaded[ffq[k].id]

\* Once no play or stop waits, the newest command that was not coalesced away,
\* queued, taken or written, is it.
Latest == IF rumbleQ # <<>> THEN MotorAt(rumbleQ[Len(rumbleQ)])
          ELSE IF cmd # "none" THEN MotorAt(cmd) ELSE motor
ChainOK ==
    ~reused /\ ~HidGone /\ (\A k \in DOMAIN ffq : ffq[k].type \notin Rumble) => Latest = asked

WriteOK == hid = "write" => cmd # "none"

IInv == TypeOK /\ QuietOK /\ WaitingOK /\ AskedOK /\ ChainOK /\ WriteOK

USE BoundsAssumption

---------------------------------------------------------------------------
(* Queues.                                                                  *)

\* Taking the head moves everything else one place to the front.
LEMMA TailOf ==
    ASSUME NEW S, NEW s \in Seq(S), s # <<>>
    PROVE  /\ Tail(s) \in Seq(S) /\ Len(Tail(s)) = Len(s) - 1 /\ Head(s) = s[1] /\ 1 \in DOMAIN s
           /\ \A k \in DOMAIN Tail(s) : k + 1 \in DOMAIN s /\ Tail(s)[k] = s[k + 1]
           /\ \A k \in DOMAIN s \ {1} : k - 1 \in DOMAIN Tail(s) /\ Tail(s)[k - 1] = s[k]
OBVIOUS

\* Adding at the end moves nothing.
LEMMA AppendTo ==
    ASSUME NEW S, NEW s \in Seq(S), NEW e \in S
    PROVE  /\ Append(s, e) \in Seq(S) /\ Len(Append(s, e)) = Len(s) + 1
           /\ Append(s, e)[Len(s) + 1] = e /\ Len(s) + 1 \in DOMAIN Append(s, e)
           /\ \A k \in DOMAIN s : k \in DOMAIN Append(s, e) /\ Append(s, e)[k] = s[k]
           /\ \A k \in DOMAIN Append(s, e) : k \in DOMAIN s \/ k = Len(s) + 1
OBVIOUS

\* A message is sent where there is room for it.
LEMMA SendFits ==
    ASSUME NEW S, NEW q \in Seq(S), Len(q) <= MaxQueue, NEW e \in S, NEW at, Room(q, at)
    PROVE  Append(q, e) \in Seq(S) /\ Len(Append(q, e)) <= MaxQueue
BY DEF Room

---------------------------------------------------------------------------
LEMMA InitIInv == Init => IInv
<1> SUFFICES ASSUME Init PROVE IInv
  OBVIOUS
<1>1. TypeOK
  <2>1. wire \in [some : BOOLEAN, pressed : Report] /\ held \in Report
    BY DEF Init, NoReport, Report
  <2>2. /\ stateQ \in Seq(Report) /\ rumbleQ \in Seq(Cmd) /\ ffq \in Seq(Event)
        /\ Len(stateQ) = 0 /\ Len(rumbleQ) = 0 /\ Len(ffq) = 0
    BY DEF Init
  <2>3. motor \in Kind /\ asked \in Kind /\ sent \in Cmd /\ hid \in HidAt /\ main \in MainAt
    BY DEF Init, Kind, Cmd, HidAt, MainAt
  <2>4. /\ effects \in [Id -> Kind \cup {"none"}] /\ uploaded \in [Id -> Kind \cup {"none"}]
        /\ free \subseteq Id
    BY DEF Init
  <2>5. last \in Report /\ pad \in Report /\ lost \in Report
    BY DEF Init, Report
  <2>6. /\ Len(stateQ) <= MaxQueue /\ Len(rumbleQ) <= MaxQueue /\ Len(ffq) <= MaxEvents
        /\ left \in 0 .. MaxEvents /\ left <= Len(ffq) /\ calls \in 0 .. MaxCalls
    BY <2>2 DEF Init
  <2>7. /\ plugged \in BOOLEAN /\ stateEfd \in BOOLEAN /\ rumbleEfd \in BOOLEAN
        /\ shutdown \in BOOLEAN /\ request \in BOOLEAN /\ reused \in BOOLEAN
        /\ hready \subseteq {"rumble", "hup", "data"} /\ mready \subseteq {"state", "ff", "shutdown"}
        /\ cmd \in Cmd \cup {"none"}
    BY DEF Init
  <2> QED
    BY <2>1, <2>2, <2>3, <2>4, <2>5, <2>6, <2>7 DEF TypeOK
<1>2. Unused = Id
  BY DEF Init, Unused
<1>3. (\A k \in DOMAIN ffq : FALSE) /\ Latest = asked
  <2>1. ffq = <<>> /\ rumbleQ = <<>> /\ cmd = "none" /\ motor = asked
    BY DEF Init
  <2>2. \A k \in DOMAIN ffq : FALSE
    BY <2>1
  <2>3. Latest = asked
    BY <2>1 DEF Latest
  <2> QED
    BY <2>2, <2>3
<1>4. QuietOK /\ WaitingOK /\ AskedOK /\ ChainOK /\ WriteOK
  BY <1>2, <1>3 DEF Init, QuietOK, WaitingOK, AskedOK, ChainOK, WriteOK
<1> QED
  BY <1>1, <1>4 DEF IInv

---------------------------------------------------------------------------
(* What the controller and the input path do touches neither effects nor    *)
(* rumble.                                                                   *)

\* The variables the four parts of the invariant other than TypeOK speak of.
rumbleVars == <<request, reused, ffq, effects, free, uploaded, asked, rumbleQ, cmd, motor>>

LEMMA Unrelated ==
    ASSUME IInv, TypeOK', UNCHANGED rumbleVars, hid' = "write" => hid = "write", HidGone => HidGone'
    PROVE  IInv'
BY DEF IInv, rumbleVars, QuietOK, WaitingOK, TablesAt, Unused, AskedOK, LastRumble, ChainOK, Latest, WriteOK

LEMMA ControllerOK ==
    IInv /\ ((\E b \in Button : Hold(b)) \/ SendReport \/ Unplug) => IInv'
<1> SUFFICES ASSUME IInv, (\E b \in Button : Hold(b)) \/ SendReport \/ Unplug PROVE IInv'
  OBVIOUS
<1> USE DEF Hold, SendReport, Unplug, hidVars, channelVars, mainVars, padVars, kernelVars
<1>1. TypeOK'
  <2> USE DEF IInv, TypeOK
  <2>1. ASSUME NEW b \in Button, Hold(b) PROVE TypeOK'
    BY <2>1 DEF Report
  <2>2. CASE SendReport
    BY <2>2
  <2>3. CASE Unplug
    BY <2>3
  <2> QED
    BY <2>1, <2>2, <2>3
<1>2. UNCHANGED rumbleVars /\ UNCHANGED hid
  BY DEF rumbleVars
<1> QED
  BY <1>1, <1>2, Unrelated DEF HidGone

LEMMA HidInputOK ==
    IInv /\ (HidPoll \/ HidRumbleEmpty \/ HidCheck \/ HidRead \/ HidNotify \/ HidReadNothing) => IInv'
<1> SUFFICES ASSUME IInv,
             HidPoll \/ HidRumbleEmpty \/ HidCheck \/ HidRead \/ HidNotify \/ HidReadNothing
             PROVE IInv'
  OBVIOUS
<1> USE DEF controllerVars, channelVars, mainVars, padVars, kernelVars
<1>1. UNCHANGED rumbleVars /\ (hid' = "write" => hid = "write") /\ (HidGone => HidGone')
  BY DEF rumbleVars, HidGone, HidPoll, HidRumbleEmpty, HidCheck, HidRead, HidNotify, HidReadNothing
<1>2. TypeOK'
  <2> USE DEF IInv, TypeOK, HidAt
  <2>1. CASE HidPoll
    BY <2>1 DEF HidPoll, HidReady
  <2>2. CASE HidRumbleEmpty
    BY <2>2 DEF HidRumbleEmpty
  <2>3. CASE HidCheck
    BY <2>3 DEF HidCheck
  <2>4. CASE HidRead
    <3>1. wire' \in [some : BOOLEAN, pressed : Report] /\ wire.pressed \in Report
      BY <2>4 DEF HidRead, NoReport, Report
    <3>2. stateQ' \in Seq(Report) /\ Len(stateQ') <= MaxQueue
      <4>1. stateQ \in Seq(Report) /\ Len(stateQ) <= MaxQueue
        OBVIOUS
      <4>2. stateQ' = stateQ \/ (stateQ' = Append(stateQ, wire.pressed) /\ Room(stateQ, main))
        BY <2>4 DEF HidRead
      <4> HIDE DEF TypeOK, IInv
      <4> QED
        BY <3>1, <4>1, <4>2, SendFits
    <3> QED
      BY <2>4, <3>1, <3>2 DEF HidRead
  <2>5. CASE HidNotify
    BY <2>5 DEF HidNotify
  <2>6. CASE HidReadNothing
    BY <2>6 DEF HidReadNothing
  <2> QED
    BY <2>1, <2>2, <2>3, <2>4, <2>5, <2>6
<1> QED
  BY <1>1, <1>2, Unrelated

---------------------------------------------------------------------------
(* Commands on their way to the motor.                                      *)

\* The newest command stays the newest while older ones are taken off.
LEMMA HidRumbleOK ==
    IInv /\ (HidTakeRumble \/ HidResetRumble \/ HidWrite) => IInv'
<1> SUFFICES ASSUME IInv, HidTakeRumble \/ HidResetRumble \/ HidWrite PROVE IInv'
  OBVIOUS
<1> USE DEF controllerVars, channelVars, mainVars, padVars, kernelVars
<1>1. TypeOK'
  <2> USE DEF IInv, TypeOK, HidAt
  <2>1. CASE HidTakeRumble
    <3>1. rumbleQ' \in Seq(Cmd) /\ Len(rumbleQ') <= MaxQueue /\ cmd' \in Cmd
      BY <2>1, TailOf DEF HidTakeRumble
    <3> QED
      BY <2>1, <3>1 DEF HidTakeRumble
  <2>2. CASE HidResetRumble
    BY <2>2 DEF HidResetRumble
  <2>3. CASE HidWrite
    BY <2>3 DEF HidWrite, MotorAt, Kind
  <2> QED
    BY <2>1, <2>2, <2>3
<1>2. UNCHANGED <<request, reused, ffq, effects, free, uploaded, asked>>
  BY DEF HidTakeRumble, HidResetRumble, HidWrite
<1>3. WriteOK'
  BY DEF WriteOK, HidTakeRumble, HidResetRumble, HidWrite
<1>4. HidGone' \/ Latest' = Latest
  <2>1. CASE HidTakeRumble
    <3>1. /\ rumbleQ \in Seq(Cmd) /\ rumbleQ # <<>> /\ rumbleQ' = Tail(rumbleQ)
          /\ cmd' = Head(rumbleQ) /\ motor' = motor
      BY <2>1 DEF HidTakeRumble, IInv, TypeOK
    <3>2. CASE Len(rumbleQ) = 1
      <4>1. rumbleQ' = <<>> /\ cmd' = rumbleQ[Len(rumbleQ)] /\ cmd' # "none"
        BY <3>1, <3>2 DEF Cmd
      <4> QED
        BY <3>1, <4>1 DEF Latest
    <3>3. CASE Len(rumbleQ) # 1
      <4>1. rumbleQ' # <<>> /\ rumbleQ'[Len(rumbleQ')] = rumbleQ[Len(rumbleQ)]
        <5>1. /\ Len(rumbleQ) \in Nat /\ Len(rumbleQ') = Len(rumbleQ) - 1 /\ Len(rumbleQ) > 1
              /\ rumbleQ' \in Seq(Cmd)
          <6>1. rumbleQ' \in Seq(Cmd) /\ Len(rumbleQ') = Len(rumbleQ) - 1 /\ 1 \in DOMAIN rumbleQ
            BY <3>1, TailOf
          <6> QED
            BY <3>1, <3>3, <6>1
        <5>2. Len(rumbleQ') \in DOMAIN rumbleQ' /\ rumbleQ' # <<>>
          BY <5>1
        <5> QED
          BY <3>1, <5>1, <5>2, TailOf
      <4> QED
        BY <3>1, <4>1 DEF Latest
    <3> QED
      BY <3>2, <3>3
  <2>2. CASE HidResetRumble
    BY <2>2 DEF HidResetRumble, Latest
  <2>3. CASE HidWrite
    BY <2>3 DEF HidWrite, Latest, IInv, WriteOK, HidGone
  <2> QED
    BY <2>1, <2>2, <2>3
<1>5. HidGone => HidGone'
  BY DEF HidGone, HidTakeRumble, HidResetRumble, HidWrite
<1>6. QuietOK' /\ WaitingOK' /\ AskedOK'
  BY <1>2 DEF IInv, QuietOK, WaitingOK, TablesAt, Unused, AskedOK, LastRumble
<1>7. ChainOK'
  BY <1>2, <1>4, <1>5 DEF IInv, ChainOK
<1> QED
  BY <1>1, <1>3, <1>6, <1>7 DEF IInv

---------------------------------------------------------------------------
(* main_loop, apart from the events.                                        *)

LEMMA MainLoopOK ==
    ASSUME IInv,
           \/ MainPoll \/ MainTakeState \/ MainStateEmpty \/ MainResetState \/ MainFetch
           \/ MainFails \/ MainNotify \/ MainHandled \/ MainCheck
    PROVE  IInv'
<1> USE DEF controllerVars, hidVars, channelVars, mainVars, padVars, kernelVars
<1>1. UNCHANGED rumbleVars /\ UNCHANGED hid
  BY DEF rumbleVars, MainPoll, MainTakeState, MainStateEmpty, MainResetState, MainFetch,
     MainFails, MainNotify, MainHandled, MainCheck
<1>2. TypeOK'
  <2> USE DEF IInv, TypeOK, MainAt
  <2>1. CASE MainPoll
    BY <2>1 DEF MainPoll, MainReady, AfterState
  <2>2. CASE MainTakeState
    <3>1. /\ stateQ' \in Seq(Report) /\ Len(stateQ') <= MaxQueue
          /\ Head(stateQ) \in Report
      BY <2>2, TailOf DEF MainTakeState
    <3>2. /\ pad' \in Report /\ last' \in Report
          /\ lost' \in Report
      BY <2>2, <3>1 DEF MainTakeState, Emitted, SymDiff, Report
    <3> QED
      BY <2>2, <3>1, <3>2 DEF MainTakeState
  <2>3. CASE MainStateEmpty
    BY <2>3 DEF MainStateEmpty
  <2>4. CASE MainResetState
    BY <2>4 DEF MainResetState, AfterState
  <2>5. CASE MainFetch
    BY <2>5 DEF MainFetch
  <2>6. CASE MainFails
    BY <2>6 DEF MainFails
  <2>7. CASE MainNotify
    BY <2>7 DEF MainNotify
  <2>8. CASE MainHandled
    BY <2>8 DEF MainHandled
  <2>9. CASE MainCheck
    BY <2>9 DEF MainCheck
  <2> QED
    BY <2>1, <2>2, <2>3, <2>4, <2>5, <2>6, <2>7, <2>8, <2>9
<1> QED
  BY <1>1, <1>2, Unrelated DEF HidGone

---------------------------------------------------------------------------
(* The daemon's answers.                                                    *)

\* What taking an event leaves of the queue.
LEMMA Handled ==
    ASSUME IInv, NEW type, Handling(type)
    PROVE  /\ ffq \in Seq(Event) /\ ffq # <<>> /\ 1 \in DOMAIN ffq
           /\ Head(ffq) = ffq[1] /\ ffq[1].type = type /\ ffq[1] \in Event
           /\ ffq' \in Seq(Event) /\ left' \in 0 .. MaxEvents
           /\ left' <= Len(ffq') /\ Len(ffq') <= MaxEvents
           /\ \A k \in DOMAIN ffq' : k \in Nat \ {0} /\ k + 1 \in DOMAIN ffq /\ ffq'[k] = ffq[k + 1]
           /\ \A k \in DOMAIN ffq \ {1} : k - 1 \in DOMAIN ffq' /\ ffq'[k - 1] = ffq[k]
<1>1. /\ ffq \in Seq(Event) /\ left > 0 /\ left \in 0 .. MaxEvents
      /\ left <= Len(ffq) /\ Len(ffq) <= MaxEvents
  BY DEF IInv, TypeOK, Handling
<1>2. ffq # <<>>
  BY <1>1
<1>3. /\ ffq' = Tail(ffq) /\ left' = left - 1 /\ Head(ffq).type = type
  BY DEF Handling
<1>4. /\ Tail(ffq) \in Seq(Event) /\ Len(Tail(ffq)) = Len(ffq) - 1 /\ Head(ffq) = ffq[1]
      /\ 1 \in DOMAIN ffq
      /\ \A k \in DOMAIN Tail(ffq) : k + 1 \in DOMAIN ffq /\ Tail(ffq)[k] = ffq[k + 1]
      /\ \A k \in DOMAIN ffq \ {1} : k - 1 \in DOMAIN Tail(ffq) /\ Tail(ffq)[k - 1] = ffq[k]
  BY <1>1, <1>2, TailOf
<1>5. ffq[1] \in Event /\ \A k \in DOMAIN ffq' : k \in Nat \ {0}
  BY <1>1, <1>3, <1>4
<1>6. left' \in 0 .. MaxEvents /\ left' <= Len(ffq') /\ Len(ffq') <= MaxEvents
  BY <1>1, <1>3, <1>4
<1> QED
  BY <1>1, <1>2, <1>3, <1>4, <1>5, <1>6

\* The last play or stop of what is left was the last one before.
LEMMA LastRumbleStays ==
    ASSUME IInv, NEW type, Handling(type), NEW k \in DOMAIN ffq', LastRumble(k)'
    PROVE  k + 1 \in DOMAIN ffq /\ ffq'[k] = ffq[k + 1] /\ LastRumble(k + 1)
<1>1. /\ k + 1 \in DOMAIN ffq /\ ffq'[k] = ffq[k + 1] /\ k \in Nat \ {0}
      /\ \A j \in DOMAIN ffq \ {1} : j - 1 \in DOMAIN ffq' /\ ffq'[j - 1] = ffq[j]
      /\ ffq \in Seq(Event)
  BY Handled
<1>2. ASSUME NEW j \in DOMAIN ffq, j > k + 1 PROVE ffq[j].type \notin Rumble
  <2>1. j \in Nat /\ j # 1 /\ j - 1 > k
    BY <1>1, <1>2
  <2> QED
    BY <1>1, <2>1 DEF LastRumble
<1> QED
  BY <1>1, <1>2 DEF LastRumble

\* An upload or erase that is handled is the only one, and the one awaited.
LEMMA TheRequest ==
    ASSUME IInv, NEW type \in Requests, Handling(type)
    PROVE  /\ \A k \in DOMAIN ffq' : ffq'[k].type \in Plays
           /\ ~reused => TablesAt(ffq[1])
           /\ (\A k \in DOMAIN ffq' : ffq'[k].type \notin Rumble)
                => \A k \in DOMAIN ffq : ffq[k].type \notin Rumble
<1>1. 1 \in DOMAIN ffq /\ ffq[1].type = type /\ type \notin Plays /\ type \notin Rumble
  BY Handled DEF Rumble, Plays, Requests
<1>2. request
  BY <1>1 DEF IInv, QuietOK
<1>3. /\ \A j \in DOMAIN ffq \ {1} : ffq[j].type \in Plays
      /\ ~reused => TablesAt(ffq[1])
  BY <1>1, <1>2 DEF IInv, WaitingOK
<1>4. /\ \A k \in DOMAIN ffq' : k \in Nat \ {0} /\ k + 1 \in DOMAIN ffq /\ ffq'[k] = ffq[k + 1]
      /\ \A k \in DOMAIN ffq \ {1} : k - 1 \in DOMAIN ffq' /\ ffq'[k - 1] = ffq[k]
  BY Handled
<1>5. \A k \in DOMAIN ffq' : ffq'[k].type \in Plays
  <2> TAKE k \in DOMAIN ffq'
  <2>1. k + 1 \in DOMAIN ffq /\ k + 1 # 1 /\ ffq'[k] = ffq[k + 1]
    BY <1>4
  <2> QED
    BY <1>3, <2>1
<1> QED
  BY <1>1, <1>3, <1>4, <1>5

\* The new effect enters both tables under the id the kernel chose.
LEMMA HandleUploadOK == IInv /\ HandleUpload => IInv'
<1> SUFFICES ASSUME IInv, HandleUpload PROVE IInv'
  OBVIOUS
<1> DEFINE e == ffq[1]
<1>1. Handling("upload")
  BY DEF HandleUpload
<1>2. /\ ffq' \in Seq(Event) /\ left' \in 0 .. MaxEvents
      /\ left' <= Len(ffq') /\ Len(ffq') <= MaxEvents
      /\ e \in Event /\ e.type = "upload" /\ Head(ffq) = e
  BY <1>1, Handled
<1>3. e.kind \in Kind /\ e.id \in Id
  BY <1>2 DEF Event
<1>4. /\ UNCHANGED <<mready, last, pad, lost, reused, asked, calls, stateQ, stateEfd, rumbleEfd, shutdown>>
      /\ UNCHANGED <<controllerVars, hidVars, main, sent, rumbleQ>> /\ request' = FALSE
  BY DEF HandleUpload, Handling
<1>5. \/ /\ free # {} /\ free' = free \ {Min(free)}
         /\ effects' = [effects EXCEPT ![Min(free)] = e.kind]
         /\ uploaded' = [uploaded EXCEPT ![e.id] = e.kind]
      \/ free = {} /\ UNCHANGED <<free, effects, uploaded>>
  BY <1>2 DEF HandleUpload
<1>6. /\ effects \in [Id -> Kind \cup {"none"}] /\ uploaded \in [Id -> Kind \cup {"none"}]
      /\ free \subseteq Id
  BY DEF IInv, TypeOK
<1>7. TypeOK'
  <2>1. /\ effects' \in [Id -> Kind \cup {"none"}] /\ uploaded' \in [Id -> Kind \cup {"none"}]
        /\ free' \subseteq Id
    BY <1>3, <1>5, <1>6
  <2> QED
    BY <1>2, <1>4, <2>1 DEF IInv, TypeOK, controllerVars, hidVars
<1>8. /\ \A k \in DOMAIN ffq' : ffq'[k].type \in Plays
      /\ ~reused => TablesAt(e)
      /\ (\A k \in DOMAIN ffq' : ffq'[k].type \notin Rumble)
           => \A k \in DOMAIN ffq : ffq[k].type \notin Rumble
  BY <1>1, TheRequest DEF Requests
<1> HIDE DEF e
<1>9. ASSUME ~reused
      PROVE  /\ effects = uploaded /\ free = Unused /\ e.id \in Unused /\ e.id = Min(free)
             /\ uploaded' = [uploaded EXCEPT ![e.id] = e.kind]
             /\ effects' = uploaded' /\ free' = Unused \ {e.id}
  BY <1>2, <1>5, <1>8, <1>9 DEF TablesAt
<1>10. e.kind # "none"
  BY <1>3 DEF Kind
<1>11. ~reused => Unused' = Unused \ {e.id}
  BY <1>3, <1>6, <1>9, <1>10 DEF Unused
<1>12. QuietOK' /\ WaitingOK'
  BY <1>4, <1>8, <1>9, <1>11 DEF QuietOK, WaitingOK
<1>13. AskedOK'
  <2> SUFFICES ASSUME ~reused, NEW k \in DOMAIN ffq', LastRumble(k)'
               PROVE  \/ ffq'[k].type = "stop" /\ asked = "still"
                      \/ /\ ffq'[k].type = "play" /\ uploaded'[ffq'[k].id] # "none"
                         /\ asked = uploaded'[ffq'[k].id]
    BY <1>4 DEF AskedOK
  <2>1. k + 1 \in DOMAIN ffq /\ ffq'[k] = ffq[k + 1] /\ LastRumble(k + 1)
    BY <1>1, LastRumbleStays
  <2>2. \/ ffq'[k].type = "stop" /\ asked = "still"
        \/ /\ ffq'[k].type = "play" /\ uploaded[ffq'[k].id] # "none"
           /\ asked = uploaded[ffq'[k].id]
    BY <2>1 DEF IInv, AskedOK
  <2>3. uploaded[e.id] = "none" /\ uploaded' = [uploaded EXCEPT ![e.id] = e.kind]
    BY <1>9 DEF Unused
  <2>4. ASSUME uploaded[ffq'[k].id] # "none" PROVE uploaded'[ffq'[k].id] = uploaded[ffq'[k].id]
    BY <1>6, <2>3, <2>4
  <2> QED
    BY <2>2, <2>4
<1>14. ChainOK' /\ WriteOK'
  BY <1>4, <1>8 DEF IInv, ChainOK, WriteOK, Latest, HidGone, hidVars, controllerVars
<1> QED
  BY <1>7, <1>12, <1>13, <1>14 DEF IInv

\* The erased effect leaves the daemon's table too.
LEMMA HandleEraseOK == IInv /\ HandleErase => IInv'
<1> SUFFICES ASSUME IInv, HandleErase PROVE IInv'
  OBVIOUS
<1> DEFINE e == ffq[1]
<1>1. Handling("erase")
  BY DEF HandleErase
<1>2. /\ ffq' \in Seq(Event) /\ left' \in 0 .. MaxEvents
      /\ left' <= Len(ffq') /\ Len(ffq') <= MaxEvents
      /\ e \in Event /\ e.type = "erase" /\ Head(ffq) = e
  BY <1>1, Handled
<1>3. e.id \in Id
  BY <1>2 DEF Event
<1>4. /\ UNCHANGED <<mready, last, pad, lost, reused, asked, calls, stateQ, stateEfd, rumbleEfd, shutdown>>
      /\ UNCHANGED <<controllerVars, hidVars, main, sent, rumbleQ, uploaded>> /\ request' = FALSE
      /\ effects' = [effects EXCEPT ![e.id] = "none"] /\ free' = free \cup {e.id}
  BY <1>2 DEF HandleErase, Handling
<1>5. /\ effects \in [Id -> Kind \cup {"none"}] /\ uploaded \in [Id -> Kind \cup {"none"}]
      /\ free \subseteq Id
  BY DEF IInv, TypeOK
<1>6. TypeOK'
  <2>1. effects' \in [Id -> Kind \cup {"none"}] /\ free' \subseteq Id
    BY <1>3, <1>4, <1>5
  <2> QED
    BY <1>2, <1>4, <2>1 DEF IInv, TypeOK, controllerVars, hidVars
<1>7. /\ \A k \in DOMAIN ffq' : ffq'[k].type \in Plays
      /\ ~reused => TablesAt(e)
      /\ (\A k \in DOMAIN ffq' : ffq'[k].type \notin Rumble)
           => \A k \in DOMAIN ffq : ffq[k].type \notin Rumble
  BY <1>1, TheRequest DEF Requests
<1> HIDE DEF e
<1>8. ASSUME ~reused PROVE effects' = uploaded /\ free' = Unused
  <2>1. /\ e.id \in Unused /\ free = Unused \ {e.id}
        /\ \A i \in Id \ {e.id} : effects[i] = uploaded[i]
    BY <1>2, <1>7, <1>8 DEF TablesAt
  <2>2. uploaded[e.id] = "none"
    BY <2>1 DEF Unused
  <2>3. \A i \in Id : effects'[i] = uploaded[i]
    BY <1>4, <1>5, <2>1, <2>2
  <2> QED
    BY <1>4, <1>5, <2>1, <2>3
<1>9. QuietOK' /\ WaitingOK'
  BY <1>4, <1>7, <1>8 DEF QuietOK, WaitingOK, Unused
<1>10. AskedOK'
  BY <1>1, <1>4, LastRumbleStays DEF IInv, AskedOK
<1>11. ChainOK' /\ WriteOK'
  BY <1>4, <1>7 DEF IInv, ChainOK, WriteOK, Latest, HidGone, hidVars, controllerVars
<1> QED
  BY <1>6, <1>9, <1>10, <1>11 DEF IInv

\* A play, repeated or not, or stop that is handled leaves every request where it was.
LEMMA RequestsStay ==
    ASSUME IInv, NEW type \in Plays, Handling(type),
           UNCHANGED <<effects, free, uploaded, request>>
    PROVE  QuietOK' /\ WaitingOK'
<1>1. /\ ffq[1].type = type
      /\ \A k \in DOMAIN ffq' : k \in Nat \ {0} /\ k + 1 \in DOMAIN ffq /\ ffq'[k] = ffq[k + 1]
      /\ \A k \in DOMAIN ffq \ {1} : k - 1 \in DOMAIN ffq' /\ ffq'[k - 1] = ffq[k]
  BY Handled
<1>2. UNCHANGED reused
  BY DEF Handling
<1>3. QuietOK'
  BY <1>1, <1>2 DEF IInv, QuietOK, Unused
<1>4. WaitingOK'
  <2> SUFFICES ASSUME request
               PROVE  \E k \in DOMAIN ffq' :
                        /\ ffq'[k].type \in Requests
                        /\ \A j \in DOMAIN ffq' \ {k} : ffq'[j].type \in Plays
                        /\ ~reused => TablesAt(ffq[k])'
    BY <1>2 DEF WaitingOK
  <2>1. PICK k \in DOMAIN ffq :
          /\ ffq[k].type \in Requests
          /\ \A j \in DOMAIN ffq \ {k} : ffq[j].type \in Plays
          /\ ~reused => TablesAt(ffq[k])
    BY DEF IInv, WaitingOK
  <2>2. k # 1 /\ k - 1 \in DOMAIN ffq' /\ ffq'[k - 1] = ffq[k]
    BY <1>1, <2>1 DEF Requests, Rumble, Plays
  <2>3. \A j \in DOMAIN ffq' \ {k - 1} : ffq'[j].type \in Plays
    <3> TAKE j \in DOMAIN ffq' \ {k - 1}
    <3>1. j + 1 \in DOMAIN ffq /\ j + 1 # k /\ ffq'[j] = ffq[j + 1]
      <4>1. ffq \in Seq(Event) /\ j \in Nat /\ k \in Nat
        BY <1>1, <2>1, Handled
      <4> QED
        BY <1>1, <4>1
    <3> QED
      BY <2>1, <3>1
  <2>4. ~reused => TablesAt(ffq[k - 1])'
    BY <2>1, <2>2 DEF TablesAt, Unused
  <2> QED
    BY <2>1, <2>2, <2>3, <2>4
<1> QED
  BY <1>3, <1>4

\* Sending keeps the queue's bound; with a listener, what is sent is the newest.
LEMMA SendRumbleOK ==
    ASSUME IInv, NEW c \in Cmd, SendRumble(c), UNCHANGED <<hid, cmd, motor>>
    PROVE  /\ rumbleQ' \in Seq(Cmd) /\ Len(rumbleQ') <= MaxQueue
           /\ sent' \in Cmd /\ main' \in MainAt
           /\ ~HidGone => Latest' = MotorAt(c)
<1>1. rumbleQ \in Seq(Cmd) /\ Len(rumbleQ) <= MaxQueue /\ sent \in Cmd /\ main \in MainAt
  BY DEF IInv, TypeOK
<1>2. CASE HidGone
  BY <1>1, <1>2 DEF SendRumble
<1>3. CASE ~HidGone
  <2>1. Room(rumbleQ, hid) /\ rumbleQ' = Append(rumbleQ, c) /\ main' = "notify" /\ sent' = c
    BY <1>3 DEF SendRumble
  <2>2. rumbleQ' \in Seq(Cmd) /\ Len(rumbleQ') <= MaxQueue
    BY <1>1, <2>1, SendFits
  <2>3. rumbleQ' # <<>> /\ rumbleQ'[Len(rumbleQ')] = c
    BY <1>1, <2>1
  <2> QED
    BY <2>1, <2>2, <2>3 DEF Latest, MainAt
<1> QED
  BY <1>2, <1>3

\* An effect whose erasure has not been asked for is in the daemon's table.
LEMMA InBothTables ==
    ASSUME IInv, ~reused, NEW i \in Id, uploaded[i] # "none"
    PROVE  effects[i] = uploaded[i]
<1>1. CASE ~request
  BY <1>1 DEF IInv, QuietOK
<1>2. CASE request
  <2>1. PICK k \in DOMAIN ffq : TablesAt(ffq[k])
    BY <1>2 DEF IInv, WaitingOK
  <2>2. CASE effects = uploaded
    BY <2>2
  <2>3. CASE ffq[k].id \in Unused /\ \A j \in Id \ {ffq[k].id} : effects[j] = uploaded[j]
    BY <2>3 DEF Unused
  <2> QED
    BY <2>1, <2>2, <2>3 DEF TablesAt
<1> QED
  BY <1>1, <1>2

\* The last play asks for what its effect is; it is sent to a listener.
LEMMA HandlePlayOK == IInv /\ HandlePlay => IInv'
<1> SUFFICES ASSUME IInv, HandlePlay PROVE IInv'
  OBVIOUS
<1> DEFINE e == ffq[1]
<1>1. Handling("play")
  BY DEF HandlePlay
<1>2. /\ ffq' \in Seq(Event) /\ left' \in 0 .. MaxEvents
      /\ left' <= Len(ffq') /\ Len(ffq') <= MaxEvents
      /\ e \in Event /\ e.type = "play" /\ Head(ffq) = e /\ 1 \in DOMAIN ffq
      /\ \A k \in DOMAIN ffq \ {1} : k - 1 \in DOMAIN ffq' /\ ffq'[k - 1] = ffq[k]
  BY <1>1, Handled
<1>3. e.id \in Id
  BY <1>2 DEF Event
<1>4. /\ UNCHANGED <<mready, last, pad, lost, reused, asked, calls, stateQ, stateEfd, rumbleEfd, shutdown>>
      /\ UNCHANGED <<controllerVars, hidVars, effects, free, uploaded, request>>
      /\ \/ effects[e.id] # "none" /\ SendRumble(effects[e.id])
         \/ effects[e.id] = "none" /\ UNCHANGED <<rumbleQ, main, sent>>
  BY <1>2 DEF HandlePlay, Handling
<1>5. effects[e.id] \in Kind \cup {"none"}
  BY <1>3 DEF IInv, TypeOK
<1> HIDE DEF e
<1>6. effects[e.id] # "none" =>
        /\ rumbleQ' \in Seq(Cmd) /\ Len(rumbleQ') <= MaxQueue /\ sent' \in Cmd /\ main' \in MainAt
        /\ ~HidGone => Latest' = effects[e.id]
  BY <1>4, <1>5, SendRumbleOK DEF Kind, Cmd, MotorAt, hidVars, controllerVars
<1>7. TypeOK'
  <2>1. rumbleQ' \in Seq(Cmd) /\ Len(rumbleQ') <= MaxQueue /\ sent' \in Cmd /\ main' \in MainAt
    BY <1>4, <1>6 DEF IInv, TypeOK
  <2> QED
    BY <1>2, <1>4, <2>1 DEF IInv, TypeOK, controllerVars, hidVars
<1>8. QuietOK' /\ WaitingOK'
  BY <1>1, <1>4, RequestsStay DEF Rumble, Plays
<1>9. AskedOK'
  BY <1>1, <1>4, LastRumbleStays DEF IInv, AskedOK
<1>10. ChainOK'
  <2> SUFFICES ASSUME ~reused, ~HidGone, \A k \in DOMAIN ffq' : ffq'[k].type \notin Rumble
               PROVE  Latest' = asked
    BY <1>4 DEF ChainOK, HidGone, hidVars
  <2>1. LastRumble(1)
    BY <1>2 DEF LastRumble, Rumble, e
  <2>2. uploaded[e.id] # "none" /\ asked = uploaded[e.id]
    BY <1>2, <2>1 DEF IInv, AskedOK, e
  <2>3. effects[e.id] = uploaded[e.id]
    BY <1>3, <2>2, InBothTables
  <2> QED
    BY <1>6, <2>2, <2>3
<1>11. WriteOK'
  BY <1>4 DEF IInv, WriteOK, hidVars
<1> QED
  BY <1>7, <1>8, <1>9, <1>10, <1>11 DEF IInv

LEMMA HandleStopOK == IInv /\ HandleStop => IInv'
<1> SUFFICES ASSUME IInv, HandleStop PROVE IInv'
  OBVIOUS
<1>1. Handling("stop")
  BY DEF HandleStop
<1>2. /\ ffq' \in Seq(Event) /\ left' \in 0 .. MaxEvents
      /\ left' <= Len(ffq') /\ Len(ffq') <= MaxEvents
      /\ ffq[1].type = "stop" /\ 1 \in DOMAIN ffq
      /\ \A k \in DOMAIN ffq \ {1} : k - 1 \in DOMAIN ffq' /\ ffq'[k - 1] = ffq[k]
  BY <1>1, Handled
<1>3. /\ UNCHANGED <<mready, last, pad, lost, reused, asked, calls, stateQ, stateEfd, rumbleEfd, shutdown>>
      /\ UNCHANGED <<controllerVars, hidVars, effects, free, uploaded, request>>
      /\ SendRumble("stop")
  BY DEF HandleStop, Handling
<1>4. /\ rumbleQ' \in Seq(Cmd) /\ Len(rumbleQ') <= MaxQueue /\ sent' \in Cmd /\ main' \in MainAt
      /\ ~HidGone => Latest' = "still"
  BY <1>3, SendRumbleOK DEF Cmd, MotorAt, hidVars, controllerVars
<1>5. TypeOK'
  BY <1>2, <1>3, <1>4 DEF IInv, TypeOK, controllerVars, hidVars
<1>6. QuietOK' /\ WaitingOK'
  BY <1>1, <1>3, RequestsStay DEF Rumble, Plays
<1>7. AskedOK'
  BY <1>1, <1>3, LastRumbleStays DEF IInv, AskedOK
<1>8. ChainOK'
  <2> SUFFICES ASSUME ~reused, ~HidGone, \A k \in DOMAIN ffq' : ffq'[k].type \notin Rumble
               PROVE  Latest' = asked
    BY <1>3 DEF ChainOK, HidGone, hidVars
  <2>1. LastRumble(1)
    BY <1>2 DEF LastRumble, Rumble
  <2>2. asked = "still"
    BY <1>2, <2>1 DEF IInv, AskedOK
  <2> QED
    BY <1>4, <2>2
<1>9. WriteOK'
  BY <1>3 DEF IInv, WriteOK, hidVars
<1> QED
  BY <1>5, <1>6, <1>7, <1>8, <1>9 DEF IInv

\* A play with a repeat count is taken off the queue and that is all.
LEMMA HandleRepeatOK == IInv /\ HandleRepeat => IInv'
<1> SUFFICES ASSUME IInv, HandleRepeat PROVE IInv'
  OBVIOUS
<1>1. Handling("repeat")
  BY DEF HandleRepeat
<1>2. /\ ffq' \in Seq(Event) /\ left' \in 0 .. MaxEvents
      /\ left' <= Len(ffq') /\ Len(ffq') <= MaxEvents
      /\ ffq[1].type = "repeat" /\ 1 \in DOMAIN ffq
      /\ \A k \in DOMAIN ffq \ {1} : k - 1 \in DOMAIN ffq' /\ ffq'[k - 1] = ffq[k]
  BY <1>1, Handled
<1>3. /\ UNCHANGED <<mready, last, pad, lost, reused, asked, calls, stateQ, stateEfd, rumbleEfd, shutdown>>
      /\ UNCHANGED <<controllerVars, hidVars, main, sent, rumbleQ, effects, free, uploaded, request>>
  BY DEF HandleRepeat, Handling
<1>4. TypeOK'
  BY <1>2, <1>3 DEF IInv, TypeOK, controllerVars, hidVars
<1>5. QuietOK' /\ WaitingOK'
  BY <1>1, <1>3, RequestsStay DEF Plays
<1>6. AskedOK'
  BY <1>1, <1>3, LastRumbleStays DEF IInv, AskedOK
<1>7. ChainOK' /\ WriteOK'
  <2>1. (\A k \in DOMAIN ffq' : ffq'[k].type \notin Rumble)
          => \A k \in DOMAIN ffq : ffq[k].type \notin Rumble
    BY <1>2 DEF Rumble
  <2> QED
    BY <1>3, <2>1 DEF IInv, ChainOK, WriteOK, Latest, HidGone, hidVars, controllerVars
<1> QED
  BY <1>4, <1>5, <1>6, <1>7 DEF IInv

---------------------------------------------------------------------------
(* What games ask for.                                                      *)

\* What is posted stands behind what was in the queue.
LEMMA Posted ==
    ASSUME IInv, NEW events \in Seq(Event), Post(events)
    PROVE  /\ ffq' \in Seq(Event) /\ left <= Len(ffq') /\ Len(ffq') <= MaxEvents
           /\ calls' \in 0 .. MaxCalls /\ Len(ffq) \in Nat
           /\ \A k \in DOMAIN ffq : k \in DOMAIN ffq' /\ k \in 1 .. Len(ffq) /\ ffq'[k] = ffq[k]
           /\ \A k \in DOMAIN ffq' : k \in DOMAIN ffq \/ k - Len(ffq) \in DOMAIN events
           /\ \A k \in DOMAIN events :
                 Len(ffq) + k \in DOMAIN ffq' /\ ffq'[Len(ffq) + k] = events[k]
           /\ UNCHANGED <<controllerVars, hidVars, channelVars, mainVars, pad, lost>>
<1>1. /\ ffq \in Seq(Event) /\ left \in 0 .. MaxEvents /\ left <= Len(ffq)
      /\ Len(ffq) + Len(events) <= MaxEvents /\ ffq' = ffq \o events
      /\ calls \in 0 .. MaxCalls /\ calls < MaxCalls /\ calls' = calls + 1
  BY DEF IInv, TypeOK, Post
<1>2. ffq' \in Seq(Event) /\ Len(ffq') = Len(ffq) + Len(events)
  BY <1>1
<1>3. \A k \in 1 .. Len(ffq') :
        ffq'[k] = IF k <= Len(ffq) THEN ffq[k] ELSE events[k - Len(ffq)]
  BY <1>1
<1>4. Len(ffq) \in Nat /\ Len(events) \in Nat /\ left <= Len(ffq') /\ calls' \in 0 .. MaxCalls
  BY <1>1, <1>2
<1>5. DOMAIN ffq = 1 .. Len(ffq) /\ DOMAIN ffq' = 1 .. Len(ffq') /\ DOMAIN events = 1 .. Len(events)
  BY <1>1, <1>2
<1> QED
  BY <1>1, <1>2, <1>3, <1>4, <1>5 DEF Post

LEMMA PostedTypeOK ==
    ASSUME IInv, NEW events \in Seq(Event), Post(events),
           request' \in BOOLEAN, reused' \in BOOLEAN, asked' \in Kind,
           uploaded' \in [Id -> Kind \cup {"none"}]
    PROVE  TypeOK' /\ WriteOK' /\ UNCHANGED <<hid, effects, free, rumbleQ, cmd, motor>>
<1>1. /\ ffq' \in Seq(Event) /\ left <= Len(ffq') /\ Len(ffq') <= MaxEvents
      /\ calls' \in 0 .. MaxCalls
      /\ UNCHANGED <<controllerVars, hidVars, channelVars, mainVars, pad, lost>>
  BY Posted
<1> QED
  BY <1>1 DEF IInv, TypeOK, WriteOK, controllerVars, hidVars, channelVars, mainVars

\* The kernel gives a new effect the lowest id it does not use.
LEMMA UploadOK == ASSUME IInv, NEW i \in Id, NEW kind \in Kind, Upload(i, kind) PROVE IInv'
<1> DEFINE e == [type |-> "upload", id |-> i, kind |-> kind]
<1>0. PICK n \in Nat : n = Len(ffq) + 1
  BY DEF IInv, TypeOK
<1>1. e \in Event /\ <<e>> \in Seq(Event) /\ e.type = "upload" /\ e.id = i
  BY DEF Event
<1>2. /\ ~request /\ request' = TRUE /\ UNCHANGED <<uploaded, asked>> /\ Post(<<e>>)
      /\ reused' = (reused \/ i \notin Unused) /\ (i \in Unused => i = Min(Unused))
  BY DEF Upload
<1> HIDE DEF e
<1>3. TypeOK' /\ WriteOK' /\ UNCHANGED <<hid, effects, free, rumbleQ, cmd, motor>>
  BY <1>1, <1>2, PostedTypeOK DEF IInv, TypeOK
<1>4. /\ Len(ffq) \in Nat /\ n \in DOMAIN ffq' /\ ffq'[n] = e
      /\ \A k \in DOMAIN ffq : k \in DOMAIN ffq' /\ k \in 1 .. Len(ffq) /\ ffq'[k] = ffq[k]
      /\ \A k \in DOMAIN ffq' : k \in DOMAIN ffq \/ k = n
  <2>1. DOMAIN <<e>> = {1} /\ <<e>>[1] = e
    OBVIOUS
  <2>2. /\ Len(ffq) \in Nat
        /\ \A k \in DOMAIN ffq : k \in DOMAIN ffq' /\ k \in 1 .. Len(ffq) /\ ffq'[k] = ffq[k]
        /\ \A k \in DOMAIN ffq' : k \in DOMAIN ffq \/ k - Len(ffq) \in DOMAIN <<e>>
        /\ \A k \in DOMAIN <<e>> :
              Len(ffq) + k \in DOMAIN ffq' /\ ffq'[Len(ffq) + k] = <<e>>[k]
        /\ ffq' \in Seq(Event)
    BY <1>1, <1>2, Posted
  <2>3. \A k \in DOMAIN ffq' : k \in Nat
    BY <2>2
  <2> QED
    BY <1>0, <2>1, <2>2, <2>3
<1>5. QuietOK'
  BY <1>2 DEF QuietOK
<1>6. ~reused' => TablesAt(e)'
  BY <1>1, <1>2, <1>3 DEF IInv, QuietOK, TablesAt, Unused
<1>7. WaitingOK'
  <2>1. \A k \in DOMAIN ffq' \ {n} : ffq'[k].type \in Plays
    BY <1>2, <1>4 DEF IInv, QuietOK
  <2>2. ~reused' => TablesAt(ffq[n])'
    BY <1>4, <1>6 DEF TablesAt
  <2> QED
    BY <1>1, <1>4, <2>1, <2>2 DEF WaitingOK, Requests
<1>8. AskedOK'
  <2> SUFFICES ASSUME ~reused, NEW k \in DOMAIN ffq', LastRumble(k)'
               PROVE  \/ ffq'[k].type = "stop" /\ asked = "still"
                      \/ /\ ffq'[k].type = "play" /\ uploaded[ffq'[k].id] # "none"
                         /\ asked = uploaded[ffq'[k].id]
    BY <1>2 DEF AskedOK
  <2>1. k \in DOMAIN ffq /\ ffq'[k] = ffq[k]
    BY <1>1, <1>4 DEF LastRumble, Rumble
  <2>2. LastRumble(k)
    BY <1>4, <2>1 DEF LastRumble
  <2> QED
    BY <2>1, <2>2 DEF IInv, AskedOK
<1>9. ChainOK'
  BY <1>2, <1>3, <1>4 DEF IInv, ChainOK, HidGone, Latest
<1> QED
  BY <1>3, <1>5, <1>7, <1>8, <1>9 DEF IInv

\* An effect that is erased is stopped first.
LEMMA EraseOK == ASSUME IInv, NEW i \in Id, Erase(i) PROVE IInv'
<1> DEFINE stop == Ev("stop", i)
           erase == Ev("erase", i)
<1>0. PICK n \in Nat : n = Len(ffq) + 1
  BY DEF IInv, TypeOK
<1>1. /\ stop \in Event /\ erase \in Event /\ <<stop, erase>> \in Seq(Event)
      /\ stop.type = "stop" /\ erase.type = "erase" /\ erase.id = i
  BY DEF Event, Ev
<1>2. /\ ~request /\ i \notin Unused /\ request' = TRUE /\ asked' = "still" /\ UNCHANGED reused
      /\ Post(<<stop, erase>>) /\ uploaded' = [uploaded EXCEPT ![i] = "none"]
  BY DEF Erase
<1> HIDE DEF stop, erase
<1>3. uploaded \in [Id -> Kind \cup {"none"}]
  BY DEF IInv, TypeOK
<1>4. TypeOK' /\ WriteOK' /\ UNCHANGED <<hid, effects, free, rumbleQ, cmd, motor>>
  BY <1>1, <1>2, <1>3, PostedTypeOK DEF IInv, TypeOK, Kind
<1>5. /\ Len(ffq) \in Nat /\ n \in DOMAIN ffq' /\ ffq'[n] = stop
      /\ n + 1 \in DOMAIN ffq' /\ ffq'[n + 1] = erase
      /\ \A k \in DOMAIN ffq : k \in DOMAIN ffq' /\ k \in 1 .. Len(ffq) /\ ffq'[k] = ffq[k]
      /\ \A k \in DOMAIN ffq' : k \in DOMAIN ffq \/ k = n \/ k = n + 1
  <2>1. DOMAIN <<stop, erase>> = {1, 2} /\ <<stop, erase>>[1] = stop /\ <<stop, erase>>[2] = erase
    OBVIOUS
  <2>2. /\ Len(ffq) \in Nat
        /\ \A k \in DOMAIN ffq : k \in DOMAIN ffq' /\ k \in 1 .. Len(ffq) /\ ffq'[k] = ffq[k]
        /\ \A k \in DOMAIN ffq' : k \in DOMAIN ffq \/ k - Len(ffq) \in DOMAIN <<stop, erase>>
        /\ \A k \in DOMAIN <<stop, erase>> :
              Len(ffq) + k \in DOMAIN ffq' /\ ffq'[Len(ffq) + k] = <<stop, erase>>[k]
        /\ ffq' \in Seq(Event)
    BY <1>1, <1>2, Posted
  <2>3. \A k \in DOMAIN ffq' : k \in Nat
    BY <2>2
  <2>4. 1 + Len(ffq) = n /\ 2 + Len(ffq) = n + 1
    BY <1>0, <2>2
  <2> QED
    BY <2>1, <2>2, <2>3, <2>4
<1>6. \A k \in DOMAIN ffq : n > k
  BY <1>0, <1>5
<1>7. n + 1 # n
  BY <1>5
<1>8. QuietOK'
  BY <1>2 DEF QuietOK
<1>9. ~reused => TablesAt(erase)'
  <2> SUFFICES ASSUME ~reused PROVE TablesAt(erase)'
    OBVIOUS
  <2>1. effects = uploaded /\ free = Unused /\ uploaded[i] # "none"
    BY <1>2 DEF IInv, QuietOK, Unused
  <2>2. i \in Unused' /\ Unused = Unused' \ {i}
    BY <1>2, <1>3, <2>1 DEF Unused
  <2>3. \A j \in Id \ {i} : uploaded'[j] = uploaded[j]
    BY <1>2, <1>3
  <2> QED
    BY <1>1, <1>4, <2>1, <2>2, <2>3 DEF TablesAt
<1>10. WaitingOK'
  <2>1. \A k \in DOMAIN ffq' \ {n + 1} : ffq'[k].type \in Plays
    BY <1>1, <1>2, <1>5 DEF IInv, QuietOK, Rumble, Plays
  <2>2. ~reused' => TablesAt(ffq[n + 1])'
    BY <1>2, <1>5, <1>9 DEF TablesAt
  <2> QED
    BY <1>1, <1>5, <2>1, <2>2 DEF WaitingOK, Requests
<1>11. AskedOK'
  <2> SUFFICES ASSUME NEW k \in DOMAIN ffq', LastRumble(k)' PROVE ffq'[k].type = "stop"
    BY <1>2 DEF AskedOK
  <2>1. k \notin DOMAIN ffq
    BY <1>1, <1>5, <1>6 DEF LastRumble, Rumble
  <2>2. k # n + 1
    BY <1>1, <1>5 DEF LastRumble, Rumble
  <2> QED
    BY <1>1, <1>5, <2>1, <2>2
<1>12. ChainOK'
  BY <1>1, <1>5 DEF ChainOK, Rumble
<1> QED
  BY <1>4, <1>8, <1>10, <1>11, <1>12 DEF IInv

\* A play or a stop becomes the last that was asked for.
LEMMA PlayStopOK == ASSUME IInv, NEW i \in Id, Play(i) \/ Stop(i) PROVE IInv'
<1>1. PICK t \in Rumble :
        /\ Post(<<Ev(t, i)>>) /\ i \notin Unused /\ UNCHANGED <<uploaded, request, reused>>
        /\ \/ t = "play" /\ asked' = uploaded[i]
           \/ t = "stop" /\ asked' = "still"
  BY DEF Play, Stop, Rumble
<1> DEFINE e == Ev(t, i)
<1>0. PICK n \in Nat : n = Len(ffq) + 1
  BY DEF IInv, TypeOK
<1>2. e \in Event /\ <<e>> \in Seq(Event) /\ e.type = t /\ e.id = i
  BY DEF Event, Ev, Rumble
<1>3. Post(<<e>>)
  BY <1>1
<1> HIDE DEF e
<1>4. uploaded \in [Id -> Kind \cup {"none"}] /\ uploaded[i] \in Kind
  BY <1>1 DEF IInv, TypeOK, Unused
<1>5. TypeOK' /\ WriteOK' /\ UNCHANGED <<hid, effects, free, rumbleQ, cmd, motor>>
  BY <1>1, <1>2, <1>3, <1>4, PostedTypeOK DEF IInv, TypeOK, Kind
<1>6. /\ Len(ffq) \in Nat /\ n \in DOMAIN ffq' /\ ffq'[n] = e
      /\ \A k \in DOMAIN ffq : k \in DOMAIN ffq' /\ k \in 1 .. Len(ffq) /\ ffq'[k] = ffq[k]
      /\ \A k \in DOMAIN ffq' : k \in DOMAIN ffq \/ k = n
  <2>1. DOMAIN <<e>> = {1} /\ <<e>>[1] = e
    OBVIOUS
  <2>2. /\ Len(ffq) \in Nat
        /\ \A k \in DOMAIN ffq : k \in DOMAIN ffq' /\ k \in 1 .. Len(ffq) /\ ffq'[k] = ffq[k]
        /\ \A k \in DOMAIN ffq' : k \in DOMAIN ffq \/ k - Len(ffq) \in DOMAIN <<e>>
        /\ \A k \in DOMAIN <<e>> :
              Len(ffq) + k \in DOMAIN ffq' /\ ffq'[Len(ffq) + k] = <<e>>[k]
        /\ ffq' \in Seq(Event)
    BY <1>2, <1>3, Posted
  <2>3. \A k \in DOMAIN ffq' : k \in Nat
    BY <2>2
  <2> QED
    BY <1>0, <2>1, <2>2, <2>3
<1>7. \A k \in DOMAIN ffq : n > k
  BY <1>0, <1>6
<1>8. QuietOK'
  BY <1>1, <1>2, <1>5, <1>6 DEF IInv, QuietOK, Unused, Plays
<1>9. WaitingOK'
  <2> SUFFICES ASSUME request
               PROVE  \E k \in DOMAIN ffq' :
                        /\ ffq'[k].type \in Requests
                        /\ \A j \in DOMAIN ffq' \ {k} : ffq'[j].type \in Plays
                        /\ ~reused => TablesAt(ffq[k])'
    BY <1>1 DEF WaitingOK
  <2>1. PICK k \in DOMAIN ffq :
          /\ ffq[k].type \in Requests
          /\ \A j \in DOMAIN ffq \ {k} : ffq[j].type \in Plays
          /\ ~reused => TablesAt(ffq[k])
    BY DEF IInv, WaitingOK
  <2>2. k \in DOMAIN ffq' /\ ffq'[k] = ffq[k]
    BY <1>6, <2>1
  <2>3. \A j \in DOMAIN ffq' \ {k} : ffq'[j].type \in Plays
    BY <1>2, <1>6, <2>1 DEF Plays
  <2>4. ~reused => TablesAt(ffq[k])'
    BY <1>1, <1>5, <2>1, <2>2 DEF TablesAt, Unused
  <2> QED
    BY <2>1, <2>2, <2>3, <2>4
<1>10. AskedOK'
  <2> SUFFICES ASSUME NEW k \in DOMAIN ffq', LastRumble(k)'
               PROVE  \/ ffq'[k].type = "stop" /\ asked' = "still"
                      \/ /\ ffq'[k].type = "play" /\ uploaded'[ffq'[k].id] # "none"
                         /\ asked' = uploaded'[ffq'[k].id]
    BY DEF AskedOK
  <2>1. k = n
    BY <1>2, <1>6, <1>7 DEF LastRumble
  <2> QED
    BY <1>1, <1>2, <1>4, <1>6, <2>1 DEF Kind
<1>11. ChainOK'
  BY <1>2, <1>6 DEF ChainOK
<1> QED
  BY <1>5, <1>8, <1>9, <1>10, <1>11 DEF IInv

\* A play with a repeat count changes nothing of what was asked for.
LEMMA RepeatOK == ASSUME IInv, NEW i \in Id, Repeat(i) PROVE IInv'
<1>1. Post(<<Ev("repeat", i)>>) /\ UNCHANGED <<uploaded, request, reused, asked>>
  BY DEF Repeat
<1> DEFINE e == Ev("repeat", i)
<1>0. PICK n \in Nat : n = Len(ffq) + 1
  BY DEF IInv, TypeOK
<1>2. e \in Event /\ <<e>> \in Seq(Event) /\ e.type = "repeat"
  BY DEF Event, Ev
<1>3. Post(<<e>>)
  BY <1>1
<1> HIDE DEF e
<1>5. TypeOK' /\ WriteOK' /\ UNCHANGED <<hid, effects, free, rumbleQ, cmd, motor>>
  BY <1>1, <1>2, <1>3, PostedTypeOK DEF IInv, TypeOK
<1>6. /\ Len(ffq) \in Nat /\ n \in DOMAIN ffq' /\ ffq'[n] = e
      /\ \A k \in DOMAIN ffq : k \in DOMAIN ffq' /\ k \in 1 .. Len(ffq) /\ ffq'[k] = ffq[k]
      /\ \A k \in DOMAIN ffq' : k \in DOMAIN ffq \/ k = n
  <2>1. DOMAIN <<e>> = {1} /\ <<e>>[1] = e
    OBVIOUS
  <2>2. /\ Len(ffq) \in Nat
        /\ \A k \in DOMAIN ffq : k \in DOMAIN ffq' /\ k \in 1 .. Len(ffq) /\ ffq'[k] = ffq[k]
        /\ \A k \in DOMAIN ffq' : k \in DOMAIN ffq \/ k - Len(ffq) \in DOMAIN <<e>>
        /\ \A k \in DOMAIN <<e>> :
              Len(ffq) + k \in DOMAIN ffq' /\ ffq'[Len(ffq) + k] = <<e>>[k]
        /\ ffq' \in Seq(Event)
    BY <1>2, <1>3, Posted
  <2>3. \A k \in DOMAIN ffq' : k \in Nat
    BY <2>2
  <2> QED
    BY <1>0, <2>1, <2>2, <2>3
<1>8. QuietOK'
  BY <1>1, <1>2, <1>5, <1>6 DEF IInv, QuietOK, Unused, Plays
<1>9. WaitingOK'
  <2> SUFFICES ASSUME request
               PROVE  \E k \in DOMAIN ffq' :
                        /\ ffq'[k].type \in Requests
                        /\ \A j \in DOMAIN ffq' \ {k} : ffq'[j].type \in Plays
                        /\ ~reused => TablesAt(ffq[k])'
    BY <1>1 DEF WaitingOK
  <2>1. PICK k \in DOMAIN ffq :
          /\ ffq[k].type \in Requests
          /\ \A j \in DOMAIN ffq \ {k} : ffq[j].type \in Plays
          /\ ~reused => TablesAt(ffq[k])
    BY DEF IInv, WaitingOK
  <2>2. k \in DOMAIN ffq' /\ ffq'[k] = ffq[k]
    BY <1>6, <2>1
  <2>3. \A j \in DOMAIN ffq' \ {k} : ffq'[j].type \in Plays
    BY <1>2, <1>6, <2>1 DEF Plays
  <2>4. ~reused => TablesAt(ffq[k])'
    BY <1>1, <1>5, <2>1, <2>2 DEF TablesAt, Unused
  <2> QED
    BY <2>1, <2>2, <2>3, <2>4
<1>10. AskedOK'
  <2> SUFFICES ASSUME ~reused, NEW k \in DOMAIN ffq', LastRumble(k)'
               PROVE  \/ ffq'[k].type = "stop" /\ asked = "still"
                      \/ /\ ffq'[k].type = "play" /\ uploaded[ffq'[k].id] # "none"
                         /\ asked = uploaded[ffq'[k].id]
    BY <1>1 DEF AskedOK
  <2>1. k \in DOMAIN ffq /\ ffq'[k] = ffq[k]
    BY <1>2, <1>6 DEF LastRumble, Rumble
  <2>2. LastRumble(k)
    BY <1>6, <2>1 DEF LastRumble
  <2> QED
    BY <2>1, <2>2 DEF IInv, AskedOK
<1>11. ChainOK'
  BY <1>1, <1>5, <1>6 DEF IInv, ChainOK, HidGone, Latest
<1> QED
  BY <1>5, <1>8, <1>9, <1>10, <1>11 DEF IInv

---------------------------------------------------------------------------
(* The theorems.                                                            *)

LEMMA NextIInv == IInv /\ [Next]_vars => IInv'
<1> SUFFICES ASSUME IInv, [Next]_vars PROVE IInv'
  OBVIOUS
<1>1. CASE Environment
  <2>1. CASE (\E b \in Button : Hold(b)) \/ SendReport \/ Unplug
    BY <2>1, ControllerOK
  <2>2. CASE MainFails
    BY <2>2, MainLoopOK
  <2>3. ASSUME NEW i \in Id, Erase(i) PROVE IInv'
    BY <2>3, EraseOK
  <2>4. ASSUME NEW i \in Id, Play(i) \/ Stop(i) PROVE IInv'
    BY <2>4, PlayStopOK
  <2>6. ASSUME NEW i \in Id, Repeat(i) PROVE IInv'
    BY <2>6, RepeatOK
  <2>5. ASSUME NEW i \in Id, NEW k \in Kind, Upload(i, k) PROVE IInv'
    BY <2>5, UploadOK
  <2> QED
    BY <1>1, <2>1, <2>2, <2>3, <2>4, <2>5, <2>6 DEF Environment
<1>2. CASE HidStep
  BY <1>2, HidInputOK, HidRumbleOK DEF HidStep
<1>3. CASE MainWorks
  BY <1>3, MainLoopOK, HandleUploadOK, HandleEraseOK, HandlePlayOK, HandleRepeatOK,
     HandleStopOK DEF MainWorks
<1>4. CASE UNCHANGED vars
  <2>1. UNCHANGED rumbleVars /\ UNCHANGED hid
    BY <1>4 DEF vars, controllerVars, hidVars, channelVars, mainVars, kernelVars, padVars, rumbleVars
  <2>2. TypeOK'
    BY <1>4 DEF IInv, TypeOK, vars, controllerVars, hidVars, channelVars, mainVars, kernelVars, padVars
  <2> QED
    BY <2>1, <2>2, Unrelated DEF HidGone
<1> QED
  BY <1>1, <1>2, <1>3, <1>4 DEF Next

\* Whatever the player, games and failures do: the inductive invariant.
THEOREM SpecIInv == Spec => []IInv
<1>1. Init => IInv
  BY InitIInv
<1>2. IInv /\ [Next]_vars => IInv'
  BY NextIInv
<1> QED
  BY <1>1, <1>2, PTL DEF Spec

\* Threads, queues and tables keep their types and bounds (bridge.rs, poll.rs).
THEOREM SpecTypeOK == Spec => []TypeOK
<1>1. IInv => TypeOK
  BY DEF IInv
<1> QED
  BY <1>1, SpecIInv, PTL

\* The daemon and the kernel choose the same ids until an effect is uploaded
\* again (bridge.rs:250-266).
THEOREM SpecEffectsAgree == Spec => []EffectsAgree
<1>1. IInv => EffectsAgree
  BY DEF IInv, QuietOK, EffectsAgree
<1> QED
  BY <1>1, SpecIInv, PTL

\* The motor ends where games left it, whatever was coalesced on the way
\* (bridge.rs:181-196, 244-286).
THEOREM SpecMotorObeys == Spec => []MotorObeys
<1>1. IInv => MotorObeys
  <2> SUFFICES ASSUME IInv, ffq = <<>>, rumbleQ = <<>>, cmd = "none", ~HidGone, ~reused
               PROVE  motor = asked
    BY DEF MotorObeys
  <2>1. \A k \in DOMAIN ffq : FALSE
    OBVIOUS
  <2>2. Latest = motor
    BY DEF Latest
  <2> QED
    BY <2>1, <2>2 DEF IInv, ChainOK
<1> QED
  BY <1>1, SpecIInv, PTL
===========================================================================
