---------------------------- MODULE PromptHub ----------------------------
(* How var-disk-managerd asks its operators: one daemon, any number of      *)
(* terminal clients, one Unix socket (daemon.rs "UI hub" and "socket        *)
(* server", tui.rs run_tui).                                                *)
(*                                                                          *)
(* The daemon's main task posts one prompt at a time in its snapshot and    *)
(* polls an unbounded channel of submissions.  For each client a writer     *)
(* task sends the newest snapshot (a watch channel keeps the latest only)   *)
(* and a reader task forwards what the client submits.  A client handles    *)
(* snapshots and keys in whatever order its select! picks them, so what its *)
(* operator sees may be behind what the daemon asks, and a key may be       *)
(* handled under another prompt than the one it was pressed under.          *)
EXTENDS Naturals, Sequences, SequencesExt

CONSTANTS
    Client,      \* connections; a client that returns is another connection
    Keys,        \* the keys the operator of each connection presses
    MaxPrompts,  \* bound: prompts the daemon posts
    MaxKeys,     \* bound: keys pressed on each connection
    WireCap      \* bound: unread snapshots one socket holds

KeyCodes == {"y", "n", "x", "enter", "back"}   \* "x": any other character

ASSUME KeysAssumption == Keys \in [Client -> SUBSET KeyCodes]
ASSUME BoundsAssumption ==
    MaxPrompts \in Nat /\ MaxKeys \in [Client -> Nat] /\ WireCap \in Nat \ {0}

VARIABLES
    main,     \* the daemon's main task: at work, asking, asking again, or exited
    posted,   \* next_prompt_id
    prompt,   \* snapshot.prompt, as mutate last published it
    inbox,    \* the submissions channel
    taken,    \* history: the prompt answered last and the answer ask returned
    conn,     \* state of each connection, as its client sees it
    writer,   \* serve_client: off, due to send a snapshot, or waiting for a change
    wire,     \* snapshots on their way to the client
    pipe,     \* submissions on their way to the daemon
    screen,   \* app.snap.prompt, the prompt the client shows
    keys,     \* pressed keys the client has not handled
    input,    \* app.input
    pressed   \* how many keys were pressed on the connection

daemonVars == <<main, posted, prompt, inbox, taken>>
linkVars   == <<conn, writer, wire, pipe>>
tuiVars    == <<screen, keys, input, pressed>>
vars       == <<daemonVars, linkVars, tuiVars>>

NoPrompt == [id |-> 0, kind |-> "none"]
NoSubmission == [id |-> 0, value |-> <<>>, shown |-> NoPrompt]
NothingTaken == [prompt |-> NoPrompt, answer |-> NoSubmission]
Prompts  == [id : Nat, kind : {"none", "passphrase", "confirm"}]

\* A pressed key, with the prompts shown when it was pressed and when it was
\* handled (0 until then).
Stroke == [key : KeyCodes, on : Nat, read : Nat]

\* ClientMsg::Submit, with the prompt that was on the submitting screen.
Submission == [id : Nat, value : Seq(Stroke), shown : Prompts]

TypeOK ==
    /\ main \in {"work", "ask", "again", "exited"}
    /\ posted \in Nat
    /\ prompt \in Prompts
    /\ main = "ask" <=> prompt # NoPrompt
    /\ inbox \in Seq(Submission)
    /\ taken \in [prompt : Prompts, answer : Submission]
    /\ conn \in [Client -> {"away", "open", "gone", "left"}]
    /\ writer \in [Client -> {"off", "due", "idle"}]
    /\ wire \in [Client -> Seq(Prompts)]
    /\ pipe \in [Client -> Seq(Submission)]
    /\ screen \in [Client -> Prompts]
    /\ keys \in [Client -> Seq(Stroke)]
    /\ input \in [Client -> Seq(Stroke)]
    /\ pressed \in [Client -> Nat]

Init ==
    /\ main = "work" /\ posted = 0 /\ prompt = NoPrompt
    /\ inbox = <<>> /\ taken = NothingTaken
    /\ conn = [c \in Client |-> "away"]
    /\ writer = [c \in Client |-> "off"]
    /\ wire = [c \in Client |-> <<>>]
    /\ pipe = [c \in Client |-> <<>>]
    /\ screen = [c \in Client |-> NoPrompt]
    /\ keys = [c \in Client |-> <<>>]
    /\ input = [c \in Client |-> <<>>]
    /\ pressed = [c \in Client |-> 0]

---------------------------------------------------------------------------
(* The daemon's main task.                                                  *)

\* Mutant: the snapshot changes but is not sent to the watch channel.
Published_NotSent == writer

\* The new snapshot goes to the watch channel, which wakes every writer that
\* waits in rx.changed().
Published == [c \in Client |-> IF writer[c] = "idle" THEN "due" ELSE writer[c]]

mutate(p) == prompt' = p /\ writer' = Published

\* ask: a fresh id, posted under a new snapshot.  ask_confirm repeats the
\* question when the answer before was neither yes nor no.
Ask(kind) ==
    /\ main \in {"work", "again"}
    /\ main = "again" => kind = "confirm"
    /\ posted < MaxPrompts
    /\ main' = "ask"
    /\ posted' = posted + 1
    /\ mutate([id |-> posted + 1, kind |-> kind])
    /\ UNCHANGED <<inbox, taken, conn, wire, pipe, tuiVars>>

\* Everything else the daemon puts in its snapshot: progress, messages, the
\* host key, the keepalive of a blocked boot.
Report ==
    /\ main # "exited"
    /\ mutate(prompt)
    /\ UNCHANGED <<main, posted, inbox, taken, conn, wire, pipe, tuiVars>>

\* parse_confirm: a lone y or n; anything else is no decision.
Decides(value) == Len(value) = 1 /\ value[1].key \in {"y", "n"}

\* Mutant: the first answer from any client is taken, whatever it answers.
Answers_Any(m) == TRUE

\* Does the submission answer the prompt that is up?
Answers(m) == m.id = prompt.id

\* ask takes its prompt down before it returns.
PromptAfterAnswer == NoPrompt

\* ask's poll of the channel takes the answer it waits for ...
TakeAnswer ==
    /\ main = "ask" /\ inbox # <<>> /\ Answers(Head(inbox))
    /\ taken' = [prompt |-> prompt, answer |-> Head(inbox)]
    /\ main' = IF prompt.kind = "confirm" /\ ~Decides(Head(inbox).value)
                 THEN "again" ELSE "work"
    /\ inbox' = Tail(inbox)
    /\ mutate(PromptAfterAnswer)
    /\ UNCHANGED <<posted, conn, wire, pipe, tuiVars>>

\* Mutant: a stale answer ends the poll instead of being skipped.
DropStale_Stuck ==
    /\ main = "ask" /\ inbox # <<>> /\ ~Answers(Head(inbox))
    /\ UNCHANGED vars

\* ... and drops every answer to an older prompt.
DropStale ==
    /\ main = "ask" /\ inbox # <<>> /\ ~Answers(Head(inbox))
    /\ inbox' = Tail(inbox)
    /\ UNCHANGED <<main, posted, prompt, taken, linkVars, tuiVars>>

\* The process ends: boot released, a failure between prompts, or a kill.
\* Every task of the runtime ends with it; what it wrote stays in the sockets.
Exit ==
    /\ main # "exited"
    /\ main' = "exited"
    /\ posted' = 0 /\ prompt' = NoPrompt /\ inbox' = <<>> /\ taken' = NothingTaken
    /\ writer' = [c \in Client |-> "off"]
    /\ pipe' = [c \in Client |-> <<>>]
    /\ UNCHANGED <<conn, wire, tuiVars>>

---------------------------------------------------------------------------
(* serve_client: one writer and one reader task per connection.             *)

\* Accepting starts the writer with the snapshot of that moment.
Connect(c) ==
    /\ conn[c] = "away" /\ main # "exited"
    /\ conn' = [conn EXCEPT ![c] = "open"]
    /\ writer' = [writer EXCEPT ![c] = "due"]
    /\ UNCHANGED <<daemonVars, wire, pipe, tuiVars>>

\* borrow_and_update takes the newest snapshot, whatever was skipped.
SendSnapshot(c) ==
    /\ writer[c] = "due" /\ conn[c] = "open" /\ Len(wire[c]) < WireCap
    /\ wire' = [wire EXCEPT ![c] = Append(@, prompt)]
    /\ writer' = [writer EXCEPT ![c] = "idle"]
    /\ UNCHANGED <<daemonVars, conn, pipe, tuiVars>>

\* The write fails: the task ends and aborts its reader, and submissions the
\* reader had not forwarded are lost.
HangUp(c) ==
    /\ writer[c] = "due" /\ conn[c] # "open"
    /\ writer' = [writer EXCEPT ![c] = "off"]
    /\ pipe' = [pipe EXCEPT ![c] = <<>>]
    /\ UNCHANGED <<daemonVars, conn, wire, tuiVars>>

ForwardSubmission(c) ==
    /\ writer[c] # "off" /\ pipe[c] # <<>>
    /\ inbox' = Append(inbox, Head(pipe[c]))
    /\ pipe' = [pipe EXCEPT ![c] = Tail(@)]
    /\ UNCHANGED <<main, posted, prompt, taken, conn, writer, wire, tuiVars>>

---------------------------------------------------------------------------
(* The terminal client.                                                     *)

\* Mutant: the half-typed input survives the new prompt.
InputAfter_Kept(c, p) == input[c]

\* A new prompt invalidates half-typed input for an old one.
InputAfter(c, p) == IF p.id # screen[c].id THEN <<>> ELSE input[c]

ReceiveSnapshot(c) ==
    /\ conn[c] = "open" /\ wire[c] # <<>>
    /\ input' = [input EXCEPT ![c] = InputAfter(c, Head(wire[c]))]
    /\ screen' = [screen EXCEPT ![c] = Head(wire[c])]
    /\ wire' = [wire EXCEPT ![c] = Tail(@)]
    /\ UNCHANGED <<daemonVars, conn, writer, pipe, keys, pressed>>

\* The socket is drained and closed.
DaemonGone(c) ==
    /\ conn[c] = "open" /\ wire[c] = <<>> /\ main = "exited"
    /\ conn' = [conn EXCEPT ![c] = "gone"]
    /\ UNCHANGED <<daemonVars, writer, wire, pipe, tuiVars>>

\* The operator presses a key, looking at what the client shows.
Press(c, k) ==
    /\ conn[c] \in {"open", "gone"} /\ pressed[c] < MaxKeys[c]
    /\ pressed' = [pressed EXCEPT ![c] = @ + 1]
    /\ keys' = [keys EXCEPT ![c] = Append(@, [key |-> k, on |-> screen[c].id, read |-> 0])]
    /\ UNCHANGED <<daemonVars, linkVars, screen, input>>

\* submit_answer empties the input and writes to the socket; a socket whose
\* daemon is gone fails the write.
submit_answer(c, value) ==
    /\ input' = [input EXCEPT ![c] = <<>>]
    /\ IF main = "exited"
         THEN /\ conn' = [conn EXCEPT ![c] = "gone"]
              /\ UNCHANGED pipe
         ELSE /\ pipe' = [pipe EXCEPT ![c] = Append(@,
                    [id |-> screen[c].id, value |-> value, shown |-> screen[c]])]
              /\ UNCHANGED conn

HasKey(c)  == conn[c] \in {"open", "gone"} /\ keys[c] # <<>>
NextKey(c) == [Head(keys[c]) EXCEPT !.read = screen[c].id]
TakeKey(c) ==
    /\ keys' = [keys EXCEPT ![c] = Tail(@)]
    /\ UNCHANGED <<daemonVars, writer, wire, screen, pressed>>

\* The client process ends, with its terminal and its end of the socket.
Quit(c) ==
    /\ conn' = [conn EXCEPT ![c] = "left"]
    /\ wire' = [wire EXCEPT ![c] = <<>>]
    /\ screen' = [screen EXCEPT ![c] = NoPrompt]
    /\ keys' = [keys EXCEPT ![c] = <<>>]
    /\ input' = [input EXCEPT ![c] = <<>>]
    /\ pressed' = [pressed EXCEPT ![c] = 0]

\* Enter submits while a prompt is on the screen, else it closes a client
\* whose daemon is gone.
Enter(c) ==
    /\ HasKey(c) /\ NextKey(c).key = "enter"
    /\ \/ /\ screen[c] # NoPrompt
          /\ TakeKey(c)
          /\ submit_answer(c, input[c])
       \/ /\ screen[c] = NoPrompt /\ conn[c] = "open"
          /\ TakeKey(c)
          /\ UNCHANGED <<conn, pipe, input>>
       \/ /\ screen[c] = NoPrompt /\ conn[c] = "gone"
          /\ Quit(c)
          /\ UNCHANGED <<daemonVars, writer, pipe>>

Backspace(c) ==
    /\ HasKey(c) /\ NextKey(c).key = "back"
    /\ TakeKey(c)
    /\ input' = [input EXCEPT ![c] = IF @ = <<>> THEN @ ELSE Front(@)]
    /\ UNCHANGED <<conn, pipe>>

\* On a Confirm prompt y and n need no Enter.
Char(c) ==
    /\ HasKey(c) /\ NextKey(c).key \in {"y", "n", "x"}
    /\ TakeKey(c)
    /\ IF screen[c].kind = "confirm" /\ NextKey(c).key \in {"y", "n"}
         THEN submit_answer(c, <<NextKey(c)>>)
         ELSE /\ input' = [input EXCEPT ![c] = Append(@, NextKey(c))]
              /\ UNCHANGED <<conn, pipe>>

HandleKey(c) == Enter(c) \/ Backspace(c) \/ Char(c)

\* Esc, Ctrl-C, or the terminal is lost; the daemon notices when it writes.
Leave(c) ==
    /\ conn[c] \in {"open", "gone"}
    /\ Quit(c)
    /\ UNCHANGED <<daemonVars, writer, pipe>>

---------------------------------------------------------------------------
Poll == TakeAnswer \/ DropStale
Serve(c) == SendSnapshot(c) \/ HangUp(c)

Next ==
    \/ \E kind \in {"passphrase", "confirm"} : Ask(kind)
    \/ Report
    \/ Poll
    \/ Exit
    \/ \E c \in Client :
        \/ Connect(c) \/ Serve(c) \/ ForwardSubmission(c)
        \/ ReceiveSnapshot(c) \/ DaemonGone(c)
        \/ \E k \in Keys[c] : Press(c, k)
        \/ HandleKey(c) \/ Leave(c)

Spec == Init /\ [][Next]_vars

\* The runtime polls every ready task of the daemon, and a client's select!
\* picks among its ready branches at random: each is scheduled again and again.
\* Nothing makes an operator press a key, connect or leave, or the daemon ask.
Fairness ==
    /\ WF_vars(Poll)
    /\ \A c \in Client :
        /\ WF_vars(Serve(c)) /\ WF_vars(ForwardSubmission(c))
        /\ WF_vars(ReceiveSnapshot(c)) /\ WF_vars(HandleKey(c))

FairSpec == Spec /\ Fairness

---------------------------------------------------------------------------
(* Properties.                                                              *)

\* An answer ask returns was given by a client that showed that very prompt,
\* with that very kind: no answer meant for a passphrase prompt, or for a
\* Confirm before it, decides a Confirm (daemon.rs:148-151, 159-162).
AnswersMeanTheirPrompt == taken.answer.shown = taken.prompt

\* Every key of a returned answer was handled while its prompt was on the
\* client's screen: nothing half-typed for an older prompt is part of it
\* (tui.rs:182-188).
NothingHalfTypedIsTaken ==
    \A stroke \in ToSet(taken.answer.value) : stroke.read = taken.prompt.id

\* No lost update: a client that stays and whose writer waits for a change has the
\* newest prompt on its screen or last on its wire (daemon.rs:903-916).
NewestSnapshotIsOnItsWay ==
    \A c \in Client : conn[c] = "open" /\ writer[c] = "idle" =>
        (IF wire[c] = <<>> THEN screen[c] ELSE Last(wire[c])) = prompt

\* An answer that a staying client sent to the prompt that is up releases it,
\* whatever stale answers are queued before it (daemon.rs:139-153).
AnswersArrive ==
    \A c \in Client :
        (main = "ask" /\ \E m \in ToSet(pipe[c]) : m.id = prompt.id)
            ~> (main # "ask" \/ conn[c] # "open")

\* tui.rs:182 "A new prompt invalidates half-typed input for an old one": no
\* answer is built of keys pressed while another prompt was on the screen.
KeysMeanTheirPrompt ==
    \A stroke \in ToSet(taken.answer.value) : stroke.on = taken.prompt.id
==========================================================================
