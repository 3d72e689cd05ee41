-------------------------- MODULE PromptHubProofs --------------------------
(***************************************************************************)
(* TLAPS proofs about PromptHub, for any connections, keys and bounds.      *)
(***************************************************************************)
EXTENDS PromptHub, SequenceTheorems, TLAPS

---------------------------------------------------------------------------
(* Sequences, by their elements.                                            *)

LEMMA Emptied == \A S : <<>> \in Seq(S) /\ ToSet(<<>>) = {}
  BY EmptySeq DEF ToSet

LEMMA Appended ==
  ASSUME NEW S, NEW s \in Seq(S), NEW e \in S
  PROVE  /\ Append(s, e) \in Seq(S) /\ Append(s, e) # <<>>
         /\ ToSet(Append(s, e)) = ToSet(s) \cup {e}
         /\ Last(Append(s, e)) = e
<1>1. /\ Append(s, e) \in Seq(S) /\ Len(Append(s, e)) = Len(s) + 1
      /\ \A i \in 1 .. Len(s) : Append(s, e)[i] = s[i]
      /\ Append(s, e)[Len(s) + 1] = e
  OBVIOUS
<1>2. DOMAIN Append(s, e) = DOMAIN s \cup {Len(s) + 1}
  BY <1>1
<1>3. ToSet(Append(s, e)) = ToSet(s) \cup {e}
  BY <1>1, <1>2 DEF ToSet
<1>. QED  BY <1>1, <1>3 DEF Last

LEMMA Taken ==
  ASSUME NEW S, NEW s \in Seq(S), s # <<>>
  PROVE  /\ Head(s) \in S /\ Head(s) \in ToSet(s)
         /\ Tail(s) \in Seq(S) /\ ToSet(Tail(s)) \subseteq ToSet(s)
         /\ Tail(s) = <<>> => Last(s) = Head(s)
         /\ Tail(s) # <<>> => Last(Tail(s)) = Last(s)
<1>1. /\ Head(s) \in S /\ Tail(s) \in Seq(S) /\ Len(Tail(s)) = Len(s) - 1
      /\ \A i \in 1 .. Len(Tail(s)) : Tail(s)[i] = s[i + 1]
  BY HeadTailProperties
<1>2. Head(s) = s[1] /\ Len(s) \in Nat \ {0} /\ DOMAIN s = 1 .. Len(s)
  BY EmptySeq
<1>3. ToSet(Tail(s)) \subseteq ToSet(s)
  BY <1>1, <1>2 DEF ToSet
<1>4. Head(s) \in ToSet(s)
  BY <1>2 DEF ToSet
<1>5. ASSUME Tail(s) = <<>> PROVE Last(s) = Head(s)
  <2>1. Len(Tail(s)) = 0
    BY <1>5, EmptySeq
  <2>2. Len(Tail(s)) = Len(s) - 1 /\ Len(s) \in Nat
    BY <1>1, <1>2
  <2>3. Len(s) = 1
    BY <2>1, <2>2
  <2>. QED  BY <1>2, <2>3 DEF Last
<1>6. ASSUME Tail(s) # <<>> PROVE Last(Tail(s)) = Last(s)
  <2>1. Len(Tail(s)) \in Nat \ {0}
    BY <1>1, <1>6, EmptySeq
  <2>2. Len(Tail(s)) \in 1 .. Len(Tail(s)) /\ Len(Tail(s)) + 1 = Len(s)
    BY <1>1, <1>2, <2>1
  <2>3. Tail(s)[Len(Tail(s))] = s[Len(Tail(s)) + 1]
    BY <1>1, <2>2
  <2>. QED  BY <2>2, <2>3 DEF Last
<1>. QED  BY <1>1, <1>3, <1>4, <1>5, <1>6

LEMMA Shortened ==
  ASSUME NEW S, NEW s \in Seq(S), s # <<>>
  PROVE  Front(s) \in Seq(S) /\ ToSet(Front(s)) \subseteq ToSet(s)
<1>1. Len(s) \in Nat \ {0} /\ DOMAIN s = 1 .. Len(s)
  BY EmptySeq
<1>2. /\ SubSeq(s, 1, Len(s) - 1) \in Seq(S)
      /\ Len(SubSeq(s, 1, Len(s) - 1)) = Len(s) - 1
      /\ \A i \in 1 .. Len(s) - 1 : SubSeq(s, 1, Len(s) - 1)[i] = s[i]
  BY <1>1
<1>3. DOMAIN Front(s) = 1 .. Len(s) - 1
  BY <1>1, <1>2 DEF Front
<1>. QED  BY <1>1, <1>2, <1>3 DEF Front, ToSet

---------------------------------------------------------------------------
(* The inductive invariant.                                                 *)

\* The prompt that is up is the one posted last.
PromptOK == prompt.id <= posted /\ (main = "ask" => prompt.id = posted /\ posted > 0)

\* A prompt somebody holds was posted, and while one is up its number tells
\* which prompt it is.  (An ended daemon compares numbers no more.)
Known(p) == main # "exited" =>
              p.id <= posted /\ (main = "ask" /\ p.id = posted => p = prompt)

ShownOK == \A c \in Client :
             Known(screen[c]) /\ \A p \in ToSet(wire[c]) : Known(p)

\* What is typed was handled under the prompt on the screen ...
InputOK == \A c \in Client : \A k \in ToSet(input[c]) : k.read = screen[c].id

\* ... and so was what is submitted, under the prompt it names.
Honest(m) == /\ m.id = m.shown.id /\ Known(m.shown)
             /\ \A k \in ToSet(m.value) : k.read = m.id

SubmissionsOK ==
  /\ \A m \in ToSet(inbox) : Honest(m)
  /\ \A c \in Client : \A m \in ToSet(pipe[c]) : Honest(m)

IInv == /\ TypeOK /\ PromptOK /\ ShownOK /\ InputOK /\ SubmissionsOK
        /\ AnswersMeanTheirPrompt /\ NothingHalfTypedIsTaken
        /\ NewestSnapshotIsOnItsWay

LEMMA InitIInv == Init => IInv
<1>. SUFFICES ASSUME Init PROVE IInv
  OBVIOUS
<1>. USE DEF Init, NoPrompt, NoSubmission, NothingTaken
<1>1. TypeOK
  BY Emptied DEF TypeOK, Prompts, Submission
<1>2. PromptOK
  BY DEF PromptOK
<1>3. ShownOK
  BY Emptied DEF ShownOK, Known
<1>4. InputOK /\ SubmissionsOK
  BY Emptied DEF InputOK, SubmissionsOK
<1>5. AnswersMeanTheirPrompt /\ NothingHalfTypedIsTaken
  BY Emptied DEF AnswersMeanTheirPrompt, NothingHalfTypedIsTaken
<1>6. NewestSnapshotIsOnItsWay
  BY DEF NewestSnapshotIsOnItsWay
<1>. QED  BY <1>1, <1>2, <1>3, <1>4, <1>5, <1>6 DEF IInv

---------------------------------------------------------------------------
(* Type correctness, action by action.                                      *)

LEMMA NextStroke ==
  ASSUME TypeOK, NEW c \in Client, keys[c] # <<>>
  PROVE  NextKey(c) \in Stroke /\ NextKey(c).read = screen[c].id
<1>1. Head(keys[c]) \in Stroke
  BY Taken DEF TypeOK
<1>2. screen[c].id \in Nat
  BY DEF TypeOK, Prompts
<1>. QED  BY <1>1, <1>2 DEF NextKey, Stroke

LEMMA SubmitType ==
  ASSUME TypeOK, NEW c \in Client, NEW value \in Seq(Stroke),
         submit_answer(c, value)
  PROVE  /\ conn' \in [Client -> {"away", "open", "gone", "left"}]
         /\ pipe' \in [Client -> Seq(Submission)]
         /\ input' \in [Client -> Seq(Stroke)]
<1>1. [id |-> screen[c].id, value |-> value, shown |-> screen[c]] \in Submission
  BY DEF TypeOK, Prompts, Submission
<1>2. Append(pipe[c], [id |-> screen[c].id, value |-> value, shown |-> screen[c]])
        \in Seq(Submission)
  BY <1>1, Appended DEF TypeOK
<1>. QED  BY <1>2, Emptied DEF submit_answer, TypeOK

LEMMA PublishedType ==
  ASSUME TypeOK
  PROVE  Published \in [Client -> {"off", "due", "idle"}]
  BY DEF TypeOK, Published

LEMMA TypeStep ==
  ASSUME TypeOK, [Next]_vars
  PROVE  TypeOK'
<1>. USE DEF daemonVars, linkVars, tuiVars
<1>1. ASSUME NEW kind \in {"passphrase", "confirm"}, Ask(kind)
      PROVE  TypeOK'
  <2>. DEFINE p == [id |-> posted + 1, kind |-> kind]
  <2>1. p \in Prompts /\ p # NoPrompt
    BY DEF TypeOK, Prompts, NoPrompt
  <2>2. posted' \in Nat /\ main' = "ask" /\ prompt' = p /\ writer' = Published
    BY <1>1 DEF TypeOK, Ask, mutate
  <2>. HIDE DEF p
  <2>. QED  BY <1>1, <2>1, <2>2, PublishedType DEF TypeOK, Ask
<1>2. CASE Report
  BY <1>2, PublishedType DEF TypeOK, Report, mutate
<1>3. CASE TakeAnswer
  <2>1. Head(inbox) \in Submission /\ Tail(inbox) \in Seq(Submission)
    BY <1>3, Taken DEF TypeOK, TakeAnswer
  <2>2. NoPrompt \in Prompts
    BY DEF NoPrompt, Prompts
  <2>. QED  BY <1>3, <2>1, <2>2, PublishedType DEF TypeOK, TakeAnswer, mutate, PromptAfterAnswer
<1>4. CASE DropStale
  BY <1>4, Taken DEF TypeOK, DropStale
<1>5. CASE Exit
  BY <1>5, Emptied DEF TypeOK, Exit, NothingTaken, NoPrompt, NoSubmission, Prompts, Submission
<1>6. ASSUME NEW c \in Client, Connect(c)
      PROVE  TypeOK'
  BY <1>6 DEF TypeOK, Connect
<1>7. ASSUME NEW c \in Client, SendSnapshot(c)
      PROVE  TypeOK'
  BY <1>7, Appended DEF TypeOK, SendSnapshot
<1>8. ASSUME NEW c \in Client, HangUp(c)
      PROVE  TypeOK'
  BY <1>8, Emptied DEF TypeOK, HangUp
<1>9. ASSUME NEW c \in Client, ForwardSubmission(c)
      PROVE  TypeOK'
  <2>1. Head(pipe[c]) \in Submission /\ Tail(pipe[c]) \in Seq(Submission)
    BY <1>9, Taken DEF TypeOK, ForwardSubmission
  <2>2. Append(inbox, Head(pipe[c])) \in Seq(Submission)
    BY <2>1, Appended DEF TypeOK
  <2>. QED  BY <1>9, <2>1, <2>2 DEF TypeOK, ForwardSubmission
<1>10. ASSUME NEW c \in Client, ReceiveSnapshot(c)
       PROVE  TypeOK'
  <2>1. Head(wire[c]) \in Prompts /\ Tail(wire[c]) \in Seq(Prompts)
    BY <1>10, Taken DEF TypeOK, ReceiveSnapshot
  <2>2. InputAfter(c, Head(wire[c])) \in Seq(Stroke)
    BY Emptied DEF TypeOK, InputAfter
  <2>. QED  BY <1>10, <2>1, <2>2 DEF TypeOK, ReceiveSnapshot
<1>11. ASSUME NEW c \in Client, DaemonGone(c)
       PROVE  TypeOK'
  BY <1>11 DEF TypeOK, DaemonGone
<1>12. ASSUME NEW c \in Client, NEW k \in Keys[c], Press(c, k)
       PROVE  TypeOK'
  <2>1. [key |-> k, on |-> screen[c].id, read |-> 0] \in Stroke
    BY KeysAssumption DEF TypeOK, Prompts, Stroke
  <2>2. Append(keys[c], [key |-> k, on |-> screen[c].id, read |-> 0]) \in Seq(Stroke)
    BY <2>1, Appended DEF TypeOK
  <2>. QED  BY <1>12, <2>2 DEF TypeOK, Press
<1>13. ASSUME NEW c \in Client, HasKey(c), TakeKey(c)
       PROVE  /\ keys' \in [Client -> Seq(Stroke)]
              /\ UNCHANGED <<main, posted, prompt, inbox, taken, writer, wire, screen, pressed>>
  <2>1. Tail(keys[c]) \in Seq(Stroke)
    BY <1>13, Taken DEF TypeOK, HasKey
  <2>. QED  BY <1>13, <2>1 DEF TypeOK, TakeKey
<1>14. ASSUME NEW c \in Client, Quit(c), UNCHANGED <<daemonVars, writer, pipe>>
       PROVE  TypeOK'
  BY <1>14, Emptied DEF TypeOK, Quit, NoPrompt, Prompts
<1>15. ASSUME NEW c \in Client, Enter(c)
       PROVE  TypeOK'
  <2>1. CASE TakeKey(c) /\ submit_answer(c, input[c])
    <3>1. input[c] \in Seq(Stroke)
      BY DEF TypeOK
    <3>. QED  BY <1>13, <1>15, <2>1, <3>1, SubmitType DEF TypeOK, Enter
  <2>2. CASE TakeKey(c) /\ UNCHANGED <<conn, pipe, input>>
    BY <1>13, <1>15, <2>2 DEF TypeOK, Enter
  <2>3. CASE Quit(c) /\ UNCHANGED <<daemonVars, writer, pipe>>
    BY <1>14, <2>3
  <2>. QED  BY <1>15, <2>1, <2>2, <2>3 DEF Enter
<1>16. ASSUME NEW c \in Client, Backspace(c)
       PROVE  TypeOK'
  <2>1. (IF input[c] = <<>> THEN input[c] ELSE Front(input[c])) \in Seq(Stroke)
    BY Shortened DEF TypeOK
  <2>. QED  BY <1>13, <1>16, <2>1 DEF TypeOK, Backspace
<1>17. ASSUME NEW c \in Client, Char(c)
       PROVE  TypeOK'
  <2>1. NextKey(c) \in Stroke
    BY <1>17, NextStroke DEF Char, HasKey
  <2>2. <<NextKey(c)>> \in Seq(Stroke) /\ Append(input[c], NextKey(c)) \in Seq(Stroke)
    BY <2>1, Appended DEF TypeOK
  <2>3. CASE submit_answer(c, <<NextKey(c)>>)
    BY <1>13, <1>17, <2>2, <2>3, SubmitType DEF TypeOK, Char
  <2>4. CASE /\ input' = [input EXCEPT ![c] = Append(@, NextKey(c))]
             /\ UNCHANGED <<conn, pipe>>
    BY <1>13, <1>17, <2>2, <2>4 DEF TypeOK, Char
  <2>. QED  BY <1>17, <2>3, <2>4 DEF Char
<1>18. ASSUME NEW c \in Client, Leave(c)
       PROVE  TypeOK'
  BY <1>14, <1>18 DEF Leave
<1>19. CASE UNCHANGED vars
  BY <1>19 DEF TypeOK, vars
<1>. QED
  BY <1>1, <1>2, <1>3, <1>4, <1>5, <1>6, <1>7, <1>8, <1>9, <1>10, <1>11, <1>12,
     <1>15, <1>16, <1>17, <1>18, <1>19
     DEF Next, Poll, Serve, HandleKey

---------------------------------------------------------------------------
(* What is known of a prompt stays known.                                   *)

LEMMA KnownStays ==
  ASSUME TypeOK, PromptOK, Next, NEW p \in Prompts, Known(p)
  PROVE  Known(p)'
<1>. USE DEF daemonVars, linkVars, tuiVars, Known
<1>1. posted \in Nat /\ p.id \in Nat
  BY DEF TypeOK, Prompts
<1>2. ASSUME NEW kind, Ask(kind) PROVE Known(p)'
  BY <1>1, <1>2 DEF Ask
<1>3. CASE Report
  BY <1>3 DEF Report, mutate
<1>4. CASE TakeAnswer
  BY <1>4 DEF TakeAnswer
<1>5. CASE Exit
  BY <1>5 DEF Exit
<1>6. CASE UNCHANGED <<main, posted, prompt>>
  BY <1>6
<1>7. CASE DropStale
  BY <1>6, <1>7 DEF DropStale
<1>8. ASSUME NEW c \in Client,
             Connect(c) \/ Serve(c) \/ ForwardSubmission(c) \/ ReceiveSnapshot(c)
               \/ DaemonGone(c) \/ (\E k \in Keys[c] : Press(c, k))
      PROVE  Known(p)'
  BY <1>6, <1>8
     DEF Connect, Serve, SendSnapshot, HangUp, ForwardSubmission, ReceiveSnapshot,
         DaemonGone, Press
<1>9. ASSUME NEW c \in Client, HandleKey(c) \/ Leave(c)
      PROVE  Known(p)'
  BY <1>6, <1>9 DEF HandleKey, Enter, Backspace, Char, TakeKey, Leave
<1>. QED  BY <1>2, <1>3, <1>4, <1>5, <1>7, <1>8, <1>9 DEF Next, Poll

LEMMA PromptStep ==
  ASSUME TypeOK, PromptOK, Next
  PROVE  PromptOK'
<1>. USE DEF daemonVars, linkVars, tuiVars, PromptOK
<1>1. posted \in Nat
  BY DEF TypeOK
<1>2. ASSUME NEW kind, Ask(kind) PROVE PromptOK'
  BY <1>1, <1>2 DEF Ask, mutate
<1>3. CASE Report
  BY <1>3 DEF Report, mutate
<1>4. CASE TakeAnswer
  BY <1>1, <1>4 DEF TakeAnswer, mutate, NoPrompt, PromptAfterAnswer
<1>5. CASE Exit
  BY <1>5 DEF Exit, NoPrompt
<1>6. CASE UNCHANGED <<main, posted, prompt>>
  BY <1>6
<1>7. CASE DropStale
  BY <1>6, <1>7 DEF DropStale
<1>8. ASSUME NEW c \in Client,
             Connect(c) \/ Serve(c) \/ ForwardSubmission(c) \/ ReceiveSnapshot(c)
               \/ DaemonGone(c) \/ (\E k \in Keys[c] : Press(c, k))
      PROVE  PromptOK'
  BY <1>6, <1>8
     DEF Connect, Serve, SendSnapshot, HangUp, ForwardSubmission, ReceiveSnapshot,
         DaemonGone, Press
<1>9. ASSUME NEW c \in Client, HandleKey(c) \/ Leave(c)
      PROVE  PromptOK'
  BY <1>6, <1>9 DEF HandleKey, Enter, Backspace, Char, TakeKey, Leave
<1>. QED  BY <1>2, <1>3, <1>4, <1>5, <1>7, <1>8, <1>9 DEF Next, Poll

---------------------------------------------------------------------------
(* Which steps touch what: five step classes for each group of variables.   *)

LEMMA ShownFrame ==
  ASSUME Next
  PROVE  \/ UNCHANGED <<wire, screen>>
         \/ \E c \in Client : SendSnapshot(c)
         \/ \E c \in Client : ReceiveSnapshot(c)
         \/ \E c \in Client : Quit(c)
<1>. USE DEF daemonVars, linkVars, tuiVars
<1>1. ASSUME NEW c \in Client, HandleKey(c) \/ Leave(c)
      PROVE  UNCHANGED <<wire, screen>> \/ Quit(c)
  BY <1>1 DEF HandleKey, Enter, Backspace, Char, TakeKey, Leave
<1>2. ASSUME NEW c \in Client, Connect(c) \/ HangUp(c) \/ ForwardSubmission(c)
                 \/ DaemonGone(c) \/ (\E k \in Keys[c] : Press(c, k))
      PROVE  UNCHANGED <<wire, screen>>
  BY <1>2 DEF Connect, HangUp, ForwardSubmission, DaemonGone, Press
<1>3. ASSUME NEW kind, Ask(kind) PROVE UNCHANGED <<wire, screen>>
  BY <1>3 DEF Ask
<1>4. ASSUME Report \/ Poll \/ Exit PROVE UNCHANGED <<wire, screen>>
  BY <1>4 DEF Report, Poll, TakeAnswer, DropStale, Exit
<1>. QED  BY <1>1, <1>2, <1>3, <1>4 DEF Next, Serve

LEMMA ShownStep ==
  ASSUME TypeOK, PromptOK, ShownOK, Next
  PROVE  ShownOK'
<1>1. \A p \in Prompts : Known(p) => Known(p)'
  BY KnownStays
<1>2. \A c \in Client : screen[c] \in Prompts /\ \A p \in ToSet(wire[c]) : p \in Prompts
  <2>1. \A c \in Client : \A p \in ToSet(wire[c]) : p \in Prompts
    BY ElementOfSeq DEF TypeOK, ToSet
  <2>. QED  BY <2>1 DEF TypeOK
<1>. DEFINE KnownNext(p) == main' # "exited" =>
              p.id <= posted' /\ (main' = "ask" /\ p.id = posted' => p = prompt')
<1>4. \A c \in Client : KnownNext(screen[c]) /\ \A p \in ToSet(wire[c]) : KnownNext(p)
  BY <1>1, <1>2 DEF ShownOK, Known
<1>5. SUFFICES \A d \in Client : KnownNext(screen'[d]) /\ \A p \in ToSet(wire'[d]) : KnownNext(p)
  BY DEF ShownOK, Known
<1>6. CASE UNCHANGED <<wire, screen>>
  BY <1>4, <1>6
<1>7. ASSUME NEW c \in Client, SendSnapshot(c)
      PROVE  \A d \in Client : KnownNext(screen'[d]) /\ \A p \in ToSet(wire'[d]) : KnownNext(p)
  <2>1. wire[c] \in Seq(Prompts) /\ prompt \in Prompts
    BY DEF TypeOK
  <2>2. ToSet(Append(wire[c], prompt)) = ToSet(wire[c]) \cup {prompt}
    BY <2>1, Appended
  <2>3. KnownNext(prompt)
    BY <1>7 DEF SendSnapshot, daemonVars, PromptOK
  <2>. HIDE DEF KnownNext
  <2>. QED  BY <1>4, <1>7, <2>2, <2>3 DEF SendSnapshot, tuiVars, TypeOK
<1>8. ASSUME NEW c \in Client, ReceiveSnapshot(c)
      PROVE  \A d \in Client : KnownNext(screen'[d]) /\ \A p \in ToSet(wire'[d]) : KnownNext(p)
  <2>1. Head(wire[c]) \in ToSet(wire[c]) /\ ToSet(Tail(wire[c])) \subseteq ToSet(wire[c])
    BY <1>8, Taken DEF TypeOK, ReceiveSnapshot
  <2>. HIDE DEF KnownNext
  <2>. QED  BY <1>4, <1>8, <2>1 DEF ReceiveSnapshot, TypeOK
<1>9. ASSUME NEW c \in Client, Quit(c)
      PROVE  \A d \in Client : KnownNext(screen'[d]) /\ \A p \in ToSet(wire'[d]) : KnownNext(p)
  <2>1. KnownNext(NoPrompt)
    <3>1. TypeOK' /\ PromptOK'
      BY TypeStep, PromptStep
    <3>2. posted' \in Nat /\ (main' = "ask" => posted' > 0)
      BY <3>1 DEF TypeOK, PromptOK
    <3>. QED  BY <3>1, <3>2 DEF NoPrompt
  <2>. HIDE DEF KnownNext
  <2>. QED  BY <1>4, <1>9, <2>1, Emptied DEF Quit, TypeOK
<1>. QED  BY <1>6, <1>7, <1>8, <1>9, ShownFrame
---------------------------------------------------------------------------
(* Typed and submitted keys were handled under the prompt they answer.      *)

LEMMA InputFrame ==
  ASSUME Next
  PROVE  \/ UNCHANGED <<input, screen>>
         \/ \E c \in Client : ReceiveSnapshot(c)
         \/ \E c \in Client : Quit(c)
         \/ \E c \in Client : HasKey(c) /\ UNCHANGED screen /\ submit_answer(c, input[c])
         \/ \E c \in Client : Backspace(c)
         \/ \E c \in Client : Char(c)
<1>. USE DEF daemonVars, linkVars, tuiVars
<1>1. ASSUME NEW c \in Client, Enter(c) \/ Leave(c)
      PROVE  \/ UNCHANGED <<input, screen>>
             \/ Quit(c)
             \/ HasKey(c) /\ UNCHANGED screen /\ submit_answer(c, input[c])
  BY <1>1 DEF Enter, Leave, TakeKey
<1>2. ASSUME NEW c \in Client, Connect(c) \/ Serve(c) \/ ForwardSubmission(c)
                 \/ DaemonGone(c) \/ (\E k \in Keys[c] : Press(c, k))
      PROVE  UNCHANGED <<input, screen>>
  BY <1>2 DEF Connect, Serve, SendSnapshot, HangUp, ForwardSubmission, DaemonGone, Press
<1>3. ASSUME NEW kind, Ask(kind) PROVE UNCHANGED <<input, screen>>
  BY <1>3 DEF Ask
<1>4. ASSUME Report \/ Poll \/ Exit PROVE UNCHANGED <<input, screen>>
  BY <1>4 DEF Report, Poll, TakeAnswer, DropStale, Exit
<1>. QED  BY <1>1, <1>2, <1>3, <1>4 DEF Next, HandleKey

LEMMA InputStep ==
  ASSUME TypeOK, InputOK, Next
  PROVE  InputOK'
<1>. USE DEF InputOK
<1>1. CASE UNCHANGED <<input, screen>>
  BY <1>1
<1>2. ASSUME NEW c \in Client, ReceiveSnapshot(c)
      PROVE  InputOK'
  <2>1. \A k \in ToSet(InputAfter(c, Head(wire[c]))) : k.read = Head(wire[c]).id
    BY Emptied DEF InputAfter
  <2>. QED  BY <1>2, <2>1 DEF ReceiveSnapshot, TypeOK
<1>3. ASSUME NEW c \in Client, Quit(c)
      PROVE  InputOK'
  BY <1>3, Emptied DEF Quit, TypeOK
<1>4. ASSUME NEW c \in Client, NEW value, submit_answer(c, value), UNCHANGED screen
      PROVE  InputOK'
  BY <1>4, Emptied DEF submit_answer, TypeOK
<1>5. ASSUME NEW c \in Client, Backspace(c)
      PROVE  InputOK'
  <2>1. \A k \in ToSet(IF input[c] = <<>> THEN input[c] ELSE Front(input[c])) :
           k.read = screen[c].id
    BY Shortened DEF TypeOK
  <2>. QED  BY <1>5, <2>1 DEF Backspace, TakeKey, TypeOK
<1>6. ASSUME NEW c \in Client, Char(c)
      PROVE  InputOK'
  <2>1. UNCHANGED screen
    BY <1>6 DEF Char, TakeKey
  <2>2. NextKey(c) \in Stroke /\ NextKey(c).read = screen[c].id
    BY <1>6, NextStroke DEF Char, HasKey
  <2>3. ToSet(Append(input[c], NextKey(c))) = ToSet(input[c]) \cup {NextKey(c)}
    BY <2>2, Appended DEF TypeOK
  <2>4. CASE input' = [input EXCEPT ![c] = Append(@, NextKey(c))]
    BY <2>1, <2>2, <2>3, <2>4 DEF TypeOK
  <2>. QED  BY <1>4, <1>6, <2>1, <2>4 DEF Char
<1>. QED  BY <1>1, <1>2, <1>3, <1>4, <1>5, <1>6, InputFrame

LEMMA SubmissionsFrame ==
  ASSUME Next
  PROVE  \/ UNCHANGED <<inbox, pipe>>
         \/ Poll \/ Exit
         \/ \E c \in Client : HangUp(c) \/ ForwardSubmission(c)
         \/ \E c \in Client : /\ HasKey(c) /\ screen[c] # NoPrompt
                              /\ UNCHANGED inbox /\ submit_answer(c, input[c])
         \/ \E c \in Client : /\ HasKey(c)
                              /\ UNCHANGED inbox /\ submit_answer(c, <<NextKey(c)>>)
<1>. USE DEF daemonVars, linkVars, tuiVars
<1>1. ASSUME NEW c \in Client, HandleKey(c) \/ Leave(c)
      PROVE  \/ UNCHANGED <<inbox, pipe>>
             \/ /\ HasKey(c) /\ screen[c] # NoPrompt
                /\ UNCHANGED inbox /\ submit_answer(c, input[c])
             \/ HasKey(c) /\ UNCHANGED inbox /\ submit_answer(c, <<NextKey(c)>>)
  BY <1>1 DEF HandleKey, Enter, Backspace, Char, Leave, TakeKey
<1>2. ASSUME NEW c \in Client, Connect(c) \/ SendSnapshot(c) \/ ReceiveSnapshot(c)
                 \/ DaemonGone(c) \/ (\E k \in Keys[c] : Press(c, k))
      PROVE  UNCHANGED <<inbox, pipe>>
  BY <1>2 DEF Connect, SendSnapshot, ReceiveSnapshot, DaemonGone, Press
<1>3. ASSUME NEW kind, Ask(kind) PROVE UNCHANGED <<inbox, pipe>>
  BY <1>3 DEF Ask
<1>4. ASSUME Report PROVE UNCHANGED <<inbox, pipe>>
  BY <1>4 DEF Report
<1>. QED  BY <1>1, <1>2, <1>3, <1>4 DEF Next, Serve

LEMMA SubmissionsStep ==
  ASSUME TypeOK, PromptOK, ShownOK, InputOK, SubmissionsOK, Next
  PROVE  SubmissionsOK'
<1>. DEFINE HonestNext(m) ==
       /\ m.id = m.shown.id
       /\ main' # "exited" => m.shown.id <= posted'
                /\ (main' = "ask" /\ m.shown.id = posted' => m.shown = prompt')
       /\ \A k \in ToSet(m.value) : k.read = m.id
<1>1. \A m \in Submission : Honest(m) => HonestNext(m)
  <2>1. \A p \in Prompts : Known(p) => Known(p)'
    BY KnownStays
  <2>. QED  BY <2>1 DEF Submission, Honest, Known
<1>2. /\ \A m \in ToSet(inbox) : m \in Submission
      /\ \A c \in Client : \A m \in ToSet(pipe[c]) : m \in Submission
  BY ElementOfSeq DEF TypeOK, ToSet
<1>3. /\ \A m \in ToSet(inbox) : HonestNext(m)
      /\ \A c \in Client : \A m \in ToSet(pipe[c]) : HonestNext(m)
  <2>. HIDE DEF HonestNext
  <2>. QED  BY <1>1, <1>2 DEF SubmissionsOK
<1>4. SUFFICES /\ \A m \in ToSet(inbox') : HonestNext(m)
               /\ \A c \in Client : \A m \in ToSet(pipe'[c]) : HonestNext(m)
  BY DEF SubmissionsOK, Honest, Known
<1>5. ASSUME NEW c \in Client, NEW value \in Seq(Stroke), submit_answer(c, value),
             UNCHANGED inbox, \A k \in ToSet(value) : k.read = screen[c].id
      PROVE  /\ \A m \in ToSet(inbox') : HonestNext(m)
             /\ \A d \in Client : \A m \in ToSet(pipe'[d]) : HonestNext(m)
  <2>. DEFINE new == [id |-> screen[c].id, value |-> value, shown |-> screen[c]]
  <2>1. new \in Submission
    BY DEF TypeOK, Prompts, Submission
  <2>2. Honest(new)
    BY <1>5 DEF Honest, ShownOK
  <2>3. HonestNext(new)
    <3>. HIDE DEF new, HonestNext
    <3>. QED  BY <1>1, <2>1, <2>2
  <2>4. ToSet(Append(pipe[c], new)) = ToSet(pipe[c]) \cup {new}
    <3>. HIDE DEF new
    <3>. QED  BY <2>1, Appended DEF TypeOK
  <2>5. pipe' = pipe \/ pipe' = [pipe EXCEPT ![c] = Append(@, new)]
    BY <1>5 DEF submit_answer
  <2>. HIDE DEF HonestNext, new
  <2>. QED  BY <1>3, <1>5, <2>3, <2>4, <2>5 DEF TypeOK
<1>. HIDE DEF HonestNext
<1>6. CASE UNCHANGED <<inbox, pipe>>
  BY <1>3, <1>6
<1>7. CASE Poll
  <2>1. inbox # <<>> /\ inbox' = Tail(inbox) /\ pipe' = pipe
    BY <1>7 DEF Poll, TakeAnswer, DropStale, linkVars
  <2>2. ToSet(Tail(inbox)) \subseteq ToSet(inbox)
    BY <2>1, Taken DEF TypeOK
  <2>. QED  BY <1>3, <2>1, <2>2
<1>8. CASE Exit
  BY <1>8, Emptied DEF Exit
<1>9. ASSUME NEW c \in Client, HangUp(c)
      PROVE  /\ \A m \in ToSet(inbox') : HonestNext(m)
             /\ \A d \in Client : \A m \in ToSet(pipe'[d]) : HonestNext(m)
  BY <1>3, <1>9, Emptied DEF HangUp, daemonVars, TypeOK
<1>10. ASSUME NEW c \in Client, ForwardSubmission(c)
       PROVE  /\ \A m \in ToSet(inbox') : HonestNext(m)
              /\ \A d \in Client : \A m \in ToSet(pipe'[d]) : HonestNext(m)
  <2>1. /\ Head(pipe[c]) \in Submission /\ Head(pipe[c]) \in ToSet(pipe[c])
        /\ ToSet(Tail(pipe[c])) \subseteq ToSet(pipe[c])
    BY <1>10, Taken DEF ForwardSubmission, TypeOK
  <2>2. ToSet(Append(inbox, Head(pipe[c]))) = ToSet(inbox) \cup {Head(pipe[c])}
    BY <2>1, Appended DEF TypeOK
  <2>. QED  BY <1>3, <1>10, <2>1, <2>2 DEF ForwardSubmission, TypeOK
<1>11. ASSUME NEW c \in Client, HasKey(c), UNCHANGED inbox, submit_answer(c, input[c])
       PROVE  /\ \A m \in ToSet(inbox') : HonestNext(m)
              /\ \A d \in Client : \A m \in ToSet(pipe'[d]) : HonestNext(m)
  <2>1. input[c] \in Seq(Stroke) /\ \A k \in ToSet(input[c]) : k.read = screen[c].id
    BY DEF TypeOK, InputOK
  <2>. QED  BY <1>5, <1>11, <2>1
<1>12. ASSUME NEW c \in Client, HasKey(c), UNCHANGED inbox, submit_answer(c, <<NextKey(c)>>)
       PROVE  /\ \A m \in ToSet(inbox') : HonestNext(m)
              /\ \A d \in Client : \A m \in ToSet(pipe'[d]) : HonestNext(m)
  <2>1. NextKey(c) \in Stroke /\ NextKey(c).read = screen[c].id
    BY <1>12, NextStroke DEF HasKey
  <2>2. ToSet(<<NextKey(c)>>) = {NextKey(c)} /\ <<NextKey(c)>> \in Seq(Stroke)
    BY <2>1 DEF ToSet
  <2>. QED  BY <1>5, <1>12, <2>1, <2>2
<1>. QED  BY <1>6, <1>7, <1>8, <1>9, <1>10, <1>11, <1>12, SubmissionsFrame
---------------------------------------------------------------------------
(* What an answer means.                                                    *)

LEMMA AnswersStep ==
  ASSUME TypeOK, PromptOK, SubmissionsOK, Next,
         AnswersMeanTheirPrompt, NothingHalfTypedIsTaken
  PROVE  AnswersMeanTheirPrompt' /\ NothingHalfTypedIsTaken'
<1>. USE DEF AnswersMeanTheirPrompt, NothingHalfTypedIsTaken
<1>1. CASE UNCHANGED taken
  BY <1>1
<1>2. CASE TakeAnswer
  <2>. DEFINE m == Head(inbox)
  <2>1. main = "ask" /\ inbox # <<>> /\ m.id = prompt.id
    BY <1>2 DEF TakeAnswer, Answers
  <2>2. Honest(m)
    BY <2>1, Taken DEF TypeOK, SubmissionsOK
  <2>3. m.shown = prompt /\ \A k \in ToSet(m.value) : k.read = prompt.id
    BY <2>1, <2>2 DEF Honest, Known, PromptOK
  <2>4. taken' = [prompt |-> prompt, answer |-> m]
    BY <1>2 DEF TakeAnswer
  <2>. HIDE DEF m
  <2>. QED  BY <2>3, <2>4
<1>3. CASE Exit
  BY <1>3, Emptied DEF Exit, NothingTaken, NoSubmission, NoPrompt
<1>4. CASE DropStale
  BY <1>1, <1>4 DEF DropStale
<1>5. ASSUME NEW kind, Ask(kind) PROVE UNCHANGED taken
  BY <1>5 DEF Ask
<1>6. CASE Report
  BY <1>1, <1>6 DEF Report
<1>7. ASSUME NEW c \in Client,
             Connect(c) \/ Serve(c) \/ ForwardSubmission(c) \/ ReceiveSnapshot(c)
               \/ DaemonGone(c) \/ (\E k \in Keys[c] : Press(c, k))
               \/ HandleKey(c) \/ Leave(c)
      PROVE  UNCHANGED taken
  BY <1>7
     DEF Connect, Serve, SendSnapshot, HangUp, ForwardSubmission, ReceiveSnapshot,
         DaemonGone, Press, HandleKey, Enter, Backspace, Char, TakeKey, Leave, daemonVars
<1>. QED  BY <1>1, <1>2, <1>3, <1>4, <1>5, <1>6, <1>7 DEF Next, Poll

---------------------------------------------------------------------------
(* No update is lost.                                                       *)

LEMMA NewestStep ==
  ASSUME TypeOK, NewestSnapshotIsOnItsWay, Next
  PROVE  NewestSnapshotIsOnItsWay'
<1>. USE DEF NewestSnapshotIsOnItsWay, daemonVars, linkVars, tuiVars
<1>1. ASSUME writer' = Published \/ writer' = [c \in Client |-> "off"]
      PROVE  NewestSnapshotIsOnItsWay'
  BY <1>1 DEF Published, TypeOK
<1>2. CASE Report \/ TakeAnswer \/ Exit \/ \E kind \in {"passphrase", "confirm"} : Ask(kind)
  BY <1>1, <1>2 DEF Ask, Report, TakeAnswer, Exit, mutate
<1>3. CASE DropStale
  BY <1>3 DEF DropStale
<1>4. ASSUME NEW c \in Client, Connect(c) PROVE NewestSnapshotIsOnItsWay'
  BY <1>4 DEF Connect, TypeOK
<1>5. ASSUME NEW c \in Client, SendSnapshot(c) PROVE NewestSnapshotIsOnItsWay'
  <2>1. wire[c] \in Seq(Prompts) /\ prompt \in Prompts
    BY DEF TypeOK
  <2>2. Append(wire[c], prompt) # <<>> /\ Last(Append(wire[c], prompt)) = prompt
    BY <2>1, Appended
  <2>. QED  BY <1>5, <2>2 DEF SendSnapshot, TypeOK
<1>6. ASSUME NEW c \in Client, HangUp(c) PROVE NewestSnapshotIsOnItsWay'
  BY <1>6 DEF HangUp, TypeOK
<1>7. ASSUME NEW c \in Client, ReceiveSnapshot(c) PROVE NewestSnapshotIsOnItsWay'
  <2>1. /\ Tail(wire[c]) = <<>> => Last(wire[c]) = Head(wire[c])
        /\ Tail(wire[c]) # <<>> => Last(Tail(wire[c])) = Last(wire[c])
    BY <1>7, Taken DEF ReceiveSnapshot, TypeOK
  <2>. QED  BY <1>7, <2>1 DEF ReceiveSnapshot, TypeOK
<1>8. ASSUME NEW c \in Client, ForwardSubmission(c) \/ \E k \in Keys[c] : Press(c, k)
      PROVE  NewestSnapshotIsOnItsWay'
  BY <1>8 DEF ForwardSubmission, Press
<1>9. ASSUME NEW c \in Client, DaemonGone(c) PROVE NewestSnapshotIsOnItsWay'
  BY <1>9 DEF DaemonGone, TypeOK
<1>10. ASSUME NEW c \in Client, Quit(c), UNCHANGED <<prompt, writer>>
       PROVE  NewestSnapshotIsOnItsWay'
  BY <1>10 DEF Quit, TypeOK
<1>11. ASSUME NEW c \in Client, TakeKey(c),
              (\E value : submit_answer(c, value)) \/ UNCHANGED conn
       PROVE  NewestSnapshotIsOnItsWay'
  BY <1>11 DEF TakeKey, submit_answer, TypeOK
<1>12. ASSUME NEW c \in Client, HandleKey(c) \/ Leave(c) PROVE NewestSnapshotIsOnItsWay'
  <2>1. \/ Quit(c) /\ UNCHANGED <<prompt, writer>>
        \/ TakeKey(c) /\ ((\E value : submit_answer(c, value)) \/ UNCHANGED conn)
    BY <1>12 DEF HandleKey, Enter, Backspace, Char, Leave
  <2>. QED  BY <1>10, <1>11, <2>1
<1>. QED
  BY <1>2, <1>3, <1>4, <1>5, <1>6, <1>7, <1>8, <1>9, <1>12 DEF Next, Poll, Serve

---------------------------------------------------------------------------
LEMMA Stuttering ==
  ASSUME IInv, UNCHANGED vars
  PROVE  IInv'
<1>1. TypeOK'
  BY TypeStep DEF IInv
<1>2. PromptOK' /\ ShownOK' /\ InputOK' /\ SubmissionsOK'
  BY DEF IInv, PromptOK, ShownOK, InputOK, SubmissionsOK, Honest, Known,
         vars, daemonVars, linkVars, tuiVars
<1>3. AnswersMeanTheirPrompt' /\ NothingHalfTypedIsTaken' /\ NewestSnapshotIsOnItsWay'
  BY DEF IInv, AnswersMeanTheirPrompt, NothingHalfTypedIsTaken,
         NewestSnapshotIsOnItsWay, vars, daemonVars, linkVars, tuiVars
<1>. QED  BY <1>1, <1>2, <1>3 DEF IInv

LEMMA IInvStep == IInv /\ [Next]_vars => IInv'
<1>. SUFFICES ASSUME IInv, [Next]_vars PROVE IInv'
  OBVIOUS
<1>1. CASE Next
  <2>1. /\ TypeOK /\ PromptOK /\ ShownOK /\ InputOK /\ SubmissionsOK
        /\ AnswersMeanTheirPrompt /\ NothingHalfTypedIsTaken
        /\ NewestSnapshotIsOnItsWay
    BY DEF IInv
  <2>. QED
    BY <1>1, <2>1, TypeStep, PromptStep, ShownStep, InputStep, SubmissionsStep,
       AnswersStep, NewestStep DEF IInv
<1>2. CASE UNCHANGED vars
  BY <1>2, Stuttering
<1>. QED  BY <1>1, <1>2

(* The hub's invariant: every prompt somebody shows, and every answer on its *)
(* way, names the prompt it belongs to by a number posted once.              *)
THEOREM SpecIInv == Spec => []IInv
  BY InitIInv, IInvStep, PTL DEF Spec

(* Type correctness of daemon, sockets and clients.                         *)
THEOREM SpecTypeOK == Spec => []TypeOK
<1>1. IInv => TypeOK
  BY DEF IInv
<1>. QED  BY SpecIInv, <1>1, PTL

(* ask returns no answer given to another prompt (daemon.rs:148-151), however *)
(* many clients answer and however late their snapshots are.                *)
THEOREM SpecAnswersMeanTheirPrompt == Spec => []AnswersMeanTheirPrompt
<1>1. IInv => AnswersMeanTheirPrompt
  BY DEF IInv
<1>. QED  BY SpecIInv, <1>1, PTL

(* ask returns no answer with a key handled under an older prompt           *)
(* (tui.rs:182-188).                                                        *)
THEOREM SpecNothingHalfTypedIsTaken == Spec => []NothingHalfTypedIsTaken
<1>1. IInv => NothingHalfTypedIsTaken
  BY DEF IInv
<1>. QED  BY SpecIInv, <1>1, PTL

(* serve_client loses no update: who waits for a change has been sent the   *)
(* newest snapshot (daemon.rs:903-916).                                     *)
THEOREM SpecNewestSnapshotIsOnItsWay == Spec => []NewestSnapshotIsOnItsWay
<1>1. IInv => NewestSnapshotIsOnItsWay
  BY DEF IInv
<1>. QED  BY SpecIInv, <1>1, PTL
===========================================================================
