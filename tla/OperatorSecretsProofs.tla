----------------------- MODULE OperatorSecretsProofs -----------------------
(***************************************************************************)
(* TLAPS proofs about OidcValidator, whatever a provider answers, on        *)
(* whichever endpoint, and whatever the network does to the answers; and    *)
(* about OperatorSecrets, for any secrets, order, values and bounds.        *)
(***************************************************************************)
EXTENDS OperatorSecrets, TLAPS

---------------------------------------------------------------------------
(* What one request can come to.                                            *)

MethodVerdict(p, r) == IF p.introspects THEN classify_introspection(r) ELSE token_request(r)

\* A client the provider authenticates is never called wrong.
LEMMA AuthenticatedIsNotRejected ==
  ASSUME NEW p \in Provider, NEW m \in p.understands, NEW r \in Replies(p, m, TRUE)
  PROVE  MethodVerdict(p, r) \in {"valid", "error"}
BY DEF MethodVerdict, Replies, Received, IntrospectionReplies, TokenReplies, Trouble, Says, Introspected,
       classify_introspection, token_request, Judge, Rejected

\* A client it does not authenticate is never called right.
LEMMA StrangerIsNotProven ==
  ASSUME NEW p \in Provider, NEW m \in Method, NEW r \in Replies(p, m, FALSE)
  PROVE  MethodVerdict(p, r) \in {"invalid", "error"}
BY DEF MethodVerdict, Replies, Received, IntrospectionReplies, TokenReplies, Trouble, Says, Introspected,
       Rejections, classify_introspection, token_request, Judge, Rejected

---------------------------------------------------------------------------
(* The methods that are tried.                                              *)

\* They are the validator's own, at most two, and one of them is understood.
LEMMA MethodsOK ==
  ASSUME NEW p \in Provider, negotiated_methods(p) # <<>>
  PROVE  /\ negotiated_methods(p) \in {<<"basic">>, <<"post">>, <<"basic", "post">>}
         /\ \E i \in DOMAIN negotiated_methods(p) : negotiated_methods(p)[i] \in p.understands
<1>. DEFINE methods == negotiated_methods(p)
            wanted == IF p.lists = {} THEN Method ELSE p.lists
<1>1. methods = IF Method \subseteq wanted THEN <<"basic", "post">>
                ELSE IF "basic" \in wanted THEN <<"basic">>
                ELSE IF "post" \in wanted THEN <<"post">> ELSE <<>>
  BY DEF negotiated_methods
<1>2. /\ p.understands \subseteq Method /\ p.understands # {}
      /\ p.lists \cap Method # {} => p.lists \cap p.understands # {}
  BY DEF Provider
<1>3. CASE "basic" \in wanted /\ "post" \in wanted
  <2>1. methods = <<"basic", "post">>
    BY <1>1, <1>3 DEF Method
  <2>2. "basic" \in p.understands \/ "post" \in p.understands
    BY <1>2 DEF Method
  <2>3. DOMAIN methods = {1, 2} /\ methods[1] = "basic" /\ methods[2] = "post"
    BY <2>1
  <2>. QED  BY <2>1, <2>2, <2>3
<1>4. CASE "basic" \in wanted /\ "post" \notin wanted
  <2>1. methods = <<"basic">>
    BY <1>1, <1>4 DEF Method
  <2>2. "basic" \in p.understands
    BY <1>2, <1>4 DEF Method
  <2>3. DOMAIN methods = {1} /\ methods[1] = "basic"
    BY <2>1
  <2>. QED  BY <2>1, <2>2, <2>3
<1>5. CASE "basic" \notin wanted /\ "post" \in wanted
  <2>1. methods = <<"post">>
    BY <1>1, <1>5 DEF Method
  <2>2. "post" \in p.understands
    BY <1>2, <1>5 DEF Method
  <2>3. DOMAIN methods = {1} /\ methods[1] = "post"
    BY <2>1
  <2>. QED  BY <2>1, <2>2, <2>3
<1>6. CASE "basic" \notin wanted /\ "post" \notin wanted
  <2>1. methods = <<>>
    BY <1>1, <1>6 DEF Method
  <2>. QED  BY <2>1
<1>. QED  BY <1>3, <1>4, <1>5, <1>6

\* The verdict is one of a method that was tried; it is "invalid" only if all are.
LEMMA TriedInTurn ==
  ASSUME NEW methods \in {<<"basic">>, <<"post">>, <<"basic", "post">>}, NEW verdict
  PROVE  /\ \E i \in DOMAIN methods : try_methods(methods, verdict) = verdict[methods[i]]
         /\ try_methods(methods, verdict) = "invalid" =>
              \A i \in DOMAIN methods : verdict[methods[i]] = "invalid"
<1>. DEFINE other == {i \in DOMAIN methods : verdict[methods[i]] # "invalid"}
<1>1. DOMAIN methods \in {{1}, {1, 2}}
  OBVIOUS
<1>2. CASE other = {}
  BY <1>1, <1>2 DEF try_methods
<1>3. CASE other # {}
  <2>1. \E i \in other : \A j \in other : i <= j
    BY <1>1, <1>3
  <2>2. Min(other) \in other
    BY <2>1 DEF Min
  <2>. QED  BY <1>3, <2>2 DEF try_methods
<1>. QED  BY <1>2, <1>3

---------------------------------------------------------------------------
\* The distinction the validator exists for (main.rs:24-28): a credential the
\* issuer accepts is never called invalid, one it does not accept never valid,
\* whichever endpoint, method and answers, lost bodies and outages included.
THEOREM ValidatorIsSound ==
  /\ "invalid" \notin OidcVerdicts[TRUE]
  /\ "valid" \notin OidcVerdicts[FALSE]
<1>1. ASSUME NEW good \in BOOLEAN, NEW p \in Provider, NEW reply \in [Method -> Reply],
             \A m \in Method : reply[m] \in Replies(p, m, good)
      PROVE  /\ good => check(p, reply) # "invalid"
             /\ ~good => check(p, reply) # "valid"
  <2>. DEFINE methods == negotiated_methods(p)
              verdict == [m \in Method |-> MethodVerdict(p, reply[m])]
  <2>1. CASE check(p, reply) = "error"
    BY <2>1
  <2>2. CASE check(p, reply) # "error"
    <3>1. methods # <<>> /\ check(p, reply) = try_methods(methods, verdict)
      BY <2>2 DEF check, MethodVerdict
    <3>2. /\ methods \in {<<"basic">>, <<"post">>, <<"basic", "post">>}
          /\ \E i \in DOMAIN methods : methods[i] \in p.understands
      BY <3>1, MethodsOK
    <3>3. \A i \in DOMAIN methods : methods[i] \in Method
      BY <3>2 DEF Method
    <3>4. ASSUME good PROVE check(p, reply) # "invalid"
      <4>1. PICK i \in DOMAIN methods : methods[i] \in p.understands
        BY <3>2
      <4>2. verdict[methods[i]] \in {"valid", "error"}
        BY <1>1, <3>3, <3>4, <4>1, AuthenticatedIsNotRejected
      <4>. QED  BY <3>1, <3>2, <4>2, TriedInTurn
    <3>5. ASSUME ~good PROVE check(p, reply) # "valid"
      <4>1. \A i \in DOMAIN methods : verdict[methods[i]] \in {"invalid", "error"}
        BY <1>1, <3>3, <3>5, StrangerIsNotProven
      <4>2. \A v : \E i \in DOMAIN methods : try_methods(methods, v) = v[methods[i]]
        BY <3>2, TriedInTurn
      <4>3. PICK i \in DOMAIN methods : try_methods(methods, verdict) = verdict[methods[i]]
        BY <4>2
      <4>. QED  BY <3>1, <4>1, <4>3
    <3>. QED  BY <3>4, <3>5
  <2>. QED  BY <2>1, <2>2
<1>2. ASSUME NEW p \in Provider PROVE "invalid" \notin VerdictsOf(p, TRUE) /\ "valid" \notin VerdictsOf(p, FALSE)
  BY <1>1 DEF VerdictsOf
<1>. QED  BY <1>2 DEF OidcVerdicts

---------------------------------------------------------------------------
(* The inductive invariant.                                                 *)

Proven(s) == file[s] \in proven[s]

\* What a run is about to rename into place was proven.
WriteOK == \A r \in Run :
    pc[r] \in {"create", "sync", "chown", "chmod", "rename"} => val[r] \in proven[secret(r)]

\* The collector leaves only proven files behind it ...
Behind == pc["boot"] \in Active => \A i \in 1 .. turn - 1 : Proven(Order[i])

\* ... and what it judges is still in the file, or something proven is.
Judged ==
    /\ pc["boot"] \in {"validate", "undecided"} /\ origin["boot"] = "stored"
         => val["boot"] = file[secret("boot")] \/ Proven(secret("boot"))
    /\ pc["boot"] = "syncdir" => Proven(secret("boot"))

\* The order of the system calls shows in the temporary file.
TmpOK == \A r \in Run :
    /\ pc[r] = "chown" => tmp[r] = "synced"
    /\ pc[r] = "chmod" => tmp[r] = "owned"
    /\ pc[r] = "rename" => tmp[r] = "final"

\* No power cut can leave a file cut short.
DurableOK == \A s \in Secret : "torn" \notin durable[s]

\* A block that is still set belongs to a repeated try.
BlockOK == \A r \in Run :
    /\ pc[r] \in Active /\ blocked[r] = "yes" => pc[r] \in {"validate", "undecided"}
    /\ pc[r] = "validate" /\ blocked[r] = "yes" => attempt[r] = "again"

IInv == /\ TypeOK /\ WriteOK /\ Behind /\ Judged /\ TmpOK /\ DurableOK /\ BlockOK
        /\ ReleasedMeansProven /\ AskedForAReason /\ NeverHalfWritten

---------------------------------------------------------------------------
LEMMA SecretType ==
  ASSUME TypeOK, NEW r \in Run
  PROVE  secret(r) \in Secret
BY OrderAssumption DEF TypeOK, secret, Run

\* The verdicts speak the truth: the validator's own theorem, and presence.
LEMMA VerdictsAreTrue ==
  ASSUME NEW r \in Run, NEW verdict \in Verdicts(r)
  PROVE  /\ Good(r) => verdict # "invalid"
         /\ ~Good(r) => verdict # "valid"
<1>1. CASE secret(r) \in Presence
  BY <1>1 DEF Verdicts, Good
<1>2. CASE secret(r) \notin Presence /\ Good(r)
  <2>1. verdict \in OidcVerdicts[TRUE] \cup {"error"}
    BY <1>2 DEF Verdicts
  <2>. QED  BY <2>1, <1>2, ValidatorIsSound
<1>3. CASE secret(r) \notin Presence /\ ~Good(r)
  <2>0. Good(r) = FALSE
    BY <1>3 DEF Good
  <2>1. verdict \in OidcVerdicts[FALSE] \cup {"error"}
    BY <1>3, <2>0 DEF Verdicts
  <2>. QED  BY <2>1, <1>3, ValidatorIsSound
<1>. QED  BY <1>1, <1>2, <1>3

LEMMA InitIInv == Init => IInv
<1>. SUFFICES ASSUME Init PROVE IInv
  OBVIOUS
<1>. USE DEF Init
<1>1. TypeOK
  <2>1. Order[1] \in Secret /\ 1 \in 1 .. Len(Order)
    BY OrderAssumption
  <2>. QED  BY <2>1 DEF TypeOK, Contents, Active, Parked, Writing, Run
<1>2. WriteOK /\ Behind /\ Judged /\ TmpOK /\ BlockOK
  BY DEF WriteOK, Behind, Judged, TmpOK, BlockOK, Active, Parked, Writing, Run
<1>3. DurableOK /\ NeverHalfWritten
  BY DEF DurableOK, NeverHalfWritten, Contents
<1>4. ReleasedMeansProven /\ AskedForAReason
  BY DEF ReleasedMeansProven, AskedForAReason, Run
<1>. QED  BY <1>1, <1>2, <1>3, <1>4 DEF IInv

---------------------------------------------------------------------------
(* Types.                                                                   *)

LEMMA TypeStep == TypeOK /\ [Next]_vars => TypeOK'
<1>. SUFFICES ASSUME TypeOK, [Next]_vars PROVE TypeOK'
  OBVIOUS
<1>. USE DEF TypeOK, Goto, Run
<1>1. CASE StartBoot
  <2>1. 1 \in 1 .. Len(Order)
    BY OrderAssumption
  <2>2. pc["edit"] \in Writing => val["edit"] \in Value
    OBVIOUS
  <2>3. proven' \in [Secret -> SUBSET Value] /\ rejected' \in [Secret -> SUBSET Value]
    BY <1>1, <2>2 DEF StartBoot
  <2>4. /\ pc' \in [Run -> {"off", "done", "failed"} \cup Active]
        /\ val' \in [Run -> Contents]
        /\ \A q \in Run : pc'[q] \in {"validate", "undecided"} \cup Writing => val'[q] \in Value
    BY <1>1 DEF StartBoot, Begin, Active, Parked, Writing, Contents
  <2>. QED  BY <1>1, <2>1, <2>3, <2>4 DEF StartBoot, Begin, diskVars, issuer
<1>2. CASE StartEdit
  BY <1>2 DEF StartEdit, Begin, Active, Parked, Writing, Contents, diskVars, issuer, histories
<1>3. ASSUME NEW s \in Secret, Choose(s) PROVE TypeOK'
  BY <1>3 DEF Choose, Prompt, Active, Parked, Writing, diskVars, issuer, histories, bounds
<1>4. CASE ChooseUnknown
  BY <1>4 DEF ChooseUnknown, Active, Parked, Writing, diskVars, issuer, histories, bounds
<1>5. CASE Check
  <2>1. secret("boot") \in Secret
    BY SecretType
  <2>. QED  BY <1>5, <2>1 DEF Check, Complete, Prompt, Active, Parked, Writing, diskVars, issuer, histories, bounds
<1>6. CASE PowerCut
  BY <1>6 DEF PowerCut, Active, Parked, Writing, issuer, histories
<1>7. ASSUME NEW s \in Secret, NEW v \in Value, Rotate(s, v) PROVE TypeOK'
  BY <1>7 DEF Rotate, runVars, diskVars, histories, bounds
<1>8. ASSUME NEW r \in Run, NEW v \in Value, Answer(r, v) PROVE TypeOK'
  BY <1>8 DEF Answer, Contents, Active, Parked, Writing, diskVars, issuer, histories, bounds
<1>9. ASSUME NEW r \in Run, Undecided(r) \/ Retry(r) PROVE TypeOK'
  BY <1>9 DEF Undecided, Retry, AfterError, Active, Parked, Writing, diskVars, issuer, histories, bounds
<1>10. ASSUME NEW r \in Run, Decided(r) PROVE TypeOK'
  <2>1. secret(r) \in Secret /\ val[r] \in Value
    BY <1>10, SecretType DEF Decided, Decide
  <2>2. turn' \in 1 .. Len(Order)
    <3>1. Len(Order) \in Nat
      BY OrderAssumption
    <3>. QED  BY <1>10, <3>1 DEF Decided, Decide, Satisfied, Prompt
  <2>3. /\ pc' \in [Run -> {"off", "done", "failed"} \cup Active]
        /\ \A q \in Run : pc'[q] \in {"validate", "undecided"} \cup Writing => val'[q] \in Value
    BY <1>10, <2>1 DEF Decided, Decide, Satisfied, Prompt, Active, Parked, Writing
  <2>4. proven' \in [Secret -> SUBSET Value] /\ rejected' \in [Secret -> SUBSET Value]
    BY <1>10, <2>1 DEF Decided, Decide
  <2>. QED  BY <1>10, <2>2, <2>3, <2>4 DEF Decided, Decide, diskVars, issuer, bounds
<1>11. ASSUME NEW r \in Run, CreateTmp(r) \/ SyncTmp(r) \/ ChownTmp(r) \/ ChmodTmp(r) PROVE TypeOK'
  BY <1>11 DEF CreateTmp, SyncTmp, ChownTmp, ChmodTmp, Active, Parked, Writing, diskVars, issuer, histories, bounds
<1>12. ASSUME NEW r \in Run, Rename(r) PROVE TypeOK'
  <2>1. secret(r) \in Secret /\ val[r] \in Contents /\ val[r] \in Value
    BY <1>12, SecretType DEF Rename, Writing
  <2>2. durable' \in [Secret -> SUBSET Contents] /\ file' \in [Secret -> Contents]
    BY <1>12, <2>1 DEF Rename, Contents
  <2>. QED  BY <1>12, <2>1, <2>2 DEF Rename, Active, Parked, Writing, issuer, histories, bounds
<1>13. ASSUME NEW r \in Run, SyncDir(r) PROVE TypeOK'
  <2>1. secret(r) \in Secret
    BY SecretType
  <2>2. turn' \in 1 .. Len(Order)
    <3>1. Len(Order) \in Nat
      BY OrderAssumption
    <3>. QED  BY <1>13, <3>1 DEF SyncDir, Satisfied
  <2>3. /\ pc' \in [Run -> {"off", "done", "failed"} \cup Active]
        /\ \A q \in Run : pc'[q] \in {"validate", "undecided"} \cup Writing => val'[q] \in Value
    BY <1>13 DEF SyncDir, Satisfied, Active, Parked, Writing
  <2>4. durable' \in [Secret -> SUBSET Contents]
    BY <1>13, <2>1 DEF SyncDir
  <2>. QED  BY <1>13, <2>2, <2>3, <2>4 DEF SyncDir, issuer, histories, bounds
<1>14. ASSUME NEW r \in Run, WriteFails(r) \/ Kill(r) PROVE TypeOK'
  BY <1>14 DEF WriteFails, Kill, Active, Parked, Writing, diskVars, issuer, histories, bounds
<1>15. CASE UNCHANGED vars
  BY <1>15 DEF vars, runVars, diskVars, issuer, histories, bounds
<1>. QED
  BY <1>1, <1>2, <1>3, <1>4, <1>5, <1>6, <1>7, <1>8, <1>9, <1>10, <1>11, <1>12,
     <1>13, <1>14, <1>15 DEF Next, Write

---------------------------------------------------------------------------
(* What is proven stays proven while the collector runs.                    *)

LEMMA ProvenGrows ==
  ASSUME TypeOK, [Next]_vars, ~StartBoot, NEW s \in Secret
  PROVE  proven[s] \subseteq proven'[s] /\ rejected[s] \subseteq rejected'[s]
<1>1. ASSUME NEW r \in Run, Decided(r) PROVE proven[s] \subseteq proven'[s] /\ rejected[s] \subseteq rejected'[s]
  BY <1>1 DEF TypeOK, Decided, Decide
<1>2. CASE UNCHANGED histories
  BY <1>2 DEF histories
<1>. QED
  BY <1>1, <1>2 DEF Next, Write, StartEdit, ChooseUnknown, Check, PowerCut, Choose, Rotate,
     Answer, Undecided, Retry, CreateTmp, SyncTmp, ChownTmp, ChmodTmp, Rename, SyncDir,
     WriteFails, Kill, vars

\* A file changes when a proven value is renamed over it, or when power is cut.
LEMMA FileStep ==
  ASSUME TypeOK, WriteOK, [Next]_vars, NEW s \in Secret, file'[s] # file[s]
  PROVE  \/ PowerCut
         \/ /\ file'[s] \in proven'[s] /\ UNCHANGED <<histories, turn, val, origin, cuts>>
            /\ \E r \in Run : Rename(r) /\ s = secret(r) /\ file'[s] = val[r]
<1>1. ASSUME NEW r \in Run, Rename(r)
      PROVE  /\ file'[s] \in proven'[s] /\ UNCHANGED <<histories, turn, val, origin, cuts>>
             /\ s = secret(r) /\ file'[s] = val[r]
  <2>1. secret(r) \in Secret
    BY SecretType
  <2>2. s = secret(r) /\ file'[s] = val[r]
    BY <1>1, <2>1 DEF TypeOK, Rename
  <2>3. val[r] \in proven[secret(r)]
    BY <1>1 DEF WriteOK, Rename
  <2>. QED  BY <1>1, <2>2, <2>3 DEF Rename, histories, bounds
<1>2. CASE UNCHANGED file
  BY <1>2
<1>. QED
  BY <1>1, <1>2 DEF Next, Write, StartBoot, StartEdit, Begin, ChooseUnknown, Check, Choose, Rotate,
     Answer, Undecided, Retry, Decided, Decide, CreateTmp, SyncTmp, ChownTmp, ChmodTmp, SyncDir,
     WriteFails, Kill, vars, diskVars

\* Short of a power cut or a new collector, a proven file stays one.
LEMMA ProvenStays ==
  ASSUME TypeOK, WriteOK, [Next]_vars, ~StartBoot, ~PowerCut, NEW s \in Secret, Proven(s)
  PROVE  Proven(s)'
<1>1. CASE file'[s] = file[s]
  BY <1>1, ProvenGrows DEF Proven
<1>2. CASE file'[s] # file[s]
  BY <1>2, FileStep DEF Proven
<1>. QED  BY <1>1, <1>2

---------------------------------------------------------------------------
(* Writing.                                                                 *)

LEMMA WriteStep == TypeOK /\ WriteOK /\ [Next]_vars => WriteOK'
<1>. SUFFICES ASSUME TypeOK, WriteOK, [Next]_vars,
                     NEW q \in Run, pc'[q] \in {"create", "sync", "chown", "chmod", "rename"}
              PROVE  val'[q] \in proven'[secret(q)']
  BY DEF WriteOK
<1>. DEFINE W == {"create", "sync", "chown", "chmod", "rename"}
<1>0. secret(q) \in Secret
  BY SecretType
<1>1. CASE StartBoot
  <2>1. q = "edit" /\ pc["edit"] \in W /\ val'["edit"] = val["edit"]
    BY <1>1 DEF StartBoot, Begin, Goto, TypeOK, Run
  <2>2. secret(q)' = chosen /\ chosen \in Secret
    BY <1>1, <2>1 DEF StartBoot, secret, TypeOK
  <2>. QED  BY <1>1, <2>1, <2>2 DEF StartBoot, Writing
<1>2. ASSUME NEW r \in Run, Decided(r) PROVE val'[q] \in proven'[secret(q)']
  <2>1. secret(r) \in Secret
    BY SecretType
  <2>2. val' = val /\ chosen' = chosen
    BY <1>2 DEF Decided, Decide
  <2>3. CASE q = r
    <3>1. PICK verdict \in {"valid", "invalid"} : Decide(r, verdict)
      BY <1>2 DEF Decided
    <3>2. Accepts(r, verdict) /\ UNCHANGED turn
      BY <2>3, <3>1 DEF Decide, Satisfied, Prompt, Goto, TypeOK
    <3>3. Good(r)
      BY <3>1, <3>2, VerdictsAreTrue DEF Decide, Accepts
    <3>4. secret(q)' = secret(r)
      BY <3>2, <2>2, <2>3 DEF secret
    <3>. QED  BY <2>1, <2>2, <2>3, <3>1, <3>3, <3>4 DEF Decide, TypeOK
  <2>4. CASE q # r
    <3>1. pc'[q] = pc[q]
      BY <1>2, <2>4 DEF Decided, Decide, Satisfied, Prompt, Goto, TypeOK
    <3>2. secret(q)' = secret(q)
      BY <1>2, <2>2, <2>4 DEF Decided, Decide, Satisfied, secret, Run
    <3>3. proven[secret(q)] \subseteq proven'[secret(q)]
      BY <1>2, <2>1, <1>0 DEF Decided, Decide, TypeOK
    <3>. QED  BY <2>2, <3>1, <3>2, <3>3 DEF WriteOK
  <2>. QED  BY <2>3, <2>4
<1>3. ASSUME NEW r \in Run, SyncDir(r) PROVE val'[q] \in proven'[secret(q)']
  <2>1. q # r /\ pc'[q] = pc[q]
    BY <1>3 DEF SyncDir, Satisfied, Goto, TypeOK
  <2>2. secret(q)' = secret(q)
    BY <1>3, <2>1 DEF SyncDir, Satisfied, secret, Run
  <2>. QED  BY <1>3, <2>1, <2>2 DEF SyncDir, WriteOK, histories
<1>4. CASE UNCHANGED <<turn, chosen, val, proven>> /\ pc[q] \in W
  BY <1>4 DEF WriteOK, secret
<1>5. CASE StartEdit
  <2>1. pc[q] \in W /\ q = "boot"
    BY <1>5 DEF StartEdit, Begin, Goto, TypeOK, Run
  <2>. QED  BY <1>5, <2>1 DEF StartEdit, Active, Writing
<1>6. ASSUME NEW s \in Secret, Choose(s) PROVE val'[q] \in proven'[secret(q)']
  <2>1. pc[q] \in W /\ q = "boot"
    BY <1>6 DEF Choose, Prompt, Goto, TypeOK, Run
  <2>. QED  BY <1>6, <2>1 DEF Choose, secret, WriteOK, histories
<1>7. CASE Check
  <2>1. pc[q] \in W /\ q = "edit"
    BY <1>7 DEF Check, Prompt, Goto, TypeOK, Run
  <2>. QED  BY <1>7, <2>1 DEF Check, secret, WriteOK, histories, TypeOK
<1>8. ASSUME NEW r \in Run, NEW v \in Value, Answer(r, v) PROVE val'[q] \in proven'[secret(q)']
  <2>1. pc[q] \in W /\ q # r
    BY <1>8 DEF Answer, Goto, TypeOK
  <2>. QED  BY <1>8, <2>1 DEF Answer, secret, WriteOK, histories, TypeOK
<1>9. CASE PowerCut
  BY <1>9 DEF PowerCut
<1>10. ASSUME NEW r \in Run, Undecided(r) \/ Retry(r) \/ WriteFails(r) \/ Kill(r)
       PROVE val'[q] \in proven'[secret(q)']
  BY <1>4, <1>10 DEF Undecided, AfterError, Retry, WriteFails, Kill, Goto, histories, TypeOK
<1>11. ASSUME NEW r \in Run, CreateTmp(r) \/ SyncTmp(r) \/ ChownTmp(r) \/ ChmodTmp(r) \/ Rename(r)
       PROVE val'[q] \in proven'[secret(q)']
  BY <1>4, <1>11 DEF CreateTmp, SyncTmp, ChownTmp, ChmodTmp, Rename, Goto, histories, TypeOK
<1>12. CASE ChooseUnknown
  BY <1>4, <1>12 DEF ChooseUnknown, Goto, histories, TypeOK
<1>13. ASSUME NEW s \in Secret, NEW v \in Value, Rotate(s, v) PROVE val'[q] \in proven'[secret(q)']
  BY <1>4, <1>13 DEF Rotate, runVars, histories
<1>14. CASE UNCHANGED vars
  BY <1>4, <1>14 DEF vars, runVars, histories
<1>. QED
  BY <1>1, <1>2, <1>3, <1>5, <1>6, <1>7, <1>8, <1>9, <1>10, <1>11, <1>12, <1>13, <1>14
     DEF Next, Write

---------------------------------------------------------------------------
(* The collector's progress.                                                *)

\* The collector takes a secret as satisfied.
BootSatisfied ==
    \/ Decide("boot", "valid") /\ origin["boot"] = "stored"
    \/ SyncDir("boot")

LEMMA SatisfiedIsProven ==
  ASSUME TypeOK, Judged, BootSatisfied
  PROVE  file'[Order[turn]] \in proven'[Order[turn]]
<1>0. "boot" \in Run /\ Order[turn] \in Secret /\ secret("boot") = Order[turn]
  BY SecretType DEF Run, secret
<1>1. CASE Decide("boot", "valid") /\ origin["boot"] = "stored"
  <2>1. val["boot"] = file[Order[turn]] \/ Proven(Order[turn])
    BY <1>0, <1>1 DEF Judged, Decide
  <2>0. Good("boot")
    BY <1>0, <1>1, VerdictsAreTrue DEF Decide
  <2>2. /\ proven'[Order[turn]] = proven[Order[turn]] \cup {val["boot"]}
        /\ file' = file
    BY <1>0, <1>1, <2>0 DEF TypeOK, Decide, diskVars
  <2>. QED  BY <2>1, <2>2 DEF Proven
<1>2. CASE SyncDir("boot")
  BY <1>0, <1>2 DEF Judged, SyncDir, Proven, histories
<1>. QED  BY <1>1, <1>2 DEF BootSatisfied

\* Any other step leaves the collector where it is in the order, and does not
\* release the boot.
LEMMA BootElse ==
  ASSUME TypeOK, [Next]_vars, ~StartBoot, ~PowerCut, ~BootSatisfied
  PROVE  /\ turn' = turn
         /\ pc'["boot"] = "done" => pc["boot"] = "done"
         /\ pc'["boot"] \in Active => pc["boot"] \in Active
<1>. DEFINE Goal == /\ turn' = turn
                    /\ pc'["boot"] = "done" => pc["boot"] = "done"
                    /\ pc'["boot"] \in Active => pc["boot"] \in Active
<1>. USE DEF TypeOK, Goto, Run
<1>1. ASSUME NEW r \in Run, Decided(r) PROVE Goal
  BY <1>1 DEF BootSatisfied, Decided, Decide, Accepts, Satisfied, Prompt, Active, Parked
<1>2. ASSUME NEW r \in Run, SyncDir(r) PROVE Goal
  BY <1>2 DEF BootSatisfied, SyncDir, Satisfied, Active
<1>3. ASSUME NEW r \in Run,
             \/ CreateTmp(r) \/ SyncTmp(r) \/ ChownTmp(r) \/ ChmodTmp(r)
             \/ Rename(r) \/ WriteFails(r)
      PROVE Goal
  BY <1>3 DEF CreateTmp, SyncTmp, ChownTmp, ChmodTmp, Rename, WriteFails, Active, Writing
<1>4. ASSUME NEW r \in Run, Undecided(r) \/ Retry(r) \/ Kill(r) PROVE Goal
  BY <1>4 DEF Undecided, AfterError, Retry, Kill, Active, Parked
<1>5. ASSUME NEW r \in Run, NEW v \in Value, Answer(r, v) PROVE Goal
  BY <1>5 DEF Answer, Active, Parked
<1>6. CASE Check
  BY <1>6 DEF Check, Prompt, Active, Parked
<1>7. ASSUME NEW s \in Secret, NEW v \in Value, Choose(s) \/ Rotate(s, v) PROVE Goal
  BY <1>7 DEF Choose, Prompt, Rotate, runVars
<1>8. ASSUME NEW s \in Secret, Choose(s) PROVE Goal
  BY <1>8 DEF Choose, Prompt
<1>9. CASE StartEdit \/ ChooseUnknown
  BY <1>9 DEF StartEdit, Begin, ChooseUnknown
<1>10. CASE UNCHANGED vars
  BY <1>10 DEF vars, runVars
<1>. QED
  BY <1>1, <1>2, <1>3, <1>4, <1>5, <1>6, <1>7, <1>8, <1>9, <1>10 DEF Next, Write

LEMMA Released ==
  ASSUME TypeOK, WriteOK, Judged, Behind, [Next]_vars, BootSatisfied,
         NEW j \in 1 .. turn
  PROVE  file'[Order[j]] \in proven'[Order[j]]
<1>0. Order[j] \in Secret
  BY OrderAssumption DEF TypeOK
<1>1. ~StartBoot /\ ~PowerCut
  <2>1. UNCHANGED <<starts, cuts>> /\ starts \in Nat /\ cuts \in Nat
    BY DEF BootSatisfied, Decided, Decide, SyncDir, bounds, TypeOK
  <2>. QED  BY <2>1 DEF StartBoot, Begin, PowerCut
<1>2. pc["boot"] \in Active
  BY DEF BootSatisfied, Decided, Decide, SyncDir, Active, Parked, Writing
<1>3. CASE j = turn
  BY <1>3, SatisfiedIsProven
<1>4. CASE j # turn
  <2>1. j \in 1 .. turn - 1
    BY <1>4 DEF TypeOK
  <2>2. Proven(Order[j])
    BY <1>2, <2>1 DEF Behind
  <2>. QED  BY <1>0, <1>1, <2>2, ProvenStays DEF Proven
<1>. QED  BY <1>3, <1>4

LEMMA BehindStep ==
  ASSUME TypeOK, WriteOK, Judged, Behind, [Next]_vars
  PROVE  Behind'
<1>0. turn \in Nat \ {0} /\ turn <= Len(Order) /\ Len(Order) \in Nat
  BY OrderAssumption DEF TypeOK
<1>1. CASE StartBoot
  BY <1>1 DEF StartBoot, Behind
<1>2. CASE PowerCut
  BY <1>2 DEF PowerCut, Behind, Active, Parked, Writing, Run
<1>3. CASE BootSatisfied
  <2>1. turn' = turn \/ turn' = turn + 1
    BY <1>3 DEF BootSatisfied, Decided, Decide, SyncDir, Satisfied, Prompt
  <2>2. 1 .. turn' - 1 \subseteq 1 .. turn
    BY <1>0, <2>1
  <2>. QED  BY <1>3, <2>2, Released DEF Behind, Proven
<1>4. CASE ~StartBoot /\ ~PowerCut /\ ~BootSatisfied
  <2>. SUFFICES ASSUME pc'["boot"] \in Active, NEW j \in 1 .. turn' - 1
                PROVE  file'[Order[j]] \in proven'[Order[j]]
    BY DEF Behind, Proven
  <2>1. pc["boot"] \in Active /\ j \in 1 .. turn - 1
    BY <1>4, BootElse
  <2>2. Proven(Order[j]) /\ Order[j] \in Secret
    BY <1>0, <2>1, OrderAssumption DEF Behind
  <2>. QED  BY <1>4, <2>2, ProvenStays DEF Proven
<1>. QED  BY <1>1, <1>2, <1>3, <1>4

LEMMA ReleasedStep ==
  ASSUME TypeOK, WriteOK, Judged, Behind, ReleasedMeansProven, [Next]_vars
  PROVE  ReleasedMeansProven'
<1>. SUFFICES ASSUME pc'["boot"] = "done", NEW s \in Secret
              PROVE  file'[s] \in proven'[s]
  BY DEF ReleasedMeansProven
<1>1. ~StartBoot /\ ~PowerCut
  BY DEF StartBoot, Begin, Goto, PowerCut, TypeOK, Run
<1>2. CASE BootSatisfied
  <2>1. turn = Len(Order)
    <3>1. turn \in 1 .. Len(Order) /\ Len(Order) \in Nat
      BY OrderAssumption DEF TypeOK
    <3>2. ~(turn < Len(Order))
      BY <1>2 DEF BootSatisfied, Decided, Decide, SyncDir, Satisfied, Prompt, Goto, TypeOK, Run
    <3>. QED  BY <3>1, <3>2
  <2>2. PICK j \in 1 .. turn : Order[j] = s
    BY <2>1, OrderAssumption
  <2>3. file'[Order[j]] \in proven'[Order[j]]
    BY <1>2, Released
  <2>. QED  BY <2>2, <2>3
<1>3. CASE ~BootSatisfied
  <2>1. Proven(s)
    BY <1>1, <1>3, BootElse DEF ReleasedMeansProven, Proven
  <2>. QED  BY <1>1, <2>1, ProvenStays DEF Proven
<1>. QED  BY <1>2, <1>3

---------------------------------------------------------------------------
(* What the collector judges.                                               *)

\* A stored credential under judgement was read by Check and is kept since.
LEMMA StillJudging ==
  ASSUME TypeOK, [Next]_vars, ~Check,
         pc'["boot"] \in {"validate", "undecided"}, origin'["boot"] = "stored"
  PROVE  /\ pc["boot"] \in {"validate", "undecided"} /\ origin["boot"] = "stored"
         /\ val'["boot"] = val["boot"] /\ turn' = turn /\ ~StartBoot /\ ~PowerCut
<1>. DEFINE Goal == /\ pc["boot"] \in {"validate", "undecided"} /\ origin["boot"] = "stored"
                    /\ val'["boot"] = val["boot"] /\ turn' = turn
<1>. USE DEF TypeOK, Goto, Run
<1>0. ~StartBoot /\ ~PowerCut
  BY DEF StartBoot, Begin, PowerCut
<1>1. ASSUME NEW r \in Run, Decided(r) PROVE Goal
  BY <1>1 DEF Decided, Decide, Satisfied, Prompt
<1>2. ASSUME NEW r \in Run, SyncDir(r) PROVE Goal
  BY <1>2 DEF SyncDir, Satisfied
<1>3. ASSUME NEW r \in Run,
             \/ CreateTmp(r) \/ SyncTmp(r) \/ ChownTmp(r) \/ ChmodTmp(r)
             \/ Rename(r) \/ WriteFails(r)
      PROVE Goal
  BY <1>3 DEF CreateTmp, SyncTmp, ChownTmp, ChmodTmp, Rename, WriteFails
<1>4. ASSUME NEW r \in Run, Undecided(r) \/ Retry(r) \/ Kill(r) PROVE Goal
  BY <1>4 DEF Undecided, AfterError, Retry, Kill
<1>5. ASSUME NEW r \in Run, NEW v \in Value, Answer(r, v) PROVE Goal
  BY <1>5 DEF Answer
<1>6. ASSUME NEW s \in Secret, Choose(s) PROVE Goal
  BY <1>6 DEF Choose, Prompt
<1>7. ASSUME NEW s \in Secret, NEW v \in Value, Rotate(s, v) PROVE Goal
  BY <1>7 DEF Rotate, runVars
<1>8. CASE StartEdit \/ ChooseUnknown
  BY <1>0, <1>8 DEF StartEdit, Begin, ChooseUnknown
<1>9. CASE UNCHANGED vars
  BY <1>0, <1>9 DEF vars, runVars
<1>. QED
  BY <1>0, <1>1, <1>2, <1>3, <1>4, <1>5, <1>6, <1>7, <1>8, <1>9 DEF Next, Write

\* Only Rename brings the collector to the directory sync.
LEMMA StillSyncing ==
  ASSUME TypeOK, [Next]_vars, ~Rename("boot"), pc'["boot"] = "syncdir"
  PROVE  pc["boot"] = "syncdir" /\ turn' = turn /\ ~StartBoot /\ ~PowerCut
<1>. DEFINE Goal == pc["boot"] = "syncdir" /\ turn' = turn
<1>. USE DEF TypeOK, Goto, Run
<1>0. ~StartBoot /\ ~PowerCut
  BY DEF StartBoot, Begin, PowerCut
<1>1. ASSUME NEW r \in Run, Decided(r) PROVE Goal
  BY <1>1 DEF Decided, Decide, Satisfied, Prompt
<1>2. ASSUME NEW r \in Run, SyncDir(r) PROVE Goal
  BY <1>2 DEF SyncDir, Satisfied
<1>3. ASSUME NEW r \in Run,
             \/ CreateTmp(r) \/ SyncTmp(r) \/ ChownTmp(r) \/ ChmodTmp(r)
             \/ Rename(r) \/ WriteFails(r)
      PROVE Goal
  BY <1>3 DEF CreateTmp, SyncTmp, ChownTmp, ChmodTmp, Rename, WriteFails
<1>4. ASSUME NEW r \in Run, Undecided(r) \/ Retry(r) \/ Kill(r) PROVE Goal
  BY <1>4 DEF Undecided, AfterError, Retry, Kill
<1>5. ASSUME NEW r \in Run, NEW v \in Value, Answer(r, v) PROVE Goal
  BY <1>5 DEF Answer
<1>6. ASSUME NEW s \in Secret, Choose(s) PROVE Goal
  BY <1>6 DEF Choose, Prompt
<1>7. ASSUME NEW s \in Secret, NEW v \in Value, Rotate(s, v) PROVE Goal
  BY <1>7 DEF Rotate, runVars
<1>8. CASE StartEdit \/ ChooseUnknown \/ Check
  BY <1>0, <1>8 DEF StartEdit, Begin, ChooseUnknown, Check, Prompt
<1>9. CASE UNCHANGED vars
  BY <1>0, <1>9 DEF vars, runVars
<1>. QED
  BY <1>0, <1>1, <1>2, <1>3, <1>4, <1>5, <1>6, <1>7, <1>8, <1>9 DEF Next, Write

LEMMA JudgedStep ==
  ASSUME TypeOK, WriteOK, Judged, [Next]_vars
  PROVE  Judged'
<1>. DEFINE s == Order[turn]
<1>0. s \in Secret /\ secret("boot") = s /\ (turn' = turn => secret("boot")' = s)
  BY OrderAssumption DEF TypeOK, secret
<1>1. ASSUME pc'["boot"] \in {"validate", "undecided"}, origin'["boot"] = "stored"
      PROVE  (val["boot"] = file[secret("boot")] \/ Proven(secret("boot")))'
  <2>1. CASE Check
    BY <1>0, <2>1 DEF Check, diskVars, TypeOK, Run
  <2>2. CASE ~Check
    <3>1. /\ val["boot"] = file[s] \/ Proven(s)
          /\ val'["boot"] = val["boot"] /\ turn' = turn /\ ~StartBoot /\ ~PowerCut
      BY <1>0, <1>1, <2>2, StillJudging DEF Judged
    <3>2. CASE file'[s] = file[s]
      <4>1. proven[s] \subseteq proven'[s]
        BY <1>0, <3>1, ProvenGrows
      <4>. QED  BY <1>0, <3>1, <3>2, <4>1 DEF Proven
    <3>3. CASE file'[s] # file[s]
      <4>1. file'[s] \in proven'[s]
        BY <1>0, <3>1, <3>3, FileStep
      <4>. QED  BY <1>0, <3>1, <4>1 DEF Proven
    <3>. QED  BY <3>2, <3>3
  <2>. QED  BY <2>1, <2>2
<1>2. ASSUME pc'["boot"] = "syncdir" PROVE Proven(secret("boot"))'
  <2>1. CASE Rename("boot")
    BY <1>0, <2>1 DEF Rename, WriteOK, Proven, TypeOK, histories, Run
  <2>2. CASE ~Rename("boot")
    <3>1. Proven(s) /\ turn' = turn /\ ~StartBoot /\ ~PowerCut
      BY <1>0, <1>2, <2>2, StillSyncing DEF Judged
    <3>2. file'[s] \in proven'[s]
      BY <1>0, <3>1, ProvenStays DEF Proven
    <3>. QED  BY <1>0, <3>1, <3>2 DEF Proven
  <2>. QED  BY <2>1, <2>2
<1>. QED  BY <1>1, <1>2 DEF Judged

---------------------------------------------------------------------------
(* Files, temporary files and what a power cut may leave.                   *)

LEMMA TmpStep ==
  ASSUME TypeOK, TmpOK, [Next]_vars
  PROVE  TmpOK'
<1>. USE DEF TypeOK, TmpOK, Goto, Run
<1>1. ASSUME NEW r \in Run, Decided(r) PROVE TmpOK'
  BY <1>1 DEF Decided, Decide, Satisfied, Prompt
<1>2. ASSUME NEW r \in Run, SyncDir(r) PROVE TmpOK'
  BY <1>2 DEF SyncDir, Satisfied
<1>3. ASSUME NEW r \in Run, CreateTmp(r) \/ SyncTmp(r) \/ ChownTmp(r) \/ ChmodTmp(r)
      PROVE TmpOK'
  BY <1>3 DEF CreateTmp, SyncTmp, ChownTmp, ChmodTmp
<1>4. ASSUME NEW r \in Run, Rename(r) \/ WriteFails(r) \/ Kill(r) PROVE TmpOK'
  BY <1>4 DEF Rename, WriteFails, Kill
<1>5. ASSUME NEW r \in Run, Undecided(r) \/ Retry(r) PROVE TmpOK'
  BY <1>5 DEF Undecided, AfterError, Retry
<1>6. ASSUME NEW r \in Run, NEW v \in Value, Answer(r, v) PROVE TmpOK'
  BY <1>6 DEF Answer
<1>7. ASSUME NEW s \in Secret, Choose(s) PROVE TmpOK'
  BY <1>7 DEF Choose, Prompt
<1>8. ASSUME NEW s \in Secret, NEW v \in Value, Rotate(s, v) PROVE TmpOK'
  BY <1>8 DEF Rotate, runVars
<1>9. CASE StartBoot \/ StartEdit \/ ChooseUnknown \/ Check \/ PowerCut
  BY <1>9 DEF StartBoot, StartEdit, Begin, ChooseUnknown, Check, Prompt, PowerCut
<1>10. CASE UNCHANGED vars
  BY <1>10 DEF vars, runVars
<1>. QED
  BY <1>1, <1>2, <1>3, <1>4, <1>5, <1>6, <1>7, <1>8, <1>9, <1>10 DEF Next, Write

\* What is renamed is synced, so a power cut keeps it whole.
LEMMA DurableStep ==
  ASSUME TypeOK, TmpOK, DurableOK, NeverHalfWritten, [Next]_vars
  PROVE  DurableOK' /\ NeverHalfWritten'
<1>. USE DEF DurableOK, NeverHalfWritten
<1>1. ASSUME NEW r \in Run, Rename(r) PROVE DurableOK' /\ NeverHalfWritten'
  <2>1. secret(r) \in Secret /\ val[r] \in Value /\ tmp[r] = "final"
    BY <1>1, SecretType DEF Rename, TypeOK, Writing, TmpOK
  <2>2. val[r] # "torn"
    BY <2>1, ContentsAssumption
  <2>3. /\ file' = [file EXCEPT ![secret(r)] = val[r]]
        /\ durable' = [durable EXCEPT ![secret(r)] = @ \cup {val[r]}]
    BY <1>1, <2>1 DEF Rename
  <2>. QED  BY <2>1, <2>2, <2>3 DEF TypeOK
<1>2. ASSUME NEW r \in Run, SyncDir(r) PROVE DurableOK' /\ NeverHalfWritten'
  BY <1>2, SecretType DEF SyncDir, TypeOK
<1>3. CASE PowerCut
  <2>1. \A s \in Secret : file'[s] \in durable[s] /\ durable'[s] = {file'[s]}
    BY <1>3 DEF PowerCut
  <2>. QED  BY <2>1
<1>4. CASE UNCHANGED diskVars
  BY <1>4 DEF diskVars
<1>. QED
  BY <1>1, <1>2, <1>3, <1>4
     DEF Next, Write, StartBoot, StartEdit, Begin, ChooseUnknown, Check, Choose, Rotate,
         Answer, Undecided, Retry, Decided, Decide, CreateTmp, SyncTmp, ChownTmp, ChmodTmp,
         WriteFails, Kill, vars

---------------------------------------------------------------------------
(* What the operator is shown.                                              *)

LEMMA AskedStep ==
  ASSUME TypeOK, AskedForAReason, [Next]_vars
  PROVE  AskedForAReason'
<1>. DEFINE s == Order[turn]
            Reasons == {"absent", "partial", "torn"}
<1>0. "boot" \in Run /\ s \in Secret /\ secret("boot") = s /\ (turn' = turn => secret("boot")' = s)
  BY OrderAssumption DEF TypeOK, secret, Run
<1>. USE DEF TypeOK, Goto, Run
<1>. SUFFICES ASSUME pc'["boot"] = "ask"
              PROVE  turn' = turn /\ val'["boot"] \in Reasons \cup rejected'[s]
  BY <1>0 DEF AskedForAReason
<1>. DEFINE Goal == turn' = turn /\ val'["boot"] \in Reasons \cup rejected'[s]
            Same == pc["boot"] = "ask" /\ val'["boot"] = val["boot"] /\ turn' = turn
<1>1. CASE Check
  BY <1>0, <1>1 DEF Check, Complete, Contents, histories
<1>2. CASE Decided("boot")
  <2>0. PICK verdict \in {"valid", "invalid"} : Decide("boot", verdict)
    BY <1>2 DEF Decided
  <2>1. ~Accepts("boot", verdict) /\ turn' = turn /\ val' = val
    BY <2>0 DEF Decide, Satisfied
  <2>2. ~Good("boot")
    BY <1>0, <2>0, <2>1, VerdictsAreTrue DEF Accepts, Decide
  <2>3. rejected'[s] = rejected[s] \cup {val["boot"]}
    BY <1>0, <2>0, <2>2 DEF Decide
  <2>. QED  BY <2>1, <2>3
<1>3. ASSUME Same, ~StartBoot PROVE Goal
  <2>1. rejected[s] \subseteq rejected'[s]
    BY <1>0, <1>3, ProvenGrows
  <2>. QED  BY <1>0, <1>3, <2>1 DEF AskedForAReason
<1>4. ~StartBoot /\ ~PowerCut
  BY DEF StartBoot, Begin, PowerCut
<1>5. ASSUME NEW r \in Run, r # "boot", Decided(r) PROVE Same
  BY <1>5 DEF Decided, Decide, Satisfied, Prompt
<1>6. ASSUME NEW r \in Run, SyncDir(r) PROVE Same
  BY <1>6 DEF SyncDir, Satisfied
<1>7. ASSUME NEW r \in Run,
             \/ CreateTmp(r) \/ SyncTmp(r) \/ ChownTmp(r) \/ ChmodTmp(r)
             \/ Rename(r) \/ WriteFails(r)
      PROVE Same
  BY <1>7 DEF CreateTmp, SyncTmp, ChownTmp, ChmodTmp, Rename, WriteFails
<1>8. ASSUME NEW r \in Run, Undecided(r) \/ Retry(r) \/ Kill(r) PROVE Same
  BY <1>8 DEF Undecided, AfterError, Retry, Kill
<1>9. ASSUME NEW r \in Run, NEW v \in Value, Answer(r, v) PROVE Same
  BY <1>9 DEF Answer
<1>10. ASSUME NEW x \in Secret, Choose(x) PROVE Same
  BY <1>10 DEF Choose, Prompt
<1>11. ASSUME NEW x \in Secret, NEW v \in Value, Rotate(x, v) PROVE Same
  BY <1>11 DEF Rotate, runVars
<1>12. CASE StartEdit \/ ChooseUnknown
  <2>1. Same
    BY <1>12 DEF StartEdit, Begin, ChooseUnknown
  <2>. QED  BY <1>3, <1>4, <2>1
<1>13. CASE UNCHANGED vars
  <2>1. Same
    BY <1>13 DEF vars, runVars
  <2>. QED  BY <1>3, <1>4, <2>1
<1>. QED
  BY <1>1, <1>2, <1>3, <1>4, <1>5, <1>6, <1>7, <1>8, <1>9, <1>10, <1>11, <1>12, <1>13
     DEF Next, Write

LEMMA BlockStep ==
  ASSUME TypeOK, BlockOK, [Next]_vars
  PROVE  BlockOK'
<1>. USE DEF TypeOK, BlockOK, Goto, Run
<1>1. ASSUME NEW r \in Run, Decided(r) PROVE BlockOK'
  BY <1>1 DEF Decided, Decide, Satisfied, Prompt, Active, Parked
<1>2. ASSUME NEW r \in Run, SyncDir(r) PROVE BlockOK'
  BY <1>2 DEF SyncDir, Satisfied, Active, Parked, Writing
<1>3. ASSUME NEW r \in Run,
             CreateTmp(r) \/ SyncTmp(r) \/ ChownTmp(r) \/ ChmodTmp(r) \/ Rename(r)
      PROVE BlockOK'
  BY <1>3 DEF CreateTmp, SyncTmp, ChownTmp, ChmodTmp, Rename, Active, Parked, Writing
<1>4. ASSUME NEW r \in Run, WriteFails(r) \/ Kill(r) PROVE BlockOK'
  BY <1>4 DEF WriteFails, Kill, Active, Parked, Writing
<1>5. ASSUME NEW r \in Run, Undecided(r) \/ Retry(r) PROVE BlockOK'
  BY <1>5 DEF Undecided, AfterError, Retry, Active, Parked
<1>6. ASSUME NEW r \in Run, NEW v \in Value, Answer(r, v) PROVE BlockOK'
  BY <1>6 DEF Answer, Active, Parked
<1>7. ASSUME NEW s \in Secret, Choose(s) PROVE BlockOK'
  BY <1>7 DEF Choose, Prompt, Active, Parked
<1>8. ASSUME NEW s \in Secret, NEW v \in Value, Rotate(s, v) PROVE BlockOK'
  BY <1>8 DEF Rotate, runVars
<1>9. CASE StartBoot \/ StartEdit
  BY <1>9 DEF StartBoot, StartEdit, Begin
<1>10. CASE Check
  BY <1>10 DEF Check, Complete, Prompt, Active, Parked
<1>11. CASE ChooseUnknown \/ PowerCut
  BY <1>11 DEF ChooseUnknown, PowerCut, Active, Parked, Writing
<1>12. CASE UNCHANGED vars
  BY <1>12 DEF vars, runVars
<1>. QED
  BY <1>1, <1>2, <1>3, <1>4, <1>5, <1>6, <1>7, <1>8, <1>9, <1>10, <1>11, <1>12
     DEF Next, Write

---------------------------------------------------------------------------
LEMMA IInvStep == IInv /\ [Next]_vars => IInv'
<1>. SUFFICES ASSUME IInv, [Next]_vars PROVE IInv'
  OBVIOUS
<1>1. /\ TypeOK /\ WriteOK /\ Behind /\ Judged /\ TmpOK /\ DurableOK /\ BlockOK
      /\ ReleasedMeansProven /\ AskedForAReason /\ NeverHalfWritten
  BY DEF IInv
<1>. QED
  BY <1>1, TypeStep, WriteStep, BehindStep, ReleasedStep, JudgedStep, TmpStep,
     DurableStep, AskedStep, BlockStep DEF IInv

(* The collector's invariant: what is behind it, what it judges and what is  *)
(* about to be renamed is proven, and a block belongs to a repeated try.    *)
THEOREM SpecIInv == Spec => []IInv
  BY InitIInv, IInvStep, PTL DEF Spec

(* Type correctness: only a complete file or an accepted form reaches a      *)
(* validator or the disk (daemon.rs:511-535, lib.rs:524-552).               *)
THEOREM SpecTypeOK == Spec => []TypeOK
<1>1. IInv => TypeOK
  BY DEF IInv
<1>. QED  BY SpecIInv, <1>1, PTL

(* A released boot has a proven value in every secret's file, whatever edit  *)
(* sessions, switches and rotations did meanwhile (daemon.rs:889-905).      *)
THEOREM SpecReleasedMeansProven == Spec => []ReleasedMeansProven
<1>1. IInv => ReleasedMeansProven
  BY DEF IInv
<1>. QED  BY SpecIInv, <1>1, PTL

(* The collector asks only for what is missing or was called invalid, never  *)
(* after a failure to decide (daemon.rs:434-443).                           *)
THEOREM SpecAskedForAReason == Spec => []AskedForAReason
<1>1. IInv => AskedForAReason
  BY DEF IInv
<1>. QED  BY SpecIInv, <1>1, PTL

(* The block on the screen ends with the validator's failure                *)
(* (daemon.rs:461-472).                                                     *)
THEOREM SpecBlockedIsHonest == Spec => []BlockedIsHonest
<1>1. IInv => BlockedIsHonest
  BY DEF IInv, BlockOK, BlockedIsHonest
<1>. QED  BY SpecIInv, <1>1, PTL

(* No power cut leaves a credential cut short (daemon.rs:404-433).          *)
THEOREM SpecNeverHalfWritten == Spec => []NeverHalfWritten
<1>1. IInv => NeverHalfWritten
  BY DEF IInv
<1>. QED  BY SpecIInv, <1>1, PTL

(* A stored file is replaced by a proven value only, short of a power cut    *)
(* that brings back an older one (daemon.rs:594-600).                       *)
THEOREM SpecOnlyProvenIsWritten == Spec => OnlyProvenIsWritten
<1>. DEFINE Step == \A s \in Secret : file'[s] # file[s] =>
                file'[s] \in proven[s] \/ (cuts' # cuts /\ file'[s] \in durable[s])
<1>1. IInv /\ [Next]_vars => [Step]_vars
  <2>. SUFFICES ASSUME IInv, [Next]_vars, NEW s \in Secret, file'[s] # file[s]
                PROVE  file'[s] \in proven[s] \/ (cuts' # cuts /\ file'[s] \in durable[s])
    OBVIOUS
  <2>1. TypeOK /\ WriteOK
    BY DEF IInv
  <2>2. CASE PowerCut
    BY <2>1, <2>2 DEF PowerCut, TypeOK
  <2>. QED  BY <2>1, <2>2, FileStep DEF histories
<1>. QED  BY SpecIInv, <1>1, PTL DEF Spec, OnlyProvenIsWritten
===========================================================================
