-------------------------- MODULE OperatorSecrets --------------------------
(* operator-secretsd: brings every declared secret to a stored file that its *)
(* validator has proven, and releases the boot then (daemon.rs satisfy,      *)
(* prompt_until_accepted, write_secret, edit_session, run).                  *)
(*                                                                           *)
(* Two runs of the daemon exist: the collector of a boot (or of a switch     *)
(* that restarts it) and an edit session an operator starts later.  They     *)
(* share nothing but the files.  A credential is a model value; a form that  *)
(* accept_submission refuses is asked again and changes nothing else.        *)
EXTENDS OidcValidator

CONSTANTS
    Secret,       \* the declared secrets
    Order,        \* the collector's order: every secret once
    Presence,     \* the secrets without a validator: presence is enough
    Value,        \* complete field lists a file can hold or a form can bring
    MaxStarts,    \* bound: starts of either daemon
    MaxCuts,      \* bound: power cuts
    MaxRotations  \* bound: changes of what the issuers accept

ASSUME OrderAssumption ==
    /\ Order \in Seq(Secret) /\ Len(Order) > 0
    /\ \A s \in Secret : \E i \in 1..Len(Order) : Order[i] = s
ASSUME PresenceAssumption == Presence \subseteq Secret
ASSUME ContentsAssumption == {"absent", "partial", "torn"} \cap Value = {}
ASSUME BoundsAssumption == MaxStarts \in Nat /\ MaxCuts \in Nat /\ MaxRotations \in Nat

Run == {"boot", "edit"}

VARIABLES
    pc,        \* where each run is
    turn,      \* which secret of Order the collector works on
    chosen,    \* the secret of the edit session
    val,       \* values: what the run read, or what the operator entered
    origin,    \* "stored" credentials or "entered" ones
    attempt,   \* validate_until_decided: the first try, or a repeated one
    blocked,   \* snapshot.blocked
    tmp,       \* the run's temporary file
    file,      \* what each secret's path holds
    durable,   \* what each path may hold after a power cut
    accepts,   \* the credentials each issuer accepts now
    proven,    \* history: values the issuer accepted when they were judged
    rejected,  \* history: values it did not accept then
    starts, cuts, rotations

runVars   == <<pc, turn, chosen, val, origin, attempt, blocked, tmp>>
diskVars  == <<file, durable>>
issuer    == <<accepts, rotations>>
histories == <<proven, rejected>>
bounds    == <<starts, cuts>>
vars      == <<runVars, diskVars, issuer, histories, bounds>>

\* StoredState by classify_stored; "torn" is content a power cut left incomplete.
Contents == {"absent", "partial", "torn"} \cup Value
Parked   == {"check", "ask", "validate", "undecided"}
Writing  == {"create", "sync", "chown", "chmod", "rename", "syncdir"}
Active   == {"choose"} \cup Parked \cup Writing

TypeOK ==
    /\ pc \in [Run -> {"off", "done", "failed"} \cup Active]
    /\ turn \in 1..Len(Order)
    /\ chosen \in Secret
    /\ val \in [Run -> Contents]
    /\ origin \in [Run -> {"stored", "entered"}]
    /\ attempt \in [Run -> {"first", "again"}]
    /\ blocked \in [Run -> {"no", "yes"}]
    /\ tmp \in [Run -> {"none", "written", "synced", "owned", "final"}]
    /\ file \in [Secret -> Contents]
    /\ durable \in [Secret -> SUBSET Contents]
    /\ accepts \in [Secret -> SUBSET Value]
    /\ proven \in [Secret -> SUBSET Value]
    /\ rejected \in [Secret -> SUBSET Value]
    /\ starts \in Nat /\ cuts \in Nat /\ rotations \in Nat
    /\ \A r \in Run : pc[r] \in {"validate", "undecided"} \cup Writing => val[r] \in Value

Init ==
    /\ pc = [r \in Run |-> "off"]
    /\ turn = 1 /\ chosen = Order[1]
    /\ val = [r \in Run |-> "absent"]
    /\ origin = [r \in Run |-> "stored"]
    /\ attempt = [r \in Run |-> "first"]
    /\ blocked = [r \in Run |-> "no"]
    /\ tmp = [r \in Run |-> "none"]
    /\ file \in [Secret -> Contents \ {"torn"}]
    /\ durable = [s \in Secret |-> {file[s]}]
    /\ accepts \in [Secret -> {{v} : v \in Value}]
    /\ proven = [s \in Secret |-> {}] /\ rejected = [s \in Secret |-> {}]
    /\ starts = 0 /\ cuts = 0 /\ rotations = 0

---------------------------------------------------------------------------
(* A run, its secret and its place.                                         *)

secret(r) == IF r = "boot" THEN Order[turn] ELSE chosen
Goto(r, p) == pc' = [pc EXCEPT ![r] = p]

\* prompt_until_accepted posts the form for what was read or refused.
Prompt(r) == Goto(r, "ask")

\* A secret is satisfied: the collector takes the next one, or releases the
\* boot after the last; an edit session ends.
Satisfied(r) ==
    IF r = "boot" /\ turn < Len(Order)
      THEN Goto(r, "check") /\ turn' = turn + 1
      ELSE Goto(r, "done") /\ UNCHANGED turn

---------------------------------------------------------------------------
(* run: a daemon starts and resolves every owner first.                     *)

Begin(r, p) ==
    /\ pc[r] \notin Active /\ starts < MaxStarts
    /\ starts' = starts + 1
    /\ \/ Goto(r, p)
       \/ Goto(r, "failed")   \* an unknown owner or group, a socket directory not ours
    /\ blocked' = [blocked EXCEPT ![r] = "no"]
    /\ val' = [val EXCEPT ![r] = "absent"]
    /\ origin' = [origin EXCEPT ![r] = "stored"]
    /\ attempt' = [attempt EXCEPT ![r] = "first"]

\* The collector judges every stored file anew.  What an edit session that is
\* already writing had proven stays proven.
StartBoot ==
    /\ Begin("boot", "check")
    /\ turn' = 1
    /\ proven' = [s \in Secret |->
          IF pc["edit"] \in Writing /\ s = chosen THEN {val["edit"]} ELSE {}]
    /\ rejected' = [s \in Secret |-> {}]
    /\ UNCHANGED <<chosen, tmp, diskVars, issuer, cuts>>

\* The edit unit is ordered after a collector that is still at work; a
\* collector restarted by a switch does not wait for an edit session.
StartEdit ==
    /\ pc["boot"] \notin Active
    /\ Begin("edit", "choose")
    /\ UNCHANGED <<turn, chosen, tmp, diskVars, issuer, histories, cuts>>

\* edit_session: the operator picks a secret and its form goes up unchecked;
\* a name this host does not declare ends the session.
Choose(s) ==
    /\ pc["edit"] = "choose"
    /\ chosen' = s
    /\ Prompt("edit")
    /\ UNCHANGED <<turn, val, origin, attempt, blocked, tmp, diskVars, issuer, histories, bounds>>

ChooseUnknown ==
    /\ pc["edit"] = "choose"
    /\ Goto("edit", "failed")
    /\ UNCHANGED <<turn, chosen, val, origin, attempt, blocked, tmp, diskVars, issuer, histories, bounds>>

---------------------------------------------------------------------------
(* satisfy: the stored file decides how to begin.                           *)

\* classify_stored: every declared field is there and usable.
Complete(s) == file[s] \in Value

\* A complete file goes to the validator, an absent or incomplete one straight
\* to the operator; a file that cannot be read fails the boot.
Check ==
    /\ pc["boot"] = "check"
    /\ val' = [val EXCEPT !["boot"] = file[secret("boot")]]
    /\ origin' = [origin EXCEPT !["boot"] = "stored"]
    /\ attempt' = [attempt EXCEPT !["boot"] = "first"]
    /\ \/ Complete(secret("boot")) /\ Goto("boot", "validate")
       \/ ~Complete(secret("boot")) /\ Prompt("boot")
       \/ Goto("boot", "failed") /\ file[secret("boot")] # "absent"
    /\ UNCHANGED <<turn, chosen, blocked, tmp, diskVars, issuer, histories, bounds>>

\* ask: the first acceptable form for this prompt.
Answer(r, v) ==
    /\ pc[r] = "ask" /\ v \in Value
    /\ val' = [val EXCEPT ![r] = v]
    /\ origin' = [origin EXCEPT ![r] = "entered"]
    /\ attempt' = [attempt EXCEPT ![r] = "first"]
    /\ Goto(r, "validate")
    /\ UNCHANGED <<turn, chosen, blocked, tmp, diskVars, issuer, histories, bounds>>

---------------------------------------------------------------------------
(* validate and validate_until_decided.                                     *)

\* What is true of the values: the issuer accepts them now, or their presence is
\* enough.
Good(r) == secret(r) \in Presence \/ val[r] \in accepts[secret(r)]

\* What the validator can say: presence always proves; oidc-credential-validator
\* says what any issuer can make it say, and a crash, a timeout or junk is "error".
Verdicts(r) ==
    IF secret(r) \in Presence THEN {"valid"} ELSE OidcVerdicts[Good(r)] \cup {"error"}

\* A validator that cannot decide parks the run; nothing is asked or written.
AfterError == "undecided"

Undecided(r) ==
    /\ pc[r] = "validate" /\ "error" \in Verdicts(r)
    /\ Goto(r, AfterError)
    /\ blocked' = [blocked EXCEPT ![r] = "yes"]
    /\ UNCHANGED <<turn, chosen, val, origin, attempt, tmp, diskVars, issuer, histories, bounds>>

\* Mutant: the retry starts a new count of attempts.
Retry_FirstAgain(r) ==
    /\ pc[r] = "undecided"
    /\ Goto(r, "validate")
    /\ attempt' = [attempt EXCEPT ![r] = "first"]
    /\ UNCHANGED <<turn, chosen, val, origin, blocked, tmp, diskVars, issuer, histories, bounds>>

\* The retry interval is over.
Retry(r) ==
    /\ pc[r] = "undecided"
    /\ Goto(r, "validate")
    /\ attempt' = [attempt EXCEPT ![r] = "again"]
    /\ UNCHANGED <<turn, chosen, val, origin, blocked, tmp, diskVars, issuer, histories, bounds>>

\* Mutant: what the operator entered needs no proof.
Accepts_Entered(r, verdict) == origin[r] = "entered" \/ verdict = "valid"

\* Does the verdict accept the values?
Accepts(r, verdict) == verdict = "valid"

\* A decision lifts the block a failed try set.  Stored credentials that are
\* valid satisfy the secret, entered ones are written; invalid ones are asked
\* for, and the stored file stays.
Decide(r, verdict) ==
    /\ pc[r] = "validate" /\ verdict \in Verdicts(r)
    /\ blocked' = [blocked EXCEPT ![r] = IF attempt[r] = "again" THEN "no" ELSE @]
    /\ proven' = [proven EXCEPT ![secret(r)] = IF Good(r) THEN @ \cup {val[r]} ELSE @]
    /\ rejected' = [rejected EXCEPT ![secret(r)] = IF Good(r) THEN @ ELSE @ \cup {val[r]}]
    /\ \/ Accepts(r, verdict) /\ origin[r] = "stored" /\ Satisfied(r)
       \/ Accepts(r, verdict) /\ origin[r] = "entered" /\ Goto(r, "create") /\ UNCHANGED turn
       \/ ~Accepts(r, verdict) /\ Prompt(r) /\ UNCHANGED turn
    /\ UNCHANGED <<chosen, val, origin, attempt, tmp, diskVars, issuer, bounds>>
Decided(r) == \E verdict \in {"valid", "invalid"} : Decide(r, verdict)

---------------------------------------------------------------------------
(* write_secret, one system call at a time: other processes and power cuts  *)
(* see the disk between any two.                                            *)

\* The temporary file is created private, with its whole content ...
CreateTmp(r) ==
    /\ pc[r] = "create"
    /\ tmp' = [tmp EXCEPT ![r] = "written"]
    /\ Goto(r, "sync")
    /\ UNCHANGED <<turn, chosen, val, origin, attempt, blocked, diskVars, issuer, histories, bounds>>

\* Mutant: the content is not synced before the rename.
SyncTmp_Skipped(r) ==
    /\ pc[r] = "sync"
    /\ Goto(r, "rename")
    /\ UNCHANGED <<turn, chosen, val, origin, attempt, blocked, tmp, diskVars, issuer, histories, bounds>>

\* ... made durable ...
SyncTmp(r) ==
    /\ pc[r] = "sync"
    /\ tmp' = [tmp EXCEPT ![r] = "synced"]
    /\ Goto(r, "chown")
    /\ UNCHANGED <<turn, chosen, val, origin, attempt, blocked, diskVars, issuer, histories, bounds>>

\* ... given to its owner and its mode ...
ChownTmp(r) ==
    /\ pc[r] = "chown"
    /\ tmp' = [tmp EXCEPT ![r] = "owned"]
    /\ Goto(r, "chmod")
    /\ UNCHANGED <<turn, chosen, val, origin, attempt, blocked, diskVars, issuer, histories, bounds>>

ChmodTmp(r) ==
    /\ pc[r] = "chmod"
    /\ tmp' = [tmp EXCEPT ![r] = "final"]
    /\ Goto(r, "rename")
    /\ UNCHANGED <<turn, chosen, val, origin, attempt, blocked, diskVars, issuer, histories, bounds>>

\* ... and renamed over the secret.  Until the directory is synced a power cut
\* may undo the rename; content that was not synced may be cut short.
Rename(r) ==
    /\ pc[r] = "rename"
    /\ file' = [file EXCEPT ![secret(r)] = val[r]]
    /\ durable' = [durable EXCEPT ![secret(r)] =
          @ \cup IF tmp[r] = "written" THEN {val[r], "torn"} ELSE {val[r]}]
    /\ tmp' = [tmp EXCEPT ![r] = "none"]
    /\ Goto(r, "syncdir")
    /\ UNCHANGED <<turn, chosen, val, origin, attempt, blocked, issuer, histories, bounds>>

\* The directory sync is best effort: its failure is not noticed.
SyncDir(r) ==
    /\ pc[r] = "syncdir"
    /\ \/ durable' = [durable EXCEPT ![secret(r)] = @ \cap {file[secret(r)], "torn"}]
       \/ UNCHANGED durable
    /\ Satisfied(r)
    /\ UNCHANGED <<chosen, val, origin, attempt, blocked, tmp, file, issuer, histories, bounds>>

\* Any call before the rename fails: the run ends and nothing was replaced.
WriteFails(r) ==
    /\ pc[r] \in {"create", "sync", "chown", "chmod", "rename"}
    /\ tmp' = [tmp EXCEPT ![r] = "none"]
    /\ Goto(r, "failed")
    /\ UNCHANGED <<turn, chosen, val, origin, attempt, blocked, diskVars, issuer, histories, bounds>>

---------------------------------------------------------------------------
(* The world outside.                                                       *)

\* An edit session runs out of its fifteen minutes, or either daemon is killed.
Kill(r) ==
    /\ pc[r] \in Active
    /\ Goto(r, IF r = "edit" THEN "off" ELSE "failed")
    /\ tmp' = [tmp EXCEPT ![r] = "none"]
    /\ UNCHANGED <<turn, chosen, val, origin, attempt, blocked, diskVars, issuer, histories, bounds>>

PowerCut ==
    /\ cuts < MaxCuts
    /\ cuts' = cuts + 1
    /\ pc' = [r \in Run |-> "off"]
    /\ tmp' = [r \in Run |-> "none"]
    /\ file' \in {f \in [Secret -> Contents] : \A s \in Secret : f[s] \in durable[s]}
    /\ durable' = [s \in Secret |-> {file'[s]}]
    /\ UNCHANGED <<turn, chosen, val, origin, attempt, blocked, issuer, histories, starts>>

\* An issuer replaces the credential it accepts.
Rotate(s, v) ==
    /\ rotations < MaxRotations /\ v \notin accepts[s]
    /\ rotations' = rotations + 1
    /\ accepts' = [accepts EXCEPT ![s] = {v}]
    /\ UNCHANGED <<runVars, diskVars, histories, bounds>>

---------------------------------------------------------------------------
Write(r) == CreateTmp(r) \/ SyncTmp(r) \/ ChownTmp(r) \/ ChmodTmp(r) \/ Rename(r) \/ SyncDir(r)

Next ==
    \/ StartBoot \/ StartEdit \/ ChooseUnknown \/ Check \/ PowerCut
    \/ \E s \in Secret : Choose(s) \/ \E v \in Value : Rotate(s, v)
    \/ \E r \in Run :
        \/ \E v \in Value : Answer(r, v)
        \/ Undecided(r) \/ Retry(r) \/ Decided(r)
        \/ Write(r) \/ WriteFails(r) \/ Kill(r)

Spec == Init /\ [][Next]_vars

---------------------------------------------------------------------------
(* Properties.                                                              *)

\* A released boot has every secret in its file, and a validator (or, without
\* one, its presence) proved just that value since this collector started or
\* in an edit session that ran beside it (daemon.rs:1-8, lib.rs SecretState).
ReleasedMeansProven ==
    pc["boot"] = "done" => \A s \in Secret : file[s] \in proven[s]

\* A stored file is replaced by a proven value only, except that a power cut
\* brings back what was there before (daemon.rs:541-542 "the file stays on disk
\* untouched until a replacement is proven good").
OnlyProvenIsWritten ==
    [][\A s \in Secret : file'[s] # file[s] =>
          file'[s] \in proven[s] \/ (cuts' # cuts /\ file'[s] \in durable[s])]_vars

\* No sequence of writes, failures, overlapping runs and power cuts leaves a
\* credential cut short: a path holds the old file or a complete new one, also
\* while the rename is not durable yet (daemon.rs:380-385).
NeverHalfWritten == \A s \in Secret : file[s] # "torn"

\* The collector asks for a secret only when its file is absent or incomplete
\* or a validator called the values invalid: a failure to decide is never taken
\* for a wrong credential (daemon.rs:434-443).
AskedForAReason ==
    pc["boot"] = "ask" =>
        val["boot"] \in {"absent", "partial", "torn"} \cup rejected[secret("boot")]

\* The screen says "blocked" exactly as long as a validator cannot decide, for
\* no run stays marked after a decision (lib.rs Snapshot.blocked).
BlockedIsHonest ==
    \A r \in Run : pc[r] \in Active /\ blocked[r] = "yes"
                       => pc[r] \in {"validate", "undecided"}
===========================================================================
