---------------------------- MODULE MailDeployment ----------------------------
(***************************************************************************)
(* A deployment runs zitadel-configure and, once it has completed,          *)
(* stalwart-configure (stalwart.nix:524-543).  The self-service API asks    *)
(* Zitadel whether the caller holds the admin role, and Stalwart names a    *)
(* principal by the user name Zitadel presents at sign-in.                  *)
(***************************************************************************)
EXTENDS ZitadelConfigure, StalwartConfigure

CONSTANTS
    AdminRole,  \* the role the API asks for
    MaxDeploys  \* bound: deployments

ASSUME MailDeploymentAssumption ==
    /\ MailDomain = Domain /\ Catcher = Sink
    /\ AdminRole \in Roles /\ MaxDeploys \in Nat

VARIABLE deploys

vars == <<zvars, svars, deploys>>

Init ==
    /\ \E older \in BOOLEAN : ZitadelInit(older) /\ StalwartInit(older)
    /\ deploys = 0

\* A deployment names a sink account or none, and declares that account.
Deploy ==
    /\ deploys < MaxDeploys /\ deploys' = deploys + 1
    /\ ~Running /\ ~StalwartRunning
    /\ \E c \in Catcher \cup {None} :
         /\ StartZitadel(IF c = None THEN "none" ELSE c)
         /\ catcher' = c
    /\ spc' = "waiting"
    /\ UNCHANGED <<mail, account, request, hand, alone, back>>

\* While one of the two runs, what only concerns the other is not interleaved
\* with it: it commutes with every step of the run.
ZitadelStep ==
    /\ ~StalwartRunning
    /\ Configure \/ Disturb \/ Carry
    /\ UNCHANGED <<svars, deploys>>

StalwartStart == zpc = "done" /\ StartStalwart /\ UNCHANGED <<zvars, deploys>>

StalwartStep == ConvergeAccounts /\ UNCHANGED <<zvars, deploys>>

\* A request of the run fails, a read without the run noticing, or the machine
\* goes down.
StalwartTrouble ==
    /\ StalwartRunning /\ Trouble
    /\ StalwartFails \/ Misread
    /\ UNCHANGED <<srv, creds, carried, zpc, loc, user, history, deploys>>

ByHand ==
    /\ deploys > 0 /\ ~Running
    /\ \/ SelfService(AdminRole \in srv.grant)
       \/ srv.admin = "bare" /\ SignIn([user |-> AdminUser, form |-> "bare"])
       \/ srv.admin = "full" /\ SignIn(Full(AdminUser))
       \/ \E c \in Catcher : srv.login[c] # "absent" /\ SignIn([user |-> c, form |-> srv.login[c]])
    /\ UNCHANGED <<zvars, deploys>>

Next == Deploy \/ ZitadelStep \/ StalwartStart \/ StalwartStep \/ StalwartTrouble \/ ByHand

Spec == Init /\ [][Next]_vars

-----------------------------------------------------------------------------
(* Properties.                                                             *)

TypeOK == ZitadelTypeOK /\ StalwartTypeOK /\ deploys \in 0 .. MaxDeploys

\* The copy of the credentials on another machine keeps working, whatever run of
\* zitadel-configure is cut where, until somebody changes the app in the console
\* (zitadel-configure.ts:1048-1054, 1083-1096).
CarriedSecretWorks ==
    carried # NoFile /\ ~touched /\ ~astray => carried = srv.app

\* A completed run leaves credentials that work (zitadel-configure.ts:1120-1200).
FileServes == zpc = "done" /\ quiet /\ ~astray => file = srv.app

\* An organisation that carries a domain is adopted, never duplicated
\* (zitadel-configure.ts:819-822), unless it was made while the run was looking.
NoLookalikeOrg == raced \/ \A d \in Domain :
    Cardinality({id \in OrgId : Carries(id, d) \/ srv.orgs[id].name = d}) <= 1

\* A completed run has given the declared roles: all of them to the admin under
\* either spelling of the name, and all to each of the other organisations, unless
\* that had a grant of the project from the console, to which nothing is added
\* (zitadel-configure.ts:860-863).  Excepted is an admin found under neither
\* spelling: the run warns and completes (zitadel-configure.ts:1384-1391).
RolesReach == zpc = "done" /\ quiet =>
    /\ srv.admin # "absent" => Roles \subseteq srv.grant
    /\ \A id \in GrantedOrgs :
          Roles \subseteq srv.granted[id] \/ srv.granted[id] \cap MoreRoles # {}

\* No run takes a role away that it did not give (zitadel-configure.ts:932-934),
\* unless the console gave it while the run went on.
NoRoleTaken ==
    [][Configure /\ quiet => srv.iam \subseteq srv.iam' /\ srv.grant \subseteq srv.grant']_vars

Held(d) == \E n \in Name : [local |-> NoLocal, domain |-> d] \in mail[n].emails

\* Mail to a name that does not exist has somewhere to go: the run never takes
\* the catch-all off its last holder (stalwart-configure.ts:395-396).
CatchAllHeld == [][alone => \A d \in MailDomain : Held(d) => Held(d)' \/ ~alone']_vars

\* A request to the API and a run never undo each other's addresses: a step
\* removes what it was asked to remove and nothing else
\* (stalwart-configure.ts:246-248), except from an account the run did not find.
AskedOfTheRun(n) ==
    CASE spc = "strip.store" /\ n = Full(AdminUser) -> CatchAll
      [] /\ account = NoPrincipal
         /\ \/ spc = "sink.store" /\ n = Full(catcher)
            \/ spc = "admin.store" /\ n = Full(AdminUser) -> mail[n].emails
      [] OTHER -> {}
AskedByHand(n) ==
    {request[r].address : r \in {q \in Handler : /\ request[q] # NoRequest
                                                /\ request'[q] = NoRequest
                                                /\ request[q].name = n
                                                /\ request[q].op = "remove"}}
EditsSurvive ==
    [][\A n \in Name : mail[n].emails \subseteq mail'[n].emails
          \cup (IF spc' # spc THEN AskedOfTheRun(n) ELSE AskedByHand(n))]_vars

\* After a completed deployment the sink holds the catch-all, and signing in as
\* the sink account opens the principal that holds it
\* (zitadel-configure.ts:1341-1346, stalwart-configure.ts:349-352).  The admin does
\* not hold it (stalwart-configure.ts:330-332), except when an address was given
\* back by hand after the run had read the account, or that read was answered
\* with an error, which removeAddresses takes for an absent account
\* (stalwart-configure.ts:95, 294-295).
MailReachesItsReader ==
    spc = "done" /\ quiet /\ alone /\ catcher # None =>
        /\ srv.login[catcher] = "full"
        /\ CatchAll \subseteq mail[Full(catcher)].emails
        /\ ~back => CatchAll \cap mail[Full(AdminUser)].emails = {}
=============================================================================
