-------------------------- MODULE ZitadelConfigure --------------------------
(***************************************************************************)
(* zitadel-configure.ts, task "configure": the oneshot that brings a        *)
(* Zitadel instance to the declared users, organisations, project, OIDC app *)
(* and roles.  Each of its requests is one step, so that the console may    *)
(* edit, a request fail, or the machine lose power between any two.         *)
(*                                                                         *)
(* `srv` is Zitadel's own state, `loc` what the process has read, `file` the*)
(* credential file it writes, `carried` the copy of it another machine uses.*)
(* The policies, languages, branding and actions it also converges touch    *)
(* nothing else and are left out.                                           *)
(***************************************************************************)
EXTENDS Integers, Sequences, FiniteSets, SequencesExt

CONSTANTS
    Domains,    \* orgDomains; the first is adminOrg
    Sink,       \* accounts `users` may declare
    Roles,      \* roles of the project, all granted to the admin
    IamRoles,   \* adminIamRoles
    MoreRoles,  \* roles only the console gives
    OrgId,      \* bound: organisations
    MaxTrouble  \* bound: console edits, failures and power cuts

Domain   == ToSet(Domains)
AdminOrg == Head(Domains)
OwnOrg   == 1               \* the organisation of the process's token
NoOrg    == [name |-> "absent", domains |-> {}, primary |-> "none"]
NoApp    == [client |-> 0, secret |-> 0]
NoFile   == NoApp

ASSUME ZitadelAssumption ==
    /\ Domains \in Seq(Domain) /\ Domains # <<>>
    /\ {"first", "free", "absent", "none"} \cap Domain = {}
    /\ IsFiniteSet(OrgId) /\ OrgId = 1 .. Cardinality(OrgId)
    /\ Cardinality(OrgId) > Len(Domains)
    /\ IamRoles # {} /\ MoreRoles \cap (Roles \cup IamRoles) = {}
    /\ MaxTrouble \in Nat

\* A user name without the domain or with it; "absent" is neither.
Form == {"absent", "bare", "full"}

VARIABLES
    srv,      \* Zitadel
    issued,   \* client ids and secrets it has handed out
    file,     \* the credential file
    durable,  \* what a power cut may bring it back to
    carried,  \* the credentials another machine was given
    zpc,      \* the next request of the run
    loc,      \* what the run has read
    user,     \* the account `users` declares in this deployment, or "none"
    trouble,  \* disturbances so far
    quiet,    \* history: nobody edited the instance during this run
    astray,   \* history: the secret was regenerated in the console
    touched,  \* history: the app was edited in the console after `carried`
    raced     \* history: the console made an organisation for a domain that a
              \* run was looking for, or had stopped between making and adding

creds   == <<issued, file, durable>>
history == <<quiet, astray, touched, raced>>
zvars   == <<srv, creds, carried, zpc, loc, user, trouble, history>>

NoLoc == [roles |-> {}, listed |-> {}, left |-> {},
          owner |-> [d \in Domain |-> 0], n |-> 1, app |-> 0, cred |-> NoApp]

\* A fresh instance has one organisation.
InitialOrgs == [id \in OrgId |->
    IF id = OwnOrg THEN [name |-> "first", domains |-> {}, primary |-> "none"] ELSE NoOrg]

\* An older one has the accounts, the admin under the full name and the sink
\* under the bare one, and the app, whose credentials were carried elsewhere.
ZitadelInit(older) ==
    LET first == [client |-> 1, secret |-> 1] IN
    /\ srv = [admin   |-> IF older THEN "full" ELSE "bare",
              login   |-> [u \in Sink |-> IF older THEN "bare" ELSE "absent"],
              iam     |-> {"owner"},
              orgs    |-> InitialOrgs,
              project |-> older,
              app     |-> IF older THEN first ELSE NoApp,
              roles   |-> {},
              grant   |-> {},
              granted |-> [id \in OrgId |-> {}]]
    /\ issued = (IF older THEN 1 ELSE 0)
    /\ file = srv.app /\ durable = srv.app /\ carried = srv.app
    /\ zpc = "idle" /\ loc = NoLoc /\ user = "none"
    /\ trouble = 0 /\ quiet = TRUE /\ astray = FALSE /\ touched = FALSE
    /\ raced = FALSE

Running == zpc \notin {"idle", "done", "failed"}

-----------------------------------------------------------------------------
(* Shapes of a step.                                                       *)

Read(from, to, l) ==
    /\ zpc = from /\ zpc' = to /\ loc' = l
    /\ UNCHANGED <<srv, creds, carried, user, trouble, history>>

\* A request that writes.
Write(from, to, s, l) ==
    /\ zpc = from /\ zpc' = to /\ srv' = s /\ loc' = l
    /\ UNCHANGED <<creds, carried, user, trouble, history>>

\* The process ends, and what it has read with it.
Fail == zpc' = "failed" /\ loc' = NoLoc

Refused(from) ==
    /\ zpc = from /\ Fail
    /\ UNCHANGED <<srv, creds, carried, user, trouble, history>>

\* A request that writes and that Zitadel refuses unless `ok`: the run fails.
Request(from, to, ok, s) ==
    \/ ok /\ Write(from, to, s, loc)
    \/ ~ok /\ Refused(from)

-----------------------------------------------------------------------------
(* convergeAdminIamRoles: only the bare user name is looked for.            *)

SearchAdmin ==
    Read("iam.users", IF srv.admin = "bare" THEN "iam.members" ELSE "users", loc)

SearchIamMembers ==
    Read("iam.members", IF IamRoles \subseteq srv.iam THEN "users" ELSE "iam.update",
         [loc EXCEPT !.roles = srv.iam])

\* Mutation: the desired roles alone are written.
UpdateIamMember_Alone ==
    Write("iam.update", "users", [srv EXCEPT !.iam = IamRoles], loc)

\* The update replaces the roles: those read before are sent along.
UpdateIamMember ==
    Write("iam.update", "users", [srv EXCEPT !.iam = loc.roles \cup IamRoles], loc)

(* convergeUsers, for the one account a deployment declares.                *)

SearchUsers ==
    LET now == IF user = "none" THEN "full" ELSE srv.login[user]
    IN  Read("users", CASE now = "absent" -> "users.create"
                        [] now = "bare"   -> "users.rename"
                        [] OTHER          -> "domain.list", loc)

CreateUser ==
    Write("users.create", "domain.list", [srv EXCEPT !.login[user] = "full"], loc)

\* Mutation: an account is left under the name it was created with.
RenameUser_Left == Read("users.rename", "domain.list", loc)

RenameUser ==
    Write("users.rename", "domain.list", [srv EXCEPT !.login[user] = "full"], loc)

-----------------------------------------------------------------------------
(* convergeOrgDomain: the token's organisation carries adminOrg.            *)

Carries(id, d) == d \in srv.orgs[id].domains
Free(d)        == \A id \in OrgId : ~Carries(id, d)
WithDomain(id, d) == [srv EXCEPT !.orgs[id].domains = @ \cup {d}]
WithPrimary(id, d) == [srv EXCEPT !.orgs[id].primary = d]

ListOwnDomains ==
    Read("domain.list",
         IF ~Carries(OwnOrg, AdminOrg) THEN "domain.add"
         ELSE IF srv.orgs[OwnOrg].primary # AdminOrg THEN "domain.primary" ELSE "orgs.list", loc)

AddOwnDomain ==
    Request("domain.add", "domain.primary", Free(AdminOrg), WithDomain(OwnOrg, AdminOrg))

SetOwnPrimary ==
    Write("domain.primary", "orgs.list", WithPrimary(OwnOrg, AdminOrg), loc)

(* convergeOrgs: who owns which domain, then an organisation for the rest.  *)

ListOrgs ==
    LET ids == {id \in OrgId : srv.orgs[id] # NoOrg}
    IN  Read("orgs.list", "orgs.domains",
             [loc EXCEPT !.left = ids, !.n = 1, !.owner = [d \in Domain |-> 0],
                         !.listed = {[id |-> id, name |-> srv.orgs[id].name,
                                      primary |-> srv.orgs[id].primary] : id \in ids}])

\* One request per organisation; the first to carry a domain owns it.
ListDomains ==
    LET id == CHOOSE i \in loc.left : \A j \in loc.left : i <= j
    IN  /\ loc.left # {}
        /\ Read("orgs.domains", IF loc.left = {id} THEN "orgs.each" ELSE "orgs.domains",
                [loc EXCEPT !.left = @ \ {id},
                            !.owner = [d \in Domain |->
                               IF loc.owner[d] = 0 /\ Carries(id, d) THEN id ELSE loc.owner[d]]])

This == Domains[loc.n]

\* Mutation: an organisation is looked for by its name only.
ExistingOrg_ByName(d) == {o.id : o \in {p \in loc.listed : p.name = d}}

\* The organisation that carries the domain, else one of its name.
ExistingOrg(d) ==
    IF loc.owner[d] # 0 THEN {loc.owner[d]}
    ELSE {o.id : o \in {p \in loc.listed : p.primary = d \/ p.name = d}}

NextDomain(owner) ==
    [loc EXCEPT !.owner = owner, !.n = IF loc.n = Len(Domains) THEN 1 ELSE loc.n + 1]
AfterDomain == IF loc.n = Len(Domains) THEN "project.search" ELSE "orgs.each"

AdoptOrg ==
    /\ zpc = "orgs.each"
    /\ \E id \in ExistingOrg(This) :
          Read("orgs.each", AfterDomain, NextDomain([loc.owner EXCEPT ![This] = id]))

CreateOrg ==
    /\ ExistingOrg(This) = {}
    /\ \E id \in OrgId :
          /\ srv.orgs[id] = NoOrg /\ \A j \in OrgId : srv.orgs[j] = NoOrg => id <= j
          /\ Write("orgs.each", "orgs.add", [srv EXCEPT !.orgs[id].name = This],
                   [loc EXCEPT !.owner[This] = id])

AddOrgDomain ==
    Request("orgs.add", "orgs.primary", Free(This), WithDomain(loc.owner[This], This))

SetPrimaryOrgDomain ==
    Write("orgs.primary", AfterDomain, WithPrimary(loc.owner[This], This), NextDomain(loc.owner))

-----------------------------------------------------------------------------
(* convergeProject and convergeConfidentialApp.                             *)

SearchProjects ==
    Read("project.search", IF srv.project THEN "app.search" ELSE "project.create", loc)

CreateProject ==
    Write("project.create", "app.search", [srv EXCEPT !.project = TRUE], loc)

SearchApps ==
    Read("app.search", IF srv.app = NoApp THEN "app.create" ELSE "app.stored",
         [loc EXCEPT !.app = srv.app.client,
                     !.cred = [client |-> srv.app.client, secret |-> 0]])

\* Mutation: a stored secret is taken whatever client it belongs to.
readStoredClientSecret_AnyClient == file # NoFile

\* The stored secret is kept only for the client it was issued to.
readStoredClientSecret == file # NoFile /\ file.client = loc.cred.client

ReadStored ==
    Read("app.stored", IF readStoredClientSecret THEN "app.config" ELSE "app.regenerate",
         IF readStoredClientSecret THEN [loc EXCEPT !.cred.secret = file.secret] ELSE loc)

\* Zitadel hands out a secret once, when it makes it.
Issue(from, to, c) ==
    /\ zpc = from /\ zpc' = to /\ astray' = FALSE
    /\ issued' = issued + 1 /\ srv' = [srv EXCEPT !.app = c]
    /\ loc' = [loc EXCEPT !.cred = c]
    /\ UNCHANGED <<file, durable, carried, user, trouble, quiet, touched, raced>>

CreateApp ==
    Issue("app.create", "app.find", [client |-> issued + 1, secret |-> issued + 1])

\* The id of the app that was made is looked for by its name.
FindApp == Read("app.find", "app.config", [loc EXCEPT !.app = srv.app.client])

\* The id read before may be of an app that is no more.
RegenerateSecret ==
    \/ /\ srv.app.client = loc.app
       /\ Issue("app.regenerate", "app.config", [srv.app EXCEPT !.secret = issued + 1])
    \/ srv.app.client # loc.app /\ Refused("app.regenerate")

UpdateAppConfig ==
    Request("app.config", "file.write", srv.app.client = loc.app, srv)

\* Mutation: the file is truncated and written in place.
WriteTemporary_InPlace ==
    /\ zpc = "file.write" /\ zpc' = "file.rename"
    /\ file' = NoFile /\ durable' = NoFile
    /\ UNCHANGED <<srv, issued, carried, loc, user, trouble, history>>

\* writeCredentialFile: a synced file beside the old one, then a rename, which
\* a power cut may undo (the directory is not synced).
WriteTemporary == Read("file.write", "file.rename", loc)

Rename ==
    /\ zpc = "file.rename" /\ zpc' = "roles.search"
    /\ file' = loc.cred
    /\ UNCHANGED <<srv, issued, durable, carried, loc, user, trouble, history>>

-----------------------------------------------------------------------------
(* Roles, the admin's grant and the grants of the other organisations.      *)

SearchRoles ==
    Read("roles.search", IF Roles \subseteq srv.roles THEN "grant.search" ELSE "roles.add",
         [loc EXCEPT !.roles = srv.roles])

AddProjectRole ==
    \E r \in Roles \ loc.roles :
        Write("roles.add", "roles.search", [srv EXCEPT !.roles = @ \cup {r}], loc)

\* Mutation: a grant that is there is taken to give every role.
SearchGrants_AnyGrant ==
    Read("grant.search", IF srv.grant # {} THEN "granted.list" ELSE "grant.update",
         [loc EXCEPT !.roles = srv.grant])

\* convergeUserGrant looks for the admin under both spellings; when there is
\* none it warns, and the run goes on.
SearchGrants ==
    Read("grant.search", IF srv.admin = "absent" \/ Roles \subseteq srv.grant
                           THEN "granted.list" ELSE "grant.update",
         [loc EXCEPT !.roles = srv.grant])

\* Create the grant, or replace its roles by those read before and the desired.
UpdateGrant ==
    Request("grant.update", "granted.list", loc.roles # {} \/ srv.grant = {},
            [srv EXCEPT !.grant = loc.roles \cup Roles])

\* An organisation of two domains is listed twice by the code, and a second grant
\* refused; here no organisation is of two.
GrantedOrgs == {loc.owner[d] : d \in Domain} \ {loc.owner[AdminOrg]}

ListProjectGrants ==
    LET left == {id \in GrantedOrgs : srv.granted[id] = {}}
    IN  Read("granted.list", IF left = {} THEN "done" ELSE "granted.add",
             [loc EXCEPT !.left = left])

CreateProjectGrant ==
    \E id \in loc.left :
        \/ /\ srv.granted[id] = {}
           /\ Write("granted.add", IF loc.left = {id} THEN "done" ELSE "granted.add",
                    [srv EXCEPT !.granted[id] = Roles], [loc EXCEPT !.left = @ \ {id}])
        \/ srv.granted[id] # {} /\ Refused("granted.add")

-----------------------------------------------------------------------------
(* What else happens.                                                      *)

Trouble == trouble < MaxTrouble /\ trouble' = trouble + 1

\* A request fails or the process dies: the unit has failed until the next
\* deployment.
RunFails ==
    /\ Running /\ Trouble /\ Fail
    /\ UNCHANGED <<srv, creds, carried, user, history>>

PowerCut ==
    /\ Running /\ Trouble /\ Fail
    /\ file' = durable
    /\ UNCHANGED <<srv, issued, durable, carried, user, history>>

Console(s) ==
    /\ Trouble
    /\ srv' = s /\ s # srv /\ quiet' = FALSE
    /\ UNCHANGED <<file, durable, carried, zpc, loc, user>>

ConsoleEdits ==
    \/ \E id \in OrgId, d \in Domain :     \* an organisation named freely
          /\ id # OwnOrg /\ srv.orgs[id] = NoOrg /\ Free(d)
          /\ \A o \in OrgId : o < id => o = OwnOrg \/ srv.orgs[o] # NoOrg
          /\ Console([srv EXCEPT !.orgs[id] = [name |-> "free", domains |-> {d}, primary |-> d]])
          /\ raced' = (raced \/ Running \/ \E o \in OrgId : srv.orgs[o].name = d)
          /\ UNCHANGED <<issued, astray, touched>>
    \/ \E r \in MoreRoles :
          /\ \/ Console([srv EXCEPT !.iam = @ \cup {r}])
             \/ srv.project /\ Console([srv EXCEPT !.grant = @ \cup {r}])
          /\ UNCHANGED <<issued, astray, touched, raced>>
    \/ \E id \in OrgId, r \in MoreRoles :    \* the project granted by hand
          /\ srv.project /\ srv.orgs[id] # NoOrg /\ srv.granted[id] = {}
          /\ Console([srv EXCEPT !.granted[id] = {r}])
          /\ UNCHANGED <<issued, astray, touched, raced>>
    \/ \E form \in Form :                  \* the admin's user name changed
          /\ Console([srv EXCEPT !.admin = form])
          /\ UNCHANGED <<issued, astray, touched, raced>>
    \/ \E u \in Sink :
          /\ srv.login[u] = "full" /\ Console([srv EXCEPT !.login[u] = "bare"])
          /\ UNCHANGED <<issued, astray, touched, raced>>
    \/ /\ srv.app # NoApp                  \* the secret regenerated by hand
       /\ Console([srv EXCEPT !.app.secret = issued + 1])
       /\ issued' = issued + 1 /\ astray' = TRUE /\ touched' = TRUE
       /\ UNCHANGED raced
    \/ /\ srv.app # NoApp                  \* the app made anew
       /\ Console([srv EXCEPT !.app = [client |-> issued + 1, secret |-> issued + 1]])
       /\ issued' = issued + 1 /\ astray' = FALSE /\ touched' = TRUE
       /\ UNCHANGED raced

\* The operator takes the credentials to a machine of another deployment; by
\* then the rename is on the disk.
Carry ==
    /\ zpc = "done" /\ carried # file
    /\ carried' = file /\ durable' = file /\ touched' = (touched /\ ~quiet)
    /\ UNCHANGED <<srv, issued, file, zpc, loc, user, trouble, quiet, astray, raced>>

\* A deployment starts the unit.
StartZitadel(u) ==
    /\ ~Running
    /\ zpc' = "iam.users" /\ loc' = NoLoc /\ user' = u /\ quiet' = TRUE
    /\ durable' = file
    /\ UNCHANGED <<srv, issued, file, carried, trouble, astray, touched, raced>>

ConvergeUsers == SearchAdmin \/ SearchIamMembers \/ UpdateIamMember
                 \/ SearchUsers \/ CreateUser \/ RenameUser
ConvergeOrgs  == ListOwnDomains \/ AddOwnDomain \/ SetOwnPrimary \/ ListOrgs
                 \/ ListDomains \/ AdoptOrg \/ CreateOrg \/ AddOrgDomain
                 \/ SetPrimaryOrgDomain
ConvergeApp   == SearchProjects \/ CreateProject \/ SearchApps \/ ReadStored
                 \/ CreateApp \/ FindApp \/ RegenerateSecret \/ UpdateAppConfig
                 \/ WriteTemporary \/ Rename
ConvergeRoles == SearchRoles \/ AddProjectRole \/ SearchGrants \/ UpdateGrant
                 \/ ListProjectGrants \/ CreateProjectGrant

Configure == ConvergeUsers \/ ConvergeOrgs \/ ConvergeApp \/ ConvergeRoles
Disturb   == RunFails \/ PowerCut \/ ConsoleEdits

-----------------------------------------------------------------------------
Role == {"owner"} \cup Roles \cup IamRoles \cup MoreRoles
Cred == [client : Nat, secret : Nat]
Zpc  == {"idle", "done", "failed", "iam.users", "iam.members", "iam.update", "users",
         "users.create", "users.rename", "domain.list", "domain.add", "domain.primary",
         "orgs.list", "orgs.domains", "orgs.each", "orgs.add", "orgs.primary",
         "project.search", "project.create", "app.search", "app.create", "app.stored",
         "app.find", "app.regenerate", "app.config", "file.write", "file.rename",
         "roles.search", "roles.add", "grant.search", "grant.update", "granted.list",
         "granted.add"}

OrgName == Domain \cup {"first", "free", "absent"}
Primary == Domain \cup {"none"}
Org     == [name : OrgName, domains : SUBSET Domain, primary : Primary]

Server  == [admin : Form, login : [Sink -> Form], iam : SUBSET Role,
            orgs : [OrgId -> Org], project : BOOLEAN, app : Cred,
            roles : SUBSET Role, grant : SUBSET Role, granted : [OrgId -> SUBSET Role]]
Process == [roles : SUBSET Role, left : SUBSET OrgId,
            listed : SUBSET [id : OrgId, name : OrgName, primary : Primary],
            owner : [Domain -> {0} \cup OrgId], n : 1 .. Len(Domains),
            app : Nat, cred : Cred]

ZitadelTypeOK ==
    /\ srv \in Server /\ loc \in Process
    /\ issued \in Nat /\ file \in Cred /\ durable \in Cred /\ carried \in Cred
    /\ zpc \in Zpc /\ user \in Sink \cup {"none"} /\ trouble \in 0 .. MaxTrouble
    /\ quiet \in BOOLEAN /\ astray \in BOOLEAN /\ touched \in BOOLEAN /\ raced \in BOOLEAN
=============================================================================
