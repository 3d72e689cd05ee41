----------------------- MODULE MailDeploymentProofs -----------------------
(* Proofs about MailDeployment, for any domains, accounts, roles and bounds. *)
(* What a run may do was decided by what it has read, and the console may    *)
(* have edited since: IInv says, request by request, what is still true of   *)
(* it, and up to which edit.                                                *)
EXTENDS MailDeployment, TLAPS, FiniteSetTheorems

---------------------------------------------------------------------------
(* Credentials.  Client ids only grow, and every copy is of an id that was   *)
(* the app's before the copies made after it.                               *)

\* A copy of the app's client id has its secret, unless that was regenerated.
Right(c) == c.client # 0 /\ c.client = srv.app.client /\ ~astray => c = srv.app

CopiesOK ==
    /\ carried.client <= durable.client /\ durable.client <= file.client
    /\ file.client <= srv.app.client /\ srv.app.client <= issued
    /\ \A c \in {carried, durable, file, srv.app} : c.client = 0 => c = NoApp
    /\ Right(carried) /\ Right(durable) /\ Right(file)
    /\ ~touched /\ carried.client # 0 => carried.client = srv.app.client

\* The app was not edited since the run read it.
Calm     == quiet \/ ~touched
InHand    == {"app.find", "app.config", "file.write", "file.rename"}
Written  == {"roles.search", "roles.add", "grant.search", "grant.update",
             "granted.list", "granted.add", "done"}

ReadOK ==
    /\ zpc = "app.create" => srv.app = NoApp
    /\ zpc \in {"app.stored", "app.regenerate"} => loc.cred.client = loc.app
    /\ zpc = "app.regenerate" => file.client # loc.app
    /\ zpc \in InHand => Right(loc.cred)
    /\ zpc \in {"app.stored", "app.regenerate"} \cup InHand =>
         /\ loc.cred.client # 0
         /\ file.client <= loc.cred.client /\ loc.cred.client <= srv.app.client
         /\ Calm => loc.cred.client = srv.app.client
    /\ zpc \in Written /\ Calm => file.client # 0 /\ file.client = srv.app.client

---------------------------------------------------------------------------
(* Organisations.                                                          *)

\* The organisation is one of domain d, by what it carries or by its name.
Of(id, d) == Carries(id, d) \/ srv.orgs[id].name = d

OrgsOK ==
    /\ \A id \in OrgId : srv.orgs[id].name = "absent" => srv.orgs[id] = NoOrg
    /\ \A id \in OrgId : srv.orgs[id].name # AdminOrg
    /\ srv.orgs[OwnOrg].name = "first"
    /\ \A d \in Domain, i, j \in OrgId : Carries(i, d) /\ Carries(j, d) => i = j
    /\ raced \/ \A d \in Domain, i, j \in OrgId : Of(i, d) /\ Of(j, d) => i = j

Listing  == {"orgs.domains"}
Choosing == {"orgs.each", "orgs.add", "orgs.primary"}
Chosen   == {"project.search", "project.create", "app.search", "app.create", "app.stored",
             "app.find", "app.regenerate", "app.config", "file.write", "file.rename"} \cup Written

ListedAs(d) == \E o \in loc.listed : o.name = d \/ o.primary = d

OwnersOK ==
    /\ zpc \in {"domain.primary", "orgs.list"} \cup Listing \cup Choosing \cup Chosen =>
         Carries(OwnOrg, AdminOrg)
    /\ zpc \in Listing =>
         /\ loc.n = 1
         /\ loc.owner[AdminOrg] # 0 \/ OwnOrg \in loc.left
         /\ ~raced => \A d \in Domain, id \in OrgId :
              /\ Carries(id, d) => loc.owner[d] # 0 \/ id \in loc.left
              /\ srv.orgs[id].name = d => ListedAs(d)
    /\ zpc \in Choosing =>
         /\ loc.owner[AdminOrg] # 0
         /\ \A k \in 1 .. loc.n - 1 : loc.owner[Domains[k]] # 0
         /\ ~raced => \A d \in Domain, id \in OrgId :
              Of(id, d) => loc.owner[d] # 0 \/ ListedAs(d)
    /\ zpc \in {"orgs.add", "orgs.primary"} =>
         loc.owner[This] # 0 /\ srv.orgs[loc.owner[This]].name = This
    /\ zpc \in Chosen => \A d \in Domain : loc.owner[d] # 0

---------------------------------------------------------------------------
(* Roles and logins.                                                       *)

Granting == {"granted.list", "granted.add", "done"}

\* The organisation was granted every declared role, or what the console gave it.
GrantOK(id) == Roles \subseteq srv.granted[id] \/ srv.granted[id] \cap MoreRoles # {}

RolesOK ==
    /\ zpc = "iam.update" /\ quiet => srv.iam \subseteq loc.roles
    /\ zpc = "grant.update" /\ quiet => srv.grant \subseteq loc.roles
    /\ zpc \in Granting /\ quiet => srv.admin = "absent" \/ Roles \subseteq srv.grant
    /\ \A id \in OrgId : srv.granted[id] = {} \/ GrantOK(id)
    /\ zpc = "granted.add" => \A id \in GrantedOrgs : id \in loc.left \/ GrantOK(id)
    /\ zpc = "done" => \A id \in GrantedOrgs : GrantOK(id)

Unnamed == {"idle", "failed", "iam.users", "iam.members", "iam.update", "users",
            "users.create", "users.rename"}

LoginOK == quiet /\ user # "none" /\ zpc \notin Unnamed => srv.login[user] = "full"

---------------------------------------------------------------------------
(* The mail server.                                                        *)

Moved == {"admin.get", "admin.store", "strip.get", "strip.store", "reload", "done"}

MailOK ==
    /\ user = catcher
    /\ spc \notin {"idle", "waiting"} => zpc = "done"
    /\ spc \in {"sink.get", "sink.store", "strip.get", "strip.store"} => catcher # None
    /\ alone /\ spc = "sink.store" =>
         account.emails \cap CatchAll \subseteq mail[Full(catcher)].emails
    /\ alone /\ catcher # None /\ spc \in Moved =>
         CatchAll \subseteq mail[Full(catcher)].emails
    /\ ~back /\ spc = "strip.store" =>
         mail[Full(AdminUser)].emails \cap CatchAll \subseteq account.emails
    /\ ~back /\ catcher # None /\ spc \in {"reload", "done"} =>
         mail[Full(AdminUser)].emails \cap CatchAll = {}

IInv == /\ TypeOK /\ CopiesOK /\ ReadOK /\ OrgsOK /\ OwnersOK /\ RolesOK /\ LoginOK /\ MailOK

USE ZitadelAssumption, StalwartAssumption, MailDeploymentAssumption

---------------------------------------------------------------------------
(* Types.                                                                  *)

LEMMA FirstDomain ==
    /\ AdminOrg \in Domain /\ Len(Domains) \in Nat /\ 1 \in 1 .. Len(Domains)
    /\ \A k \in 1 .. Len(Domains) : Domains[k] \in Domain
    /\ \A d \in Domain : \E k \in 1 .. Len(Domains) : Domains[k] = d
    /\ OwnOrg \in OrgId /\ 0 \notin OrgId /\ OrgId \subseteq Nat
<1>1. Len(Domains) \in Nat /\ Len(Domains) > 0
  OBVIOUS
<1>2. \A k \in 1 .. Len(Domains) : Domains[k] \in Domain
  BY <1>1 DEF Domain, ToSet
<1>3. \A d \in Domain : \E k \in 1 .. Len(Domains) : Domains[k] = d
  BY <1>1 DEF Domain, ToSet
<1>4. AdminOrg = Domains[1]
  BY <1>1 DEF AdminOrg
<1>5. Cardinality(OrgId) \in Nat
  BY FS_CardinalityType
<1>6. OwnOrg \in OrgId /\ 0 \notin OrgId /\ OrgId \subseteq Nat
  BY <1>1, <1>5 DEF OwnOrg
<1> QED
  BY <1>1, <1>2, <1>3, <1>4, <1>6

\* What else the steps need of the bounds.
LEMMA Bounds ==
    /\ "first" \notin Domain /\ "free" \notin Domain /\ "absent" \notin Domain /\ "none" \notin Domain
    /\ MaxTrouble \in Nat
OBVIOUS

HIDE ZitadelAssumption
USE Bounds

LEMMA NoLocType == NoLoc \in Process
BY FirstDomain DEF NoLoc, Process, NoApp, Cred

\* A fresh server and an older one.
LEMMA InitType == Init => TypeOK
<1> SUFFICES ASSUME NEW older \in BOOLEAN, ZitadelInit(older), StalwartInit(older), deploys = 0
             PROVE  TypeOK
  BY DEF Init
<1>1. ZitadelTypeOK
  <2>1. InitialOrgs \in [OrgId -> Org]
    BY DEF InitialOrgs, Org, OrgName, Primary, NoOrg
  <2>2. srv \in Server
    <3>1. srv.login \in [Sink -> Form] /\ srv.granted \in [OrgId -> SUBSET Role]
      BY DEF ZitadelInit, Form
    <3>2. srv.app \in Cred
      BY DEF ZitadelInit, Cred, NoApp
    <3> QED
      BY <2>1, <3>1, <3>2 DEF ZitadelInit, Server, Form, Role
  <2>3. file \in Cred /\ durable \in Cred /\ carried \in Cred
    BY <2>2 DEF ZitadelInit, Server
  <2>4. issued \in Nat /\ 0 \in 0 .. MaxTrouble
    BY DEF ZitadelInit
  <2> QED
    BY <2>2, <2>3, <2>4, NoLocType DEF ZitadelInit, ZitadelTypeOK, Zpc
<1>2. StalwartTypeOK
  <2>1. Addresses(Mandatory) \cup CatchAll \subseteq Address
    BY DEF Addresses, CatchAll, Address, Mandatory
  <2>2. mail \in [Name -> Principal]
    BY <2>1 DEF StalwartInit, Principal, NoPrincipal
  <2>3. account \in Principal
    BY DEF StalwartInit, Principal, NoPrincipal
  <2>4. hand \in 0 .. MaxHand /\ request \in [Handler -> Pending \cup {NoRequest}]
    BY DEF StalwartInit
  <2> QED
    BY <2>2, <2>3, <2>4 DEF StalwartInit, StalwartTypeOK, Spc
<1> QED
  BY <1>1, <1>2 DEF TypeOK

\* The shapes of a run's steps.
LEMMA ReadType ==
    ASSUME ZitadelTypeOK, NEW from, NEW to \in Zpc, NEW l \in Process, Read(from, to, l)
    PROVE  ZitadelTypeOK'
BY DEF ZitadelTypeOK, Read, creds, history

LEMMA WriteType ==
    ASSUME ZitadelTypeOK, NEW from, NEW to \in Zpc, NEW s \in Server, NEW l \in Process,
           Write(from, to, s, l)
    PROVE  ZitadelTypeOK'
BY DEF ZitadelTypeOK, Write, creds, history

LEMMA RefusedType ==
    ASSUME ZitadelTypeOK, NEW from, Refused(from)
    PROVE  ZitadelTypeOK'
BY NoLocType DEF ZitadelTypeOK, Refused, Fail, creds, history, Zpc

LEMMA RequestType ==
    ASSUME ZitadelTypeOK, NEW from, NEW to \in Zpc, NEW ok, NEW s \in Server,
           Request(from, to, ok, s)
    PROVE  ZitadelTypeOK'
<1>1. CASE Write(from, to, s, loc)
  BY <1>1, WriteType DEF ZitadelTypeOK
<1>2. CASE Refused(from)
  BY <1>2, RefusedType
<1> QED
  BY <1>1, <1>2 DEF Request

LEMMA IssueType ==
    ASSUME ZitadelTypeOK, NEW from, NEW to \in Zpc, NEW c \in Cred, Issue(from, to, c)
    PROVE  ZitadelTypeOK'
<1>1. [srv EXCEPT !.app = c] \in Server
  BY DEF ZitadelTypeOK, Server
<1>2. [loc EXCEPT !.cred = c] \in Process
  BY DEF ZitadelTypeOK, Process
<1>3. issued + 1 \in Nat
  BY DEF ZitadelTypeOK
<1> QED
  BY <1>1, <1>2, <1>3 DEF ZitadelTypeOK, Issue

\* Every request of a run.
LEMMA UsersType == ASSUME ZitadelTypeOK, ConvergeUsers PROVE ZitadelTypeOK'
<1> USE DEF Zpc
<1>1. srv \in Server /\ loc \in Process
  BY DEF ZitadelTypeOK
<1>2. CASE SearchAdmin
  BY <1>1, <1>2, ReadType DEF SearchAdmin
<1>3. CASE SearchIamMembers
  <2>1. [loc EXCEPT !.roles = srv.iam] \in Process
    BY <1>1 DEF Process, Server
  <2> QED
    BY <1>3, <2>1, ReadType DEF SearchIamMembers
<1>4. CASE UpdateIamMember
  <2>1. [srv EXCEPT !.iam = loc.roles \cup IamRoles] \in Server
    BY <1>1 DEF Process, Server, Role
  <2> QED
    BY <1>1, <1>4, <2>1, WriteType DEF UpdateIamMember
<1>5. CASE SearchUsers
  <2>1. PICK to \in Zpc : Read("users", to, loc)
    BY <1>5 DEF SearchUsers
  <2> QED
    BY <1>1, <2>1, ReadType
<1>6. CASE CreateUser \/ RenameUser
  <2>1. [srv EXCEPT !.login[user] = "full"] \in Server
    BY <1>1 DEF Server, Form
  <2> QED
    BY <1>1, <1>6, <2>1, WriteType DEF CreateUser, RenameUser
<1> QED
  BY <1>2, <1>3, <1>4, <1>5, <1>6 DEF ConvergeUsers

LEMMA ThisDomain == ZitadelTypeOK => This \in Domain
BY FirstDomain DEF ZitadelTypeOK, Process, This

LEMMA NextDomainType ==
    ASSUME ZitadelTypeOK, NEW owner \in [Domain -> {0} \cup OrgId]
    PROVE  NextDomain(owner) \in Process
<1>0. loc.n \in 1 .. Len(Domains) /\ Len(Domains) \in Nat
  BY FirstDomain DEF ZitadelTypeOK, Process
<1>1. (IF loc.n = Len(Domains) THEN 1 ELSE loc.n + 1) \in 1 .. Len(Domains)
  BY <1>0
<1> DEFINE n == IF loc.n = Len(Domains) THEN 1 ELSE loc.n + 1
<1>2. n \in 1 .. Len(Domains)
  BY <1>1
<1> HIDE DEF n
<1>3. [loc EXCEPT !.owner = owner, !.n = n] \in Process
  BY <1>2 DEF ZitadelTypeOK, Process
<1> QED
  BY <1>3 DEF NextDomain, n

LEMMA OrgEdits ==
    ASSUME ZitadelTypeOK, NEW id \in OrgId, NEW d \in Domain
    PROVE  /\ WithDomain(id, d) \in Server /\ WithPrimary(id, d) \in Server
           /\ [srv EXCEPT !.orgs[id].name = d] \in Server
<1>1. srv \in Server /\ srv.orgs \in [OrgId -> Org]
  BY DEF ZitadelTypeOK, Server
<1>2. /\ [srv.orgs EXCEPT ![id].domains = @ \cup {d}] \in [OrgId -> Org]
      /\ [srv.orgs EXCEPT ![id].primary = d] \in [OrgId -> Org]
      /\ [srv.orgs EXCEPT ![id].name = d] \in [OrgId -> Org]
  BY <1>1 DEF Org, OrgName, Primary
<1> QED
  BY <1>1, <1>2 DEF Server, WithDomain, WithPrimary

\* A set of organisations has a first one.
LEMMA LeastOrg ==
    ASSUME NEW S \in SUBSET OrgId, S # {}
    PROVE  (CHOOSE i \in S : \A j \in S : i <= j) \in S
<1>1. S \subseteq Nat
  BY FirstDomain
<1>2. PICK i \in S : \A j \in S : <<j, i>> \notin OpToRel(<, Nat)
  BY <1>1, NatLessThanWellFounded, WFMin
<1>3. \A j \in S : <<j, i>> \in Nat \X Nat
  BY <1>1
<1>4. \A j \in S : ~(j < i)
  BY <1>2, <1>3, Zenon DEF OpToRel
<1>5. \A j \in S : i <= j
  BY <1>1, <1>4
<1> QED
  BY <1>5

LEMMA OrgsType == ASSUME ZitadelTypeOK, OwnersOK, ConvergeOrgs PROVE ZitadelTypeOK'
<1> USE DEF Zpc
<1>1. srv \in Server /\ loc \in Process /\ This \in Domain /\ AdminOrg \in Domain /\ OwnOrg \in OrgId
  BY ThisDomain, FirstDomain DEF ZitadelTypeOK
<1>2. CASE ListOwnDomains
  <2>1. PICK to \in Zpc : Read("domain.list", to, loc)
    BY <1>2 DEF ListOwnDomains
  <2> QED
    BY <1>1, <2>1, ReadType
<1>3. CASE AddOwnDomain
  BY <1>1, <1>3, OrgEdits, RequestType DEF AddOwnDomain
<1>4. CASE SetOwnPrimary
  BY <1>1, <1>4, OrgEdits, WriteType DEF SetOwnPrimary
<1>5. CASE ListOrgs
  <2> DEFINE ids == {id \in OrgId : srv.orgs[id] # NoOrg}
             all == {[id |-> id, name |-> srv.orgs[id].name, primary |-> srv.orgs[id].primary] : id \in ids}
             l   == [loc EXCEPT !.left = ids, !.n = 1, !.owner = [d \in Domain |-> 0], !.listed = all]
  <2>1. all \in SUBSET [id : OrgId, name : OrgName, primary : Primary]
    BY <1>1 DEF Server, Org
  <2>2. l \in Process
    BY <1>1, <2>1, FirstDomain DEF Process
  <2>3. Read("orgs.list", "orgs.domains", l)
    BY <1>5 DEF ListOrgs
  <2> QED
    BY <2>2, <2>3, ReadType
<1>6. CASE ListDomains
  <2> DEFINE id == CHOOSE i \in loc.left : \A j \in loc.left : i <= j
             owner == [d \in Domain |-> IF loc.owner[d] = 0 /\ Carries(id, d) THEN id ELSE loc.owner[d]]
             l == [loc EXCEPT !.left = @ \ {id}, !.owner = owner]
  <2>1. id \in loc.left
    BY <1>1, <1>6, LeastOrg DEF ListDomains, Process
  <2>2. owner \in [Domain -> {0} \cup OrgId] /\ loc.left \ {id} \in SUBSET OrgId
    BY <1>1, <2>1 DEF Process
  <2>3. l \in Process
    BY <1>1, <2>2 DEF Process
  <2>4. \E to \in Zpc : Read("orgs.domains", to, l)
    BY <1>6 DEF ListDomains
  <2> QED
    BY <2>3, <2>4, ReadType
<1>7. CASE AdoptOrg
  <2>1. PICK id \in ExistingOrg(This) :
           Read("orgs.each", AfterDomain, NextDomain([loc.owner EXCEPT ![This] = id]))
    BY <1>7 DEF AdoptOrg
  <2>2. id \in {0} \cup OrgId
    BY <1>1 DEF ExistingOrg, Process
  <2>3. [loc.owner EXCEPT ![This] = id] \in [Domain -> {0} \cup OrgId]
    BY <1>1, <2>2 DEF Process
  <2> QED
    BY <2>1, <2>3, NextDomainType, ReadType DEF AfterDomain
<1>8. CASE CreateOrg
  <2>1. PICK id \in OrgId : Write("orgs.each", "orgs.add", [srv EXCEPT !.orgs[id].name = This],
                                 [loc EXCEPT !.owner[This] = id])
    BY <1>8 DEF CreateOrg
  <2>2. [loc EXCEPT !.owner[This] = id] \in Process
    BY <1>1 DEF Process
  <2> QED
    BY <1>1, <2>1, <2>2, OrgEdits, WriteType
<1>9. loc.owner[This] # 0 => loc.owner[This] \in OrgId
  BY <1>1 DEF Process
<1>10. CASE AddOrgDomain
  <2>1. loc.owner[This] \in OrgId
    BY <1>9, <1>10 DEF AddOrgDomain, Request, Write, Refused, OwnersOK
  <2> QED
    BY <1>1, <1>10, <2>1, OrgEdits, RequestType DEF AddOrgDomain
<1>11. CASE SetPrimaryOrgDomain
  <2>1. loc.owner[This] \in OrgId
    BY <1>9, <1>11 DEF SetPrimaryOrgDomain, Write, OwnersOK
  <2>2. NextDomain(loc.owner) \in Process
    BY <1>1, NextDomainType DEF Process
  <2> QED
    BY <1>1, <1>11, <2>1, <2>2, OrgEdits, WriteType DEF SetPrimaryOrgDomain, AfterDomain
<1> QED
  BY <1>2, <1>3, <1>4, <1>5, <1>6, <1>7, <1>8, <1>10, <1>11 DEF ConvergeOrgs

LEMMA AppType == ASSUME ZitadelTypeOK, ConvergeApp PROVE ZitadelTypeOK'
<1> USE DEF Zpc
<1>1. srv \in Server /\ loc \in Process /\ srv.app \in Cred /\ file \in Cred /\ loc.cred \in Cred
      /\ issued \in Nat
  BY DEF ZitadelTypeOK, Server, Process
<1>2. CASE SearchProjects \/ WriteTemporary
  <2>1. PICK from, to \in Zpc : Read(from, to, loc)
    BY <1>2 DEF SearchProjects, WriteTemporary
  <2> QED
    BY <1>1, <2>1, ReadType
<1>3. CASE CreateProject
  <2>1. [srv EXCEPT !.project = TRUE] \in Server
    BY <1>1 DEF Server
  <2> QED
    BY <1>1, <1>3, <2>1, WriteType DEF CreateProject
<1>4. CASE SearchApps
  <2> DEFINE l == [loc EXCEPT !.app = srv.app.client,
                              !.cred = [client |-> srv.app.client, secret |-> 0]]
  <2>1. l \in Process
    BY <1>1 DEF Process, Cred
  <2>2. \E to \in Zpc : Read("app.search", to, l)
    BY <1>4 DEF SearchApps
  <2> QED
    BY <2>1, <2>2, ReadType
<1>5. CASE ReadStored
  <2>1. [loc EXCEPT !.cred.secret = file.secret] \in Process
    BY <1>1 DEF Process, Cred
  <2>2. PICK to \in Zpc, l \in Process : Read("app.stored", to, l)
    BY <1>1, <1>5, <2>1 DEF ReadStored
  <2> QED
    BY <2>2, ReadType
<1>6. CASE CreateApp
  <2>1. [client |-> issued + 1, secret |-> issued + 1] \in Cred
    BY <1>1 DEF Cred
  <2> QED
    BY <1>6, <2>1, IssueType DEF CreateApp
<1>7. CASE FindApp
  <2>1. [loc EXCEPT !.app = srv.app.client] \in Process
    BY <1>1 DEF Process, Cred
  <2> QED
    BY <1>7, <2>1, ReadType DEF FindApp
<1>8. CASE RegenerateSecret
  <2>1. [srv.app EXCEPT !.secret = issued + 1] \in Cred
    BY <1>1 DEF Cred
  <2> QED
    BY <1>8, <2>1, IssueType, RefusedType DEF RegenerateSecret
<1>9. CASE UpdateAppConfig
  BY <1>1, <1>9, RequestType DEF UpdateAppConfig
<1>10. CASE Rename
  BY <1>1, <1>10 DEF Rename, ZitadelTypeOK, history
<1> QED
  BY <1>2, <1>3, <1>4, <1>5, <1>6, <1>7, <1>8, <1>9, <1>10 DEF ConvergeApp

\* Once every domain has an owner, those other than the first are organisations.
LEMMA GrantedType ==
    ASSUME ZitadelTypeOK, OwnersOK, zpc \in Chosen
    PROVE  GrantedOrgs \subseteq OrgId /\ \A d \in Domain : loc.owner[d] \in OrgId
BY DEF ZitadelTypeOK, OwnersOK, Process, GrantedOrgs

LEMMA RolesType == ASSUME ZitadelTypeOK, OwnersOK, ConvergeRoles PROVE ZitadelTypeOK'
<1> USE DEF Zpc
<1>1. srv \in Server /\ loc \in Process /\ srv.granted \in [OrgId -> SUBSET Role]
      /\ Roles \subseteq Role
  BY DEF ZitadelTypeOK, Server, Role
<1>2. CASE SearchRoles \/ SearchGrants
  <2>1. [loc EXCEPT !.roles = srv.roles] \in Process /\ [loc EXCEPT !.roles = srv.grant] \in Process
    BY <1>1 DEF Process, Server
  <2> QED
    BY <1>2, <2>1, ReadType DEF SearchRoles, SearchGrants
<1>3. CASE AddProjectRole
  <2>1. PICK r \in Roles \ loc.roles :
           Write("roles.add", "roles.search", [srv EXCEPT !.roles = @ \cup {r}], loc)
    BY <1>3 DEF AddProjectRole
  <2>2. [srv EXCEPT !.roles = @ \cup {r}] \in Server
    BY <1>1 DEF Server
  <2> QED
    BY <1>1, <2>1, <2>2, WriteType
<1>4. CASE UpdateGrant
  <2>1. [srv EXCEPT !.grant = loc.roles \cup Roles] \in Server
    BY <1>1 DEF Server, Process
  <2> QED
    BY <1>4, <2>1, RequestType DEF UpdateGrant
<1>5. CASE ListProjectGrants
  <2> DEFINE left == {id \in GrantedOrgs : srv.granted[id] = {}}
  <2>1. zpc \in Zpc /\ \A S : S \subseteq OrgId => [loc EXCEPT !.left = S] \in Process
    BY <1>1 DEF Process, ZitadelTypeOK
  <2>2. PICK to \in Zpc : Read("granted.list", to, [loc EXCEPT !.left = left])
    BY <1>5 DEF ListProjectGrants
  <2>3. left \subseteq OrgId
    BY <2>2, GrantedType DEF Read, Chosen, Written
  <2> QED
    BY <2>1, <2>2, <2>3, ReadType
<1>6. CASE CreateProjectGrant
  <2>1. PICK id \in loc.left : \E to \in Zpc :
           \/ Write("granted.add", to, [srv EXCEPT !.granted[id] = Roles], [loc EXCEPT !.left = @ \ {id}])
           \/ Refused("granted.add")
    BY <1>6 DEF CreateProjectGrant
  <2>2. [srv EXCEPT !.granted[id] = Roles] \in Server /\ [loc EXCEPT !.left = @ \ {id}] \in Process
    BY <1>1 DEF Server, Process
  <2> QED
    BY <2>1, <2>2, WriteType, RefusedType
<1> QED
  BY <1>2, <1>3, <1>4, <1>5, <1>6 DEF ConvergeRoles

\* The console, a failed run, the operator and a new deployment.
LEMMA DisturbType == ASSUME ZitadelTypeOK, Disturb PROVE ZitadelTypeOK'
<1>1. srv \in Server /\ srv.app \in Cred /\ issued \in Nat /\ issued + 1 \in Nat
  BY DEF ZitadelTypeOK, Server
<1>2. ASSUME NEW s \in Server, NEW i \in Nat, Console(s), issued' = i,
             astray' \in BOOLEAN, touched' \in BOOLEAN, raced' \in BOOLEAN
      PROVE  ZitadelTypeOK'
  <2>1. trouble' \in 0 .. MaxTrouble
    BY <1>2 DEF Console, Trouble, ZitadelTypeOK
  <2>2. quiet' \in BOOLEAN
    BY <1>2 DEF Console
  <2>3. UNCHANGED <<file, durable, carried, zpc, loc, user>> /\ srv' = s
    BY <1>2 DEF Console
  <2> QED
    BY <1>2, <2>1, <2>2, <2>3 DEF ZitadelTypeOK
<1>3. CASE RunFails \/ PowerCut
  BY <1>3, NoLocType DEF RunFails, PowerCut, Fail, Trouble, ZitadelTypeOK, creds, history, Zpc
<1>4. CASE ConsoleEdits
  <2>0. astray \in BOOLEAN /\ touched \in BOOLEAN /\ raced \in BOOLEAN
    BY DEF ZitadelTypeOK
  <2>1. ASSUME NEW id \in OrgId, NEW d \in Domain
        PROVE  [srv EXCEPT !.orgs[id] = [name |-> "free", domains |-> {d}, primary |-> d]] \in Server
    <3>1. [name |-> "free", domains |-> {d}, primary |-> d] \in Org
      BY DEF Org, OrgName, Primary
    <3>2. [srv.orgs EXCEPT ![id] = [name |-> "free", domains |-> {d}, primary |-> d]] \in [OrgId -> Org]
      BY <1>1, <3>1 DEF Server
    <3> QED
      BY <1>1, <3>2 DEF Server
  <2>2. ASSUME NEW r \in MoreRoles
        PROVE  [srv EXCEPT !.iam = @ \cup {r}] \in Server /\ [srv EXCEPT !.grant = @ \cup {r}] \in Server
    BY <1>1 DEF Server, Role
  <2>3. ASSUME NEW u \in Sink PROVE [srv EXCEPT !.login[u] = "bare"] \in Server
    BY <1>1 DEF Server, Form
  <2>4. [srv EXCEPT !.app.secret = issued + 1] \in Server
    BY <1>1 DEF Server, Cred
  <2>5. [srv EXCEPT !.app = [client |-> issued + 1, secret |-> issued + 1]] \in Server
    BY <1>1 DEF Server, Cred
  <2>6. ASSUME NEW id \in OrgId, NEW r \in MoreRoles PROVE [srv EXCEPT !.granted[id] = {r}] \in Server
    BY <1>1 DEF Server, Role
  <2>7. ASSUME NEW form \in Form PROVE [srv EXCEPT !.admin = form] \in Server
    BY <1>1 DEF Server
  <2> QED
    BY <1>1, <1>2, <1>4, <2>0, <2>1, <2>2, <2>3, <2>4, <2>5, <2>6, <2>7 DEF ConsoleEdits
<1> QED
  BY <1>3, <1>4 DEF Disturb

LEMMA ConfigureType == ASSUME ZitadelTypeOK, OwnersOK, Configure \/ Disturb \/ Carry PROVE ZitadelTypeOK'
<1>1. CASE Carry
  BY <1>1 DEF Carry, ZitadelTypeOK
<1> QED
  BY <1>1, UsersType, OrgsType, AppType, RolesType, DisturbType DEF Configure

LEMMA StartType ==
    ASSUME ZitadelTypeOK, NEW u \in Sink \cup {"none"}, StartZitadel(u)
    PROVE  ZitadelTypeOK'
BY NoLocType DEF ZitadelTypeOK, StartZitadel, Zpc

\* The shapes of a change to the mail server.
LEMMA PatchedType ==
    ASSUME StalwartTypeOK, NEW n \in Name, NEW read, NEW add \in SUBSET Address, NEW remove,
           NEW roles \in SUBSET {DEFAULT_ROLE, "absent"}, Patched(n, read, add, remove, roles)
    PROVE  mail' \in [Name -> Principal]
BY DEF StalwartTypeOK, Patched, Principal

LEMMA DeployedType ==
    ASSUME StalwartTypeOK, NEW n \in Name, NEW emails \in SUBSET Address, Deployed(n, emails)
    PROVE  mail' \in [Name -> Principal]
BY DEF StalwartTypeOK, Deployed, Principal, NoPrincipal

LEMMA StoreType ==
    ASSUME StalwartTypeOK, NEW n \in Name, NEW from, NEW to \in Spc, NEW desired \in SUBSET Address,
           Store(from, to, n, desired)
    PROVE  StalwartTypeOK'
<1>1. mail' \in [Name -> Principal]
  BY DeployedType, PatchedType DEF Store, StalwartTypeOK
<1> QED
  BY <1>1 DEF Store, StalwartTypeOK

LEMMA FetchType ==
    ASSUME StalwartTypeOK, NEW n \in Name, NEW from, NEW to \in Spc, Fetch(from, to, n)
    PROVE  StalwartTypeOK'
BY DEF Fetch, StalwartTypeOK, getPrincipal

LEMMA AccountsType ==
    ASSUME StalwartTypeOK, MailOK, ConvergeAccounts
    PROVE  StalwartTypeOK'
<1> USE DEF Spc, AfterSink, AfterAdmin
<1>1. Full(AdminUser) \in Name /\ (catcher # None => Full(catcher) \in Name)
  BY DEF Full, Name, StalwartTypeOK
<1>2. /\ CatchAll \subseteq Address /\ AdminEmails \subseteq Address
      /\ catcher # None => SinkEmails \subseteq Address
  BY DEF CatchAll, Address, AdminEmails, SinkEmails, Addresses, StalwartTypeOK
<1>3. CASE GetSink \/ StoreSink
  <2>1. catcher # None
    BY <1>3 DEF GetSink, StoreSink, Fetch, Store, MailOK
  <2> QED
    BY <1>1, <1>2, <1>3, <2>1, FetchType, StoreType DEF GetSink, StoreSink
<1>4. CASE GetAdmin \/ StoreAdmin
  BY <1>1, <1>2, <1>4, FetchType, StoreType DEF GetAdmin, StoreAdmin
<1>7. CASE GetStripped
  BY <1>1, <1>7 DEF GetStripped, getPrincipal, StalwartTypeOK
<1>5. CASE StripAdmin
  <2>1. mail' \in [Name -> Principal]
    BY <1>1, <1>5, PatchedType DEF StripAdmin, StalwartTypeOK
  <2> QED
    BY <1>5, <2>1 DEF StripAdmin, StalwartTypeOK
<1>6. CASE Reload
  BY <1>6 DEF Reload, StalwartTypeOK, Principal, NoPrincipal
<1> QED
  BY <1>3, <1>4, <1>5, <1>6, <1>7 DEF ConvergeAccounts

LEMMA HandType ==
    ASSUME StalwartTypeOK, NEW allowed \in BOOLEAN, SelfService(allowed)
    PROVE  StalwartTypeOK'
<1>1. PICK r \in Handler : Post(r, allowed) \/ GetForHand(r) \/ HandPatch(r)
  BY DEF SelfService
<1> DEFINE q == request[r]
<1>2. q \in Pending \cup {NoRequest} /\ (q.pc \in {"get", "patch"} => q \in Pending)
  BY DEF StalwartTypeOK, NoRequest
<1>3. CASE Post(r, allowed)
  <2>1. PICK n \in Name, l \in Local \cup {NoLocal}, d \in HandDomain, op \in {"add", "remove"} :
           request' = [request EXCEPT ![r] =
             [pc |-> "get", name |-> n, op |-> op, address |-> [local |-> l, domain |-> d], emails |-> {}]]
    BY <1>3 DEF Post
  <2>3. [local |-> l, domain |-> d] \in Address
    BY DEF Address
  <2>4. [pc |-> "get", name |-> n, op |-> op, address |-> [local |-> l, domain |-> d], emails |-> {}] \in Pending
    BY <2>3 DEF Pending
  <2>2. request' \in [Handler -> Pending \cup {NoRequest}]
    BY <2>1, <2>4 DEF StalwartTypeOK
  <2>5. hand < MaxHand /\ hand' = hand + 1
    BY <1>3, Zenon DEF Post
  <2>7. UNCHANGED <<mail, spc, account, catcher, alone, back>>
    BY <1>3, Zenon DEF Post
  <2>6. hand' \in 0 .. MaxHand
    <3>1. hand \in 0 .. MaxHand /\ MaxHand \in Nat
      BY DEF StalwartTypeOK
    <3> QED
      BY <2>5, <3>1
  <2> QED
    BY <2>2, <2>6, <2>7 DEF StalwartTypeOK
<1>4. CASE GetForHand(r)
  <2>1. q \in Pending /\ getPrincipal(q.name) \in Principal
    BY <1>2, <1>4 DEF GetForHand, StalwartTypeOK, getPrincipal, Pending
  <2>2. request' \in [Handler -> Pending \cup {NoRequest}]
    BY <1>4, <2>1 DEF GetForHand, StalwartTypeOK, Pending, Principal
  <2> QED
    BY <1>4, <2>2 DEF GetForHand, StalwartTypeOK
<1>5. CASE HandPatch(r)
  <2>1. q \in Pending
    BY <1>2, <1>5, Zenon DEF HandPatch
  <2>2. alone' \in BOOLEAN /\ back' \in BOOLEAN
    BY <1>5 DEF HandPatch, StalwartTypeOK
  <2>3. q.name \in Name /\ q.address \in Address
    BY <2>1 DEF Pending
  <2>4. UNCHANGED mail \/ \E read, remove : \E add \in SUBSET Address : Patched(q.name, read, add, remove, {})
    BY <1>5, <2>3 DEF HandPatch
  <2>5. mail' \in [Name -> Principal]
    <3>1. CASE UNCHANGED mail
      BY <3>1 DEF StalwartTypeOK
    <3>2. ASSUME NEW read, NEW remove, NEW add \in SUBSET Address, Patched(q.name, read, add, remove, {})
          PROVE  mail' \in [Name -> Principal]
      BY <2>3, <3>2, PatchedType
    <3> QED
      BY <2>4, <3>1, <3>2
  <2> QED
    BY <1>5, <2>2, <2>5 DEF HandPatch, StalwartTypeOK
<1> QED
  BY <1>1, <1>3, <1>4, <1>5

LEMMA SignInType ==
    ASSUME StalwartTypeOK, NEW n \in Name, SignIn(n)
    PROVE  StalwartTypeOK'
<1> DEFINE old == IF mail[n] = NoPrincipal THEN [emails |-> {}, roles |-> {DEFAULT_ROLE}] ELSE mail[n]
<1>1. PICK d \in HandDomain :
         mail' = [mail EXCEPT ![n] = [old EXCEPT !.emails = @ \cup {[local |-> n.user, domain |-> d]}]]
  BY DEF SignIn
<1>2. old \in Principal
  BY DEF StalwartTypeOK, Principal
<1>3. [local |-> n.user, domain |-> d] \in Address
  BY DEF Name, Address
<1>4. mail' \in [Name -> Principal]
  BY <1>1, <1>2, <1>3 DEF StalwartTypeOK, Principal
<1> QED
  BY <1>4 DEF SignIn, StalwartTypeOK

\* Whoever signs in is presented by one of the server's names.
LEMMA HandCases ==
    ASSUME ZitadelTypeOK, ByHand
    PROVE  (\E allowed \in BOOLEAN : SelfService(allowed)) \/ \E n \in Name : SignIn(n)
<1>1. [user |-> AdminUser, form |-> "bare"] \in Name /\ Full(AdminUser) \in Name
  BY DEF Name, Full
<1>2. ASSUME NEW c \in Catcher, srv.login[c] # "absent"
      PROVE  [user |-> c, form |-> srv.login[c]] \in Name
  BY <1>2 DEF Name, ZitadelTypeOK, Server, Form
<1>3. SelfService(AdminRole \in srv.grant) \/ \E n \in Name : SignIn(n)
  BY <1>1, <1>2 DEF ByHand
<1>4. (AdminRole \in srv.grant) \in BOOLEAN
  OBVIOUS
<1> QED
  BY <1>3, <1>4, Zenon

LEMMA HandsType ==
    ASSUME StalwartTypeOK, ZitadelTypeOK, ByHand
    PROVE  StalwartTypeOK' /\ ZitadelTypeOK'
<1>1. ZitadelTypeOK'
  BY DEF ByHand, zvars, creds, history, ZitadelTypeOK
<1>2. ASSUME NEW allowed \in BOOLEAN, SelfService(allowed) PROVE StalwartTypeOK'
  BY <1>2, HandType
<1>3. ASSUME NEW n \in Name, SignIn(n) PROVE StalwartTypeOK'
  BY <1>3, SignInType
<1> QED
  BY <1>1, <1>2, <1>3, HandCases, Zenon

\* Every step keeps the types.
LEMMA NextType == ASSUME IInv, [Next]_vars PROVE TypeOK'
<1>1. ZitadelTypeOK /\ StalwartTypeOK /\ deploys \in 0 .. MaxDeploys /\ OwnersOK /\ MailOK
  BY DEF IInv, TypeOK
<1>2. CASE Deploy
  <2>1. PICK c \in Catcher \cup {None} : StartZitadel(IF c = None THEN "none" ELSE c) /\ catcher' = c
    BY <1>2 DEF Deploy
  <2>2. ZitadelTypeOK'
    BY <1>1, <2>1, StartType DEF None
  <2>3. StalwartTypeOK'
    BY <1>1, <1>2, <2>1 DEF Deploy, StalwartTypeOK, Spc
  <2> QED
    BY <1>1, <1>2, <2>2, <2>3 DEF TypeOK, Deploy
<1>3. CASE ZitadelStep
  <2>1. StalwartTypeOK'
    BY <1>1, <1>3 DEF ZitadelStep, svars, StalwartTypeOK
  <2> QED
    BY <1>1, <1>3, <2>1, ConfigureType DEF ZitadelStep, TypeOK
<1>4. CASE StalwartStart
  BY <1>1, <1>4 DEF StalwartStart, StartStalwart, TypeOK, StalwartTypeOK, ZitadelTypeOK, zvars, creds,
                    history, Spc, FirstAccount, Principal, NoPrincipal
<1>5. CASE StalwartStep
  <2>1. ZitadelTypeOK'
    BY <1>1, <1>5 DEF StalwartStep, zvars, creds, history, ZitadelTypeOK
  <2> QED
    BY <1>1, <1>5, <2>1, AccountsType DEF StalwartStep, TypeOK
<1>6. CASE StalwartTrouble
  <2>1. ZitadelTypeOK'
    BY <1>1, <1>6 DEF StalwartTrouble, Trouble, creds, history, ZitadelTypeOK
  <2>2. spc' \in Spc
    BY <1>6 DEF StalwartTrouble, StalwartFails, Misread, AfterRead, Spc
  <2>4. back' \in BOOLEAN
    BY <1>1, <1>6 DEF StalwartTrouble, StalwartFails, Misread, StalwartTypeOK
  <2>3. StalwartTypeOK'
    BY <1>1, <1>6, <2>2, <2>4 DEF StalwartTrouble, StalwartFails, Misread, StalwartTypeOK, Principal, NoPrincipal
  <2> QED
    BY <1>1, <1>6, <2>1, <2>3 DEF StalwartTrouble, TypeOK
<1>7. CASE ByHand
  BY <1>1, <1>7, HandsType DEF ByHand, TypeOK
<1>8. CASE UNCHANGED vars
  BY <1>1, <1>8 DEF vars, zvars, svars, creds, history, TypeOK, ZitadelTypeOK, StalwartTypeOK
<1> QED
  BY <1>2, <1>3, <1>4, <1>5, <1>6, <1>7, <1>8 DEF Next

---------------------------------------------------------------------------
(* What each phase of a run leaves alone, and where it leads.              *)

UserPhase == {"iam.users", "iam.members", "iam.update", "users", "users.create", "users.rename"}
OrgPhase  == {"domain.list", "domain.add", "domain.primary", "orgs.list"} \cup Listing \cup Choosing
AppPhase  == {"project.search", "project.create", "app.search", "app.create", "app.stored",
              "app.find", "app.regenerate", "app.config", "file.write", "file.rename"}
RolePhase == {"roles.search", "roles.add", "grant.search", "grant.update", "granted.list", "granted.add"}

LEMMA UsersFrame ==
    ASSUME ZitadelTypeOK, ConvergeUsers
    PROVE  /\ zpc \in UserPhase /\ zpc' \in UserPhase \cup {"domain.list"}
           /\ UNCHANGED <<creds, carried, user, trouble, history>>
           /\ srv' = [srv EXCEPT !.iam = srv'.iam, !.login = srv'.login]
<1>1. srv \in Server
  BY DEF ZitadelTypeOK
<1>2. srv = [srv EXCEPT !.iam = srv.iam, !.login = srv.login]
  BY <1>1 DEF Server
<1> USE <1>1, <1>2 DEF UserPhase
<1>3. CASE SearchAdmin \/ SearchIamMembers \/ SearchUsers
  BY <1>3 DEF SearchAdmin, SearchIamMembers, SearchUsers, Read
<1>4. CASE UpdateIamMember
  <2>1. srv' = [srv EXCEPT !.iam = loc.roles \cup IamRoles]
    BY <1>4 DEF UpdateIamMember, Write
  <2> QED
    BY <1>4, <2>1 DEF UpdateIamMember, Write, Server
<1>5. CASE CreateUser \/ RenameUser
  <2>1. srv' = [srv EXCEPT !.login[user] = "full"]
    BY <1>5 DEF CreateUser, RenameUser, Write
  <2> QED
    BY <1>5, <2>1 DEF CreateUser, RenameUser, Write, Server
<1> QED
  BY <1>3, <1>4, <1>5 DEF ConvergeUsers

LEMMA OrgsFrame ==
    ASSUME ZitadelTypeOK, ConvergeOrgs
    PROVE  /\ zpc \in OrgPhase /\ zpc' \in OrgPhase \cup {"project.search", "failed"}
           /\ UNCHANGED <<creds, carried, user, trouble, history>>
           /\ srv' = [srv EXCEPT !.orgs = srv'.orgs]
<1>1. srv \in Server
  BY DEF ZitadelTypeOK
<1>2. srv = [srv EXCEPT !.orgs = srv.orgs]
  BY <1>1 DEF Server
<1> USE DEF OrgPhase, Listing, Choosing
<1>3. CASE ListOwnDomains \/ ListOrgs \/ ListDomains \/ AdoptOrg
  BY <1>2, <1>3 DEF ListOwnDomains, ListOrgs, ListDomains, AdoptOrg, Read, AfterDomain
<1>4. ASSUME NEW id, NEW d
      PROVE  LET Only(s) == s = [srv EXCEPT !.orgs = s.orgs]
             IN  Only(WithDomain(id, d)) /\ Only(WithPrimary(id, d)) /\ Only([srv EXCEPT !.orgs[id].name = d])
  BY <1>1 DEF WithDomain, WithPrimary, Server
<1>5. CASE AddOwnDomain \/ AddOrgDomain
  <2>1. CASE Refused("domain.add") \/ Refused("orgs.add")
    BY <1>2, <2>1 DEF Refused, Fail
  <2>2. CASE Write("domain.add", "domain.primary", WithDomain(OwnOrg, AdminOrg), loc)
    BY <1>4, <2>2 DEF Write
  <2>3. CASE Write("orgs.add", "orgs.primary", WithDomain(loc.owner[This], This), loc)
    BY <1>4, <2>3 DEF Write
  <2> QED
    BY <1>5, <2>1, <2>2, <2>3 DEF AddOwnDomain, AddOrgDomain, Request
<1>6. CASE SetOwnPrimary
  BY <1>4, <1>6 DEF SetOwnPrimary, Write
<1>7. CASE CreateOrg
  BY <1>4, <1>7 DEF CreateOrg, Write
<1>8. CASE SetPrimaryOrgDomain
  BY <1>4, <1>8 DEF SetPrimaryOrgDomain, AfterDomain, Write
<1> QED
  BY <1>3, <1>5, <1>6, <1>7, <1>8 DEF ConvergeOrgs

LEMMA AppFrame ==
    ASSUME ZitadelTypeOK, ConvergeApp
    PROVE  /\ zpc \in AppPhase /\ zpc' \in AppPhase \cup {"roles.search", "failed"}
           /\ UNCHANGED <<durable, carried, user, trouble, quiet, touched, raced>>
           /\ srv' = [srv EXCEPT !.app = srv'.app, !.project = srv'.project]
           /\ zpc' # "failed" => loc' = [loc EXCEPT !.app = loc'.app, !.cred = loc'.cred]
<1>1. srv \in Server /\ loc \in Process
  BY DEF ZitadelTypeOK
<1>2. /\ srv = [srv EXCEPT !.app = srv.app, !.project = srv.project]
      /\ loc = [loc EXCEPT !.app = loc.app, !.cred = loc.cred]
  BY <1>1 DEF Server, Process
<1> USE DEF AppPhase
<1>3. ASSUME NEW from, NEW to, NEW l, Read(from, to, l), l = [loc EXCEPT !.app = l.app, !.cred = l.cred]
      PROVE  /\ zpc = from /\ zpc' = to
             /\ UNCHANGED <<durable, carried, user, trouble, quiet, touched, raced>>
             /\ srv' = [srv EXCEPT !.app = srv'.app, !.project = srv'.project]
             /\ loc' = [loc EXCEPT !.app = loc'.app, !.cred = loc'.cred]
  <2>1. srv' = srv /\ loc' = l
    BY <1>3 DEF Read
  <2>2. /\ zpc = from /\ zpc' = to
        /\ UNCHANGED <<durable, carried, user, trouble, quiet, touched, raced>>
    BY <1>3 DEF Read, creds, history
  <2> QED
    BY <1>2, <1>3, <2>1, <2>2
<1>4. CASE SearchProjects \/ WriteTemporary
  <2>1. PICK from \in AppPhase, to \in AppPhase : Read(from, to, loc)
    BY <1>4 DEF SearchProjects, WriteTemporary
  <2> QED
    BY <1>2, <1>3, <2>1
<1>5. CASE CreateProject
  <2>1. srv' = [srv EXCEPT !.project = TRUE]
    BY <1>5 DEF CreateProject, Write
  <2>2. srv' = [srv EXCEPT !.app = srv'.app, !.project = srv'.project]
    BY <1>1, <2>1 DEF Server
  <2> QED
    BY <1>2, <1>5, <2>2 DEF CreateProject, Write, creds, history
<1>6. CASE SearchApps
  <2> DEFINE l == [loc EXCEPT !.app = srv.app.client,
                              !.cred = [client |-> srv.app.client, secret |-> 0]]
  <2>1. l = [loc EXCEPT !.app = l.app, !.cred = l.cred]
    BY <1>1 DEF Process
  <2>2. PICK to \in AppPhase : Read("app.search", to, l)
    BY <1>6 DEF SearchApps
  <2> HIDE DEF l
  <2> QED
    BY <1>2, <2>1, <2>2 DEF Read, creds, history
<1>7. CASE ReadStored
  <2> DEFINE l == [loc EXCEPT !.cred.secret = file.secret]
  <2>1. l = [loc EXCEPT !.app = l.app, !.cred = l.cred]
    BY <1>1 DEF Process
  <2>2. PICK to \in AppPhase : Read("app.stored", to, l) \/ Read("app.stored", to, loc)
    BY <1>7 DEF ReadStored
  <2> HIDE DEF l
  <2> QED
    BY <1>2, <2>1, <2>2 DEF Read, creds, history
<1>8. CASE FindApp
  <2> DEFINE l == [loc EXCEPT !.app = srv.app.client]
  <2>1. l = [loc EXCEPT !.app = l.app, !.cred = l.cred]
    BY <1>1 DEF Process
  <2>2. Read("app.find", "app.config", l)
    BY <1>8 DEF FindApp
  <2> HIDE DEF l
  <2> QED
    BY <1>2, <2>1, <2>2 DEF Read, creds, history
<1>9. ASSUME NEW from, NEW to, NEW c, Issue(from, to, c)
      PROVE  /\ zpc = from /\ zpc' = to
             /\ UNCHANGED <<durable, carried, user, trouble, quiet, touched, raced>>
             /\ srv' = [srv EXCEPT !.app = srv'.app, !.project = srv'.project]
             /\ loc' = [loc EXCEPT !.app = loc'.app, !.cred = loc'.cred]
  <2>1. srv' = [srv EXCEPT !.app = c] /\ loc' = [loc EXCEPT !.cred = c]
    BY <1>9 DEF Issue
  <2>2. srv' = [srv EXCEPT !.app = srv'.app, !.project = srv'.project]
    BY <1>1, <2>1 DEF Server
  <2>3. loc' = [loc EXCEPT !.app = loc'.app, !.cred = loc'.cred]
    BY <1>1, <2>1 DEF Process
  <2> QED
    BY <1>9, <2>2, <2>3 DEF Issue
<1>10. ASSUME NEW from, Refused(from)
       PROVE  /\ zpc = from /\ zpc' = "failed"
              /\ UNCHANGED <<durable, carried, user, trouble, quiet, touched, raced>>
              /\ srv' = [srv EXCEPT !.app = srv'.app, !.project = srv'.project]
  BY <1>2, <1>10 DEF Refused, Fail, creds, history
<1>11. CASE CreateApp \/ RegenerateSecret
  BY <1>9, <1>10, <1>11 DEF CreateApp, RegenerateSecret
<1>12. CASE UpdateAppConfig
  <2>1. CASE Write("app.config", "file.write", srv, loc)
    BY <1>2, <2>1 DEF Write, creds, history
  <2> QED
    BY <1>10, <1>12, <2>1 DEF UpdateAppConfig, Request
<1>13. CASE Rename
  BY <1>2, <1>13 DEF Rename, history
<1> QED
  BY <1>4, <1>5, <1>6, <1>7, <1>8, <1>11, <1>12, <1>13 DEF ConvergeApp

LEMMA RolesFrame ==
    ASSUME ZitadelTypeOK, ConvergeRoles
    PROVE  /\ zpc \in RolePhase /\ zpc' \in RolePhase \cup {"done", "failed"}
           /\ UNCHANGED <<creds, carried, user, trouble, history>>
           /\ srv' = [srv EXCEPT !.roles = srv'.roles, !.grant = srv'.grant, !.granted = srv'.granted]
           /\ zpc' # "failed" => loc' = [loc EXCEPT !.roles = loc'.roles, !.left = loc'.left]
<1>1. srv \in Server /\ loc \in Process
  BY DEF ZitadelTypeOK
<1>2. /\ srv = [srv EXCEPT !.roles = srv.roles, !.grant = srv.grant, !.granted = srv.granted]
      /\ loc = [loc EXCEPT !.roles = loc.roles, !.left = loc.left]
  BY <1>1 DEF Server, Process
<1> USE DEF RolePhase
<1>3. CASE SearchRoles \/ SearchGrants \/ ListProjectGrants
  <2> DEFINE l(S) == [loc EXCEPT !.roles = S]
             k(S) == [loc EXCEPT !.left = S]
  <2>1. ASSUME NEW S PROVE l(S) = [loc EXCEPT !.roles = l(S).roles, !.left = l(S).left]
    BY <1>1 DEF Process
  <2>2. ASSUME NEW S PROVE k(S) = [loc EXCEPT !.roles = k(S).roles, !.left = k(S).left]
    BY <1>1 DEF Process
  <2>3. PICK to, from, S : /\ to \in RolePhase \cup {"done"} /\ from \in RolePhase
                           /\ Read(from, to, l(S)) \/ Read(from, to, k(S))
    BY <1>3 DEF SearchRoles, SearchGrants, ListProjectGrants
  <2> HIDE DEF l, k
  <2> QED
    BY <1>2, <2>1, <2>2, <2>3 DEF Read
<1>4. CASE AddProjectRole
  <2>1. PICK r \in Roles \ loc.roles :
           Write("roles.add", "roles.search", [srv EXCEPT !.roles = @ \cup {r}], loc)
    BY <1>4 DEF AddProjectRole
  <2>2. srv' = [srv EXCEPT !.roles = srv'.roles, !.grant = srv'.grant, !.granted = srv'.granted]
    BY <1>1, <2>1 DEF Write, Server
  <2> QED
    BY <1>2, <2>1, <2>2 DEF Write
<1>5. CASE UpdateGrant
  <2> DEFINE s == [srv EXCEPT !.grant = loc.roles \cup Roles]
  <2>1. s = [srv EXCEPT !.roles = s.roles, !.grant = s.grant, !.granted = s.granted]
    BY <1>1 DEF Server
  <2>2. Write("grant.update", "granted.list", s, loc) \/ Refused("grant.update")
    BY <1>5 DEF UpdateGrant, Request
  <2> HIDE DEF s
  <2> QED
    BY <1>2, <2>1, <2>2 DEF Write, Refused, Fail
<1>6. CASE CreateProjectGrant
  <2>1. CASE Refused("granted.add")
    BY <1>2, <2>1 DEF Refused, Fail
  <2>2. ASSUME NEW id \in loc.left, NEW to \in {"done", "granted.add"},
               Write("granted.add", to, [srv EXCEPT !.granted[id] = Roles], [loc EXCEPT !.left = @ \ {id}])
        PROVE  /\ zpc \in RolePhase /\ zpc' \in RolePhase \cup {"done", "failed"}
               /\ UNCHANGED <<creds, carried, user, trouble, history>>
               /\ srv' = [srv EXCEPT !.roles = srv'.roles, !.grant = srv'.grant, !.granted = srv'.granted]
               /\ loc' = [loc EXCEPT !.roles = loc'.roles, !.left = loc'.left]
    <3>1. srv' = [srv EXCEPT !.roles = srv'.roles, !.grant = srv'.grant, !.granted = srv'.granted]
      BY <1>1, <2>2 DEF Write, Server
    <3>2. loc' = [loc EXCEPT !.roles = loc'.roles, !.left = loc'.left]
      BY <1>1, <2>2 DEF Write, Process
    <3> QED
      BY <2>2, <3>1, <3>2 DEF Write
  <2> QED
    BY <1>6, <2>1, <2>2 DEF CreateProjectGrant
<1> QED
  BY <1>3, <1>4, <1>5, <1>6 DEF ConvergeRoles

---------------------------------------------------------------------------
(* The credentials.                                                        *)

\* What the proofs about credentials look at.
LEMMA AppNumbers ==
    ASSUME ZitadelTypeOK
    PROVE  /\ srv.app \in Cred /\ file \in Cred /\ durable \in Cred /\ carried \in Cred
           /\ loc.cred \in Cred /\ loc.app \in Nat /\ issued \in Nat
           /\ \A c \in Cred : c.client \in Nat /\ c.secret \in Nat /\ c = [client |-> c.client, secret |-> c.secret]
           /\ quiet \in BOOLEAN /\ touched \in BOOLEAN /\ astray \in BOOLEAN
BY DEF ZitadelTypeOK, Server, Process, Cred

\* A step that leaves the app, its copies and what a run holds of it alone.
LEMMA SameApp ==
    ASSUME CopiesOK, UNCHANGED <<srv.app, issued, file, durable, carried, astray, touched>>
    PROVE  CopiesOK'
BY DEF CopiesOK, Right

LEMMA CredsApp ==
    ASSUME ZitadelTypeOK, CopiesOK, ReadOK, ConvergeApp
    PROVE  CopiesOK' /\ ReadOK'
<1> USE DEF InHand, Written
<1> USE AppNumbers
<1>1. srv \in Server /\ loc \in Process
  BY DEF ZitadelTypeOK
<1>2. CASE SearchProjects \/ WriteTemporary \/ UpdateAppConfig
  <2>1. /\ UNCHANGED <<srv.app, issued, file, durable, carried, astray, touched, quiet>>
        /\ \/ zpc' \in {"app.search", "project.create", "failed"}
           \/ zpc \in InHand /\ zpc' \in {"file.write", "file.rename"} /\ loc' = loc
    BY <1>2 DEF SearchProjects, WriteTemporary, UpdateAppConfig, Request, Refused, Fail, Read, Write, creds, history
  <2>2. ReadOK'
    BY <2>1 DEF ReadOK, Calm, Right
  <2> QED
    BY <2>1, <2>2, SameApp
<1>3. CASE CreateProject
  <2>1. srv'.app = srv.app
    BY <1>1, <1>3 DEF CreateProject, Write, Server
  <2>2. /\ UNCHANGED <<srv.app, issued, file, durable, carried, astray, touched, quiet>>
        /\ zpc' = "app.search"
    BY <2>1, <1>3 DEF CreateProject, Write, creds, history
  <2> QED
    BY <2>2, SameApp DEF ReadOK
<1>4. CASE SearchApps
  <2>1. /\ UNCHANGED <<srv.app, issued, file, durable, carried, astray, touched, quiet>>
        /\ zpc' = IF srv.app = NoApp THEN "app.create" ELSE "app.stored"
        /\ loc'.app = srv.app.client /\ loc'.cred.client = srv.app.client
    BY <1>1, <1>4 DEF SearchApps, Read, Process, creds, history
  <2>2. srv.app # NoApp => srv.app.client # 0
    BY DEF CopiesOK
  <2>3. ReadOK'
    BY <2>1, <2>2 DEF ReadOK, CopiesOK, Calm, Right, NoApp
  <2> QED
    BY <2>1, <2>3, SameApp
<1>5. CASE ReadStored
  <2>1. /\ zpc = "app.stored" /\ UNCHANGED <<srv, issued, file, durable, carried, astray, touched, quiet>>
        /\ zpc' = IF readStoredClientSecret THEN "app.config" ELSE "app.regenerate"
        /\ ~readStoredClientSecret => loc' = loc
        /\ readStoredClientSecret => loc' = [loc EXCEPT !.cred.secret = file.secret]
    BY <1>5 DEF ReadStored, Read, creds, history
  <2>2. CASE readStoredClientSecret
    <3>1. loc'.cred = [loc.cred EXCEPT !.secret = file.secret]
      BY <1>1, <2>1, <2>2 DEF Process
    <3>2. loc'.cred.client = file.client /\ loc'.cred = file
      BY <2>2, <3>1 DEF readStoredClientSecret, Cred
    <3>3. ReadOK'
      BY <2>1, <2>2, <3>2 DEF ReadOK, CopiesOK, Calm, Right, readStoredClientSecret
    <3> QED
      BY <2>1, <3>3, SameApp
  <2>3. CASE ~readStoredClientSecret
    <3>1. file.client # loc.app
      BY <2>1, <2>3 DEF readStoredClientSecret, ReadOK, NoApp, NoFile
    <3>2. ReadOK'
      BY <2>1, <2>3, <3>1 DEF ReadOK, Calm, Right
    <3> QED
      BY <2>1, <3>2, SameApp
  <2> QED
    BY <2>2, <2>3
<1>6. CASE CreateApp
  <2> DEFINE c == [client |-> issued + 1, secret |-> issued + 1]
  <2>1. /\ zpc = "app.create" /\ zpc' = "app.find" /\ astray' = FALSE /\ issued' = issued + 1
        /\ srv'.app = c /\ loc'.cred = c /\ UNCHANGED <<file, durable, carried, touched, quiet>>
    BY <1>1, <1>6 DEF CreateApp, Issue, Server, Process
  <2>2. srv.app.client = 0 /\ file.client = 0 /\ durable.client = 0 /\ carried.client = 0
    BY <2>1 DEF ReadOK, CopiesOK, NoApp
  <2>3. CopiesOK'
    BY <2>1, <2>2 DEF CopiesOK, Right
  <2>4. ReadOK'
    BY <2>1, <2>2 DEF ReadOK, Right
  <2> QED
    BY <2>3, <2>4
<1>7. CASE FindApp
  <2>1. /\ UNCHANGED <<srv.app, issued, file, durable, carried, astray, touched, quiet>>
        /\ zpc = "app.find" /\ zpc' = "app.config" /\ loc'.cred = loc.cred
    BY <1>1, <1>7 DEF FindApp, Read, Process, creds, history
  <2>2. ReadOK'
    BY <2>1 DEF ReadOK, Calm, Right
  <2> QED
    BY <2>1, <2>2, SameApp
<1>8. CASE RegenerateSecret
  <2>1. CASE Refused("app.regenerate")
    <3>1. UNCHANGED <<srv.app, issued, file, durable, carried, astray, touched, quiet>> /\ zpc' = "failed"
      BY <2>1 DEF Refused, Fail, creds, history
    <3> QED
      BY <3>1, SameApp DEF ReadOK
  <2> DEFINE c == [srv.app EXCEPT !.secret = issued + 1]
  <2>2. CASE srv.app.client = loc.app /\ Issue("app.regenerate", "app.config", c)
    <3>1. /\ zpc = "app.regenerate" /\ zpc' = "app.config" /\ astray' = FALSE /\ issued' = issued + 1
          /\ srv'.app = c /\ loc'.cred = c /\ UNCHANGED <<file, durable, carried, touched, quiet>>
      BY <1>1, <2>2 DEF Issue, Server, Process
    <3>2. c.client = srv.app.client /\ c.client # 0 /\ c \in Cred
      BY <2>2, <3>1 DEF ReadOK, Cred
    <3>3. file.client < srv.app.client /\ durable.client < srv.app.client /\ carried.client < srv.app.client
      BY <2>2, <3>1 DEF ReadOK, CopiesOK
    <3> HIDE DEF c
    <3>4. CopiesOK'
      BY <3>1, <3>2, <3>3 DEF CopiesOK, Right
    <3>5. ReadOK'
      BY <3>1, <3>2, <3>3 DEF ReadOK, Right
    <3> QED
      BY <3>4, <3>5
  <2> QED
    BY <1>8, <2>1, <2>2 DEF RegenerateSecret
<1>9. CASE Rename
  <2>1. /\ zpc = "file.rename" /\ zpc' = "roles.search" /\ file' = loc.cred
        /\ UNCHANGED <<srv, issued, durable, carried, astray, touched, quiet>>
    BY <1>9 DEF Rename, history
  <2>2. CopiesOK'
    BY <2>1 DEF ReadOK, CopiesOK, Right
  <2>3. ReadOK'
    BY <2>1 DEF ReadOK, Calm
  <2> QED
    BY <2>2, <2>3
<1> QED
  BY <1>2, <1>3, <1>4, <1>5, <1>6, <1>7, <1>8, <1>9 DEF ConvergeApp

LEMMA CredsDisturb ==
    ASSUME ZitadelTypeOK, CopiesOK, ReadOK, Disturb
    PROVE  CopiesOK' /\ ReadOK'
<1> USE DEF InHand, Written
<1> USE AppNumbers
<1>1. srv \in Server
  BY DEF ZitadelTypeOK
<1>2. CASE RunFails
  <2>1. UNCHANGED <<srv.app, issued, file, durable, carried, astray, touched>> /\ zpc' = "failed"
    BY <1>2 DEF RunFails, Fail, creds, history
  <2> QED
    BY <2>1, SameApp DEF ReadOK
<1>3. CASE PowerCut
  <2>1. UNCHANGED <<srv, issued, durable, carried, astray, touched>> /\ zpc' = "failed" /\ file' = durable
    BY <1>3 DEF PowerCut, Fail, history
  <2>2. CopiesOK'
    BY <2>1 DEF CopiesOK, Right
  <2> QED
    BY <2>1, <2>2 DEF ReadOK
<1>4. ASSUME UNCHANGED <<file, durable, carried, zpc, loc>>, quiet' = FALSE,
             UNCHANGED <<srv.app, issued, astray, touched>>
      PROVE  CopiesOK' /\ ReadOK'
  <2>1. ReadOK'
    BY <1>4 DEF ReadOK, Calm, Right
  <2> QED
    BY <1>4, <2>1, SameApp
<1>5. ASSUME UNCHANGED <<file, durable, carried, zpc, loc>>, quiet' = FALSE, touched' = TRUE,
             srv.app # NoApp, issued' = issued + 1,
             \/ srv'.app = [srv.app EXCEPT !.secret = issued + 1] /\ astray' = TRUE
             \/ srv'.app = [client |-> issued + 1, secret |-> issued + 1] /\ astray' = FALSE
      PROVE  CopiesOK' /\ ReadOK'
  <2>1. srv.app.client # 0
    BY <1>5 DEF CopiesOK
  <2>2. \/ srv'.app.client = srv.app.client /\ astray'
        \/ srv'.app.client = issued + 1
    BY <1>5 DEF Cred
  <2>3. CopiesOK'
    BY <1>5, <2>1, <2>2 DEF CopiesOK, Right
  <2>4. ReadOK'
    BY <1>5, <2>1, <2>2 DEF ReadOK, CopiesOK, Calm, Right
  <2> QED
    BY <2>3, <2>4
<1>6. CASE ConsoleEdits
  <2>1. UNCHANGED <<file, durable, carried, zpc, loc>> /\ quiet' = FALSE
    BY <1>6 DEF ConsoleEdits, Console
  <2>2. \/ srv'.app = srv.app /\ UNCHANGED <<issued, astray, touched>>
        \/ /\ touched' = TRUE /\ srv.app # NoApp /\ issued' = issued + 1
           /\ \/ srv'.app = [srv.app EXCEPT !.secret = issued + 1] /\ astray' = TRUE
              \/ srv'.app = [client |-> issued + 1, secret |-> issued + 1] /\ astray' = FALSE
    BY <1>1, <1>6 DEF ConsoleEdits, Console, Server
  <2> QED
    BY <1>4, <1>5, <2>1, <2>2
<1> QED
  BY <1>2, <1>3, <1>6 DEF Disturb

LEMMA CredsNext == ASSUME IInv, [Next]_vars PROVE CopiesOK' /\ ReadOK'
<1> USE AppNumbers
<1>1. ZitadelTypeOK /\ CopiesOK /\ ReadOK /\ srv \in Server
  BY DEF IInv, TypeOK, ZitadelTypeOK
<1>2. CASE ConvergeUsers \/ ConvergeOrgs
  <2>1. /\ UNCHANGED <<srv.app, issued, file, durable, carried, astray, touched>>
        /\ zpc' \in UserPhase \cup OrgPhase \cup {"project.search", "failed"}
    BY <1>1, <1>2, UsersFrame, OrgsFrame DEF creds, history, Server, OrgPhase
  <2>2. ReadOK'
    BY <2>1 DEF ReadOK, UserPhase, OrgPhase, Listing, Choosing, InHand, Written
  <2> QED
    BY <1>1, <2>1, <2>2, SameApp
<1>3. CASE ConvergeRoles
  <2>1. /\ UNCHANGED <<srv.app, issued, file, durable, carried, astray, touched, quiet>>
        /\ zpc \in RolePhase /\ zpc' \in RolePhase \cup {"done", "failed"}
    BY <1>1, <1>3, RolesFrame DEF creds, history, Server
  <2>2. ReadOK'
    BY <1>1, <2>1 DEF ReadOK, RolePhase, InHand, Written, Calm
  <2> QED
    BY <1>1, <2>1, <2>2, SameApp
<1>4. CASE Carry
  <2>1. /\ zpc = "done" /\ carried' = file /\ durable' = file /\ touched' = (touched /\ ~quiet)
        /\ UNCHANGED <<srv, issued, file, zpc, loc, quiet, astray>>
    BY <1>4 DEF Carry
  <2>2. CopiesOK'
    BY <1>1, <2>1 DEF CopiesOK, ReadOK, Right, Calm, Written
  <2>3. ReadOK'
    BY <1>1, <2>1 DEF ReadOK, Calm, Right, Written, InHand
  <2> QED
    BY <2>2, <2>3
<1>5. CASE Deploy
  <2>1. durable' = file /\ zpc' = "iam.users" /\ UNCHANGED <<srv, issued, file, carried, astray, touched>>
    BY <1>5 DEF Deploy, StartZitadel
  <2>2. CopiesOK'
    BY <1>1, <2>1 DEF CopiesOK, Right
  <2>3. ReadOK'
    BY <2>1 DEF ReadOK, InHand, Written
  <2> QED
    BY <2>2, <2>3
<1>6. CASE UNCHANGED <<srv, creds, carried, zpc, loc, history>>
  BY <1>1, <1>6 DEF CopiesOK, ReadOK, Calm, Right, creds, history
<1>7. \/ ConvergeUsers \/ ConvergeOrgs \/ ConvergeApp \/ ConvergeRoles \/ Disturb \/ Carry \/ Deploy
      \/ UNCHANGED <<srv, creds, carried, zpc, loc, history>>
  BY DEF Next, ZitadelStep, Configure, StalwartStart, StalwartStep, StalwartTrouble, ByHand, vars, zvars
<1> QED
  BY <1>1, <1>2, <1>3, <1>4, <1>5, <1>6, <1>7, CredsApp, CredsDisturb

---------------------------------------------------------------------------
(* The organisations.                                                      *)

\* What an edit changes.
LEMMA DomainAdded ==
    ASSUME srv \in Server, NEW id \in OrgId, NEW d \in Domain, srv' = WithDomain(id, d)
    PROVE  \A i \in OrgId :
              /\ srv'.orgs[i].name = srv.orgs[i].name
              /\ srv'.orgs[i].domains = IF i = id THEN srv.orgs[i].domains \cup {d} ELSE srv.orgs[i].domains
              /\ i # id => srv'.orgs[i] = srv.orgs[i]
<1>1. srv'.orgs = [srv.orgs EXCEPT ![id].domains = @ \cup {d}] /\ srv.orgs \in [OrgId -> Org]
  BY DEF WithDomain, Server
<1>2. \A i \in OrgId : i # id => srv'.orgs[i] = srv.orgs[i]
  BY <1>1
<1>3. srv'.orgs[id] = [srv.orgs[id] EXCEPT !.domains = @ \cup {d}]
  BY <1>1
<1>4. srv'.orgs[id].name = srv.orgs[id].name /\ srv'.orgs[id].domains = srv.orgs[id].domains \cup {d}
  BY <1>1, <1>3 DEF Org
<1> QED
  BY <1>2, <1>4

LEMMA PrimarySet ==
    ASSUME srv \in Server, NEW id \in OrgId, NEW d \in Domain, srv' = WithPrimary(id, d)
    PROVE  \A i \in OrgId :
              /\ srv'.orgs[i].name = srv.orgs[i].name /\ srv'.orgs[i].domains = srv.orgs[i].domains
              /\ i # id => srv'.orgs[i] = srv.orgs[i]
<1>1. srv'.orgs = [srv.orgs EXCEPT ![id].primary = d] /\ srv.orgs \in [OrgId -> Org]
  BY DEF WithPrimary, Server
<1> QED
  BY <1>1 DEF Org

LEMMA OrgNamed ==
    ASSUME srv \in Server, NEW id \in OrgId, NEW d \in Domain, srv' = [srv EXCEPT !.orgs[id].name = d]
    PROVE  \A i \in OrgId :
              /\ srv'.orgs[i].name = IF i = id THEN d ELSE srv.orgs[i].name
              /\ srv'.orgs[i].domains = srv.orgs[i].domains
              /\ i # id => srv'.orgs[i] = srv.orgs[i]
<1>1. srv'.orgs = [srv.orgs EXCEPT ![id].name = d] /\ srv.orgs \in [OrgId -> Org]
  BY DEF Server
<1> QED
  BY <1>1 DEF Org

\* Edits that keep the organisations apart.
LEMMA AddKeepsOrgs ==
    ASSUME ZitadelTypeOK, OrgsOK, NEW id \in OrgId, NEW d \in Domain, srv' = WithDomain(id, d), raced' = raced,
           Free(d), srv.orgs[id].name # "absent", srv.orgs[id].name = d \/ d = AdminOrg
    PROVE  OrgsOK'
<1>1. srv \in Server /\ OwnOrg \in OrgId
  BY FirstDomain DEF ZitadelTypeOK
<1>2. \A i \in OrgId : /\ srv'.orgs[i].name = srv.orgs[i].name
                       /\ srv'.orgs[i].domains = IF i = id THEN srv.orgs[i].domains \cup {d} ELSE srv.orgs[i].domains
                       /\ i # id => srv'.orgs[i] = srv.orgs[i]
  BY <1>1, DomainAdded
<1>3. \A i \in OrgId : d \notin srv.orgs[i].domains
  BY DEF Free, Carries
<1>4. \A i \in OrgId, e \in Domain : Carries(i, e)' <=> Carries(i, e) \/ (i = id /\ e = d)
  BY <1>2 DEF Carries
<1>5. (\A i \in OrgId : srv.orgs[i].name = "absent" => srv.orgs[i] = NoOrg)'
  BY <1>2 DEF OrgsOK
<1>6. (\A e \in Domain, i, j \in OrgId : Carries(i, e) /\ Carries(j, e) => i = j)'
  BY <1>3, <1>4 DEF OrgsOK, Carries
<1>7. (raced \/ \A e \in Domain, i, j \in OrgId : Of(i, e) /\ Of(j, e) => i = j)'
  <2> SUFFICES ASSUME ~raced, NEW e \in Domain, NEW i \in OrgId, NEW j \in OrgId, Of(i, e)', Of(j, e)'
               PROVE  i = j
    OBVIOUS
  <2>1. \A k \in OrgId : Of(k, e)' <=> Of(k, e) \/ (k = id /\ e = d)
    BY <1>2, <1>4 DEF Of
  <2>2. CASE e # d
    BY <2>1, <2>2 DEF OrgsOK
  <2>3. CASE e = d /\ srv.orgs[id].name = d
    <3>1. Of(id, d)
      BY <2>3 DEF Of
    <3> QED
      BY <2>1, <2>3, <3>1 DEF OrgsOK
  <2>4. CASE e = d /\ d = AdminOrg
    <3>1. \A k \in OrgId : ~Of(k, d)
      BY <1>3, <2>4 DEF Of, Carries, OrgsOK
    <3> QED
      BY <2>1, <2>4, <3>1
  <2> QED
    BY <2>2, <2>3, <2>4
<1> QED
  BY <1>1, <1>2, <1>5, <1>6, <1>7 DEF OrgsOK

LEMMA PrimaryKeepsOrgs ==
    ASSUME ZitadelTypeOK, OrgsOK, NEW id \in OrgId, NEW d \in Domain, srv' = WithPrimary(id, d), raced' = raced,
           srv.orgs[id].name # "absent"
    PROVE  OrgsOK'
<1>1. srv \in Server /\ OwnOrg \in OrgId
  BY FirstDomain DEF ZitadelTypeOK
<1>2. \A i \in OrgId : /\ srv'.orgs[i].name = srv.orgs[i].name /\ srv'.orgs[i].domains = srv.orgs[i].domains
                       /\ i # id => srv'.orgs[i] = srv.orgs[i]
  BY <1>1, PrimarySet
<1> QED
  BY <1>1, <1>2 DEF OrgsOK, Of, Carries

LEMMA CreateKeepsOrgs ==
    ASSUME ZitadelTypeOK, OrgsOK, NEW id \in OrgId, NEW d \in Domain, srv.orgs[id] = NoOrg, d # AdminOrg,
           srv' = [srv EXCEPT !.orgs[id].name = d], raced' = raced,
           raced \/ \A i \in OrgId : ~Of(i, d)
    PROVE  OrgsOK'
<1>1. srv \in Server /\ OwnOrg \in OrgId
  BY FirstDomain DEF ZitadelTypeOK
<1>2. \A i \in OrgId : /\ srv'.orgs[i].name = IF i = id THEN d ELSE srv.orgs[i].name
                       /\ srv'.orgs[i].domains = srv.orgs[i].domains
                       /\ i # id => srv'.orgs[i] = srv.orgs[i]
  BY <1>1, OrgNamed
<1>3. d # "absent" /\ d # "first" /\ id # OwnOrg
  BY DEF OrgsOK, NoOrg
<1>4. (raced \/ \A e \in Domain, i, j \in OrgId : Of(i, e) /\ Of(j, e) => i = j)'
  <2> SUFFICES ASSUME ~raced, NEW e \in Domain, NEW i \in OrgId, NEW j \in OrgId, Of(i, e)', Of(j, e)'
               PROVE  i = j
    OBVIOUS
  <2>1. \A k \in OrgId : Of(k, e)' => Of(k, e) \/ (k = id /\ e = d)
    BY <1>2 DEF Of, Carries
  <2> QED
    BY <2>1 DEF OrgsOK
<1> QED
  BY <1>1, <1>2, <1>3, <1>4 DEF OrgsOK, Carries

LEMMA ConsoleKeepsOrgs ==
    ASSUME ZitadelTypeOK, OrgsOK, NEW id \in OrgId, NEW d \in Domain, srv.orgs[id] = NoOrg, id # OwnOrg, Free(d),
           srv' = [srv EXCEPT !.orgs[id] = [name |-> "free", domains |-> {d}, primary |-> d]],
           raced' = (raced \/ Running \/ \E o \in OrgId : srv.orgs[o].name = d)
    PROVE  OrgsOK'
<1>1. srv \in Server /\ OwnOrg \in OrgId /\ AdminOrg \in Domain
  BY FirstDomain DEF ZitadelTypeOK
<1>2. \A i \in OrgId : /\ i # id => srv'.orgs[i] = srv.orgs[i]
                       /\ srv'.orgs[id].name = "free" /\ srv'.orgs[id].domains = {d}
  BY <1>1 DEF Server
<1>3. \A i \in OrgId : d \notin srv.orgs[i].domains
  BY DEF Free, Carries
<1>4. \A i \in OrgId, e \in Domain : Carries(i, e)' => (i # id /\ Carries(i, e)) \/ (i = id /\ e = d)
  BY <1>2 DEF Carries
<1>5. (\A e \in Domain, i, j \in OrgId : Carries(i, e) /\ Carries(j, e) => i = j)'
  BY <1>3, <1>4 DEF OrgsOK, Carries
<1>6. (raced \/ \A e \in Domain, i, j \in OrgId : Of(i, e) /\ Of(j, e) => i = j)'
  <2> SUFFICES ASSUME ~raced', NEW e \in Domain, NEW i \in OrgId, NEW j \in OrgId, Of(i, e)', Of(j, e)'
               PROVE  i = j
    OBVIOUS
  <2>1. \A k \in OrgId : Of(k, e)' => (k # id /\ Of(k, e)) \/ (k = id /\ e = d)
    BY <1>2, <1>4 DEF Of
  <2>2. ~raced /\ \A k \in OrgId : ~Of(k, d)
    BY <1>3 DEF Of, Carries
  <2> QED
    BY <2>1, <2>2 DEF OrgsOK
<1>7. (\A i \in OrgId : srv.orgs[i].name = "absent" => srv.orgs[i] = NoOrg)'
      /\ (\A i \in OrgId : srv.orgs[i].name # AdminOrg)' /\ (srv.orgs[OwnOrg].name = "first")'
  BY <1>1, <1>2 DEF OrgsOK
<1> QED
  BY <1>5, <1>6, <1>7 DEF OrgsOK

\* The owners so far, once one more domain has got its own.
LEMMA NextOwner ==
    ASSUME ZitadelTypeOK, OwnersOK, zpc \in Choosing, Carries(OwnOrg, AdminOrg)',
           NEW owner \in [Domain -> {0} \cup OrgId], owner[This] # 0,
           \A d \in Domain : loc.owner[d] # 0 => owner[d] # 0,
           zpc' = AfterDomain, loc' = NextDomain(owner), raced' = raced,
           \A d \in Domain, id \in OrgId : Of(id, d)' <=> Of(id, d)
    PROVE  OwnersOK'
<1>1. loc \in Process /\ loc.n \in 1 .. Len(Domains) /\ Len(Domains) \in Nat
      /\ (\A k \in 1 .. Len(Domains) : Domains[k] \in Domain) /\ AdminOrg \in Domain
      /\ \A d \in Domain : \E k \in 1 .. Len(Domains) : Domains[k] = d
  BY FirstDomain DEF ZitadelTypeOK, Process
<1>2. /\ loc'.owner = owner /\ loc'.listed = loc.listed
      /\ loc'.n = IF loc.n = Len(Domains) THEN 1 ELSE loc.n + 1
  BY <1>1 DEF NextDomain, Process
<1>3. \A k \in 1 .. loc.n : owner[Domains[k]] # 0
  <2> SUFFICES ASSUME NEW k \in 1 .. loc.n PROVE owner[Domains[k]] # 0
    OBVIOUS
  <2>1. CASE k = loc.n
    BY <2>1 DEF This
  <2>2. CASE k # loc.n
    <3>1. k \in 1 .. loc.n - 1 /\ Domains[k] \in Domain
      BY <1>1, <2>2
    <3> QED
      BY <3>1 DEF OwnersOK
  <2> QED
    BY <2>1, <2>2
<1>4. CASE loc.n = Len(Domains)
  <2>1. \A d \in Domain : loc'.owner[d] # 0
    BY <1>1, <1>2, <1>3, <1>4
  <2> QED
    BY <1>4, <2>1 DEF OwnersOK, AfterDomain, Listing, Choosing, Chosen, Written
<1>5. CASE loc.n # Len(Domains)
  <2>1. zpc' = "orgs.each" /\ loc'.n = loc.n + 1
    BY <1>2, <1>5 DEF AfterDomain
  <2>2. \A k \in 1 .. loc'.n - 1 : loc'.owner[Domains[k]] # 0
    BY <1>1, <1>2, <1>3, <2>1
  <2>3. loc'.owner[AdminOrg] # 0
    BY <1>1, <1>2 DEF OwnersOK
  <2>4. ~raced => \A d \in Domain, id \in OrgId : Of(id, d)' => loc'.owner[d] # 0 \/ ListedAs(d)'
    BY <1>2 DEF OwnersOK, ListedAs
  <2> QED
    BY <2>1, <2>2, <2>3, <2>4 DEF OwnersOK, Listing, Choosing, Chosen, Written
<1> QED
  BY <1>4, <1>5

LEMMA OrgsConverge ==
    ASSUME ZitadelTypeOK, OrgsOK, OwnersOK, ConvergeOrgs
    PROVE  OrgsOK' /\ OwnersOK'
<1> USE DEF Listing, Choosing, Chosen, Written
<1>1. srv \in Server /\ loc \in Process /\ This \in Domain /\ AdminOrg \in Domain /\ OwnOrg \in OrgId
      /\ 0 \notin OrgId /\ srv.orgs \in [OrgId -> Org]
  BY ThisDomain, FirstDomain DEF ZitadelTypeOK, Server
<1>2. raced' = raced
  BY OrgsFrame DEF history
<1>3. srv' = srv => OrgsOK'
  BY <1>2 DEF OrgsOK, Of, Carries
<1>4. CASE zpc' = "failed"
  <2>1. srv' = srv
    BY <1>4 DEF ConvergeOrgs, ListOwnDomains, AddOwnDomain, SetOwnPrimary, ListOrgs, ListDomains, AdoptOrg,
             CreateOrg, AddOrgDomain, SetPrimaryOrgDomain, AfterDomain, Read, Write, Request, Refused
  <2> QED
    BY <1>3, <1>4, <2>1 DEF OwnersOK
<1>5. CASE ListOwnDomains
  <2>1. CASE Carries(OwnOrg, AdminOrg)
    <3>1. srv' = srv /\ zpc' \in {"domain.primary", "orgs.list"}
      BY <1>5, <2>1 DEF ListOwnDomains, Read
    <3> QED
      BY <1>3, <2>1, <3>1 DEF OwnersOK, Carries
  <2>2. CASE ~Carries(OwnOrg, AdminOrg)
    <3>1. srv' = srv /\ zpc' = "domain.add"
      BY <1>5, <2>2 DEF ListOwnDomains, Read
    <3> QED
      BY <1>3, <3>1 DEF OwnersOK
  <2> QED
    BY <2>1, <2>2
<1>6. CASE AddOwnDomain /\ zpc' # "failed"
  <2>1. srv' = WithDomain(OwnOrg, AdminOrg) /\ Free(AdminOrg) /\ zpc' = "domain.primary"
    BY <1>6 DEF AddOwnDomain, Request, Write, Refused, Fail
  <2>2. srv.orgs[OwnOrg].name # "absent"
    BY DEF OrgsOK
  <2>3. OrgsOK'
    BY <1>1, <1>2, <2>1, <2>2, AddKeepsOrgs
  <2>4. Carries(OwnOrg, AdminOrg)'
    <3>1. srv'.orgs[OwnOrg].domains = srv.orgs[OwnOrg].domains \cup {AdminOrg}
      BY <1>1, <2>1, DomainAdded
    <3> QED
      BY <3>1 DEF Carries
  <2> QED
    BY <2>1, <2>3, <2>4 DEF OwnersOK
<1>7. CASE SetOwnPrimary
  <2>1. srv' = WithPrimary(OwnOrg, AdminOrg) /\ zpc = "domain.primary" /\ zpc' = "orgs.list"
    BY <1>7 DEF SetOwnPrimary, Write
  <2>2. OrgsOK'
    BY <1>1, <1>2, <2>1, PrimaryKeepsOrgs DEF OrgsOK
  <2>3. Carries(OwnOrg, AdminOrg)'
    BY <1>1, <2>1, PrimarySet DEF Carries, OwnersOK
  <2> QED
    BY <2>1, <2>2, <2>3 DEF OwnersOK
<1>8. CASE ListOrgs
  <2> DEFINE ids == {id \in OrgId : srv.orgs[id] # NoOrg}
             all == {[id |-> id, name |-> srv.orgs[id].name, primary |-> srv.orgs[id].primary] : id \in ids}
  <2>1. /\ zpc = "orgs.list" /\ zpc' = "orgs.domains" /\ srv' = srv
        /\ loc'.left = ids /\ loc'.n = 1 /\ loc'.listed = all
    BY <1>1, <1>8 DEF ListOrgs, Read, Process
  <2>2. \A id \in OrgId, d \in Domain : Carries(id, d) \/ srv.orgs[id].name = d => id \in ids
    BY DEF Carries, NoOrg
  <2>3. OwnOrg \in ids
    BY <1>1 DEF OrgsOK, NoOrg
  <2>4. ASSUME NEW d \in Domain, NEW id \in OrgId, srv.orgs[id].name = d
        PROVE  \E o \in all : o.name = d
    <3> DEFINE o == [id |-> id, name |-> srv.orgs[id].name, primary |-> srv.orgs[id].primary]
    <3>1. o \in all /\ o.name = d
      BY <2>2, <2>4
    <3> QED
      BY <3>1
  <2>5. Carries(OwnOrg, AdminOrg)'
    BY <2>1 DEF OwnersOK, Carries
  <2> HIDE DEF ids, all
  <2>6. OwnersOK'
    BY <2>1, <2>2, <2>3, <2>4, <2>5 DEF OwnersOK, Carries, ListedAs
  <2> QED
    BY <1>3, <2>1, <2>6
<1>9. CASE ListDomains
  <2> DEFINE id == CHOOSE i \in loc.left : \A j \in loc.left : i <= j
             owner == [d \in Domain |-> IF loc.owner[d] = 0 /\ Carries(id, d) THEN id ELSE loc.owner[d]]
  <2>1. id \in loc.left /\ id \in OrgId
    BY <1>1, <1>9, LeastOrg DEF ListDomains, Process
  <2>2. /\ zpc = "orgs.domains" /\ zpc' = (IF loc.left = {id} THEN "orgs.each" ELSE "orgs.domains") /\ srv' = srv
        /\ loc'.left = loc.left \ {id} /\ loc'.owner = owner /\ loc'.n = loc.n /\ loc'.listed = loc.listed
    BY <1>1, <1>9 DEF ListDomains, Read, Process
  <2>3. \A d \in Domain : owner[d] = IF loc.owner[d] = 0 /\ Carries(id, d) THEN id ELSE loc.owner[d]
    OBVIOUS
  <2> HIDE DEF id, owner
  <2>4. \A d \in Domain : (loc.owner[d] # 0 => owner[d] # 0) /\ (Carries(id, d) => owner[d] # 0)
    BY <1>1, <2>1, <2>3
  <2>5. loc.n = 1 /\ Carries(OwnOrg, AdminOrg) /\ (owner[AdminOrg] # 0 \/ OwnOrg \in loc.left \ {id})
    BY <1>1, <2>2, <2>4 DEF OwnersOK
  <2>6. ~raced => \A d \in Domain, i \in OrgId :
          /\ Carries(i, d) => owner[d] # 0 \/ i \in loc.left \ {id}
          /\ srv.orgs[i].name = d => ListedAs(d)
    BY <2>2, <2>4 DEF OwnersOK
  <2>8. CASE loc.left # {id}
    BY <1>2, <1>3, <2>2, <2>5, <2>6, <2>8 DEF OwnersOK, Carries, ListedAs
  <2>9. CASE loc.left = {id}
    BY <1>2, <1>3, <2>2, <2>5, <2>6, <2>9 DEF OwnersOK, Carries, ListedAs, Of
  <2> QED
    BY <2>8, <2>9
<1>10. CASE AdoptOrg
  <2>1. PICK id \in ExistingOrg(This) :
           Read("orgs.each", AfterDomain, NextDomain([loc.owner EXCEPT ![This] = id]))
    BY <1>10 DEF AdoptOrg
  <2> DEFINE owner == [loc.owner EXCEPT ![This] = id]
  <2>2. id \in OrgId
    BY <1>1 DEF ExistingOrg, Process
  <2>3. owner \in [Domain -> {0} \cup OrgId] /\ owner[This] # 0
        /\ \A d \in Domain : loc.owner[d] # 0 => owner[d] # 0
    BY <1>1, <2>2 DEF Process
  <2>4. srv' = srv /\ zpc = "orgs.each" /\ zpc' = AfterDomain /\ loc' = NextDomain(owner)
    BY <2>1 DEF Read
  <2>5. Carries(OwnOrg, AdminOrg)' /\ \A d \in Domain, i \in OrgId : Of(i, d)' <=> Of(i, d)
    BY <2>4 DEF OwnersOK, Carries, Of
  <2> HIDE DEF owner
  <2> QED
    BY <1>2, <1>3, <2>3, <2>4, <2>5, NextOwner
<1>11. CASE CreateOrg
  <2>1. PICK id \in OrgId : srv.orgs[id] = NoOrg
           /\ Write("orgs.each", "orgs.add", [srv EXCEPT !.orgs[id].name = This], [loc EXCEPT !.owner[This] = id])
    BY <1>11 DEF CreateOrg
  <2>2. /\ zpc = "orgs.each" /\ zpc' = "orgs.add" /\ srv' = [srv EXCEPT !.orgs[id].name = This]
        /\ loc'.owner = [loc.owner EXCEPT ![This] = id] /\ loc'.n = loc.n /\ loc'.listed = loc.listed
    BY <1>1, <2>1 DEF Write, Process
  <2>3. loc.owner[This] = 0 /\ ~ListedAs(This)
    BY <1>11 DEF CreateOrg, ExistingOrg, ListedAs
  <2>4. This # AdminOrg /\ (raced \/ \A i \in OrgId : ~Of(i, This))
    BY <1>1, <2>2, <2>3 DEF OwnersOK
  <2>5. OrgsOK'
    BY <1>1, <1>2, <2>1, <2>2, <2>4, CreateKeepsOrgs
  <2>6. \A i \in OrgId : /\ srv'.orgs[i].name = IF i = id THEN This ELSE srv.orgs[i].name
                         /\ srv'.orgs[i].domains = srv.orgs[i].domains
    BY <1>1, <2>2, OrgNamed
  <2>7. id # 0 /\ \A d \in Domain : loc'.owner[d] = IF d = This THEN id ELSE loc.owner[d]
    BY <1>1, <2>2 DEF Process
  <2>8. This' = This
    BY <2>2 DEF This
  <2>9. Carries(OwnOrg, AdminOrg)' /\ loc'.owner[AdminOrg] # 0
    BY <1>1, <2>2, <2>6, <2>7 DEF OwnersOK, Carries
  <2>10. \A k \in 1 .. loc'.n - 1 : loc'.owner[Domains[k]] # 0
    <3>1. \A k \in 1 .. loc.n - 1 : Domains[k] \in Domain
      BY <1>1, FirstDomain DEF Process
    <3> QED
      BY <2>2, <2>7, <3>1 DEF OwnersOK
  <2>11. ~raced => \A d \in Domain, i \in OrgId : Of(i, d)' => loc'.owner[d] # 0 \/ ListedAs(d)'
    <3>1. \A d \in Domain, i \in OrgId : Of(i, d)' => Of(i, d) \/ d = This
      BY <2>6 DEF Of, Carries
    <3>2. \A d : ListedAs(d)' <=> ListedAs(d)
      BY <2>2 DEF ListedAs
    <3> QED
      BY <2>2, <2>7, <3>1, <3>2 DEF OwnersOK
  <2>12. (loc.owner[This] # 0 /\ srv.orgs[loc.owner[This]].name = This)'
    BY <1>1, <2>6, <2>7, <2>8
  <2> QED
    BY <1>2, <2>2, <2>5, <2>9, <2>10, <2>11, <2>12 DEF OwnersOK
<1>12. zpc \in {"orgs.add", "orgs.primary"} =>
          loc.owner[This] \in OrgId /\ srv.orgs[loc.owner[This]].name = This /\ This # "absent"
  BY <1>1 DEF OwnersOK, Process
<1>13. CASE AddOrgDomain /\ zpc' # "failed"
  <2>1. /\ srv' = WithDomain(loc.owner[This], This) /\ Free(This) /\ zpc = "orgs.add" /\ zpc' = "orgs.primary"
        /\ loc' = loc
    BY <1>13 DEF AddOrgDomain, Request, Write, Refused, Fail
  <2>2. OrgsOK'
    BY <1>1, <1>2, <1>12, <2>1, AddKeepsOrgs
  <2>3. \A i \in OrgId : /\ srv'.orgs[i].name = srv.orgs[i].name
                         /\ srv'.orgs[i].domains = IF i = loc.owner[This] THEN srv.orgs[i].domains \cup {This}
                                                                          ELSE srv.orgs[i].domains
    BY <1>1, <1>12, <2>1, DomainAdded
  <2>4. Carries(OwnOrg, AdminOrg)'
    BY <1>1, <2>1, <2>3 DEF OwnersOK, Carries
  <2>5. \A d \in Domain, i \in OrgId : Of(i, d)' => Of(i, d) \/ d = This
    BY <2>3 DEF Of, Carries
  <2>6. This' = This /\ \A d : ListedAs(d)' <=> ListedAs(d)
    BY <2>1 DEF This, ListedAs
  <2>7. (loc.owner[This] # 0 /\ srv.orgs[loc.owner[This]].name = This)'
    BY <1>1, <1>12, <2>1, <2>3, <2>6
  <2> QED
    BY <1>1, <1>2, <1>12, <2>1, <2>2, <2>4, <2>5, <2>6, <2>7 DEF OwnersOK
<1>14. CASE SetPrimaryOrgDomain
  <2>1. /\ srv' = WithPrimary(loc.owner[This], This) /\ zpc = "orgs.primary" /\ zpc' = AfterDomain
        /\ loc' = NextDomain(loc.owner)
    BY <1>14 DEF SetPrimaryOrgDomain, Write
  <2>2. OrgsOK'
    BY <1>1, <1>2, <1>12, <2>1, PrimaryKeepsOrgs
  <2>3. \A i \in OrgId : srv'.orgs[i].name = srv.orgs[i].name /\ srv'.orgs[i].domains = srv.orgs[i].domains
    BY <1>1, <1>12, <2>1, PrimarySet
  <2>4. Carries(OwnOrg, AdminOrg)' /\ \A d \in Domain, i \in OrgId : Of(i, d)' <=> Of(i, d)
    BY <1>1, <2>1, <2>3 DEF OwnersOK, Carries, Of
  <2>5. loc.owner \in [Domain -> {0} \cup OrgId] /\ loc.owner[This] # 0
    BY <1>1, <2>1 DEF OwnersOK, Process
  <2> QED
    BY <1>2, <2>1, <2>2, <2>4, <2>5, NextOwner
<1> QED
  BY <1>4, <1>5, <1>6, <1>7, <1>8, <1>9, <1>10, <1>11, <1>13, <1>14 DEF ConvergeOrgs

\* Steps that leave the organisations and what a run knows of them alone.
LEMMA SameOrgs ==
    ASSUME OrgsOK, OwnersOK, srv'.orgs = srv.orgs, raced' = raced,
           \/ zpc' \in UserPhase \cup {"domain.list", "failed"}
           \/ zpc \in Chosen /\ zpc' \in Chosen /\ loc'.owner = loc.owner
           \/ zpc' = zpc /\ loc' = loc
    PROVE  OrgsOK' /\ OwnersOK'
<1>1. OrgsOK'
  BY DEF OrgsOK, Of, Carries
<1>2. CASE zpc' \in UserPhase \cup {"domain.list", "failed"}
  BY <1>1, <1>2 DEF OwnersOK, UserPhase, Listing, Choosing, Chosen, Written
<1>3. CASE zpc \in Chosen /\ zpc' \in Chosen /\ loc'.owner = loc.owner
  BY <1>1, <1>3 DEF OwnersOK, Carries, Listing, Choosing, Chosen, Written
<1>4. CASE zpc' = zpc /\ loc' = loc
  BY <1>1, <1>4 DEF OwnersOK, Carries, Of, ListedAs, This
<1> QED
  BY <1>2, <1>3, <1>4

LEMMA OrgsConsole ==
    ASSUME ZitadelTypeOK, OrgsOK, OwnersOK, ConsoleEdits
    PROVE  OrgsOK' /\ OwnersOK'
<1>1. srv \in Server /\ loc \in Process /\ This \in Domain /\ OwnOrg \in OrgId
  BY ThisDomain, FirstDomain DEF ZitadelTypeOK
<1>2. zpc' = zpc /\ loc' = loc
  BY DEF ConsoleEdits, Console
<1>3. ASSUME NEW id \in OrgId, NEW d \in Domain, srv.orgs[id] = NoOrg, id # OwnOrg, Free(d),
             srv' = [srv EXCEPT !.orgs[id] = [name |-> "free", domains |-> {d}, primary |-> d]],
             raced' = (raced \/ Running \/ \E o \in OrgId : srv.orgs[o].name = d)
      PROVE  OrgsOK' /\ OwnersOK'
  <2>1. OrgsOK'
    BY <1>3, ConsoleKeepsOrgs
  <2>2. \A i \in OrgId : i # id => srv'.orgs[i] = srv.orgs[i]
    BY <1>1, <1>3 DEF Server
  <2>3. Carries(OwnOrg, AdminOrg) => Carries(OwnOrg, AdminOrg)'
    BY <1>1, <1>3, <2>2 DEF Carries
  <2>4. zpc \in Listing \cup Choosing => raced'
    BY <1>3 DEF Running, Listing, Choosing
  <2>5. zpc \in {"orgs.add", "orgs.primary"} => (loc.owner[This] # 0 /\ srv.orgs[loc.owner[This]].name = This)'
    <3> SUFFICES ASSUME zpc \in {"orgs.add", "orgs.primary"}
                 PROVE  (loc.owner[This] # 0 /\ srv.orgs[loc.owner[This]].name = This)'
      OBVIOUS
    <3>1. loc.owner[This] \in OrgId /\ loc.owner[This] # 0 /\ srv.orgs[loc.owner[This]].name = This
      BY <1>1 DEF OwnersOK, Process
    <3>2. loc.owner[This] # id
      BY <1>1, <1>3, <3>1 DEF NoOrg
    <3> QED
      BY <1>2, <2>2, <3>1, <3>2 DEF This
  <2>6. OwnersOK'
    BY <1>2, <2>3, <2>4, <2>5 DEF OwnersOK, Listing, Choosing
  <2> QED
    BY <2>1, <2>6
<1>4. \/ srv'.orgs = srv.orgs /\ raced' = raced
      \/ \E id \in OrgId, d \in Domain :
            /\ srv.orgs[id] = NoOrg /\ id # OwnOrg /\ Free(d)
            /\ srv' = [srv EXCEPT !.orgs[id] = [name |-> "free", domains |-> {d}, primary |-> d]]
            /\ raced' = (raced \/ Running \/ \E o \in OrgId : srv.orgs[o].name = d)
  BY <1>1 DEF ConsoleEdits, Console, Server
<1> QED
  BY <1>2, <1>3, <1>4, SameOrgs

LEMMA OrgsNext == ASSUME IInv, [Next]_vars PROVE OrgsOK' /\ OwnersOK'
<1>1. ZitadelTypeOK /\ OrgsOK /\ OwnersOK /\ srv \in Server /\ loc \in Process
  BY DEF IInv, TypeOK, ZitadelTypeOK
<1>2. CASE ConvergeUsers
  BY <1>1, <1>2, UsersFrame, SameOrgs DEF history, Server
<1>3. CASE ConvergeApp
  <2>1. srv'.orgs = srv.orgs /\ raced' = raced /\ zpc \in Chosen /\ zpc' \in Chosen \cup {"failed"}
    BY <1>1, <1>3, AppFrame DEF Server, AppPhase, Chosen, Written
  <2>2. zpc' # "failed" => loc'.owner = loc.owner
    BY <1>1, <1>3, AppFrame DEF Process
  <2> QED
    BY <1>1, <2>1, <2>2, SameOrgs
<1>4. CASE ConvergeRoles
  <2>1. srv'.orgs = srv.orgs /\ raced' = raced /\ zpc \in Chosen /\ zpc' \in Chosen \cup {"failed"}
    BY <1>1, <1>4, RolesFrame DEF Server, RolePhase, Chosen, Written, history
  <2>2. zpc' # "failed" => loc'.owner = loc.owner
    BY <1>1, <1>4, RolesFrame DEF Process
  <2> QED
    BY <1>1, <2>1, <2>2, SameOrgs
<1>5. CASE RunFails \/ PowerCut \/ Deploy
  <2>1. srv' = srv /\ raced' = raced /\ zpc' \in {"failed", "iam.users"}
    BY <1>5 DEF RunFails, PowerCut, Deploy, StartZitadel, Fail, history
  <2> QED
    BY <1>1, <2>1, SameOrgs DEF UserPhase
<1>6. CASE UNCHANGED <<srv, zpc, loc, raced>>
  BY <1>1, <1>6, SameOrgs
<1>7. \/ ConvergeUsers \/ ConvergeOrgs \/ ConvergeApp \/ ConvergeRoles \/ ConsoleEdits
      \/ RunFails \/ PowerCut \/ Deploy \/ UNCHANGED <<srv, zpc, loc, raced>>
  BY DEF Next, ZitadelStep, Configure, Disturb, Carry, StalwartStart, StalwartStep, StalwartTrouble, ByHand,
         vars, zvars, history
<1> QED
  BY <1>1, <1>2, <1>3, <1>4, <1>5, <1>6, <1>7, OrgsConverge, OrgsConsole

---------------------------------------------------------------------------
(* The roles and the login names.                                          *)

\* A step that grants no organisation anything, and is not at the end of a run.
LEMMA EarlyRoles ==
    ASSUME RolesOK, srv'.granted = srv.granted,
           zpc' \notin Granting \cup {"iam.update", "grant.update"}
    PROVE  RolesOK'
BY DEF RolesOK, GrantOK, Granting

LEMMA RolesConverge ==
    ASSUME ZitadelTypeOK, OwnersOK, RolesOK, ConvergeRoles
    PROVE  RolesOK'
<1> USE DEF RolePhase, Granting
<1>1. srv \in Server /\ loc \in Process /\ srv.granted \in [OrgId -> SUBSET Role]
  BY DEF ZitadelTypeOK, Server
<1>2. zpc \in RolePhase /\ zpc' \in RolePhase \cup {"done", "failed"}
  BY RolesFrame
<1>3. zpc' # "failed" => GrantedOrgs' = GrantedOrgs
  <2>1. zpc' # "failed" => loc'.owner = loc.owner
    BY <1>1, RolesFrame DEF Process
  <2> QED
    BY <2>1 DEF GrantedOrgs
<1>4. GrantedOrgs \subseteq OrgId
  BY <1>2, GrantedType DEF Chosen, Written
<1>5. CASE SearchRoles \/ AddProjectRole
  <2>1. zpc' \in {"grant.search", "roles.add", "roles.search"} /\ srv'.granted = srv.granted
    BY <1>1, <1>5 DEF SearchRoles, AddProjectRole, Read, Write, Server
  <2> QED
    BY <2>1, EarlyRoles
<1>6. CASE SearchGrants
  <2>1. srv' = srv /\ loc'.roles = srv.grant
        /\ zpc' = (IF srv.admin = "absent" \/ Roles \subseteq srv.grant THEN "granted.list" ELSE "grant.update")
    BY <1>1, <1>6 DEF SearchGrants, Read, Process
  <2> QED
    BY <2>1 DEF RolesOK, GrantOK
<1>7. CASE UpdateGrant
  <2>1. CASE Refused("grant.update")
    BY <2>1, EarlyRoles DEF Refused, Fail
  <2>2. CASE Write("grant.update", "granted.list", [srv EXCEPT !.grant = loc.roles \cup Roles], loc)
    <3>1. srv'.grant = loc.roles \cup Roles /\ zpc' = "granted.list" /\ srv'.granted = srv.granted
      BY <1>1, <2>2 DEF Write, Server
    <3> QED
      BY <3>1 DEF RolesOK, GrantOK
  <2> QED
    BY <1>7, <2>1, <2>2 DEF UpdateGrant, Request
<1>8. CASE ListProjectGrants
  <2> DEFINE left == {id \in GrantedOrgs : srv.granted[id] = {}}
  <2>1. /\ zpc = "granted.list" /\ zpc' = (IF left = {} THEN "done" ELSE "granted.add") /\ srv' = srv
        /\ loc'.left = left
    BY <1>1, <1>8 DEF ListProjectGrants, Read, Process
  <2>2. \A id \in GrantedOrgs : id \in left \/ GrantOK(id)
    BY <1>4 DEF RolesOK
  <2>3. quiet' = quiet
    BY <1>8 DEF ListProjectGrants, Read, history
  <2>4. GrantedOrgs' = GrantedOrgs
    BY <1>3, <2>1
  <2> HIDE DEF left
  <2>5. \A id : GrantOK(id)' <=> GrantOK(id)
    BY <2>1 DEF GrantOK
  <2> QED
    BY <2>1, <2>2, <2>3, <2>4, <2>5 DEF RolesOK
<1>9. CASE CreateProjectGrant
  <2>0. CASE Refused("granted.add")
    BY <2>0, EarlyRoles DEF Refused, Fail
  <2>1. ASSUME NEW id \in loc.left,
               Write("granted.add", IF loc.left = {id} THEN "done" ELSE "granted.add",
                     [srv EXCEPT !.granted[id] = Roles], [loc EXCEPT !.left = @ \ {id}])
        PROVE  RolesOK'
    <3>1. /\ zpc = "granted.add" /\ zpc' = (IF loc.left = {id} THEN "done" ELSE "granted.add")
          /\ srv'.granted = [srv.granted EXCEPT ![id] = Roles]
          /\ srv'.grant = srv.grant /\ srv'.admin = srv.admin /\ quiet' = quiet
          /\ loc'.left = loc.left \ {id}
      BY <1>1, <2>1 DEF Write, Server, Process, history
    <3>2. \A i \in OrgId : i = id \/ srv'.granted[i] = srv.granted[i]
      BY <1>1, <3>1
    <3>3. srv'.granted[id] = Roles /\ GrantOK(id)'
      BY <1>1, <2>1, <3>1 DEF Process, GrantOK
    <3>4. GrantedOrgs' = GrantedOrgs
      BY <1>3, <3>1
    <3>5. \A i \in OrgId : i = id \/ (GrantOK(i)' <=> GrantOK(i))
      BY <3>2 DEF GrantOK
    <3>6. \A i \in OrgId : srv'.granted[i] = {} \/ GrantOK(i)'
      BY <3>2, <3>3, <3>5 DEF RolesOK
    <3>7. \A i \in GrantedOrgs : i \in loc'.left \/ GrantOK(i)'
      BY <1>4, <3>1, <3>3, <3>5 DEF RolesOK
    <3>8. loc.left = {id} => loc'.left = {}
      BY <3>1
    <3> QED
      BY <3>1, <3>4, <3>6, <3>7, <3>8 DEF RolesOK
  <2> QED
    BY <1>9, <2>0, <2>1 DEF CreateProjectGrant
<1> QED
  BY <1>5, <1>6, <1>7, <1>8, <1>9 DEF ConvergeRoles

LEMMA UsersConverge ==
    ASSUME ZitadelTypeOK, RolesOK, LoginOK, ConvergeUsers
    PROVE  RolesOK' /\ LoginOK'
<1> USE DEF Granting, Unnamed
<1>1. srv \in Server /\ loc \in Process /\ srv.login \in [Sink -> Form] /\ user \in Sink \cup {"none"}
  BY DEF ZitadelTypeOK, Server
<1>0. srv'.granted = srv.granted
  BY <1>1, UsersFrame DEF Server
<1>2. CASE SearchAdmin
  <2>1. zpc' \in {"iam.members", "users"}
    BY <1>2 DEF SearchAdmin, Read
  <2> QED
    BY <1>0, <2>1, EarlyRoles DEF LoginOK
<1>3. CASE SearchIamMembers
  <2>1. zpc' \in {"iam.update", "users"} /\ loc'.roles = srv.iam /\ srv' = srv
    BY <1>1, <1>3 DEF SearchIamMembers, Read, Process
  <2> QED
    BY <2>1 DEF RolesOK, GrantOK, LoginOK
<1>4. CASE UpdateIamMember
  <2>1. zpc' = "users"
    BY <1>4 DEF UpdateIamMember, Write
  <2> QED
    BY <1>0, <2>1, EarlyRoles DEF LoginOK
<1>5. CASE SearchUsers
  <2>1. srv' = srv /\ user' = user /\ zpc' \in {"users.create", "users.rename", "domain.list"}
        /\ (zpc' = "domain.list" /\ user # "none" => srv.login[user] = "full")
    BY <1>1, <1>5 DEF SearchUsers, Read, Form
  <2> QED
    BY <1>0, <2>1, EarlyRoles DEF LoginOK
<1>6. CASE CreateUser \/ RenameUser
  <2>1. zpc' = "domain.list" /\ user' = user /\ srv'.login = [srv.login EXCEPT ![user] = "full"]
    BY <1>1, <1>6 DEF CreateUser, RenameUser, Write, Server
  <2> QED
    BY <1>0, <1>1, <2>1, EarlyRoles DEF LoginOK
<1> QED
  BY <1>2, <1>3, <1>4, <1>5, <1>6 DEF ConvergeUsers

\* A step that leaves a run's progress alone, and takes no role away.
LEMMA SameRoles ==
    ASSUME RolesOK, LoginOK, UNCHANGED <<zpc, loc, user>>,
           zpc \in Granting => GrantedOrgs \subseteq OrgId,
           \A id \in OrgId : \/ srv'.granted[id] = srv.granted[id]
                            \/ srv'.granted[id] \cap MoreRoles # {},
           \/ quiet' = FALSE
           \/ quiet' = quiet /\ srv'.iam = srv.iam /\ srv'.grant = srv.grant /\ srv'.login = srv.login
                            /\ srv'.admin = srv.admin
    PROVE  RolesOK' /\ LoginOK'
<1>1. LoginOK'
  BY DEF LoginOK
<1>2. \A id \in OrgId : GrantOK(id) => GrantOK(id)'
  BY DEF GrantOK
<1>3. \A id \in OrgId : srv'.granted[id] = {} \/ GrantOK(id)'
  BY <1>2 DEF RolesOK, GrantOK
<1>4. GrantedOrgs' = GrantedOrgs
  BY DEF GrantedOrgs
<1> QED
  BY <1>1, <1>2, <1>3, <1>4 DEF RolesOK, Granting

LEMMA RolesNext == ASSUME IInv, [Next]_vars PROVE RolesOK' /\ LoginOK'
<1> USE DEF Granting, Unnamed
<1>1. ZitadelTypeOK /\ OwnersOK /\ RolesOK /\ LoginOK /\ srv \in Server
  BY DEF IInv, TypeOK, ZitadelTypeOK
<1>2. CASE ConvergeOrgs \/ ConvergeApp
  <2>1. srv'.login = srv.login /\ srv'.granted = srv.granted /\ quiet' = quiet /\ user' = user
    BY <1>1, <1>2, OrgsFrame, AppFrame DEF Server, history
  <2>2. zpc \in OrgPhase \cup AppPhase /\ zpc' \in OrgPhase \cup AppPhase \cup {"roles.search", "failed"}
    BY <1>1, <1>2, OrgsFrame, AppFrame DEF AppPhase
  <2> QED
    BY <1>1, <2>1, <2>2, EarlyRoles DEF LoginOK, OrgPhase, AppPhase, Listing, Choosing
<1>3. CASE ConvergeRoles
  <2>1. srv'.login = srv.login /\ quiet' = quiet /\ user' = user /\ zpc \in RolePhase
    BY <1>1, <1>3, RolesFrame DEF Server, history
  <2> QED
    BY <1>1, <1>3, <2>1, RolesConverge DEF LoginOK, RolePhase
<1>4. CASE RunFails \/ PowerCut \/ Deploy
  <2>1. zpc' \in {"failed", "iam.users"} /\ srv' = srv
    BY <1>4 DEF RunFails, PowerCut, Deploy, StartZitadel, Fail
  <2> QED
    BY <1>1, <2>1, EarlyRoles DEF LoginOK
<1>0. zpc \in Granting => GrantedOrgs \subseteq OrgId
  BY <1>1, GrantedType DEF Chosen, Written
<1>5. CASE ConsoleEdits
  <2>1. UNCHANGED <<zpc, loc, user>> /\ quiet' = FALSE
    BY <1>5 DEF ConsoleEdits, Console
  <2>2. \A id \in OrgId : srv'.granted[id] = srv.granted[id] \/ srv'.granted[id] \cap MoreRoles # {}
    <3>1. srv.granted \in [OrgId -> SUBSET Role]
      BY <1>1 DEF Server
    <3>2. ASSUME NEW o \in OrgId, NEW r \in MoreRoles, Console([srv EXCEPT !.granted[o] = {r}])
          PROVE  \A id \in OrgId : srv'.granted[id] = srv.granted[id] \/ srv'.granted[id] \cap MoreRoles # {}
      <4>1. srv'.granted = [srv.granted EXCEPT ![o] = {r}]
        BY <1>1, <3>2 DEF Console, Server
      <4> QED
        BY <3>1, <4>1
    <3>3. CASE srv'.granted = srv.granted
      BY <3>3
    <3>4. srv'.granted = srv.granted
            \/ \E o \in OrgId, r \in MoreRoles : Console([srv EXCEPT !.granted[o] = {r}])
      BY <1>1, <1>5 DEF ConsoleEdits, Console, Server
    <3> QED
      BY <3>2, <3>3, <3>4
  <2> QED
    BY <1>0, <1>1, <2>1, <2>2, SameRoles
<1>6. CASE UNCHANGED <<srv, zpc, loc, user, quiet>>
  BY <1>0, <1>1, <1>6, SameRoles
<1>7. \/ ConvergeUsers \/ ConvergeOrgs \/ ConvergeApp \/ ConvergeRoles \/ ConsoleEdits
      \/ RunFails \/ PowerCut \/ Deploy \/ UNCHANGED <<srv, zpc, loc, user, quiet>>
  BY DEF Next, ZitadelStep, Configure, Disturb, Carry, StalwartStart, StalwartStep, StalwartTrouble, ByHand,
         vars, zvars, history
<1> QED
  BY <1>1, <1>2, <1>3, <1>4, <1>5, <1>6, <1>7, UsersConverge

---------------------------------------------------------------------------
(* The mail server.                                                        *)

LEMMA Names ==
    ASSUME StalwartTypeOK
    PROVE  /\ Full(AdminUser) \in Name
           /\ catcher # None => Full(catcher) \in Name /\ Full(catcher) # Full(AdminUser)
BY DEF StalwartTypeOK, Name, Full

LEMMA PatchedEmails ==
    ASSUME StalwartTypeOK, NEW n \in Name, NEW read, NEW add, NEW remove, NEW roles,
           Patched(n, read, add, remove, roles)
    PROVE  /\ mail'[n].emails = (mail[n].emails \cup add) \ remove
           /\ \A m \in Name : m # n => mail'[m] = mail[m]
BY DEF StalwartTypeOK, Principal, Patched

LEMMA DeployedEmails ==
    ASSUME StalwartTypeOK, NEW n \in Name, NEW emails, Deployed(n, emails)
    PROVE  /\ emails \subseteq mail'[n].emails
           /\ \A m \in Name : m # n => mail'[m] = mail[m]
BY DEF StalwartTypeOK, Deployed

\* Storing an account touches no other, and takes nothing from one it has found.
LEMMA StoreEmails ==
    ASSUME StalwartTypeOK, NEW n \in Name, NEW from, NEW to, NEW desired, Store(from, to, n, desired)
    PROVE  /\ \A m \in Name : m # n => mail'[m] = mail[m]
           /\ account # NoPrincipal => mail[n].emails \subseteq mail'[n].emails
           /\ \A a \in desired : a \in mail'[n].emails \/ (account # NoPrincipal /\ a \in account.emails)
<1>1. CASE account = NoPrincipal
  BY <1>1, DeployedEmails DEF Store
<1>2. CASE account # NoPrincipal
  BY <1>2, PatchedEmails DEF Store
<1> QED
  BY <1>1, <1>2

\* What the self-service API and sign-ins change, and what they leave alone.
\* The admin account got no catch-all address, or `back` says so.
NoneBack == ~back' => /\ ~back
                     /\ mail'[Full(AdminUser)].emails \cap CatchAll \subseteq mail[Full(AdminUser)].emails

LEMMA HandEmails ==
    ASSUME ZitadelTypeOK, StalwartTypeOK, ByHand
    PROVE  /\ UNCHANGED <<spc, account, catcher, zvars>>
           /\ \A n \in Name : mail[n].emails \subseteq mail'[n].emails \cup AskedByHand(n)
           /\ alone' => alone /\ \A n \in Name : mail[n].emails \cap CatchAll \subseteq mail'[n].emails
           /\ NoneBack
<1> USE DEF NoneBack
<1>1. UNCHANGED zvars
  BY DEF ByHand
<1>2. ASSUME UNCHANGED <<spc, account, catcher, alone>>, \A n \in Name : mail[n].emails \subseteq mail'[n].emails
      PROVE  /\ UNCHANGED <<spc, account, catcher>>
             /\ \A n \in Name : mail[n].emails \subseteq mail'[n].emails \cup AskedByHand(n)
             /\ alone' => alone /\ \A n \in Name : mail[n].emails \cap CatchAll \subseteq mail'[n].emails
  BY <1>2
<1>3. ASSUME NEW r \in Handler, NEW allowed \in BOOLEAN, Post(r, allowed)
      PROVE  UNCHANGED <<spc, account, catcher, alone, back, mail>>
  BY <1>3, Zenon DEF Post
<1>4. ASSUME NEW r \in Handler, GetForHand(r)
      PROVE  UNCHANGED <<spc, account, catcher, alone, back, mail>>
  BY <1>4, Zenon DEF GetForHand
<1>5. ASSUME NEW n \in Name, SignIn(n)
      PROVE  /\ UNCHANGED <<spc, account, catcher, alone>> /\ NoneBack
             /\ \A m \in Name : mail[m].emails \subseteq mail'[m].emails
  <2> DEFINE old == IF mail[n] = NoPrincipal THEN [emails |-> {}, roles |-> {DEFAULT_ROLE}] ELSE mail[n]
  <2>1. PICK d \in HandDomain :
           mail' = [mail EXCEPT ![n] = [old EXCEPT !.emails = @ \cup {[local |-> n.user, domain |-> d]}]]
    BY <1>5 DEF SignIn
  <2>2. old \in Principal /\ old.emails = mail[n].emails
    <3>1. mail[n] \in Principal
      BY DEF StalwartTypeOK
    <3>2. CASE mail[n] = NoPrincipal
      BY <3>2 DEF Principal, NoPrincipal
    <3>3. CASE mail[n] # NoPrincipal
      BY <3>1, <3>3
    <3> QED
      BY <3>2, <3>3
  <2>3. mail'[n].emails = old.emails \cup {[local |-> n.user, domain |-> d]}
    BY <2>1, <2>2 DEF StalwartTypeOK, Principal
  <2>4. \A m \in Name : m # n => mail'[m] = mail[m]
    BY <2>1 DEF StalwartTypeOK
  <2>5. [local |-> n.user, domain |-> d] \notin CatchAll
    <3>1. n.user # NoLocal
      BY DEF Name, NoLocal, AdminUser
    <3> QED
      BY <3>1 DEF CatchAll
  <2>6. Full(AdminUser) \in Name
    BY Names
  <2> HIDE DEF old
  <2>7. NoneBack
    BY <1>5, <2>2, <2>3, <2>4, <2>5, <2>6 DEF SignIn
  <2> QED
    BY <1>5, <2>2, <2>3, <2>4, <2>7 DEF SignIn
<1>6. ASSUME NEW r \in Handler, HandPatch(r)
      PROVE  /\ UNCHANGED <<spc, account, catcher>> /\ NoneBack
             /\ \A n \in Name : mail[n].emails \subseteq mail'[n].emails \cup AskedByHand(n)
             /\ alone' => alone /\ \A n \in Name : mail[n].emails \cap CatchAll \subseteq mail'[n].emails
  <2> DEFINE q == request[r]
  <2>1. q.pc = "patch" /\ request' = [request EXCEPT ![r] = NoRequest] /\ UNCHANGED <<spc, account, catcher>>
    BY <1>6, Zenon DEF HandPatch
  <2>2. q \in Pending /\ q # NoRequest /\ q.name \in Name /\ request'[r] = NoRequest
    BY <2>1 DEF StalwartTypeOK, NoRequest, Pending
  <2>6. Full(AdminUser) \in Name
    BY Names
  <2>3. CASE /\ q.op = "add" /\ Patched(q.name, q.emails, {q.address}, {}, {}) /\ UNCHANGED alone
             /\ back' = (back \/ (q.name = Full(AdminUser) /\ q.address.local = NoLocal))
    <3>1. /\ mail'[q.name].emails = (mail[q.name].emails \cup {q.address}) \ {}
          /\ \A m \in Name : m # q.name => mail'[m] = mail[m]
      BY <2>2, <2>3, PatchedEmails
    <3>2. q.address.local # NoLocal => q.address \notin CatchAll
      BY DEF CatchAll
    <3> HIDE DEF q
    <3>3. \A n \in Name : mail[n].emails \subseteq mail'[n].emails
      BY <3>1
    <3>4. NoneBack
      BY <2>3, <2>6, <3>1, <3>2
    <3> QED
      BY <1>2, <2>1, <2>3, <3>3, <3>4
  <2>4. CASE /\ q.op = "remove" /\ Patched(q.name, q.emails, {}, {q.address}, {})
             /\ alone' = (alone /\ q.address.local # NoLocal) /\ UNCHANGED back
    <3>1. /\ mail'[q.name].emails = mail[q.name].emails \ {q.address}
          /\ \A m \in Name : m # q.name => mail'[m] = mail[m]
      BY <2>2, <2>4, PatchedEmails
    <3>2. q.address \in AskedByHand(q.name)
      BY <2>2, <2>4 DEF AskedByHand
    <3>3. q.address.local # NoLocal => q.address \notin CatchAll
      BY DEF CatchAll
    <3> HIDE DEF q
    <3>4. \A n \in Name : mail[n].emails \subseteq mail'[n].emails \cup AskedByHand(n)
      BY <3>1, <3>2
    <3>5. alone' => alone /\ \A n \in Name : mail[n].emails \cap CatchAll \subseteq mail'[n].emails
      BY <2>4, <3>1, <3>3
    <3>6. NoneBack
      BY <2>4, <2>6, <3>1
    <3> QED
      BY <2>1, <3>4, <3>5, <3>6
  <2>5. CASE UNCHANGED <<mail, alone, back>>
    BY <1>2, <2>1, <2>5
  <2> QED
    BY <1>6, <2>3, <2>4, <2>5 DEF HandPatch
<1>7. ASSUME NEW allowed \in BOOLEAN, SelfService(allowed)
      PROVE  /\ UNCHANGED <<spc, account, catcher>> /\ NoneBack
             /\ \A n \in Name : mail[n].emails \subseteq mail'[n].emails \cup AskedByHand(n)
             /\ alone' => alone /\ \A n \in Name : mail[n].emails \cap CatchAll \subseteq mail'[n].emails
  <2>1. PICK r \in Handler : Post(r, allowed) \/ GetForHand(r) \/ HandPatch(r)
    BY <1>7 DEF SelfService
  <2>2. CASE Post(r, allowed) \/ GetForHand(r)
    <3>1. UNCHANGED <<spc, account, catcher, alone, back, mail>>
      BY <1>3, <1>4, <2>2
    <3> QED
      BY <1>2, <3>1
  <2>3. CASE HandPatch(r)
    BY <1>6, <2>3
  <2> QED
    BY <2>1, <2>2, <2>3
<1> HIDE DEF NoneBack
<1> QED
  BY <1>1, <1>2, <1>5, <1>7, HandCases, Zenon

\* A step of stalwart-configure leaves the catch-all with the sink.
LEMMA SinkKeeps ==
    ASSUME StalwartTypeOK, MailOK, ConvergeAccounts, alone, catcher # None, spc \in Moved \cup {"sink.store"}
    PROVE  CatchAll \subseteq mail'[Full(catcher)].emails
<1> USE DEF Moved
<1>1. Full(AdminUser) \in Name /\ Full(catcher) \in Name /\ Full(catcher) # Full(AdminUser)
  BY Names
<1>2. spc # "sink.store" => CatchAll \subseteq mail[Full(catcher)].emails
  BY DEF MailOK
<1>3. CASE GetSink \/ GetAdmin \/ GetStripped \/ Reload
  <2>1. mail' = mail /\ spc # "sink.store"
    BY <1>3 DEF GetSink, GetAdmin, GetStripped, Reload, Fetch
  <2> QED
    BY <1>2, <2>1
<1>4. CASE StoreSink
  <2>1. spc = "sink.store" /\ Store("sink.store", AfterSink, Full(catcher), SinkEmails)
    BY <1>4 DEF StoreSink, Store
  <2>2. CatchAll \subseteq SinkEmails
    BY DEF CatchAll, SinkEmails, Addresses
  <2>3. account.emails \cap CatchAll \subseteq mail[Full(catcher)].emails
    BY <2>1 DEF MailOK
  <2> QED
    BY <1>1, <2>1, <2>2, <2>3, StoreEmails
<1>5. CASE StoreAdmin
  <2>1. spc = "admin.store" /\ Store("admin.store", AfterAdmin, Full(AdminUser), AdminEmails)
    BY <1>5 DEF StoreAdmin, Store
  <2>2. mail'[Full(catcher)] = mail[Full(catcher)]
    BY <1>1, <2>1, StoreEmails
  <2> QED
    BY <1>2, <2>1, <2>2
<1>6. CASE StripAdmin
  <2>1. spc = "strip.store"
    BY <1>6 DEF StripAdmin
  <2>2. mail'[Full(catcher)] = mail[Full(catcher)]
    BY <1>1, <1>6, PatchedEmails DEF StripAdmin
  <2> QED
    BY <1>2, <2>1, <2>2
<1> QED
  BY <1>3, <1>4, <1>5, <1>6 DEF ConvergeAccounts

\* A step of the run leaves the admin no catch-all it did not have.
LEMMA AdminStripped ==
    ASSUME StalwartTypeOK, MailOK, ConvergeAccounts, ~back'
    PROVE  /\ spc' = "strip.store" =>
                mail'[Full(AdminUser)].emails \cap CatchAll \subseteq account'.emails
           /\ catcher # None /\ spc' \in {"reload", "done"} =>
                mail'[Full(AdminUser)].emails \cap CatchAll = {}
<1>1. Full(AdminUser) \in Name
  BY Names
<1>2. CASE GetSink \/ StoreSink \/ GetAdmin
  BY <1>2 DEF GetSink, StoreSink, GetAdmin, Fetch, Store, AfterSink
<1>3. CASE StoreAdmin
  BY <1>3 DEF StoreAdmin, Store, AfterAdmin
<1>4. CASE GetStripped
  BY <1>4 DEF GetStripped, getPrincipal
<1>5. CASE StripAdmin
  <2>1. spc = "strip.store" /\ spc' = "reload" /\ ~back
    BY <1>5 DEF StripAdmin
  <2>2. mail[Full(AdminUser)].emails \cap CatchAll \subseteq account.emails
    BY <2>1 DEF MailOK
  <2>3. CASE account.emails \cap CatchAll = {}
    BY <1>5, <2>1, <2>2, <2>3 DEF StripAdmin
  <2>4. CASE Patched(Full(AdminUser), account.emails, {}, account.emails \cap CatchAll, {})
    <3>1. mail'[Full(AdminUser)].emails
            = (mail[Full(AdminUser)].emails \cup {}) \ (account.emails \cap CatchAll)
      BY <1>1, <2>4, PatchedEmails
    <3> QED
      BY <2>1, <2>2, <3>1
  <2> QED
    BY <1>5, <2>3, <2>4 DEF StripAdmin
<1>6. CASE Reload
  BY <1>6 DEF Reload, MailOK
<1> QED
  BY <1>2, <1>3, <1>4, <1>5, <1>6 DEF ConvergeAccounts

LEMMA MailNext == ASSUME IInv, [Next]_vars PROVE MailOK'
<1> USE DEF Moved
<1>1. ZitadelTypeOK /\ StalwartTypeOK /\ MailOK
  BY DEF IInv, TypeOK
<1>2. CASE Deploy
  BY <1>2 DEF Deploy, StartZitadel, MailOK, None
<1>3. CASE ZitadelStep
  <2>1. UNCHANGED <<mail, spc, account, catcher, alone, back, user>>
    BY <1>1, <1>3, UsersFrame, OrgsFrame, AppFrame, RolesFrame
       DEF ZitadelStep, svars, Configure, Disturb, RunFails, PowerCut, ConsoleEdits, Console, Carry
  <2>2. zpc = "done" => zpc' = "done"
    BY <1>1, <1>3, UsersFrame, OrgsFrame, AppFrame, RolesFrame
       DEF ZitadelStep, Configure, Disturb, RunFails, PowerCut, ConsoleEdits, Console, Carry, Running,
           UserPhase, OrgPhase, Listing, Choosing, AppPhase, RolePhase
  <2> QED
    BY <1>1, <2>1, <2>2 DEF MailOK
<1>4. CASE StalwartStart
  <2>1. /\ zpc = "done" /\ UNCHANGED <<mail, catcher, user, zpc>>
        /\ spc' = IF catcher = None THEN "admin.get" ELSE "sink.get"
    BY <1>4 DEF StalwartStart, StartStalwart, FirstAccount, zvars
  <2> QED
    BY <1>1, <2>1 DEF MailOK
<1>5. CASE StalwartStep
  <2>1. /\ UNCHANGED <<user, zpc, catcher, alone>>
        /\ spc \in {"sink.get", "sink.store", "admin.get", "admin.store", "strip.get", "strip.store", "reload"}
    BY <1>5 DEF StalwartStep, ConvergeAccounts, GetSink, StoreSink, GetAdmin, StoreAdmin, GetStripped,
             StripAdmin, Reload, Fetch, Store, zvars
  <2>2. zpc' = "done" /\ user' = catcher'
    BY <1>1, <2>1 DEF MailOK
  <2>3. spc' \in {"sink.get", "sink.store", "strip.get", "strip.store"} => catcher # None
    BY <1>1, <1>5 DEF StalwartStep, ConvergeAccounts, GetSink, StoreSink, GetAdmin, StoreAdmin, GetStripped,
             StripAdmin, Reload, Fetch, Store, AfterSink, AfterAdmin, MailOK
  <2>4. spc' = "sink.store" => account'.emails \cap CatchAll \subseteq mail'[Full(catcher)].emails
    BY <1>5 DEF StalwartStep, ConvergeAccounts, GetSink, StoreSink, GetAdmin, StoreAdmin, GetStripped,
             StripAdmin, Reload, Fetch, Store, AfterSink, AfterAdmin, getPrincipal
  <2>5. spc' \in Moved => spc \in Moved \cup {"sink.store"}
    BY <1>5 DEF StalwartStep, ConvergeAccounts, GetSink, StoreSink, GetAdmin, StoreAdmin, GetStripped,
             StripAdmin, Reload, Fetch, Store
  <2>6. alone /\ catcher # None /\ spc' \in Moved => CatchAll \subseteq mail'[Full(catcher)].emails
    BY <1>1, <1>5, <2>5, SinkKeeps DEF StalwartStep
  <2>7. /\ ~back' /\ spc' = "strip.store" =>
             mail'[Full(AdminUser)].emails \cap CatchAll \subseteq account'.emails
        /\ ~back' /\ catcher # None /\ spc' \in {"reload", "done"} =>
             mail'[Full(AdminUser)].emails \cap CatchAll = {}
    BY <1>1, <1>5, AdminStripped DEF StalwartStep
  <2> QED
    BY <2>1, <2>2, <2>3, <2>4, <2>6, <2>7 DEF MailOK
<1>6. CASE StalwartTrouble
  <2>1. /\ UNCHANGED <<mail, catcher, alone, user, zpc>> /\ account' = NoPrincipal
        /\ StalwartRunning
        /\ \/ spc' = "failed"
           \/ spc = "sink.get" /\ spc' = "sink.store"
           \/ spc = "admin.get" /\ spc' = "admin.store"
           \/ spc = "strip.get" /\ spc' = "strip.store" /\ back'
    BY <1>6 DEF StalwartTrouble, StalwartFails, Misread, AfterRead
  <2> QED
    BY <1>1, <2>1 DEF MailOK, StalwartRunning, NoPrincipal
<1>7. CASE ByHand
  <2>1. /\ UNCHANGED <<spc, account, catcher, user, zpc>>
        /\ alone' => alone /\ \A n \in Name : mail[n].emails \cap CatchAll \subseteq mail'[n].emails
        /\ NoneBack
    BY <1>1, <1>7, HandEmails DEF zvars
  <2>2. catcher # None => Full(catcher) \in Name
    BY <1>1, Names
  <2> QED
    BY <1>1, <2>1, <2>2 DEF MailOK, NoneBack
<1>8. CASE UNCHANGED vars
  BY <1>1, <1>8 DEF vars, zvars, svars, MailOK
<1> QED
  BY <1>2, <1>3, <1>4, <1>5, <1>6, <1>7, <1>8 DEF Next

---------------------------------------------------------------------------
(* The theorems.                                                           *)

LEMMA InitIInv == Init => IInv
<1> SUFFICES ASSUME NEW older \in BOOLEAN, ZitadelInit(older), StalwartInit(older), Init
             PROVE  IInv
  BY DEF Init
<1>1. TypeOK /\ AdminOrg \in Domain /\ OwnOrg \in OrgId
  BY InitType, FirstDomain
<1>2. CopiesOK
  BY DEF ZitadelInit, CopiesOK, Right, NoApp
<1>3. ReadOK /\ OwnersOK /\ RolesOK /\ LoginOK
  <2>1. \A id \in OrgId : srv.granted[id] = {}
    BY DEF ZitadelInit
  <2> QED
    BY <2>1 DEF ZitadelInit, ReadOK, InHand, Written, OwnersOK, Listing, Choosing, Chosen, RolesOK,
           Granting, LoginOK, Unnamed
<1>4. OrgsOK
  <2>1. /\ srv.orgs = InitialOrgs
        /\ \A id \in OrgId : InitialOrgs[id] = IF id = OwnOrg THEN [name |-> "first", domains |-> {}, primary |-> "none"]
                                               ELSE NoOrg
    BY DEF ZitadelInit, InitialOrgs
  <2>2. \A id \in OrgId : srv.orgs[id].domains = {} /\ srv.orgs[id].name = IF id = OwnOrg THEN "first" ELSE "absent"
    BY <2>1 DEF NoOrg
  <2> QED
    BY <1>1, <2>1, <2>2 DEF OrgsOK, Of, Carries
<1>5. MailOK
  BY DEF ZitadelInit, StalwartInit, MailOK, None, Moved
<1> QED
  BY <1>1, <1>2, <1>3, <1>4, <1>5 DEF IInv

\* The invariant holds of every run of the two units, whatever is edited or cut.
THEOREM SpecIInv == Spec => []IInv
<1>1. IInv /\ [Next]_vars => IInv'
  BY NextType, CredsNext, OrgsNext, RolesNext, MailNext DEF IInv
<1> QED
  BY InitIInv, <1>1, PTL DEF Spec

\* Every variable keeps its type, the requests and what they read included.
THEOREM SpecTypeOK == Spec => []TypeOK
<1>1. IInv => TypeOK
  BY DEF IInv
<1> QED
  BY <1>1, SpecIInv, PTL

\* Credentials carried to another machine keep working through any runs and cuts
\* (zitadel-configure.ts:1048-1054, 1083-1096).
THEOREM SpecCarriedSecretWorks == Spec => []CarriedSecretWorks
<1>1. IInv => CarriedSecretWorks
  BY AppNumbers DEF IInv, TypeOK, CopiesOK, Right, CarriedSecretWorks, NoFile
<1> QED
  BY <1>1, SpecIInv, PTL

\* A completed run leaves credentials that work (zitadel-configure.ts:1120-1200).
THEOREM SpecFileServes == Spec => []FileServes
<1>1. IInv => FileServes
  BY DEF IInv, CopiesOK, ReadOK, Right, Calm, Written, FileServes
<1> QED
  BY <1>1, SpecIInv, PTL

\* No two organisations are of one domain (zitadel-configure.ts:819-822).
THEOREM SpecNoLookalikeOrg == Spec => []NoLookalikeOrg
<1>1. ASSUME NEW S \in SUBSET OrgId, \A i, j \in S : i = j
      PROVE  Cardinality(S) <= 1
  <2>1. CASE S = {}
    BY <2>1, FS_EmptySet
  <2>2. CASE S # {}
    <3>1. PICK i \in S : S = {i}
      BY <1>1, <2>2
    <3>2. Cardinality({i}) = 1
      BY FS_Singleton
    <3> QED
      BY <3>1, <3>2
  <2> QED
    BY <2>1, <2>2
<1>2. IInv => NoLookalikeOrg
  BY <1>1 DEF IInv, OrgsOK, Of, NoLookalikeOrg
<1> QED
  BY <1>2, SpecIInv, PTL

\* A completed run has given every declared role to the admin, if there is one
\* under either spelling, and to every other organisation but those the console
\* granted the project (zitadel-configure.ts:860-863, 1370-1408).
THEOREM SpecRolesReach == Spec => []RolesReach
<1>1. IInv => RolesReach
  BY DEF IInv, RolesOK, Granting, GrantOK, RolesReach
<1> QED
  BY <1>1, SpecIInv, PTL

\* After a completed deployment mail to any name reaches the account that signs in
\* as the sink, and not the admin's, unless that was given an address back by hand
\* or its last read was answered with an error
\* (zitadel-configure.ts:1341-1346, stalwart-configure.ts:294-295, 330-332, 349-352).
THEOREM SpecMailReachesItsReader == Spec => []MailReachesItsReader
<1>1. IInv => MailReachesItsReader
  BY DEF IInv, MailOK, LoginOK, Moved, Unnamed, None, MailReachesItsReader
<1> QED
  BY <1>1, SpecIInv, PTL

\* No run takes a role away that it did not give (zitadel-configure.ts:932-934).
THEOREM SpecNoRoleTaken == Spec => NoRoleTaken
<1>1. ASSUME IInv, Configure, quiet
      PROVE  srv.iam \subseteq srv'.iam /\ srv.grant \subseteq srv'.grant
  <2>1. ZitadelTypeOK /\ RolesOK /\ srv \in Server
    BY <1>1 DEF IInv, TypeOK, ZitadelTypeOK
  <2>2. CASE ConvergeOrgs \/ ConvergeApp
    BY <2>1, <2>2, OrgsFrame, AppFrame DEF Server
  <2>3. CASE ConvergeUsers
    <3>1. srv'.grant = srv.grant
      BY <2>1, <2>3, UsersFrame DEF Server
    <3>2. CASE UpdateIamMember
      <4>1. zpc = "iam.update" /\ srv'.iam = loc.roles \cup IamRoles
        BY <2>1, <3>2 DEF UpdateIamMember, Write, Server
      <4> QED
        BY <1>1, <2>1, <3>1, <4>1 DEF RolesOK
    <3>3. CASE ~UpdateIamMember
      BY <2>1, <2>3, <3>1, <3>3 DEF ConvergeUsers, SearchAdmin, SearchIamMembers, SearchUsers, CreateUser,
           RenameUser, Read, Write, Server
    <3> QED
      BY <3>2, <3>3
  <2>4. CASE ConvergeRoles
    <3>1. srv'.iam = srv.iam
      BY <2>1, <2>4, RolesFrame DEF Server
    <3>2. CASE UpdateGrant
      <4>1. srv' = srv \/ (zpc = "grant.update" /\ srv'.grant = loc.roles \cup Roles)
        BY <2>1, <3>2 DEF UpdateGrant, Request, Write, Refused, Server
      <4> QED
        BY <1>1, <2>1, <3>1, <4>1 DEF RolesOK
    <3>3. CASE ~UpdateGrant
      BY <2>1, <2>4, <3>1, <3>3 DEF ConvergeRoles, SearchRoles, AddProjectRole, SearchGrants,
           ListProjectGrants, CreateProjectGrant, Refused, Read, Write, Server
    <3> QED
      BY <3>2, <3>3
  <2> QED
    BY <1>1, <2>2, <2>3, <2>4 DEF Configure
<1>2. IInv /\ [Next]_vars => [Configure /\ quiet => srv.iam \subseteq srv.iam' /\ srv.grant \subseteq srv.grant']_vars
  BY <1>1
<1> QED
  BY <1>2, SpecIInv, PTL DEF Spec, NoRoleTaken

\* Somebody holds the catch-all of every domain of which somebody held it
\* (stalwart-configure.ts:395-396).
THEOREM SpecCatchAllHeld == Spec => CatchAllHeld
<1>1. ASSUME IInv, [Next]_vars, alone, alone', NEW d \in MailDomain, Held(d)
      PROVE  Held(d)'
  <2> DEFINE a == [local |-> NoLocal, domain |-> d]
  <2>1. ZitadelTypeOK /\ StalwartTypeOK /\ MailOK /\ a \in CatchAll
    BY <1>1 DEF IInv, TypeOK, CatchAll
  <2>2. PICK n \in Name : a \in mail[n].emails
    BY <1>1 DEF Held
  <2> HIDE DEF a
  <2>3. ASSUME NEW m \in Name, a \in mail'[m].emails PROVE Held(d)'
    BY <2>3 DEF Held, a
  <2>4. CASE mail' = mail
    BY <2>2, <2>3, <2>4
  <2>5. CASE ByHand
    <3>1. a \in mail'[n].emails
      BY <1>1, <2>1, <2>2, <2>5, HandEmails
    <3> QED
      BY <2>3, <3>1
  <2>6. CASE ConvergeAccounts /\ catcher # None /\ spc \in Moved \cup {"sink.store"}
    <3>1. a \in mail'[Full(catcher)].emails /\ Full(catcher) \in Name
      BY <1>1, <2>1, <2>6, SinkKeeps, Names
    <3> QED
      BY <2>3, <3>1
  <2>7. CASE StoreAdmin /\ catcher = None
    <3>1. Store("admin.store", AfterAdmin, Full(AdminUser), AdminEmails) /\ CatchAll \subseteq AdminEmails
      BY <2>7 DEF StoreAdmin, AdminEmails
    <3>2. CASE n # Full(AdminUser)
      BY <2>1, <2>2, <2>3, <3>1, <3>2, Names, StoreEmails
    <3>3. CASE n = Full(AdminUser)
      <4>1. a \in mail'[n].emails
        BY <2>1, <2>2, <3>1, <3>3, StoreEmails
      <4> QED
        BY <2>3, <4>1
    <3> QED
      BY <3>2, <3>3
  <2>8. ConvergeAccounts =>
          \/ mail' = mail \/ (StoreAdmin /\ catcher = None)
          \/ catcher # None /\ spc \in Moved \cup {"sink.store"}
    BY <2>1 DEF ConvergeAccounts, GetSink, StoreSink, GetAdmin, StoreAdmin, GetStripped, StripAdmin, Reload,
                Fetch, Store, Moved, MailOK
  <2>9. mail' = mail \/ ByHand \/ ConvergeAccounts
    BY <1>1 DEF Next, Deploy, ZitadelStep, StalwartStart, StartStalwart, StalwartStep, StalwartTrouble,
                StalwartFails, Misread, vars, svars
  <2> QED
    BY <2>4, <2>5, <2>6, <2>7, <2>8, <2>9
<1>2. IInv /\ [Next]_vars => [alone => \A d \in MailDomain : Held(d) => Held(d)' \/ ~alone']_vars
  BY <1>1
<1> QED
  BY <1>2, SpecIInv, PTL DEF Spec, CatchAllHeld

\* A request to the API and a run never undo each other's addresses
\* (stalwart-configure.ts:246-248).
THEOREM SpecEditsSurvive == Spec => EditsSurvive
<1>1. ASSUME IInv, [Next]_vars, NEW n \in Name
      PROVE  mail[n].emails \subseteq mail'[n].emails
                \cup (IF spc' # spc THEN AskedOfTheRun(n) ELSE AskedByHand(n))
  <2>1. ZitadelTypeOK /\ StalwartTypeOK /\ MailOK
    BY <1>1 DEF IInv, TypeOK
  <2>2. CASE mail' = mail
    BY <2>2
  <2>3. CASE ByHand
    BY <2>1, <2>3, HandEmails
  <2>4. CASE StoreSink
    <3>1. spc = "sink.store" /\ spc' = "admin.get" /\ Full(catcher) \in Name
          /\ Store("sink.store", AfterSink, Full(catcher), SinkEmails)
      BY <2>1, <2>4, Names DEF StoreSink, Store, AfterSink, MailOK
    <3>2. account = NoPrincipal => AskedOfTheRun(Full(catcher)) = mail[Full(catcher)].emails
      BY <3>1 DEF AskedOfTheRun
    <3> QED
      BY <2>1, <3>1, <3>2, StoreEmails
  <2>5. CASE StoreAdmin
    <3>1. spc = "admin.store" /\ spc' # spc /\ Full(AdminUser) \in Name
          /\ Store("admin.store", AfterAdmin, Full(AdminUser), AdminEmails)
      BY <2>1, <2>5, Names DEF StoreAdmin, Store, AfterAdmin
    <3>2. account = NoPrincipal => AskedOfTheRun(Full(AdminUser)) = mail[Full(AdminUser)].emails
      BY <3>1 DEF AskedOfTheRun
    <3> QED
      BY <2>1, <3>1, <3>2, StoreEmails
  <2>6. CASE StripAdmin
    <3>1. spc = "strip.store" /\ spc' = "reload" /\ Full(AdminUser) \in Name
      BY <2>1, <2>6, Names DEF StripAdmin
    <3>2. AskedOfTheRun(Full(AdminUser)) = CatchAll
      BY <3>1 DEF AskedOfTheRun
    <3>3. CASE Patched(Full(AdminUser), account.emails, {}, account.emails \cap CatchAll, {})
      BY <2>1, <3>1, <3>2, <3>3, PatchedEmails
    <3> QED
      BY <2>2, <2>6, <3>3 DEF StripAdmin
  <2>7. mail' = mail \/ ByHand \/ StoreSink \/ StoreAdmin \/ StripAdmin
    BY <1>1 DEF Next, Deploy, ZitadelStep, StalwartStart, StartStalwart, StalwartStep, StalwartTrouble,
                StalwartFails, Misread, vars, svars, ConvergeAccounts, GetSink, GetAdmin, GetStripped, Reload, Fetch
  <2> QED
    BY <2>2, <2>3, <2>4, <2>5, <2>6, <2>7
<1>2. IInv /\ [Next]_vars => [\A n \in Name : mail[n].emails \subseteq mail'[n].emails
          \cup (IF spc' # spc THEN AskedOfTheRun(n) ELSE AskedByHand(n))]_vars
  BY <1>1
<1> QED
  BY <1>2, SpecIInv, PTL DEF Spec, EditsSurvive
===========================================================================
