-------------------------- MODULE StalwartConfigure --------------------------
(***************************************************************************)
(* stalwart-configure.ts: the oneshot that gives the sink and the admin     *)
(* account their addresses, and the self-service API of                     *)
(* stalwart-self-service-api.ts, whose requests change addresses while it   *)
(* runs.  Both talk to the mail server through StalwartClient, one request  *)
(* a step.  An account a person signs in with appears by itself.            *)
(*                                                                         *)
(* The domain principals, DKIM keys and settings the script also converges  *)
(* touch no account and are left out.                                       *)
(***************************************************************************)
EXTENDS FiniteSets, Naturals

CONSTANTS
    MailDomain, \* orgDomains
    Catcher,    \* local parts catchAllUser may name
    Local,      \* local parts an admin may add by hand
    HandDomain, \* bound: the domains of what happens by hand
    Handler,    \* requests the self-service API serves at a time
    MaxHand     \* bound: requests to the API, and sign-ins

None        == "none"           \* catchAllUser = null
AdminUser   == "admin"
Mandatory   == {"postmaster"}   \* and admin, abuse, webmaster
DEFAULT_ROLE == "user"

\* A principal is named by a user name, with the first domain ("full") or not.
Name        == [user : Catcher \cup {AdminUser}, form : {"full", "bare"}]
Full(u)     == [user |-> u, form |-> "full"]
NoLocal     == "anyone"         \* the local part of a catch-all address
Address     == [local : Local \cup Catcher \cup Mandatory \cup {AdminUser, NoLocal}, domain : MailDomain]
CatchAll    == [local : {NoLocal}, domain : MailDomain]
Addresses(locals) == [local : locals, domain : MailDomain]
NoPrincipal == [emails |-> {}, roles |-> {"absent"}]

ASSUME StalwartAssumption ==
    /\ HandDomain \subseteq MailDomain /\ {AdminUser, None, NoLocal} \cap Catcher = {}
    /\ MaxHand \in Nat

VARIABLES
    mail,     \* the server's principals
    spc,      \* the next request of the configure run
    account,  \* the principal it read last
    catcher,  \* catchAllUser of this deployment
    request,  \* the requests the API is serving
    hand,     \* requests and sign-ins so far
    alone,    \* history: no catch-all address was removed by hand during the run
    back      \* history: since the admin account was read for its catch-all, one
              \* was given to it by hand, or that read was answered with an error

svars == <<mail, spc, account, catcher, request, hand, alone, back>>

NoRequest == [pc |-> "free"]

\* An older server has the catch-all on an admin account without the role.
StalwartInit(older) ==
    /\ mail = [n \in Name |->
          IF older /\ n = Full(AdminUser)
            THEN [emails |-> Addresses(Mandatory) \cup CatchAll, roles |-> {}]
            ELSE NoPrincipal]
    /\ spc = "idle" /\ account = NoPrincipal /\ catcher = None
    /\ request = [r \in Handler |-> NoRequest]
    /\ hand = 0 /\ alone = TRUE /\ back = FALSE

-----------------------------------------------------------------------------
(* StalwartClient.                                                         *)

getPrincipal(n) == mail[n]

\* POST principal/deploy: the code sends it for principals it did not find.  Of
\* one that is there all the same, nothing here tells what is kept.
Deployed(n, emails) ==
    \E kept \in {{}, IF mail[n] = NoPrincipal THEN {} ELSE mail[n].emails} :
        mail' = [mail EXCEPT ![n] = [emails |-> emails \cup kept, roles |-> {DEFAULT_ROLE}]]

\* Mutation: the list read before is written back, with the change.
Patched_Whole(n, read, add, remove, roles) ==
    mail' = [mail EXCEPT ![n].emails = (read \cup add) \ remove,
                         ![n].roles = @ \cup roles]

\* PATCH with addItem and removeItem: the server changes what it holds.
Patched(n, read, add, remove, roles) ==
    mail' = [mail EXCEPT ![n].emails = (@ \cup add) \ remove,
                         ![n].roles = @ \cup roles]

-----------------------------------------------------------------------------
(* convergeAccount: read, then deploy or add what is missing.               *)

Fetch(from, to, n) ==
    /\ spc = from /\ spc' = to /\ account' = getPrincipal(n)
    /\ UNCHANGED <<mail, catcher, request, hand, alone, back>>

Store(from, to, n, desired) ==
    /\ spc = from /\ spc' = to
    /\ \/ account = NoPrincipal /\ Deployed(n, desired)
       \/ /\ account # NoPrincipal
          /\ desired \subseteq account.emails /\ DEFAULT_ROLE \in account.roles
          /\ UNCHANGED mail
       \/ /\ account # NoPrincipal
          /\ ~(desired \subseteq account.emails /\ DEFAULT_ROLE \in account.roles)
          /\ Patched(n, account.emails, desired \ account.emails, {}, {DEFAULT_ROLE})
    /\ UNCHANGED <<account, catcher, request, hand, alone, back>>

SinkEmails  == Addresses({catcher, NoLocal})
AdminEmails == Addresses(Mandatory) \cup (IF catcher = None THEN CatchAll ELSE {})

\* Mutation: the sink account is left out.
FirstAccount_Admin == "admin.get"
\* The sink has to hold the catch-all before it is taken off the admin.
FirstAccount == IF catcher = None THEN "admin.get" ELSE "sink.get"

AfterSink  == "admin.get"
AfterAdmin == IF catcher = None THEN "reload" ELSE "strip.get"

GetSink    == Fetch("sink.get", "sink.store", Full(catcher))
StoreSink  == Store("sink.store", AfterSink, Full(catcher), SinkEmails)
GetAdmin   == Fetch("admin.get", "admin.store", Full(AdminUser))
StoreAdmin == Store("admin.store", AfterAdmin, Full(AdminUser), AdminEmails)

\* removeAddresses, after another read.
GetStripped ==
    /\ spc = "strip.get" /\ spc' = "strip.store"
    /\ account' = getPrincipal(Full(AdminUser)) /\ back' = FALSE
    /\ UNCHANGED <<mail, catcher, request, hand, alone>>
StripAdmin ==
    /\ spc = "strip.store" /\ spc' = "reload"
    /\ IF account.emails \cap CatchAll = {}
         THEN UNCHANGED mail
         ELSE Patched(Full(AdminUser), account.emails, {}, account.emails \cap CatchAll, {})
    /\ UNCHANGED <<account, catcher, request, hand, alone, back>>

\* A read that is answered with an error reads like an account that is not
\* there (getPrincipal).
AfterRead == [at \in {"sink.get", "admin.get", "strip.get"} |->
                 CASE at = "sink.get"  -> "sink.store"
                   [] at = "admin.get" -> "admin.store"
                   [] at = "strip.get" -> "strip.store"]
Misread ==
    /\ spc \in DOMAIN AfterRead /\ spc' = AfterRead[spc]
    /\ account' = NoPrincipal /\ back' = (back \/ spc = "strip.get")
    /\ UNCHANGED <<mail, catcher, request, hand, alone>>

Reload ==
    /\ spc = "reload" /\ spc' = "done" /\ account' = NoPrincipal
    /\ UNCHANGED <<mail, catcher, request, hand, alone, back>>

StalwartRunning == spc \notin {"idle", "waiting", "done", "failed"}

\* The unit starts once zitadel-configure has completed.
StartStalwart ==
    /\ spc = "waiting" /\ spc' = FirstAccount
    /\ account' = NoPrincipal /\ alone' = TRUE
    /\ UNCHANGED <<mail, catcher, request, hand, back>>

StalwartFails ==
    /\ spc' = "failed" /\ account' = NoPrincipal
    /\ UNCHANGED <<mail, catcher, request, hand, alone, back>>

ConvergeAccounts == GetSink \/ StoreSink \/ GetAdmin \/ StoreAdmin
                    \/ GetStripped \/ StripAdmin \/ Reload

-----------------------------------------------------------------------------
(* The self-service API: authorize, read the principal, change one address. *)
(* `allowed`: Zitadel's userinfo shows the caller to hold the admin role.   *)

\* validateAddress: a local part, or none, at one of the domains.  (The login
\* address, which cannot be removed, is none of them.)
Post(r, allowed) ==
    /\ request[r] = NoRequest /\ hand < MaxHand /\ hand' = hand + 1
    /\ allowed
    /\ \E n \in Name, l \in Local \cup {NoLocal}, d \in HandDomain, op \in {"add", "remove"} :
          request' = [request EXCEPT ![r] =
             [pc |-> "get", name |-> n, op |-> op, address |-> [local |-> l, domain |-> d],
              emails |-> {}]]
    /\ UNCHANGED <<mail, spc, account, catcher, alone, back>>

GetForHand(r) ==
    LET q == request[r] IN
    /\ q.pc = "get"
    /\ request' = [request EXCEPT ![r] =
          IF getPrincipal(q.name) = NoPrincipal THEN NoRequest
          ELSE [q EXCEPT !.pc = "patch", !.emails = getPrincipal(q.name).emails]]
    /\ UNCHANGED <<mail, spc, account, catcher, hand, alone, back>>

HandPatch(r) ==
    LET q == request[r] IN
    /\ q.pc = "patch"
    /\ request' = [request EXCEPT ![r] = NoRequest]
    /\ \/ /\ q.op = "add" /\ q.address \notin q.emails
          /\ Patched(q.name, q.emails, {q.address}, {}, {})
          /\ back' = (back \/ (q.name = Full(AdminUser) /\ q.address.local = NoLocal))
          /\ UNCHANGED alone
       \/ /\ q.op = "remove" /\ q.address \in q.emails
          /\ Patched(q.name, q.emails, {}, {q.address}, {})
          /\ alone' = (alone /\ q.address.local # NoLocal)
          /\ UNCHANGED back
       \/ /\ (q.op = "add") = (q.address \in q.emails)
          /\ UNCHANGED <<mail, alone, back>>
    /\ UNCHANGED <<spc, account, catcher, hand>>

SelfService(allowed) == \E r \in Handler :
    Post(r, allowed) \/ GetForHand(r) \/ HandPatch(r)

\* A sign-in makes the principal of the name the provider presents, with its
\* address and the default role, or binds to the one there is.
SignIn(n) ==
    /\ hand < MaxHand /\ hand' = hand + 1
    /\ \E d \in HandDomain :
         LET old  == IF mail[n] = NoPrincipal THEN [emails |-> {}, roles |-> {DEFAULT_ROLE}]
                     ELSE mail[n]
         IN  mail' = [mail EXCEPT ![n] =
                        [old EXCEPT !.emails = @ \cup {[local |-> n.user, domain |-> d]}]]
    /\ UNCHANGED <<spc, account, catcher, request, alone, back>>

-----------------------------------------------------------------------------
Spc == {"idle", "waiting", "done", "failed", "sink.get", "sink.store", "admin.get",
        "admin.store", "strip.get", "strip.store", "reload"}
Principal == [emails : SUBSET Address, roles : SUBSET {DEFAULT_ROLE, "absent"}]

Pending   == [pc : {"get", "patch"}, name : Name, op : {"add", "remove"},
              address : Address, emails : SUBSET Address]

StalwartTypeOK ==
    /\ mail \in [Name -> Principal] /\ account \in Principal
    /\ spc \in Spc /\ catcher \in Catcher \cup {None}
    /\ request \in [Handler -> Pending \cup {NoRequest}]
    /\ hand \in 0 .. MaxHand /\ alone \in BOOLEAN /\ back \in BOOLEAN
=============================================================================
