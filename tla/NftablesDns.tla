----------------------------- MODULE NftablesDns -----------------------------
(***************************************************************************)
(* nftables-dns-update.py: the oneshot that resolves the allowed hosts and *)
(* replaces the accept rules in front of the drop rule of the output chain. *)
(* A timer starts it again and again.  DNS answers change, lookups and the  *)
(* listing of the chain fail, and nftables is reloaded or restarted at any  *)
(* moment.                                                                  *)
(*                                                                         *)
(* A set is named by a hash of all resolved elements, cut to 32 bits: the   *)
(* model's name carries the elements themselves.  Every dynamic rule        *)
(* accepts, and goes right before the drop rule, so that their order        *)
(* decides nothing: the chain is the set of them.  The static rules, the    *)
(* drop rule among them, are never touched and accept nothing the           *)
(* properties speak of.                                                     *)
(***************************************************************************)
EXTENDS Integers, Sequences, FiniteSets, SequencesExt

CONSTANTS
    Connections, \* sequence of [host, ports, protocol]
    Addr4,       \* IPv4 addresses
    Addr6,       \* IPv6 addresses
    Answers,     \* per host, the sets of addresses DNS may answer with
    MaxAttempts, \* rounds of lookups (5 in the code)
    MaxChanges,  \* bound: changes of DNS
    MaxFaults,   \* bound: failing lookups and listings
    MaxReloads   \* bound: reloads and restarts of nftables

Protocols == <<"tcp", "udp">>
Protocol  == ToSet(Protocols)
Family    == {"ipv4", "ipv6"}
Addr      == [ipv4 |-> Addr4, ipv6 |-> Addr6]
Host      == {Connections[n].host : n \in 1 .. Len(Connections)}
Ports     == UNION {Connections[n].ports : n \in 1 .. Len(Connections)}

ASSUME NftablesDnsAssumption ==
    /\ Len(Connections) \in Nat \ {0} /\ Addr4 \cap Addr6 = {}
    /\ \A n \in 1 .. Len(Connections) : Connections[n].protocol \in Protocol
    /\ \A h \in Host : Answers[h] \subseteq SUBSET (Addr4 \cup Addr6)
    /\ MaxAttempts \in Nat \ {0}
    /\ MaxChanges \in Nat /\ MaxFaults \in Nat /\ MaxReloads \in Nat

VARIABLES
    dns,      \* what each host resolves to now
    rules,    \* the dynamic accept rules of the output chain
    sets,     \* the table's sets
    pc,       \* "idle", "resolve", "list" or "batch"
    attempt,  \* the round of lookups
    conn,     \* the connection to resolve next
    proto,    \* index of the protocol being replaced
    elements, \* the (address, port) pairs per protocol and family
    found,    \* what the listing of the chain returned
    clean,    \* history: nothing went wrong since the run started
    changes, faults, reloads

updater == <<pc, attempt, conn, proto, elements, found>>
budget  == <<changes, faults, reloads>>
vars    == <<dns, rules, sets, updater, clean, budget>>

-----------------------------------------------------------------------------
(* The ruleset.                                                            *)

DropHandle == 1
NoHandle   == 0

NoElements == [p \in Protocol |-> [f \in Family |-> {}]]
SetName(p, f, h) == [proto |-> p, fam |-> f, hash |-> h]
Of(p) == {r \in rules : r.set.proto = p}

Handles(chain)     == {r.handle : r \in chain}
SetsNamed(names)   == {s \in sets : s.name \in names}
ElementsOf(name, table) == UNION {s.elems : s \in {t \in table : t.name = name}}

\* The kernel never reuses a handle of a table.  Only a reload can make the
\* updater's handles stale, and then no dynamic rule is left: taking a free one
\* instead tells no stale handle from another.
FreeHandle(chain) ==
    CHOOSE n \in 2 .. Cardinality(chain) + 2 : n \notin Handles(chain)

\* nft `insert rule ... position h`: h is the drop rule's, the same after every
\* reload of the same static rules.
Insert(chain, name) == chain \cup {[handle |-> FreeHandle(chain), set |-> name]}

\* What the chain lets out with protocol p.
Open(p) == UNION {ElementsOf(r.set, sets) : r \in Of(p)}

-----------------------------------------------------------------------------
NothingFound == [drop |-> NoHandle, handles |-> {}, names |-> {}]

Init ==
    /\ dns \in [Host -> UNION {Answers[h] : h \in Host}]
    /\ \A h \in Host : dns[h] \in Answers[h]
    /\ rules = {} /\ sets = {}
    /\ pc = "idle" /\ attempt = 1 /\ conn = 1 /\ proto = 1
    /\ elements = NoElements /\ found = NothingFound
    /\ clean = FALSE
    /\ changes = 0 /\ faults = 0 /\ reloads = 0

Idle == pc' = "idle" /\ attempt' = 1 /\ conn' = 1 /\ proto' = 1
        /\ elements' = NoElements /\ found' = NothingFound

\* The timer, or the boot, starts the unit; systemd runs one at a time.
Start ==
    /\ pc = "idle"
    /\ pc' = "resolve" /\ clean' = TRUE
    /\ UNCHANGED <<dns, rules, sets, attempt, conn, proto, elements, found, budget>>

\* collect_elements adds what the lookup of one connection returned.
Collected(answer, c) ==
    [elements EXCEPT ![c.protocol] =
        [f \in Family |-> @[f] \cup ((answer \cap Addr[f]) \X c.ports)]]

HasElements(e) == \E p \in Protocol, f \in Family : e[p][f] # {}

\* One lookup: after the last one an empty result is tried again, five times.
AfterLookup(answer) ==
    LET e == Collected(answer, Connections[conn]) IN
    \/ /\ conn < Len(Connections)
       /\ conn' = conn + 1 /\ elements' = e
       /\ UNCHANGED <<pc, attempt, proto, found>>
    \/ /\ conn = Len(Connections) /\ HasElements(e)
       /\ pc' = "list" /\ elements' = e
       /\ UNCHANGED <<attempt, conn, proto, found>>
    \/ /\ conn = Len(Connections) /\ ~HasElements(e) /\ attempt < MaxAttempts
       /\ attempt' = attempt + 1 /\ conn' = 1 /\ elements' = e
       /\ UNCHANGED <<pc, proto, found>>
    \/ /\ conn = Len(Connections) /\ ~HasElements(e) /\ attempt = MaxAttempts
       /\ Idle

Lookup ==
    /\ pc = "resolve"
    /\ AfterLookup(dns[Connections[conn].host])
    /\ UNCHANGED <<dns, rules, sets, clean, budget>>

\* getaddrinfo raises gaierror: no addresses, a warning.
LookupFails ==
    /\ pc = "resolve" /\ faults < MaxFaults
    /\ AfterLookup({})
    /\ faults' = faults + 1 /\ clean' = FALSE
    /\ UNCHANGED <<dns, rules, sets, changes, reloads>>

\* The next protocol, or the end of the run.
NextProtocol ==
    IF proto < Len(Protocols)
      THEN /\ proto' = proto + 1 /\ pc' = "list" /\ found' = NothingFound
           /\ UNCHANGED <<attempt, conn, elements>>
      ELSE Idle

This == Protocols[proto]
Resolved(p) == UNION {elements[p][f] : f \in Family}

SkipProtocol ==
    /\ pc = "list" /\ Resolved(This) = {}
    /\ NextProtocol
    /\ UNCHANGED <<dns, rules, sets, clean, budget>>

\* Mutation: only the newest of the dynamic rules is found.
find_drop_handle_and_old_sets_LastOnly(p) ==
    LET last == {r \in Of(p) : \A q \in Of(p) : q.handle <= r.handle}
    IN  [drop |-> DropHandle, handles |-> Handles(last), names |-> {}]

\* The drop rule and the old rules of this protocol.  A listed rule refers to its
\* set as "@name", which no set's prefix starts: no old set is ever found.
find_drop_handle_and_old_sets(p) ==
    [drop |-> DropHandle, handles |-> Handles(Of(p)), names |-> {}]

ListChain ==
    /\ pc = "list" /\ Resolved(This) # {}
    /\ found' = find_drop_handle_and_old_sets(This) /\ pc' = "batch"
    /\ UNCHANGED <<dns, rules, sets, attempt, conn, proto, elements, clean, budget>>

\* `list chain` fails: the run goes on as if the chain were empty.
ListFails ==
    /\ pc = "list" /\ Resolved(This) # {} /\ faults < MaxFaults
    /\ found' = NothingFound /\ pc' = "batch"
    /\ faults' = faults + 1 /\ clean' = FALSE
    /\ UNCHANGED <<dns, rules, sets, attempt, conn, proto, elements, changes, reloads>>

-----------------------------------------------------------------------------
(* The batch of one protocol, applied by the kernel as one transaction.     *)

\* The chain and the sets after the deletions.
KeptRules == {r \in rules : r.handle \notin found.handles}
KeptSets  == {s \in sets : s.name \notin found.names}

\* A handle or a set that is not there any more, or a set still in use, fails
\* the whole batch.
Accepted ==
    /\ found.handles \subseteq Handles(rules)
    /\ \A name \in found.names : SetsNamed({name}) # {}
    /\ \A r \in KeptRules : r.set \notin found.names

NewName(f) == SetName(This, f, elements)

\* `add set` and `add element` leave what such a set already holds.
NewSets == LET name(f) == NewName(f) IN
    {s \in KeptSets : \A f \in Family : s.name # name(f)}
    \cup {[name |-> name(f),
           elems |-> ElementsOf(name(f), KeptSets) \cup elements[This][f]] : f \in Family}

\* A rule for each family with elements, before the drop rule.
NewRule(chain, f) ==
    IF found.drop = NoHandle \/ elements[This][f] = {} THEN chain
    ELSE Insert(chain, NewName(f))

NewRules == NewRule(NewRule(KeptRules, "ipv4"), "ipv6")

\* Mutation: the old rules go in a batch of their own.
Batch_DeleteFirst ==
    /\ pc = "batch" /\ Accepted
    /\ IF found.handles = {}
         THEN rules' = NewRules /\ sets' = NewSets /\ NextProtocol
         ELSE /\ rules' = KeptRules /\ sets' = KeptSets
              /\ found' = [found EXCEPT !.handles = {}, !.names = {}]
              /\ UNCHANGED <<pc, attempt, conn, proto, elements>>
    /\ UNCHANGED <<dns, clean, budget>>

Batch ==
    /\ pc = "batch" /\ Accepted
    /\ rules' = NewRules /\ sets' = NewSets
    /\ NextProtocol
    /\ UNCHANGED <<dns, clean, budget>>

\* Mutation: a rejected batch is sent again.
BatchRejected_Retried ==
    /\ pc = "batch" /\ ~Accepted
    /\ UNCHANGED vars

\* The kernel refuses the batch: nothing changes and the next protocol follows.
BatchRejected ==
    /\ pc = "batch" /\ ~Accepted
    /\ NextProtocol
    /\ clean' = FALSE
    /\ UNCHANGED <<dns, rules, sets, budget>>

-----------------------------------------------------------------------------
(* The world around it.                                                    *)

DnsChanges(h) ==
    /\ changes < MaxChanges /\ changes' = changes + 1
    /\ \E answer \in Answers[h] \ {dns[h]} : dns' = [dns EXCEPT ![h] = answer]
    /\ UNCHANGED <<rules, sets, updater, clean, faults, reloads>>

\* nftables.service replaces the table by its static content.
Reload ==
    /\ reloads < MaxReloads /\ reloads' = reloads + 1
    /\ rules' = {} /\ sets' = {} /\ clean' = FALSE
    /\ UNCHANGED <<dns, updater, changes, faults>>

\* A restart takes the updater down with it (partOf) and starts it again.
Restart ==
    /\ reloads < MaxReloads /\ reloads' = reloads + 1
    /\ rules' = {} /\ sets' = {} /\ clean' = TRUE
    /\ pc' = "resolve" /\ attempt' = 1 /\ conn' = 1 /\ proto' = 1
    /\ elements' = NoElements /\ found' = NothingFound
    /\ UNCHANGED <<dns, changes, faults>>

Resolve == Lookup \/ LookupFails
List    == ListChain \/ ListFails \/ SkipProtocol
Apply   == Batch \/ BatchRejected

Next == Start \/ Resolve \/ List \/ Apply \/ Reload \/ Restart
        \/ \E h \in Host : DnsChanges(h)

Spec == Init /\ [][Next]_vars

\* The timer elapses again and again and the process runs; nothing makes DNS
\* change, a lookup fail or nftables reload.
Fairness == WF_vars(Start) /\ WF_vars(Resolve) /\ WF_vars(List) /\ WF_vars(Apply)

FairSpec == Spec /\ Fairness

-----------------------------------------------------------------------------
(* Properties.                                                             *)

Element  == (Addr4 \cup Addr6) \X Ports

\* The name of a set carries what it was made for.
Elements == [Protocol -> [Family -> SUBSET Element]]
Name     == [proto : Protocol, fam : Family, hash : Elements]

TypeOK ==
    /\ \A h \in Host : dns[h] \in Answers[h]
    /\ rules \subseteq [handle : Nat, set : Name] /\ IsFiniteSet(rules)
    /\ sets \subseteq [name : Name, elems : SUBSET Element]
    /\ pc \in {"idle", "resolve", "list", "batch"}
    /\ attempt \in 1 .. MaxAttempts /\ conn \in 1 .. Len(Connections)
    /\ proto \in 1 .. Len(Protocols)
    /\ elements \in Elements
    /\ found \in [drop : {NoHandle, DropHandle}, handles : SUBSET Nat, names : SUBSET Name]
    /\ clean \in BOOLEAN
    /\ changes \in 0 .. MaxChanges /\ faults \in 0 .. MaxFaults /\ reloads \in 0 .. MaxReloads

\* The replacement is atomic (nftables-dns-update.py:131-169): no step of the
\* updater closes an address it has resolved as still allowed.
SwapIsAtomic ==
    [][Apply => \A p \in Protocol : Open(p) \cap Resolved(p) \subseteq Open(p)']_vars

\* A run in which nothing failed leaves, for every protocol it resolved, the way
\* open to exactly what it resolved (nftables-dns-update.py:116-174), however
\* much earlier runs, rejected batches and reloads left in the table.
RunOpensExactly ==
    [][\A p \in Protocol : pc = "batch" /\ p = This /\ Apply /\ clean'
                            => Open(p)' = Resolved(p)]_vars

\* What the connections of protocol p resolve to now.
Current(p) == UNION {UNION {(dns[Connections[n].host] \cap Addr[f]) \X Connections[n].ports : f \in Family} :
                       n \in {k \in 1 .. Len(Connections) : Connections[k].protocol = p}}

\* Once DNS and nftables are left alone, the chain follows DNS for good, whatever
\* run a reload or a failure hit (nftables-dns.nix:137-144).
ChainFollowsDns ==
    <>[](\A p \in Protocol : Current(p) # {} => Open(p) = Current(p))
=============================================================================
