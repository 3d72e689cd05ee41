-------------------------- MODULE NftablesDnsProofs --------------------------
(***************************************************************************)
(* TLAPS proofs about NftablesDns, for any connections, addresses, answers   *)
(* and bounds, with nftables reloaded or restarted between any two steps.   *)
(***************************************************************************)
EXTENDS NftablesDns, TLAPS, FiniteSetTheorems

-----------------------------------------------------------------------------
(* The inductive invariant.                                                 *)

\* A set holds what its name says, however often it is added again.
SetsOK == \A s \in sets : s.elems = s.name.hash[s.name.proto][s.name.fam]

\* A handle names one rule.
HandlesOK == \A r, q \in rules : r.handle = q.handle => r = q

\* What was listed is still there, or everything is gone.
FoundOK ==
    /\ pc = "batch" => \/ found = NothingFound
                       \/ found = find_drop_handle_and_old_sets(This)
                       \/ rules = {} /\ sets = {}
    /\ pc = "batch" /\ clean => found = find_drop_handle_and_old_sets(This)

IInv == TypeOK /\ SetsOK /\ HandlesOK /\ FoundOK

USE NftablesDnsAssumption

-----------------------------------------------------------------------------
(* Data.                                                                    *)

LEMMA ProtocolRange ==
    /\ Len(Protocols) = 2 /\ \A n \in 1 .. 2 : Protocols[n] \in Protocol
    /\ Family = {"ipv4", "ipv6"}
  BY DEF Protocols, Protocol, ToSet, Family

LEMMA NoElementsType == NoElements \in Elements
  BY DEF NoElements, Elements

\* One lookup adds elements of its protocol.
LEMMA CollectedType ==
  ASSUME elements \in Elements, conn \in 1 .. Len(Connections), NEW answer
  PROVE  Collected(answer, Connections[conn]) \in Elements
<1> DEFINE c == Connections[conn]
<1>1. c.protocol \in Protocol /\ c.ports \subseteq Ports
  BY DEF Ports
<1>2. \A f \in Family : (answer \cap Addr[f]) \X c.ports \subseteq Element
  BY <1>1 DEF Family, Addr, Element
<1> QED
  BY <1>1, <1>2 DEF Collected, Elements

\* There is a handle for the next rule.
LEMMA FreeHandleIsFree ==
  ASSUME NEW chain, IsFiniteSet(chain)
  PROVE  FreeHandle(chain) \in Nat /\ FreeHandle(chain) \notin Handles(chain)
<1> DEFINE C == Cardinality(chain)
           H == Handles(chain)
           f == [r \in chain |-> r.handle]
<1>1. C \in Nat
  BY FS_CardinalityType
<1>2. IsFiniteSet(H) /\ Cardinality(H) <= C
  <2>1. f \in Surjection(chain, H)
    BY DEF Surjection, Handles
  <2> QED
    BY <2>1, FS_Surjection
<1>3. \E n \in 2 .. C + 2 : n \notin H
  <2> SUFFICES ASSUME 2 .. C + 2 \subseteq H  PROVE FALSE
    OBVIOUS
  <2>1. Cardinality(2 .. C + 2) = C + 1
    BY <1>1, FS_Interval
  <2>2. Cardinality(2 .. C + 2) <= Cardinality(H)
    BY <1>2, FS_Subset
  <2>3. Cardinality(H) \in Nat
    BY <1>2, FS_CardinalityType
  <2> QED
    BY <1>1, <1>2, <2>1, <2>2, <2>3
<1>4. FreeHandle(chain) \in 2 .. C + 2 /\ FreeHandle(chain) \notin H
  BY <1>3 DEF FreeHandle
<1> QED
  BY <1>1, <1>4

\* A chain whose handles name one rule each.
Chain(c) ==
    /\ c \subseteq [handle : Nat, set : Name] /\ IsFiniteSet(c)
    /\ \A r, q \in c : r.handle = q.handle => r = q

LEMMA InsertKeepsChain ==
  ASSUME NEW chain, Chain(chain), NEW name \in Name
  PROVE  Chain(Insert(chain, name))
<1>1. FreeHandle(chain) \in Nat /\ FreeHandle(chain) \notin Handles(chain)
  BY FreeHandleIsFree DEF Chain
<1>2. IsFiniteSet(Insert(chain, name))
  BY FS_AddElement DEF Chain, Insert
<1> QED
  BY <1>1, <1>2 DEF Chain, Insert, Handles

LEMMA NewNameType ==
  ASSUME elements \in Elements, proto \in 1 .. 2, NEW f \in Family
  PROVE  NewName(f) \in Name
  BY ProtocolRange DEF NewName, SetName, Name, This

LEMMA NewRulesAreAChain ==
  ASSUME TypeOK, HandlesOK
  PROVE  Chain(KeptRules) /\ Chain(NewRules)
<1>1. IsFiniteSet(KeptRules)
  BY FS_Subset DEF TypeOK, KeptRules
<1>2. Chain(KeptRules)
  BY <1>1 DEF TypeOK, HandlesOK, KeptRules, Chain
<1>3. NewName("ipv4") \in Name /\ NewName("ipv6") \in Name
  BY NewNameType, ProtocolRange DEF TypeOK
<1>4. Chain(NewRule(KeptRules, "ipv4"))
  BY <1>2, <1>3, InsertKeepsChain DEF NewRule
<1> QED
  BY <1>2, <1>3, <1>4, InsertKeepsChain DEF NewRules, NewRule

LEMMA NewSetsType ==
  ASSUME TypeOK
  PROVE  NewSets \subseteq [name : Name, elems : SUBSET Element]
<1>1. This \in Protocol
  BY ProtocolRange DEF TypeOK, This
<1>2. \A f \in Family : NewName(f) \in Name
  BY NewNameType, ProtocolRange DEF TypeOK
<1>3. KeptSets \subseteq [name : Name, elems : SUBSET Element]
  BY DEF TypeOK, KeptSets
<1>4. \A f \in Family : ElementsOf(NewName(f), KeptSets) \subseteq Element
  BY <1>3 DEF ElementsOf
<1>5. \A f \in Family : elements[This][f] \subseteq Element
  BY <1>1 DEF TypeOK, Elements
<1>6. \A f \in Family :
        [name |-> NewName(f), elems |-> ElementsOf(NewName(f), KeptSets) \cup elements[This][f]]
          \in [name : Name, elems : SUBSET Element]
  BY <1>2, <1>4, <1>5
<1> QED
  BY <1>3, <1>6 DEF NewSets

-----------------------------------------------------------------------------
(* Types.                                                                   *)

\* A counter below its bound may be counted up.
LEMMA Counted ==
  ASSUME NEW n, NEW max \in Nat, n \in 0 .. max, n < max
  PROVE  n + 1 \in 0 .. max
OBVIOUS

LEMMA InitType == Init => TypeOK
<1> SUFFICES ASSUME Init  PROVE TypeOK
  OBVIOUS
<1>1. IsFiniteSet({})
  BY FS_EmptySet
<1>2. found \in [drop : {NoHandle, DropHandle}, handles : SUBSET Nat, names : SUBSET Name]
  BY DEF Init, NothingFound
<1>3. /\ attempt \in 1 .. MaxAttempts /\ conn \in 1 .. Len(Connections)
      /\ proto \in 1 .. Len(Protocols)
      /\ changes \in 0 .. MaxChanges /\ faults \in 0 .. MaxFaults /\ reloads \in 0 .. MaxReloads
  BY ProtocolRange DEF Init
<1> QED
  BY <1>1, <1>2, <1>3, NoElementsType DEF Init, TypeOK

LEMMA AfterLookupType ==
  ASSUME TypeOK, NEW answer, AfterLookup(answer)
  PROVE  /\ pc' \in {"idle", "resolve", "list", "batch"}
         /\ attempt' \in 1 .. MaxAttempts /\ conn' \in 1 .. Len(Connections)
         /\ proto' \in 1 .. Len(Protocols) /\ elements' \in Elements
         /\ found' \in [drop : {NoHandle, DropHandle}, handles : SUBSET Nat, names : SUBSET Name]
<1>1. Collected(answer, Connections[conn]) \in Elements
  BY CollectedType DEF TypeOK
<1> QED
  BY <1>1, ProtocolRange, NoElementsType DEF TypeOK, AfterLookup, Idle, NothingFound

LEMMA NextProtocolType ==
  ASSUME TypeOK, NextProtocol
  PROVE  /\ pc' \in {"idle", "resolve", "list", "batch"}
         /\ attempt' \in 1 .. MaxAttempts /\ conn' \in 1 .. Len(Connections)
         /\ proto' \in 1 .. Len(Protocols) /\ elements' \in Elements
         /\ found' \in [drop : {NoHandle, DropHandle}, handles : SUBSET Nat, names : SUBSET Name]
  BY ProtocolRange, NoElementsType DEF TypeOK, NextProtocol, Idle, NothingFound

LEMMA NextType == TypeOK /\ HandlesOK /\ [Next]_vars => TypeOK'
<1> SUFFICES ASSUME TypeOK, HandlesOK, [Next]_vars  PROVE TypeOK'
  OBVIOUS
<1>1. CASE Start
  BY <1>1 DEF TypeOK, Start, budget
<1>2. CASE Lookup
  BY <1>2, AfterLookupType DEF TypeOK, Lookup, budget
<1>3. CASE LookupFails
  BY <1>3, AfterLookupType, Counted DEF TypeOK, LookupFails
<1>4. CASE ListChain
  <2>1. found' \in [drop : {NoHandle, DropHandle}, handles : SUBSET Nat, names : SUBSET Name]
    BY <1>4 DEF TypeOK, ListChain, find_drop_handle_and_old_sets, Handles, Of
  <2> QED
    BY <1>4, <2>1 DEF TypeOK, ListChain, budget
<1>5. CASE ListFails
  BY <1>5, Counted DEF TypeOK, ListFails, NothingFound
<1>6. CASE SkipProtocol
  BY <1>6, NextProtocolType DEF TypeOK, SkipProtocol, budget
<1>7. CASE Batch
  BY <1>7, NextProtocolType, NewRulesAreAChain, NewSetsType DEF TypeOK, Chain, Batch, budget
<1>8. CASE BatchRejected
  BY <1>8, NextProtocolType DEF TypeOK, BatchRejected, budget
<1>9. CASE Reload
  BY <1>9, FS_EmptySet, Counted DEF TypeOK, Reload, updater
<1>10. CASE Restart
  BY <1>10, FS_EmptySet, Counted, ProtocolRange, NoElementsType DEF TypeOK, Restart, NothingFound
<1>11. CASE \E h \in Host : DnsChanges(h)
  BY <1>11, Counted DEF TypeOK, DnsChanges, updater
<1>12. CASE UNCHANGED vars
  BY <1>12 DEF TypeOK, vars, updater, budget
<1> QED
  BY <1>1, <1>2, <1>3, <1>4, <1>5, <1>6, <1>7, <1>8, <1>9, <1>10, <1>11, <1>12
  DEF Next, Resolve, List, Apply

-----------------------------------------------------------------------------
(* The batch.                                                               *)

\* An accepted batch was built from what is there, or from a failed listing.
LEMMA AcceptedIsListed ==
  ASSUME FoundOK, TypeOK, pc = "batch", Accepted
  PROVE  found = NothingFound \/ found = find_drop_handle_and_old_sets(This)
<1> SUFFICES ASSUME rules = {}, sets = {}
             PROVE  found = NothingFound \/ found = find_drop_handle_and_old_sets(This)
  BY DEF FoundOK
<1>1. found.handles = {} /\ found.names = {}
  BY DEF Accepted, Handles, SetsNamed
<1>2. find_drop_handle_and_old_sets(This) = [drop |-> DropHandle, handles |-> {}, names |-> {}]
  BY DEF find_drop_handle_and_old_sets, Handles, Of
<1>3. found = [drop |-> found.drop, handles |-> found.handles, names |-> found.names]
  BY DEF TypeOK
<1> QED
  BY <1>1, <1>2, <1>3 DEF TypeOK, NothingFound

LEMMA BatchSetsOK ==
  ASSUME TypeOK, SetsOK, Batch
  PROVE  SetsOK'
<1> SUFFICES ASSUME NEW s \in NewSets
             PROVE  s.elems = s.name.hash[s.name.proto][s.name.fam]
  BY DEF Batch, SetsOK
<1>1. CASE s \in KeptSets
  BY <1>1 DEF KeptSets, SetsOK
<1>2. ASSUME NEW f \in Family,
             s = [name |-> NewName(f),
                  elems |-> ElementsOf(NewName(f), KeptSets) \cup elements[This][f]]
      PROVE  s.elems = s.name.hash[s.name.proto][s.name.fam]
  <2>1. NewName(f).hash[NewName(f).proto][NewName(f).fam] = elements[This][f]
    BY DEF NewName, SetName
  <2>2. \A t \in KeptSets : t.name = NewName(f) => t.elems = elements[This][f]
    BY <2>1 DEF KeptSets, SetsOK
  <2>3. ElementsOf(NewName(f), KeptSets) \subseteq elements[This][f]
    BY <2>2 DEF ElementsOf
  <2> QED
    BY <1>2, <2>1, <2>3
<1> QED
  BY <1>1, <1>2 DEF NewSets

-----------------------------------------------------------------------------
(* The invariant.                                                           *)

LEMMA InitIInv == Init => IInv
  BY InitType DEF Init, IInv, SetsOK, HandlesOK, FoundOK

LEMMA NextSetsOK == IInv /\ [Next]_vars => SetsOK'
<1> SUFFICES ASSUME IInv, [Next]_vars  PROVE SetsOK'
  OBVIOUS
<1>1. CASE Batch
  BY <1>1, BatchSetsOK DEF IInv
<1>2. CASE Reload \/ Restart
  BY <1>2 DEF Reload, Restart, SetsOK
<1>3. CASE UNCHANGED sets
  BY <1>3 DEF IInv, SetsOK
<1> QED
  BY <1>1, <1>2, <1>3 DEF Next, Start, Resolve, Lookup, LookupFails, List, ListChain, ListFails,
     SkipProtocol, Apply, BatchRejected, DnsChanges, vars

LEMMA NextHandlesOK == IInv /\ [Next]_vars => HandlesOK'
<1> SUFFICES ASSUME IInv, [Next]_vars  PROVE HandlesOK'
  OBVIOUS
<1>1. CASE Batch
  BY <1>1, NewRulesAreAChain DEF IInv, Batch, Chain, HandlesOK
<1>2. CASE Reload \/ Restart
  BY <1>2 DEF Reload, Restart, HandlesOK
<1>3. CASE UNCHANGED rules
  BY <1>3 DEF IInv, HandlesOK
<1> QED
  BY <1>1, <1>2, <1>3 DEF Next, Start, Resolve, Lookup, LookupFails, List, ListChain, ListFails,
     SkipProtocol, Apply, BatchRejected, DnsChanges, vars

LEMMA NextFoundOK == IInv /\ [Next]_vars => FoundOK'
<1> SUFFICES ASSUME IInv, [Next]_vars, pc' = "batch"
             PROVE  /\ \/ found' = NothingFound
                       \/ found' = find_drop_handle_and_old_sets(This)'
                       \/ rules' = {} /\ sets' = {}
                    /\ clean' => found' = find_drop_handle_and_old_sets(This)'
  BY DEF FoundOK
<1> USE DEF find_drop_handle_and_old_sets, Of, This
<1>1. CASE Start \/ Resolve \/ SkipProtocol \/ Apply \/ Restart
  BY <1>1 DEF Start, Resolve, Lookup, LookupFails, AfterLookup, Idle, SkipProtocol, NextProtocol,
     Apply, Batch, BatchRejected, Restart, IInv, TypeOK
<1>2. CASE ListChain
  BY <1>2 DEF ListChain
<1>3. CASE ListFails
  BY <1>3 DEF ListFails
<1>4. CASE Reload
  BY <1>4 DEF Reload
<1>5. CASE (\E h \in Host : DnsChanges(h)) \/ UNCHANGED vars
  <2>1. UNCHANGED <<rules, sets, pc, proto, found, clean>>
    BY <1>5 DEF DnsChanges, vars, updater
  <2> QED
    BY <2>1 DEF IInv, FoundOK
<1> QED
  BY <1>1, <1>2, <1>3, <1>4, <1>5 DEF Next, List

\* The invariant holds of every run, whatever fails and whenever nftables is
\* reloaded.
THEOREM SpecIInv == Spec => []IInv
<1>1. IInv /\ [Next]_vars => IInv'
  BY NextType, NextSetsOK, NextHandlesOK, NextFoundOK DEF IInv
<1> QED
  BY InitIInv, <1>1, PTL DEF Spec

\* Every variable keeps its type.
THEOREM SpecTypeOK == Spec => []TypeOK
<1>1. IInv => TypeOK
  BY DEF IInv
<1> QED
  BY <1>1, SpecIInv, PTL

-----------------------------------------------------------------------------
(* What the chain lets out.                                                 *)

\* A batch leaves the rules and sets of the other protocol alone.
LEMMA BatchOther ==
  ASSUME IInv, Batch, NEW p \in Protocol, p # This
  PROVE  Open(p) \subseteq Open(p)'
<1> SUFFICES ASSUME NEW r \in Of(p)
             PROVE  r \in Of(p)' /\ ElementsOf(r.set, sets) \subseteq ElementsOf(r.set, sets')
  BY DEF Open
<1>1. found = NothingFound \/ found = find_drop_handle_and_old_sets(This)
  BY AcceptedIsListed DEF Batch, IInv
<1>2. r.handle \notin found.handles
  BY <1>1 DEF IInv, HandlesOK, Of, NothingFound, find_drop_handle_and_old_sets, Handles
<1>3. r \in Of(p)'
  BY <1>2 DEF Of, Batch, KeptRules, NewRules, NewRule, Insert
<1>4. r.set \notin found.names
  BY <1>1 DEF Of, NothingFound, find_drop_handle_and_old_sets
<1>5. \A f \in Family : r.set # NewName(f)
  BY DEF Of, NewName, SetName
<1>6. \A s \in sets : s.name = r.set => s \in NewSets
  BY <1>4, <1>5 DEF KeptSets, NewSets
<1> QED
  BY <1>3, <1>6 DEF ElementsOf, Batch

\* A rule for a family reaches the chain once its drop rule was found.
LEMMA BatchAdds ==
  ASSUME found.drop # NoHandle, NEW f \in Family, elements[This][f] # {}
  PROVE  \E r \in NewRules : r.set = NewName(f)
<1> DEFINE rule(chain) == [handle |-> FreeHandle(chain), set |-> NewName(f)]
<1>1. \A chain : rule(chain) \in NewRule(chain, f) /\ rule(chain).set = NewName(f)
  BY DEF NewRule, Insert
<1>2. \A chain : chain \subseteq NewRule(chain, "ipv6")
  BY DEF NewRule, Insert
<1> QED
  BY <1>1, <1>2 DEF NewRules, Family

LEMMA NewSetHolds ==
  ASSUME NEW f \in Family
  PROVE  elements[This][f] \subseteq ElementsOf(NewName(f), NewSets)
<1> DEFINE s == [name |-> NewName(f),
                 elems |-> ElementsOf(NewName(f), KeptSets) \cup elements[This][f]]
<1>1. s \in NewSets
  BY DEF NewSets
<1> QED
  BY <1>1 DEF ElementsOf

\* After an accepted batch of a good listing all that was resolved is open.
LEMMA BatchOpens ==
  ASSUME IInv, Batch, found.drop # NoHandle, NEW p, p = This
  PROVE  Resolved(p) \subseteq Open(p)'
<1> SUFFICES ASSUME NEW f \in Family, NEW e \in elements[p][f]
             PROVE  \E r \in Of(p)' : e \in ElementsOf(r.set, sets')
  BY DEF Resolved, Open
<1>1. PICK r \in NewRules : r.set = NewName(f)
  BY BatchAdds
<1>2. r.set.proto = p
  BY <1>1 DEF NewName, SetName
<1>3. e \in ElementsOf(r.set, NewSets)
  BY <1>1, NewSetHolds
<1> QED
  BY <1>1, <1>2, <1>3 DEF Batch, Of

\* After a batch of a listing nothing failed in, nothing else is.
LEMMA BatchOpensOnly ==
  ASSUME IInv, Batch, found = find_drop_handle_and_old_sets(This), NEW p, p = This
  PROVE  Open(p)' \subseteq Resolved(p)
<1> SUFFICES ASSUME NEW r \in Of(p)', NEW e \in ElementsOf(r.set, sets')
             PROVE  e \in Resolved(p)
  BY DEF Open
<1>1. r \in NewRules /\ r.set.proto = p
  BY DEF Batch, Of
<1>2. r \notin KeptRules
  BY <1>1 DEF KeptRules, find_drop_handle_and_old_sets, Handles, Of
<1>3. PICK f \in Family : r.set = NewName(f)
  <2>1. r.set = NewName("ipv4") \/ r.set = NewName("ipv6")
    BY <1>1, <1>2 DEF NewRules, NewRule, Insert
  <2> QED
    BY <2>1 DEF Family
<1>4. PICK s \in NewSets : s.name = NewName(f) /\ e \in s.elems
  BY <1>3 DEF ElementsOf, Batch
<1>5. s.elems = elements[p][f]
  BY <1>4, BatchSetsOK DEF Batch, IInv, SetsOK, NewName, SetName
<1> QED
  BY <1>4, <1>5 DEF Resolved

\* The replacement is atomic: no step of the updater closes what it has resolved
\* as still allowed (nftables-dns-update.py:131-169).
THEOREM SpecSwapIsAtomic == Spec => SwapIsAtomic
<1>1. ASSUME IInv, Apply, NEW p \in Protocol
      PROVE  Open(p) \cap Resolved(p) \subseteq Open(p)'
  <2>1. CASE BatchRejected
    BY <2>1 DEF BatchRejected, Open, Of
  <2>2. CASE Batch /\ p # This
    BY <1>1, <2>2, BatchOther
  <2>3. CASE Batch /\ p = This /\ found.drop # NoHandle
    BY <1>1, <2>3, BatchOpens
  <2>4. CASE Batch /\ found.drop = NoHandle
    <3>1. found = NothingFound
      BY <1>1, <2>4, AcceptedIsListed
      DEF Batch, IInv, find_drop_handle_and_old_sets, DropHandle, NoHandle
    <3>2. rules' = rules
      BY <2>4, <3>1 DEF Batch, NewRules, NewRule, KeptRules, NothingFound
    <3>3. \A s \in sets : \E t \in sets' : t.name = s.name /\ s.elems \subseteq t.elems
      <4> SUFFICES ASSUME NEW s \in sets
                   PROVE  \E t \in NewSets : t.name = s.name /\ s.elems \subseteq t.elems
        BY <2>4 DEF Batch
      <4>1. s \in KeptSets
        BY <3>1 DEF KeptSets, NothingFound
      <4>2. CASE \A f \in Family : s.name # NewName(f)
        BY <4>1, <4>2 DEF NewSets
      <4>3. ASSUME NEW f \in Family, s.name = NewName(f)
            PROVE  \E t \in NewSets : t.name = s.name /\ s.elems \subseteq t.elems
        <5> DEFINE t == [name |-> NewName(f),
                         elems |-> ElementsOf(NewName(f), KeptSets) \cup elements[This][f]]
        <5>1. t \in NewSets
          BY DEF NewSets
        <5>2. s.elems \subseteq ElementsOf(NewName(f), KeptSets)
          BY <4>1, <4>3 DEF ElementsOf
        <5> QED
          BY <4>3, <5>1, <5>2
      <4> QED
        BY <4>2, <4>3
    <3> QED
      BY <3>2, <3>3 DEF Open, Of, ElementsOf
  <2> QED
    BY <1>1, <2>1, <2>2, <2>3, <2>4 DEF Apply
<1>2. IInv /\ [Next]_vars
        => [Apply => \A p \in Protocol : Open(p) \cap Resolved(p) \subseteq Open(p)']_vars
  BY <1>1
<1> QED
  BY <1>2, SpecIInv, PTL DEF Spec, SwapIsAtomic

\* A run in which nothing failed opens exactly what it resolved
\* (nftables-dns-update.py:116-174).
THEOREM SpecRunOpensExactly == Spec => RunOpensExactly
<1>1. ASSUME IInv, NEW p \in Protocol, pc = "batch", p = This, Apply, clean'
      PROVE  Open(p)' = Resolved(p)
  <2>1. Batch /\ clean
    BY <1>1 DEF Apply, Batch, BatchRejected
  <2>2. found = find_drop_handle_and_old_sets(This)
    BY <1>1, <2>1 DEF IInv, FoundOK
  <2>3. found.drop # NoHandle
    BY <2>2 DEF find_drop_handle_and_old_sets, DropHandle, NoHandle
  <2>4. Resolved(p) \subseteq Open(p)'
    BY <1>1, <2>1, <2>3, BatchOpens
  <2>5. Open(p)' \subseteq Resolved(p)
    BY <1>1, <2>1, <2>2, BatchOpensOnly
  <2> QED
    BY <2>4, <2>5
<1>2. IInv /\ [Next]_vars
        => [\A p \in Protocol : pc = "batch" /\ p = This /\ Apply /\ clean'
                                  => Open(p)' = Resolved(p)]_vars
  BY <1>1
<1> QED
  BY <1>2, SpecIInv, PTL DEF Spec, RunOpensExactly
=============================================================================
