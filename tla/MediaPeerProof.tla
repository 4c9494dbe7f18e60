--------------------------- MODULE MediaPeerProof ---------------------------
(***************************************************************************)
(* Proofs about MediaPeer, for any endpoints, addresses and translations.  *)
(***************************************************************************)
EXTENDS MediaPeer, TLAPS

\* A task at its recv_from is in no step of a latch.
LEMMA ReceivingIsIdle == Receiving.step = "receive"
  BY DEF Receiving

\* Steps that leave the maps, the addresses, the UDP task and the removals
\* alone.
LEMMA ClientStep ==
    ASSUME IInv, TypeOK', UNCHANGED <<by_ufrag, by_addr, address, udp, removal>>
    PROVE  IInv'
  BY DEF IInv, ListedAreNotRemoved, LatchIsFree, AddressesAreFound, RemovalReadsOwn, Latching

LEMMA InitIInv == Init => IInv
  BY DEF Init, IInv, TypeOK, ListedAreNotRemoved, LatchIsFree, AddressesAreFound,
         RemovalReadsOwn, Latching, NotRemoved, Receiving

LEMMA NextTypeOK == IInv /\ [Next]_vars => TypeOK'
  <1> SUFFICES ASSUME IInv, [Next]_vars PROVE TypeOK'
    OBVIOUS
  <1>a. TypeOK
    BY DEF IInv
  <1> USE DEF server, clients
  <1>1. ASSUME NEW e \in Endpoint, Stop(e) \/ Vanish(e) PROVE TypeOK'
    BY <1>a, <1>1 DEF TypeOK, Stop, Vanish
  <1>2. ASSUME NEW e \in Endpoint, NEW a \in Addr, Rebind(e, a) PROVE TypeOK'
    BY <1>a, <1>2 DEF TypeOK, Rebind, MoveTo
  <1>3. ASSUME NEW e \in Endpoint, NEW a \in Addr, Insert(e, a) PROVE TypeOK'
    BY <1>a, <1>3 DEF TypeOK, Insert, MoveTo
  <1>4. ASSUME NEW e \in Endpoint, RemoveUnlists(e) \/ ReapUnlists(e) PROVE TypeOK'
    <2>1. RemoveUnlists(e)
      BY <1>4 DEF ReapUnlists
    <2>2. removal[e] = NotRemoved
      BY <2>1 DEF IInv, ListedAreNotRemoved, RemoveUnlists
    <2>3. QED
      BY <1>a, <2>1, <2>2 DEF TypeOK, RemoveUnlists, NotRemoved
  <1>5. ASSUME NEW e \in Endpoint, RemoveReads(e) PROVE TypeOK'
    BY <1>a, <1>5 DEF TypeOK, RemoveReads
  <1>6. ASSUME NEW e \in Endpoint, RemoveClears(e) PROVE TypeOK'
    BY <1>a, <1>6 DEF TypeOK, RemoveClears
  <1>7. ASSUME NEW e \in Endpoint, StunKnown(e) PROVE TypeOK'
    BY <1>a, <1>7 DEF TypeOK, StunKnown, Touch
  <1>8. ASSUME NEW e \in Endpoint, StunLatches(e) PROVE TypeOK'
    BY <1>a, <1>8 DEF TypeOK, StunLatches
  <1>9. ASSUME NEW e \in Endpoint, StunUnknown(e) PROVE TypeOK'
    BY <1>a, <1>9 DEF TypeOK, StunUnknown
  <1>10. CASE PeriodEnds
    BY <1>a, <1>10 DEF TypeOK, PeriodEnds
  <1>11. CASE LatchAddresses
    <2>1. udp \in [step: {"address", "insert"}, ep: Endpoint, addr: Addr]
      BY <1>a, <1>11 DEF TypeOK, LatchAddresses, Receiving
    <2>2. QED
      BY <1>a, <1>11, <2>1 DEF TypeOK, LatchAddresses, Touch
  <1>12. CASE LatchInserts
    <2>1. udp \in [step: {"address", "insert"}, ep: Endpoint, addr: Addr]
      BY <1>a, <1>12 DEF TypeOK, LatchInserts, Receiving
    <2>2. QED
      BY <1>a, <1>12, <2>1 DEF TypeOK, LatchInserts
  <1>13. CASE UNCHANGED vars
    BY <1>a, <1>13 DEF TypeOK, vars
  <1>14. QED
    BY <1>1, <1>2, <1>3, <1>4, <1>5, <1>6, <1>7, <1>8, <1>9, <1>10, <1>11, <1>12, <1>13
    DEF Next

LEMMA NextIInv == IInv /\ [Next]_vars => IInv'
  <1> SUFFICES ASSUME IInv, [Next]_vars PROVE IInv'
    OBVIOUS
  <1>t. TypeOK /\ TypeOK'
    BY NextTypeOK DEF IInv
  <1>i. ListedAreNotRemoved /\ LatchIsFree /\ AddressesAreFound /\ RemovalReadsOwn
    BY DEF IInv
  <1> USE DEF server, clients
  <1>1. ASSUME NEW e \in Endpoint, Stop(e) \/ Vanish(e) PROVE IInv'
    BY <1>1, <1>t, ClientStep DEF Stop, Vanish
  <1>2. ASSUME NEW e \in Endpoint, NEW a \in Addr, Rebind(e, a) PROVE IInv'
    BY <1>2, <1>t, ClientStep DEF Rebind
  <1>3. ASSUME NEW e \in Endpoint, NEW a \in Addr, Insert(e, a) PROVE IInv'
    BY <1>3, <1>t, <1>i DEF Insert, IInv, ListedAreNotRemoved, LatchIsFree,
       AddressesAreFound, RemovalReadsOwn, Latching
  <1>4. ASSUME NEW e \in Endpoint, RemoveUnlists(e) \/ ReapUnlists(e) PROVE IInv'
    <2>1. RemoveUnlists(e)
      BY <1>4 DEF ReapUnlists
    <2>2. removal[e].step = "none"
      BY <1>i, <2>1 DEF ListedAreNotRemoved, RemoveUnlists, NotRemoved
    <2>3. \A f \in Endpoint : f # e => removal'[f] = removal[f]
      BY <1>t, <2>1 DEF TypeOK, RemoveUnlists
    <2>4. removal'[e].step = "read"
      BY <1>t, <2>1 DEF TypeOK, RemoveUnlists
    <2>5. QED
      BY <1>t, <1>i, <2>1, <2>2, <2>3, <2>4 DEF RemoveUnlists, IInv, ListedAreNotRemoved,
         LatchIsFree, AddressesAreFound, RemovalReadsOwn, Latching
  <1>5. ASSUME NEW e \in Endpoint, RemoveReads(e) PROVE IInv'
    <2>1. \A f \in Endpoint : f # e => removal'[f] = removal[f]
      BY <1>t, <1>5 DEF TypeOK, RemoveReads
    <2>2. e \notin by_ufrag
      BY <1>i, <1>5 DEF ListedAreNotRemoved, RemoveReads, NotRemoved
    <2>3. \/ removal'[e].step = "done" /\ address[e] = NoAddr
          \/ removal'[e].step = "clear" /\ removal'[e].addr = address[e]
                /\ address[e] # NoAddr
      BY <1>t, <1>5 DEF TypeOK, RemoveReads
    <2>4. address[e] # NoAddr =>
          \/ by_addr[address[e]] = e
          \/ Latching(e) /\ udp.addr = address[e]
      BY <1>5, <1>i DEF RemoveReads, AddressesAreFound, LatchIsFree, Latching
    <2>5. QED
      BY <1>t, <1>i, <1>5, <2>1, <2>2, <2>3, <2>4 DEF RemoveReads, IInv, ListedAreNotRemoved,
         LatchIsFree, AddressesAreFound, RemovalReadsOwn, Latching
  <1>6. ASSUME NEW e \in Endpoint, RemoveClears(e) PROVE IInv'
    <2> DEFINE r == removal[e].addr
    <2>1. r \in Addr
      BY <1>t, <1>6 DEF TypeOK, RemoveClears
    <2>2. /\ \A f \in Endpoint : f # e => removal'[f] = removal[f]
          /\ removal'[e].step = "done"
      BY <1>t, <1>6 DEF TypeOK, RemoveClears
    <2>3. /\ by_addr'[r] = NoEndpoint
          /\ \A a \in Addr : a # r => by_addr'[a] = by_addr[a]
      BY <1>t, <1>6, <2>1 DEF TypeOK, RemoveClears
    <2>4. e \notin by_ufrag
      BY <1>i, <1>6 DEF ListedAreNotRemoved, RemoveClears, NotRemoved
    <2>5. \A f \in Endpoint : by_addr[r] = f => f = e
      <3>1. CASE by_addr[r] = e
        BY <3>1
      <3>2. CASE Latching(e) /\ udp.addr = r
        BY <1>i, <3>2, EndpointAssumption DEF LatchIsFree, Latching, Receiving
      <3>3. QED
        BY <1>i, <1>6, <3>1, <3>2 DEF RemovalReadsOwn, RemoveClears
    <2>6. ListedAreNotRemoved'
      BY <1>i, <1>6, <2>2, <2>4, <1>t DEF ListedAreNotRemoved, RemoveClears, TypeOK
    <2>7. LatchIsFree'
      BY <1>i, <1>6, <2>3, <1>t DEF LatchIsFree, RemoveClears, TypeOK, Receiving
    <2>8. AddressesAreFound'
      BY <1>i, <1>6, <2>2, <2>3, <2>5, <1>t
      DEF AddressesAreFound, RemoveClears, TypeOK, Latching
    <2>9. RemovalReadsOwn'
      BY <1>i, <1>6, <2>2, <2>3, <2>5, <1>t
      DEF RemovalReadsOwn, RemoveClears, TypeOK, Latching
    <2>10. QED
      BY <1>t, <2>6, <2>7, <2>8, <2>9 DEF IInv
  <1>7. ASSUME NEW e \in Endpoint, StunKnown(e) \/ StunUnknown(e) PROVE IInv'
    BY <1>7, <1>t, ClientStep DEF StunKnown, StunUnknown
  <1>8. ASSUME NEW e \in Endpoint, StunLatches(e) PROVE IInv'
    <2>1. /\ ~ \E f \in Endpoint : Latching(f)
          /\ ~ \E f \in Endpoint : Latching(f)'
      BY <1>8 DEF StunLatches, Latching, Receiving
    <2>2. QED
      BY <1>t, <1>i, <1>8, <2>1 DEF StunLatches, IInv, ListedAreNotRemoved,
         LatchIsFree, AddressesAreFound, RemovalReadsOwn
  <1>9. CASE PeriodEnds
    BY <1>9, <1>t, ClientStep DEF PeriodEnds
  <1>10. CASE LatchAddresses
    <2>1. udp \in [step: {"address"}, ep: Endpoint, addr: Addr]
      BY <1>t, <1>10 DEF TypeOK, LatchAddresses, Receiving
    <2>2. /\ address'[udp.ep] = udp.addr
          /\ \A f \in Endpoint : f # udp.ep => address'[f] = address[f]
      BY <1>t, <1>10, <2>1 DEF TypeOK, LatchAddresses
    <2>3. udp'.step = "insert" /\ udp'.ep = udp.ep /\ udp'.addr = udp.addr
      BY <1>10, <2>1 DEF LatchAddresses
    <2>4. \A f \in Endpoint : ~Latching(f) /\ (Latching(f)' <=> f = udp.ep)
      BY <2>1, <2>3 DEF Latching
    <2>5. by_addr[udp.addr] = NoEndpoint
      BY <1>i, <2>1 DEF LatchIsFree, Receiving
    <2>6. QED
      BY <1>t, <1>i, <1>10, <2>1, <2>2, <2>3, <2>4, <2>5 DEF LatchAddresses, IInv,
         ListedAreNotRemoved, LatchIsFree, AddressesAreFound, RemovalReadsOwn
  <1>11. CASE LatchInserts
    <2>1. udp \in [step: {"insert"}, ep: Endpoint, addr: Addr]
      BY <1>t, <1>11 DEF TypeOK, LatchInserts, Receiving
    <2>2. /\ by_addr'[udp.addr] = udp.ep
          /\ \A a \in Addr : a # udp.addr => by_addr'[a] = by_addr[a]
      BY <1>t, <1>11, <2>1 DEF TypeOK, LatchInserts
    <2>3. by_addr[udp.addr] = NoEndpoint /\ address[udp.ep] = udp.addr
      BY <1>i, <2>1 DEF LatchIsFree, Receiving
    <2>4. \A f \in Endpoint : ~Latching(f)' /\ (Latching(f) <=> f = udp.ep)
      BY <1>11, <2>1 DEF Latching, LatchInserts, Receiving
    <2>5. ListedAreNotRemoved' /\ LatchIsFree'
      BY <1>11, <1>i DEF LatchInserts, ListedAreNotRemoved, LatchIsFree, Receiving
    <2>6. AddressesAreFound'
      BY <1>t, <1>i, <1>11, <2>1, <2>2, <2>3, <2>4, EndpointAssumption
      DEF LatchInserts, AddressesAreFound, TypeOK
    <2>7. RemovalReadsOwn'
      BY <1>t, <1>i, <1>11, <2>1, <2>2, <2>3, <2>4, EndpointAssumption
      DEF LatchInserts, RemovalReadsOwn, TypeOK
    <2>8. QED
      BY <1>t, <2>5, <2>6, <2>7 DEF IInv
  <1>12. CASE UNCHANGED vars
    BY <1>12, <1>t, ClientStep DEF vars
  <1>13. QED
    BY <1>1, <1>2, <1>3, <1>4, <1>5, <1>6, <1>7, <1>8, <1>9, <1>10, <1>11, <1>12
    DEF Next

-----------------------------------------------------------------------------
\* The invariant holds however latches, removals and moves interleave.
THEOREM Invariance == Spec => []IInv
  BY InitIInv, NextIInv, PTL DEF Spec

\* The two maps agree on every listed endpoint.
THEOREM ListedAreFound == Spec => []LatchedAreFound
  <1>1. IInv => LatchedAreFound
    BY DEF IInv, TypeOK, ListedAreNotRemoved, AddressesAreFound, LatchedAreFound, NotRemoved
  <1>2. QED
    BY <1>1, Invariance, PTL

\* No two listed endpoints have one address, although nothing compares them.
THEOREM AddressesAreDistinct == Spec => []OneEndpointPerAddress
  <1>1. ASSUME IInv PROVE OneEndpointPerAddress
    <2> SUFFICES ASSUME NEW e \in by_ufrag, NEW f \in by_ufrag,
                        address[e] = address[f], address[e] # NoAddr
                 PROVE  e = f
      BY DEF OneEndpointPerAddress
    <2>1. e \in Endpoint /\ f \in Endpoint
      BY <1>1 DEF IInv, TypeOK
    <2>2. removal[e].step # "done" /\ removal[f].step # "done"
      BY <1>1 DEF IInv, ListedAreNotRemoved, NotRemoved
    <2>3. \A g \in {e, f} : by_addr[address[g]] = g \/ Latching(g)
      BY <1>1, <2>1, <2>2 DEF IInv, AddressesAreFound
    <2>4. \A g \in {e, f} : Latching(g) => by_addr[address[g]] = NoEndpoint
      BY <1>1, ReceivingIsIdle DEF IInv, LatchIsFree, Latching
    <2>5. QED
      BY <2>1, <2>3, <2>4, EndpointAssumption DEF Latching
  <1>2. QED
    BY <1>1, Invariance, PTL

\* A removal never takes the place another endpoint has in by_addr.
THEOREM RemovalsAreOwn == Spec => RemovalIsOwn
  <1> DEFINE Own == \A e \in Endpoint :
                        RemoveClears(e) => by_addr[removal[e].addr] \in {e, NoEndpoint}
  <1>1. IInv => Own
    <2> SUFFICES ASSUME IInv, NEW e \in Endpoint, RemoveClears(e)
                 PROVE  by_addr[removal[e].addr] \in {e, NoEndpoint}
      OBVIOUS
    <2>1. \/ by_addr[removal[e].addr] = e
          \/ Latching(e) /\ udp.addr = removal[e].addr
      BY DEF IInv, RemovalReadsOwn, RemoveClears
    <2>2. QED
      BY <2>1, ReceivingIsIdle DEF IInv, LatchIsFree, Latching
  <1>2. IInv /\ [Next]_vars => [Own]_vars
    BY <1>1
  <1>3. Spec => [][Own]_vars
    BY <1>2, Invariance, PTL DEF Spec
  <1>4. QED
    BY <1>3 DEF RemovalIsOwn

\* The maps and the tasks' positions are always of their types.
THEOREM TypeCorrect == Spec => []TypeOK
  <1>1. IInv => TypeOK
    BY DEF IInv
  <1>2. QED
    BY <1>1, Invariance, PTL

-----------------------------------------------------------------------------
(* Who is overdue.  Clients may move, as long as no address is given to    *)
(* another client.                                                         *)

\* Whoever is found at an address, or is being latched there, is the client
\* the address was given to.
AddressesAreOwned ==
    /\ \A e \in Endpoint : at[e] # NoAddr => owner[at[e]] = e
    /\ \A a \in Addr : by_addr[a] # NoEndpoint => owner[a] = by_addr[a]
    /\ udp # Receiving => owner[udp.addr] = udp.ep

\* A listed client that has sent in this period has been touched, or is just
\* about to be.
SentAreSeen ==
    \A e \in by_ufrag :
        e \in sent => e \in seen \/ (udp.step = "address" /\ udp.ep = e)

\* The inductive invariant.
SilentInv ==
    /\ TypeOK
    /\ AddressesAreOwned
    /\ SentAreSeen
    /\ overdue \subseteq by_ufrag
    /\ OnlySilentAreReaped

LEMMA InitSilent == Init => SilentInv
  <1> SUFFICES ASSUME Init PROVE SilentInv
    OBVIOUS
  <1>1. TypeOK
    BY InitIInv DEF IInv
  <1>2. QED
    BY <1>1 DEF Init, SilentInv, AddressesAreOwned, SentAreSeen, OnlySilentAreReaped

LEMMA NextSilent ==
    ASSUME "reuse" \notin Translation, SilentInv, TypeOK', [Next]_vars
    PROVE  SilentInv'
  <1>a. TypeOK /\ AddressesAreOwned /\ SentAreSeen /\ overdue \subseteq by_ufrag
        /\ OnlySilentAreReaped
    BY DEF SilentInv
  <1> USE DEF server, clients, AddressesAreOwned, SentAreSeen, OnlySilentAreReaped
  \* Nobody but the client an address was given to moves there.
  <1>b. ASSUME NEW e \in Endpoint, NEW a \in Addr, Available(e, a), MoveTo(e, a)
        PROVE  /\ \A f \in Endpoint : at'[f] # NoAddr => owner'[at'[f]] = f
               /\ \A b \in Addr : owner[b] # NoEndpoint => owner'[b] = owner[b]
               /\ \A f \in Endpoint : f # e => at'[f] = at[f]
    <2>1. owner[a] \in {NoEndpoint, e} /\ \A f \in Endpoint : at[f] # a
      BY <1>b DEF Available
    <2>2. /\ at' = [at EXCEPT ![e] = a]
          /\ owner' = [owner EXCEPT ![a] = e]
          /\ at \in [Endpoint -> Addr \cup {NoAddr}]
          /\ owner \in [Addr -> Endpoint \cup {NoEndpoint}]
      BY <1>a, <1>b DEF MoveTo, TypeOK
    <2>3. \A b \in Addr : owner[b] # NoEndpoint => owner'[b] = owner[b]
      BY <2>1, <2>2
    <2>4. ASSUME NEW f \in Endpoint, at'[f] # NoAddr PROVE owner'[at'[f]] = f
      <3>1. CASE f = e
        BY <2>2, <3>1
      <3>2. CASE f # e
        BY <1>a, <2>1, <2>2, <2>4, <3>2
      <3>3. QED
        BY <3>1, <3>2
    <2>5. QED
      BY <2>2, <2>3, <2>4
  <1>c. /\ udp # Receiving => udp.addr \in Addr /\ udp.ep \in Endpoint
        /\ Receiving.step = "receive"
    BY <1>a DEF TypeOK, Receiving
  <1>1. ASSUME NEW e \in Endpoint, NEW a \in Addr, Rebind(e, a) PROVE SilentInv'
    <2>1. /\ Available(e, a) /\ MoveTo(e, a) /\ at[e] # NoAddr
          /\ UNCHANGED <<server, sent>>
      BY <1>1 DEF Rebind
    <2>2. AddressesAreOwned'
      BY <1>a, <1>b, <1>c, <2>1, EndpointAssumption DEF TypeOK
    <2>3. SentAreSeen' /\ (overdue \subseteq by_ufrag)'
      BY <1>a, <2>1
    <2>4. OnlySilentAreReaped'
      BY <1>a, <1>b, <2>1 DEF TypeOK
    <2>5. QED
      BY <2>2, <2>3, <2>4 DEF SilentInv
  <1>2. ASSUME NEW e \in Endpoint, NEW a \in Addr, Insert(e, a) PROVE SilentInv'
    <2>1. /\ Available(e, a) /\ MoveTo(e, a) /\ e \notin by_ufrag
          /\ by_ufrag' = by_ufrag \cup {e}
          /\ seen' = seen \cup {e}
          /\ UNCHANGED <<by_addr, address, udp, removal, overdue, sent>>
      BY <1>2 DEF Insert
    <2>2. AddressesAreOwned'
      BY <1>a, <1>b, <1>c, <2>1, EndpointAssumption DEF TypeOK
    <2>3. SentAreSeen' /\ (overdue \subseteq by_ufrag)'
      BY <1>a, <2>1
    <2>4. OnlySilentAreReaped'
      BY <1>a, <1>b, <2>1 DEF TypeOK
    <2>5. QED
      BY <2>2, <2>3, <2>4 DEF SilentInv
  <1>3. ASSUME NEW e \in Endpoint, Stop(e) \/ Vanish(e) PROVE SilentInv'
    BY <1>a, <1>3 DEF SilentInv, Stop, Vanish, TypeOK
  <1>4. ASSUME NEW e \in Endpoint, RemoveUnlists(e) \/ ReapUnlists(e) PROVE SilentInv'
    BY <1>a, <1>4 DEF SilentInv, RemoveUnlists, ReapUnlists
  <1>5. ASSUME NEW e \in Endpoint, RemoveReads(e) PROVE SilentInv'
    BY <1>a, <1>5 DEF SilentInv, RemoveReads
  <1>6. ASSUME NEW e \in Endpoint, RemoveClears(e) PROVE SilentInv'
    BY <1>a, <1>6 DEF SilentInv, RemoveClears, TypeOK
  \* The client at an address that is known is the one that is touched.
  <1>7. ASSUME NEW e \in Endpoint, StunKnown(e) PROVE SilentInv'
    <2>1. at[e] \in Addr
      BY <1>a, <1>7 DEF StunKnown, TypeOK
    <2>2. by_addr[at[e]] = e
      BY <1>a, <1>7, <2>1 DEF StunKnown
    <2>3. QED
      BY <1>a, <1>7, <2>2 DEF SilentInv, StunKnown, Touch
  <1>8. ASSUME NEW e \in Endpoint, StunLatches(e) PROVE SilentInv'
    BY <1>a, <1>c, <1>8 DEF SilentInv, StunLatches
  <1>9. ASSUME NEW e \in Endpoint, StunUnknown(e) PROVE SilentInv'
    BY <1>a, <1>9 DEF SilentInv, StunUnknown
  <1>10. CASE PeriodEnds
    BY <1>a, <1>c, <1>10 DEF SilentInv, PeriodEnds, TypeOK
  <1>11. CASE LatchAddresses
    BY <1>a, <1>c, <1>11 DEF SilentInv, LatchAddresses, Touch
  <1>12. CASE LatchInserts
    BY <1>a, <1>c, <1>12 DEF SilentInv, LatchInserts, TypeOK
  <1>13. CASE UNCHANGED vars
    BY <1>a, <1>13 DEF SilentInv, vars
  <1>14. QED
    BY <1>1, <1>2, <1>3, <1>4, <1>5, <1>6, <1>7, <1>8, <1>9, <1>10, <1>11, <1>12, <1>13
    DEF Next

\* The reaper takes no client that sends for a silent one, provided that no
\* address passes from one client to another; clients may move meanwhile.
THEOREM SilentOnlyAreReaped ==
    ASSUME "reuse" \notin Translation
    PROVE  Spec => []OnlySilentAreReaped
  <1>1. Init => SilentInv
    BY InitSilent
  <1>2. SilentInv /\ TypeOK' /\ [Next]_vars => SilentInv'
    BY NextSilent
  <1>3. SilentInv => OnlySilentAreReaped
    BY DEF SilentInv
  <1>4. QED
    BY <1>1, <1>2, <1>3, TypeCorrect, PTL DEF Spec
=============================================================================
