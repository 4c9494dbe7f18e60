----------------------------- MODULE MediaPeer -----------------------------
(***************************************************************************)
(* Where media come from: MediaPeerHub's two maps, by_ufrag (filled when a *)
(* user joins) and by_addr (filled when the first STUN request of a client *)
(* arrives), and the address kept in each endpoint.  Three kinds of task   *)
(* use them: the one UDP task, the WebSocket tasks and the reaper.  Each   *)
(* map and each endpoint's address has a lock of its own, so a latch and a *)
(* removal take one step per lock.                                         *)
(*                                                                         *)
(* An endpoint stands for one CHANNEL_JOIN and, with it, for the client    *)
(* that made it and for the ufrag in that client's STUN requests.  Clients *)
(* send from wherever network address translation puts them; Translation   *)
(* names what it does in an instance.                                      *)
(***************************************************************************)
EXTENDS FiniteSets

CONSTANTS
    Endpoint,
    NoEndpoint,
    Addr,       \* source addresses of UDP packets
    NoAddr,
    Translation

ASSUME EndpointAssumption == NoEndpoint \notin Endpoint
ASSUME AddrAssumption == NoAddr \notin Addr
ASSUME TranslationAssumption ==
    Translation \subseteq
        {"rebind",  \* a client's address changes while it is in a channel
         "reuse"}   \* an address goes to another client once it is free

VARIABLES
    by_ufrag,   \* the endpoints listed in MediaPeerHub.by_ufrag
    by_addr,    \* MediaPeerHub.by_addr
    address,    \* Endpoint.address
    udp,        \* the UDP task: at its recv_from or inside a latch
    removal,    \* per endpoint: how far MediaPeerHub::remove is
    overdue,    \* endpoints whose last_seen is ZOMBIE_TIMEOUT_MS ago
    seen,       \* endpoints touched in the current period of that length
    at,         \* where each client is, NoAddr before it joins and once it is gone
    owner,      \* the client an address was last given to
    sent        \* clients that have sent in the current period

server == <<by_ufrag, by_addr, address, udp, removal, overdue, seen>>
clients == <<at, owner, sent>>
vars == <<server, clients>>

Receiving == [step |-> "receive", ep |-> NoEndpoint, addr |-> NoAddr]

NotRemoved == [step |-> "none", addr |-> NoAddr]

TypeOK ==
    /\ by_ufrag \subseteq Endpoint
    /\ by_addr \in [Addr -> Endpoint \cup {NoEndpoint}]
    /\ address \in [Endpoint -> Addr \cup {NoAddr}]
    /\ udp \in {Receiving} \cup [step: {"address", "insert"}, ep: Endpoint, addr: Addr]
    /\ removal \in [Endpoint -> [step: {"none", "read", "done"}, addr: {NoAddr}]
                                    \cup [step: {"clear"}, addr: Addr]]
    /\ overdue \subseteq Endpoint
    /\ seen \subseteq Endpoint
    /\ at \in [Endpoint -> Addr \cup {NoAddr}]
    /\ owner \in [Addr -> Endpoint \cup {NoEndpoint}]
    /\ sent \subseteq Endpoint

Init ==
    /\ by_ufrag = {}
    /\ by_addr = [a \in Addr |-> NoEndpoint]
    /\ address = [e \in Endpoint |-> NoAddr]
    /\ udp = Receiving
    /\ removal = [e \in Endpoint |-> NotRemoved]
    /\ overdue = {}
    /\ seen = {}
    /\ at = [e \in Endpoint |-> NoAddr]
    /\ owner = [a \in Addr |-> NoEndpoint]
    /\ sent = {}

-----------------------------------------------------------------------------
(* Clients and their network                                               *)

\* Whether the network may put e's client at a.
Available(e, a) ==
    /\ \A f \in Endpoint : at[f] # a
    /\ owner[a] \in {NoEndpoint, e} \/ "reuse" \in Translation

MoveTo(e, a) ==
    /\ at' = [at EXCEPT ![e] = a]
    /\ owner' = [owner EXCEPT ![a] = e]

Rebind(e, a) ==
    /\ "rebind" \in Translation
    /\ at[e] # NoAddr
    /\ Available(e, a)
    /\ MoveTo(e, a)
    /\ UNCHANGED <<server, sent>>

\* A client that is not in a channel any more stops, sooner or later.
Stop(e) ==
    /\ at[e] # NoAddr
    /\ e \notin by_ufrag
    /\ at' = [at EXCEPT ![e] = NoAddr]
    /\ UNCHANGED <<server, owner, sent>>

\* A client may also vanish without a word.
Vanish(e) ==
    /\ e \in by_ufrag
    /\ at[e] # NoAddr
    /\ at' = [at EXCEPT ![e] = NoAddr]
    /\ UNCHANGED <<server, owner, sent>>

\* ZOMBIE_TIMEOUT_MS go by.  Clients send their keepalives far more often.
PeriodEnds ==
    /\ udp = Receiving
    /\ \A e \in Endpoint : at[e] # NoAddr => e \in sent
    /\ overdue' = by_ufrag \ seen
    /\ seen' = {}
    /\ sent' = {}
    /\ UNCHANGED <<by_ufrag, by_addr, address, udp, removal, at, owner>>

-----------------------------------------------------------------------------
(* WebSocket tasks and reaper                                              *)

\* MediaPeerHub::insert, for a client at a.  last_seen is the time of the join.
Insert(e, a) ==
    /\ removal[e] = NotRemoved
    /\ e \notin by_ufrag
    /\ Available(e, a)
    /\ MoveTo(e, a)
    /\ by_ufrag' = by_ufrag \cup {e}
    /\ seen' = seen \cup {e}
    /\ UNCHANGED <<by_addr, address, udp, removal, overdue, sent>>

\* MediaPeerHub::remove, first lock: by CHANNEL_LEAVE or the cleanup of the
\* connection.
RemoveUnlists(e) ==
    /\ e \in by_ufrag
    /\ by_ufrag' = by_ufrag \ {e}
    /\ removal' = [removal EXCEPT ![e] = [step |-> "read", addr |-> NoAddr]]
    /\ overdue' = overdue \ {e}
    /\ UNCHANGED <<by_addr, address, udp, seen, clients>>

\* The same, by the reaper.
ReapUnlists(e) ==
    /\ e \in overdue
    /\ RemoveUnlists(e)

FaultyRemoveReads(e) ==
    /\ removal[e].step = "read"
    /\ removal' = [removal EXCEPT ![e] = [step |-> "clear", addr |-> address[e]]]
    /\ UNCHANGED <<by_ufrag, by_addr, address, udp, overdue, seen, clients>>

\* Second lock: the endpoint's address, if it has one.
RemoveReads(e) ==
    /\ removal[e].step = "read"
    /\ removal' = [removal EXCEPT ![e] =
          IF address[e] = NoAddr
          THEN [step |-> "done", addr |-> NoAddr]
          ELSE [step |-> "clear", addr |-> address[e]]]
    /\ UNCHANGED <<by_ufrag, by_addr, address, udp, overdue, seen, clients>>

\* Third lock: whatever by_addr has there goes.
RemoveClears(e) ==
    /\ removal[e].step = "clear"
    /\ by_addr' = [by_addr EXCEPT ![removal[e].addr] = NoEndpoint]
    /\ removal' = [removal EXCEPT ![e] = [step |-> "done", addr |-> NoAddr]]
    /\ UNCHANGED <<by_ufrag, address, udp, overdue, seen, clients>>

-----------------------------------------------------------------------------
(* The UDP task                                                            *)

Touch(e) ==
    /\ seen' = seen \cup {e}
    /\ overdue' = overdue \ {e}

FaultyStunKnown(e) ==
    /\ udp = Receiving
    /\ at[e] # NoAddr
    /\ by_addr[at[e]] # NoEndpoint
    /\ sent' = sent \cup {e}
    /\ UNCHANGED <<by_ufrag, by_addr, address, udp, removal, overdue, seen, at, owner>>

\* handle_stun, hot path, and handle_srtp: the address is known, and whoever
\* it is known for is touched.  The ufrag in the request is not looked at, nor
\* is the endpoint's address.
StunKnown(e) ==
    /\ udp = Receiving
    /\ at[e] # NoAddr
    /\ by_addr[at[e]] # NoEndpoint
    /\ Touch(by_addr[at[e]])
    /\ sent' = sent \cup {e}
    /\ UNCHANGED <<by_ufrag, by_addr, address, udp, removal, at, owner>>

FaultyStunLatches(e) ==
    /\ udp = Receiving
    /\ at[e] # NoAddr
    /\ e \in by_ufrag
    /\ udp' = [step |-> "address", ep |-> e, addr |-> at[e]]
    /\ sent' = sent \cup {e}
    /\ UNCHANGED <<by_ufrag, by_addr, address, removal, overdue, seen, at, owner>>

\* Cold path, MediaPeerHub::latch: the endpoint is looked up by ufrag.
StunLatches(e) ==
    /\ udp = Receiving
    /\ at[e] # NoAddr
    /\ by_addr[at[e]] = NoEndpoint
    /\ e \in by_ufrag
    /\ udp' = [step |-> "address", ep |-> e, addr |-> at[e]]
    /\ sent' = sent \cup {e}
    /\ UNCHANGED <<by_ufrag, by_addr, address, removal, overdue, seen, at, owner>>

StunUnknown(e) ==
    /\ udp = Receiving
    /\ at[e] # NoAddr
    /\ by_addr[at[e]] = NoEndpoint
    /\ e \notin by_ufrag
    /\ sent' = sent \cup {e}
    /\ UNCHANGED <<server, at, owner>>

FaultyLatchAddresses ==
    /\ udp.step = "address"
    /\ Touch(udp.ep)
    /\ udp' = [step |-> "insert", ep |-> udp.ep, addr |-> udp.addr]
    /\ UNCHANGED <<by_ufrag, by_addr, address, removal, clients>>

LatchAddresses ==
    /\ udp.step = "address"
    /\ address' = [address EXCEPT ![udp.ep] = udp.addr]
    /\ Touch(udp.ep)
    /\ udp' = [step |-> "insert", ep |-> udp.ep, addr |-> udp.addr]
    /\ UNCHANGED <<by_ufrag, by_addr, removal, clients>>

\* Whether the endpoint is still listed is not asked again.
LatchInserts ==
    /\ udp.step = "insert"
    /\ by_addr' = [by_addr EXCEPT ![udp.addr] = udp.ep]
    /\ udp' = Receiving
    /\ UNCHANGED <<by_ufrag, address, removal, overdue, seen, clients>>

-----------------------------------------------------------------------------
Next ==
    \/ \E e \in Endpoint :
          \/ Stop(e) \/ Vanish(e)
          \/ RemoveUnlists(e) \/ ReapUnlists(e) \/ RemoveReads(e) \/ RemoveClears(e)
          \/ StunKnown(e) \/ StunLatches(e) \/ StunUnknown(e)
          \/ \E a \in Addr : Rebind(e, a) \/ Insert(e, a)
    \/ PeriodEnds
    \/ LatchAddresses
    \/ LatchInserts

Spec == Init /\ [][Next]_vars

Stun(e) == StunKnown(e) \/ StunLatches(e)

\* Clients go on sending STUN requests, the UDP task goes on, time goes by and
\* the reaper runs.
FairSpec ==
    /\ Spec
    /\ \A e \in Endpoint :
          /\ WF_vars(Stun(e))
          /\ WF_vars(RemoveReads(e)) /\ WF_vars(RemoveClears(e))
          /\ WF_vars(ReapUnlists(e))
    /\ WF_vars(LatchAddresses) /\ WF_vars(LatchInserts)
    /\ WF_vars(PeriodEnds)

-----------------------------------------------------------------------------
(* Safety                                                                  *)

Latching(e) == udp.step = "insert" /\ udp.ep = e

\* The two maps agree on every endpoint that is listed: packets from the
\* address it has are its packets, whatever is latched, moved and removed.
LatchedAreFound ==
    \A e \in by_ufrag : address[e] # NoAddr /\ ~Latching(e) => by_addr[address[e]] = e

\* No two listed endpoints are sent the media for one address.
OneEndpointPerAddress ==
    \A e, f \in by_ufrag : address[e] = address[f] /\ address[e] # NoAddr => e = f

\* A removal takes nothing from anybody else, though it asks by address and
\* not by endpoint.
RemovalIsOwn ==
    [][\A e \in Endpoint :
          RemoveClears(e) => by_addr[removal[e].addr] \in {e, NoEndpoint}]_vars

\* The reaper removes no endpoint whose client is still sending.
OnlySilentAreReaped == \A e \in overdue : at[e] = NoAddr

-----------------------------------------------------------------------------
(* Why the maps agree.                                                     *)

ListedAreNotRemoved == \A e \in by_ufrag : removal[e] = NotRemoved

\* While the UDP task latches an address, by_addr has nothing there.
LatchIsFree ==
    /\ udp # Receiving => by_addr[udp.addr] = NoEndpoint
    /\ udp.step = "insert" => address[udp.ep] = udp.addr

\* An endpoint that is being removed is still found until its removal is done.
AddressesAreFound ==
    \A e \in Endpoint :
        removal[e].step # "done" /\ address[e] # NoAddr /\ ~Latching(e)
            => by_addr[address[e]] = e

\* The address a removal has read is its endpoint's, or is just being latched
\* for it.
RemovalReadsOwn ==
    \A e \in Endpoint : removal[e].step = "clear" =>
        \/ by_addr[removal[e].addr] = e
        \/ Latching(e) /\ udp.addr = removal[e].addr

\* The inductive invariant.
IInv ==
    /\ TypeOK
    /\ ListedAreNotRemoved
    /\ LatchIsFree
    /\ AddressesAreFound
    /\ RemovalReadsOwn

-----------------------------------------------------------------------------
(* Liveness                                                                *)

\* A client that stays in the channel is latched where it is.
ClientsAreLatched ==
    \A e \in Endpoint :
        e \in by_ufrag ~>
            \/ e \notin by_ufrag
            \/ at[e] = NoAddr
            \/ address[e] = at[e] /\ by_addr[at[e]] = e
=============================================================================
