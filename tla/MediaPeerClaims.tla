--------------------------- MODULE MediaPeerClaims ---------------------------
(***************************************************************************)
(* Statements the repository makes about endpoints and their addresses     *)
(* that the code does not keep.  Each is checked by a run of its own,      *)
(* which finds a counterexample.                                           *)
(***************************************************************************)
EXTENDS MediaPeer

\* core/media_peer.rs, test remove_clears_both_maps: after remove neither map
\* has the endpoint.  A latch that has looked the endpoint up puts it into
\* by_addr after the removal has looked there.
RemovedFromBothMaps ==
    udp = Receiving =>
        \A a \in Addr, e \in Endpoint : by_addr[a] = e => removal[e].step # "done"

\* core/media_peer.rs: the address is "renewed by STUN upon NAT rebinding".
\* A client that moves back to an address it had before is known there, and
\* its endpoint's address is left as it is.
AddressIsRenewed ==
    [][\A e \in Endpoint :
          StunKnown(e) /\ by_addr[at[e]] = e => address'[e] = at[e]]_vars

\* reaper.rs: an endpoint is removed when no UDP packet came for
\* ZOMBIE_TIMEOUT_MS.  A client at an address by_addr still has for a removed
\* endpoint sends, but it is the removed endpoint that is touched.
OnlySilentAreRemoved == OnlySilentAreReaped
=============================================================================
