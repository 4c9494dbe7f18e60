------------------------------ MODULE Sessions ------------------------------
(***************************************************************************)
(* Connections and the state they leave in the server's hubs: the user     *)
(* routing table (UserHub), channel membership and floor (ChannelHub) and  *)
(* the media endpoints by ufrag (MediaPeerHub.by_ufrag).  One action per   *)
(* WebSocket handler that changes any of them.  CHANNEL_LEAVE and the       *)
(* cleanup at the end of a connection take several steps, because they     *)
(* send to others before they remove the member, holding the channel they  *)
(* have looked up, and the cleanup again before it unregisters the user.   *)
(*                                                                         *)
(* The server polices little of what clients may do.  Quirk names the      *)
(* habits of the clients of an instance; a client without any of them      *)
(* follows the connection flow of the README.                              *)
(***************************************************************************)
EXTENDS FloorControl, FiniteSets

CONSTANTS
    Conn,       \* WebSocket connections
    NoConn,
    Channel,    \* channel ids
    NoChannel,
    Conference, \* the channels of mode conference; the others are ptt
    Ufrag,      \* bound: names of media endpoints that may be in use at once
    NoUfrag,
    Capacity,   \* each channel's capacity
    Quirk

ASSUME SessionAssumption ==
    /\ NoConn \notin Conn
    /\ NoChannel \notin Channel
    /\ NoUfrag \notin Ufrag
    /\ Conference \subseteq Channel
    /\ Capacity \in [Channel -> Nat]

ASSUME QuirkAssumption ==
    Quirk \subseteq
        {"reconnect",   \* identifies as a user another connection still serves
         "reidentify",  \* identifies twice on one connection
         "switch",      \* joins a channel without leaving the one before
         "abandon",     \* leaves a channel while holding or awaiting its floor
         "outsider",    \* asks for the floor of a channel it has not joined
         "conference",  \* asks for the floor of a conference channel
         "delete",      \* deletes channels
         "silent"}      \* sends nothing for ZOMBIE_TIMEOUT_MS, yet stays

VARIABLES
    session,    \* per connection: handle_socket's Session and how far it is
    registered, \* UserHub.users: the connection a user's packets go to
    exists,     \* the keys of ChannelHub.channels
    members,    \* Channel.members
    floor,      \* Channel.floor
    endpoints   \* MediaPeerHub.by_ufrag

vars == <<session, registered, exists, members, floor, endpoints>>

\* open: in the receive loop; leaving: in handle_channel_leave; dead: in the
\* receive loop, but the peer is gone and the server does not know; closing,
\* removed: in cleanup.
Phase == {"closed", "open", "leaving", "dead", "closing", "removed"}

Session ==
    [phase: Phase, user: User \cup {NoUser}, channel: Channel \cup {NoChannel},
     ufrag: Ufrag \cup {NoUfrag},
     held: Channel \cup {NoChannel}] \* the channel a handler has looked up, as
                                     \* long as the hub still has it

NewSession ==
    [phase |-> "closed", user |-> NoUser, channel |-> NoChannel, ufrag |-> NoUfrag,
     held |-> NoChannel]

Endpoint == [ufrag: Ufrag, user: User, channel: Channel]

TypeOK ==
    /\ session \in [Conn -> Session]
    /\ registered \in [User -> Conn \cup {NoConn}]
    /\ exists \subseteq Channel
    /\ members \in [Channel -> SUBSET User]
    /\ floor \in [Channel -> FloorRecord]
    /\ endpoints \subseteq Endpoint

\* The preset channels exist from the start.
Init ==
    /\ session = [c \in Conn |-> NewSession]
    /\ registered = [u \in User |-> NoConn]
    /\ exists = Channel
    /\ members = [ch \in Channel |-> {}]
    /\ floor = [ch \in Channel |-> NewFloor]
    /\ endpoints = {}

-----------------------------------------------------------------------------
FaultyAuthenticated(c) == session[c].phase = "open"

Authenticated(c) == session[c].phase = "open" /\ session[c].user # NoUser

\* Some connection still acts, or will act, for u.
Served(u) == \E c \in Conn : session[c].user = u

OnFloor(ch, u) == floor[ch].floor_taken_by = u \/ Queued(floor[ch], u)

\* channel_hub.get: the session's channel, if it still exists.
LookedUp(c) == IF session[c].channel \in exists THEN session[c].channel ELSE NoChannel

\* remove_member on the channel looked up; one that was deleted since has no
\* effect any more.
WithoutMember(c) ==
    [ch \in Channel |-> IF ch = session[c].held
                        THEN members[ch] \ {session[c].user} ELSE members[ch]]

FreshUfrag(f) ==
    /\ \A e \in endpoints : e.ufrag # f
    /\ \A c \in Conn : session[c].ufrag # f

EndpointOf(c) == {e \in endpoints : e.ufrag = session[c].ufrag}

-----------------------------------------------------------------------------
(* Connections                                                             *)

Connect(c) ==
    /\ session[c].phase = "closed"
    /\ session' = [session EXCEPT ![c].phase = "open"]
    /\ UNCHANGED <<registered, exists, members, floor, endpoints>>

\* The network loses the peer without a close.
PeerDies(c) ==
    /\ session[c].phase = "open"
    /\ session' = [session EXCEPT ![c].phase = "dead"]
    /\ UNCHANGED <<registered, exists, members, floor, endpoints>>

\* handle_identify.  The table's entry and the session's user are overwritten.
Identify(c, u) ==
    /\ session[c].phase = "open"
    /\ session[c].user # NoUser => "reidentify" \in Quirk
    /\ Served(u) => "reconnect" \in Quirk
    /\ registered' = [registered EXCEPT ![u] = c]
    /\ session' = [session EXCEPT ![c].user = u]
    /\ UNCHANGED <<exists, members, floor, endpoints>>

-----------------------------------------------------------------------------
(* Channels                                                                *)

\* handle_channel_create: an existing channel is kept as it is.
CreateChannel(c, ch) ==
    /\ Authenticated(c)
    /\ ch \notin exists
    /\ exists' = exists \cup {ch}
    /\ UNCHANGED <<session, registered, members, floor, endpoints>>

\* handle_channel_delete: the channel goes with its members and its floor, the
\* sessions and endpoints that refer to it stay, and a handler that has looked
\* it up goes on with something nobody else will find.
DeleteChannel(c, ch) ==
    /\ "delete" \in Quirk
    /\ Authenticated(c)
    /\ ch \in exists
    /\ exists' = exists \ {ch}
    /\ members' = [members EXCEPT ![ch] = {}]
    /\ floor' = [floor EXCEPT ![ch] = NewFloor]
    /\ session' = [d \in Conn |-> IF session[d].held = ch
                                  THEN [session[d] EXCEPT !.held = NoChannel]
                                  ELSE session[d]]
    /\ UNCHANGED <<registered, endpoints>>

FaultyJoinChannel(c, ch, f) ==
    /\ Authenticated(c)
    /\ session[c].channel # NoChannel => "switch" \in Quirk
    /\ ch \in exists
    /\ FreshUfrag(f)
    /\ endpoints' =
          endpoints \cup {[ufrag |-> f, user |-> session[c].user, channel |-> ch]}
    /\ \/ /\ Cardinality(members[ch]) < Capacity[ch]
          /\ session[c].user \notin members[ch]
          /\ members' = [members EXCEPT ![ch] = @ \cup {session[c].user}]
          /\ session' = [session EXCEPT ![c].channel = ch, ![c].ufrag = f]
       \/ /\ \/ Cardinality(members[ch]) >= Capacity[ch]
             \/ session[c].user \in members[ch]
          /\ UNCHANGED <<members, session>>
    /\ UNCHANGED <<registered, exists, floor>>

\* handle_channel_join: the capacity is checked before membership, nothing is
\* registered when either refuses, and the session's previous channel and
\* ufrag are overwritten.  f is the answer's fresh ICE ufrag.
JoinChannel(c, ch, f) ==
    /\ Authenticated(c)
    /\ session[c].channel # NoChannel => "switch" \in Quirk
    /\ ch \in exists
    /\ Cardinality(members[ch]) < Capacity[ch]
    /\ session[c].user \notin members[ch]
    /\ FreshUfrag(f)
    /\ members' = [members EXCEPT ![ch] = @ \cup {session[c].user}]
    /\ endpoints' =
          endpoints \cup {[ufrag |-> f, user |-> session[c].user, channel |-> ch]}
    /\ session' = [session EXCEPT ![c].channel = ch, ![c].ufrag = f]
    /\ UNCHANGED <<registered, exists, floor>>

\* handle_channel_leave, up to the end of its broadcasts.
LeaveStarts(c) ==
    /\ Authenticated(c)
    /\ session[c].channel # NoChannel
    /\ OnFloor(session[c].channel, session[c].user) => "abandon" \in Quirk
    /\ session' = [session EXCEPT ![c].phase = "leaving", ![c].held = LookedUp(c)]
    /\ UNCHANGED <<registered, exists, members, floor, endpoints>>

\* The floor is not looked at.
LeaveRemoves(c) ==
    /\ session[c].phase = "leaving"
    /\ members' = WithoutMember(c)
    /\ endpoints' = endpoints \ EndpointOf(c)
    /\ session' = [session EXCEPT ![c].phase = "open", ![c].held = NoChannel,
                                  ![c].channel = NoChannel, ![c].ufrag = NoUfrag]
    /\ UNCHANGED <<registered, exists, floor>>

-----------------------------------------------------------------------------
(* The floor, as far as sessions matter to it                              *)

\* handle_floor_request asks only that the channel exists.
RequestFloor(c, ch, p, i) ==
    /\ Authenticated(c)
    /\ session[c].channel # ch => "outsider" \in Quirk
    /\ ch \in Conference => "conference" \in Quirk
    /\ ch \in exists
    /\ floor' = [floor EXCEPT ![ch] =
          IF @.state = "Idle" \/ CanPreempt(@, p, i)
          THEN Grant(@, session[c].user, p, i)
          ELSE Enqueue(@, session[c].user, p, i)]
    /\ UNCHANGED <<session, registered, exists, members, endpoints>>

\* handle_floor_release.
ReleaseFloor(c, ch) ==
    /\ Authenticated(c)
    /\ ch \in exists
    /\ OnFloor(ch, session[c].user)
    /\ floor' = [floor EXCEPT ![ch] =
          IF @.floor_taken_by = session[c].user
          THEN DecideNext(@)
          ELSE RemoveFromQueue(@, session[c].user)]
    /\ UNCHANGED <<session, registered, exists, members, endpoints>>

-----------------------------------------------------------------------------
(* cleanup, when the receive loop ends.                                    *)

FaultyCleanupStarts(c) ==
    /\ session[c].phase \in {"open", "dead"}
    /\ session' = [session EXCEPT ![c] = IF @.user = NoUser THEN NewSession
                                        ELSE [@ EXCEPT !.phase = "removed"]]
    /\ UNCHANGED <<registered, exists, members, floor, endpoints>>

CleanupStarts(c) ==
    /\ session[c].phase \in {"open", "dead"}
    /\ \/ /\ session[c].user = NoUser
          /\ session' = [session EXCEPT ![c] = NewSession]
       \/ /\ session[c].user # NoUser
          /\ session[c].channel = NoChannel
          /\ session' = [session EXCEPT ![c].phase = "removed"]
       \/ /\ session[c].user # NoUser
          /\ session[c].channel # NoChannel
          /\ session' = [session EXCEPT ![c].phase = "closing", ![c].held = LookedUp(c)]
    /\ UNCHANGED <<registered, exists, members, floor, endpoints>>

FaultyCleanupRemoves(c) ==
    /\ session[c].phase = "closing"
    /\ members' = WithoutMember(c)
    /\ endpoints' = endpoints \ EndpointOf(c)
    /\ session' = [session EXCEPT ![c].phase = "removed", ![c].held = NoChannel,
                                  ![c].channel = NoChannel, ![c].ufrag = NoUfrag]
    /\ UNCHANGED <<registered, exists, floor>>

\* After the others have been told: membership, endpoint, and the floor of
\* whatever channel has that name by now.
CleanupRemoves(c) ==
    /\ session[c].phase = "closing"
    /\ members' = WithoutMember(c)
    /\ endpoints' = endpoints \ EndpointOf(c)
    /\ floor' = IF LookedUp(c) # NoChannel
                THEN [floor EXCEPT ![LookedUp(c)] = Disconnected(@, session[c].user)]
                ELSE floor
    /\ session' = [session EXCEPT ![c].phase = "removed", ![c].held = NoChannel,
                                  ![c].channel = NoChannel, ![c].ufrag = NoUfrag]
    /\ UNCHANGED <<registered, exists>>

FaultyCleanupUnregisters(c) ==
    /\ session[c].phase = "removed"
    /\ session' = [session EXCEPT ![c] = NewSession]
    /\ UNCHANGED <<registered, exists, members, floor, endpoints>>

\* After the floor's packets have been sent.  The entry is removed whichever
\* connection it belongs to.
CleanupUnregisters(c) ==
    /\ session[c].phase = "removed"
    /\ registered' = [registered EXCEPT ![session[c].user] = NoConn]
    /\ session' = [session EXCEPT ![c] = NewSession]
    /\ UNCHANGED <<exists, members, floor, endpoints>>

-----------------------------------------------------------------------------
(* The reaper                                                              *)

\* Its client is there and has not closed the connection.
Alive(c) == session[c].phase \in {"open", "leaving"}

FaultyZombie(u) == registered[u] # NoConn

\* For ZOMBIE_TIMEOUT_MS no connection has received anything as u; what any
\* of them receives counts for u's entry, whosever entry it is.
Zombie(u) ==
    /\ registered[u] # NoConn
    /\ \A c \in Conn :
          session[c].user = u /\ Alive(c) => "silent" \in Quirk

FaultyReapUser(u) ==
    /\ Zombie(u)
    /\ registered' = [registered EXCEPT ![u] = NoConn]
    /\ UNCHANGED <<session, exists, members, floor, endpoints>>

\* A zombie leaves every channel and the routing table; its floor, its place in
\* a queue, its endpoint and its session stay.
ReapUser(u) ==
    /\ Zombie(u)
    /\ members' = [ch \in Channel |-> members[ch] \ {u}]
    /\ registered' = [registered EXCEPT ![u] = NoConn]
    /\ UNCHANGED <<session, exists, floor, endpoints>>

\* An endpoint that has received nothing for ZOMBIE_TIMEOUT_MS.
ReapEndpoint(e) ==
    /\ e \in endpoints
    /\ \A c \in Conn :
          session[c].ufrag = e.ufrag /\ Alive(c) => "silent" \in Quirk
    /\ endpoints' = endpoints \ {e}
    /\ UNCHANGED <<session, registered, exists, members, floor>>

\* check_floor_timeouts revokes every holder sooner or later.
SweepFloor(ch) ==
    /\ ch \in exists
    /\ floor[ch].state = "Taken"
    /\ floor' = [floor EXCEPT ![ch] = DecideNext(@)]
    /\ UNCHANGED <<session, registered, exists, members, endpoints>>

-----------------------------------------------------------------------------
Next ==
    \/ \E c \in Conn :
          \/ Connect(c) \/ PeerDies(c)
          \/ CleanupStarts(c) \/ CleanupRemoves(c) \/ CleanupUnregisters(c)
          \/ LeaveStarts(c) \/ LeaveRemoves(c)
          \/ \E u \in User : Identify(c, u)
          \/ \E ch \in Channel :
                \/ CreateChannel(c, ch) \/ DeleteChannel(c, ch)
                \/ \E f \in Ufrag : JoinChannel(c, ch, f)
                \/ \E p \in Priority, i \in Indicator : RequestFloor(c, ch, p, i)
                \/ ReleaseFloor(c, ch)
    \/ \E u \in User : ReapUser(u)
    \/ \E e \in endpoints : ReapEndpoint(e)
    \/ \E ch \in Channel : SweepFloor(ch)

Spec == Init /\ [][Next]_vars

\* The reaper's task is scheduled, and a leave or a cleanup that has begun goes
\* on; no client and no network is obliged to do anything.
FairSpec ==
    /\ Spec
    /\ \A u \in User : WF_vars(ReapUser(u))
    /\ \A e \in Endpoint : WF_vars(ReapEndpoint(e))
    /\ \A ch \in Channel : WF_vars(SweepFloor(ch))
    /\ \A c \in Conn :
          /\ WF_vars(LeaveRemoves(c))
          /\ WF_vars(CleanupRemoves(c)) /\ WF_vars(CleanupUnregisters(c))

-----------------------------------------------------------------------------
(* Safety                                                                  *)

\* Who is listed in a channel is there on account of a connection that still
\* has its cleanup before it, so that no membership outlives its connection.
MembersHaveSessions ==
    \A ch \in Channel : \A u \in members[ch] :
        \E c \in Conn : session[c].user = u /\ session[c].channel = ch

\* A client that has joined and is not a zombie is a member and is routed to.
SessionsAreServed ==
    \A c \in Conn : Authenticated(c) =>
        /\ registered[session[c].user] = c
        /\ session[c].channel \in exists => session[c].user \in members[session[c].channel]

\* A media endpoint belongs to the session that will remove it; no endpoint is
\* shared.
EndpointsHaveSessions ==
    \A e \in endpoints :
        Cardinality({c \in Conn : session[c].ufrag = e.ufrag
                                    /\ session[c].channel = e.channel}) = 1

\* Who holds a floor, or waits for it, is in that channel and will be taken off
\* the floor by its connection's cleanup.
FloorHasSessions ==
    \A ch \in Channel, u \in User : OnFloor(ch, u) =>
        \E c \in Conn : session[c].user = u /\ session[c].channel = ch

\* When the last connection has ended the hubs are as they were at the start.
NothingLeftBehind ==
    (\A c \in Conn : session[c].phase = "closed") =>
        /\ \A u \in User : registered[u] = NoConn
        /\ \A ch \in Channel : members[ch] = {} /\ floor[ch] = NewFloor
        /\ endpoints = {}

-----------------------------------------------------------------------------
(* Liveness                                                                *)

\* Clients that vanish, with or without closing their connections, are forgotten
\* all the same: the reaper alone empties channels, floors, queues (whose ghosts are
\* granted the floor in turn and revoked), routing table and endpoints.
VanishedAreForgotten ==
    <>[](\A c \in Conn : session[c].phase # "open") =>
        <>[](/\ \A u \in User : registered[u] = NoConn
             /\ \A ch \in Channel : members[ch] = {} /\ floor[ch] = NewFloor
             /\ endpoints = {})
=============================================================================
