---------------------------- MODULE SessionsProof ----------------------------
(***************************************************************************)
(* Proofs about Sessions, for any users, connections, channels, ufrags and *)
(* capacities.  Each theorem names the habits its clients must not have;   *)
(* all others are allowed.                                                 *)
(***************************************************************************)
EXTENDS Sessions, FloorControlProof, FiniteSetTheorems, TLAPS

-----------------------------------------------------------------------------
(* What holds of any clients.                                              *)

\* How far a session is, and what it refers to by then.
SessionOK(s) ==
    /\ s.phase = "closed" => s = NewSession
    /\ s.phase \in {"leaving", "closing", "removed"} => s.user # NoUser
    /\ s.phase = "removed" => s.channel = NoChannel
    /\ s.user = NoUser => s.channel = NoChannel
    /\ s.channel = NoChannel <=> s.ufrag = NoUfrag

\* A channel nobody can look up is a new one.
ChannelsOK ==
    \A ch \in Channel :
        /\ FloorOK(floor[ch])
        /\ ch \notin exists => members[ch] = {} /\ floor[ch] = NewFloor

\* The inductive invariant of any instance.
BaseInv ==
    /\ TypeOK
    /\ \A c \in Conn : SessionOK(session[c])
    /\ ChannelsOK

\* Who holds the floor f or waits for it.
Concerns(f, u) == f.floor_taken_by = u \/ Queued(f, u)

LEMMA QueuedIsWaiting ==
    ASSUME NEW f, NEW u
    PROVE  Queued(f, u) <=> u \in WaitingUsers(f)
  BY DEF Queued, WaitingUsers

LEMMA NewFloorConcernsNobody ==
    ASSUME NEW u \in User
    PROVE  ~Concerns(NewFloor, u)
  BY UserAssumption DEF Concerns, NewFloor, Queued

\* A request concerns the user that makes it, and whoever waits already.
LEMMA RequestConcerns ==
    ASSUME NEW f, FloorOK(f),
           NEW u \in User, NEW p \in Priority, NEW i \in Indicator, NEW g,
           g = IF f.state = "Idle" \/ CanPreempt(f, p, i)
               THEN Grant(f, u, p, i) ELSE Enqueue(f, u, p, i)
    PROVE  FloorOK(g) /\ \A v : Concerns(g, v) => v = u \/ Concerns(f, v)
  <1>1. f \in FloorRecord /\ QueueOK(f.queue) /\ f.state \in {"Idle", "Taken"}
    BY DEF FloorOK, FloorRecord
  <1>2. CASE f.state = "Idle" \/ CanPreempt(f, p, i)
    <2>1. g = Grant(f, u, p, i)
      BY <1>2
    <2>2. g.floor_taken_by = u /\ g.queue = f.queue
      BY <1>1, <2>1 DEF Grant, FloorRecord
    <2>3. QED
      BY <1>1, <2>1, <2>2, GrantOK DEF Concerns, Queued
  <1>3. CASE ~(f.state = "Idle" \/ CanPreempt(f, p, i))
    <2>1. g = Enqueue(f, u, p, i) /\ f.state = "Taken" /\ i # "Emergency"
      BY <1>1, <1>3 DEF CanPreempt
    <2>2. g.floor_taken_by = f.floor_taken_by /\ Joins(g, f, u, p)
      BY <1>1, <2>1, EnqueueView
    <2>3. \A v : v \in WaitingUsers(g) => v = u \/ v \in WaitingUsers(f)
      BY <2>2 DEF Joins
    <2>4. QED
      BY <2>1, <2>2, <2>3, EnqueueOK, QueuedIsWaiting DEF Concerns
  <1>4. QED
    BY <1>2, <1>3

\* Handing the floor on concerns nobody new.
LEMMA DecideNextConcerns ==
    ASSUME NEW f \in FloorRecord, QueueOK(f.queue)
    PROVE  /\ FloorOK(DecideNext(f))
           /\ \A v \in User : Concerns(DecideNext(f), v) => Queued(f, v)
  <1> DEFINE g == DecideNext(f)
  <1>1. FloorOK(g)
    BY DecideNextOK
  <1>2. /\ WaitingUsers(g) \subseteq WaitingUsers(f)
        /\ g.floor_taken_by \in WaitingUsers(f) \cup {NoUser}
    BY DecideNextView DEF Keeps
  <1> HIDE DEF g
  <1>3. \A v \in User : Concerns(g, v) => v \in WaitingUsers(f)
    BY <1>2, QueuedIsWaiting, UserAssumption DEF Concerns
  <1>4. QED
    BY <1>1, <1>3, QueuedIsWaiting DEF g

LEMMA RemoveConcerns ==
    ASSUME NEW f, FloorOK(f), NEW u
    PROVE  /\ FloorOK(RemoveFromQueue(f, u))
           /\ RemoveFromQueue(f, u).floor_taken_by = f.floor_taken_by
           /\ \A v : Queued(RemoveFromQueue(f, u), v) => v # u /\ Queued(f, v)
  <1>1. f \in FloorRecord /\ QueueOK(f.queue)
    BY DEF FloorOK
  <1>2. WaitingUsers(RemoveFromQueue(f, u)) = WaitingUsers(f) \ {u}
    BY <1>1, RemoveFromQueueView DEF Keeps
  <1>3. QED
    BY <1>2, RemoveFromQueueOK, QueuedIsWaiting

\* A user that is disconnected has nothing to do with the floor any more.
LEMMA DisconnectedConcerns ==
    ASSUME NEW f, FloorOK(f), NEW u
    PROVE  /\ FloorOK(Disconnected(f, u))
           /\ \A v \in User : Concerns(Disconnected(f, u), v) => v # u /\ Concerns(f, v)
  <1> DEFINE g == RemoveFromQueue(f, u)
  <1>1. /\ FloorOK(g)
        /\ g.floor_taken_by = f.floor_taken_by
        /\ \A v : Queued(g, v) => v # u /\ Queued(f, v)
    BY RemoveConcerns
  <1>2. Disconnected(f, u) = IF g.floor_taken_by = u THEN DecideNext(g) ELSE g
    BY DEF Disconnected
  <1> HIDE DEF g
  <1>3. /\ FloorOK(DecideNext(g))
        /\ \A v \in User : Concerns(DecideNext(g), v) => Queued(g, v)
    BY <1>1, DecideNextConcerns DEF FloorOK
  <1>4. QED
    BY <1>1, <1>2, <1>3 DEF Concerns

LEMMA InitBase == Init => BaseInv
  <1> SUFFICES ASSUME Init PROVE BaseInv
    OBVIOUS
  <1>1. NewFloor \in FloorRecord /\ FloorOK(NewFloor)
    BY NewFloorOK DEF FloorOK
  <1>2. NewSession \in Session /\ SessionOK(NewSession)
    BY DEF NewSession, Session, SessionOK, Phase
  <1> HIDE DEF NewFloor, NewSession
  <1>3. QED
    BY <1>1, <1>2 DEF Init, BaseInv, TypeOK, ChannelsOK

\* Every action changes at most one session, except DeleteChannel.
SessionsOK == session \in [Conn -> Session] /\ \A c \in Conn : SessionOK(session[c])

LEMMA OneSessionChanges ==
    ASSUME SessionsOK, NEW c \in Conn, NEW s \in Session, SessionOK(s),
           session' = [session EXCEPT ![c] = s]
    PROVE  SessionsOK'
  BY DEF SessionsOK

LEMMA OneFloorChanges ==
    ASSUME ChannelsOK, floor \in [Channel -> FloorRecord],
           NEW ch \in exists, exists \subseteq Channel, NEW f, FloorOK(f),
           floor' = [floor EXCEPT ![ch] = f],
           UNCHANGED <<exists, members>>
    PROVE  ChannelsOK' /\ floor' \in [Channel -> FloorRecord]
  BY DEF ChannelsOK, FloorOK

LEMMA NextBase == BaseInv /\ [Next]_vars => BaseInv'
  <1> SUFFICES ASSUME BaseInv, [Next]_vars PROVE BaseInv'
    OBVIOUS
  <1> DEFINE Rest == /\ registered \in [User -> Conn \cup {NoConn}]
                     /\ exists \subseteq Channel
                     /\ members \in [Channel -> SUBSET User]
                     /\ floor \in [Channel -> FloorRecord]
                     /\ endpoints \subseteq Endpoint
                     /\ ChannelsOK
  <1>a. SessionsOK /\ Rest
    BY DEF BaseInv, TypeOK, SessionsOK
  <1>b. SessionsOK' /\ Rest' => BaseInv'
    BY DEF BaseInv, TypeOK, SessionsOK
  <1>c. ASSUME NEW c \in Conn
        PROVE  /\ session[c] \in Session
               /\ session[c].phase \in Phase
               /\ session[c].user \in User \cup {NoUser}
               /\ session[c].channel \in Channel \cup {NoChannel}
               /\ session[c].ufrag \in Ufrag \cup {NoUfrag}
               /\ session[c].held \in Channel \cup {NoChannel}
               /\ SessionOK(session[c])
    BY <1>a DEF SessionsOK, Session
  <1>d. /\ NewSession \in Session /\ SessionOK(NewSession)
        /\ NewFloor \in FloorRecord /\ FloorOK(NewFloor)
    BY NewFloorOK DEF NewSession, Session, SessionOK, Phase, FloorOK
  <1>e. ASSUME NEW c \in Conn
        PROVE  LookedUp(c) \in Channel \cup {NoChannel}
    BY <1>a, <1>c DEF LookedUp
  <1>f. ASSUME NEW c \in Conn, members' = WithoutMember(c)
        PROVE  /\ members' \in [Channel -> SUBSET User]
               /\ \A ch \in Channel : members'[ch] \subseteq members[ch]
    BY <1>a, <1>f DEF WithoutMember
  <1>1. ASSUME NEW c \in Conn, Connect(c) \/ PeerDies(c) PROVE BaseInv'
    <2> DEFINE s == [session[c] EXCEPT !.phase = IF Connect(c) THEN "open" ELSE "dead"]
    <2>1. session' = [session EXCEPT ![c] = s]
      BY <1>1 DEF Connect, PeerDies
    <2>2. s \in Session /\ SessionOK(s)
      BY <1>c, <1>1 DEF Connect, PeerDies, Session, SessionOK, Phase
    <2>3. SessionsOK'
      BY <1>a, <2>1, <2>2, OneSessionChanges
    <2>4. Rest'
      BY <1>a, <1>1 DEF Connect, PeerDies, ChannelsOK
    <2>5. QED
      BY <1>b, <2>3, <2>4
  <1>2. ASSUME NEW c \in Conn, NEW u \in User, Identify(c, u) PROVE BaseInv'
    <2> DEFINE s == [session[c] EXCEPT !.user = u]
    <2>1. session' = [session EXCEPT ![c] = s]
      BY <1>2 DEF Identify
    <2>2. s \in Session /\ SessionOK(s)
      BY <1>c, <1>2, UserAssumption DEF Identify, Session, SessionOK, NewSession
    <2>3. SessionsOK'
      BY <1>a, <2>1, <2>2, OneSessionChanges
    <2>4. Rest'
      BY <1>a, <1>2 DEF Identify, ChannelsOK
    <2>5. QED
      BY <1>b, <2>3, <2>4
  <1>3. ASSUME NEW c \in Conn, NEW ch \in Channel, NEW f \in Ufrag, JoinChannel(c, ch, f) PROVE BaseInv'
    <2> DEFINE s == [session[c] EXCEPT !.channel = ch, !.ufrag = f]
    <2>1. session' = [session EXCEPT ![c] = s]
      BY <1>3 DEF JoinChannel
    <2>2. s \in Session /\ SessionOK(s)
      BY <1>c, <1>3, SessionAssumption DEF JoinChannel, Authenticated, Session, SessionOK
    <2>3. SessionsOK'
      BY <1>a, <2>1, <2>2, OneSessionChanges
    <2>4. Rest'
      <3>1. session[c].user \in User
        BY <1>c, <1>3 DEF JoinChannel, Authenticated
      <3>2. [ufrag |-> f, user |-> session[c].user, channel |-> ch] \in Endpoint
        BY <3>1 DEF Endpoint
      <3>3. /\ members' \in [Channel -> SUBSET User]
            /\ \A k \in Channel : k # ch => members'[k] = members[k]
        BY <1>a, <1>3, <3>1 DEF JoinChannel
      <3>4. UNCHANGED <<registered, exists, floor>> /\ ch \in exists
        BY <1>3 DEF JoinChannel
      <3>5. ChannelsOK'
        BY <1>a, <3>3, <3>4 DEF ChannelsOK
      <3>6. endpoints' \subseteq Endpoint
        BY <1>a, <1>3, <3>2 DEF JoinChannel
      <3>7. QED
        BY <1>a, <3>3, <3>4, <3>5, <3>6
    <2>5. QED
      BY <1>b, <2>3, <2>4
  <1>4. ASSUME NEW c \in Conn, LeaveStarts(c) PROVE BaseInv'
    <2> DEFINE s == [session[c] EXCEPT !.phase = "leaving", !.held = LookedUp(c)]
    <2>1. session' = [session EXCEPT ![c] = s]
      BY <1>4 DEF LeaveStarts
    <2>2. s \in Session /\ SessionOK(s)
      BY <1>c, <1>4, <1>e DEF LeaveStarts, Authenticated, Session, SessionOK, Phase
    <2>3. SessionsOK'
      BY <1>a, <2>1, <2>2, OneSessionChanges
    <2>4. Rest'
      BY <1>a, <1>4 DEF LeaveStarts, ChannelsOK
    <2>5. QED
      BY <1>b, <2>3, <2>4
  <1>5. ASSUME NEW c \in Conn, LeaveRemoves(c) PROVE BaseInv'
    <2> DEFINE s == [session[c] EXCEPT !.phase = "open", !.held = NoChannel,
                                 !.channel = NoChannel, !.ufrag = NoUfrag]
    <2>1. session' = [session EXCEPT ![c] = s]
      BY <1>5 DEF LeaveRemoves
    <2>2. s \in Session /\ SessionOK(s)
      BY <1>c, <1>5 DEF LeaveRemoves, Session, SessionOK, Phase
    <2>3. SessionsOK'
      BY <1>a, <2>1, <2>2, OneSessionChanges
    <2>4. Rest'
      BY <1>a, <1>5, <1>f DEF LeaveRemoves, ChannelsOK
    <2>5. QED
      BY <1>b, <2>3, <2>4
  <1>6. ASSUME NEW c \in Conn, CleanupRemoves(c) PROVE BaseInv'
    <2> DEFINE s == [session[c] EXCEPT !.phase = "removed", !.held = NoChannel,
                                 !.channel = NoChannel, !.ufrag = NoUfrag]
    <2>1. session' = [session EXCEPT ![c] = s]
      BY <1>6 DEF CleanupRemoves
    <2>2. s \in Session /\ SessionOK(s)
      BY <1>c, <1>6 DEF CleanupRemoves, Session, SessionOK, Phase
    <2>3. SessionsOK'
      BY <1>a, <2>1, <2>2, OneSessionChanges
    <2>4. Rest'
      <3>1. /\ members' \in [Channel -> SUBSET User]
            /\ \A k \in Channel : members'[k] \subseteq members[k]
        BY <1>6, <1>f DEF CleanupRemoves
      <3>2. UNCHANGED <<registered, exists>> /\ endpoints' \subseteq endpoints
        BY <1>6 DEF CleanupRemoves
      <3>3. /\ floor' \in [Channel -> FloorRecord]
            /\ \A k \in Channel : FloorOK(floor'[k])
            /\ \A k \in Channel : k \notin exists => floor'[k] = floor[k]
        <4> DEFINE k0 == LookedUp(c)
        <4>1. CASE k0 = NoChannel
          <5>1. floor' = floor
            BY <1>6, <4>1 DEF CleanupRemoves
          <5>2. QED
            BY <1>a, <5>1 DEF ChannelsOK
        <4>2. CASE k0 # NoChannel
          <5>1. k0 \in exists /\ k0 \in Channel
            BY <1>e, <4>2 DEF LookedUp
          <5>2. floor' = [floor EXCEPT ![k0] = Disconnected(@, session[c].user)]
            BY <1>6, <4>2 DEF CleanupRemoves
          <5>3. FloorOK(Disconnected(floor[k0], session[c].user))
            BY <1>a, <5>1, DisconnectedConcerns DEF ChannelsOK
          <5> HIDE DEF k0
          <5>4. QED
            BY <1>a, <5>1, <5>2, <5>3 DEF ChannelsOK, FloorOK
        <4>3. QED
          BY <4>1, <4>2
      <3>4. ChannelsOK'
        BY <1>a, <3>1, <3>2, <3>3 DEF ChannelsOK
      <3>5. QED
        BY <1>a, <3>1, <3>2, <3>3, <3>4
    <2>5. QED
      BY <1>b, <2>3, <2>4
  <1>7. ASSUME NEW c \in Conn, CleanupUnregisters(c) PROVE BaseInv'
    <2> DEFINE s == NewSession
    <2>1. session' = [session EXCEPT ![c] = s]
      BY <1>7 DEF CleanupUnregisters
    <2>2. s \in Session /\ SessionOK(s)
      BY <1>c, <1>7, <1>d
    <2>3. SessionsOK'
      BY <1>a, <2>1, <2>2, OneSessionChanges
    <2>4. Rest'
      BY <1>a, <1>7 DEF CleanupUnregisters, ChannelsOK
    <2>5. QED
      BY <1>b, <2>3, <2>4
  <1>8. ASSUME NEW c \in Conn, CleanupStarts(c) PROVE BaseInv'
    <2>1. \E s \in Session : SessionOK(s) /\ session' = [session EXCEPT ![c] = s]
      <3>1. CASE session[c].user = NoUser
        BY <1>8, <1>d, <3>1 DEF CleanupStarts
      <3>2. CASE session[c].user # NoUser /\ session[c].channel = NoChannel
        <4> DEFINE s == [session[c] EXCEPT !.phase = "removed"]
        <4>1. s \in Session /\ SessionOK(s)
          BY <1>c, <3>2 DEF Session, SessionOK, Phase
        <4>2. QED
          BY <1>8, <3>2, <4>1 DEF CleanupStarts
      <3>3. CASE session[c].user # NoUser /\ session[c].channel # NoChannel
        <4> DEFINE s == [session[c] EXCEPT !.phase = "closing", !.held = LookedUp(c)]
        <4>1. s \in Session /\ SessionOK(s)
          BY <1>c, <1>e, <3>3 DEF Session, SessionOK, Phase
        <4>2. QED
          BY <1>8, <3>3, <4>1 DEF CleanupStarts
      <3>4. QED
        BY <3>1, <3>2, <3>3
    <2>2. SessionsOK'
      BY <1>a, <2>1, OneSessionChanges
    <2>3. Rest'
      BY <1>a, <1>8 DEF CleanupStarts, ChannelsOK
    <2>4. QED
      BY <1>b, <2>2, <2>3
  <1>9. ASSUME NEW c \in Conn, NEW ch \in Channel, CreateChannel(c, ch) PROVE BaseInv'
    <2>1. SessionsOK' /\ Rest'
      BY <1>a, <1>9 DEF CreateChannel, SessionsOK, ChannelsOK
    <2>2. QED
      BY <1>b, <2>1
  <1>10. ASSUME NEW c \in Conn, NEW ch \in Channel, DeleteChannel(c, ch) PROVE BaseInv'
    <2>1. SessionsOK'
      <3>1. \A d \in Conn : [session[d] EXCEPT !.held = NoChannel] \in Session
        BY <1>c DEF Session
      <3>2. \A d \in Conn : SessionOK([session[d] EXCEPT !.held = NoChannel])
        BY <1>c DEF Session, SessionOK, NewSession
      <3>3. session' = [d \in Conn |-> IF session[d].held = ch
                                       THEN [session[d] EXCEPT !.held = NoChannel]
                                       ELSE session[d]]
        BY <1>10 DEF DeleteChannel
      <3>4. QED
        BY <1>c, <3>1, <3>2, <3>3 DEF SessionsOK
    <2>2. Rest'
      <3>1. /\ exists' = exists \ {ch}
            /\ members' = [members EXCEPT ![ch] = {}]
            /\ floor' = [floor EXCEPT ![ch] = NewFloor]
            /\ UNCHANGED <<registered, endpoints>>
        BY <1>10 DEF DeleteChannel
      <3> HIDE DEF NewFloor
      <3>2. QED
        BY <1>a, <1>d, <3>1 DEF ChannelsOK
    <2>3. QED
      BY <1>b, <2>1, <2>2
  <1>11. ASSUME NEW c \in Conn, NEW ch \in Channel, NEW p \in Priority, NEW i \in Indicator,
                RequestFloor(c, ch, p, i)
         PROVE  BaseInv'
    <2> DEFINE f == IF floor[ch].state = "Idle" \/ CanPreempt(floor[ch], p, i)
                    THEN Grant(floor[ch], session[c].user, p, i)
                    ELSE Enqueue(floor[ch], session[c].user, p, i)
    <2>1. floor' = [floor EXCEPT ![ch] = f] /\ ch \in exists
      BY <1>11, <1>a DEF RequestFloor
    <2>2. session[c].user \in User
      BY <1>c, <1>11 DEF RequestFloor, Authenticated
    <2>3. FloorOK(f)
      <3>1. FloorOK(floor[ch])
        BY <1>a DEF ChannelsOK
      <3>2. QED
        BY <2>2, <3>1, RequestConcerns
    <2>4. UNCHANGED <<session, registered, exists, members, endpoints>>
      BY <1>11 DEF RequestFloor
    <2> HIDE DEF f
    <2>5. Rest'
      BY <1>a, <2>1, <2>3, <2>4, OneFloorChanges
    <2>6. QED
      BY <1>a, <1>b, <2>4, <2>5 DEF SessionsOK
  <1>12. ASSUME NEW c \in Conn, NEW ch \in Channel, ReleaseFloor(c, ch) PROVE BaseInv'
    <2> DEFINE f == IF floor[ch].floor_taken_by = session[c].user
                    THEN DecideNext(floor[ch])
                    ELSE RemoveFromQueue(floor[ch], session[c].user)
    <2>1. floor' = [floor EXCEPT ![ch] = f] /\ ch \in exists
      BY <1>12, <1>a DEF ReleaseFloor
    <2>2. FloorOK(f)
      <3>1. FloorOK(floor[ch]) /\ floor[ch] \in FloorRecord /\ QueueOK(floor[ch].queue)
        BY <1>a DEF ChannelsOK, FloorOK
      <3>2. QED
        BY <3>1, DecideNextConcerns, RemoveConcerns
    <2>3. UNCHANGED <<session, registered, exists, members, endpoints>>
      BY <1>12 DEF ReleaseFloor
    <2> HIDE DEF f
    <2>4. Rest'
      BY <1>a, <2>1, <2>2, <2>3, OneFloorChanges
    <2>5. QED
      BY <1>a, <1>b, <2>3, <2>4 DEF SessionsOK
  <1>13. ASSUME NEW u \in User, ReapUser(u) PROVE BaseInv'
    <2>1. SessionsOK' /\ Rest'
      BY <1>a, <1>13 DEF ReapUser, SessionsOK, ChannelsOK
    <2>2. QED
      BY <1>b, <2>1
  <1>14. ASSUME NEW e \in endpoints, ReapEndpoint(e) PROVE BaseInv'
    <2>1. SessionsOK' /\ Rest'
      BY <1>a, <1>14 DEF ReapEndpoint, SessionsOK, ChannelsOK
    <2>2. QED
      BY <1>b, <2>1
  <1>15. ASSUME NEW ch \in Channel, SweepFloor(ch) PROVE BaseInv'
    <2>1. FloorOK(DecideNext(floor[ch]))
      BY <1>a, DecideNextConcerns DEF ChannelsOK, FloorOK
    <2>2. /\ floor' = [floor EXCEPT ![ch] = DecideNext(floor[ch])]
          /\ ch \in exists
          /\ UNCHANGED <<session, registered, exists, members, endpoints>>
      BY <1>a, <1>15 DEF SweepFloor
    <2>3. Rest'
      BY <1>a, <2>1, <2>2, OneFloorChanges
    <2>4. QED
      BY <1>a, <1>b, <2>2, <2>3 DEF SessionsOK
  <1>16. CASE UNCHANGED vars
    <2>1. SessionsOK' /\ Rest'
      BY <1>a, <1>16 DEF vars, SessionsOK, ChannelsOK
    <2>2. QED
      BY <1>b, <2>1
  <1>17. QED
    BY <1>1, <1>2, <1>3, <1>4, <1>5, <1>6, <1>7, <1>8, <1>9, <1>10, <1>11, <1>12,
       <1>13, <1>14, <1>15, <1>16 DEF Next

\* What the variables range over, whatever the clients do.
THEOREM TypeCorrect == Spec => []TypeOK
  <1>1. Spec => []BaseInv
    BY InitBase, NextBase, PTL DEF Spec
  <1>2. BaseInv => TypeOK
    BY DEF BaseInv
  <1>3. QED
    BY <1>1, <1>2, PTL

-----------------------------------------------------------------------------
(* What a step can do to a session, to a channel's members and to a floor. *)

\* Three actions change the routing table.
LEMMA RegisteredChanges ==
    ASSUME [Next]_vars
    PROVE  \/ UNCHANGED registered
           \/ \E c \in Conn : CleanupUnregisters(c)
           \/ \E c \in Conn, u \in User : Identify(c, u)
           \/ \E u \in User : ReapUser(u)
  <1>1. ASSUME NEW c \in Conn,
               \/ Connect(c) \/ PeerDies(c) \/ CleanupStarts(c) \/ CleanupRemoves(c)
               \/ LeaveStarts(c) \/ LeaveRemoves(c)
        PROVE  UNCHANGED registered
    BY <1>1 DEF Connect, PeerDies, CleanupStarts, CleanupRemoves, LeaveStarts, LeaveRemoves
  <1>2. \A c \in Conn, ch \in Channel :
            CreateChannel(c, ch) \/ DeleteChannel(c, ch) \/ ReleaseFloor(c, ch) => UNCHANGED registered
    BY DEF CreateChannel, DeleteChannel, ReleaseFloor
  <1>3. \A c \in Conn, ch \in Channel, p \in Priority, i \in Indicator :
            RequestFloor(c, ch, p, i) => UNCHANGED registered
    BY DEF RequestFloor
  <1>4. \A c \in Conn, ch \in Channel, f \in Ufrag : JoinChannel(c, ch, f) => UNCHANGED registered
    BY DEF JoinChannel
  <1>5. /\ \A e \in endpoints : ReapEndpoint(e) => UNCHANGED registered
        /\ \A ch \in Channel : SweepFloor(ch) => UNCHANGED registered
    BY DEF ReapEndpoint, SweepFloor
  <1>6. QED
    BY <1>1, <1>2, <1>3, <1>4, <1>5 DEF Next, vars

\* Two change which channels there are.
LEMMA ExistsChanges ==
    ASSUME [Next]_vars
    PROVE  \/ UNCHANGED exists
           \/ \E c \in Conn, ch \in Channel : CreateChannel(c, ch) \/ DeleteChannel(c, ch)
  <1>1. ASSUME NEW c \in Conn,
               \/ Connect(c) \/ PeerDies(c) \/ CleanupStarts(c) \/ CleanupRemoves(c)
               \/ CleanupUnregisters(c) \/ LeaveStarts(c) \/ LeaveRemoves(c)
        PROVE  UNCHANGED exists
    BY <1>1 DEF Connect, PeerDies, CleanupStarts, CleanupRemoves, CleanupUnregisters, LeaveStarts, LeaveRemoves
  <1>2. \A c \in Conn, ch \in Channel :
            ReleaseFloor(c, ch) => UNCHANGED exists
    BY DEF ReleaseFloor
  <1>3. \A c \in Conn, ch \in Channel, p \in Priority, i \in Indicator :
            RequestFloor(c, ch, p, i) => UNCHANGED exists
    BY DEF RequestFloor
  <1>4. \A c \in Conn, ch \in Channel, f \in Ufrag : JoinChannel(c, ch, f) => UNCHANGED exists
    BY DEF JoinChannel
  <1>5. \A c \in Conn, u \in User : Identify(c, u) => UNCHANGED exists
    BY DEF Identify
  <1>6. \A u \in User : ReapUser(u) => UNCHANGED exists
    BY DEF ReapUser
  <1>7. /\ \A e \in endpoints : ReapEndpoint(e) => UNCHANGED exists
        /\ \A ch \in Channel : SweepFloor(ch) => UNCHANGED exists
    BY DEF ReapEndpoint, SweepFloor
  <1>8. QED
    BY <1>1, <1>2, <1>3, <1>4, <1>5, <1>6, <1>7 DEF Next, vars

\* Five change who is a member.
LEMMA MembersChange ==
    ASSUME [Next]_vars
    PROVE  \/ UNCHANGED members
           \/ \E c \in Conn : LeaveRemoves(c) \/ CleanupRemoves(c)
           \/ \E c \in Conn, ch \in Channel : DeleteChannel(c, ch)
           \/ \E c \in Conn, ch \in Channel, f \in Ufrag : JoinChannel(c, ch, f)
           \/ \E u \in User : ReapUser(u)
  <1>1. ASSUME NEW c \in Conn,
               \/ Connect(c) \/ PeerDies(c) \/ CleanupStarts(c) \/ CleanupUnregisters(c)
               \/ LeaveStarts(c)
        PROVE  UNCHANGED members
    BY <1>1 DEF Connect, PeerDies, CleanupStarts, CleanupUnregisters, LeaveStarts
  <1>2. \A c \in Conn, ch \in Channel :
            CreateChannel(c, ch) \/ ReleaseFloor(c, ch) => UNCHANGED members
    BY DEF CreateChannel, ReleaseFloor
  <1>3. \A c \in Conn, ch \in Channel, p \in Priority, i \in Indicator :
            RequestFloor(c, ch, p, i) => UNCHANGED members
    BY DEF RequestFloor
  <1>4. \A c \in Conn, u \in User : Identify(c, u) => UNCHANGED members
    BY DEF Identify
  <1>5. /\ \A e \in endpoints : ReapEndpoint(e) => UNCHANGED members
        /\ \A ch \in Channel : SweepFloor(ch) => UNCHANGED members
    BY DEF ReapEndpoint, SweepFloor
  <1>6. QED
    BY <1>1, <1>2, <1>3, <1>4, <1>5 DEF Next, vars

\* Two sessions of the same user, in the same channel, with the same endpoint.
SameView(s, t) == s.user = t.user /\ s.channel = t.channel /\ s.ufrag = t.ufrag

\* Five actions of a connection change these in its session, none in another's.
LEMMA SessionViews ==
    ASSUME BaseInv, [Next]_vars, NEW d \in Conn
    PROVE  \/ SameView(session'[d], session[d])
           \/ \E u \in User : Identify(d, u)
           \/ \E ch \in Channel, f \in Ufrag : JoinChannel(d, ch, f)
           \/ LeaveRemoves(d) \/ CleanupRemoves(d) \/ CleanupUnregisters(d)
  <1> DEFINE Goal == \/ SameView(session'[d], session[d])
                     \/ \E u \in User : Identify(d, u)
                     \/ \E ch \in Channel, f \in Ufrag : JoinChannel(d, ch, f)
                     \/ LeaveRemoves(d) \/ CleanupRemoves(d) \/ CleanupUnregisters(d)
  <1>a. /\ session \in [Conn -> Session]
        /\ \A c \in Conn : SessionOK(session[c])
    BY DEF BaseInv, TypeOK
  <1>b. session[d] \in Session
    BY <1>a
  <1>1. ASSUME NEW c \in Conn, c # d,
               \E s : session' = [session EXCEPT ![c] = s]
        PROVE  Goal
    BY <1>a, <1>1 DEF SameView
  <1>2. ASSUME NEW c \in Conn,
               \/ Connect(c) \/ PeerDies(c) \/ CleanupStarts(c) \/ LeaveStarts(c)
               \/ LeaveRemoves(c) \/ CleanupRemoves(c) \/ CleanupUnregisters(c)
        PROVE  Goal
    <2>1. CASE c # d
      <3>1. \E s : session' = [session EXCEPT ![c] = s]
        BY <1>2 DEF Connect, PeerDies, CleanupStarts, LeaveStarts, LeaveRemoves,
                    CleanupRemoves, CleanupUnregisters
      <3>2. QED
        BY <1>1, <2>1, <3>1
    <2>2. CASE c = d
      <3>1. CASE CleanupStarts(d)
        <4>1. session[d].user = NoUser => session[d].channel = NoChannel /\ session[d].ufrag = NoUfrag
          BY <1>a DEF SessionOK
        <4>2. QED
          BY <1>a, <1>b, <3>1, <4>1 DEF CleanupStarts, SameView, NewSession, Session
      <3>2. CASE Connect(d) \/ PeerDies(d) \/ LeaveStarts(d)
        BY <1>a, <1>b, <3>2 DEF Connect, PeerDies, LeaveStarts, SameView, Session
      <3>3. QED
        BY <1>2, <2>2, <3>1, <3>2
    <2>3. QED
      BY <2>1, <2>2
  <1>3. ASSUME NEW c \in Conn, NEW u \in User, Identify(c, u) PROVE Goal
    <2>1. \E s : session' = [session EXCEPT ![c] = s]
      BY <1>3 DEF Identify
    <2>2. QED
      BY <1>1, <1>3, <2>1
  <1>4. ASSUME NEW c \in Conn, NEW ch \in Channel, NEW f \in Ufrag, JoinChannel(c, ch, f)
        PROVE  Goal
    <2>1. \E s : session' = [session EXCEPT ![c] = s]
      BY <1>4 DEF JoinChannel
    <2>2. QED
      BY <1>1, <1>4, <2>1
  <1>5. ASSUME NEW c \in Conn, NEW ch \in Channel, DeleteChannel(c, ch) PROVE Goal
    BY <1>b, <1>5 DEF DeleteChannel, SameView, Session
  <1>6. CASE UNCHANGED session
    BY <1>6 DEF SameView
  <1>7. QED
    BY <1>2, <1>3, <1>4, <1>5, <1>6
       DEF Next, vars, CreateChannel, RequestFloor, ReleaseFloor, ReapUser, ReapEndpoint, SweepFloor

\* Of a client that neither identifies twice nor joins twice, a session that is
\* in a channel stays what it is until it is taken out of that channel.
LEMMA JoinedSessions ==
    ASSUME BaseInv, [Next]_vars, NEW d \in Conn, session[d].channel # NoChannel
    PROVE  \/ LeaveRemoves(d) \/ CleanupRemoves(d)
           \/ /\ "reidentify" \notin Quirk => session'[d].user = session[d].user
              /\ "switch" \notin Quirk => /\ session'[d].channel = session[d].channel
                                         /\ session'[d].ufrag = session[d].ufrag
  <1>1. /\ session \in [Conn -> Session]
        /\ session[d] \in Session
        /\ session[d].user # NoUser
        /\ session[d].phase # "removed"
    BY DEF BaseInv, TypeOK, SessionOK
  <1>2. ASSUME NEW u \in User, Identify(d, u)
        PROVE  "reidentify" \in Quirk /\ session'[d].channel = session[d].channel
                                       /\ session'[d].ufrag = session[d].ufrag
    BY <1>1, <1>2 DEF Identify, Session
  <1>3. ASSUME NEW ch \in Channel, NEW f \in Ufrag, JoinChannel(d, ch, f)
        PROVE  "switch" \in Quirk /\ session'[d].user = session[d].user
    BY <1>1, <1>3 DEF JoinChannel, Session
  <1>4. QED
    BY <1>1, <1>2, <1>3, SessionViews DEF SameView, CleanupUnregisters

\* Members come by joining.
LEMMA MembersJoin ==
    ASSUME BaseInv, [Next]_vars, NEW ch \in Channel, NEW u \in members'[ch],
           u \notin members[ch]
    PROVE  \E c \in Conn, f \in Ufrag : JoinChannel(c, ch, f) /\ u = session[c].user
  <1>1. members \in [Channel -> SUBSET User]
    BY DEF BaseInv, TypeOK
  <1>2. ASSUME NEW c \in Conn, LeaveRemoves(c) \/ CleanupRemoves(c) PROVE FALSE
    BY <1>1, <1>2 DEF LeaveRemoves, CleanupRemoves, WithoutMember
  <1>3. ASSUME NEW c \in Conn, NEW k \in Channel, DeleteChannel(c, k) PROVE FALSE
    BY <1>1, <1>3 DEF DeleteChannel
  <1>4. ASSUME NEW v \in User, ReapUser(v) PROVE FALSE
    BY <1>1, <1>4 DEF ReapUser
  <1>5. ASSUME NEW c \in Conn, NEW k \in Channel, NEW f \in Ufrag, JoinChannel(c, k, f)
        PROVE  k = ch /\ u = session[c].user
    BY <1>1, <1>5 DEF JoinChannel
  <1>6. QED
    BY <1>2, <1>3, <1>4, <1>5, MembersChange

\* Users come to a floor by asking for it.
LEMMA FloorsAreAsked ==
    ASSUME BaseInv, [Next]_vars, NEW ch \in Channel, NEW u \in User,
           Concerns(floor'[ch], u), ~Concerns(floor[ch], u)
    PROVE  \E c \in Conn, p \in Priority, i \in Indicator :
               RequestFloor(c, ch, p, i) /\ u = session[c].user
  <1>1. /\ floor \in [Channel -> FloorRecord]
        /\ \A k \in Channel : FloorOK(floor[k]) /\ QueueOK(floor[k].queue)
        /\ \A c \in Conn : session[c].user \in User \cup {NoUser}
    BY DEF BaseInv, TypeOK, ChannelsOK, FloorOK, Session
  <1>2. ASSUME NEW k \in Channel, NEW f, floor' = [floor EXCEPT ![k] = f]
        PROVE  k = ch /\ Concerns(f, u)
    BY <1>1, <1>2
  <1>3. ASSUME NEW c \in Conn, CleanupRemoves(c) PROVE FALSE
    <2> DEFINE f == Disconnected(floor[ch], session[c].user)
    <2>1. Concerns(f, u) => Concerns(floor[ch], u)
      BY <1>1, DisconnectedConcerns
    <2>2. floor'[ch] = floor[ch] \/ floor'[ch] = f
      BY <1>1, <1>3 DEF CleanupRemoves, LookedUp
    <2> HIDE DEF f
    <2>3. QED
      BY <2>1, <2>2
  <1>4. ASSUME NEW c \in Conn, NEW k \in Channel, DeleteChannel(c, k) PROVE FALSE
    <2>1. floor' = [floor EXCEPT ![k] = NewFloor]
      BY <1>4 DEF DeleteChannel
    <2>2. QED
      BY <1>2, <2>1, NewFloorConcernsNobody
  <1>5. ASSUME NEW k \in Channel, floor' = [floor EXCEPT ![k] = DecideNext(floor[k])] PROVE FALSE
    BY <1>1, <1>2, <1>5, DecideNextConcerns DEF Concerns
  <1>6. ASSUME NEW c \in Conn, NEW k \in Channel, ReleaseFloor(c, k) PROVE FALSE
    <2> DEFINE f == RemoveFromQueue(floor[k], session[c].user)
    <2>1. \/ floor' = [floor EXCEPT ![k] = DecideNext(floor[k])]
          \/ floor' = [floor EXCEPT ![k] = f]
      BY <1>1, <1>6 DEF ReleaseFloor
    <2>2. Concerns(f, u) => Concerns(floor[k], u)
      BY <1>1, RemoveConcerns DEF Concerns
    <2> HIDE DEF f
    <2>3. QED
      BY <1>2, <1>5, <2>1, <2>2
  <1>7. ASSUME NEW k \in Channel, SweepFloor(k) PROVE FALSE
    BY <1>1, <1>5, <1>7 DEF SweepFloor
  <1>8. ASSUME NEW c \in Conn, NEW k \in Channel, NEW p \in Priority, NEW i \in Indicator,
               RequestFloor(c, k, p, i)
        PROVE  k = ch /\ u = session[c].user
    <2> DEFINE f == IF floor[k].state = "Idle" \/ CanPreempt(floor[k], p, i)
                    THEN Grant(floor[k], session[c].user, p, i)
                    ELSE Enqueue(floor[k], session[c].user, p, i)
    <2>1. floor' = [floor EXCEPT ![k] = f]
      BY <1>1, <1>8 DEF RequestFloor
    <2>2. session[c].user \in User
      BY <1>1, <1>8 DEF RequestFloor, Authenticated
    <2>3. \A v : Concerns(f, v) => v = session[c].user \/ Concerns(floor[k], v)
      BY <1>1, <2>2, RequestConcerns
    <2> HIDE DEF f
    <2>4. k = ch /\ Concerns(f, u)
      BY <1>2, <2>1
    <2>5. QED
      BY <2>3, <2>4
  <1>9. CASE UNCHANGED floor
    BY <1>9
  <1>10. QED
    BY <1>3, <1>4, <1>6, <1>7, <1>8, <1>9
       DEF Next, vars, Connect, PeerDies, CleanupStarts, CleanupUnregisters, LeaveStarts, LeaveRemoves,
           Identify, CreateChannel, JoinChannel, ReapUser, ReapEndpoint

-----------------------------------------------------------------------------
(* Endpoints                                                               *)

UfragsAreDistinct ==
    \A c, d \in Conn : session[c].ufrag = session[d].ufrag /\ session[c].ufrag # NoUfrag
                          => c = d

EndpointsAreKept ==
    \A e \in endpoints : \E c \in Conn :
        session[c].ufrag = e.ufrag /\ session[c].channel = e.channel

EndpointInv == UfragsAreDistinct /\ EndpointsAreKept

LEMMA NextEndpoints ==
    ASSUME BaseInv, [Next]_vars, EndpointInv, "switch" \notin Quirk
    PROVE  EndpointInv'
  <1>a. /\ session \in [Conn -> Session]
        /\ \A c \in Conn : SessionOK(session[c])
        /\ endpoints \subseteq Endpoint
    BY DEF BaseInv, TypeOK
  <1>b. \A e \in endpoints : e.ufrag # NoUfrag
    BY <1>a, SessionAssumption DEF Endpoint
  <1>1. ASSUME NEW c \in Conn, NEW ch \in Channel, NEW f \in Ufrag, JoinChannel(c, ch, f)
        PROVE  EndpointInv'
    <2> DEFINE s == [session[c] EXCEPT !.channel = ch, !.ufrag = f]
               e0 == [ufrag |-> f, user |-> session[c].user, channel |-> ch]
    <2>1. /\ session' = [session EXCEPT ![c] = s]
          /\ endpoints' = endpoints \cup {e0}
          /\ FreshUfrag(f)
          /\ session[c].channel = NoChannel
      BY <1>1 DEF JoinChannel
    <2>2. s.ufrag = f /\ s.channel = ch
      BY <1>a DEF Session
    <2>3. session[c].ufrag = NoUfrag
      BY <1>a, <2>1 DEF SessionOK
    <2> HIDE DEF s
    <2>4. /\ session'[c].ufrag = f /\ session'[c].channel = ch
          /\ \A d \in Conn : d # c => session'[d] = session[d]
          /\ \A d \in Conn : session[d].ufrag # f
      BY <1>a, <2>1, <2>2 DEF FreshUfrag
    <2>5. UfragsAreDistinct'
      BY <2>4 DEF EndpointInv, UfragsAreDistinct
    <2>6. EndpointsAreKept'
      <3>1. ASSUME NEW e \in endpoints
            PROVE  \E d \in Conn : session'[d].ufrag = e.ufrag /\ session'[d].channel = e.channel
        <4>1. PICK d \in Conn : session[d].ufrag = e.ufrag /\ session[d].channel = e.channel
          BY DEF EndpointInv, EndpointsAreKept
        <4>2. d # c
          BY <1>b, <2>3, <4>1
        <4>3. QED
          BY <2>4, <4>1, <4>2
      <3>2. session'[c].ufrag = e0.ufrag /\ session'[c].channel = e0.channel
        BY <2>4
      <3> HIDE DEF e0
      <3>3. QED
        BY <2>1, <3>1, <3>2 DEF EndpointsAreKept
    <2>7. QED
      BY <2>5, <2>6 DEF EndpointInv
  <1>2. ASSUME NEW c \in Conn, LeaveRemoves(c) \/ CleanupRemoves(c) PROVE EndpointInv'
    <2>1. /\ endpoints' = endpoints \ EndpointOf(c)
          /\ session'[c].ufrag = NoUfrag
          /\ \A d \in Conn : d # c => session'[d] = session[d]
      BY <1>a, <1>2 DEF LeaveRemoves, CleanupRemoves, Session
    <2>2. UfragsAreDistinct'
      BY <2>1 DEF EndpointInv, UfragsAreDistinct
    <2>3. EndpointsAreKept'
      BY <2>1 DEF EndpointInv, EndpointsAreKept, EndpointOf
    <2>4. QED
      BY <2>2, <2>3 DEF EndpointInv
  <1>3. ASSUME NEW c \in Conn, CleanupUnregisters(c) PROVE EndpointInv'
    <2>1. session[c].ufrag = NoUfrag
      BY <1>a, <1>3 DEF CleanupUnregisters, SessionOK
    <2>2. /\ session'[c].ufrag = NoUfrag
          /\ \A d \in Conn : d # c => session'[d] = session[d]
          /\ endpoints' = endpoints
      BY <1>a, <1>3 DEF CleanupUnregisters, NewSession
    <2>3. QED
      BY <1>b, <2>1, <2>2 DEF EndpointInv, UfragsAreDistinct, EndpointsAreKept
  <1>4. ASSUME NEW c \in Conn, NEW u \in User, Identify(c, u) PROVE EndpointInv'
    <2>1. /\ endpoints' = endpoints
          /\ \A d \in Conn : session'[d].ufrag = session[d].ufrag /\ session'[d].channel = session[d].channel
      BY <1>a, <1>4 DEF Identify, Session
    <2>2. QED
      BY <2>1 DEF EndpointInv, UfragsAreDistinct, EndpointsAreKept
  <1>5. CASE /\ \A d \in Conn : SameView(session'[d], session[d])
             /\ endpoints' \subseteq endpoints
    BY <1>5 DEF EndpointInv, UfragsAreDistinct, EndpointsAreKept, SameView
  <1>6. CASE ~ \E c \in Conn :
               \/ \E ch \in Channel, f \in Ufrag : JoinChannel(c, ch, f)
               \/ \E u \in User : Identify(c, u)
               \/ LeaveRemoves(c) \/ CleanupRemoves(c) \/ CleanupUnregisters(c)
    <2>1. \A d \in Conn : SameView(session'[d], session[d])
      BY <1>6, SessionViews
    <2>2. endpoints' \subseteq endpoints
      BY <1>6 DEF Next, vars, Connect, PeerDies, CleanupStarts, LeaveStarts, CreateChannel,
                  DeleteChannel, RequestFloor, ReleaseFloor, ReapUser, ReapEndpoint, SweepFloor
    <2>3. QED
      BY <1>5, <2>1, <2>2
  <1>7. QED
    BY <1>1, <1>2, <1>3, <1>4, <1>6

\* No client joins without leaving: every endpoint has one session to remove it.
THEOREM EndpointsAreOwned ==
    ASSUME "switch" \notin Quirk
    PROVE  Spec => []EndpointsHaveSessions
  <1>1. Init => EndpointInv
    BY DEF Init, EndpointInv, UfragsAreDistinct, EndpointsAreKept, NewSession
  <1>2. BaseInv /\ EndpointInv /\ [Next]_vars => EndpointInv'
    BY NextEndpoints
  <1>3. BaseInv /\ EndpointInv => EndpointsHaveSessions
    <2> SUFFICES ASSUME BaseInv, EndpointInv, NEW e \in endpoints
                 PROVE  Cardinality({c \in Conn : session[c].ufrag = e.ufrag
                                                    /\ session[c].channel = e.channel}) = 1
      BY DEF EndpointsHaveSessions
    <2> DEFINE S == {c \in Conn : session[c].ufrag = e.ufrag /\ session[c].channel = e.channel}
    <2>1. e.ufrag # NoUfrag
      BY SessionAssumption DEF BaseInv, TypeOK, Endpoint
    <2>2. PICK c \in Conn : session[c].ufrag = e.ufrag /\ session[c].channel = e.channel
      BY DEF EndpointInv, EndpointsAreKept
    <2>3. S = {c}
      BY <2>1, <2>2 DEF EndpointInv, UfragsAreDistinct
    <2>4. QED
      BY <2>3, FS_Singleton
  <1>4. QED
    BY <1>1, <1>2, <1>3, InitBase, NextBase, PTL DEF Spec

-----------------------------------------------------------------------------
(* Members                                                                 *)

\* c will take u out of ch when it leaves or is cleaned up.
WillRemove(c, u, ch) ==
    /\ session[c].user = u
    /\ session[c].channel = ch
    /\ session[c].phase \in {"leaving", "closing"} => session[c].held = ch

MemberInv ==
    \A ch \in Channel : \A u \in members[ch] : \E c \in Conn : WillRemove(c, u, ch)

\* What a handler has looked up is the session's channel, unless it is gone.
LEMMA HeldByLookup ==
    ASSUME BaseInv, [Next]_vars, NEW d \in Conn, session[d].channel # NoChannel,
           session'[d].phase \in {"leaving", "closing"}
    PROVE  \/ session'[d].held = LookedUp(d)
           \/ session'[d].phase = session[d].phase /\ session'[d].held = session[d].held
           \/ \E c \in Conn : DeleteChannel(c, session[d].held)
  <1> DEFINE Goal == \/ session'[d].held = LookedUp(d)
                     \/ session'[d].phase = session[d].phase /\ session'[d].held = session[d].held
                     \/ \E c \in Conn : DeleteChannel(c, session[d].held)
  <1>1. /\ session \in [Conn -> Session]
        /\ session[d] \in Session
    BY DEF BaseInv, TypeOK
  <1>2. ASSUME NEW c \in Conn,
               \/ Connect(c) \/ PeerDies(c) \/ CleanupUnregisters(c)
               \/ LeaveRemoves(c) \/ CleanupRemoves(c)
        PROVE  Goal
    BY <1>1, <1>2 DEF Connect, PeerDies, CleanupUnregisters, LeaveRemoves, CleanupRemoves,
                      Session, NewSession
  <1>3. ASSUME NEW c \in Conn, CleanupStarts(c) \/ LeaveStarts(c) PROVE Goal
    <2>1. CASE LeaveStarts(c)
      BY <1>1, <2>1 DEF LeaveStarts, Session
    <2>2. CASE CleanupStarts(c)
      BY <1>1, <2>2 DEF CleanupStarts, Session, NewSession
    <2>3. QED
      BY <1>3, <2>1, <2>2
  <1>4. ASSUME NEW c \in Conn, NEW u \in User, Identify(c, u) PROVE Goal
    BY <1>1, <1>4 DEF Identify, Session
  <1>5. ASSUME NEW c \in Conn, NEW ch \in Channel, NEW f \in Ufrag, JoinChannel(c, ch, f)
        PROVE  Goal
    BY <1>1, <1>5 DEF JoinChannel, Session
  <1>6. ASSUME NEW c \in Conn, NEW ch \in Channel, DeleteChannel(c, ch) PROVE Goal
    BY <1>1, <1>6 DEF DeleteChannel, Session
  <1>7. CASE UNCHANGED session
    BY <1>7
  <1>8. QED
    BY <1>2, <1>3, <1>4, <1>5, <1>6, <1>7
       DEF Next, vars, CreateChannel, RequestFloor, ReleaseFloor, ReapUser, ReapEndpoint, SweepFloor

LEMMA NextMembers ==
    ASSUME BaseInv, [Next]_vars, MemberInv, Quirk \cap {"switch", "reidentify"} = {}
    PROVE  MemberInv'
  <1> SUFFICES ASSUME NEW ch \in Channel, NEW u \in members'[ch]
               PROVE  (\E c \in Conn : WillRemove(c, u, ch))'
    BY DEF MemberInv
  <1>a. /\ session \in [Conn -> Session]
        /\ \A c \in Conn : SessionOK(session[c])
        /\ members \in [Channel -> SUBSET User]
        /\ ch # NoChannel
    BY SessionAssumption DEF BaseInv, TypeOK
  <1>1. CASE u \notin members[ch]
    <2>1. PICK c \in Conn, f \in Ufrag : JoinChannel(c, ch, f) /\ u = session[c].user
      BY <1>1, MembersJoin
    <2>2. WillRemove(c, u, ch)'
      BY <1>a, <2>1 DEF JoinChannel, Authenticated, WillRemove, Session
    <2>3. QED
      BY <2>2
  <1>2. CASE u \in members[ch]
    <2>1. PICK d \in Conn : WillRemove(d, u, ch)
      BY <1>2 DEF MemberInv
    <2>2. session[d].channel = ch /\ session[d].user = u
      BY <2>1 DEF WillRemove
    <2>3. ~LeaveRemoves(d) /\ ~CleanupRemoves(d)
      BY <1>a, <2>1 DEF WillRemove, LeaveRemoves, CleanupRemoves, WithoutMember
    <2>4. session'[d].user = u /\ session'[d].channel = ch
      BY <1>a, <2>2, <2>3, JoinedSessions
    <2>5. LookedUp(d) = ch
      BY <1>2, <2>2 DEF BaseInv, ChannelsOK, LookedUp
    <2>6. \A c \in Conn : ~DeleteChannel(c, ch)
      BY <1>a DEF DeleteChannel
    <2>7. ASSUME session'[d].phase \in {"leaving", "closing"} PROVE session'[d].held = ch
      <3>1. CASE session'[d].held = LookedUp(d)
        BY <2>5, <3>1
      <3>2. CASE session'[d].phase = session[d].phase /\ session'[d].held = session[d].held
        BY <2>1, <2>7, <3>2 DEF WillRemove
      <3>3. CASE \E c \in Conn : DeleteChannel(c, session[d].held)
        <4>1. PICK c \in Conn : DeleteChannel(c, session[d].held)
          BY <3>3
        <4>2. session[d].held # ch
          BY <2>6, <4>1
        <4>3. session[d].phase \notin {"leaving", "closing"}
          BY <2>1, <4>2 DEF WillRemove
        <4>4. session'[d].phase = session[d].phase
          BY <1>a, <4>1 DEF DeleteChannel, Session
        <4>5. QED
          BY <2>7, <4>3, <4>4
      <3>4. QED
        BY <1>a, <2>2, <2>7, <3>1, <3>2, <3>3, HeldByLookup
    <2>8. QED
      BY <2>4, <2>7 DEF WillRemove
  <1>3. QED
    BY <1>1, <1>2

\* No client identifies or joins twice: no membership outlives its connection.
THEOREM MembersAreKept ==
    ASSUME Quirk \cap {"switch", "reidentify"} = {}
    PROVE  Spec => []MembersHaveSessions
  <1>1. Init => MemberInv
    BY DEF Init, MemberInv
  <1>2. BaseInv /\ MemberInv /\ [Next]_vars => MemberInv'
    BY NextMembers
  <1>3. MemberInv => MembersHaveSessions
    BY DEF MemberInv, WillRemove, MembersHaveSessions
  <1>4. QED
    BY <1>1, <1>2, <1>3, InitBase, NextBase, PTL DEF Spec

-----------------------------------------------------------------------------
(* Floors                                                                  *)

\* c is in ch, and will take u off its floor before it is in no channel.
WillRelease(c, u, ch) ==
    /\ session[c].user = u
    /\ session[c].channel = ch
    /\ session[c].phase # "leaving"

FloorInv ==
    \A ch \in Channel, u \in User :
        OnFloor(ch, u) => \E c \in Conn : WillRelease(c, u, ch)

LEMMA LeavingStarts ==
    ASSUME BaseInv, [Next]_vars, NEW d \in Conn,
           session[d].phase # "leaving", session'[d].phase = "leaving"
    PROVE  LeaveStarts(d)
  <1>1. session \in [Conn -> Session] /\ session[d] \in Session
    BY DEF BaseInv, TypeOK
  <1>2. ASSUME NEW c \in Conn,
               \/ Connect(c) \/ PeerDies(c) \/ CleanupUnregisters(c)
               \/ LeaveRemoves(c) \/ CleanupRemoves(c) \/ CleanupStarts(c)
        PROVE  FALSE
    BY <1>1, <1>2 DEF Connect, PeerDies, CleanupUnregisters, LeaveRemoves, CleanupRemoves,
                      CleanupStarts, Session, NewSession
  <1>3. ASSUME NEW c \in Conn, LeaveStarts(c) PROVE c = d
    BY <1>1, <1>3 DEF LeaveStarts
  <1>4. ASSUME NEW c \in Conn, NEW u \in User, Identify(c, u) PROVE FALSE
    BY <1>1, <1>4 DEF Identify, Session
  <1>5. ASSUME NEW c \in Conn, NEW ch \in Channel, NEW f \in Ufrag, JoinChannel(c, ch, f)
        PROVE  FALSE
    BY <1>1, <1>5 DEF JoinChannel, Session
  <1>6. ASSUME NEW c \in Conn, NEW ch \in Channel, DeleteChannel(c, ch) PROVE FALSE
    BY <1>1, <1>6 DEF DeleteChannel, Session
  <1>7. QED
    BY <1>2, <1>3, <1>4, <1>5, <1>6
       DEF Next, vars, CreateChannel, RequestFloor, ReleaseFloor, ReapUser, ReapEndpoint, SweepFloor

LEMMA NextFloors ==
    ASSUME BaseInv, [Next]_vars, FloorInv,
           Quirk \cap {"switch", "reidentify", "abandon", "outsider"} = {}
    PROVE  FloorInv'
  <1> SUFFICES ASSUME NEW ch \in Channel, NEW u \in User, OnFloor(ch, u)'
               PROVE  (\E c \in Conn : WillRelease(c, u, ch))'
    BY DEF FloorInv
  <1>a. /\ session \in [Conn -> Session]
        /\ \A c \in Conn : SessionOK(session[c])
        /\ floor \in [Channel -> FloorRecord]
        /\ \A k \in Channel : FloorOK(floor[k])
        /\ ch # NoChannel
    BY SessionAssumption DEF BaseInv, TypeOK, ChannelsOK
  <1>b. Concerns(floor'[ch], u)
    BY DEF OnFloor, Concerns
  <1>1. CASE ~OnFloor(ch, u)
    <2>1. PICK c \in Conn, p \in Priority, i \in Indicator :
              RequestFloor(c, ch, p, i) /\ u = session[c].user
      BY <1>1, <1>b, FloorsAreAsked DEF OnFloor, Concerns
    <2>2. WillRelease(c, u, ch)'
      BY <2>1 DEF RequestFloor, Authenticated, WillRelease
    <2>3. QED
      BY <2>2
  <1>2. CASE OnFloor(ch, u)
    <2>1. PICK d \in Conn : WillRelease(d, u, ch)
      BY <1>2 DEF FloorInv
    <2>2. session[d].channel = ch /\ session[d].user = u /\ session[d].phase # "leaving"
      BY <2>1 DEF WillRelease
    <2>3. ch \in exists
      BY <1>2, NewFloorConcernsNobody DEF BaseInv, ChannelsOK, OnFloor, Concerns
    <2>4. ~LeaveRemoves(d)
      BY <2>2 DEF LeaveRemoves
    <2>5. ~CleanupRemoves(d)
      <3> SUFFICES ASSUME CleanupRemoves(d) PROVE FALSE
        OBVIOUS
      <3>1. floor' = [floor EXCEPT ![ch] = Disconnected(floor[ch], u)]
        BY <1>a, <2>2, <2>3 DEF CleanupRemoves, LookedUp
      <3>2. QED
        BY <1>a, <1>b, <3>1, DisconnectedConcerns
    <2>6. session'[d].user = u /\ session'[d].channel = ch
      BY <1>a, <2>2, <2>4, <2>5, JoinedSessions
    <2>7. session'[d].phase # "leaving"
      <3> SUFFICES ASSUME session'[d].phase = "leaving" PROVE FALSE
        OBVIOUS
      <3>1. LeaveStarts(d)
        BY <2>2, LeavingStarts
      <3>2. QED
        BY <1>2, <2>2, <3>1 DEF LeaveStarts
    <2>8. QED
      BY <2>6, <2>7 DEF WillRelease
  <1>3. QED
    BY <1>1, <1>2

\* No client identifies or joins twice, leaves while it is on the floor or asks for a
\* floor from outside: everybody on a floor is in its channel, with a connection
\* whose cleanup will take them off it.
THEOREM FloorsAreKept ==
    ASSUME Quirk \cap {"switch", "reidentify", "abandon", "outsider"} = {}
    PROVE  Spec => []FloorHasSessions
  <1>1. Init => FloorInv
    BY NewFloorConcernsNobody DEF Init, FloorInv, OnFloor, Concerns
  <1>2. BaseInv /\ FloorInv /\ [Next]_vars => FloorInv'
    BY NextFloors
  <1>3. FloorInv => FloorHasSessions
    BY DEF FloorInv, WillRelease, FloorHasSessions
  <1>4. QED
    BY <1>1, <1>2, <1>3, InitBase, NextBase, PTL DEF Spec

-----------------------------------------------------------------------------
(* Routing                                                                 *)

RegisteredInv ==
    \A u \in User : registered[u] # NoConn => Served(u)

\* Without reconnecting clients a user has one connection, which is the one it
\* is registered with, and the channel it is in has it as a member.
ServedInv ==
    /\ exists = Channel
    /\ \A c, d \in Conn : session[c].user = session[d].user /\ session[c].user # NoUser
                             => c = d
    /\ \A c \in Conn : session[c].user # NoUser /\ Alive(c) =>
          /\ registered[session[c].user] = c
          /\ session[c].channel # NoChannel =>
                session[c].user \in members[session[c].channel]

\* A session gets its user by identifying and keeps it until it is over.
LEMMA UsersIdentify ==
    ASSUME BaseInv, [Next]_vars, NEW d \in Conn
    PROVE  \/ session'[d].user = session[d].user
           \/ \E u \in User : Identify(d, u) /\ session'[d].user = u
           \/ CleanupUnregisters(d) /\ session'[d].user = NoUser
  <1>1. session \in [Conn -> Session] /\ session[d] \in Session
    BY DEF BaseInv, TypeOK
  <1>2. ASSUME NEW u \in User, Identify(d, u) PROVE session'[d].user = u
    BY <1>1, <1>2 DEF Identify, Session
  <1>3. ASSUME NEW ch \in Channel, NEW f \in Ufrag, JoinChannel(d, ch, f)
        PROVE  session'[d].user = session[d].user
    BY <1>1, <1>3 DEF JoinChannel, Session
  <1>4. ASSUME LeaveRemoves(d) \/ CleanupRemoves(d)
        PROVE  session'[d].user = session[d].user
    BY <1>1, <1>4 DEF LeaveRemoves, CleanupRemoves, Session
  <1>5. ASSUME CleanupUnregisters(d) PROVE session'[d].user = NoUser
    BY <1>1, <1>5 DEF CleanupUnregisters, NewSession
  <1>6. QED
    BY <1>2, <1>3, <1>4, <1>5, SessionViews DEF SameView

LEMMA NextRegistered ==
    ASSUME BaseInv, [Next]_vars, RegisteredInv, "reidentify" \notin Quirk
    PROVE  RegisteredInv'
  <1> SUFFICES ASSUME NEW u \in User, registered'[u] # NoConn
               PROVE  \E d \in Conn : session'[d].user = u
    BY DEF RegisteredInv, Served
  <1>1. /\ registered \in [User -> Conn \cup {NoConn}]
        /\ session \in [Conn -> Session]
    BY DEF BaseInv, TypeOK
  <1>2. ASSUME NEW c \in Conn, Identify(c, u)
        PROVE  \E d \in Conn : session'[d].user = u
    BY <1>1, <1>2 DEF Identify, Session
  <1>3. CASE ~ \E c \in Conn : Identify(c, u)
    <2>1. registered'[u] = registered[u]
      <3>1. ASSUME NEW c \in Conn, CleanupUnregisters(c) PROVE registered'[u] = registered[u]
        BY <1>1, <3>1 DEF CleanupUnregisters
      <3>2. ASSUME NEW v \in User, ReapUser(v) PROVE registered'[u] = registered[u]
        BY <1>1, <3>2 DEF ReapUser
      <3>3. ASSUME NEW c \in Conn, NEW v \in User, Identify(c, v)
            PROVE  registered'[u] = registered[u]
        BY <1>1, <1>3, <3>3 DEF Identify
      <3>4. QED
        BY <3>1, <3>2, <3>3, RegisteredChanges
    <2>2. PICK d \in Conn : session[d].user = u
      BY <2>1 DEF RegisteredInv, Served
    <2>3. ~CleanupUnregisters(d)
      BY <1>1, <2>2 DEF CleanupUnregisters
    <2>4. ASSUME NEW v \in User, Identify(d, v) PROVE FALSE
      BY <2>2, <2>4, UserAssumption DEF Identify
    <2>5. QED
      BY <2>2, <2>3, <2>4, UsersIdentify
  <1>4. QED
    BY <1>2, <1>3

\* Clients identify once and join once, do not leave while they are on the
\* floor and ask for no floor from outside: when the last connection is over,
\* the hubs are as they were at the start.
THEOREM AllIsCleanedUp ==
    ASSUME Quirk \cap {"switch", "reidentify", "abandon", "outsider"} = {}
    PROVE  Spec => []NothingLeftBehind
  <1> DEFINE Inv == BaseInv /\ EndpointInv /\ MemberInv /\ FloorInv /\ RegisteredInv
  <1>1. Init => Inv
    BY InitBase, NewFloorConcernsNobody
       DEF Init, EndpointInv, UfragsAreDistinct, EndpointsAreKept, NewSession, MemberInv,
           FloorInv, OnFloor, Concerns, RegisteredInv
  <1>2. Inv /\ [Next]_vars => Inv'
    BY NextBase, NextEndpoints, NextMembers, NextFloors, NextRegistered
  <1>3. Inv => NothingLeftBehind
    <2> SUFFICES ASSUME Inv, \A c \in Conn : session[c].phase = "closed"
                 PROVE  /\ \A u \in User : registered[u] = NoConn
                        /\ \A ch \in Channel : members[ch] = {} /\ floor[ch] = NewFloor
                        /\ endpoints = {}
      BY DEF NothingLeftBehind
    <2>1. \A c \in Conn : session[c].user = NoUser /\ session[c].ufrag = NoUfrag
      BY DEF BaseInv, SessionOK, NewSession
    <2>2. \A u \in User : registered[u] = NoConn
      BY <2>1, UserAssumption DEF RegisteredInv, Served
    <2>3. ASSUME NEW ch \in Channel PROVE members[ch] = {}
      BY <2>1, UserAssumption DEF MemberInv, WillRemove, BaseInv, TypeOK
    <2>4. ASSUME NEW ch \in Channel PROVE floor[ch] = NewFloor
      <3>1. FloorOK(floor[ch]) /\ floor[ch].floor_taken_by \in User \cup {NoUser}
        BY DEF BaseInv, ChannelsOK, FloorOK, FloorRecord
      <3>2. \A u \in User : floor[ch].floor_taken_by # u
        BY <2>1, UserAssumption DEF FloorInv, OnFloor, WillRelease
      <3>3. floor[ch].floor_taken_by = NoUser /\ floor[ch].state # "Taken"
        BY <3>1, <3>2 DEF FloorOK
      <3>4. QED
        BY <3>1, <3>3 DEF FloorOK, FloorRecord
    <2>5. endpoints = {}
      BY <2>1, SessionAssumption DEF EndpointInv, EndpointsAreKept, BaseInv, TypeOK, Endpoint
    <2>6. QED
      BY <2>2, <2>3, <2>4, <2>5
  <1> HIDE DEF Inv
  <1>4. QED
    BY <1>1, <1>2, <1>3, PTL DEF Spec

\* Who identified before and is alive was alive before.
LEMMA AliveLonger ==
    ASSUME BaseInv, [Next]_vars, NEW d \in Conn, session[d].user # NoUser, Alive(d)'
    PROVE  Alive(d)
  <1>1. session \in [Conn -> Session] /\ session[d] \in Session /\ SessionOK(session[d])
    BY DEF BaseInv, TypeOK
  <1>2. ASSUME NEW c \in Conn, Connect(c) PROVE Alive(d)
    BY <1>1, <1>2 DEF Connect, Alive, SessionOK, NewSession
  <1>3. ASSUME NEW c \in Conn,
               \/ PeerDies(c) \/ CleanupUnregisters(c)
               \/ LeaveRemoves(c) \/ CleanupRemoves(c) \/ CleanupStarts(c) \/ LeaveStarts(c)
        PROVE  Alive(d)
    BY <1>1, <1>3 DEF PeerDies, CleanupUnregisters, LeaveRemoves, CleanupRemoves, LeaveStarts,
                      Authenticated, CleanupStarts, Session, NewSession, Alive
  <1>4. ASSUME NEW c \in Conn, NEW u \in User, Identify(c, u) PROVE Alive(d)
    BY <1>1, <1>4 DEF Identify, Session, Alive
  <1>5. ASSUME NEW c \in Conn, NEW ch \in Channel, NEW f \in Ufrag, JoinChannel(c, ch, f)
        PROVE  Alive(d)
    BY <1>1, <1>5 DEF JoinChannel, Authenticated, Session, Alive
  <1>6. ASSUME NEW c \in Conn, NEW ch \in Channel, DeleteChannel(c, ch) PROVE Alive(d)
    BY <1>1, <1>6 DEF DeleteChannel, Session, Alive
  <1>7. CASE UNCHANGED session
    BY <1>7 DEF Alive
  <1>8. QED
    BY <1>2, <1>3, <1>4, <1>5, <1>6, <1>7
       DEF Next, vars, CreateChannel, RequestFloor, ReleaseFloor, ReapUser, ReapEndpoint, SweepFloor

LEMMA NextServed ==
    ASSUME BaseInv, [Next]_vars, ServedInv,
           Quirk \cap {"reconnect", "reidentify", "silent", "delete"} = {}
    PROVE  ServedInv'
  <1>a. /\ session \in [Conn -> Session]
        /\ \A c \in Conn : SessionOK(session[c])
        /\ registered \in [User -> Conn \cup {NoConn}]
        /\ members \in [Channel -> SUBSET User]
        /\ exists = Channel
    BY DEF BaseInv, TypeOK, ServedInv
  <1>1. exists' = Channel
    <2>1. \A c \in Conn, ch \in Channel : ~CreateChannel(c, ch) /\ ~DeleteChannel(c, ch)
      BY <1>a DEF CreateChannel, DeleteChannel
    <2>2. QED
      BY <1>a, <2>1, ExistsChanges
  <1>2. ASSUME NEW c \in Conn, NEW d \in Conn,
               session'[c].user = session'[d].user, session'[c].user # NoUser, c # d
        PROVE  FALSE
    <2>1. ASSUME NEW a \in Conn, NEW b \in Conn, NEW u \in User, a # b,
                 Identify(a, u), session'[b].user = u
          PROVE  FALSE
      <3>1. session'[b] = session[b]
        BY <1>a, <2>1 DEF Identify
      <3>2. ~Served(u)
        BY <2>1 DEF Identify
      <3>3. QED
        BY <2>1, <3>1, <3>2 DEF Served
    <2>2. session'[c].user = session[c].user
      <3>1. ASSUME NEW u \in User, Identify(c, u), session'[c].user = u PROVE FALSE
        BY <1>2, <2>1, <3>1
      <3>2. QED
        BY <1>2, <3>1, UsersIdentify
    <2>3. session'[d].user = session[d].user
      <3>1. ASSUME NEW u \in User, Identify(d, u), session'[d].user = u PROVE FALSE
        BY <1>2, <2>1, <3>1
      <3>2. QED
        BY <1>2, <3>1, UsersIdentify
    <2>4. QED
      BY <1>2, <2>2, <2>3 DEF ServedInv
  <1>3. ASSUME NEW c \in Conn, session'[c].user # NoUser, Alive(c)'
        PROVE  /\ registered'[session'[c].user] = c
               /\ session'[c].channel # NoChannel =>
                     session'[c].user \in members'[session'[c].channel]
    <2>1. ASSUME NEW u \in User, Identify(c, u)
          PROVE  /\ session'[c].user = u /\ registered'[u] = c
                 /\ session'[c].channel = NoChannel
      BY <1>a, <2>1 DEF Identify, Session, SessionOK
    <2>2. CASE ~ \E u \in User : Identify(c, u)
      <3> DEFINE u == session[c].user
      <3>1. session'[c].user = u /\ u # NoUser
        BY <1>3, <2>2, UsersIdentify
      <3>2. u \in User
        BY <1>a, <3>1 DEF Session
      <3>3. \A d \in Conn : session[d].user = u => d = c
        BY <3>1 DEF ServedInv
      <3>4. Alive(c)
        BY <1>a, <1>3, <3>1, AliveLonger
      <3>5. registered[u] = c
        BY <3>1, <3>4 DEF ServedInv
      <3> HIDE DEF u
      <3>6. registered'[u] = c
        <4>1. ASSUME NEW d \in Conn, CleanupUnregisters(d) PROVE registered'[u] = c
          <5>1. ~Alive(d)
            BY <4>1 DEF CleanupUnregisters, Alive
          <5>2. session[d].user # u
            BY <3>3, <3>4, <5>1
          <5>3. QED
            BY <1>a, <3>2, <3>5, <4>1, <5>2 DEF CleanupUnregisters
        <4>2. ASSUME NEW v \in User, ReapUser(v) PROVE registered'[u] = c
          <5>1. v # u
            BY <3>4, <4>2 DEF ReapUser, Zombie, u
          <5>2. QED
            BY <1>a, <3>2, <3>5, <4>2, <5>1 DEF ReapUser
        <4>3. ASSUME NEW d \in Conn, NEW v \in User, Identify(d, v) PROVE registered'[u] = c
          <5>1. v # u
            BY <4>3 DEF Identify, Served, u
          <5>2. QED
            BY <1>a, <3>2, <3>5, <4>3, <5>1 DEF Identify
        <4>4. QED
          BY <3>5, <4>1, <4>2, <4>3, RegisteredChanges
      <3>7. ASSUME session'[c].channel # NoChannel PROVE u \in members'[session'[c].channel]
        <4>1. ASSUME NEW ch \in Channel, NEW f \in Ufrag, JoinChannel(c, ch, f)
              PROVE  u \in members'[session'[c].channel]
          BY <1>a, <4>1 DEF JoinChannel, Session, u
        <4>2. CASE session'[c].channel = session[c].channel
          <5> DEFINE ch == session[c].channel
          <5>1. ch \in Channel /\ u \in members[ch]
            BY <1>a, <3>1, <3>4, <3>7, <4>2 DEF ServedInv, Session, u
          <5>2. ~LeaveRemoves(c) /\ ~CleanupRemoves(c)
            BY <1>a, <3>7, <4>2, SessionAssumption DEF LeaveRemoves, CleanupRemoves, Session
          <5> HIDE DEF ch
          <5>3. ASSUME NEW d \in Conn, LeaveRemoves(d) \/ CleanupRemoves(d) PROVE u \in members'[ch]
            <6>1. session[d].user # u
              BY <3>3, <5>2, <5>3
            <6>2. members' = WithoutMember(d)
              BY <5>3 DEF LeaveRemoves, CleanupRemoves
            <6>3. QED
              BY <5>1, <6>1, <6>2 DEF WithoutMember
          <5>4. ASSUME NEW v \in User, ReapUser(v) PROVE u \in members'[ch]
            <6>1. v # u
              BY <3>4, <5>4 DEF ReapUser, Zombie, u
            <6>2. QED
              BY <5>1, <5>4, <6>1 DEF ReapUser
          <5>5. ASSUME NEW d \in Conn, NEW k \in Channel, NEW f \in Ufrag, JoinChannel(d, k, f)
                PROVE  u \in members'[ch]
            BY <1>a, <5>1, <5>5 DEF JoinChannel
          <5>6. \A d \in Conn, k \in Channel : ~DeleteChannel(d, k)
            BY DEF DeleteChannel
          <5>7. u \in members'[ch]
            BY <5>1, <5>3, <5>4, <5>5, <5>6, MembersChange
          <5>8. QED
            BY <4>2, <5>7 DEF ch
        <4>3. CASE LeaveRemoves(c) \/ CleanupRemoves(c) \/ CleanupUnregisters(c)
          BY <1>a, <3>7, <4>3 DEF LeaveRemoves, CleanupRemoves, CleanupUnregisters, Session, NewSession
        <4>4. QED
          BY <2>2, <4>1, <4>2, <4>3, SessionViews DEF SameView
      <3>8. QED
        BY <3>1, <3>6, <3>7 DEF u
    <2>3. QED
      BY <2>1, <2>2
  <1>4. QED
    BY <1>1, <1>2, <1>3 DEF ServedInv

\* No client identifies while another connection still serves the same user,
\* identifies twice, falls silent or deletes channels: who has joined is a member,
\* and is routed to.
THEOREM AllAreServed ==
    ASSUME Quirk \cap {"reconnect", "reidentify", "silent", "delete"} = {}
    PROVE  Spec => []SessionsAreServed
  <1>1. Init => ServedInv
    BY DEF Init, ServedInv, NewSession
  <1>2. BaseInv /\ ServedInv /\ [Next]_vars => ServedInv'
    BY NextServed
  <1>3. BaseInv /\ ServedInv => SessionsAreServed
    BY SessionAssumption
       DEF BaseInv, TypeOK, ServedInv, SessionsAreServed, Authenticated, Alive
  <1>4. QED
    BY <1>1, <1>2, <1>3, InitBase, NextBase, PTL DEF Spec
=============================================================================
