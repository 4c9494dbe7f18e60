------------------------------ MODULE Delivery ------------------------------
(***************************************************************************)
(* What the handlers of one channel's members send, through the bounded    *)
(* queue each connection has, and what the members make of it.  Every      *)
(* connection has a task that handles one request at a time and awaits     *)
(* each send, and a task (rx_loop) that writes its queue to the socket;    *)
(* the reaper sends too when it revokes a floor.                           *)
(*                                                                         *)
(* The channel exists throughout (Sessions has its creation and deletion), *)
(* its capacity is not reached, and each client has its own user.          *)
(***************************************************************************)
EXTENDS Integers, SequencesExt, FiniteSets

CONSTANTS
    Client,
    Nobody,
    Joined,     \* the clients that are members at first
    Slow,       \* those that may stop reading for a while
    Size,       \* EGRESS_QUEUE_SIZE
    Requests,   \* bound: the requests each client makes, each one of a set
    Revocations \* bound: how many floors the reaper revokes

Request == {"join", "leave", "update", "message", "look", "refused", "ignored"}

ASSUME DeliveryAssumption ==
    /\ Nobody \notin Client
    /\ IsFiniteSet(Client)
    /\ Joined \cup Slow \subseteq Client
    /\ Size \in Nat \ {0}
    /\ Requests \in [Client -> Seq(SUBSET Request)]
    /\ Revocations \in Nat

VARIABLES
    members,    \* Channel.members
    listed,     \* whose endpoints the channel has
    users,      \* UserHub.users
    channel,    \* the clients whose session has the channel as its current one
    handler,    \* what each connection's task is at
    reaper,     \* what the reaper's task has left to send, and how often it began
    queue,      \* each connection's egress queue
    line,       \* how the other end of a connection takes what is written
    requests,   \* those a client has not made yet
    roster,     \* who, each client believes, is in the channel
    excused     \* a leave has met a join

vars == <<members, listed, users, channel, handler, reaper, queue, line, requests,
          roster, excused>>
hubs == <<members, listed, users, channel>>

Event == {"join", "peer_added", "leave", "peer_removed", "update", "message", "revoke"}
Packet ==
    [op: Event, user: Client \cup {Nobody}]
    \cup [op: {"joined"}, user: SUBSET Client]
    \cup [op: {"left", "answer"}, user: {Nobody}]
Send == [to: Client, packet: Packet]

Stage ==
    {"idle", "adding", "joining", "adds_peer", "shows_peers",
     "leaving", "removes_peer", "closing", "closes_peer", "unregisters",
     "updating", "gone"}

\* members: the copy of the channel's members the handler works with; an idle
\* task with something to send has only that left of a request.
Idle == [at |-> "idle", members |-> {}, sends |-> << >>]

TypeOK ==
    /\ members \cup listed \cup users \cup channel \subseteq Client
    /\ \A c \in Client :
        /\ handler[c].at \in Stage /\ handler[c].members \subseteq Client
        /\ handler[c].sends \in Seq(Send)
        /\ queue[c] \in Seq(Packet) /\ Len(queue[c]) <= Size
        /\ line[c] \in {"reading", "stalled", "closed"}
        /\ requests[c] \in Seq(SUBSET Request)
        /\ roster[c] \subseteq Client
    /\ reaper.revoked \in 0..Revocations /\ reaper.sends \in Seq(Send)
    /\ excused \in BOOLEAN

\* The clients have identified, and those of Joined have joined and heard of
\* each other.
Init ==
    /\ members = Joined /\ listed = Joined /\ channel = Joined
    /\ users = Client
    /\ handler = [c \in Client |-> Idle]
    /\ reaper = [revoked |-> 0, sends |-> << >>]
    /\ queue = [c \in Client |-> << >>]
    /\ line = [c \in Client |-> "reading"]
    /\ requests = Requests
    /\ roster = [c \in Client |-> IF c \in Joined THEN Joined ELSE {}]
    /\ excused = FALSE
-----------------------------------------------------------------------------
(* Sending *)

PacketOf(op, c) == [op |-> op, user |-> c]
To(c, packet) == <<[to |-> c, packet |-> packet]>>
Answer(c) == To(c, PacketOf("answer", Nobody))

\* broadcast_to: the users among those named, in the order of a hash set.
Broadcasts(names, packet) ==
    {[i \in DOMAIN order |-> [to |-> order[i], packet |-> packet]] :
        order \in SetToSeqs(names \cap users)}

Room(s) == line[s.to] # "closed" /\ Len(queue[s.to]) < Size

\* What an answer lists is added to what has been heard before it.
Believed(believed, packet) ==
    CASE packet.op = "joined" -> believed \cup packet.user
      [] packet.op = "join" -> believed \cup {packet.user}
      [] packet.op = "leave" -> believed \ {packet.user}
      [] packet.op = "left" -> {}
      [] OTHER -> believed

\* A client that is not slow has read its queue before anything else happens.
Put(s) ==
    \/ /\ s.to \in Slow
       /\ queue' = [queue EXCEPT ![s.to] = Append(@, s.packet)]
       /\ UNCHANGED roster
    \/ /\ s.to \notin Slow
       /\ roster' = [roster EXCEPT ![s.to] = Believed(@, s.packet)]
       /\ UNCHANGED queue

FaultySend(c) ==
    /\ handler[c].sends # << >>
    /\ LET s == Head(handler[c].sends) IN
        \/ /\ Room(s) /\ Put(s)
           /\ handler' = [handler EXCEPT ![c].sends = Tail(@)]
        \/ /\ line[s.to] = "closed"
           /\ handler' = [handler EXCEPT ![c].sends = << >>]
           /\ UNCHANGED <<queue, roster>>
    /\ UNCHANGED <<hubs, reaper, line, requests, excused>>

StubbornSend(c) ==
    /\ handler[c].sends # << >>
    /\ LET s == Head(handler[c].sends) IN
        /\ Room(s) /\ Put(s)
        /\ handler' = [handler EXCEPT ![c].sends = Tail(@)]
    /\ UNCHANGED <<hubs, reaper, line, requests, excused>>

OverfullSend(c) ==
    /\ handler[c].sends # << >>
    /\ Put(Head(handler[c].sends))
    /\ handler' = [handler EXCEPT ![c].sends = Tail(@)]
    /\ UNCHANGED <<hubs, reaper, line, requests, excused>>

\* tx.send: it waits while the queue is full, and fails when rx_loop has
\* ended; only the answer to CHANNEL_JOIN ends its handler then.
SendNext(c) ==
    /\ handler[c].sends # << >>
    /\ LET s == Head(handler[c].sends) IN
        \/ /\ Room(s) /\ Put(s)
           /\ handler' = [handler EXCEPT ![c].sends = Tail(@)]
        \/ /\ line[s.to] = "closed"
           /\ handler' = [handler EXCEPT ![c] =
                IF handler[c].at = "joining" THEN Idle
                ELSE [handler[c] EXCEPT !.sends = Tail(@)]]
           /\ UNCHANGED <<queue, roster>>
    /\ UNCHANGED <<hubs, reaper, line, requests, excused>>

\* A handler starts with the client's next request, and ends by itself.
Reaches(c, stage) == handler[c].at = stage /\ handler[c].sends = << >>

Starts(c, request) ==
    /\ Reaches(c, "idle") /\ line[c] # "closed"
    /\ requests[c] # << >> /\ request \in Head(requests[c])
    /\ requests' = [requests EXCEPT ![c] = Tail(@)]

Goes(c, stage, names, sends) ==
    handler' = [handler EXCEPT ![c] = [at |-> stage, members |-> names, sends |-> sends]]

GoesTelling(c, stage, names, op, exclude) ==
    \E sends \in Broadcasts(names \ exclude, PacketOf(op, c)) : Goes(c, stage, names, sends)

-----------------------------------------------------------------------------
(* CHANNEL_JOIN *)

Joining == {"adding", "joining", "adds_peer", "shows_peers"}
Leaving == {"leaving", "removes_peer", "closing", "closes_peer"}
SomeoneAt(stages) == \E c \in Client : handler[c].at \in stages

JoinAdds(c) ==
    /\ Starts(c, "join")
    /\ c \notin members
    /\ members' = members \cup {c}
    /\ Goes(c, "adding", {}, << >>)
    /\ excused' = (excused \/ SomeoneAt(Leaving))
    /\ UNCHANGED <<listed, users, channel, reaper, queue, line, roster>>

\* The endpoint, the session, and an answer that names the endpoints of the
\* channel.
JoinLists(c) ==
    /\ Reaches(c, "adding")
    /\ listed' = listed \cup {c} /\ channel' = channel \cup {c}
    /\ Goes(c, "joining", {}, To(c, PacketOf("joined", listed')))
    /\ UNCHANGED <<members, users, reaper, queue, line, requests, roster, excused>>

JoinTells(c) ==
    /\ Reaches(c, "joining")
    /\ GoesTelling(c, "adds_peer", members, "join", {c})
    /\ UNCHANGED <<hubs, reaper, queue, line, requests, roster, excused>>

JoinAddsPeer(c) ==
    /\ Reaches(c, "adds_peer")
    /\ GoesTelling(c, "shows_peers", handler[c].members, "peer_added", {c})
    /\ UNCHANGED <<hubs, reaper, queue, line, requests, roster, excused>>

JoinShowsPeers(c) ==
    /\ Reaches(c, "shows_peers")
    /\ \E order \in SetToSeqs(listed \ {c}) :
        Goes(c, "idle", {}, [i \in DOMAIN order |->
            [to |-> c, packet |-> PacketOf("peer_added", order[i])]])
    /\ UNCHANGED <<hubs, reaper, queue, line, requests, roster, excused>>
-----------------------------------------------------------------------------
(* CHANNEL_LEAVE, and the cleanup of a connection that has ended *)

LeaveTells(c) ==
    /\ Starts(c, "leave")
    /\ c \in channel
    /\ GoesTelling(c, "leaving", members, "leave", {c})
    /\ excused' = (excused \/ SomeoneAt(Joining))
    /\ UNCHANGED <<hubs, reaper, queue, line, roster>>

LeaveRemovesPeer(c) ==
    /\ Reaches(c, "leaving")
    /\ GoesTelling(c, "removes_peer", handler[c].members, "peer_removed", {c})
    /\ UNCHANGED <<hubs, reaper, queue, line, requests, roster, excused>>

Removes(c) ==
    /\ members' = members \ {c} /\ listed' = listed \ {c}
    /\ channel' = channel \ {c}

LeaveRemoves(c) ==
    /\ Reaches(c, "removes_peer")
    /\ Removes(c)
    /\ Goes(c, "idle", {}, To(c, PacketOf("left", Nobody)))
    /\ UNCHANGED <<users, reaper, queue, line, requests, roster, excused>>

CleanupStarts(c) ==
    /\ line[c] = "closed" /\ Reaches(c, "idle")
    /\ \/ /\ c \in channel
          /\ GoesTelling(c, "closing", members, "leave", {c})
          /\ excused' = (excused \/ SomeoneAt(Joining))
       \/ c \notin channel /\ Goes(c, "unregisters", {}, << >>) /\ UNCHANGED excused
    /\ UNCHANGED <<hubs, reaper, queue, line, requests, roster>>

CleanupRemovesPeer(c) ==
    /\ Reaches(c, "closing")
    /\ GoesTelling(c, "closes_peer", handler[c].members, "peer_removed", {c})
    /\ UNCHANGED <<hubs, reaper, queue, line, requests, roster, excused>>

CleanupRemoves(c) ==
    /\ Reaches(c, "closes_peer")
    /\ Removes(c)
    /\ Goes(c, "unregisters", {}, << >>)
    /\ UNCHANGED <<users, reaper, queue, line, requests, roster, excused>>

CleanupUnregisters(c) ==
    /\ Reaches(c, "unregisters")
    /\ users' = users \ {c}
    /\ Goes(c, "gone", {}, << >>)
    /\ UNCHANGED <<members, listed, channel, reaper, queue, line, requests, roster, excused>>
-----------------------------------------------------------------------------
(* The other requests *)

Update(c) ==
    /\ Starts(c, "update")
    /\ GoesTelling(c, "updating", members, "update", {})
    /\ UNCHANGED <<hubs, reaper, queue, line, roster, excused>>

UpdateAnswers(c) ==
    /\ Reaches(c, "updating")
    /\ Goes(c, "idle", {}, Answer(c))
    /\ UNCHANGED <<hubs, reaper, queue, line, requests, roster, excused>>

CreateMessage(c) ==
    /\ Starts(c, "message")
    /\ c \in channel
    /\ GoesTelling(c, "idle", members, "message", {})
    /\ UNCHANGED <<hubs, reaper, queue, line, roster, excused>>

\* What is only looked up and answered: a heartbeat, the list, a channel's
\* details.
Look(c) ==
    /\ Starts(c, "look")
    /\ Goes(c, "idle", {}, Answer(c))
    /\ UNCHANGED <<hubs, reaper, queue, line, roster, excused>>

\* Leaving or writing to a channel one is not in, an empty or long message, an
\* unknown opcode, a packet that is none.
RefuseWithError(c) ==
    /\ Starts(c, "refused")
    /\ Goes(c, "idle", {}, Answer(c))
    /\ UNCHANGED <<hubs, reaper, queue, line, roster, excused>>

\* What a handler returns as an error is logged: joining twice or a full
\* channel, a channel that is not there, a payload that does not parse.
RefuseSilently(c) ==
    /\ Starts(c, "ignored")
    /\ UNCHANGED <<hubs, handler, reaper, queue, line, roster, excused>>
-----------------------------------------------------------------------------
(* The reaper *)

\* check_floor_timeouts tells the members that a floor was revoked.  The floor
\* is outside this module.
Revoke ==
    /\ reaper.sends = << >> /\ reaper.revoked < Revocations
    /\ \E sends \in Broadcasts(members, PacketOf("revoke", Nobody)) :
        reaper' = [revoked |-> reaper.revoked + 1, sends |-> sends]
    /\ UNCHANGED <<hubs, handler, queue, line, requests, roster, excused>>

ReaperSends ==
    /\ reaper.sends # << >>
    /\ LET s == Head(reaper.sends) IN
        \/ Room(s) /\ Put(s)
        \/ line[s.to] = "closed" /\ UNCHANGED <<queue, roster>>
    /\ reaper' = [reaper EXCEPT !.sends = Tail(@)]
    /\ UNCHANGED <<hubs, handler, line, requests, excused>>
-----------------------------------------------------------------------------
(* rx_loop and the other end *)

Read(c) ==
    /\ line[c] = "reading" /\ queue[c] # << >>
    /\ queue' = [queue EXCEPT ![c] = Tail(@)]
    /\ roster' = [roster EXCEPT ![c] = Believed(@, Head(queue[c]))]
    /\ UNCHANGED <<hubs, handler, reaper, line, requests, excused>>

Stall(c) ==
    /\ c \in Slow /\ line[c] = "reading"
    /\ line' = [line EXCEPT ![c] = "stalled"]
    /\ UNCHANGED <<hubs, handler, reaper, queue, requests, roster, excused>>

Recover(c) ==
    /\ line[c] = "stalled"
    /\ line' = [line EXCEPT ![c] = "reading"]
    /\ UNCHANGED <<hubs, handler, reaper, queue, requests, roster, excused>>

\* The connection is closed or lost: the next write fails and rx_loop ends.
Break(c) ==
    /\ c \in Slow /\ line[c] # "closed"
    /\ line' = [line EXCEPT ![c] = "closed"]
    /\ queue' = [queue EXCEPT ![c] = << >>]
    /\ UNCHANGED <<hubs, handler, reaper, requests, roster, excused>>
-----------------------------------------------------------------------------
Starting(c) ==
    \/ JoinAdds(c) \/ LeaveTells(c) \/ Update(c) \/ CreateMessage(c)
    \/ Look(c) \/ RefuseWithError(c) \/ RefuseSilently(c)

Going(c) ==
    \/ SendNext(c)
    \/ JoinLists(c) \/ JoinTells(c) \/ JoinAddsPeer(c) \/ JoinShowsPeers(c)
    \/ LeaveRemovesPeer(c) \/ LeaveRemoves(c) \/ UpdateAnswers(c)
    \/ CleanupStarts(c) \/ CleanupRemovesPeer(c) \/ CleanupRemoves(c)
    \/ CleanupUnregisters(c)

Next ==
    \/ \E c \in Client :
        \/ Starting(c) \/ Going(c)
        \/ Read(c) \/ Stall(c) \/ Recover(c) \/ Break(c)
    \/ Revoke \/ ReaperSends

Spec == Init /\ [][Next]_vars

\* Tasks go on when they can, and a connection whose other end does not read
\* recovers or breaks in the end, by TCP's own timeouts.
Fairness ==
    /\ \A c \in Client : WF_vars(Going(c))
    /\ \A c \in Slow : SF_vars(Read(c)) /\ WF_vars(Recover(c) \/ Break(c))
    /\ WF_vars(ReaperSends)

FairSpec == Spec /\ Fairness
-----------------------------------------------------------------------------
Resting(c) == Reaches(c, "idle") \/ Reaches(c, "gone")

Quiet ==
    /\ \A c \in Client : Resting(c) /\ queue[c] = << >>
    /\ \A c \in Client : line[c] = "closed" => handler[c].at = "gone"

\* Once everything sent has been read, the members agree on who is in the
\* channel, whoever broke off in the middle of whatever, unless a leave has
\* met a join.
QuietRosters ==
    Quiet /\ ~excused => \A c \in members : roster[c] = members

\* Every handler and the reaper get back to their work, whoever does not read.
HandlersFinish ==
    /\ \A c \in Client : ~Resting(c) ~> Resting(c)
    /\ reaper.sends # << >> ~> reaper.sends = << >>
=============================================================================
