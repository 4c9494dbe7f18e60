--------------------------- MODULE FloorDispatch ---------------------------
(***************************************************************************)
(* The floor handlers as concurrent tasks: what each of them sends after   *)
(* it has released the channel's floor mutex, and what the clients make of *)
(* it.  A handler                                                          *)
(*   - copies the channel's member set,                                    *)
(*   - decides under the floor mutex and writes its packets there,         *)
(*   - sends them one recipient at a time, each send being an await.       *)
(* Every connection handles one message at a time; the reaper and each     *)
(* administrator request are tasks of their own.                           *)
(*                                                                         *)
(* A holder's time is up after MaxTaken ticks, whatever it does: pings     *)
(* have no audience and stay in module Floor.  QUEUE_POS_INFO does not     *)
(* change what a client believes about the floor and is left out.          *)
(***************************************************************************)
EXTENDS FloorControl, FiniteSets

CONSTANTS
    Admin,      \* administrator requests
    Reaper,     \* the reaper's task
    MaxRunning  \* bound: tasks that may be between their first and last step

ASSUME DispatchAssumption ==
    /\ Reaper \notin User \cup Admin
    /\ User \cap Admin = {}
    /\ MaxRunning \in Nat \ {0}

Task == User \cup Admin \cup {Reaper}

VARIABLES
    floor,      \* Channel.floor
    members,    \* Channel.members
    online,     \* the users registered in the UserHub
    broken,     \* those of them whose own queue was found closed: what is left
                \* for them is the cleanup
    task,       \* what each task is about to do
    told,       \* whom each client believes to be speaking: the effect of the
                \* last floor packet put into its egress queue, which is FIFO
    latest,     \* history: the task that changed the holder last
    unheard,    \* history: its audience, as far as not yet sent word of it
    silent,     \* history: that task ended before it had told them
    overlapped  \* history: whether a handler ever began while another ran

vars == <<floor, members, online, broken, task, told, latest, unheard, silent, overlapped>>

Packet ==
    [type: {"GRANTED", "TAKEN", "IDLE", "REVOKE"},
     user: User \cup {NoUser},
     to: SUBSET User]

Pass == [at |-> "idle"]

TaskState ==
    {Pass}
    \cup [at: {"request", "release", "disconnect"}, members: SUBSET User]
    \cup [at: {"join"}]
    \cup [at: {"clear"}, holder: User]
    \cup [at: {"send"}, out: Seq(Packet), then: {"idle", "requested", "announce", "unregister"}]
    \cup [at: {"announce", "unregister"}]

TypeOK ==
    /\ floor \in FloorRecord
    /\ members \subseteq User
    /\ broken \subseteq online /\ online \subseteq User
    /\ task \in [Task -> TaskState]
    /\ told \in [User -> User \cup {NoUser}]
    /\ latest \in Task
    /\ unheard \subseteq User
    /\ silent \in BOOLEAN /\ overlapped \in BOOLEAN

\* Somebody is in the channel, and nothing has happened on its floor.
Init ==
    /\ floor = NewFloor
    /\ online \in SUBSET User
    /\ members \in SUBSET online
    /\ broken = {}
    /\ task = [t \in Task |-> Pass]
    /\ told = [u \in User |-> NoUser]
    /\ latest = Reaper
    /\ unheard = {}
    /\ silent = FALSE
    /\ overlapped = FALSE

-----------------------------------------------------------------------------
Idle(t) == task[t] = Pass

Running == {t \in Task : ~Idle(t)}

Begin(t) ==
    /\ Idle(t)
    /\ Cardinality(Running) < MaxRunning
    /\ overlapped' = (overlapped \/ Running # {})

Goto(t, s) == task' = [task EXCEPT ![t] = s]

(* The packets.                                                            *)

GrantedTo(u) == [type |-> "GRANTED", user |-> u, to |-> {u}]
TakenBy(u, ms) == [type |-> "TAKEN", user |-> u, to |-> ms \ {u}]
IdleTo(ms) == [type |-> "IDLE", user |-> NoUser, to |-> ms]
RevokeTo(u) == [type |-> "REVOKE", user |-> NoUser, to |-> {u}]

FaultyDecidedPackets(f, ms) ==
    IF f.state = "Taken"
    THEN <<GrantedTo(f.floor_taken_by)>>
    ELSE <<IdleTo(ms)>>

\* decide_next's packets, for the floor f it leaves behind.
DecidedPackets(f, ms) ==
    IF f.state = "Taken"
    THEN <<GrantedTo(f.floor_taken_by), TakenBy(f.floor_taken_by, ms)>>
    ELSE <<IdleTo(ms)>>

\* handle_floor_request's packets: the loser first, then the winner, then the
\* others.
GrantPackets(lost, u, ms) ==
    (IF lost = NoUser THEN <<>> ELSE <<RevokeTo(lost)>>)
        \o <<GrantedTo(u), TakenBy(u, ms)>>

\* Go on at the first packet that has a recipient, if any has one.
SendThen(t, out, then) ==
    LET left == {k \in DOMAIN out : out[k].to # {}}
    IN  Goto(t, IF left = {}
                THEN [at |-> IF then = "requested" THEN "idle" ELSE then]
                ELSE [at |-> "send", out |-> SubSeq(out, Min(left), Len(out)), then |-> then])

(* History.                                                                *)

\* t has changed the floor; audience is the member set it tells if it has
\* changed the holder.
Transition(t, audience) ==
    IF floor'.floor_taken_by # floor.floor_taken_by
    THEN latest' = t /\ unheard' = audience /\ silent' = FALSE
    ELSE UNCHANGED <<latest, unheard, silent>>

-----------------------------------------------------------------------------
(* handle_floor_request                                                    *)

RequestStarts(u) ==
    /\ u \in (online \ broken)
    /\ Begin(u)
    /\ Goto(u, [at |-> "request", members |-> members])
    /\ UNCHANGED <<floor, members, online, broken, told, latest, unheard, silent>>

FaultyRequestDecides(u, p, i) ==
    /\ task[u].at = "request"
    /\ floor' = Grant(floor, u, p, i)
    /\ SendThen(u, GrantPackets(floor.floor_taken_by, u, task[u].members), "requested")
    /\ Transition(u, task[u].members)
    /\ UNCHANGED <<members, online, broken, told, overlapped>>

\* What it asks with, p and i, is not looked at before this step.
RequestDecides(u, p, i) ==
    /\ task[u].at = "request"
    /\ \/ /\ floor.state = "Idle"
          /\ floor' = Grant(floor, u, p, i)
          /\ SendThen(u, GrantPackets(NoUser, u, task[u].members), "requested")
       \/ /\ CanPreempt(floor, p, i)
          /\ floor' = Grant(floor, u, p, i)
          /\ SendThen(u, GrantPackets(floor.floor_taken_by, u, task[u].members), "requested")
       \/ /\ floor.state = "Taken"
          /\ ~CanPreempt(floor, p, i)
          /\ floor' = Enqueue(floor, u, p, i)
          /\ Goto(u, Pass)
    /\ Transition(u, task[u].members)
    /\ UNCHANGED <<members, online, broken, told, overlapped>>

(* handle_floor_release                                                    *)

ReleaseStarts(u) ==
    /\ u \in (online \ broken)
    /\ Begin(u)
    /\ Goto(u, [at |-> "release", members |-> members])
    /\ UNCHANGED <<floor, members, online, broken, told, latest, unheard, silent>>

ReleaseDecides(u) ==
    /\ task[u].at = "release"
    /\ \/ /\ floor.floor_taken_by # u
          /\ floor' = RemoveFromQueue(floor, u)
          /\ Goto(u, Pass)
       \/ /\ floor.floor_taken_by = u
          /\ floor' = DecideNext(floor)
          /\ SendThen(u, DecidedPackets(floor', task[u].members), "idle")
    /\ Transition(u, task[u].members)
    /\ UNCHANGED <<members, online, broken, told, overlapped>>

-----------------------------------------------------------------------------
(* handle_channel_join, handle_channel_leave: their effect on the floor's  *)
(* audience.                                                               *)

\* A client that enters a channel starts out believing that nobody speaks.
JoinStarts(u) ==
    /\ u \in online \ (broken \cup members)
    /\ Begin(u)
    /\ members' = members \cup {u}
    /\ told' = [told EXCEPT ![u] = NoUser]
    /\ unheard' = unheard \cup {u}
    /\ Goto(u, [at |-> "join"])
    /\ UNCHANGED <<floor, online, broken, latest, silent>>

FaultyJoinLooks(u) ==
    /\ task[u].at = "join"
    /\ Goto(u, Pass)
    /\ UNCHANGED <<floor, members, online, broken, told, latest, unheard, silent, overlapped>>

\* Its last step: a newcomer to a busy channel is sent FLOOR_TAKEN, even when
\* the holder is the newcomer itself.
JoinLooks(u) ==
    /\ task[u].at = "join"
    /\ \/ /\ floor.state = "Taken"
          /\ SendThen(u, <<[type |-> "TAKEN", user |-> floor.floor_taken_by, to |-> {u}]>>, "idle")
       \/ /\ floor.state = "Idle"
          /\ Goto(u, Pass)
    /\ unheard' = unheard \ {u}
    /\ UNCHANGED <<floor, members, online, broken, told, latest, silent, overlapped>>

\* The floor is not looked at.
Leave(u) ==
    /\ u \in (online \ broken) \cap members
    /\ Begin(u)
    /\ members' = members \ {u}
    /\ UNCHANGED <<floor, online, broken, task, told, latest, unheard, silent>>

(* The end of a connection (cleanup, on_user_disconnect) and a new one.    *)

DisconnectStarts(u) ==
    /\ u \in online
    /\ Begin(u)
    /\ \/ /\ u \in members
          /\ members' = members \ {u}
          /\ Goto(u, [at |-> "disconnect", members |-> members \ {u}])
       \/ /\ u \notin members
          /\ UNCHANGED members
          /\ Goto(u, [at |-> "unregister"])
    /\ UNCHANGED <<floor, online, broken, told, latest, unheard, silent>>

DisconnectDecides(u) ==
    /\ task[u].at = "disconnect"
    /\ floor' = Disconnected(floor, u)
    /\ SendThen(u, IF floor.floor_taken_by = u
                   THEN DecidedPackets(floor', task[u].members)
                   ELSE <<>>, "unregister")
    /\ Transition(u, task[u].members)
    /\ UNCHANGED <<members, online, broken, told, overlapped>>

Unregisters(u) ==
    /\ task[u].at = "unregister"
    /\ online' = online \ {u}
    /\ broken' = broken \ {u}
    /\ Goto(u, Pass)
    /\ UNCHANGED <<floor, members, told, latest, unheard, silent, overlapped>>

Connect(u) ==
    /\ u \notin online
    /\ Begin(u)
    /\ online' = online \cup {u}
    /\ told' = [told EXCEPT ![u] = NoUser]
    /\ UNCHANGED <<floor, members, broken, task, latest, unheard, silent>>

-----------------------------------------------------------------------------
(* check_floor_timeouts                                                    *)

\* The holder has become overdue.
Tick ==
    /\ floor.state = "Taken"
    /\ floor.taken_age < MaxTaken
    /\ floor' = Elapse(floor)
    /\ UNCHANGED <<members, online, broken, task, told, latest, unheard, silent, overlapped>>

\* The member set is copied under the lock.
SweepRevokes ==
    /\ Begin(Reaper)
    /\ Expired(floor)
    /\ floor' = DecideNext(floor)
    /\ SendThen(Reaper,
                <<RevokeTo(floor.floor_taken_by)>> \o DecidedPackets(floor', members), "idle")
    /\ Transition(Reaper, members)
    /\ UNCHANGED <<members, online, broken, told>>

(* admin_floor_revoke                                                      *)

FaultyAdminLooks(a) ==
    /\ Begin(a)
    /\ Goto(a, [at |-> "clear", holder |-> floor.floor_taken_by])
    /\ UNCHANGED <<floor, members, online, broken, told, latest, unheard, silent>>

AdminLooks(a) ==
    /\ Begin(a)
    /\ floor.state = "Taken"
    /\ Goto(a, [at |-> "clear", holder |-> floor.floor_taken_by])
    /\ UNCHANGED <<floor, members, online, broken, told, latest, unheard, silent>>

\* REVOKE goes to the holder seen at the first look.
AdminClears(a) ==
    /\ task[a].at = "clear"
    /\ floor' = AdminCleared(floor)
    /\ SendThen(a, <<RevokeTo(task[a].holder)>>, "announce")
    /\ Transition(a, members)
    /\ UNCHANGED <<members, online, broken, told, overlapped>>

\* The members are copied only after REVOKE has been sent.
AdminAnnounces(a) ==
    /\ task[a].at = "announce"
    /\ SendThen(a, <<IdleTo(members)>>, "idle")
    /\ UNCHANGED <<floor, members, online, broken, told, latest, unheard, silent, overlapped>>

-----------------------------------------------------------------------------
(* dispatch_packets, broadcast_to: one recipient at a time, in the order   *)
(* of a hash set.  A user that is not registered is skipped.               *)

Believes(p) == p.user

Deliver(t, u) ==
    /\ task[t].at = "send"
    /\ LET p == Head(task[t].out)
       IN  /\ u \in p.to
           /\ told' = IF u \in online THEN [told EXCEPT ![u] = Believes(p)] ELSE told
           /\ SendThen(t, <<[p EXCEPT !.to = @ \ {u}]>> \o Tail(task[t].out), task[t].then)
           /\ unheard' = IF t = latest /\ p.type # "REVOKE" THEN unheard \ {u} ELSE unheard
    /\ UNCHANGED <<floor, members, online, broken, latest, silent, overlapped>>

\* send(tx, granted_json).await?: rx_loop could not write to the socket and has
\* dropped its end of the queue.  The handler ends with the floor taken and
\* nobody told.  (That another recipient's queue is closed concerns nobody
\* else, like the recipient that is not registered.)
GivesUp(u) ==
    /\ task[u].at = "send" /\ task[u].then = "requested"
    /\ Head(task[u].out).type = "GRANTED"
    /\ broken' = broken \cup {u}
    /\ Goto(u, Pass)
    /\ silent' = (silent \/ latest = u)
    /\ UNCHANGED <<floor, members, online, told, latest, unheard, overlapped>>

-----------------------------------------------------------------------------
Next ==
    \/ \E u \in User :
          \/ RequestStarts(u)
          \/ \E p \in Priority, i \in Indicator : RequestDecides(u, p, i)
          \/ ReleaseStarts(u) \/ ReleaseDecides(u)
          \/ JoinStarts(u) \/ JoinLooks(u) \/ Leave(u)
          \/ DisconnectStarts(u) \/ DisconnectDecides(u) \/ Unregisters(u) \/ Connect(u)
          \/ GivesUp(u)
    \/ Tick
    \/ SweepRevokes
    \/ \E a \in Admin : AdminLooks(a) \/ AdminClears(a) \/ AdminAnnounces(a)
    \/ \E t \in Task, u \in User : Deliver(t, u)

Spec == Init /\ [][Next]_vars

-----------------------------------------------------------------------------
\* Nothing is being sent, every connection that broke has been cleaned up, and
\* no grant stands that was kept from the members (its holder has left the
\* channel or never was in it: the next change of holder ends that).
Quiet == Running = {} /\ broken = {} /\ ~silent

\* Handlers that do not overlap leave every member of the channel believing in
\* the holder the server has, through every chain of grants, preemptions,
\* hand-overs, revocations, entries and departures.
QuietAgreement ==
    Quiet /\ ~overlapped => \A u \in members : told[u] = floor.floor_taken_by

\* However the handlers overlap, once nothing is being sent any more, word of
\* the last change of holder has been sent to every member the handler had seen
\* when it began, and every newcomer since has looked at the floor.
NobodyMissed == Quiet => unheard \cap members \cap online = {}

\* However the handlers overlap, the floor behaves as the arbiter does: nothing
\* decided outside the lock takes part in the decision.
Arbiter == INSTANCE FloorArbiter WITH
    Urgent <- "Emergency" \in Indicator,
    holder <- floor.floor_taken_by, rank <- floor.floor_priority,
    waiting <- WaitingOf(floor), ahead <- AheadOf(floor)

ImplementsArbiter == Arbiter!AbsSpec
=============================================================================
