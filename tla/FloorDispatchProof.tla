------------------------ MODULE FloorDispatchProof ------------------------
(***************************************************************************)
(* Proofs about FloorDispatch, for any users, priorities, administrators   *)
(* and any number of handlers at a time.                                   *)
(***************************************************************************)
EXTENDS FloorDispatch, FloorControlProof

-----------------------------------------------------------------------------
(* The inductive invariant.                                                *)

Busy(t) == task[t].at # "idle"

\* u's connection has ended and is being cleaned up.
Departing(u) ==
    \/ task[u].at \in {"disconnect", "unregister"}
    \/ task[u].at = "send" /\ task[u].then = "unregister"

Typed ==
    /\ members \subseteq User
    /\ broken \subseteq online /\ online \subseteq User
    /\ task \in [Task -> TaskState]
    /\ told \in [User -> User \cup {NoUser}]
    /\ latest \in Task
    /\ unheard \subseteq User
    /\ silent \in BOOLEAN /\ overlapped \in BOOLEAN

SendsSomething == \A t \in Task : task[t].at = "send" => Len(task[t].out) > 0

\* Members are registered, and so is whoever has a handler running; who is
\* being cleaned up is no member any more.
MembersAreOnline ==
    /\ members \subseteq online
    /\ \A u \in User : (Busy(u) => u \in online) /\ (Departing(u) => u \notin members)

BaseInv == FloorOK(floor) /\ Typed /\ SendsSomething /\ MembersAreOnline

-----------------------------------------------------------------------------
(* What is sent.                                                           *)

Then == {"idle", "requested", "announce", "unregister"}

\* Word of the floor, and not only of its loss, is sent to u.
Tells(out, u) == \E k \in 1..Len(out) : out[k].type # "REVOKE" /\ u \in out[k].to

\* The last that u is sent is that h has the floor.
LastTo(out, u, h) ==
    \E k \in 1..Len(out) :
        /\ u \in out[k].to /\ out[k].user = h
        /\ \A j \in 1..Len(out) : k < j => u \notin out[j].to

NothingTo(out, u) == \A k \in 1..Len(out) : u \notin out[k].to

\* Where a task is after SendThen.
SendsRest(s, out, then) ==
    \/ /\ s = [at |-> IF then = "requested" THEN "idle" ELSE then]
       /\ \A k \in 1..Len(out) : out[k].to = {}
    \/ /\ s.at = "send" /\ s.then = then
       /\ \E m \in 1..Len(out) :
            /\ Len(s.out) = Len(out) - m + 1
            /\ \A j \in 1..Len(s.out) : s.out[j] = out[m + j - 1]
            /\ \A k \in 1..Len(out) : k < m => out[k].to = {}

LEMMA SendThenSends ==
    ASSUME NEW t, NEW out \in Seq(Packet), NEW then \in Then, SendThen(t, out, then)
    PROVE  \E s \in TaskState : task' = [task EXCEPT ![t] = s] /\ SendsRest(s, out, then)
  <1> DEFINE left == {k \in DOMAIN out : out[k].to # {}}
             n == Len(out)
  <1>0. n \in Nat /\ DOMAIN out = 1..n
    OBVIOUS
  <1>1. CASE left = {}
    <2> DEFINE s == [at |-> IF then = "requested" THEN "idle" ELSE then]
    <2>1. s \in TaskState
      BY DEF Then, TaskState, Pass
    <2>2. task' = [task EXCEPT ![t] = s]
      BY <1>1 DEF SendThen, Goto
    <2>3. \A k \in 1..Len(out) : out[k].to = {}
      BY <1>0, <1>1
    <2>4. SendsRest(s, out, then)
      BY <2>3 DEF SendsRest
    <2>5. QED
      BY <2>1, <2>2, <2>4
  <1>2. CASE left # {}
    <2> DEFINE m == Min(left)
               rest == SubSeq(out, m, n)
               s == [at |-> "send", out |-> rest, then |-> then]
    <2>1. left \in SUBSET Nat
      BY <1>0
    <2>2. m \in left /\ \A k \in left : m <= k
      BY <1>2, <2>1, MinProps
    <2>3. task' = [task EXCEPT ![t] = s]
      BY <1>2 DEF SendThen, Goto
    <2> HIDE DEF m
    <2>4. m \in 1..n /\ \A k \in 1..n : k < m => out[k].to = {}
      <3>1. m \in 1..n
        BY <1>0, <2>2
      <3>2. \A k \in 1..n : out[k].to # {} => m <= k
        BY <1>0, <2>2
      <3>3. QED
        BY <1>0, <3>1, <3>2
    <2> HIDE DEF left
    <2>5. /\ rest \in Seq(Packet) /\ Len(rest) = n - m + 1
          /\ \A j \in 1..Len(rest) : rest[j] = out[m + j - 1]
      <3>1. \A j \in m..n : out[j] \in Packet
        BY <2>4, ElementOfSeq
      <3>2. QED
        BY <1>0, <2>4, <3>1, SubSeqProperties
    <2> HIDE DEF rest
    <2>6. s \in TaskState
      BY <2>5 DEF Then, TaskState
    <2>7. SendsRest(s, out, then)
      BY <2>4, <2>5 DEF SendsRest
    <2>8. QED
      BY <2>3, <2>6, <2>7
  <1>3. QED
    BY <1>1, <1>2

\* What is left to send says what all of it says.
LEMMA RestSays ==
    ASSUME NEW out \in Seq(Packet), NEW then \in Then, NEW s, SendsRest(s, out, then), s.at = "send"
    PROVE  /\ Len(s.out) > 0
           /\ \A k \in 1..Len(s.out) : \E j \in 1..Len(out) : s.out[k] = out[j]
           /\ \A u : Tells(out, u) => Tells(s.out, u)
           /\ \A u, h : LastTo(out, u, h) => LastTo(s.out, u, h)
           /\ \A u : NothingTo(out, u) => NothingTo(s.out, u)
  <1>1. PICK m \in 1..Len(out) :
            /\ Len(s.out) = Len(out) - m + 1
            /\ \A j \in 1..Len(s.out) : s.out[j] = out[m + j - 1]
            /\ \A k \in 1..Len(out) : k < m => out[k].to = {}
    BY DEF SendsRest, Then
  <1>2. Len(out) \in Nat /\ Len(s.out) \in Nat
    BY <1>1
  <1>3. \A j \in 1..Len(s.out) : m + j - 1 \in 1..Len(out) /\ s.out[j] = out[m + j - 1]
    BY <1>1, <1>2
  <1>4. ASSUME NEW k \in 1..Len(out), out[k].to # {}
        PROVE  k - m + 1 \in 1..Len(s.out) /\ s.out[k - m + 1] = out[k]
    <2>1. k >= m
      BY <1>1, <1>2, <1>4
    <2>2. k - m + 1 \in 1..Len(s.out) /\ m + (k - m + 1) - 1 = k
      BY <1>1, <1>2, <2>1
    <2>3. PICK j \in 1..Len(s.out) : j = k - m + 1 /\ m + j - 1 = k
      BY <2>2
    <2>4. s.out[j] = out[m + j - 1]
      BY <1>3
    <2>5. QED
      BY <2>3, <2>4
  <1>5. ASSUME NEW u, Tells(out, u) PROVE Tells(s.out, u)
    <2>1. PICK k \in 1..Len(out) : out[k].type # "REVOKE" /\ u \in out[k].to
      BY <1>5 DEF Tells
    <2>2. k - m + 1 \in 1..Len(s.out) /\ s.out[k - m + 1] = out[k]
      BY <1>4, <2>1
    <2>3. QED
      BY <2>1, <2>2 DEF Tells
  <1>6. ASSUME NEW u, NEW h, LastTo(out, u, h) PROVE LastTo(s.out, u, h)
    <2>1. PICK k \in 1..Len(out) :
              /\ u \in out[k].to /\ out[k].user = h
              /\ \A j \in 1..Len(out) : k < j => u \notin out[j].to
      BY <1>6 DEF LastTo
    <2>2. k - m + 1 \in 1..Len(s.out) /\ s.out[k - m + 1] = out[k]
      BY <1>4, <2>1
    <2>3. ASSUME NEW j \in 1..Len(s.out), k - m + 1 < j PROVE u \notin s.out[j].to
      <3>1. m + j - 1 \in 1..Len(out) /\ k < m + j - 1 /\ s.out[j] = out[m + j - 1]
        BY <1>2, <1>3, <2>3
      <3>2. QED
        BY <2>1, <3>1
    <2>4. QED
      BY <2>1, <2>2, <2>3 DEF LastTo
  <1>7. ASSUME NEW u, NothingTo(out, u) PROVE NothingTo(s.out, u)
    BY <1>3, <1>7 DEF NothingTo
  <1>8. Len(s.out) > 0
    BY <1>1, <1>2
  <1>9. QED
    BY <1>3, <1>5, <1>6, <1>7, <1>8

-----------------------------------------------------------------------------
(* The packets of each decision.                                           *)

LEMMA PacketTypes ==
    /\ \A u \in User : GrantedTo(u) \in Packet /\ RevokeTo(u) \in Packet
    /\ \A u \in User, ms \in SUBSET User : TakenBy(u, ms) \in Packet
    /\ \A ms \in SUBSET User : IdleTo(ms) \in Packet
  BY DEF GrantedTo, RevokeTo, TakenBy, IdleTo, Packet

\* A grant: everybody but the winner is told who has the floor, the winner that
\* it is granted; and before that the loser of the loss.
LEMMA GrantPacketsSay ==
    ASSUME NEW lost \in User \cup {NoUser}, NEW u \in User, NEW ms \in SUBSET User
    PROVE  LET out == GrantPackets(lost, u, ms)
           IN  /\ out \in Seq(Packet)
               /\ \A v \in ms : Tells(out, v) /\ LastTo(out, v, u)
               /\ \A k \in 1..Len(out) : out[k].user = u \/ out[k].to = {lost}
  <1> DEFINE g == GrantedTo(u)
             w == TakenBy(u, ms)
             r == RevokeTo(lost)
             out == GrantPackets(lost, u, ms)
  <1>1. /\ g.type = "GRANTED" /\ g.user = u /\ g.to = {u}
        /\ w.type = "TAKEN" /\ w.user = u /\ w.to = ms \ {u}
        /\ r.to = {lost}
    BY DEF GrantedTo, TakenBy, RevokeTo
  <1>2. g \in Packet /\ w \in Packet /\ (lost # NoUser => r \in Packet)
    BY PacketTypes
  <1>3. CASE lost = NoUser
    <2>1. out = <<g, w>>
      BY <1>3 DEF GrantPackets
    <2> HIDE DEF g, w, r, out
    <2>2. /\ out \in Seq(Packet) /\ Len(out) = 2 /\ out[1] = g /\ out[2] = w
      BY <1>2, <2>1
    <2>3. \A v \in ms : Tells(out, v) /\ LastTo(out, v, u)
      BY <1>1, <2>2 DEF Tells, LastTo
    <2>4. \A k \in 1..Len(out) : out[k].user = u \/ out[k].to = {lost}
      BY <1>1, <2>2
    <2>5. QED
      BY <2>2, <2>3, <2>4 DEF out
  <1>4. CASE lost # NoUser
    <2>1. out = <<r>> \o <<g, w>>
      BY <1>4 DEF GrantPackets
    <2> HIDE DEF g, w, r, out
    <2>2. /\ out \in Seq(Packet) /\ Len(out) = 3
          /\ out[1] = r /\ out[2] = g /\ out[3] = w
      BY <1>2, <1>4, <2>1
    <2>3. \A v \in ms : Tells(out, v) /\ LastTo(out, v, u)
      BY <1>1, <2>2 DEF Tells, LastTo
    <2>4. \A k \in 1..Len(out) : out[k].user = u \/ out[k].to = {lost}
      BY <1>1, <2>2
    <2>5. QED
      BY <2>2, <2>3, <2>4 DEF out
  <1>5. QED
    BY <1>3, <1>4

\* decide_next tells all members who has the floor now, or that it is free; the
\* reaper tells the one that loses it before.
LEMMA DecidedPacketsSay ==
    ASSUME NEW f, FloorOK(f), NEW ms \in SUBSET User, NEW lost \in User
    PROVE  LET out == DecidedPackets(f, ms)
               all == <<RevokeTo(lost)>> \o out
           IN  /\ out \in Seq(Packet) /\ all \in Seq(Packet)
               /\ \A v \in ms : /\ Tells(out, v) /\ LastTo(out, v, f.floor_taken_by)
                                /\ Tells(all, v) /\ LastTo(all, v, f.floor_taken_by)
  <1> DEFINE h == f.floor_taken_by
             g == GrantedTo(h)
             w == TakenBy(h, ms)
             i == IdleTo(ms)
             r == RevokeTo(lost)
             out == DecidedPackets(f, ms)
             all == <<r>> \o out
  <1>1. /\ g.type = "GRANTED" /\ g.user = h /\ g.to = {h}
        /\ w.type = "TAKEN" /\ w.user = h /\ w.to = ms \ {h}
        /\ i.type = "IDLE" /\ i.user = NoUser /\ i.to = ms
        /\ r \in Packet /\ r.to = {lost}
    BY PacketTypes DEF GrantedTo, TakenBy, IdleTo, RevokeTo
  <1>2. CASE f.state = "Taken"
    <2>1. h \in User
      BY <1>2 DEF FloorOK, FloorRecord
    <2>2. g \in Packet /\ w \in Packet
      BY <2>1, PacketTypes
    <2>3. out = <<g, w>>
      BY <1>2 DEF DecidedPackets
    <2> HIDE DEF g, w, r, out, h
    <2>4. /\ out \in Seq(Packet) /\ Len(out) = 2 /\ out[1] = g /\ out[2] = w
      BY <2>2, <2>3
    <2>5. /\ all \in Seq(Packet) /\ Len(all) = 3
          /\ all[1] = r /\ all[2] = g /\ all[3] = w
      BY <1>1, <2>2, <2>3
    <2> HIDE DEF all
    <2>6. \A v \in ms : Tells(out, v) /\ LastTo(out, v, h) /\ Tells(all, v) /\ LastTo(all, v, h)
      BY <1>1, <2>4, <2>5 DEF Tells, LastTo
    <2>7. QED
      BY <2>4, <2>5, <2>6 DEF out, all, h, r
  <1>3. CASE f.state # "Taken"
    <2>1. h = NoUser
      BY <1>3 DEF FloorOK
    <2>2. i \in Packet
      BY PacketTypes
    <2>3. out = <<i>>
      BY <1>3 DEF DecidedPackets
    <2> HIDE DEF i, r, out, h
    <2>4. /\ out \in Seq(Packet) /\ Len(out) = 1 /\ out[1] = i
      BY <2>2, <2>3
    <2>5. /\ all \in Seq(Packet) /\ Len(all) = 2 /\ all[1] = r /\ all[2] = i
      BY <1>1, <2>2, <2>3
    <2> HIDE DEF all
    <2>6. \A v \in ms : Tells(out, v) /\ LastTo(out, v, h) /\ Tells(all, v) /\ LastTo(all, v, h)
      BY <1>1, <2>1, <2>4, <2>5 DEF Tells, LastTo
    <2>7. QED
      BY <2>4, <2>5, <2>6 DEF out, all, h, r
  <1>4. QED
    BY <1>2, <1>3

\* One packet for some users.
LEMMA OnePacketSays ==
    ASSUME NEW p \in Packet
    PROVE  /\ <<p>> \in Seq(Packet)
           /\ \A v \in p.to : LastTo(<<p>>, v, p.user)
           /\ \A v : v \notin p.to => NothingTo(<<p>>, v)
  <1>1. PICK out : out = <<p>>
    OBVIOUS
  <1>2. out \in Seq(Packet) /\ Len(out) = 1 /\ out[1] = p
    BY <1>1
  <1>3. QED
    BY <1>1, <1>2 DEF LastTo, NothingTo

-----------------------------------------------------------------------------
(* What a step does to the floor.                                          *)

\* Every decision under the lock is one of these.
FloorMoves ==
    \/ floor' = floor
    \/ \E u \in User, p \in Priority, i \in Indicator :
          \/ floor.state = "Idle" /\ floor' = Grant(floor, u, p, i)
          \/ CanPreempt(floor, p, i) /\ floor' = Grant(floor, u, p, i)
          \/ /\ floor.state = "Taken" /\ ~CanPreempt(floor, p, i)
             /\ floor' = Enqueue(floor, u, p, i)
    \/ \E u \in User : floor.floor_taken_by # u /\ floor' = RemoveFromQueue(floor, u)
    \/ \E u \in User : floor' = Disconnected(floor, u)
    \/ floor.state = "Taken" /\ floor' = DecideNext(floor)
    \/ floor.state = "Taken" /\ floor' = Elapse(floor)
    \/ floor' = AdminCleared(floor)

LEMMA NextMoves == FloorOK(floor) /\ [Next]_vars => FloorMoves
  <1> SUFFICES ASSUME FloorOK(floor), [Next]_vars PROVE FloorMoves
    OBVIOUS
  <1>1. ASSUME NEW u \in User, NEW p \in Priority, NEW i \in Indicator, RequestDecides(u, p, i)
        PROVE  FloorMoves
    BY <1>1 DEF RequestDecides, FloorMoves
  <1>2. ASSUME NEW u \in User, ReleaseDecides(u) PROVE FloorMoves
    <2>1. CASE floor.floor_taken_by # u /\ floor' = RemoveFromQueue(floor, u)
      BY <2>1 DEF FloorMoves
    <2>2. CASE floor.floor_taken_by = u /\ floor' = DecideNext(floor)
      BY <2>2, UserAssumption DEF FloorMoves, FloorOK
    <2>3. QED
      BY <1>2, <2>1, <2>2 DEF ReleaseDecides
  <1>3. ASSUME NEW u \in User, DisconnectDecides(u) PROVE FloorMoves
    BY <1>3 DEF DisconnectDecides, FloorMoves
  <1>4. CASE Tick
    BY <1>4 DEF Tick, FloorMoves
  <1>5. CASE SweepRevokes
    BY <1>5 DEF SweepRevokes, Expired, FloorMoves
  <1>6. ASSUME NEW a \in Admin, AdminClears(a) PROVE FloorMoves
    BY <1>6 DEF AdminClears, FloorMoves
  <1>7. ASSUME NEW u \in User,
               \/ RequestStarts(u) \/ ReleaseStarts(u) \/ JoinStarts(u) \/ JoinLooks(u)
               \/ Leave(u) \/ DisconnectStarts(u) \/ Unregisters(u) \/ Connect(u) \/ GivesUp(u)
        PROVE  floor' = floor
    BY <1>7 DEF RequestStarts, ReleaseStarts, JoinStarts, JoinLooks, Leave, DisconnectStarts,
                Unregisters, Connect, GivesUp
  <1>8. ASSUME NEW a \in Admin, AdminLooks(a) \/ AdminAnnounces(a) PROVE floor' = floor
    BY <1>8 DEF AdminLooks, AdminAnnounces
  <1>9. ASSUME NEW t \in Task, NEW u \in User, Deliver(t, u) PROVE floor' = floor
    BY <1>9 DEF Deliver
  <1>10. CASE UNCHANGED vars
    BY <1>10 DEF vars, FloorMoves
  <1>11. floor' = floor => FloorMoves
    BY DEF FloorMoves
  <1>12. QED
    BY <1>1, <1>2, <1>3, <1>4, <1>5, <1>6, <1>7, <1>8, <1>9, <1>10, <1>11 DEF Next

LEMMA MovesOK == FloorOK(floor) /\ FloorMoves => FloorOK(floor)'
  <1> SUFFICES ASSUME FloorOK(floor), FloorMoves PROVE FloorOK(floor')
    OBVIOUS
  <1>1. floor \in FloorRecord /\ QueueOK(floor.queue)
    BY DEF FloorOK
  <1>2. ASSUME NEW u \in User, NEW p \in Priority, NEW i \in Indicator,
               floor' = Grant(floor, u, p, i)
        PROVE  FloorOK(floor')
    BY <1>1, <1>2, GrantOK
  <1>3. ASSUME NEW u \in User, NEW p \in Priority, NEW i \in Indicator,
               floor.state = "Taken", ~CanPreempt(floor, p, i), floor' = Enqueue(floor, u, p, i)
        PROVE  FloorOK(floor')
    BY <1>3, EnqueueOK DEF CanPreempt
  <1>4. ASSUME NEW u \in User, floor' = RemoveFromQueue(floor, u) PROVE FloorOK(floor')
    BY <1>4, RemoveFromQueueOK
  <1>5. ASSUME NEW u \in User, floor' = Disconnected(floor, u) PROVE FloorOK(floor')
    BY <1>5, DisconnectedOK
  <1>6. CASE floor' = DecideNext(floor)
    BY <1>1, <1>6, DecideNextOK
  <1>7. CASE floor' = Elapse(floor)
    BY <1>7, ElapseOK
  <1>8. CASE floor' = AdminCleared(floor)
    BY <1>8, AdminClearedOK, NewFloorOK
  <1>9. QED
    BY <1>2, <1>3, <1>4, <1>5, <1>6, <1>7, <1>8 DEF FloorMoves

-----------------------------------------------------------------------------
(* What a step does to the tasks.                                          *)

LEMMA TaskTypes ==
    ASSUME NEW s \in TaskState
    PROVE  /\ s.at = "idle" => s = Pass
           /\ s.at \in {"request", "release", "disconnect"} => s.members \subseteq User
           /\ s.at = "clear" => s.holder \in User
           /\ s.at = "send" => s.out \in Seq(Packet) /\ s.then \in Then
  BY DEF TaskState, Pass, Then

\* Task t goes to state s.
Goes(t, s) == s \in TaskState /\ task' = [task EXCEPT ![t] = s]

LEMMA GoesFrame ==
    ASSUME task \in [Task -> TaskState], NEW t \in Task, NEW s, Goes(t, s)
    PROVE  /\ task' \in [Task -> TaskState]
           /\ task'[t] = s
           /\ \A r \in Task : r # t => task'[r] = task[r]
  BY DEF Goes

\* A state that is the end of a connection.
Departs(s) ==
    \/ s.at \in {"disconnect", "unregister"}
    \/ s.at = "send" /\ s.then = "unregister"

\* What is left of out says what out says.
Says(s, out, then) ==
    /\ s.at = "send" => /\ s.then = then /\ Len(s.out) > 0
                        /\ \A k \in 1..Len(s.out) : \E j \in 1..Len(out) : s.out[k] = out[j]
    /\ s.at # "send" => s.at = IF then = "requested" THEN "idle" ELSE then
    /\ \A u : Tells(out, u) => s.at = "send" /\ Tells(s.out, u)
    /\ \A u, h : LastTo(out, u, h) => s.at = "send" /\ LastTo(s.out, u, h)
    /\ \A u : NothingTo(out, u) => (s.at = "send" => NothingTo(s.out, u))

LEMMA SendThenSays ==
    ASSUME NEW t, NEW out \in Seq(Packet), NEW then \in Then, SendThen(t, out, then)
    PROVE  \E s : Goes(t, s) /\ Says(s, out, then)
  <1>1. PICK s \in TaskState : task' = [task EXCEPT ![t] = s] /\ SendsRest(s, out, then)
    BY SendThenSends
  <1>2. Goes(t, s)
    BY <1>1 DEF Goes
  <1>3. CASE s.at = "send"
    <2>1. s.then = then
      BY <1>1, <1>3 DEF SendsRest, Then
    <2>2. QED
      BY <1>1, <1>2, <1>3, <2>1, RestSays DEF Says
  <1>4. CASE s.at # "send"
    <2>1. s = [at |-> IF then = "requested" THEN "idle" ELSE then]
      BY <1>1, <1>4 DEF SendsRest
    <2>2. \A k \in 1..Len(out) : out[k].to = {}
      BY <1>1, <1>4 DEF SendsRest
    <2>3. s.at = IF then = "requested" THEN "idle" ELSE then
      BY <2>1
    <2>4. (\A u : ~Tells(out, u)) /\ (\A u, h : ~LastTo(out, u, h))
      BY <2>2 DEF Tells, LastTo
    <2>5. QED
      BY <1>2, <1>4, <2>3, <2>4 DEF Says
  <1>5. QED
    BY <1>3, <1>4

\* Word of the floor is on its way to whoever is in the channel when the task
\* comes to it.
Announces(s) == s.at = "announce" \/ (s.at = "send" /\ s.then = "announce")

LEMMA AnnounceSays ==
    ASSUME NEW s, NEW out, Says(s, out, "announce")
    PROVE  Announces(s)
  BY DEF Says, Announces

-----------------------------------------------------------------------------
(* What a decision leads its task to say.                                  *)

\* Nothing, when the holder is the same; else the members are told who has the
\* floor, or are about to be.
Decided(s, ms) ==
    /\ s.at \in {"idle", "unregister", "announce"} \/ (s.at = "send" /\ Len(s.out) > 0)
    /\ \/ s.at \in {"idle", "unregister"} /\ floor'.floor_taken_by = floor.floor_taken_by
       \/ \A v \in ms : /\ s.at = "send" /\ Tells(s.out, v)
                        /\ LastTo(s.out, v, floor'.floor_taken_by)
       \/ Announces(s) /\ floor'.floor_taken_by = NoUser

\* Whom the packets of a request that s has still to send name.
Names(s, u, lost) ==
    s.at = "send" => \A k \in 1..Len(s.out) : s.out[k].user = u \/ s.out[k].to = {lost}

LEMMA RequestSays ==
    ASSUME BaseInv, NEW u \in User, NEW p \in Priority, NEW i \in Indicator,
           RequestDecides(u, p, i)
    PROVE  \E s : /\ Goes(u, s) /\ Decided(s, task[u].members)
                  /\ ~Departs(s) /\ ~Announces(s)
                  /\ \/ s = Pass /\ floor'.floor_taken_by = floor.floor_taken_by
                     \/ floor'.floor_taken_by = u /\ Names(s, u, floor.floor_taken_by)
  <1> DEFINE ms == task[u].members
             h == floor.floor_taken_by
  <1>1. task[u] \in TaskState /\ task[u].at = "request"
    BY DEF BaseInv, Typed, Task, RequestDecides
  <1>2. ms \subseteq User
    BY <1>1, TaskTypes
  <1>3. floor \in FloorRecord /\ h \in User \cup {NoUser} /\ (floor.state = "Idle" => h = NoUser)
    BY DEF BaseInv, FloorOK, FloorRecord
  <1>4. ASSUME NEW lost \in User \cup {NoUser}, lost \in {NoUser, h}, floor' = Grant(floor, u, p, i),
               SendThen(u, GrantPackets(lost, u, ms), "requested"), lost = h
        PROVE  \E s : /\ Goes(u, s) /\ Decided(s, ms)
                      /\ ~Departs(s) /\ ~Announces(s)
                      /\ floor'.floor_taken_by = u /\ Names(s, u, h)
    <2> DEFINE out == GrantPackets(lost, u, ms)
    <2> HIDE DEF ms
    <2>1. /\ out \in Seq(Packet)
          /\ \A v \in ms : Tells(out, v) /\ LastTo(out, v, u)
          /\ \A k \in 1..Len(out) : out[k].user = u \/ out[k].to = {lost}
      <3>1. ms \in SUBSET User
        BY <1>2
      <3>2. QED
        BY ONLY <3>1, GrantPacketsSay, lost \in User \cup {NoUser}, u \in User
    <2>2. floor'.floor_taken_by = u
      BY <1>3, <1>4 DEF Grant, FloorRecord
    <2> HIDE DEF out
    <2>3. PICK s : Goes(u, s) /\ Says(s, out, "requested")
      BY <1>4, <2>1, SendThenSays DEF Then, out, ms
    <2>4. s.at = "idle" \/ (s.at = "send" /\ s.then = "requested" /\ Len(s.out) > 0)
      BY <2>3 DEF Says
    <2>5. ~Departs(s) /\ ~Announces(s)
      BY <2>4 DEF Departs, Announces
    <2>6. Decided(s, ms)
      BY <2>1, <2>2, <2>3, <2>4 DEF Decided, Says
    <2>7. Names(s, u, h)
      BY <1>4, <2>1, <2>3 DEF Names, Says
    <2>8. QED
      BY <2>2, <2>3, <2>5, <2>6, <2>7
  <1>5. CASE /\ floor.state = "Idle" /\ floor' = Grant(floor, u, p, i)
             /\ SendThen(u, GrantPackets(NoUser, u, ms), "requested")
    BY <1>3, <1>4, <1>5
  <1>6. CASE /\ floor' = Grant(floor, u, p, i)
             /\ SendThen(u, GrantPackets(h, u, ms), "requested")
    BY <1>3, <1>4, <1>6
  <1>7. CASE floor' = Enqueue(floor, u, p, i) /\ Goto(u, Pass)
    <2>1. floor'.floor_taken_by = h
      BY <1>3, <1>7 DEF Enqueue, FloorRecord
    <2>2. Goes(u, Pass) /\ Pass.at = "idle"
      BY <1>7 DEF Goes, Goto, Pass, TaskState
    <2>3. Decided(Pass, ms) /\ ~Departs(Pass) /\ ~Announces(Pass)
      BY <2>1, <2>2 DEF Decided, Departs, Announces
    <2>4. QED
      BY <2>1, <2>2, <2>3
  <1>8. QED
    BY <1>5, <1>6, <1>7 DEF RequestDecides

LEMMA PassSays ==
    ASSUME NEW t, Goto(t, Pass)
    PROVE  Goes(t, Pass) /\ Pass.at = "idle" /\ ~Departs(Pass) /\ ~Announces(Pass)
  BY DEF Goes, Goto, Pass, TaskState, Departs, Announces

LEMMA ReleaseSays ==
    ASSUME BaseInv, NEW u \in User, ReleaseDecides(u), FloorOK(floor')
    PROVE  \E s : /\ Goes(u, s) /\ Decided(s, task[u].members)
                  /\ ~Departs(s) /\ ~Announces(s) /\ (s.at = "send" => s.then = "idle")
  <1> DEFINE ms == task[u].members
             h == floor.floor_taken_by
  <1>1. task[u] \in TaskState /\ task[u].at = "release"
    BY DEF BaseInv, Typed, Task, ReleaseDecides
  <1>2. ms \subseteq User
    BY <1>1, TaskTypes
  <1>3. CASE floor' = RemoveFromQueue(floor, u) /\ Goto(u, Pass)
    <2>1. floor'.floor_taken_by = h
      BY <1>3, RemoveFromQueueOK DEF BaseInv
    <2>2. QED
      BY <1>3, <2>1, PassSays DEF Decided
  <1>4. CASE SendThen(u, DecidedPackets(floor', ms), "idle")
    <2> DEFINE out == DecidedPackets(floor', ms)
    <2>1. /\ out \in Seq(Packet)
          /\ \A v \in ms : Tells(out, v) /\ LastTo(out, v, floor'.floor_taken_by)
      BY <1>2, DecidedPacketsSay
    <2> HIDE DEF out, ms
    <2>2. PICK s : Goes(u, s) /\ Says(s, out, "idle")
      BY <1>4, <2>1, SendThenSays DEF Then, out
    <2>3. s.at = "idle" \/ (s.at = "send" /\ s.then = "idle" /\ Len(s.out) > 0)
      BY <2>2 DEF Says
    <2>4. ~Departs(s) /\ ~Announces(s) /\ (s.at = "send" => s.then = "idle")
      BY <2>3 DEF Departs, Announces
    <2>5. Decided(s, ms)
      BY <2>1, <2>2, <2>3 DEF Decided, Says
    <2>6. QED
      BY <2>2, <2>4, <2>5 DEF ms
  <1>5. QED
    BY <1>3, <1>4 DEF ReleaseDecides

LEMMA DisconnectSays ==
    ASSUME BaseInv, NEW u \in User, DisconnectDecides(u), FloorOK(floor')
    PROVE  \E s : /\ Goes(u, s) /\ Decided(s, task[u].members)
                  /\ s.at # "idle" /\ ~Announces(s) /\ (s.at = "send" => s.then = "unregister")
  <1> DEFINE ms == task[u].members
             h == floor.floor_taken_by
  <1>1. task[u] \in TaskState /\ task[u].at = "disconnect"
    BY DEF BaseInv, Typed, Task, DisconnectDecides
  <1>2. ms \subseteq User
    BY <1>1, TaskTypes
  <1>3. CASE h # u
    <2>1. floor'.floor_taken_by = h
      <3>1. FloorOK(floor)
        BY DEF BaseInv
      <3>2. RemoveFromQueue(floor, u).floor_taken_by = h
        BY <3>1, RemoveFromQueueOK
      <3>3. QED
        BY <1>3, <3>2 DEF DisconnectDecides, Disconnected
    <2>2. <<>> \in Seq(Packet) /\ Len(<<>>) = 0
      OBVIOUS
    <2>3. PICK s : Goes(u, s) /\ Says(s, <<>>, "unregister")
      BY <1>3, <2>2, SendThenSays DEF DisconnectDecides, Then
    <2>4. s.at = "unregister"
      <3>1. CASE s.at = "send"
        <4>1. /\ Len(s.out) > 0
              /\ \A k \in 1..Len(s.out) : \E j \in 1..Len(<<>>) : s.out[k] = <<>>[j]
          BY <2>3, <3>1 DEF Says
        <4>2. Len(s.out) \in Nat
          BY <2>3, <3>1, TaskTypes DEF Goes
        <4>3. 1 \in 1..Len(s.out)
          BY <4>1, <4>2
        <4>4. QED
          BY <2>2, <4>1, <4>3
      <3>2. QED
        BY <2>3, <3>1 DEF Says
    <2>5. QED
      BY <2>1, <2>3, <2>4 DEF Decided, Announces
  <1>4. CASE h = u
    <2> DEFINE out == DecidedPackets(floor', ms)
    <2>1. /\ out \in Seq(Packet)
          /\ \A v \in ms : Tells(out, v) /\ LastTo(out, v, floor'.floor_taken_by)
      BY <1>2, DecidedPacketsSay
    <2>2. SendThen(u, out, "unregister")
      BY <1>4 DEF DisconnectDecides
    <2> HIDE DEF out, ms
    <2>3. PICK s : Goes(u, s) /\ Says(s, out, "unregister")
      BY <2>1, <2>2, SendThenSays DEF Then
    <2>4. s.at = "unregister" \/ (s.at = "send" /\ s.then = "unregister" /\ Len(s.out) > 0)
      BY <2>3 DEF Says
    <2>5. ~Announces(s) /\ s.at # "idle" /\ (s.at = "send" => s.then = "unregister")
      BY <2>4 DEF Announces
    <2>6. Decided(s, ms)
      BY <2>1, <2>3, <2>4 DEF Decided, Says
    <2>7. QED
      BY <2>3, <2>5, <2>6 DEF ms
  <1>5. QED
    BY <1>3, <1>4

LEMMA SweepSays ==
    ASSUME BaseInv, SweepRevokes, FloorOK(floor')
    PROVE  \E s : /\ Goes(Reaper, s) /\ Decided(s, members)
                  /\ ~Announces(s) /\ (s.at = "send" => s.then = "idle")
  <1> DEFINE h == floor.floor_taken_by
             out == <<RevokeTo(h)>> \o DecidedPackets(floor', members)
  <1>1. members \subseteq User /\ h \in User
    BY DEF BaseInv, Typed, FloorOK, FloorRecord, SweepRevokes, Expired
  <1>2. /\ out \in Seq(Packet)
        /\ \A v \in members : Tells(out, v) /\ LastTo(out, v, floor'.floor_taken_by)
    BY <1>1, DecidedPacketsSay
  <1>3. SendThen(Reaper, out, "idle")
    BY DEF SweepRevokes
  <1> HIDE DEF out
  <1>4. PICK s : Goes(Reaper, s) /\ Says(s, out, "idle")
    BY <1>2, <1>3, SendThenSays DEF Then
  <1>5. s.at = "idle" \/ (s.at = "send" /\ s.then = "idle" /\ Len(s.out) > 0)
    BY <1>4 DEF Says
  <1>6. ~Announces(s)
    BY <1>5 DEF Announces
  <1>7. Decided(s, members)
    BY <1>2, <1>4, <1>5 DEF Decided, Says
  <1>8. QED
    BY <1>4, <1>5, <1>6, <1>7

LEMMA ClearSays ==
    ASSUME BaseInv, NEW a \in Admin, AdminClears(a)
    PROVE  /\ \E s : Goes(a, s) /\ Decided(s, members) /\ Announces(s)
           /\ floor'.floor_taken_by = NoUser
  <1> DEFINE out == <<RevokeTo(task[a].holder)>>
  <1>1. task[a] \in TaskState /\ task[a].at = "clear"
    BY DEF BaseInv, Typed, Task, AdminClears
  <1>2. RevokeTo(task[a].holder) \in Packet
    BY <1>1, TaskTypes, PacketTypes
  <1>3. out \in Seq(Packet)
    BY <1>2
  <1>4. SendThen(a, out, "announce")
    BY DEF AdminClears
  <1> HIDE DEF out
  <1>5. PICK s : Goes(a, s) /\ Says(s, out, "announce")
    BY <1>3, <1>4, SendThenSays DEF Then
  <1>6. s.at = "announce" \/ (s.at = "send" /\ Len(s.out) > 0)
    BY <1>5 DEF Says
  <1>7. floor'.floor_taken_by = NoUser
    BY AdminClearedOK DEF AdminClears, NewFloor
  <1>8. Announces(s)
    BY <1>5, AnnounceSays
  <1>9. QED
    BY <1>5, <1>6, <1>7, <1>8 DEF Decided

-----------------------------------------------------------------------------
(* Type correctness.                                                       *)

LEMMA BaseTypes ==
    ASSUME BaseInv
    PROVE  /\ task \in [Task -> TaskState] /\ User \subseteq Task /\ Admin \subseteq Task
           /\ Reaper \in Task /\ Reaper \notin User /\ User \cap Admin = {}
           /\ \A t \in Task : task[t].at = "send" =>
                 /\ task[t].out \in Seq(Packet) /\ Len(task[t].out) \in Nat \ {0}
                 /\ task[t].then \in Then
           /\ FloorOK(floor) /\ members \subseteq User
           /\ \A u \in User : Departing(u) <=> Departs(task[u])
           /\ \A t \in Task : Idle(t) <=> ~Busy(t)
  <1>1. task \in [Task -> TaskState]
    BY DEF BaseInv, Typed
  <1>2. \A t \in Task : task[t] \in TaskState
    BY <1>1
  <1>3. \A t \in Task : task[t].at = "send" => /\ task[t].out \in Seq(Packet)
                                               /\ task[t].then \in Then
                                               /\ Len(task[t].out) > 0
    BY <1>2, TaskTypes DEF BaseInv, SendsSomething
  <1>4. \A t \in Task : Idle(t) <=> ~Busy(t)
    BY <1>2, TaskTypes DEF Idle, Busy, Pass
  <1>5. \A q \in Seq(Packet) : Len(q) \in Nat
    OBVIOUS
  <1>6. QED
    BY <1>1, <1>3, <1>4, <1>5, DispatchAssumption
       DEF Task, Departing, Departs, BaseInv, Typed

\* The variables that are not about tasks and the floor.
Rest ==
    /\ members \subseteq User
    /\ broken \subseteq online /\ online \subseteq User
    /\ told \in [User -> User \cup {NoUser}]
    /\ latest \in Task
    /\ unheard \subseteq User
    /\ silent \in BOOLEAN /\ overlapped \in BOOLEAN
    /\ members \subseteq online

\* One task goes on; other users stay as registered and leave the channel at
\* most.
LEMMA BaseStep ==
    ASSUME BaseInv, Rest', FloorOK(floor'), NEW t \in Task, NEW s, Goes(t, s),
           s.at = "send" => Len(s.out) > 0,
           t \in User => /\ s.at # "idle" => t \in online'
                         /\ Departs(s) => t \notin members',
           \A u \in User : u # t => /\ u \in online => u \in online'
                                    /\ u \in members' => u \in members
    PROVE  BaseInv'
  <1>1. task \in [Task -> TaskState]
    BY BaseTypes
  <1>2. /\ task' \in [Task -> TaskState] /\ task'[t] = s
        /\ \A r \in Task : r # t => task'[r] = task[r]
    BY <1>1, GoesFrame
  <1>3. Typed'
    BY <1>2 DEF Typed, Rest
  <1>4. \A r \in Task : task'[r].at = "send" => Len(task'[r].out) > 0
    BY <1>2 DEF BaseInv, SendsSomething
  <1>5. \A u \in User : /\ task[u].at # "idle" => u \in online
                        /\ Departs(task[u]) => u \notin members
    BY BaseTypes DEF BaseInv, MembersAreOnline, Busy
  <1>6. \A u \in User : /\ task'[u].at # "idle" => u \in online'
                        /\ Departs(task'[u]) => u \notin members'
    BY <1>2, <1>5, BaseTypes
  <1>7. MembersAreOnline'
    BY <1>6 DEF MembersAreOnline, Busy, Departing, Departs, Rest
  <1>8. QED
    BY <1>3, <1>4, <1>7 DEF BaseInv, SendsSomething

LEMMA RestHolds == BaseInv => Rest
  BY DEF BaseInv, Typed, Rest, MembersAreOnline

\* The packet in front loses a recipient.
LEMMA DeliveredOut ==
    ASSUME NEW q \in Seq(Packet), Len(q) > 0, NEW u
    PROVE  LET out == <<[Head(q) EXCEPT !.to = @ \ {u}]>> \o Tail(q)
           IN  /\ Head(q) = q[1] /\ q[1] \in Packet
               /\ out \in Seq(Packet) /\ Len(out) = Len(q) /\ Len(q) \in Nat
               /\ out[1].type = q[1].type /\ out[1].user = q[1].user
               /\ out[1].to = q[1].to \ {u}
               /\ \A k \in 1..Len(q) : k # 1 => out[k] = q[k]
  <1> DEFINE p == [Head(q) EXCEPT !.to = @ \ {u}]
             r == Tail(q)
  <1>1. /\ Head(q) = q[1] /\ q[1] \in Packet /\ Len(q) \in Nat
        /\ r \in Seq(Packet) /\ Len(r) = Len(q) - 1
        /\ \A j \in 1..(Len(q) - 1) : r[j] = q[j + 1]
    <2>1. q # <<>> /\ 1 \in 1..Len(q)
      OBVIOUS
    <2>2. QED
      BY <2>1, HeadTailProperties, ElementOfSeq
  <1>2. /\ p \in Packet /\ p.type = q[1].type /\ p.user = q[1].user
        /\ p.to = q[1].to \ {u}
    BY <1>1 DEF Packet
  <1> HIDE DEF p, r
  <1>3. PICK out : out = <<p>> \o r
    OBVIOUS
  <1>4. <<p>> \in Seq(Packet) /\ Len(<<p>>) = 1 /\ <<p>>[1] = p
    BY <1>2
  <1>5. /\ out \in Seq(Packet) /\ Len(out) = Len(q)
        /\ \A j \in 1..Len(q) : out[j] = IF j <= 1 THEN p ELSE r[j - 1]
    BY <1>1, <1>3, <1>4, ConcatProperties
  <1>6. out[1] = p /\ \A k \in 1..Len(q) : k # 1 => out[k] = q[k]
    BY <1>1, <1>5
  <1>7. QED
    BY <1>1, <1>2, <1>3, <1>5, <1>6 DEF p, r

\* A delivery: what q, still to be sent, looks like after its first packet has
\* reached u.
Shortens(out, q, u) ==
    /\ out \in Seq(Packet) /\ Len(out) = Len(q) /\ Len(q) \in Nat \ {0}
    /\ u \in q[1].to /\ q[1] \in Packet
    /\ out[1].type = q[1].type /\ out[1].user = q[1].user
    /\ out[1].to = q[1].to \ {u}
    /\ \A k \in 1..Len(q) : k # 1 => out[k] = q[k]

LEMMA DeliverSays ==
    ASSUME BaseInv, NEW t \in Task, NEW u \in User, Deliver(t, u)
    PROVE  LET q == task[t].out
           IN  /\ task[t].at = "send" /\ task[t].then \in Then
               /\ told' = IF u \in online THEN [told EXCEPT ![u] = q[1].user] ELSE told
               /\ unheard' = IF t = latest /\ q[1].type # "REVOKE" THEN unheard \ {u} ELSE unheard
               /\ \E out, s : /\ Goes(t, s) /\ Says(s, out, task[t].then)
                              /\ Shortens(out, q, u)
  <1> DEFINE q == task[t].out
             out == <<[Head(q) EXCEPT !.to = @ \ {u}]>> \o Tail(q)
  <1>1. task[t].at = "send" /\ SendThen(t, out, task[t].then) /\ u \in Head(q).to
    BY DEF Deliver
  <1>2. q \in Seq(Packet) /\ Len(q) \in Nat \ {0} /\ task[t].then \in Then
    BY <1>1, BaseTypes
  <1>3. Head(q) = q[1] /\ Shortens(out, q, u)
    <2> HIDE DEF q
    <2>1. /\ Head(q) = q[1] /\ q[1] \in Packet
          /\ out \in Seq(Packet) /\ Len(out) = Len(q) /\ Len(q) \in Nat
          /\ out[1].type = q[1].type /\ out[1].user = q[1].user
          /\ out[1].to = q[1].to \ {u}
          /\ \A k \in 1..Len(q) : k # 1 => out[k] = q[k]
      <3>1. q \in Seq(Packet) /\ Len(q) > 0
        BY <1>2
      <3>2. QED
        BY ONLY <3>1, DeliveredOut
    <2> HIDE DEF out
    <2>2. u \in q[1].to
      BY <1>1, <2>1 DEF q
    <2>3. QED
      BY <1>2, <2>1, <2>2 DEF Shortens
  <1>4. /\ told' = IF u \in online THEN [told EXCEPT ![u] = q[1].user] ELSE told
        /\ unheard' = IF t = latest /\ q[1].type # "REVOKE" THEN unheard \ {u} ELSE unheard
    BY <1>3 DEF Deliver, Believes
  <1> HIDE DEF out
  <1>5. out \in Seq(Packet)
    BY <1>3 DEF Shortens
  <1>6. PICK s : Goes(t, s) /\ Says(s, out, task[t].then)
    BY <1>1, <1>2, <1>5, SendThenSays
  <1>7. QED
    BY <1>1, <1>2, <1>3, <1>4, <1>6

LEMMA LookSays ==
    ASSUME NEW u \in User, JoinLooks(u), FloorOK(floor)
    PROVE  \/ floor.state = "Idle" /\ Goto(u, Pass)
           \/ /\ floor.state = "Taken"
              /\ \E p \in Packet : \E s :
                    /\ p.to = {u} /\ p.user = floor.floor_taken_by /\ p.type = "TAKEN"
                    /\ Goes(u, s) /\ Says(s, <<p>>, "idle")
  <1> DEFINE p == [type |-> "TAKEN", user |-> floor.floor_taken_by, to |-> {u}]
  <1>1. CASE floor.state = "Taken" /\ SendThen(u, <<p>>, "idle")
    <2>1. p \in Packet /\ p.to = {u} /\ p.user = floor.floor_taken_by /\ p.type = "TAKEN"
      BY DEF Packet, FloorOK, FloorRecord
    <2> HIDE DEF p
    <2>2. <<p>> \in Seq(Packet)
      BY <2>1
    <2>3. \E s : Goes(u, s) /\ Says(s, <<p>>, "idle")
      BY <1>1, <2>2, SendThenSays DEF Then
    <2>4. QED
      BY <1>1, <2>1, <2>3
  <1>2. QED
    BY <1>1 DEF JoinLooks

LEMMA AnnouncesSays ==
    ASSUME BaseInv, NEW a \in Admin, AdminAnnounces(a)
    PROVE  \E p \in Packet : \E s : /\ p.to = members /\ p.user = NoUser /\ p.type = "IDLE"
                                    /\ Goes(a, s) /\ Says(s, <<p>>, "idle")
  <1> DEFINE p == IdleTo(members)
  <1>1. p \in Packet /\ p.to = members /\ p.user = NoUser /\ p.type = "IDLE"
    BY BaseTypes, PacketTypes DEF IdleTo
  <1>2. SendThen(a, <<p>>, "idle")
    BY DEF AdminAnnounces
  <1> HIDE DEF p
  <1>3. <<p>> \in Seq(Packet)
    BY <1>1
  <1>4. \E s : Goes(a, s) /\ Says(s, <<p>>, "idle")
    BY <1>2, <1>3, SendThenSays DEF Then
  <1>5. QED
    BY <1>1, <1>4

LEMMA GotoGoes ==
    ASSUME NEW t, NEW s \in TaskState, Goto(t, s)
    PROVE  Goes(t, s)
  BY DEF Goes, Goto

LEMMA BaseInit == Init => BaseInv
  <1> SUFFICES ASSUME Init PROVE BaseInv
    OBVIOUS
  <1>1. FloorOK(floor)
    BY NewFloorOK DEF Init
  <1>2. task = [t \in Task |-> Pass] /\ Pass \in TaskState /\ Pass.at = "idle"
    BY DEF Init, Pass, TaskState
  <1>3. User \subseteq Task /\ Reaper \in Task
    BY DEF Task
  <1>4. Typed
    BY <1>2, <1>3 DEF Init, Typed
  <1>5. SendsSomething /\ MembersAreOnline
    BY <1>2, <1>3 DEF Init, SendsSomething, MembersAreOnline, Busy, Departing
  <1>6. QED
    BY <1>1, <1>4, <1>5 DEF BaseInv

LEMMA BaseNext == BaseInv /\ [Next]_vars => BaseInv'
  <1> SUFFICES ASSUME BaseInv, [Next]_vars PROVE BaseInv'
    OBVIOUS
  <1>a. FloorOK(floor')
    BY NextMoves, MovesOK, BaseTypes
  <1>b. Rest /\ (\A u \in User : (Busy(u) => u \in online) /\ (Departs(task[u]) => u \notin members))
    BY RestHolds, BaseTypes DEF BaseInv, MembersAreOnline
  <1>c. User \subseteq Task /\ Admin \subseteq Task /\ Reaper \in Task
        /\ Reaper \notin User /\ User \cap Admin = {}
    BY BaseTypes
  \* The two ways of saying what changes the holder.
  <1>d. ASSUME NEW t \in Task, NEW ms \in SUBSET User, Transition(t, ms)
        PROVE  latest' \in Task /\ unheard' \subseteq User /\ silent' \in BOOLEAN
    BY <1>b, <1>d DEF Transition, Rest
  <1>e. ASSUME NEW t \in Task, task[t].at \in {"request", "release", "disconnect"}
        PROVE  task[t].members \in SUBSET User
    <2>1. task[t] \in TaskState
      BY <1>e, BaseTypes
    <2>2. QED
      BY <1>e, <2>1, TaskTypes
  <1>1. ASSUME NEW u \in User,
               \/ RequestStarts(u) \/ ReleaseStarts(u)
        PROVE  BaseInv'
    <2>1. u \in online /\ UNCHANGED <<members, online, broken, told, latest, unheard, silent>>
      BY <1>1 DEF RequestStarts, ReleaseStarts
    <2>2. overlapped' \in BOOLEAN
      BY <1>1, <1>b DEF RequestStarts, ReleaseStarts, Begin, Rest
    <2>3. Rest'
      BY <1>b, <2>1, <2>2 DEF Rest
    <2>4. PICK s \in TaskState : Goto(u, s) /\ s.at \in {"request", "release"}
      <3>1. /\ [at |-> "request", members |-> members] \in TaskState
            /\ [at |-> "release", members |-> members] \in TaskState
        BY <1>b DEF TaskState, Rest
      <3>2. QED
        BY <1>1, <3>1 DEF RequestStarts, ReleaseStarts
    <2>5. Goes(u, s) /\ s.at # "send" /\ ~Departs(s)
      BY <2>4, GotoGoes DEF Departs
    <2>6. QED
      BY <1>a, <1>c, <2>1, <2>3, <2>5, BaseStep
  <1>2. ASSUME NEW u \in User, NEW p \in Priority, NEW i \in Indicator, RequestDecides(u, p, i)
        PROVE  BaseInv'
    <2>1. /\ UNCHANGED <<members, online, broken, told, overlapped>>
          /\ task[u].at = "request" /\ Transition(u, task[u].members)
      BY <1>2 DEF RequestDecides
    <2>2. Rest'
      BY <1>b, <1>c, <1>d, <1>e, <2>1 DEF Rest
    <2>3. PICK s : Goes(u, s) /\ Decided(s, task[u].members) /\ ~Departs(s)
      BY <1>2, RequestSays
    <2>4. (s.at = "send" => Len(s.out) > 0) /\ u \in online
      BY <1>b, <2>1, <2>3 DEF Decided, Busy
    <2>5. QED
      BY <1>a, <1>c, <2>1, <2>2, <2>3, <2>4, BaseStep
  <1>3. ASSUME NEW u \in User, ReleaseDecides(u) PROVE BaseInv'
    <2>1. /\ UNCHANGED <<members, online, broken, told, overlapped>>
          /\ task[u].at = "release" /\ Transition(u, task[u].members)
      BY <1>3 DEF ReleaseDecides
    <2>2. Rest'
      BY <1>b, <1>c, <1>d, <1>e, <2>1 DEF Rest
    <2>3. PICK s : Goes(u, s) /\ Decided(s, task[u].members) /\ ~Departs(s)
      BY <1>3, <1>a, ReleaseSays
    <2>4. (s.at = "send" => Len(s.out) > 0) /\ u \in online
      BY <1>b, <2>1, <2>3 DEF Decided, Busy
    <2>5. QED
      BY <1>a, <1>c, <2>1, <2>2, <2>3, <2>4, BaseStep
  <1>4. ASSUME NEW u \in User, JoinStarts(u) PROVE BaseInv'
    <2>1. /\ u \in online /\ Begin(u)
          /\ members' = members \cup {u} /\ told' = [told EXCEPT ![u] = NoUser]
          /\ unheard' = unheard \cup {u}
          /\ Goto(u, [at |-> "join"])
          /\ UNCHANGED <<floor, online, broken, latest, silent>>
      BY <1>4 DEF JoinStarts
    <2>2. Rest'
      BY <1>b, <2>1 DEF Rest, Begin
    <2>3. [at |-> "join"] \in TaskState
      BY DEF TaskState
    <2>4. PICK s \in TaskState : Goto(u, s) /\ s.at = "join"
      BY <2>1, <2>3
    <2>5. Goes(u, s) /\ s.at # "send" /\ ~Departs(s)
      BY <2>4, GotoGoes DEF Departs
    <2>6. QED
      BY <1>a, <1>c, <2>1, <2>2, <2>5, BaseStep
  <1>5. ASSUME NEW u \in User, JoinLooks(u) PROVE BaseInv'
    <2>1. /\ UNCHANGED <<members, online, broken, told, latest, silent, overlapped>>
          /\ task[u].at = "join" /\ unheard' = unheard \ {u}
      BY <1>5 DEF JoinLooks
    <2>2. Rest' /\ u \in online
      BY <1>b, <2>1 DEF Rest, Busy
    <2>3. \E s : Goes(u, s) /\ (s.at = "send" => Len(s.out) > 0) /\ ~Departs(s)
      <3>1. CASE Goto(u, Pass)
        BY <3>1, PassSays
      <3>2. ASSUME NEW p, NEW s, Goes(u, s), Says(s, <<p>>, "idle")
            PROVE  (s.at = "send" => Len(s.out) > 0) /\ ~Departs(s)
        BY <3>2 DEF Says, Departs
      <3>3. QED
        BY <1>5, <3>1, <3>2, LookSays, BaseTypes
    <2>4. QED
      BY <1>a, <1>c, <2>1, <2>2, <2>3, BaseStep
  <1>6. ASSUME NEW u \in User, Leave(u) PROVE BaseInv'
    <2>1. /\ members' = members \ {u}
          /\ overlapped' \in BOOLEAN
          /\ UNCHANGED <<floor, online, broken, task, told, latest, unheard, silent>>
      BY <1>6, <1>b DEF Leave, Begin, Rest
    <2>2. QED
      BY <2>1, <1>a DEF BaseInv, Typed, SendsSomething, MembersAreOnline, Busy, Departing
  <1>7. ASSUME NEW u \in User, DisconnectStarts(u) PROVE BaseInv'
    <2>1. /\ u \in online /\ overlapped' \in BOOLEAN
          /\ members' \subseteq members /\ u \notin members'
          /\ UNCHANGED <<floor, online, broken, told, latest, unheard, silent>>
      BY <1>7, <1>b DEF DisconnectStarts, Begin, Rest
    <2>2. Rest'
      BY <1>b, <2>1 DEF Rest
    <2>3. PICK s \in TaskState : Goto(u, s) /\ s.at \in {"disconnect", "unregister"}
      <3>1. /\ [at |-> "disconnect", members |-> members \ {u}] \in TaskState
            /\ [at |-> "unregister"] \in TaskState
        BY <1>b DEF TaskState, Rest
      <3>2. QED
        BY <1>7, <3>1 DEF DisconnectStarts
    <2>4. Goes(u, s) /\ s.at # "send"
      BY <2>3, GotoGoes
    <2>5. QED
      BY <1>a, <1>c, <2>1, <2>2, <2>4, BaseStep
  <1>8. ASSUME NEW u \in User, DisconnectDecides(u) PROVE BaseInv'
    <2>1. /\ UNCHANGED <<members, online, broken, told, overlapped>>
          /\ task[u].at = "disconnect" /\ Transition(u, task[u].members)
      BY <1>8 DEF DisconnectDecides
    <2>2. Rest'
      BY <1>b, <1>c, <1>d, <1>e, <2>1 DEF Rest
    <2>3. PICK s : Goes(u, s) /\ Decided(s, task[u].members)
      BY <1>8, <1>a, DisconnectSays
    <2>4. (s.at = "send" => Len(s.out) > 0) /\ u \in online /\ u \notin members
      BY <1>b, <2>1, <2>3 DEF Decided, Busy, Departs
    <2>5. QED
      BY <1>a, <1>c, <2>1, <2>2, <2>3, <2>4, BaseStep
  <1>9. ASSUME NEW u \in User, Unregisters(u) PROVE BaseInv'
    <2>1. /\ task[u].at = "unregister" /\ Goto(u, Pass)
          /\ online' = online \ {u} /\ broken' = broken \ {u}
          /\ UNCHANGED <<floor, members, told, latest, unheard, silent, overlapped>>
      BY <1>9 DEF Unregisters
    <2>2. u \notin members
      BY <1>b, <2>1 DEF Departs
    <2>3. Rest'
      BY <1>b, <2>1, <2>2 DEF Rest
    <2>4. Goes(u, Pass) /\ Pass.at = "idle" /\ ~Departs(Pass)
      BY <2>1, PassSays
    <2>5. QED
      BY <1>a, <1>c, <2>1, <2>3, <2>4, BaseStep
  <1>10. ASSUME NEW u \in User, Connect(u) PROVE BaseInv'
    <2>1. /\ online' = online \cup {u} /\ told' = [told EXCEPT ![u] = NoUser]
          /\ overlapped' \in BOOLEAN
          /\ UNCHANGED <<floor, members, broken, task, latest, unheard, silent>>
      BY <1>10, <1>b DEF Connect, Begin, Rest
    <2>2. told' \in [User -> User \cup {NoUser}]
      BY <1>b, <2>1 DEF Rest
    <2>3. QED
      BY <2>1, <2>2, <1>a DEF BaseInv, Typed, SendsSomething, MembersAreOnline, Busy, Departing
  <1>11. ASSUME NEW u \in User, GivesUp(u) PROVE BaseInv'
    <2>1. /\ task[u].at = "send" /\ Goto(u, Pass)
          /\ broken' = broken \cup {u} /\ silent' = (silent \/ latest = u)
          /\ UNCHANGED <<floor, members, online, told, latest, unheard, overlapped>>
      BY <1>11 DEF GivesUp
    <2>2. u \in online
      BY <1>b, <2>1 DEF Busy
    <2>3. Rest'
      BY <1>b, <2>1, <2>2 DEF Rest
    <2>4. Goes(u, Pass) /\ Pass.at = "idle" /\ ~Departs(Pass)
      BY <2>1, PassSays
    <2>5. QED
      BY <1>a, <1>c, <2>1, <2>2, <2>3, <2>4, BaseStep
  <1>12. CASE Tick
    BY <1>12, <1>a DEF Tick, BaseInv, Typed, SendsSomething, MembersAreOnline, Busy, Departing
  <1>13. CASE SweepRevokes
    <2>1. /\ UNCHANGED <<members, online, broken, told>> /\ overlapped' \in BOOLEAN
          /\ Transition(Reaper, members)
      BY <1>13, <1>b DEF SweepRevokes, Begin, Rest
    <2>2. Rest'
      BY <1>b, <1>c, <1>d, <2>1 DEF Rest
    <2>3. PICK s : Goes(Reaper, s) /\ Decided(s, members)
      BY <1>13, <1>a, SweepSays
    <2>4. s.at = "send" => Len(s.out) > 0
      BY <2>3 DEF Decided
    <2>5. QED
      BY <1>a, <1>c, <2>1, <2>2, <2>3, <2>4, BaseStep
  <1>14. ASSUME NEW a \in Admin, AdminLooks(a) PROVE BaseInv'
    <2>1. /\ UNCHANGED <<members, online, broken, told, latest, unheard, silent>>
          /\ overlapped' \in BOOLEAN
      BY <1>14, <1>b DEF AdminLooks, Begin, Rest
    <2>2. Rest'
      BY <1>b, <2>1 DEF Rest
    <2>3. PICK s \in TaskState : Goto(a, s) /\ s.at = "clear"
      <3>1. floor.floor_taken_by \in User
        BY <1>14, BaseTypes DEF AdminLooks, FloorOK, FloorRecord
      <3>2. [at |-> "clear", holder |-> floor.floor_taken_by] \in TaskState
        BY <3>1 DEF TaskState
      <3>3. QED
        BY <1>14, <3>2 DEF AdminLooks
    <2>4. Goes(a, s) /\ s.at # "send"
      BY <2>3, GotoGoes
    <2>5. QED
      BY <1>a, <1>c, <2>1, <2>2, <2>4, BaseStep
  <1>15. ASSUME NEW a \in Admin, AdminClears(a) PROVE BaseInv'
    <2>1. UNCHANGED <<members, online, broken, told, overlapped>> /\ Transition(a, members)
      BY <1>15 DEF AdminClears
    <2>2. Rest'
      BY <1>b, <1>c, <1>d, <2>1 DEF Rest
    <2>3. PICK s : Goes(a, s) /\ Decided(s, members)
      BY <1>15, ClearSays
    <2>4. s.at = "send" => Len(s.out) > 0
      BY <2>3 DEF Decided
    <2>5. QED
      BY <1>a, <1>c, <2>1, <2>2, <2>3, <2>4, BaseStep
  <1>16. ASSUME NEW a \in Admin, AdminAnnounces(a) PROVE BaseInv'
    <2>1. UNCHANGED <<members, online, broken, told, latest, unheard, silent, overlapped>>
      BY <1>16 DEF AdminAnnounces
    <2>2. Rest'
      BY <1>b, <2>1 DEF Rest
    <2>3. PICK p, s : Goes(a, s) /\ Says(s, <<p>>, "idle")
      BY <1>16, AnnouncesSays
    <2>4. s.at = "send" => Len(s.out) > 0
      BY <2>3 DEF Says
    <2>5. QED
      BY <1>a, <1>c, <2>1, <2>2, <2>3, <2>4, BaseStep
  <1>17. ASSUME NEW t \in Task, NEW u \in User, Deliver(t, u) PROVE BaseInv'
    <2> DEFINE q == task[t].out
    <2>1. /\ task[t].at = "send" /\ task[t].then \in Then
          /\ told' = IF u \in online THEN [told EXCEPT ![u] = q[1].user] ELSE told
          /\ unheard' = IF t = latest /\ q[1].type # "REVOKE" THEN unheard \ {u} ELSE unheard
          /\ \E out, s : /\ Goes(t, s) /\ Says(s, out, task[t].then)
                         /\ Shortens(out, q, u)
      BY <1>17, DeliverSays
    <2>2. UNCHANGED <<members, online, broken, latest, silent, overlapped>>
      BY <1>17 DEF Deliver
    <2>3. PICK out, s : Goes(t, s) /\ Says(s, out, task[t].then) /\ Shortens(out, q, u)
      BY <2>1
    <2>4. q[1].user \in User \cup {NoUser}
      BY <2>3 DEF Shortens, Packet
    <2>5. Rest'
      BY <1>b, <2>1, <2>2, <2>4 DEF Rest
    <2>6. s.at = "send" => Len(s.out) > 0 /\ s.then = task[t].then
      BY <2>3 DEF Says
    <2>7. s.at # "send" => s.at = IF task[t].then = "requested" THEN "idle" ELSE task[t].then
      BY <2>3 DEF Says
    <2>8. Departs(s) => Departs(task[t])
      BY <2>1, <2>6, <2>7 DEF Departs, Then
    <2>9. t \in User => t \in online
      BY <1>b, <2>1 DEF Busy
    <2>10. t \in User => (Departs(s) => t \notin members')
      BY <1>b, <2>2, <2>8
    <2>11. QED
      BY <1>a, <2>2, <2>3, <2>5, <2>6, <2>9, <2>10, BaseStep
  <1>18. CASE UNCHANGED vars
    BY <1>18 DEF vars, BaseInv, Typed, SendsSomething, MembersAreOnline, Busy, Departing
  <1>19. QED
    BY <1>1, <1>2, <1>3, <1>4, <1>5, <1>6, <1>7, <1>8, <1>9, <1>10, <1>11, <1>12, <1>13,
       <1>14, <1>15, <1>16, <1>17, <1>18 DEF Next

LEMMA BaseAlways == Spec => []BaseInv
  BY BaseInit, BaseNext, PTL DEF Spec

\* However the handlers interleave, every task is at one of its own steps, what
\* it still has to send is made of packets, and only registered users' queues
\* are found closed.
THEOREM TypeCorrect == Spec => []TypeOK
  <1>1. BaseInv => TypeOK
    BY DEF BaseInv, Typed, TypeOK, FloorOK
  <1>2. QED
    BY <1>1, BaseAlways, PTL

-----------------------------------------------------------------------------
(* The floor implements the arbiter, step by step.                         *)

\* A new floor is a free one with nobody waiting.
LEMMA InitRefines == Init => Arbiter!AbsInit
  <1> SUFFICES ASSUME Init PROVE Arbiter!AbsInit
    OBVIOUS
  <1>1. /\ floor.floor_taken_by = NoUser
        /\ floor.floor_priority = 0
        /\ floor.queue = <<>>
    BY DEF Init, NewFloor
  <1>2. WaitingUsers(floor) = {}
    BY <1>1 DEF WaitingUsers
  <1>3. WaitingOf(floor) = <<>> /\ AheadOf(floor) = {}
    BY <1>2 DEF WaitingOf, AheadOf
  <1>4. QED
    BY <1>1, <1>3 DEF Arbiter!AbsInit

\* What the lemmas of FloorControlProof say of a step, in the arbiter's words.
LEMMA KeepsWaiting ==
    ASSUME NEW W, Keeps(floor', floor, W)
    PROVE  Arbiter!KeepWaiting(W)
  BY DEF Keeps, Restrict, Arbiter!KeepWaiting, Arbiter!Restrict

\* DecideNext hands the floor to one of the waiters of W.
LEMMA DecideNextPasses ==
    ASSUME NEW f \in FloorRecord, QueueOK(f.queue), NEW W,
           Keeps(f, floor, W), W \subseteq WaitingUsers(floor),
           floor' = DecideNext(f)
    PROVE  Arbiter!PassTo(W)
  <1>1. WaitingUsers(f) = W
    BY DEF Keeps
  <1>2. CASE /\ WaitingUsers(f) = {}
             /\ floor'.floor_taken_by = NoUser
             /\ floor'.floor_priority = 0
             /\ Keeps(floor', f, {})
    <2>1. Keeps(floor', floor, {})
      BY <1>2 DEF Keeps, Restrict
    <2>2. QED
      BY <1>1, <1>2, <2>1, KeepsWaiting DEF Arbiter!PassTo
  <1>3. ASSUME NEW n \in WaitingUsers(f),
               NextInLine(n, WaitingUsers(f), f),
               floor'.floor_taken_by = n,
               floor'.floor_priority = WaitingOf(f)[n],
               Keeps(floor', f, WaitingUsers(f) \ {n})
        PROVE  Arbiter!PassTo(W)
    <2>1. \A w \in W : WaitingOf(f)[w] = WaitingOf(floor)[w]
      BY DEF Keeps, Restrict
    <2>2. \A w \in W : <<w, n>> \in AheadOf(f) <=> <<w, n>> \in AheadOf(floor)
      BY <1>1, <1>3 DEF Keeps
    <2>3. Arbiter!First(n, W)
      BY <1>1, <1>3, <2>1, <2>2 DEF NextInLine, Arbiter!First
    <2>4. Keeps(floor', floor, W \ {n})
      <3>1. WaitingOf(floor') = Restrict(WaitingOf(floor), W \ {n})
        BY <1>1, <1>3, <2>1 DEF Keeps, Restrict
      <3>2. AheadOf(floor') = AheadOf(floor) \cap ((W \ {n}) \X (W \ {n}))
        BY <1>1, <1>3 DEF Keeps
      <3>3. QED
        BY <1>1, <1>3, <3>1, <3>2 DEF Keeps
    <2>5. Arbiter!KeepWaiting(W \ {n})
      BY <2>4, KeepsWaiting
    <2>6. QED
      BY <1>1, <1>3, <2>1, <2>3, <2>5 DEF Arbiter!PassTo
  <1>4. QED
    BY <1>2, <1>3, DecideNextView

\* Every decision under the lock is one the arbiter could take, whatever the
\* tasks have seen and sent outside it.
LEMMA MovesRefine ==
    FloorOK(floor) /\ FloorMoves => [Arbiter!AbsNext]_(Arbiter!avars)
  <1> SUFFICES ASSUME FloorOK(floor), FloorMoves
               PROVE  Arbiter!AbsNext \/ UNCHANGED Arbiter!avars
    OBVIOUS
  <1>b. /\ floor \in FloorRecord
        /\ QueueOK(floor.queue)
        /\ DOMAIN WaitingOf(floor) = WaitingUsers(floor)
        /\ floor.state = "Taken" <=> floor.floor_taken_by # NoUser
        /\ floor.state \in {"Idle", "Taken"}
    BY WaitingDomain DEF FloorOK, FloorRecord
  \* Neither holder, rank nor queue changes.
  <1>c. ASSUME floor'.floor_taken_by = floor.floor_taken_by,
               floor'.floor_priority = floor.floor_priority,
               floor'.queue = floor.queue
        PROVE  UNCHANGED Arbiter!avars
    BY <1>c, SameQueueSameView DEF Arbiter!avars
  \* A user leaves the queue.
  <1>e. ASSUME NEW u \in User, u # floor.floor_taken_by,
               floor' = RemoveFromQueue(floor, u)
        PROVE  Arbiter!Withdraw(u)
    <2>1. /\ Keeps(floor', floor, WaitingUsers(floor) \ {u})
          /\ floor'.floor_taken_by = floor.floor_taken_by
          /\ floor'.floor_priority = floor.floor_priority
      BY <1>b, <1>e, RemoveFromQueueView
    <2>2. Arbiter!KeepWaiting(WaitingUsers(floor) \ {u})
      BY <2>1, KeepsWaiting
    <2>3. QED
      BY <1>b, <1>e, <2>1, <2>2 DEF Arbiter!Withdraw
  <1>1. ASSUME NEW u \in User, NEW p \in Priority, NEW i \in Indicator,
               \/ floor.state = "Idle" /\ floor' = Grant(floor, u, p, i)
               \/ CanPreempt(floor, p, i) /\ floor' = Grant(floor, u, p, i)
               \/ /\ floor.state = "Taken" /\ ~CanPreempt(floor, p, i)
                  /\ floor' = Enqueue(floor, u, p, i)
        PROVE  Arbiter!Seize(u, p) \/ Arbiter!Displace(u, p) \/ Arbiter!Await(u, p)
    <2>1. CASE floor.state = "Idle" /\ floor' = Grant(floor, u, p, i)
      <3>1. /\ floor'.floor_taken_by = u
            /\ floor'.floor_priority = p
            /\ floor'.queue = floor.queue
        BY <1>b, <2>1 DEF Grant, FloorRecord
      <3>2. floor.queue = <<>> /\ floor.floor_taken_by = NoUser
        BY <2>1 DEF FloorOK, NewFloor
      <3>3. WaitingUsers(floor) = {}
        BY <3>2 DEF WaitingUsers
      <3>4. QED
        BY <1>b, <3>1, <3>2, <3>3, SameQueueSameView DEF Arbiter!Seize
    <2>2. CASE CanPreempt(floor, p, i) /\ floor' = Grant(floor, u, p, i)
      <3>1. /\ floor'.floor_taken_by = u
            /\ floor'.floor_priority = p
            /\ floor'.queue = floor.queue
        BY <1>b, <2>2 DEF Grant, FloorRecord
      <3>2. /\ floor.floor_taken_by # NoUser
            /\ "Emergency" \in Indicator \/ p > floor.floor_priority
        BY <1>b, <2>2 DEF CanPreempt
      <3>3. QED
        BY <3>1, <3>2, SameQueueSameView DEF Arbiter!Displace
    <2>3. CASE /\ floor.state = "Taken" /\ ~CanPreempt(floor, p, i)
               /\ floor' = Enqueue(floor, u, p, i)
      <3>1. floor.floor_taken_by # NoUser /\ ~(p > floor.floor_priority)
        BY <1>b, <2>3 DEF CanPreempt
      <3>2. p \in Nat /\ floor.floor_priority \in Nat
        <4>1. floor.floor_priority \in Priority \cup {0}
          BY <1>b DEF FloorRecord
        <4>2. Priority \cup {0} \subseteq Nat
          BY PriorityAssumption
        <4>3. QED
          BY <4>1, <4>2
      <3>3. p <= floor.floor_priority
        BY <3>1, <3>2
      <3>4. /\ floor'.floor_taken_by = floor.floor_taken_by
            /\ floor'.floor_priority = floor.floor_priority
            /\ Joins(floor', floor, u, p)
        BY <1>b, <2>3, EnqueueView
      <3>5. QED
        BY <1>b, <3>1, <3>3, <3>4 DEF Joins, Arbiter!Await
    <2>4. QED
      BY <1>1, <2>1, <2>2, <2>3
  <1>2. ASSUME floor.state = "Taken", floor' = DecideNext(floor)
        PROVE  Arbiter!Yield
    <2>1. Keeps(floor, floor, WaitingUsers(floor))
      <3>1. WaitingOf(floor) = Restrict(WaitingOf(floor), WaitingUsers(floor))
        BY DEF WaitingOf, Restrict
      <3>2. AheadOf(floor) \subseteq WaitingUsers(floor) \X WaitingUsers(floor)
        BY DEF AheadOf
      <3>3. QED
        BY <3>1, <3>2 DEF Keeps
    <2>2. Arbiter!PassTo(WaitingUsers(floor))
      BY <1>b, <1>2, <2>1, DecideNextPasses
    <2>3. QED
      BY <1>b, <1>2, <2>2 DEF Arbiter!Yield
  <1>3. ASSUME NEW u \in User, floor' = Disconnected(floor, u)
        PROVE  Arbiter!Withdraw(u) \/ Arbiter!Depart(u)
    <2> DEFINE g == RemoveFromQueue(floor, u)
    <2>1. floor' = IF g.floor_taken_by = u THEN DecideNext(g) ELSE g
      BY <1>3 DEF Disconnected
    <2>2. /\ Keeps(g, floor, WaitingUsers(floor) \ {u})
          /\ g.floor_taken_by = floor.floor_taken_by
          /\ g \in FloorRecord
          /\ QueueOK(g.queue)
      BY <1>b, RemoveFromQueueView
    <2>3. CASE u = floor.floor_taken_by
      <3>1. floor' = DecideNext(g)
        BY <2>1, <2>2, <2>3
      <3> HIDE DEF g
      <3>2. Arbiter!PassTo(WaitingUsers(floor) \ {u})
        BY <2>2, <3>1, DecideNextPasses
      <3>3. QED
        BY <1>b, <2>3, <3>2 DEF Arbiter!Depart
    <2>4. CASE u # floor.floor_taken_by
      BY <1>e, <2>1, <2>2, <2>4
    <2>5. QED
      BY <2>3, <2>4
  <1>4. ASSUME floor.state = "Taken", floor' = Elapse(floor)
        PROVE  UNCHANGED Arbiter!avars
    BY <1>b, <1>c, <1>4 DEF Elapse, FloorRecord
  <1>5. ASSUME floor' = AdminCleared(floor) PROVE Arbiter!Reset
    <2>1. floor' = NewFloor
      BY <1>5, AdminClearedOK
    <2>2. /\ floor'.floor_taken_by = NoUser
          /\ floor'.floor_priority = 0
          /\ floor'.queue = <<>>
      BY <2>1 DEF NewFloor
    <2>3. Keeps(floor', floor, {})
      <3>1. WaitingUsers(floor') = {}
        BY <2>2 DEF WaitingUsers
      <3>2. QED
        BY <3>1 DEF Keeps, WaitingOf, AheadOf, Restrict
    <2>4. Arbiter!KeepWaiting({})
      BY <2>3, KeepsWaiting
    <2>5. QED
      BY <2>2, <2>4 DEF Arbiter!Reset
  <1>6. ASSUME floor' = floor PROVE UNCHANGED Arbiter!avars
    BY <1>c, <1>6
  <1>7. QED
    BY <1>e, <1>1, <1>2, <1>3, <1>4, <1>5, <1>6 DEF FloorMoves, Arbiter!AbsNext

\* However the handlers overlap, the floor goes through what the arbiter allows:
\* nothing a task has read outside the lock takes part in a decision.
THEOREM Refinement == Spec => ImplementsArbiter
  <1>1. BaseInv /\ [Next]_vars => [Arbiter!AbsNext]_(Arbiter!avars)
    BY NextMoves, MovesRefine, BaseTypes
  <1>2. QED
    BY <1>1, InitRefines, BaseAlways, PTL DEF Spec, ImplementsArbiter, Arbiter!AbsSpec

-----------------------------------------------------------------------------
(* Nobody is missed.                                                       *)

\* A task in state s is going to send u word of the floor.
Informs(s, u) == Announces(s) \/ (s.at = "send" /\ Tells(s.out, u))

\* Whoever has not been sent word of the last change of holder is going to look
\* at the floor itself, or the task that made the change has word for it.
Informed ==
    ~silent => \A u \in unheard \cap members :
                  task[u].at = "join" \/ Informs(task[latest], u)

\* A step of a task that was not about to say anything, that changes no holder
\* and adds nobody to the channel.
LEMMA InformedStep ==
    ASSUME BaseInv, Informed, NEW t \in Task, NEW s, Goes(t, s),
           task[t].at \in {"idle", "request", "release", "disconnect", "clear", "unregister"},
           latest' = latest, silent' => silent, silent => silent', 
           unheard' \cap members' \subseteq unheard \cap members
    PROVE  Informed'
  <1>1. /\ task'[t] = s
        /\ \A r \in Task : r # t => task'[r] = task[r]
    BY BaseTypes, GoesFrame
  <1> SUFFICES ASSUME ~silent, NEW u \in unheard \cap members
               PROVE  task'[u].at = "join" \/ Informs(task'[latest], u)
    BY DEF Informed
  <1>2. u \in User /\ User \subseteq Task /\ latest \in Task
    BY BaseTypes DEF BaseInv, Typed
  <1>3. task[u].at = "join" \/ Informs(task[latest], u)
    BY DEF Informed
  <1>4. task[u].at = "join" => u # t
    OBVIOUS
  <1>5. Informs(task[latest], u) => latest # t
    BY DEF Informs, Announces
  <1>6. QED
    BY <1>1, <1>2, <1>3, <1>4, <1>5

\* A decision, t being the task that takes it and ms its audience.
LEMMA InformedDecision ==
    ASSUME BaseInv, Informed, NEW t \in Task, NEW s, Goes(t, s), NEW ms \in SUBSET User,
           task[t].at \in {"idle", "request", "release", "disconnect", "clear"},
           Decided(s, ms), Transition(t, ms), members' = members
    PROVE  Informed'
  <1>1. CASE floor'.floor_taken_by = floor.floor_taken_by
    <2>1. UNCHANGED <<latest, unheard, silent>>
      BY <1>1 DEF Transition
    <2>2. QED
      BY <2>1, InformedStep
  <1>2. CASE floor'.floor_taken_by # floor.floor_taken_by
    <2>1. latest' = t /\ unheard' = ms
      BY <1>2 DEF Transition
    <2>2. task'[t] = s
      BY BaseTypes, GoesFrame
    <2>3. \A v \in ms : Informs(s, v)
      BY <1>2 DEF Decided, Informs
    <2>4. QED
      BY <2>1, <2>2, <2>3 DEF Informed
  <1>3. QED
    BY <1>1, <1>2

LEMMA InformedInit == Init => Informed
  BY DEF Init, Informed

\* What a task still has to tell after a delivery to u.
LEMMA ShorterTells ==
    ASSUME NEW out, NEW q, NEW u, Shortens(out, q, u), NEW v, Tells(q, v),
           v # u \/ q[1].type = "REVOKE"
    PROVE  Tells(out, v)
  <1>1. PICK k \in 1..Len(q) : q[k].type # "REVOKE" /\ v \in q[k].to
    BY DEF Tells
  <1>2. k \in 1..Len(out) /\ out[k].type # "REVOKE" /\ v \in out[k].to
    BY <1>1 DEF Shortens
  <1>3. QED
    BY <1>2 DEF Tells

LEMMA InformedNext == BaseInv /\ Informed /\ [Next]_vars => Informed'
  <1> SUFFICES ASSUME BaseInv, Informed, [Next]_vars PROVE Informed'
    OBVIOUS
  <1>a. FloorOK(floor')
    BY NextMoves, MovesOK, BaseTypes
  <1>b. /\ User \subseteq Task /\ Admin \subseteq Task /\ Reaper \in Task
        /\ task \in [Task -> TaskState]
        /\ members \subseteq User /\ latest \in Task
    BY BaseTypes DEF BaseInv, Typed
  <1>c. \A t \in Task : Idle(t) => task[t].at = "idle"
    BY DEF Idle, Pass
  <1>e. ASSUME NEW t \in Task, task[t].at \in {"request", "release", "disconnect"}
        PROVE  task[t].members \in SUBSET User
    <2>1. task[t] \in TaskState
      BY <1>e, BaseTypes
    <2>2. QED
      BY <1>e, <2>1, TaskTypes
  <1>1. ASSUME NEW u \in User,
               \/ RequestStarts(u) \/ ReleaseStarts(u)
        PROVE  Informed'
    <2>1. Idle(u) /\ UNCHANGED <<members, latest, unheard, silent>>
      BY <1>1 DEF RequestStarts, ReleaseStarts, Begin
    <2>2. PICK s \in TaskState : Goto(u, s)
      <3>1. /\ [at |-> "request", members |-> members] \in TaskState
            /\ [at |-> "release", members |-> members] \in TaskState
        BY <1>b DEF TaskState
      <3>2. QED
        BY <1>1, <3>1 DEF RequestStarts, ReleaseStarts
    <2>3. QED
      BY <1>b, <1>c, <2>1, <2>2, GotoGoes, InformedStep
  <1>2. ASSUME NEW u \in User, NEW p \in Priority, NEW i \in Indicator, RequestDecides(u, p, i)
        PROVE  Informed'
    <2>1. members' = members /\ task[u].at = "request" /\ Transition(u, task[u].members)
      BY <1>2 DEF RequestDecides
    <2>2. PICK s : Goes(u, s) /\ Decided(s, task[u].members)
      BY <1>2, RequestSays
    <2>3. QED
      BY <1>b, <1>e, <2>1, <2>2, InformedDecision
  <1>3. ASSUME NEW u \in User, ReleaseDecides(u) PROVE Informed'
    <2>1. members' = members /\ task[u].at = "release" /\ Transition(u, task[u].members)
      BY <1>3 DEF ReleaseDecides
    <2>2. PICK s : Goes(u, s) /\ Decided(s, task[u].members)
      BY <1>3, <1>a, ReleaseSays
    <2>3. QED
      BY <1>b, <1>e, <2>1, <2>2, InformedDecision
  <1>4. ASSUME NEW u \in User, JoinStarts(u) PROVE Informed'
    <2>1. /\ Idle(u) /\ members' = members \cup {u}
          /\ unheard' = unheard \cup {u}
          /\ Goto(u, [at |-> "join"])
          /\ UNCHANGED <<latest, silent>>
      BY <1>4 DEF JoinStarts, Begin
    <2>2. [at |-> "join"] \in TaskState
      BY DEF TaskState
    <2>3. Goes(u, [at |-> "join"])
      BY <2>1, <2>2, GotoGoes
    <2>4. task'[u].at = "join" /\ \A r \in Task : r # u => task'[r] = task[r]
      BY <1>b, <2>3, GoesFrame
    <2> SUFFICES ASSUME ~silent, NEW v \in (unheard \cup {u}) \cap (members \cup {u}), v # u
                 PROVE  task'[v].at = "join" \/ Informs(task'[latest], v)
      BY <2>1, <2>4 DEF Informed
    <2>5. task[v].at = "join" \/ Informs(task[latest], v)
      BY DEF Informed
    <2>6. Informs(task[latest], v) => latest # u
      BY <1>b, <1>c, <2>1 DEF Informs, Announces
    <2>7. QED
      BY <1>b, <2>4, <2>5, <2>6
  <1>5. ASSUME NEW u \in User, JoinLooks(u) PROVE Informed'
    <2>1. /\ UNCHANGED <<members, latest, silent>>
          /\ task[u].at = "join" /\ unheard' = unheard \ {u}
      BY <1>5 DEF JoinLooks
    <2>2. PICK s : Goes(u, s)
      BY <1>5, LookSays, PassSays, BaseTypes
    <2>3. \A r \in Task : r # u => task'[r] = task[r]
      BY <1>b, <2>2, GoesFrame
    <2> SUFFICES ASSUME ~silent, NEW v \in (unheard \ {u}) \cap members
                 PROVE  task'[v].at = "join" \/ Informs(task'[latest], v)
      BY <2>1 DEF Informed
    <2>4. task[v].at = "join" \/ Informs(task[latest], v)
      BY DEF Informed
    <2>5. Informs(task[latest], v) => latest # u
      BY <2>1 DEF Informs, Announces
    <2>6. QED
      BY <1>b, <2>3, <2>4, <2>5
  <1>6. ASSUME NEW u \in User, Leave(u) PROVE Informed'
    BY <1>6 DEF Leave, Informed
  <1>7. ASSUME NEW u \in User, DisconnectStarts(u) PROVE Informed'
    <2>1. /\ Idle(u) /\ members' \subseteq members
          /\ UNCHANGED <<latest, unheard, silent>>
      BY <1>7 DEF DisconnectStarts, Begin
    <2>2. PICK s \in TaskState : Goto(u, s)
      <3>1. /\ [at |-> "disconnect", members |-> members \ {u}] \in TaskState
            /\ [at |-> "unregister"] \in TaskState
        BY <1>b DEF TaskState
      <3>2. QED
        BY <1>7, <3>1 DEF DisconnectStarts
    <2>3. QED
      BY <1>b, <1>c, <2>1, <2>2, GotoGoes, InformedStep
  <1>8. ASSUME NEW u \in User, DisconnectDecides(u) PROVE Informed'
    <2>1. members' = members /\ task[u].at = "disconnect" /\ Transition(u, task[u].members)
      BY <1>8 DEF DisconnectDecides
    <2>2. PICK s : Goes(u, s) /\ Decided(s, task[u].members)
      BY <1>8, <1>a, DisconnectSays
    <2>3. QED
      BY <1>b, <1>e, <2>1, <2>2, InformedDecision
  <1>9. ASSUME NEW u \in User, Unregisters(u) PROVE Informed'
    <2>1. /\ task[u].at = "unregister" /\ Goto(u, Pass)
          /\ UNCHANGED <<members, latest, unheard, silent>>
      BY <1>9 DEF Unregisters
    <2>2. QED
      BY <1>b, <2>1, PassSays, InformedStep
  <1>10. ASSUME NEW u \in User, Connect(u) PROVE Informed'
    BY <1>10 DEF Connect, Informed
  <1>11. ASSUME NEW u \in User, GivesUp(u) PROVE Informed'
    <2>1. /\ task[u].at = "send" /\ Goto(u, Pass)
          /\ silent' = (silent \/ latest = u)
          /\ UNCHANGED <<members, latest, unheard>>
      BY <1>11 DEF GivesUp
    <2>2. \A r \in Task : r # u => task'[r] = task[r]
      BY <1>b, <2>1, PassSays, GoesFrame
    <2> SUFFICES ASSUME ~silent, latest # u, NEW v \in unheard \cap members
                 PROVE  task'[v].at = "join" \/ Informs(task'[latest], v)
      BY <2>1 DEF Informed
    <2>3. task[v].at = "join" \/ Informs(task[latest], v)
      BY DEF Informed
    <2>4. task[v].at = "join" => v # u
      BY <2>1
    <2>5. QED
      BY <1>b, <2>2, <2>3, <2>4
  <1>12. CASE Tick
    BY <1>12 DEF Tick, Informed
  <1>13. CASE SweepRevokes
    <2>1. Idle(Reaper) /\ members' = members /\ Transition(Reaper, members)
      BY <1>13 DEF SweepRevokes, Begin
    <2>2. PICK s : Goes(Reaper, s) /\ Decided(s, members)
      BY <1>13, <1>a, SweepSays
    <2>3. QED
      BY <1>b, <1>c, <2>1, <2>2, InformedDecision
  <1>14. ASSUME NEW a \in Admin, AdminLooks(a) PROVE Informed'
    <2>1. Idle(a) /\ UNCHANGED <<members, latest, unheard, silent>>
      BY <1>14 DEF AdminLooks, Begin
    <2>2. PICK s \in TaskState : Goto(a, s)
      <3>1. floor.floor_taken_by \in User
        BY <1>14, BaseTypes DEF AdminLooks, FloorOK, FloorRecord
      <3>2. [at |-> "clear", holder |-> floor.floor_taken_by] \in TaskState
        BY <3>1 DEF TaskState
      <3>3. QED
        BY <1>14, <3>2 DEF AdminLooks
    <2>3. QED
      BY <1>b, <1>c, <2>1, <2>2, GotoGoes, InformedStep
  <1>15. ASSUME NEW a \in Admin, AdminClears(a) PROVE Informed'
    <2>1. members' = members /\ task[a].at = "clear" /\ Transition(a, members)
      BY <1>15 DEF AdminClears
    <2>2. PICK s : Goes(a, s) /\ Decided(s, members)
      BY <1>15, ClearSays
    <2>3. QED
      BY <1>b, <2>1, <2>2, InformedDecision
  <1>16. ASSUME NEW a \in Admin, AdminAnnounces(a) PROVE Informed'
    <2>1. task[a].at = "announce" /\ UNCHANGED <<members, latest, unheard, silent>>
      BY <1>16 DEF AdminAnnounces
    <2>2. PICK p, s : /\ p \in Packet /\ p.to = members /\ p.type = "IDLE"
                      /\ Goes(a, s) /\ Says(s, <<p>>, "idle")
      BY <1>16, AnnouncesSays
    <2>3. task'[a] = s /\ \A r \in Task : r # a => task'[r] = task[r]
      BY <1>b, <2>2, GoesFrame
    <2>4. \A v \in members : Tells(<<p>>, v)
      BY <2>2 DEF Tells
    <2>5. \A v \in members : Informs(s, v)
      BY <2>2, <2>4 DEF Says, Informs
    <2>6. \A v \in User : task[v].at = "join" => task'[v].at = "join"
      BY <1>b, <2>1, <2>3
    <2>7. QED
      BY <1>b, <2>1, <2>3, <2>5, <2>6 DEF Informed
  <1>17. ASSUME NEW t \in Task, NEW u \in User, Deliver(t, u) PROVE Informed'
    <2> DEFINE q == task[t].out
    <2>1. /\ task[t].at = "send" /\ task[t].then \in Then
          /\ unheard' = IF t = latest /\ q[1].type # "REVOKE" THEN unheard \ {u} ELSE unheard
          /\ \E out, s : /\ Goes(t, s) /\ Says(s, out, task[t].then)
                         /\ Shortens(out, q, u)
      BY <1>17, DeliverSays
    <2>2. UNCHANGED <<members, latest, silent>>
      BY <1>17 DEF Deliver
    <2>3. PICK out, s : Goes(t, s) /\ Says(s, out, task[t].then) /\ Shortens(out, q, u)
      BY <2>1
    <2>4. task'[t] = s /\ \A r \in Task : r # t => task'[r] = task[r]
      BY <1>b, <2>3, GoesFrame
    <2> SUFFICES ASSUME ~silent, NEW v \in unheard' \cap members
                 PROVE  task'[v].at = "join" \/ Informs(task'[latest], v)
      BY <2>2 DEF Informed
    <2>5. v \in unheard /\ (task[v].at = "join" \/ Informs(task[latest], v))
      BY <2>1 DEF Informed
    <2>6. task[v].at = "join" => task'[v].at = "join"
      BY <1>b, <2>1, <2>4
    <2>7. ASSUME latest = t, Informs(task[t], v) PROVE Informs(s, v)
      <3>1. CASE Announces(task[t])
        <4>1. task[t].then = "announce"
          BY <2>1, <3>1 DEF Announces
        <4>2. QED
          BY <2>3, <4>1, AnnounceSays DEF Informs
      <3>2. CASE Tells(q, v)
        <4>1. v # u \/ q[1].type = "REVOKE"
          BY <2>1, <2>7
        <4>2. Tells(out, v)
          BY <2>3, <3>2, <4>1, ShorterTells
        <4>3. QED
          BY <2>3, <4>2 DEF Says, Informs
      <3>3. QED
        BY <2>7, <3>1, <3>2 DEF Informs
    <2>8. QED
      BY <1>b, <2>4, <2>5, <2>6, <2>7
  <1>18. CASE UNCHANGED vars
    BY <1>18 DEF vars, Informed
  <1>19. QED
    BY <1>1, <1>2, <1>3, <1>4, <1>5, <1>6, <1>7, <1>8, <1>9, <1>10, <1>11, <1>12, <1>13,
       <1>14, <1>15, <1>16, <1>17, <1>18 DEF Next

\* When nothing is being sent any more, everybody in the channel has been sent
\* word of the last change of holder, or has looked at the floor since.
THEOREM EverybodyHears == Spec => []NobodyMissed
  <1>1. BaseInv /\ Informed => NobodyMissed
    <2> SUFFICES ASSUME BaseInv, Informed, Quiet, NEW u \in unheard \cap members
                 PROVE  FALSE
      BY DEF NobodyMissed
    <2>1. ~silent /\ \A t \in Task : Idle(t)
      BY DEF Quiet, Running
    <2>2. \A t \in Task : task[t].at = "idle"
      BY <2>1 DEF Idle, Pass
    <2>3. u \in Task /\ latest \in Task
      BY BaseTypes DEF BaseInv, Typed
    <2>4. task[u].at = "join" \/ Informs(task[latest], u)
      BY <2>1 DEF Informed
    <2>5. QED
      BY <2>2, <2>3, <2>4 DEF Informs, Announces
  <1>2. QED
    BY <1>1, BaseAlways, BaseInit, BaseNext, InformedInit, InformedNext, PTL DEF Spec

-----------------------------------------------------------------------------
(* Handlers that do not overlap leave the clients in agreement.            *)

NoWord(s, v) == s.at = "send" => NothingTo(s.out, v)

\* A client v that takes `to' for the speaker will take h for it once task t,
\* in state s, has run to its end.
Good(t, s, v, to, h) ==
    \/ s.at = "send" /\ LastTo(s.out, v, h)
    \/ h = NoUser /\ Announces(s)
    \/ v = t /\ s.at = "join" /\ to = NoUser
    \/ to = h /\ NoWord(s, v)

\* All that s still has for the others than u is what they believe already.
Repeats(s, u, h) ==
    \A v \in members \ (broken \cup {u}) :
       /\ told[v] = h
       /\ \A k \in 1..Len(s.out) : v \in s.out[k].to => s.out[k].user = h

Requested(s) == s.at = "send" /\ s.then = "requested"

Only(t) == \A r \in Task : r # t => task[r].at = "idle"

\* Nobody but t is at work, what it has seen of the channel is still so, and the
\* members will agree with the server when it is done; also when it gives up,
\* unless it has changed the holder.
Sequential(t) ==
    /\ Only(t)
    /\ task[t].at \in {"request", "release", "disconnect"} => task[t].members = members
    /\ Announces(task[t]) => floor.floor_taken_by = NoUser
    /\ ~silent =>
          /\ \A v \in members \ broken : Good(t, task[t], v, told[v], floor.floor_taken_by)
          /\ Requested(task[t]) /\ latest # t => Repeats(task[t], t, floor.floor_taken_by)

InOrder == ~overlapped => \E t \in Task : Sequential(t)

LEMMA InOrderInit == Init => InOrder
  <1> SUFFICES ASSUME Init PROVE InOrder
    OBVIOUS
  <1>1. Reaper \in Task /\ \A t \in Task : task[t].at = "idle"
    BY DEF Init, Pass, Task
  <1>2. \A v \in members : told[v] = NoUser /\ floor.floor_taken_by = NoUser
    BY DEF Init, NewFloor
  <1>3. Sequential(Reaper)
    BY <1>1, <1>2 DEF Sequential, Only, Announces, Good, NoWord, Requested
  <1>4. QED
    BY <1>1, <1>3 DEF InOrder

\* When handlers have not overlapped, the task that is at work is the one of
\* the invariant.
LEMMA Acting ==
    ASSUME BaseInv, InOrder, ~overlapped, NEW t \in Task, Busy(t)
    PROVE  Sequential(t)
  BY DEF InOrder, Sequential, Only, Busy

\* A task that begins without overlapping another finds all of them idle and
\* the members in agreement.
LEMMA Beginning ==
    ASSUME BaseInv, InOrder, NEW t \in Task, Begin(t), ~overlapped'
    PROVE  /\ ~overlapped /\ \A r \in Task : task[r].at = "idle"
           /\ ~silent => \A v \in members \ broken : told[v] = floor.floor_taken_by
  <1>1. ~overlapped /\ Running = {}
    BY DEF Begin
  <1>2. \A r \in Task : task[r].at = "idle"
    BY <1>1 DEF Running, Idle, Pass
  <1>3. PICK r \in Task : Sequential(r)
    BY <1>1 DEF InOrder
  <1>4. QED
    BY <1>1, <1>2, <1>3 DEF Sequential, Good, Announces

\* The state a step of task t leads to.
LEMMA Leading ==
    ASSUME BaseInv, NEW t \in Task, NEW s, Goes(t, s), Only(t),
           s.at \in {"request", "release", "disconnect"} => s.members = members',
           Announces(s) => floor'.floor_taken_by = NoUser,
           ~silent' => \A v \in members' \ broken' :
                          Good(t, s, v, told'[v], floor'.floor_taken_by),
           ~silent' /\ Requested(s) /\ latest' # t =>
               \A v \in members' \ (broken' \cup {t}) :
                  /\ told'[v] = floor'.floor_taken_by
                  /\ \A k \in 1..Len(s.out) :
                        v \in s.out[k].to => s.out[k].user = floor'.floor_taken_by
    PROVE  InOrder'
  <1>1. task'[t] = s /\ \A r \in Task : r # t => task'[r] = task[r]
    BY BaseTypes, GoesFrame
  <1>2. \A r \in Task : r # t => task'[r].at = "idle"
    BY <1>1 DEF Only
  <1>3. Sequential(t)'
    BY <1>1, <1>2 DEF Sequential, Only, Repeats
  <1>4. QED
    BY <1>3 DEF InOrder

\* What the members of the channel believe while the only task at work has
\* nothing to say.
LEMMA Settled ==
    ASSUME NEW t \in Task, Sequential(t), ~silent,
           task[t].at \in {"request", "release", "disconnect", "clear", "unregister"}
    PROVE  \A v \in members \ broken : told[v] = floor.floor_taken_by
  BY DEF Sequential, Good, Announces

\* A decision of the only task at work that says who has the floor, or says
\* nothing when everybody knows.
LEMMA DecidedGood ==
    ASSUME BaseInv, NEW t \in Task, NEW s, NEW ms, Decided(s, ms), Transition(t, ms),
           ~silent => \A v \in ms \ broken : told[v] = floor.floor_taken_by,
           told' = told
    PROVE  ~silent' => \A v \in ms \ broken : Good(t, s, v, told'[v], floor'.floor_taken_by)
  <1>1. CASE s.at \in {"idle", "unregister"} /\ floor'.floor_taken_by = floor.floor_taken_by
    <2>1. silent' = silent
      BY <1>1 DEF Transition
    <2>2. QED
      BY <1>1, <2>1 DEF Good, NoWord
  <1>2. QED
    BY <1>1 DEF Decided, Good

\* A delivery shortens what is still to be said, and no more.
LEMMA ShorterSays ==
    ASSUME NEW out, NEW q, NEW u, Shortens(out, q, u), NEW v, NEW h
    PROVE  /\ LastTo(q, v, h) => \/ LastTo(out, v, h)
                                 \/ v = u /\ q[1].user = h /\ NothingTo(out, v)
           /\ NothingTo(q, v) => v # u /\ NothingTo(out, v)
           /\ \A k \in 1..Len(out) : v \in out[k].to => v \in q[k].to /\ out[k].user = q[k].user
  <1>1. Len(out) = Len(q) /\ Len(q) \in Nat \ {0} /\ 1 \in 1..Len(q)
    BY DEF Shortens
  <1>2. \A k \in 1..Len(q) :
           /\ out[k].user = q[k].user
           /\ v \in out[k].to <=> v \in q[k].to /\ ~(k = 1 /\ v = u)
    BY <1>1 DEF Shortens
  <1>3. ASSUME LastTo(q, v, h)
        PROVE  LastTo(out, v, h) \/ (v = u /\ q[1].user = h /\ NothingTo(out, v))
    <2>1. PICK k \in 1..Len(q) :
              /\ v \in q[k].to /\ q[k].user = h
              /\ \A j \in 1..Len(q) : k < j => v \notin q[j].to
      BY <1>3 DEF LastTo
    <2>2. CASE k = 1 /\ v = u
      <3>1. \A j \in 1..Len(q) : v \notin out[j].to
        BY <1>1, <1>2, <2>1, <2>2
      <3>2. QED
        BY <1>1, <2>1, <2>2, <3>1 DEF NothingTo
    <2>3. CASE ~(k = 1 /\ v = u)
      BY <1>1, <1>2, <2>1, <2>3 DEF LastTo
    <2>4. QED
      BY <2>2, <2>3
  <1>4. NothingTo(q, v) => v # u /\ NothingTo(out, v)
    BY <1>1, <1>2 DEF NothingTo, Shortens
  <1>5. QED
    BY <1>1, <1>2, <1>3, <1>4

LEMMA InOrderNext == BaseInv /\ InOrder /\ [Next]_vars => InOrder'
  <1> SUFFICES ASSUME BaseInv, InOrder, [Next]_vars PROVE InOrder'
    OBVIOUS
  <1>a. FloorOK(floor')
    BY NextMoves, MovesOK, BaseTypes
  <1>b. /\ User \subseteq Task /\ Admin \subseteq Task /\ Reaper \in Task
        /\ members \subseteq User /\ members \subseteq online
        /\ told \in [User -> User \cup {NoUser}]
        /\ \A u \in User : Departs(task[u]) => u \notin members
    BY BaseTypes DEF BaseInv, Typed, MembersAreOnline
  <1>c. overlapped' => InOrder'
    BY DEF InOrder
  \* A task begins and leaves it at that.
  <1>d. ASSUME NEW t \in Task, NEW s \in TaskState, Begin(t), Goto(t, s),
               s.at \in {"request", "release", "disconnect", "clear", "unregister"},
               s.at \in {"request", "release", "disconnect"} => s.members = members',
               UNCHANGED <<floor, broken, told, silent>>, members' \subseteq members
        PROVE  InOrder'
    <2>1. Goes(t, s) /\ ~Announces(s) /\ ~Requested(s) /\ s.at # "send"
      BY <1>d, GotoGoes DEF Announces, Requested
    <2>2. CASE ~overlapped'
      <3>1. /\ \A r \in Task : task[r].at = "idle"
            /\ ~silent => \A v \in members \ broken : told[v] = floor.floor_taken_by
        BY <1>d, <2>2, Beginning
      <3>2. ~silent' => \A v \in members' \ broken' :
                           Good(t, s, v, told'[v], floor'.floor_taken_by)
        BY <1>d, <2>1, <3>1 DEF Good, NoWord
      <3>3. QED
        BY <1>d, <2>1, <3>1, <3>2, Leading DEF Only
    <2>3. QED
      BY <1>c, <2>2
  <1>1. ASSUME NEW u \in User, RequestStarts(u) \/ ReleaseStarts(u) PROVE InOrder'
    <2>1. Begin(u) /\ UNCHANGED <<floor, members, broken, told, silent>>
      BY <1>1 DEF RequestStarts, ReleaseStarts
    <2>2. PICK s \in TaskState : /\ Goto(u, s) /\ s.at \in {"request", "release"}
                                 /\ s.members = members
      <3>1. /\ [at |-> "request", members |-> members] \in TaskState
            /\ [at |-> "release", members |-> members] \in TaskState
        BY <1>b DEF TaskState
      <3>2. QED
        BY <1>1, <3>1 DEF RequestStarts, ReleaseStarts
    <2>3. QED
      BY <1>b, <1>d, <2>1, <2>2
  <1>2. ASSUME NEW u \in User, NEW p \in Priority, NEW i \in Indicator, RequestDecides(u, p, i)
        PROVE  InOrder'
    <2> SUFFICES ASSUME ~overlapped PROVE InOrder'
      BY <1>2, <1>c DEF RequestDecides
    <2>1. /\ task[u].at = "request" /\ Transition(u, task[u].members)
          /\ UNCHANGED <<members, broken, told>>
      BY <1>2 DEF RequestDecides
    <2>2. Sequential(u) /\ task[u].members = members
      BY <1>b, <2>1, Acting DEF Sequential, Busy
    <2>3. ~silent => \A v \in members \ broken : told[v] = floor.floor_taken_by
      BY <1>b, <2>1, <2>2, Settled
    <2>4. PICK s : /\ Goes(u, s) /\ Decided(s, members)
                   /\ ~Announces(s)
                   /\ \/ s = Pass /\ floor'.floor_taken_by = floor.floor_taken_by
                      \/ floor'.floor_taken_by = u /\ Names(s, u, floor.floor_taken_by)
      BY <1>2, <2>2, RequestSays
    <2>5. ~silent' => \A v \in members \ broken : Good(u, s, v, told'[v], floor'.floor_taken_by)
      BY <1>b, <2>1, <2>2, <2>3, <2>4, DecidedGood
    <2>6. s.at \notin {"request", "release", "disconnect"}
      BY <2>4 DEF Decided
    <2>7. ASSUME ~silent', Requested(s), latest' # u, NEW v \in members \ (broken \cup {u})
          PROVE  /\ told'[v] = floor'.floor_taken_by
                 /\ \A k \in 1..Len(s.out) :
                       v \in s.out[k].to => s.out[k].user = floor'.floor_taken_by
      <3>1. floor'.floor_taken_by = floor.floor_taken_by /\ silent' = silent
        BY <2>1, <2>7 DEF Transition
      <3>2. s # Pass
        BY <2>7 DEF Requested, Pass
      <3>3. floor'.floor_taken_by = u /\ Names(s, u, u)
        BY <2>4, <3>1, <3>2
      <3>4. told[v] = u
        BY <2>3, <2>7, <3>1, <3>3
      <3>5. QED
        BY <2>1, <2>7, <3>3, <3>4 DEF Names, Requested
    <2>8. QED
      BY <1>b, <2>1, <2>2, <2>4, <2>5, <2>6, <2>7, Leading DEF Sequential
  <1>3. ASSUME NEW u \in User, ReleaseDecides(u) PROVE InOrder'
    <2> SUFFICES ASSUME ~overlapped PROVE InOrder'
      BY <1>3, <1>c DEF ReleaseDecides
    <2>1. /\ task[u].at = "release" /\ Transition(u, task[u].members)
          /\ UNCHANGED <<members, broken, told>>
      BY <1>3 DEF ReleaseDecides
    <2>2. Sequential(u) /\ task[u].members = members
      BY <1>b, <2>1, Acting DEF Sequential, Busy
    <2>3. ~silent => \A v \in members \ broken : told[v] = floor.floor_taken_by
      BY <1>b, <2>1, <2>2, Settled
    <2>4. PICK s : /\ Goes(u, s) /\ Decided(s, members)
                   /\ ~Announces(s) /\ (s.at = "send" => s.then = "idle")
      BY <1>3, <1>a, <2>2, ReleaseSays
    <2>5. ~silent' => \A v \in members \ broken : Good(u, s, v, told'[v], floor'.floor_taken_by)
      BY <1>b, <2>1, <2>2, <2>3, <2>4, DecidedGood
    <2>6. s.at \notin {"request", "release", "disconnect"} /\ ~Requested(s)
      BY <2>4 DEF Decided, Requested
    <2>7. QED
      BY <1>b, <2>1, <2>2, <2>4, <2>5, <2>6, Leading DEF Sequential
  <1>4. ASSUME NEW u \in User, JoinStarts(u) PROVE InOrder'
    <2> SUFFICES ASSUME ~overlapped' PROVE InOrder'
      BY <1>c
    <2>1. /\ Begin(u) /\ members' = members \cup {u} /\ told' = [told EXCEPT ![u] = NoUser]
          /\ Goto(u, [at |-> "join"])
          /\ UNCHANGED <<floor, broken, silent>>
      BY <1>4 DEF JoinStarts
    <2>2. PICK s \in TaskState : Goto(u, s) /\ s.at = "join"
      <3>1. [at |-> "join"] \in TaskState
        BY DEF TaskState
      <3>2. QED
        BY <2>1, <3>1
    <2>3. Goes(u, s) /\ ~Announces(s) /\ ~Requested(s)
      BY <2>2, GotoGoes DEF Announces, Requested
    <2>4. /\ \A r \in Task : task[r].at = "idle"
          /\ ~silent => \A v \in members \ broken : told[v] = floor.floor_taken_by
      BY <1>b, <2>1, Beginning
    <2>5. ~silent' => \A v \in members' \ broken' :
                         Good(u, s, v, told'[v], floor'.floor_taken_by)
      BY <1>b, <2>1, <2>2, <2>4 DEF Good, NoWord
    <2>6. QED
      BY <1>b, <2>2, <2>3, <2>4, <2>5, Leading DEF Only
  <1>5. ASSUME NEW u \in User, JoinLooks(u) PROVE InOrder'
    <2> SUFFICES ASSUME ~overlapped PROVE InOrder'
      BY <1>5, <1>c DEF JoinLooks
    <2>1. /\ task[u].at = "join"
          /\ UNCHANGED <<floor, members, broken, told, latest, silent>>
      BY <1>5 DEF JoinLooks
    <2>2. Sequential(u)
      BY <1>b, <2>1, Acting DEF Busy
    <2>3. ASSUME ~silent, NEW v \in members \ broken
          PROVE  told[v] = floor.floor_taken_by \/ (v = u /\ told[v] = NoUser)
      BY <2>1, <2>2, <2>3 DEF Sequential, Good, Announces
    <2>4. CASE floor.state = "Idle" /\ Goto(u, Pass)
      <3>1. floor.floor_taken_by = NoUser
        BY <2>4, BaseTypes DEF FloorOK, NewFloor
      <3>2. Goes(u, Pass) /\ Pass.at = "idle" /\ ~Announces(Pass)
        BY <2>4, PassSays
      <3>3. ~silent => \A v \in members \ broken :
                          Good(u, Pass, v, told[v], floor.floor_taken_by)
        BY <2>3, <3>1, <3>2 DEF Good, NoWord
      <3>4. QED
        BY <1>b, <2>1, <2>2, <3>2, <3>3, Leading DEF Sequential, Requested
    <2>5. ASSUME NEW p \in Packet, NEW s, p.to = {u}, p.user = floor.floor_taken_by,
                 Goes(u, s), Says(s, <<p>>, "idle")
          PROVE  InOrder'
      <3>1. /\ LastTo(<<p>>, u, floor.floor_taken_by)
            /\ \A v : v # u => NothingTo(<<p>>, v)
        BY <2>5, OnePacketSays
      <3>2. /\ s.at = "send" /\ LastTo(s.out, u, floor.floor_taken_by) /\ s.then = "idle"
            /\ \A v : v # u => NothingTo(s.out, v)
        BY <2>5, <3>1 DEF Says
      <3>3. ~Announces(s) /\ ~Requested(s)
        BY <3>2 DEF Announces, Requested
      <3>4. ~silent => \A v \in members \ broken :
                          Good(u, s, v, told[v], floor.floor_taken_by)
        BY <2>3, <3>2 DEF Good, NoWord
      <3>5. QED
        BY <1>b, <2>1, <2>2, <2>5, <3>2, <3>3, <3>4, Leading DEF Sequential
    <2>6. QED
      BY <1>5, <2>4, <2>5, LookSays, BaseTypes
  <1>6. ASSUME NEW u \in User, Leave(u) PROVE InOrder'
    <2> SUFFICES ASSUME ~overlapped' PROVE InOrder'
      BY <1>c
    <2>1. /\ Begin(u) /\ members' \subseteq members
          /\ UNCHANGED <<floor, broken, task, told, latest, silent>>
      BY <1>6 DEF Leave
    <2>2. /\ \A r \in Task : task[r].at = "idle"
          /\ ~silent => \A v \in members \ broken : told[v] = floor.floor_taken_by
      BY <1>b, <2>1, Beginning
    <2>3. Sequential(u)'
      BY <1>b, <2>1, <2>2 DEF Sequential, Only, Announces, Requested, Good, NoWord
    <2>4. QED
      BY <1>b, <2>3 DEF InOrder
  <1>7. ASSUME NEW u \in User, DisconnectStarts(u) PROVE InOrder'
    <2>1. Begin(u) /\ members' \subseteq members /\ UNCHANGED <<floor, broken, told, silent>>
      BY <1>7 DEF DisconnectStarts
    <2>2. PICK s \in TaskState : /\ Goto(u, s) /\ s.at \in {"disconnect", "unregister"}
                                 /\ s.at = "disconnect" => s.members = members'
      <3>1. /\ [at |-> "disconnect", members |-> members \ {u}] \in TaskState
            /\ [at |-> "unregister"] \in TaskState
        BY <1>b DEF TaskState
      <3>2. QED
        BY <1>7, <3>1 DEF DisconnectStarts
    <2>3. QED
      BY <1>b, <1>d, <2>1, <2>2
  <1>8. ASSUME NEW u \in User, DisconnectDecides(u) PROVE InOrder'
    <2> SUFFICES ASSUME ~overlapped PROVE InOrder'
      BY <1>8, <1>c DEF DisconnectDecides
    <2>1. /\ task[u].at = "disconnect" /\ Transition(u, task[u].members)
          /\ UNCHANGED <<members, broken, told>>
      BY <1>8 DEF DisconnectDecides
    <2>2. Sequential(u) /\ task[u].members = members
      BY <1>b, <2>1, Acting DEF Sequential, Busy
    <2>3. ~silent => \A v \in members \ broken : told[v] = floor.floor_taken_by
      BY <1>b, <2>1, <2>2, Settled
    <2>4. PICK s : /\ Goes(u, s) /\ Decided(s, members)
                   /\ ~Announces(s) /\ (s.at = "send" => s.then = "unregister")
      BY <1>8, <1>a, <2>2, DisconnectSays
    <2>5. ~silent' => \A v \in members \ broken : Good(u, s, v, told'[v], floor'.floor_taken_by)
      BY <1>b, <2>1, <2>2, <2>3, <2>4, DecidedGood
    <2>6. s.at \notin {"request", "release", "disconnect"} /\ ~Requested(s)
      BY <2>4 DEF Decided, Requested
    <2>7. QED
      BY <1>b, <2>1, <2>2, <2>4, <2>5, <2>6, Leading DEF Sequential
  <1>9. ASSUME NEW u \in User, Unregisters(u) PROVE InOrder'
    <2> SUFFICES ASSUME ~overlapped PROVE InOrder'
      BY <1>9, <1>c DEF Unregisters
    <2>1. /\ task[u].at = "unregister" /\ Goto(u, Pass) /\ broken' = broken \ {u}
          /\ UNCHANGED <<floor, members, told, silent, latest>>
      BY <1>9 DEF Unregisters
    <2>2. u \notin members
      BY <1>b, <2>1 DEF Departs
    <2>3. Sequential(u)
      BY <1>b, <2>1, Acting DEF Busy
    <2>4. ~silent => \A v \in members \ broken : told[v] = floor.floor_taken_by
      BY <1>b, <2>1, <2>3, Settled
    <2>5. Goes(u, Pass) /\ Pass.at = "idle" /\ ~Announces(Pass)
      BY <2>1, PassSays
    <2>6. ~silent' => \A v \in members' \ broken' :
                         Good(u, Pass, v, told'[v], floor'.floor_taken_by)
      BY <2>1, <2>2, <2>4, <2>5 DEF Good, NoWord
    <2>7. QED
      BY <1>b, <2>1, <2>3, <2>5, <2>6, Leading DEF Sequential, Requested
  <1>10. ASSUME NEW u \in User, Connect(u) PROVE InOrder'
    <2> SUFFICES ASSUME ~overlapped' PROVE InOrder'
      BY <1>c
    <2>1. /\ Begin(u) /\ u \notin online /\ told' = [told EXCEPT ![u] = NoUser]
          /\ UNCHANGED <<floor, members, broken, task, latest, silent>>
      BY <1>10 DEF Connect
    <2>2. /\ \A r \in Task : task[r].at = "idle"
          /\ ~silent => \A v \in members \ broken : told[v] = floor.floor_taken_by
      BY <1>b, <2>1, Beginning
    <2>3. \A v \in members : told'[v] = told[v]
      BY <1>b, <2>1
    <2>4. Sequential(u)'
      BY <1>b, <2>1, <2>2, <2>3 DEF Sequential, Only, Announces, Requested, Good, NoWord
    <2>5. QED
      BY <1>b, <2>4 DEF InOrder
  <1>11. ASSUME NEW u \in User, GivesUp(u) PROVE InOrder'
    <2> SUFFICES ASSUME ~overlapped PROVE InOrder'
      BY <1>11, <1>c DEF GivesUp
    <2>1. /\ task[u].at = "send" /\ task[u].then = "requested" /\ Goto(u, Pass)
          /\ broken' = broken \cup {u} /\ silent' = (silent \/ latest = u)
          /\ UNCHANGED <<floor, members, told, latest>>
      BY <1>11 DEF GivesUp
    <2>2. Sequential(u)
      BY <1>b, <2>1, Acting DEF Busy
    <2>3. Goes(u, Pass) /\ Pass.at = "idle" /\ ~Announces(Pass)
      BY <2>1, PassSays
    <2>4. ~silent' => Repeats(task[u], u, floor.floor_taken_by)
      BY <2>1, <2>2 DEF Sequential, Requested
    <2>5. ~silent' => \A v \in members' \ broken' :
                         Good(u, Pass, v, told'[v], floor'.floor_taken_by)
      BY <2>1, <2>3, <2>4 DEF Good, NoWord, Repeats
    <2>6. QED
      BY <1>b, <2>1, <2>2, <2>3, <2>5, Leading DEF Sequential, Requested
  <1>12. CASE Tick
    <2>1. /\ floor'.floor_taken_by = floor.floor_taken_by
          /\ UNCHANGED <<members, broken, task, told, latest, silent, overlapped>>
      BY <1>12, BaseTypes DEF Tick, Elapse, FloorOK, FloorRecord
    <2>2. ASSUME NEW t \in Task, Sequential(t) PROVE Sequential(t)'
      BY <2>1, <2>2 DEF Sequential, Only, Repeats
    <2>3. QED
      BY <2>1, <2>2 DEF InOrder
  <1>13. CASE SweepRevokes
    <2> SUFFICES ASSUME ~overlapped' PROVE InOrder'
      BY <1>c
    <2>1. /\ Begin(Reaper) /\ Transition(Reaper, members)
          /\ UNCHANGED <<members, broken, told>>
      BY <1>13 DEF SweepRevokes
    <2>2. /\ \A r \in Task : task[r].at = "idle"
          /\ ~silent => \A v \in members \ broken : told[v] = floor.floor_taken_by
      BY <1>b, <2>1, Beginning
    <2>3. PICK s : /\ Goes(Reaper, s) /\ Decided(s, members)
                   /\ ~Announces(s) /\ (s.at = "send" => s.then = "idle")
      BY <1>13, <1>a, SweepSays
    <2>4. ~silent' => \A v \in members \ broken :
                         Good(Reaper, s, v, told'[v], floor'.floor_taken_by)
      BY <1>b, <2>1, <2>2, <2>3, DecidedGood
    <2>5. s.at \notin {"request", "release", "disconnect"} /\ ~Requested(s)
      BY <2>3 DEF Decided, Requested
    <2>6. QED
      BY <1>b, <2>1, <2>2, <2>3, <2>4, <2>5, Leading DEF Only
  <1>14. ASSUME NEW a \in Admin, AdminLooks(a) PROVE InOrder'
    <2>1. Begin(a) /\ UNCHANGED <<floor, members, broken, told, silent>>
      BY <1>14 DEF AdminLooks
    <2>2. PICK s \in TaskState : Goto(a, s) /\ s.at = "clear"
      <3>1. floor.floor_taken_by \in User
        BY <1>14, BaseTypes DEF AdminLooks, FloorOK, FloorRecord
      <3>2. [at |-> "clear", holder |-> floor.floor_taken_by] \in TaskState
        BY <3>1 DEF TaskState
      <3>3. QED
        BY <1>14, <3>2 DEF AdminLooks
    <2>3. QED
      BY <1>b, <1>d, <2>1, <2>2
  <1>15. ASSUME NEW a \in Admin, AdminClears(a) PROVE InOrder'
    <2> SUFFICES ASSUME ~overlapped PROVE InOrder'
      BY <1>15, <1>c DEF AdminClears
    <2>1. task[a].at = "clear" /\ UNCHANGED <<members, broken, told>>
      BY <1>15 DEF AdminClears
    <2>2. Sequential(a)
      BY <1>b, <2>1, Acting DEF Busy
    <2>3. floor'.floor_taken_by = NoUser
      BY <1>15, ClearSays
    <2>4. PICK s : Goes(a, s) /\ Announces(s)
      BY <1>15, ClearSays
    <2>5. \A v \in members \ broken : Good(a, s, v, told'[v], floor'.floor_taken_by)
      BY <2>3, <2>4 DEF Good
    <2>6. s.at \notin {"request", "release", "disconnect"} /\ ~Requested(s)
      BY <2>4 DEF Announces, Requested
    <2>7. QED
      BY <1>b, <2>1, <2>2, <2>3, <2>4, <2>5, <2>6, Leading DEF Sequential
  <1>16. ASSUME NEW a \in Admin, AdminAnnounces(a) PROVE InOrder'
    <2> SUFFICES ASSUME ~overlapped PROVE InOrder'
      BY <1>16, <1>c DEF AdminAnnounces
    <2>1. /\ task[a].at = "announce"
          /\ UNCHANGED <<floor, members, broken, told, latest, silent>>
      BY <1>16 DEF AdminAnnounces
    <2>2. Sequential(a)
      BY <1>b, <2>1, Acting DEF Busy
    <2>3. floor.floor_taken_by = NoUser
      BY <2>1, <2>2 DEF Sequential, Announces
    <2>4. PICK p, s : /\ p \in Packet /\ p.to = members /\ p.user = NoUser
                      /\ Goes(a, s) /\ Says(s, <<p>>, "idle")
      BY <1>16, AnnouncesSays
    <2>5. \A v \in members : LastTo(<<p>>, v, NoUser)
      BY <2>4, OnePacketSays
    <2>6. /\ \A v \in members : s.at = "send" /\ LastTo(s.out, v, NoUser)
          /\ s.at = "idle" \/ (s.at = "send" /\ s.then = "idle")
      BY <2>4, <2>5 DEF Says
    <2>7. ~Announces(s) /\ ~Requested(s)
      BY <2>6 DEF Announces, Requested
    <2>8. \A v \in members \ broken : Good(a, s, v, told[v], floor.floor_taken_by)
      BY <2>3, <2>6 DEF Good
    <2>9. QED
      BY <1>b, <2>1, <2>2, <2>4, <2>6, <2>7, <2>8, Leading DEF Sequential
  <1>17. ASSUME NEW t \in Task, NEW u \in User, Deliver(t, u) PROVE InOrder'
    <2> SUFFICES ASSUME ~overlapped PROVE InOrder'
      BY <1>17, <1>c DEF Deliver
    <2> DEFINE q == task[t].out
               h == floor.floor_taken_by
    <2>1. /\ task[t].at = "send" /\ task[t].then \in Then
          /\ told' = IF u \in online THEN [told EXCEPT ![u] = q[1].user] ELSE told
          /\ \E out, s : /\ Goes(t, s) /\ Says(s, out, task[t].then)
                         /\ Shortens(out, q, u)
      BY <1>17, DeliverSays
    <2>2. UNCHANGED <<floor, members, broken, latest, silent>>
      BY <1>17 DEF Deliver
    <2>3. PICK out, s : Goes(t, s) /\ Says(s, out, task[t].then) /\ Shortens(out, q, u)
      BY <2>1
    <2>4. Sequential(t)
      BY <2>1, Acting DEF Busy
    <2>5. \A v \in members : told'[v] = IF v = u THEN q[1].user ELSE told[v]
      BY <1>b, <2>1
    <2>6. /\ s.at = "send" => s.then = task[t].then
          /\ s.at # "send" => s.at = IF task[t].then = "requested" THEN "idle" ELSE task[t].then
      BY <2>3 DEF Says
    <2>7. /\ s.at \notin {"request", "release", "disconnect"}
          /\ Announces(s) => task[t].then = "announce"
          /\ Requested(s) => Requested(task[t])
      BY <2>1, <2>6 DEF Then, Announces, Requested
    <2>8. Announces(s) => h = NoUser
      BY <2>1, <2>4, <2>7 DEF Sequential, Announces
    <2>9. ASSUME ~silent, NEW v \in members \ broken
          PROVE  Good(t, s, v, told'[v], h)
      <3>1. Good(t, task[t], v, told[v], h)
        BY <2>4, <2>9 DEF Sequential
      <3>2. CASE LastTo(q, v, h)
        <4>1. LastTo(out, v, h) \/ (v = u /\ q[1].user = h /\ NothingTo(out, v))
          BY <2>3, <3>2, ShorterSays
        <4>2. CASE LastTo(out, v, h)
          BY <2>3, <4>2 DEF Says, Good
        <4>3. CASE v = u /\ q[1].user = h /\ NothingTo(out, v)
          BY <2>3, <2>5, <4>3 DEF Says, Good, NoWord
        <4>4. QED
          BY <4>1, <4>2, <4>3
      <3>3. CASE h = NoUser /\ Announces(task[t])
        <4>1. task[t].then = "announce"
          BY <2>1, <3>3 DEF Announces
        <4>2. QED
          BY <2>3, <3>3, <4>1, AnnounceSays DEF Good
      <3>4. CASE told[v] = h /\ NothingTo(q, v)
        <4>1. v # u /\ NothingTo(out, v)
          BY <2>3, <3>4, ShorterSays
        <4>2. QED
          BY <2>3, <2>5, <3>4, <4>1 DEF Says, Good, NoWord
      <3>5. QED
        BY <2>1, <3>1, <3>2, <3>3, <3>4 DEF Good, NoWord
    <2>10. ASSUME ~silent, Requested(s), latest # t, NEW v \in members \ (broken \cup {t})
           PROVE  /\ told'[v] = h
                  /\ \A k \in 1..Len(s.out) : v \in s.out[k].to => s.out[k].user = h
      <3>1. /\ told[v] = h
            /\ \A k \in 1..Len(q) : v \in q[k].to => q[k].user = h
        BY <2>4, <2>7, <2>10 DEF Sequential, Repeats
      <3>2. u \in q[1].to /\ 1 \in 1..Len(q)
        BY <2>3 DEF Shortens
      <3>3. told'[v] = h
        BY <2>5, <3>1, <3>2
      <3>4. \A k \in 1..Len(out) : v \in out[k].to => out[k].user = h
        <4>1. Len(out) = Len(q)
          BY <2>3 DEF Shortens
        <4>2. \A k \in 1..Len(out) : v \in out[k].to => v \in q[k].to /\ out[k].user = q[k].user
          BY <2>3, ShorterSays
        <4>3. QED
          BY <3>1, <4>1, <4>2
      <3>5. QED
        BY <2>3, <2>10, <3>3, <3>4 DEF Says, Requested
    <2> HIDE DEF q
    <2>11. QED
      BY <2>2, <2>3, <2>4, <2>7, <2>8, <2>9, <2>10, Leading DEF Sequential
  <1>18. CASE UNCHANGED vars
    <2>1. ASSUME NEW t \in Task, Sequential(t) PROVE Sequential(t)'
      BY <1>18, <2>1 DEF vars, Sequential, Only, Repeats
    <2>2. QED
      BY <1>18, <2>1 DEF vars, InOrder
  <1>19. QED
    BY <1>1, <1>2, <1>3, <1>4, <1>5, <1>6, <1>7, <1>8, <1>9, <1>10, <1>11, <1>12, <1>13,
       <1>14, <1>15, <1>16, <1>17, <1>18 DEF Next

\* As long as no two handlers have overlapped, everybody in the channel knows
\* who has the floor whenever nothing is being sent.
THEOREM AgreementInOrder == Spec => []QuietAgreement
  <1>1. BaseInv /\ InOrder => QuietAgreement
    <2> SUFFICES ASSUME BaseInv, InOrder, Quiet, ~overlapped, NEW u \in members
                 PROVE  told[u] = floor.floor_taken_by
      BY DEF QuietAgreement
    <2>1. ~silent /\ broken = {} /\ \A t \in Task : Idle(t)
      BY DEF Quiet, Running
    <2>2. PICK t \in Task : Sequential(t)
      BY DEF InOrder
    <2>3. task[t].at = "idle"
      BY <2>1 DEF Idle, Pass
    <2>4. Good(t, task[t], u, told[u], floor.floor_taken_by)
      BY <2>1, <2>2 DEF Sequential
    <2>5. QED
      BY <2>3, <2>4 DEF Good, Announces
  <1>2. QED
    BY <1>1, BaseAlways, BaseInit, BaseNext, InOrderInit, InOrderNext, PTL DEF Spec
=============================================================================
