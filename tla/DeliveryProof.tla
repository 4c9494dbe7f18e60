--------------------------- MODULE DeliveryProof ---------------------------
(***************************************************************************)
(* Proofs about Delivery, for any finite number of clients, any requests,  *)
(* any of them slow, and queues of any size.                               *)
(***************************************************************************)
EXTENDS Delivery, SequenceTheorems, FunctionTheorems, FiniteSetTheorems, TLAPS

-----------------------------------------------------------------------------
(* What the variables range over.                                          *)

\* Only somebody joins.
Proper == {p \in Packet : p.op = "join" => p.user \in Client}
Sending == [to: Client, packet: Proper]

Handler == [at: Stage, members: SUBSET Client, sends: Seq(Sending)]

HubsOK == members \subseteq Client /\ listed \subseteq Client /\ users \subseteq Client /\ channel \subseteq Client
TasksOK ==
    /\ handler \in [Client -> Handler]
    /\ reaper \in [revoked: 0..Revocations, sends: Seq(Sending)]
    /\ requests \in [Client -> Seq(SUBSET Request)]
    /\ excused \in BOOLEAN

\* Those that are not slow have read all there is.
LinesOK ==
    /\ queue \in [Client -> Seq(Proper)]
    /\ \A c \in Client : Len(queue[c]) <= Size /\ (c \notin Slow => queue[c] = << >>)
    /\ line \in [Client -> {"reading", "stalled", "closed"}]
    /\ roster \in [Client -> SUBSET Client]

Typed == HubsOK /\ TasksOK /\ LinesOK

-----------------------------------------------------------------------------
(* What a client will believe once it has read its queue.                  *)

Adds(p, v) == (p.op = "joined" /\ v \in p.user) \/ (p.op = "join" /\ p.user = v)
Takes(p, v) == p.op = "left" \/ (p.op = "leave" /\ p.user = v)
Bears(p, v) == Adds(p, v) \/ Takes(p, v)

\* Whoever believes r and reads q ends up believing in v: the last packet of q
\* that bears on v adds it, or v is in r and none does.
Claims(r, q, v) ==
    \/ \E k \in 1..Len(q) : Adds(q[k], v) /\ \A j \in 1..Len(q) : j > k => ~Bears(q[j], v)
    \/ v \in r /\ \A j \in 1..Len(q) : ~Bears(q[j], v)

Will(c, v) == Claims(roster[c], queue[c], v)

-----------------------------------------------------------------------------
(* The inductive invariant.                                                *)

Live(c) == line[c] # "closed"

\* h has a packet of that kind for t still to send.
Pending(h, t, op) ==
    \E i \in 1..Len(h.sends) : h.sends[i].to = t /\ h.sends[i].packet.op = op

\* h has an answer to send that lists v.
Lists(h, v) ==
    \E i \in 1..Len(h.sends) : h.sends[i].packet.op = "joined" /\ v \in h.sends[i].packet.user

\* Where c is in the hubs, by what its handler, in state h, is at.
PlaceOf(c, h) ==
    /\ h.at \in {"idle", "updating"} => (c \in members <=> c \in listed)
    /\ h.at \in Joining \cup Leaving => c \in members
    /\ h.at \in (Joining \ {"adding"}) \cup Leaving => c \in listed
    /\ h.at \in {"adding", "unregisters", "gone"} => c \notin listed
    /\ h.at \in {"unregisters", "gone"} => c \notin members
    /\ h.at \in {"closing", "closes_peer", "unregisters", "gone"} => ~Live(c)
    /\ c \in channel <=> c \in listed
    /\ c \in users <=> h.at # "gone"
    /\ Pending(h, c, "left") => c \notin members

Places == \A c \in Client : PlaceOf(c, handler[c])

\* What c's handler may be sending at each stage.
Fits(c, at, s) ==
    \/ at = "idle" /\ s.packet.op \in {"answer", "peer_added", "message"}
    \/ at = "idle" /\ s.to = c /\ s.packet.op = "left"
    \/ at = "joining" /\ s.to = c /\ s.packet.op = "joined"
    \/ at = "adds_peer" /\ s.to # c /\ s.packet.op = "join" /\ s.packet.user = c
    \/ at = "shows_peers" /\ s.packet.op = "peer_added"
    \/ at \in {"leaving", "closing"} /\ s.to # c /\ s.packet.op = "leave" /\ s.packet.user = c
    \/ at \in {"removes_peer", "closes_peer"} /\ s.packet.op = "peer_removed"
    \/ at = "updating" /\ s.packet.op = "update"

FitsAll(c, h) == \A i \in 1..Len(h.sends) : Fits(c, h.at, h.sends[i])

SendsFit ==
    /\ \A c \in Client : FitsAll(c, handler[c])
    /\ \A i \in 1..Len(reaper.sends) : reaper.sends[i].packet.op = "revoke"

\* c knows of its fellow member v, or is going to hear of it, or v is leaving.
Known(c, v) ==
    c \in members /\ v \in members /\ Live(c) /\ Live(v) =>
        \/ handler[c].at = "adding"
        \/ handler[c].at = "joining" /\ Lists(handler[c], v)
        \/ Will(c, v)
        \/ handler[v].at \in {"adding"} \cup Leaving
        \/ v # c /\ handler[v].at = "joining"
        \/ Pending(handler[v], c, "join")

AllKnown == \A c, v \in Client : Known(c, v)

Exclusion == ~(SomeoneAt(Joining) /\ SomeoneAt(Leaving))

\* Only members are told of others that join, and only of whom has an endpoint.
ToldOfListed ==
    \A c \in Client :
        /\ \A v \in Client : Pending(handler[v], c, "join") => c \in members
        /\ \A v : handler[c].at = "joining" /\ Lists(handler[c], v) => v \in listed

\* No member will believe in somebody who is not there, or who has told all it
\* leaves; whoever is not a member is going to forget all it believes.
Forgets(c, v) ==
    Live(c) =>
        /\ c \in members /\ v \notin listed => ~Will(c, v)
        /\ c \in members /\ v # c /\ handler[v].at \in {"leaving", "closing"} =>
              Pending(handler[v], c, "leave") \/ ~Will(c, v)
        /\ c \in members /\ v # c /\ handler[v].at \in {"removes_peer", "closes_peer"} =>
              ~Will(c, v)
        /\ c \notin members => Pending(handler[c], c, "left") \/ ~Will(c, v)

AllForget == \A c, v \in Client : Forgets(c, v)

Settled == Exclusion /\ ToldOfListed /\ AllForget

Inv == Typed /\ Places /\ SendsFit /\ AllKnown /\ (~excused => Settled)

-----------------------------------------------------------------------------
(* Reading and queueing.                                                   *)

LEMMA ClaimsEmpty ==
    ASSUME NEW r, NEW v
    PROVE  Claims(r, << >>, v) <=> v \in r
  BY DEF Claims

LEMMA AddsNotTakes ==
    ASSUME NEW p, NEW v
    PROVE  ~(Adds(p, v) /\ Takes(p, v))
  BY DEF Adds, Takes

\* What is appended has the last word.
LEMMA ClaimsAppend ==
    ASSUME NEW q \in Seq(Proper), NEW p \in Proper, NEW r, NEW v
    PROVE  Claims(r, Append(q, p), v) <=>
               Adds(p, v) \/ (~Takes(p, v) /\ Claims(r, q, v))
  <1> DEFINE q1 == Append(q, p)
             n == Len(q)
  <1>1. n \in Nat /\ Len(q1) = n + 1 /\ q1[n + 1] = p /\ \A j \in 1..n : q1[j] = q[j]
    BY AppendProperties
  <1> HIDE DEF q1, n
  <1>2. \A j \in 1..(n + 1) : j = n + 1 \/ j \in 1..n
    BY <1>1
  <1>3. n + 1 \in 1..(n + 1) /\ \A j \in 1..n : j \in 1..(n + 1) /\ n + 1 > j
    BY <1>1
  <1>4. CASE Adds(p, v)
    <2>1. Claims(r, q1, v)
      <3>1. \A j \in 1..(n + 1) : ~(j > n + 1)
        BY <1>1
      <3>2. QED
        BY <1>1, <1>3, <1>4, <3>1 DEF Claims
    <2>2. QED
      BY <1>4, <2>1 DEF q1
  <1>5. CASE Takes(p, v)
    <2>1. ~Adds(p, v) /\ Bears(q1[n + 1], v)
      BY <1>1, <1>5, AddsNotTakes DEF Bears
    <2>2. ~Claims(r, q1, v)
      BY <1>1, <1>2, <1>3, <2>1 DEF Claims
    <2>3. QED
      BY <1>5, <2>1, <2>2 DEF q1
  <1>6. CASE ~Adds(p, v) /\ ~Takes(p, v)
    <2>1. ~Bears(q1[n + 1], v) /\ ~Adds(q1[n + 1], v)
      BY <1>1, <1>6 DEF Bears
    <2>2. \A j \in 1..(n + 1) : Bears(q1[j], v) <=> (j \in 1..n /\ Bears(q[j], v))
      BY <1>1, <1>2, <2>1
    <2>3. \A j \in 1..(n + 1) : Adds(q1[j], v) <=> (j \in 1..n /\ Adds(q[j], v))
      BY <1>1, <1>2, <2>1
    <2>4. Claims(r, q1, v) <=> Claims(r, q, v)
      BY <1>1, <1>2, <1>3, <2>2, <2>3 DEF Claims, n
    <2>5. QED
      BY <1>6, <2>4 DEF q1
  <1>7. QED
    BY <1>4, <1>5, <1>6

\* What has been read is believed as it was in the queue.
LEMMA BelievedBears ==
    ASSUME NEW r \in SUBSET Client, NEW p \in Proper, NEW v \in Client
    PROVE  v \in Believed(r, p) <=> Adds(p, v) \/ (~Takes(p, v) /\ v \in r)
  <1>1. CASE p.op = "joined"
    BY <1>1 DEF Believed, Adds, Takes
  <1>2. CASE p.op = "join"
    BY <1>2 DEF Believed, Adds, Takes
  <1>3. CASE p.op = "leave"
    BY <1>3 DEF Believed, Adds, Takes
  <1>4. CASE p.op = "left"
    BY <1>4 DEF Believed, Adds, Takes
  <1>5. CASE p.op \notin {"joined", "join", "leave", "left"}
    BY <1>5 DEF Believed, Adds, Takes
  <1>6. QED
    BY <1>1, <1>2, <1>3, <1>4, <1>5

LEMMA ClaimsTail ==
    ASSUME NEW q \in Seq(Proper), q # << >>, NEW r \in SUBSET Client, NEW v \in Client
    PROVE  Claims(Believed(r, Head(q)), Tail(q), v) <=> Claims(r, q, v)
  <1> DEFINE t == Tail(q)
             n == Len(t)
             p == Head(q)
             b == Believed(r, p)
  <1>1. n \in Nat /\ Len(q) = n + 1 /\ q[1] = p /\ p \in Proper /\ \A j \in 1..n : t[j] = q[j + 1]
    BY HeadTailProperties
  <1>2. v \in b <=> Adds(p, v) \/ (~Takes(p, v) /\ v \in r)
    BY <1>1, BelievedBears
  <1> HIDE DEF t, n, p, b
  <1>3. \A j \in 1..(n + 1) : j = 1 \/ (j - 1 \in 1..n /\ t[j - 1] = q[j])
    BY <1>1
  <1>4. (\A j \in 1..(n + 1) : ~Bears(q[j], v)) <=> ~Bears(p, v) /\ \A j \in 1..n : ~Bears(t[j], v)
    BY <1>1, <1>3
  <1>5. ASSUME NEW k \in 1..n
        PROVE  (\A j \in 1..(n + 1) : j > k + 1 => ~Bears(q[j], v))
                  <=> (\A j \in 1..n : j > k => ~Bears(t[j], v))
    BY <1>1, <1>3
  <1>6. (\E k \in 1..(n + 1) : Adds(q[k], v) /\ \A j \in 1..(n + 1) : j > k => ~Bears(q[j], v))
          <=> \/ Adds(p, v) /\ \A j \in 1..n : ~Bears(t[j], v)
              \/ \E k \in 1..n : Adds(t[k], v) /\ \A j \in 1..n : j > k => ~Bears(t[j], v)
    <2>1. (\A j \in 1..(n + 1) : j > 1 => ~Bears(q[j], v)) <=> \A j \in 1..n : ~Bears(t[j], v)
      BY <1>1, <1>3
    <2>2. ASSUME NEW k \in 1..(n + 1), Adds(q[k], v),
                 \A j \in 1..(n + 1) : j > k => ~Bears(q[j], v), k # 1
          PROVE  \E m \in 1..n : Adds(t[m], v) /\ \A j \in 1..n : j > m => ~Bears(t[j], v)
      <3>1. PICK m \in 1..n : k = m + 1 /\ t[m] = q[k]
        BY <1>1, <1>3, <2>2
      <3>2. \A j \in 1..(n + 1) : j > m + 1 => ~Bears(q[j], v)
        BY <2>2, <3>1
      <3>3. QED
        BY <1>5, <2>2, <3>1, <3>2
    <2>3. ASSUME NEW m \in 1..n, Adds(t[m], v), \A j \in 1..n : j > m => ~Bears(t[j], v)
          PROVE  \E k \in 1..(n + 1) : Adds(q[k], v) /\ \A j \in 1..(n + 1) : j > k => ~Bears(q[j], v)
      <3>1. m + 1 \in 1..(n + 1) /\ Adds(q[m + 1], v)
        BY <1>1, <2>3
      <3>2. \A j \in 1..(n + 1) : j > m + 1 => ~Bears(q[j], v)
        BY <1>5, <2>3
      <3>3. QED
        BY <3>1, <3>2
    <2>4. 1 \in 1..(n + 1)
      BY <1>1
    <2>5. QED
      BY <1>1, <2>1, <2>2, <2>3, <2>4
  <1>7. Claims(b, t, v) <=> Claims(r, q, v)
    <2>1. Claims(r, q, v) <=>
            \/ Adds(p, v) /\ \A j \in 1..n : ~Bears(t[j], v)
            \/ \E k \in 1..n : Adds(t[k], v) /\ \A j \in 1..n : j > k => ~Bears(t[j], v)
            \/ v \in r /\ ~Bears(p, v) /\ \A j \in 1..n : ~Bears(t[j], v)
      BY <1>1, <1>4, <1>6 DEF Claims
    <2>2. Claims(b, t, v) <=>
            \/ \E k \in 1..n : Adds(t[k], v) /\ \A j \in 1..n : j > k => ~Bears(t[j], v)
            \/ v \in b /\ \A j \in 1..n : ~Bears(t[j], v)
      BY DEF Claims, n
    <2>3. QED
      BY <1>2, <2>1, <2>2 DEF Bears
  <1>8. QED
    BY <1>7 DEF t, b, p

-----------------------------------------------------------------------------
(* Sending.                                                                *)

\* broadcast_to's order, whichever it is, names everybody once.
LEMMA OrderOfSet ==
    ASSUME NEW S, IsFiniteSet(S), NEW order \in SetToSeqs(S)
    PROVE  /\ order \in Seq(S) /\ DOMAIN order = 1..Len(order) /\ Len(order) \in Nat
           /\ \A x \in S : \E i \in 1..Len(order) : order[i] = x
  <1> DEFINE n == Cardinality(S)
  <1>1. n \in Nat
    BY FS_CardinalityType
  <1>2. order \in [1..n -> S] /\ \A i, j \in 1..n : i # j => order[i] # order[j]
    BY DEF SetToSeqs
  <1>3. order \in Injection(1..n, S)
    BY <1>2, Fun_IsInj
  <1>4. Cardinality(1..n) = n
    BY <1>1, FS_Interval
  <1>5. order \in Surjection(1..n, S)
    BY <1>3, <1>4, FS_Injection
  <1>6. \A x \in S : \E i \in 1..n : order[i] = x
    BY <1>5 DEF Surjection
  <1>7. order \in Seq(S) /\ Len(order) = n
    BY <1>1, <1>2
  <1>8. QED
    BY <1>1, <1>2, <1>6, <1>7

LEMMA ClientsAreFinite ==
    ASSUME NEW S \in SUBSET Client
    PROVE  IsFiniteSet(S)
  BY DeliveryAssumption, FS_Subset

LEMMA PacketTypes ==
    /\ \A op \in Event, c \in Client : PacketOf(op, c) \in Proper
    /\ \A L \in SUBSET Client : PacketOf("joined", L) \in Proper
    /\ \A op \in {"left", "answer", "revoke"} : PacketOf(op, Nobody) \in Proper
  BY DEF PacketOf, Packet, Proper, Event

LEMMA ToTyped ==
    ASSUME NEW c \in Client, NEW p \in Proper
    PROVE  /\ To(c, p) \in Seq(Sending) /\ Len(To(c, p)) = 1
           /\ To(c, p)[1].to = c /\ To(c, p)[1].packet = p
  BY DEF To, Sending

LEMMA BroadcastProps ==
    ASSUME NEW names, users \subseteq Client, NEW p \in Proper,
           NEW sends \in Broadcasts(names, p)
    PROVE  /\ sends \in Seq(Sending)
           /\ \A i \in 1..Len(sends) : sends[i].to \in names /\ sends[i].packet = p
           /\ \A c \in names \cap users : \E i \in 1..Len(sends) : sends[i].to = c
  <1>1. PICK order \in SetToSeqs(names \cap users) :
            sends = [i \in DOMAIN order |-> [to |-> order[i], packet |-> p]]
    BY DEF Broadcasts
  <1>2. IsFiniteSet(names \cap users)
    BY ClientsAreFinite
  <1>3. /\ order \in Seq(names \cap users) /\ DOMAIN order = 1..Len(order) /\ Len(order) \in Nat
        /\ \A x \in names \cap users : \E i \in 1..Len(order) : order[i] = x
    BY <1>2, OrderOfSet
  <1>4. \A i \in 1..Len(order) : order[i] \in names \cap users
    BY <1>3
  <1>5. sends \in [1..Len(order) -> Sending]
    BY <1>1, <1>3, <1>4 DEF Sending
  <1>6. sends \in Seq(Sending) /\ Len(sends) = Len(order)
    BY <1>3, <1>5
  <1>7. \A i \in 1..Len(order) : sends[i].to = order[i] /\ sends[i].packet = p
    BY <1>1, <1>3
  <1>8. QED
    BY <1>3, <1>4, <1>6, <1>7

\* What c's handler is about to say to those named, but not to itself.
Says(c, h, names, op) ==
    /\ \A i \in 1..Len(h.sends) :
          h.sends[i].to \in names /\ h.sends[i].packet = PacketOf(op, c)
    /\ \A d \in names \cap users : Pending(h, d, op)

\* The handler of c is at a new stage.
Acts(c, h) ==
    /\ h \in Handler
    /\ handler' = [handler EXCEPT ![c] = h]

LEMMA TellingSays ==
    ASSUME Typed, NEW c \in Client, NEW stage \in Stage, NEW names \in SUBSET Client,
           NEW op \in Event, NEW exclude, GoesTelling(c, stage, names, op, exclude)
    PROVE  \E h : Acts(c, h) /\ h.at = stage /\ Says(c, h, names \ exclude, op)
  <1>1. PICK sends \in Broadcasts(names \ exclude, PacketOf(op, c)) : Goes(c, stage, names, sends)
    BY DEF GoesTelling
  <1>2. PacketOf(op, c) \in Proper /\ PacketOf(op, c).op = op
    BY PacketTypes DEF PacketOf
  <1>3. /\ sends \in Seq(Sending)
        /\ \A i \in 1..Len(sends) :
              sends[i].to \in names \ exclude /\ sends[i].packet = PacketOf(op, c)
        /\ \A d \in (names \ exclude) \cap users : \E i \in 1..Len(sends) : sends[i].to = d
    BY <1>2, BroadcastProps DEF Typed, HubsOK
  <1> DEFINE h == [at |-> stage, members |-> names, sends |-> sends]
  <1>4. Acts(c, h)
    BY <1>1, <1>3 DEF Goes, Acts, Handler
  <1>5. Says(c, h, names \ exclude, op)
    BY <1>2, <1>3 DEF Says, Pending
  <1>6. QED
    BY <1>4, <1>5

LEMMA ActsFrame ==
    ASSUME Typed, NEW c \in Client, NEW h, Acts(c, h)
    PROVE  /\ handler'[c] = h
           /\ \A d \in Client : d # c => handler'[d] = handler[d]
           /\ handler' \in [Client -> Handler]
  BY DEF Typed, TasksOK, Acts

LEMMA NothingPending ==
    ASSUME NEW h, h.sends = << >>
    PROVE  \A t, op, v : ~Pending(h, t, op) /\ ~Lists(h, v)
  BY DEF Pending, Lists

\* What a broadcast leaves pending, and what it does not.
LEMMA SaysPending ==
    ASSUME NEW c, NEW h, NEW names, NEW op, Says(c, h, names, op)
    PROVE  /\ \A t, o : Pending(h, t, o) => o = op /\ t \in names
           /\ \A d \in names \cap users : Pending(h, d, op)
           /\ op # "joined" => \A v : ~Lists(h, v)
  BY DEF Says, Pending, Lists, PacketOf

LEMMA BelievedTyped ==
    ASSUME NEW r \in SUBSET Client, NEW p \in Proper
    PROVE  Believed(r, p) \in SUBSET Client
  <1>1. CASE p.op = "joined"
    BY <1>1 DEF Believed, Proper, Packet, Event
  <1>2. CASE p.op = "join"
    BY <1>2 DEF Believed, Proper
  <1>3. CASE p.op \notin {"joined", "join"}
    BY <1>3 DEF Believed
  <1>4. QED
    BY <1>1, <1>2, <1>3

\* What has been put in a queue, or been read at once, has the last word with
\* its recipient, and nobody else hears of it.
LEMMA PutHeard ==
    ASSUME Typed, NEW s \in Sending, Room(s), Put(s), line' = line
    PROVE  /\ LinesOK'
           /\ \A v \in Client :
                 Will(s.to, v)' <=> Adds(s.packet, v) \/ (~Takes(s.packet, v) /\ Will(s.to, v))
           /\ \A d, v \in Client : d # s.to => (Will(d, v)' <=> Will(d, v))
  <1> DEFINE t == s.to
             p == s.packet
  <1>a. t \in Client /\ p \in Proper
    BY DEF Sending
  <1>b. /\ queue \in [Client -> Seq(Proper)]
        /\ \A c \in Client : Len(queue[c]) <= Size /\ (c \notin Slow => queue[c] = << >>)
        /\ roster \in [Client -> SUBSET Client]
        /\ line \in [Client -> {"reading", "stalled", "closed"}]
    BY DEF Typed, LinesOK
  <1> HIDE DEF t, p
  <1>1. CASE t \in Slow /\ queue' = [queue EXCEPT ![t] = Append(@, p)] /\ UNCHANGED roster
    <2>1. /\ queue' \in [Client -> Seq(Proper)]
          /\ queue'[t] = Append(queue[t], p) /\ Len(queue'[t]) <= Size
          /\ \A d \in Client : d # t => queue'[d] = queue[d]
      <3>1. Len(queue[t]) < Size /\ Len(queue[t]) \in Nat /\ Size \in Nat
        BY <1>a, <1>b, DeliveryAssumption DEF Room, t
      <3>2. Append(queue[t], p) \in Seq(Proper) /\ Len(Append(queue[t], p)) = Len(queue[t]) + 1
        BY <1>a, <1>b
      <3>3. QED
        BY <1>a, <1>b, <1>1, <3>1, <3>2
    <2>2. LinesOK'
      BY <1>1, <1>b, <2>1 DEF LinesOK
    <2>3. \A v \in Client : Will(t, v)' <=> Adds(p, v) \/ (~Takes(p, v) /\ Will(t, v))
      BY <1>a, <1>b, <1>1, <2>1, ClaimsAppend DEF Will
    <2>4. \A d, v \in Client : d # t => (Will(d, v)' <=> Will(d, v))
      BY <1>1, <2>1 DEF Will
    <2>5. QED
      BY <2>2, <2>3, <2>4 DEF t, p
  <1>2. CASE t \notin Slow /\ roster' = [roster EXCEPT ![t] = Believed(@, p)] /\ UNCHANGED queue
    <2>1. /\ roster' \in [Client -> SUBSET Client]
          /\ roster'[t] = Believed(roster[t], p)
          /\ \A d \in Client : d # t => roster'[d] = roster[d]
      BY <1>a, <1>b, <1>2, BelievedTyped
    <2>2. LinesOK'
      BY <1>2, <1>b, <2>1 DEF LinesOK
    <2>3. \A v \in Client : Will(t, v)' <=> Adds(p, v) \/ (~Takes(p, v) /\ Will(t, v))
      <3> SUFFICES ASSUME NEW v \in Client
                   PROVE  Will(t, v)' <=> Adds(p, v) \/ (~Takes(p, v) /\ Will(t, v))
        OBVIOUS
      <3>1. Will(t, v) <=> v \in roster[t]
        BY <1>a, <1>b, <1>2, ClaimsEmpty DEF Will
      <3>2. Will(t, v)' <=> v \in Believed(roster[t], p)
        BY <1>a, <1>b, <1>2, <2>1, ClaimsEmpty DEF Will
      <3>3. QED
        BY <1>a, <1>b, <3>1, <3>2, BelievedBears
    <2>4. \A d, v \in Client : d # t => (Will(d, v)' <=> Will(d, v))
      BY <1>2, <2>1 DEF Will
    <2>5. QED
      BY <2>2, <2>3, <2>4 DEF t, p
  <1>3. QED
    BY <1>1, <1>2 DEF Put, t, p

\* A packet that bears on nobody changes nothing.
LEMMA PutUnheard ==
    ASSUME Typed, NEW s \in Sending, Room(s), Put(s), line' = line,
           s.packet.op \notin {"joined", "join", "leave", "left"}
    PROVE  LinesOK' /\ \A d, v \in Client : Will(d, v)' <=> Will(d, v)
  <1>1. \A v : ~Adds(s.packet, v) /\ ~Takes(s.packet, v)
    BY DEF Adds, Takes
  <1>2. QED
    BY <1>1, PutHeard

LEMMA ReadHeard ==
    ASSUME Typed, NEW c \in Client, Read(c)
    PROVE  LinesOK' /\ \A d, v \in Client : Will(d, v)' <=> Will(d, v)
  <1>b. /\ queue \in [Client -> Seq(Proper)]
        /\ \A d \in Client : Len(queue[d]) <= Size /\ (d \notin Slow => queue[d] = << >>)
        /\ roster \in [Client -> SUBSET Client]
        /\ line \in [Client -> {"reading", "stalled", "closed"}]
    BY DEF Typed, LinesOK
  <1>1. /\ queue[c] # << >> /\ line' = line
        /\ queue' = [queue EXCEPT ![c] = Tail(@)]
        /\ roster' = [roster EXCEPT ![c] = Believed(@, Head(queue[c]))]
    BY DEF Read
  <1>2. /\ Tail(queue[c]) \in Seq(Proper) /\ Head(queue[c]) \in Proper
        /\ Len(Tail(queue[c])) = Len(queue[c]) - 1 /\ Len(queue[c]) \in Nat
    BY <1>b, <1>1, HeadTailProperties
  <1>3. Believed(roster[c], Head(queue[c])) \in SUBSET Client
    BY <1>b, <1>2, BelievedTyped
  <1>4. /\ queue'[c] = Tail(queue[c]) /\ roster'[c] = Believed(roster[c], Head(queue[c]))
        /\ \A d \in Client : d # c => queue'[d] = queue[d] /\ roster'[d] = roster[d]
        /\ queue' \in [Client -> Seq(Proper)] /\ roster' \in [Client -> SUBSET Client]
    BY <1>b, <1>1, <1>2, <1>3
  <1>5. \A d \in Client : Len(queue'[d]) <= Size /\ (d \notin Slow => queue'[d] = << >>)
    <2>1. Size \in Nat /\ c \in Slow
      BY <1>b, <1>1, DeliveryAssumption
    <2>2. QED
      BY <1>b, <1>2, <1>4, <2>1
  <1>6. LinesOK'
    BY <1>b, <1>1, <1>4, <1>5 DEF LinesOK
  <1>7. \A v \in Client : Will(c, v)' <=> Will(c, v)
    BY <1>b, <1>1, <1>4, ClaimsTail DEF Will
  <1>8. \A d, v \in Client : d # c => (Will(d, v)' <=> Will(d, v))
    BY <1>4 DEF Will
  <1>9. QED
    BY <1>6, <1>7, <1>8

-----------------------------------------------------------------------------
(* Steps of a handler that are no sends.                                   *)

\* c's handler, which has sent all it had to, goes to h.
Turns(c, h) ==
    /\ Acts(c, h)
    /\ handler[c].sends = << >>
    /\ UNCHANGED <<reaper, queue, line, roster>>

LEMMA Turned ==
    ASSUME Inv, NEW c \in Client, NEW h, Turns(c, h)
    PROVE  /\ handler'[c] = h /\ \A d \in Client : d # c => handler'[d] = handler[d]
           /\ \A t, op, v : ~Pending(handler[c], t, op) /\ ~Lists(handler[c], v)
           /\ \A d, v \in Client : Will(d, v)' <=> Will(d, v)
           /\ \A d \in Client : Live(d)' <=> Live(d)
           /\ HubsOK' /\ requests' \in [Client -> Seq(SUBSET Request)] /\ excused' \in BOOLEAN
                 => Typed'
           /\ FitsAll(c, h) => SendsFit'
  <1>1. /\ handler'[c] = h /\ \A d \in Client : d # c => handler'[d] = handler[d]
        /\ handler' \in [Client -> Handler]
    BY ActsFrame DEF Inv, Turns
  <1>2. \A t, op, v : ~Pending(handler[c], t, op) /\ ~Lists(handler[c], v)
    BY NothingPending DEF Turns
  <1>3. \A d, v \in Client : Will(d, v)' <=> Will(d, v)
    BY DEF Turns, Will
  <1>4. \A d \in Client : Live(d)' <=> Live(d)
    BY DEF Turns, Live
  <1>5. HubsOK' /\ requests' \in [Client -> Seq(SUBSET Request)] /\ excused' \in BOOLEAN => Typed'
    BY <1>1 DEF Inv, Typed, TasksOK, LinesOK, Turns
  <1>6. FitsAll(c, h) => SendsFit'
    BY <1>1 DEF Inv, SendsFit, Turns
  <1>7. QED
    BY <1>1, <1>2, <1>3, <1>4, <1>5, <1>6

\* Steps between stages that say nothing a roster depends on.
Quietly(from, to) ==
    \/ from \in {"idle", "updating"} /\ to \in {"idle", "updating"}
    \/ from = "adds_peer" /\ to = "shows_peers"
    \/ from = "shows_peers" /\ to = "idle"
    \/ from = "leaving" /\ to = "removes_peer"
    \/ from = "closing" /\ to = "closes_peer"
    \/ from = "idle" /\ to = "unregisters"
    \/ from = "unregisters" /\ to = "gone"

LEMMA QuietTurn ==
    ASSUME Inv, NEW c \in Client, NEW h, Turns(c, h), Quietly(handler[c].at, h.at), FitsAll(c, h),
           \A t : ~Pending(h, t, "left"),
           UNCHANGED <<members, listed, channel, excused>>,
           users' = IF h.at = "gone" THEN users \ {c} ELSE users,
           h.at = "unregisters" => c \notin channel /\ ~Live(c),
           requests' \in [Client -> Seq(SUBSET Request)]
    PROVE  Inv'
  <1>1. /\ handler'[c] = h /\ \A d \in Client : d # c => handler'[d] = handler[d]
        /\ \A t, op, v : ~Pending(handler[c], t, op) /\ ~Lists(handler[c], v)
        /\ \A d, v \in Client : Will(d, v)' <=> Will(d, v)
        /\ \A d \in Client : Live(d)' <=> Live(d)
    BY Turned
  <1>2. Typed' /\ SendsFit'
    BY Turned DEF Inv, Typed, HubsOK, TasksOK
  <1>3. \A t, v : /\ ~Pending(h, t, "join") /\ ~Pending(h, t, "leave") /\ ~Pending(h, t, "left")
                  /\ ~Lists(h, v)
    BY DEF Quietly, FitsAll, Fits, Pending, Lists
  <1>4. /\ h.at \in Joining => handler[c].at \in Joining /\ h.at = "shows_peers"
        /\ h.at \in Leaving <=> handler[c].at \in Leaving
        /\ h.at # "leaving" /\ h.at # "closing" /\ h.at # "adding" /\ h.at # "joining"
        /\ handler[c].at # "adding" /\ handler[c].at # "joining"
        /\ h.at \in {"removes_peer", "closes_peer"} => handler[c].at \in {"leaving", "closing"}
    BY DEF Quietly, Joining, Leaving
  <1>5. Places'
    <2> SUFFICES ASSUME NEW d \in Client PROVE PlaceOf(d, handler[d])'
      BY DEF Places
    <2>1. PlaceOf(d, handler[d])
      BY DEF Inv, Places
    <2>2. CASE d # c
      BY <1>1, <2>1, <2>2 DEF PlaceOf
    <2>3. CASE d = c
      BY <1>1, <1>3, <2>1, <2>3 DEF PlaceOf, Quietly, Joining, Leaving
    <2>4. QED
      BY <2>2, <2>3
  <1>6. AllKnown'
    <2> SUFFICES ASSUME NEW d \in Client, NEW v \in Client PROVE Known(d, v)'
      BY DEF AllKnown
    <2>1. Known(d, v)
      BY DEF Inv, AllKnown
    <2>2. QED
      BY <1>1, <1>4, <2>1 DEF Known
  <1>7. ASSUME ~excused' PROVE Settled'
    <2>1. Exclusion /\ ToldOfListed /\ AllForget
      BY <1>7 DEF Inv, Settled
    <2>2. Exclusion'
      <3>1. SomeoneAt(Joining)' => SomeoneAt(Joining)
        BY <1>1, <1>4 DEF SomeoneAt
      <3>2. SomeoneAt(Leaving)' => SomeoneAt(Leaving)
        BY <1>1, <1>4 DEF SomeoneAt
      <3>3. QED
        BY <2>1, <3>1, <3>2 DEF Exclusion
    <2>3. ToldOfListed'
      BY <1>1, <1>3, <2>1 DEF ToldOfListed
    <2>4. AllForget'
      <3> SUFFICES ASSUME NEW d \in Client, NEW v \in Client PROVE Forgets(d, v)'
        BY DEF AllForget
      <3>1. Forgets(d, v)
        BY <2>1 DEF AllForget
      <3>2. QED
        BY <1>1, <1>3, <1>4, <3>1 DEF Forgets
    <2>5. QED
      BY <2>2, <2>3, <2>4 DEF Settled
  <1>8. QED
    BY <1>2, <1>5, <1>6, <1>7 DEF Inv

-----------------------------------------------------------------------------
(* CHANNEL_JOIN.                                                           *)

LEMMA JoinAddsInv ==
    ASSUME Inv, NEW c \in Client, JoinAdds(c)
    PROVE  Inv'
  <1> DEFINE h == [at |-> "adding", members |-> {}, sends |-> << >>]
  <1>a. /\ handler[c].at = "idle" /\ c \notin members /\ members' = members \cup {c} /\ Live(c)
        /\ excused' = (excused \/ SomeoneAt(Leaving))
        /\ UNCHANGED <<listed, users, channel>>
    BY DEF JoinAdds, Starts, Reaches, Live
  <1>b. Turns(c, h)
    BY DEF JoinAdds, Starts, Reaches, Goes, Turns, Acts, Handler, Stage
  <1>c. /\ h.at = "adding" /\ \A t, op, v : ~Pending(h, t, op) /\ ~Lists(h, v)
        /\ FitsAll(c, h)
    BY NothingPending DEF FitsAll
  <1> HIDE DEF h
  <1>1. /\ handler'[c] = h /\ \A d \in Client : d # c => handler'[d] = handler[d]
        /\ \A t, op, v : ~Pending(handler[c], t, op) /\ ~Lists(handler[c], v)
        /\ \A d, v \in Client : Will(d, v)' <=> Will(d, v)
        /\ \A d \in Client : Live(d)' <=> Live(d)
    BY <1>b, Turned
  <1>2. Typed' /\ SendsFit'
    <2>1. requests' \in [Client -> Seq(SUBSET Request)]
      BY HeadTailProperties DEF JoinAdds, Starts, Inv, Typed, TasksOK
    <2>2. HubsOK' /\ excused' \in BOOLEAN
      BY <1>a DEF Inv, Typed, HubsOK, TasksOK, SomeoneAt
    <2>3. QED
      BY <1>b, <1>c, <2>1, <2>2, Turned
  <1>3. c \notin listed
    BY <1>a DEF Inv, Places, PlaceOf
  <1>4. Places'
    <2> SUFFICES ASSUME NEW d \in Client PROVE PlaceOf(d, handler[d])'
      BY DEF Places
    <2>1. PlaceOf(d, handler[d])
      BY DEF Inv, Places
    <2>2. QED
      BY <1>a, <1>1, <1>3, <1>c, <2>1 DEF PlaceOf, Joining, Leaving
  <1>5. AllKnown'
    <2> SUFFICES ASSUME NEW d \in Client, NEW v \in Client PROVE Known(d, v)'
      BY DEF AllKnown
    <2>1. Known(d, v)
      BY DEF Inv, AllKnown
    <2>2. QED
      BY <1>a, <1>1, <1>c, <2>1 DEF Known
  <1>6. ASSUME ~excused' PROVE Settled'
    <2>1. ~SomeoneAt(Leaving) /\ ToldOfListed /\ AllForget
      BY <1>a, <1>6 DEF Inv, Settled
    <2>2. Exclusion'
      <3>1. ~SomeoneAt(Leaving)'
        BY <1>1, <1>c, <2>1 DEF SomeoneAt, Leaving
      <3>2. QED
        BY <3>1 DEF Exclusion
    <2>3. ToldOfListed'
      BY <1>a, <1>1, <1>c, <2>1 DEF ToldOfListed
    <2>4. AllForget'
      <3> SUFFICES ASSUME NEW d \in Client, NEW v \in Client PROVE Forgets(d, v)'
        BY DEF AllForget
      <3>1. Forgets(d, v)
        BY <2>1 DEF AllForget
      <3>2. handler[v].at \notin Leaving
        BY <2>1 DEF SomeoneAt
      <3>3. QED
        BY <1>a, <1>1, <1>c, <3>1, <3>2 DEF Forgets, Leaving
    <2>5. QED
      BY <2>2, <2>3, <2>4 DEF Settled
  <1>7. QED
    BY <1>2, <1>4, <1>5, <1>6 DEF Inv

LEMMA JoinListsInv ==
    ASSUME Inv, NEW c \in Client, JoinLists(c)
    PROVE  Inv'
  <1> DEFINE p == PacketOf("joined", listed')
             h == [at |-> "joining", members |-> {}, sends |-> To(c, p)]
  <1>a. /\ handler[c].at = "adding" /\ listed' = listed \cup {c} /\ channel' = channel \cup {c}
        /\ UNCHANGED <<members, users, excused>>
    BY DEF JoinLists, Reaches
  <1>b. p \in Proper /\ p.op = "joined" /\ p.user = listed'
    <2>1. listed' \in SUBSET Client
      BY <1>a DEF Inv, Typed, HubsOK
    <2>2. QED
      BY <2>1, PacketTypes DEF PacketOf
  <1>c. To(c, p) \in Seq(Sending) /\ Len(To(c, p)) = 1 /\ To(c, p)[1].to = c /\ To(c, p)[1].packet = p
    BY <1>b, ToTyped
  <1>d. Turns(c, h)
    BY <1>c DEF JoinLists, Reaches, Goes, Turns, Acts, Handler, Stage
  <1>e. /\ h.at = "joining" /\ FitsAll(c, h)
        /\ \A t, op : Pending(h, t, op) => op = "joined"
        /\ \A v : Lists(h, v) <=> v \in listed'
    BY <1>b, <1>c DEF FitsAll, Fits, Pending, Lists
  <1> HIDE DEF h, p
  <1>1. /\ handler'[c] = h /\ \A d \in Client : d # c => handler'[d] = handler[d]
        /\ \A t, op, v : ~Pending(handler[c], t, op) /\ ~Lists(handler[c], v)
        /\ \A d, v \in Client : Will(d, v)' <=> Will(d, v)
        /\ \A d \in Client : Live(d)' <=> Live(d)
    BY <1>d, Turned
  <1>2. Typed' /\ SendsFit'
    <2>1. requests' \in [Client -> Seq(SUBSET Request)]
      BY DEF JoinLists, Inv, Typed, TasksOK
    <2>2. HubsOK' /\ excused' \in BOOLEAN
      BY <1>a DEF Inv, Typed, HubsOK, TasksOK
    <2>3. QED
      BY <1>d, <1>e, <2>1, <2>2, Turned
  <1>3. c \in members
    BY <1>a DEF Inv, Places, PlaceOf, Joining
  <1>4. Places'
    <2> SUFFICES ASSUME NEW d \in Client PROVE PlaceOf(d, handler[d])'
      BY DEF Places
    <2>1. PlaceOf(d, handler[d])
      BY DEF Inv, Places
    <2>2. QED
      BY <1>a, <1>1, <1>3, <1>e, <2>1 DEF PlaceOf, Joining, Leaving
  <1>5. AllKnown'
    <2> SUFFICES ASSUME NEW d \in Client, NEW v \in Client PROVE Known(d, v)'
      BY DEF AllKnown
    <2>1. Known(d, v)
      BY DEF Inv, AllKnown
    <2>2. v \in members => v \in listed \/ handler[v].at = "adding"
      BY DEF Inv, Places, PlaceOf, Joining, Leaving, Typed, TasksOK, Handler, Stage
    <2>3. QED
      BY <1>a, <1>1, <1>e, <2>1, <2>2 DEF Known
  <1>6. ASSUME ~excused' PROVE Settled'
    <2>1. Exclusion /\ ToldOfListed /\ AllForget
      BY <1>a, <1>6 DEF Inv, Settled
    <2>2. ~SomeoneAt(Leaving)
      BY <1>a, <2>1 DEF Exclusion, SomeoneAt, Joining
    <2>3. Exclusion'
      <3>1. ~SomeoneAt(Leaving)'
        BY <1>1, <1>e, <2>2 DEF SomeoneAt, Leaving
      <3>2. QED
        BY <3>1 DEF Exclusion
    <2>4. ToldOfListed'
      BY <1>a, <1>1, <1>e, <2>1 DEF ToldOfListed
    <2>5. AllForget'
      <3> SUFFICES ASSUME NEW d \in Client, NEW v \in Client PROVE Forgets(d, v)'
        BY DEF AllForget
      <3>1. Forgets(d, v)
        BY <2>1 DEF AllForget
      <3>2. handler[v].at \notin Leaving
        BY <2>2 DEF SomeoneAt
      <3>3. QED
        BY <1>a, <1>1, <1>3, <1>e, <3>1, <3>2 DEF Forgets, Leaving
    <2>6. QED
      BY <2>3, <2>4, <2>5 DEF Settled
  <1>7. QED
    BY <1>2, <1>4, <1>5, <1>6 DEF Inv

LEMMA JoinTellsInv ==
    ASSUME Inv, NEW c \in Client, JoinTells(c)
    PROVE  Inv'
  <1>a. handler[c].at = "joining" /\ UNCHANGED <<hubs, excused>>
    BY DEF JoinTells, Reaches
  <1>b. PICK h : Acts(c, h) /\ h.at = "adds_peer" /\ Says(c, h, members \ {c}, "join")
    <2>1. GoesTelling(c, "adds_peer", members, "join", {c})
      BY DEF JoinTells
    <2>2. Typed /\ members \in SUBSET Client /\ "adds_peer" \in Stage /\ "join" \in Event
      BY DEF Inv, Typed, HubsOK, Stage, Event
    <2>3. QED
      BY <2>1, <2>2, TellingSays
  <1>d. Turns(c, h)
    BY <1>b DEF JoinTells, Reaches, Turns
  <1>e. /\ FitsAll(c, h)
        /\ \A t, op : Pending(h, t, op) => op = "join" /\ t \in members \ {c}
        /\ \A d \in (members \ {c}) \cap users : Pending(h, d, "join")
        /\ \A v : ~Lists(h, v)
    <2>1. FitsAll(c, h)
      BY <1>b DEF FitsAll, Fits, Says, PacketOf
    <2>2. Says(c, h, members \ {c}, "join")
      BY <1>b
    <2>3. QED
      BY <2>1, SaysPending, <2>2
  <1>1. /\ handler'[c] = h /\ \A d \in Client : d # c => handler'[d] = handler[d]
        /\ \A t, op, v : ~Pending(handler[c], t, op) /\ ~Lists(handler[c], v)
        /\ \A d, v \in Client : Will(d, v)' <=> Will(d, v)
        /\ \A d \in Client : Live(d)' <=> Live(d)
    BY <1>d, Turned
  <1>2. Typed' /\ SendsFit'
    <2>1. requests' \in [Client -> Seq(SUBSET Request)]
      BY DEF JoinTells, Inv, Typed, TasksOK
    <2>2. HubsOK' /\ excused' \in BOOLEAN
      BY <1>a DEF Inv, Typed, HubsOK, TasksOK, hubs
    <2>3. QED
      BY <1>d, <1>e, <2>1, <2>2, Turned
  <1>3. c \in members /\ c \in listed
    BY <1>a DEF Inv, Places, PlaceOf, Joining
  <1>4. Places'
    <2> SUFFICES ASSUME NEW d \in Client PROVE PlaceOf(d, handler[d])'
      BY DEF Places
    <2>1. PlaceOf(d, handler[d])
      BY DEF Inv, Places
    <2>2. QED
      BY <1>a, <1>b, <1>1, <1>3, <1>e, <2>1 DEF PlaceOf, Joining, Leaving, hubs
  <1>5. AllKnown'
    <2> SUFFICES ASSUME NEW d \in Client, NEW v \in Client PROVE Known(d, v)'
      BY DEF AllKnown
    <2>1. Known(d, v)
      BY DEF Inv, AllKnown
    <2>2. Live(d) => d \in users
      BY DEF Inv, Places, PlaceOf
    <2>3. UNCHANGED members /\ handler[c].at = "joining" /\ h.at = "adds_peer"
      BY <1>a, <1>b DEF hubs
    <2>4. CASE v = c /\ d # c
      BY <1>1, <1>e, <2>2, <2>3, <2>4 DEF Known
    <2>5. CASE v # c
      BY <1>1, <1>e, <2>1, <2>3, <2>5 DEF Known
    <2>6. CASE v = c /\ d = c
      BY <1>1, <1>e, <2>1, <2>3, <2>6 DEF Known, Leaving
    <2>7. QED
      BY <2>4, <2>5, <2>6
  <1>6. ASSUME ~excused' PROVE Settled'
    <2>1. Exclusion /\ ToldOfListed /\ AllForget
      BY <1>a, <1>6 DEF Inv, Settled
    <2>2. ~SomeoneAt(Leaving)
      BY <1>a, <2>1 DEF Exclusion, SomeoneAt, Joining
    <2>3. Exclusion'
      <3>1. ~SomeoneAt(Leaving)'
        BY <1>1, <1>b, <2>2 DEF SomeoneAt, Leaving
      <3>2. QED
        BY <3>1 DEF Exclusion
    <2>4. ToldOfListed'
      BY <1>a, <1>b, <1>1, <1>e, <2>1 DEF ToldOfListed, hubs
    <2>5. AllForget'
      <3> SUFFICES ASSUME NEW d \in Client, NEW v \in Client PROVE Forgets(d, v)'
        BY DEF AllForget
      <3>1. Forgets(d, v)
        BY <2>1 DEF AllForget
      <3>2. handler[v].at \notin Leaving
        BY <2>2 DEF SomeoneAt
      <3>3. QED
        BY <1>a, <1>b, <1>1, <1>3, <1>e, <3>1, <3>2 DEF Forgets, Leaving, hubs
    <2>6. QED
      BY <2>3, <2>4, <2>5 DEF Settled
  <1>7. QED
    BY <1>2, <1>4, <1>5, <1>6 DEF Inv

-----------------------------------------------------------------------------
(* CHANNEL_LEAVE and the cleanup.                                          *)

LEMMA DepartInv ==
    ASSUME Inv, NEW c \in Client, NEW h, Turns(c, h),
           handler[c].at = "idle", c \in channel,
           h.at = "leaving" \/ (h.at = "closing" /\ ~Live(c)),
           Says(c, h, members \ {c}, "leave"),
           excused' = (excused \/ SomeoneAt(Joining)),
           UNCHANGED hubs, requests' \in [Client -> Seq(SUBSET Request)]
    PROVE  Inv'
  <1>a. UNCHANGED <<members, listed, users, channel>>
    BY DEF hubs
  <1>b. h.at \in {"leaving", "closing"}
    OBVIOUS
  <1>1. /\ handler'[c] = h /\ \A d \in Client : d # c => handler'[d] = handler[d]
        /\ \A t, op, v : ~Pending(handler[c], t, op) /\ ~Lists(handler[c], v)
        /\ \A d, v \in Client : Will(d, v)' <=> Will(d, v)
        /\ \A d \in Client : Live(d)' <=> Live(d)
    BY Turned
  <1>2. FitsAll(c, h)
    BY DEF FitsAll, Fits, Says, PacketOf
  <1>3. Typed' /\ SendsFit'
    <2>1. HubsOK' /\ excused' \in BOOLEAN
      BY <1>a DEF Inv, Typed, HubsOK, TasksOK, SomeoneAt
    <2>2. QED
      BY <1>2, <2>1, Turned
  <1>4. /\ \A t, op : Pending(h, t, op) => op = "leave" /\ t \in members \ {c}
        /\ \A d \in (members \ {c}) \cap users : Pending(h, d, "leave")
        /\ \A v : ~Lists(h, v)
    BY SaysPending
  <1>5. c \in listed /\ c \in members
    BY DEF Inv, Places, PlaceOf
  <1>6. Places'
    <2> SUFFICES ASSUME NEW d \in Client PROVE PlaceOf(d, handler[d])'
      BY DEF Places
    <2>1. PlaceOf(d, handler[d])
      BY DEF Inv, Places
    <2>2. QED
      BY <1>a, <1>1, <1>4, <1>5, <2>1 DEF PlaceOf, Joining, Leaving
  <1>7. AllKnown'
    <2> SUFFICES ASSUME NEW d \in Client, NEW v \in Client PROVE Known(d, v)'
      BY DEF AllKnown
    <2>1. Known(d, v)
      BY DEF Inv, AllKnown
    <2>2. h.at \in Leaving
      BY <1>b DEF Leaving
    <2>3. QED
      BY <1>a, <1>1, <2>1, <2>2 DEF Known
  <1>8. ASSUME ~excused' PROVE Settled'
    <2>1. ~SomeoneAt(Joining) /\ ToldOfListed /\ AllForget
      BY <1>8 DEF Inv, Settled
    <2>2. Exclusion'
      <3>1. ~SomeoneAt(Joining)'
        BY <1>1, <1>b, <2>1 DEF SomeoneAt, Joining
      <3>2. QED
        BY <3>1 DEF Exclusion
    <2>3. ToldOfListed'
      BY <1>a, <1>1, <1>4, <2>1 DEF ToldOfListed
    <2>4. AllForget'
      <3> SUFFICES ASSUME NEW d \in Client, NEW v \in Client PROVE Forgets(d, v)'
        BY DEF AllForget
      <3>1. Forgets(d, v)
        BY <2>1 DEF AllForget
      <3>2. Live(d) => d \in users
        BY DEF Inv, Places, PlaceOf
      <3>3. QED
        BY <1>a, <1>b, <1>1, <1>4, <1>5, <3>1, <3>2 DEF Forgets
    <2>5. QED
      BY <2>2, <2>3, <2>4 DEF Settled
  <1>9. QED
    BY <1>3, <1>6, <1>7, <1>8 DEF Inv

LEMMA RemovedInv ==
    ASSUME Inv, NEW c \in Client, NEW h, Turns(c, h), Removes(c), FitsAll(c, h),
           \/ handler[c].at = "removes_peer" /\ h.at = "idle" /\ Pending(h, c, "left")
           \/ handler[c].at = "closes_peer" /\ h.at = "unregisters" /\ h.sends = << >>,
           UNCHANGED <<users, excused, requests>>
    PROVE  Inv'
  <1>a. /\ members' = members \ {c} /\ listed' = listed \ {c} /\ channel' = channel \ {c}
        /\ UNCHANGED <<users, excused>>
    BY DEF Removes
  <1>1. /\ handler'[c] = h /\ \A d \in Client : d # c => handler'[d] = handler[d]
        /\ \A t, op, v : ~Pending(handler[c], t, op) /\ ~Lists(handler[c], v)
        /\ \A d, v \in Client : Will(d, v)' <=> Will(d, v)
        /\ \A d \in Client : Live(d)' <=> Live(d)
    BY Turned
  <1>2. Typed' /\ SendsFit'
    <2>1. requests' \in [Client -> Seq(SUBSET Request)] /\ HubsOK' /\ excused' \in BOOLEAN
      BY <1>a DEF Inv, Typed, HubsOK, TasksOK
    <2>2. QED
      BY <2>1, Turned
  <1>3. \A t, v : /\ ~Pending(h, t, "join") /\ ~Pending(h, t, "leave")
                  /\ ~Lists(h, v) /\ (Pending(h, t, "left") => t = c)
    BY NothingPending DEF FitsAll, Fits, Pending, Lists
  <1>4. h.at \in {"idle", "unregisters"} /\ handler[c].at \in {"removes_peer", "closes_peer"}
    OBVIOUS
  <1>5. handler[c].at = "closes_peer" => ~Live(c)
    BY DEF Inv, Places, PlaceOf
  <1>6. Places'
    <2> SUFFICES ASSUME NEW d \in Client PROVE PlaceOf(d, handler[d])'
      BY DEF Places
    <2>1. PlaceOf(d, handler[d])
      BY DEF Inv, Places
    <2>2. CASE d = c
      BY <1>a, <1>1, <1>4, <1>5, <2>1, <2>2 DEF PlaceOf, Joining, Leaving
    <2>3. CASE d # c
      BY <1>a, <1>1, <2>1, <2>3 DEF PlaceOf
    <2>4. QED
      BY <2>2, <2>3
  <1>7. AllKnown'
    <2> SUFFICES ASSUME NEW d \in Client, NEW v \in Client PROVE Known(d, v)'
      BY DEF AllKnown
    <2>1. Known(d, v)
      BY DEF Inv, AllKnown
    <2>2. QED
      BY <1>a, <1>1, <2>1 DEF Known
  <1>8. ASSUME ~excused' PROVE Settled'
    <2>1. Exclusion /\ ToldOfListed /\ AllForget
      BY <1>a, <1>8 DEF Inv, Settled
    <2>2. ~SomeoneAt(Joining)
      BY <1>4, <2>1 DEF Exclusion, SomeoneAt, Leaving
    <2>3. Exclusion'
      <3>1. ~SomeoneAt(Joining)'
        BY <1>1, <1>4, <2>2 DEF SomeoneAt, Joining
      <3>2. QED
        BY <3>1 DEF Exclusion
    <2>4. ToldOfListed'
      <3>1. \A v \in Client : handler[v].at # "adds_peer" /\ handler[v].at # "joining"
        BY <2>2 DEF SomeoneAt, Joining
      <3>2. \A v, t \in Client : ~Pending(handler[v], t, "join")
        BY <3>1 DEF Inv, SendsFit, FitsAll, Fits, Pending
      <3>3. QED
        BY <1>1, <1>3, <1>4, <3>1, <3>2 DEF ToldOfListed
    <2>5. AllForget'
      <3> SUFFICES ASSUME NEW d \in Client, NEW v \in Client PROVE Forgets(d, v)'
        BY DEF AllForget
      <3>1. Forgets(d, v)
        BY <2>1 DEF AllForget
      <3>2. CASE d = c
        BY <1>a, <1>1, <1>5, <3>2 DEF Forgets
      <3>3. CASE d # c /\ v = c
        BY <1>a, <1>1, <1>4, <3>1, <3>3 DEF Forgets
      <3>4. CASE d # c /\ v # c
        BY <1>a, <1>1, <3>1, <3>4 DEF Forgets
      <3>5. QED
        BY <3>2, <3>3, <3>4
    <2>6. QED
      BY <2>3, <2>4, <2>5 DEF Settled
  <1>9. QED
    BY <1>2, <1>6, <1>7, <1>8 DEF Inv

-----------------------------------------------------------------------------
(* Sends.                                                                  *)

\* The first packet is sent, or given up, and the others stay.
LEMMA RestPending ==
    ASSUME NEW h \in Handler, h.sends # << >>, NEW g, g = [h EXCEPT !.sends = Tail(@)]
    PROVE  /\ g \in Handler /\ g.at = h.at
           /\ Head(h.sends) \in Sending /\ Head(h.sends) = h.sends[1] /\ 1 \in 1..Len(h.sends)
           /\ \A t, op : Pending(g, t, op) => Pending(h, t, op)
           /\ \A v : Lists(g, v) => Lists(h, v)
           /\ \A t, op : Pending(h, t, op) =>
                 Pending(g, t, op) \/ (t = Head(h.sends).to /\ op = Head(h.sends).packet.op)
           /\ \A v : Lists(h, v) =>
                 \/ Lists(g, v)
                 \/ Head(h.sends).packet.op = "joined" /\ v \in Head(h.sends).packet.user
           /\ \A c : FitsAll(c, h) => FitsAll(c, g)
  <1> DEFINE q == h.sends
             r == Tail(q)
             n == Len(r)
  <1>1. /\ q \in Seq(Sending) /\ r \in Seq(Sending) /\ n \in Nat /\ Len(q) = n + 1
        /\ Head(q) = q[1] /\ q[1] \in Sending /\ \A j \in 1..n : r[j] = q[j + 1]
    BY HeadTailProperties DEF Handler
  <1>2. g \in Handler /\ g.at = h.at /\ g.sends = r
    BY <1>1 DEF Handler
  <1> HIDE DEF q, r, n
  <1>3. \A j \in 1..n : j + 1 \in 1..(n + 1) /\ r[j] = q[j + 1]
    BY <1>1
  <1>4. \A j \in 1..(n + 1) : j = 1 \/ (j - 1 \in 1..n /\ r[j - 1] = q[j])
    BY <1>1
  <1>5. 1 \in 1..(n + 1)
    BY <1>1
  <1>6. \A i \in 1..Len(g.sends) : \E j \in 1..Len(h.sends) : g.sends[i] = h.sends[j]
    BY <1>1, <1>2, <1>3 DEF q, n
  <1>7. \A j \in 1..Len(h.sends) :
            h.sends[j] = Head(h.sends) \/ \E i \in 1..Len(g.sends) : g.sends[i] = h.sends[j]
    BY <1>1, <1>2, <1>4 DEF q, n
  <1>8. \A t, op : Pending(g, t, op) => Pending(h, t, op)
    BY <1>6 DEF Pending
  <1>9. \A v : Lists(g, v) => Lists(h, v)
    BY <1>6 DEF Lists
  <1>10. \A t, op : Pending(h, t, op) =>
            Pending(g, t, op) \/ (t = Head(h.sends).to /\ op = Head(h.sends).packet.op)
    BY <1>7 DEF Pending
  <1>11. \A v : Lists(h, v) =>
            Lists(g, v) \/ (Head(h.sends).packet.op = "joined" /\ v \in Head(h.sends).packet.user)
    BY <1>7 DEF Lists
  <1>12. \A c : FitsAll(c, h) => FitsAll(c, g)
    BY <1>2, <1>6 DEF FitsAll
  <1>13. Head(h.sends) \in Sending /\ Head(h.sends) = h.sends[1] /\ 1 \in 1..Len(h.sends)
    BY <1>1, <1>5 DEF q
  <1>14. QED
    BY <1>2, <1>8, <1>9, <1>10, <1>11, <1>12, <1>13

\* c has sent its next packet, s.
LEMMA SentInv ==
    ASSUME Inv, NEW c \in Client, handler[c].sends # << >>,
           NEW s, s = Head(handler[c].sends), Room(s), Put(s),
           handler' = [handler EXCEPT ![c].sends = Tail(@)],
           UNCHANGED <<hubs, reaper, line, requests, excused>>
    PROVE  Inv'
  <1> DEFINE h == handler[c]
             p == s.packet
  <1>a. handler \in [Client -> Handler] /\ h \in Handler /\ h.sends # << >>
    BY DEF Inv, Typed, TasksOK
  <1> DEFINE g == [h EXCEPT !.sends = Tail(@)]
  <1>b. handler' = [handler EXCEPT ![c] = g]
    BY <1>a
  <1>c. /\ handler'[c] = g /\ \A d \in Client : d # c => handler'[d] = handler[d]
    BY <1>a, <1>b
  <1>d. s \in Sending /\ s = h.sends[1] /\ 1 \in 1..Len(h.sends) /\ Room(s) /\ Put(s)
    BY <1>a, RestPending
  <1> HIDE DEF g
  <1>1. /\ g \in Handler /\ g.at = h.at
        /\ \A t, op : Pending(g, t, op) => Pending(h, t, op)
        /\ \A v : Lists(g, v) => Lists(h, v)
        /\ \A t, op : Pending(h, t, op) => Pending(g, t, op) \/ (t = s.to /\ op = p.op)
        /\ \A v : Lists(h, v) => Lists(g, v) \/ (p.op = "joined" /\ v \in p.user)
        /\ FitsAll(c, h) => FitsAll(c, g)
    BY <1>a, RestPending DEF g
  <1>2. Fits(c, h.at, s) /\ FitsAll(c, g)
    BY <1>d, <1>1 DEF Inv, SendsFit, FitsAll
  <1> HIDE DEF h
  <1>3. /\ LinesOK'
        /\ \A v \in Client : Will(s.to, v)' <=> Adds(p, v) \/ (~Takes(p, v) /\ Will(s.to, v))
        /\ \A d, v \in Client : d # s.to => (Will(d, v)' <=> Will(d, v))
    BY <1>d, PutHeard DEF Inv
  <1>4. Typed'
    BY <1>a, <1>b, <1>1, <1>3 DEF Inv, Typed, HubsOK, TasksOK, hubs
  <1>5. SendsFit'
    BY <1>c, <1>2 DEF Inv, SendsFit
  <1>6. \A d \in Client : /\ handler'[d].at = handler[d].at
                          /\ Live(d)' <=> Live(d)
    BY <1>c, <1>1 DEF Live, h
  <1>7. UNCHANGED <<members, listed, users, channel, excused>>
    BY DEF hubs
  <1>8. Places'
    <2> SUFFICES ASSUME NEW d \in Client PROVE PlaceOf(d, handler[d])'
      BY DEF Places
    <2>1. PlaceOf(d, handler[d])
      BY DEF Inv, Places
    <2>2. Pending(handler'[d], d, "left") => Pending(handler[d], d, "left")
      BY <1>c, <1>1 DEF h
    <2>3. QED
      BY <1>6, <1>7, <2>1, <2>2 DEF PlaceOf
  <1>9. p.op = "left" => s.to = c /\ c \notin members
    <2>1. p.op = "left" => Pending(h, s.to, "left") /\ s.to = c
      BY <1>d, <1>2 DEF Pending, Fits
    <2>2. QED
      BY <2>1 DEF Inv, Places, PlaceOf, h
  <1>10. p.op = "join" => h.at = "adds_peer" /\ s.to # c /\ p.user = c
    BY <1>2 DEF Fits
  <1>11. p.op = "leave" => h.at \in {"leaving", "closing"} /\ s.to # c /\ p.user = c
    BY <1>2 DEF Fits
  <1>12. p.op = "joined" => h.at = "joining" /\ s.to = c
    BY <1>2 DEF Fits
  <1>13. \A d \in Client : \A t, op : Pending(handler'[d], t, op) => Pending(handler[d], t, op)
    BY <1>c, <1>1 DEF h
  <1>14. AllKnown'
    <2> SUFFICES ASSUME NEW d \in Client, NEW v \in Client PROVE Known(d, v)'
      BY DEF AllKnown
    <2>1. Known(d, v)
      BY DEF Inv, AllKnown
    <2> SUFFICES ASSUME d \in members, v \in members, Live(d), Live(v),
                        handler[d].at # "adding",
                        handler[v].at \notin {"adding"} \cup Leaving,
                        ~(v # d /\ handler[v].at = "joining")
                 PROVE  \/ handler'[d].at = "joining" /\ Lists(handler'[d], v)
                        \/ Will(d, v)'
                        \/ Pending(handler'[v], d, "join")
      BY <1>6, <1>7 DEF Known
    <2>2. \/ handler[d].at = "joining" /\ Lists(handler[d], v)
          \/ Will(d, v)
          \/ Pending(handler[v], d, "join")
      BY <2>1 DEF Known
    <2>3. CASE handler[d].at = "joining" /\ Lists(handler[d], v)
      <3>1. CASE d # c
        BY <1>c, <2>3, <3>1
      <3>2. CASE d = c /\ ~Lists(g, v)
        <4>1. p.op = "joined" /\ v \in p.user /\ s.to = c
          BY <1>1, <1>12, <2>3, <3>2 DEF h
        <4>2. QED
          BY <1>3, <3>2, <4>1 DEF Adds
      <3>3. QED
        BY <1>c, <1>6, <2>3, <3>1, <3>2
    <2>4. CASE Will(d, v)
      <3>1. CASE d = s.to
        <4>1. ~Takes(p, v)
          BY <1>9, <1>11, <3>1 DEF Takes, Leaving, h
        <4>2. QED
          BY <1>3, <2>4, <3>1, <4>1
      <3>2. QED
        BY <1>3, <2>4, <3>1
    <2>5. CASE Pending(handler[v], d, "join")
      <3>1. CASE v # c
        BY <1>c, <2>5, <3>1
      <3>2. CASE v = c /\ ~Pending(g, d, "join")
        <4>1. d = s.to /\ p.op = "join" /\ p.user = v
          BY <1>1, <1>10, <2>5, <3>2 DEF h
        <4>2. QED
          BY <1>3, <4>1 DEF Adds
      <3>3. QED
        BY <1>c, <3>1, <3>2
    <2>6. QED
      BY <2>2, <2>3, <2>4, <2>5
  <1>15. ASSUME ~excused' PROVE Settled'
    <2>1. Exclusion /\ ToldOfListed /\ AllForget
      BY <1>7, <1>15 DEF Inv, Settled
    <2>2. Exclusion'
      BY <1>6, <2>1 DEF Exclusion, SomeoneAt
    <2>3. ToldOfListed'
      <3>1. \A d \in Client : \A v : Lists(handler'[d], v) => Lists(handler[d], v)
        BY <1>c, <1>1 DEF h
      <3>2. QED
        BY <1>6, <1>7, <1>13, <2>1, <3>1 DEF ToldOfListed
    <2>4. AllForget'
      <3> SUFFICES ASSUME NEW d \in Client, NEW v \in Client PROVE Forgets(d, v)'
        BY DEF AllForget
      <3>1. Forgets(d, v)
        BY <2>1 DEF AllForget
      <3>2. Live(d)' => Live(d)
        BY <1>6
      <3>3. CASE d # s.to
        <4>1. Will(d, v)' <=> Will(d, v)
          BY <1>3, <3>3
        <4>2. \A b \in Client : \A op : Pending(handler[b], d, op) <=> Pending(handler'[b], d, op)
          BY <1>c, <1>1, <1>13, <3>3 DEF h
        <4>3. QED
          BY <1>6, <1>7, <3>1, <4>1, <4>2 DEF Forgets
      <3>4. CASE d = s.to /\ Takes(p, v)
        <4>1. ~Will(d, v)'
          BY <1>3, <3>4, AddsNotTakes
        <4>2. QED
          BY <4>1 DEF Forgets
      <3>5. CASE d = s.to /\ Adds(p, v)
        <4>1. d \in members /\ v \in listed
          <5>1. CASE p.op = "joined"
            <6>1. Lists(h, v) /\ h.at = "joining" /\ d = c
              BY <1>d, <1>12, <3>5, <5>1 DEF Lists, Adds
            <6>2. QED
              BY <2>1, <6>1 DEF ToldOfListed, Inv, Places, PlaceOf, Joining, h
          <5>2. CASE p.op = "join"
            <6>1. Pending(h, d, "join") /\ h.at = "adds_peer" /\ v = c
              BY <1>d, <1>10, <3>5, <5>2 DEF Pending, Adds
            <6>2. QED
              BY <2>1, <6>1 DEF ToldOfListed, Inv, Places, PlaceOf, Joining, h
          <5>3. QED
            BY <3>5, <5>1, <5>2 DEF Adds
        <4>2. handler[v].at \notin Leaving
          <5>1. SomeoneAt(Joining)
            BY <1>10, <1>12, <3>5 DEF Adds, SomeoneAt, Joining, h
          <5>2. QED
            BY <2>1, <5>1 DEF Exclusion, SomeoneAt
        <4>3. QED
          BY <1>6, <1>7, <4>1, <4>2 DEF Forgets, Leaving
      <3>6. CASE d = s.to /\ ~Takes(p, v) /\ ~Adds(p, v)
        <4>1. Will(d, v)' <=> Will(d, v)
          BY <1>3, <3>6
        <4>2. Pending(handler[v], d, "leave") => Pending(handler'[v], d, "leave")
          <5>1. CASE v # c
            BY <1>c, <5>1
          <5>2. CASE v = c
            BY <1>c, <1>1, <1>11, <3>6, <5>2 DEF h, Takes
          <5>3. QED
            BY <5>1, <5>2
        <4>3. Pending(handler[d], d, "left") => Pending(handler'[d], d, "left")
          <5>1. CASE d # c
            BY <1>c, <5>1
          <5>2. CASE d = c
            BY <1>c, <1>1, <3>6, <5>2 DEF h, Takes
          <5>3. QED
            BY <5>1, <5>2
        <4>4. QED
          BY <1>6, <1>7, <3>1, <4>1, <4>2, <4>3 DEF Forgets
      <3>7. QED
        BY <3>3, <3>4, <3>5, <3>6
    <2>5. QED
      BY <2>2, <2>3, <2>4 DEF Settled
  <1>16. QED
    BY <1>4, <1>5, <1>8, <1>14, <1>15 DEF Inv

\* c has given up its next packet, whose recipient is gone.
LEMMA DroppedInv ==
    ASSUME Inv, NEW c \in Client, handler[c].sends # << >>,
           NEW s, s = Head(handler[c].sends), line[s.to] = "closed",
           handler' = [handler EXCEPT ![c] =
               IF handler[c].at = "joining" THEN Idle
               ELSE [handler[c] EXCEPT !.sends = Tail(@)]],
           UNCHANGED <<hubs, reaper, queue, line, requests, roster, excused>>
    PROVE  Inv'
  <1> DEFINE h == handler[c]
             g == IF h.at = "joining" THEN Idle ELSE [h EXCEPT !.sends = Tail(@)]
  <1>a. handler \in [Client -> Handler] /\ h \in Handler /\ h.sends # << >> /\ FitsAll(c, h)
    BY DEF Inv, Typed, TasksOK, SendsFit
  <1>b. handler'[c] = g /\ \A d \in Client : d # c => handler'[d] = handler[d]
    BY <1>a
  <1>c. handler' = [handler EXCEPT ![c] = g]
    OBVIOUS
  <1>d. s \in Sending /\ s = h.sends[1] /\ 1 \in 1..Len(h.sends)
    BY <1>a, RestPending
  <1>1. /\ g \in Handler
        /\ \A t, op : Pending(g, t, op) => Pending(h, t, op)
        /\ \A v : Lists(g, v) => Lists(h, v)
        /\ \A t, op : Pending(h, t, op) => Pending(g, t, op) \/ ~Live(t)
        /\ \A v : Lists(h, v) => Lists(g, v) \/ ~Live(c)
        /\ FitsAll(c, g)
        /\ g.at = h.at \/ (h.at = "joining" /\ g.at = "idle" /\ ~Live(c))
    <2>1. CASE h.at = "joining"
      <3>1. g = Idle /\ g \in Handler /\ g.sends = << >> /\ g.at = "idle"
        BY <2>1 DEF Idle, Handler, Stage
      <3>2. \A i \in 1..Len(h.sends) : h.sends[i].to = c
        BY <1>a, <2>1 DEF FitsAll, Fits
      <3>3. ~Live(c)
        BY <1>d, <3>2 DEF Live
      <3>4. \A t, op : Pending(h, t, op) => ~Live(t)
        BY <3>2, <3>3 DEF Pending
      <3>5. \A t, op, v : ~Pending(g, t, op) /\ ~Lists(g, v)
        BY <3>1, NothingPending
      <3>6. FitsAll(c, g)
        BY <3>1 DEF FitsAll
      <3> HIDE DEF g, h
      <3>7. QED
        BY <2>1, <3>1, <3>3, <3>4, <3>5, <3>6
    <2>2. CASE h.at # "joining"
      <3>1. g = [h EXCEPT !.sends = Tail(@)]
        BY <2>2
      <3> HIDE DEF g
      <3>2. /\ g \in Handler /\ g.at = h.at
            /\ \A t, op : Pending(g, t, op) => Pending(h, t, op)
            /\ \A v : Lists(g, v) => Lists(h, v)
            /\ \A t, op : Pending(h, t, op) =>
                  Pending(g, t, op) \/ (t = s.to /\ op = s.packet.op)
            /\ FitsAll(c, g)
        BY <1>a, <3>1, RestPending
      <3>3. \A v : ~Lists(h, v)
        BY <1>a, <2>2 DEF Lists, FitsAll, Fits
      <3>4. QED
        BY <3>2, <3>3 DEF Live
    <2>3. QED
      BY <2>1, <2>2
  <1> HIDE DEF g
  <1>2. UNCHANGED <<members, listed, users, channel, excused>>
    BY DEF hubs
  <1>3. Typed' /\ SendsFit'
    <2>a. handler' \in [Client -> Handler]
      BY <1>a, <1>c, <1>1
    <2>b. HubsOK' /\ LinesOK'
      BY DEF Inv, Typed, HubsOK, LinesOK, hubs
    <2>1. Typed'
      BY <2>a, <2>b DEF Inv, Typed, TasksOK
    <2>2. SendsFit'
      BY <1>b, <1>1 DEF Inv, SendsFit
    <2>3. QED
      BY <2>1, <2>2
  <1>4. /\ \A d \in Client : Live(d)' <=> Live(d)
        /\ \A d, v \in Client : Will(d, v)' <=> Will(d, v)
    BY DEF Live, Will
  <1>5. \A d \in Client :
            /\ \A t, op : Pending(handler'[d], t, op) => Pending(handler[d], t, op)
            /\ \A v : Lists(handler'[d], v) => Lists(handler[d], v)
            /\ \A t, op : Pending(handler[d], t, op) => Pending(handler'[d], t, op) \/ ~Live(t)
            /\ \A v : Lists(handler[d], v) => Lists(handler'[d], v) \/ ~Live(d)
            /\ \/ handler'[d].at = handler[d].at
               \/ handler[d].at = "joining" /\ handler'[d].at = "idle" /\ ~Live(d)
    BY <1>b, <1>1 DEF h
  <1> HIDE DEF h
  <1>6. Places'
    <2> SUFFICES ASSUME NEW d \in Client PROVE PlaceOf(d, handler[d])'
      BY DEF Places
    <2>1. PlaceOf(d, handler[d])
      BY DEF Inv, Places
    <2>2. QED
      BY <1>2, <1>4, <1>5, <2>1 DEF PlaceOf, Joining, Leaving
  <1>7. AllKnown'
    <2> SUFFICES ASSUME NEW d \in Client, NEW v \in Client PROVE Known(d, v)'
      BY DEF AllKnown
    <2>1. Known(d, v)
      BY DEF Inv, AllKnown
    <2>2. QED
      BY <1>2, <1>4, <1>5, <2>1 DEF Known
  <1>8. ASSUME ~excused' PROVE Settled'
    <2>1. Exclusion /\ ToldOfListed /\ AllForget
      BY <1>2, <1>8 DEF Inv, Settled
    <2>2. Exclusion'
      <3>1. SomeoneAt(Joining)' => SomeoneAt(Joining)
        BY <1>5 DEF SomeoneAt, Joining
      <3>2. SomeoneAt(Leaving)' => SomeoneAt(Leaving)
        BY <1>5 DEF SomeoneAt, Leaving
      <3>3. QED
        BY <2>1, <3>1, <3>2 DEF Exclusion
    <2>3. ToldOfListed'
      BY <1>2, <1>5, <2>1 DEF ToldOfListed
    <2>4. AllForget'
      <3> SUFFICES ASSUME NEW d \in Client, NEW v \in Client PROVE Forgets(d, v)'
        BY DEF AllForget
      <3>1. Forgets(d, v)
        BY <2>1 DEF AllForget
      <3>2. QED
        BY <1>2, <1>4, <1>5, <3>1 DEF Forgets
    <2>5. QED
      BY <2>2, <2>3, <2>4 DEF Settled
  <1>9. QED
    BY <1>3, <1>6, <1>7, <1>8 DEF Inv

LEMMA SendNextInv ==
    ASSUME Inv, NEW c \in Client, SendNext(c)
    PROVE  Inv'
  <1>1. PICK s : s = Head(handler[c].sends)
    OBVIOUS
  <1>2. CASE /\ Room(s) /\ Put(s)
             /\ handler' = [handler EXCEPT ![c].sends = Tail(@)]
    BY <1>1, <1>2, SentInv DEF SendNext
  <1>3. CASE /\ line[s.to] = "closed"
             /\ handler' = [handler EXCEPT ![c] =
                   IF handler[c].at = "joining" THEN Idle
                   ELSE [handler[c] EXCEPT !.sends = Tail(@)]]
             /\ UNCHANGED <<queue, roster>>
    BY <1>1, <1>3, DroppedInv DEF SendNext
  <1>4. QED
    BY <1>1, <1>2, <1>3 DEF SendNext

-----------------------------------------------------------------------------
(* Everybody else's steps.                                                 *)

\* Nobody's handler moves, and who still reads will believe the same.
LEMMA SameInv ==
    ASSUME Inv, UNCHANGED <<hubs, handler, excused>>, Typed',
           \A i \in 1..Len(reaper'.sends) : reaper'.sends[i].packet.op = "revoke",
           \A d \in Client : Live(d)' => Live(d),
           \A d, v \in Client : Live(d)' => (Will(d, v)' <=> Will(d, v))
    PROVE  Inv'
  <1>2. UNCHANGED <<members, listed, users, channel, excused, handler>>
    BY DEF hubs
  <1>3. SendsFit'
    BY DEF Inv, SendsFit
  <1>6. Places'
    <2> SUFFICES ASSUME NEW d \in Client PROVE PlaceOf(d, handler[d])'
      BY DEF Places
    <2>1. PlaceOf(d, handler[d])
      BY DEF Inv, Places
    <2>2. QED
      BY <1>2, <2>1 DEF PlaceOf
  <1>7. AllKnown'
    <2> SUFFICES ASSUME NEW d \in Client, NEW v \in Client PROVE Known(d, v)'
      BY DEF AllKnown
    <2>1. Known(d, v)
      BY DEF Inv, AllKnown
    <2>2. QED
      BY <1>2, <2>1 DEF Known
  <1>8. ASSUME ~excused' PROVE Settled'
    <2>1. Exclusion /\ ToldOfListed /\ AllForget
      BY <1>2, <1>8 DEF Inv, Settled
    <2>2. Exclusion' /\ ToldOfListed'
      BY <1>2, <2>1 DEF Exclusion, SomeoneAt, ToldOfListed
    <2>3. AllForget'
      <3> SUFFICES ASSUME NEW d \in Client, NEW v \in Client PROVE Forgets(d, v)'
        BY DEF AllForget
      <3>1. Forgets(d, v)
        BY <2>1 DEF AllForget
      <3>2. QED
        BY <1>2, <3>1 DEF Forgets
    <2>4. QED
      BY <2>2, <2>3 DEF Settled
  <1>9. QED
    BY <1>3, <1>6, <1>7, <1>8 DEF Inv

LEMMA RevokeInv == Inv /\ Revoke => Inv'
  <1> SUFFICES ASSUME Inv, Revoke PROVE Inv'
    OBVIOUS
  <1>2. PICK p \in Proper : p = PacketOf("revoke", Nobody) /\ p.op = "revoke"
    BY PacketTypes DEF PacketOf
  <1>1. PICK sends \in Broadcasts(members, p) :
            reaper' = [revoked |-> reaper.revoked + 1, sends |-> sends]
    BY <1>2 DEF Revoke
  <1>3. /\ sends \in Seq(Sending)
        /\ \A i \in 1..Len(sends) : sends[i].packet.op = "revoke"
    <2>1. users \subseteq Client
      BY DEF Inv, Typed, HubsOK
    <2>2. /\ sends \in Seq(Sending)
          /\ \A i \in 1..Len(sends) : sends[i].packet = p
      BY <2>1, BroadcastProps
    <2>3. QED
      BY <1>2, <2>2
  <1>4. reaper.revoked \in 0..Revocations /\ reaper.revoked < Revocations
    BY DEF Revoke, Inv, Typed, TasksOK
  <1>5. reaper' \in [revoked: 0..Revocations, sends: Seq(Sending)]
    BY <1>1, <1>3, <1>4, DeliveryAssumption
  <1>6. Typed'
    BY <1>5 DEF Revoke, Inv, Typed, HubsOK, TasksOK, LinesOK, hubs
  <1>7. /\ \A i \in 1..Len(reaper'.sends) : reaper'.sends[i].packet.op = "revoke"
        /\ UNCHANGED <<hubs, handler, excused>>
    BY <1>1, <1>3 DEF Revoke
  <1>8. \A d, v \in Client : (Live(d)' <=> Live(d)) /\ (Will(d, v)' <=> Will(d, v))
    BY DEF Revoke, Live, Will
  <1>9. QED
    BY <1>6, <1>7, <1>8, SameInv

LEMMA ReaperSendsInv == Inv /\ ReaperSends => Inv'
  <1> SUFFICES ASSUME Inv, ReaperSends PROVE Inv'
    OBVIOUS
  <1>1. PICK s : s = Head(reaper.sends)
    OBVIOUS
  <1>2. /\ reaper.sends \in Seq(Sending) /\ reaper.sends # << >>
        /\ reaper \in [revoked: 0..Revocations, sends: Seq(Sending)]
        /\ reaper' = [reaper EXCEPT !.sends = Tail(@)]
        /\ \A i \in 1..Len(reaper.sends) : reaper.sends[i].packet.op = "revoke"
    BY DEF ReaperSends, Inv, Typed, TasksOK, SendsFit
  <1>3. /\ s \in Sending /\ s.packet.op = "revoke" /\ Tail(reaper.sends) \in Seq(Sending)
        /\ \A i \in 1..Len(Tail(reaper.sends)) : Tail(reaper.sends)[i].packet.op = "revoke"
    BY <1>1, <1>2, HeadTailProperties
  <1>4. /\ reaper' \in [revoked: 0..Revocations, sends: Seq(Sending)]
        /\ reaper'.sends = Tail(reaper.sends)
    BY <1>2, <1>3
  <1>5. LinesOK' /\ \A d, v \in Client : Will(d, v)' <=> Will(d, v)
    <2>1. CASE Room(s) /\ Put(s)
      BY <1>3, <2>1, PutUnheard DEF ReaperSends, Inv
    <2>2. CASE UNCHANGED <<queue, roster>>
      BY <2>2 DEF ReaperSends, Inv, Typed, LinesOK, Will
    <2>3. QED
      BY <1>1, <2>1, <2>2 DEF ReaperSends
  <1>6. Typed'
    BY <1>4, <1>5 DEF ReaperSends, Inv, Typed, HubsOK, TasksOK, hubs
  <1>7. UNCHANGED <<hubs, handler, excused>> /\ \A d \in Client : Live(d)' <=> Live(d)
    BY DEF ReaperSends, Live
  <1>8. QED
    BY <1>3, <1>4, <1>5, <1>6, <1>7, SameInv

LEMMA LineInv ==
    ASSUME Inv, NEW c \in Client, Read(c) \/ Stall(c) \/ Recover(c) \/ Break(c)
    PROVE  Inv'
  <1>1. /\ UNCHANGED <<hubs, handler, reaper, requests, excused>>
        /\ \A i \in 1..Len(reaper.sends) : reaper.sends[i].packet.op = "revoke"
    BY DEF Inv, SendsFit, Read, Stall, Recover, Break
  <1>a. /\ line \in [Client -> {"reading", "stalled", "closed"}]
        /\ queue \in [Client -> Seq(Proper)]
    BY DEF Inv, Typed, LinesOK
  <1>2. CASE Read(c)
    <2>1. LinesOK' /\ \A d, v \in Client : Will(d, v)' <=> Will(d, v)
      BY <1>2, ReadHeard DEF Inv
    <2>2. \A d \in Client : Live(d)' <=> Live(d)
      BY <1>2 DEF Read, Live
    <2>3. Typed'
      BY <1>1, <2>1 DEF Inv, Typed, HubsOK, TasksOK, hubs
    <2>4. QED
      BY <1>1, <2>1, <2>2, <2>3, SameInv
  <1>3. CASE Stall(c) \/ Recover(c)
    <2>1. UNCHANGED <<queue, roster>> /\ \A d \in Client : Live(d)' <=> Live(d)
      BY <1>a, <1>3 DEF Stall, Recover, Live
    <2>2. line' \in [Client -> {"reading", "stalled", "closed"}]
      BY <1>a, <1>3 DEF Stall, Recover
    <2>3. \A d, v \in Client : Will(d, v)' <=> Will(d, v)
      BY <2>1 DEF Will
    <2>4. Typed'
      BY <1>1, <2>1, <2>2 DEF Inv, Typed, HubsOK, TasksOK, LinesOK, hubs
    <2>5. QED
      BY <1>1, <2>1, <2>3, <2>4, SameInv
  <1>4. CASE Break(c)
    <2>1. /\ line' = [line EXCEPT ![c] = "closed"] /\ queue' = [queue EXCEPT ![c] = << >>]
          /\ UNCHANGED roster
      BY <1>4 DEF Break
    <2>2. ~Live(c)' /\ \A d \in Client : d # c => (Live(d)' <=> Live(d)) /\ queue'[d] = queue[d]
      BY <1>a, <2>1 DEF Live
    <2>3. \A d, v \in Client : Live(d)' => (Will(d, v)' <=> Will(d, v))
      BY <2>1, <2>2 DEF Will
    <2>4. LinesOK'
      <3>1. Size \in Nat /\ Len(<< >>) = 0 /\ << >> \in Seq(Proper)
        BY DeliveryAssumption, EmptySeq
      <3>2. QED
        BY <2>1, <3>1 DEF Inv, Typed, LinesOK
    <2>5. Typed'
      BY <1>1, <2>4 DEF Inv, Typed, HubsOK, TasksOK, hubs
    <2>6. QED
      BY <1>1, <2>2, <2>3, <2>5, SameInv
  <1>5. QED
    BY <1>2, <1>3, <1>4

-----------------------------------------------------------------------------
(* The steps between stages, one by one.                                   *)

LEMMA Started ==
    ASSUME Inv, NEW c \in Client, NEW request, Starts(c, request)
    PROVE  /\ handler[c].at = "idle" /\ handler[c].sends = << >> /\ Live(c)
           /\ requests' \in [Client -> Seq(SUBSET Request)]
  <1>1. requests \in [Client -> Seq(SUBSET Request)]
    BY DEF Inv, Typed, TasksOK
  <1>2. requests[c] # << >> /\ requests' = [requests EXCEPT ![c] = Tail(@)]
    BY DEF Starts
  <1>3. Tail(requests[c]) \in Seq(SUBSET Request)
    BY <1>1, <1>2, HeadTailProperties
  <1>4. QED
    BY <1>1, <1>2, <1>3 DEF Starts, Reaches, Live

\* What is broadcast at each stage and no roster depends on.
Chatter(stage, op) ==
    \/ stage = "updating" /\ op = "update"
    \/ stage = "idle" /\ op = "message"
    \/ stage = "shows_peers" /\ op = "peer_added"
    \/ stage \in {"removes_peer", "closes_peer"} /\ op = "peer_removed"

LEMMA ChatterInv ==
    ASSUME Inv, NEW c \in Client, NEW stage, NEW names \in SUBSET Client, NEW op, NEW exclude,
           GoesTelling(c, stage, names, op, exclude), Chatter(stage, op),
           handler[c].sends = << >>, Quietly(handler[c].at, stage),
           UNCHANGED <<hubs, reaper, queue, line, roster, excused>>,
           requests' \in [Client -> Seq(SUBSET Request)]
    PROVE  Inv'
  <1>1. Typed /\ stage \in Stage /\ op \in Event /\ stage # "gone" /\ stage # "unregisters"
    BY DEF Inv, Chatter, Stage, Event
  <1>2. PICK h : Acts(c, h) /\ h.at = stage /\ Says(c, h, names \ exclude, op)
    BY <1>1, TellingSays
  <1>3. Turns(c, h) /\ Quietly(handler[c].at, h.at)
    BY <1>2 DEF Turns
  <1>4. FitsAll(c, h)
    BY <1>2 DEF FitsAll, Fits, Says, PacketOf, Chatter
  <1>5. \A t : ~Pending(h, t, "left")
    BY <1>2, SaysPending DEF Chatter
  <1>6. UNCHANGED <<members, listed, channel, excused>> /\ users' = users
    BY DEF hubs
  <1>7. h.at # "gone" /\ h.at # "unregisters"
    BY <1>1, <1>2
  <1>8. QED
    BY <1>3, <1>4, <1>5, <1>6, <1>7, QuietTurn

\* An answer, or nothing at all, is sent instead.
LEMMA AnswersInv ==
    ASSUME Inv, NEW c \in Client, NEW stage \in Stage, NEW sends \in Seq(Sending),
           Goes(c, stage, {}, sends), handler[c].sends = << >>, Quietly(handler[c].at, stage),
           \/ stage = "idle" /\ \A i \in 1..Len(sends) :
                 sends[i].packet.op \in {"answer", "peer_added"}
           \/ sends = << >>,
           UNCHANGED <<members, listed, channel, reaper, queue, line, roster, excused>>,
           users' = IF stage = "gone" THEN users \ {c} ELSE users,
           stage = "unregisters" => c \notin channel /\ ~Live(c),
           requests' \in [Client -> Seq(SUBSET Request)]
    PROVE  Inv'
  <1> DEFINE h == [at |-> stage, members |-> {}, sends |-> sends]
  <1>1. h \in Handler /\ h.at = stage /\ h.sends = sends
    BY DEF Handler
  <1>2. Turns(c, h)
    BY <1>1 DEF Turns, Acts, Goes
  <1> HIDE DEF h
  <1>3. FitsAll(c, h) /\ \A t : ~Pending(h, t, "left")
    <2>1. CASE sends = << >>
      BY <1>1, <2>1 DEF FitsAll, Pending
    <2>2. CASE stage = "idle" /\ \A i \in 1..Len(sends) :
                  sends[i].packet.op \in {"answer", "peer_added"}
      BY <1>1, <2>2 DEF FitsAll, Fits, Pending
    <2>3. QED
      BY <2>1, <2>2
  <1>4. QED
    BY <1>1, <1>2, <1>3, QuietTurn

LEMMA AnswerTyped ==
    ASSUME NEW c \in Client
    PROVE  /\ Answer(c) \in Seq(Sending)
           /\ \A i \in 1..Len(Answer(c)) : Answer(c)[i].packet.op = "answer"
  <1>1. PICK p \in Proper : p = PacketOf("answer", Nobody) /\ p.op = "answer"
    BY PacketTypes DEF PacketOf
  <1>2. To(c, p) \in Seq(Sending) /\ Len(To(c, p)) = 1 /\ To(c, p)[1].packet = p
    BY ToTyped
  <1>3. \A i \in 1..1 : i = 1
    OBVIOUS
  <1>4. QED
    BY <1>1, <1>2, <1>3 DEF Answer

LEMMA LookInv ==
    ASSUME Inv, NEW c \in Client, Look(c) \/ RefuseWithError(c) \/ UpdateAnswers(c)
    PROVE  Inv'
  <1>1. Goes(c, "idle", {}, Answer(c)) /\ UNCHANGED <<hubs, reaper, queue, line, roster, excused>>
    BY DEF Look, RefuseWithError, UpdateAnswers
  <1>2. /\ handler[c].at \in {"idle", "updating"} /\ handler[c].sends = << >>
        /\ requests' \in [Client -> Seq(SUBSET Request)]
    <2>1. CASE Look(c) \/ RefuseWithError(c)
      BY <2>1, Started DEF Look, RefuseWithError
    <2>2. CASE UpdateAnswers(c)
      BY <2>2 DEF UpdateAnswers, Reaches, Inv, Typed, TasksOK
    <2>3. QED
      BY <2>1, <2>2
  <1>3. UNCHANGED <<members, listed, users, channel>>
    BY <1>1 DEF hubs
  <1>4. Quietly(handler[c].at, "idle") /\ "idle" \in Stage
    BY <1>2 DEF Quietly, Stage
  <1>5. /\ Answer(c) \in Seq(Sending)
        /\ \A i \in 1..Len(Answer(c)) : Answer(c)[i].packet.op \in {"answer", "peer_added"}
    BY AnswerTyped
  <1>6. QED
    BY <1>1, <1>2, <1>3, <1>4, <1>5, AnswersInv

LEMMA TalkInv ==
    ASSUME Inv, NEW c \in Client,
           \/ Update(c) \/ CreateMessage(c) \/ JoinAddsPeer(c)
           \/ LeaveRemovesPeer(c) \/ CleanupRemovesPeer(c)
    PROVE  Inv'
  <1>1. members \in SUBSET Client /\ handler[c].members \in SUBSET Client
        /\ requests \in [Client -> Seq(SUBSET Request)]
    BY DEF Inv, Typed, HubsOK, TasksOK, Handler
  <1>2. CASE Update(c)
    <2>1. GoesTelling(c, "updating", members, "update", {}) /\ Chatter("updating", "update")
      BY <1>2 DEF Update, Chatter
    <2>2. /\ handler[c].at = "idle" /\ handler[c].sends = << >>
          /\ requests' \in [Client -> Seq(SUBSET Request)]
      BY <1>2, Started DEF Update
    <2>3. Quietly(handler[c].at, "updating")
      BY <2>2 DEF Quietly
    <2>4. UNCHANGED <<hubs, reaper, queue, line, roster, excused>>
      BY <1>2 DEF Update
    <2>5. QED
      BY <1>1, <2>1, <2>2, <2>3, <2>4, ChatterInv
  <1>3. CASE CreateMessage(c)
    <2>1. GoesTelling(c, "idle", members, "message", {}) /\ Chatter("idle", "message")
      BY <1>3 DEF CreateMessage, Chatter
    <2>2. /\ handler[c].at = "idle" /\ handler[c].sends = << >>
          /\ requests' \in [Client -> Seq(SUBSET Request)]
      BY <1>3, Started DEF CreateMessage
    <2>3. Quietly(handler[c].at, "idle")
      BY <2>2 DEF Quietly
    <2>4. UNCHANGED <<hubs, reaper, queue, line, roster, excused>>
      BY <1>3 DEF CreateMessage
    <2>5. QED
      BY <1>1, <2>1, <2>2, <2>3, <2>4, ChatterInv
  <1>4. CASE JoinAddsPeer(c)
    <2>1. GoesTelling(c, "shows_peers", handler[c].members, "peer_added", {c})
          /\ Chatter("shows_peers", "peer_added")
      BY <1>4 DEF JoinAddsPeer, Chatter
    <2>2. /\ Quietly(handler[c].at, "shows_peers") /\ handler[c].sends = << >>
          /\ UNCHANGED <<hubs, reaper, queue, line, roster, excused, requests>>
      BY <1>4 DEF JoinAddsPeer, Reaches, Quietly
    <2>3. QED
      BY <1>1, <2>1, <2>2, ChatterInv
  <1>5. CASE LeaveRemovesPeer(c)
    <2>1. GoesTelling(c, "removes_peer", handler[c].members, "peer_removed", {c})
          /\ Chatter("removes_peer", "peer_removed")
      BY <1>5 DEF LeaveRemovesPeer, Chatter
    <2>2. /\ Quietly(handler[c].at, "removes_peer") /\ handler[c].sends = << >>
          /\ UNCHANGED <<hubs, reaper, queue, line, roster, excused, requests>>
      BY <1>5 DEF LeaveRemovesPeer, Reaches, Quietly
    <2>3. QED
      BY <1>1, <2>1, <2>2, ChatterInv
  <1>6. CASE CleanupRemovesPeer(c)
    <2>1. GoesTelling(c, "closes_peer", handler[c].members, "peer_removed", {c})
          /\ Chatter("closes_peer", "peer_removed")
      BY <1>6 DEF CleanupRemovesPeer, Chatter
    <2>2. /\ Quietly(handler[c].at, "closes_peer") /\ handler[c].sends = << >>
          /\ UNCHANGED <<hubs, reaper, queue, line, roster, excused, requests>>
      BY <1>6 DEF CleanupRemovesPeer, Reaches, Quietly
    <2>3. QED
      BY <1>1, <2>1, <2>2, ChatterInv
  <1>7. QED
    BY <1>2, <1>3, <1>4, <1>5, <1>6

LEMMA JoinShowsPeersInv ==
    ASSUME Inv, NEW c \in Client, JoinShowsPeers(c)
    PROVE  Inv'
  <1> DEFINE Shows(order) == [i \in DOMAIN order |->
                 [to |-> c, packet |-> PacketOf("peer_added", order[i])]]
  <1>1. PICK order \in SetToSeqs(listed \ {c}) : Goes(c, "idle", {}, Shows(order))
    BY DEF JoinShowsPeers
  <1>2. listed \ {c} \in SUBSET Client
    BY DEF Inv, Typed, HubsOK
  <1>3. IsFiniteSet(listed \ {c})
    BY <1>2, ClientsAreFinite
  <1>4. order \in Seq(listed \ {c}) /\ DOMAIN order = 1..Len(order) /\ Len(order) \in Nat
    BY <1>3, OrderOfSet
  <1>5. \A i \in 1..Len(order) : PacketOf("peer_added", order[i]) \in Proper
    <2>1. \A i \in 1..Len(order) : order[i] \in Client
      BY <1>2, <1>4
    <2>2. QED
      BY <2>1, PacketTypes DEF Event
  <1>6. Shows(order) \in [1..Len(order) -> Sending]
    BY <1>4, <1>5 DEF Sending
  <1>7. Shows(order) \in Seq(Sending) /\ Len(Shows(order)) = Len(order)
    BY <1>4, <1>6
  <1>8. \A i \in 1..Len(Shows(order)) :
            Shows(order)[i].packet.op \in {"answer", "peer_added"}
    BY <1>4, <1>7 DEF PacketOf
  <1>9. /\ Quietly(handler[c].at, "idle") /\ handler[c].sends = << >> /\ "idle" \in Stage
        /\ UNCHANGED <<members, listed, users, channel, reaper, queue, line, roster, excused>>
        /\ requests' \in [Client -> Seq(SUBSET Request)]
    BY DEF JoinShowsPeers, Reaches, Quietly, Stage, hubs, Inv, Typed, TasksOK
  <1> HIDE DEF Shows
  <1>10. QED
    BY <1>1, <1>7, <1>8, <1>9, AnswersInv

LEMMA LeaveTellsInv ==
    ASSUME Inv, NEW c \in Client, LeaveTells(c)
    PROVE  Inv'
  <1>1. /\ c \in channel /\ excused' = (excused \/ SomeoneAt(Joining))
        /\ UNCHANGED <<hubs, reaper, queue, line, roster>>
    BY DEF LeaveTells
  <1>2. /\ handler[c].at = "idle" /\ handler[c].sends = << >>
        /\ requests' \in [Client -> Seq(SUBSET Request)]
    BY Started DEF LeaveTells
  <1>3. PICK h : Acts(c, h) /\ h.at = "leaving" /\ Says(c, h, members \ {c}, "leave")
    <2>1. GoesTelling(c, "leaving", members, "leave", {c})
      BY DEF LeaveTells
    <2>2. Typed /\ members \in SUBSET Client /\ "leaving" \in Stage /\ "leave" \in Event
      BY DEF Inv, Typed, HubsOK, Stage, Event
    <2>3. QED
      BY <2>1, <2>2, TellingSays
  <1>4. Turns(c, h)
    BY <1>1, <1>2, <1>3 DEF Turns
  <1>5. QED
    BY <1>1, <1>2, <1>3, <1>4, DepartInv

LEMMA LeaveRemovesInv ==
    ASSUME Inv, NEW c \in Client, LeaveRemoves(c)
    PROVE  Inv'
  <1>1. PICK p \in Proper : p = PacketOf("left", Nobody) /\ p.op = "left"
    BY PacketTypes DEF PacketOf
  <1>2. To(c, p) \in Seq(Sending) /\ Len(To(c, p)) = 1 /\ To(c, p)[1].to = c /\ To(c, p)[1].packet = p
    BY ToTyped
  <1> DEFINE h == [at |-> "idle", members |-> {}, sends |-> To(c, p)]
  <1>3. h \in Handler /\ h.at = "idle" /\ h.sends = To(c, p)
    BY <1>2 DEF Handler, Stage
  <1>4. Turns(c, h)
    BY <1>1, <1>3 DEF LeaveRemoves, Reaches, Goes, Turns, Acts
  <1> HIDE DEF h
  <1>5. FitsAll(c, h) /\ Pending(h, c, "left")
    <2>1. \A i \in 1..1 : i = 1
      OBVIOUS
    <2>2. QED
      BY <1>1, <1>2, <1>3, <2>1 DEF FitsAll, Fits, Pending
  <1>6. /\ Removes(c) /\ handler[c].at = "removes_peer"
        /\ UNCHANGED <<users, excused, requests>>
    BY DEF LeaveRemoves, Reaches
  <1>7. QED
    BY <1>3, <1>4, <1>5, <1>6, RemovedInv

LEMMA CleanupStartsInv ==
    ASSUME Inv, NEW c \in Client, CleanupStarts(c)
    PROVE  Inv'
  <1>1. /\ handler[c].at = "idle" /\ handler[c].sends = << >> /\ ~Live(c)
        /\ UNCHANGED <<hubs, reaper, queue, line, requests, roster>>
        /\ UNCHANGED <<members, listed, users, channel>>
        /\ requests' \in [Client -> Seq(SUBSET Request)]
    BY DEF CleanupStarts, Reaches, Live, hubs, Inv, Typed, TasksOK
  <1>2. CASE /\ c \in channel
             /\ GoesTelling(c, "closing", members, "leave", {c})
             /\ excused' = (excused \/ SomeoneAt(Joining))
    <2>1. PICK h : Acts(c, h) /\ h.at = "closing" /\ Says(c, h, members \ {c}, "leave")
      <3>1. Typed /\ members \in SUBSET Client /\ "closing" \in Stage /\ "leave" \in Event
        BY DEF Inv, Typed, HubsOK, Stage, Event
      <3>2. QED
        BY <1>2, <3>1, TellingSays
    <2>2. Turns(c, h)
      BY <1>1, <2>1 DEF Turns
    <2>3. QED
      BY <1>1, <1>2, <2>1, <2>2, DepartInv
  <1>3. CASE c \notin channel /\ Goes(c, "unregisters", {}, << >>) /\ UNCHANGED excused
    <2>1. Quietly(handler[c].at, "unregisters") /\ "unregisters" \in Stage /\ << >> \in Seq(Sending)
      BY <1>1, EmptySeq DEF Quietly, Stage
    <2>2. QED
      BY <1>1, <1>3, <2>1, AnswersInv
  <1>4. QED
    BY <1>2, <1>3 DEF CleanupStarts

LEMMA CleanupEndsInv ==
    ASSUME Inv, NEW c \in Client, CleanupRemoves(c) \/ CleanupUnregisters(c)
    PROVE  Inv'
  <1>1. << >> \in Seq(Sending) /\ {"unregisters", "gone"} \subseteq Stage
    BY EmptySeq DEF Stage
  <1>2. CASE CleanupRemoves(c)
    <2> DEFINE h == [at |-> "unregisters", members |-> {}, sends |-> << >>]
    <2>1. h \in Handler /\ h.at = "unregisters" /\ h.sends = << >>
      BY <1>1 DEF Handler
    <2>2. Turns(c, h)
      BY <1>2, <2>1 DEF CleanupRemoves, Reaches, Goes, Turns, Acts
    <2> HIDE DEF h
    <2>3. FitsAll(c, h)
      BY <2>1 DEF FitsAll
    <2>4. /\ Removes(c) /\ handler[c].at = "closes_peer"
          /\ UNCHANGED <<users, excused, requests>>
      BY <1>2 DEF CleanupRemoves, Reaches
    <2>5. QED
      BY <2>1, <2>2, <2>3, <2>4, RemovedInv
  <1>3. CASE CleanupUnregisters(c)
    <2>1. /\ Quietly(handler[c].at, "gone") /\ handler[c].sends = << >>
          /\ users' = users \ {c} /\ Goes(c, "gone", {}, << >>)
          /\ UNCHANGED <<members, listed, channel, reaper, queue, line, roster, excused>>
          /\ requests' \in [Client -> Seq(SUBSET Request)]
      BY <1>3 DEF CleanupUnregisters, Reaches, Quietly, Inv, Typed, TasksOK
    <2>2. QED
      BY <1>1, <2>1, AnswersInv
  <1>4. QED
    BY <1>2, <1>3

LEMMA RefuseSilentlyInv ==
    ASSUME Inv, NEW c \in Client, RefuseSilently(c)
    PROVE  Inv'
  <1>1. requests' \in [Client -> Seq(SUBSET Request)]
    BY Started DEF RefuseSilently
  <1>2. UNCHANGED <<hubs, handler, reaper, queue, line, roster, excused>>
    BY DEF RefuseSilently
  <1>3. Typed'
    BY <1>1, <1>2 DEF Inv, Typed, HubsOK, TasksOK, LinesOK, hubs
  <1>4. \A d, v \in Client : (Live(d)' <=> Live(d)) /\ (Will(d, v)' <=> Will(d, v))
    BY <1>2 DEF Live, Will
  <1>5. \A i \in 1..Len(reaper'.sends) : reaper'.sends[i].packet.op = "revoke"
    BY <1>2 DEF Inv, SendsFit
  <1>6. QED
    BY <1>2, <1>3, <1>4, <1>5, SameInv

-----------------------------------------------------------------------------
(* The invariant.                                                          *)

LEMMA InitInv == Init => Inv
  <1> SUFFICES ASSUME Init PROVE Inv
    OBVIOUS
  <1>1. Joined \subseteq Client /\ Size \in Nat /\ Revocations \in Nat
        /\ Requests \in [Client -> Seq(SUBSET Request)]
    BY DeliveryAssumption
  <1>2. \A c \in Client : /\ handler[c] = Idle /\ handler[c].at = "idle" /\ handler[c].sends = << >>
                          /\ queue[c] = << >> /\ Live(c)
                          /\ roster[c] = IF c \in Joined THEN Joined ELSE {}
    BY DEF Init, Idle, Live
  <1>3. \A c \in Client : \A t, op, v : ~Pending(handler[c], t, op) /\ ~Lists(handler[c], v)
    BY <1>2, NothingPending
  <1>4. \A c, v \in Client : Will(c, v) <=> c \in Joined /\ v \in Joined
    BY <1>2, ClaimsEmpty DEF Will
  <1>5. members = Joined /\ listed = Joined /\ channel = Joined /\ users = Client /\ excused = FALSE
    BY DEF Init
  <1>6. Typed
    <2>1. << >> \in Seq(Sending) /\ << >> \in Seq(Proper) /\ Len(<< >>) = 0
      BY EmptySeq
    <2>2. Idle \in Handler
      BY <2>1 DEF Idle, Handler, Stage
    <2>3. HubsOK
      BY <1>1, <1>5 DEF HubsOK
    <2>4. TasksOK
      <3>1. handler \in [Client -> Handler]
        BY <2>2 DEF Init
      <3>2. reaper \in [revoked: 0..Revocations, sends: Seq(Sending)]
        <4>1. 0 \in 0..Revocations
          BY <1>1
        <4>2. reaper = [revoked |-> 0, sends |-> << >>]
          BY DEF Init
        <4>3. QED
          BY <2>1, <4>1, <4>2
      <3>3. QED
        BY <1>1, <3>1, <3>2 DEF Init, TasksOK
    <2>5. LinesOK
      BY <1>1, <2>1 DEF Init, LinesOK
    <2>6. QED
      BY <2>3, <2>4, <2>5 DEF Typed
  <1>7. Places
    BY <1>2, <1>3, <1>5 DEF Places, PlaceOf, Joining, Leaving
  <1>8. SendsFit
    BY <1>2 DEF SendsFit, FitsAll, Init
  <1>9. AllKnown
    BY <1>4, <1>5 DEF AllKnown, Known
  <1>10. Settled
    <2>1. Exclusion /\ ToldOfListed
      BY <1>2, <1>3 DEF Exclusion, SomeoneAt, Joining, ToldOfListed
    <2>2. AllForget
      BY <1>2, <1>4, <1>5 DEF AllForget, Forgets
    <2>3. QED
      BY <2>1, <2>2 DEF Settled
  <1>11. QED
    BY <1>6, <1>7, <1>8, <1>9, <1>10 DEF Inv

LEMMA NextInv == Inv /\ [Next]_vars => Inv'
  <1> SUFFICES ASSUME Inv, [Next]_vars PROVE Inv'
    OBVIOUS
  <1>1. ASSUME NEW c \in Client, Starting(c) PROVE Inv'
    BY <1>1, JoinAddsInv, LeaveTellsInv, TalkInv, LookInv, RefuseSilentlyInv DEF Starting
  <1>2. ASSUME NEW c \in Client, Going(c) PROVE Inv'
    BY <1>2, SendNextInv, JoinListsInv, JoinTellsInv, TalkInv, JoinShowsPeersInv, LookInv,
       LeaveRemovesInv, CleanupStartsInv, CleanupEndsInv DEF Going
  <1>3. ASSUME NEW c \in Client, Read(c) \/ Stall(c) \/ Recover(c) \/ Break(c) PROVE Inv'
    BY <1>3, LineInv
  <1>4. CASE UNCHANGED vars
    <2>1. UNCHANGED <<members, listed, users, channel, hubs, handler, reaper, queue, line,
                      requests, roster, excused>>
      BY <1>4 DEF vars, hubs
    <2>2. Typed'
      BY <2>1 DEF Inv, Typed, HubsOK, TasksOK, LinesOK
    <2>3. \A d, v \in Client : (Live(d)' <=> Live(d)) /\ (Will(d, v)' <=> Will(d, v))
      BY <2>1 DEF Live, Will
    <2>4. \A i \in 1..Len(reaper'.sends) : reaper'.sends[i].packet.op = "revoke"
      BY <2>1 DEF Inv, SendsFit
    <2>5. QED
      BY <2>1, <2>2, <2>3, <2>4, SameInv
  <1>5. QED
    BY <1>1, <1>2, <1>3, <1>4, RevokeInv, ReaperSendsInv DEF Next

LEMMA InvAlways == Spec => []Inv
  BY InitInv, NextInv, PTL DEF Spec

-----------------------------------------------------------------------------
(* What follows.                                                           *)

\* Whatever is queued or about to be sent is a packet of the protocol to a
\* client, and no queue holds more than EGRESS_QUEUE_SIZE packets.
THEOREM TypeCorrect == Spec => []TypeOK
  <1>1. Inv => TypeOK
    <2> SUFFICES ASSUME Inv PROVE TypeOK
      OBVIOUS
    <2>1. Proper \subseteq Packet /\ Sending \subseteq Send
      BY DEF Proper, Sending, Send
    <2>2. Seq(Proper) \subseteq Seq(Packet) /\ Seq(Sending) \subseteq Seq(Send)
      BY <2>1
    <2>3. members \cup listed \cup users \cup channel \subseteq Client
      BY DEF Inv, Typed, HubsOK
    <2>4. ASSUME NEW c \in Client
          PROVE  /\ handler[c].at \in Stage /\ handler[c].members \subseteq Client
                 /\ handler[c].sends \in Seq(Send) /\ requests[c] \in Seq(SUBSET Request)
      BY <2>2 DEF Inv, Typed, TasksOK, Handler
    <2>5. ASSUME NEW c \in Client
          PROVE  /\ queue[c] \in Seq(Packet) /\ Len(queue[c]) <= Size
                 /\ line[c] \in {"reading", "stalled", "closed"} /\ roster[c] \subseteq Client
      BY <2>2 DEF Inv, Typed, LinesOK
    <2>6. reaper.revoked \in 0..Revocations /\ reaper.sends \in Seq(Send) /\ excused \in BOOLEAN
      BY <2>2 DEF Inv, Typed, TasksOK
    <2>7. QED
      BY <2>3, <2>4, <2>5, <2>6 DEF TypeOK
  <1>2. QED
    BY <1>1, InvAlways, PTL

\* Once the handlers have finished and the queues have been read, the members
\* agree on who is in the channel, though messages were sent by many tasks, in
\* any order, and some to connections that had broken: unless a CHANNEL_LEAVE
\* or a cleanup ran while a CHANNEL_JOIN did.
THEOREM MembersAgree == Spec => []QuietRosters
  <1>1. Inv => QuietRosters
    <2> SUFFICES ASSUME Inv, Quiet, ~excused, NEW c \in members, NEW v
                 PROVE  v \in roster[c] <=> v \in members
      BY DEF QuietRosters, Inv, Typed, HubsOK, LinesOK
    <2>1. /\ members \subseteq Client /\ roster[c] \subseteq Client /\ c \in Client
          /\ AllKnown /\ ToldOfListed /\ AllForget
      BY DEF Inv, Typed, HubsOK, LinesOK, Settled
    <2>2. \A d \in Client : /\ handler[d].at \in {"idle", "gone"} /\ handler[d].sends = << >>
                            /\ queue[d] = << >> /\ (~Live(d) => handler[d].at = "gone")
      BY DEF Quiet, Resting, Reaches, Live
    <2>3. \A d \in Client : \A t, op, w : ~Pending(handler[d], t, op) /\ ~Lists(handler[d], w)
      BY <2>2, NothingPending
    <2>4. \A d \in Client : /\ d \in members <=> d \in listed
                            /\ handler[d].at = "gone" => d \notin members
      BY <2>2 DEF Inv, Places, PlaceOf
    <2>5. \A d \in members : d \in Client /\ Live(d) /\ handler[d].at = "idle"
      BY <2>1, <2>2, <2>4
    <2>6. \A d, w \in Client : Will(d, w) <=> w \in roster[d]
      BY <2>2, ClaimsEmpty DEF Will
    <2>7. CASE v \in members
      <3>1. Known(c, v) /\ v \in Client
        BY <2>1, <2>7 DEF AllKnown
      <3>2. handler[v].at = "idle" /\ Live(v) /\ Live(c) /\ handler[c].at = "idle"
        BY <2>5, <2>7
      <3>3. Will(c, v)
        BY <2>3, <2>1, <2>7, <3>1, <3>2 DEF Known, Leaving
      <3>4. QED
        BY <2>1, <2>6, <2>7, <3>1, <3>3
    <2>8. CASE v \notin members
      <3>1. ASSUME v \in Client PROVE v \notin roster[c]
        <4>1. Forgets(c, v) /\ v \notin listed /\ Live(c)
          BY <2>1, <2>4, <2>5, <2>8, <3>1 DEF AllForget
        <4>2. QED
          BY <2>1, <2>6, <3>1, <4>1 DEF Forgets
      <3>2. QED
        BY <2>1, <2>8, <3>1
    <2>9. QED
      BY <2>7, <2>8
  <1>2. QED
    BY <1>1, InvAlways, PTL
=============================================================================
