----------------------------- MODULE RelayProof -----------------------------
(***************************************************************************)
(* Proofs about Relay, for any clients, tracks, channels, scenarios and    *)
(* styles of offers.  What is typed, sent and heard follows from the SSRCs *)
(* that answers tell; that all tracks asked for are relayed also needs     *)
(* what the server reads from an offer, the second part of this module.    *)
(***************************************************************************)
EXTENDS Relay, SequenceTheorems, FiniteSetTheorems, WellFoundedInduction, TLAPS

-----------------------------------------------------------------------------
(* The inductive invariant: every SSRC in use is for the receiver and the  *)
(* track it was drawn for, and no client receives its own tracks.          *)

\* The SSRCs drawn for c to receive t under.
Named(c, t) == {<<c, t, n>> : n \in Serial}

ConsumerOK ==
    /\ consumer \in [Client \X Track -> Ssrc \cup {NoSsrc}]
    /\ \A c \in Client, t \in Track :
          consumer[<<c, t>>] # NoSsrc => consumer[<<c, t>>] \in Named(c, t) /\ t[1] # c

\* What relay[t] may hold.
Receivers(t) == {pair \in Client \X Ssrc : pair[1] # t[1] /\ pair[2] \in Named(pair[1], t)}

RelayOK == relay \in [Track -> SUBSET (Client \X Ssrc)] /\ \A t \in Track : relay[t] \subseteq Receivers(t)

ToldOK ==
    /\ told \in [Client -> [Track -> Ssrc \cup {NoSsrc}]]
    /\ \A c \in Client, t \in Track :
          told[c][t] # NoSsrc => told[c][t] \in Named(c, t) /\ t[1] # c

\* The sections of an answer to c that tell an SSRC tell one of their track.
SectionsOK(c, sections) ==
    \A i \in DOMAIN sections :
        sections[i].ssrc # NoSsrc =>
            /\ sections[i].mid \in Track /\ sections[i].mid[1] # c
            /\ sections[i].ssrc \in Named(c, sections[i].mid)

WantOK(c, r) ==
    /\ r.want \in Seq(Track) /\ \A i \in 1..Len(r.want) : r.want[i][1] # c
    /\ r.map \in Seq(Ssrc) /\ Len(r.map) <= Len(r.want)
    /\ \A i \in 1..Len(r.map) : r.map[i] \in Named(c, r.want[i])

IsRequest(r) ==
    r = [want |-> r.want, map |-> r.map, lost |-> r.lost, offer |-> r.offer, answer |-> r.answer]

RequestsOK ==
    /\ request = [c \in Client |-> request[c]]
    /\ \A c \in Client :
        /\ IsRequest(request[c])
        /\ WantOK(c, request[c])
        /\ task[c] = "answered" => SectionsOK(c, request[c].answer.sections)

DueOK == due \in [Client -> SUBSET Client] /\ \A c \in Client : c \notin due[c]

\* The packet that is being sent.
UdpOK ==
    /\ udp = [track |-> udp.track, to |-> udp.to]
    /\ udp.track \in Track \cup {NoPacket.track}
    /\ udp.to # {} => udp.track \in Track
    /\ udp.to \subseteq Client \X (Ssrc \cup {Raw})
    /\ \A pair \in udp.to :
          /\ pair[1] # udp.track[1]
          /\ pair[2] # Raw => pair[2] \in Named(pair[1], udp.track)

HubInv ==
    /\ scenario \in Scenario
    /\ joins \in 0..scenario.joins
    /\ endpoints \subseteq Client
    /\ rebuilt \in Channel \cup {NoChannel}
    /\ ConsumerOK /\ RelayOK

ClientInv ==
    /\ task \in [Client -> TaskState]
    /\ RequestsOK /\ DueOK /\ ToldOK

FloorInv ==
    /\ floor \in Client \cup {NoClient}
    /\ holds \in Seq(Client) /\ Len(holds) <= MaxHolds
    /\ heard \in [Client -> Seq(Client)]

Inv == HubInv /\ ClientInv /\ UdpOK /\ FloorInv

\* Those in hear are some of those in own, in their order, none later than k.
InTurns(hear, own, k) ==
    \E turn \in [1..Len(hear) -> 1..Len(own)] :
        /\ \A i \in 1..Len(hear) : hear[i] = own[turn[i]] /\ turn[i] <= k
        /\ \A i, j \in 1..Len(hear) : i < j => turn[i] < turn[j]

\* Nobody has heard a turn later than that of the packet being sent, whose
\* sender may have lost the floor since it was received.
TurnInv ==
    /\ floor # NoClient => Len(holds) > 0 /\ holds[Len(holds)] = floor
    /\ \E k \in 0..Len(holds) :
          /\ udp.to # {} /\ home[udp.track[1]] \notin Conference
                => k > 0 /\ holds[k] = udp.track[1]
          /\ \A c \in Client : InTurns(heard[c], holds, k)

-----------------------------------------------------------------------------
LEMMA NamedIsSsrc ==
    ASSUME NEW c \in Client, NEW t \in Track
    PROVE  /\ Named(c, t) \subseteq Ssrc
           /\ \A s \in Named(c, t) : s # NoSsrc /\ s # Raw
  BY DEF Named, Ssrc, NoSsrc, Raw

LEMMA NamedApart ==
    ASSUME NEW c \in Client, NEW t, NEW u, NEW s, s \in Named(c, t), s \in Named(c, u)
    PROVE  t = u
  BY DEF Named

LEMMA TrackProps ==
    ASSUME NEW t \in Track
    PROVE  t[1] \in Client /\ t[2] \in Kind
  BY DEF Track

\* The least natural number of a set.
LEMMA Least ==
    ASSUME NEW S, S \subseteq Nat, S # {}
    PROVE  \E n \in S : \A m \in S : ~(m < n)
  <1>1. PICK n \in S : \A m \in S : ~(<<m, n>> \in OpToRel(<, Nat))
    BY NatLessThanWellFounded, WFMin
  <1>2. QED
    BY <1>1 DEF OpToRel

LEMMA FreshIsNamed ==
    ASSUME NEW c \in Client, NEW t \in Track, \E n \in Serial : <<c, t, n>> \notin InUse
    PROVE  Fresh(c, t) \in Named(c, t)
  <1> DEFINE used == InUse
             left == {n \in Serial : <<c, t, n>> \notin used}
             First(n) == /\ <<c, t, n>> \notin used
                         /\ \A m \in Serial : m < n => <<c, t, m>> \in used
  <1>1. left \subseteq Nat /\ left # {}
    BY RelayAssumption
  <1>2. \E n \in left : \A m \in left : ~(m < n)
    BY <1>1, Least
  <1>3. \E n \in Serial : First(n)
    BY <1>2
  <1>4. (CHOOSE n \in Serial : First(n)) \in Serial
    BY <1>3
  <1>5. QED
    BY <1>4 DEF Fresh, Named

\* A finite set as a sequence has the set's elements.
LEMMA SetToSeqTyped ==
    ASSUME NEW S, IsFiniteSet(S)
    PROVE  SetToSeq(S) \in Seq(S)
  <1>1. Cardinality(S) \in Nat /\ ExistsBijection(1..Cardinality(S), S)
    BY FS_CardinalityType
  <1>2. \E f \in [1..Cardinality(S) -> S] : IsInjective(f)
    BY <1>1 DEF ExistsBijection, Bijection, Injection, IsInjective
  <1>3. SetToSeq(S) \in [1..Cardinality(S) -> S]
    BY <1>2 DEF SetToSeq
  <1>4. QED
    BY <1>1, <1>3

LEMMA TracksAreFinite == IsFiniteSet(Track)
  <1>1. IsFiniteSet(Kind)
    <2>1. Kind = {"audio"} \cup {"video"}
      BY DEF Kind
    <2>2. QED
      BY <2>1, FS_Singleton, FS_AddElement
  <1>2. IsFiniteSet(Client \X Kind)
    BY <1>1, RelayAssumption, FS_Product
  <1>3. QED
    BY <1>2, FS_Subset DEF Track

\* A non-empty set of indices has a greatest.
LEMMA MaxProps ==
    ASSUME NEW n \in Nat, NEW S, S \subseteq 1..n, S # {}
    PROVE  Max(S) \in S /\ \A x \in S : x <= Max(S)
  <1> DEFINE bounds == {m \in Nat : \A x \in S : x <= m}
  <1>1. n \in bounds
    OBVIOUS
  <1>2. PICK m \in bounds : \A k \in bounds : ~(k < m)
    BY <1>1, Least
  <1>3. m \in S
    <2> SUFFICES ASSUME m \notin S PROVE FALSE
      OBVIOUS
    <2>1. \A x \in S : x < m /\ x \in Nat
      BY <1>2
    <2>2. m > 0 /\ m - 1 \in Nat
      <3>1. PICK x \in S : x < m /\ x \in Nat
        BY <2>1
      <3>2. QED
        BY <1>2, <3>1
    <2>3. m - 1 \in bounds
      BY <2>1, <2>2
    <2>4. QED
      BY <1>2, <2>2, <2>3
  <1>4. \E x \in S : \A y \in S : x >= y
    BY <1>2, <1>3
  <1>5. QED
    BY <1>4 DEF Max

-----------------------------------------------------------------------------
(* What stays.                                                             *)

LEMMA HubStays ==
    ASSUME HubInv, UNCHANGED <<scenario, joins, endpoints, hubVars>>
    PROVE  HubInv'
  BY DEF HubInv, hubVars, ConsumerOK, RelayOK

LEMMA ClientsStay ==
    ASSUME ClientInv, UNCHANGED clientVars
    PROVE  ClientInv'
  BY DEF ClientInv, clientVars, RequestsOK, DueOK, ToldOK

LEMMA MediaStays ==
    ASSUME UdpOK, FloorInv, UNCHANGED mediaVars
    PROVE  UdpOK' /\ FloorInv'
  BY DEF UdpOK, FloorInv, mediaVars

\* A map that is rebuilt, for whatever channel, relays what consumers were given.
LEMMA RelayMapOK ==
    ASSUME ConsumerOK, NEW ch
    PROVE  /\ RelayMap(ch) \in [Track -> SUBSET (Client \X Ssrc)]
           /\ \A t \in Track : RelayMap(ch)[t] \subseteq Receivers(t)
  <1>1. ASSUME NEW t \in Track, NEW k \in DOMAIN consumer, k[2] = t, consumer[k] # NoSsrc
        PROVE  <<k[1], consumer[k]>> \in Receivers(t)
    <2>1. k[1] \in Client /\ k = <<k[1], t>>
      BY <1>1 DEF ConsumerOK
    <2>2. consumer[k] \in Named(k[1], t) /\ t[1] # k[1] /\ consumer[k] \in Ssrc
      BY <1>1, <2>1, NamedIsSsrc DEF ConsumerOK
    <2>3. QED
      BY <2>1, <2>2 DEF Receivers
  <1>2. \A t \in Track : Receivers(t) \subseteq Client \X Ssrc
    BY DEF Receivers
  <1>3. QED
    BY <1>1, <1>2 DEF RelayMap

LEMMA RebuildOK ==
    ASSUME HubInv, NEW c \in Client, Rebuild(home[c]),
           UNCHANGED <<scenario, joins, endpoints, consumer>>
    PROVE  HubInv'
  <1>1. home[c] \in Channel
    BY RelayAssumption DEF HubInv, home
  <1>2. ConsumerOK'
    BY DEF HubInv, ConsumerOK
  <1>3. RelayOK'
    BY RelayMapOK DEF Rebuild, HubInv, RelayOK
  <1>4. QED
    BY <1>1, <1>2, <1>3 DEF Rebuild, HubInv

-----------------------------------------------------------------------------
(* Requests and their answers.                                             *)

LEMMA NoRequestOK ==
    ASSUME NEW c
    PROVE  IsRequest(NoRequest) /\ WantOK(c, NoRequest)
  BY DEF IsRequest, NoRequest, WantOK

\* An answer to a join tells no SSRC.
LEMMA JoinTellsNothing ==
    ASSUME NEW offer, NEW c, NEW conference
    PROVE  SectionsOK(c, BuildAnswer(offer, c, conference).sections)
  BY DEF BuildAnswer, AnswerSection, SectionsOK

\* The SSRC for a mid is one that was drawn for its track.
LEMMA ToldNames ==
    ASSUME NEW c \in Client, NEW r, WantOK(c, r), Len(r.map) = Len(r.want), NEW mid
    PROVE  LET ssrcMap == [i \in DOMAIN r.want |-> [mid |-> r.want[i], ssrc |-> r.map[i]]]
           IN  Told(ssrcMap, mid) # NoSsrc =>
                   mid \in Track /\ mid[1] # c /\ Told(ssrcMap, mid) \in Named(c, mid)
  <1> DEFINE ssrcMap == [i \in DOMAIN r.want |-> [mid |-> r.want[i], ssrc |-> r.map[i]]]
             entries == {i \in DOMAIN ssrcMap : ssrcMap[i].mid = mid}
  <1> SUFFICES ASSUME Told(ssrcMap, mid) # NoSsrc
               PROVE  mid \in Track /\ mid[1] # c /\ Told(ssrcMap, mid) \in Named(c, mid)
    OBVIOUS
  <1>1. DOMAIN r.want = 1..Len(r.want) /\ Len(r.want) \in Nat
    BY DEF WantOK
  <1>2. entries # {} /\ Told(ssrcMap, mid) = ssrcMap[Max(entries)].ssrc
    BY DEF Told
  <1>3. entries \subseteq 1..Len(r.want)
    BY <1>1
  <1> DEFINE k == Max(entries)
  <1>4. k \in entries
    BY <1>1, <1>2, <1>3, MaxProps
  <1>5. k \in 1..Len(r.want) /\ r.want[k] = mid /\ ssrcMap[k].ssrc = r.map[k]
    BY <1>1, <1>4
  <1> HIDE DEF k, entries, ssrcMap
  <1>6. QED
    BY <1>2, <1>5 DEF WantOK, k

LEMMA RenegotiationTellsNamed ==
    ASSUME NEW c \in Client, NEW r, WantOK(c, r), Len(r.map) = Len(r.want), NEW offer
    PROVE  LET ssrcMap == [i \in DOMAIN r.want |-> [mid |-> r.want[i], ssrc |-> r.map[i]]]
           IN  SectionsOK(c, BuildRenegoAnswer(offer, c, ssrcMap).sections)
  <1> DEFINE ssrcMap == [i \in DOMAIN r.want |-> [mid |-> r.want[i], ssrc |-> r.map[i]]]
             sections == BuildAnswer(offer, c, TRUE).sections
             Tell(section) == IF section.mid = NoMid THEN section
                              ELSE [section EXCEPT !.ssrc = Told(ssrcMap, section.mid)]
  <1>1. BuildRenegoAnswer(offer, c, ssrcMap).sections = [i \in DOMAIN sections |-> Tell(sections[i])]
    BY DEF BuildRenegoAnswer, BuildAnswer
  <1>2. \A mid : Told(ssrcMap, mid) # NoSsrc =>
                   mid \in Track /\ mid[1] # c /\ Told(ssrcMap, mid) \in Named(c, mid)
    BY ToldNames
  <1> HIDE DEF ssrcMap
  <1>3. ASSUME NEW i \in DOMAIN sections, Tell(sections[i]).ssrc # NoSsrc
        PROVE  /\ Tell(sections[i]).mid \in Track /\ Tell(sections[i]).mid[1] # c
               /\ Tell(sections[i]).ssrc \in Named(c, Tell(sections[i]).mid)
    <2>1. /\ sections[i].ssrc = NoSsrc
          /\ [sections[i] EXCEPT !.ssrc = Told(ssrcMap, sections[i].mid)].ssrc
                = Told(ssrcMap, sections[i].mid)
          /\ [sections[i] EXCEPT !.ssrc = Told(ssrcMap, sections[i].mid)].mid = sections[i].mid
      BY DEF BuildAnswer, AnswerSection
    <2> HIDE DEF sections
    <2>2. /\ Tell(sections[i]).ssrc = Told(ssrcMap, sections[i].mid)
          /\ Tell(sections[i]).mid = sections[i].mid
      BY <1>3, <2>1
    <2>3. QED
      BY <1>2, <1>3, <2>2
  <1> HIDE DEF sections, Tell
  <1>4. SectionsOK(c, BuildRenegoAnswer(offer, c, ssrcMap).sections)
    BY <1>1, <1>3 DEF SectionsOK
  <1>5. QED
    BY <1>4 DEF ssrcMap

\* A request that is answered is otherwise the same.
Answered(q, offer, answer) == [q EXCEPT !.offer = offer, !.answer = answer]

LEMMA AnsweredRequest ==
    ASSUME NEW q, IsRequest(q), NEW offer, NEW answer, NEW c, WantOK(c, q)
    PROVE  /\ IsRequest(Answered(q, offer, answer)) /\ WantOK(c, Answered(q, offer, answer))
           /\ Answered(q, offer, answer).answer = answer
  <1>1. PICK r : r = [q EXCEPT !.offer = offer, !.answer = answer]
    OBVIOUS
  <1>2. ASSUME NEW w, NEW m, NEW l, NEW o, NEW a,
               q = [want |-> w, map |-> m, lost |-> l, offer |-> o, answer |-> a]
        PROVE  r = [want |-> w, map |-> m, lost |-> l, offer |-> offer, answer |-> answer]
    BY <1>1, <1>2
  <1>3. r = [want |-> q.want, map |-> q.map, lost |-> q.lost, offer |-> offer, answer |-> answer]
    BY <1>2 DEF IsRequest
  <1>4. /\ r.want = q.want /\ r.map = q.map /\ r.lost = q.lost
        /\ r.offer = offer /\ r.answer = answer
    BY <1>3
  <1>5. IsRequest(r)
    BY <1>3, <1>4 DEF IsRequest
  <1>6. WantOK(c, r)
    BY <1>4 DEF WantOK
  <1>7. r = Answered(q, offer, answer)
    BY <1>1 DEF Answered
  <1>8. QED
    BY <1>4, <1>5, <1>6, <1>7

\* A request for some tracks has no SSRCs yet.
LEMMA NewRequest ==
    ASSUME NEW c, NEW want \in Seq(Track), \A i \in 1..Len(want) : want[i][1] # c,
           NEW r, r = [NoRequest EXCEPT !.want = want]
    PROVE  IsRequest(r) /\ WantOK(c, r)
  <1>1. r = [want |-> want, map |-> << >>, lost |-> {}, offer |-> << >>, answer |-> << >>]
    BY DEF NoRequest
  <1>2. r.want = want /\ r.map = << >>
    BY <1>1
  <1>3. IsRequest(r)
    BY <1>1 DEF IsRequest
  <1>4. Len(r.map) = 0 /\ Len(want) \in Nat /\ r.map \in Seq(Ssrc)
    <2>1. Len(<< >>) = 0 /\ << >> \in Seq(Ssrc)
      OBVIOUS
    <2>2. Len(want) \in Nat
      OBVIOUS
    <2>3. QED
      BY ONLY <1>2, <2>1, <2>2
  <1>5. WantOK(c, r)
    BY <1>2, <1>4 DEF WantOK
  <1>6. QED
    BY <1>3, <1>5

\* Most actions work on one client's request.
LEMMA OneRequest ==
    ASSUME RequestsOK, task \in [Client -> TaskState], NEW c \in Client,
           NEW r, IsRequest(r), WantOK(c, r), request' = [request EXCEPT ![c] = r],
           NEW s \in TaskState, task' = [task EXCEPT ![c] = s],
           s = "answered" => SectionsOK(c, r.answer.sections)
    PROVE  RequestsOK' /\ task' \in [Client -> TaskState]
  <1>1. task' \in [Client -> TaskState]
    OBVIOUS
  <1>2. /\ DOMAIN request = Client
        /\ request' = [d \in Client |-> IF d = c THEN r ELSE request[d]]
    BY DEF RequestsOK
  <1>3. \A d \in Client : task'[d] = IF d = c THEN s ELSE task[d]
    OBVIOUS
  <1>4. QED
    BY <1>1, <1>2, <1>3 DEF RequestsOK

-----------------------------------------------------------------------------
(* Every step.                                                             *)

LEMMA InitInv == Init => Inv
  <1> SUFFICES ASSUME Init PROVE Inv
    OBVIOUS
  <1>1. HubInv
    BY RelayAssumption DEF Init, HubInv, ConsumerOK, RelayOK
  <1>2. ClientInv
    <2>1. task \in [Client -> TaskState] /\ \A c \in Client : task[c] # "answered"
      BY DEF Init, TaskState
    <2>2. RequestsOK
      BY <2>1, NoRequestOK DEF Init, RequestsOK
    <2>3. QED
      BY <2>1, <2>2 DEF Init, ClientInv, DueOK, ToldOK
  <1>3. UdpOK
    BY DEF Init, UdpOK, NoPacket
  <1>4. FloorInv
    BY RelayAssumption DEF Init, FloorInv
  <1>5. QED
    BY <1>1, <1>2, <1>3, <1>4 DEF Inv

LEMMA JoinInv ==
    ASSUME Inv, NEW c \in Client, NEW style, HandleChannelJoin(c, style)
    PROVE  Inv'
  <1> DEFINE offer == Offer(c, << >>, style)
             answer == BuildAnswer(offer, c, home[c] \in Conference)
             r == Answered(NoRequest, offer, answer)
  <1>1. /\ joins < scenario.joins /\ joins' = joins + 1 /\ endpoints' = endpoints \cup {c}
        /\ task' = [task EXCEPT ![c] = "answered"]
        /\ request' = [request EXCEPT ![c] = r]
        /\ due' = [d \in Client |-> CASE d = c -> Peers(c)
                                      [] d \in Peers(c) -> due[d] \cup {c}
                                      [] OTHER -> due[d]]
        /\ UNCHANGED <<scenario, hubVars, told, mediaVars>>
    BY DEF HandleChannelJoin, Answered
  <1>2. SectionsOK(c, answer.sections)
    BY JoinTellsNothing
  <1> HIDE DEF answer, offer
  <1>3. IsRequest(r) /\ WantOK(c, r) /\ r.answer = answer
    BY NoRequestOK, AnsweredRequest
  <1>4. RequestsOK' /\ task' \in [Client -> TaskState]
    <2> HIDE DEF r
    <2>1. QED
      BY <1>1, <1>2, <1>3, OneRequest DEF Inv, ClientInv, TaskState
  <1>5. Peers(c) \subseteq Client \ {c}
    BY DEF Peers, InChannel, Inv, HubInv
  <1>6. DueOK'
    BY <1>1, <1>5 DEF DueOK, Inv, ClientInv
  <1>7. HubInv'
    <2>1. scenario.joins \in Nat
      BY RelayAssumption DEF Inv, HubInv
    <2>2. ConsumerOK' /\ RelayOK'
      BY <1>1 DEF Inv, HubInv, hubVars, ConsumerOK, RelayOK
    <2>3. QED
      BY <1>1, <2>1, <2>2 DEF Inv, HubInv, hubVars
  <1>8. ToldOK'
    BY <1>1 DEF Inv, ClientInv, ToldOK
  <1>9. QED
    BY <1>1, <1>4, <1>6, <1>7, <1>8, MediaStays DEF Inv, ClientInv

\* Of its own tracks a client wants none.
LEMMA SendRenegotiateInv ==
    ASSUME Inv, NEW c \in Client, SendRenegotiate(c)
    PROVE  Inv'
  <1> DEFINE wanted == {t \in Track : t[1] \in Known(c)}
             want == SetToSeq(wanted)
             r == [NoRequest EXCEPT !.want = want]
  <1>1. /\ task' = [task EXCEPT ![c] = "allocate"]
        /\ request' = [request EXCEPT ![c] = r]
        /\ due' = [due EXCEPT ![c] = {}]
        /\ UNCHANGED <<scenario, joins, endpoints, hubVars, told, mediaVars>>
    BY DEF SendRenegotiate
  <1>2. c \notin Known(c)
    BY DEF Known, TracksOf, Inv, ClientInv, DueOK, ToldOK
  <1>3. want \in Seq(wanted)
    BY TracksAreFinite, FS_Subset, SetToSeqTyped
  <1>4. want \in Seq(Track) /\ \A i \in 1..Len(want) : want[i][1] # c
    <2>1. \A i \in 1..Len(want) : want[i] \in wanted
      BY <1>3
    <2> HIDE DEF want
    <2>2. QED
      BY <1>2, <1>3, <2>1
  <1> HIDE DEF want
  <1>5. IsRequest(r) /\ WantOK(c, r)
    <2>1. r = [NoRequest EXCEPT !.want = want]
      OBVIOUS
    <2> HIDE DEF r
    <2>2. QED
      BY <1>4, <2>1, NewRequest
  <1>6. RequestsOK' /\ task' \in [Client -> TaskState]
    <2> HIDE DEF r
    <2>1. QED
      BY <1>1, <1>5, OneRequest DEF Inv, ClientInv, TaskState
  <1>7. DueOK' /\ ToldOK'
    BY <1>1 DEF Inv, ClientInv, DueOK, ToldOK
  <1>8. QED
    BY <1>1, <1>6, <1>7, HubStays, MediaStays DEF Inv, ClientInv

LEMMA AllocateInv ==
    ASSUME Inv, NEW c \in Client, Allocate(c)
    PROVE  Inv'
  <1> DEFINE q == request[c]
             t == q.want[Len(q.map) + 1]
             ssrc == GetOrCreate(c, t)
             r == [q EXCEPT !.map = Append(@, ssrc)]
  <1>1. /\ task[c] = "allocate"
        /\ Len(q.map) < Len(q.want)
        /\ consumer[<<c, t>>] = NoSsrc => \E n \in Serial : <<c, t, n>> \notin InUse
        /\ consumer' = [consumer EXCEPT ![<<c, t>>] = ssrc]
        /\ request' = [request EXCEPT ![c].map = Append(@, ssrc)]
        /\ UNCHANGED <<scenario, joins, endpoints, relay, rebuilt, task, due, told, mediaVars>>
    BY DEF Allocate
  <1>2. IsRequest(q) /\ WantOK(c, q) /\ DOMAIN request = Client
    BY DEF Inv, ClientInv, RequestsOK
  <1>3. t \in Track /\ t[1] # c
    BY <1>1, <1>2 DEF WantOK
  <1>4. request' = [request EXCEPT ![c] = r]
    BY <1>1
  <1> HIDE DEF t, q
  <1>5. ssrc \in Named(c, t) /\ ssrc \in Ssrc
    <2>1. ssrc \in Named(c, t)
      BY <1>1, <1>3, FreshIsNamed DEF GetOrCreate, Inv, HubInv, ConsumerOK
    <2>2. QED
      BY <1>3, <2>1, NamedIsSsrc
  <1> HIDE DEF ssrc
  <1>6. IsRequest(r) /\ WantOK(c, r)
    <2>1. /\ r.want = q.want /\ r.map = Append(q.map, ssrc) /\ r.lost = q.lost
          /\ r.offer = q.offer /\ r.answer = q.answer
          /\ r = [want |-> q.want, map |-> Append(q.map, ssrc), lost |-> q.lost,
                   offer |-> q.offer, answer |-> q.answer]
      BY <1>2 DEF IsRequest
    <2>2. IsRequest(r)
      BY <2>1 DEF IsRequest
    <2>3. /\ q.map \in Seq(Ssrc) /\ q.want \in Seq(Track) /\ Len(q.map) \in Nat
          /\ Len(Append(q.map, ssrc)) = Len(q.map) + 1
          /\ Append(q.map, ssrc) \in Seq(Ssrc)
          /\ Append(q.map, ssrc)[Len(q.map) + 1] = ssrc
          /\ \A i \in 1..Len(q.map) : Append(q.map, ssrc)[i] = q.map[i]
      BY <1>2, <1>5 DEF WantOK
    <2>4. t = q.want[Len(q.map) + 1]
      BY DEF t
    <2> HIDE DEF r
    <2>5. \A i \in 1..Len(r.map) : r.map[i] \in Named(c, r.want[i])
      BY <1>2, <1>5, <2>1, <2>3, <2>4 DEF WantOK
    <2>6. Len(r.map) <= Len(r.want)
      BY <1>1, <2>1, <2>3
    <2>7. QED
      BY <1>2, <2>1, <2>2, <2>3, <2>5, <2>6 DEF WantOK
  <1>7. RequestsOK'
    <2>1. task' = [task EXCEPT ![c] = "allocate"]
      BY <1>1 DEF Inv, ClientInv
    <2> HIDE DEF r
    <2>2. QED
      BY <1>4, <1>6, <2>1, OneRequest DEF Inv, ClientInv, TaskState
  <1>8. ConsumerOK'
    BY <1>1, <1>3, <1>5 DEF Inv, HubInv, ConsumerOK
  <1>9. RelayOK' /\ DueOK' /\ ToldOK'
    BY <1>1 DEF Inv, HubInv, ClientInv, RelayOK, DueOK, ToldOK
  <1>10. QED
    BY <1>1, <1>7, <1>8, <1>9, MediaStays DEF Inv, HubInv, ClientInv

LEMMA AnswerRenegotiateInv ==
    ASSUME Inv, NEW c \in Client, NEW style, AnswerRenegotiate(c, style)
    PROVE  Inv'
  <1> DEFINE q == request[c]
             offer == Offer(c, q.want, style)
             ssrcMap == [i \in DOMAIN q.want |-> [mid |-> q.want[i], ssrc |-> q.map[i]]]
             answer == BuildRenegoAnswer(offer, c, ssrcMap)
             r == Answered(q, offer, answer)
  <1>1. /\ Len(q.map) = Len(q.want)
        /\ task' = [task EXCEPT ![c] = "answered"]
        /\ request' = [request EXCEPT ![c].offer = offer, ![c].answer = answer]
        /\ Rebuild(home[c])
        /\ UNCHANGED <<scenario, joins, endpoints, consumer, due, told, mediaVars>>
    BY DEF AnswerRenegotiate
  <1>2. IsRequest(q) /\ WantOK(c, q) /\ DOMAIN request = Client
    BY DEF Inv, ClientInv, RequestsOK
  <1>3. SectionsOK(c, answer.sections)
    <2> HIDE DEF offer, q
    <2>1. QED
      BY <1>1, <1>2, RenegotiationTellsNamed
  <1> HIDE DEF answer, ssrcMap, offer
  <1>4. request' = [request EXCEPT ![c] = r]
    BY <1>1, <1>2 DEF Answered
  <1> HIDE DEF q
  <1>5. IsRequest(r) /\ WantOK(c, r) /\ r.answer = answer
    BY <1>2, AnsweredRequest
  <1>6. RequestsOK' /\ task' \in [Client -> TaskState]
    <2> HIDE DEF r
    <2>1. QED
      BY <1>1, <1>3, <1>4, <1>5, OneRequest DEF Inv, ClientInv, TaskState
  <1>7. DueOK' /\ ToldOK'
    BY <1>1 DEF Inv, ClientInv, DueOK, ToldOK
  <1>8. QED
    BY <1>1, <1>6, <1>7, RebuildOK, MediaStays DEF Inv, ClientInv

LEMMA ReceiveInv ==
    ASSUME Inv, NEW c \in Client, Receive(c)
    PROVE  Inv'
  <1> DEFINE sections == request[c].answer.sections
             New(t) == {i \in DOMAIN sections :
                          /\ sections[i].mid = t /\ sections[i].dir = "sendonly"
                          /\ sections[i].ssrc # NoSsrc /\ t[1] \notin request[c].lost}
             now == [t \in Track |-> IF New(t) = {} THEN told[c][t]
                                     ELSE sections[CHOOSE i \in New(t) : TRUE].ssrc]
  <1>1. /\ task[c] = "answered"
        /\ task' = [task EXCEPT ![c] = "idle"]
        /\ told' = [told EXCEPT ![c] = now]
        /\ request' = [request EXCEPT ![c] = NoRequest]
        /\ UNCHANGED <<scenario, joins, endpoints, hubVars, due, mediaVars>>
    BY DEF Receive
  <1>2. SectionsOK(c, sections)
    BY <1>1 DEF Inv, ClientInv, RequestsOK
  <1> HIDE DEF sections
  <1>3. ASSUME NEW t \in Track
        PROVE  /\ now[t] \in Ssrc \cup {NoSsrc}
               /\ now[t] # NoSsrc => now[t] \in Named(c, t) /\ t[1] # c
    <2>1. CASE New(t) = {}
      BY <2>1 DEF Inv, ClientInv, ToldOK
    <2>2. CASE New(t) # {}
      <3>1. PICK i \in New(t) : i = CHOOSE j \in New(t) : TRUE
        BY <2>2
      <3>2. now[t] = sections[i].ssrc
        BY <2>2, <3>1
      <3>3. sections[i].ssrc \in Named(c, t) /\ t[1] # c
        BY <1>2 DEF SectionsOK
      <3>4. QED
        BY <3>2, <3>3, NamedIsSsrc
    <2>3. QED
      BY <2>1, <2>2
  <1>4. ToldOK'
    <2>1. now \in [Track -> Ssrc \cup {NoSsrc}]
      BY <1>3
    <2> HIDE DEF now
    <2>2. QED
      BY <1>1, <1>3, <2>1 DEF Inv, ClientInv, ToldOK
  <1>5. RequestsOK' /\ task' \in [Client -> TaskState]
    BY <1>1, NoRequestOK, OneRequest DEF Inv, ClientInv, TaskState
  <1>6. DueOK'
    BY <1>1 DEF Inv, ClientInv, DueOK
  <1>7. QED
    BY <1>1, <1>4, <1>5, <1>6, HubStays, MediaStays DEF Inv, ClientInv

LEMMA BeginLeaveInv ==
    ASSUME Inv, NEW c \in Client, BeginLeave(c)
    PROVE  Inv'
  <1>1. /\ task' = [task EXCEPT ![c] = "leave"]
        /\ told' = [d \in Client |-> [t \in Track |->
              IF d = c \/ (d \in Peers(c) /\ t[1] = c) THEN NoSsrc ELSE told[d][t]]]
        /\ due' = [d \in Client |-> CASE d = c -> {}
                                      [] d \in Peers(c) -> due[d] \ {c}
                                      [] OTHER -> due[d]]
        /\ request' = [d \in Client |->
              CASE d = c -> NoRequest
                [] d \in Peers(c) /\ task[d] \in {"allocate", "answered"} ->
                      [request[d] EXCEPT !.lost = @ \cup {c}]
                [] OTHER -> request[d]]
        /\ UNCHANGED <<scenario, joins, endpoints, hubVars, mediaVars>>
    BY DEF BeginLeave
  <1>2. task' \in [Client -> TaskState]
    BY <1>1 DEF Inv, ClientInv, TaskState
  <1>3. ToldOK' /\ DueOK'
    BY <1>1 DEF Inv, ClientInv, ToldOK, DueOK
  <1>4. ASSUME NEW d \in Client
        PROVE  /\ IsRequest(request'[d]) /\ WantOK(d, request'[d])
               /\ task'[d] = "answered" => SectionsOK(d, request'[d].answer.sections)
    <2>1. CASE d = c
      <3>1. request'[d] = NoRequest
        BY <1>1, <2>1 DEF Peers
      <3>2. task'[d] = "leave"
        BY <1>1, <2>1 DEF Inv, ClientInv
      <3>3. QED
        BY <3>1, <3>2, NoRequestOK
    <2>2. CASE d # c
      <3> DEFINE q == request[d]
                 r == [q EXCEPT !.lost = @ \cup {c}]
      <3>1. /\ IsRequest(q) /\ WantOK(d, q)
            /\ task[d] = "answered" => SectionsOK(d, q.answer.sections)
        BY DEF Inv, ClientInv, RequestsOK
      <3>2. request'[d] = q \/ request'[d] = r
        BY <1>1, <2>2
      <3>3. task'[d] = task[d]
        BY <1>1, <2>2 DEF Inv, ClientInv
      <3> HIDE DEF q
      <3>4. r = [want |-> q.want, map |-> q.map, lost |-> q.lost \cup {c},
                 offer |-> q.offer, answer |-> q.answer]
        BY <3>1 DEF IsRequest
      <3>5. IsRequest(r) /\ WantOK(d, r) /\ r.answer = q.answer
        BY <3>1, <3>4 DEF IsRequest, WantOK
      <3> HIDE DEF r
      <3>6. QED
        BY <3>1, <3>2, <3>3, <3>5
    <2>3. QED
      BY <2>1, <2>2
  <1>5. RequestsOK'
    <2>1. request' = [d \in Client |-> request'[d]]
      BY <1>1
    <2>2. QED
      BY <1>4, <2>1 DEF RequestsOK
  <1>6. QED
    BY <1>1, <1>2, <1>3, <1>5, HubStays, MediaStays DEF Inv, ClientInv

\* The three steps of a leave that no client notices.
LEMMA LeaveInv ==
    ASSUME Inv, NEW c \in Client, RemoveEndpoint(c) \/ RemoveConsumers(c) \/ EndLeave(c)
    PROVE  Inv'
  <1>1. /\ \E s \in TaskState : s # "answered" /\ task' = [task EXCEPT ![c] = s]
        /\ UNCHANGED <<scenario, joins, request, due, told, mediaVars>>
    BY DEF RemoveEndpoint, RemoveConsumers, EndLeave, TaskState
  <1>2. ClientInv'
    <2>1. RequestsOK' /\ task' \in [Client -> TaskState]
      BY <1>1 DEF Inv, ClientInv, RequestsOK
    <2>2. QED
      BY <1>1, <2>1 DEF Inv, ClientInv, DueOK, ToldOK
  <1>3. HubInv'
    <2>1. CASE RemoveEndpoint(c)
      BY <2>1 DEF RemoveEndpoint, Inv, HubInv, hubVars, ConsumerOK, RelayOK
    <2>2. CASE RemoveConsumers(c)
      <3>1. ConsumerOK'
        BY <2>2 DEF RemoveConsumers, Inv, HubInv, ConsumerOK
      <3>2. QED
        BY <2>2, <3>1 DEF RemoveConsumers, Inv, HubInv, RelayOK
    <2>3. CASE EndLeave(c)
      BY <2>3, RebuildOK DEF EndLeave, Inv
    <2>4. QED
      BY <2>1, <2>2, <2>3
  <1>4. QED
    BY <1>1, <1>2, <1>3, MediaStays DEF Inv

LEMMA RelayPacketInv ==
    ASSUME Inv, NEW t \in scenario.heard, RelayPacket(t)
    PROVE  Inv' /\ t \in Track
  <1>1. t \in Track /\ t[1] \in Client
    BY RelayAssumption, TrackProps DEF Inv, HubInv
  <1> DEFINE to == IF home[t[1]] \in Conference /\ relay[t] # {}
                   THEN relay[t] ELSE Broadcast(t[1])
  <1>2. /\ udp' = [track |-> t, to |-> to]
        /\ UNCHANGED <<scenario, joins, endpoints, hubVars, clientVars, floor, holds, heard>>
    BY DEF RelayPacket
  <1>3. ASSUME NEW pair \in to
        PROVE  /\ pair \in Client \X (Ssrc \cup {Raw})
               /\ pair[1] # t[1]
               /\ pair[2] # Raw => pair[2] \in Named(pair[1], t)
    <2>1. CASE pair \in relay[t]
      BY <1>1, <2>1 DEF Inv, HubInv, RelayOK, Receivers
    <2>2. CASE pair \in Broadcast(t[1])
      BY <1>1, <2>2 DEF Broadcast, Peers, InChannel, Inv, HubInv
    <2>3. QED
      BY <1>3, <2>1, <2>2
  <1> HIDE DEF to
  <1>4. UdpOK'
    BY <1>1, <1>2, <1>3 DEF UdpOK
  <1>5. FloorInv'
    BY <1>2 DEF Inv, FloorInv
  <1>6. QED
    BY <1>1, <1>2, <1>4, <1>5, HubStays, ClientsStay DEF Inv

LEMMA SendPacketInv ==
    ASSUME Inv, NEW pair \in udp.to, SendPacket(pair)
    PROVE  Inv'
  <1>1. /\ udp' = IF udp.to = {pair} THEN NoPacket ELSE [udp EXCEPT !.to = @ \ {pair}]
        /\ \/ heard' = heard
           \/ heard' = [heard EXCEPT ![pair[1]] = Append(@, udp.track[1])]
        /\ UNCHANGED <<scenario, joins, endpoints, hubVars, clientVars, floor, holds>>
    BY DEF SendPacket
  <1>2. pair[1] \in Client /\ udp.track \in Track /\ udp.track[1] \in Client
    BY TrackProps DEF Inv, UdpOK
  <1>3. UdpOK'
    <2>1. CASE udp.to = {pair}
      BY <1>1, <2>1 DEF UdpOK, NoPacket
    <2>2. CASE udp.to # {pair}
      <3>1. udp' = [track |-> udp.track, to |-> udp.to \ {pair}]
        BY <1>1, <2>2 DEF Inv, UdpOK
      <3>2. QED
        BY <1>2, <3>1 DEF Inv, UdpOK
    <2>3. QED
      BY <2>1, <2>2
  <1>4. FloorInv'
    <2>1. \A h \in Seq(Client) : Append(h, udp.track[1]) \in Seq(Client)
      BY <1>2
    <2>2. QED
      BY <1>1, <1>2, <2>1 DEF Inv, FloorInv
  <1>5. QED
    BY <1>1, <1>3, <1>4, HubStays, ClientsStay DEF Inv

LEMMA ChangeFloorInv ==
    ASSUME Inv, NEW c \in Client \cup {NoClient}, ChangeFloor(c)
    PROVE  Inv'
  <1>1. /\ floor' = c
        /\ c # NoClient => Len(holds) < MaxHolds
        /\ holds' = IF c = NoClient THEN holds ELSE Append(holds, c)
        /\ UNCHANGED <<scenario, joins, endpoints, hubVars, clientVars, udp, heard>>
    BY DEF ChangeFloor
  <1>2. FloorInv'
    <2>1. CASE c = NoClient
      BY <1>1, <2>1 DEF Inv, FloorInv
    <2>2. CASE c # NoClient
      <3>1. c \in Client /\ holds \in Seq(Client)
        BY <2>2 DEF Inv, FloorInv
      <3>2. Append(holds, c) \in Seq(Client) /\ Len(Append(holds, c)) = Len(holds) + 1
        BY <3>1
      <3>3. QED
        BY <1>1, <2>2, <3>1, <3>2, RelayAssumption DEF Inv, FloorInv
    <2>3. QED
      BY <2>1, <2>2
  <1>3. UdpOK'
    BY <1>1 DEF Inv, UdpOK
  <1>4. QED
    BY <1>1, <1>2, <1>3, HubStays, ClientsStay DEF Inv

LEMMA NextInv == Inv /\ [Next]_vars => Inv'
  <1> SUFFICES ASSUME Inv, [Next]_vars PROVE Inv'
    OBVIOUS
  <1>1. CASE UNCHANGED vars
    BY <1>1, HubStays, ClientsStay, MediaStays DEF vars, Inv
  <1>2. QED
    BY <1>1, JoinInv, SendRenegotiateInv, AllocateInv, AnswerRenegotiateInv, ReceiveInv,
       BeginLeaveInv, LeaveInv, RelayPacketInv, SendPacketInv, ChangeFloorInv DEF Next

LEMMA AlwaysInv == Spec => []Inv
  BY InitInv, NextInv, PTL DEF Spec

-----------------------------------------------------------------------------

\* What the variables range over; above all, that a free SSRC is always found
\* and that what is sent goes to clients other than the sender.
THEOREM TypeCorrect == Spec => []TypeOK
  <1>1. Inv => TypeOK
    <2> SUFFICES ASSUME Inv PROVE TypeOK
      OBVIOUS
    <2>1. \A key \in DOMAIN consumer : consumer[key] \in Ssrc \cup {NoSsrc}
      BY DEF Inv, HubInv, ConsumerOK
    <2>2. \A t \in Track : relay[t] \subseteq Client \X Ssrc
      BY DEF Inv, HubInv, RelayOK
    <2>3. \A c \in Client : request[c].want \in Seq(Track) /\ request[c].map \in Seq(Ssrc)
      BY DEF Inv, ClientInv, RequestsOK, WantOK
    <2>4. \A c \in Client, t \in Track : told[c][t] \in Ssrc \cup {NoSsrc}
      BY DEF Inv, ClientInv, ToldOK
    <2>5. udp.to \subseteq (Client \ {udp.track[1]}) \X (Ssrc \cup {Raw})
      BY DEF Inv, UdpOK
    <2>6. QED
      BY <2>1, <2>2, <2>3, <2>4, <2>5 DEF TypeOK, Inv, HubInv, ClientInv, DueOK, UdpOK, FloorInv
  <1>2. QED
    BY <1>1, AlwaysInv, PTL

\* No packet reaches a client under an SSRC it was told is another track's,
\* however joins, re-negotiations, leaves and packets interleave.
THEOREM NothingIsMistaken == Spec => []NoCrossTalk
  <1>1. Inv => NoCrossTalk
    <2> SUFFICES ASSUME Inv, NEW pair \in udp.to, NEW u \in Track,
                        told[pair[1]][u] = pair[2], pair[2] # Raw
                 PROVE  u = udp.track
      BY DEF NoCrossTalk
    <2>1. pair[1] \in Client /\ pair[2] \in Named(pair[1], udp.track)
      BY DEF Inv, UdpOK
    <2>2. pair[2] \in Named(pair[1], u)
      BY <2>1 DEF Inv, ClientInv, ToldOK, NoSsrc, Raw
    <2>3. QED
      BY <2>1, <2>2, NamedApart
  <1>2. QED
    BY <1>1, AlwaysInv, PTL

-----------------------------------------------------------------------------
(* Whom a client hears, and in which order.                                *)

LEMMA NothingInTurns ==
    ASSUME NEW own \in Seq(Client), NEW hear, hear = << >>
    PROVE  InTurns(hear, own, 0)
  <1> DEFINE turn == [i \in 1..Len(hear) |-> i]
  <1>1. \A i \in 1..Len(hear) : FALSE
    OBVIOUS
  <1>2. turn \in [1..Len(hear) -> 1..Len(own)]
    BY <1>1
  <1> HIDE DEF turn
  <1>3. QED
    BY <1>1, <1>2 DEF InTurns

LEMMA LaterTurns ==
    ASSUME NEW own \in Seq(Client), NEW hear, NEW k \in Nat, NEW l \in Nat, k <= l,
           InTurns(hear, own, k)
    PROVE  InTurns(hear, own, l)
  <1>1. PICK turn \in [1..Len(hear) -> 1..Len(own)] :
           /\ \A i \in 1..Len(hear) : hear[i] = own[turn[i]] /\ turn[i] <= k
           /\ \A i, j \in 1..Len(hear) : i < j => turn[i] < turn[j]
    BY DEF InTurns
  <1>2. \A i \in 1..Len(hear) : turn[i] <= l
    BY <1>1
  <1>3. QED
    BY <1>1, <1>2 DEF InTurns

LEMMA OneMoreTurn ==
    ASSUME NEW own \in Seq(Client), NEW hear, NEW k \in Nat, NEW c \in Client,
           InTurns(hear, own, k)
    PROVE  InTurns(hear, Append(own, c), k)
  <1>1. PICK turn \in [1..Len(hear) -> 1..Len(own)] :
           /\ \A i \in 1..Len(hear) : hear[i] = own[turn[i]] /\ turn[i] <= k
           /\ \A i, j \in 1..Len(hear) : i < j => turn[i] < turn[j]
    BY DEF InTurns
  <1>2. /\ Len(Append(own, c)) = Len(own) + 1
        /\ \A i \in 1..Len(own) : Append(own, c)[i] = own[i]
    OBVIOUS
  <1>3. turn \in [1..Len(hear) -> 1..Len(Append(own, c))]
    BY <1>2
  <1>4. \A i \in 1..Len(hear) : hear[i] = Append(own, c)[turn[i]]
    BY <1>1, <1>2
  <1>5. QED
    BY <1>1, <1>3, <1>4 DEF InTurns

\* Who is heard last again is not heard anew, so the turns never repeat.
LEMMA OneMoreHeard ==
    ASSUME NEW own \in Seq(Client), NEW hear \in Seq(Client), NEW k \in 1..Len(own),
           InTurns(hear, own, k), hear = << >> \/ Last(hear) # own[k]
    PROVE  InTurns(Append(hear, own[k]), own, k)
  <1> DEFINE n == Len(hear)
             more == Append(hear, own[k])
  <1>1. PICK turn \in [1..n -> 1..Len(own)] :
           /\ \A i \in 1..n : hear[i] = own[turn[i]] /\ turn[i] <= k
           /\ \A i, j \in 1..n : i < j => turn[i] < turn[j]
    BY DEF InTurns
  <1>2. /\ n \in Nat /\ Len(more) = n + 1
        /\ more[n + 1] = own[k] /\ \A i \in 1..n : more[i] = hear[i]
    BY DEF Last
  <1>3. \A i \in 1..n : turn[i] < k
    <2> SUFFICES ASSUME NEW i \in 1..n PROVE turn[i] < k
      OBVIOUS
    <2>1. turn[n] <= k /\ turn[n] \in Nat /\ turn[i] \in Nat /\ turn[n] # k
      <3>1. Last(hear) = hear[n] /\ hear # << >>
        BY DEF Last
      <3>2. n \in 1..n
        BY <1>2
      <3>3. /\ turn[n] \in 1..Len(own) /\ turn[i] \in 1..Len(own)
            /\ hear[n] = own[turn[n]] /\ turn[n] <= k
        BY <1>1, <3>2
      <3>4. turn[n] # k
        BY <3>1, <3>3
      <3>5. QED
        BY <3>3, <3>4
    <2>2. i < n => turn[i] < turn[n]
      BY <1>1, <1>2
    <2>3. QED
      BY <1>2, <2>1, <2>2
  <1> DEFINE turns == [i \in 1..n + 1 |-> IF i = n + 1 THEN k ELSE turn[i]]
  <1>4. turns \in [1..Len(more) -> 1..Len(own)]
    BY <1>2
  <1>5. \A i \in 1..n + 1 : i \in 1..n \/ i = n + 1
    BY <1>2
  <1>6. \A i \in 1..Len(more) : more[i] = own[turns[i]] /\ turns[i] <= k
    BY <1>1, <1>2, <1>5
  <1>7. \A i, j \in 1..Len(more) : i < j => turns[i] < turns[j]
    BY <1>1, <1>2, <1>3, <1>5
  <1> HIDE DEF turns, more
  <1>8. InTurns(more, own, k)
    BY <1>4, <1>6, <1>7 DEF InTurns
  <1>9. QED
    BY <1>8 DEF more

LEMMA InitTurns == Init => TurnInv
  <1> SUFFICES ASSUME Init PROVE TurnInv
    OBVIOUS
  <1>1. holds \in Seq(Client) /\ Len(holds) = 0 /\ \A c \in Client : heard[c] = << >>
    BY DEF Init
  <1>2. \A c \in Client : InTurns(heard[c], holds, 0)
    BY <1>1, NothingInTurns
  <1>3. floor = NoClient /\ udp.to = {} /\ 0 \in 0..Len(holds)
    BY <1>1 DEF Init, NoPacket
  <1>4. QED
    BY <1>2, <1>3 DEF TurnInv

LEMMA RelayPacketTurns ==
    ASSUME Inv, TurnInv, NEW t \in scenario.heard, RelayPacket(t)
    PROVE  TurnInv'
  <1>1. /\ home[t[1]] \in Conference \/ floor = t[1]
        /\ udp'.track = t
        /\ UNCHANGED <<scenario, floor, holds, heard>>
    BY DEF RelayPacket, MayRelay
  <1>2. t[1] \in Client /\ holds \in Seq(Client) /\ Len(holds) \in Nat
    BY RelayPacketInv, TrackProps DEF Inv, FloorInv
  <1>3. home[t[1]] \notin Conference => Len(holds) > 0 /\ holds[Len(holds)] = t[1]
    BY <1>1, <1>2, RelayAssumption DEF TurnInv
  <1>4. \A c \in Client : InTurns(heard[c], holds, Len(holds))
    BY <1>2, LaterTurns DEF TurnInv
  <1>5. \A c \in Client : InTurns(heard[c], holds, Len(holds))'
    BY <1>1, <1>4
  <1>6. QED
    BY <1>1, <1>2, <1>3, <1>5 DEF TurnInv, home

LEMMA SendPacketTurns ==
    ASSUME Inv, TurnInv, NEW pair \in udp.to, SendPacket(pair)
    PROVE  TurnInv'
  <1> DEFINE sender == udp.track[1]
             d == pair[1]
  <1>1. /\ udp' = IF udp.to = {pair} THEN NoPacket ELSE [udp EXCEPT !.to = @ \ {pair}]
        /\ \/ heard' = heard
           \/ /\ home[sender] \notin Conference
              /\ heard[d] = << >> \/ Last(heard[d]) # sender
              /\ heard' = [heard EXCEPT ![d] = Append(@, sender)]
        /\ UNCHANGED <<scenario, floor, holds>>
    BY DEF SendPacket
  <1>2. /\ holds \in Seq(Client) /\ heard \in [Client -> Seq(Client)]
        /\ udp = [track |-> udp.track, to |-> udp.to]
    BY DEF Inv, FloorInv, UdpOK
  <1>3. PICK k \in 0..Len(holds) :
           /\ home[sender] \notin Conference => k > 0 /\ holds[k] = sender
           /\ \A c \in Client : InTurns(heard[c], holds, k)
    BY DEF TurnInv
  <1>4. udp'.to # {} => udp'.track = udp.track
    BY <1>1, <1>2 DEF NoPacket
  <1>5. ASSUME NEW c \in Client
        PROVE  InTurns(heard'[c], holds, k)
    <2>1. CASE heard'[c] = heard[c]
      BY <1>3, <2>1
    <2>2. CASE heard'[c] # heard[c]
      <3>1. /\ heard'[c] = Append(heard[c], holds[k])
            /\ heard[c] = << >> \/ Last(heard[c]) # holds[k]
            /\ k \in 1..Len(holds)
        BY <1>1, <1>2, <1>3, <2>2
      <3>2. QED
        BY <1>2, <1>3, <3>1, OneMoreHeard
    <2>3. QED
      BY <2>1, <2>2
  <1>6. QED
    BY <1>1, <1>3, <1>4, <1>5 DEF TurnInv, home

LEMMA ChangeFloorTurns ==
    ASSUME Inv, TurnInv, NEW c \in Client \cup {NoClient}, ChangeFloor(c)
    PROVE  TurnInv'
  <1>1. /\ floor' = c
        /\ holds' = IF c = NoClient THEN holds ELSE Append(holds, c)
        /\ UNCHANGED <<scenario, udp, heard>>
    BY DEF ChangeFloor
  <1>2. holds \in Seq(Client) /\ Len(holds) \in Nat
    BY DEF Inv, FloorInv
  <1>3. CASE c = NoClient
    BY <1>1, <1>3 DEF TurnInv, home
  <1>4. CASE c # NoClient
    <2>1. c \in Client /\ holds' = Append(holds, c)
      BY <1>1, <1>4
    <2>2. /\ Len(holds') = Len(holds) + 1 /\ holds'[Len(holds')] = c
          /\ \A i \in 1..Len(holds) : holds'[i] = holds[i]
      BY <1>2, <2>1
    <2>3. PICK k \in 0..Len(holds) :
             /\ udp.to # {} /\ home[udp.track[1]] \notin Conference
                    => k > 0 /\ holds[k] = udp.track[1]
             /\ \A d \in Client : InTurns(heard[d], holds, k)
      BY DEF TurnInv
    <2>4. \A d \in Client : InTurns(heard'[d], holds', k)
      BY <1>1, <1>2, <2>1, <2>3, OneMoreTurn
    <2>5. /\ k \in 0..Len(holds')
          /\ udp'.to # {} /\ home'[udp'.track[1]] \notin Conference
                    => k > 0 /\ holds'[k] = udp'.track[1]
      BY <1>1, <1>2, <2>2, <2>3 DEF home
    <2>6. QED
      BY <1>1, <1>2, <2>2, <2>4, <2>5 DEF TurnInv
  <1>5. QED
    BY <1>3, <1>4

LEMMA NextTurns == Inv /\ TurnInv /\ [Next]_vars => TurnInv'
  <1> SUFFICES ASSUME Inv, TurnInv, [Next]_vars PROVE TurnInv'
    OBVIOUS
  <1>1. CASE UNCHANGED <<scenario, mediaVars>>
    BY <1>1 DEF TurnInv, mediaVars, home
  <1>2. ASSUME NEW c \in Client,
               \/ \E style \in Style[c] : HandleChannelJoin(c, style) \/ AnswerRenegotiate(c, style)
               \/ SendRenegotiate(c) \/ Allocate(c) \/ Receive(c) \/ BeginLeave(c)
               \/ RemoveEndpoint(c) \/ RemoveConsumers(c) \/ EndLeave(c)
        PROVE  UNCHANGED <<scenario, mediaVars>>
    BY <1>2 DEF HandleChannelJoin, AnswerRenegotiate, SendRenegotiate, Allocate, Receive,
                BeginLeave, RemoveEndpoint, RemoveConsumers, EndLeave
  <1>3. CASE UNCHANGED vars
    BY <1>1, <1>3 DEF vars
  <1>4. QED
    BY <1>1, <1>2, <1>3, RelayPacketTurns, SendPacketTurns, ChangeFloorTurns DEF Next

\* In a ptt channel nobody hears a client that did not hold the floor, and
\* nobody hears two holders in another order than they held it, though a
\* packet may still be on its way to the receivers when the floor changes.
THEOREM HeardInOrder == Spec => []HeardInTurns
  <1>1. Inv /\ TurnInv => HeardInTurns
    <2> SUFFICES ASSUME Inv, TurnInv, NEW c \in Client
                 PROVE  \E turn \in [DOMAIN heard[c] -> DOMAIN holds] :
                            \A i, j \in DOMAIN heard[c] :
                                heard[c][i] = holds[turn[i]] /\ (i < j => turn[i] < turn[j])
      BY DEF HeardInTurns
    <2>1. DOMAIN heard[c] = 1..Len(heard[c]) /\ DOMAIN holds = 1..Len(holds)
      BY DEF Inv, FloorInv
    <2>2. PICK k \in 0..Len(holds) : InTurns(heard[c], holds, k)
      BY DEF TurnInv
    <2>3. QED
      BY <2>1, <2>2 DEF InTurns
  <1>2. QED
    BY <1>1, InitTurns, NextTurns, AlwaysInv, PTL DEF Spec

-----------------------------------------------------------------------------
(* Induction over numbers, and sequences whatever their elements.          *)

\* What holds of m, and of k + 1 whenever it holds of k, holds up to n.
LEMMA UpTo ==
    ASSUME NEW m \in Nat, NEW n \in Nat, NEW S, m \in S,
           \A k \in m..n : k < n /\ k \in S => k + 1 \in S
    PROVE  \A k \in m..n : k \in S
  <1> DEFINE rest == {k \in m..n : k \notin S}
  <1> SUFFICES ASSUME rest # {} PROVE FALSE
    OBVIOUS
  <1>1. PICK k \in rest : \A j \in rest : ~(j < k)
    <2>1. rest \subseteq Nat
      OBVIOUS
    <2> HIDE DEF rest
    <2>2. QED
      BY <2>1, Least
  <1>2. k \in m..n /\ k \notin S /\ k # m
    OBVIOUS
  <1>3. k - 1 \in m..n /\ k - 1 < n /\ k - 1 < k
    BY <1>2
  <1>4. k - 1 \in S
    BY <1>1, <1>3
  <1>5. QED
    BY <1>2, <1>3, <1>4

IsSeq(s) == \E T : s \in Seq(T)

LEMMA SeqProps ==
    ASSUME NEW s, IsSeq(s)
    PROVE  Len(s) \in Nat /\ DOMAIN s = 1..Len(s) /\ s = [i \in 1..Len(s) |-> s[i]]
  BY DEF IsSeq

LEMMA FcnIsSeq ==
    ASSUME NEW s, NEW n \in Nat, s = [i \in 1..n |-> s[i]]
    PROVE  IsSeq(s) /\ Len(s) = n
  <1> DEFINE T == {s[i] : i \in 1..n}
  <1>1. s \in [1..n -> T]
    OBVIOUS
  <1> HIDE DEF T
  <1>2. s \in Seq(T) /\ Len(s) = n
    BY <1>1
  <1>3. QED
    BY <1>2 DEF IsSeq

LEMMA AppendSeq ==
    ASSUME NEW s, IsSeq(s), NEW e
    PROVE  /\ IsSeq(Append(s, e)) /\ Len(Append(s, e)) = Len(s) + 1
           /\ Append(s, e)[Len(s) + 1] = e
           /\ \A i \in 1..Len(s) : Append(s, e)[i] = s[i]
  <1>1. PICK T : s \in Seq(T)
    BY DEF IsSeq
  <1> DEFINE U == T \cup {e}
  <1>2. s \in Seq(U) /\ e \in U
    BY <1>1
  <1> HIDE DEF U
  <1>3. Append(s, e) \in Seq(U)
    BY <1>2
  <1>4. QED
    BY <1>2, <1>3, AppendProperties DEF IsSeq

LEMMA ConcatSeq ==
    ASSUME NEW s, IsSeq(s), NEW r, IsSeq(r)
    PROVE  /\ IsSeq(s \o r) /\ Len(s \o r) = Len(s) + Len(r)
           /\ \A i \in 1..Len(s) : (s \o r)[i] = s[i]
           /\ \A i \in 1..Len(r) : (s \o r)[Len(s) + i] = r[i]
  <1>1. PICK T : s \in Seq(T)
    BY DEF IsSeq
  <1>2. PICK U : r \in Seq(U)
    BY DEF IsSeq
  <1> DEFINE V == T \cup U
  <1>3. s \in Seq(V) /\ r \in Seq(V)
    BY <1>1, <1>2
  <1> HIDE DEF V
  <1>4. s \o r \in Seq(V) /\ Len(s \o r) = Len(s) + Len(r)
        /\ \A i \in 1..Len(s) + Len(r) : (s \o r)[i] = IF i <= Len(s) THEN s[i] ELSE r[i - Len(s)]
    BY <1>3, ConcatProperties
  <1>5. Len(s) \in Nat /\ Len(r) \in Nat
    BY <1>3
  <1>6. \A i \in 1..Len(s) : (s \o r)[i] = s[i]
    BY <1>4, <1>5
  <1>7. \A i \in 1..Len(r) : (s \o r)[Len(s) + i] = r[i]
    BY <1>4, <1>5
  <1>8. QED
    BY <1>4, <1>6, <1>7 DEF IsSeq

-----------------------------------------------------------------------------
(* What parsing an offer computes.                                         *)

\* p[k] is what has been parsed after k lines.
Steps(offer, p) ==
    /\ p[0] = << >>
    /\ \A k \in 1..Len(offer) : p[k] = ParseLine(p[k - 1], offer[k])

\* g is the fold over every set of lines, the last line's last.
Folds(offer, S, g) ==
    g = [s \in SUBSET S |->
            IF s = {} THEN << >> ELSE ParseLine(g[s \ {Max(s)}], offer[Max(s)])]

LEMMA MaxOfInterval ==
    ASSUME NEW n \in Nat \ {0}
    PROVE  Max(1..n) = n /\ (1..n) \ {Max(1..n)} = 1..(n - 1)
  <1>1. 1..n # {} /\ 1..n \subseteq 1..n /\ n \in 1..n
    OBVIOUS
  <1>2. Max(1..n) \in 1..n /\ \A x \in 1..n : x <= Max(1..n)
    BY <1>1, MaxProps
  <1>3. Max(1..n) = n
    BY <1>1, <1>2
  <1>4. QED
    BY <1>3

\* Such a g exists, so the fold that parses an offer is no CHOOSE in vain.
LEMMA FoldExists ==
    ASSUME NEW offer, NEW n \in Nat
    PROVE  \E g : Folds(offer, 1..n, g)
  <1> DEFINE K == {k \in 0..n : \E g : Folds(offer, 1..k, g)}
  <1>1. 0 \in K
    <2> DEFINE g == [s \in SUBSET (1..0) |-> << >>]
    <2>1. \A s \in SUBSET (1..0) : s = {}
      OBVIOUS
    <2>2. Folds(offer, 1..0, g)
      BY <2>1 DEF Folds
    <2>3. QED
      BY <2>2
  <1>2. ASSUME NEW k \in 0..n, k < n, k \in K PROVE k + 1 \in K
    <2>1. PICK g : Folds(offer, 1..k, g)
      BY <1>2
    <2> DEFINE h == [s \in SUBSET (1..(k + 1)) |->
                        IF s = {} THEN << >> ELSE ParseLine(g[s \ {Max(s)}], offer[Max(s)])]
    <2>2. ASSUME NEW s \in SUBSET (1..(k + 1)), s # {}
          PROVE  Max(s) \in 1..(k + 1) /\ s \ {Max(s)} \in SUBSET (1..k)
      <3>1. PICK m \in Nat : m = k + 1
        OBVIOUS
      <3>2. s \subseteq 1..m
        BY <3>1
      <3>3. Max(s) \in s /\ \A x \in s : x <= Max(s)
        BY <2>2, <3>2, MaxProps
      <3>4. Max(s) \in 1..(k + 1)
        BY <3>3
      <3>5. ASSUME NEW x \in s \ {Max(s)} PROVE x \in 1..k
        <4>1. PICK y : y = Max(s)
          OBVIOUS
        <4>2. x \in 1..(k + 1) /\ x <= y /\ x # y /\ y \in 1..(k + 1)
          BY <3>3, <3>4, <4>1
        <4>3. QED
          BY <4>2
      <3>6. QED
        BY <3>4, <3>5
    <2>3. ASSUME NEW s \in SUBSET (1..k) PROVE h[s] = g[s]
      <3>1. s \in SUBSET (1..(k + 1))
        OBVIOUS
      <3>2. g[s] = IF s = {} THEN << >> ELSE ParseLine(g[s \ {Max(s)}], offer[Max(s)])
        BY <2>1 DEF Folds
      <3>3. QED
        BY <3>1, <3>2
    <2>4. ASSUME NEW s \in SUBSET (1..(k + 1))
          PROVE  h[s] = IF s = {} THEN << >> ELSE ParseLine(h[s \ {Max(s)}], offer[Max(s)])
      BY <2>2, <2>3
    <2>5. Folds(offer, 1..(k + 1), h)
      <3>1. h = [s \in SUBSET (1..(k + 1)) |-> h[s]]
        OBVIOUS
      <3> HIDE DEF h
      <3>2. QED
        BY <2>4, <3>1 DEF Folds
    <2>6. QED
      BY <1>2, <2>5
  <1> HIDE DEF K
  <1>3. \A k \in 0..n : k \in K
    BY <1>1, <1>2, UpTo
  <1>4. n \in K
    BY <1>3
  <1>5. QED
    BY <1>4 DEF K

\* Parsing is one line after the other.
LEMMA ParseSteps ==
    ASSUME NEW offer, IsSeq(offer)
    PROVE  \E p : Steps(offer, p) /\ ParseOffer(offer) = p[Len(offer)]
  <1> DEFINE n == Len(offer)
             g == CHOOSE g : Folds(offer, 1..n, g)
             p == [k \in 0..n |-> g[1..k]]
  <1>1. n \in Nat /\ DOMAIN offer = 1..n
    BY SeqProps
  <1>2. Folds(offer, 1..n, g)
    BY <1>1, FoldExists
  <1>3. ParseOffer(offer) = g[1..n]
    BY <1>1 DEF ParseOffer, FoldLeft, MapThenFoldSet, Folds
  <1> HIDE DEF g
  <1>4. p[0] = << >>
    <2>1. 1..0 = {} /\ 1..0 \in SUBSET (1..n)
      OBVIOUS
    <2>2. g[1..0] = << >>
      BY <1>2, <2>1 DEF Folds
    <2>3. QED
      BY <1>1, <2>2
  <1>5. ASSUME NEW k \in 1..n PROVE p[k] = ParseLine(p[k - 1], offer[k])
    <2>1. 1..k \in SUBSET (1..n) /\ 1..k # {} /\ k \in Nat \ {0}
      <3>1. k \in Nat \ {0} /\ k <= n
        BY <1>1
      <3>2. k \in 1..k /\ \A i \in 1..k : i \in 1..n
        BY <1>1, <3>1
      <3>3. QED
        BY <3>1, <3>2
    <2>2. Max(1..k) = k /\ (1..k) \ {Max(1..k)} = 1..(k - 1)
      BY <2>1, MaxOfInterval
    <2>3. g[1..k] = ParseLine(g[(1..k) \ {Max(1..k)}], offer[Max(1..k)])
      BY <1>2, <2>1 DEF Folds
    <2>4. p[k] = g[1..k] /\ p[k - 1] = g[1..(k - 1)]
      BY <1>1
    <2>5. QED
      BY <2>2, <2>3, <2>4
  <1>6. p[n] = g[1..n]
    BY <1>1
  <1> HIDE DEF p
  <1>7. Steps(offer, p)
    BY <1>4, <1>5 DEF Steps
  <1>8. QED
    BY <1>3, <1>6, <1>7

LEMMA SetOfSeq ==
    ASSUME NEW s, IsSeq(s)
    PROVE  ToSet(s) = {s[i] : i \in 1..Len(s)}
  BY SeqProps DEF ToSet

LEMMA SetOfAppend ==
    ASSUME NEW s, IsSeq(s), NEW e
    PROVE  ToSet(Append(s, e)) = ToSet(s) \cup {e}
  <1>1. /\ IsSeq(Append(s, e)) /\ Len(Append(s, e)) = Len(s) + 1 /\ Append(s, e)[Len(s) + 1] = e
        /\ \A i \in 1..Len(s) : Append(s, e)[i] = s[i]
        /\ Len(s) \in Nat
    BY AppendSeq, SeqProps
  <1>2. \A i : i \in 1..(Len(s) + 1) <=> i \in 1..Len(s) \/ i = Len(s) + 1
    BY <1>1
  <1>3. {Append(s, e)[i] : i \in 1..Len(Append(s, e))} = {s[i] : i \in 1..Len(s)} \cup {e}
    BY <1>1, <1>2
  <1>4. QED
    BY <1>1, <1>3, SetOfSeq

-----------------------------------------------------------------------------
(* What is kept of a sequence.                                             *)

\* k[i] is what is kept of the first i of s.
Keeps(s, S, m, k) ==
    k = [i \in 0..m |-> IF i = 0 THEN << >>
                        ELSE IF s[i] \in S THEN Append(k[i - 1], s[i]) ELSE k[i - 1]]

LEMMA KeepExists ==
    ASSUME NEW s, NEW S, NEW n \in Nat
    PROVE  \E k : Keeps(s, S, n, k)
  <1> DEFINE K == {m \in 0..n : \E k : Keeps(s, S, m, k)}
  <1>1. 0 \in K
    <2> DEFINE k == [i \in 0..0 |-> << >>]
    <2>1. Keeps(s, S, 0, k)
      BY DEF Keeps
    <2>2. QED
      BY <2>1
  <1>2. ASSUME NEW m \in 0..n, m < n, m \in K PROVE m + 1 \in K
    <2>1. PICK k : Keeps(s, S, m, k)
      BY <1>2
    <2> DEFINE h == [i \in 0..(m + 1) |-> IF i = 0 THEN << >>
                        ELSE IF s[i] \in S THEN Append(k[i - 1], s[i]) ELSE k[i - 1]]
    <2>2. ASSUME NEW i \in 0..m PROVE h[i] = k[i]
      <3>1. k[i] = IF i = 0 THEN << >> ELSE IF s[i] \in S THEN Append(k[i - 1], s[i]) ELSE k[i - 1]
        BY <2>1 DEF Keeps
      <3>2. i \in 0..(m + 1)
        OBVIOUS
      <3>3. QED
        BY <3>1, <3>2
    <2>3. ASSUME NEW i \in 0..(m + 1)
          PROVE  h[i] = IF i = 0 THEN << >>
                        ELSE IF s[i] \in S THEN Append(h[i - 1], s[i]) ELSE h[i - 1]
      <3>1. i # 0 => i - 1 \in 0..m
        OBVIOUS
      <3>2. QED
        BY <2>2, <3>1
    <2>4. h = [i \in 0..(m + 1) |-> h[i]]
      OBVIOUS
    <2> HIDE DEF h
    <2>5. Keeps(s, S, m + 1, h)
      BY <2>3, <2>4 DEF Keeps
    <2>6. QED
      BY <1>2, <2>5
  <1> HIDE DEF K
  <1>3. \A m \in 0..n : m \in K
    BY <1>1, <1>2, UpTo
  <1>4. n \in K
    BY <1>3
  <1>5. QED
    BY <1>4 DEF K

LEMMA KeepSteps ==
    ASSUME NEW s, IsSeq(s), NEW S
    PROVE  \E k : /\ Keep(s, S) = k[Len(s)] /\ k[0] = << >>
                  /\ \A i \in 1..Len(s) :
                        k[i] = IF s[i] \in S THEN Append(k[i - 1], s[i]) ELSE k[i - 1]
  <1>1. Len(s) \in Nat
    BY SeqProps
  <1> DEFINE k == CHOOSE k : Keeps(s, S, Len(s), k)
  <1>2. Keeps(s, S, Len(s), k)
    BY <1>1, KeepExists
  <1>3. Keep(s, S) = k[Len(s)]
    BY <1>1 DEF Keep, Keeps
  <1> HIDE DEF k
  <1>4. k[0] = << >>
    BY <1>1, <1>2 DEF Keeps
  <1>5. ASSUME NEW i \in 1..Len(s)
        PROVE  k[i] = IF s[i] \in S THEN Append(k[i - 1], s[i]) ELSE k[i - 1]
    <2>1. i \in 0..Len(s) /\ i # 0
      BY <1>1
    <2>2. QED
      BY <1>2, <2>1 DEF Keeps
  <1>6. QED
    BY <1>3, <1>4, <1>5

LEMMA KeptAre ==
    ASSUME NEW s, IsSeq(s), NEW S
    PROVE  IsSeq(Keep(s, S)) /\ ToSet(Keep(s, S)) = ToSet(s) \cap S
  <1>1. PICK k : /\ Keep(s, S) = k[Len(s)] /\ k[0] = << >>
                 /\ \A i \in 1..Len(s) :
                       k[i] = IF s[i] \in S THEN Append(k[i - 1], s[i]) ELSE k[i - 1]
    BY KeepSteps
  <1> DEFINE n == Len(s)
             First(i) == {s[j] : j \in 1..i}
             K == {i \in 0..n : IsSeq(k[i]) /\ ToSet(k[i]) = First(i) \cap S}
  <1>2. n \in Nat
    BY SeqProps
  <1>3. 0 \in K
    <2>1. IsSeq(<< >>) /\ ToSet(<< >>) = {} /\ First(0) = {}
      BY DEF IsSeq, ToSet
    <2>2. QED
      BY <1>1, <1>2, <2>1
  <1>4. ASSUME NEW i \in 0..n, i < n, i \in K PROVE i + 1 \in K
    <2>1. i + 1 \in 1..n /\ (i + 1) - 1 = i
      BY <1>2, <1>4
    <2>2. k[i + 1] = IF s[i + 1] \in S THEN Append(k[i], s[i + 1]) ELSE k[i]
      BY <1>1, <2>1
    <2>3. First(i + 1) = First(i) \cup {s[i + 1]}
      <3>1. \A j : j \in 1..(i + 1) <=> j \in 1..i \/ j = i + 1
        BY <2>1
      <3>2. QED
        BY <3>1
    <2> HIDE DEF First
    <2>4. IsSeq(k[i]) /\ ToSet(k[i]) = First(i) \cap S
      BY <1>4
    <2>5. IsSeq(k[i + 1]) /\ ToSet(k[i + 1]) = First(i + 1) \cap S
      <3>1. CASE s[i + 1] \in S
        <4>1. k[i + 1] = Append(k[i], s[i + 1])
          BY <2>2, <3>1
        <4>2. IsSeq(k[i + 1]) /\ ToSet(k[i + 1]) = ToSet(k[i]) \cup {s[i + 1]}
          BY <2>4, <4>1, AppendSeq, SetOfAppend
        <4>3. QED
          BY <2>3, <2>4, <3>1, <4>2
      <3>2. CASE s[i + 1] \notin S
        BY <2>2, <2>3, <2>4, <3>2
      <3>3. QED
        BY <3>1, <3>2
    <2>6. QED
      BY <1>2, <2>1, <2>5
  <1> HIDE DEF K
  <1>5. \A i \in 0..n : i \in K
    BY <1>2, <1>3, <1>4, UpTo
  <1>6. n \in K
    BY <1>2, <1>5
  <1>7. QED
    BY <1>1, <1>6, SetOfSeq DEF K

-----------------------------------------------------------------------------
(* Reading an offer line by line.                                          *)

\* After k lines p[k] has been parsed, and m[k] and d[k] are the m-lines and
\* the mids so far.
Reads(offer, p, m, d) ==
    /\ p[0] = << >> /\ m[0] = << >> /\ d[0] = << >>
    /\ \A k \in 1..Len(offer) :
          /\ p[k] = ParseLine(p[k - 1], offer[k])
          /\ m[k] = IF offer[k].is = "m" THEN Append(m[k - 1], offer[k]) ELSE m[k - 1]
          /\ d[k] = IF offer[k].is = "mid" THEN Append(d[k - 1], offer[k]) ELSE d[k - 1]

LEMMA OfferReads ==
    ASSUME NEW offer, IsSeq(offer)
    PROVE  \E p, m, d : /\ Reads(offer, p, m, d)
                        /\ ParseOffer(offer) = p[Len(offer)]
                        /\ Media(offer) = m[Len(offer)] /\ Mids(offer) = d[Len(offer)]
  <1> DEFINE first == {line \in ToSet(offer) : line.is = "m"}
             named == {line \in ToSet(offer) : line.is = "mid"}
  <1>1. \A k \in 1..Len(offer) : offer[k] \in ToSet(offer)
    BY SetOfSeq
  <1>2. \A i \in 1..Len(offer) : /\ offer[i] \in first <=> offer[i].is = "m"
                                 /\ offer[i] \in named <=> offer[i].is = "mid"
    BY <1>1
  <1>3. Media(offer) = Keep(offer, first) /\ Mids(offer) = Keep(offer, named)
    BY DEF Media, Mids
  <1> HIDE DEF first, named
  <1>4. PICK p : Steps(offer, p) /\ ParseOffer(offer) = p[Len(offer)]
    BY ParseSteps
  <1>5. PICK m : /\ Keep(offer, first) = m[Len(offer)] /\ m[0] = << >>
                 /\ \A i \in 1..Len(offer) :
                       m[i] = IF offer[i] \in first THEN Append(m[i - 1], offer[i]) ELSE m[i - 1]
    BY KeepSteps
  <1>6. PICK d : /\ Keep(offer, named) = d[Len(offer)] /\ d[0] = << >>
                 /\ \A i \in 1..Len(offer) :
                       d[i] = IF offer[i] \in named THEN Append(d[i - 1], offer[i]) ELSE d[i - 1]
    BY KeepSteps
  <1>7. Reads(offer, p, m, d)
    BY <1>2, <1>4, <1>5, <1>6 DEF Reads, Steps
  <1>8. QED
    BY <1>3, <1>4, <1>5, <1>6, <1>7

LineKind == {"m", "direction", "rsize", "own", "mid", "codec", "other"}
Kept == {"mid", "codec", "other"}

IsSection(e) == {"media", "pts", "mid", "dir", "rsize", "lines"} \subseteq DOMAIN e /\ IsSeq(e.lines)

\* e is the section s after one more line.
Grown(e, s, line) ==
    /\ IsSection(e)
    /\ e.media = s.media /\ e.pts = s.pts
    /\ e.mid = IF line.is = "mid" THEN line.mid ELSE s.mid
    /\ e.dir = IF line.is = "direction" THEN line.dir ELSE s.dir
    /\ ToSet(e.lines) = IF line.is \in Kept THEN ToSet(s.lines) \cup {line} ELSE ToSet(s.lines)

LEMMA ReplaceLast ==
    ASSUME NEW before, IsSeq(before), NEW s, NEW e
    PROVE  LET n == Len(before) + 1
               r == Append(before, s)
           IN  /\ Len(r) = n /\ n > 0 /\ n \in Nat /\ r[n] = s /\ n \in DOMAIN r
               /\ [r EXCEPT ![n] = e] = Append(before, e)
  <1> DEFINE n == Len(before) + 1
             r == Append(before, s)
             t == Append(before, e)
  <1>1. /\ IsSeq(r) /\ Len(r) = n /\ r[n] = s /\ \A i \in 1..Len(before) : r[i] = before[i]
        /\ IsSeq(t) /\ Len(t) = n /\ t[n] = e /\ \A i \in 1..Len(before) : t[i] = before[i]
    BY AppendSeq
  <1> HIDE DEF r, t
  <1>2. Len(before) \in Nat
    BY SeqProps
  <1>3. /\ DOMAIN r = 1..n /\ r = [i \in 1..n |-> r[i]]
        /\ DOMAIN t = 1..n /\ t = [i \in 1..n |-> t[i]]
    BY <1>1, SeqProps
  <1>4. n \in 1..n /\ n > 0 /\ n \in Nat
    BY <1>2
  <1>5. \A i \in 1..n : i # n => i \in 1..Len(before)
    BY <1>2
  <1>6. \A i \in 1..n : t[i] = IF i = n THEN e ELSE r[i]
    BY <1>1, <1>5
  <1>7. [r EXCEPT ![n] = e] = [i \in 1..n |-> t[i]]
    BY <1>3, <1>6
  <1>8. QED
    BY <1>1, <1>3, <1>4, <1>7 DEF r, t

\* A line that opens no section changes the last one.
LEMMA LineRead ==
    ASSUME NEW before, IsSeq(before), NEW s, IsSection(s),
           NEW line, line.is \in LineKind \ {"m"}
    PROVE  \E e : ParseLine(Append(before, s), line) = Append(before, e) /\ Grown(e, s, line)
  <1> DEFINE n == Len(before) + 1
             r == Append(before, s)
  <1>1. Len(r) = n /\ n > 0 /\ n \in Nat /\ r[n] = s /\ n \in DOMAIN r
    BY ReplaceLast
  <1>2. \A e : [r EXCEPT ![n] = e] = Append(before, e)
    BY ReplaceLast
  <1> HIDE DEF r, n
  <1>3. IsSeq(Append(s.lines, line)) /\ ToSet(Append(s.lines, line)) = ToSet(s.lines) \cup {line}
    BY AppendSeq, SetOfAppend DEF IsSection
  <1>4. CASE line.is = "direction"
    <2>1. PICK e : e = [s EXCEPT !.dir = line.dir]
      OBVIOUS
    <2>2. ParseLine(r, line) = [r EXCEPT ![n] = e]
      BY <1>1, <1>4, <2>1 DEF ParseLine
    <2>3. e.media = s.media /\ e.pts = s.pts /\ e.mid = s.mid /\ e.dir = line.dir
          /\ e.lines = s.lines /\ DOMAIN e = DOMAIN s
      BY <2>1 DEF IsSection
    <2>4. Grown(e, s, line)
      BY <1>4, <2>3 DEF Grown, IsSection, Kept
    <2>5. QED
      BY <1>2, <2>2, <2>4 DEF r
  <1>5. CASE line.is = "rsize"
    <2>1. PICK e : e = [s EXCEPT !.rsize = TRUE]
      OBVIOUS
    <2>2. ParseLine(r, line) = [r EXCEPT ![n] = e]
      BY <1>1, <1>5, <2>1 DEF ParseLine
    <2>3. e.media = s.media /\ e.pts = s.pts /\ e.mid = s.mid /\ e.dir = s.dir
          /\ e.lines = s.lines /\ DOMAIN e = DOMAIN s
      BY <2>1 DEF IsSection
    <2>4. Grown(e, s, line)
      BY <1>5, <2>3 DEF Grown, IsSection, Kept
    <2>5. QED
      BY <1>2, <2>2, <2>4 DEF r
  <1>6. CASE line.is = "own"
    <2>1. ParseLine(r, line) = r
      BY <1>1, <1>6 DEF ParseLine
    <2>2. Grown(s, s, line)
      BY <1>6 DEF Grown, Kept
    <2>3. QED
      BY <2>1, <2>2 DEF r
  <1>7. CASE line.is = "mid"
    <2>1. PICK e : e = [s EXCEPT !.mid = line.mid, !.lines = Append(@, line)]
      OBVIOUS
    <2>2. ParseLine(r, line) = [r EXCEPT ![n].mid = line.mid, ![n].lines = Append(@, line)]
      BY <1>1, <1>7 DEF ParseLine
    <2>3. ParseLine(r, line) = [r EXCEPT ![n] = e]
      BY <1>1, <2>1, <2>2 DEF IsSection
    <2>4. e.media = s.media /\ e.pts = s.pts /\ e.mid = line.mid /\ e.dir = s.dir
          /\ e.lines = Append(s.lines, line) /\ DOMAIN e = DOMAIN s
      BY <2>1 DEF IsSection
    <2>5. Grown(e, s, line)
      BY <1>3, <1>7, <2>4 DEF Grown, IsSection, Kept
    <2>6. QED
      BY <1>2, <2>3, <2>5 DEF r
  <1>8. CASE line.is \in {"codec", "other"}
    <2>1. PICK e : e = [s EXCEPT !.lines = Append(@, line)]
      OBVIOUS
    <2>2. ParseLine(r, line) = [r EXCEPT ![n] = e]
      BY <1>1, <1>8, <2>1 DEF ParseLine
    <2>3. e.media = s.media /\ e.pts = s.pts /\ e.mid = s.mid /\ e.dir = s.dir
          /\ e.lines = Append(s.lines, line) /\ DOMAIN e = DOMAIN s
      BY <2>1 DEF IsSection
    <2>4. Grown(e, s, line)
      BY <1>3, <1>8, <2>3 DEF Grown, IsSection, Kept
    <2>5. QED
      BY <1>2, <2>2, <2>4 DEF r
  <1>9. QED
    BY <1>4, <1>5, <1>6, <1>7, <1>8 DEF LineKind

\* b is in r from the place after q on.
At(r, q, b) == q + Len(b) <= Len(r) /\ \A i \in 1..Len(b) : r[q + i] = b[i]

LinesOK(offer) == IsSeq(offer) /\ \A k \in 1..Len(offer) : offer[k].is \in LineKind

\* The lines of one m-line, for the track mid in direction dir.
BlockOf(b, mid, dir, style) ==
    /\ LinesOK(b) /\ Len(b) >= 5
    /\ \A k \in 1..Len(b) : /\ b[k].is = "m" <=> k = 1
                            /\ b[k].is = "mid" <=> k = 3
                            /\ b[k].is = "direction" => k = 5 /\ b[k].dir = dir
    /\ b[1].media = mid[2] /\ b[1].pts = Types(mid[2], style)
    /\ b[3].mid = mid
    /\ dir # "sendrecv" => b[5].is = "direction"
    /\ {b[k] : k \in {i \in 1..Len(b) : b[i].is = "codec"}} = ToSet(CodecLines(mid[2], style))

\* What the server reads of it.
Described(e, mid, dir, style) ==
    /\ IsSection(e)
    /\ e.media = mid[2] /\ e.pts = Types(mid[2], style) /\ e.mid = mid /\ e.dir = dir
    /\ \A line \in ToSet(e.lines) : line.is # "own"
    /\ {line \in ToSet(e.lines) : line.is = "codec"} = ToSet(CodecLines(mid[2], style))

LEMMA BlockRead ==
    ASSUME NEW offer, LinesOK(offer), NEW p, NEW m, NEW d, Reads(offer, p, m, d),
           NEW q \in Nat, NEW b, NEW mid, NEW dir, NEW style, BlockOf(b, mid, dir, style),
           At(offer, q, b), IsSeq(p[q])
    PROVE  /\ \E e : p[q + Len(b)] = Append(p[q], e) /\ Described(e, mid, dir, style)
           /\ m[q + Len(b)] = Append(m[q], b[1])
           /\ d[q + Len(b)] = Append(d[q], b[3])
  <1> DEFINE n == Len(b)
             Lines(k) == {b[i] : i \in {j \in 1..k : b[j].is \in Kept}}
             Part(e, k) == /\ IsSection(e)
                           /\ e.media = b[1].media /\ e.pts = b[1].pts
                           /\ k >= 3 => e.mid = mid
                           /\ e.dir = IF k >= 5 THEN dir ELSE "sendrecv"
                           /\ ToSet(e.lines) = Lines(k)
             Read(k) == /\ \E e : p[q + k] = Append(p[q], e) /\ Part(e, k)
                        /\ m[q + k] = Append(m[q], b[1])
                        /\ d[q + k] = IF k >= 3 THEN Append(d[q], b[3]) ELSE d[q]
             K == {k \in 1..n : Read(k)}
  <1>1. n \in Nat /\ n >= 5 /\ q + n <= Len(offer) /\ Len(offer) \in Nat
    BY SeqProps DEF BlockOf, At, LinesOK
  <1>2. ASSUME NEW k \in 1..n
        PROVE  /\ p[q + k] = ParseLine(p[q + k - 1], b[k])
               /\ m[q + k] = IF b[k].is = "m" THEN Append(m[q + k - 1], b[k]) ELSE m[q + k - 1]
               /\ d[q + k] = IF b[k].is = "mid" THEN Append(d[q + k - 1], b[k]) ELSE d[q + k - 1]
               /\ b[k].is \in LineKind
    <2>1. q + k \in 1..Len(offer) /\ offer[q + k] = b[k]
      BY <1>1 DEF At
    <2>2. QED
      BY <2>1 DEF Reads, LinesOK
  <1>3. Read(1)
    <2>1. q + 1 - 1 = q /\ 1 \in 1..n /\ ~(1 >= 3) /\ ~(1 >= 5)
      BY <1>1
    <2>2. b[1].is = "m" /\ b[1].is # "mid"
      BY <2>1 DEF BlockOf
    <2>3. m[q + 1] = Append(m[q], b[1]) /\ d[q + 1] = d[q] /\ p[q + 1] = ParseLine(p[q], b[1])
      BY <1>2, <2>1, <2>2
    <2>4. PICK e : e = OpenSection(b[1])
      OBVIOUS
    <2>5. p[q + 1] = Append(p[q], e)
      BY <2>2, <2>3, <2>4 DEF ParseLine
    <2>6. Lines(1) = {}
      <3>1. \A j \in 1..1 : j = 1
        OBVIOUS
      <3>2. QED
        BY <2>2, <3>1 DEF Kept
    <2>7. IsSeq(<< >>) /\ ToSet(<< >>) = {}
      BY DEF IsSeq, ToSet
    <2>8. /\ e.media = b[1].media /\ e.pts = b[1].pts /\ e.dir = "sendrecv" /\ e.lines = << >>
          /\ {"media", "pts", "mid", "dir", "rsize", "lines"} \subseteq DOMAIN e
      BY <2>4 DEF OpenSection
    <2> HIDE DEF Lines
    <2>9. Part(e, 1)
      BY <2>1, <2>6, <2>7, <2>8 DEF IsSection
    <2>10. QED
      BY <2>1, <2>3, <2>5, <2>9
  <1>4. ASSUME NEW k \in 1..n, k < n, Read(k) PROVE Read(k + 1)
    <2>1. k + 1 \in 1..n /\ q + (k + 1) - 1 = q + k
      BY <1>1, <1>4
    <2>2. PICK line : line = b[k + 1]
      OBVIOUS
    <2>3. /\ p[q + (k + 1)] = ParseLine(p[q + k], line)
          /\ m[q + (k + 1)] = IF line.is = "m" THEN Append(m[q + k], line) ELSE m[q + k]
          /\ d[q + (k + 1)] = IF line.is = "mid" THEN Append(d[q + k], line) ELSE d[q + k]
          /\ line.is \in LineKind
      BY <1>2, <2>1, <2>2
    <2>4. /\ line.is # "m" /\ (line.is = "mid" <=> k + 1 = 3)
          /\ line.is = "direction" => k + 1 = 5 /\ line.dir = dir
          /\ k + 1 = 5 /\ dir # "sendrecv" => line.is = "direction"
      BY <2>1, <2>2 DEF BlockOf
    <2>5. b[3].mid = mid
      BY DEF BlockOf
    <2>6. PICK s : p[q + k] = Append(p[q], s) /\ Part(s, k)
      BY <1>4
    <2>7. PICK e : p[q + (k + 1)] = Append(p[q], e) /\ Grown(e, s, line)
      BY <2>3, <2>4, <2>6, LineRead
    <2>8. Lines(k + 1) = IF line.is \in Kept THEN Lines(k) \cup {line} ELSE Lines(k)
      <3>1. \A j : j \in 1..(k + 1) <=> j \in 1..k \/ j = k + 1
        BY <2>1
      <3>2. QED
        BY <2>2, <3>1
    <2> HIDE DEF Lines
    <2>9. /\ k + 1 >= 3 => k + 1 = 3 \/ k >= 3
          /\ k + 1 >= 5 => k + 1 = 5 \/ k >= 5
          /\ k >= 3 => k + 1 >= 3 /\ k + 1 # 3
          /\ k >= 5 => k + 1 >= 5 /\ k + 1 # 5
      OBVIOUS
    <2>10. k + 1 >= 3 => e.mid = mid
      BY <2>2, <2>4, <2>5, <2>6, <2>7, <2>9 DEF Grown
    <2>11. e.dir = IF k + 1 >= 5 THEN dir ELSE "sendrecv"
      BY <2>4, <2>6, <2>7, <2>9 DEF Grown
    <2>12. Part(e, k + 1)
      BY <2>6, <2>7, <2>8, <2>10, <2>11 DEF Grown
    <2>13. m[q + (k + 1)] = Append(m[q], b[1])
      BY <1>4, <2>3, <2>4
    <2>14. d[q + (k + 1)] = IF k + 1 >= 3 THEN Append(d[q], b[3]) ELSE d[q]
      BY <1>4, <2>2, <2>3, <2>4, <2>9
    <2>15. QED
      BY <2>7, <2>12, <2>13, <2>14
  <1>5. Read(n)
    <2> HIDE DEF Read
    <2>1. 1 \in K
      BY <1>1, <1>3
    <2>2. ASSUME NEW k \in 1..n, k < n, k \in K PROVE k + 1 \in K
      BY <1>1, <1>4, <2>2
    <2> HIDE DEF K
    <2>3. \A k \in 1..n : k \in K
      BY <1>1, <2>1, <2>2, UpTo
    <2>4. n \in K
      BY <1>1, <2>3
    <2>5. QED
      BY <2>4 DEF K
  <1>6. PICK e : p[q + n] = Append(p[q], e) /\ Part(e, n)
    BY <1>5
  <1>7. \A line \in Lines(n) : line.is # "own"
    BY DEF Kept
  <1>8. {line \in Lines(n) : line.is = "codec"} = {b[k] : k \in {i \in 1..n : b[i].is = "codec"}}
    BY DEF Kept
  <1> HIDE DEF Lines
  <1>9. Described(e, mid, dir, style)
    BY <1>1, <1>6, <1>7, <1>8 DEF Described, BlockOf
  <1>10. QED
    BY <1>1, <1>5, <1>6, <1>9

-----------------------------------------------------------------------------
(* The lines of an offer.                                                  *)

LEMMA AtConcat ==
    ASSUME NEW s, IsSeq(s), NEW r, IsSeq(r), NEW q \in Nat, NEW b, IsSeq(b)
    PROVE  /\ At(s, q, b) => At(s \o r, q, b)
           /\ At(r, q, b) => At(s \o r, Len(s) + q, b)
           /\ At(s \o r, Len(s), r)
  <1>1. Len(s) \in Nat /\ Len(r) \in Nat /\ Len(b) \in Nat
    BY SeqProps
  <1>2. /\ Len(s \o r) = Len(s) + Len(r)
        /\ \A i \in 1..Len(s) : (s \o r)[i] = s[i]
        /\ \A i \in 1..Len(r) : (s \o r)[Len(s) + i] = r[i]
    BY ConcatSeq
  <1>3. ASSUME At(s, q, b) PROVE At(s \o r, q, b)
    <2>1. \A i \in 1..Len(b) : q + i \in 1..Len(s)
      BY <1>1, <1>3 DEF At
    <2>2. QED
      BY <1>1, <1>2, <1>3, <2>1 DEF At
  <1>4. ASSUME At(r, q, b) PROVE At(s \o r, Len(s) + q, b)
    <2>1. \A i \in 1..Len(b) : q + i \in 1..Len(r) /\ (Len(s) + q) + i = Len(s) + (q + i)
      BY <1>1, <1>4 DEF At
    <2>2. QED
      BY <1>1, <1>2, <1>4, <2>1 DEF At
  <1>5. At(s \o r, Len(s), r)
    BY <1>1, <1>2 DEF At
  <1>6. QED
    BY <1>3, <1>4, <1>5

\* The first k of bs, one after the other.
Flat(bs, n, f) == f = [i \in 1..n |-> IF i = 1 THEN bs[i] ELSE f[i - 1] \o bs[i]]

LEMMA FlatExists ==
    ASSUME NEW bs, NEW n \in Nat
    PROVE  \E f : Flat(bs, n, f)
  <1> DEFINE K == {k \in 0..n : \E f : Flat(bs, k, f)}
  <1>1. 0 \in K
    <2> DEFINE f == [i \in 1..0 |-> bs[i]]
    <2>1. Flat(bs, 0, f)
      BY DEF Flat
    <2>2. QED
      BY <2>1
  <1>2. ASSUME NEW k \in 0..n, k < n, k \in K PROVE k + 1 \in K
    <2>1. PICK f : Flat(bs, k, f)
      BY <1>2
    <2> DEFINE h == [i \in 1..(k + 1) |-> IF i = 1 THEN bs[i] ELSE f[i - 1] \o bs[i]]
    <2>2. ASSUME NEW i \in 1..k PROVE h[i] = f[i]
      <3>1. f[i] = IF i = 1 THEN bs[i] ELSE f[i - 1] \o bs[i]
        BY <2>1 DEF Flat
      <3>2. i \in 1..(k + 1)
        OBVIOUS
      <3>3. QED
        BY <3>1, <3>2
    <2>3. ASSUME NEW i \in 1..(k + 1)
          PROVE  h[i] = IF i = 1 THEN bs[i] ELSE h[i - 1] \o bs[i]
      <3>1. i # 1 => i - 1 \in 1..k
        OBVIOUS
      <3>2. QED
        BY <2>2, <3>1
    <2>4. h = [i \in 1..(k + 1) |-> h[i]]
      OBVIOUS
    <2> HIDE DEF h
    <2>5. Flat(bs, k + 1, h)
      BY <2>3, <2>4 DEF Flat
    <2>6. QED
      BY <1>2, <2>5
  <1> HIDE DEF K
  <1>3. \A k \in 0..n : k \in K
    BY <1>1, <1>2, UpTo
  <1>4. n \in K
    BY <1>3
  <1>5. QED
    BY <1>4 DEF K

LEMMA FlattenSteps ==
    ASSUME NEW bs, IsSeq(bs), Len(bs) > 0
    PROVE  \E f : Flat(bs, Len(bs), f) /\ FlattenSeq(bs) = f[Len(bs)]
  <1>1. Len(bs) \in Nat
    BY SeqProps
  <1> DEFINE f == CHOOSE f : Flat(bs, Len(bs), f)
  <1>2. Flat(bs, Len(bs), f)
    BY <1>1, FlatExists
  <1>3. FlattenSeq(bs) = f[Len(bs)]
    BY <1>1 DEF FlattenSeq, Flat
  <1>4. QED
    BY <1>2, <1>3
\* Where each of some sequences is when they are joined: off[j] is the place
\* after the j-th.
Offsets(bs, s, off) ==
    /\ off[0] = 0 /\ off[Len(bs)] = Len(s)
    /\ \A j \in 1..Len(bs) : /\ off[j - 1] \in Nat
                             /\ off[j] = off[j - 1] + Len(bs[j])
                             /\ At(s, off[j - 1], bs[j])

LEMMA FlattenPlaces ==
    ASSUME NEW bs, IsSeq(bs), \A j \in 1..Len(bs) : IsSeq(bs[j])
    PROVE  IsSeq(FlattenSeq(bs)) /\ \E off : Offsets(bs, FlattenSeq(bs), off)
  <1> DEFINE n == Len(bs)
  <1>1. n \in Nat
    BY SeqProps
  <1>2. CASE n = 0
    <2>1. FlattenSeq(bs) = bs
      BY <1>2 DEF FlattenSeq
    <2>2. Offsets(bs, bs, [j \in 0..0 |-> 0])
      BY <1>2 DEF Offsets
    <2>3. QED
      BY <2>1, <2>2
  <1>3. CASE n > 0
    <2>1. PICK f : Flat(bs, n, f) /\ FlattenSeq(bs) = f[n]
      BY <1>3, FlattenSteps
    <2> DEFINE off == [j \in 0..n |-> IF j = 0 THEN 0 ELSE Len(f[j])]
               Good(k) == /\ IsSeq(f[k])
                          /\ \A j \in 1..k : /\ off[j - 1] \in Nat
                                             /\ off[j] = off[j - 1] + Len(bs[j])
                                             /\ At(f[k], off[j - 1], bs[j])
               K == {k \in 1..n : Good(k)}
    <2>2. off[0] = 0 /\ \A j \in 1..n : off[j] = Len(f[j])
      BY <1>1
    <2> HIDE DEF off
    <2>3. 1 \in K
      <3>1. 1 \in 1..n /\ f[1] = bs[1] /\ IsSeq(bs[1]) /\ Len(bs[1]) \in Nat
        BY <1>1, <1>3, <2>1, SeqProps DEF Flat
      <3>2. At(f[1], 0, bs[1])
        BY <3>1 DEF At
      <3>3. \A j \in 1..1 : j = 1 /\ j - 1 = 0
        OBVIOUS
      <3>4. QED
        BY <2>2, <3>1, <3>2, <3>3
    <2>4. ASSUME NEW k \in 1..n, k < n, k \in K PROVE k + 1 \in K
      <3>1. k + 1 \in 1..n /\ k + 1 # 1 /\ (k + 1) - 1 = k
        BY <1>1, <2>4
      <3>2. f[k + 1] = f[k] \o bs[k + 1]
        BY <2>1, <3>1 DEF Flat
      <3>3. Good(k) /\ IsSeq(f[k]) /\ IsSeq(bs[k + 1])
        BY <2>4, <3>1
      <3>4. /\ IsSeq(f[k + 1]) /\ Len(f[k + 1]) = Len(f[k]) + Len(bs[k + 1])
            /\ Len(f[k]) \in Nat /\ At(f[k + 1], Len(f[k]), bs[k + 1])
        <4>1. PICK s, b : s = f[k] /\ b = bs[k + 1]
          OBVIOUS
        <4>2. IsSeq(s) /\ IsSeq(b) /\ f[k + 1] = s \o b
          BY <3>2, <3>3, <4>1
        <4>3. IsSeq(s \o b) /\ Len(s \o b) = Len(s) + Len(b)
          BY <4>2, ConcatSeq
        <4>4. Len(s) \in Nat
          BY <4>2, SeqProps
        <4>5. At(s \o b, Len(s), b)
          BY <4>2, AtConcat, 0 \in Nat
        <4>6. QED
          BY <4>1, <4>2, <4>3, <4>4, <4>5
      <3>5. off[k] = Len(f[k]) /\ off[k + 1] = Len(f[k + 1])
        BY <2>2, <3>1
      <3>6. ASSUME NEW j \in 1..(k + 1)
            PROVE  /\ off[j - 1] \in Nat /\ off[j] = off[j - 1] + Len(bs[j])
                   /\ At(f[k + 1], off[j - 1], bs[j])
        <4>1. CASE j = k + 1
          BY <3>1, <3>4, <3>5, <4>1
        <4>2. CASE j # k + 1
          <5>1. j \in 1..k /\ j \in 1..n
            BY <2>4, <4>2
          <5>2. off[j - 1] \in Nat /\ off[j] = off[j - 1] + Len(bs[j]) /\ At(f[k], off[j - 1], bs[j])
            BY <3>3, <5>1
          <5>3. At(f[k + 1], off[j - 1], bs[j])
            BY <3>2, <3>3, <5>1, <5>2, AtConcat
          <5>4. QED
            BY <5>2, <5>3
        <4>3. QED
          BY <4>1, <4>2
      <3>7. Good(k + 1)
        BY <3>4, <3>6
      <3>8. QED
        BY <3>1, <3>7
    <2> HIDE DEF K
    <2>5. n \in K
      <3>1. \A k \in 1..n : k \in K
        BY <1>1, <1>3, <2>3, <2>4, UpTo
      <3>2. QED
        BY <1>1, <1>3, <3>1
    <2>6. n \in 1..n /\ Good(n)
      BY <1>1, <1>3, <2>5 DEF K
    <2>7. Offsets(bs, f[n], off)
      BY <2>2, <2>6 DEF Offsets
    <2>8. QED
      BY <2>1, <2>6, <2>7
  <1>4. QED
    BY <1>1, <1>2, <1>3

Styles == {"plain", "many", "stopped"}

LEMMA ConcatLines ==
    ASSUME NEW s, LinesOK(s), NEW r, LinesOK(r)
    PROVE  LinesOK(s \o r)
  <1>1. IsSeq(s \o r) /\ Len(s \o r) = Len(s) + Len(r) /\ Len(s) \in Nat /\ Len(r) \in Nat
    BY ConcatSeq, SeqProps DEF LinesOK
  <1>2. /\ \A i \in 1..Len(s) : (s \o r)[i] = s[i]
        /\ \A i \in 1..Len(r) : (s \o r)[Len(s) + i] = r[i]
    BY ConcatSeq DEF LinesOK
  <1>3. ASSUME NEW k \in 1..Len(s \o r) PROVE (s \o r)[k].is \in LineKind
    <2>1. CASE k \in 1..Len(s)
      BY <1>2, <2>1 DEF LinesOK
    <2>2. CASE k \notin 1..Len(s)
      <3>1. k - Len(s) \in 1..Len(r) /\ Len(s) + (k - Len(s)) = k
        BY <1>1, <2>2
      <3>2. (s \o r)[k] = r[k - Len(s)]
        BY <1>2, <3>1
      <3>3. QED
        BY <3>1, <3>2 DEF LinesOK
    <2>3. QED
      BY <2>1, <2>2
  <1>4. QED
    BY <1>1, <1>3 DEF LinesOK

LEMMA NoLines == LinesOK(<< >>) /\ Len(<< >>) = 0
  BY DEF LinesOK, IsSeq

LEMMA OneLine ==
    ASSUME NEW line, line.is \in LineKind
    PROVE  LinesOK(<<line>>) /\ Len(<<line>>) = 1 /\ <<line>>[1] = line
  <1>1. <<line>> \in Seq({line}) /\ Len(<<line>>) = 1 /\ <<line>>[1] = line
    OBVIOUS
  <1>2. IsSeq(<<line>>)
    BY <1>1 DEF IsSeq
  <1>3. \A k \in 1..1 : k = 1
    OBVIOUS
  <1>4. QED
    BY <1>1, <1>2, <1>3 DEF LinesOK

LEMMA CodecLinesOK ==
    ASSUME NEW kind \in Kind, NEW style \in Styles
    PROVE  /\ LinesOK(CodecLines(kind, style))
           /\ Len(CodecLines(kind, style)) > 0
           /\ \A i \in 1..Len(CodecLines(kind, style)) : CodecLines(kind, style)[i].is = "codec"
  <1>1. \E n \in Nat \ {0} : DOMAIN Types(kind, style) = 1..n
    <2>1. CASE kind = "audio" /\ style = "many"
      <3>1. Types(kind, style) = <<63, Opus, 9>>
        BY <2>1 DEF Types
      <3>2. DOMAIN <<63, Opus, 9>> = 1..3
        OBVIOUS
      <3>3. QED
        BY <3>1, <3>2
    <2>2. CASE kind = "audio" /\ style # "many"
      <3>1. Types(kind, style) = <<Opus>>
        BY <2>2 DEF Types
      <3>2. DOMAIN <<Opus>> = 1..1
        OBVIOUS
      <3>3. QED
        BY <3>1, <3>2
    <2>3. CASE kind = "video" /\ style = "many"
      <3>1. Types(kind, style) = <<96, 97, 98, 99>>
        BY <2>3 DEF Types
      <3>2. DOMAIN <<96, 97, 98, 99>> = 1..4
        OBVIOUS
      <3>3. QED
        BY <3>1, <3>2
    <2>4. CASE kind = "video" /\ style # "many"
      <3>1. Types(kind, style) = <<96>>
        BY <2>4 DEF Types
      <3>2. DOMAIN <<96>> = 1..1
        OBVIOUS
      <3>3. QED
        BY <3>1, <3>2
    <2>5. QED
      BY <2>1, <2>2, <2>3, <2>4 DEF Kind
  <1>2. PICK n \in Nat \ {0} : DOMAIN Types(kind, style) = 1..n
    BY <1>1
  <1> DEFINE s == CodecLines(kind, style)
  <1>3. s = [i \in 1..n |-> s[i]] /\ \A i \in 1..n : s[i].is = "codec"
    BY <1>2 DEF CodecLines
  <1> HIDE DEF s
  <1>4. IsSeq(s) /\ Len(s) = n
    BY <1>3, FcnIsSeq
  <1>5. QED
    BY <1>3, <1>4 DEF LinesOK, LineKind, s

\* The lines for a track begin with its m-line, and describe it.
LEMMA MediaLinesOK ==
    ASSUME NEW mid, mid[2] \in Kind, NEW dir, NEW style \in Styles
    PROVE  BlockOf(MediaLines(mid, dir, style), mid, dir, style)
  <1> DEFINE m == [is |-> "m", media |-> mid[2], pts |-> Types(mid[2], style)]
             a == << m, [is |-> "own"], [is |-> "mid", mid |-> mid], [is |-> "other"] >>
             d == IF dir = "sendrecv" THEN << >> ELSE << [is |-> "direction", dir |-> dir] >>
             r == IF style = "many" THEN << [is |-> "rsize"] >> ELSE << >>
             cl == CodecLines(mid[2], style)
             all == MediaLines(mid, dir, style)
  <1>1. all = ((a \o d) \o r) \o cl
    BY DEF MediaLines
  <1>2. /\ LinesOK(a) /\ Len(a) = 4
        /\ a[1].is = "m" /\ a[1].media = mid[2] /\ a[1].pts = Types(mid[2], style)
        /\ a[2].is = "own" /\ a[3].is = "mid" /\ a[3].mid = mid /\ a[4].is = "other"
    <2>1. /\ m.is = "m" /\ m.media = mid[2] /\ m.pts = Types(mid[2], style) /\ a[1] = m /\ a[2] = [is |-> "own"]
          /\ a[3] = [is |-> "mid", mid |-> mid] /\ a[4] = [is |-> "other"]
      OBVIOUS
    <2> HIDE DEF m
    <2>2. a = [i \in 1..4 |-> a[i]]
      OBVIOUS
    <2>3. /\ a[1].is = "m" /\ a[1].media = mid[2] /\ a[1].pts = Types(mid[2], style)
          /\ a[2].is = "own" /\ a[3].is = "mid" /\ a[3].mid = mid /\ a[4].is = "other"
      BY <2>1
    <2> HIDE DEF a
    <2>4. IsSeq(a) /\ Len(a) = 4
      BY <2>2, FcnIsSeq
    <2>5. \A k \in 1..4 : k = 1 \/ k = 2 \/ k = 3 \/ k = 4
      OBVIOUS
    <2>6. QED
      BY <2>3, <2>4, <2>5 DEF LinesOK, LineKind
  <1>3. /\ LinesOK(d) /\ Len(d) \in Nat
        /\ IF dir = "sendrecv" THEN Len(d) = 0
           ELSE Len(d) = 1 /\ d[1].is = "direction" /\ d[1].dir = dir
    <2>1. PICK line : line = [is |-> "direction", dir |-> dir]
      OBVIOUS
    <2>2. line.is = "direction" /\ line.dir = dir /\ line.is \in LineKind
      BY <2>1 DEF LineKind
    <2>3. d = IF dir = "sendrecv" THEN << >> ELSE <<line>>
      BY <2>1
    <2> HIDE DEF d
    <2>4. LinesOK(<<line>>) /\ Len(<<line>>) = 1 /\ <<line>>[1] = line
      BY <2>2, OneLine
    <2>5. QED
      BY <2>2, <2>3, <2>4, NoLines
  <1>4. LinesOK(r) /\ \A i \in 1..Len(r) : r[i].is = "rsize"
    <2>1. PICK line : line = [is |-> "rsize"]
      OBVIOUS
    <2>2. line.is = "rsize" /\ line.is \in LineKind
      BY <2>1 DEF LineKind
    <2>3. r = IF style = "many" THEN <<line>> ELSE << >>
      BY <2>1
    <2> HIDE DEF r
    <2>4. LinesOK(<<line>>) /\ Len(<<line>>) = 1 /\ <<line>>[1] = line
      BY <2>2, OneLine
    <2>5. QED
      BY <2>2, <2>3, <2>4, NoLines
  <1>5. LinesOK(cl) /\ Len(cl) > 0 /\ \A i \in 1..Len(cl) : cl[i].is = "codec"
    BY CodecLinesOK
  <1> HIDE DEF m, a, d, r, cl, all
  <1> DEFINE h == a \o d
             hr == h \o r
             t == hr \o cl
  <1>6. LinesOK(h) /\ LinesOK(hr) /\ LinesOK(t)
    <2>1. LinesOK(h)
      BY <1>2, <1>3, ConcatLines
    <2> HIDE DEF h
    <2>2. LinesOK(hr)
      BY <2>1, <1>4, ConcatLines
    <2> HIDE DEF hr
    <2>3. LinesOK(t)
      BY <2>2, <1>5, ConcatLines
    <2>4. QED
      BY <2>1, <2>2, <2>3
  <1>7. /\ Len(h) = 4 + Len(d) /\ \A i \in 1..4 : h[i] = a[i]
        /\ \A i \in 1..Len(d) : h[4 + i] = d[i]
    <2>1. IsSeq(a) /\ IsSeq(d)
      BY <1>2, <1>3 DEF LinesOK
    <2>2. /\ Len(a \o d) = Len(a) + Len(d)
          /\ \A i \in 1..Len(a) : (a \o d)[i] = a[i]
          /\ \A i \in 1..Len(d) : (a \o d)[Len(a) + i] = d[i]
      BY <2>1, ConcatSeq
    <2>3. Len(a) = 4
      BY <1>2
    <2>4. QED
      BY <2>2, <2>3
  <1>8. /\ Len(hr) = Len(h) + Len(r) /\ \A i \in 1..Len(h) : hr[i] = h[i]
        /\ \A i \in 1..Len(r) : hr[Len(h) + i] = r[i]
    BY <1>4, <1>6, ConcatSeq DEF LinesOK
  <1>9. /\ Len(t) = Len(hr) + Len(cl) /\ \A i \in 1..Len(hr) : t[i] = hr[i]
        /\ \A i \in 1..Len(cl) : t[Len(hr) + i] = cl[i]
    BY <1>5, <1>6, ConcatSeq DEF LinesOK
  <1>10. /\ Len(h) \in Nat /\ Len(r) \in Nat /\ Len(hr) \in Nat /\ Len(cl) \in Nat /\ Len(t) \in Nat
         /\ IsSeq(t)
    BY <1>4, <1>5, <1>6, SeqProps DEF LinesOK
  <1>11. t = all
    BY <1>1
  <1> HIDE DEF h, hr, t
  <1>12. \A i \in 1..4 : t[i] = a[i]
    <2>1. \A i \in 1..4 : i \in 1..Len(h) /\ i \in 1..Len(hr)
      BY <1>3, <1>7, <1>8, <1>10
    <2>2. QED
      BY <1>7, <1>8, <1>9, <2>1
  <1>13. ASSUME NEW k \in 1..Len(t), k > 4
         PROVE  /\ t[k].is \in {"direction", "rsize", "codec"}
                /\ t[k].is = "direction" => k = 5 /\ t[k].dir = dir
                /\ t[k].is = "codec" => \E i \in 1..Len(cl) : t[k] = cl[i]
    <2>1. CASE k <= Len(h)
      <3>1. dir # "sendrecv" /\ Len(d) = 1 /\ d[1].is = "direction" /\ d[1].dir = dir /\ k = 5
        BY <1>3, <1>7, <1>10, <1>13, <2>1
      <3>2. 1 \in 1..1 /\ 4 + 1 = 5 /\ 5 \in 1..Len(h) /\ 5 \in 1..Len(hr)
        BY <1>8, <1>10, <2>1, <3>1
      <3>3. t[5] = d[1]
        BY <1>7, <1>8, <1>9, <3>1, <3>2
      <3>4. QED
        BY <3>1, <3>3
    <2>2. CASE k > Len(h) /\ k <= Len(hr)
      <3>1. k - Len(h) \in 1..Len(r) /\ Len(h) + (k - Len(h)) = k /\ k \in 1..Len(hr)
        BY <1>8, <1>10, <2>2
      <3>2. t[k] = r[k - Len(h)]
        BY <1>8, <1>9, <3>1
      <3>3. QED
        BY <1>4, <3>1, <3>2
    <2>3. CASE k > Len(hr)
      <3>1. k - Len(hr) \in 1..Len(cl) /\ Len(hr) + (k - Len(hr)) = k
        BY <1>9, <1>10, <2>3
      <3>2. t[k] = cl[k - Len(hr)]
        BY <1>9, <3>1
      <3>3. QED
        BY <1>5, <3>1, <3>2
    <2>4. QED
      BY <1>10, <2>1, <2>2, <2>3
  <1>14. ASSUME dir # "sendrecv" PROVE t[5].is = "direction"
    <2>1. Len(d) = 1 /\ d[1].is = "direction" /\ 1 \in 1..1 /\ 4 + 1 = 5
      BY <1>3, <1>14
    <2>2. 5 \in 1..Len(h) /\ 5 \in 1..Len(hr)
      BY <1>7, <1>8, <1>10, <2>1
    <2>3. t[5] = d[1]
      BY <1>7, <1>8, <1>9, <2>1, <2>2
    <2>4. QED
      BY <2>1, <2>3
  <1>15. Len(t) >= 5
    BY <1>3, <1>5, <1>7, <1>8, <1>9, <1>10
  <1>16. ASSUME NEW k \in 1..Len(t)
         PROVE  /\ t[k].is = "m" <=> k = 1
                /\ t[k].is = "mid" <=> k = 3
                /\ t[k].is = "direction" => k = 5 /\ t[k].dir = dir
                /\ t[k].is = "codec" => k > 4
    <2>1. CASE k > 4
      BY <1>13, <2>1
    <2>2. CASE ~(k > 4)
      <3>1. k \in 1..4 /\ (k = 1 \/ k = 2 \/ k = 3 \/ k = 4)
        BY <1>10, <2>2
      <3>2. QED
        BY <1>2, <1>12, <3>1
    <2>3. QED
      BY <2>1, <2>2
  <1>17. {t[k] : k \in {i \in 1..Len(t) : t[i].is = "codec"}} = ToSet(cl)
    <2>1. ToSet(cl) = {cl[i] : i \in 1..Len(cl)}
      BY <1>5, SetOfSeq DEF LinesOK
    <2>2. ASSUME NEW i \in 1..Len(cl)
          PROVE  Len(hr) + i \in 1..Len(t) /\ t[Len(hr) + i] = cl[i] /\ cl[i].is = "codec"
      BY <1>5, <1>9, <1>10
    <2>3. \A k \in 1..Len(t) : t[k].is = "codec" => \E i \in 1..Len(cl) : t[k] = cl[i]
      BY <1>13, <1>16
    <2> DEFINE codecs == {k \in 1..Len(t) : t[k].is = "codec"}
    <2>4. ASSUME NEW x \in {cl[i] : i \in 1..Len(cl)} PROVE x \in {t[k] : k \in codecs}
      <3>1. PICK i \in 1..Len(cl) : x = cl[i]
        BY <2>4
      <3>2. PICK k : k = Len(hr) + i
        OBVIOUS
      <3>3. k \in 1..Len(t) /\ t[k] = x /\ t[k].is = "codec"
        BY <2>2, <3>1, <3>2
      <3>4. QED
        BY <3>3
    <2>5. ASSUME NEW x \in {t[k] : k \in codecs} PROVE x \in {cl[i] : i \in 1..Len(cl)}
      BY <2>3, <2>5
    <2>6. {t[k] : k \in codecs} = {cl[i] : i \in 1..Len(cl)}
      BY <2>4, <2>5
    <2>7. QED
      BY <2>1, <2>6
  <1>18. /\ t[1].media = mid[2] /\ t[1].pts = Types(mid[2], style) /\ t[3].mid = mid
    BY <1>2, <1>12
  <1>19. LinesOK(t)
    BY <1>6
  <1>20. BlockOf(t, mid, dir, style)
    BY <1>14, <1>15, <1>16, <1>17, <1>18, <1>19 DEF BlockOf, cl
  <1>21. QED
    BY <1>11, <1>20 DEF all

\* What the server reads of the m-lines that L lists, each with its mid and
\* direction: the sections p, and the lines m and d of their media and mids.
Listed(p, m, d, L, style) ==
    /\ IsSeq(L) /\ IsSeq(p) /\ IsSeq(m) /\ IsSeq(d)
    /\ Len(p) = Len(L) /\ Len(m) = Len(L) /\ Len(d) = Len(L)
    /\ \A i \in 1..Len(L) :
          /\ Described(p[i], L[i][1], L[i][2], style)
          /\ m[i].media = L[i][1][2] /\ m[i].pts = Types(L[i][1][2], style)
          /\ d[i].mid = L[i][1]

LEMMA OneMoreListed ==
    ASSUME NEW p, NEW m, NEW d, NEW L, NEW style, Listed(p, m, d, L, style),
           NEW mid, NEW dir, NEW e, Described(e, mid, dir, style),
           NEW first, first.media = mid[2], first.pts = Types(mid[2], style),
           NEW third, third.mid = mid
    PROVE  Listed(Append(p, e), Append(m, first), Append(d, third), Append(L, <<mid, dir>>), style)
  <1> DEFINE n == Len(L)
             L2 == Append(L, <<mid, dir>>)
             p2 == Append(p, e)
             m2 == Append(m, first)
             d2 == Append(d, third)
  <1>1. n \in Nat
    BY SeqProps DEF Listed
  <1>2. IsSeq(L2) /\ Len(L2) = n + 1 /\ L2[n + 1] = <<mid, dir>> /\ \A i \in 1..n : L2[i] = L[i]
    BY AppendSeq DEF Listed
  <1>3. IsSeq(p2) /\ Len(p2) = n + 1 /\ p2[n + 1] = e /\ \A i \in 1..n : p2[i] = p[i]
    BY AppendSeq DEF Listed
  <1>4. IsSeq(m2) /\ Len(m2) = n + 1 /\ m2[n + 1] = first /\ \A i \in 1..n : m2[i] = m[i]
    BY AppendSeq DEF Listed
  <1>5. IsSeq(d2) /\ Len(d2) = n + 1 /\ d2[n + 1] = third /\ \A i \in 1..n : d2[i] = d[i]
    BY AppendSeq DEF Listed
  <1> HIDE DEF L2, p2, m2, d2
  <1>6. ASSUME NEW i \in 1..(n + 1)
        PROVE  /\ Described(p2[i], L2[i][1], L2[i][2], style)
               /\ m2[i].media = L2[i][1][2] /\ m2[i].pts = Types(L2[i][1][2], style)
               /\ d2[i].mid = L2[i][1]
    <2>1. CASE i = n + 1
      <3>1. L2[i] = <<mid, dir>> /\ p2[i] = e /\ m2[i] = first /\ d2[i] = third
        BY <1>2, <1>3, <1>4, <1>5, <2>1
      <3>2. L2[i][1] = mid /\ L2[i][2] = dir
        BY <3>1
      <3>3. QED
        BY <3>1, <3>2
    <2>2. CASE i # n + 1
      <3>1. i \in 1..n
        BY <1>1, <2>2
      <3>2. L2[i] = L[i] /\ p2[i] = p[i] /\ m2[i] = m[i] /\ d2[i] = d[i]
        BY <1>2, <1>3, <1>4, <1>5, <3>1
      <3>3. QED
        BY <3>1, <3>2 DEF Listed
    <2>3. QED
      BY <2>1, <2>2
  <1>7. Listed(p2, m2, d2, L2, style)
    BY <1>2, <1>3, <1>4, <1>5, <1>6 DEF Listed
  <1>8. QED
    BY <1>7 DEF p2, m2, d2, L2

LEMMA BlockListed ==
    ASSUME NEW offer, LinesOK(offer), NEW p, NEW m, NEW d, Reads(offer, p, m, d),
           NEW q \in Nat, NEW b, NEW mid, NEW dir, NEW style, BlockOf(b, mid, dir, style),
           At(offer, q, b), NEW L, Listed(p[q], m[q], d[q], L, style)
    PROVE  LET x == q + Len(b)
           IN  Listed(p[x], m[x], d[x], Append(L, <<mid, dir>>), style)
  <1>1. PICK e : p[q + Len(b)] = Append(p[q], e) /\ Described(e, mid, dir, style)
    BY BlockRead DEF Listed
  <1>2. /\ m[q + Len(b)] = Append(m[q], b[1])
        /\ d[q + Len(b)] = Append(d[q], b[3])
    BY BlockRead DEF Listed
  <1>3. PICK first, third : first = b[1] /\ third = b[3]
    OBVIOUS
  <1>4. first.media = mid[2] /\ first.pts = Types(mid[2], style) /\ third.mid = mid
    BY <1>3 DEF BlockOf
  <1>5. PICK r, s, t : r = p[q] /\ s = m[q] /\ t = d[q]
    OBVIOUS
  <1>6. Listed(r, s, t, L, style)
    BY <1>5
  <1>7. Listed(Append(r, e), Append(s, first), Append(t, third), Append(L, <<mid, dir>>), style)
    BY <1>1, <1>4, <1>6, OneMoreListed
  <1>8. QED
    BY <1>1, <1>2, <1>3, <1>5, <1>7

LEMMA AtWithin ==
    ASSUME NEW s, NEW q \in Nat, NEW r, IsSeq(r), At(s, q, r),
           NEW x \in Nat, NEW b, IsSeq(b), At(r, x, b), Len(s) \in Nat
    PROVE  At(s, q + x, b)
  <1>1. Len(r) \in Nat /\ Len(b) \in Nat
    BY SeqProps
  <1>2. \A i \in 1..Len(b) : x + i \in 1..Len(r) /\ (q + x) + i = q + (x + i)
    BY <1>1 DEF At
  <1>3. (q + x) + Len(b) <= Len(s)
    BY <1>1 DEF At
  <1>4. QED
    BY <1>2, <1>3 DEF At

\* The blocks of lines for some tracks.
Blocks(tracks, dir, style) == [i \in DOMAIN tracks |-> MediaLines(tracks[i], dir, style)]

LEMMA BlocksOK ==
    ASSUME NEW tracks, IsSeq(tracks), \A j \in 1..Len(tracks) : tracks[j][2] \in Kind,
           NEW dir, NEW style \in Styles
    PROVE  LET bs == Blocks(tracks, dir, style) IN
           /\ IsSeq(bs) /\ Len(bs) = Len(tracks)
           /\ \A j \in 1..Len(tracks) : BlockOf(bs[j], tracks[j], dir, style)
  <1> DEFINE bs == Blocks(tracks, dir, style)
             n == Len(tracks)
  <1>1. DOMAIN tracks = 1..n /\ n \in Nat
    BY SeqProps
  <1>2. bs = [i \in 1..n |-> bs[i]] /\ \A j \in 1..n : bs[j] = MediaLines(tracks[j], dir, style)
    BY <1>1 DEF Blocks
  <1> HIDE DEF bs
  <1>3. IsSeq(bs) /\ Len(bs) = n
    BY <1>1, <1>2, FcnIsSeq
  <1>4. \A j \in 1..n : BlockOf(bs[j], tracks[j], dir, style)
    BY <1>2, MediaLinesOK
  <1>5. QED
    BY <1>3, <1>4 DEF bs

\* The blocks of some tracks are listed after what was listed before them.
LEMMA BlocksListed ==
    ASSUME NEW offer, LinesOK(offer), NEW p, NEW m, NEW d, Reads(offer, p, m, d),
           NEW tracks, IsSeq(tracks), \A j \in 1..Len(tracks) : tracks[j][2] \in Kind,
           NEW dir, NEW style \in Styles,
           NEW q \in Nat, At(offer, q, FlattenSeq(Blocks(tracks, dir, style))),
           NEW L, Listed(p[q], m[q], d[q], L, style)
    PROVE  LET x == q + Len(FlattenSeq(Blocks(tracks, dir, style)))
           IN  \E after : /\ Listed(p[x], m[x], d[x], after, style)
                          /\ ToSet(after) = ToSet(L) \cup {<<tracks[j], dir>> : j \in 1..Len(tracks)}
  <1> DEFINE bs == Blocks(tracks, dir, style)
             f == FlattenSeq(bs)
             n == Len(tracks)
             Entries(k) == {<<tracks[j], dir>> : j \in 1..k}
             Good(k, x) == \E after : /\ Listed(p[x], m[x], d[x], after, style)
                                      /\ ToSet(after) = ToSet(L) \cup Entries(k)
  <1>1. IsSeq(bs) /\ Len(bs) = n /\ \A j \in 1..n : BlockOf(bs[j], tracks[j], dir, style)
    BY BlocksOK
  <1>2. n \in Nat /\ Len(offer) \in Nat
    BY SeqProps DEF LinesOK
  <1>3. \A j \in 1..n : IsSeq(bs[j])
    BY <1>1 DEF BlockOf, LinesOK
  <1>4. PICK off : Offsets(bs, f, off)
    BY <1>1, <1>3, FlattenPlaces
  <1>5. IsSeq(f)
    BY <1>1, <1>3, FlattenPlaces
  <1>6. At(offer, q, f)
    OBVIOUS
  <1> HIDE DEF bs, f
  <1> DEFINE K == {k \in 0..n : off[k] \in Nat /\ Good(k, q + off[k])}
  <1>7. 0 \in K
    <2>1. Entries(0) = {} /\ off[0] = 0 /\ q + 0 = q
      BY <1>4 DEF Offsets
    <2> HIDE DEF Entries
    <2>2. QED
      BY <1>2, <2>1
  <1>8. ASSUME NEW k \in 0..n, k < n, k \in K PROVE k + 1 \in K
    <2>1. k + 1 \in 1..n /\ (k + 1) - 1 = k
      BY <1>2, <1>8
    <2>2. PICK b, x : b = bs[k + 1] /\ x = off[k]
      OBVIOUS
    <2>3. x \in Nat /\ off[k + 1] = x + Len(b) /\ At(f, x, b)
      BY <1>1, <1>4, <2>1, <2>2 DEF Offsets
    <2>4. BlockOf(b, tracks[k + 1], dir, style) /\ IsSeq(b) /\ Len(b) \in Nat
      BY <1>1, <1>3, <2>1, <2>2, SeqProps
    <2>5. At(offer, q + x, b)
      BY <1>2, <1>5, <1>6, <2>3, <2>4, AtWithin
    <2>6. PICK before : /\ Listed(p[q + x], m[q + x], d[q + x], before, style)
                        /\ ToSet(before) = ToSet(L) \cup Entries(k)
      BY <1>8, <2>2
    <2>7. PICK mid : mid = tracks[k + 1]
      OBVIOUS
    <2>8. PICK after : after = Append(before, <<mid, dir>>)
      OBVIOUS
    <2>9. q + x \in Nat /\ (q + x) + Len(b) = q + off[k + 1]
      BY <2>3, <2>4
    <2>10. Listed(p[q + off[k + 1]], m[q + off[k + 1]], d[q + off[k + 1]], after, style)
      BY <2>4, <2>5, <2>6, <2>7, <2>8, <2>9, BlockListed
    <2>11. ToSet(after) = ToSet(before) \cup {<<mid, dir>>}
      <3>1. IsSeq(before)
        BY <2>6 DEF Listed
      <3>2. QED
        BY <2>8, <3>1, SetOfAppend
    <2>12. Entries(k + 1) = Entries(k) \cup {<<mid, dir>>}
      <3>1. \A j : j \in 1..(k + 1) <=> j \in 1..k \/ j = k + 1
        BY <2>1
      <3>2. QED
        BY <2>7, <3>1
    <2> HIDE DEF Entries
    <2>13. Good(k + 1, q + off[k + 1])
      BY <2>6, <2>10, <2>11, <2>12
    <2>14. QED
      BY <2>1, <2>3, <2>4, <2>13
  <1> HIDE DEF K
  <1>9. \A k \in 0..n : k \in K
    BY <1>2, <1>7, <1>8, UpTo
  <1>10. n \in 0..n /\ off[n] = Len(f)
    BY <1>1, <1>2, <1>4 DEF Offsets
  <1>11. Good(n, q + Len(f))
    BY <1>9, <1>10 DEF K
  <1>12. QED
    BY <1>11 DEF f, bs

LEMMA FlattenLines ==
    ASSUME NEW bs, IsSeq(bs), \A j \in 1..Len(bs) : LinesOK(bs[j])
    PROVE  LinesOK(FlattenSeq(bs))
  <1> DEFINE n == Len(bs)
  <1>1. n \in Nat
    BY SeqProps
  <1>2. CASE n = 0
    BY <1>2, NoLines DEF FlattenSeq, LinesOK
  <1>3. CASE n > 0
    <2>1. PICK f : Flat(bs, n, f) /\ FlattenSeq(bs) = f[n]
      BY <1>3, FlattenSteps
    <2> DEFINE K == {k \in 1..n : LinesOK(f[k])}
    <2>2. 1 \in K
      BY <1>1, <1>3, <2>1 DEF Flat
    <2>3. ASSUME NEW k \in 1..n, k < n, k \in K PROVE k + 1 \in K
      <3>1. k + 1 \in 1..n /\ k + 1 # 1 /\ (k + 1) - 1 = k
        BY <1>1, <2>3
      <3>2. f[k + 1] = f[k] \o bs[k + 1]
        BY <2>1, <3>1 DEF Flat
      <3>3. LinesOK(f[k] \o bs[k + 1])
        BY <2>3, <3>1, ConcatLines
      <3>4. QED
        BY <3>1, <3>2, <3>3
    <2> HIDE DEF K
    <2>4. \A k \in 1..n : k \in K
      BY <1>1, <1>3, <2>2, <2>3, UpTo
    <2>5. n \in K
      BY <1>1, <1>3, <2>4
    <2>6. QED
      BY <2>1, <2>5 DEF K
  <1>4. QED
    BY <1>1, <1>2, <1>3

\* What may be an m-line of an offer, with its direction.
Offered(c, want) ==
    {<<t, dir>> : t \in TracksOf(c), dir \in {"sendrecv", "sendonly"}}
    \cup {<<OldTrack, "inactive">>}
    \cup {<<want[j], "recvonly">> : j \in 1..Len(want)}

\* The server reads an offer's m-lines: the client's own, an old one, and one
\* for each track it wants.
LEMMA OfferRead ==
    ASSUME NEW c \in Client, NEW want \in Seq(Track), NEW style \in Styles
    PROVE  LET offer == Offer(c, want, style) IN
           \E L : /\ Listed(ParseOffer(offer), Media(offer), Mids(offer), L, style)
                  /\ ToSet(L) \subseteq Offered(c, want)
                  /\ \A j \in 1..Len(want) : <<want[j], "recvonly">> \in ToSet(L)
  <1> DEFINE own == SetToSeq(TracksOf(c))
             dir == IF style = "stopped" THEN "sendonly" ELSE "sendrecv"
             other == << [is |-> "other"] >>
             old == IF style = "stopped" THEN MediaLines(OldTrack, "inactive", style) ELSE << >>
             f1 == FlattenSeq(Blocks(own, dir, style))
             f2 == FlattenSeq(Blocks(want, "recvonly", style))
             s1 == other \o f1
             s2 == s1 \o old
             offer == Offer(c, want, style)
  <1>1. own \in Seq(TracksOf(c))
    <2>1. IsFiniteSet(TracksOf(c))
      BY TracksAreFinite, FS_Subset DEF TracksOf
    <2>2. QED
      BY <2>1, SetToSeqTyped
  <1>2. offer = s2 \o f2
    BY DEF Offer, Blocks
  <1>3. dir \in {"sendrecv", "sendonly"}
    OBVIOUS
  <1>4. LinesOK(other) /\ Len(other) = 1 /\ other[1].is = "other"
    <2>1. PICK line : line = [is |-> "other"]
      OBVIOUS
    <2>2. line.is = "other" /\ line.is \in LineKind
      BY <2>1 DEF LineKind
    <2>3. QED
      BY <2>1, <2>2, OneLine
  <1>5. IF style = "stopped" THEN BlockOf(old, OldTrack, "inactive", style) ELSE old = << >>
    <2>1. OldTrack[2] \in Kind
      BY DEF OldTrack, Kind
    <2>2. QED
      BY <2>1, MediaLinesOK
  <1> HIDE DEF own, dir, other, old
  <1>6. /\ IsSeq(own) /\ \A j \in 1..Len(own) : own[j] \in TracksOf(c) /\ own[j][2] \in Kind
        /\ IsSeq(want) /\ \A j \in 1..Len(want) : want[j][2] \in Kind
    <2>1. \A j \in 1..Len(own) : own[j] \in TracksOf(c)
      BY <1>1
    <2>2. \A t \in Track : t[2] \in Kind
      BY TrackProps
    <2>3. \A j \in 1..Len(want) : want[j] \in Track
      OBVIOUS
    <2>4. QED
      BY <1>1, <2>1, <2>2, <2>3 DEF IsSeq, TracksOf
  <1>7. LinesOK(f1) /\ LinesOK(f2) /\ LinesOK(old)
    <2>1. LinesOK(f1)
      BY <1>6, BlocksOK, FlattenLines DEF BlockOf
    <2>2. LinesOK(f2)
      BY <1>6, BlocksOK, FlattenLines DEF BlockOf
    <2>3. QED
      BY <1>5, <2>1, <2>2, NoLines DEF BlockOf
  <1> HIDE DEF f1, f2, offer
  <1>8. LinesOK(s1) /\ LinesOK(s2) /\ LinesOK(offer)
    <2>1. LinesOK(s1)
      BY <1>4, <1>7, ConcatLines
    <2> HIDE DEF s1
    <2>2. LinesOK(s2)
      BY <1>7, <2>1, ConcatLines
    <2> HIDE DEF s2
    <2>3. LinesOK(offer)
      BY <1>2, <1>7, <2>2, ConcatLines
    <2>4. QED
      BY <2>1, <2>2, <2>3
  <1>9. /\ IsSeq(other) /\ IsSeq(f1) /\ IsSeq(old) /\ IsSeq(f2)
        /\ IsSeq(s1) /\ IsSeq(s2) /\ IsSeq(offer)
        /\ Len(f1) \in Nat /\ Len(old) \in Nat /\ Len(f2) \in Nat
    BY <1>4, <1>7, <1>8, SeqProps DEF LinesOK
  <1> DEFINE q1 == 1 + Len(f1)
             q2 == q1 + Len(old)
  <1>10. Len(s1) = q1 /\ Len(s2) = q2 /\ Len(offer) = q2 + Len(f2) /\ q1 \in Nat /\ q2 \in Nat
    <2>1. Len(s1) = q1
      <3>1. Len(other \o f1) = Len(other) + Len(f1)
        BY <1>9, ConcatSeq
      <3>2. QED
        BY <1>4, <3>1
    <2> HIDE DEF s1
    <2>2. Len(s2) = q2
      BY <1>9, <2>1, ConcatSeq
    <2> HIDE DEF s2
    <2>3. Len(offer) = q2 + Len(f2)
      BY <1>2, <1>9, <2>2, ConcatSeq
    <2>4. QED
      BY <1>9, <2>1, <2>2, <2>3
  <1>11. At(offer, 0, other) /\ At(offer, 1, f1) /\ At(offer, q1, old) /\ At(offer, q2, f2)
    <2>1. At(s1, 0, other) /\ At(s1, 1, f1)
      <3>1. At(other, 0, other)
        BY <1>4 DEF At
      <3>2. QED
        BY <1>4, <1>9, <3>1, AtConcat, 0 \in Nat
    <2> HIDE DEF s1
    <2>2. At(s2, 0, other) /\ At(s2, 1, f1) /\ At(s2, q1, old)
      BY <1>9, <1>10, <2>1, AtConcat, 0 \in Nat, 1 \in Nat
    <2> HIDE DEF s2
    <2>3. At(offer, 0, other) /\ At(offer, 1, f1) /\ At(offer, q1, old) /\ At(offer, q2, f2)
      BY <1>2, <1>9, <1>10, <2>2, AtConcat, 0 \in Nat, 1 \in Nat
    <2>4. QED
      BY <2>3
  <1>12. PICK p, m, d : /\ Reads(offer, p, m, d)
                        /\ ParseOffer(offer) = p[Len(offer)]
                        /\ Media(offer) = m[Len(offer)] /\ Mids(offer) = d[Len(offer)]
    BY <1>9, OfferReads
  <1> HIDE DEF s1, s2
  <1>13. Listed(p[1], m[1], d[1], << >>, style) /\ ToSet(<< >>) = {}
    <2>1. offer[1] = other[1] /\ 1 \in 1..Len(offer)
      <3>1. 1 \in 1..1 /\ 0 + 1 = 1
        OBVIOUS
      <3>2. QED
        BY <1>4, <1>9, <1>10, <1>11, <3>1 DEF At
    <2>2. /\ p[1] = ParseLine(p[0], offer[1])
          /\ m[1] = m[0] /\ d[1] = d[0]
      BY <1>4, <1>12, <2>1 DEF Reads
    <2>3. p[0] = << >> /\ m[0] = << >> /\ d[0] = << >> /\ offer[1].is = "other" /\ Len(<< >>) = 0
      BY <1>4, <1>12, <2>1 DEF Reads
    <2>4. p[1] = << >>
      BY <2>2, <2>3 DEF ParseLine
    <2>5. IsSeq(<< >>) /\ ToSet(<< >>) = {}
      BY DEF IsSeq, ToSet
    <2>6. QED
      BY <2>2, <2>3, <2>4, <2>5 DEF Listed
  <1>14. PICK L1 : /\ Listed(p[q1], m[q1], d[q1], L1, style)
                   /\ ToSet(L1) = {<<own[j], dir>> : j \in 1..Len(own)}
    <2>1. At(offer, 1, FlattenSeq(Blocks(own, dir, style))) /\ 1 \in Nat
      BY <1>11 DEF f1
    <2>2. \E after : /\ Listed(p[1 + Len(FlattenSeq(Blocks(own, dir, style)))],
                               m[1 + Len(FlattenSeq(Blocks(own, dir, style)))],
                               d[1 + Len(FlattenSeq(Blocks(own, dir, style)))], after, style)
                     /\ ToSet(after) = ToSet(<< >>) \cup {<<own[j], dir>> : j \in 1..Len(own)}
      BY <1>6, <1>8, <1>12, <1>13, <2>1, BlocksListed
    <2>3. QED
      BY <1>13, <2>2 DEF f1
  <1>15. PICK L2 : /\ Listed(p[q2], m[q2], d[q2], L2, style)
                   /\ ToSet(L2) \subseteq ToSet(L1) \cup {<<OldTrack, "inactive">>}
    <2>1. CASE style = "stopped"
      <3>1. Listed(p[q2], m[q2], d[q2], Append(L1, <<OldTrack, "inactive">>), style)
        BY <1>5, <1>8, <1>10, <1>11, <1>12, <1>14, <2>1, BlockListed
      <3>2. ToSet(Append(L1, <<OldTrack, "inactive">>)) = ToSet(L1) \cup {<<OldTrack, "inactive">>}
        BY <1>14, SetOfAppend DEF Listed
      <3>3. QED
        BY <3>1, <3>2
    <2>2. CASE style # "stopped"
      <3>1. q2 = q1
        BY <1>5, <1>10, <2>2, NoLines
      <3>2. QED
        BY <1>14, <3>1
    <2>3. QED
      BY <2>1, <2>2
  <1>16. PICK L : /\ Listed(p[Len(offer)], m[Len(offer)], d[Len(offer)], L, style)
                  /\ ToSet(L) = ToSet(L2) \cup {<<want[j], "recvonly">> : j \in 1..Len(want)}
    <2>1. At(offer, q2, FlattenSeq(Blocks(want, "recvonly", style)))
      BY <1>11 DEF f2
    <2>2. Len(offer) = q2 + Len(FlattenSeq(Blocks(want, "recvonly", style)))
      BY <1>10 DEF f2
    <2>3. q2 \in Nat
      BY <1>10
    <2> HIDE DEF q2
    <2>4. \E after : /\ Listed(p[q2 + Len(FlattenSeq(Blocks(want, "recvonly", style)))],
                               m[q2 + Len(FlattenSeq(Blocks(want, "recvonly", style)))],
                               d[q2 + Len(FlattenSeq(Blocks(want, "recvonly", style)))], after, style)
                     /\ ToSet(after) = ToSet(L2) \cup {<<want[j], "recvonly">> : j \in 1..Len(want)}
      BY <1>6, <1>8, <1>12, <1>15, <2>1, <2>3, BlocksListed
    <2>5. QED
      BY <2>2, <2>4
  <1>17. ToSet(L) \subseteq Offered(c, want)
    BY <1>3, <1>6, <1>14, <1>15, <1>16 DEF Offered
  <1>18. \A j \in 1..Len(want) : <<want[j], "recvonly">> \in ToSet(L)
    BY <1>16
  <1>19. QED
    BY <1>12, <1>16, <1>17, <1>18 DEF offer

-----------------------------------------------------------------------------
(* What the server answers to what it read.                                *)

\* The types of a track, which its codec lines describe.
LEMMA TypesProps ==
    ASSUME NEW kind \in Kind, NEW style \in Styles
    PROVE  LET types == Types(kind, style) IN
           /\ IsSeq(types) /\ types # << >>
           /\ IF kind = "audio" THEN Opus \in ToSet(types) ELSE Head(types) \in ToSet(types)
           /\ ToSet(types) = {line.pt : line \in ToSet(CodecLines(kind, style))}
  <1> DEFINE types == Types(kind, style)
             codecs == CodecLines(kind, style)
  <1>1. \E n \in 1..4 : /\ types = [i \in 1..n |-> types[i]]
                        /\ IF kind = "audio" THEN \E i \in 1..n : types[i] = Opus
                           ELSE Head(types) = types[1]
    <2>1. CASE kind = "audio" /\ style = "many"
      <3>1. types = <<63, Opus, 9>>
        BY <2>1 DEF Types
      <3>2. <<63, Opus, 9>> = [i \in 1..3 |-> <<63, Opus, 9>>[i]] /\ <<63, Opus, 9>>[2] = Opus
        OBVIOUS
      <3>3. 3 \in 1..4 /\ 2 \in 1..3
        OBVIOUS
      <3> HIDE DEF types
      <3>4. QED
        BY <2>1, <3>1, <3>2, <3>3
    <2>2. CASE kind = "audio" /\ style # "many"
      <3>1. types = <<Opus>>
        BY <2>2 DEF Types
      <3>2. <<Opus>> = [i \in 1..1 |-> <<Opus>>[i]] /\ <<Opus>>[1] = Opus
        OBVIOUS
      <3>3. 1 \in 1..4 /\ 1 \in 1..1
        OBVIOUS
      <3> HIDE DEF types
      <3>4. QED
        BY <2>2, <3>1, <3>2, <3>3
    <2>3. CASE kind = "video" /\ style = "many"
      <3>1. types = <<96, 97, 98, 99>>
        BY <2>3 DEF Types
      <3>2. <<96, 97, 98, 99>> = [i \in 1..4 |-> <<96, 97, 98, 99>>[i]]
            /\ Head(<<96, 97, 98, 99>>) = <<96, 97, 98, 99>>[1]
        OBVIOUS
      <3>3. 4 \in 1..4
        OBVIOUS
      <3> HIDE DEF types
      <3>4. QED
        BY <2>3, <3>1, <3>2, <3>3
    <2>4. CASE kind = "video" /\ style # "many"
      <3>1. types = <<96>>
        BY <2>4 DEF Types
      <3>2. <<96>> = [i \in 1..1 |-> <<96>>[i]] /\ Head(<<96>>) = <<96>>[1]
        OBVIOUS
      <3>3. 1 \in 1..4
        OBVIOUS
      <3> HIDE DEF types
      <3>4. QED
        BY <2>4, <3>1, <3>2, <3>3
    <2>5. QED
      BY <2>1, <2>2, <2>3, <2>4 DEF Kind
  <1> HIDE DEF types
  <1>2. PICK n \in 1..4 : /\ types = [i \in 1..n |-> types[i]]
                          /\ IF kind = "audio" THEN \E i \in 1..n : types[i] = Opus
                             ELSE Head(types) = types[1]
    BY <1>1
  <1>3. IsSeq(types) /\ Len(types) = n /\ DOMAIN types = 1..n
    BY <1>2, FcnIsSeq
  <1>4. ToSet(types) = {types[i] : i \in 1..n}
    BY <1>3, SetOfSeq
  <1>5. codecs = [i \in 1..n |-> codecs[i]] /\ \A i \in 1..n : codecs[i].pt = types[i]
    BY <1>3 DEF CodecLines, types
  <1> HIDE DEF codecs
  <1>6. IsSeq(codecs) /\ Len(codecs) = n
    BY <1>5, FcnIsSeq
  <1>7. ToSet(codecs) = {codecs[i] : i \in 1..n}
    BY <1>6, SetOfSeq
  <1>8. ToSet(types) = {line.pt : line \in ToSet(codecs)}
    <2>1. ASSUME NEW pt \in ToSet(types) PROVE pt \in {line.pt : line \in ToSet(codecs)}
      <3>1. PICK i \in 1..n : pt = types[i]
        BY <1>4, <2>1
      <3>2. codecs[i] \in ToSet(codecs) /\ codecs[i].pt = pt
        BY <1>5, <1>7, <3>1
      <3>3. QED
        BY <3>2
    <2>2. ASSUME NEW line \in ToSet(codecs) PROVE line.pt \in ToSet(types)
      BY <1>4, <1>5, <1>7, <2>2
    <2>3. QED
      BY <2>1, <2>2
  <1>9. IF kind = "audio" THEN Opus \in ToSet(types) ELSE Head(types) \in ToSet(types)
    BY <1>2, <1>4
  <1>10. types # << >>
    BY <1>3, NoLines
  <1>11. QED
    BY <1>3, <1>8, <1>9, <1>10 DEF types, codecs

\* Of an offered audio track's types only Opus is kept.
LEMMA OpusIsKept ==
    ASSUME NEW style \in Styles
    PROVE  Keep(Types("audio", style), {Opus}) = <<Opus>>
  <1>1. CASE style = "many"
    <2>1. PICK s : s = <<63, Opus, 9>>
      OBVIOUS
    <2>2. IsSeq(s) /\ Len(s) = 3 /\ s[1] # Opus /\ s[2] = Opus /\ s[3] # Opus
      <3>1. s = [i \in 1..3 |-> s[i]]
        BY <2>1
      <3>2. IsSeq(s) /\ Len(s) = 3
        BY <3>1, FcnIsSeq
      <3>3. QED
        BY <2>1, <3>2 DEF Opus
    <2> DEFINE S == {Opus}
    <2> HIDE DEF S
    <2>0. IsSeq(s)
      BY <2>2
    <2>3. PICK k : /\ Keep(s, S) = k[Len(s)] /\ k[0] = << >>
                   /\ \A i \in 1..Len(s) :
                         k[i] = IF s[i] \in S THEN Append(k[i - 1], s[i]) ELSE k[i - 1]
      BY <2>0, KeepSteps
    <2>4. k[1] = k[0] /\ k[2] = Append(k[1], Opus) /\ k[3] = k[2]
      BY <2>2, <2>3 DEF S
    <2>5. Append(<< >>, Opus) = <<Opus>>
      OBVIOUS
    <2>6. Types("audio", style) = s
      BY <1>1, <2>1 DEF Types
    <2>7. QED
      BY <2>2, <2>3, <2>4, <2>5, <2>6 DEF S
  <1>2. CASE style # "many"
    <2>1. PICK s : s = <<Opus>>
      OBVIOUS
    <2>2. IsSeq(s) /\ Len(s) = 1 /\ s[1] = Opus
      <3>1. s = [i \in 1..1 |-> s[i]]
        BY <2>1
      <3>2. IsSeq(s) /\ Len(s) = 1
        BY <3>1, FcnIsSeq
      <3>3. QED
        BY <2>1, <3>2
    <2> DEFINE S == {Opus}
    <2> HIDE DEF S
    <2>0. IsSeq(s)
      BY <2>2
    <2>3. PICK k : /\ Keep(s, S) = k[Len(s)] /\ k[0] = << >>
                   /\ \A i \in 1..Len(s) :
                         k[i] = IF s[i] \in S THEN Append(k[i - 1], s[i]) ELSE k[i - 1]
      BY <2>0, KeepSteps
    <2>4. k[1] = Append(k[0], Opus)
      BY <2>2, <2>3 DEF S
    <2>5. Append(<< >>, Opus) = <<Opus>>
      OBVIOUS
    <2>6. Types("audio", style) = s
      BY <1>2, <2>1 DEF Types
    <2>7. QED
      BY <2>2, <2>3, <2>4, <2>5, <2>6 DEF S
  <1>3. QED
    BY <1>1, <1>2

\* The section a answers an m-line for mid in direction dir.
AnswersSection(a, c, mid, dir, style, conference) ==
    /\ {"media", "pts", "mid", "dir", "rsize", "lines", "ice", "ssrc"} \subseteq DOMAIN a
    /\ a.ice = c /\ a.mid = mid /\ a.media = mid[2] /\ a.dir = AnswerDirection(dir, conference)
    /\ a.pts # << >> /\ ToSet(a.pts) = CodecTypes(a)
    /\ ToSet(a.pts) \subseteq ToSet(Types(mid[2], style))
    /\ \A line \in ToSet(a.lines) : line.is # "own"
    /\ dir = "recvonly" /\ mid[2] = "audio" => a.pts = <<Opus>>

LEMMA DescribedTypes ==
    ASSUME NEW mid, mid[2] \in Kind, NEW dir, NEW style \in Styles,
           NEW s, Described(s, mid, dir, style)
    PROVE  ToSet(s.pts) = CodecTypes(s)
  <1>1. CodecTypes(s) = {line.pt : line \in ToSet(CodecLines(mid[2], style))}
    BY DEF Described, CodecTypes
  <1>2. QED
    BY <1>1, TypesProps DEF Described

\* The section a has of s what the server sends, with the types it describes.
Narrowed(a, s) ==
    /\ {"media", "pts", "mid", "dir", "rsize", "lines"} \subseteq DOMAIN a
    /\ a.media = s.media /\ a.mid = s.mid /\ a.rsize = s.rsize
    /\ a.pts # << >> /\ ToSet(a.pts) = CodecTypes(a) /\ ToSet(a.pts) \subseteq ToSet(s.pts)
    /\ ToSet(a.lines) \subseteq ToSet(s.lines)
    /\ s.media = "audio" => a.pts = <<Opus>>

LEMMA NarrowSection ==
    ASSUME NEW mid, mid[2] \in Kind, NEW dir, NEW style \in Styles,
           NEW s, Described(s, mid, dir, style), NEW a, a = Narrow(s)
    PROVE  Narrowed(a, s)
  <1> DEFINE sent == SentTypes(s)
             kept == Keep(s.pts, sent)
             stay == {line \in ToSet(s.lines) :
                        line.is = "codec" /\ sent # {} => line.pt \in sent}
             lines == Keep(s.lines, stay)
  <1>1. s.media = mid[2] /\ s.pts = Types(mid[2], style) /\ IsSeq(s.pts) /\ IsSeq(s.lines) /\ s.pts # << >>
    BY TypesProps DEF Described, IsSection
  <1>2. \E pt \in ToSet(s.pts) : pt \in sent
    <2>1. CASE mid[2] = "audio"
      <3>1. sent = {Opus}
        BY <1>1, <2>1 DEF SentTypes
      <3>2. QED
        BY <1>1, <2>1, <3>1, TypesProps
    <2>2. CASE mid[2] # "audio"
      <3>1. Head(s.pts) \in sent
        BY <1>1, <2>2 DEF SentTypes
      <3>2. QED
        BY <1>1, <2>2, <3>1, TypesProps
    <2>3. QED
      BY <2>1, <2>2
  <1>3. mid[2] = "audio" => sent = {Opus}
    BY <1>1 DEF SentTypes
  <1>4. a = [s EXCEPT !.pts = IF kept = << >> THEN s.pts ELSE kept, !.lines = lines]
    BY DEF Narrow
  <1> HIDE DEF sent
  <1>5. IsSeq(kept) /\ ToSet(kept) = ToSet(s.pts) \cap sent
    BY <1>1, KeptAre
  <1>6. IsSeq(lines) /\ ToSet(lines) = ToSet(s.lines) \cap stay
    BY <1>1, KeptAre
  <1>7. kept # << >>
    <2>1. ToSet(<< >>) = {}
      BY DEF ToSet
    <2>2. QED
      BY <1>2, <1>5, <2>1
  <1>8. mid[2] = "audio" => kept = <<Opus>>
    BY <1>1, <1>3, OpusIsKept
  <1> HIDE DEF kept, lines
  <1>9. /\ a.media = s.media /\ a.mid = s.mid /\ a.rsize = s.rsize
        /\ a.pts = kept /\ a.lines = lines
        /\ {"media", "pts", "mid", "dir", "rsize", "lines"} \subseteq DOMAIN a
    BY <1>4, <1>7 DEF Described, IsSection
  <1>10. ToSet(lines) = stay
    BY <1>6
  <1>11. CodecTypes(a) = CodecTypes(s) \cap sent
    <2>1. \A line \in ToSet(lines) : line.is = "codec" => line.pt \in sent
      BY <1>2, <1>10
    <2>2. \A line \in ToSet(s.lines) : line.is = "codec" /\ line.pt \in sent => line \in ToSet(lines)
      BY <1>10
    <2>3. ToSet(lines) \subseteq ToSet(s.lines)
      BY <1>10
    <2> HIDE DEF stay
    <2>4. QED
      BY <1>9, <2>1, <2>2, <2>3 DEF CodecTypes
  <1>12. ToSet(s.pts) = CodecTypes(s)
    BY DescribedTypes
  <1>13. QED
    BY <1>1, <1>5, <1>7, <1>8, <1>9, <1>10, <1>11, <1>12 DEF Narrowed

LEMMA SectionAnswered ==
    ASSUME NEW c, NEW mid, mid[2] \in Kind, NEW dir \in Direction, NEW style \in Styles,
           NEW s, Described(s, mid, dir, style), NEW conference \in BOOLEAN
    PROVE  /\ AnswersSection(AnswerSection(s, c, conference), c, mid, dir, style, conference)
           /\ AnswerSection(s, c, conference).ssrc = NoSsrc
  <1> DEFINE to == AnswerDirection(s.dir, conference)
             body == IF to = "sendonly" THEN Narrow(s) ELSE s
             a == AnswerSection(s, c, conference)
  <1>1. s.mid = mid /\ s.media = mid[2] /\ s.pts = Types(mid[2], style) /\ s.dir = dir
        /\ \A line \in ToSet(s.lines) : line.is # "own"
    BY DEF Described
  <1>2. a = [media |-> body.media, pts |-> body.pts, mid |-> body.mid, dir |-> to,
             rsize |-> body.rsize, lines |-> body.lines, ice |-> c, ssrc |-> NoSsrc]
    BY DEF AnswerSection
  <1>3. to = AnswerDirection(dir, conference) /\ (dir = "recvonly" => to = "sendonly")
    BY <1>1 DEF AnswerDirection
  <1>4. /\ body.media = mid[2] /\ body.mid = mid
        /\ body.pts # << >> /\ ToSet(body.pts) = CodecTypes(body)
        /\ ToSet(body.pts) \subseteq ToSet(Types(mid[2], style))
        /\ ToSet(body.lines) \subseteq ToSet(s.lines)
        /\ dir = "recvonly" /\ mid[2] = "audio" => body.pts = <<Opus>>
    <2>1. CASE to = "sendonly"
      <3>1. body = Narrow(s)
        BY <2>1
      <3> HIDE DEF body, to
      <3>2. PICK b : b = Narrow(s)
        OBVIOUS
      <3>3. Narrowed(b, s)
        BY <3>2, NarrowSection
      <3>4. QED
        BY <1>1, <3>1, <3>2, <3>3 DEF Narrowed
    <2>2. CASE to # "sendonly"
      <3>1. body = s
        BY <2>2
      <3>2. s.pts # << >> /\ ToSet(s.pts) = CodecTypes(s)
        BY <1>1, TypesProps, DescribedTypes
      <3> HIDE DEF body, to
      <3>3. QED
        BY <1>1, <1>3, <2>2, <3>1, <3>2
    <2>3. QED
      BY <2>1, <2>2
  <1> HIDE DEF to, body, a
  <1>5. /\ {"media", "pts", "mid", "dir", "rsize", "lines", "ice", "ssrc"} \subseteq DOMAIN a
        /\ a.ice = c /\ a.mid = body.mid /\ a.media = body.media /\ a.dir = to
        /\ a.pts = body.pts /\ a.lines = body.lines /\ a.ssrc = NoSsrc
    BY <1>2
  <1>6. CodecTypes(a) = CodecTypes(body)
    BY <1>5 DEF CodecTypes
  <1>7. AnswersSection(a, c, mid, dir, style, conference)
    BY <1>1, <1>3, <1>4, <1>5, <1>6 DEF AnswersSection
  <1>8. QED
    BY <1>5, <1>7 DEF a

LEMMA OfferedProps ==
    ASSUME NEW c \in Client, NEW want \in Seq(Track), NEW e \in Offered(c, want)
    PROVE  e[1][2] \in Kind /\ e[2] \in Direction /\ e[1] # NoMid
  <1>1. \A t \in Track : t[2] \in Kind /\ t # NoMid
    BY TrackProps DEF Track, NoMid
  <1>2. OldTrack[2] \in Kind /\ OldTrack # NoMid
    BY DEF OldTrack, Kind, NoMid
  <1>3. CASE \E t \in TracksOf(c), dir \in {"sendrecv", "sendonly"} : e = <<t, dir>>
    BY <1>1, <1>3 DEF TracksOf, Direction
  <1>4. CASE e = <<OldTrack, "inactive">>
    BY <1>2, <1>4 DEF Direction
  <1>5. CASE \E j \in 1..Len(want) : e = <<want[j], "recvonly">>
    <2>1. \A j \in 1..Len(want) : want[j] \in Track
      OBVIOUS
    <2>2. QED
      BY <1>1, <1>5, <2>1 DEF Direction
  <1>6. QED
    BY <1>3, <1>4, <1>5 DEF Offered

\* The answer answers to c each of the m-lines that L lists.
AnswersAll(answer, L, c, style, conference) ==
    /\ DOMAIN answer = {"bundle", "sections"}
    /\ IsSeq(answer.sections) /\ Len(answer.sections) = Len(L)
    /\ \A i \in 1..Len(L) :
          /\ AnswersSection(answer.sections[i], c, L[i][1], L[i][2], style, conference)
          /\ answer.bundle[i] = L[i][1]

TellsNothing(answer, L) == \A i \in 1..Len(L) : answer.sections[i].ssrc = NoSsrc
Tells(answer, L, map) == \A i \in 1..Len(L) : answer.sections[i].ssrc = Told(map, L[i][1])

AllOffered(L, c, want) == \A i \in 1..Len(L) : L[i] \in Offered(c, want)

LEMMA OfferAnswered ==
    ASSUME NEW offer, NEW m, NEW d, NEW L, NEW style \in Styles,
           Listed(ParseOffer(offer), m, d, L, style),
           NEW c \in Client, NEW want \in Seq(Track), AllOffered(L, c, want),
           NEW conference \in BOOLEAN, NEW answer, answer = BuildAnswer(offer, c, conference)
    PROVE  AnswersAll(answer, L, c, style, conference) /\ TellsNothing(answer, L)
  <1> DEFINE parsed == ParseOffer(offer)
             n == Len(L)
             built == answer.sections
  <1>1. n \in Nat /\ DOMAIN parsed = 1..n
    BY SeqProps DEF Listed
  <1>2. /\ DOMAIN answer = {"bundle", "sections"}
        /\ built = [i \in 1..n |-> AnswerSection(parsed[i], c, conference)]
        /\ answer.bundle = [i \in 1..n |-> parsed[i].mid]
    BY <1>1 DEF BuildAnswer
  <1> HIDE DEF parsed, built
  <1>3. built = [i \in 1..n |-> built[i]]
    BY <1>2
  <1>4. IsSeq(built) /\ Len(built) = n /\ DOMAIN built = 1..n
    BY <1>1, <1>2, <1>3, FcnIsSeq
  <1>5. ASSUME NEW i \in 1..n
        PROVE  /\ AnswersSection(built[i], c, L[i][1], L[i][2], style, conference)
               /\ answer.bundle[i] = L[i][1] /\ built[i].ssrc = NoSsrc
    <2>1. PICK s, mid, dir : s = parsed[i] /\ mid = L[i][1] /\ dir = L[i][2]
      OBVIOUS
    <2>2. Described(s, mid, dir, style)
      BY <2>1 DEF Listed, parsed
    <2>3. mid[2] \in Kind /\ dir \in Direction
      BY <2>1, OfferedProps DEF AllOffered
    <2>4. built[i] = AnswerSection(s, c, conference) /\ answer.bundle[i] = s.mid
      BY <1>2, <2>1
    <2>5. AnswersSection(built[i], c, mid, dir, style, conference) /\ built[i].ssrc = NoSsrc
      BY <2>2, <2>3, <2>4, SectionAnswered
    <2>6. s.mid = mid
      BY <2>2 DEF Described
    <2>7. QED
      BY <2>1, <2>4, <2>5, <2>6
  <1>6. QED
    BY <1>2, <1>4, <1>5 DEF AnswersAll, TellsNothing, built

LEMMA RenegotiationAnswered ==
    ASSUME NEW offer, NEW m, NEW d, NEW L, NEW style \in Styles,
           Listed(ParseOffer(offer), m, d, L, style),
           NEW c \in Client, NEW want \in Seq(Track), AllOffered(L, c, want),
           NEW map, NEW answer, answer = BuildRenegoAnswer(offer, c, map)
    PROVE  AnswersAll(answer, L, c, style, TRUE) /\ Tells(answer, L, map)
  <1> DEFINE n == Len(L)
  <1> DEFINE yes == TRUE
  <1>1. yes \in BOOLEAN
    OBVIOUS
  <1> HIDE DEF yes
  <1>2. PICK plain : plain = BuildAnswer(offer, c, yes)
    OBVIOUS
  <1>3. AnswersAll(plain, L, c, style, yes)
    BY <1>1, <1>2, OfferAnswered
  <1>4. /\ DOMAIN plain.sections = 1..n /\ DOMAIN plain = {"bundle", "sections"}
    BY <1>3, SeqProps DEF AnswersAll
  <1> DEFINE Tell(section) == IF section.mid = NoMid THEN section
                              ELSE [section EXCEPT !.ssrc = Told(map, section.mid)]
             told1 == [i \in 1..n |-> Tell(plain.sections[i])]
  <1>5. answer = [plain EXCEPT !.sections = told1]
    BY <1>2, <1>4 DEF BuildRenegoAnswer, yes
  <1>6. told1 = [i \in 1..n |-> told1[i]] /\ n \in Nat
    BY SeqProps DEF Listed
  <1>7. ASSUME NEW i \in 1..n
        PROVE  /\ AnswersSection(told1[i], c, L[i][1], L[i][2], style, TRUE)
               /\ told1[i].ssrc = Told(map, L[i][1])
    <2>1. PICK s, mid, dir : s = plain.sections[i] /\ mid = L[i][1] /\ dir = L[i][2]
      OBVIOUS
    <2>2. AnswersSection(s, c, mid, dir, style, TRUE)
      BY <1>3, <2>1 DEF AnswersAll, yes
    <2>3. mid # NoMid
      BY <2>1, OfferedProps DEF AllOffered
    <2>4. s.mid = mid
      BY <2>2 DEF AnswersSection
    <2>5. PICK a : a = [s EXCEPT !.ssrc = Told(map, mid)]
      OBVIOUS
    <2>6. told1[i] = a
      BY <2>1, <2>3, <2>4, <2>5
    <2>7. /\ a.ice = s.ice /\ a.mid = s.mid /\ a.media = s.media /\ a.dir = s.dir
          /\ a.pts = s.pts /\ a.lines = s.lines /\ a.ssrc = Told(map, mid)
          /\ DOMAIN a = DOMAIN s
      BY <2>2, <2>5 DEF AnswersSection
    <2>8. CodecTypes(a) = CodecTypes(s)
      BY <2>7 DEF CodecTypes
    <2>9. AnswersSection(a, c, mid, dir, style, TRUE)
      BY <2>2, <2>7, <2>8 DEF AnswersSection
    <2>10. QED
      BY <2>1, <2>6, <2>7, <2>9
  <1> HIDE DEF told1
  <1>8. IsSeq(told1) /\ Len(told1) = n /\ DOMAIN told1 = 1..n
    BY <1>6, FcnIsSeq
  <1>9. /\ answer.sections = told1 /\ answer.bundle = plain.bundle
        /\ DOMAIN answer = {"bundle", "sections"}
    BY <1>4, <1>5
  <1>10. \A i \in 1..n : answer.bundle[i] = L[i][1]
    BY <1>3, <1>9 DEF AnswersAll
  <1>11. QED
    BY <1>7, <1>8, <1>9, <1>10 DEF AnswersAll, Tells

-----------------------------------------------------------------------------
(* The answer to a re-negotiation.                                         *)

SsrcMap(r) == [i \in DOMAIN r.want |-> [mid |-> r.want[i], ssrc |-> r.map[i]]]

\* What is told for a mid is what one of its entries has.
LEMMA ToldIsMapped ==
    ASSUME NEW c \in Client, NEW r, WantOK(c, r), Len(r.map) = Len(r.want), NEW mid
    PROVE  /\ Told(SsrcMap(r), mid) # NoSsrc =>
                 \E j \in 1..Len(r.want) : r.want[j] = mid /\ Told(SsrcMap(r), mid) = r.map[j]
           /\ (\E j \in 1..Len(r.want) : r.want[j] = mid) => Told(SsrcMap(r), mid) # NoSsrc
  <1> DEFINE entries == {i \in DOMAIN SsrcMap(r) : SsrcMap(r)[i].mid = mid}
  <1>1. DOMAIN r.want = 1..Len(r.want) /\ Len(r.want) \in Nat
    BY DEF WantOK
  <1>2. /\ entries \subseteq 1..Len(r.want)
        /\ \A i \in 1..Len(r.want) : /\ i \in entries <=> r.want[i] = mid
                                     /\ SsrcMap(r)[i].ssrc = r.map[i]
    BY <1>1 DEF SsrcMap
  <1>3. Told(SsrcMap(r), mid) = IF entries = {} THEN NoSsrc ELSE SsrcMap(r)[Max(entries)].ssrc
    BY DEF Told
  <1> HIDE DEF entries
  <1>4. ASSUME entries # {}
        PROVE  \E j \in 1..Len(r.want) : /\ r.want[j] = mid /\ Told(SsrcMap(r), mid) = r.map[j]
                                         /\ r.map[j] # NoSsrc
    <2>1. PICK j : j = Max(entries)
      OBVIOUS
    <2>2. j \in entries
      BY <1>1, <1>2, <1>4, <2>1, MaxProps
    <2>3. j \in 1..Len(r.want) /\ r.want[j] = mid /\ Told(SsrcMap(r), mid) = r.map[j]
      BY <1>2, <1>3, <1>4, <2>1, <2>2
    <2>4. r.want[j] \in Track /\ j \in 1..Len(r.map)
      BY <2>3 DEF WantOK
    <2>5. r.map[j] \in Named(c, r.want[j])
      BY <2>4 DEF WantOK
    <2>6. r.map[j] # NoSsrc
      BY <2>4, <2>5, NamedIsSsrc
    <2>7. QED
      BY <2>3, <2>6
  <1>5. QED
    BY <1>2, <1>3, <1>4

\* The answer to r's offer tells an SSRC for every track r wants, and no other.
Answers(r, sections) ==
    /\ \A j \in 1..Len(r.want) : \E i \in DOMAIN sections :
          sections[i].mid = r.want[j] /\ sections[i].dir = "sendonly" /\ sections[i].ssrc # NoSsrc
    /\ \A i \in DOMAIN sections : sections[i].ssrc # NoSsrc =>
          \E j \in 1..Len(r.want) : r.want[j] = sections[i].mid /\ r.map[j] = sections[i].ssrc

LEMMA OfferIsAnswered ==
    ASSUME NEW c \in Client, NEW r, WantOK(c, r), Len(r.map) = Len(r.want), NEW style \in Styles
    PROVE  Answers(r, BuildRenegoAnswer(Offer(c, r.want, style), c, SsrcMap(r)).sections)
  <1>0. PICK want, offer : want = r.want /\ offer = Offer(c, want, style)
    OBVIOUS
  <1>1. want \in Seq(Track)
    BY <1>0 DEF WantOK
  <1>2. PICK L : /\ Listed(ParseOffer(offer), Media(offer), Mids(offer), L, style)
                 /\ ToSet(L) \subseteq Offered(c, want)
                 /\ \A j \in 1..Len(want) : <<want[j], "recvonly">> \in ToSet(L)
    BY <1>0, <1>1, OfferRead
  <1>3. ToSet(L) = {L[i] : i \in 1..Len(L)}
    BY <1>2, SetOfSeq DEF Listed
  <1>4. AllOffered(L, c, want)
    BY <1>2, <1>3 DEF AllOffered
  <1>5. PICK map, answer : map = SsrcMap(r) /\ answer = BuildRenegoAnswer(offer, c, map)
    OBVIOUS
  <1>6. /\ AnswersAll(answer, L, c, style, TRUE)
        /\ \A i \in 1..Len(L) : answer.sections[i].ssrc = Told(map, L[i][1])
        /\ DOMAIN answer.sections = 1..Len(L)
    <2>1. AnswersAll(answer, L, c, style, TRUE) /\ Tells(answer, L, map)
      BY <1>1, <1>2, <1>4, <1>5, RenegotiationAnswered
    <2>2. DOMAIN answer.sections = 1..Len(L)
      BY <2>1, SeqProps DEF AnswersAll
    <2>3. QED
      BY <2>1, <2>2 DEF Tells
  <1>7. ASSUME NEW i \in 1..Len(L)
        PROVE  answer.sections[i].mid = L[i][1] /\ answer.sections[i].dir = AnswerDirection(L[i][2], TRUE)
    BY <1>6 DEF AnswersAll, AnswersSection
  <1>8. ASSUME NEW i \in 1..Len(L), answer.sections[i].ssrc # NoSsrc
        PROVE  \E j \in 1..Len(r.want) :
                  r.want[j] = answer.sections[i].mid /\ r.map[j] = answer.sections[i].ssrc
    <2>1. Told(SsrcMap(r), L[i][1]) # NoSsrc
      BY <1>5, <1>6, <1>8
    <2>2. PICK j \in 1..Len(r.want) : r.want[j] = L[i][1] /\ Told(SsrcMap(r), L[i][1]) = r.map[j]
      BY <2>1, ToldIsMapped
    <2>3. QED
      BY <1>5, <1>6, <1>7, <2>2
  <1>9. ASSUME NEW j \in 1..Len(r.want)
        PROVE  \E i \in 1..Len(L) : /\ answer.sections[i].mid = r.want[j]
                                    /\ answer.sections[i].dir = "sendonly"
                                    /\ answer.sections[i].ssrc # NoSsrc
    <2>1. PICK i \in 1..Len(L) : L[i] = <<r.want[j], "recvonly">>
      BY <1>0, <1>2, <1>3
    <2>2. L[i][1] = r.want[j] /\ L[i][2] = "recvonly"
      BY <2>1
    <2>3. AnswerDirection("recvonly", TRUE) = "sendonly"
      BY DEF AnswerDirection
    <2>4. Told(SsrcMap(r), r.want[j]) # NoSsrc
      BY ToldIsMapped
    <2>5. QED
      BY <1>5, <1>6, <1>7, <2>2, <2>3, <2>4
  <1>10. Answers(r, answer.sections)
    BY <1>6, <1>8, <1>9 DEF Answers
  <1>11. QED
    BY <1>0, <1>5, <1>10

-----------------------------------------------------------------------------
(* The inductive invariant of what is told and relayed: before a client    *)
(* has the SSRC in force for a peer's track it has that peer due, or is    *)
(* asking for the track; and who leaves is gone from all that was told     *)
(* before its SSRCs are.                                                   *)

Present(c) == task[c] \in {"idle", "allocate", "answered"}

\* Who is in a channel has an endpoint, and keeps it while the others are told.
PresentOK == \A c \in Client : c \in endpoints <=> (Present(c) \/ task[c] = "leave")

\* c's request wants t, of whose sender c has not been told that it is gone.
Asks(c, t) ==
    /\ task[c] \in {"allocate", "answered"}
    /\ t[1] \notin request[c].lost
    /\ \E j \in 1..Len(request[c].want) : request[c].want[j] = t

\* The SSRC a request has for t is the one in force.
Current(c, t) ==
    Asks(c, t) =>
        \A j \in 1..Len(request[c].map) :
            request[c].want[j] = t => request[c].map[j] = consumer[<<c, t>>]

\* Of a peer's track c has the SSRC in force, asks for it, or will ask for it.
Served(c, t) ==
    Present(c) /\ Present(t[1]) /\ t[1] # c /\ home[c] = home[t[1]] =>
        \/ t[1] \in due[c]
        \/ /\ Asks(c, t) \/ (told[c][t] # NoSsrc /\ told[c][t] = consumer[<<c, t>>])
           /\ Current(c, t)

\* The SSRCs in force in the channel rebuilt last are in the relay map.
Relayed(c, t) ==
    /\ task[c] \in {"idle", "answered"}
    /\ Present(t[1]) /\ t[1] # c
    /\ home[c] = rebuilt /\ home[t[1]] = rebuilt
    /\ t[1] \notin due[c]
    /\ consumer[<<c, t>>] # NoSsrc
    => <<c, consumer[<<c, t>>]>> \in relay[t]

\* An answer on its way is one to the request it is kept with.
AnswerOK(c) ==
    task[c] = "answered" =>
        /\ Len(request[c].map) = Len(request[c].want)
        /\ Answers(request[c], request[c].answer.sections)

MatchInv ==
    /\ PresentOK
    /\ \A c \in Client : AnswerOK(c)
    /\ \A c \in Client, t \in Track : Served(c, t) /\ Relayed(c, t)

-----------------------------------------------------------------------------
LEMMA ServedStays ==
    ASSUME NEW d \in Client, NEW t \in Track, Served(d, t), scenario' = scenario,
           Present(d)' => Present(d), Present(t[1])' => Present(t[1]),
           Asks(d, t)' <=> Asks(d, t),
           request'[d].want = request[d].want, request'[d].map = request[d].map,
           t[1] \in due'[d] <=> t[1] \in due[d],
           told'[d][t] = told[d][t], consumer'[<<d, t>>] = consumer[<<d, t>>]
    PROVE  Served(d, t)'
  <1>1. home' = home
    BY DEF home
  <1>2. Current(d, t) => Current(d, t)'
    BY DEF Current
  <1>3. QED
    BY <1>1, <1>2 DEF Served

LEMMA RelayedStays ==
    ASSUME NEW d \in Client, NEW t \in Track, Relayed(d, t),
           UNCHANGED <<scenario, relay, rebuilt>>,
           task'[d] \in {"idle", "answered"} => task[d] \in {"idle", "answered"},
           Present(t[1])' => Present(t[1]),
           t[1] \in due[d] => t[1] \in due'[d],
           consumer'[<<d, t>>] = consumer[<<d, t>>]
    PROVE  Relayed(d, t)'
  BY DEF Relayed, home

\* Once the map of a channel is rebuilt every SSRC in force in it is there.
LEMMA RebuiltIsRelayed ==
    ASSUME PresentOK', HubInv', NEW ch, Rebuild(ch), UNCHANGED <<scenario, endpoints, consumer>>,
           NEW d \in Client, NEW t \in Track
    PROVE  Relayed(d, t)'
  <1> SUFFICES ASSUME Present(t[1])', home'[t[1]] = rebuilt', consumer'[<<d, t>>] # NoSsrc
               PROVE  <<d, consumer'[<<d, t>>]>> \in relay'[t]
    BY DEF Relayed
  <1>1. t[1] \in Client
    BY TrackProps
  <1>2. t[1] \in endpoints'
    BY <1>1 DEF PresentOK
  <1>3. t[1] \in InChannel(ch)
    BY <1>2 DEF InChannel, Rebuild, home
  <1>4. <<d, t>> \in DOMAIN consumer
    BY DEF HubInv, ConsumerOK
  <1>5. <<d, consumer[<<d, t>>]>> \in RelayMap(ch)[t]
    BY <1>3, <1>4 DEF RelayMap
  <1>6. QED
    BY <1>5 DEF Rebuild

-----------------------------------------------------------------------------
LEMMA InitMatch == Init => MatchInv
  <1> SUFFICES ASSUME Init PROVE MatchInv
    OBVIOUS
  <1>1. \A c \in Client : task[c] = "out" /\ c \notin endpoints
    BY DEF Init
  <1>2. PresentOK
    BY <1>1 DEF PresentOK, Present
  <1>3. QED
    BY <1>1, <1>2 DEF MatchInv, AnswerOK, Served, Relayed, Present

LEMMA JoinMatch ==
    ASSUME Inv, MatchInv, NEW c \in Client, NEW style, HandleChannelJoin(c, style)
    PROVE  MatchInv'
  <1> DEFINE offer == Offer(c, << >>, style)
             answer == BuildAnswer(offer, c, home[c] \in Conference)
             r == [NoRequest EXCEPT !.offer = offer, !.answer = answer]
  <1>1. /\ task[c] = "out" /\ endpoints' = endpoints \cup {c}
        /\ task' = [task EXCEPT ![c] = "answered"]
        /\ request' = [request EXCEPT ![c] = r]
        /\ due' = [d \in Client |-> CASE d = c -> Peers(c)
                                      [] d \in Peers(c) -> due[d] \cup {c}
                                      [] OTHER -> due[d]]
        /\ UNCHANGED <<scenario, hubVars, told, mediaVars>>
    BY DEF HandleChannelJoin
  <1>2. /\ DOMAIN request = Client /\ DOMAIN task = Client
        /\ UNCHANGED <<consumer, relay, rebuilt, home>>
    BY <1>1 DEF Inv, ClientInv, RequestsOK, hubVars, home
  <1>3. /\ \A d \in Client \ {c} : task'[d] = task[d] /\ request'[d] = request[d]
        /\ task'[c] = "answered" /\ request'[c] = r
    BY <1>1, <1>2
  <1>4. PresentOK'
    BY <1>1, <1>3 DEF MatchInv, PresentOK, Present
  <1>5. ASSUME NEW d \in Client PROVE AnswerOK(d)'
    <2>1. CASE d = c
      <3>1. r.want = << >> /\ r.map = << >> /\ r.answer = answer
        BY DEF NoRequest
      <3>2. \A i \in DOMAIN answer.sections : answer.sections[i].ssrc = NoSsrc
        BY DEF BuildAnswer, AnswerSection
      <3> HIDE DEF r, answer
      <3>3. Len(<< >>) = 0 /\ \A j \in 1..0 : FALSE
        OBVIOUS
      <3>4. Answers(r, r.answer.sections)
        BY <3>1, <3>2, <3>3 DEF Answers
      <3>5. QED
        BY <1>3, <2>1, <3>1, <3>4 DEF AnswerOK
    <2>2. CASE d # c
      BY <1>3, <2>2 DEF MatchInv, AnswerOK
    <2>3. QED
      BY <2>1, <2>2
  <1> HIDE DEF r
  <1>6. ASSUME NEW d \in Client, NEW t \in Track PROVE Served(d, t)' /\ Relayed(d, t)'
    <2>1. t[1] \in Client
      BY TrackProps
    <2>2. CASE d = c \/ t[1] = c
      <3>1. ASSUME Present(d)', Present(t[1])', t[1] # d, home[d] = home[t[1]]
            PROVE  t[1] \in due'[d]
        <4>1. CASE d = c
          <5>1. Present(t[1])
            BY <1>3, <2>1, <3>1, <4>1 DEF Present
          <5>2. t[1] \in Peers(c)
            BY <2>1, <3>1, <4>1, <5>1 DEF MatchInv, PresentOK, Peers, InChannel
          <5>3. due'[c] = Peers(c)
            BY <1>1, c \notin Peers(c) DEF Peers
          <5>4. QED
            BY <4>1, <5>2, <5>3
        <4>2. CASE d # c /\ t[1] = c
          <5>1. Present(d)
            BY <1>3, <3>1, <4>2 DEF Present
          <5>2. d \in Peers(c)
            BY <3>1, <4>2, <5>1 DEF MatchInv, PresentOK, Peers, InChannel
          <5>3. QED
            BY <1>1, <4>2, <5>2
        <4>3. QED
          BY <2>2, <4>1, <4>2
      <3>2. Served(d, t)'
        BY <1>2, <3>1 DEF Served
      <3>3. Relayed(d, t)'
        BY <1>2, <3>1 DEF Relayed, Present
      <3>4. QED
        BY <3>2, <3>3
    <2>3. CASE d # c /\ t[1] # c
      <3>1. /\ task'[d] = task[d] /\ task'[t[1]] = task[t[1]] /\ request'[d] = request[d]
            /\ t[1] \in due'[d] <=> t[1] \in due[d]
        BY <1>1, <1>3, <2>1, <2>3
      <3>2. Served(d, t) /\ Relayed(d, t)
        BY DEF MatchInv
      <3>3. Served(d, t)'
        BY <1>1, <1>2, <3>1, <3>2, ServedStays DEF Present, Asks
      <3>4. Relayed(d, t)'
        BY <1>1, <1>2, <3>1, <3>2, RelayedStays DEF Present
      <3>5. QED
        BY <3>3, <3>4
    <2>4. QED
      BY <2>2, <2>3
  <1>7. QED
    BY <1>4, <1>5, <1>6 DEF MatchInv

\* Every element of a finite set is in its sequence.
LEMMA SetToSeqCovers ==
    ASSUME NEW S, IsFiniteSet(S), NEW x \in S
    PROVE  \E j \in 1..Len(SetToSeq(S)) : SetToSeq(S)[j] = x
  <1> DEFINE n == Cardinality(S)
  <1>1. n \in Nat /\ ExistsBijection(1..n, S)
    BY FS_CardinalityType
  <1>2. PICK g \in [1..n -> S] : IsInjective(g)
    BY <1>1 DEF ExistsBijection, Bijection, Injection, IsInjective
  <1> DEFINE f == SetToSeq(S)
  <1>3. f \in [1..n -> S] /\ IsInjective(f)
    BY <1>2 DEF SetToSeq
  <1> HIDE DEF f, n
  <1>4. Len(f) = n
    BY <1>1, <1>3
  <1>5. \E i \in 1..n : f[i] = x
    <2> SUFFICES ASSUME \A i \in 1..n : f[i] # x PROVE FALSE
      OBVIOUS
    <2> DEFINE R == S \ {x}
    <2>1. IsFiniteSet(R) /\ Cardinality(R) = n - 1
      BY FS_RemoveElement DEF n
    <2>2. f \in [1..n -> R] /\ \A i, j \in 1..n : f[i] = f[j] => i = j
      BY <1>3 DEF IsInjective
    <2>3. f \in Injection(1..n, R)
      BY <2>2 DEF Injection, IsInjective
    <2>4. IsFiniteSet(1..n) /\ Cardinality(1..n) = n
      BY <1>1, FS_Interval
    <2>5. n <= n - 1
      BY <2>1, <2>3, <2>4, FS_Injection DEF ExistsInjection
    <2>6. QED
      BY <1>1, <2>5
  <1>6. QED
    BY <1>4, <1>5 DEF f

LEMMA SendRenegotiateMatch ==
    ASSUME Inv, MatchInv, NEW c \in Client, SendRenegotiate(c)
    PROVE  MatchInv'
  <1> DEFINE wanted == {t \in Track : t[1] \in Known(c)}
             want == SetToSeq(wanted)
             r == [NoRequest EXCEPT !.want = want]
  <1>1. /\ task[c] = "idle"
        /\ task' = [task EXCEPT ![c] = "allocate"]
        /\ request' = [request EXCEPT ![c] = r]
        /\ due' = [due EXCEPT ![c] = {}]
        /\ UNCHANGED <<scenario, joins, endpoints, hubVars, told, mediaVars>>
    BY DEF SendRenegotiate
  <1>2. IsFiniteSet(wanted)
    BY TracksAreFinite, FS_Subset
  <1>3. \A t \in wanted : \E j \in 1..Len(want) : want[j] = t
    BY <1>2, SetToSeqCovers
  <1> HIDE DEF want
  <1>4. r.want = want /\ r.map = << >> /\ r.lost = {}
    BY DEF NoRequest
  <1> HIDE DEF r
  <1>5. /\ DOMAIN request = Client /\ DOMAIN task = Client /\ DOMAIN due = Client
        /\ UNCHANGED <<consumer, relay, rebuilt, home>>
    BY <1>1 DEF Inv, ClientInv, RequestsOK, DueOK, hubVars, home
  <1>6. /\ \A d \in Client \ {c} :
              task'[d] = task[d] /\ request'[d] = request[d] /\ due'[d] = due[d]
        /\ task'[c] = "allocate" /\ request'[c] = r /\ due'[c] = {}
    BY <1>1, <1>5
  <1>7. PresentOK' /\ \A d \in Client : AnswerOK(d)' /\ (Present(d)' <=> Present(d))
    BY <1>1, <1>6 DEF MatchInv, PresentOK, Present, AnswerOK
  <1>8. ASSUME NEW d \in Client, NEW t \in Track PROVE Served(d, t)' /\ Relayed(d, t)'
    <2>1. t[1] \in Client /\ Served(d, t) /\ Relayed(d, t)
      BY TrackProps DEF MatchInv
    <2>2. CASE d = c
      <3>1. Relayed(d, t)'
        BY <1>6, <2>2 DEF Relayed
      <3>2. Current(d, t)'
        <4>1. \A j \in 1..Len(<< >>) : FALSE
          OBVIOUS
        <4>2. QED
          BY <1>4, <1>6, <2>2, <4>1 DEF Current
      <3>3. ASSUME Present(d), Present(t[1]), t[1] # d, home[d] = home[t[1]]
            PROVE  Asks(d, t)'
        <4>1. t[1] \in due[c] \/ told[c][t] # NoSsrc
          BY <1>1, <2>1, <2>2, <3>3 DEF Served, Asks
        <4>2. t \in TracksOf(t[1])
          BY DEF TracksOf
        <4>3. t[1] \in Known(c)
          BY <2>1, <4>1, <4>2 DEF Known
        <4>4. \E j \in 1..Len(want) : want[j] = t
          BY <1>3, <4>3
        <4>5. QED
          BY <1>4, <1>6, <2>2, <4>4 DEF Asks
      <3>4. Served(d, t)'
        BY <1>5, <1>7, <2>1, <3>2, <3>3 DEF Served
      <3>5. QED
        BY <3>1, <3>4
    <2>3. CASE d # c
      <3>1. task'[d] = task[d] /\ request'[d] = request[d] /\ due'[d] = due[d]
        BY <1>6, <2>3
      <3>2. Present(t[1])' <=> Present(t[1])
        BY <1>7, <2>1
      <3>3. Served(d, t)'
        BY <1>1, <1>5, <2>1, <3>1, <3>2, ServedStays DEF Present, Asks
      <3>4. Relayed(d, t)'
        BY <1>1, <1>5, <2>1, <3>1, <3>2, RelayedStays
      <3>5. QED
        BY <3>3, <3>4
    <2>4. QED
      BY <2>2, <2>3
  <1>9. QED
    BY <1>7, <1>8 DEF MatchInv

LEMMA AllocateMatch ==
    ASSUME Inv, MatchInv, NEW c \in Client, Allocate(c)
    PROVE  MatchInv'
  <1> DEFINE q == request[c]
             n == Len(q.map) + 1
             u == q.want[n]
             ssrc == GetOrCreate(c, u)
  <1>1. /\ task[c] = "allocate"
        /\ Len(q.map) < Len(q.want)
        /\ consumer' = [consumer EXCEPT ![<<c, u>>] = ssrc]
        /\ request' = [request EXCEPT ![c].map = Append(@, ssrc)]
        /\ UNCHANGED <<scenario, joins, endpoints, relay, rebuilt, task, due, told, mediaVars>>
    BY DEF Allocate
  <1>2. IsRequest(q) /\ WantOK(c, q) /\ DOMAIN request = Client /\ DOMAIN consumer = Client \X Track
    BY DEF Inv, ClientInv, RequestsOK, HubInv, ConsumerOK
  <1>3. u \in Track
    BY <1>1, <1>2 DEF WantOK
  <1>4. /\ \A d \in Client \ {c} : request'[d] = request[d]
        /\ request'[c] = [q EXCEPT !.map = Append(@, ssrc)]
    BY <1>1, <1>2
  <1>5. /\ request'[c].want = q.want /\ request'[c].map = Append(q.map, ssrc)
        /\ request'[c].lost = q.lost
    <2>1. PICK r : r = [q EXCEPT !.map = Append(@, ssrc)]
      OBVIOUS
    <2> HIDE DEF ssrc
    <2>2. \A f \in {"want", "map", "lost"} : f \in DOMAIN q
      BY <1>2 DEF IsRequest
    <2>3. r.want = q.want /\ r.map = Append(q.map, ssrc) /\ r.lost = q.lost
      BY <2>1, <2>2
    <2>4. QED
      BY <1>4, <2>1, <2>3
  <1>6. /\ Len(Append(q.map, ssrc)) = n /\ n \in Nat
        /\ Append(q.map, ssrc)[n] = ssrc
        /\ \A j \in 1..Len(q.map) : Append(q.map, ssrc)[j] = q.map[j]
        /\ \A j \in 1..n : j = n \/ j \in 1..Len(q.map)
    <2>1. IsSeq(q.map)
      BY <1>2 DEF WantOK, IsSeq
    <2>2. QED
      BY <2>1, AppendSeq, SeqProps
  <1>7. \A j \in 1..Len(q.map) : q.map[j] # NoSsrc
    <2>1. \A j \in 1..Len(q.map) : q.map[j] \in Named(c, q.want[j]) /\ q.want[j] \in Track
      BY <1>2 DEF WantOK
    <2>2. QED
      BY <2>1, NamedIsSsrc
  <1>8. consumer[<<c, u>>] # NoSsrc => ssrc = consumer[<<c, u>>]
    BY DEF GetOrCreate
  <1>9. consumer'[<<c, u>>] = ssrc
    BY <1>1, <1>2, <1>3
  <1>10. ASSUME NEW d \in Client, NEW t \in Track, <<d, t>> # <<c, u>>
         PROVE  consumer'[<<d, t>>] = consumer[<<d, t>>]
    BY <1>1, <1>2, <1>3, <1>10
  <1> HIDE DEF q, u, n, ssrc
  <1>11. PresentOK' /\ \A d \in Client : AnswerOK(d)'
    <2>1. PresentOK'
      BY <1>1 DEF MatchInv, PresentOK, Present
    <2>2. ASSUME NEW d \in Client PROVE AnswerOK(d)'
      BY <1>1, <1>4 DEF MatchInv, AnswerOK
    <2>3. QED
      BY <2>1, <2>2
  <1>12. ASSUME NEW d \in Client, NEW t \in Track PROVE Served(d, t)' /\ Relayed(d, t)'
    <2>1. Served(d, t) /\ Relayed(d, t)
      BY DEF MatchInv
    <2>2. CASE d # c
      <3>1. request'[d] = request[d] /\ consumer'[<<d, t>>] = consumer[<<d, t>>]
        BY <1>4, <1>10, <2>2
      <3>2. Served(d, t)'
        BY <1>1, <2>1, <3>1, ServedStays DEF Present, Asks
      <3>3. Relayed(d, t)'
        BY <1>1, <2>1, <3>1, RelayedStays DEF Present
      <3>4. QED
        BY <3>2, <3>3
    <2>3. CASE d = c
      <3>1. Relayed(d, t)'
        BY <1>1, <2>3 DEF Relayed
      <3>2. Asks(d, t)' <=> Asks(d, t)
        BY <1>1, <1>5, <2>3 DEF Asks, q
      <3>3. ASSUME Current(d, t) PROVE Current(d, t)'
        <4> SUFFICES ASSUME Asks(d, t)', NEW j \in 1..n, q.want[j] = t
                     PROVE  Append(q.map, ssrc)[j] = consumer'[<<c, t>>]
          BY <1>5, <1>6, <2>3 DEF Current
        <4>1. CASE j = n
          BY <1>6, <1>9, <4>1 DEF u
        <4>2. CASE j # n
          <5>1. j \in 1..Len(q.map) /\ Append(q.map, ssrc)[j] = q.map[j]
            BY <1>6, <4>2
          <5>2. q.map[j] = consumer[<<c, t>>]
            BY <2>3, <3>2, <3>3, <5>1 DEF Current, q
          <5>3. consumer[<<c, t>>] # NoSsrc
            BY <1>7, <5>1, <5>2
          <5>4. consumer'[<<c, t>>] = consumer[<<c, t>>]
            BY <1>8, <1>9, <1>10, <5>3
          <5>5. QED
            BY <5>1, <5>2, <5>4
        <4>3. QED
          BY <4>1, <4>2
      <3>4. told[d][t] # NoSsrc /\ told[d][t] = consumer[<<d, t>>] => told[d][t] = consumer'[<<d, t>>]
        BY <1>8, <1>9, <1>10, <2>3
      <3>5. Served(d, t)'
        BY <1>1, <2>1, <3>2, <3>3, <3>4 DEF Served, Present, home
      <3>6. QED
        BY <3>1, <3>5
    <2>4. QED
      BY <2>2, <2>3
  <1>13. QED
    BY <1>11, <1>12 DEF MatchInv

LEMMA AnswerRenegotiateMatch ==
    ASSUME Inv, MatchInv, NEW c \in Client, NEW style \in Style[c], AnswerRenegotiate(c, style)
    PROVE  MatchInv'
  <1> DEFINE q == request[c]
             offer == Offer(c, q.want, style)
             answer == BuildRenegoAnswer(offer, c, SsrcMap(q))
             r == Answered(q, offer, answer)
  <1>1. /\ task[c] = "allocate" /\ Len(q.map) = Len(q.want)
        /\ task' = [task EXCEPT ![c] = "answered"]
        /\ request' = [request EXCEPT ![c].offer = offer, ![c].answer = answer]
        /\ Rebuild(home[c])
        /\ UNCHANGED <<scenario, joins, endpoints, consumer, due, told, mediaVars>>
    BY DEF AnswerRenegotiate, SsrcMap
  <1>2. /\ IsRequest(q) /\ WantOK(c, q) /\ DOMAIN request = Client /\ DOMAIN task = Client
        /\ home' = home
    BY <1>1 DEF Inv, ClientInv, RequestsOK, home
  <1>3. style \in Styles
    BY RelayAssumption DEF Styles
  <1>4. Answers(q, answer.sections)
    <2> HIDE DEF q
    <2>1. QED
      BY <1>1, <1>2, <1>3, OfferIsAnswered
  <1> HIDE DEF answer, offer
  <1>5. request' = [request EXCEPT ![c] = r]
    BY <1>1, <1>2 DEF Answered
  <1> HIDE DEF q
  <1>6. /\ r.want = q.want /\ r.map = q.map /\ r.lost = q.lost /\ r.answer = answer
    <2>1. PICK e : e = r
      OBVIOUS
    <2>2. \A f \in {"want", "map", "lost", "offer", "answer"} : f \in DOMAIN q
      BY <1>2 DEF IsRequest
    <2>3. e = [q EXCEPT !.offer = offer, !.answer = answer]
      BY <2>1 DEF Answered
    <2>4. e.want = q.want /\ e.map = q.map /\ e.lost = q.lost /\ e.answer = answer
      BY <2>2, <2>3
    <2>5. QED
      BY <2>1, <2>4
  <1> HIDE DEF r
  <1>7. /\ \A d \in Client \ {c} : task'[d] = task[d] /\ request'[d] = request[d]
        /\ task'[c] = "answered" /\ request'[c] = r
    BY <1>1, <1>2, <1>5
  <1>8. \A d \in Client : Present(d)' <=> Present(d)
    BY <1>1, <1>7 DEF Present
  <1>9. PresentOK'
    BY <1>1, <1>7, <1>8 DEF MatchInv, PresentOK
  <1>10. ASSUME NEW d \in Client PROVE AnswerOK(d)'
    <2>1. CASE d = c
      <3>1. Answers(r, r.answer.sections)
        BY <1>4, <1>6 DEF Answers
      <3>2. Len(r.map) = Len(r.want)
        BY <1>1, <1>6 DEF q
      <3>3. QED
        BY <1>7, <2>1, <3>1, <3>2 DEF AnswerOK
    <2>2. CASE d # c
      BY <1>7, <2>2 DEF MatchInv, AnswerOK
    <2>3. QED
      BY <2>1, <2>2
  <1>11. HubInv'
    BY <1>1, RebuildOK DEF Inv
  <1>12. ASSUME NEW d \in Client, NEW t \in Track PROVE Served(d, t)' /\ Relayed(d, t)'
    <2>1. Relayed(d, t)'
      BY <1>1, <1>9, <1>11, RebuiltIsRelayed
    <2>2. /\ request'[d].want = request[d].want /\ request'[d].map = request[d].map
          /\ request'[d].lost = request[d].lost
      BY <1>6, <1>7 DEF q
    <2>3. Asks(d, t)' <=> Asks(d, t)
      BY <1>1, <1>7, <2>2 DEF Asks
    <2>4. t[1] \in Client /\ Served(d, t)
      BY TrackProps DEF MatchInv
    <2>5. Served(d, t)'
      BY <1>1, <1>8, <2>2, <2>3, <2>4, ServedStays
    <2>6. QED
      BY <2>1, <2>5
  <1>13. QED
    BY <1>9, <1>10, <1>12 DEF MatchInv

\* The client takes over what was asked for it, and keeps the rest.
LEMMA ReceiveMatch ==
    ASSUME Inv, MatchInv, NEW c \in Client, Receive(c)
    PROVE  MatchInv'
  <1> DEFINE q == request[c]
             sections == q.answer.sections
             New(t) == {i \in DOMAIN sections :
                          /\ sections[i].mid = t /\ sections[i].dir = "sendonly"
                          /\ sections[i].ssrc # NoSsrc /\ t[1] \notin q.lost}
             now == [t \in Track |-> IF New(t) = {} THEN told[c][t]
                                     ELSE sections[CHOOSE i \in New(t) : TRUE].ssrc]
  <1>1. /\ task[c] = "answered"
        /\ task' = [task EXCEPT ![c] = "idle"]
        /\ told' = [told EXCEPT ![c] = now]
        /\ request' = [request EXCEPT ![c] = NoRequest]
        /\ UNCHANGED <<scenario, joins, endpoints, hubVars, due, mediaVars>>
    BY DEF Receive
  <1>2. /\ DOMAIN request = Client /\ DOMAIN task = Client /\ DOMAIN told = Client
        /\ UNCHANGED <<consumer, relay, rebuilt, home>>
    BY <1>1 DEF Inv, ClientInv, RequestsOK, ToldOK, hubVars, home
  <1>3. Len(q.map) = Len(q.want) /\ Answers(q, sections)
    BY <1>1 DEF MatchInv, AnswerOK
  <1> HIDE DEF sections
  <1>4. \A t \in Track : now[t] = IF New(t) = {} THEN told[c][t]
                                  ELSE sections[CHOOSE i \in New(t) : TRUE].ssrc
    OBVIOUS
  <1> HIDE DEF now
  <1>5. /\ \A d \in Client \ {c} :
              task'[d] = task[d] /\ request'[d] = request[d] /\ told'[d] = told[d]
        /\ task'[c] = "idle" /\ request'[c] = NoRequest /\ told'[c] = now
    BY <1>1, <1>2
  <1>6. PresentOK' /\ \A d \in Client : AnswerOK(d)' /\ (Present(d)' <=> Present(d))
    BY <1>1, <1>5 DEF MatchInv, PresentOK, Present, AnswerOK
  <1>7. ASSUME NEW d \in Client, NEW t \in Track PROVE Served(d, t)' /\ Relayed(d, t)'
    <2>1. t[1] \in Client /\ Served(d, t) /\ Relayed(d, t)
      BY TrackProps DEF MatchInv
    <2>2. Relayed(d, t)'
      BY <1>1, <1>2, <1>5, <1>6, <2>1, RelayedStays
    <2>3. CASE d = c
      <3>1. ~Asks(d, t)'
        BY <1>5, <2>3 DEF Asks
      <3>2. ASSUME Present(c), Present(t[1]), t[1] # c, home[c] = home[t[1]], t[1] \notin due[c]
            PROVE  now[t] # NoSsrc /\ now[t] = consumer[<<c, t>>]
        <4>1. /\ Asks(c, t) \/ (told[c][t] # NoSsrc /\ told[c][t] = consumer[<<c, t>>])
              /\ Current(c, t)
          BY <2>1, <2>3, <3>2 DEF Served
        <4>2. CASE New(t) # {}
          <5>1. PICK i \in New(t) : i = CHOOSE k \in New(t) : TRUE
            BY <4>2
          <5>2. /\ now[t] = sections[i].ssrc /\ sections[i].ssrc # NoSsrc
                /\ sections[i].mid = t /\ t[1] \notin q.lost
            BY <1>4, <4>2, <5>1
          <5>3. PICK j \in 1..Len(q.want) : q.want[j] = t /\ q.map[j] = sections[i].ssrc
            BY <1>3, <5>1, <5>2 DEF Answers
          <5>4. Asks(c, t)
            BY <1>1, <5>2, <5>3 DEF Asks
          <5>5. q.map[j] = consumer[<<c, t>>]
            BY <1>3, <4>1, <5>3, <5>4 DEF Current
          <5>6. QED
            BY <5>2, <5>3, <5>5
        <4>3. CASE New(t) = {}
          <5>1. ~Asks(c, t)
            <6> SUFFICES ASSUME Asks(c, t) PROVE FALSE
              OBVIOUS
            <6>1. PICK j \in 1..Len(q.want) : q.want[j] = t
              BY DEF Asks
            <6>2. t[1] \notin q.lost
              BY DEF Asks
            <6>3. PICK i \in DOMAIN sections : /\ sections[i].mid = t /\ sections[i].dir = "sendonly"
                                               /\ sections[i].ssrc # NoSsrc
              BY <1>3, <6>1 DEF Answers
            <6>4. i \in New(t)
              BY <6>2, <6>3
            <6>5. QED
              BY <4>3, <6>4
          <5>2. QED
            BY <1>4, <4>1, <4>3, <5>1
        <4>4. QED
          BY <4>2, <4>3
      <3>3. Served(d, t)'
        BY <1>1, <1>2, <1>5, <1>6, <2>1, <2>3, <3>1, <3>2 DEF Served, Current
      <3>4. QED
        BY <2>2, <3>3
    <2>4. CASE d # c
      <3>1. task'[d] = task[d] /\ request'[d] = request[d] /\ told'[d] = told[d]
        BY <1>5, <2>4
      <3>2. Served(d, t)'
        BY <1>1, <1>2, <1>6, <2>1, <3>1, ServedStays DEF Asks
      <3>3. QED
        BY <2>2, <3>2
    <2>5. QED
      BY <2>3, <2>4
  <1>8. QED
    BY <1>6, <1>7 DEF MatchInv

\* Of a peer that leaves nobody is served any more, before its SSRCs go.
LEMMA BeginLeaveMatch ==
    ASSUME Inv, MatchInv, NEW c \in Client, BeginLeave(c)
    PROVE  MatchInv'
  <1>1. /\ task[c] \in {"idle", "answered"} /\ task' = [task EXCEPT ![c] = "leave"]
        /\ told' = [d \in Client |-> [t \in Track |->
              IF d = c \/ (d \in Peers(c) /\ t[1] = c) THEN NoSsrc ELSE told[d][t]]]
        /\ due' = [d \in Client |-> CASE d = c -> {}
                                      [] d \in Peers(c) -> due[d] \ {c}
                                      [] OTHER -> due[d]]
        /\ request' = [d \in Client |->
              CASE d = c -> NoRequest
                [] d \in Peers(c) /\ task[d] \in {"allocate", "answered"} ->
                      [request[d] EXCEPT !.lost = @ \cup {c}]
                [] OTHER -> request[d]]
        /\ UNCHANGED <<scenario, joins, endpoints, hubVars, mediaVars>>
    BY DEF BeginLeave
  <1>2. DOMAIN task = Client /\ UNCHANGED <<consumer, relay, rebuilt, home>>
    BY <1>1 DEF Inv, ClientInv, hubVars, home
  <1>3. task'[c] = "leave" /\ \A d \in Client \ {c} : task'[d] = task[d]
    BY <1>1, <1>2
  <1>4. PresentOK'
    BY <1>1, <1>3 DEF MatchInv, PresentOK, Present
  <1>5. ASSUME NEW d \in Client, d # c
        PROVE  /\ request'[d].want = request[d].want /\ request'[d].map = request[d].map
               /\ request'[d].answer = request[d].answer
               /\ \A e \in Client \ {c} : e \in request'[d].lost <=> e \in request[d].lost
    <2>1. PICK q : q = request[d] /\ IsRequest(q)
      BY DEF Inv, ClientInv, RequestsOK
    <2>2. PICK r : r = [q EXCEPT !.lost = @ \cup {c}]
      OBVIOUS
    <2>3. request'[d] = q \/ request'[d] = r
      BY <1>1, <1>5, <2>1, <2>2
    <2>4. r.want = q.want /\ r.map = q.map /\ r.answer = q.answer /\ r.lost = q.lost \cup {c}
      BY <2>1, <2>2 DEF IsRequest
    <2>5. QED
      BY <2>1, <2>3, <2>4
  <1>6. ASSUME NEW d \in Client PROVE AnswerOK(d)'
    <2>1. CASE d = c
      BY <1>3, <2>1 DEF AnswerOK
    <2>2. CASE d # c
      <3>1. AnswerOK(d) /\ task'[d] = task[d]
        BY <1>3, <2>2 DEF MatchInv
      <3>2. PICK q, r : q = request[d] /\ r = request'[d]
        OBVIOUS
      <3>3. r.want = q.want /\ r.map = q.map /\ r.answer = q.answer
        BY <1>5, <2>2, <3>2
      <3>4. Answers(q, q.answer.sections) => Answers(r, r.answer.sections)
        BY <3>3 DEF Answers
      <3>5. QED
        BY <3>1, <3>2, <3>3, <3>4 DEF AnswerOK
    <2>3. QED
      BY <2>1, <2>2
  <1>7. ASSUME NEW d \in Client, NEW t \in Track PROVE Served(d, t)' /\ Relayed(d, t)'
    <2>1. t[1] \in Client /\ Served(d, t) /\ Relayed(d, t)
      BY TrackProps DEF MatchInv
    <2>2. CASE d = c \/ t[1] = c
      BY <1>3, <2>2 DEF Served, Relayed, Present
    <2>3. CASE d # c /\ t[1] # c
      <3>1. /\ task'[d] = task[d] /\ task'[t[1]] = task[t[1]]
        BY <1>3, <2>1, <2>3
      <3>2. told'[d][t] = told[d][t]
        BY <1>1, <2>3
      <3>3. t[1] \in due'[d] <=> t[1] \in due[d]
        BY <1>1, <2>3
      <3>4. Asks(d, t)' <=> Asks(d, t)
        BY <1>5, <2>1, <2>3, <3>1 DEF Asks
      <3>5. Present(d)' <=> Present(d)
        BY <3>1 DEF Present
      <3>6. Present(t[1])' <=> Present(t[1])
        BY <3>1 DEF Present
      <3>7. Served(d, t)'
        BY <1>1, <1>2, <1>5, <2>1, <2>3, <3>2, <3>3, <3>4, <3>5, <3>6, ServedStays
      <3>8. Relayed(d, t)'
        BY <1>1, <1>2, <2>1, <3>1, <3>3, <3>6, RelayedStays
      <3>9. QED
        BY <3>7, <3>8
    <2>4. QED
      BY <2>2, <2>3
  <1>8. QED
    BY <1>4, <1>6, <1>7 DEF MatchInv

\* The three steps after it only concern one who is not present.
LEMMA LeaveMatch ==
    ASSUME Inv, MatchInv, NEW c \in Client,
           RemoveEndpoint(c) \/ RemoveConsumers(c) \/ EndLeave(c)
    PROVE  MatchInv'
  <1>1. /\ task[c] \in {"leave", "forget", "unmap"}
        /\ \E s \in {"forget", "unmap", "out"} : task' = [task EXCEPT ![c] = s]
        /\ UNCHANGED <<scenario, joins, request, due, told, mediaVars>>
        /\ endpoints' = IF task[c] = "leave" THEN endpoints \ {c} ELSE endpoints
    BY DEF RemoveEndpoint, RemoveConsumers, EndLeave
  <1>2. DOMAIN task = Client /\ DOMAIN consumer = Client \X Track /\ home' = home
    BY <1>1 DEF Inv, ClientInv, HubInv, ConsumerOK, home
  <1>3. task'[c] \in {"forget", "unmap", "out"} /\ \A d \in Client \ {c} : task'[d] = task[d]
    BY <1>1, <1>2
  <1>4. \A d \in Client : Present(d)' <=> Present(d)
    BY <1>1, <1>3 DEF Present
  <1>5. PresentOK'
    BY <1>1, <1>3, <1>4 DEF MatchInv, PresentOK, Present
  <1>6. ASSUME NEW d \in Client PROVE AnswerOK(d)'
    BY <1>1, <1>3 DEF MatchInv, AnswerOK
  <1>7. ASSUME NEW d \in Client, NEW t \in Track PROVE Served(d, t)' /\ Relayed(d, t)'
    <2>1. t[1] \in Client /\ Served(d, t) /\ Relayed(d, t)
      BY TrackProps DEF MatchInv
    <2>2. CASE d = c \/ t[1] = c
      BY <1>3, <2>2 DEF Served, Relayed, Present
    <2>3. CASE d # c /\ t[1] # c
      <3>1. consumer'[<<d, t>>] = consumer[<<d, t>>]
        BY <1>2, <2>1, <2>3 DEF RemoveEndpoint, RemoveConsumers, EndLeave, hubVars
      <3>2. task'[d] = task[d]
        BY <1>3, <2>3
      <3>3. Served(d, t)'
        BY <1>1, <1>4, <2>1, <3>1, <3>2, ServedStays DEF Asks
      <3>4. CASE EndLeave(c)
        <4>1. Rebuild(home[c]) /\ UNCHANGED <<scenario, endpoints, consumer>>
          BY <3>4 DEF EndLeave
        <4>2. HubInv'
          BY <3>4, RebuildOK DEF EndLeave, Inv
        <4>3. Relayed(d, t)'
          BY <1>5, <4>1, <4>2, RebuiltIsRelayed
        <4>4. QED
          BY <3>3, <4>3
      <3>5. CASE ~EndLeave(c)
        <4>1. UNCHANGED <<relay, rebuilt>>
          BY <3>5 DEF RemoveEndpoint, RemoveConsumers, hubVars
        <4>2. Relayed(d, t)'
          BY <1>1, <1>4, <2>1, <3>1, <3>2, <4>1, RelayedStays
        <4>3. QED
          BY <3>3, <4>2
      <3>6. QED
        BY <3>4, <3>5
    <2>4. QED
      BY <2>2, <2>3
  <1>8. QED
    BY <1>5, <1>6, <1>7 DEF MatchInv

LEMMA MatchStays ==
    ASSUME MatchInv, UNCHANGED <<scenario, endpoints, hubVars, clientVars>>
    PROVE  MatchInv'
  BY DEF MatchInv, PresentOK, AnswerOK, Served, Relayed, Present, Asks, Current, home,
         hubVars, clientVars

LEMMA NextMatch == Inv /\ MatchInv /\ [Next]_vars => MatchInv'
  <1> SUFFICES ASSUME Inv, MatchInv, [Next]_vars PROVE MatchInv'
    OBVIOUS
  <1>1. CASE UNCHANGED vars
    BY <1>1, MatchStays DEF vars
  <1>2. ASSUME \/ \E t \in scenario.heard : RelayPacket(t)
               \/ \E pair \in udp.to : SendPacket(pair)
               \/ \E c \in Client \cup {NoClient} : ChangeFloor(c)
        PROVE  MatchInv'
    BY <1>2, MatchStays DEF RelayPacket, SendPacket, ChangeFloor
  <1>3. QED
    BY <1>1, <1>2, JoinMatch, SendRenegotiateMatch, AllocateMatch, AnswerRenegotiateMatch,
       ReceiveMatch, BeginLeaveMatch, LeaveMatch DEF Next

\* Once a client has an answer for all the peers it was told of, each track of
\* each of them is relayed to it under the SSRC of that answer, in the channel
\* whose map was rebuilt last: for any clients, tracks, offers and
\* interleavings of joins, re-negotiations and leaves.
THEOREM AnswersAreRelayed == Spec => []RelayMatchesAnswers
  <1>1. Inv /\ MatchInv => RelayMatchesAnswers
    <2> SUFFICES ASSUME Inv, MatchInv,
                        NEW c \in InChannel(rebuilt), NEW d \in InChannel(rebuilt), c # d,
                        task[c] = "idle", due[c] = {}, ~Leaving(d), NEW t \in TracksOf(d)
                 PROVE  told[c][t] # NoSsrc /\ <<c, told[c][t]>> \in relay[t]
      BY DEF RelayMatchesAnswers
    <2>1. /\ c \in Client /\ d \in Client /\ c \in endpoints /\ d \in endpoints
          /\ home[c] = rebuilt /\ home[d] = rebuilt /\ t \in Track /\ t[1] = d
      BY DEF InChannel, TracksOf, Inv, HubInv
    <2>2. Present(c) /\ Present(d) /\ Served(c, t) /\ Relayed(c, t)
      BY <2>1 DEF MatchInv, PresentOK, Leaving, Present
    <2>3. told[c][t] # NoSsrc /\ told[c][t] = consumer[<<c, t>>]
      BY <2>1, <2>2 DEF Served, Asks
    <2>4. QED
      BY <2>1, <2>2, <2>3 DEF Relayed
  <1>2. QED
    BY <1>1, AlwaysInv, InitMatch, NextMatch, PTL DEF Spec

-----------------------------------------------------------------------------
(* That answers fit the offers they answer.                                *)

\* What is answered to r, and in which of two ways.
AnswerTo(c, r) ==
    \E style \in Styles :
        /\ r.offer = Offer(c, r.want, style)
        /\ \/ Len(r.map) = Len(r.want) /\ r.answer = BuildRenegoAnswer(r.offer, c, SsrcMap(r))
           \/ r.want = << >> /\ r.answer = BuildAnswer(r.offer, c, home[c] \in Conference)

AnswerInv == \A c \in Client : task[c] = "answered" => AnswerTo(c, request[c])

\* What answer tells for the m-lines of L: an SSRC of the track for each that
\* is wanted, and nothing for the others.
TellsWanted(answer, L, c, want) ==
    \A i \in 1..Len(L) :
        IF L[i][1] \in ToSet(want) THEN answer.sections[i].ssrc \in Named(c, L[i][1])
        ELSE answer.sections[i].ssrc = NoSsrc

LEMMA AnswerProps ==
    ASSUME NEW c \in Client, NEW r, WantOK(c, r), AnswerTo(c, r)
    PROVE  \E style \in Styles, conference \in BOOLEAN : \E L :
              /\ Listed(ParseOffer(r.offer), Media(r.offer), Mids(r.offer), L, style)
              /\ AllOffered(L, c, r.want)
              /\ AnswersAll(r.answer, L, c, style, conference)
              /\ TellsWanted(r.answer, L, c, r.want)
              /\ home[c] \in Conference => conference
  <1>1. PICK style \in Styles :
            /\ r.offer = Offer(c, r.want, style)
            /\ \/ Len(r.map) = Len(r.want) /\ r.answer = BuildRenegoAnswer(r.offer, c, SsrcMap(r))
               \/ r.want = << >> /\ r.answer = BuildAnswer(r.offer, c, home[c] \in Conference)
    BY DEF AnswerTo
  <1>2. PICK want, offer, answer, map :
            want = r.want /\ offer = r.offer /\ answer = r.answer /\ map = SsrcMap(r)
    OBVIOUS
  <1>3. want \in Seq(Track) /\ ToSet(want) = {want[j] : j \in 1..Len(want)}
    <2>1. want \in Seq(Track)
      BY <1>2 DEF WantOK
    <2>2. IsSeq(want)
      BY <2>1 DEF IsSeq
    <2>3. QED
      BY <2>1, <2>2, SetOfSeq
  <1>4. PICK L : /\ Listed(ParseOffer(offer), Media(offer), Mids(offer), L, style)
                 /\ ToSet(L) \subseteq Offered(c, want)
    BY <1>1, <1>2, <1>3, OfferRead
  <1>5. AllOffered(L, c, want)
    <2>1. ToSet(L) = {L[i] : i \in 1..Len(L)}
      BY <1>4, SetOfSeq DEF Listed
    <2>2. QED
      BY <1>4, <2>1 DEF AllOffered
  <1> DEFINE Shown(conference) == /\ AnswersAll(answer, L, c, style, conference)
                                  /\ TellsWanted(answer, L, c, want)
                                  /\ home[c] \in Conference => conference
  <1>6. \E conference \in BOOLEAN : Shown(conference)
    <2>1. CASE Len(r.map) = Len(r.want) /\ r.answer = BuildRenegoAnswer(r.offer, c, SsrcMap(r))
      <3>1. answer = BuildRenegoAnswer(offer, c, map)
        BY <1>2, <2>1
      <3>2. AnswersAll(answer, L, c, style, TRUE) /\ Tells(answer, L, map)
        BY <1>3, <1>4, <1>5, <3>1, RenegotiationAnswered
      <3>3. ASSUME NEW i \in 1..Len(L)
            PROVE  IF L[i][1] \in ToSet(want) THEN answer.sections[i].ssrc \in Named(c, L[i][1])
                   ELSE answer.sections[i].ssrc = NoSsrc
        <4>1. PICK mid, ssrc : mid = L[i][1] /\ ssrc = answer.sections[i].ssrc
          OBVIOUS
        <4>2. ssrc = Told(map, mid)
          BY <3>2, <4>1 DEF Tells
        <4>3. /\ ssrc # NoSsrc => \E j \in 1..Len(want) : want[j] = mid /\ ssrc = r.map[j]
              /\ (\E j \in 1..Len(want) : want[j] = mid) => ssrc # NoSsrc
          BY <1>2, <2>1, <4>2, ToldIsMapped
        <4>4. \A j \in 1..Len(want) : r.map[j] \in Named(c, want[j])
          BY <1>2, <2>1 DEF WantOK
        <4>5. mid \in ToSet(want) <=> \E j \in 1..Len(want) : want[j] = mid
          BY <1>3
        <4>6. IF mid \in ToSet(want) THEN ssrc \in Named(c, mid) ELSE ssrc = NoSsrc
          BY <4>3, <4>4, <4>5
        <4>7. QED
          BY <4>1, <4>6
      <3>4. TellsWanted(answer, L, c, want)
        BY <3>3 DEF TellsWanted
      <3>5. Shown(TRUE)
        BY <3>2, <3>4
      <3>6. QED
        BY <3>5
    <2>2. CASE r.want = << >> /\ r.answer = BuildAnswer(r.offer, c, home[c] \in Conference)
      <3> DEFINE conference == home[c] \in Conference
      <3>1. answer = BuildAnswer(offer, c, conference) /\ want = << >>
        BY <1>2, <2>2
      <3>2. conference \in BOOLEAN
        OBVIOUS
      <3>3. home[c] \in Conference => conference
        OBVIOUS
      <3> HIDE DEF conference
      <3>4. AnswersAll(answer, L, c, style, conference) /\ TellsNothing(answer, L)
        BY <1>3, <1>4, <1>5, <3>1, <3>2, OfferAnswered
      <3>5. ToSet(want) = {}
        BY <3>1 DEF ToSet
      <3>6. TellsWanted(answer, L, c, want)
        BY <3>4, <3>5 DEF TellsWanted, TellsNothing
      <3>7. QED
        BY <3>2, <3>3, <3>4, <3>6
    <2>3. QED
      BY <1>1, <2>1, <2>2
  <1>7. PICK conference \in BOOLEAN : Shown(conference)
    BY <1>6
  <1>8. /\ Listed(ParseOffer(r.offer), Media(r.offer), Mids(r.offer), L, style)
        /\ AllOffered(L, c, r.want)
        /\ AnswersAll(r.answer, L, c, style, conference)
        /\ TellsWanted(r.answer, L, c, r.want)
        /\ home[c] \in Conference => conference
    BY <1>2, <1>4, <1>5, <1>7
  <1>9. QED
    BY <1>8

\* Such an answer fits the offer.
LEMMA AnswerFits ==
    ASSUME Inv, AnswerInv, NEW c \in Client, task[c] = "answered"
    PROVE  LET offer == request[c].offer
               answer == request[c].answer
           IN /\ Len(answer.sections) = Len(Media(offer))
              /\ \A i \in DOMAIN answer.sections :
                   LET section == answer.sections[i] IN
                   /\ section.media = Media(offer)[i].media
                   /\ ToSet(section.pts) \subseteq ToSet(Media(offer)[i].pts)
                   /\ section.mid = Mids(offer)[i].mid
                   /\ answer.bundle[i] = section.mid
                   /\ SectionFits(c, section)
  <1>1. PICK r : r = request[c]
    OBVIOUS
  <1>2. WantOK(c, r) /\ AnswerTo(c, r)
    BY <1>1 DEF Inv, ClientInv, RequestsOK, AnswerInv
  <1>3. PICK style \in Styles, conference \in BOOLEAN : \E L :
              /\ Listed(ParseOffer(r.offer), Media(r.offer), Mids(r.offer), L, style)
              /\ AllOffered(L, c, r.want)
              /\ AnswersAll(r.answer, L, c, style, conference)
              /\ TellsWanted(r.answer, L, c, r.want)
              /\ home[c] \in Conference => conference
    BY <1>2, AnswerProps
  <1>4. PICK L :
              /\ Listed(ParseOffer(r.offer), Media(r.offer), Mids(r.offer), L, style)
              /\ AllOffered(L, c, r.want)
              /\ AnswersAll(r.answer, L, c, style, conference)
              /\ TellsWanted(r.answer, L, c, r.want)
              /\ home[c] \in Conference => conference
    BY <1>3
  <1>5. PICK want, media, mids, answer :
            want = r.want /\ media = Media(r.offer) /\ mids = Mids(r.offer) /\ answer = r.answer
    OBVIOUS
  <1>6. /\ Len(answer.sections) = Len(media) /\ DOMAIN answer.sections = 1..Len(L)
    BY <1>4, <1>5, SeqProps DEF Listed, AnswersAll
  <1>7. want \in Seq(Track) /\ ToSet(want) = {want[j] : j \in 1..Len(want)}
    <2>1. want \in Seq(Track)
      BY <1>2, <1>5 DEF WantOK
    <2>2. IsSeq(want)
      BY <2>1 DEF IsSeq
    <2>3. QED
      BY <2>1, <2>2, SetOfSeq
  <1>8. \A t \in ToSet(want) : t \in Track /\ t[1] # c /\ t # OldTrack
    <2>1. \A j \in 1..Len(want) : want[j] \in Track /\ want[j][1] # c
      BY <1>2, <1>5, <1>7 DEF WantOK
    <2>2. \A t \in Track : t # OldTrack
      BY TrackProps, RelayAssumption DEF OldTrack
    <2>3. QED
      BY <1>7, <2>1, <2>2
  <1>9. ASSUME NEW i \in 1..Len(L)
        PROVE  LET section == answer.sections[i] IN
               /\ section.media = media[i].media
               /\ ToSet(section.pts) \subseteq ToSet(media[i].pts)
               /\ section.mid = mids[i].mid
               /\ answer.bundle[i] = section.mid
               /\ SectionFits(c, section)
    <2>1. PICK a, mid, dir : a = answer.sections[i] /\ mid = L[i][1] /\ dir = L[i][2]
      OBVIOUS
    <2>2. /\ media[i].media = mid[2] /\ media[i].pts = Types(mid[2], style) /\ mids[i].mid = mid
      BY <1>4, <1>5, <2>1 DEF Listed
    <2>3. AnswersSection(a, c, mid, dir, style, conference) /\ answer.bundle[i] = mid
      BY <1>4, <1>5, <2>1 DEF AnswersAll
    <2>4. IF mid \in ToSet(want) THEN a.ssrc \in Named(c, mid) ELSE a.ssrc = NoSsrc
      BY <1>4, <1>5, <2>1 DEF TellsWanted
    <2>5. L[i] \in Offered(c, want)
      BY <1>4, <1>5 DEF AllOffered
    <2>6. \/ mid[1] = c /\ mid \in Track /\ dir \in {"sendrecv", "sendonly"}
          \/ mid = OldTrack /\ dir = "inactive"
          \/ mid \in ToSet(want) /\ dir = "recvonly"
      BY <1>7, <2>1, <2>5 DEF Offered, TracksOf
    <2>7. a.mid = mid /\ a.dir = AnswerDirection(dir, conference) /\ a.media = mid[2]
      BY <2>3 DEF AnswersSection
    <2>8. CASE mid[1] = c /\ mid \in Track /\ dir \in {"sendrecv", "sendonly"}
      <3>1. mid \notin ToSet(want) /\ mid # OldTrack
        BY <1>8, <2>8, RelayAssumption DEF OldTrack
      <3>2. a.dir \in {"recvonly", "sendrecv"} /\ (conference => a.dir = "recvonly")
        BY <2>7, <2>8 DEF AnswerDirection
      <3>3. /\ a.mid[1] = c /\ a.ssrc = NoSsrc
            /\ home[c] \in Conference => a.dir = "recvonly"
        BY <1>4, <2>4, <2>7, <2>8, <3>1, <3>2
      <3>4. SectionFits(c, a)
        BY <1>1, <1>5, <2>3, <2>7, <3>1, <3>2, <3>3 DEF SectionFits, AnswersSection
      <3>5. QED
        BY <2>1, <2>2, <2>3, <2>7, <3>4 DEF AnswersSection
    <2>9. CASE mid = OldTrack /\ dir = "inactive"
      <3>1. mid \notin ToSet(want) /\ a.dir = "inactive" /\ a.ssrc = NoSsrc
        BY <1>8, <2>4, <2>7, <2>9 DEF AnswerDirection
      <3>2. SectionFits(c, a)
        BY <1>1, <1>5, <2>3, <2>7, <2>9, <3>1 DEF SectionFits, AnswersSection
      <3>3. QED
        BY <2>1, <2>2, <2>3, <2>7, <3>2 DEF AnswersSection
    <2>10. CASE mid \in ToSet(want) /\ dir = "recvonly"
      <3>1. a.dir = "sendonly" /\ a.ssrc[1] = c /\ a.ssrc[2] = a.mid
        BY <2>4, <2>7, <2>10 DEF AnswerDirection, Named
      <3>2. a.media = "audio" => a.pts = <<Opus>>
        BY <2>3, <2>7, <2>10 DEF AnswersSection
      <3>3. SectionFits(c, a)
        BY <1>1, <1>5, <2>3, <1>8, <2>7, <2>10, <3>1, <3>2 DEF SectionFits, AnswersSection
      <3>4. QED
        BY <2>1, <2>2, <2>3, <2>7, <3>3 DEF AnswersSection
    <2>11. QED
      BY <2>6, <2>8, <2>9, <2>10
  <1>10. QED
    BY <1>1, <1>5, <1>6, <1>9

\* A request that is the same but for those it lost has the same answer.
LEMMA SameAnswer ==
    ASSUME NEW c \in Client, NEW r, NEW q, AnswerTo(c, r), scenario' = scenario,
           q.want = r.want, q.map = r.map, q.offer = r.offer, q.answer = r.answer
    PROVE  AnswerTo(c, q)'
  <1>1. SsrcMap(q) = SsrcMap(r)
    BY DEF SsrcMap
  <1>2. PICK style \in Styles :
            /\ r.offer = Offer(c, r.want, style)
            /\ \/ Len(r.map) = Len(r.want) /\ r.answer = BuildRenegoAnswer(r.offer, c, SsrcMap(r))
               \/ r.want = << >> /\ r.answer = BuildAnswer(r.offer, c, home[c] \in Conference)
    BY DEF AnswerTo
  <1>3. home' = home
    BY DEF home
  <1>4. /\ q.offer = Offer(c, q.want, style)
        /\ \/ Len(q.map) = Len(q.want) /\ q.answer = BuildRenegoAnswer(q.offer, c, SsrcMap(q))
           \/ q.want = << >> /\ q.answer = BuildAnswer(q.offer, c, (home[c] \in Conference)')
    BY <1>1, <1>2, <1>3
  <1>5. QED
    BY <1>4 DEF AnswerTo

\* What every step but c's leaves as it is.
LEMMA OthersAnswered ==
    ASSUME AnswerInv, NEW c \in Client, scenario' = scenario,
           task \in [Client -> TaskState], NEW s, task' = [task EXCEPT ![c] = s],
           NEW r, DOMAIN request = Client, request' = [request EXCEPT ![c] = r],
           s = "answered" => AnswerTo(c, r)'
    PROVE  AnswerInv'
  <1>1. ASSUME NEW d \in Client, task'[d] = "answered" PROVE AnswerTo(d, request[d])' \/ d = c
    <2>1. CASE d # c
      <3>1. task[d] = "answered" /\ request'[d] = request[d]
        BY <1>1, <2>1
      <3>2. PICK q : q = request[d]
        OBVIOUS
      <3>3. AnswerTo(d, q)
        BY <3>1, <3>2 DEF AnswerInv
      <3>4. AnswerTo(d, q)'
        BY <3>3, SameAnswer
      <3>5. QED
        BY <3>1, <3>2, <3>4
    <2>2. QED
      BY <2>1
  <1>2. QED
    BY <1>1 DEF AnswerInv

LEMMA InitAnswers == Init => AnswerInv
  <1>1. Init => \A c \in Client : task[c] # "answered"
    BY DEF Init
  <1>2. QED
    BY <1>1 DEF AnswerInv

LEMMA RequestsHeld ==
    ASSUME Inv
    PROVE  DOMAIN request = Client /\ task \in [Client -> TaskState]
  BY DEF Inv, ClientInv, RequestsOK

LEMMA StylesOK ==
    ASSUME NEW c \in Client, NEW style \in Style[c]
    PROVE  style \in Styles
  BY RelayAssumption DEF Styles

LEMMA JoinAnswers ==
    ASSUME Inv, AnswerInv, NEW c \in Client, NEW style \in Style[c], HandleChannelJoin(c, style)
    PROVE  AnswerInv'
  <1> DEFINE offer == Offer(c, << >>, style)
             answer == BuildAnswer(offer, c, home[c] \in Conference)
  <1>1. /\ task' = [task EXCEPT ![c] = "answered"]
        /\ request' = [request EXCEPT ![c] = [NoRequest EXCEPT !.offer = offer, !.answer = answer]]
        /\ scenario' = scenario
    BY DEF HandleChannelJoin
  <1>2. PICK o, a : o = offer /\ a = answer
    OBVIOUS
  <1>3. PICK r : r = [NoRequest EXCEPT !.offer = o, !.answer = a]
    OBVIOUS
  <1>4. r.want = << >> /\ r.offer = o /\ r.answer = a
    BY <1>3 DEF NoRequest
  <1>5. AnswerTo(c, r)
    BY <1>2, <1>4, StylesOK DEF AnswerTo
  <1>6. AnswerTo(c, r)'
    BY <1>1, <1>5, SameAnswer
  <1>7. request' = [request EXCEPT ![c] = r]
    BY <1>1, <1>2, <1>3
  <1>8. QED
    BY <1>1, <1>6, <1>7, RequestsHeld, OthersAnswered

LEMMA AnswerRenegotiateAnswers ==
    ASSUME Inv, AnswerInv, NEW c \in Client, NEW style \in Style[c], AnswerRenegotiate(c, style)
    PROVE  AnswerInv'
  <1> DEFINE q == request[c]
             offer == Offer(c, q.want, style)
             answer == BuildRenegoAnswer(offer, c, SsrcMap(q))
  <1>1. /\ Len(q.map) = Len(q.want)
        /\ task' = [task EXCEPT ![c] = "answered"]
        /\ request' = [request EXCEPT ![c].offer = offer, ![c].answer = answer]
        /\ scenario' = scenario
    BY DEF AnswerRenegotiate, SsrcMap
  <1>2. PICK o, a, b : o = offer /\ a = answer /\ b = q
    OBVIOUS
  <1>3. PICK r : r = [b EXCEPT !.offer = o, !.answer = a]
    OBVIOUS
  <1>4. IsRequest(b) /\ DOMAIN request = Client
    BY <1>2 DEF Inv, ClientInv, RequestsOK
  <1>5. /\ r.want = b.want /\ r.map = b.map /\ r.offer = o /\ r.answer = a
    <2>1. {"want", "map", "lost", "offer", "answer"} \subseteq DOMAIN b
      BY <1>4 DEF IsRequest
    <2>2. QED
      BY <1>3, <2>1
  <1>6. AnswerTo(c, r)
    <2>1. SsrcMap(r) = SsrcMap(b)
      BY <1>5 DEF SsrcMap
    <2>2. r.offer = Offer(c, r.want, style) /\ Len(r.map) = Len(r.want)
      BY <1>1, <1>2, <1>5
    <2>3. r.answer = BuildRenegoAnswer(r.offer, c, SsrcMap(r))
      BY <1>2, <1>5, <2>1
    <2>4. QED
      BY <2>2, <2>3, StylesOK DEF AnswerTo
  <1>7. AnswerTo(c, r)'
    BY <1>1, <1>6, SameAnswer
  <1>8. request' = [request EXCEPT ![c] = r]
    <2>1. request' = [request EXCEPT ![c].offer = o, ![c].answer = a]
      BY <1>1, <1>2
    <2>2. b = request[c]
      BY <1>2
    <2>3. QED
      BY <1>3, <1>4, <2>1, <2>2
  <1>9. QED
    BY <1>1, <1>7, <1>8, RequestsHeld, OthersAnswered

\* These steps leave c without an answer on its way.
LEMMA UnansweredAnswers ==
    ASSUME Inv, AnswerInv, NEW c \in Client,
           SendRenegotiate(c) \/ Allocate(c) \/ Receive(c)
    PROVE  AnswerInv'
  <1>1. /\ scenario' = scenario
        /\ \E s \in {"allocate", "idle"} : task' = [task EXCEPT ![c] = s]
        /\ \E r : request' = [request EXCEPT ![c] = r]
    <2>1. CASE SendRenegotiate(c)
      BY <2>1 DEF SendRenegotiate
    <2>2. CASE Allocate(c)
      <3>1. scenario' = scenario /\ task' = task /\ task[c] = "allocate"
        BY <2>2 DEF Allocate
      <3>2. task' = [task EXCEPT ![c] = "allocate"]
        BY <3>1, RequestsHeld
      <3>3. PICK ssrc : request' = [request EXCEPT ![c].map = Append(@, ssrc)]
        BY <2>2 DEF Allocate
      <3>4. \E r : request' = [request EXCEPT ![c] = r]
        BY <3>3
      <3>5. QED
        BY <3>1, <3>2, <3>4
    <2>3. CASE Receive(c)
      BY <2>3 DEF Receive
    <2>4. QED
      BY <2>1, <2>2, <2>3
  <1>2. QED
    BY <1>1, RequestsHeld, OthersAnswered

LEMMA BeginLeaveAnswers ==
    ASSUME Inv, AnswerInv, NEW c \in Client, BeginLeave(c)
    PROVE  AnswerInv'
  <1>1. /\ task' = [task EXCEPT ![c] = "leave"]
        /\ request' = [d \in Client |->
              CASE d = c -> NoRequest
                [] d \in Peers(c) /\ task[d] \in {"allocate", "answered"} ->
                      [request[d] EXCEPT !.lost = @ \cup {c}]
                [] OTHER -> request[d]]
        /\ scenario' = scenario
    BY DEF BeginLeave
  <1>2. ASSUME NEW d \in Client, task'[d] = "answered" PROVE AnswerTo(d, request[d])'
    <2>1. d # c /\ task[d] = "answered"
      BY <1>1, <1>2, RequestsHeld
    <2>2. PICK q, r : q = request[d] /\ r = request'[d]
      OBVIOUS
    <2>3. r = q \/ r = [q EXCEPT !.lost = @ \cup {c}]
      BY <1>1, <2>1, <2>2
    <2>4. IsRequest(q) /\ AnswerTo(d, q)
      BY <2>1, <2>2 DEF AnswerInv, Inv, ClientInv, RequestsOK
    <2>5. r.want = q.want /\ r.map = q.map /\ r.offer = q.offer /\ r.answer = q.answer
      <3>1. {"want", "map", "lost", "offer", "answer"} \subseteq DOMAIN q
        BY <2>4 DEF IsRequest
      <3>2. QED
        BY <2>3, <3>1
    <2>6. AnswerTo(d, r)'
      BY <1>1, <2>4, <2>5, SameAnswer
    <2>7. QED
      BY <2>2, <2>6
  <1>3. QED
    BY <1>2 DEF AnswerInv

LEMMA LeaveAnswers ==
    ASSUME Inv, AnswerInv, NEW c \in Client, RemoveEndpoint(c) \/ RemoveConsumers(c) \/ EndLeave(c)
    PROVE  AnswerInv'
  <1>1. /\ scenario' = scenario /\ request' = request
        /\ \E s : s # "answered" /\ task' = [task EXCEPT ![c] = s]
    BY DEF RemoveEndpoint, RemoveConsumers, EndLeave
  <1>2. request' = [request EXCEPT ![c] = request[c]]
    BY <1>1, RequestsHeld DEF Inv, ClientInv, RequestsOK
  <1>3. PICK r : request' = [request EXCEPT ![c] = r]
    BY <1>2
  <1>4. QED
    BY <1>1, <1>3, RequestsHeld, OthersAnswered

LEMMA AnswersStay ==
    ASSUME AnswerInv, UNCHANGED <<scenario, task, request>>
    PROVE  AnswerInv'
  BY DEF AnswerInv, AnswerTo, home

LEMMA NextAnswers == Inv /\ AnswerInv /\ [Next]_vars => AnswerInv'
  <1> SUFFICES ASSUME Inv, AnswerInv, [Next]_vars PROVE AnswerInv'
    OBVIOUS
  <1>1. CASE UNCHANGED vars
    BY <1>1, AnswersStay DEF vars, clientVars
  <1>2. ASSUME \/ \E t \in scenario.heard : RelayPacket(t)
               \/ \E pair \in udp.to : SendPacket(pair)
               \/ \E c \in Client \cup {NoClient} : ChangeFloor(c)
        PROVE  AnswerInv'
    BY <1>2, AnswersStay DEF RelayPacket, SendPacket, ChangeFloor, clientVars
  <1>3. QED
    BY <1>1, <1>2, JoinAnswers, AnswerRenegotiateAnswers, UnansweredAnswers,
       BeginLeaveAnswers, LeaveAnswers DEF Next

\* Every answer on its way to a client fits the offer it answers, whatever
\* tracks, styles of offers and peers that leave meanwhile: its sections are
\* the offer's m-lines in their order, none with a type that it does not
\* describe, and each is sent, received or stopped, under the SSRC, that the
\* client can expect.
THEOREM AnswersFit == Spec => []AnswersFitOffers
  <1>1. Inv /\ AnswerInv => AnswersFitOffers
    BY AnswerFits DEF AnswersFitOffers
  <1>2. QED
    BY <1>1, AlwaysInv, InitAnswers, NextAnswers, PTL DEF Spec
=============================================================================
