------------------------------- MODULE Relay --------------------------------
(***************************************************************************)
(* The media relay of conference and PTT channels: which SSRC a sender's   *)
(* track bears for each receiver (MediaPeerHub.consumer_ssrc), the reverse *)
(* map the relay looks up per packet (ssrc_relay_map), the SDP answers     *)
(* that tell receivers those SSRCs, and the UDP task that relays packets.  *)
(*                                                                         *)
(* A connection's handlers run one after the other, so each client has one *)
(* task; the UDP task is one more.  Steps are the sections under one lock. *)
(* get_or_create_consumer_ssrc checks and inserts under two: only the      *)
(* receiver's own task inserts its keys, and a removal between the two     *)
(* does what one before the check does, so here they are one step.         *)
(*                                                                         *)
(* An endpoint is taken to have its address and keys; MediaPeer and        *)
(* DtlsSessions say how it comes by them.  Clients negotiate anew only in  *)
(* conferences, one receiving m-line per track of each peer they know of.  *)
(***************************************************************************)
EXTENDS SdpAnswer, FiniteSets

CONSTANTS
    Client,     \* connections, each of a user of its own
    NoClient,
    NoChannel,
    Channel,
    Conference, \* the channels of mode conference; the others are ptt
    Sends,      \* the kinds of the tracks each client sends
    Scenario,   \* which channel each client joins, and bounds: how often they
                \* join in all and whose packets are explored
    Style,      \* the ways in which each client's browser describes an offer
    Serial,     \* bound: SSRCs drawn for one receiver and one track
    MaxHolds    \* bound: how often the floor is granted

Kind == {"audio", "video"}
Track == {t \in Client \X Kind : t[2] \in Sends[t[1]]}

ASSUME RelayAssumption ==
    /\ NoClient \notin Client
    /\ IsFiniteSet(Client)
    /\ NoChannel \notin Channel
    /\ Conference \subseteq Channel
    /\ Sends \in [Client -> SUBSET Kind]
    /\ Scenario \subseteq [home : [Client -> Channel], joins : Nat,
                            heard : SUBSET Track]
    /\ Serial \subseteq Nat
    /\ Style \in [Client -> SUBSET {"plain", "many", "stopped"}]
    /\ MaxHolds \in Nat

\* A random number nobody else has drawn, named by what it was drawn for.
Ssrc == Client \X Track \X Serial
Raw == << >>    \* a packet that keeps the sender's own SSRC

VARIABLES
    scenario,
    joins,      \* how often clients have joined
    endpoints,  \* the clients that have an endpoint in by_ufrag
    consumer,   \* consumer_ssrc: by receiver and track
    relay,      \* ssrc_relay_map: by track, pairs of receiver and SSRC
    rebuilt,    \* the channel rebuild_relay_map was last called for
    task,       \* where each connection's task is
    request,    \* the request a task works on, and its answer
    due,        \* peers that were added since the client's last offer
    told,       \* by client and track: the SSRC of the answer in force
    floor,      \* the holder of the ptt channel's floor
    holds,      \* the holders so far
    udp,        \* the packet the UDP task is sending
    heard       \* by client: whom it heard in the ptt channel, in order

hubVars == <<consumer, relay, rebuilt>>
clientVars == <<task, request, due, told>>
mediaVars == <<floor, holds, udp, heard>>
vars == <<scenario, joins, endpoints, hubVars, clientVars, mediaVars>>

TaskState == {"out", "idle", "allocate", "answered",
              "leave", "forget", "unmap"}
NoRequest == [want |-> << >>, map |-> << >>, lost |-> {},
              offer |-> << >>, answer |-> << >>]
NoPacket == [track |-> <<NoClient, "audio">>, to |-> {}]

home == scenario.home
InChannel(ch) == {c \in endpoints : home[c] = ch}
Peers(c) == InChannel(home[c]) \ {c}
Leaving(c) == task[c] \in {"leave", "forget", "unmap"}
TracksOf(c) == {t \in Track : t[1] = c}

-----------------------------------------------------------------------------
(* What browsers offer. *)

Types(kind, style) ==
    CASE kind = "audio" /\ style # "many" -> <<Opus>>
      [] kind = "audio" /\ style = "many" -> <<63, Opus, 9>>
      [] kind = "video" /\ style # "many" -> <<96>>
      [] kind = "video" /\ style = "many" -> <<96, 97, 98, 99>>

\* Types 97 and 99 repair 96 and 98.
CodecLines(kind, style) ==
    LET Line(pt) == [is |-> "codec", pt |-> pt,
                     apt |-> IF pt \in {97, 99} THEN pt - 1 ELSE NoType]
        pts == Types(kind, style)
    IN [i \in DOMAIN pts |-> Line(pts[i])]

MediaLines(mid, dir, style) ==
    << [is |-> "m", media |-> mid[2], pts |-> Types(mid[2], style)],
       [is |-> "own"], [is |-> "mid", mid |-> mid], [is |-> "other"] >>
    \o (IF dir = "sendrecv" THEN << >> ELSE << [is |-> "direction", dir |-> dir] >>)
    \o (IF style = "many" THEN << [is |-> "rsize"] >> ELSE << >>)
    \o CodecLines(mid[2], style)

\* The client's own tracks, then one m-line for each track it wants; a client
\* of style "stopped" has an m-line of a peer long gone before them.
OldTrack == <<NoClient, "audio">>
Offer(c, want, style) ==
    LET own == SetToSeq(TracksOf(c))
        Own(i) == MediaLines(own[i], IF style = "stopped" THEN "sendonly" ELSE "sendrecv", style)
        Wanted(i) == MediaLines(want[i], "recvonly", style)
    IN << [is |-> "other"] >>
       \o FlattenSeq([i \in DOMAIN own |-> Own(i)])
       \o (IF style = "stopped" THEN MediaLines(OldTrack, "inactive", style) ELSE << >>)
       \o FlattenSeq([i \in DOMAIN want |-> Wanted(i)])
-----------------------------------------------------------------------------
TypeOK ==
    /\ scenario \in Scenario
    /\ joins \in 0..scenario.joins
    /\ endpoints \subseteq Client
    /\ \A key \in DOMAIN consumer : consumer[key] \in Ssrc \cup {NoSsrc}
    /\ \A t \in Track : relay[t] \subseteq Client \X Ssrc
    /\ rebuilt \in Channel \cup {NoChannel}
    /\ task \in [Client -> TaskState]
    /\ \A c \in Client : /\ request[c].want \in Seq(Track)
                          /\ request[c].map \in Seq(Ssrc)
    /\ due \in [Client -> SUBSET Client]
    /\ \A c \in Client, t \in Track : told[c][t] \in Ssrc \cup {NoSsrc}
    /\ floor \in Client \cup {NoClient}
    /\ holds \in Seq(Client) /\ Len(holds) <= MaxHolds
    /\ udp.track \in Track \cup {NoPacket.track}
    /\ udp.to \subseteq (Client \ {udp.track[1]}) \X (Ssrc \cup {Raw})
    /\ heard \in [Client -> Seq(Client)]

Init ==
    /\ scenario \in Scenario
    /\ joins = 0
    /\ endpoints = {}
    /\ consumer = [key \in Client \X Track |-> NoSsrc]
    /\ relay = [t \in Track |-> {}]
    /\ rebuilt = NoChannel
    /\ task = [c \in Client |-> "out"]
    /\ request = [c \in Client |-> NoRequest]
    /\ due = [c \in Client |-> {}]
    /\ told = [c \in Client |-> [t \in Track |-> NoSsrc]]
    /\ floor = NoClient
    /\ holds = << >>
    /\ udp = NoPacket
    /\ heard = [c \in Client |-> << >>]
-----------------------------------------------------------------------------
(* The hub's maps. *)

\* rebuild_relay_map: the whole map is cleared, one channel's part refilled.
FaultyRelayMap(ch) ==
    [t \in Track |-> {<<key[1], consumer[key]>> : key \in
        {k \in DOMAIN consumer : /\ k[2][1] = t[1] /\ t[1] \in InChannel(ch)
                                 /\ consumer[k] # NoSsrc}}]

RelayMap(ch) ==
    [t \in Track |-> {<<key[1], consumer[key]>> : key \in
        {k \in DOMAIN consumer : /\ k[2] = t /\ t[1] \in InChannel(ch)
                                 /\ consumer[k] # NoSsrc}}]

Rebuild(ch) ==
    /\ relay' = RelayMap(ch)
    /\ rebuilt' = ch

\* An SSRC that is nowhere in use.
InUse ==
    {consumer[key] : key \in DOMAIN consumer}
    \cup UNION {{pair[2] : pair \in relay[t]} : t \in Track}
    \cup {told[c][t] : c \in Client, t \in Track}
    \cup UNION {ToSet(request[c].map) : c \in Client}
    \cup {pair[2] : pair \in udp.to}
Fresh(c, t) ==
    LET used == InUse
    IN <<c, t, CHOOSE n \in Serial : /\ <<c, t, n>> \notin used
                                     /\ \A m \in Serial : m < n => <<c, t, m>> \in used>>

GetOrCreate(c, t) ==
    IF consumer[<<c, t>>] # NoSsrc THEN consumer[<<c, t>>] ELSE Fresh(c, t)
-----------------------------------------------------------------------------
(* CHANNEL_JOIN.  The peers are told of the newcomer and it of them. *)

HandleChannelJoin(c, style) ==
    LET offer == Offer(c, << >>, style)
        answer == BuildAnswer(offer, c, home[c] \in Conference)
    IN /\ task[c] = "out"
       /\ joins < scenario.joins
       /\ joins' = joins + 1
       /\ endpoints' = endpoints \cup {c}
       /\ task' = [task EXCEPT ![c] = "answered"]
       /\ request' = [request EXCEPT ![c] =
                [NoRequest EXCEPT !.offer = offer, !.answer = answer]]
       /\ due' = [d \in Client |-> CASE d = c -> Peers(c)
                                     [] d \in Peers(c) -> due[d] \cup {c}
                                     [] OTHER -> due[d]]
       /\ UNCHANGED <<scenario, hubVars, told, mediaVars>>

(* RENEGOTIATE: the offer's m-lines are chosen when the client sends it. *)
Known(c) == {d \in Client : d \in due[c] \/ \E t \in TracksOf(d) : told[c][t] # NoSsrc}

SendRenegotiate(c) ==
    /\ task[c] = "idle"
    /\ home[c] \in Conference
    /\ due[c] # {}
    /\ task' = [task EXCEPT ![c] = "allocate"]
    /\ request' = [request EXCEPT ![c] =
            [NoRequest EXCEPT !.want = SetToSeq({t \in Track : t[1] \in Known(c)})]]
    /\ due' = [due EXCEPT ![c] = {}]
    /\ UNCHANGED <<scenario, joins, endpoints, hubVars, told, mediaVars>>

\* One entry of mid_map after the other, then the answer.  The bound: a number
\* must be left to draw.
Allocate(c) ==
    LET r == request[c]
        t == r.want[Len(r.map) + 1]
        ssrc == GetOrCreate(c, t)
    IN /\ task[c] = "allocate"
       /\ Len(r.map) < Len(r.want)
       /\ consumer[<<c, t>>] = NoSsrc => \E n \in Serial : <<c, t, n>> \notin InUse
       /\ consumer' = [consumer EXCEPT ![<<c, t>>] = ssrc]
       /\ request' = [request EXCEPT ![c].map = Append(@, ssrc)]
       /\ UNCHANGED <<scenario, joins, endpoints, relay, rebuilt, task, due, told, mediaVars>>

FaultyAnswerRenegotiate(c, style) ==
    LET r == request[c]
        offer == Offer(c, r.want, style)
        ssrcMap == [i \in DOMAIN r.want |-> [mid |-> r.want[i], ssrc |-> r.map[i]]]
    IN /\ task[c] = "allocate"
       /\ Len(r.map) = Len(r.want)
       /\ task' = [task EXCEPT ![c] = "answered"]
       /\ request' = [request EXCEPT
                ![c].offer = offer,
                ![c].answer = BuildRenegoAnswer(offer, c, ssrcMap)]
       /\ UNCHANGED <<scenario, joins, endpoints, hubVars, due, told, mediaVars>>

AnswerRenegotiate(c, style) ==
    LET r == request[c]
        offer == Offer(c, r.want, style)
        ssrcMap == [i \in DOMAIN r.want |-> [mid |-> r.want[i], ssrc |-> r.map[i]]]
    IN /\ task[c] = "allocate"
       /\ Len(r.map) = Len(r.want)
       /\ task' = [task EXCEPT ![c] = "answered"]
       /\ request' = [request EXCEPT
                ![c].offer = offer,
                ![c].answer = BuildRenegoAnswer(offer, c, ssrcMap)]
       /\ Rebuild(home[c])
       /\ UNCHANGED <<scenario, joins, endpoints, consumer, due, told, mediaVars>>

\* The client applies the answer, except for peers it has been told are gone
\* since its offer.  No two m-lines of its offer have the same mid.
Receive(c) ==
    LET sections == request[c].answer.sections
        New(t) == {i \in DOMAIN sections :
                     /\ sections[i].mid = t /\ sections[i].dir = "sendonly"
                     /\ sections[i].ssrc # NoSsrc /\ t[1] \notin request[c].lost}
    IN /\ task[c] = "answered"
       /\ task' = [task EXCEPT ![c] = "idle"]
       /\ told' = [told EXCEPT ![c] = [t \in Track |->
                IF New(t) = {} THEN @[t]
                ELSE sections[CHOOSE i \in New(t) : TRUE].ssrc]]
       /\ request' = [request EXCEPT ![c] = NoRequest]
       /\ UNCHANGED <<scenario, joins, endpoints, hubVars, due, mediaVars>>
-----------------------------------------------------------------------------
(* CHANNEL_LEAVE, or the cleanup of a connection that ends: the events are *)
(* sent before anything is removed.                                        *)

BeginLeave(c) ==
    /\ task[c] \in {"idle", "answered"}
    /\ task' = [task EXCEPT ![c] = "leave"]
    /\ told' = [d \in Client |-> [t \in Track |->
            IF d = c \/ (d \in Peers(c) /\ t[1] = c) THEN NoSsrc ELSE told[d][t]]]
    /\ due' = [d \in Client |-> CASE d = c -> {}
                                  [] d \in Peers(c) -> due[d] \ {c}
                                  [] OTHER -> due[d]]
    /\ request' = [d \in Client |->
            CASE d = c -> NoRequest
              [] d \in Peers(c) /\ task[d] \in {"allocate", "answered"} ->
                    [request[d] EXCEPT !.lost = @ \cup {c}]
              [] OTHER -> request[d]]
    /\ UNCHANGED <<scenario, joins, endpoints, hubVars, mediaVars>>

RemoveEndpoint(c) ==
    /\ task[c] = "leave"
    /\ task' = [task EXCEPT ![c] = "forget"]
    /\ endpoints' = endpoints \ {c}
    /\ UNCHANGED <<scenario, joins, hubVars, request, due, told, mediaVars>>

RemoveConsumers(c) ==
    /\ task[c] = "forget"
    /\ task' = [task EXCEPT ![c] = "unmap"]
    /\ consumer' = [key \in DOMAIN consumer |->
            IF c \in {key[1], key[2][1]} THEN NoSsrc ELSE consumer[key]]
    /\ UNCHANGED <<scenario, joins, endpoints, relay, rebuilt, request, due, told, mediaVars>>

EndLeave(c) ==
    /\ task[c] = "unmap"
    /\ task' = [task EXCEPT ![c] = "out"]
    /\ Rebuild(home[c])
    /\ UNCHANGED <<scenario, joins, endpoints, consumer, request, due, told, mediaVars>>
-----------------------------------------------------------------------------
(* Packets. *)

FaultyMayRelay(c) == home[c] \in Conference \/ floor # NoClient

\* relay_to_channel's gate.
MayRelay(c) == home[c] \in Conference \/ floor = c

FaultyBroadcast(c) == {<<d, Raw>> : d \in InChannel(home[c])}

\* Everybody else in the channel, the sender's own SSRC kept.
Broadcast(c) == {<<d, Raw>> : d \in Peers(c)}

\* handle_srtp: what comes from an address without an endpoint is dropped, and
\* so are control packets, which no track has here.
HandleSrtp(t) == t[1] \in endpoints

\* relay_to_channel up to the first send.  A conference with nothing in the
\* relay map for the track broadcasts.
RelayPacket(t) ==
    /\ udp = NoPacket
    /\ HandleSrtp(t)
    /\ MayRelay(t[1])
    /\ udp' = [track |-> t,
               to |-> IF home[t[1]] \in Conference /\ relay[t] # {}
                      THEN relay[t] ELSE Broadcast(t[1])]
    /\ udp'.to # {}
    /\ UNCHANGED <<scenario, joins, endpoints, hubVars, clientVars, floor, holds, heard>>

\* A rewritten packet goes to the receiver's endpoint in the channel, if it
\* has one by now; a broadcast goes to the endpoints collected before.
SendPacket(pair) ==
    /\ pair \in udp.to
    /\ udp' = IF udp.to = {pair} THEN NoPacket ELSE [udp EXCEPT !.to = @ \ {pair}]
    /\ heard' = IF /\ home[udp.track[1]] \notin Conference
                   /\ \/ heard[pair[1]] = << >>
                      \/ heard[pair[1]] # << >> /\ Last(heard[pair[1]]) # udp.track[1]
                THEN [heard EXCEPT ![pair[1]] = Append(@, udp.track[1])]
                ELSE heard
    /\ UNCHANGED <<scenario, joins, endpoints, hubVars, clientVars, floor, holds>>

\* The floor of the ptt channel changes hands; who may take it is Floor's.
ChangeFloor(c) ==
    /\ c # floor
    /\ c = NoClient \/ (c \in endpoints /\ home[c] \notin Conference)
    /\ c # NoClient => Len(holds) < MaxHolds
    /\ floor' = c
    /\ holds' = IF c = NoClient THEN holds ELSE Append(holds, c)
    /\ UNCHANGED <<scenario, joins, endpoints, hubVars, clientVars, udp, heard>>

Next ==
    \/ \E c \in Client :
        \/ \E style \in Style[c] : HandleChannelJoin(c, style) \/ AnswerRenegotiate(c, style)
        \/ SendRenegotiate(c)
        \/ Allocate(c)
        \/ Receive(c)
        \/ BeginLeave(c)
        \/ RemoveEndpoint(c)
        \/ RemoveConsumers(c)
        \/ EndLeave(c)
    \/ \E t \in scenario.heard : RelayPacket(t)
    \/ \E pair \in udp.to : SendPacket(pair)
    \/ \E c \in Client \cup {NoClient} : ChangeFloor(c)

Spec == Init /\ [][Next]_vars
-----------------------------------------------------------------------------
Media(offer) == Keep(offer, {line \in ToSet(offer) : line.is = "m"})
Mids(offer) == Keep(offer, {line \in ToSet(offer) : line.is = "mid"})
CodecTypes(section) == {line.pt : line \in {l \in ToSet(section.lines) : l.is = "codec"}}

\* A section of an answer to client c: where the client asked for a peer's
\* track the server sends, under an SSRC of that track for that receiver, and
\* names only types it also describes; a stopped section stays stopped; on
\* the client's own section the server listens, and in a conference it never
\* sends there.
SectionFits(c, section) ==
    /\ section.ice = c
    /\ section.pts # << >> /\ ToSet(section.pts) = CodecTypes(section)
    /\ \A line \in ToSet(section.lines) : line.is # "own"
    /\ CASE section.mid \in ToSet(request[c].want) ->
                /\ section.dir = "sendonly"
                /\ section.ssrc[1] = c /\ section.ssrc[2] = section.mid
                /\ section.media = "audio" => section.pts = <<Opus>>
         [] section.mid = OldTrack ->
                section.dir = "inactive" /\ section.ssrc = NoSsrc
         [] OTHER ->
                /\ section.mid[1] = c
                /\ section.dir \in {"recvonly", "sendrecv"} /\ section.ssrc = NoSsrc
                /\ home[c] \in Conference => section.dir = "recvonly"

\* Every answer on its way to a client fits the offer it answers: the media
\* sections of the offer in their order, bundled, each as above.
AnswersFitOffers ==
    \A c \in Client : task[c] = "answered" =>
        LET offer == request[c].offer
            answer == request[c].answer
        IN /\ Len(answer.sections) = Len(Media(offer))
           /\ \A i \in DOMAIN answer.sections :
                LET section == answer.sections[i] IN
                /\ section.media = Media(offer)[i].media
                /\ ToSet(section.pts) \subseteq ToSet(Media(offer)[i].pts)
                /\ section.mid = Mids(offer)[i].mid
                /\ answer.bundle[i] = section.mid
                /\ SectionFits(c, section)

\* What a receiver was told is what the relay sends it, in the channel whose
\* map was rebuilt last: once a client has an answer for all the peers it was
\* told of, each of their tracks is relayed to it under the SSRC of that
\* answer.
RelayMatchesAnswers ==
    \A c, d \in InChannel(rebuilt) :
        /\ c # d
        /\ rebuilt \in Conference
        /\ task[c] = "idle" /\ due[c] = {}
        /\ ~Leaving(d)
        => \A t \in TracksOf(d) : /\ told[c][t] # NoSsrc
                                  /\ <<c, told[c][t]>> \in relay[t]

\* No packet reaches a client under an SSRC that it was told is another
\* track's.
NoCrossTalk ==
    \A pair \in udp.to, u \in Track :
        told[pair[1]][u] = pair[2] /\ pair[2] # Raw => u = udp.track

\* Whom a client hears in a ptt channel are holders of its floor, in the
\* order in which they held it.
HeardInTurns ==
    \A c \in Client :
        \E turn \in [DOMAIN heard[c] -> DOMAIN holds] :
            \A i, j \in DOMAIN heard[c] :
                heard[c][i] = holds[turn[i]] /\ (i < j => turn[i] < turn[j])
=============================================================================
