----------------------------- MODULE SdpAnswer ------------------------------
(***************************************************************************)
(* The SDP answers of protocol/sdp.rs, as functions of the offer.          *)
(*                                                                         *)
(* An offer is a sequence of lines.  A line is a record whose field `is'   *)
(* says what the parser takes it for:                                      *)
(*   "m"          a media line: its media and payload types, in order      *)
(*   "direction"  a=sendrecv, a=sendonly, a=recvonly, a=inactive           *)
(*   "rsize"      a=rtcp-rsize                                             *)
(*   "own"        what the server has its own lines for: ICE, fingerprint, *)
(*                setup, candidates, rtcp-mux, c=, ssrc, msid              *)
(*   "mid"        a=mid                                                    *)
(*   "codec"      a=rtpmap, a=fmtp, a=rtcp-fb: its payload type, and for   *)
(*                an fmtp line with apt the type it repairs                *)
(*   "other"      everything else                                          *)
(* An answer keeps one record per media section instead of its lines; the  *)
(* lines that are the same in every answer (setup:passive, rtcp-mux, the   *)
(* candidate, the fingerprint) are left out.                               *)
(***************************************************************************)
EXTENDS Integers, SequencesExt

NoMid == << >>
NoType == 0
NoSsrc == << >>

Direction == {"sendrecv", "sendonly", "recvonly", "inactive"}

\* A media line opens a section, whose direction is sendrecv until a line
\* says otherwise.
OpenSection(line) ==
    [media |-> line.media, pts |-> line.pts, mid |-> NoMid,
     dir |-> "sendrecv", rsize |-> FALSE, lines |-> << >>]

\* One line of the offer.  What precedes the first media line is skipped.
ParseLine(sections, line) ==
    LET n == Len(sections) IN
    CASE line.is = "m" -> Append(sections, OpenSection(line))
      [] line.is # "m" /\ n = 0 -> sections
      [] line.is = "direction" /\ n > 0 -> [sections EXCEPT ![n].dir = line.dir]
      [] line.is = "rsize" /\ n > 0 -> [sections EXCEPT ![n].rsize = TRUE]
      [] line.is = "own" /\ n > 0 -> sections
      [] line.is = "mid" /\ n > 0 ->
            [sections EXCEPT ![n].mid = line.mid, ![n].lines = Append(@, line)]
      [] line.is \in {"codec", "other"} /\ n > 0 ->
            [sections EXCEPT ![n].lines = Append(@, line)]

ParseOffer(offer) == FoldLeft(ParseLine, << >>, offer)

\* The offered direction seen from the server.  In a conference the server
\* never sends where the client does.
FaultyAnswerDirection(dir, conference) ==
    CASE dir = "recvonly" -> "sendonly"
      [] dir = "sendonly" -> "recvonly"
      [] dir = "inactive" -> "inactive"
      [] dir = "sendrecv" -> "sendrecv"

AnswerDirection(dir, conference) ==
    CASE dir = "recvonly" -> "sendonly"
      [] dir = "sendonly" -> "recvonly"
      [] dir = "inactive" -> "inactive"
      [] dir = "sendrecv" -> IF conference THEN "recvonly" ELSE "sendrecv"

\* Where the server only sends it names what it sends: Opus, or the first
\* video codec with its retransmissions.
Opus == 111

SentTypes(section) ==
    CASE section.media = "audio" -> {Opus}
      [] section.media # "audio" /\ section.pts # << >> ->
            LET first == Head(section.pts) IN
            {first} \cup {line.pt : line \in {l \in ToSet(section.lines) :
                                              l.is = "codec" /\ l.apt = first}}
      [] OTHER -> {}

\* The elements of s that are in S, in their order.
Keep(s, S) ==
    LET kept[n \in 0..Len(s)] ==
            IF n = 0 THEN << >>
            ELSE IF s[n] \in S THEN Append(kept[n - 1], s[n]) ELSE kept[n - 1]
    IN kept[Len(s)]

\* The media line and the codec lines of a section the server only sends on.
\* If the offer has none of the types the media line stays as it was.
Narrow(section) ==
    LET sent == SentTypes(section)
        kept == Keep(section.pts, sent)
        stay == {line \in ToSet(section.lines) :
                   line.is = "codec" /\ sent # {} => line.pt \in sent}
    IN [section EXCEPT !.pts = IF kept = << >> THEN @ ELSE kept,
                       !.lines = Keep(@, stay)]

AnswerSection(section, ice, conference) ==
    LET dir == AnswerDirection(section.dir, conference)
        body == IF dir = "sendonly" THEN Narrow(section) ELSE section
    IN [media |-> body.media, pts |-> body.pts, mid |-> body.mid, dir |-> dir,
        rsize |-> body.rsize, lines |-> body.lines, ice |-> ice, ssrc |-> NoSsrc]

\* ice stands for the pair of user fragment and password.
BuildAnswer(offer, ice, conference) ==
    LET sections == ParseOffer(offer) IN
    [bundle |-> [i \in DOMAIN sections |-> sections[i].mid],
     sections |-> [i \in DOMAIN sections |->
                     AnswerSection(sections[i], ice, conference)]]

\* The SSRC a re-negotiation tells for a mid; of two entries for one mid the
\* later counts.
Told(ssrcMap, mid) ==
    LET entries == {i \in DOMAIN ssrcMap : ssrcMap[i].mid = mid} IN
    IF entries = {} THEN NoSsrc ELSE ssrcMap[Max(entries)].ssrc

\* A re-negotiation keeps the credentials, is always a conference's, and adds
\* an SSRC to each section the map names, whatever its direction.
BuildRenegoAnswer(offer, ice, ssrcMap) ==
    LET answer == BuildAnswer(offer, ice, TRUE)
        Tell(section) == IF section.mid = NoMid THEN section
                         ELSE [section EXCEPT !.ssrc = Told(ssrcMap, section.mid)]
    IN [answer EXCEPT !.sections = [i \in DOMAIN @ |-> Tell(@[i])]]
=============================================================================
