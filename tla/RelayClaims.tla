----------------------------- MODULE RelayClaims -----------------------------
(***************************************************************************)
(* Statements the repository makes about the relay that the code does not  *)
(* keep, each with a run of its own that finds a counterexample.           *)
(***************************************************************************)
EXTENDS MCRelay

\* media/net.rs says of a conference packet without relay map that it is
\* "not re-negotiated yet".  But rebuild_relay_map clears every channel's
\* entries: when somebody leaves another channel the packets of a conference
\* whose clients all have their answers are broadcast under SSRCs no answer
\* names.
AnswersOutliveOthers ==
    \A c, d \in endpoints :
        /\ c # d /\ home[c] = home[d] /\ home[c] \in Conference
        /\ task[c] = "idle" /\ due[c] = {} /\ ~Leaving(d)
        => \A t \in TracksOf(d) : relay[t] # {}
=============================================================================
