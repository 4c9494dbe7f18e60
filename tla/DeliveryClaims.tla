--------------------------- MODULE DeliveryClaims ---------------------------
(***************************************************************************)
(* What is said of deliveries and does not hold.                           *)
(***************************************************************************)
EXTENDS MCDelivery

\* config.rs:11: when an egress queue is full, old packets are dropped, so that
\* nobody is delayed.  A handler waits for a client that does not read.
NobodyWaits ==
    \A c \in Client : handler[c].sends # << >> =>
        LET s == Head(handler[c].sends) IN s.to = c \/ line[s.to] # "stalled" \/ Room(s)

\* README.md:293: the members hear of every change of membership.  A client
\* that joins while another one leaves is shown that one for ever.
RostersAgree == Quiet => \A c \in members : roster[c] = members
=============================================================================
