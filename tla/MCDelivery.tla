----------------------------- MODULE MCDelivery -----------------------------
(* Instance of Delivery for TLC. *)
EXTENDS Delivery

CONSTANTS first, second, third

\* The slow member may leave while the others speak; the third may be in the
\* channel by its second request.
MCRequests ==
    first :> <<{"leave", "look", "ignored"}>>
    @@ second :> << >>
    @@ third :> <<{"join", "update"}, {"message", "refused"}>>
=============================================================================
