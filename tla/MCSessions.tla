----------------------------- MODULE MCSessions -----------------------------
(* Small instances of Sessions.                                            *)
EXTENDS Sessions, TLC

\* For instances whose channels are alike.
Symmetry ==
    Permutations(User) \cup Permutations(Conn) \cup Permutations(Channel)
        \cup Permutations(Ufrag)

RoomForAll == [ch \in Channel |-> Cardinality(User)]

\* One channel is full with its first member.
OneSmall ==
    LET small == CHOOSE ch \in Channel : TRUE
    IN  [RoomForAll EXCEPT ![small] = 1]
=============================================================================
