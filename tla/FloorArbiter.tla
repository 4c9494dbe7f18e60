---------------------------- MODULE FloorArbiter ----------------------------
(***************************************************************************)
(* What a channel's floor control promises, without its queue, its clocks  *)
(* or its threads: one holder at a time, a set of waiting users, and, when *)
(* the holder goes, the floor passes to a waiter of the highest priority   *)
(* that no waiter of the same priority came before.                        *)
(***************************************************************************)
EXTENDS Naturals, Functions

CONSTANTS
    User, NoUser, Priority,
    Urgent  \* whether there are requests that outrank every priority

VARIABLES
    holder,     \* the user that may speak, or NoUser
    rank,       \* the priority the holder was granted with, 0 when free
    waiting,    \* each waiting user's priority
    ahead       \* <<u, v>> when u arrived before v at the same priority

avars == <<holder, rank, waiting, ahead>>

AbsTypeOK ==
    /\ holder \in User \cup {NoUser}
    /\ rank \in Priority \cup {0}
    /\ \E W \in SUBSET User : waiting \in [W -> Priority]
    /\ ahead \subseteq (DOMAIN waiting) \X (DOMAIN waiting)

AbsInit ==
    /\ holder = NoUser
    /\ rank = 0
    /\ waiting = <<>>
    /\ ahead = {}

-----------------------------------------------------------------------------
\* n is the waiter of W that must be served next.
First(n, W) ==
    \A w \in W : /\ waiting[w] <= waiting[n]
                 /\ waiting[w] = waiting[n] => <<w, n>> \notin ahead

\* Only the users of W go on waiting.
KeepWaiting(W) ==
    /\ waiting' = Restrict(waiting, W)
    /\ ahead' = ahead \cap (W \X W)

\* The holder is done and the users of W compete for the floor.
PassTo(W) ==
    \/ /\ W = {}
       /\ holder' = NoUser
       /\ rank' = 0
       /\ KeepWaiting({})
    \/ \E n \in W :
          /\ First(n, W)
          /\ holder' = n
          /\ rank' = waiting[n]
          /\ KeepWaiting(W \ {n})

-----------------------------------------------------------------------------
\* A free floor is taken at once; nobody can be waiting for it.
Seize(u, p) ==
    /\ holder = NoUser
    /\ DOMAIN waiting = {}
    /\ holder' = u
    /\ rank' = p
    /\ UNCHANGED <<waiting, ahead>>

\* Only a higher priority or an urgent request displaces a holder.
Displace(u, p) ==
    /\ holder # NoUser
    /\ Urgent \/ p > rank
    /\ holder' = u
    /\ rank' = p
    /\ UNCHANGED <<waiting, ahead>>

\* A waiter that asks again loses its place.
Await(u, p) ==
    LET others == (DOMAIN waiting) \ {u}
    IN  /\ holder # NoUser
        /\ p <= rank
        /\ waiting' = [w \in others \cup {u} |-> IF w = u THEN p ELSE waiting[w]]
        /\ ahead' = (ahead \cap (others \X others))
                        \cup {<<w, u>> : w \in {v \in others : waiting[v] = p}}
        /\ UNCHANGED <<holder, rank>>

Withdraw(u) ==
    /\ u # holder
    /\ KeepWaiting((DOMAIN waiting) \ {u})
    /\ UNCHANGED <<holder, rank>>

\* Release, or revocation by the clock.
Yield ==
    /\ holder # NoUser
    /\ PassTo(DOMAIN waiting)

\* The holder's connection ends: it does not compete for its own floor.
Depart(u) ==
    /\ u = holder
    /\ PassTo((DOMAIN waiting) \ {u})

\* The administrator frees the floor and sends every waiter away.
Reset ==
    /\ holder' = NoUser
    /\ rank' = 0
    /\ KeepWaiting({})

AbsNext ==
    \/ \E u \in User, p \in Priority :
          Seize(u, p) \/ Displace(u, p) \/ Await(u, p)
    \/ \E u \in User : Withdraw(u) \/ Depart(u)
    \/ Yield
    \/ Reset

AbsSpec == AbsInit /\ [][AbsNext]_avars
=============================================================================
