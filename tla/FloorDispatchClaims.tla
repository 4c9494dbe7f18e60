------------------------ MODULE FloorDispatchClaims ------------------------
(***************************************************************************)
(* Statements the repository makes about what clients are told, that do    *)
(* not hold when handlers overlap.  Each is checked by a run of its own,   *)
(* which finds a counterexample.                                           *)
(***************************************************************************)
EXTENDS FloorDispatch

\* README: FLOOR_GRANTED says the floor is granted and goes "to the holder
\* only".  Between its decision and its sends a handler holds no lock: the
\* grantee may have been preempted, and been sent its REVOKE, before GRANTED.
GrantedOnlyToHolder ==
    [][\A t \in Task, u \in User :
          Deliver(t, u) /\ Head(task[t].out).type = "GRANTED"
          => floor.floor_taken_by = u]_vars

\* README: FLOOR_TAKEN says that somebody is speaking.  A TAKEN sent late
\* follows the IDLE of a revocation, and nothing corrects it afterwards.
ShownHolderSpeaks ==
    Quiet => \A u \in members : told[u] \in {NoUser, floor.floor_taken_by}

\* CHANGELOG 0.18.0: a newcomer is told who speaks, so that its display does
\* not stay idle on a busy floor.  A request that copied the members before
\* the newcomer was added, and decides after it looked, tells it nothing.
NewcomerHears ==
    Quiet => \A u \in members \cap online :
                floor.state = "Taken" => told[u] # NoUser

\* CHANGELOG 0.20.3: the administrator's revocation sends REVOKE to the holder.
\* The holder is read in one lock section and cleared in another.
AdminRevokesHolder ==
    [][\A a \in Admin :
          AdminClears(a) => floor.floor_taken_by = task[a].holder]_vars
=============================================================================
