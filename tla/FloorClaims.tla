---------------------------- MODULE FloorClaims ----------------------------
(***************************************************************************)
(* Statements the repository makes about floor control that the code does  *)
(* not keep.  Each is checked by a run of its own, which finds a           *)
(* counterexample.                                                         *)
(***************************************************************************)
EXTENDS Floor

VARIABLE held_for   \* ticks since its holder last got the floor from another
                    \* user, from the queue or from a free floor

\* Saturates just above the largest value a property asks about.
HeldCap == MaxTaken + ReaperInterval

ClaimInit == Init /\ held_for = 0

ClaimNext ==
    /\ Next
    /\ held_for' =
          IF \/ floor'.floor_taken_by # floor.floor_taken_by
             \/ floor'.queue # floor.queue /\ floor' = DecideNext(floor)
          THEN 0
          ELSE IF sweep_age' = sweep_age + 1 /\ floor.state = "Taken" /\ held_for < HeldCap
               THEN held_for + 1
               ELSE held_for

claimVars == <<vars, held_for>>

ClaimSpec == ClaimInit /\ [][ClaimNext]_claimVars

-----------------------------------------------------------------------------
\* config.rs: "maximum hold time: Revoke unconditionally, Emergency included
\* (30 s)".  A holder that preempts itself (an emergency request, or one of a
\* higher priority, while it holds the floor) restarts its clock.
HoldUnbroken == held_for < HeldCap

\* README: "when the server has had no ping for 6 seconds it sends
\* FLOOR_REVOKE(ping_timeout)".  The age is looked at only when the reaper
\* runs, every 10 seconds.
PingTimeoutPrompt == floor.state = "Taken" => floor.ping_age <= PingTimeout

\* core/floor.rs: "Emergency: the highest priority".  A normal request whose
\* number is above the emergency holder's number displaces it.
EmergencyNotDisplaced ==
    [][\A u \in User, p \in Priority, i \in Indicator :
          /\ RequestPreempts(u, p, i)
          /\ floor.floor_indicator = "Emergency"
          /\ floor.floor_taken_by # u
          => i = "Emergency"]_claimVars

\* core/floor.rs: "ImminentPeril: a higher priority than Normal".  The
\* indicator plays no part in the order of the queue.
ImminentPerilFirst ==
    \A j, k \in 1..Len(floor.queue) :
        j < k => ~ (/\ floor.queue[j].indicator = "Normal"
                    /\ floor.queue[k].indicator = "ImminentPeril")

\* CHANGELOG 0.20.1: a user that gave up is taken out of the queue, so that it
\* is not "automatically GRANTED".  A holder with an entry of its own in the
\* queue releases the floor and is granted it again.
ReleaseGivesUp ==
    [][\A u \in User : ReleaseByHolder(u) => floor'.floor_taken_by # u]_claimVars
=============================================================================
