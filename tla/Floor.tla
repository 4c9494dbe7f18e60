------------------------------- MODULE Floor -------------------------------
(***************************************************************************)
(* Floor control of one channel as a state machine: one action for each    *)
(* section of code that holds the channel's floor mutex, plus the clock.   *)
(* Every handler has exactly one such section, except the administrator's  *)
(* revocation, which has two with the lock released in between.  Channels  *)
(* do not share floor state, so one channel stands for all.  What the      *)
(* handlers send once the lock is released is module FloorDispatch.        *)
(*                                                                         *)
(* The handlers never ask whether the sender is a member of the channel,   *)
(* so any authenticated user may act at any time.                          *)
(***************************************************************************)
EXTENDS FloorControl

CONSTANTS
    ReaperInterval, \* REAPER_INTERVAL_MS, in ticks
    Admin           \* administrator requests that may be in flight

ASSUME ReaperAssumption == ReaperInterval \in Nat \ {0}

VARIABLES
    floor,      \* Channel.floor
    sweep_age,  \* ticks since the reaper last looked at the floor
    revoking    \* admin_floor_revoke calls between their two lock sections

vars == <<floor, sweep_age, revoking>>

TypeOK ==
    /\ floor \in FloorRecord
    /\ sweep_age \in 0..ReaperInterval
    /\ revoking \subseteq Admin

Init ==
    /\ floor = NewFloor
    /\ sweep_age = 0
    /\ revoking = {}

-----------------------------------------------------------------------------
(* handle_floor_request                                                    *)

RequestGranted(u, p, i) ==
    /\ floor.state = "Idle"
    /\ floor' = Grant(floor, u, p, i)
    /\ UNCHANGED <<sweep_age, revoking>>

\* The displaced holder is not put in the queue.
RequestPreempts(u, p, i) ==
    /\ floor.state = "Taken"
    /\ CanPreempt(floor, p, i)
    /\ floor' = Grant(floor, u, p, i)
    /\ UNCHANGED <<sweep_age, revoking>>

\* The holder itself is not excluded.
RequestQueued(u, p, i) ==
    /\ floor.state = "Taken"
    /\ ~CanPreempt(floor, p, i)
    /\ floor' = Enqueue(floor, u, p, i)
    /\ UNCHANGED <<sweep_age, revoking>>

Request(u, p, i) ==
    RequestGranted(u, p, i) \/ RequestPreempts(u, p, i) \/ RequestQueued(u, p, i)

(* handle_floor_release: by the holder, and by anybody else.               *)

\* The releasing holder's own queue entry, if any, is left in the queue.
ReleaseByHolder(u) ==
    /\ floor.floor_taken_by = u
    /\ floor' = DecideNext(floor)
    /\ UNCHANGED <<sweep_age, revoking>>

ReleaseByOther(u) ==
    /\ floor.floor_taken_by # u
    /\ floor' = RemoveFromQueue(floor, u)
    /\ UNCHANGED <<sweep_age, revoking>>

Release(u) == ReleaseByHolder(u) \/ ReleaseByOther(u)

(* handle_floor_ping: pings of anybody but the holder are ignored.         *)
Ping(u) ==
    /\ floor.floor_taken_by = u
    /\ floor' = OnPing(floor)
    /\ UNCHANGED <<sweep_age, revoking>>

(* on_user_disconnect                                                      *)
UserDisconnects(u) ==
    /\ floor' = Disconnected(floor, u)
    /\ UNCHANGED <<sweep_age, revoking>>

-----------------------------------------------------------------------------
(* check_floor_timeouts, called by the reaper every ReaperInterval.        *)

FaultySweepRevokes ==
    /\ sweep_age = ReaperInterval
    /\ Expired(floor)
    /\ floor' = ClearTaken(floor)
    /\ sweep_age' = 0
    /\ UNCHANGED revoking

SweepRevokes ==
    /\ sweep_age = ReaperInterval
    /\ Expired(floor)
    /\ floor' = DecideNext(floor)
    /\ sweep_age' = 0
    /\ UNCHANGED revoking

SweepSkips ==
    /\ sweep_age = ReaperInterval
    /\ ~Expired(floor)
    /\ sweep_age' = 0
    /\ UNCHANGED <<floor, revoking>>

Sweep == SweepRevokes \/ SweepSkips

FaultyTickPastSweep ==
    /\ sweep_age' = sweep_age + 1
    /\ floor' = Elapse(floor)
    /\ UNCHANGED revoking

\* Time passes, but never past a sweep that is due.
Tick ==
    /\ sweep_age < ReaperInterval
    /\ sweep_age' = sweep_age + 1
    /\ floor' = Elapse(floor)
    /\ UNCHANGED revoking

-----------------------------------------------------------------------------
(* admin_floor_revoke: look, unlock, lock again, clear.                    *)

AdminLooks(a) ==
    /\ a \notin revoking
    /\ floor.state = "Taken"
    /\ revoking' = revoking \cup {a}
    /\ UNCHANGED <<floor, sweep_age>>

AdminClears(a) ==
    /\ a \in revoking
    /\ floor' = AdminCleared(floor)
    /\ revoking' = revoking \ {a}
    /\ UNCHANGED sweep_age

-----------------------------------------------------------------------------
Next ==
    \/ \E u \in User, p \in Priority, i \in Indicator : Request(u, p, i)
    \/ \E u \in User : Release(u) \/ Ping(u) \/ UserDisconnects(u)
    \/ Sweep
    \/ Tick
    \/ \E a \in Admin : AdminLooks(a) \/ AdminClears(a)

Spec == Init /\ [][Next]_vars

\* The clock runs and the reaper task is scheduled; no client is obliged to
\* do anything, ever.
FairSpec == Spec /\ WF_vars(Tick) /\ WF_vars(Sweep)

-----------------------------------------------------------------------------
(* Safety                                                                  *)

\* state, floor_taken_by and the holder's attributes are five fields written
\* together; a path that forgets one leaves a floor that is idle with a holder
\* or taken with none.
HolderConsistent ==
    /\ floor.state = "Taken" <=> floor.floor_taken_by # NoUser
    /\ floor.state = "Idle" => floor = [NewFloor EXCEPT !.queue = floor.queue]

\* Nobody waits for a floor that is free: no path to Idle leaves an entry
\* behind, although clear_taken itself does not look at the queue.
NoStrandedWaiter == floor.state = "Idle" => floor.queue = <<>>

\* A user occupies at most one place in the queue, however often it asks.
QueueNoDup ==
    \A j, k \in 1..Len(floor.queue) :
        floor.queue[j].user_id = floor.queue[k].user_id => j = k

\* The queue is in descending order of priority, whatever was removed from its
\* middle or re-inserted.
QueueOrdered ==
    \A j, k \in 1..Len(floor.queue) :
        j <= k => floor.queue[j].priority >= floor.queue[k].priority

\* An emergency call never waits: it is granted at once or preempts.
EmergencyNeverWaits ==
    \A k \in 1..Len(floor.queue) : floor.queue[k].indicator # "Emergency"

\* A holder that stops pinging is revoked within the ping timeout and one
\* reaper interval.
PingBound == floor.state = "Taken" => floor.ping_age < PingTimeout + ReaperInterval

\* No single grant outlives the maximum and one reaper interval, however
\* diligently its holder pings.
HoldBound == floor.state = "Taken" => floor.taken_age < MaxTaken + ReaperInterval

\* Why both bounds hold: whoever held the floor at the last sweep had clocks
\* within the limits then, and sweep_age ticks have passed since.
ClocksBehindSweep ==
    floor.state = "Taken" =>
        /\ floor.ping_age < PingTimeout + sweep_age
        /\ floor.taken_age < MaxTaken + sweep_age

\* The inductive invariant.
IInv ==
    /\ TypeOK
    /\ HolderConsistent
    /\ NoStrandedWaiter
    /\ QueueNoDup
    /\ QueueOrdered
    /\ EmergencyNeverWaits
    /\ ClocksBehindSweep

-----------------------------------------------------------------------------
(* Action properties                                                       *)

\* The floor goes from one user straight to another only to the first waiter
\* other than the loser, which then no longer waits, or to a request that
\* outranks the holder or is an emergency, and then the queue stays as it is.
LawfulHandOver ==
    [][LET old == floor.floor_taken_by
           new == floor'.floor_taken_by
       IN  (old # NoUser /\ new # NoUser /\ new # old) =>
              \/ /\ ~Queued(floor', new)
                 /\ \E k \in 1..Len(floor.queue) :
                       /\ floor.queue[k].user_id = new
                       /\ \A j \in 1..(k - 1) : floor.queue[j].user_id = old
              \/ /\ \/ floor'.floor_priority > floor.floor_priority
                    \/ floor'.floor_indicator = "Emergency"
                 /\ floor'.queue = floor.queue]_vars

-----------------------------------------------------------------------------
(* The floor implements the arbiter.                                       *)

Arbiter == INSTANCE FloorArbiter WITH
    Urgent <- "Emergency" \in Indicator,
    holder <- floor.floor_taken_by, rank <- floor.floor_priority,
    waiting <- WaitingOf(floor), ahead <- AheadOf(floor)

\* Seen through its holder and the order of its queue, the floor is the
\* arbiter: retain, positional insert and pop_front together serve the highest
\* priority first and equals in order of arrival.
ImplementsArbiter == Arbiter!AbsSpec

-----------------------------------------------------------------------------
(* Liveness                                                                *)

\* u asks again while it waits, or somebody overtakes it: an emergency, a
\* request that outranks the holder, or a waiter of higher priority.
Overtaken(u) ==
    \E v \in User, p \in Priority, i \in Indicator :
        /\ Request(v, p, i)
        /\ \/ v = u
           \/ i = "Emergency"
           \/ p > floor.floor_priority
           \/ \E k \in 1..Len(floor.queue) :
                 floor.queue[k].user_id = u /\ p > floor.queue[k].priority

\* A waiting user leaves the queue in the end (granted, or by its own doing)
\* unless it is overtaken again and again: the reaper frees the floor even
\* when the holder neither releases nor stops pinging.
NoStarvation ==
    \A u \in User : []<><<Overtaken(u)>>_vars \/ []<>~Queued(floor, u)
=============================================================================
