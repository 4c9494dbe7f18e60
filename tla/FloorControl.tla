---------------------------- MODULE FloorControl ----------------------------
(***************************************************************************)
(* The floor record of one channel (core/floor.rs) and what each section   *)
(* of code that holds the channel's floor mutex makes of it                *)
(* (protocol/floor.rs, http/admin.rs).  The module has no variables: a     *)
(* floor is a record f and every operation maps a record to a record.      *)
(*                                                                         *)
(* Time.  The code keeps wall-clock stamps and only ever compares          *)
(* now - stamp with a constant, so the record holds the two differences:   *)
(* taken_age = now - floor_taken_at and ping_age = now - last_ping_at.     *)
(*                                                                         *)
(* Queue.  An entry's queued_at is never read by the program; the order of *)
(* arrival is the order of the sequence.                                   *)
(***************************************************************************)
EXTENDS Naturals, SequencesExt

CONSTANTS
    User,           \* user ids
    NoUser,         \* None
    Priority,       \* the priorities that occur, a u8 in the code
    Indicator,      \* the floor indicators that occur
    PingTimeout,    \* FLOOR_PING_TIMEOUT_MS, in ticks
    MaxTaken        \* FLOOR_MAX_TAKEN_MS, in ticks

ASSUME UserAssumption == NoUser \notin User
ASSUME PriorityAssumption == Priority \subseteq Nat
ASSUME IndicatorAssumption ==
    Indicator \subseteq {"Normal", "Broadcast", "ImminentPeril", "Emergency"}
ASSUME TimeAssumption == PingTimeout \in Nat \ {0} /\ MaxTaken \in Nat \ {0}

FloorQueueEntry == [user_id: User, priority: Priority, indicator: Indicator]

FloorRecord ==
    [state: {"Idle", "Taken"},
     floor_taken_by: User \cup {NoUser},
     taken_age: Nat,
     floor_priority: Priority \cup {0},
     floor_indicator: Indicator \cup {"Normal"},
     queue: Seq(FloorQueueEntry),
     ping_age: Nat]

NewFloor ==
    [state |-> "Idle", floor_taken_by |-> NoUser, taken_age |-> 0,
     floor_priority |-> 0, floor_indicator |-> "Normal",
     queue |-> <<>>, ping_age |-> 0]

-----------------------------------------------------------------------------
(* core/floor.rs: the methods of FloorControl.                             *)

\* Definitions named Faulty... are deliberate slips of the operator that follows
\* them; they are used only to see that the properties notice.
FaultyClearTaken(f) ==
    [NewFloor EXCEPT !.queue = f.queue, !.floor_taken_by = f.floor_taken_by]

\* Everything but the queue goes back to its initial value.
ClearTaken(f) == [NewFloor EXCEPT !.queue = f.queue]

\* The new holder's clocks both start at zero; the queue is not looked at.
Grant(f, u, p, i) ==
    [f EXCEPT !.state = "Taken", !.floor_taken_by = u, !.taken_age = 0,
              !.floor_priority = p, !.floor_indicator = i, !.ping_age = 0]

\* VecDeque::retain(|e| e.user_id != u).  A queue holds at most one entry per
\* user (QueueNoDup), so removing the first match removes them all.
Retain(q, u) == RemoveFirstMatch(q, LAMBDA e : e.user_id = u)

FaultyInsertAtEnd(q, p) == Len(q) + 1

FaultyInsertBeforeEqual(q, p) ==
    IF \E k \in 1..Len(q) : q[k].priority <= p
    THEN SelectInSeq(q, LAMBDA e : e.priority <= p)
    ELSE Len(q) + 1

\* Before the first entry of a lower priority, else at the end.
InsertPosition(q, p) ==
    IF \E k \in 1..Len(q) : q[k].priority < p
    THEN SelectInSeq(q, LAMBDA e : e.priority < p)
    ELSE Len(q) + 1

Enqueue(f, u, p, i) ==
    LET rest == Retain(f.queue, u)
    IN  [f EXCEPT !.queue =
            InsertAt(rest, InsertPosition(rest, p),
                     [user_id |-> u, priority |-> p, indicator |-> i])]

RemoveFromQueue(f, u) == [f EXCEPT !.queue = Retain(@, u)]

FaultyPreemptOnTie(f, p, i) ==
    f.state = "Taken" /\ (i = "Emergency" \/ p >= f.floor_priority)

CanPreempt(f, p, i) ==
    /\ f.state = "Taken"
    /\ \/ i = "Emergency"
       \/ p > f.floor_priority

OnPing(f) == [f EXCEPT !.ping_age = 0]

FaultyPingTimeoutLate(f) == f.state = "Taken" /\ f.ping_age > PingTimeout

IsPingTimeout(f) == f.state = "Taken" /\ f.ping_age >= PingTimeout

FaultyMaxTakenLate(f) == f.floor_taken_by # NoUser /\ f.taken_age > MaxTaken

\* floor_taken_at is Some exactly while somebody holds the floor.
IsMaxTakenExceeded(f) == f.floor_taken_by # NoUser /\ f.taken_age >= MaxTaken

-----------------------------------------------------------------------------
(* protocol/floor.rs: what happens under the lock.                         *)

\* The head of the queue takes over; with nobody waiting the floor is cleared.
DecideNext(f) ==
    IF f.queue # <<>>
    THEN LET next == Head(f.queue)
         IN  Grant([f EXCEPT !.queue = Tail(@)],
                   next.user_id, next.priority, next.indicator)
    ELSE ClearTaken(f)

\* on_user_disconnect: first out of the queue, then the floor itself.
Disconnected(f, u) ==
    LET g == RemoveFromQueue(f, u)
    IN  IF g.floor_taken_by = u THEN DecideNext(g) ELSE g

\* The reaper's verdict on a held floor (max_duration is asked before
\* ping_timeout; both lead to the same transition).
Expired(f) == f.state = "Taken" /\ (IsMaxTakenExceeded(f) \/ IsPingTimeout(f))

FaultyAdminKeepsQueue(f) == ClearTaken(f)

\* http/admin.rs, second lock section: queue.clear() and clear_taken().
AdminCleared(f) == ClearTaken([f EXCEPT !.queue = <<>>])

\* One tick of the wall clock.
Elapse(f) ==
    IF f.state = "Taken"
    THEN [f EXCEPT !.taken_age = @ + 1, !.ping_age = @ + 1]
    ELSE f

-----------------------------------------------------------------------------
(* What a floor looks like to module FloorArbiter.                         *)

Queued(f, u) == \E k \in 1..Len(f.queue) : f.queue[k].user_id = u

WaitingUsers(f) == {f.queue[k].user_id : k \in 1..Len(f.queue)}

EntryOf(f, u) == CHOOSE k \in 1..Len(f.queue) : f.queue[k].user_id = u

\* The priority each waiting user asked with.
WaitingOf(f) == [u \in WaitingUsers(f) |-> f.queue[EntryOf(f, u)].priority]

\* <<u, v>> when u stands before v at the same priority.
AheadOf(f) ==
    {pair \in WaitingUsers(f) \X WaitingUsers(f) :
        /\ EntryOf(f, pair[1]) < EntryOf(f, pair[2])
        /\ WaitingOf(f)[pair[1]] = WaitingOf(f)[pair[2]]}
=============================================================================
