----------------------------- MODULE FloorProof -----------------------------
(***************************************************************************)
(* Proofs about Floor, for any users, priorities, time constants and       *)
(* administrators.                                                         *)
(***************************************************************************)
EXTENDS Floor, FloorControlProof, TLAPS

-----------------------------------------------------------------------------
(* The inductive invariant                                                 *)

\* A floor whose clocks are within what the sweep, s ticks ago, left of them.
TimelyOK(f, s) ==
    f.state = "Taken" => /\ f.ping_age < PingTimeout + s
                         /\ f.taken_age < MaxTaken + s

LEMMA IInvParts ==
    IInv <=> /\ FloorOK(floor)
             /\ TimelyOK(floor, sweep_age)
             /\ sweep_age \in 0..ReaperInterval
             /\ revoking \subseteq Admin
  <1>1. ASSUME FloorOK(floor) PROVE floor.state = "Idle" => floor.queue = <<>>
    BY <1>1 DEF FloorOK, NewFloor
  <1>2. ASSUME floor.state = "Idle" => floor = [NewFloor EXCEPT !.queue = floor.queue],
               floor.state = "Idle" => floor.queue = <<>>
        PROVE  floor.state = "Idle" => floor = NewFloor
    BY <1>2 DEF NewFloor
  <1>3. ASSUME floor.state = "Idle" => floor = NewFloor
        PROVE  floor.state = "Idle" => floor = [NewFloor EXCEPT !.queue = floor.queue]
    BY <1>3 DEF NewFloor
  <1>4. QED
    BY <1>1, <1>2, <1>3
       DEF IInv, TypeOK, HolderConsistent, NoStrandedWaiter, QueueNoDup, QueueOrdered,
           EmergencyNeverWaits, ClocksBehindSweep, FloorOK, QueueOK, TimelyOK

\* A floor that is granted afresh, or unchanged but for its queue and its
\* pings, is timely when it was.
LEMMA TimelyStep ==
    ASSUME NEW f, FloorOK(f), NEW g, FloorOK(g), NEW s \in Nat, TimelyOK(f, s),
           \/ g.taken_age = 0 /\ g.ping_age = 0
           \/ f.state = "Taken" /\ g.taken_age = f.taken_age /\ g.ping_age = 0
           \/ /\ g.state = f.state
              /\ g.taken_age = f.taken_age
              /\ g.ping_age = f.ping_age
    PROVE  TimelyOK(g, s)
  BY TimeAssumption DEF TimelyOK, FloorOK, FloorRecord

LEMMA InitIInv == Init => IInv
  <1> SUFFICES ASSUME Init PROVE IInv
    OBVIOUS
  <1>1. FloorOK(floor)
    BY NewFloorOK DEF Init
  <1>2. TimelyOK(floor, sweep_age)
    BY DEF Init, TimelyOK, NewFloor
  <1>3. sweep_age \in 0..ReaperInterval /\ revoking \subseteq Admin
    BY ReaperAssumption DEF Init
  <1>4. QED
    BY <1>1, <1>2, <1>3, IInvParts

LEMMA NextIInv == IInv /\ [Next]_vars => IInv'
  <1> DEFINE Timely == TimelyOK(floor, sweep_age)
             Frame == sweep_age \in 0..ReaperInterval /\ revoking \subseteq Admin
  <1> SUFFICES ASSUME IInv, [Next]_vars
               PROVE  FloorOK(floor)' /\ Timely' /\ Frame'
    <2>1. IInv' <=> FloorOK(floor)' /\ Timely' /\ Frame'
      BY IInvParts, PTL
    <2>2. QED
      BY <2>1
  <1>a. FloorOK(floor) /\ Timely /\ Frame
    BY IInvParts
  <1>b. floor \in FloorRecord /\ QueueOK(floor.queue) /\ sweep_age \in Nat
    BY <1>a, ReaperAssumption DEF FloorOK
  <1>1. ASSUME NEW u \in User, NEW p \in Priority, NEW i \in Indicator, Request(u, p, i)
        PROVE  FloorOK(floor)' /\ Timely' /\ Frame'
    <2>1. CASE RequestGranted(u, p, i) \/ RequestPreempts(u, p, i)
      <3>1. floor' = Grant(floor, u, p, i) /\ UNCHANGED <<sweep_age, revoking>>
        BY <2>1 DEF RequestGranted, RequestPreempts
      <3>2. FloorOK(floor)' /\ floor'.taken_age = 0 /\ floor'.ping_age = 0
        BY <3>1, <1>b, GrantOK
      <3>3. QED
        BY <3>1, <3>2, <1>a, <1>b, TimelyStep
    <2>2. CASE RequestQueued(u, p, i)
      <3>1. /\ floor.state = "Taken" /\ i # "Emergency"
            /\ floor' = Enqueue(floor, u, p, i)
            /\ UNCHANGED <<sweep_age, revoking>>
        BY <2>2 DEF RequestQueued, CanPreempt
      <3>2. /\ FloorOK(floor)'
            /\ floor'.state = "Taken"
            /\ floor'.taken_age = floor.taken_age
            /\ floor'.ping_age = floor.ping_age
        BY <3>1, <1>a, EnqueueOK
      <3>3. QED
        BY <3>1, <3>2, <1>a, <1>b, TimelyStep
    <2>3. QED
      BY <1>1, <2>1, <2>2 DEF Request
  <1>2. ASSUME NEW u \in User, Release(u)
        PROVE  FloorOK(floor)' /\ Timely' /\ Frame'
    <2>1. CASE ReleaseByHolder(u)
      <3>1. floor' = DecideNext(floor) /\ UNCHANGED <<sweep_age, revoking>>
        BY <2>1 DEF ReleaseByHolder
      <3>2. FloorOK(floor)' /\ floor'.taken_age = 0 /\ floor'.ping_age = 0
        BY <3>1, <1>b, DecideNextOK
      <3>3. QED
        BY <3>1, <3>2, <1>a, <1>b, TimelyStep
    <2>2. CASE ReleaseByOther(u)
      <3>1. floor' = RemoveFromQueue(floor, u) /\ UNCHANGED <<sweep_age, revoking>>
        BY <2>2 DEF ReleaseByOther
      <3>2. /\ FloorOK(floor)'
            /\ floor'.state = floor.state
            /\ floor'.taken_age = floor.taken_age
            /\ floor'.ping_age = floor.ping_age
        BY <3>1, <1>a, RemoveFromQueueOK
      <3>3. QED
        BY <3>1, <3>2, <1>a, <1>b, TimelyStep
    <2>3. QED
      BY <1>2, <2>1, <2>2 DEF Release
  <1>3. ASSUME NEW u \in User, Ping(u)
        PROVE  FloorOK(floor)' /\ Timely' /\ Frame'
    <2>1. /\ floor.state = "Taken"
          /\ floor' = OnPing(floor)
          /\ UNCHANGED <<sweep_age, revoking>>
      BY <1>3, <1>a, UserAssumption DEF Ping, FloorOK
    <2>2. FloorOK(floor)' /\ floor'.taken_age = floor.taken_age /\ floor'.ping_age = 0
      BY <2>1, <1>a, OnPingOK
    <2>3. QED
      BY <2>1, <2>2, <1>a, <1>b, TimelyStep
  <1>4. ASSUME NEW u \in User, UserDisconnects(u)
        PROVE  FloorOK(floor)' /\ Timely' /\ Frame'
    <2>1. floor' = Disconnected(floor, u) /\ UNCHANGED <<sweep_age, revoking>>
      BY <1>4 DEF UserDisconnects
    <2>2. /\ FloorOK(floor)'
          /\ \/ floor'.taken_age = 0 /\ floor'.ping_age = 0
             \/ /\ floor'.state = floor.state
                /\ floor'.taken_age = floor.taken_age
                /\ floor'.ping_age = floor.ping_age
      BY <2>1, <1>a, DisconnectedOK
    <2>3. QED
      BY <2>1, <2>2, <1>a, <1>b, TimelyStep
  <1>5. ASSUME Sweep
        PROVE  FloorOK(floor)' /\ Timely' /\ Frame'
    <2>1. CASE SweepRevokes
      <3>1. floor' = DecideNext(floor) /\ sweep_age' = 0 /\ UNCHANGED revoking
        BY <2>1 DEF SweepRevokes
      <3>2. FloorOK(floor)' /\ floor'.taken_age = 0 /\ floor'.ping_age = 0
        BY <3>1, <1>b, DecideNextOK
      <3>3. QED
        BY <3>1, <3>2, <1>a, TimeAssumption, ReaperAssumption DEF TimelyOK
    <2>2. CASE SweepSkips
      <3>1. floor' = floor /\ sweep_age' = 0 /\ UNCHANGED revoking /\ ~Expired(floor)
        BY <2>2 DEF SweepSkips
      <3>2. floor.state = "Taken" => ~(floor.ping_age >= PingTimeout)
        BY <3>1 DEF Expired, IsPingTimeout
      <3>3. floor.state = "Taken" => ~(floor.taken_age >= MaxTaken)
        BY <3>1, <1>a DEF Expired, IsMaxTakenExceeded, FloorOK
      <3>4. floor.ping_age \in Nat /\ floor.taken_age \in Nat
        BY <1>b DEF FloorRecord
      <3>5. QED
        BY <3>1, <3>2, <3>3, <3>4, <1>a, TimeAssumption, ReaperAssumption DEF TimelyOK
    <2>3. QED
      BY <1>5, <2>1, <2>2 DEF Sweep
  <1>6. ASSUME Tick
        PROVE  FloorOK(floor)' /\ Timely' /\ Frame'
    <2>1. /\ sweep_age < ReaperInterval
          /\ sweep_age' = sweep_age + 1
          /\ floor' = Elapse(floor)
          /\ UNCHANGED revoking
      BY <1>6 DEF Tick
    <2>2. /\ FloorOK(floor)'
          /\ floor'.state = floor.state
          /\ floor.state = "Taken" => /\ floor'.taken_age = floor.taken_age + 1
                                      /\ floor'.ping_age = floor.ping_age + 1
      BY <2>1, <1>a, ElapseOK
    <2>3. floor.ping_age \in Nat /\ floor.taken_age \in Nat
      BY <1>b DEF FloorRecord
    <2>4. Timely'
      BY <2>1, <2>2, <2>3, <1>a, <1>b, TimeAssumption DEF TimelyOK
    <2>5. Frame'
      BY <2>1, <1>a, ReaperAssumption
    <2>6. QED
      BY <2>2, <2>4, <2>5
  <1>7. ASSUME NEW a \in Admin, AdminLooks(a)
        PROVE  FloorOK(floor)' /\ Timely' /\ Frame'
    BY <1>7, <1>a DEF AdminLooks
  <1>8. ASSUME NEW a \in Admin, AdminClears(a)
        PROVE  FloorOK(floor)' /\ Timely' /\ Frame'
    <2>1. floor' = NewFloor /\ revoking' = revoking \ {a} /\ UNCHANGED sweep_age
      BY <1>8, AdminClearedOK DEF AdminClears
    <2>2. QED
      BY <2>1, <1>a, NewFloorOK DEF TimelyOK, NewFloor
  <1>9. CASE UNCHANGED vars
    BY <1>9, <1>a DEF vars
  <1>10. QED
    BY <1>1, <1>2, <1>3, <1>4, <1>5, <1>6, <1>7, <1>8, <1>9 DEF Next

\* Every execution of the floor state machine stays within the invariant.
THEOREM Invariance == Spec => []IInv
  BY InitIInv, NextIInv, PTL DEF Spec

\* The floor is always a floor record, the sweep is never overdue, and only
\* administrators revoke.
THEOREM TypeCorrect == Spec => []TypeOK
  <1>1. IInv => TypeOK
    BY DEF IInv
  <1>2. QED
    BY <1>1, Invariance, PTL

\* state, floor_taken_by and the other fields of the holder always agree.
THEOREM HolderAlwaysConsistent == Spec => []HolderConsistent
  <1>1. IInv => HolderConsistent
    BY DEF IInv
  <1>2. QED
    BY <1>1, Invariance, PTL

\* Whatever the interleaving of requests, releases, disconnects, sweeps and
\* revocations, nobody waits for a free floor.
THEOREM WaitersNeverStranded == Spec => []NoStrandedWaiter
  <1>1. IInv => NoStrandedWaiter
    BY DEF IInv
  <1>2. QED
    BY <1>1, Invariance, PTL

\* The queue is always ordered, without duplicates and without emergencies.
THEOREM QueueAlwaysOK == Spec => [](QueueNoDup /\ QueueOrdered /\ EmergencyNeverWaits)
  <1>1. IInv => QueueNoDup /\ QueueOrdered /\ EmergencyNeverWaits
    BY DEF IInv
  <1>2. QED
    BY <1>1, Invariance, PTL

\* The clocks of the invariant, at their latest just before a sweep.
LEMMA BoundsFromClocks == IInv => PingBound /\ HoldBound
  <1> SUFFICES ASSUME IInv, floor.state = "Taken"
               PROVE  /\ floor.ping_age < PingTimeout + ReaperInterval
                      /\ floor.taken_age < MaxTaken + ReaperInterval
    BY DEF PingBound, HoldBound
  <1>1. floor.ping_age \in Nat /\ floor.taken_age \in Nat
    BY DEF IInv, TypeOK, FloorRecord
  <1>2. sweep_age \in Nat /\ sweep_age <= ReaperInterval /\ ReaperInterval \in Nat
    BY ReaperAssumption DEF IInv, TypeOK
  <1>3. /\ floor.ping_age < PingTimeout + sweep_age
        /\ floor.taken_age < MaxTaken + sweep_age
    BY DEF IInv, ClocksBehindSweep
  <1>4. QED
    BY <1>1, <1>2, <1>3, TimeAssumption

\* A holder that stops pinging loses the floor within the ping timeout and one
\* reaper interval, whatever the time constants are.
THEOREM SilentHoldersAreBounded == Spec => []PingBound
  BY BoundsFromClocks, Invariance, PTL

\* So does, within the maximum and one reaper interval, a holder that never
\* stops pinging.
THEOREM HoldersAreBounded == Spec => []HoldBound
  BY BoundsFromClocks, Invariance, PTL

-----------------------------------------------------------------------------
(* Hand-over                                                               *)

\* What a step may do to the holder.
HandOverOK ==
    LET old == floor.floor_taken_by
        new == floor'.floor_taken_by
    IN  (old # NoUser /\ new # NoUser /\ new # old) =>
           \/ /\ ~Queued(floor', new)
              /\ \E k \in 1..Len(floor.queue) :
                    /\ floor.queue[k].user_id = new
                    /\ \A j \in 1..(k - 1) : floor.queue[j].user_id = old
           \/ /\ \/ floor'.floor_priority > floor.floor_priority
                 \/ floor'.floor_indicator = "Emergency"
              /\ floor'.queue = floor.queue

LEMMA NextHandsOver == IInv /\ [Next]_vars => HandOverOK
  <1> DEFINE old == floor.floor_taken_by
             new == floor'.floor_taken_by
  <1> SUFFICES ASSUME IInv, [Next]_vars, old # NoUser, new # NoUser, new # old
               PROVE  HandOverOK
    BY DEF HandOverOK
  <1>a. FloorOK(floor)
    BY IInvParts
  <1>b. /\ floor \in FloorRecord
        /\ floor.queue \in Seq(FloorQueueEntry)
        /\ QueueOK(floor.queue)
        /\ floor.state = "Taken"
    BY <1>a DEF FloorOK, FloorRecord
  \* The two ways of handing on to the queue.
  <1>c. ASSUME floor' = DecideNext(floor) PROVE HandOverOK
    <2>1. /\ floor.queue # <<>>
          /\ new = Head(floor.queue).user_id
          /\ ~Queued(floor', new)
      BY <1>b, <1>c, DecideNextServesHead
    <2>2. 1 \in 1..Len(floor.queue) /\ floor.queue[1].user_id = new
      BY <2>1, <1>b, HeadTailProperties
    <2>3. \A j \in 1..(1 - 1) : floor.queue[j].user_id = old
      OBVIOUS
    <2>4. QED
      BY <2>1, <2>2, <2>3 DEF HandOverOK
  <1>d. ASSUME floor' = DecideNext(RemoveFromQueue(floor, old)) PROVE HandOverOK
    <2> DEFINE g == RemoveFromQueue(floor, old)
    <2>1. g \in FloorRecord /\ QueueOK(g.queue)
      BY <1>a, RemoveFromQueueOK DEF FloorOK
    <2>2. g.queue = Retain(floor.queue, old)
      BY <1>b DEF RemoveFromQueue, FloorRecord
    <2> HIDE DEF g
    <2>3. /\ g.queue # <<>>
          /\ new = Head(g.queue).user_id
          /\ ~Queued(floor', new)
      BY <1>d, <2>1, DecideNextServesHead DEF g
    <2>4. PICK k \in 1..Len(floor.queue) :
              /\ Head(g.queue) = floor.queue[k]
              /\ \A j \in 1..(k - 1) : floor.queue[j].user_id = old
      BY <1>b, <2>2, <2>3, RetainHead
    <2>5. QED
      BY <2>3, <2>4 DEF HandOverOK
  <1>1. ASSUME NEW u \in User, NEW p \in Priority, NEW i \in Indicator, Request(u, p, i)
        PROVE  HandOverOK
    <2>1. CASE RequestGranted(u, p, i)
      BY <1>b, <2>1 DEF RequestGranted
    <2>2. CASE RequestPreempts(u, p, i)
      <3>1. /\ floor'.floor_priority = p
            /\ floor'.floor_indicator = i
            /\ floor'.queue = floor.queue
        BY <1>b, <2>2 DEF RequestPreempts, Grant, FloorRecord
      <3>2. i = "Emergency" \/ p > floor.floor_priority
        BY <2>2 DEF RequestPreempts, CanPreempt
      <3>3. QED
        BY <3>1, <3>2 DEF HandOverOK
    <2>3. CASE RequestQueued(u, p, i)
      BY <1>b, <2>3 DEF RequestQueued, Enqueue, FloorRecord
    <2>4. QED
      BY <1>1, <2>1, <2>2, <2>3 DEF Request
  <1>2. ASSUME NEW u \in User, Release(u) PROVE HandOverOK
    <2>1. CASE ReleaseByHolder(u)
      BY <1>c, <2>1 DEF ReleaseByHolder
    <2>2. CASE ReleaseByOther(u)
      BY <1>a, <2>2, RemoveFromQueueOK DEF ReleaseByOther
    <2>3. QED
      BY <1>2, <2>1, <2>2 DEF Release
  <1>3. ASSUME NEW u \in User, Ping(u) PROVE HandOverOK
    BY <1>b, <1>3 DEF Ping, OnPing, FloorRecord
  <1>4. ASSUME NEW u \in User, UserDisconnects(u) PROVE HandOverOK
    <2> DEFINE g == RemoveFromQueue(floor, u)
    <2>1. g.floor_taken_by = old
      BY <1>a, RemoveFromQueueOK
    <2>2. floor' = IF g.floor_taken_by = u THEN DecideNext(g) ELSE g
      BY <1>4 DEF UserDisconnects, Disconnected
    <2> HIDE DEF g
    <2>3. u = old /\ floor' = DecideNext(g)
      BY <2>1, <2>2
    <2>4. QED
      BY <2>3, <1>d DEF g
  <1>5. ASSUME Sweep PROVE HandOverOK
    BY <1>5, <1>c DEF Sweep, SweepRevokes, SweepSkips
  <1>6. ASSUME Tick PROVE HandOverOK
    BY <1>b, <1>6 DEF Tick, Elapse, FloorRecord
  <1>7. ASSUME NEW a \in Admin, AdminLooks(a) \/ AdminClears(a) PROVE HandOverOK
    <2>1. CASE AdminLooks(a)
      BY <2>1 DEF AdminLooks
    <2>2. CASE AdminClears(a)
      BY <2>2, AdminClearedOK DEF AdminClears, NewFloor
    <2>3. QED
      BY <1>7, <2>1, <2>2
  <1>8. CASE UNCHANGED vars
    BY <1>8 DEF vars
  <1>9. QED
    BY <1>1, <1>2, <1>3, <1>4, <1>5, <1>6, <1>7, <1>8 DEF Next

\* Every hand-over from one user to another is one the rules allow, whatever
\* the queue has been through.
THEOREM HandOversAreLawful == Spec => LawfulHandOver
  <1>1. IInv /\ [Next]_vars => [HandOverOK]_vars
    BY NextHandsOver
  <1>2. Spec => [][HandOverOK]_vars
    BY <1>1, Invariance, PTL DEF Spec
  <1>3. QED
    BY <1>2 DEF LawfulHandOver, HandOverOK

-----------------------------------------------------------------------------
(* The floor implements the arbiter, step by step.                         *)

\* A new floor is a free one with nobody waiting.
LEMMA InitRefines == Init => Arbiter!AbsInit
  <1> SUFFICES ASSUME Init PROVE Arbiter!AbsInit
    OBVIOUS
  <1>1. /\ floor.floor_taken_by = NoUser
        /\ floor.floor_priority = 0
        /\ floor.queue = <<>>
    BY DEF Init, NewFloor
  <1>2. WaitingUsers(floor) = {}
    BY <1>1 DEF WaitingUsers
  <1>3. WaitingOf(floor) = <<>>
    BY <1>2 DEF WaitingOf
  <1>4. AheadOf(floor) = {}
    BY <1>2 DEF AheadOf
  <1>5. QED
    BY <1>1, <1>3, <1>4 DEF Arbiter!AbsInit

\* What the lemmas of FloorControlProof say of a step, in the arbiter's words.
LEMMA KeepsWaiting ==
    ASSUME NEW W, Keeps(floor', floor, W)
    PROVE  Arbiter!KeepWaiting(W)
  BY DEF Keeps, Restrict, Arbiter!KeepWaiting, Arbiter!Restrict

\* DecideNext hands the floor to one of the waiters of W.
LEMMA DecideNextPasses ==
    ASSUME NEW f \in FloorRecord, QueueOK(f.queue), NEW W,
           Keeps(f, floor, W), W \subseteq WaitingUsers(floor),
           floor' = DecideNext(f)
    PROVE  Arbiter!PassTo(W)
  <1>1. WaitingUsers(f) = W
    BY DEF Keeps
  <1>2. CASE /\ WaitingUsers(f) = {}
             /\ floor'.floor_taken_by = NoUser
             /\ floor'.floor_priority = 0
             /\ Keeps(floor', f, {})
    <2>1. Keeps(floor', floor, {})
      BY <1>2 DEF Keeps, Restrict
    <2>2. QED
      BY <1>1, <1>2, <2>1, KeepsWaiting DEF Arbiter!PassTo
  <1>3. ASSUME NEW n \in WaitingUsers(f),
               NextInLine(n, WaitingUsers(f), f),
               floor'.floor_taken_by = n,
               floor'.floor_priority = WaitingOf(f)[n],
               Keeps(floor', f, WaitingUsers(f) \ {n})
        PROVE  Arbiter!PassTo(W)
    <2>1. \A w \in W : WaitingOf(f)[w] = WaitingOf(floor)[w]
      BY DEF Keeps, Restrict
    <2>2. \A w \in W : <<w, n>> \in AheadOf(f) <=> <<w, n>> \in AheadOf(floor)
      BY <1>1, <1>3 DEF Keeps
    <2>3. Arbiter!First(n, W)
      BY <1>1, <1>3, <2>1, <2>2 DEF NextInLine, Arbiter!First
    <2>4. Keeps(floor', floor, W \ {n})
      <3>1. WaitingOf(floor') = Restrict(WaitingOf(floor), W \ {n})
        BY <1>1, <1>3, <2>1 DEF Keeps, Restrict
      <3>2. AheadOf(floor') = AheadOf(floor) \cap ((W \ {n}) \X (W \ {n}))
        BY <1>1, <1>3 DEF Keeps
      <3>3. QED
        BY <1>1, <1>3, <3>1, <3>2 DEF Keeps
    <2>5. Arbiter!KeepWaiting(W \ {n})
      BY <2>4, KeepsWaiting
    <2>6. QED
      BY <1>1, <1>3, <2>1, <2>3, <2>5 DEF Arbiter!PassTo
  <1>4. QED
    BY <1>2, <1>3, DecideNextView

LEMMA StepRefines == IInv /\ [Next]_vars => [Arbiter!AbsNext]_(Arbiter!avars)
  <1> SUFFICES ASSUME IInv, [Next]_vars
               PROVE  Arbiter!AbsNext \/ UNCHANGED Arbiter!avars
    OBVIOUS
  <1>a. FloorOK(floor)
    BY IInvParts
  <1>b. /\ floor \in FloorRecord
        /\ QueueOK(floor.queue)
        /\ DOMAIN WaitingOf(floor) = WaitingUsers(floor)
        /\ floor.state = "Taken" <=> floor.floor_taken_by # NoUser
        /\ floor.state \in {"Idle", "Taken"}
    BY <1>a, WaitingDomain DEF FloorOK, FloorRecord
  \* Neither holder, rank nor queue changes.
  <1>c. ASSUME floor'.floor_taken_by = floor.floor_taken_by,
               floor'.floor_priority = floor.floor_priority,
               floor'.queue = floor.queue
        PROVE  UNCHANGED Arbiter!avars
    BY <1>c, SameQueueSameView DEF Arbiter!avars
  \* The floor passes from its holder to the queue.
  <1>d. ASSUME floor.floor_taken_by # NoUser, floor' = DecideNext(floor)
        PROVE  Arbiter!Yield
    <2>1. Keeps(floor, floor, WaitingUsers(floor))
      <3>1. WaitingOf(floor) = Restrict(WaitingOf(floor), WaitingUsers(floor))
        BY DEF WaitingOf, Restrict
      <3>2. AheadOf(floor) \subseteq WaitingUsers(floor) \X WaitingUsers(floor)
        BY DEF AheadOf
      <3>3. QED
        BY <3>1, <3>2 DEF Keeps
    <2>2. Arbiter!PassTo(WaitingUsers(floor))
      BY <1>b, <1>d, <2>1, DecideNextPasses
    <2>3. QED
      BY <1>b, <1>d, <2>2 DEF Arbiter!Yield
  \* A user leaves the queue.
  <1>e. ASSUME NEW u \in User, u # floor.floor_taken_by,
               floor' = RemoveFromQueue(floor, u)
        PROVE  Arbiter!Withdraw(u)
    <2>1. /\ Keeps(floor', floor, WaitingUsers(floor) \ {u})
          /\ floor'.floor_taken_by = floor.floor_taken_by
          /\ floor'.floor_priority = floor.floor_priority
      BY <1>b, <1>e, RemoveFromQueueView
    <2>2. Arbiter!KeepWaiting(WaitingUsers(floor) \ {u})
      BY <2>1, KeepsWaiting
    <2>3. QED
      BY <1>b, <1>e, <2>1, <2>2 DEF Arbiter!Withdraw
  <1>1. ASSUME NEW u \in User, NEW p \in Priority, NEW i \in Indicator, Request(u, p, i)
        PROVE  Arbiter!Seize(u, p) \/ Arbiter!Displace(u, p) \/ Arbiter!Await(u, p)
    <2>1. CASE RequestGranted(u, p, i)
      <3>1. /\ floor'.floor_taken_by = u
            /\ floor'.floor_priority = p
            /\ floor'.queue = floor.queue
        BY <1>b, <2>1 DEF RequestGranted, Grant, FloorRecord
      <3>2. floor.queue = <<>> /\ floor.floor_taken_by = NoUser
        BY <1>a, <2>1 DEF RequestGranted, FloorOK, NewFloor
      <3>3. WaitingUsers(floor) = {}
        BY <3>2 DEF WaitingUsers
      <3>4. QED
        BY <1>b, <3>1, <3>2, <3>3, SameQueueSameView DEF Arbiter!Seize
    <2>2. CASE RequestPreempts(u, p, i)
      <3>1. /\ floor'.floor_taken_by = u
            /\ floor'.floor_priority = p
            /\ floor'.queue = floor.queue
        BY <1>b, <2>2 DEF RequestPreempts, Grant, FloorRecord
      <3>2. /\ floor.floor_taken_by # NoUser
            /\ "Emergency" \in Indicator \/ p > floor.floor_priority
        BY <1>b, <2>2 DEF RequestPreempts, CanPreempt
      <3>3. QED
        BY <3>1, <3>2, SameQueueSameView DEF Arbiter!Displace
    <2>3. CASE RequestQueued(u, p, i)
      <3>1. /\ floor.floor_taken_by # NoUser
            /\ ~(p > floor.floor_priority)
            /\ floor' = Enqueue(floor, u, p, i)
        BY <1>b, <2>3 DEF RequestQueued, CanPreempt
      <3>2. p \in Nat /\ floor.floor_priority \in Nat
        <4>1. floor.floor_priority \in Priority \cup {0}
          BY <1>b DEF FloorRecord
        <4>2. Priority \cup {0} \subseteq Nat
          BY PriorityAssumption
        <4>3. QED
          BY <4>1, <4>2
      <3>3. p <= floor.floor_priority
        BY <3>1, <3>2
      <3>4. /\ floor'.floor_taken_by = floor.floor_taken_by
            /\ floor'.floor_priority = floor.floor_priority
            /\ Joins(floor', floor, u, p)
        BY <1>b, <3>1, EnqueueView
      <3>5. QED
        BY <1>b, <3>1, <3>3, <3>4 DEF Joins, Arbiter!Await
    <2>4. QED
      BY <1>1, <2>1, <2>2, <2>3 DEF Request
  <1>2. ASSUME NEW u \in User, Release(u)
        PROVE  Arbiter!Yield \/ Arbiter!Withdraw(u)
    <2>1. CASE ReleaseByHolder(u)
      BY <1>d, <2>1, UserAssumption DEF ReleaseByHolder
    <2>2. CASE ReleaseByOther(u)
      BY <1>e, <2>2 DEF ReleaseByOther
    <2>3. QED
      BY <1>2, <2>1, <2>2 DEF Release
  <1>3. ASSUME NEW u \in User, Ping(u) PROVE UNCHANGED Arbiter!avars
    BY <1>b, <1>c, <1>3 DEF Ping, OnPing, FloorRecord
  <1>4. ASSUME NEW u \in User, UserDisconnects(u)
        PROVE  Arbiter!Withdraw(u) \/ Arbiter!Depart(u)
    <2> DEFINE g == RemoveFromQueue(floor, u)
    <2>1. floor' = IF g.floor_taken_by = u THEN DecideNext(g) ELSE g
      BY <1>4 DEF UserDisconnects, Disconnected
    <2>2. /\ Keeps(g, floor, WaitingUsers(floor) \ {u})
          /\ g.floor_taken_by = floor.floor_taken_by
          /\ g \in FloorRecord
          /\ QueueOK(g.queue)
      BY <1>b, RemoveFromQueueView
    <2>3. CASE u = floor.floor_taken_by
      <3>1. floor' = DecideNext(g)
        BY <2>1, <2>2, <2>3
      <3> HIDE DEF g
      <3>2. Arbiter!PassTo(WaitingUsers(floor) \ {u})
        BY <2>2, <3>1, DecideNextPasses
      <3>3. QED
        BY <1>b, <2>3, <3>2 DEF Arbiter!Depart
    <2>4. CASE u # floor.floor_taken_by
      BY <1>e, <2>1, <2>2, <2>4
    <2>5. QED
      BY <2>3, <2>4
  <1>5. ASSUME Sweep PROVE Arbiter!Yield \/ UNCHANGED Arbiter!avars
    <2>1. CASE SweepRevokes
      BY <1>b, <1>d, <2>1 DEF SweepRevokes, Expired
    <2>2. CASE SweepSkips
      BY <1>c, <2>2 DEF SweepSkips
    <2>3. QED
      BY <1>5, <2>1, <2>2 DEF Sweep
  <1>6. ASSUME Tick PROVE UNCHANGED Arbiter!avars
    BY <1>b, <1>c, <1>6 DEF Tick, Elapse, FloorRecord
  <1>7. ASSUME NEW a \in Admin, AdminLooks(a) \/ AdminClears(a)
        PROVE  Arbiter!Reset \/ UNCHANGED Arbiter!avars
    <2>1. CASE AdminLooks(a)
      BY <1>c, <2>1 DEF AdminLooks
    <2>2. CASE AdminClears(a)
      <3>1. floor' = NewFloor
        BY <2>2, AdminClearedOK DEF AdminClears
      <3>2. /\ floor'.floor_taken_by = NoUser
            /\ floor'.floor_priority = 0
            /\ floor'.queue = <<>>
        BY <3>1 DEF NewFloor
      <3>3. Keeps(floor', floor, {})
        <4>1. WaitingUsers(floor') = {}
          BY <3>2 DEF WaitingUsers
        <4>2. QED
          BY <4>1 DEF Keeps, WaitingOf, AheadOf, Restrict
      <3>4. Arbiter!KeepWaiting({})
        BY <3>3, KeepsWaiting
      <3>5. QED
        BY <3>2, <3>4 DEF Arbiter!Reset
    <2>3. QED
      BY <1>7, <2>1, <2>2
  <1>8. CASE UNCHANGED vars
    BY <1>c, <1>8 DEF vars
  <1>9. QED
    BY <1>1, <1>2, <1>3, <1>4, <1>5, <1>6, <1>7, <1>8 DEF Next, Arbiter!AbsNext

\* Seen from outside the floor is the arbiter, whatever the queue is made of:
\* the holder goes only by release, revocation, departure or displacement, and
\* whoever is next has the highest priority and came first among equals.
THEOREM Refinement == Spec => ImplementsArbiter
  BY InitRefines, StepRefines, Invariance, PTL
     DEF Spec, ImplementsArbiter, Arbiter!AbsSpec
=============================================================================
