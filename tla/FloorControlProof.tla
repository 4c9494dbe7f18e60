-------------------------- MODULE FloorControlProof --------------------------
(***************************************************************************)
(* Lemmas about the floor record: what the operations of FloorControl make *)
(* of a well-formed floor.  They are about the record alone, so that the   *)
(* proofs about Floor (one channel) and Sessions (all of them) share them. *)
(***************************************************************************)
EXTENDS FloorControl, SequenceTheorems, WellFoundedInduction, TLAPS

-----------------------------------------------------------------------------
(* Sequences                                                               *)

\* Removing an element closes the gap and keeps the order of the others.
LEMMA RemoveAtProps ==
    ASSUME NEW S, NEW q \in Seq(S), NEW k \in 1..Len(q)
    PROVE  /\ RemoveAt(q, k) \in Seq(S)
           /\ Len(RemoveAt(q, k)) = Len(q) - 1
           /\ \A j \in 1..(Len(q) - 1) :
                 RemoveAt(q, k)[j] = IF j < k THEN q[j] ELSE q[j + 1]
  <1> DEFINE left == SubSeq(q, 1, k - 1)
             right == SubSeq(q, k + 1, Len(q))
  <1>1. /\ left \in Seq(S)
        /\ Len(left) = k - 1
        /\ \A j \in 1..(k - 1) : left[j] = q[j]
    <2>1. \A j \in 1..(k - 1) : q[j] \in S
      BY ElementOfSeq
    <2>2. QED
      BY <2>1, SubSeqProperties
  <1>2. /\ right \in Seq(S)
        /\ Len(right) = Len(q) - k
        /\ \A j \in 1..(Len(q) - k) : right[j] = q[k + j]
    <2>1. \A j \in (k + 1)..Len(q) : q[j] \in S
      BY ElementOfSeq
    <2>2. QED
      BY <2>1, SubSeqProperties
  <1>3. RemoveAt(q, k) = left \o right
    BY DEF RemoveAt
  <1> HIDE DEF left, right
  <1>4. /\ left \o right \in Seq(S)
        /\ Len(left \o right) = Len(q) - 1
        /\ \A j \in 1..(Len(q) - 1) : (left \o right)[j] =
              IF j <= k - 1 THEN left[j] ELSE right[j - (k - 1)]
    <2>1. Len(left) + Len(right) = Len(q) - 1
      BY <1>1, <1>2
    <2>2. /\ left \o right \in Seq(S)
          /\ Len(left \o right) = Len(left) + Len(right)
          /\ \A j \in 1..(Len(left) + Len(right)) : (left \o right)[j] =
                IF j <= Len(left) THEN left[j] ELSE right[j - Len(left)]
      BY <1>1, <1>2, ConcatProperties
    <2>3. QED
      BY <2>1, <2>2, <1>1
  <1>5. ASSUME NEW j \in 1..(Len(q) - 1)
        PROVE  (left \o right)[j] = IF j < k THEN q[j] ELSE q[j + 1]
    <2>1. CASE j < k
      BY <2>1, <1>1, <1>4
    <2>2. CASE ~(j < k)
      <3>1. j - (k - 1) \in 1..(Len(q) - k) /\ k + (j - (k - 1)) = j + 1
        BY <2>2
      <3>2. QED
        BY <2>2, <3>1, <1>2, <1>4
    <2>3. QED
      BY <2>1, <2>2
  <1>6. QED
    BY <1>3, <1>4, <1>5

\* Inserting an element moves the later ones up and keeps their order.
LEMMA InsertAtProps ==
    ASSUME NEW S, NEW q \in Seq(S), NEW k \in 1..(Len(q) + 1), NEW e \in S
    PROVE  /\ InsertAt(q, k, e) \in Seq(S)
           /\ Len(InsertAt(q, k, e)) = Len(q) + 1
           /\ \A j \in 1..(Len(q) + 1) :
                 InsertAt(q, k, e)[j] =
                    IF j < k THEN q[j] ELSE IF j = k THEN e ELSE q[j - 1]
  <1> DEFINE left == SubSeq(q, 1, k - 1)
             right == SubSeq(q, k, Len(q))
             front == left \o <<e>>
  <1>1. /\ left \in Seq(S)
        /\ Len(left) = k - 1
        /\ \A j \in 1..(k - 1) : left[j] = q[j]
    <2>1. \A j \in 1..(k - 1) : q[j] \in S
      BY ElementOfSeq
    <2>2. QED
      BY <2>1, SubSeqProperties
  <1>2. /\ right \in Seq(S)
        /\ Len(right) = Len(q) + 1 - k
        /\ \A j \in 1..(Len(q) + 1 - k) : right[j] = q[k + j - 1]
    <2>1. \A j \in k..Len(q) : q[j] \in S
      BY ElementOfSeq
    <2>2. QED
      BY <2>1, SubSeqProperties
  <1>3. InsertAt(q, k, e) = front \o right
    BY DEF InsertAt
  <1> HIDE DEF left, right
  <1>4. /\ front \in Seq(S)
        /\ Len(front) = k
        /\ \A j \in 1..k : front[j] = IF j < k THEN q[j] ELSE e
    <2>1. <<e>> \in Seq(S) /\ Len(<<e>>) = 1 /\ <<e>>[1] = e
      OBVIOUS
    <2>2. QED
      BY <2>1, <1>1, ConcatProperties
  <1> HIDE DEF front
  <1>5. /\ front \o right \in Seq(S)
        /\ Len(front \o right) = Len(q) + 1
        /\ \A j \in 1..(Len(q) + 1) : (front \o right)[j] =
              IF j <= k THEN front[j] ELSE right[j - k]
    BY <1>2, <1>4, ConcatProperties
  <1>6. ASSUME NEW j \in 1..(Len(q) + 1)
        PROVE  (front \o right)[j] =
                  IF j < k THEN q[j] ELSE IF j = k THEN e ELSE q[j - 1]
    <2>1. CASE j <= k
      BY <2>1, <1>4, <1>5
    <2>2. CASE ~(j <= k)
      <3>1. j - k \in 1..(Len(q) + 1 - k) /\ k + (j - k) - 1 = j - 1
        BY <2>2
      <3>2. QED
        BY <2>2, <3>1, <1>2, <1>5
    <2>3. QED
      BY <2>1, <2>2
  <1>7. QED
    BY <1>3, <1>5, <1>6

\* Min of the community modules, on sets of naturals.
LEMMA MinProps ==
    ASSUME NEW I \in SUBSET Nat, I # {}
    PROVE  Min(I) \in I /\ \A x \in I : Min(I) <= x
  <1>1. \E x \in I : \A y \in I : ~ (<<y, x>> \in OpToRel(<, Nat))
    BY NatLessThanWellFounded, WFMin
  <1>2. \E x \in I : \A y \in I : x <= y
    <2>1. PICK x \in I : \A y \in I : ~ (<<y, x>> \in OpToRel(<, Nat))
      BY <1>1
    <2>2. \A y \in I : ~(y < x)
      BY <2>1 DEF OpToRel
    <2>3. QED
      BY <2>2
  <1>3. QED
    BY <1>2 DEF Min

-----------------------------------------------------------------------------
(* Queues                                                                  *)

QueueOK(q) ==
    /\ \A j, k \in 1..Len(q) : q[j].user_id = q[k].user_id => j = k
    /\ \A j, k \in 1..Len(q) : j <= k => q[j].priority >= q[k].priority
    /\ \A k \in 1..Len(q) : q[k].indicator # "Emergency"

\* r is q with some elements left out.
Thins(r, q) ==
    \E f \in [1..Len(r) -> 1..Len(q)] :
        /\ \A j, k \in 1..Len(r) : j < k => f[j] < f[k]
        /\ \A j \in 1..Len(r) : r[j] = q[f[j]]

LEMMA EntryProps ==
    ASSUME NEW q \in Seq(FloorQueueEntry)
    PROVE  \A k \in 1..Len(q) :
              /\ q[k] \in FloorQueueEntry
              /\ q[k].user_id \in User
              /\ q[k].priority \in Priority
              /\ q[k].indicator \in Indicator
  <1>1. \A k \in 1..Len(q) : q[k] \in FloorQueueEntry
    BY ElementOfSeq
  <1>2. QED
    BY <1>1 DEF FloorQueueEntry

\* What a queue satisfies, it still satisfies with elements left out.
LEMMA ThinnerQueueOK ==
    ASSUME NEW q \in Seq(FloorQueueEntry), NEW r \in Seq(FloorQueueEntry),
           QueueOK(q), Thins(r, q)
    PROVE  QueueOK(r)
  <1>1. PICK f \in [1..Len(r) -> 1..Len(q)] :
            /\ \A j, k \in 1..Len(r) : j < k => f[j] < f[k]
            /\ \A j \in 1..Len(r) : r[j] = q[f[j]]
    BY DEF Thins
  <1>2. Len(r) \in Nat /\ Len(q) \in Nat
    OBVIOUS
  <1>3. \A j, k \in 1..Len(r) : f[j] = f[k] => j = k
    BY <1>1, <1>2
  <1>4. \A j, k \in 1..Len(r) : j <= k => f[j] <= f[k]
    BY <1>1, <1>2
  <1>5. \A j \in 1..Len(r) : f[j] \in 1..Len(q) /\ r[j] = q[f[j]]
    BY <1>1
  <1>6. \A j, k \in 1..Len(r) : r[j].user_id = r[k].user_id => j = k
    BY <1>3, <1>5 DEF QueueOK
  <1>7. \A j, k \in 1..Len(r) : j <= k => r[j].priority >= r[k].priority
    BY <1>4, <1>5 DEF QueueOK
  <1>8. \A k \in 1..Len(r) : r[k].indicator # "Emergency"
    BY <1>5 DEF QueueOK
  <1>9. QED
    BY <1>6, <1>7, <1>8 DEF QueueOK

\* pop_front leaves out the head.
LEMMA TailThins ==
    ASSUME NEW q \in Seq(FloorQueueEntry), q # <<>>
    PROVE  Tail(q) \in Seq(FloorQueueEntry) /\ Thins(Tail(q), q)
  <1> DEFINE f == [j \in 1..Len(Tail(q)) |-> j + 1]
  <1>1. /\ Tail(q) \in Seq(FloorQueueEntry)
        /\ Len(Tail(q)) = Len(q) - 1
        /\ \A j \in 1..Len(Tail(q)) : Tail(q)[j] = q[j + 1]
    BY HeadTailProperties
  <1>2. f \in [1..Len(Tail(q)) -> 1..Len(q)]
    BY <1>1
  <1>3. \A j, k \in 1..Len(Tail(q)) : j < k => f[j] < f[k]
    BY <1>1
  <1>4. QED
    BY <1>1, <1>2, <1>3 DEF Thins

\* retain drops the user's only entry and nothing else.
LEMMA RetainProps ==
    ASSUME NEW q \in Seq(FloorQueueEntry), QueueOK(q), NEW u
    PROVE  /\ Retain(q, u) \in Seq(FloorQueueEntry)
           /\ Thins(Retain(q, u), q)
           /\ \A k \in 1..Len(Retain(q, u)) : Retain(q, u)[k].user_id # u
  <1> DEFINE I == {k \in 1..Len(q) : q[k].user_id = u}
  <1>1. CASE I = {}
    <2>1. Retain(q, u) = q
      BY <1>1 DEF Retain, RemoveFirstMatch
    <2>2. Thins(q, q)
      <3> DEFINE f == [j \in 1..Len(q) |-> j]
      <3>1. f \in [1..Len(q) -> 1..Len(q)]
        OBVIOUS
      <3>2. QED
        BY <3>1 DEF Thins
    <2>3. QED
      BY <1>1, <2>1, <2>2
  <1>2. CASE I # {}
    <2> DEFINE m == Min(I)
               r == RemoveAt(q, m)
               f == [j \in 1..Len(r) |-> IF j < m THEN j ELSE j + 1]
    <2>1. Retain(q, u) = r
      BY <1>2 DEF Retain, RemoveFirstMatch, SelectInSeq
    <2>2. I \in SUBSET Nat
      OBVIOUS
    <2>3. m \in I
      BY <1>2, <2>2, MinProps
    <2>4. m \in 1..Len(q) /\ q[m].user_id = u
      BY <2>3
    <2> HIDE DEF m, I
    <2>5. /\ r \in Seq(FloorQueueEntry)
          /\ Len(r) = Len(q) - 1
          /\ \A j \in 1..(Len(q) - 1) : r[j] = IF j < m THEN q[j] ELSE q[j + 1]
      BY <2>4, RemoveAtProps
    <2> HIDE DEF r
    <2>6. f \in [1..Len(r) -> 1..Len(q)]
      BY <2>4, <2>5
    <2>7. \A j \in 1..Len(r) : r[j] = q[f[j]] /\ f[j] # m
      BY <2>4, <2>5
    <2>8. \A j, k \in 1..Len(r) : j < k => f[j] < f[k]
      BY <2>4, <2>5
    <2>9. Thins(r, q)
      BY <2>6, <2>7, <2>8 DEF Thins
    <2> HIDE DEF f
    <2>10. \A k \in 1..Len(r) : r[k].user_id # u
      <3>1. \A k \in 1..Len(r) :
              f[k] \in 1..Len(q) /\ f[k] # m /\ r[k] = q[f[k]]
        BY <2>6, <2>7
      <3>2. QED
        BY <2>4, <3>1 DEF QueueOK
    <2>11. QED
      BY <2>1, <2>5, <2>9, <2>10
  <1>3. QED
    BY <1>1, <1>2

\* The position found separates the entries that go before from the rest.
LEMMA InsertPositionProps ==
    ASSUME NEW q \in Seq(FloorQueueEntry), NEW p \in Priority
    PROVE  /\ InsertPosition(q, p) \in 1..(Len(q) + 1)
           /\ \A k \in 1..Len(q) : k < InsertPosition(q, p) => q[k].priority >= p
           /\ InsertPosition(q, p) <= Len(q) => q[InsertPosition(q, p)].priority < p
  <1> DEFINE I == {k \in 1..Len(q) : q[k].priority < p}
  <1>1. p \in Nat /\ \A k \in 1..Len(q) : q[k].priority \in Nat
    BY PriorityAssumption, EntryProps
  <1>2. CASE I = {}
    <2>1. InsertPosition(q, p) = Len(q) + 1
      BY <1>2 DEF InsertPosition
    <2>2. \A k \in 1..Len(q) : ~(q[k].priority < p)
      BY <1>2
    <2>3. QED
      BY <1>1, <2>1, <2>2
  <1>3. CASE I # {}
    <2> DEFINE m == Min(I)
    <2>1. InsertPosition(q, p) = m
      BY <1>3 DEF InsertPosition, SelectInSeq
    <2>2. I \in SUBSET Nat
      OBVIOUS
    <2>3. m \in I /\ \A k \in I : m <= k
      BY <1>3, <2>2, MinProps
    <2>4. m \in 1..Len(q) /\ q[m].priority < p
      BY <2>3
    <2>5. \A k \in 1..Len(q) : q[k].priority < p => m <= k
      BY <2>3
    <2> HIDE DEF m
    <2>6. QED
      BY <1>1, <2>1, <2>4, <2>5
  <1>4. QED
    BY <1>2, <1>3

\* A queue with a new entry of a user that is not in it, at its position.
LEMMA InsertOK ==
    ASSUME NEW q \in Seq(FloorQueueEntry), QueueOK(q), NEW e \in FloorQueueEntry,
           e.indicator # "Emergency",
           \A k \in 1..Len(q) : q[k].user_id # e.user_id
    PROVE  /\ InsertAt(q, InsertPosition(q, e.priority), e) \in Seq(FloorQueueEntry)
           /\ QueueOK(InsertAt(q, InsertPosition(q, e.priority), e))
           /\ Len(InsertAt(q, InsertPosition(q, e.priority), e)) # 0
  <1> DEFINE n == InsertPosition(q, e.priority)
             r == InsertAt(q, n, e)
  <1>1. /\ n \in 1..(Len(q) + 1)
        /\ \A k \in 1..Len(q) : k < n => q[k].priority >= e.priority
        /\ n <= Len(q) => q[n].priority < e.priority
    BY InsertPositionProps DEF FloorQueueEntry
  <1> HIDE DEF n
  <1>2. /\ r \in Seq(FloorQueueEntry)
        /\ Len(r) = Len(q) + 1
        /\ \A j \in 1..(Len(q) + 1) :
              r[j] = IF j < n THEN q[j] ELSE IF j = n THEN e ELSE q[j - 1]
    BY <1>1, InsertAtProps
  <1> HIDE DEF r
  <1>3. /\ e.priority \in Nat
        /\ \A k \in 1..Len(q) : q[k].priority \in Nat
    BY PriorityAssumption, EntryProps DEF FloorQueueEntry
  <1>a. \A j \in 1..Len(r) :
            /\ j < n => j \in 1..Len(q) /\ r[j] = q[j]
            /\ j = n => r[j] = e
            /\ j > n => j - 1 \in 1..Len(q) /\ r[j] = q[j - 1]
    BY <1>1, <1>2
  <1>4. ASSUME NEW j \in 1..Len(r), NEW k \in 1..Len(r), r[j].user_id = r[k].user_id
        PROVE  j = k
    <2>1. CASE j = n \/ k = n
      <3>1. ASSUME NEW l \in 1..Len(r), l # n PROVE r[l].user_id # e.user_id
        <4>1. l < n \/ l > n
          BY <1>1, <3>1
        <4>2. \E k0 \in 1..Len(q) : r[l] = q[k0]
          BY <1>a, <4>1
        <4>3. QED
          BY <4>2
      <3>2. r[n].user_id = e.user_id
        BY <1>a, <2>1
      <3>3. QED
        BY <3>1, <3>2, <1>4, <2>1
    <2>2. CASE j # n /\ k # n
      <3> DEFINE j0 == IF j < n THEN j ELSE j - 1
                 k0 == IF k < n THEN k ELSE k - 1
      <3>1. j0 \in 1..Len(q) /\ r[j] = q[j0]
        BY <1>1, <1>a, <2>2
      <3>2. k0 \in 1..Len(q) /\ r[k] = q[k0]
        BY <1>1, <1>a, <2>2
      <3>3. j0 = k0
        BY <3>1, <3>2, <1>4 DEF QueueOK
      <3>4. QED
        BY <3>3, <2>2, <1>1
    <2>3. QED
      BY <2>1, <2>2
  <1>5. \A k \in 1..Len(q) : k >= n => q[k].priority < e.priority
    BY <1>1, <1>3 DEF QueueOK
  <1>6. ASSUME NEW j \in 1..Len(r), NEW k \in 1..Len(r), j <= k
        PROVE  r[j].priority >= r[k].priority
    <2>1. CASE k < n
      BY <1>a, <1>1, <1>6, <2>1 DEF QueueOK
    <2>2. CASE k = n
      BY <1>a, <1>1, <1>3, <1>6, <2>2
    <2>3. CASE k > n /\ j <= n
      <3>1. k - 1 \in 1..Len(q) /\ r[k] = q[k - 1] /\ k - 1 >= n
        BY <1>a, <1>1, <2>3
      <3>2. r[k].priority < e.priority /\ r[k].priority \in Nat
        BY <3>1, <1>5, <1>3
      <3>3. r[j].priority >= e.priority /\ r[j].priority \in Nat
        <4>1. CASE j < n
          BY <4>1, <1>a, <1>1, <1>3
        <4>2. CASE j = n
          BY <4>2, <1>a, <1>3
        <4>3. QED
          BY <4>1, <4>2, <2>3, <1>1
      <3>4. QED
        BY <3>2, <3>3, <1>3
    <2>4. CASE k > n /\ j > n
      <3>1. /\ k - 1 \in 1..Len(q) /\ r[k] = q[k - 1]
            /\ j - 1 \in 1..Len(q) /\ r[j] = q[j - 1]
            /\ j - 1 <= k - 1
        BY <1>a, <1>1, <1>6, <2>4
      <3>2. QED
        BY <3>1 DEF QueueOK
    <2>5. QED
      BY <2>1, <2>2, <2>3, <2>4, <1>1, <1>6
  <1>7. ASSUME NEW k \in 1..Len(r)
        PROVE  r[k].indicator # "Emergency"
    <2>1. CASE k < n
      BY <1>a, <1>1, <2>1 DEF QueueOK
    <2>2. CASE k = n
      BY <1>a, <2>2
    <2>3. CASE k > n
      <3>1. k - 1 \in 1..Len(q) /\ r[k] = q[k - 1]
        BY <1>a, <1>1, <2>3
      <3>2. QED
        BY <3>1 DEF QueueOK
    <2>4. QED
      BY <2>1, <2>2, <2>3, <1>1
  <1>8. QED
    BY <1>2, <1>4, <1>6, <1>7 DEF QueueOK, n, r

-----------------------------------------------------------------------------
(* Floors.  FloorOK is the inductive part of the safety invariants that    *)
(* speaks of the record alone: none of them is inductive by itself, since  *)
(* handing the floor on needs a well-formed queue and keeping the queue    *)
(* empty while the floor is free needs the holder's fields to agree.       *)

FloorOK(f) ==
    /\ f \in FloorRecord
    /\ f.state = "Taken" <=> f.floor_taken_by # NoUser
    /\ f.state = "Idle" => f = NewFloor
    /\ QueueOK(f.queue)

\* Any user may be given any floor whose queue is in order.
LEMMA GrantOK ==
    ASSUME NEW f \in FloorRecord, QueueOK(f.queue),
           NEW u \in User, NEW p \in Priority, NEW i \in Indicator
    PROVE  /\ FloorOK(Grant(f, u, p, i))
           /\ Grant(f, u, p, i).taken_age = 0
           /\ Grant(f, u, p, i).ping_age = 0
  BY UserAssumption DEF Grant, FloorRecord, FloorOK

LEMMA EmptyQueueOK ==
    /\ <<>> \in Seq(FloorQueueEntry)
    /\ QueueOK(<<>>)
  BY DEF QueueOK

LEMMA NewFloorOK ==
    FloorOK(NewFloor)
  BY EmptyQueueOK, UserAssumption DEF FloorOK, NewFloor, FloorRecord

LEMMA DecideNextOK ==
    ASSUME NEW f \in FloorRecord, QueueOK(f.queue)
    PROVE  /\ FloorOK(DecideNext(f))
           /\ DecideNext(f).taken_age = 0
           /\ DecideNext(f).ping_age = 0
  <1>1. f.queue \in Seq(FloorQueueEntry)
    BY DEF FloorRecord
  <1>2. CASE f.queue # <<>>
    <2> DEFINE next == Head(f.queue)
               g == [f EXCEPT !.queue = Tail(@)]
    <2>1. next \in FloorQueueEntry
      BY <1>1, <1>2, HeadTailProperties
    <2>2. next.user_id \in User /\ next.priority \in Priority /\ next.indicator \in Indicator
      BY <2>1 DEF FloorQueueEntry
    <2>3. Tail(f.queue) \in Seq(FloorQueueEntry) /\ QueueOK(Tail(f.queue))
      BY <1>1, <1>2, TailThins, ThinnerQueueOK
    <2>4. g \in FloorRecord /\ g.queue = Tail(f.queue)
      BY <2>3 DEF FloorRecord
    <2>5. DecideNext(f) = Grant(g, next.user_id, next.priority, next.indicator)
      BY <1>2 DEF DecideNext
    <2> HIDE DEF next, g
    <2>6. QED
      BY <2>2, <2>3, <2>4, <2>5, GrantOK
  <1>3. CASE f.queue = <<>>
    <2>1. DecideNext(f) = NewFloor
      BY <1>3 DEF DecideNext, ClearTaken, NewFloor
    <2>2. QED
      BY <2>1, NewFloorOK DEF NewFloor
  <1>4. QED
    BY <1>2, <1>3

LEMMA EnqueueOK ==
    ASSUME NEW f, FloorOK(f), f.state = "Taken",
           NEW u \in User, NEW p \in Priority, NEW i \in Indicator, i # "Emergency"
    PROVE  /\ FloorOK(Enqueue(f, u, p, i))
           /\ Enqueue(f, u, p, i).state = "Taken"
           /\ Enqueue(f, u, p, i).taken_age = f.taken_age
           /\ Enqueue(f, u, p, i).ping_age = f.ping_age
  <1> DEFINE rest == Retain(f.queue, u)
             e == [user_id |-> u, priority |-> p, indicator |-> i]
             q == InsertAt(rest, InsertPosition(rest, p), e)
  <1>1. f \in FloorRecord /\ f.queue \in Seq(FloorQueueEntry) /\ QueueOK(f.queue)
    BY DEF FloorOK, FloorRecord
  <1>2. /\ rest \in Seq(FloorQueueEntry)
        /\ QueueOK(rest)
        /\ \A k \in 1..Len(rest) : rest[k].user_id # u
    BY <1>1, RetainProps, ThinnerQueueOK
  <1>3. /\ e \in FloorQueueEntry
        /\ e.user_id = u
        /\ e.priority = p
        /\ e.indicator = i
    BY DEF FloorQueueEntry
  <1>4. Enqueue(f, u, p, i) = [f EXCEPT !.queue = q]
    BY DEF Enqueue
  <1> HIDE DEF rest, e
  <1>5. q \in Seq(FloorQueueEntry) /\ QueueOK(q)
    BY <1>2, <1>3, InsertOK
  <1> HIDE DEF q
  <1>6. QED
    BY <1>1, <1>4, <1>5 DEF FloorOK, FloorRecord

LEMMA RemoveFromQueueOK ==
    ASSUME NEW f, FloorOK(f), NEW u
    PROVE  /\ FloorOK(RemoveFromQueue(f, u))
           /\ RemoveFromQueue(f, u).state = f.state
           /\ RemoveFromQueue(f, u).floor_taken_by = f.floor_taken_by
           /\ RemoveFromQueue(f, u).taken_age = f.taken_age
           /\ RemoveFromQueue(f, u).ping_age = f.ping_age
  <1> DEFINE rest == Retain(f.queue, u)
  <1>1. f \in FloorRecord /\ f.queue \in Seq(FloorQueueEntry) /\ QueueOK(f.queue)
    BY DEF FloorOK, FloorRecord
  <1>2. rest \in Seq(FloorQueueEntry) /\ QueueOK(rest) /\ Thins(rest, f.queue)
    BY <1>1, RetainProps, ThinnerQueueOK
  <1>3. RemoveFromQueue(f, u) = [f EXCEPT !.queue = rest]
    BY DEF RemoveFromQueue
  <1>4. f.queue = <<>> => rest = <<>>
    <2>1. ASSUME f.queue = <<>> PROVE rest = <<>>
      BY <2>1 DEF Retain, RemoveFirstMatch
    <2>2. QED
      BY <2>1
  <1> HIDE DEF rest
  <1>5. CASE f.state = "Idle"
    <2>1. f = NewFloor /\ f.queue = <<>>
      BY <1>5 DEF FloorOK, NewFloor
    <2>2. [f EXCEPT !.queue = rest] = f
      BY <1>4, <2>1 DEF NewFloor
    <2>3. QED
      BY <1>3, <2>2
  <1>6. CASE f.state # "Idle"
    BY <1>1, <1>2, <1>3, <1>6 DEF FloorOK, FloorRecord
  <1>7. QED
    BY <1>5, <1>6

LEMMA OnPingOK ==
    ASSUME NEW f, FloorOK(f), f.state = "Taken"
    PROVE  /\ FloorOK(OnPing(f))
           /\ OnPing(f).taken_age = f.taken_age
           /\ OnPing(f).ping_age = 0
  BY DEF OnPing, FloorOK, FloorRecord

LEMMA ElapseOK ==
    ASSUME NEW f, FloorOK(f)
    PROVE  /\ FloorOK(Elapse(f))
           /\ Elapse(f).state = f.state
           /\ f.state = "Taken" => /\ Elapse(f).taken_age = f.taken_age + 1
                                   /\ Elapse(f).ping_age = f.ping_age + 1
  <1>1. CASE f.state = "Taken"
    <2> DEFINE g == [f EXCEPT !.taken_age = @ + 1, !.ping_age = @ + 1]
    <2>1. f \in FloorRecord /\ f.taken_age \in Nat /\ f.ping_age \in Nat
      BY DEF FloorOK, FloorRecord
    <2>2. f.taken_age + 1 \in Nat /\ f.ping_age + 1 \in Nat
      BY <2>1
    <2>3. /\ g \in FloorRecord
          /\ g.state = f.state
          /\ g.floor_taken_by = f.floor_taken_by
          /\ g.queue = f.queue
          /\ g.taken_age = f.taken_age + 1
          /\ g.ping_age = f.ping_age + 1
      BY <2>1, <2>2 DEF FloorRecord
    <2>4. Elapse(f) = g
      BY <1>1 DEF Elapse
    <2> HIDE DEF g
    <2>5. FloorOK(g)
      BY <1>1, <2>3 DEF FloorOK
    <2>6. QED
      BY <2>3, <2>4, <2>5
  <1>2. CASE f.state # "Taken"
    BY <1>2 DEF Elapse
  <1>3. QED
    BY <1>1, <1>2

LEMMA AdminClearedOK ==
    ASSUME NEW f
    PROVE  AdminCleared(f) = NewFloor
  BY DEF AdminCleared, ClearTaken, NewFloor

LEMMA DisconnectedOK ==
    ASSUME NEW f, FloorOK(f), NEW u \in User
    PROVE  /\ FloorOK(Disconnected(f, u))
           /\ \/ /\ Disconnected(f, u).taken_age = 0
                 /\ Disconnected(f, u).ping_age = 0
              \/ /\ Disconnected(f, u).state = f.state
                 /\ Disconnected(f, u).taken_age = f.taken_age
                 /\ Disconnected(f, u).ping_age = f.ping_age
  <1> DEFINE g == RemoveFromQueue(f, u)
  <1>1. /\ FloorOK(g)
        /\ g.state = f.state
        /\ g.taken_age = f.taken_age
        /\ g.ping_age = f.ping_age
    BY RemoveFromQueueOK
  <1>2. Disconnected(f, u) = IF g.floor_taken_by = u THEN DecideNext(g) ELSE g
    BY DEF Disconnected
  <1> HIDE DEF g
  <1>3. /\ FloorOK(DecideNext(g))
        /\ DecideNext(g).taken_age = 0
        /\ DecideNext(g).ping_age = 0
    BY <1>1, DecideNextOK DEF FloorOK
  <1>4. QED
    BY <1>1, <1>2, <1>3

-----------------------------------------------------------------------------
(* Heads of queues                                                         *)

\* What retain leaves at the head: the old head, or the entry behind it.
LEMMA RetainHead ==
    ASSUME NEW q \in Seq(FloorQueueEntry), NEW u, Retain(q, u) # <<>>
    PROVE  \E k \in 1..Len(q) :
              /\ Head(Retain(q, u)) = q[k]
              /\ \A j \in 1..(k - 1) : q[j].user_id = u
  <1> DEFINE I == {k \in 1..Len(q) : q[k].user_id = u}
             r == Retain(q, u)
  <1>1. CASE I = {}
    <2>1. r = q
      BY <1>1 DEF Retain, RemoveFirstMatch
    <2>2. q # <<>>
      BY <2>1
    <2>3. 1 \in 1..Len(q) /\ Head(r) = q[1]
      BY <2>1, <2>2, HeadTailProperties
    <2>4. QED
      BY <2>3
  <1>2. CASE I # {}
    <2> DEFINE m == Min(I)
    <2>1. r = RemoveAt(q, m)
      BY <1>2 DEF Retain, RemoveFirstMatch, SelectInSeq
    <2>2. m \in 1..Len(q) /\ q[m].user_id = u
      <3>1. I \in SUBSET Nat
        OBVIOUS
      <3>2. m \in I
        BY <1>2, <3>1, MinProps
      <3>3. QED
        BY <3>2
    <2> HIDE DEF m, I
    <2>3. /\ r \in Seq(FloorQueueEntry)
          /\ Len(r) = Len(q) - 1
          /\ \A j \in 1..(Len(q) - 1) : r[j] = IF j < m THEN q[j] ELSE q[j + 1]
      BY <2>1, <2>2, RemoveAtProps
    <2> HIDE DEF r
    <2>4. r # <<>>
      BY DEF r
    <2>5. Head(r) = r[1] /\ 1 \in 1..(Len(q) - 1)
      BY <2>3, <2>4, HeadTailProperties
    <2>6. CASE m = 1
      <3>1. Head(r) = q[2] /\ 2 \in 1..Len(q)
        BY <2>3, <2>5, <2>6
      <3>2. \A j \in 1..(2 - 1) : q[j].user_id = u
        BY <2>2, <2>6
      <3>3. QED
        BY <3>1, <3>2 DEF r
    <2>7. CASE m # 1
      <3>1. Head(r) = q[1] /\ 1 \in 1..Len(q)
        BY <2>2, <2>3, <2>5, <2>7
      <3>2. QED
        BY <3>1 DEF r
    <2>8. QED
      BY <2>6, <2>7
  <1>3. QED
    BY <1>1, <1>2

\* Whoever DecideNext gives the floor was at the head and is no longer queued.
LEMMA DecideNextServesHead ==
    ASSUME NEW f \in FloorRecord, QueueOK(f.queue), DecideNext(f).floor_taken_by # NoUser
    PROVE  /\ f.queue # <<>>
           /\ DecideNext(f).floor_taken_by = Head(f.queue).user_id
           /\ ~Queued(DecideNext(f), Head(f.queue).user_id)
  <1>1. f.queue # <<>>
    BY DEF DecideNext, ClearTaken, NewFloor
  <1>2. f.queue \in Seq(FloorQueueEntry)
    BY DEF FloorRecord
  <1>3. /\ DecideNext(f).floor_taken_by = Head(f.queue).user_id
        /\ DecideNext(f).queue = Tail(f.queue)
    BY <1>1 DEF DecideNext, Grant, FloorRecord
  <1>4. /\ Head(f.queue) = f.queue[1]
        /\ Len(Tail(f.queue)) = Len(f.queue) - 1
        /\ \A j \in 1..(Len(f.queue) - 1) : Tail(f.queue)[j] = f.queue[j + 1]
        /\ Len(f.queue) \in Nat
    BY <1>1, <1>2, HeadTailProperties
  <1>5. ASSUME NEW j \in 1..Len(Tail(f.queue)),
               Tail(f.queue)[j].user_id = Head(f.queue).user_id
        PROVE  FALSE
    <2>1. j + 1 \in 1..Len(f.queue) /\ 1 \in 1..Len(f.queue) /\ j + 1 # 1
      BY <1>4
    <2>2. f.queue[j + 1].user_id = f.queue[1].user_id
      BY <1>4, <1>5
    <2>3. QED
      BY <2>1, <2>2 DEF QueueOK
  <1>6. QED
    BY <1>1, <1>3, <1>5 DEF Queued

-----------------------------------------------------------------------------
(* What a floor looks like to FloorArbiter.                                *)

\* Of those who wait in f, the users of W wait in g, as before.
Keeps(g, f, W) ==
    /\ WaitingUsers(g) = W
    /\ WaitingOf(g) = Restrict(WaitingOf(f), W)
    /\ AheadOf(g) = AheadOf(f) \cap (W \X W)

\* u waits in g with priority p, behind all that wait in f with p.
Joins(g, f, u, p) ==
    LET others == WaitingUsers(f) \ {u}
    IN  /\ WaitingUsers(g) = others \cup {u}
        /\ WaitingOf(g) = [w \in others \cup {u} |->
                              IF w = u THEN p ELSE WaitingOf(f)[w]]
        /\ AheadOf(g) = (AheadOf(f) \cap (others \X others))
              \cup {<<w, u>> : w \in {v \in others : WaitingOf(f)[v] = p}}

\* n is the waiter of W that is next in f.
NextInLine(n, W, f) ==
    \A w \in W : /\ WaitingOf(f)[w] <= WaitingOf(f)[n]
                 /\ WaitingOf(f)[w] = WaitingOf(f)[n] => <<w, n>> \notin AheadOf(f)

\* A user's entry is the only one that bears its name.
LEMMA EntryOfProps ==
    ASSUME NEW f, f.queue \in Seq(FloorQueueEntry), QueueOK(f.queue),
           NEW k \in 1..Len(f.queue)
    PROVE  /\ EntryOf(f, f.queue[k].user_id) = k
           /\ f.queue[k].user_id \in WaitingUsers(f)
           /\ WaitingOf(f)[f.queue[k].user_id] = f.queue[k].priority
  <1> DEFINE u == f.queue[k].user_id
  <1>1. \A j \in 1..Len(f.queue) : f.queue[j].user_id = u => j = k
    BY DEF QueueOK
  <1>2. EntryOf(f, u) = k
    BY <1>1 DEF EntryOf
  <1>3. u \in WaitingUsers(f)
    BY DEF WaitingUsers
  <1>4. WaitingOf(f)[u] = f.queue[k].priority
    BY <1>2, <1>3 DEF WaitingOf
  <1>5. QED
    BY <1>2, <1>3, <1>4

\* Who waits has an entry.
LEMMA WaiterHasEntry ==
    ASSUME NEW f, f.queue \in Seq(FloorQueueEntry), QueueOK(f.queue),
           NEW u \in WaitingUsers(f)
    PROVE  /\ EntryOf(f, u) \in 1..Len(f.queue)
           /\ f.queue[EntryOf(f, u)].user_id = u
           /\ WaitingOf(f)[u] = f.queue[EntryOf(f, u)].priority
  <1>1. PICK k \in 1..Len(f.queue) : f.queue[k].user_id = u
    BY DEF WaitingUsers
  <1>2. QED
    BY <1>1, EntryOfProps

LEMMA WaitingDomain ==
    ASSUME NEW f
    PROVE  DOMAIN WaitingOf(f) = WaitingUsers(f)
  BY DEF WaitingOf

\* The view depends on the queue alone.
LEMMA SameQueueSameView ==
    ASSUME NEW f, NEW g, g.queue = f.queue
    PROVE  /\ WaitingUsers(g) = WaitingUsers(f)
           /\ WaitingOf(g) = WaitingOf(f)
           /\ AheadOf(g) = AheadOf(f)
  <1>1. WaitingUsers(g) = WaitingUsers(f)
    BY DEF WaitingUsers
  <1>2. \A u : EntryOf(g, u) = EntryOf(f, u)
    BY DEF EntryOf
  <1>3. WaitingOf(g) = WaitingOf(f)
    BY <1>1, <1>2 DEF WaitingOf
  <1>4. QED
    BY <1>1, <1>2, <1>3 DEF AheadOf

\* Leaving out elements keeps the priorities and the order of the others.
LEMMA ThinnerView ==
    ASSUME NEW f, f.queue \in Seq(FloorQueueEntry), QueueOK(f.queue),
           NEW g, g.queue \in Seq(FloorQueueEntry), Thins(g.queue, f.queue)
    PROVE  Keeps(g, f, WaitingUsers(g)) /\ WaitingUsers(g) \subseteq WaitingUsers(f)
  <1> DEFINE q == f.queue
             r == g.queue
  <1>1. QueueOK(r)
    BY ThinnerQueueOK
  <1>2. PICK h \in [1..Len(r) -> 1..Len(q)] :
            /\ \A j, k \in 1..Len(r) : j < k => h[j] < h[k]
            /\ \A j \in 1..Len(r) : r[j] = q[h[j]]
    BY DEF Thins
  <1>3. ASSUME NEW u \in WaitingUsers(g)
        PROVE  /\ EntryOf(g, u) \in 1..Len(r)
               /\ EntryOf(f, u) = h[EntryOf(g, u)]
               /\ u \in WaitingUsers(f)
               /\ WaitingOf(g)[u] = WaitingOf(f)[u]
    <2> DEFINE j == EntryOf(g, u)
    <2>1. /\ j \in 1..Len(r)
          /\ r[j].user_id = u
          /\ WaitingOf(g)[u] = r[j].priority
      BY <1>1, WaiterHasEntry
    <2> HIDE DEF j
    <2>2. h[j] \in 1..Len(q) /\ r[j] = q[h[j]]
      BY <1>2, <2>1
    <2>3. /\ EntryOf(f, u) = h[j]
          /\ u \in WaitingUsers(f)
          /\ WaitingOf(f)[u] = q[h[j]].priority
      BY <2>1, <2>2, EntryOfProps
    <2>4. QED
      BY <2>1, <2>2, <2>3 DEF j
  <1>4. WaitingOf(g) = Restrict(WaitingOf(f), WaitingUsers(g))
    <2>1. WaitingOf(g) = [u \in WaitingUsers(g) |-> WaitingOf(g)[u]]
      BY DEF WaitingOf
    <2>2. \A u \in WaitingUsers(g) : WaitingOf(g)[u] = WaitingOf(f)[u]
      BY <1>3
    <2>3. QED
      BY <2>1, <2>2 DEF Restrict
  <1>5. \A u, v \in WaitingUsers(g) :
            EntryOf(g, u) < EntryOf(g, v) <=> EntryOf(f, u) < EntryOf(f, v)
    <2> SUFFICES ASSUME NEW u \in WaitingUsers(g), NEW v \in WaitingUsers(g)
                 PROVE  EntryOf(g, u) < EntryOf(g, v) <=> EntryOf(f, u) < EntryOf(f, v)
      OBVIOUS
    <2> DEFINE j == EntryOf(g, u)
               k == EntryOf(g, v)
    <2>1. /\ j \in 1..Len(r) /\ EntryOf(f, u) = h[j]
          /\ k \in 1..Len(r) /\ EntryOf(f, v) = h[k]
      BY <1>3
    <2> HIDE DEF j, k
    <2>2. h[j] \in Nat /\ h[k] \in Nat
      BY <1>2, <2>1
    <2>3. /\ j < k => h[j] < h[k]
          /\ k < j => h[k] < h[j]
          /\ j = k => h[j] = h[k]
      BY <1>2, <2>1
    <2>4. j < k <=> h[j] < h[k]
      BY <2>1, <2>2, <2>3
    <2>5. QED
      BY <2>1, <2>4 DEF j, k
  <1>6. ASSUME NEW u, NEW v
        PROVE  <<u, v>> \in AheadOf(g) <=>
                  <<u, v>> \in AheadOf(f) \cap (WaitingUsers(g) \X WaitingUsers(g))
    BY <1>3, <1>5 DEF AheadOf
  <1>7. AheadOf(g) = AheadOf(f) \cap (WaitingUsers(g) \X WaitingUsers(g))
    <2>1. AheadOf(g) \subseteq WaitingUsers(g) \X WaitingUsers(g)
      BY DEF AheadOf
    <2>2. QED
      BY <1>6, <2>1
  <1>8. QED
    BY <1>3, <1>4, <1>7 DEF Keeps

\* retain keeps everybody else.
LEMMA RetainKeeps ==
    ASSUME NEW q \in Seq(FloorQueueEntry), NEW u,
           NEW k \in 1..Len(q), q[k].user_id # u
    PROVE  \E j \in 1..Len(Retain(q, u)) : Retain(q, u)[j] = q[k]
  <1> DEFINE I == {i \in 1..Len(q) : q[i].user_id = u}
  <1>1. CASE I = {}
    <2>1. Retain(q, u) = q
      BY <1>1 DEF Retain, RemoveFirstMatch
    <2>2. QED
      BY <2>1
  <1>2. CASE I # {}
    <2> DEFINE m == Min(I)
               r == RemoveAt(q, m)
    <2>1. Retain(q, u) = r
      BY <1>2 DEF Retain, RemoveFirstMatch, SelectInSeq
    <2>2. I \in SUBSET Nat
      OBVIOUS
    <2>3. m \in I
      BY <1>2, <2>2, MinProps
    <2>4. m \in 1..Len(q) /\ m # k
      BY <2>3
    <2> HIDE DEF m, I
    <2>5. /\ Len(r) = Len(q) - 1
          /\ \A j \in 1..(Len(q) - 1) : r[j] = IF j < m THEN q[j] ELSE q[j + 1]
      BY <2>4, RemoveAtProps
    <2> HIDE DEF r
    <2> DEFINE j == IF k < m THEN k ELSE k - 1
    <2>6. j \in 1..Len(r) /\ r[j] = q[k]
      BY <2>4, <2>5
    <2>7. QED
      BY <2>1, <2>6
  <1>3. QED
    BY <1>1, <1>2

\* Removing a user from the queue removes that user and nobody else.
LEMMA RemoveFromQueueView ==
    ASSUME NEW f \in FloorRecord, QueueOK(f.queue), NEW u
    PROVE  /\ Keeps(RemoveFromQueue(f, u), f, WaitingUsers(f) \ {u})
           /\ RemoveFromQueue(f, u).floor_taken_by = f.floor_taken_by
           /\ RemoveFromQueue(f, u).floor_priority = f.floor_priority
           /\ RemoveFromQueue(f, u).queue = Retain(f.queue, u)
           /\ RemoveFromQueue(f, u) \in FloorRecord
           /\ QueueOK(RemoveFromQueue(f, u).queue)
  <1> DEFINE r == Retain(f.queue, u)
             g == RemoveFromQueue(f, u)
  <1>1. f.queue \in Seq(FloorQueueEntry)
    BY DEF FloorRecord
  <1>2. /\ r \in Seq(FloorQueueEntry)
        /\ Thins(r, f.queue)
        /\ \A k \in 1..Len(r) : r[k].user_id # u
    BY <1>1, RetainProps
  <1>3. QueueOK(r)
    BY <1>1, <1>2, ThinnerQueueOK
  <1>4. /\ g.queue = r
        /\ g.floor_taken_by = f.floor_taken_by
        /\ g.floor_priority = f.floor_priority
        /\ g \in FloorRecord
    BY <1>2 DEF RemoveFromQueue, FloorRecord
  <1> HIDE DEF g
  <1>5. Keeps(g, f, WaitingUsers(g)) /\ WaitingUsers(g) \subseteq WaitingUsers(f)
    BY <1>1, <1>2, <1>4, ThinnerView
  <1>6. u \notin WaitingUsers(g)
    BY <1>2, <1>4 DEF WaitingUsers
  <1>7. ASSUME NEW v \in WaitingUsers(f), v # u PROVE v \in WaitingUsers(g)
    <2>1. PICK k \in 1..Len(f.queue) : f.queue[k].user_id = v
      BY DEF WaitingUsers
    <2>2. PICK j \in 1..Len(r) : r[j] = f.queue[k]
      BY <1>1, <1>7, <2>1, RetainKeeps
    <2>3. QED
      BY <1>4, <2>1, <2>2 DEF WaitingUsers
  <1>8. WaitingUsers(g) = WaitingUsers(f) \ {u}
    BY <1>5, <1>6, <1>7
  <1>9. QED
    BY <1>3, <1>4, <1>5, <1>8 DEF g

\* The floor passes to the next in line, who waits no longer; with nobody in
\* line it is free.
LEMMA DecideNextView ==
    ASSUME NEW f \in FloorRecord, QueueOK(f.queue)
    PROVE  \/ /\ WaitingUsers(f) = {}
              /\ DecideNext(f).floor_taken_by = NoUser
              /\ DecideNext(f).floor_priority = 0
              /\ Keeps(DecideNext(f), f, {})
           \/ \E n \in WaitingUsers(f) :
                 /\ NextInLine(n, WaitingUsers(f), f)
                 /\ DecideNext(f).floor_taken_by = n
                 /\ DecideNext(f).floor_priority = WaitingOf(f)[n]
                 /\ Keeps(DecideNext(f), f, WaitingUsers(f) \ {n})
  <1> DEFINE q == f.queue
             g == DecideNext(f)
  <1>1. q \in Seq(FloorQueueEntry)
    BY DEF FloorRecord
  <1>2. CASE q = <<>>
    <2>1. /\ g.queue = <<>>
          /\ g.floor_taken_by = NoUser
          /\ g.floor_priority = 0
      BY <1>2 DEF DecideNext, ClearTaken, NewFloor
    <2> HIDE DEF g
    <2>2. WaitingUsers(f) = {}
      BY <1>2 DEF WaitingUsers
    <2>3. /\ WaitingUsers(g) = WaitingUsers(f)
          /\ WaitingOf(g) = WaitingOf(f)
          /\ AheadOf(g) = AheadOf(f)
      BY <1>2, <2>1, SameQueueSameView
    <2>4. WaitingOf(f) = Restrict(WaitingOf(f), {})
      BY <2>2 DEF WaitingOf, Restrict
    <2>5. AheadOf(f) = {}
      BY <2>2 DEF AheadOf
    <2>6. Keeps(g, f, {})
      BY <2>2, <2>3, <2>4, <2>5 DEF Keeps
    <2>7. QED
      BY <2>1, <2>2, <2>6 DEF g
  <1>3. CASE q # <<>>
    <2> DEFINE n == Head(q).user_id
    <2>1. /\ Head(q) = q[1]
          /\ 1 \in 1..Len(q)
          /\ Tail(q) \in Seq(FloorQueueEntry)
          /\ Len(Tail(q)) = Len(q) - 1
          /\ \A j \in 1..(Len(q) - 1) : Tail(q)[j] = q[j + 1]
      BY <1>1, <1>3, HeadTailProperties
    <2>2. /\ g.queue = Tail(q)
          /\ g.floor_taken_by = n
          /\ g.floor_priority = q[1].priority
      BY <1>3, <2>1 DEF DecideNext, Grant, FloorRecord
    <2> HIDE DEF g
    <2>3. /\ n \in WaitingUsers(f)
          /\ EntryOf(f, n) = 1
          /\ WaitingOf(f)[n] = q[1].priority
      BY <1>1, <2>1, EntryOfProps
    <2>4. NextInLine(n, WaitingUsers(f), f)
      <3> SUFFICES ASSUME NEW w \in WaitingUsers(f)
                   PROVE  /\ WaitingOf(f)[w] <= WaitingOf(f)[n]
                          /\ <<w, n>> \notin AheadOf(f)
        BY DEF NextInLine
      <3> DEFINE k == EntryOf(f, w)
      <3>1. k \in 1..Len(q) /\ WaitingOf(f)[w] = q[k].priority
        BY <1>1, WaiterHasEntry
      <3>2. q[1].priority >= q[k].priority
        BY <2>1, <3>1 DEF QueueOK
      <3>3. q[1].priority \in Nat /\ q[k].priority \in Nat
        BY <1>1, <2>1, <3>1, EntryProps, PriorityAssumption
      <3>4. ~(EntryOf(f, w) < EntryOf(f, n))
        BY <2>3, <3>1
      <3> HIDE DEF n, k
      <3>5. <<w, n>> \notin AheadOf(f)
        BY <3>4 DEF AheadOf
      <3>6. QED
        BY <2>3, <3>1, <3>2, <3>3, <3>5
    <2>5. Keeps(g, f, WaitingUsers(g)) /\ WaitingUsers(g) \subseteq WaitingUsers(f)
      BY <1>1, <1>3, <2>2, TailThins, ThinnerView
    <2>6. n \notin WaitingUsers(g)
      <3> SUFFICES ASSUME NEW j \in 1..Len(Tail(q)), Tail(q)[j].user_id = n
                   PROVE  FALSE
        BY <2>2 DEF WaitingUsers
      <3>1. j + 1 \in 1..Len(q) /\ q[j + 1].user_id = q[1].user_id /\ j + 1 # 1
        BY <2>1
      <3>2. QED
        BY <2>1, <3>1 DEF QueueOK
    <2>7. ASSUME NEW w \in WaitingUsers(f), w # n PROVE w \in WaitingUsers(g)
      <3> DEFINE k == EntryOf(f, w)
      <3>1. k \in 1..Len(q) /\ q[k].user_id = w
        BY <1>1, WaiterHasEntry
      <3>2. k # 1
        BY <2>1, <2>7, <3>1
      <3>3. k - 1 \in 1..Len(Tail(q)) /\ Tail(q)[k - 1].user_id = w
        BY <2>1, <3>1, <3>2
      <3>4. QED
        BY <2>2, <3>3 DEF WaitingUsers
    <2>8. WaitingUsers(g) = WaitingUsers(f) \ {n}
      BY <2>5, <2>6, <2>7
    <2> HIDE DEF n
    <2>9. /\ Keeps(g, f, WaitingUsers(f) \ {n})
          /\ g.floor_priority = WaitingOf(f)[n]
      BY <2>2, <2>3, <2>5, <2>8
    <2>10. QED
      BY <2>2, <2>3, <2>4, <2>9 DEF g
  <1>4. QED
    BY <1>2, <1>3

\* A request that has to wait goes behind those of its own or a higher
\* priority; an earlier request of the same user is forgotten.
LEMMA EnqueueView ==
    ASSUME NEW f \in FloorRecord, QueueOK(f.queue),
           NEW u \in User, NEW p \in Priority, NEW i \in Indicator
    PROVE  /\ Enqueue(f, u, p, i).floor_taken_by = f.floor_taken_by
           /\ Enqueue(f, u, p, i).floor_priority = f.floor_priority
           /\ Joins(Enqueue(f, u, p, i), f, u, p)
  <1> DEFINE h == RemoveFromQueue(f, u)
             q == h.queue
             n == InsertPosition(q, p)
             e == [user_id |-> u, priority |-> p, indicator |-> i]
             r == InsertAt(q, n, e)
             g == Enqueue(f, u, p, i)
             others == WaitingUsers(f) \ {u}
  <1>1. /\ Keeps(h, f, others)
        /\ q = Retain(f.queue, u)
        /\ h \in FloorRecord
        /\ QueueOK(q)
    BY RemoveFromQueueView
  <1>2. q \in Seq(FloorQueueEntry)
    BY <1>1 DEF FloorRecord
  <1>3. e \in FloorQueueEntry /\ e.user_id = u /\ e.priority = p
    BY DEF FloorQueueEntry
  <1>4. /\ g.queue = r
        /\ g.floor_taken_by = f.floor_taken_by
        /\ g.floor_priority = f.floor_priority
    BY <1>1 DEF Enqueue, FloorRecord
  <1> HIDE DEF e, g, h, q
  <1>5. /\ n \in 1..(Len(q) + 1)
        /\ \A k \in 1..Len(q) : k < n => q[k].priority >= p
        /\ n <= Len(q) => q[n].priority < p
    BY <1>2, InsertPositionProps
  <1> HIDE DEF n
  <1>6. /\ r \in Seq(FloorQueueEntry)
        /\ Len(r) = Len(q) + 1
        /\ \A j \in 1..(Len(q) + 1) :
              r[j] = IF j < n THEN q[j] ELSE IF j = n THEN e ELSE q[j - 1]
    BY <1>2, <1>3, <1>5, InsertAtProps
  <1> HIDE DEF r
  <1>7. p \in Nat /\ \A k \in 1..Len(q) : q[k].priority \in Nat
    BY <1>2, EntryProps, PriorityAssumption
  <1>8. \A k \in 1..Len(q) : k >= n => q[k].priority < p
    BY <1>1, <1>5, <1>7 DEF QueueOK
  \* Where the entries are now.
  <1> DEFINE Up(k) == IF k < n THEN k ELSE k + 1
  <1>9. ASSUME NEW w \in others
        PROVE  /\ EntryOf(h, w) \in 1..Len(q)
               /\ q[EntryOf(h, w)].user_id = w
               /\ Up(EntryOf(h, w)) \in 1..Len(r)
               /\ r[Up(EntryOf(h, w))] = q[EntryOf(h, w)]
    <2>1. EntryOf(h, w) \in 1..Len(q) /\ q[EntryOf(h, w)].user_id = w
      BY <1>1, <1>2, WaiterHasEntry DEF Keeps, q
    <2>2. QED
      BY <2>1, <1>5, <1>6
  <1>10. n \in 1..Len(r) /\ r[n] = e
    BY <1>5, <1>6
  <1>11. ASSUME NEW k \in 1..Len(q) PROVE q[k].user_id \in others
    <2>1. q[k].user_id \in WaitingUsers(h)
      BY DEF WaitingUsers, q
    <2>2. QED
      BY <1>1, <2>1 DEF Keeps
  <1>12. ASSUME NEW j \in 1..Len(r), j # n
         PROVE  \E k \in 1..Len(q) : j = Up(k) /\ r[j] = q[k]
    <2>1. CASE j < n
      BY <2>1, <1>5, <1>6
    <2>2. CASE j > n
      <3>1. j - 1 \in 1..Len(q) /\ j = Up(j - 1) /\ r[j] = q[j - 1]
        BY <2>2, <1>5, <1>6
      <3>2. QED
        BY <3>1
    <2>3. QED
      BY <2>1, <2>2, <1>5, <1>12
  <1>13. /\ \A k \in 1..Len(q) : Up(k) # n /\ (Up(k) < n <=> k < n)
         /\ \A j, k \in 1..Len(q) : Up(j) < Up(k) <=> j < k
    BY <1>5
  <1> HIDE DEF Up
  <1>14. EntryOf(g, u) = n
    <2>1. ASSUME NEW j \in 1..Len(r), j # n PROVE r[j].user_id # u
      BY <2>1, <1>11, <1>12
    <2>2. r[n].user_id = u
      BY <1>3, <1>10
    <2>3. QED
      BY <1>4, <1>10, <2>1, <2>2 DEF EntryOf
  <1>15. ASSUME NEW w \in others PROVE EntryOf(g, w) = Up(EntryOf(h, w))
    <2>1. ASSUME NEW j \in 1..Len(r), r[j].user_id = w
          PROVE  j = Up(EntryOf(h, w))
      <3>1. j # n
        BY <1>3, <1>10, <2>1
      <3>2. PICK k \in 1..Len(q) : j = Up(k) /\ r[j] = q[k]
        BY <1>12, <3>1
      <3>3. k = EntryOf(h, w)
        BY <1>1, <1>9, <2>1, <3>2 DEF QueueOK
      <3>4. QED
        BY <3>2, <3>3
    <2>2. Up(EntryOf(h, w)) \in 1..Len(r) /\ r[Up(EntryOf(h, w))].user_id = w
      BY <1>9
    <2>3. QED
      BY <1>4, <2>1, <2>2 DEF EntryOf
  <1>16. WaitingUsers(g) = others \cup {u}
    <2>1. ASSUME NEW j \in 1..Len(r) PROVE r[j].user_id \in others \cup {u}
      <3>1. CASE j = n
        BY <1>3, <1>10, <3>1
      <3>2. CASE j # n
        BY <1>11, <1>12, <3>2
      <3>3. QED
        BY <3>1, <3>2
    <2>2. u \in WaitingUsers(g)
      BY <1>3, <1>4, <1>10 DEF WaitingUsers
    <2>3. ASSUME NEW w \in others PROVE w \in WaitingUsers(g)
      <3>1. Up(EntryOf(h, w)) \in 1..Len(r) /\ r[Up(EntryOf(h, w))].user_id = w
        BY <1>9
      <3>2. QED
        BY ONLY <1>4, <3>1 DEF WaitingUsers
    <2>4. QED
      BY <1>4, <2>1, <2>2, <2>3 DEF WaitingUsers
  <1>17. /\ WaitingOf(g)[u] = p
         /\ \A w \in others : WaitingOf(g)[w] = q[EntryOf(h, w)].priority
    <2>1. \A w \in others \cup {u} : WaitingOf(g)[w] = r[EntryOf(g, w)].priority
      BY <1>4, <1>16 DEF WaitingOf
    <2>2. QED
      BY <1>3, <1>9, <1>10, <1>14, <1>15, <2>1
  <1>18. \A w \in others : /\ WaitingOf(h)[w] = q[EntryOf(h, w)].priority
                           /\ WaitingOf(f)[w] = WaitingOf(h)[w]
    <2>1. \A w \in others : WaitingOf(h)[w] = q[EntryOf(h, w)].priority
      BY <1>1, <1>2, WaiterHasEntry DEF Keeps, q
    <2>2. \A w \in others : WaitingOf(h)[w] = WaitingOf(f)[w]
      BY <1>1 DEF Keeps, Restrict
    <2>3. QED
      BY <2>1, <2>2
  <1>19. WaitingOf(g) = [w \in others \cup {u} |->
                           IF w = u THEN p ELSE WaitingOf(f)[w]]
    <2>1. WaitingOf(g) = [w \in others \cup {u} |-> WaitingOf(g)[w]]
      BY <1>16 DEF WaitingOf
    <2>2. \A w \in others \cup {u} :
              WaitingOf(g)[w] = IF w = u THEN p ELSE WaitingOf(f)[w]
      BY <1>17, <1>18
    <2> HIDE DEF others
    <2>3. QED
      BY <2>1, <2>2
  \* The order: as before among the others, who are ahead of u when they wait
  \* at its priority.
  <1>20. ASSUME NEW v \in others, NEW w \in others
         PROVE  <<v, w>> \in AheadOf(g) <=> <<v, w>> \in AheadOf(f)
    <2>1. /\ WaitingOf(g)[v] = WaitingOf(h)[v]
          /\ WaitingOf(g)[w] = WaitingOf(h)[w]
      BY <1>17, <1>18
    <2>2. EntryOf(g, v) < EntryOf(g, w) <=> EntryOf(h, v) < EntryOf(h, w)
      BY <1>9, <1>13, <1>15
    <2>3. <<v, w>> \in AheadOf(g) <=> <<v, w>> \in AheadOf(h)
      BY <1>1, <1>16, <2>1, <2>2 DEF AheadOf, Keeps
    <2>4. <<v, w>> \in AheadOf(h) <=> <<v, w>> \in AheadOf(f)
      BY <1>1 DEF Keeps
    <2>5. QED
      BY <2>3, <2>4
  <1>21. ASSUME NEW v \in others
         PROVE  <<v, u>> \in AheadOf(g) <=> WaitingOf(f)[v] = p
    <2> DEFINE k == EntryOf(h, v)
    <2>1. /\ k \in 1..Len(q)
          /\ WaitingOf(g)[v] = q[k].priority
          /\ WaitingOf(f)[v] = q[k].priority
          /\ EntryOf(g, v) < EntryOf(g, u) <=> k < n
      BY <1>9, <1>13, <1>14, <1>15, <1>17, <1>18
    <2> HIDE DEF k
    <2>2. q[k].priority = p => k < n
      BY <1>5, <1>7, <1>8, <2>1
    <2>3. <<v, u>> \in AheadOf(g) <=> k < n /\ q[k].priority = p
      BY <1>16, <1>17, <2>1 DEF AheadOf
    <2>4. QED
      BY <2>1, <2>2, <2>3
  <1>22. ASSUME NEW w \in others \cup {u} PROVE <<u, w>> \notin AheadOf(g)
    <2>1. CASE w = u
      BY <1>5, <1>14, <2>1 DEF AheadOf
    <2>2. CASE w # u
      <3> DEFINE k == EntryOf(h, w)
      <3>1. /\ k \in 1..Len(q)
            /\ WaitingOf(g)[w] = q[k].priority
            /\ EntryOf(g, w) = Up(k)
        BY <1>9, <1>15, <1>17, <2>2
      <3> HIDE DEF k
      <3>2. Up(k) \in Nat /\ (Up(k) > n => k >= n)
        BY <1>5, <3>1 DEF Up
      <3>3. n < Up(k) => q[k].priority # p
        BY <1>5, <1>7, <1>8, <3>1, <3>2
      <3>4. QED
        BY <1>14, <1>17, <3>1, <3>3 DEF AheadOf
    <2>3. QED
      BY <2>1, <2>2
  <1>23. AheadOf(g) = (AheadOf(f) \cap (others \X others))
                         \cup {<<w, u>> : w \in {v \in others : WaitingOf(f)[v] = p}}
    <2>1. AheadOf(g) \subseteq (others \cup {u}) \X (others \cup {u})
      BY <1>16 DEF AheadOf
    <2>2. u \notin others
      OBVIOUS
    <2> HIDE DEF others
    <2>3. QED
      BY <2>1, <2>2, <1>20, <1>21, <1>22
  <1>24. Joins(g, f, u, p)
    BY <1>16, <1>19, <1>23 DEF Joins
  <1>25. QED
    BY <1>4, <1>24 DEF g
=============================================================================
