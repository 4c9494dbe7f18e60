-------------------------- MODULE DtlsSessionsProof --------------------------
(***************************************************************************)
(* Proofs about DtlsSessions, for any clients, any number of tasks at an   *)
(* address, and queues and bounds of any length.                           *)
(***************************************************************************)
EXTENDS DtlsSessions, SequenceTheorems, TLAPS

-----------------------------------------------------------------------------
(* The inductive invariant.                                                *)

TaskRecord ==
    [state: {"free", "new", "handshaking", "established", "ended"},
     queue: {q \in Seq(Packet) : Len(q) <= Capacity}]

UdpRecord ==
    [at: {"receive", "inject", "start"}, addr: Addr \cup {NoAddr},
     packets: Seq(Packet), known: BOOLEAN]

ClientsOK ==
    /\ latched \subseteq Addr
    /\ client \in [Addr -> Packet \cup {"done", "gone"}]
    /\ partner \in [Addr -> Task \cup {NoTask}]
    /\ keyed \subseteq Addr
    /\ pending \in [Addr -> Seq(Packet)]
    /\ stale \subseteq Addr

\* The UDP task waits for a session of somebody, with a packet for it.
UdpOK ==
    /\ udp \in UdpRecord
    /\ udp.at = "inject" => udp.addr \in Addr /\ udp.packets # << >>

\* An address's session is one of its own tasks.
SessionsOK ==
    /\ task \in [Task -> TaskRecord]
    /\ sessions \in [Addr -> Task \cup {NoTask}]
    /\ \A a \in Addr : sessions[a] \in Of(a) \cup {NoTask}
    /\ met \subseteq Addr

\* Where no session has come upon another one's end there is one task at most.
OneTask ==
    \A s, t \in Task :
        /\ s[1] = t[1] /\ s[1] \notin met
        /\ task[s].state # "free" /\ task[t].state # "free"
        => s = t

TaskInv == UdpOK /\ SessionsOK /\ OneTask /\ LiveIsListed

Inv == ClientsOK /\ TaskInv

LEMMA TaskHasAddress ==
    ASSUME NEW t \in Task
    PROVE  t[1] \in Addr /\ t # NoTask
  BY DtlsAssumption DEF NoTask

LEMMA InitInv == Init => Inv
  <1> SUFFICES ASSUME Init PROVE Inv
    OBVIOUS
  <1>1. Idle \in TaskRecord
    BY DtlsAssumption DEF Idle, TaskRecord
  <1>2. Receiving \in UdpRecord /\ Receiving.at # "inject"
    BY DEF Receiving, UdpRecord
  <1>3. ClientsOK
    BY DEF Init, ClientsOK, Packet
  <1>4. UdpOK /\ SessionsOK
    BY <1>1, <1>2 DEF Init, UdpOK, SessionsOK
  <1>5. \A t \in Task : task[t].state = "free"
    BY DEF Init, Idle
  <1>6. QED
    BY <1>3, <1>4, <1>5 DEF Inv, TaskInv, OneTask, LiveIsListed, Live

LEMMA InvIsTyped == Inv => TypeOK
  <1> SUFFICES ASSUME Inv PROVE TypeOK
    OBVIOUS
  <1>1. \A t \in Task : task[t] \in TaskRecord
    BY DEF Inv, TaskInv, SessionsOK
  <1>2. QED
    BY <1>1 DEF Inv, ClientsOK, TaskInv, UdpOK, SessionsOK, TaskRecord, UdpRecord, TypeOK

-----------------------------------------------------------------------------
(* The steps of the UDP task.                                              *)

LEMMA AppendFits ==
    ASSUME NEW r \in TaskRecord, NEW p \in Packet, Len(r.queue) < Capacity
    PROVE  [r EXCEPT !.queue = Append(@, p)] \in TaskRecord
  BY DtlsAssumption DEF TaskRecord

LEMMA InjectOK ==
    ASSUME TaskInv, NEW a \in Addr, NEW p \in Packet, Inject(a, p)
    PROVE  TaskInv'
  <1> DEFINE s == sessions[a]
             r == [task[s] EXCEPT !.queue = Append(@, p)]
  <1>1. s \in Task
    BY DEF Inject, Open, TaskInv, SessionsOK, Of
  <1>2. task[s] \in TaskRecord /\ Len(task[s].queue) < Capacity
    BY <1>1, DtlsAssumption DEF Inject, Full, TaskInv, SessionsOK, TaskRecord
  <1>3. r \in TaskRecord /\ r.state = task[s].state
    BY <1>2, AppendFits DEF TaskRecord
  <1>4. task' = [task EXCEPT ![s] = r]
    BY DEF Inject
  <1> HIDE DEF s, r
  <1>5. /\ task' \in [Task -> TaskRecord]
        /\ \A t \in Task : task'[t].state = task[t].state
    BY <1>1, <1>3, <1>4 DEF TaskInv, SessionsOK
  <1>6. UNCHANGED <<sessions, met>> /\ udp' = Receiving
    BY DEF Inject
  <1>7. UdpOK'
    BY <1>6 DEF UdpOK, Receiving, UdpRecord
  <1>8. SessionsOK'
    BY <1>5, <1>6 DEF TaskInv, SessionsOK
  <1>9. OneTask' /\ LiveIsListed'
    BY <1>5, <1>6 DEF TaskInv, OneTask, LiveIsListed, Live, Listed
  <1>10. QED
    BY <1>7, <1>8, <1>9 DEF TaskInv

LEMMA AwaitOK ==
    ASSUME TaskInv, NEW a \in Addr, NEW packets \in Seq(Packet), packets # << >>,
           NEW known \in BOOLEAN, Await(a, packets, known)
    PROVE  TaskInv'
  <1>1. UdpOK'
    BY DEF Await, UdpOK, UdpRecord
  <1>2. SessionsOK' /\ OneTask' /\ LiveIsListed'
    BY DEF Await, TaskInv, SessionsOK, OneTask, LiveIsListed, Live, Listed
  <1>3. QED
    BY <1>1, <1>2 DEF TaskInv

\* Unless another task of the address is around still, the new one is alone.
LEMMA StartOK ==
    ASSUME TaskInv, NEW a \in Addr, NEW packets \in Seq(Packet), Start(a, packets)
    PROVE  TaskInv'
  <1> DEFINE fits == Len(packets) <= Capacity
             r == [state |-> IF fits THEN "handshaking" ELSE "new",
                   queue |-> IF fits THEN packets ELSE SubSeq(packets, 1, Capacity)]
  <1>1. PICK t \in Free(a) : t = CHOOSE u \in Free(a) : TRUE
    BY DEF Start
  <1>2. t \in Task /\ t[1] = a /\ task[t].state = "free"
    BY <1>1 DEF Free, Of
  <1>3. r \in TaskRecord
    <2>1. CASE fits
      BY <2>1 DEF TaskRecord
    <2>2. CASE ~fits
      <3>1. /\ SubSeq(packets, 1, Capacity) \in Seq(Packet)
            /\ Len(SubSeq(packets, 1, Capacity)) = Capacity
        BY <2>2, DtlsAssumption
      <3>2. QED
        BY <2>2, <3>1, DtlsAssumption DEF TaskRecord
    <2>3. QED
      BY <2>1, <2>2
  <1>4. /\ sessions' = [sessions EXCEPT ![a] = t]
        /\ met' = IF Free(a) = Of(a) THEN met ELSE met \cup {a}
        /\ task' = [task EXCEPT ![t] = r]
        /\ udp' = IF fits THEN Receiving ELSE [Receiving EXCEPT !.at = "start", !.addr = a]
    BY <1>1 DEF Start
  <1> HIDE DEF r
  <1>5. UdpOK'
    <2>1. /\ Receiving \in UdpRecord /\ Receiving.at # "inject"
          /\ [Receiving EXCEPT !.at = "start", !.addr = a] \in UdpRecord
          /\ [Receiving EXCEPT !.at = "start", !.addr = a].at # "inject"
      <3>1. Receiving \in UdpRecord /\ Receiving.at # "inject"
        BY DEF Receiving, UdpRecord
      <3>2. \A r0 \in UdpRecord : [r0 EXCEPT !.at = "start", !.addr = a] \in UdpRecord
        BY DEF UdpRecord
      <3>3. \A r0 \in UdpRecord : [r0 EXCEPT !.at = "start", !.addr = a].at = "start"
        BY DEF UdpRecord
      <3>4. QED
        BY <3>1, <3>2, <3>3
    <2>2. QED
      BY <1>4, <2>1 DEF UdpOK
  <1>6. SessionsOK'
    BY <1>2, <1>3, <1>4 DEF TaskInv, SessionsOK, Of
  <1>7. ASSUME a \notin met', NEW s \in Task, s[1] = a, s # t
        PROVE  task'[s].state = "free"
    <2>1. s \in Free(a)
      BY <1>4, <1>7 DEF Of
    <2>2. QED
      BY <1>2, <1>4, <1>7, <2>1 DEF Free, TaskInv, SessionsOK
  <1>8. ASSUME NEW s \in Task, s[1] # a
        PROVE  task'[s] = task[s] /\ (s[1] \in met' <=> s[1] \in met) /\ (Listed(s)' <=> Listed(s))
    BY <1>2, <1>4, <1>8, TaskHasAddress DEF TaskInv, SessionsOK, Listed
  <1>9. OneTask'
    BY <1>7, <1>8 DEF TaskInv, OneTask
  <1>10. Listed(t)'
    BY <1>2, <1>4 DEF Listed, TaskInv, SessionsOK
  <1>11. LiveIsListed'
    <2>1. ASSUME NEW s \in Task, Live(s)', s[1] \notin met' PROVE Listed(s)'
      BY <1>7, <1>8, <1>10, <2>1 DEF TaskInv, LiveIsListed, Live
    <2>2. QED
      BY <2>1 DEF LiveIsListed
  <1>12. QED
    BY <1>5, <1>6, <1>9, <1>11 DEF TaskInv

LEMMA EnqueuePendingOK ==
    ASSUME Inv, NEW a \in Addr, NEW packets \in Seq(Packet), EnqueuePending(a, packets)
    PROVE  TaskInv' /\ pending' \in [Addr -> Seq(Packet)]
  <1>1. UdpOK'
    BY DEF EnqueuePending, UdpOK, Receiving, UdpRecord
  <1>2. SessionsOK' /\ OneTask' /\ LiveIsListed'
    BY DEF EnqueuePending, Inv, TaskInv, SessionsOK, OneTask, LiveIsListed, Live, Listed
  <1>3. pending[a] \o packets \in Seq(Packet)
    BY DEF Inv, ClientsOK
  <1>4. pending' \in [Addr -> Seq(Packet)]
    BY <1>3 DEF EnqueuePending, Inv, ClientsOK
  <1>5. QED
    BY <1>1, <1>2, <1>4 DEF TaskInv

-----------------------------------------------------------------------------
(* Every step.                                                             *)

\* A task that goes on, or ends, changes nothing about the others.
LEMMA TaskChanges ==
    ASSUME TaskInv, NEW t \in Task, NEW r \in TaskRecord,
           task[t].state # "free",
           r.state \in {"handshaking", "established"} => Live(t),
           task' = [task EXCEPT ![t] = r],
           UNCHANGED <<sessions, met, udp>>
    PROVE  TaskInv'
  <1>1. UdpOK' /\ SessionsOK'
    BY DEF TaskInv, UdpOK, SessionsOK
  <1>2. \A s \in Task : /\ task'[s].state # "free" => task[s].state # "free"
                        /\ Live(s)' => Live(s)
    BY DEF TaskInv, SessionsOK, Live
  <1>3. QED
    BY <1>1, <1>2 DEF TaskInv, OneTask, LiveIsListed, Listed

LEMMA NextInv == Inv /\ [Next]_vars => Inv'
  <1> SUFFICES ASSUME Inv, [Next]_vars PROVE Inv'
    OBVIOUS
  <1>a. TaskInv /\ ClientsOK
    BY DEF Inv
  <1>b. \A t \in Task : task[t] \in TaskRecord /\ t[1] \in Addr
    BY <1>a, TaskHasAddress DEF TaskInv, SessionsOK
  <1>1. ASSUME NEW a \in Addr, ReceiveDtls(a) PROVE Inv'
    <2>1. client[a] \in Packet /\ <<client[a]>> \in Seq(Packet) /\ <<client[a]>> # << >>
      BY <1>1 DEF ReceiveDtls
    <2>2. UNCHANGED <<latched, client, partner, keyed, stale>>
      BY <1>1 DEF ReceiveDtls
    <2>3. CASE EnqueuePending(a, <<client[a]>>)
      BY <1>a, <2>1, <2>2, <2>3, EnqueuePendingOK DEF Inv, ClientsOK
    <2>4. CASE /\ \/ Inject(a, client[a]) \/ Await(a, <<client[a]>>, FALSE)
                  \/ Start(a, <<client[a]>>)
               /\ UNCHANGED pending
      <3>1. TaskInv'
        BY <1>a, <2>1, <2>4, InjectOK, AwaitOK, StartOK
      <3>2. QED
        BY <1>a, <2>2, <2>4, <3>1 DEF Inv, ClientsOK
    <2>5. QED
      BY <1>1, <2>3, <2>4 DEF ReceiveDtls
  <1>2. ASSUME NEW a \in Addr, ReceiveStun(a) PROVE Inv'
    <2>1. /\ latched' = latched \cup {a} /\ pending' = [pending EXCEPT ![a] = << >>]
          /\ UNCHANGED <<client, partner, keyed, stale>>
      BY <1>2 DEF ReceiveStun
    <2>2. ClientsOK'
      BY <1>a, <2>1 DEF ClientsOK
    <2>3. pending[a] \in Seq(Packet)
      BY <1>a DEF ClientsOK
    <2>4. CASE UNCHANGED <<sessions, task, udp, met>>
      <3>1. TaskInv'
        BY <1>a, <2>4 DEF TaskInv, UdpOK, SessionsOK, OneTask, LiveIsListed, Live, Listed
      <3>2. QED
        BY <2>2, <3>1 DEF Inv
    <2>5. CASE /\ pending[a] # << >>
               /\ \/ Inject(a, Head(pending[a])) \/ Await(a, pending[a], TRUE)
                  \/ Start(a, pending[a])
      <3>1. Head(pending[a]) \in Packet
        BY <2>3, <2>5
      <3>2. TaskInv'
        BY <1>a, <2>3, <2>5, <3>1, InjectOK, AwaitOK, StartOK
      <3>3. QED
        BY <2>2, <3>2 DEF Inv
    <2>6. QED
      BY <1>2, <2>4, <2>5 DEF ReceiveStun
  <1>3. ASSUME Resume PROVE Inv'
    <2>1. /\ udp.addr \in Addr /\ udp.packets \in Seq(Packet) /\ udp.packets # << >>
          /\ Head(udp.packets) \in Packet
      BY <1>3, <1>a DEF Resume, TaskInv, UdpOK, UdpRecord
    <2>2. UNCHANGED <<latched, client, partner, keyed, stale>>
      BY <1>3 DEF Resume
    <2>3. CASE EnqueuePending(udp.addr, udp.packets)
      BY <1>a, <2>1, <2>2, <2>3, EnqueuePendingOK DEF Inv, ClientsOK
    <2>4. CASE /\ Inject(udp.addr, Head(udp.packets)) \/ Start(udp.addr, udp.packets)
               /\ UNCHANGED pending
      <3>1. TaskInv'
        BY <1>a, <2>1, <2>4, InjectOK, StartOK
      <3>2. QED
        BY <1>a, <2>2, <2>4, <3>1 DEF Inv, ClientsOK
    <2>5. QED
      BY <1>3, <2>3, <2>4 DEF Resume
  <1>4. ASSUME NEW t \in Task, ReadHandshake(t) PROVE Inv'
    <2> DEFINE completes == Head(task[t].queue) = "finish" /\ partner[t[1]] = t
               r == [task[t] EXCEPT !.queue = Tail(@),
                                    !.state = IF completes THEN "established" ELSE @]
    <2>1. /\ task' = [task EXCEPT ![t] = r]
          /\ task[t].state = "handshaking" /\ task[t].queue # << >>
          /\ UNCHANGED <<latched, sessions, pending, udp, stale, met>>
      BY <1>4, <1>a DEF ReadHandshake, TaskInv, SessionsOK
    <2>2. Tail(task[t].queue) \in Seq(Packet) /\ Len(Tail(task[t].queue)) <= Capacity
      BY <1>b, <2>1, DtlsAssumption DEF TaskRecord
    <2>3. r \in TaskRecord
      BY <1>b, <2>1, <2>2 DEF TaskRecord
    <2> HIDE DEF r
    <2>4. TaskInv'
      BY <1>a, <2>1, <2>3, TaskChanges DEF Live
    <2>5. ClientsOK'
      <3>1. /\ client' \in [Addr -> Packet \cup {"done", "gone"}]
            /\ partner' \in [Addr -> Task \cup {NoTask}]
            /\ keyed' \subseteq Addr
        BY <1>4, <1>a, <1>b DEF ReadHandshake, ClientsOK, WithKeys, Packet
      <3>2. QED
        BY <1>a, <2>1, <3>1 DEF ClientsOK
    <2>6. QED
      BY <2>4, <2>5 DEF Inv
  <1>5. ASSUME NEW t \in Task, ReadApplication(t) PROVE Inv'
    <2> DEFINE r == [task[t] EXCEPT !.queue = Tail(@)]
    <2>1. /\ task' = [task EXCEPT ![t] = r]
          /\ task[t].state = "established" /\ task[t].queue # << >>
          /\ UNCHANGED <<latched, client, partner, keyed, sessions, pending, udp, stale, met>>
      BY <1>5 DEF ReadApplication
    <2>2. Tail(task[t].queue) \in Seq(Packet) /\ Len(Tail(task[t].queue)) <= Capacity
      BY <1>b, <2>1, DtlsAssumption DEF TaskRecord
    <2>3. r \in TaskRecord
      BY <1>b, <2>1, <2>2 DEF TaskRecord
    <2> HIDE DEF r
    <2>4. TaskInv'
      BY <1>a, <2>1, <2>3, TaskChanges DEF Live
    <2>5. QED
      BY <1>a, <2>1, <2>4 DEF Inv, ClientsOK
  <1>6. ASSUME NEW t \in Task, TimeOut(t) \/ LoseSender(t) PROVE Inv'
    <2> DEFINE r == IF TimeOut(t) THEN [task[t] EXCEPT !.state = "ended", !.queue = << >>]
                    ELSE [task[t] EXCEPT !.state = "ended"]
    <2>1. /\ task' = [task EXCEPT ![t] = r]
          /\ Live(t)
          /\ UNCHANGED <<latched, client, partner, keyed, sessions, pending, udp, stale, met>>
      BY <1>6 DEF TimeOut, LoseSender
    <2>2. r \in TaskRecord /\ r.state = "ended"
      <3>1. << >> \in Seq(Packet) /\ Len(<< >>) <= Capacity
        BY DtlsAssumption
      <3>2. /\ [task[t] EXCEPT !.state = "ended", !.queue = << >>] \in TaskRecord
            /\ [task[t] EXCEPT !.state = "ended"] \in TaskRecord
        BY <1>b, <3>1 DEF TaskRecord
      <3>3. QED
        BY <1>b, <3>2 DEF TaskRecord
    <2> HIDE DEF r
    <2>3. TaskInv'
      BY <1>a, <2>1, <2>2, TaskChanges DEF Live
    <2>4. QED
      BY <1>a, <2>1, <2>3 DEF Inv, ClientsOK
  <1>7. ASSUME NEW t \in Task, EndTask(t) PROVE Inv'
    <2> DEFINE a == t[1]
    <2>1. /\ task[t].state = "ended"
          /\ sessions' = [sessions EXCEPT ![a] = NoTask]
          /\ task' = [task EXCEPT ![t] = Idle]
          /\ partner' = [partner EXCEPT ![a] = IF @ = t THEN NoTask ELSE @]
          /\ UNCHANGED <<latched, client, keyed, pending, udp, stale, met>>
      BY <1>7 DEF EndTask
    <2>2. a \in Addr /\ Idle \in TaskRecord /\ Idle.state = "free"
      BY <1>b, DtlsAssumption DEF Idle, TaskRecord
    <2> HIDE DEF a, Idle
    <2>3. ClientsOK'
      BY <1>a, <2>1, <2>2 DEF ClientsOK
    <2>4. UdpOK' /\ SessionsOK'
      BY <1>a, <2>1, <2>2 DEF TaskInv, UdpOK, SessionsOK
    <2>5. \A s \in Task : s # t => task'[s] = task[s]
      BY <1>a, <2>1 DEF TaskInv, SessionsOK
    <2>6. task'[t].state = "free"
      BY <1>a, <2>1, <2>2 DEF TaskInv, SessionsOK
    <2>7. OneTask'
      BY <1>a, <2>1, <2>5, <2>6 DEF TaskInv, OneTask
    <2>8. ASSUME NEW s \in Task, Live(s)', s[1] \notin met' PROVE Listed(s)'
      <3>1. s # t /\ Live(s) /\ s[1] \notin met
        BY <2>1, <2>5, <2>6, <2>8 DEF Live
      <3>2. s[1] # a
        BY <1>a, <2>1, <3>1 DEF TaskInv, OneTask, Live, a
      <3>3. Listed(s)
        BY <1>a, <3>1 DEF TaskInv, LiveIsListed
      <3>4. QED
        BY <1>a, <1>b, <2>1, <3>2, <3>3 DEF Listed, TaskInv, SessionsOK
    <2>9. QED
      BY <2>3, <2>4, <2>7, <2>8 DEF Inv, TaskInv, LiveIsListed
  <1>8. ASSUME CollectStale PROVE Inv'
    BY <1>a, <1>8 DEF CollectStale, Inv, ClientsOK, TaskInv, UdpOK, SessionsOK, OneTask,
                      LiveIsListed, Live, Listed
  <1>9. ASSUME RemoveStale PROVE Inv'
    <2>1. /\ sessions' = [a \in Addr |-> IF a \in stale THEN NoTask ELSE sessions[a]]
          /\ met' = met \cup {a \in stale : sessions[a] # NoTask /\ ~Closed(sessions[a])}
          /\ stale' = {}
          /\ UNCHANGED <<latched, client, partner, keyed, pending, task, udp>>
      BY <1>9 DEF RemoveStale
    <2>2. ClientsOK' /\ UdpOK' /\ OneTask'
      BY <1>a, <2>1 DEF ClientsOK, TaskInv, UdpOK, OneTask
    <2>3. SessionsOK'
      BY <1>a, <2>1 DEF ClientsOK, TaskInv, SessionsOK
    <2>4. ASSUME NEW s \in Task, Live(s)', s[1] \notin met' PROVE Listed(s)'
      <3>1. Live(s) /\ s[1] \notin met
        BY <2>1, <2>4 DEF Live
      <3>2. sessions[s[1]] = s /\ ~Closed(s) /\ s # NoTask
        BY <1>a, <3>1, TaskHasAddress DEF TaskInv, LiveIsListed, Listed, Live, Closed
      <3>3. s[1] \notin stale
        BY <2>1, <2>4, <3>2
      <3>4. QED
        BY <1>b, <2>1, <3>2, <3>3 DEF Listed
    <2>5. QED
      BY <2>2, <2>3, <2>4 DEF Inv, TaskInv, LiveIsListed
  <1>10. ASSUME NEW a \in Addr, Leave(a) PROVE Inv'
    <2>1. ClientsOK'
      BY <1>a, <1>10 DEF Leave, ClientsOK
    <2>2. TaskInv'
      BY <1>a, <1>10 DEF Leave, TaskInv, UdpOK, SessionsOK, OneTask, LiveIsListed, Live, Listed
    <2>3. QED
      BY <2>1, <2>2 DEF Inv
  <1>11. CASE UNCHANGED vars
    BY <1>a, <1>11 DEF vars, Inv, ClientsOK, TaskInv, UdpOK, SessionsOK, OneTask, LiveIsListed,
                       Live, Listed
  <1>12. QED
    BY <1>1, <1>2, <1>3, <1>4, <1>5, <1>6, <1>7, <1>8, <1>9, <1>10, <1>11 DEF Next, TaskStep

-----------------------------------------------------------------------------
LEMMA AlwaysInv == Spec => []Inv
  BY InitInv, NextInv, PTL DEF Spec

\* What the variables range over.
THEOREM TypeCorrect == Spec => []TypeOK
  BY AlwaysInv, InvIsTyped, PTL

\* A session that meets no other at its address is found there for as long as
\* its task reads.
THEOREM LiveAreListed == Spec => []LiveIsListed
  <1>1. Inv => LiveIsListed
    BY DEF Inv, TaskInv
  <1>2. QED
    BY <1>1, AlwaysInv, PTL
=============================================================================
