---------------------------- MODULE DtlsSessions ----------------------------
(***************************************************************************)
(* DTLS sessions by peer address (DtlsSessionMap), the packets kept for    *)
(* addresses no endpoint is latched to yet, and the tasks that run the     *)
(* handshakes and install the SRTP keys.  The actors are the UDP task,     *)
(* which hands every packet to the session of its address and waits while  *)
(* that session's queue is full; one task per session; the reaper; and the *)
(* clients, which send their flight again until they are answered.         *)
(*                                                                         *)
(* The handshake is a library's: here a client sends a hello, then a       *)
(* finish that answers one session's reply.  Each client has an endpoint   *)
(* and an address of its own (MediaPeer is about addresses that change).   *)
(***************************************************************************)
EXTENDS Integers, SequencesExt, FiniteSets

CONSTANTS
    Addr,
    NoAddr,
    Restless,   \* the clients that may fall silent, leave, or take too long
    Task,       \* bound: the tasks that may be around at once, as <<address, number>>
    Capacity,   \* of a session's queue: 128 in the code
    MaxPending  \* bound: packets kept for one address

ASSUME DtlsAssumption ==
    /\ NoAddr \notin Addr
    /\ Restless \subseteq Addr
    /\ Task \subseteq Addr \X Nat
    /\ Capacity \in Nat \ {0}
    /\ MaxPending \in Nat

VARIABLES
    latched,    \* the addresses by_addr has an endpoint for
    client,     \* what it sends, or done, or gone
    partner,    \* the session a client's finish belongs to, if it is left
    keyed,      \* the endpoints whose SRTP contexts are ready
    sessions,   \* DtlsSessionMap.sessions
    pending,    \* DtlsSessionMap.pending
    task,       \* the handshake tasks
    udp,        \* where the UDP task is
    stale,      \* what remove_stale has collected
    met         \* addresses where a session came upon another one's end

vars == <<latched, client, partner, keyed, sessions, pending, task, udp, stale, met>>

Packet == {"hello", "finish"}

NoTask == << >>

Idle == [state |-> "free", queue |-> << >>]
Receiving == [at |-> "receive", addr |-> NoAddr, packets |-> << >>, known |-> FALSE]

Of(a) == {t \in Task : t[1] = a}
Free(a) == {t \in Of(a) : task[t].state = "free"}
Live(t) == task[t].state \in {"handshaking", "established"}

FaultyClosed(t) == task[t].state = "free"

\* The receiver is dropped with the future the task has waited for.
Closed(t) == task[t].state \in {"ended", "free"}
Full(t) == Len(task[t].queue) >= Capacity
Listed(t) == sessions[t[1]] = t

\* inject waits for room with the session map's read lock in its hands.
Blocked ==
    /\ udp.at = "inject"
    /\ sessions[udp.addr] # NoTask
    /\ ~Closed(sessions[udp.addr]) /\ Full(sessions[udp.addr])

TypeOK ==
    /\ latched \subseteq Addr
    /\ client \in [Addr -> Packet \cup {"done", "gone"}]
    /\ partner \in [Addr -> Task \cup {NoTask}]
    /\ keyed \subseteq Addr
    /\ sessions \in [Addr -> Task \cup {NoTask}]
    /\ pending \in [Addr -> Seq(Packet)]
    /\ \A t \in Task :
        /\ task[t].state \in {"free", "new", "handshaking", "established", "ended"}
        /\ task[t].queue \in Seq(Packet) /\ Len(task[t].queue) <= Capacity
    /\ udp.at \in {"receive", "inject", "start"}
    /\ udp.addr \in Addr \cup {NoAddr} /\ udp.packets \in Seq(Packet)
    /\ stale \subseteq Addr
    /\ met \subseteq Addr

Init ==
    /\ latched = {}
    /\ client = [a \in Addr |-> "hello"]
    /\ partner = [a \in Addr |-> NoTask]
    /\ keyed = {}
    /\ sessions = [a \in Addr |-> NoTask]
    /\ pending = [a \in Addr |-> << >>]
    /\ task = [t \in Task |-> Idle]
    /\ udp = Receiving
    /\ stale = {}
    /\ met = {}
-----------------------------------------------------------------------------
(* The UDP task. *)

Open(a) == sessions[a] # NoTask /\ ~Closed(sessions[a])

FaultyInject(a, packet) ==
    /\ Open(a)
    /\ task' = [task EXCEPT ![sessions[a]].queue = Append(@, packet)]
    /\ udp' = Receiving
    /\ UNCHANGED <<sessions, met>>

\* inject finds an open session with room in its queue, or waits for room.
Inject(a, packet) ==
    /\ Open(a) /\ ~Full(sessions[a])
    /\ task' = [task EXCEPT ![sessions[a]].queue = Append(@, packet)]
    /\ udp' = Receiving
    /\ UNCHANGED <<sessions, met>>

Await(a, packets, known) ==
    /\ Open(a) /\ Full(sessions[a])
    /\ udp' = [at |-> "inject", addr |-> a, packets |-> packets, known |-> known]
    /\ UNCHANGED <<sessions, task, met>>

\* start_dtls_handshake: whatever session the address has is replaced.  The
\* packets are queued before there is a task to read them.
FaultyStart(a, packets) ==
    LET t == CHOOSE u \in Free(a) : TRUE IN
    /\ ~Open(a) /\ Free(a) # {}
    /\ met' = IF Free(a) = Of(a) THEN met ELSE met \cup {a}
    /\ task' = [task EXCEPT ![t] =
            [state |-> "handshaking", queue |-> packets]]
    /\ udp' = Receiving
    /\ UNCHANGED sessions

Start(a, packets) ==
    LET t == CHOOSE u \in Free(a) : TRUE
        fits == Len(packets) <= Capacity
    IN /\ ~Open(a) /\ Free(a) # {}
       /\ sessions' = [sessions EXCEPT ![a] = t]
       /\ met' = IF Free(a) = Of(a) THEN met ELSE met \cup {a}
       /\ task' = [task EXCEPT ![t] =
            [state |-> IF fits THEN "handshaking" ELSE "new",
             queue |-> IF fits THEN packets ELSE SubSeq(packets, 1, Capacity)]]
       /\ udp' = IF fits THEN Receiving
                 ELSE [Receiving EXCEPT !.at = "start", !.addr = a]

EnqueuePending(a, packets) ==
    /\ ~Open(a) /\ a \notin latched
    /\ pending' = [pending EXCEPT ![a] = @ \o packets]
    /\ udp' = Receiving
    /\ UNCHANGED <<sessions, task, met>>

\* handle_dtls, with what the client sends until it is answered.
ReceiveDtls(a) ==
    LET packets == <<client[a]>> IN
    /\ udp.at = "receive"
    /\ client[a] \in Packet
    /\ \/ /\ \/ Inject(a, client[a])
             \/ Await(a, packets, FALSE)
             \/ a \in latched /\ Start(a, packets)
          /\ UNCHANGED pending
       \/ Len(pending[a]) < MaxPending /\ EnqueuePending(a, packets)
    /\ UNCHANGED <<latched, client, partner, keyed, stale>>

\* handle_stun from an address that is not latched: the packets kept for it
\* are taken, and the first of them goes to the session of the address, if it
\* has one, with the others lost; or all of them start a session.
ReceiveStun(a) ==
    /\ udp.at = "receive"
    /\ client[a] # "gone" /\ a \notin latched
    /\ latched' = latched \cup {a}
    /\ pending' = [pending EXCEPT ![a] = << >>]
    /\ \/ pending[a] = << >> /\ UNCHANGED <<sessions, task, udp, met>>
       \/ /\ pending[a] # << >>
          /\ \/ Inject(a, Head(pending[a]))
             \/ Await(a, pending[a], TRUE)
             \/ Start(a, pending[a])
    /\ UNCHANGED <<client, partner, keyed, stale>>

\* The session inject waits for has room again, or is closed.
Resume ==
    /\ udp.at = "inject" /\ ~Blocked
    /\ \/ /\ \/ Inject(udp.addr, Head(udp.packets))
             \/ (udp.known \/ udp.addr \in latched) /\ Start(udp.addr, udp.packets)
          /\ UNCHANGED pending
       \/ ~udp.known /\ EnqueuePending(udp.addr, udp.packets)
    /\ UNCHANGED <<latched, client, partner, keyed, stale>>
-----------------------------------------------------------------------------
(* A session's task, with the client at the other end. *)

\* init_srtp_contexts: both contexts of the endpoint get their keys.
WithKeys(a) == keyed \cup {a}

\* do_handshake reads: the reply to a hello makes the client finish, with this
\* session; a finish of another session means nothing to it.
ReadHandshake(t) ==
    LET a == t[1]
        packet == Head(task[t].queue)
        replies == packet = "hello" /\ client[a] = "hello"
        completes == packet = "finish" /\ partner[a] = t
    IN /\ task[t].state = "handshaking"
       /\ task[t].queue # << >>
       /\ task' = [task EXCEPT ![t].queue = Tail(@),
                               ![t].state = IF completes THEN "established" ELSE @]
       /\ keyed' = IF completes THEN WithKeys(a) ELSE keyed
       /\ client' = [client EXCEPT ![a] =
            CASE replies -> "finish"
              [] completes /\ @ = "finish" -> "done"
              [] OTHER -> @]
       /\ partner' = IF replies THEN [partner EXCEPT ![a] = t] ELSE partner
       /\ UNCHANGED <<latched, sessions, pending, udp, stale, met>>

\* The read loop after the handshake.
ReadApplication(t) ==
    /\ task[t].state = "established"
    /\ task[t].queue # << >>
    /\ task' = [task EXCEPT ![t].queue = Tail(@)]
    /\ UNCHANGED <<latched, client, partner, keyed, sessions, pending, udp, stale, met>>

\* Client and session could still complete the handshake.
GoesOn(t) ==
    /\ Listed(t)
    /\ client[t[1]] = "hello" \/ partner[t[1]] = t

\* The timeout spans the read loop too, which a client's close also ends.
TimeOut(t) ==
    /\ Live(t)
    /\ t[1] \notin Restless => ~(task[t].state = "handshaking" /\ GoesOn(t))
    /\ task' = [task EXCEPT ![t].state = "ended", ![t].queue = << >>]
    /\ UNCHANGED <<latched, client, partner, keyed, sessions, pending, udp, stale, met>>

\* No sender is left once the map has lost or replaced the session's entry.
LoseSender(t) ==
    /\ Live(t)
    /\ ~Listed(t) /\ task[t].queue = << >>
    /\ task' = [task EXCEPT ![t].state = "ended"]
    /\ UNCHANGED <<latched, client, partner, keyed, sessions, pending, udp, stale, met>>

\* The end of the task: whatever session its address has is removed.
EndTask(t) ==
    LET a == t[1] IN
    /\ task[t].state = "ended"
    /\ ~Blocked
    /\ sessions' = [sessions EXCEPT ![a] = NoTask]
    /\ task' = [task EXCEPT ![t] = Idle]
    /\ partner' = [partner EXCEPT ![a] = IF @ = t THEN NoTask ELSE @]
    /\ UNCHANGED <<latched, client, keyed, pending, udp, stale, met>>
-----------------------------------------------------------------------------
(* The reaper's remove_stale: it looks, then removes. *)

CollectStale ==
    /\ stale = {}
    /\ stale' = {a \in Addr : sessions[a] # NoTask /\ Closed(sessions[a])}
    /\ stale' # {}
    /\ UNCHANGED <<latched, client, partner, keyed, sessions, pending, task, udp, met>>

RemoveStale ==
    /\ stale # {}
    /\ ~Blocked
    /\ sessions' = [a \in Addr |-> IF a \in stale THEN NoTask ELSE sessions[a]]
    /\ met' = met \cup {a \in stale : sessions[a] # NoTask /\ ~Closed(sessions[a])}
    /\ stale' = {}
    /\ UNCHANGED <<latched, client, partner, keyed, pending, task, udp>>

\* A client leaves: MediaPeerHub.remove.
Leave(a) ==
    /\ a \in Restless
    /\ client[a] # "gone"
    /\ client' = [client EXCEPT ![a] = "gone"]
    /\ latched' = latched \ {a}
    /\ UNCHANGED <<partner, keyed, sessions, pending, task, udp, stale, met>>
-----------------------------------------------------------------------------
TaskStep(t) ==
    ReadHandshake(t) \/ ReadApplication(t) \/ TimeOut(t) \/ LoseSender(t)

Next ==
    \/ \E a \in Addr : ReceiveDtls(a) \/ ReceiveStun(a) \/ Leave(a)
    \/ Resume
    \/ \E t \in Task : TaskStep(t) \/ EndTask(t)
    \/ CollectStale \/ RemoveStale

Spec == Init /\ [][Next]_vars

\* Tasks that can go on do; clients send again until they are answered, and
\* the socket hands out what arrives; a writer gets its lock in the end, for
\* tokio's RwLock serves in order of arrival.
Fairness ==
    /\ WF_vars(Resume)
    /\ \A t \in Task :
        /\ WF_vars(ReadHandshake(t) \/ ReadApplication(t))
        /\ WF_vars(TimeOut(t) \/ LoseSender(t))
        /\ SF_vars(EndTask(t))
    /\ \A a \in Addr \ Restless : SF_vars(ReceiveDtls(a)) /\ SF_vars(ReceiveStun(a))
    /\ SF_vars(RemoveStale)

FairSpec == Spec /\ Fairness
-----------------------------------------------------------------------------
\* A session that meets no other at its address is found there by the packets
\* that belong to it for as long as its task reads them.
LiveIsListed ==
    \A t \in Task : Live(t) /\ t[1] \notin met => Listed(t)

\* The UDP task, which serves everybody, gets back to its socket whatever
\* becomes of the session it is waiting for.
UdpReturns == udp.at # "receive" ~> udp.at = "receive"

\* A client that stays and answers gets its keys, whatever others do.
PatientClientsGetKeys == \A a \in Addr \ Restless : <>(a \in keyed)
=============================================================================
