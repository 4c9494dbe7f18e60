--------------------------- MODULE SessionsClaims ---------------------------
(***************************************************************************)
(* Statements the repository makes about sessions that the code does not   *)
(* keep for clients with one quirk or another.  Each is checked by a run   *)
(* of its own, which finds a counterexample.                               *)
(***************************************************************************)
EXTENDS MCSessions

\* core/user.rs: a user is "registered at IDENTIFY, removed when the WS ends".
\* The cleanup of a user's old connection removes the entry its new connection
\* has made, and nothing reaches the new one any more.
RegisteredWhileOpen ==
    \A c \in Conn : Authenticated(c) => registered[session[c].user] # NoConn

\* README: the end of the WS is followed by "automatic cleanup".  The session
\* remembers one channel, so a second join leaves the first membership and the
\* first endpoint without anybody to remove them.
CleanupIsComplete == NothingLeftBehind

\* core/floor.rs: remove_from_queue is there for "CHANNEL_LEAVE and the like".
\* handle_channel_leave never calls it.
LeaverLeavesQueue ==
    [][\A c \in Conn : LeaveRemoves(c) =>
          ~Queued(floor'[session[c].channel], session[c].user)]_vars

\* core/channel.rs: the floor is "used in Ptt mode only".  No floor handler
\* looks at the mode.
FloorInPttOnly ==
    \A ch \in Conference : floor[ch].state = "Idle"

\* reaper.rs: who sends no heartbeat for ZOMBIE_TIMEOUT_MS is removed and taken
\* out of every channel.  The reaper looks for zombies among the registered
\* users only: once another connection of the user has ended, a dead one is
\* never found, and its membership stays.
ZombiesLeaveChannels ==
    <>[](\A c \in Conn : session[c].phase \in {"dead", "closed"}) =>
        <>[](\A ch \in Channel : members[ch] = {})
=============================================================================
