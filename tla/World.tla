------------------------------- MODULE World --------------------------------
(***************************************************************************)
(* The server's World (src/cppLib/code/server/World/World.cpp, WorldSession *)
(* .cpp) on top of the session tables it feeds on: the accept callback of   *)
(* Server::MainLoop queues a WorldSession on the receive thread, and the    *)
(* main thread admits, updates and removes them.                           *)
(*                                                                         *)
(* A WorldSession is known by its KcpSession's number, and by its           *)
(* conversation in m_mSessions and m_disconnects.  When 18 seconds without  *)
(* a heartbeat have passed is left open: a session may be idle any time.    *)
(* m_playerLimit is never assigned: it is any number, 0 being no limit.     *)
(* unordered_map has no order and every update is a step of its own.        *)
(***************************************************************************)
EXTENDS Sessions

CONSTANTS
    PlayerLimit  \* m_playerLimit

ASSUME WorldAssumption == PlayerLimit \in Nat

VARIABLES
    joining,       \* addSessQueue
    players,       \* m_mSessions, None where there is no entry
    queued,        \* m_QueuedPlayer
    inQueue,       \* the sessions whose m_bInQueue is set
    disconnects,   \* the keys of m_disconnects
    ending,        \* where the main thread is in KcpSession::Disconnect
    stopped        \* the main loop has ended

worldVars == <<joining, players, queued, inQueue, disconnects>>
mainVars == <<ending, stopped>>
vars == <<sessionVars, worldVars, mainVars>>

InSeq(q) == {q[i] : i \in 1..Len(q)}
Players == {players[c] : c \in Convs} \ {None}
\* the WorldSessions that still exist: the others have been destroyed
Owned == InSeq(joining) \cup Players \cup InSeq(queued)

Init ==
    /\ SessionsInit
    /\ joining = <<>>
    /\ players = [c \in Convs |-> None]
    /\ queued = <<>>
    /\ inQueue = {}
    /\ disconnects = {}
    /\ ending = Idle
    /\ stopped = FALSE

-----------------------------------------------------------------------------
(* The receive thread. *)

\* the accept callback: World::AddSession of a new WorldSession
Greet ==
    /\ OnConnected
    /\ joining' = Append(joining, rx.session)
    /\ UNCHANGED <<players, queued, inQueue, disconnects, mainVars>>

\* the steps of the tables that World takes no part in: what OnReceivePacket
\* makes of a packet only puts off the time-out
Receive ==
    /\ (\E d \in Datagrams : Lookup(d)) \/ Accept \/ OnReceive
    /\ UNCHANGED <<worldVars, mainVars>>

-----------------------------------------------------------------------------
(* The main thread. *)

\* The main thread may begin something.
MainIdle == ~stopped /\ ending = Idle

\* GetActiveSessionCount, negative where the code's unsigned difference wraps
ActiveIs(n) == Cardinality(Players) = n + Len(queued)

\* World::HasRecentlyDisconnected: the times are subtracted the wrong way
\* round, so an entry never gets old
HasRecentlyDisconnected(s) == kcp[s].conv \in disconnects

\* Mutant: the session that is replaced is not kicked.
AddSessionKicksNobody ==
    LET s == Head(joining)
        c == kcp[s].conv
        full == PlayerLimit > 0 /\ Cardinality(Players \ {players[c]}) >= PlayerLimit
    IN  /\ MainIdle
        /\ joining # <<>>
        /\ joining' = Tail(joining)
        /\ players' = [players EXCEPT ![c] = s]
        /\ IF full /\ ~HasRecentlyDisconnected(s)
           THEN /\ queued' = Append(queued, s)
                /\ inQueue' = inQueue \cup {s}
           ELSE UNCHANGED <<queued, inQueue>>
        /\ UNCHANGED <<sessionVars, disconnects, mainVars>>

\* World::AddSession_ of the head of addSessQueue.  A session that has the
\* conversation already is kicked (twice) and replaced.
AddSession ==
    LET s == Head(joining)
        c == kcp[s].conv
        full == PlayerLimit > 0 /\ Cardinality(Players \ {players[c]}) >= PlayerLimit
    IN  /\ MainIdle
        /\ joining # <<>>
        /\ joining' = Tail(joining)
        /\ Close({players[c]} \ {None})
        /\ players' = [players EXCEPT ![c] = s]
        /\ IF full /\ ~HasRecentlyDisconnected(s)
           THEN /\ queued' = Append(queued, s)
                /\ inQueue' = inQueue \cup {s}
           ELSE UNCHANGED <<queued, inQueue>>
        /\ UNCHANGED <<rx, disconnects, mainVars>>

\* the login queue q after the search for s, which stops at the first one found
Erase(q, s) ==
    LET first == CHOOSE i \in DOMAIN q : q[i] = s /\ \A j \in 1..(i - 1) : q[j] # s
    IN  IF s \notin InSeq(q) THEN q
        ELSE [i \in 1..(Len(q) - 1) |-> IF i < first THEN q[i] ELSE q[i + 1]]

\* Mutant: the session is not counted off when it was not in the queue.
RemoveQueuedPlayerUncounted(q, s) ==
    LET rest == Erase(q, s)
        sessions == Cardinality(Players) - Len(q)
    IN  IF (PlayerLimit = 0 \/ (sessions >= 0 /\ sessions < PlayerLimit)) /\ rest # <<>>
        THEN Tail(rest) ELSE rest

\* what World::RemoveQueuedPlayer(s) leaves of the login queue q: s leaves it,
\* and its head is let in when a place is free.  The head keeps its m_bInQueue.
RemoveQueuedPlayer(q, s) ==
    LET rest == Erase(q, s)
        active == Cardinality(Players) - Len(q)
        sessions == IF s \notin InSeq(q) /\ active # 0 THEN active - 1 ELSE active
    IN  IF (PlayerLimit = 0 \/ (sessions >= 0 /\ sessions < PlayerLimit)) /\ rest # <<>>
        THEN Tail(rest) ELSE rest

\* World::UpdateSessions for a session whose Update fails
Remove(c) ==
    LET s == players[c]
        wasQueued == s \in InSeq(queued)
    IN  /\ MainIdle
        /\ Close({s})
        /\ queued' = RemoveQueuedPlayer(RemoveQueuedPlayer(queued, s), s)
        /\ inQueue' = IF wasQueued THEN inQueue \ {s} ELSE inQueue
        /\ disconnects' = IF wasQueued THEN disconnects ELSE disconnects \cup {c}
        /\ players' = [players EXCEPT ![c] = None]
        /\ UNCHANGED <<rx, joining, mainVars>>

\* WorldSession::Update: the socket session is no longer alive
LoseConnection(c) ==
    /\ players[c] # None
    /\ ~kcp[players[c]].alive
    /\ Remove(c)

\* WorldSession::Update: idle, which a session in the login queue never is
TimeOut(c) ==
    /\ players[c] # None
    /\ players[c] \notin inQueue
    /\ Remove(c)

\* the keep-alive of SocketServer::Update
Sleep(c) ==
    /\ MainIdle
    /\ UpdateSleeping(c)
    /\ UNCHANGED <<worldVars, mainVars>>

\* KcpSession::Disconnect of a session that World holds, a public call the
\* repository has no caller of.  It sends whatever the status is ...
DisconnectTells(c) ==
    LET s == players[c]
    IN  /\ MainIdle
        /\ s # None
        /\ kcp' = [kcp EXCEPT ![s] = Send(@, "disconnect")]
        /\ ending' = [pc |-> "told", session |-> s]
        /\ UNCHANGED <<live, sleeping, rx, worldVars, stopped>>

\* ... then sets the status, which no lock protects ...
DisconnectMarks ==
    /\ ending.pc = "told"
    /\ kcp' = [kcp EXCEPT ![ending.session].status = "Disconnected"]
    /\ ending' = [ending EXCEPT !.pc = "marked"]
    /\ UNCHANGED <<live, sleeping, rx, worldVars, stopped>>

\* ... and closes whatever has the conversation by then
DisconnectCloses ==
    /\ ending.pc = "marked"
    /\ CloseSessions(kcp, {kcp[ending.session].conv}, TRUE)
    /\ ending' = Idle
    /\ UNCHANGED <<rx, worldVars, stopped>>

\* World::OnServerShutDown, after which the main loop ends
OnServerShutDown ==
    /\ MainIdle
    /\ Close(Players)
    /\ players' = [c \in Convs |-> None]
    /\ queued' = <<>>
    /\ disconnects' = {}
    /\ stopped' = TRUE
    /\ UNCHANGED <<rx, joining, inQueue, ending>>

Next ==
    \/ Receive
    \/ Greet
    \/ AddSession
    \/ \E c \in Convs : LoseConnection(c) \/ TimeOut(c) \/ Sleep(c) \/ DisconnectTells(c)
    \/ DisconnectMarks
    \/ DisconnectCloses
    \/ OnServerShutDown

Spec == Init /\ [][Next]_vars

-----------------------------------------------------------------------------
(* Properties. *)

\* Every variable keeps its type: sessions are numbered by their objects, and a
\* sleeping session is gone when SESSION_KEEP_ALIVE_TIME has passed (KcpSession.h:23).
TypeOK ==
    /\ SessionsTypeOK
    /\ joining \in Seq(Ids)
    /\ players \in [Convs -> {None} \cup Ids]
    /\ queued \in Seq(Ids)
    /\ inQueue \subseteq Ids
    /\ disconnects \subseteq Convs
    /\ ending \in {Idle} \cup [pc : {"told", "marked"}, session : Ids]
    /\ stopped \in BOOLEAN

\* A session in SocketServer's table has a WorldSession that will close it, or the
\* receive thread is about to make one: a session World forgot would stay for ever,
\* and its data handler would call a destroyed WorldSession (WorldSession.cpp:17).
LiveHasOwner ==
    \A c \in Convs : live[c] # None =>
        live[c] \in Owned \/ rx = [pc |-> "accepted", session |-> live[c]]

\* A session that counts as connected is in the table, so that datagrams reach it,
\* unless its conversation had been given out before: insert finds the key taken, or
\* the close meant for the older session takes this one (SocketServer.cpp:359-363).
\* Not so while OnConnected is still to come, or goes on after a close.
OnlyReuseStrands ==
    \A s \in Ids : Connected(s) /\ live[kcp[s].conv] # s /\ rx.session # s =>
        \E t \in 1..(s - 1) : kcp[t].conv = kcp[s].conv

Reused == Len(kcp) > MaxConv

\* As long as no conversation is reused: the login queue holds only sessions of the
\* world and none that could time out while it waits, no more than m_playerLimit
\* sessions are active, and nobody waits while a place is free -- although a removal
\* calls RemoveQueuedPlayer twice and the first call may let somebody in
\* (World.cpp:69-71).  Who comes back with an old conversation skips the queue.
AdmissionExact ==
    PlayerLimit > 0 /\ ~Reused =>
        /\ InSeq(queued) \subseteq Players \cap inQueue
        /\ Cardinality(Players) - Len(queued) <= PlayerLimit
        /\ queued # <<>> => ActiveIs(PlayerLimit)

=============================================================================
