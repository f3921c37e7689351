----------------------------- MODULE Handshake ------------------------------
(***************************************************************************)
(* How a KcpClient (src/cppLib/code/Network/Socket/KcpClient.cpp) and the   *)
(* session tables of the server connect, keep and lose each other over a    *)
(* network that delays, reorders and drops.                                *)
(*                                                                         *)
(* The client has two threads: Update, from its main loop, and OnReceive,   *)
(* from its socket's thread.  Update decides to connect again and then does *)
(* so, and the acceptance may come in between.                             *)
(*                                                                         *)
(* Every message a session ever sent may reach the client, in the order of  *)
(* KCP, one per datagram: what KCP sends again is such a late arrival.  An  *)
(* accept pack in flight arrives once or never, a data datagram any number  *)
(* of times.  Heartbeats of a live session come whenever the network lets   *)
(* them and are not kept among its messages.                               *)
(***************************************************************************)
EXTENDS Sessions

CONSTANTS
    Client,             \* the client's address
    ConnectTimeOuts,    \* what m_nConnectTimeOut may be set to: up to 0 is no time-out
    ReconnectInterval,  \* reconnectInterval
    SilenceTicks,       \* updates in CLIENT_TIMEOUT_MS
    MaxReconnects,      \* bound on the times the application connects again
    MaxPacks            \* bound on the accept packs in flight: the network loses more

ASSUME HandshakeAssumption ==
    /\ Client \in Remotes
    /\ ConnectTimeOuts \subseteq Int
    /\ ReconnectInterval \in Nat \ {0}
    /\ SilenceTicks \in Nat \ {0}
    /\ MaxReconnects \in Nat
    /\ MaxPacks \in Nat \ {0}
    /\ Recorded = {"accept", "error", "disconnect"}  \* the client reads every kind

VARIABLES
    client,      \* the KcpClient
    update,      \* where its Update is: "idle", or "retry" once it decided to
    packs,       \* accept packs in flight to the server
    data,        \* conversations of the other datagrams in flight to the server
    reconnects   \* how often the application has connected again

clientVars == <<client, update>>
netVars == <<packs, data>>
vars == <<sessionVars, clientVars, netVars, reconnects>>

NoConv == 0

\* Connect of a client as it is: nothing is sent through a closed socket
Connect ==
    /\ client' = [client EXCEPT !.status = "Connecting"]
    /\ packs' = IF client.open /\ packs < MaxPacks THEN packs + 1 ELSE packs

\* Right after the first Connect, with the time-out the application has set;
\* m_bAlive and m_nTimeOutTick are uninitialised.
\* conv is m_pKcp->conv, next the number of the message KCP waits for.
Init ==
    /\ SessionsInit
    /\ \E alive \in BOOLEAN, silent \in 0..(SilenceTicks - 1), timeOut \in ConnectTimeOuts :
         client = [status |-> "Connecting", alive |-> alive, conv |-> NoConv, next |-> 1,
                   open |-> TRUE, tries |-> 0, timeOut |-> timeOut, silent |-> silent]
    /\ update = "idle"
    /\ packs = 1
    /\ data = {}
    /\ reconnects = 0

-----------------------------------------------------------------------------
(* The client's main loop. *)

\* m_nReconnectTime counts on, which a client without a time-out never reads
Tried(c) == IF c.timeOut > 0 THEN [c EXCEPT !.tries = @ + 1] ELSE c

\* the test before OnConnectFailed
GivesUp(c) == c.timeOut > 0 /\ c.tries >= c.timeOut \div ReconnectInterval

\* Mutant: the client stops trying one attempt before it would report the failure.
DecideUntilLast ==
    /\ update = "idle"
    /\ ~client.alive
    /\ client.status = "Connecting"
    /\ ~GivesUp(Tried(client))
    /\ client' = Tried(client)
    /\ update' = "retry"
    /\ UNCHANGED <<sessionVars, netVars, reconnects>>

\* Update, not alive: reconnectInterval has passed
DecideToRetry ==
    /\ update = "idle"
    /\ ~client.alive
    /\ client.status = "Connecting"
    /\ client' = Tried(client)
    /\ update' = "retry"
    /\ UNCHANGED <<sessionVars, netVars, reconnects>>

OnConnectFailed ==
    /\ client' = [client EXCEPT !.status = "Disconnected", !.alive = FALSE]
    /\ UNCHANGED packs

\* Update, later: OnConnectFailed when the time-out is over, Connect before it and
\* for ever where there is none
Retry ==
    /\ update = "retry"
    /\ update' = "idle"
    /\ \/ /\ GivesUp(client)
          /\ OnConnectFailed
       \/ /\ ~GivesUp(client)
          /\ Connect
    /\ UNCHANGED <<sessionVars, data, reconnects>>

\* Mutant: a closed client stays alive.
ClosedAlive(c) == [c EXCEPT !.open = FALSE]

\* KcpClient::Close keeps the status
Closed(c) == [c EXCEPT !.open = FALSE, !.alive = FALSE]

\* Update, alive: one more update without a heartbeat
Silence ==
    LET c == [client EXCEPT !.silent = @ + 1]
    IN  /\ update = "idle"
        /\ client.alive
        /\ client' = IF c.silent = SilenceTicks THEN [Closed(c) EXCEPT !.silent = 0] ELSE c
        /\ UNCHANGED <<sessionVars, update, netVars, reconnects>>

\* fnWriteDgram closes a client that has no conversation yet
WriteDgram ==
    \/ /\ client.conv = NoConv
       /\ client' = Closed(client)
       /\ UNCHANGED data
    \/ /\ client.conv # NoConv
       /\ client.open
       /\ data' = data \cup {client.conv}
       /\ UNCHANGED client

\* Update, alive: SendHeartBeat, or anything else Send gives to KCP
SendData ==
    /\ update = "idle"
    /\ client.alive
    /\ client.status \in {"Connecting", "Connected"}
    /\ WriteDgram
    /\ UNCHANGED <<sessionVars, update, packs, reconnects>>

\* the application connects again after it was refused or disconnected
Reconnect ==
    /\ update = "idle"
    /\ client.status = "Disconnected"
    /\ reconnects < MaxReconnects
    /\ reconnects' = reconnects + 1
    /\ Connect
    /\ UNCHANGED <<sessionVars, update, data>>

-----------------------------------------------------------------------------
(* The client's receive thread. *)

\* KcpSession::fnWriteDgram sends an acceptance with conversation 0, which is
\* what a client that has none takes
WireConv(s, m) == IF m = "accept" THEN NoConv ELSE kcp[s].conv

\* Mutant: the conversation is reset, the line KcpClient.cpp:319 has in a comment.
ClientForgets(c) ==
    [c EXCEPT !.conv = NoConv, !.status = "Disconnected", !.alive = FALSE, !.open = FALSE]

\* KcpClient::OnDisconnected
ClientDisconnected(c) == [c EXCEPT !.status = "Disconnected", !.alive = FALSE, !.open = FALSE]

\* KcpClient::OnConnected after an acceptance with this conversation
ClientConnected(c, conv) ==
    IF conv = NoConv THEN [c EXCEPT !.status = "Disconnected", !.alive = FALSE]
    ELSE [c EXCEPT !.conv = conv, !.status = "Connected", !.alive = TRUE]

\* KcpClient::ReadDataHandler of message m of session s; it ignores errors
Handled(c, s, m) ==
    CASE m = "accept" -> ClientConnected(c, kcp[s].conv)
      [] m = "disconnect" -> ClientDisconnected(c)
      [] m = "error" -> c

\* KcpClient::OnReceive of the message KCP waits for, if ikcp_input takes the
\* datagram's conversation
ClientReceive(s) ==
    /\ client.open
    /\ client.next <= Len(kcp[s].sent)
    /\ LET m == kcp[s].sent[client.next]
       IN  /\ WireConv(s, m) = client.conv
           /\ client' = [Handled(client, s, m) EXCEPT !.next = @ + 1]
    /\ UNCHANGED <<sessionVars, update, netVars, reconnects>>

\* a heartbeat of WorldSession::Update arrives
ClientHeartbeat ==
    /\ client.open
    /\ client.next > 1
    /\ live[client.conv] # None
    /\ client.silent # 0
    /\ client' = [client EXCEPT !.silent = 0]
    /\ UNCHANGED <<sessionVars, update, netVars, reconnects>>

-----------------------------------------------------------------------------
(* The server. *)

ServerReceivePack ==
    /\ packs > 0
    /\ packs' = packs - 1
    /\ Lookup([remote |-> Client, conv |-> AcceptPack])
    /\ UNCHANGED <<clientVars, data, reconnects>>

ServerReceiveData(c) ==
    /\ c \in data
    /\ Lookup([remote |-> Client, conv |-> c])
    /\ UNCHANGED <<clientVars, netVars, reconnects>>

\* what the receive thread does next with the datagram
ServerStep ==
    /\ Accept \/ OnConnected \/ OnReceive
    /\ UNCHANGED <<clientVars, netVars, reconnects>>

\* World gives a session up, which it has from OnConnected on: the receive thread
\* may have found that session and not yet used it
ServerClose(s) ==
    /\ kcp[s].status = "Connected"
    /\ rx # [pc |-> "accepted", session |-> s]
    /\ Close({s})
    /\ UNCHANGED <<rx, clientVars, netVars, reconnects>>

Sleep(c) ==
    /\ UpdateSleeping(c)
    /\ UNCHANGED <<clientVars, netVars, reconnects>>

Next ==
    \/ DecideToRetry \/ Retry \/ Silence \/ SendData \/ Reconnect
    \/ \E s \in Ids : ClientReceive(s) \/ ServerClose(s)
    \/ ClientHeartbeat
    \/ ServerReceivePack
    \/ \E c \in Convs : ServerReceiveData(c) \/ Sleep(c)
    \/ ServerStep

\* The client's Update is called every 15 ms and the server's every 10 ms; of
\* the network, of heartbeats and of what World does nothing is promised.
FairSpec ==
    /\ Init /\ [][Next]_vars
    /\ WF_vars(DecideToRetry) /\ WF_vars(Retry) /\ WF_vars(Silence)
    /\ \A c \in Convs : WF_vars(Sleep(c))

-----------------------------------------------------------------------------
(* Properties. *)

\* A client that is alive in a conversation is served by it, or was sent the
\* DISCONNECT that tells it otherwise: OnDisconnected sends it on every path that
\* takes a session from the table (KcpSession.cpp:262-270).
NoSilentDrop ==
    \A s \in Ids : client.alive /\ client.conv # NoConv /\ kcp[s].conv = client.conv =>
        live[client.conv] = s \/ "disconnect" \in {kcp[s].sent[i] : i \in DOMAIN kcp[s].sent}

\* A client that took a conversation keeps it: a second acceptance, from a session
\* that a repeated accept pack made, never moves it, because ikcp_input takes its
\* datagrams no more (ikcp.c:763) and KCP waits for a later message
\* (KcpClient.cpp:204-217).
BoundOnce == [][client.conv # NoConv => client'.conv = client.conv]_vars

\* The liveness properties say of a condition that it does not last: []<>~P, that is P ~> ~P.
Orphan == client.alive /\ (client.conv = NoConv \/ live[client.conv] = None)

\* A client that believes it is alive without a session behind it finds out, by a
\* message or after CLIENT_TIMEOUT_MS of silence (KcpClient.cpp:162-168), even if the
\* network loses everything the server said.
OrphanStops == []<>~Orphan

Waiting == client.status = "Connecting" /\ ~client.alive

\* A client with a time-out does not wait for its acceptance for ever: it is accepted,
\* refused, or gives up, however short the time-out (KcpClient.cpp:137-153).  One without,
\* as the repository's own client sets it (Client.cpp:50), may try for ever.
ConnectSettles == []<>(client.timeOut > 0 => ~Waiting)

\* A sleeping session leaves the table after SESSION_KEEP_ALIVE_TIME, whichever path
\* closed it, and although its client may come back meanwhile under the same
\* conversation: closing that session finds the place in the table taken
\* (SocketServer.cpp:98-113, :245).
SleepersLeave == \A c \in Convs : []<>(sleeping[c] = None)

=============================================================================
