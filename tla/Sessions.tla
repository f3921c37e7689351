------------------------------ MODULE Sessions ------------------------------
(***************************************************************************)
(* The session tables of SocketServer and the life of a KcpSession (src/   *)
(* cppLib/code/Network/Socket/SocketServer.cpp and KcpSession.cpp), without *)
(* those who drive them: World and Handshake extend this module.           *)
(*                                                                         *)
(* One receive thread takes datagrams.  It looks the remote up under       *)
(* _sessionLock and uses the session it found after letting the lock go;   *)
(* the main thread may close that session in between.  Every step below is *)
(* one holding of _sessionLock with what its thread does around it.        *)
(*                                                                         *)
(* Sessions are numbered in the order of their creation and stay in kcp    *)
(* after they died.  A datagram is who sent it and the number it begins     *)
(* with: the conversation of the KCP segments in it, or AcceptPack, the     *)
(* twelve bytes that ask for a session.  The segments of KCP (module Kcp)   *)
(* are left out: a session's messages are the sequence `sent', each one     *)
(* flushed when it is sent.                                                *)
(***************************************************************************)
EXTENDS Integers, Sequences, FiniteSets

CONSTANTS
    Remotes,      \* addresses a datagram may come from
    MaxConv,      \* conversations before the counter wraps, 2^16 in the code
    KeepTicks,    \* updates in SESSION_KEEP_ALIVE_TIME
    MaxSessions,  \* bound on the sessions ever accepted
    Recorded      \* the kinds of message kept in `sent': none where nobody reads them

ASSUME SessionsAssumption ==
    /\ Remotes # {}
    /\ MaxConv \in Nat \ {0}
    /\ KeepTicks \in Nat \ {0}
    /\ MaxSessions \in Nat
    /\ Recorded \subseteq {"accept", "error", "disconnect"}

VARIABLES
    kcp,       \* the KcpSession objects
    live,      \* m_mSessions, None where there is no entry
    sleeping,  \* m_mSleepSessions, likewise
    rx         \* where the receive thread is, with its locals

tables == <<kcp, live, sleeping>>
sessionVars == <<tables, rx>>

None == 0
Ids == 1..Len(kcp)
Convs == 0..(MaxConv - 1)
AcceptPack == MaxConv
Datagrams == [remote : Remotes, conv : Convs \cup {AcceptPack}]

Statuses == {"Connected", "Disconnected"}
Session == [remote : Remotes, conv : Convs, status : Statuses, alive : BOOLEAN,
            tick : 0..KeepTicks, sent : Seq(Recorded)]

Idle == [pc |-> "idle", session |-> None]

SessionsInit ==
    /\ kcp = <<>>
    /\ live = [c \in Convs |-> None]
    /\ sleeping = [c \in Convs |-> None]
    /\ rx = Idle

-----------------------------------------------------------------------------
(* Closing. *)

\* KcpSession::Send of message m, immediately
Send(k, m) == IF m \in Recorded THEN [k EXCEPT !.sent = Append(@, m)] ELSE k

\* Three mutants of OnDisconnected: the status is kept; the other side is not told; the
\* session stays alive.
DisconnectedStatusKept(k, immediately) ==
    LET told == IF k.status = "Disconnected" THEN k ELSE Send(k, "disconnect")
    IN  IF immediately THEN told ELSE [told EXCEPT !.alive = FALSE, !.tick = 0]
DisconnectedUntold(k, immediately) ==
    [k EXCEPT !.status = "Disconnected", !.alive = @ /\ immediately]
DisconnectedAlive(k, immediately) ==
    IF k.status = "Disconnected" THEN k
    ELSE Send([k EXCEPT !.status = "Disconnected"], "disconnect")

\* KcpSession::OnDisconnected of session k: the other side is told once, and
\* unless the session is to go at once it stops being alive
OnDisconnected(k, immediately) ==
    LET told == IF k.status = "Disconnected" THEN k
                ELSE Send([k EXCEPT !.status = "Disconnected"], "disconnect")
    IN  IF immediately THEN told ELSE [told EXCEPT !.alive = FALSE, !.tick = 0]

\* SocketServer::CloseSession of each conversation in C that has an entry, the
\* sessions being as in `before'.  insert leaves an entry that is there alone.
CloseSessions(before, C, remove) ==
    LET closed == {live[c] : c \in C} \ {None}
    IN  /\ kcp' = [s \in DOMAIN before |->
                     IF s \in closed THEN OnDisconnected(before[s], remove) ELSE before[s]]
        /\ live' = [c \in Convs |-> IF c \in C THEN None ELSE live[c]]
        /\ sleeping' = [c \in Convs |->
                          IF c \in C /\ ~remove /\ sleeping[c] = None THEN live[c]
                          ELSE sleeping[c]]

\* what KcpSession::Close of the sessions in S asks CloseSession to close
ToClose(S) == {kcp[s].conv : s \in {t \in S : kcp[t].status # "Disconnected"}}

\* KcpSession::Close
Close(S) == CloseSessions(kcp, ToClose(S), FALSE)

\* Mutant: IsDead compares with > instead of >=.
UpdateSleepingLonger(c) ==
    LET s == sleeping[c]
    IN  /\ s # None
        /\ ~kcp[s].alive
        /\ kcp' = [kcp EXCEPT ![s].tick = @ + 1]
        /\ sleeping' = IF kcp[s].tick + 1 > KeepTicks THEN [sleeping EXCEPT ![c] = None] ELSE sleeping
        /\ UNCHANGED <<live, rx>>

\* SocketServer::Update for one sleeping session
UpdateSleeping(c) ==
    LET s == sleeping[c]
        dead == kcp[s].tick + 1 = KeepTicks
    IN  /\ s # None
        /\ ~kcp[s].alive
        /\ kcp' = [kcp EXCEPT ![s].tick = @ + 1]
        /\ sleeping' = IF dead THEN [sleeping EXCEPT ![c] = None] ELSE sleeping
        /\ UNCHANGED <<live, rx>>

-----------------------------------------------------------------------------
(* The receive thread. *)

\* Mutant, and a function of SocketServer nobody calls: the conversation too.
ContainsRemote(d) ==
    {s \in {live[c] : c \in Convs} \ {None} : kcp[s].remote = d.remote /\ kcp[s].conv = d.conv}

\* GetSessionByRemote for datagram d
GetSessionByRemote(d) ==
    {s \in {live[c] : c \in Convs} \ {None} : kcp[s].remote = d.remote}

\* ReadHandler.  The lock is held while it looks; what comes from an unknown remote
\* and is no accept pack ends in OnAccept.
Lookup(d) ==
    LET found == GetSessionByRemote(d)
    IN  /\ rx = Idle
        /\ \/ \E s \in found : rx' = [pc |-> "found", session |-> s, conv |-> d.conv]
           \/ /\ found = {}
              /\ d.conv = AcceptPack
              /\ Len(kcp) < MaxSessions
              /\ rx' = [pc |-> "unknown", session |-> None, remote |-> d.remote]
        /\ UNCHANGED tables

\* GetNewConv, shifted and truncated to the conversation's upper half
NewConv == (Len(kcp) + 1) % MaxConv

\* the constructor leaves the status uninitialised: it may read as Disconnected
Created(remote, status) ==
    [remote |-> remote, conv |-> NewConv, status |-> status, alive |-> TRUE,
     tick |-> 0, sent |-> <<>>]

\* OnAccept: the session is used even where insert finds the conversation taken
Accept ==
    /\ rx.pc = "unknown"
    /\ \E status \in Statuses : kcp' = Append(kcp, Created(rx.remote, status))
    /\ live' = [live EXCEPT ![NewConv] = IF @ = None THEN Len(kcp) + 1 ELSE @]
    /\ rx' = [pc |-> "accepted", session |-> Len(kcp) + 1]
    /\ UNCHANGED sleeping

\* KcpSession::OnConnected; the accept callback follows
OnConnected ==
    /\ rx.pc = "accepted"
    /\ kcp' = [kcp EXCEPT ![rx.session] =
                  [Send(@, "accept") EXCEPT !.alive = TRUE, !.status = "Connected"]]
    /\ rx' = Idle
    /\ UNCHANGED <<live, sleeping>>

\* KcpSession::OnReceive: an accept pack read as KCP carries the number of
\* another server, which is answered by an error; a foreign conversation is not
OnReceive ==
    LET s == rx.session
        wrongServer == rx.conv = AcceptPack
        wrongConv == rx.conv # kcp[s].conv
    IN  /\ rx.pc = "found"
        /\ rx' = Idle
        /\ \/ /\ wrongServer
              /\ CloseSessions([kcp EXCEPT ![s] = Send(@, "error")], {kcp[s].conv}, FALSE)
           \/ /\ ~wrongServer /\ wrongConv
              /\ CloseSessions(kcp, {kcp[s].conv}, FALSE)
           \/ /\ ~wrongServer /\ ~wrongConv
              /\ UNCHANGED tables

-----------------------------------------------------------------------------

SessionsTypeOK ==
    /\ kcp \in Seq(Session)
    /\ live \in [Convs -> {None} \cup Ids]
    /\ sleeping \in [Convs -> {None} \cup Ids]
    /\ rx \in {Idle}
              \cup [pc : {"unknown"}, session : {None}, remote : Remotes]
              \cup [pc : {"found"}, session : Ids, conv : Convs \cup {AcceptPack}]
              \cup [pc : {"accepted"}, session : Ids]

Connected(s) == kcp[s].status = "Connected"

\* An address has one live session, although ReadHandler looks it up under one
\* holding of _sessionLock and OnAccept inserts under another (SocketServer.cpp:150
\* and :361), with the main thread closing sessions in between.
OneSessionPerRemote ==
    \A c1, c2 \in Convs :
        c1 # c2 /\ live[c1] # None /\ live[c2] # None =>
            kcp[live[c1]].remote # kcp[live[c2]].remote

=============================================================================
