--------------------------- MODULE HandshakeProofs --------------------------
(***************************************************************************)
(* Proofs about Handshake for every number of conversations and sessions    *)
(* and every time-out, none included: a client keeps the conversation it    *)
(* took, its address has one live session however often it asked for one,   *)
(* and no session of its is dropped without a word.                        *)
(***************************************************************************)
EXTENDS Handshake, SessionsProofs

\* What a KcpClient is.
ClientRecord ==
    [status : {"Connecting", "Connected", "Disconnected"}, alive : BOOLEAN,
     conv : Convs, next : Nat \ {0}, open : BOOLEAN, tries : Nat,
     timeOut : ConnectTimeOuts, silent : 0..(SilenceTicks - 1)]

ClientTypeOK == client \in ClientRecord

\* What the client alone and the tables alone promise.
BoundInv == TablesInv /\ LiveConnected({}) /\ ClientTypeOK

\* Only the client's address has sent anything.
Ours ==
    /\ \A s \in Ids : kcp[s].remote = Client
    /\ rx.pc = "unknown" => rx.remote = Client

\* What is, or is about to be, connected is live: one address never has two such sessions,
\* so no conversation is reused while its session lives.
Home == \A s \in Ids : Connected(s) \/ Accepted(s) => live[kcp[s].conv] = s

\* Every other session has told the client.
Told == \A s \in Ids : Connected(s) \/ Accepted(s) \/ "disconnect" \in Said(kcp[s])

Served == Ours /\ Home /\ Told

IInv == BoundInv /\ Served

-----------------------------------------------------------------------------
\* The initial state satisfies the inductive invariant.
LEMMA InitInductive == Init => IInv
<1> SUFFICES ASSUME Init PROVE IInv
  OBVIOUS
<1>1. TablesInv /\ LiveConnected({})
  BY SessionsInitInductive DEF Init
<1>2. NoConv \in Convs
  BY SessionsAssumption DEF SessionsAssumption, Convs, NoConv
<1>3. ClientTypeOK
  BY <1>2 DEF Init, ClientTypeOK, ClientRecord
<1>4. Served
  BY DEF Init, SessionsInit, Served, Ours, Home, Told, Ids, Idle
<1> QED BY <1>1, <1>3, <1>4 DEF IInv, BoundInv

\* The client's main loop changes neither the tables nor the conversation.
LEMMA UpdateStep ==
    ASSUME BoundInv, DecideToRetry \/ Retry \/ Silence \/ SendData \/ Reconnect
    PROVE  BoundInv' /\ client'.conv = client.conv
<1> USE DEF BoundInv
<1>1. UNCHANGED sessionVars
  BY DEF DecideToRetry, Retry, Silence, SendData, Reconnect
<1>2. TablesInv' /\ LiveConnected({})'
  BY <1>1, TablesUnchanged
<1>3. Convs' = Convs /\ ClientRecord' = ClientRecord
  BY DEF ClientRecord
<1>4. \A c \in ClientRecord : Closed(c) \in ClientRecord /\ Closed(c).conv = c.conv
  BY DEF Closed, ClientRecord
<1>5. CASE DecideToRetry
  <2>1. client' = client \/ client' = [client EXCEPT !.tries = @ + 1]
    BY <1>5 DEF DecideToRetry, Tried
  <2> QED BY <1>2, <2>1 DEF ClientTypeOK, ClientRecord
<1>6. CASE Retry
  <2>1. \/ client' = [client EXCEPT !.status = "Disconnected", !.alive = FALSE]
        \/ client' = [client EXCEPT !.status = "Connecting"]
    BY <1>6 DEF Retry, OnConnectFailed, Connect
  <2> QED BY <1>2, <2>1 DEF ClientTypeOK, ClientRecord
<1>7. CASE Silence
  <2> DEFINE c == [client EXCEPT !.silent = @ + 1]
  <2>1. client' = IF c.silent = SilenceTicks THEN [Closed(c) EXCEPT !.silent = 0] ELSE c
    BY <1>7 DEF Silence
  <2>2. SilenceTicks \in Nat \ {0} /\ client.silent \in 0..(SilenceTicks - 1)
    BY HandshakeAssumption DEF HandshakeAssumption, ClientTypeOK, ClientRecord
  <2>3. CASE client.silent + 1 = SilenceTicks
    <3>1. client' = [Closed(c) EXCEPT !.silent = 0]
      BY <2>1, <2>3 DEF ClientTypeOK, ClientRecord
    <3>2. [c EXCEPT !.silent = 0] \in ClientRecord /\ c.conv = client.conv
      <4>1. [c EXCEPT !.silent = 0] = [client EXCEPT !.silent = 0] /\ c.conv = client.conv
        BY DEF ClientTypeOK, ClientRecord
      <4>2. [client EXCEPT !.silent = 0] \in ClientRecord
        BY <2>2 DEF ClientTypeOK, ClientRecord
      <4> QED BY <4>1, <4>2
    <3>3. client' = Closed([c EXCEPT !.silent = 0])
      BY <3>1 DEF Closed, ClientTypeOK, ClientRecord
    <3> QED BY <1>2, <1>4, <3>2, <3>3 DEF ClientTypeOK, ClientRecord
  <2>4. CASE client.silent + 1 # SilenceTicks
    <3>1. client' = c
      BY <2>1, <2>4 DEF ClientTypeOK, ClientRecord
    <3> QED BY <1>2, <2>2, <2>4, <3>1 DEF ClientTypeOK, ClientRecord
  <2> QED BY <2>3, <2>4
<1>8. CASE SendData
  <2>1. client' = client \/ client' = Closed(client)
    BY <1>8 DEF SendData, WriteDgram
  <2> QED BY <1>2, <1>3, <1>4, <2>1 DEF ClientTypeOK
<1>9. CASE Reconnect
  <2>1. client' = [client EXCEPT !.status = "Connecting"]
    BY <1>9 DEF Reconnect, Connect
  <2> QED BY <1>2, <2>1 DEF ClientTypeOK, ClientRecord
<1> QED BY <1>5, <1>6, <1>7, <1>8, <1>9

\* A message takes an acceptance only from a client without a conversation.
LEMMA ClientReceiveStep ==
    ASSUME BoundInv, NEW s \in Ids, ClientReceive(s)
    PROVE  BoundInv' /\ (client.conv # NoConv => client'.conv = client.conv)
<1> USE DEF BoundInv
<1> DEFINE m == kcp[s].sent[client.next]
<1>1. TablesInv' /\ LiveConnected({})'
  BY TablesUnchanged DEF ClientReceive
<1>2. /\ client.next <= Len(kcp[s].sent) /\ WireConv(s, m) = client.conv
      /\ client' = [Handled(client, s, m) EXCEPT !.next = @ + 1]
  BY DEF ClientReceive
<1>3. kcp[s] \in Session
  BY DEF TablesInv, SessionsTypeOK, Ids
<1>4. kcp[s].conv \in Convs /\ m \in {"accept", "error", "disconnect"}
  <2>1. kcp[s].sent \in Seq(Recorded) /\ client.next \in Nat \ {0}
    BY <1>3 DEF Session, ClientTypeOK, ClientRecord
  <2>2. m \in Recorded
    BY <1>2, <2>1
  <2> QED BY <1>3, <2>2, SessionFields, SessionsAssumption DEF SessionsAssumption
<1> HIDE DEF m
<1>5. /\ Handled(client, s, m) \in ClientRecord
      /\ client.conv # NoConv => Handled(client, s, m).conv = client.conv
  <2>1. CASE m = "accept"
    <3>1. Handled(client, s, m) = ClientConnected(client, kcp[s].conv) /\ client.conv = NoConv
      BY <1>2, <2>1 DEF Handled, WireConv
    <3> DEFINE c == kcp[s].conv
    <3>2. client \in ClientRecord /\ c \in Convs
      BY <1>4 DEF ClientTypeOK
    <3> HIDE DEF c
    <3>3. CASE c = NoConv
      <4>1. ClientConnected(client, c) = [client EXCEPT !.status = "Disconnected", !.alive = FALSE]
        BY <3>3 DEF ClientConnected
      <4>2. [client EXCEPT !.status = "Disconnected", !.alive = FALSE] \in ClientRecord
        BY <3>2 DEF ClientRecord
      <4> QED BY <3>1, <4>1, <4>2 DEF c
    <3>4. CASE c # NoConv
      <4>1. ClientConnected(client, c) = [client EXCEPT !.conv = c, !.status = "Connected", !.alive = TRUE]
        BY <3>4 DEF ClientConnected
      <4>2. [client EXCEPT !.conv = c, !.status = "Connected", !.alive = TRUE] \in ClientRecord
        BY <3>2 DEF ClientRecord
      <4> QED BY <3>1, <4>1, <4>2 DEF c
    <3> QED BY <3>3, <3>4
  <2>2. CASE m = "disconnect"
    <3>1. Handled(client, s, m) = ClientDisconnected(client)
      BY <2>2 DEF Handled
    <3> QED BY <3>1 DEF ClientDisconnected, ClientTypeOK, ClientRecord
  <2>3. CASE m = "error"
    BY <2>3 DEF Handled, ClientTypeOK
  <2> QED BY <1>4, <2>1, <2>2, <2>3
<1>6. ASSUME NEW h \in ClientRecord
      PROVE  LET g == [h EXCEPT !.next = @ + 1] IN g \in ClientRecord /\ g.conv = h.conv
  BY DEF ClientRecord
<1>7. client' \in ClientRecord /\ (client.conv # NoConv => client'.conv = client.conv)
  BY <1>2, <1>5, <1>6
<1> QED BY <1>1, <1>7 DEF ClientTypeOK, ClientRecord

\* The steps of the server and the network leave the client alone.
LEMMA ServerStepKeeps ==
    ASSUME BoundInv,
           \/ ClientHeartbeat \/ ServerReceivePack \/ ServerStep
           \/ \E s \in Ids : ServerClose(s)
           \/ \E c \in Convs : ServerReceiveData(c) \/ Sleep(c)
    PROVE  BoundInv' /\ client'.conv = client.conv
<1> USE DEF BoundInv
<1>1. CASE ClientHeartbeat
  <2>1. client' = [client EXCEPT !.silent = 0] /\ UNCHANGED sessionVars
    BY <1>1 DEF ClientHeartbeat
  <2>2. 0 \in 0..(SilenceTicks - 1)
    BY HandshakeAssumption DEF HandshakeAssumption
  <2> QED BY <2>1, <2>2, TablesUnchanged DEF ClientTypeOK, ClientRecord
<1>2. client' = client /\ TablesInv' /\ LiveConnected({})' => BoundInv'
  BY DEF ClientTypeOK, ClientRecord
<1>3. ASSUME NEW c \in Convs \cup {AcceptPack} PROVE [remote |-> Client, conv |-> c] \in Datagrams
  BY HandshakeAssumption DEF HandshakeAssumption, Datagrams
<1>4. CASE ServerReceivePack
  BY <1>2, <1>3, <1>4, LookupStep DEF ServerReceivePack, clientVars
<1>5. CASE ServerStep
  BY <1>2, <1>5, AcceptStep, ConnectedStep, OnReceiveStep DEF ServerStep, clientVars
<1>6. ASSUME NEW s \in Ids, ServerClose(s)
      PROVE  TablesInv' /\ LiveConnected({})' /\ client' = client
  <2>1. {s} \in SUBSET Ids /\ \A t \in {s} : ~Accepted(t)
    BY <1>6 DEF ServerClose, Accepted
  <2>2. Close({s}) /\ rx' = rx /\ client' = client
    BY <1>6 DEF ServerClose, clientVars
  <2> QED BY <2>1, <2>2, CloseStep
<1>7. ASSUME NEW c \in Convs, ServerReceiveData(c)
      PROVE  TablesInv' /\ LiveConnected({})' /\ client' = client
  BY <1>3, <1>7, LookupStep DEF ServerReceiveData, clientVars
<1>8. ASSUME NEW c \in Convs, Sleep(c)
      PROVE  TablesInv' /\ LiveConnected({})' /\ client' = client
  BY <1>8, SleepingStep DEF Sleep, clientVars
<1> QED BY <1>1, <1>2, <1>4, <1>5, <1>6, <1>7, <1>8

\* The receive thread looks the client up.
LEMMA LookupServed ==
    ASSUME IInv, NEW c \in Convs \cup {AcceptPack}, Lookup([remote |-> Client, conv |-> c])
    PROVE  Served'
<1>1. UNCHANGED tables /\ rx = Idle /\ rx'.pc # "accepted" /\ (rx'.pc = "unknown" => rx'.remote = Client)
  BY DEF Lookup
<1>2. \A s \in Ids : ~Accepted(s) /\ ~Accepted(s)'
  BY <1>1 DEF Accepted, Idle
<1> QED BY <1>1, <1>2 DEF IInv, Served, Ours, Home, Told, Connected, Ids, tables

\* OnAccept: nothing of the client's is live, so the new session finds its conversation free
\* and every earlier one has been told.
LEMMA AcceptServed == ASSUME IInv, Accept PROVE Served'
<1> DEFINE n == Len(kcp) + 1
<1> USE DEF IInv, BoundInv, Served
<1>1. rx.pc = "unknown" /\ rx.remote = Client
  BY DEF Accept, Ours
<1>2. /\ rx' = [pc |-> "accepted", session |-> n]
      /\ Len(kcp') = n /\ \A s \in Ids : kcp'[s] = kcp[s]
      /\ kcp'[n].remote = Client /\ kcp'[n].conv = NewConv
      /\ live[NewConv] = None => live'[NewConv] = n
  BY <1>1, AcceptStep
<1>3. /\ Len(kcp) \in Nat /\ live \in [Convs -> {None} \cup Ids]
      /\ \A s \in Ids : kcp[s].conv \in Convs
  <2>1. kcp \in Seq(Session) /\ \A s \in Ids : kcp[s] \in Session
    BY DEF TablesInv, SessionsTypeOK, Ids
  <2> QED BY <2>1, SessionFields DEF TablesInv, SessionsTypeOK
<1>4. Ids' = Ids \cup {n} /\ n \notin Ids /\ None \notin Ids
  BY <1>2, <1>3 DEF Ids, None
<1>5. \A c \in Convs : live[c] = None
  BY <1>1, <1>3 DEF TablesInv, UnknownFree, Ours
<1>6. NewConv \in Convs
  <2>1. TablesInv' /\ n \in Ids'
    BY <1>2, <1>4, AcceptStep
  <2>2. kcp' \in Seq(Session)
    BY <2>1 DEF TablesInv, SessionsTypeOK
  <2>3. kcp'[n] \in Session
    BY <1>2, <1>3, <2>2
  <2> QED BY <1>2, <2>3, SessionFields
<1>7. \A s \in Ids : ~Accepted(s) /\ ~Connected(s)
  BY <1>1, <1>3, <1>4, <1>5 DEF Home, Accepted
<1>8. \A s \in Ids : kcp'[s].status # "Connected" /\ "disconnect" \in Said(kcp'[s])
  BY <1>2, <1>7 DEF Told, Connected
<1>9. \A s \in Ids' : Accepted(s)' <=> s = n
  BY <1>2, <1>4 DEF Accepted
<1>10. Ours'
  BY <1>2, <1>4 DEF Ours
<1>11. Home'
  BY <1>2, <1>4, <1>5, <1>6, <1>8, <1>9 DEF Home, Connected
<1>12. Told'
  BY <1>4, <1>8, <1>9 DEF Told
<1> QED BY <1>10, <1>11, <1>12

\* KcpSession::OnConnected.
LEMMA ConnectedServed == ASSUME IInv, OnConnected PROVE Served'
<1> USE DEF IInv, BoundInv, Served
<1>1. \A t \in Ids : /\ Evolves(kcp[t], kcp'[t])
                     /\ kcp'[t].status = IF t = rx.session THEN "Connected" ELSE kcp[t].status
  BY ConnectedEvolves
<1>2. Ids' = Ids /\ live' = live /\ rx' = Idle /\ Accepted(rx.session)
  <2>1. Len(kcp') = Len(kcp)
    BY ConnectedStep
  <2>2. rx = [pc |-> "accepted", session |-> rx.session]
    BY DEF OnConnected, TablesInv, SessionsTypeOK, Idle
  <2> QED BY <2>1, <2>2 DEF OnConnected, Ids, Accepted
<1>3. Ours'
  BY <1>1, <1>2 DEF Ours, Evolves, Idle
<1>4. \A t \in Ids : ~Accepted(t)' /\ (Accepted(t) => t = rx.session)
  BY <1>2 DEF Accepted, Idle
<1>5. Home'
  BY <1>1, <1>2, <1>4 DEF Home, Connected, Evolves
<1>6. Told'
  BY <1>1, <1>2, <1>4 DEF Told, Connected, Evolves
<1> QED BY <1>3, <1>5, <1>6

\* A step that closes sessions: one that was connected and is not any more has been told.
LEMMA ClosingServed ==
    ASSUME IInv, Closing, Len(kcp') = Len(kcp), \A s \in Ids : Accepted(s)' <=> Accepted(s),
           \A s \in Ids : Accepted(s) => live'[kcp[s].conv] = s,
           rx' = rx \/ rx' = Idle
    PROVE  Served'
<1> USE DEF IInv, Served
<1>1. Ids' = Ids /\ "disconnect" \in Recorded
  BY HandshakeAssumption DEF Ids, HandshakeAssumption
<1>2. Ours'
  BY <1>1 DEF Ours, Closing, Evolves, Idle
<1>3. Home'
  BY <1>1 DEF Home, Connected, Closing, Evolves
<1>4. Told'
  BY <1>1 DEF Told, Connected, Closing, Evolves
<1> QED BY <1>2, <1>3, <1>4

\* World gives a session up, which the receive thread may have found but not only just
\* accepted.  It is the only one that is live, so none is about to be greeted.
LEMMA ServerCloseServed == ASSUME IInv, NEW s \in Ids, ServerClose(s) PROVE Served'
<1> USE DEF IInv, BoundInv, Served
<1>1. Connected(s) /\ ~Accepted(s) /\ Close({s}) /\ rx' = rx
  BY DEF ServerClose, Connected, Accepted
<1>2. \A t \in Ids : ~Accepted(t)
  <2>1. \A t \in Ids : kcp[t].conv \in Convs
    <3>1. \A t \in Ids : kcp[t] \in Session
      BY DEF TablesInv, SessionsTypeOK, Ids
    <3> QED BY <3>1, SessionFields
  <2>2. ASSUME NEW t \in Ids, Accepted(t) PROVE FALSE
    <3>1. t # s /\ live[kcp[t].conv] = t /\ live[kcp[s].conv] = s
      BY <1>1, <2>2 DEF Home
    <3>2. t # None /\ s # None
      BY DEF Ids, None
    <3> QED BY <2>1, <3>1, <3>2 DEF TablesInv, OneSessionPerRemote, Ours
  <2> QED BY <2>2
<1>3. {s} \in SUBSET Ids
  OBVIOUS
<1>4. Closing /\ Len(kcp') = Len(kcp)
  BY <1>1, <1>2, <1>3, CloseCloses, CloseStep
<1>5. \A t \in Ids : Accepted(t)' <=> Accepted(t)
  BY <1>1 DEF Accepted
<1> QED BY <1>1, <1>2, <1>4, <1>5, ClosingServed

\* Every step keeps the client served or told.
LEMMA ServedStep == ASSUME IInv, Next PROVE Served'
<1>1. CASE UNCHANGED sessionVars
  BY <1>1 DEF IInv, Served, Ours, Home, Told, Connected, Accepted, Ids, sessionVars, tables
<1>2. CASE ServerReceivePack
  BY <1>2, LookupServed DEF ServerReceivePack
<1>3. ASSUME NEW c \in Convs, ServerReceiveData(c) PROVE Served'
  BY <1>3, LookupServed DEF ServerReceiveData
<1>4. CASE Accept
  BY <1>4, AcceptServed
<1>5. CASE OnConnected
  BY <1>5, ConnectedServed
<1>6. CASE OnReceive
  <2>1. Closing /\ Len(kcp') = Len(kcp) /\ rx.pc = "found" /\ rx' = Idle
    BY <1>6, OnReceiveCloses, OnReceiveStep DEF IInv, BoundInv, OnReceive
  <2>2. \A s \in Ids : ~Accepted(s)' /\ ~Accepted(s)
    BY <2>1 DEF Accepted, Idle
  <2> QED BY <2>1, <2>2, ClosingServed
<1>7. ASSUME NEW s \in Ids, ServerClose(s) PROVE Served'
  BY <1>7, ServerCloseServed
<1>8. ASSUME NEW c \in Convs, Sleep(c) PROVE Served'
  <2>1. Closing /\ Len(kcp') = Len(kcp) /\ live' = live /\ rx' = rx
    BY <1>8, SleepingCloses, SleepingStep DEF IInv, BoundInv, Sleep
  <2>2. \A s \in Ids : Accepted(s)' <=> Accepted(s)
    BY <2>1 DEF Accepted
  <2>3. \A s \in Ids : Accepted(s) => live'[kcp[s].conv] = s
    BY <2>1 DEF IInv, Served, Home
  <2> QED BY <2>1, <2>2, <2>3, ClosingServed
<1>9. DecideToRetry \/ Retry \/ Silence \/ SendData \/ Reconnect \/ ClientHeartbeat => UNCHANGED sessionVars
  BY DEF DecideToRetry, Retry, Silence, SendData, Reconnect, ClientHeartbeat
<1>10. ASSUME NEW s \in Ids, ClientReceive(s) PROVE UNCHANGED sessionVars
  BY <1>10 DEF ClientReceive
<1> QED BY <1>1, <1>2, <1>3, <1>4, <1>5, <1>6, <1>7, <1>8, <1>9, <1>10 DEF Next, ServerStep

\* Every step keeps the inductive invariant, and a conversation that was taken.
LEMMA NextInductive ==
    IInv /\ [Next]_vars => IInv' /\ (client.conv # NoConv => client'.conv = client.conv)
<1> SUFFICES ASSUME IInv, [Next]_vars
             PROVE  IInv' /\ (client.conv # NoConv => client'.conv = client.conv)
  OBVIOUS
<1>1. BoundInv' /\ (client.conv # NoConv => client'.conv = client.conv)
  <2> USE DEF IInv
  <2>1. CASE DecideToRetry \/ Retry \/ Silence \/ SendData \/ Reconnect
    BY <2>1, UpdateStep
  <2>2. ASSUME NEW s \in Ids, ClientReceive(s)
        PROVE  BoundInv' /\ (client.conv # NoConv => client'.conv = client.conv)
    BY <2>2, ClientReceiveStep
  <2>3. CASE \/ ClientHeartbeat \/ ServerReceivePack \/ ServerStep
             \/ \E s \in Ids : ServerClose(s)
             \/ \E c \in Convs : ServerReceiveData(c) \/ Sleep(c)
    BY <2>3, ServerStepKeeps
  <2>4. CASE UNCHANGED vars
    BY <2>4, TablesUnchanged DEF vars, clientVars, BoundInv, ClientTypeOK, ClientRecord
  <2> QED BY <2>1, <2>2, <2>3, <2>4 DEF Next
<1>2. Served'
  <2>1. CASE UNCHANGED vars
    BY <2>1 DEF vars, IInv, Served, Ours, Home, Told, Connected, Accepted, Ids, sessionVars, tables
  <2> QED BY <2>1, ServedStep
<1> QED BY <1>1, <1>2 DEF IInv

-----------------------------------------------------------------------------
\* Initially there are no sessions.
LEMMA InitUntold == Init => Untold
  BY DEF Init, SessionsInit, Untold, EndToldOnce, Ids

\* A step that closes sessions tells none of them twice.
LEMMA ClosingToldOnce ==
    ASSUME IInv, IInv', Untold, Closing, Len(kcp') = Len(kcp),
           \A s \in Ids : Accepted(s)' => Accepted(s)
    PROVE  Untold'
<1>1. Ids' = Ids
  BY DEF Ids
<1>2. ASSUME NEW s \in Ids, Accepted(s)'
      PROVE  Accepted(s) /\ live[kcp[s].conv] = s /\ live'[kcp[s].conv] = s
  <2>1. Accepted(s) /\ live[kcp[s].conv] = s
    BY <1>2 DEF IInv, Served, Home
  <2>2. live'[kcp'[s].conv] = s
    BY <1>1, <1>2 DEF IInv, Served, Home
  <2>3. kcp'[s].conv = kcp[s].conv
    BY DEF Closing, Evolves
  <2> QED BY <2>1, <2>2, <2>3
<1> QED BY <1>2, ClosingUntold

\* Every step tells a session's end once.
LEMMA UntoldStep == ASSUME IInv, IInv', Untold, [Next]_vars PROVE Untold'
<1> USE DEF IInv, BoundInv
<1>1. CASE UNCHANGED sessionVars
  BY <1>1 DEF Untold, EndToldOnce, Accepted, Ids, sessionVars, tables
<1>2. ASSUME NEW c, Lookup([remote |-> Client, conv |-> c]) PROVE Untold'
  <2>1. UNCHANGED tables /\ rx'.pc # "accepted"
    BY <1>2 DEF Lookup
  <2>2. \A s : ~Accepted(s)'
    BY <2>1 DEF Accepted
  <2> QED BY <2>1, <2>2 DEF Untold, EndToldOnce, Ids, tables
<1>3. CASE ServerReceivePack
  BY <1>2, <1>3 DEF ServerReceivePack
<1>4. ASSUME NEW c \in Convs, ServerReceiveData(c) PROVE Untold'
  BY <1>2, <1>4 DEF ServerReceiveData
<1>5. CASE Accept
  BY <1>5, AcceptUntold
<1>6. CASE OnConnected
  BY <1>6, ConnectedUntold
<1>7. CASE OnReceive
  <2>1. Closing /\ Len(kcp') = Len(kcp) /\ rx' = Idle
    BY <1>7, OnReceiveCloses, OnReceiveStep DEF OnReceive
  <2>2. \A s \in Ids : ~Accepted(s)'
    BY <2>1 DEF Accepted, Idle
  <2> QED BY <2>1, <2>2, ClosingToldOnce
<1>8. ASSUME NEW s \in Ids, ServerClose(s) PROVE Untold'
  <2>1. Close({s}) /\ rx' = rx /\ {s} \in SUBSET Ids
    BY <1>8 DEF ServerClose
  <2>2. \A t \in {s} : ~Accepted(t)
    BY <1>8 DEF ServerClose, Accepted
  <2>3. Closing /\ Len(kcp') = Len(kcp)
    BY <2>1, <2>2, CloseCloses, CloseStep
  <2>4. \A t \in Ids : Accepted(t)' => Accepted(t)
    BY <2>1 DEF Accepted
  <2> QED BY <2>3, <2>4, ClosingToldOnce
<1>9. ASSUME NEW c \in Convs, Sleep(c) PROVE Untold'
  <2>1. Closing /\ Len(kcp') = Len(kcp) /\ rx' = rx
    BY <1>9, SleepingCloses, SleepingStep DEF Sleep
  <2>2. \A s \in Ids : Accepted(s)' => Accepted(s)
    BY <2>1 DEF Accepted
  <2> QED BY <2>1, <2>2, ClosingToldOnce
<1>10. DecideToRetry \/ Retry \/ Silence \/ SendData \/ Reconnect \/ ClientHeartbeat => UNCHANGED sessionVars
  BY DEF DecideToRetry, Retry, Silence, SendData, Reconnect, ClientHeartbeat
<1>11. ASSUME NEW s \in Ids, ClientReceive(s) PROVE UNCHANGED sessionVars
  BY <1>11 DEF ClientReceive
<1>12. UNCHANGED vars => UNCHANGED sessionVars
  BY DEF vars
<1> QED BY <1>1, <1>3, <1>4, <1>5, <1>6, <1>7, <1>8, <1>9, <1>10, <1>11, <1>12 DEF Next, ServerStep

-----------------------------------------------------------------------------
\* However many accept packs a client repeats and however late they are answered, its
\* address has one live session.
THEOREM RemoteCorrect == FairSpec => []OneSessionPerRemote
<1>1. IInv => OneSessionPerRemote
  BY DEF IInv, BoundInv, TablesInv
<1> QED BY <1>1, InitInductive, NextInductive, PTL DEF FairSpec

\* A client that took a conversation is never moved to another one by a late or a second
\* acceptance, for any number of retries and sessions.
THEOREM BoundOnceCorrect == FairSpec => BoundOnce
<1>1. IInv /\ [Next]_vars => [client.conv # NoConv => client'.conv = client.conv]_vars
  BY NextInductive
<1> QED BY <1>1, InitInductive, NextInductive, PTL DEF FairSpec, BoundOnce

\* A client that believes in its conversation is served by the session it means, or the
\* DISCONNECT was sent: no interleaving of the receive thread with World's closing and the
\* keep-alive drops a session in silence, for any number of conversations and sessions.
THEOREM NoSilentDropCorrect == FairSpec => []NoSilentDrop
<1>1. IInv => NoSilentDrop
  BY DEF IInv, Served, Home, Told, Said, NoSilentDrop
<1> QED BY <1>1, InitInductive, NextInductive, PTL DEF FairSpec

\* However often a client asks again, and whether World, an accept pack read as data or a
\* foreign conversation ends its session -- World even while the receive thread uses the
\* session it has found -- the session sends its DISCONNECT once, and never while it is still
\* connected: OnDisconnected tests and sets the status under _sessionLock (KcpSession.cpp:262-270).
\* That is the program as it is: nothing in it calls KcpSession::Disconnect, which sends whatever
\* the status is (World models such a call).
THEOREM EndToldOnceCorrect == FairSpec => []EndToldOnce
<1>1. IInv /\ Untold /\ [Next]_vars => IInv' /\ Untold'
  BY NextInductive, UntoldStep
<1>2. Untold => EndToldOnce
  BY DEF Untold
<1> QED BY <1>1, <1>2, InitInductive, InitUntold, PTL DEF FairSpec

=============================================================================
