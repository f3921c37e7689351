----------------------------- MODULE WorldProofs ----------------------------
(***************************************************************************)
(* Proofs about World for every number of remotes, conversations, sessions  *)
(* and players: an address has one live session, every live session has a   *)
(* WorldSession that will close it, and the login queue admits exactly.     *)
(***************************************************************************)
EXTENDS World, SessionsProofs, FiniteSetTheorems

\* The WorldSessions that are about to be or are in m_mSessions: those in the login
\* queue are among the latter as long as they live.
WorldTypeOK ==
    /\ joining \in Seq(Ids)
    /\ players \in [Convs -> {None} \cup Ids]

Held == \A c \in Convs : live[c] # None => live[c] \in InSeq(joining) \cup Players \/ Accepted(live[c])

\* A session gets its WorldSession once, when it is greeted.
GreetedOnce == \A s \in InSeq(joining) \cup Players : ~Accepted(s)

\* The session that KcpSession::Disconnect has marked and not yet closed.
Ending == IF ending.pc = "marked" THEN {ending.session} ELSE {}

\* KcpSession::Disconnect is called of a session that World holds.
EndingHeld ==
    \/ ending = Idle
    \/ ending \in [pc : {"told", "marked"}, session : Ids] /\ ending.session \in Players

IInv ==
    /\ TablesInv /\ LiveConnected(Ending)
    /\ WorldTypeOK /\ Held /\ GreetedOnce /\ EndingHeld

-----------------------------------------------------------------------------
\* The initial state satisfies the inductive invariant.
LEMMA InitInductive == Init => IInv
<1> SUFFICES ASSUME Init PROVE IInv
  OBVIOUS
<1>1. TablesInv /\ LiveConnected({})
  BY SessionsInitInductive DEF Init
<1>2. WorldTypeOK /\ Held /\ GreetedOnce
  BY DEF Init, SessionsInit, WorldTypeOK, Held, GreetedOnce, InSeq, Players, Accepted, Idle, Ids
<1>3. Ending = {} /\ EndingHeld
  BY DEF Init, Ending, EndingHeld, Idle
<1> QED BY <1>1, <1>2, <1>3 DEF IInv

-----------------------------------------------------------------------------
(* The steps of World. *)

\* What is in a sequence after an element was added, and after the first was taken.
LEMMA InSeqProperties ==
    ASSUME NEW S, NEW q \in Seq(S)
    PROVE  /\ \A e \in S : Append(q, e) \in Seq(S) /\ InSeq(Append(q, e)) = InSeq(q) \cup {e}
           /\ q # <<>> => /\ Head(q) \in S /\ Tail(q) \in Seq(S)
                          /\ InSeq(q) = {Head(q)} \cup InSeq(Tail(q))
<1>1. ASSUME NEW e \in S
      PROVE  Append(q, e) \in Seq(S) /\ InSeq(Append(q, e)) = InSeq(q) \cup {e}
  BY DEF InSeq
<1>2. ASSUME q # <<>>
      PROVE  /\ Head(q) \in S /\ Tail(q) \in Seq(S)
             /\ InSeq(q) = {Head(q)} \cup InSeq(Tail(q))
  <2>1. /\ Head(q) \in S /\ Tail(q) \in Seq(S) /\ Len(q) \in Nat \ {0} /\ Len(Tail(q)) = Len(q) - 1
        /\ Head(q) = q[1] /\ \A i \in 1..Len(Tail(q)) : Tail(q)[i] = q[i + 1]
    BY <1>2
  <2>2. ASSUME NEW i \in 1..Len(q), i # 1 PROVE i - 1 \in 1..Len(Tail(q)) /\ Tail(q)[i - 1] = q[i]
    BY <2>1, <2>2
  <2>3. InSeq(q) \subseteq {Head(q)} \cup InSeq(Tail(q))
    BY <2>1, <2>2 DEF InSeq
  <2>4. {Head(q)} \cup InSeq(Tail(q)) \subseteq InSeq(q)
    BY <2>1 DEF InSeq
  <2> QED BY <2>1, <2>3, <2>4
<1> QED BY <1>1, <1>2

\* More sessions do not disturb the types of World's variables.
LEMMA WorldTypeStep ==
    ASSUME WorldTypeOK, Ids \subseteq Ids', joining' = joining, players' = players
    PROVE  WorldTypeOK'
<1>1. joining \in Seq(Ids')
  BY DEF WorldTypeOK
<1>2. players \in [Convs -> {None} \cup Ids']
  BY DEF WorldTypeOK
<1> QED BY <1>1, <1>2 DEF WorldTypeOK

\* What joins and plays is numbered.
LEMMA HeldNumbered ==
    ASSUME WorldTypeOK
    PROVE  InSeq(joining) \subseteq Ids /\ Players \subseteq Ids
  BY DEF WorldTypeOK, InSeq, Players

\* While the main thread does nothing else, all that is live counts as connected.
LEMMA MainIdleConnected == ASSUME IInv, ending = Idle PROVE LiveConnected({})
<1>1. Ending = {}
  BY DEF Ending, Idle
<1> QED BY <1>1 DEF IInv

\* The same after a step of the main thread that it has finished.
LEMMA MainIdleEnds ==
    ASSUME ending' = Idle, LiveConnected({})' PROVE LiveConnected(Ending)' /\ EndingHeld'
<1>1. Ending' = {}
  BY DEF Ending, Idle
<1> QED BY <1>1 DEF LiveConnected, EndingHeld

\* The steps of the receive thread leave KcpSession::Disconnect where it is.
LEMMA EndingKept ==
    ASSUME IInv, \A E : LiveConnected(E) => LiveConnected(E)', Ids \subseteq Ids',
           UNCHANGED <<players, ending>>
    PROVE  LiveConnected(Ending)' /\ EndingHeld'
<1>1. LiveConnected(Ending)'
  <2>1. PICK E : E = Ending
    OBVIOUS
  <2>2. LiveConnected(E)
    BY <2>1 DEF IInv, LiveConnected
  <2>3. LiveConnected(E)' /\ Ending' = E
    BY <2>1, <2>2 DEF Ending
  <2> QED BY <2>3 DEF LiveConnected
<1>2. EndingHeld'
  <2>1. Players' = Players
    BY DEF Players
  <2> QED BY <2>1 DEF IInv, EndingHeld
<1> QED BY <1>1, <1>2

\* The receive thread, until it greets.
LEMMA ReceiveStep == ASSUME IInv, Receive PROVE IInv'
<1> USE DEF IInv
<1>0. joining' = joining /\ players' = players /\ Players' = Players /\ ending' = ending
  BY DEF Receive, worldVars, mainVars, Players
<1>h. InSeq(joining)' = InSeq(joining) /\ \A s \in InSeq(joining) \cup Players : s \in Ids
  BY <1>0, HeldNumbered DEF InSeq
<1>1. ASSUME NEW d \in Datagrams, Lookup(d) PROVE IInv'
  <2>1. TablesInv' /\ \A E : LiveConnected(E) => LiveConnected(E)'
    BY <1>1, LookupStep
  <2>2. Ids' = Ids /\ live' = live /\ \A s \in Ids : ~Accepted(s)
    BY <1>1 DEF Lookup, tables, Ids, Idle, Accepted
  <2>3. \A c \in Convs : live[c] # None => live[c] \in Ids
    BY DEF TablesInv, SessionsTypeOK
  <2>4. Held'
    BY <1>0, <2>2, <2>3 DEF Held, InSeq
  <2>5. GreetedOnce'
    BY <1>0, <1>1, <1>h DEF GreetedOnce, Accepted, Lookup
  <2> QED BY <1>0, <2>1, <2>2, <2>4, <2>5, WorldTypeStep, EndingKept
<1>2. CASE Accept
  <2>1. /\ TablesInv' /\ rx' = [pc |-> "accepted", session |-> Len(kcp) + 1]
        /\ Ids \subseteq Ids' /\ \A E : LiveConnected(E) => LiveConnected(E)'
        /\ \A c \in Convs : live'[c] # None => live'[c] = live[c] \/ live'[c] = Len(kcp) + 1
    BY <1>2, AcceptStep
  <2>2. \A s \in Ids : ~Accepted(s)
    BY <1>2 DEF Accept, Accepted
  <2>3. \A c \in Convs : live[c] # None => live[c] \in Ids
    BY DEF TablesInv, SessionsTypeOK
  <2>4. Held'
    BY <1>0, <2>1, <2>2, <2>3 DEF Held, InSeq, Accepted
  <2>5. GreetedOnce'
    BY <1>0, <1>h, <2>1 DEF GreetedOnce, Accepted, Ids, TablesInv, SessionsTypeOK
  <2> QED BY <1>0, <2>1, <2>4, <2>5, WorldTypeStep, EndingKept
<1>3. CASE OnReceive
  <2>1. /\ TablesInv' /\ Len(kcp') = Len(kcp) /\ rx.pc = "found"
        /\ \A E : LiveConnected(E) => LiveConnected(E)'
        /\ \A c \in Convs : live'[c] # None => live'[c] = live[c]
    BY <1>3, OnReceiveStep
  <2>2. \A s \in Ids : ~Accepted(s)
    BY <2>1 DEF Accepted
  <2>3. \A c \in Convs : live[c] # None => live[c] \in Ids
    BY DEF TablesInv, SessionsTypeOK
  <2>4. Held'
    BY <1>0, <2>1, <2>2, <2>3 DEF Held, InSeq
  <2>5. Ids' = Ids
    BY <2>1 DEF Ids
  <2>6. GreetedOnce'
    BY <1>0, <1>3, <1>h DEF GreetedOnce, Accepted, OnReceive, Idle
  <2> QED BY <1>0, <2>1, <2>4, <2>5, <2>6, WorldTypeStep, EndingKept
<1> QED BY <1>1, <1>2, <1>3 DEF Receive

\* The accept callback: the session gets its WorldSession.
LEMMA GreetStep == ASSUME IInv, Greet PROVE IInv'
<1> USE DEF IInv
<1> DEFINE s == rx.session
<1>1. TablesInv' /\ Ids' = Ids /\ s \in Ids /\ \A E : LiveConnected(E) => LiveConnected(E)'
  BY ConnectedStep DEF Greet, Ids
<1>2. joining' = Append(joining, s) /\ players' = players /\ live' = live /\ ending' = ending
  BY DEF Greet, OnConnected, mainVars
<1>3. joining' \in Seq(Ids) /\ InSeq(joining') = InSeq(joining) \cup {s}
  BY <1>1, <1>2, InSeqProperties DEF WorldTypeOK
<1>4. WorldTypeOK'
  BY <1>1, <1>2, <1>3 DEF WorldTypeOK
<1>5. \A t \in Ids : Accepted(t) => t = s
  BY DEF Accepted
<1>6. \A c \in Convs : live[c] # None => live[c] \in Ids
  BY DEF TablesInv, SessionsTypeOK
<1>7. Players' = Players /\ InSeq(joining)' = InSeq(joining')
  BY <1>2 DEF Players, InSeq
<1>8. Held'
  BY <1>2, <1>3, <1>5, <1>6, <1>7 DEF Held
<1>9. GreetedOnce'
  BY DEF GreetedOnce, Accepted, Greet, OnConnected, Idle
<1>10. LiveConnected(Ending)' /\ EndingHeld'
  BY <1>1, <1>2, EndingKept
<1> QED BY <1>1, <1>4, <1>8, <1>9, <1>10

\* AddSession_: the head of addSessQueue replaces the session of its conversation, which
\* is closed.
LEMMA AddSessionStep == ASSUME IInv, AddSession PROVE IInv'
<1> USE DEF IInv
<1> DEFINE s == Head(joining)
           d == kcp[s].conv
           S == {players[d]} \ {None}
<1>1. /\ joining # <<>> /\ joining' = Tail(joining) /\ rx' = rx
      /\ players' = [players EXCEPT ![d] = s] /\ Close(S)
      /\ ending = Idle /\ ending' = Idle
  BY DEF AddSession, MainIdle, mainVars
<1>2. /\ s \in Ids /\ joining' \in Seq(Ids) /\ InSeq(joining) = {s} \cup InSeq(joining')
  BY <1>1, InSeqProperties DEF WorldTypeOK
<1>3. d \in Convs
  <2>1. kcp[s] \in Session
    BY <1>2 DEF TablesInv, SessionsTypeOK, Ids
  <2> QED BY <2>1, SessionFields
<1>4. S \in SUBSET Ids
  BY <1>3 DEF WorldTypeOK
<1> HIDE DEF s, d
<1>5. /\ TablesInv' /\ LiveConnected({})' /\ Len(kcp') = Len(kcp)
      /\ \A c \in Convs : live'[c] # None =>
             live'[c] = live[c] /\ live[c] \notin S
  <2>1. \A t \in S : t \in Players
    BY <1>3 DEF Players
  <2> QED BY <1>1, <1>4, <2>1, MainIdleConnected, CloseStep DEF GreetedOnce
<1>6. Ids' = Ids
  BY <1>5 DEF Ids
<1>7. WorldTypeOK'
  BY <1>1, <1>2, <1>6 DEF WorldTypeOK
<1>8. Players \subseteq Players' \cup S /\ s \in Players'
  <2>1. \A c \in Convs : players'[c] = IF c = d THEN s ELSE players[c]
    BY <1>1 DEF WorldTypeOK
  <2>2. s # None
    BY <1>2 DEF Ids, None
  <2>3. s \in Players'
    BY <1>3, <2>1, <2>2 DEF Players
  <2>4. ASSUME NEW c \in Convs, players[c] # None PROVE players[c] \in Players' \cup S
    BY <2>1, <2>4 DEF Players
  <2> QED BY <2>3, <2>4 DEF Players
<1>9. Held'
  <2>1. ASSUME NEW c \in Convs, live'[c] # None
        PROVE  \/ live'[c] \in InSeq(joining') \cup Players'
               \/ rx' = [pc |-> "accepted", session |-> live'[c]]
    <3>1. live[c] \in InSeq(joining) \cup Players \/ Accepted(live[c])
      BY <1>5, <2>1 DEF Held
    <3> QED BY <1>1, <1>2, <1>5, <1>8, <2>1, <3>1 DEF Accepted
  <2> QED BY <2>1 DEF Held, Accepted, InSeq
<1>10. GreetedOnce'
  <2>1. Players' \subseteq Players \cup {s}
    BY <1>1, <1>3 DEF WorldTypeOK, Players
  <2>2. InSeq(joining)' = InSeq(joining')
    BY DEF InSeq
  <2>3. \A t \in InSeq(joining') \cup Players' : t \in InSeq(joining) \cup Players
    BY <1>2, <2>1
  <2> QED BY <1>1, <2>2, <2>3 DEF GreetedOnce, Accepted
<1> QED BY <1>1, <1>5, <1>7, <1>9, <1>10, MainIdleEnds

\* UpdateSessions: the session that is removed is closed.
LEMMA RemoveStep == ASSUME IInv, NEW d \in Convs, players[d] # None, Remove(d) PROVE IInv'
<1> USE DEF IInv
<1> DEFINE S == {players[d]}
<1>1. /\ joining' = joining /\ rx' = rx /\ players' = [players EXCEPT ![d] = None] /\ Close(S)
      /\ ending = Idle /\ ending' = Idle
  BY DEF Remove, MainIdle, mainVars
<1>2. S \in SUBSET Ids
  BY DEF WorldTypeOK
<1>3. /\ TablesInv' /\ LiveConnected({})' /\ Len(kcp') = Len(kcp)
      /\ \A c \in Convs : live'[c] # None =>
             live'[c] = live[c] /\ live[c] \notin S
  <2>1. \A t \in S : t \in Players
    BY DEF Players
  <2> QED BY <1>1, <1>2, <2>1, MainIdleConnected, CloseStep DEF GreetedOnce
<1>4. Ids' = Ids
  BY <1>3 DEF Ids
<1>5. WorldTypeOK'
  BY <1>1, <1>4 DEF WorldTypeOK
<1>6. Players \subseteq Players' \cup S
  BY <1>1 DEF WorldTypeOK, Players
<1>7. Held'
  <2>1. ASSUME NEW c \in Convs, live'[c] # None
        PROVE  \/ live'[c] \in InSeq(joining') \cup Players'
               \/ rx' = [pc |-> "accepted", session |-> live'[c]]
    <3>1. live[c] \in InSeq(joining) \cup Players \/ Accepted(live[c])
      BY <1>3, <2>1 DEF Held
    <3> QED BY <1>1, <1>3, <1>6, <2>1, <3>1 DEF Accepted
  <2> QED BY <2>1 DEF Held, Accepted, InSeq
<1>8. GreetedOnce'
  <2>1. Players' \subseteq Players
    BY <1>1 DEF WorldTypeOK, Players
  <2> QED BY <1>1, <2>1 DEF GreetedOnce, Accepted, InSeq
<1> QED BY <1>1, <1>3, <1>5, <1>7, <1>8, MainIdleEnds

\* OnServerShutDown: all players' sessions are closed.
LEMMA ShutDownStep == ASSUME IInv, OnServerShutDown PROVE IInv'
<1> USE DEF IInv
<1>1. /\ joining' = joining /\ rx' = rx /\ players' = [c \in Convs |-> None] /\ Close(Players)
      /\ ending = Idle /\ ending' = Idle
  BY DEF OnServerShutDown, MainIdle
<1>2. Players \in SUBSET Ids
  BY DEF WorldTypeOK, Players
<1>3. /\ TablesInv' /\ LiveConnected({})' /\ Len(kcp') = Len(kcp)
      /\ \A c \in Convs : live'[c] # None =>
             live'[c] = live[c] /\ live[c] \notin Players
  BY <1>1, <1>2, MainIdleConnected, CloseStep DEF GreetedOnce
<1>4. Ids' = Ids
  BY <1>3 DEF Ids
<1>5. WorldTypeOK'
  BY <1>1, <1>4 DEF WorldTypeOK
<1>6. Held'
  <2>1. ASSUME NEW c \in Convs, live'[c] # None
        PROVE  \/ live'[c] \in InSeq(joining') \cup Players'
               \/ rx' = [pc |-> "accepted", session |-> live'[c]]
    <3>1. live[c] \in InSeq(joining) \cup Players \/ Accepted(live[c])
      BY <1>3, <2>1 DEF Held
    <3> QED BY <1>1, <1>3, <2>1, <3>1 DEF Accepted
  <2> QED BY <2>1 DEF Held, Accepted, InSeq
<1>7. GreetedOnce'
  <2>1. Players' = {}
    BY <1>1 DEF Players
  <2> QED BY <1>1, <2>1 DEF GreetedOnce, Accepted, InSeq
<1> QED BY <1>1, <1>3, <1>5, <1>6, <1>7, MainIdleEnds

\* What a step takes from the tables at most, and does not add to them, World holds as before.
LEMMA WorldKept ==
    ASSUME IInv, UNCHANGED <<joining, players, rx>>, Len(kcp') = Len(kcp),
           \A c \in Convs : live'[c] # None => live'[c] = live[c]
    PROVE  WorldTypeOK' /\ Held' /\ GreetedOnce'
<1> USE DEF IInv
<1>1. WorldTypeOK'
  BY WorldTypeStep DEF Ids
<1>2. Held'
  BY DEF Held, Players, InSeq, Accepted
<1>3. GreetedOnce'
  BY DEF GreetedOnce, Players, InSeq, Accepted
<1> QED BY <1>1, <1>2, <1>3

\* The keep-alive of a sleeping session.
LEMMA SleepStep == ASSUME IInv, NEW d \in Convs, Sleep(d) PROVE IInv'
<1>1. joining' = joining /\ players' = players /\ ending' = ending
  BY DEF Sleep, worldVars, mainVars
<1>2. /\ TablesInv' /\ Len(kcp') = Len(kcp) /\ live' = live /\ rx' = rx
      /\ \A E : LiveConnected(E) => LiveConnected(E)'
  BY SleepingStep DEF Sleep, IInv
<1>3. Ids' = Ids
  BY <1>2 DEF Ids
<1>4. LiveConnected(Ending)' /\ EndingHeld'
  BY <1>1, <1>2, <1>3, EndingKept
<1>5. WorldTypeOK' /\ Held' /\ GreetedOnce'
  BY <1>1, <1>2, WorldKept
<1> QED BY <1>2, <1>4, <1>5 DEF IInv

\* A step of KcpSession::Disconnect moves no conversation.
ConvsKept == Len(kcp') = Len(kcp) /\ \A s \in Ids : kcp'[s].conv = kcp[s].conv

\* KcpSession::Disconnect sends: whoever counted as connected still does.
LEMMA TellsStep ==
    ASSUME IInv, NEW d \in Convs, DisconnectTells(d)
    PROVE  IInv' /\ ConvsKept
<1> USE DEF IInv
<1> DEFINE s == players[d]
           k == Send(kcp[s], "disconnect")
<1>1. /\ kcp' = [kcp EXCEPT ![s] = k] /\ s # None /\ ending = Idle
      /\ ending' = [pc |-> "told", session |-> s]
      /\ UNCHANGED <<live, sleeping, rx, joining, players>>
  BY DEF DisconnectTells, MainIdle, worldVars
<1>2. s \in Ids /\ s \in Players /\ kcp \in Seq(Session)
  BY <1>1 DEF WorldTypeOK, Players, TablesInv, SessionsTypeOK
<1>3. /\ k \in Session /\ k.remote = kcp[s].remote /\ k.conv = kcp[s].conv
      /\ k.tick = kcp[s].tick /\ k.status = kcp[s].status
  <2>1. kcp[s] \in Session
    BY <1>2 DEF Ids
  <2> QED BY <2>1, SendSame
<1> HIDE DEF k, s
<1>4. /\ kcp' \in Seq(Session) /\ Len(kcp') = Len(kcp) /\ Ids' = Ids
      /\ \A t \in Ids : kcp'[t] = IF t = s THEN k ELSE kcp[t]
  BY <1>1, <1>2, <1>3 DEF Ids
<1>5. TablesInv'
  BY <1>1, <1>3, <1>4, SessionsChange
<1>6. ConvsKept
  BY <1>3, <1>4 DEF ConvsKept
<1>7. WorldTypeOK' /\ Held' /\ GreetedOnce'
  BY <1>1, <1>4, WorldKept
<1>8. LiveConnected(Ending)'
  <2>1. LiveConnected({})
    BY <1>1, MainIdleConnected
  <2>2. \A c \in Convs : live[c] # None => live[c] \in Ids
    BY DEF TablesInv, SessionsTypeOK
  <2> QED BY <1>1, <1>3, <1>4, <2>1, <2>2 DEF LiveConnected, Connected, Accepted
<1>9. EndingHeld'
  BY <1>1, <1>2, <1>4 DEF EndingHeld, Players
<1> QED BY <1>5, <1>6, <1>7, <1>8, <1>9

\* KcpSession::Disconnect sets the status: its session is the one that may be live and not
\* count as connected.
LEMMA MarksStep ==
    ASSUME IInv, DisconnectMarks
    PROVE  IInv' /\ ConvsKept
<1> USE DEF IInv
<1> DEFINE s == ending.session
           k == [kcp[s] EXCEPT !.status = "Disconnected"]
<1>1. /\ kcp' = [kcp EXCEPT ![s] = k] /\ ending.pc = "told"
      /\ ending' = [ending EXCEPT !.pc = "marked"]
      /\ UNCHANGED <<live, sleeping, rx, joining, players>>
  BY DEF DisconnectMarks, worldVars
<1>2. /\ s \in Ids /\ s \in Players /\ kcp \in Seq(Session)
      /\ ending \in [pc : {"told", "marked"}, session : Ids]
  BY <1>1 DEF EndingHeld, Idle, TablesInv, SessionsTypeOK
<1>3. /\ k \in Session /\ k.remote = kcp[s].remote /\ k.conv = kcp[s].conv
      /\ k.tick = kcp[s].tick /\ k.status = "Disconnected"
  <2>1. kcp[s] \in Session
    BY <1>2 DEF Ids
  <2> QED BY <2>1 DEF Session, Statuses
<1>4. ending' = [pc |-> "marked", session |-> s]
  BY <1>1, <1>2
<1>5. LiveConnected({})
  BY <1>1 DEF Ending
<1> HIDE DEF k, s
<1>6. /\ kcp' \in Seq(Session) /\ Len(kcp') = Len(kcp) /\ Ids' = Ids
      /\ \A t \in Ids : kcp'[t] = IF t = s THEN k ELSE kcp[t]
  BY <1>1, <1>2, <1>3 DEF Ids
<1>7. TablesInv'
  BY <1>1, <1>3, <1>6, SessionsChange
<1>8. ConvsKept
  BY <1>3, <1>6 DEF ConvsKept
<1>9. WorldTypeOK' /\ Held' /\ GreetedOnce'
  BY <1>1, <1>6, WorldKept
<1>10. LiveConnected(Ending)'
  <2>1. Ending' = {s}
    BY <1>4 DEF Ending
  <2>2. \A c \in Convs : live[c] # None => live[c] \in Ids
    BY DEF TablesInv, SessionsTypeOK
  <2> QED BY <1>1, <1>5, <1>6, <2>1, <2>2 DEF LiveConnected, Connected, Accepted
<1>11. EndingHeld'
  BY <1>1, <1>2, <1>4, <1>6 DEF EndingHeld, Players
<1> QED BY <1>7, <1>8, <1>9, <1>10, <1>11

\* KcpSession::Disconnect closes: its session leaves the table, or whichever has the
\* conversation by then.
LEMMA ClosesStep ==
    ASSUME IInv, DisconnectCloses
    PROVE  IInv' /\ ConvsKept
<1> USE DEF IInv
<1> DEFINE s == ending.session
           C == {kcp[s].conv}
<1>1. /\ CloseSessions(kcp, C, TRUE) /\ ending.pc = "marked" /\ ending' = Idle
      /\ UNCHANGED <<rx, joining, players>>
  BY DEF DisconnectCloses, worldVars
<1>2. s \in Ids /\ s \in Players /\ kcp \in Seq(Session)
  BY <1>1 DEF EndingHeld, Idle, TablesInv, SessionsTypeOK
<1>3. C \in SUBSET Convs
  <2>1. kcp[s] \in Session
    BY <1>2 DEF Ids
  <2> QED BY <2>1, SessionFields
<1>4. Prepared(kcp, C)
  BY <1>2 DEF Prepared
<1>5. \A c \in C : live[c] # None /\ Accepted(live[c]) => Reuses(live[c])
  <2>1. ~Accepted(s)
    BY <1>2 DEF GreetedOnce
  <2>2. ASSUME NEW c \in C, live[c] # None, Accepted(live[c])
        PROVE  live[c] \in Ids /\ live[c] = Len(kcp) /\ kcp[live[c]].conv = kcp[s].conv /\ s # live[c]
    BY <1>3, <2>1, <2>2 DEF TablesInv, SessionsTypeOK, AcceptedNewest, AtHome
  <2>3. ASSUME NEW c \in C, live[c] # None, Accepted(live[c])
        PROVE  s \in 1..(live[c] - 1)
    <3>1. live[c] \in 1..Len(kcp) /\ live[c] = Len(kcp) /\ s # live[c]
      BY <2>2, <2>3 DEF Ids
    <3>2. s \in 1..Len(kcp)
      BY <1>2 DEF Ids
    <3> QED BY <3>1, <3>2
  <2> QED BY <2>2, <2>3, Zenon DEF Reuses
<1>6. /\ TablesInv' /\ Len(kcp') = Len(kcp)
      /\ \A E : LiveConnected(E) => LiveConnected(E)'
      /\ \A c \in C : live'[c] = None
      /\ \A c \in Convs \ C : live'[c] = live[c]
      /\ \A t \in Ids : kcp'[t].conv = kcp[t].conv
  BY <1>1, <1>3, <1>4, <1>5, CloseSessionsStep
<1>7. WorldTypeOK' /\ Held' /\ GreetedOnce'
  BY <1>1, <1>6, WorldKept
<1>8. LiveConnected({})'
  <2>1. Ending = {s}
    BY <1>1 DEF Ending
  <2> HIDE DEF s
  <2>2. PICK E : E = {s}
    OBVIOUS
  <2>3. LiveConnected(E)
    BY <2>1, <2>2 DEF LiveConnected
  <2>4. LiveConnected(E)'
    BY <1>6, <2>3
  <2>5. ASSUME NEW c \in Convs, live'[c] # None PROVE live'[c] # s
    <3>1. c \notin C /\ live[c] # None /\ live'[c] = live[c]
      BY <1>6, <2>5
    <3>2. kcp[live[c]].conv = c
      BY <3>1 DEF TablesInv, AtHome
    <3> QED BY <3>1, <3>2
  <2> QED BY <2>2, <2>4, <2>5 DEF LiveConnected
<1>9. ConvsKept
  BY <1>6 DEF ConvsKept
<1> QED BY <1>1, <1>6, <1>7, <1>8, <1>9, MainIdleEnds

\* Every step keeps the inductive invariant.
LEMMA NextInductive == IInv /\ [Next]_vars => IInv'
<1> SUFFICES ASSUME IInv, [Next]_vars PROVE IInv'
  OBVIOUS
<1>1. CASE Receive
  BY <1>1, ReceiveStep
<1>2. CASE Greet
  BY <1>2, GreetStep
<1>3. CASE AddSession
  BY <1>3, AddSessionStep
<1>4. ASSUME NEW c \in Convs, LoseConnection(c) PROVE IInv'
  BY <1>4, RemoveStep DEF LoseConnection
<1>5. ASSUME NEW c \in Convs, TimeOut(c) PROVE IInv'
  BY <1>5, RemoveStep DEF TimeOut
<1>6. ASSUME NEW c \in Convs, Sleep(c) PROVE IInv'
  BY <1>6, SleepStep
<1>7. ASSUME NEW c \in Convs, DisconnectTells(c) PROVE IInv'
  BY <1>7, TellsStep
<1>8. CASE DisconnectMarks
  BY <1>8, MarksStep
<1>9. CASE DisconnectCloses
  BY <1>9, ClosesStep
<1>10. CASE OnServerShutDown
  BY <1>10, ShutDownStep
<1>11. CASE UNCHANGED vars
  <2>1. TablesInv' /\ \A E : LiveConnected(E) => LiveConnected(E)'
    BY <1>11, TablesUnchanged DEF IInv, vars
  <2>2. UNCHANGED <<kcp, live, rx, joining, players, ending>> /\ Ids' = Ids
    BY <1>11 DEF vars, sessionVars, tables, worldVars, mainVars, Ids
  <2>3. WorldTypeOK' /\ Held' /\ GreetedOnce'
    BY <2>2, WorldKept
  <2>4. LiveConnected(Ending)' /\ EndingHeld'
    BY <2>1, <2>2, EndingKept
  <2> QED BY <2>1, <2>3, <2>4 DEF IInv
<1> QED BY <1>1, <1>2, <1>3, <1>4, <1>5, <1>6, <1>7, <1>8, <1>9, <1>10, <1>11 DEF Next

\* The inductive invariant holds in every reachable state.
LEMMA Inductive == Spec => []IInv
  BY InitInductive, NextInductive, PTL DEF Spec

-----------------------------------------------------------------------------
(* The login queue and what it goes by. *)

\* About to be greeted, or greeted and not yet added by the main thread.
Upcoming(s) == s \in InSeq(joining) \/ Accepted(s)

NoRepeat(q) == \A i, j \in 1..Len(q) : q[i] = q[j] => i = j

QueueTypes ==
    /\ queued \in Seq(Ids) /\ inQueue \subseteq Ids
    /\ disconnects \subseteq Convs /\ stopped \in BOOLEAN

\* m_mSessions has a session under its own conversation.
Keyed == \A c \in Convs : players[c] # None => kcp[players[c]].conv = c

\* A session is added once, and queued at most once.
Once ==
    /\ NoRepeat(joining) /\ NoRepeat(queued)
    /\ \A s \in Ids : Upcoming(s) => s \notin InSeq(queued) \cup Players

\* m_disconnects remembers sessions that have been added.
Gone == \A c \in disconnects : \E t \in Ids : kcp[t].conv = c /\ ~Upcoming(t)

\* Conversations are given out in turn.
Numbered == \A s \in Ids : kcp[s].conv = s % MaxConv

Queues == QueueTypes /\ Keyed /\ Once /\ Gone /\ Numbered /\ AdmissionExact

\* Until the counter wraps no two sessions have the same conversation.
LEMMA Distinct ==
    ASSUME Len(kcp) \in Nat, Numbered, ~Reused, NEW s \in Ids, NEW t \in Ids, kcp[s].conv = kcp[t].conv
    PROVE  s = t
<1>1. /\ MaxConv \in Nat /\ s \in 1..MaxConv /\ t \in 1..MaxConv
      /\ s % MaxConv = t % MaxConv
  BY SessionsAssumption DEF SessionsAssumption, Reused, Ids, Numbered
<1>2. ASSUME NEW m \in Nat, NEW i \in 1..m PROVE i % m = IF i = m THEN 0 ELSE i
  <2>1. CASE i = m
    BY ONLY <2>1, m \in Nat, i \in 1..m
  <2>2. CASE i < m
    BY ONLY <2>2, m \in Nat, i \in 1..m
  <2> QED BY <2>1, <2>2
<1>3. /\ s % MaxConv = IF s = MaxConv THEN 0 ELSE s
      /\ t % MaxConv = IF t = MaxConv THEN 0 ELSE t
  BY <1>1, <1>2
<1> QED BY <1>1, <1>3

\* A queue without repetitions, with one more and with one less.
LEMMA NoRepeatProperties ==
    ASSUME NEW S, NEW q \in Seq(S), NoRepeat(q)
    PROVE  /\ \A e \in S : e \notin InSeq(q) => NoRepeat(Append(q, e))
           /\ q # <<>> => NoRepeat(Tail(q)) /\ Head(q) \notin InSeq(Tail(q))
<1>1. ASSUME NEW e \in S, e \notin InSeq(q) PROVE NoRepeat(Append(q, e))
  <2> DEFINE r == Append(q, e)
  <2>1. /\ Len(q) \in Nat /\ Len(r) = Len(q) + 1 /\ r[Len(q) + 1] = e
        /\ \A i \in 1..Len(q) : r[i] = q[i] /\ q[i] # e
    BY <1>1 DEF InSeq
  <2> HIDE DEF r
  <2>2. \A i \in 1..Len(r) : i \in 1..Len(q) \/ i = Len(q) + 1
    BY <2>1
  <2>3. NoRepeat(r)
    BY <2>1, <2>2 DEF NoRepeat
  <2> QED BY <2>3 DEF r
<1>2. ASSUME q # <<>> PROVE NoRepeat(Tail(q)) /\ Head(q) \notin InSeq(Tail(q))
  <2> DEFINE r == Tail(q)
  <2>1. /\ Len(q) \in Nat \ {0} /\ Len(r) = Len(q) - 1 /\ Head(q) = q[1]
        /\ \A i \in 1..Len(r) : r[i] = q[i + 1]
    BY <1>2
  <2> HIDE DEF r
  <2>2. \A i \in 1..Len(r) : i + 1 \in 1..Len(q) /\ i + 1 # 1
    BY <2>1
  <2>3. NoRepeat(r)
    BY <2>1, <2>2 DEF NoRepeat
  <2>4. Head(q) \notin InSeq(r)
    BY <2>1, <2>2 DEF NoRepeat, InSeq
  <2> QED BY <2>3, <2>4 DEF r
<1> QED BY <1>1, <1>2

\* The search of RemoveQueuedPlayer takes the session out of the queue, and nothing else.
LEMMA Erased ==
    ASSUME NEW S, NEW q \in Seq(S), NoRepeat(q), NEW s \in InSeq(q)
    PROVE  /\ Erase(q, s) \in Seq(S) /\ Len(Erase(q, s)) = Len(q) - 1
           /\ NoRepeat(Erase(q, s)) /\ InSeq(Erase(q, s)) = InSeq(q) \ {s}
<1> DEFINE first == CHOOSE i \in DOMAIN q : q[i] = s /\ \A j \in 1..(i - 1) : q[j] # s
           r == [i \in 1..(Len(q) - 1) |-> IF i < first THEN q[i] ELSE q[i + 1]]
<1>1. Len(q) \in Nat /\ DOMAIN q = 1..Len(q) /\ \A i \in 1..Len(q) : q[i] \in S
  OBVIOUS
<1>2. first \in 1..Len(q) /\ q[first] = s
  <2>1. PICK k \in 1..Len(q) : q[k] = s
    BY DEF InSeq
  <2>2. \A j \in 1..(k - 1) : j \in 1..Len(q) /\ j # k
    BY <1>1
  <2>3. \A j \in 1..(k - 1) : q[j] # s
    BY <2>1, <2>2 DEF NoRepeat
  <2>4. \E i \in DOMAIN q : q[i] = s /\ \A j \in 1..(i - 1) : q[j] # s
    BY <1>1, <2>1, <2>3
  <2> QED BY <1>1, <2>4
<1>3. Erase(q, s) = r
  BY DEF Erase
<1> HIDE DEF first
<1>4. ASSUME NEW i \in 1..(Len(q) - 1)
      PROVE  /\ i \in 1..Len(q) /\ i + 1 \in 1..Len(q)
             /\ r[i] = (IF i < first THEN q[i] ELSE q[i + 1]) /\ r[i] \in S
  BY <1>1
<1>5. r \in Seq(S) /\ Len(r) = Len(q) - 1
  <2>1. Len(q) - 1 \in Nat
    BY <1>1, <1>2
  <2>2. \A i \in 1..(Len(q) - 1) : (IF i < first THEN q[i] ELSE q[i + 1]) \in S
    BY <1>4
  <2> QED BY <2>1, <2>2
<1> HIDE DEF r
<1>6. NoRepeat(r)
  BY <1>1, <1>2, <1>4, <1>5 DEF NoRepeat
<1>7. InSeq(r) \subseteq InSeq(q) \ {s}
  <2>1. ASSUME NEW i \in 1..(Len(q) - 1) PROVE \E k \in 1..Len(q) : r[i] = q[k] /\ k # first
    <3>1. CASE i < first
      BY <1>4, <3>1
    <3>2. CASE ~(i < first)
      <4>1. i + 1 \in 1..Len(q) /\ r[i] = q[i + 1]
        BY <1>4, <3>2
      <4>2. i + 1 # first
        BY <1>2, <3>2
      <4> QED BY <4>1, <4>2, Zenon
    <3> QED BY <3>1, <3>2
  <2>2. \A k \in 1..Len(q) : k # first => q[k] # s
    BY <1>2, Zenon DEF NoRepeat
  <2>3. ASSUME NEW x \in InSeq(r) PROVE x \in InSeq(q) \ {s}
    <3>1. PICK i \in 1..(Len(q) - 1) : x = r[i]
      BY <1>5, Zenon DEF InSeq
    <3>2. PICK k \in 1..Len(q) : r[i] = q[k] /\ k # first
      BY <2>1, Zenon
    <3>3. x \in InSeq(q)
      BY <3>1, <3>2, Zenon DEF InSeq
    <3>4. x # s
      BY <2>2, <3>1, <3>2, Zenon
    <3> QED BY <3>3, <3>4, Zenon
  <2> QED BY <2>3, Zenon
<1>8. ASSUME NEW k \in 1..Len(q), q[k] # s PROVE \E i \in 1..(Len(q) - 1) : r[i] = q[k]
  <2>1. CASE k < first
    <3>1. k \in 1..(Len(q) - 1)
      BY <1>1, <1>2, <2>1
    <3> QED BY <1>4, <2>1, <3>1
  <2>2. CASE k > first
    <3>1. k - 1 \in 1..(Len(q) - 1) /\ ~(k - 1 < first) /\ (k - 1) + 1 = k
      BY <1>1, <1>2, <2>2
    <3>2. r[k - 1] = q[k]
      BY <1>4, <3>1
    <3> QED BY <3>1, <3>2
  <2> QED BY <1>2, <1>8, <2>1, <2>2
<1>9. InSeq(q) \ {s} \subseteq InSeq(r)
  BY <1>5, <1>8 DEF InSeq
<1> QED BY <1>3, <1>5, <1>6, <1>7, <1>9

\* RemoveQueuedPlayer takes the session out, and perhaps the head.
LEMMA Removed ==
    ASSUME NEW S, NEW q \in Seq(S), NoRepeat(q), NEW s
    PROVE  LET r == RemoveQueuedPlayer(q, s)
           IN  r \in Seq(S) /\ NoRepeat(r) /\ InSeq(r) \subseteq InSeq(q) \ {s}
<1> DEFINE rest == Erase(q, s)
<1>1. rest \in Seq(S) /\ NoRepeat(rest) /\ InSeq(rest) \subseteq InSeq(q) \ {s}
  <2>1. CASE s \in InSeq(q)
    BY <2>1, Erased
  <2>2. CASE s \notin InSeq(q)
    BY <2>2 DEF Erase
  <2> QED BY <2>1, <2>2
<1>2. RemoveQueuedPlayer(q, s) = rest \/ (rest # <<>> /\ RemoveQueuedPlayer(q, s) = Tail(rest))
  BY DEF RemoveQueuedPlayer
<1> HIDE DEF rest
<1>3. rest # <<>> => Tail(rest) \in Seq(S) /\ NoRepeat(Tail(rest)) /\ InSeq(Tail(rest)) \subseteq InSeq(rest)
  BY <1>1, InSeqProperties, NoRepeatProperties
<1> QED BY <1>1, <1>2, <1>3

-----------------------------------------------------------------------------
(* The steps that leave the login queue alone. *)

\* No step of the tables moves a conversation.
Kept == Len(kcp') \in Nat /\ Len(kcp) <= Len(kcp') /\ \A s \in Ids : kcp'[s].conv = kcp[s].conv

\* What Closing says of it.
LEMMA ClosingKept ==
    ASSUME Numbered, Closing, Len(kcp) \in Nat, Len(kcp') = Len(kcp)
    PROVE  Kept /\ Numbered'
<1>1. Ids' = Ids /\ \A s \in Ids : kcp'[s].conv = kcp[s].conv
  BY DEF Ids, Closing, Evolves
<1> QED BY <1>1 DEF Kept, Numbered

\* The empty queue.
LEMMA InitQueues == Init => Queues
<1> SUFFICES ASSUME Init PROVE Queues
  OBVIOUS
<1> USE DEF Init, SessionsInit
<1>1. QueueTypes
  <2>1. queued \in Seq(Ids) /\ inQueue \subseteq Ids /\ disconnects \subseteq Convs
    OBVIOUS
  <2>2. stopped \in BOOLEAN
    OBVIOUS
  <2> QED BY <2>1, <2>2 DEF QueueTypes
<1>2. Keyed /\ Gone /\ Numbered
  BY DEF Keyed, Gone, Numbered, Ids
<1>3. Once
  BY DEF Once, NoRepeat, Ids
<1>4. AdmissionExact
  <2>1. Players = {} /\ InSeq(queued) = {} /\ Len(queued) = 0
    BY DEF Players, InSeq
  <2> QED BY <2>1, FS_EmptySet, WorldAssumption DEF AdmissionExact, WorldAssumption
<1> QED BY <1>1, <1>2, <1>3, <1>4 DEF Queues

\* A step that neither queues nor removes keeps it all if it makes no session upcoming
\* that was not.
LEMMA QueuesUnmoved ==
    ASSUME IInv, Queues, UNCHANGED <<players, queued, inQueue, disconnects, stopped>>, Kept, Numbered',
           NoRepeat(joining)', \A s \in Ids : Upcoming(s)' => Upcoming(s)
    PROVE  Queues'
<1> USE DEF Queues
<1>1. /\ Ids \subseteq Ids'
      /\ Players' = Players /\ InSeq(queued)' = InSeq(queued)
  <2>1. Len(kcp) \in Nat
    BY DEF IInv, TablesInv, SessionsTypeOK
  <2> QED BY <2>1 DEF Kept, Ids, Players, InSeq
<1>2. \A c \in Convs : players[c] # None => players[c] \in Ids
  BY DEF IInv, WorldTypeOK
<1>3. InSeq(queued) \cup Players \subseteq Ids
  BY <1>2 DEF QueueTypes, InSeq, Players
<1>4. QueueTypes'
  <2>1. queued \in Seq(Ids')
    BY <1>1 DEF QueueTypes
  <2> QED BY <1>1, <2>1 DEF QueueTypes
<1>5. Keyed'
  BY <1>2 DEF Keyed, Kept
<1>6. Once'
  <2>1. NoRepeat(queued)'
    BY DEF Once, NoRepeat
  <2> QED BY <1>1, <1>3, <2>1 DEF Once
<1>7. Gone'
  BY <1>1 DEF Gone, Kept
<1>8. AdmissionExact'
  <2>1. Reused => Reused'
    BY SessionsAssumption DEF Reused, Kept, IInv, TablesInv, SessionsTypeOK, SessionsAssumption
  <2> QED BY <1>1, <2>1 DEF AdmissionExact, ActiveIs
<1> QED BY <1>4, <1>5, <1>6, <1>7, <1>8

\* The receive thread, until it greets.
LEMMA ReceiveQueues == ASSUME IInv, Queues, Receive PROVE Queues'
<1> USE DEF IInv
<1>1. UNCHANGED <<joining, players, queued, inQueue, disconnects, stopped>>
  BY DEF Receive, worldVars, mainVars
<1>2. NoRepeat(joining)' /\ InSeq(joining)' = InSeq(joining)
  BY <1>1 DEF Queues, Once, NoRepeat, InSeq
<1>3. Len(kcp) \in Nat /\ Numbered
  BY DEF Queues, TablesInv, SessionsTypeOK
<1>4. ASSUME NEW d \in Datagrams, Lookup(d) PROVE Queues'
  <2>1. Kept /\ Numbered' /\ \A s \in Ids : ~Accepted(s)'
    BY <1>3, <1>4 DEF Lookup, tables, Kept, Numbered, Ids, Accepted
  <2> QED BY <1>1, <1>2, <2>1, QueuesUnmoved DEF Upcoming
<1>5. CASE Accept
  <2> DEFINE n == Len(kcp) + 1
  <2>1. /\ rx' = [pc |-> "accepted", session |-> n] /\ Len(kcp') = n
        /\ \A s \in Ids : kcp'[s] = kcp[s]
        /\ kcp'[n].conv = n % MaxConv
    BY <1>5, AcceptStep DEF NewConv
  <2>2. Ids' = Ids \cup {n} /\ n \notin Ids
    BY <1>3, <2>1 DEF Ids
  <2>3. Kept
    BY <1>3, <2>1 DEF Kept
  <2>4. Numbered'
    BY <1>3, <2>1, <2>2 DEF Numbered
  <2>5. \A s \in Ids : ~Accepted(s)'
    BY <2>1, <2>2 DEF Accepted
  <2> QED BY <1>1, <1>2, <2>3, <2>4, <2>5, QueuesUnmoved DEF Upcoming
<1>6. CASE OnReceive
  <2>1. Closing /\ Len(kcp') = Len(kcp) /\ rx' = Idle
    BY <1>6, OnReceiveCloses, OnReceiveStep DEF OnReceive
  <2>2. \A s \in Ids : ~Accepted(s)'
    BY <2>1 DEF Accepted, Idle
  <2> QED BY <1>1, <1>2, <1>3, <2>1, <2>2, ClosingKept, QueuesUnmoved DEF Upcoming
<1> QED BY <1>4, <1>5, <1>6 DEF Receive

\* The accept callback: a session that was about to be greeted joins.
LEMMA GreetQueues == ASSUME IInv, Queues, Greet PROVE Queues'
<1> USE DEF IInv
<1> DEFINE s == rx.session
<1>1. /\ UNCHANGED <<players, queued, inQueue, disconnects, stopped>> /\ rx' = Idle
      /\ joining' = Append(joining, s) /\ s \in Ids /\ Len(kcp') = Len(kcp) /\ OnConnected
  BY ConnectedStep DEF Greet, OnConnected, mainVars
<1>2. Accepted(s)
  BY DEF Greet, OnConnected, TablesInv, SessionsTypeOK, Idle, Accepted
<1>3. joining \in Seq(Ids) /\ NoRepeat(joining) /\ s \notin InSeq(joining)
  BY <1>2 DEF WorldTypeOK, Queues, Once, GreetedOnce
<1> HIDE DEF s
<1>4. NoRepeat(joining') /\ InSeq(joining') = InSeq(joining) \cup {s}
  BY <1>1, <1>3, NoRepeatProperties, InSeqProperties
<1>5. \A t \in Ids : ~Accepted(t)'
  BY <1>1 DEF Accepted, Idle
<1>6. \A t \in Ids : Upcoming(t)' => Upcoming(t)
  BY <1>2, <1>4, <1>5 DEF Upcoming, InSeq
<1>7. Kept /\ Numbered'
  <2>1. Ids' = Ids /\ Len(kcp) \in Nat /\ \A t \in Ids : kcp'[t].conv = kcp[t].conv
    BY <1>1, ConnectedEvolves DEF Ids, Evolves, TablesInv, SessionsTypeOK
  <2> QED BY <1>1, <2>1 DEF Kept, Numbered, Queues
<1>8. NoRepeat(joining)'
  BY <1>4 DEF NoRepeat
<1> QED BY <1>1, <1>6, <1>7, <1>8, QueuesUnmoved

\* Steps of the tables alone.
LEMMA TablesQueues ==
    ASSUME IInv, Queues, ConvsKept,
           UNCHANGED <<rx, joining, players, queued, inQueue, disconnects, stopped>>
    PROVE  Queues'
<1>1. Len(kcp) \in Nat
  BY DEF IInv, TablesInv, SessionsTypeOK
<1>2. NoRepeat(joining)' /\ \A s \in Ids : Upcoming(s)' => Upcoming(s)
  BY DEF Queues, Once, NoRepeat, Upcoming, InSeq, Accepted
<1>3. Kept /\ Numbered'
  BY <1>1 DEF ConvsKept, Kept, Numbered, Queues, Ids
<1> QED BY <1>2, <1>3, QueuesUnmoved

\* The keep-alive.
LEMMA SleepQueues == ASSUME IInv, Queues, NEW c \in Convs, Sleep(c) PROVE Queues'
<1>1. ConvsKept /\ rx' = rx
  BY SleepingCloses, SleepingStep DEF Sleep, IInv, Closing, Evolves, ConvsKept
<1> QED BY <1>1, TablesQueues DEF Sleep, worldVars, mainVars

\* KcpSession::Disconnect.
LEMMA DisconnectQueues ==
    ASSUME IInv, Queues, \/ \E c \in Convs : DisconnectTells(c)
                        \/ DisconnectMarks
                        \/ DisconnectCloses
    PROVE  Queues'
<1>1. ConvsKept
  BY TellsStep, MarksStep, ClosesStep
<1>2. UNCHANGED <<rx, joining, players, queued, inQueue, disconnects, stopped>>
  BY DEF DisconnectTells, DisconnectMarks, DisconnectCloses, worldVars
<1> QED BY <1>1, <1>2, TablesQueues

-----------------------------------------------------------------------------
(* The steps that queue, let in and remove. *)

\* There are finitely many players.
LEMMA PlayersFinite ==
    ASSUME IInv PROVE IsFiniteSet(Players) /\ Cardinality(Players) \in Nat
<1>1. Len(kcp) \in Nat
  BY DEF IInv, TablesInv, SessionsTypeOK
<1>2. IsFiniteSet(1..Len(kcp))
  BY <1>1, FS_Interval
<1>3. Players \in SUBSET (1..Len(kcp))
  BY DEF IInv, WorldTypeOK, Players, Ids
<1>4. IsFiniteSet(Players)
  BY <1>2, <1>3, FS_Subset
<1> QED BY <1>4, FS_CardinalityType

\* A session that joins under a conversation nobody had is one player more.  It is let in
\* if a place is free, and waits otherwise.
LEMMA AddSessionAdmits ==
    ASSUME IInv, Queues, AddSession, Len(kcp') = Len(kcp), Closing
    PROVE  AdmissionExact'
<1> USE DEF IInv, Queues
<1> DEFINE s == Head(joining)
           d == kcp[s].conv
           full == PlayerLimit > 0 /\ Cardinality(Players \ {players[d]}) >= PlayerLimit
<1>1. /\ joining # <<>> /\ players' = [players EXCEPT ![d] = s]
      /\ IF full /\ ~HasRecentlyDisconnected(s)
         THEN queued' = Append(queued, s) /\ inQueue' = inQueue \cup {s}
         ELSE UNCHANGED <<queued, inQueue>>
  BY DEF AddSession
<1>2. s \in Ids /\ Upcoming(s)
  <2>1. s \in Ids /\ s \in InSeq(joining)
    BY <1>1, InSeqProperties DEF WorldTypeOK
  <2> QED BY <2>1 DEF Upcoming
<1>3. d \in Convs
  <2>1. kcp[s] \in Session
    BY <1>2 DEF TablesInv, SessionsTypeOK, Ids
  <2> QED BY <2>1, SessionFields
<1>4. \A t \in Ids : kcp[t].conv = d /\ ~Reused => t = s
  <2>1. Len(kcp) \in Nat
    BY DEF TablesInv, SessionsTypeOK
  <2> QED BY <1>2, <2>1, Distinct
<1> SUFFICES ASSUME PlayerLimit > 0, ~Reused'
             PROVE  /\ InSeq(queued)' \subseteq Players' \cap inQueue'
                    /\ Cardinality(Players') - Len(queued') <= PlayerLimit
                    /\ queued' # <<>> => Cardinality(Players') = PlayerLimit + Len(queued')
  BY DEF AdmissionExact, ActiveIs
<1>5. ~Reused
  BY DEF Reused
<1>6. players[d] = None /\ ~HasRecentlyDisconnected(s) /\ s \notin Players /\ s \notin InSeq(queued)
  <2>1. s \notin Players /\ s \notin InSeq(queued)
    BY <1>2 DEF Once
  <2>2. players[d] # None => players[d] \in Ids /\ players[d] \in Players /\ kcp[players[d]].conv = d
    BY <1>3 DEF WorldTypeOK, Players, Keyed
  <2>3. players[d] = None
    BY <1>4, <1>5, <2>1, <2>2
  <2>4. d \notin disconnects
    BY <1>2, <1>4, <1>5 DEF Gone
  <2> QED BY <2>1, <2>3, <2>4 DEF HasRecentlyDisconnected
<1> HIDE DEF s, d
<1>7. Players' = Players \cup {s} /\ Players \ {players[d]} = Players
  <2>1. \A c \in Convs : players'[c] = IF c = d THEN s ELSE players[c]
    BY <1>1 DEF WorldTypeOK
  <2>2. s # None
    BY <1>2 DEF Ids, None
  <2> QED BY <1>3, <1>6, <2>1, <2>2 DEF Players
<1> DEFINE p == Cardinality(Players)
           q == Len(queued)
<1>8. /\ p \in Nat /\ q \in Nat /\ PlayerLimit \in Nat /\ Cardinality(Players') = p + 1
      /\ (queued = <<>> <=> q = 0) /\ Len(Append(queued, s)) = q + 1
  <2>1. Cardinality(Players \cup {s}) = p + 1
    BY <1>6, PlayersFinite, FS_AddElement
  <2>2. queued \in Seq(Ids)
    BY DEF QueueTypes
  <2> QED BY <1>7, <2>1, <2>2, PlayersFinite, WorldAssumption DEF WorldAssumption
<1>9. /\ InSeq(queued) \subseteq Players \cap inQueue /\ p - q <= PlayerLimit
      /\ q # 0 => p = PlayerLimit + q
  BY <1>5, <1>8 DEF AdmissionExact, ActiveIs
<1>10. full <=> p >= PlayerLimit
  BY <1>7
<1> HIDE DEF p, q, full
<1>11. CASE full
  <2>1. queued' = Append(queued, s) /\ inQueue' = inQueue \cup {s}
    BY <1>1, <1>6, <1>11
  <2>2. InSeq(queued') = InSeq(queued) \cup {s}
    BY <1>2, <2>1, InSeqProperties DEF QueueTypes
  <2>3. p = PlayerLimit + q
    BY <1>8, <1>9, <1>10, <1>11
  <2>4. InSeq(queued)' \subseteq Players' \cap inQueue'
    BY <1>7, <1>9, <2>1, <2>2 DEF InSeq
  <2> QED BY <1>8, <2>1, <2>3, <2>4
<1>12. CASE ~full
  <2>1. queued' = queued /\ inQueue' = inQueue
    BY <1>1, <1>12
  <2>2. p < PlayerLimit /\ q = 0
    BY <1>8, <1>9, <1>10, <1>12
  <2>3. InSeq(queued)' \subseteq Players' \cap inQueue'
    BY <1>7, <1>9, <2>1 DEF InSeq
  <2> QED BY <1>8, <2>1, <2>2, <2>3 DEF q
<1> QED BY <1>11, <1>12

\* AddSession_ keeps the queue in order, whoever is replaced.
LEMMA AddSessionQueues == ASSUME IInv, Queues, AddSession PROVE Queues'
<1> USE DEF IInv, Queues
<1> DEFINE s == Head(joining)
           d == kcp[s].conv
           S == {players[d]} \ {None}
<1>1. /\ joining # <<>> /\ joining' = Tail(joining) /\ rx' = rx
      /\ players' = [players EXCEPT ![d] = s] /\ Close(S)
      /\ UNCHANGED <<disconnects, stopped>> /\ ending = Idle
      /\ \/ queued' = Append(queued, s) /\ inQueue' = inQueue \cup {s}
         \/ queued' = queued /\ inQueue' = inQueue
  BY DEF AddSession, MainIdle, mainVars
<1>2. /\ s \in Ids /\ s \in InSeq(joining) /\ InSeq(joining') \subseteq InSeq(joining)
      /\ NoRepeat(joining') /\ s \notin InSeq(joining')
  BY <1>1, InSeqProperties, NoRepeatProperties DEF WorldTypeOK, Once
<1>3. d \in Convs
  <2>1. kcp[s] \in Session
    BY <1>2 DEF TablesInv, SessionsTypeOK, Ids
  <2> QED BY <2>1, SessionFields
<1>4. Closing /\ Len(kcp') = Len(kcp)
  <2>1. S \in SUBSET Ids /\ \A t \in S : t \in Players
    BY <1>3 DEF WorldTypeOK, Players
  <2> HIDE DEF S
  <2> QED BY <1>1, <2>1, MainIdleConnected, CloseCloses, CloseStep DEF GreetedOnce
<1> HIDE DEF s, d, S
<1>5. Ids' = Ids /\ Kept /\ Numbered'
  <2>1. Len(kcp) \in Nat
    BY DEF TablesInv, SessionsTypeOK
  <2> QED BY <1>4, <2>1, ClosingKept DEF Ids
<1>6. s \notin InSeq(queued) /\ ~Accepted(s)
  BY <1>2 DEF Once, Upcoming, GreetedOnce
<1>7. /\ queued' \in Seq(Ids) /\ NoRepeat(queued') /\ InSeq(queued') \subseteq InSeq(queued) \cup {s}
      /\ inQueue' \subseteq Ids
  <2>1. queued \in Seq(Ids) /\ NoRepeat(queued) /\ inQueue \subseteq Ids
    BY DEF QueueTypes, Once
  <2>2. /\ Append(queued, s) \in Seq(Ids) /\ NoRepeat(Append(queued, s))
        /\ InSeq(Append(queued, s)) = InSeq(queued) \cup {s}
    BY <1>2, <1>6, <2>1, InSeqProperties, NoRepeatProperties
  <2>3. inQueue \cup {s} \subseteq Ids
    BY <1>2, <2>1
  <2> QED BY <1>1, <2>1, <2>2, <2>3
<1>8. QueueTypes'
  BY <1>1, <1>5, <1>7 DEF QueueTypes
<1>9. \A c \in Convs : players'[c] = IF c = d THEN s ELSE players[c]
  BY <1>1 DEF WorldTypeOK
<1>10. Keyed'
  <2>1. \A c \in Convs : players[c] # None => players[c] \in Ids
    BY DEF WorldTypeOK
  <2> QED BY <1>2, <1>5, <1>9, <2>1 DEF Keyed, Kept, d
<1>11. \A t \in Ids : Upcoming(t)' => Upcoming(t) /\ t # s
  BY <1>1, <1>2, <1>6 DEF Upcoming, InSeq, Accepted
<1>12. Once'
  <2>1. Players' \subseteq Players \cup {s}
    BY <1>9 DEF Players
  <2>2. NoRepeat(joining)' /\ NoRepeat(queued)'
    BY <1>2, <1>7 DEF NoRepeat
  <2>3. ASSUME NEW t \in Ids, Upcoming(t)' PROVE t \notin InSeq(queued') \cup Players'
    BY <1>7, <1>11, <2>1, <2>3 DEF Once
  <2> QED BY <1>5, <2>2, <2>3 DEF Once, InSeq
<1>13. Gone'
  BY <1>1, <1>5, <1>11 DEF Gone, Kept
<1>14. AdmissionExact'
  BY <1>4, AddSessionAdmits
<1> QED BY <1>5, <1>8, <1>10, <1>12, <1>13, <1>14

\* Removing a player makes one place free, and one waiting session fills it: if the player
\* waited itself neither call of RemoveQueuedPlayer lets anybody in, and otherwise the first
\* does and the second finds the places taken again.
LEMMA RemoveAdmits ==
    ASSUME IInv, Queues, NEW c \in Convs, players[c] # None, Remove(c), Len(kcp') = Len(kcp)
    PROVE  AdmissionExact'
<1> USE DEF IInv, Queues
<1> DEFINE s == players[c]
           once == RemoveQueuedPlayer(queued, s)
           twice == RemoveQueuedPlayer(once, s)
<1>1. /\ players' = [players EXCEPT ![c] = None] /\ queued' = twice
      /\ inQueue' = IF s \in InSeq(queued) THEN inQueue \ {s} ELSE inQueue
  BY DEF Remove
<1>2. s \in Ids /\ s \in Players
  BY DEF WorldTypeOK, Players
<1>3. Players' = Players \ {s}
  <2>1. \A e \in Convs : players'[e] = IF e = c THEN None ELSE players[e]
    BY <1>1 DEF WorldTypeOK
  <2>2. \A e \in Convs : players[e] = s => e = c
    BY <1>2 DEF Keyed
  <2> HIDE DEF s
  <2>3. \A e \in Convs : e # c /\ players[e] # None => players[e] # s
    BY <2>2
  <2> QED BY <2>1, <2>3 DEF Players, s
<1> SUFFICES ASSUME PlayerLimit > 0, ~Reused'
             PROVE  /\ InSeq(queued)' \subseteq Players' \cap inQueue'
                    /\ Cardinality(Players') - Len(queued') <= PlayerLimit
                    /\ queued' # <<>> => Cardinality(Players') = PlayerLimit + Len(queued')
  BY DEF AdmissionExact, ActiveIs
<1> DEFINE p == Cardinality(Players)
           q == Len(queued)
<1>4. /\ p \in Nat /\ q \in Nat /\ PlayerLimit \in Nat /\ Cardinality(Players') = p - 1
      /\ queued \in Seq(Ids) /\ (queued = <<>> <=> q = 0)
  <2>1. Cardinality(Players \ {s}) = p - 1
    BY <1>2, PlayersFinite, FS_RemoveElement
  <2>2. queued \in Seq(Ids)
    BY DEF QueueTypes
  <2> QED BY <1>3, <2>1, <2>2, PlayersFinite, WorldAssumption DEF WorldAssumption
<1>5. /\ InSeq(queued) \subseteq Players \cap inQueue /\ p - q <= PlayerLimit
      /\ q # 0 => p = PlayerLimit + q
  BY <1>4 DEF AdmissionExact, ActiveIs, Reused
<1>6. NoRepeat(queued)
  BY DEF Once
<1> HIDE DEF s
<1>7. ASSUME NEW r, s \notin InSeq(r), p - Len(r) = PlayerLimit + 1
      PROVE  RemoveQueuedPlayer(r, s) = r
  <2>1. Erase(r, s) = r
    BY <1>7 DEF Erase
  <2>2. (p - Len(r)) - 1 = PlayerLimit /\ p - Len(r) # 0
    BY <1>4, <1>7
  <2> QED BY <1>4, <1>7, <2>1, <2>2 DEF RemoveQueuedPlayer
<1>8. CASE s \in InSeq(queued)
  <2> DEFINE rest == Erase(queued, s)
  <2>1. rest \in Seq(Ids) /\ Len(rest) = q - 1 /\ InSeq(rest) = InSeq(queued) \ {s}
    BY <1>4, <1>6, <1>8, Erased
  <2> HIDE DEF rest
  <2>2. q # 0
    BY <1>4, <1>8 DEF InSeq
  <2>3. once = rest
    <3>1. p - q = PlayerLimit
      BY <1>4, <1>5, <2>2
    <3> QED BY <1>4, <1>8, <3>1 DEF RemoveQueuedPlayer, rest
  <2> HIDE DEF once
  <2>4. twice = rest
    <3>1. p - Len(rest) = PlayerLimit + 1 /\ s \notin InSeq(rest)
      BY <1>4, <1>5, <2>1, <2>2
    <3> QED BY <1>7, <2>3, <3>1
  <2>5. queued' = rest /\ inQueue' = inQueue \ {s}
    BY <1>1, <1>8, <2>4
  <2>6. InSeq(queued') \subseteq Players' \cap inQueue'
    BY <1>3, <1>5, <2>1, <2>5
  <2> QED BY <1>4, <1>5, <2>1, <2>2, <2>5, <2>6 DEF InSeq
<1>9. CASE s \notin InSeq(queued)
  <2>1. Erase(queued, s) = queued /\ inQueue' = inQueue
    BY <1>1, <1>9 DEF Erase
  <2>2. CASE queued = <<>>
    <3>1. once = <<>>
      BY <2>1, <2>2 DEF RemoveQueuedPlayer
    <3> HIDE DEF once
    <3>2. twice = <<>>
      <4>1. s \notin InSeq(<<>>)
        BY DEF InSeq
      <4> QED BY <3>1, <4>1 DEF RemoveQueuedPlayer, Erase
    <3>3. queued' = <<>> /\ InSeq(queued)' = {} /\ Len(queued') = 0
      BY <1>1, <3>2 DEF InSeq
    <3>4. q = 0
      BY <1>4, <2>2
    <3> QED BY <1>4, <1>5, <3>3, <3>4
  <2>3. CASE queued # <<>>
    <3>1. /\ Tail(queued) \in Seq(Ids) /\ Len(Tail(queued)) = q - 1 /\ q # 0
          /\ InSeq(Tail(queued)) \subseteq InSeq(queued)
      BY <1>4, <2>3, InSeqProperties
    <3>2. p - q = PlayerLimit /\ (p - q) - 1 < PlayerLimit /\ (p - q) - 1 >= 0 /\ p - q # 0
      BY <1>4, <1>5, <3>1
    <3>3. once = Tail(queued)
      BY <1>9, <2>1, <2>3, <3>2 DEF RemoveQueuedPlayer
    <3> HIDE DEF once
    <3>4. twice = Tail(queued)
      <4>1. p - Len(Tail(queued)) = PlayerLimit + 1 /\ s \notin InSeq(Tail(queued))
        BY <1>4, <1>9, <3>1, <3>2
      <4> QED BY <1>7, <3>3, <4>1
    <3>5. queued' = Tail(queued)
      BY <1>1, <3>4
    <3>6. InSeq(queued') \subseteq Players' \cap inQueue'
      BY <1>3, <1>5, <1>9, <2>1, <3>1, <3>5
    <3>7. p - 1 = PlayerLimit + (q - 1)
      BY <1>4, <3>2
    <3> QED BY <1>4, <3>1, <3>5, <3>6, <3>7 DEF InSeq
  <2> QED BY <2>2, <2>3
<1> QED BY <1>8, <1>9

\* UpdateSessions: the session leaves the world and the queue, and is remembered if it did
\* not wait.
LEMMA RemoveQueues ==
    ASSUME IInv, Queues, NEW c \in Convs, players[c] # None, Remove(c) PROVE Queues'
<1> USE DEF IInv, Queues
<1> DEFINE s == players[c]
           once == RemoveQueuedPlayer(queued, s)
<1>1. /\ joining' = joining /\ rx' = rx /\ stopped' = stopped /\ ending = Idle /\ Close({s})
      /\ players' = [players EXCEPT ![c] = None]
      /\ queued' = RemoveQueuedPlayer(once, s)
      /\ inQueue' \subseteq inQueue /\ disconnects' \subseteq disconnects \cup {c}
  BY DEF Remove, MainIdle, mainVars
<1>2. s \in Ids /\ s \in Players /\ kcp[s].conv = c
  BY DEF WorldTypeOK, Players, Keyed
<1>3. Closing /\ Len(kcp') = Len(kcp)
  <2>1. {s} \in SUBSET Ids /\ \A t \in {s} : ~Accepted(t)
    BY <1>2 DEF GreetedOnce
  <2> QED BY <1>1, <2>1, MainIdleConnected, CloseCloses, CloseStep
<1>4. Ids' = Ids /\ Kept /\ Numbered'
  <2>1. Len(kcp) \in Nat
    BY DEF TablesInv, SessionsTypeOK
  <2> QED BY <1>3, <2>1, ClosingKept DEF Ids
<1>5. queued' \in Seq(Ids) /\ NoRepeat(queued') /\ InSeq(queued') \subseteq InSeq(queued)
  <2>1. once \in Seq(Ids) /\ NoRepeat(once) /\ InSeq(once) \subseteq InSeq(queued)
    BY Removed DEF QueueTypes, Once
  <2> HIDE DEF once
  <2>2. LET r == RemoveQueuedPlayer(once, s)
        IN  r \in Seq(Ids) /\ NoRepeat(r) /\ InSeq(r) \subseteq InSeq(once) \ {s}
    BY <2>1, Removed
  <2> QED BY <1>1, <2>1, <2>2
<1> HIDE DEF once
<1>6. QueueTypes'
  BY <1>1, <1>4, <1>5 DEF QueueTypes
<1>7. \A e \in Convs : players'[e] = IF e = c THEN None ELSE players[e]
  BY <1>1 DEF WorldTypeOK
<1>8. Keyed'
  <2>1. \A e \in Convs : players[e] # None => players[e] \in Ids
    BY DEF WorldTypeOK
  <2> QED BY <1>4, <1>7, <2>1 DEF Keyed, Kept
<1>9. \A t \in Ids : Upcoming(t)' <=> Upcoming(t)
  BY <1>1 DEF Upcoming, InSeq, Accepted
<1>10. Once'
  <2>1. Players' \subseteq Players
    BY <1>7 DEF Players
  <2>2. NoRepeat(joining)' /\ NoRepeat(queued)'
    BY <1>1, <1>5 DEF Once, NoRepeat
  <2>3. ASSUME NEW t \in Ids, Upcoming(t)' PROVE t \notin InSeq(queued') \cup Players'
    BY <1>5, <1>9, <2>1, <2>3 DEF Once
  <2> QED BY <1>4, <2>2, <2>3 DEF Once, InSeq
<1>11. ~Upcoming(s)
  BY <1>2 DEF Once
<1> HIDE DEF s
<1>12. Gone'
  BY <1>1, <1>2, <1>4, <1>9, <1>11 DEF Gone, Kept
<1>13. AdmissionExact'
  BY <1>3, RemoveAdmits
<1> QED BY <1>4, <1>6, <1>8, <1>10, <1>12, <1>13

\* OnServerShutDown.
LEMMA ShutDownQueues == ASSUME IInv, Queues, OnServerShutDown PROVE Queues'
<1> USE DEF IInv, Queues
<1>1. /\ joining' = joining /\ rx' = rx /\ inQueue' = inQueue /\ stopped' = TRUE
      /\ queued' = <<>> /\ disconnects' = {} /\ players' = [c \in Convs |-> None] /\ Close(Players)
      /\ ending = Idle
  BY DEF OnServerShutDown, MainIdle
<1>2. Closing /\ Len(kcp') = Len(kcp)
  <2>1. Players \in SUBSET Ids
    BY DEF WorldTypeOK, Players
  <2> QED BY <1>1, <2>1, MainIdleConnected, CloseCloses, CloseStep DEF GreetedOnce
<1>3. Ids' = Ids /\ Numbered'
  <2>1. Len(kcp) \in Nat
    BY DEF TablesInv, SessionsTypeOK
  <2> QED BY <1>2, <2>1, ClosingKept DEF Ids
<1>4. Players' = {} /\ InSeq(queued)' = {} /\ Len(queued') = 0
  BY <1>1 DEF Players, InSeq
<1>5. QueueTypes'
  <2>1. queued' \in Seq(Ids) /\ inQueue' \subseteq Ids /\ disconnects' \subseteq Convs
    BY <1>1 DEF QueueTypes
  <2>2. stopped' \in BOOLEAN
    BY <1>1
  <2> QED BY <1>3, <2>1, <2>2 DEF QueueTypes
<1>6. Keyed' /\ Gone'
  BY <1>1 DEF Keyed, Gone
<1>7. Once'
  <2>1. NoRepeat(joining)' /\ NoRepeat(queued)'
    BY <1>1 DEF Once, NoRepeat
  <2> QED BY <1>4, <2>1 DEF Once
<1>8. AdmissionExact'
  BY <1>1, <1>4, FS_EmptySet, WorldAssumption DEF AdmissionExact, WorldAssumption
<1> QED BY <1>3, <1>5, <1>6, <1>7, <1>8

\* Every step keeps the queue in order.
LEMMA QueuesInductive == IInv /\ Queues /\ [Next]_vars => Queues'
<1> SUFFICES ASSUME IInv, Queues, [Next]_vars PROVE Queues'
  OBVIOUS
<1>1. CASE Receive
  BY <1>1, ReceiveQueues
<1>2. CASE Greet
  BY <1>2, GreetQueues
<1>3. CASE AddSession
  BY <1>3, AddSessionQueues
<1>4. ASSUME NEW c \in Convs, LoseConnection(c) \/ TimeOut(c) PROVE Queues'
  BY <1>4, RemoveQueues DEF LoseConnection, TimeOut
<1>5. ASSUME NEW c \in Convs, Sleep(c) PROVE Queues'
  BY <1>5, SleepQueues
<1>6. CASE (\E c \in Convs : DisconnectTells(c)) \/ DisconnectMarks \/ DisconnectCloses
  BY <1>6, DisconnectQueues
<1>7. CASE OnServerShutDown
  BY <1>7, ShutDownQueues
<1>8. CASE UNCHANGED vars
  <2>1. UNCHANGED <<kcp, rx, joining, players, queued, inQueue, disconnects, stopped>>
    BY <1>8 DEF vars, sessionVars, tables, worldVars, mainVars
  <2> QED BY <2>1, TablesQueues DEF ConvsKept
<1> QED BY <1>1, <1>2, <1>3, <1>4, <1>5, <1>6, <1>7, <1>8 DEF Next

\* The queue is in order in every reachable state.
LEMMA QueuesCorrect == Spec => [](IInv /\ Queues)
<1>1. Init => IInv /\ Queues
  BY InitInductive, InitQueues
<1>2. IInv /\ Queues /\ [Next]_vars => (IInv /\ Queues)'
  BY NextInductive, QueuesInductive
<1> QED BY <1>1, <1>2, PTL DEF Spec

-----------------------------------------------------------------------------
\* An address has one live session, although ReadHandler gives _sessionLock up between
\* looking the remote up and inserting its session.
THEOREM RemoteCorrect == Spec => []OneSessionPerRemote
<1>1. IInv => OneSessionPerRemote
  BY DEF IInv, TablesInv
<1> QED BY <1>1, Inductive, PTL

\* World forgets no session of SocketServer's table, whatever it replaces, removes or
\* shuts down, and whoever else closes sessions.
THEOREM OwnerCorrect == Spec => []LiveHasOwner
<1>1. IInv => LiveHasOwner
  BY DEF IInv, Held, LiveHasOwner, Owned, Accepted
<1> QED BY <1>1, Inductive, PTL

\* Only the reuse of a conversation keeps a session that counts as connected out of the
\* table: no interleaving of the receive thread and the main thread does.
THEOREM ReuseCorrect == Spec => []OnlyReuseStrands
<1>1. ASSUME IInv PROVE OnlyReuseStrands
  <2>1. \A s \in Ids : Connected(s) /\ live[kcp[s].conv] # s => Reuses(s)
    BY <1>1 DEF IInv, TablesInv, StrandedReuses
  <2> QED BY <2>1 DEF OnlyReuseStrands, Reuses
<1> QED BY <1>1, Inductive, PTL

\* Every variable of World and of the session tables keeps its type, for every limit and
\* every bound of the conversation counter: what RemoveQueuedPlayer leaves of the login queue
\* are sessions, and a sleeping session never outlives SESSION_KEEP_ALIVE_TIME.
THEOREM WorldTypeCorrect == Spec => []TypeOK
<1>1. IInv /\ Queues => TypeOK
  BY DEF IInv, TablesInv, WorldTypeOK, EndingHeld, Queues, QueueTypes, TypeOK
<1> QED BY <1>1, QueuesCorrect, PTL

\* For every limit, and as long as no conversation is reused: the places are taken while
\* anybody waits and never more of them than there are, although each removal calls
\* RemoveQueuedPlayer twice and counts with the players of before it.
THEOREM AdmissionCorrect == Spec => []AdmissionExact
<1>1. IInv /\ Queues => AdmissionExact
  BY DEF Queues
<1> QED BY <1>1, QueuesCorrect, PTL

=============================================================================
