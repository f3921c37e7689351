--------------------------- MODULE SessionsProofs ---------------------------
(***************************************************************************)
(* What the steps of the session tables keep, for every number of remotes,  *)
(* conversations and sessions: the lemmas WorldProofs and HandshakeProofs   *)
(* build on.                                                               *)
(***************************************************************************)
EXTENDS Sessions, TLAPS

\* The tables hold a session under its own conversation, and a sleeping one is not yet dead.
AtHome ==
    /\ \A c \in Convs : live[c] # None => kcp[live[c]].conv = c
    /\ \A c \in Convs : sleeping[c] # None =>
           kcp[sleeping[c]].conv = c /\ kcp[sleeping[c]].tick < KeepTicks

\* The receive thread's session, which it is about to greet.
Accepted(s) == rx = [pc |-> "accepted", session |-> s]

\* What is live counts as connected, so Close will close it, except the sessions in E, whose
\* end has begun.
LiveConnected(E) ==
    \A c \in Convs : live[c] # None => Connected(live[c]) \/ Accepted(live[c]) \/ live[c] \in E

\* From the look-up to the insertion nobody else makes a session of that remote.
UnknownFree ==
    rx.pc = "unknown" => \A c \in Convs : live[c] # None => kcp[live[c]].remote # rx.remote

\* Only the newest session is about to be greeted.
AcceptedNewest == \A s \in Ids : Accepted(s) => s = Len(kcp)

\* An earlier session had the conversation of s.
Reuses(s) == \E t \in 1..(s - 1) : kcp[t].conv = kcp[s].conv

\* What is, or is about to be, connected is live unless it reuses a conversation.
StrandedReuses ==
    \A s \in Ids : (Connected(s) \/ Accepted(s)) /\ live[kcp[s].conv] # s => Reuses(s)

TablesInv ==
    /\ SessionsTypeOK /\ AtHome /\ OneSessionPerRemote /\ UnknownFree
    /\ AcceptedNewest /\ StrandedReuses

-----------------------------------------------------------------------------
\* The empty tables.
LEMMA SessionsInitInductive == SessionsInit => TablesInv /\ LiveConnected({})
<1> SUFFICES ASSUME SessionsInit PROVE TablesInv /\ LiveConnected({})
  OBVIOUS
<1> USE DEF SessionsInit
<1>1. SessionsTypeOK
  BY DEF SessionsTypeOK, Ids
<1>2. AtHome /\ OneSessionPerRemote /\ LiveConnected({}) /\ UnknownFree
  BY DEF AtHome, OneSessionPerRemote, LiveConnected, UnknownFree, Idle
<1>3. AcceptedNewest /\ StrandedReuses
  BY DEF AcceptedNewest, StrandedReuses, Ids
<1> QED BY <1>1, <1>2, <1>3 DEF TablesInv

\* Doing nothing to the tables.
LEMMA TablesUnchanged ==
    ASSUME TablesInv, UNCHANGED sessionVars
    PROVE  TablesInv' /\ \A E : LiveConnected(E) => LiveConnected(E)'
<1> USE DEF TablesInv, sessionVars, tables
<1>1. SessionsTypeOK'
  BY DEF SessionsTypeOK, Ids
<1>2. AtHome' /\ OneSessionPerRemote' /\ UnknownFree'
  BY DEF AtHome, OneSessionPerRemote, UnknownFree
<1>3. ASSUME NEW E, LiveConnected(E) PROVE LiveConnected(E)'
  BY <1>3 DEF LiveConnected, Connected, Accepted
<1>4. AcceptedNewest' /\ StrandedReuses'
  BY DEF AcceptedNewest, StrandedReuses, Reuses, Connected, Accepted, Ids
<1> QED BY <1>1, <1>2, <1>3, <1>4

-----------------------------------------------------------------------------
(* Closing. *)

\* The fields of a session.
LEMMA SessionFields ==
    ASSUME NEW k \in Session
    PROVE  k.conv \in Convs /\ k.tick \in 0..KeepTicks /\ k.status \in Statuses
  BY DEF Session

\* A session at another tick is a session that differs in nothing else.
LEMMA TickSame ==
    ASSUME NEW k \in Session, NEW t \in 0..KeepTicks
    PROVE  LET e == [k EXCEPT !.tick = t]
           IN  /\ e \in Session /\ e.remote = k.remote /\ e.conv = k.conv
               /\ e.status = k.status /\ e.tick = t
  BY DEF Session

\* Sending changes nothing but what was sent.
LEMMA SendSame ==
    ASSUME NEW k \in Session, NEW m
    PROVE  /\ Send(k, m) \in Session
           /\ Send(k, m).remote = k.remote /\ Send(k, m).conv = k.conv
           /\ Send(k, m).status = k.status /\ Send(k, m).tick = k.tick
           /\ Send(k, m).alive = k.alive
<1>1. CASE m \in Recorded
  <2>1. Append(k.sent, m) \in Seq(Recorded)
    BY <1>1 DEF Session
  <2>2. Send(k, m) = [k EXCEPT !.sent = Append(k.sent, m)]
    BY <1>1 DEF Send
  <2> QED BY <2>1, <2>2 DEF Session
<1>2. CASE m \notin Recorded
  BY <1>2 DEF Send
<1> QED BY <1>1, <1>2

\* A disconnected session is the same remote's session of the same conversation; one that
\* is to sleep has its whole keep-alive before it.
LEMMA DisconnectedSame ==
    ASSUME NEW k \in Session, NEW immediately \in BOOLEAN
    PROVE  LET d == OnDisconnected(k, immediately)
           IN  /\ d \in Session
               /\ d.remote = k.remote /\ d.conv = k.conv
               /\ d.tick = IF immediately THEN k.tick ELSE 0
               /\ d.status = "Disconnected"
<1> DEFINE told == IF k.status = "Disconnected" THEN k
                   ELSE Send([k EXCEPT !.status = "Disconnected"], "disconnect")
<1>1. /\ told \in Session /\ told.remote = k.remote /\ told.conv = k.conv /\ told.tick = k.tick
      /\ told.status = "Disconnected"
  <2>1. LET e == [k EXCEPT !.status = "Disconnected"]
        IN  /\ e \in Session /\ e.remote = k.remote /\ e.conv = k.conv /\ e.tick = k.tick
            /\ e.status = "Disconnected"
    BY DEF Session, Statuses
  <2> QED BY <2>1, SendSame
<1>2. OnDisconnected(k, immediately) = IF immediately THEN told ELSE [told EXCEPT !.alive = FALSE, !.tick = 0]
  BY DEF OnDisconnected
<1> HIDE DEF told
<1>3. 0 \in 0..KeepTicks
  BY SessionsAssumption DEF SessionsAssumption
<1>4. LET e == [told EXCEPT !.alive = FALSE, !.tick = 0]
      IN  /\ e \in Session /\ e.remote = told.remote /\ e.conv = told.conv /\ e.tick = 0
          /\ e.status = told.status
  BY <1>1, <1>3 DEF Session
<1> QED BY <1>1, <1>2, <1>4

\* What the sessions may be changed to before CloseSessions: no remote, conversation or
\* tick changes, no session becomes connected, nor does the status of a live session that
\* is not closed change.
Prepared(before, C) ==
    /\ before \in Seq(Session) /\ Len(before) = Len(kcp)
    /\ \A s \in Ids : /\ before[s].remote = kcp[s].remote
                      /\ before[s].conv = kcp[s].conv
                      /\ before[s].tick = kcp[s].tick
                      /\ before[s].status \in {kcp[s].status, "Disconnected"}
    /\ \A c \in Convs \ C : live[c] # None => before[live[c]].status = kcp[live[c]].status

\* Closing keeps what the tables promise, wherever the receive thread is.
LEMMA CloseSessionsStep ==
    ASSUME TablesInv, NEW before, NEW C \in SUBSET Convs, NEW remove \in BOOLEAN,
           Prepared(before, C), CloseSessions(before, C, remove),
           rx' = rx \/ (rx' = Idle /\ rx.pc # "accepted"),
           \A c \in C : live[c] # None /\ Accepted(live[c]) => Reuses(live[c])
    PROVE  /\ TablesInv' /\ Len(kcp') = Len(kcp)
           /\ \A E : LiveConnected(E) => LiveConnected(E)'
           /\ \A c \in C : live'[c] = None
           /\ \A c \in Convs \ C : live'[c] = live[c]
           /\ \A s \in Ids : kcp'[s].conv = kcp[s].conv
<1> DEFINE closed == {live[c] : c \in C} \ {None}
<1> USE DEF TablesInv
<1>1. kcp' = [s \in DOMAIN before |->
                IF s \in closed THEN OnDisconnected(before[s], remove) ELSE before[s]]
  BY DEF CloseSessions
<1>2. live' = [c \in Convs |-> IF c \in C THEN None ELSE live[c]]
  BY DEF CloseSessions
<1>3. sleeping' = [c \in Convs |->
                     IF c \in C /\ ~remove /\ sleeping[c] = None THEN live[c] ELSE sleeping[c]]
  BY DEF CloseSessions
<1>4. /\ kcp \in Seq(Session) /\ live \in [Convs -> {None} \cup Ids]
      /\ sleeping \in [Convs -> {None} \cup Ids]
  BY DEF SessionsTypeOK
<1>5. /\ before \in Seq(Session) /\ DOMAIN before = Ids /\ Ids = 1..Len(kcp) /\ Len(kcp) \in Nat
      /\ \A s \in Ids : before[s] \in Session
  BY <1>4 DEF Prepared, Ids
<1>6. ASSUME NEW s \in Ids
      PROVE  /\ kcp'[s] \in Session
             /\ kcp'[s].remote = kcp[s].remote /\ kcp'[s].conv = kcp[s].conv
             /\ s \notin closed => kcp'[s] = before[s]
             /\ kcp'[s].tick = IF s \in closed /\ ~remove THEN 0 ELSE kcp[s].tick
             /\ kcp'[s].status \in {kcp[s].status, "Disconnected"}
             /\ s \in closed => kcp'[s].status = "Disconnected"
  <2>1. before[s] \in Session /\ kcp'[s] = IF s \in closed THEN OnDisconnected(before[s], remove) ELSE before[s]
    BY <1>1, <1>5
  <2>2. /\ before[s].remote = kcp[s].remote /\ before[s].conv = kcp[s].conv
        /\ before[s].tick = kcp[s].tick
        /\ before[s].status \in {kcp[s].status, "Disconnected"}
    BY DEF Prepared
  <2> HIDE DEF closed
  <2> QED BY <2>1, <2>2, DisconnectedSame
<1>7. kcp' \in Seq(Session) /\ Len(kcp') = Len(kcp) /\ Ids' = Ids
  <2>1. DOMAIN kcp' = 1..Len(kcp)
    BY <1>1, <1>5
  <2>2. kcp' = [s \in 1..Len(kcp) |-> kcp'[s]]
    BY <1>1, <1>5
  <2>3. \A s \in 1..Len(kcp) : kcp'[s] \in Session
    BY <1>5, <1>6
  <2> QED BY <1>5, <2>1, <2>2, <2>3 DEF Ids
<1> HIDE DEF closed
<1>8. \A c \in Convs : live'[c] # None => c \notin C /\ live'[c] = live[c] /\ live[c] \in Ids
  BY <1>2, <1>4
<1>9. \A c \in Convs : live'[c] # None => live[c] \notin closed
  BY <1>8 DEF closed, AtHome
<1>10. SessionsTypeOK'
  <2>1. live' \in [Convs -> {None} \cup Ids'] /\ sleeping' \in [Convs -> {None} \cup Ids']
    BY <1>2, <1>3, <1>4, <1>7
  <2> QED BY <1>7, <2>1 DEF SessionsTypeOK
<1>11. AtHome'
  <2>1. \A c \in Convs : live'[c] # None => kcp'[live'[c]].conv = c
    BY <1>6, <1>8 DEF AtHome
  <2>2. ASSUME NEW c \in Convs, sleeping'[c] # None
        PROVE  kcp'[sleeping'[c]].conv = c /\ kcp'[sleeping'[c]].tick < KeepTicks
    <3>1. 0 < KeepTicks
      BY SessionsAssumption DEF SessionsAssumption
    <3>2. CASE c \in C /\ ~remove /\ sleeping[c] = None
      <4>1. sleeping'[c] = live[c] /\ live[c] \in Ids /\ live[c] \in closed
        BY <1>3, <1>4, <2>2, <3>2 DEF closed
      <4> QED BY <1>6, <2>2, <3>1, <3>2, <4>1 DEF AtHome
    <3>3. CASE ~(c \in C /\ ~remove /\ sleeping[c] = None)
      <4>1. sleeping'[c] = sleeping[c] /\ sleeping[c] \in Ids
        BY <1>3, <1>4, <2>2, <3>3
      <4> QED BY <1>6, <2>2, <3>1, <4>1 DEF AtHome
    <3> QED BY <3>2, <3>3
  <2> QED BY <2>1, <2>2 DEF AtHome
<1>12. OneSessionPerRemote'
  BY <1>6, <1>8 DEF OneSessionPerRemote
<1>13. ASSUME NEW E, LiveConnected(E) PROVE LiveConnected(E)'
  <2>1. ASSUME NEW c \in Convs, live'[c] # None
        PROVE  \/ kcp'[live'[c]].status = "Connected"
               \/ rx' = [pc |-> "accepted", session |-> live'[c]]
               \/ live'[c] \in E
    <3>1. kcp'[live[c]].status = kcp[live[c]].status
      BY <1>6, <1>8, <1>9, <2>1 DEF Prepared
    <3>2. kcp[live[c]].status = "Connected" \/ Accepted(live[c]) \/ live[c] \in E
      BY <1>8, <1>13, <2>1 DEF LiveConnected, Connected
    <3>3. Accepted(live[c]) => rx' = rx
      BY DEF Accepted
    <3> QED BY <1>8, <2>1, <3>1, <3>2, <3>3 DEF Accepted
  <2> QED BY <2>1 DEF LiveConnected, Connected, Accepted
<1>14. UnknownFree'
  BY <1>6, <1>8 DEF UnknownFree, Idle
<1>15. \A s \in Ids : Accepted(s)' => Accepted(s)
  BY DEF Accepted, Idle
<1>16. AcceptedNewest'
  BY <1>7, <1>15 DEF AcceptedNewest, Accepted
<1>17. \A s \in Ids : Reuses(s) => Reuses(s)'
  BY <1>4, <1>6 DEF Reuses, Ids
<1>18. StrandedReuses'
  <2>1. ASSUME NEW s \in Ids, Connected(s)' \/ Accepted(s)', live'[kcp'[s].conv] # s
        PROVE  Reuses(s)'
    <3> DEFINE c == kcp[s].conv
    <3>1. kcp'[s].conv = c /\ c \in Convs
      <4>1. kcp[s] \in Session
        BY <1>4 DEF Ids
      <4> QED BY <1>6, <4>1, SessionFields
    <3>2. Connected(s) \/ Accepted(s)
      BY <1>6, <1>15, <2>1 DEF Connected
    <3>3. CASE live[c] # s
      BY <1>17, <3>2, <3>3 DEF StrandedReuses
    <3>4. CASE live[c] = s
      <4>1. c \in C /\ s # None
        BY <1>2, <2>1, <3>1, <3>4 DEF Ids, None
      <4>2. s \in closed
        BY <3>4, <4>1 DEF closed
      <4>3. Accepted(s)
        BY <1>6, <1>15, <2>1, <4>2 DEF Connected
      <4> QED BY <1>17, <3>4, <4>1, <4>3
    <3> QED BY <3>3, <3>4
  <2> QED BY <1>7, <2>1 DEF StrandedReuses, Connected, Accepted, Reuses
<1> QED BY <1>2, <1>4, <1>6, <1>7, <1>10, <1>11, <1>12, <1>13, <1>14, <1>16, <1>18

-----------------------------------------------------------------------------
(* The steps of the tables. *)

\* Steps that leave the tables alone and connect nobody who was not about to be strand nobody.
LEMMA StrandedKept ==
    ASSUME TablesInv, Len(kcp') = Len(kcp), live' = live,
           \A s \in Ids : kcp'[s].conv = kcp[s].conv,
           \A s \in Ids : Accepted(s)' => Accepted(s),
           \A s \in Ids : Connected(s)' => Connected(s) \/ Accepted(s)
    PROVE  AcceptedNewest' /\ StrandedReuses'
<1> USE DEF TablesInv
<1>1. Ids' = Ids
  BY DEF Ids
<1>2. AcceptedNewest'
  BY <1>1 DEF AcceptedNewest, Accepted
<1>3. \A s \in Ids : Reuses(s) => Reuses(s)'
  BY DEF Reuses, Ids, SessionsTypeOK
<1>4. StrandedReuses'
  BY <1>1, <1>3 DEF StrandedReuses, Connected, Accepted, Reuses
<1> QED BY <1>2, <1>4

\* KcpSession::Disconnect before it closes: who is in which table stays, and nobody becomes
\* connected.
LEMMA SessionsChange ==
    ASSUME TablesInv, kcp' \in Seq(Session), Len(kcp') = Len(kcp), UNCHANGED <<live, sleeping, rx>>,
           \A s \in Ids : /\ kcp'[s].remote = kcp[s].remote /\ kcp'[s].conv = kcp[s].conv
                          /\ kcp'[s].tick = kcp[s].tick
                          /\ kcp'[s].status \in {kcp[s].status, "Disconnected"}
    PROVE  TablesInv'
<1> USE DEF TablesInv
<1>1. Ids' = Ids
  BY DEF Ids
<1>2. \A c \in Convs : /\ live[c] # None => live[c] \in Ids
                       /\ sleeping[c] # None => sleeping[c] \in Ids
  BY DEF SessionsTypeOK
<1>3. SessionsTypeOK'
  BY <1>1 DEF SessionsTypeOK
<1>4. AtHome' /\ OneSessionPerRemote' /\ UnknownFree'
  BY <1>2 DEF AtHome, OneSessionPerRemote, UnknownFree
<1>5. AcceptedNewest' /\ StrandedReuses'
  <2>1. \A s \in Ids : (Accepted(s)' => Accepted(s)) /\ (Connected(s)' => Connected(s))
    BY DEF Accepted, Connected
  <2> QED BY <2>1, StrandedKept
<1> QED BY <1>3, <1>4, <1>5

\* The receive thread looks a remote up: it remembers that none was found.
LEMMA LookupStep ==
    ASSUME TablesInv, NEW d \in Datagrams, Lookup(d)
    PROVE  TablesInv' /\ \A E : LiveConnected(E) => LiveConnected(E)'
<1> USE DEF TablesInv, Lookup, tables
<1>1. d.remote \in Remotes /\ d.conv \in Convs \cup {AcceptPack}
  BY DEF Datagrams
<1>2. GetSessionByRemote(d) \subseteq Ids
  BY DEF GetSessionByRemote, SessionsTypeOK
<1>3. SessionsTypeOK'
  BY <1>1, <1>2 DEF SessionsTypeOK, Ids
<1>4. AtHome' /\ OneSessionPerRemote'
  BY DEF AtHome, OneSessionPerRemote
<1>5. ASSUME NEW E, LiveConnected(E) PROVE LiveConnected(E)'
  BY <1>5 DEF LiveConnected, Connected, Accepted, Idle
<1>6. UnknownFree'
  BY DEF UnknownFree, GetSessionByRemote
<1>7. AcceptedNewest' /\ StrandedReuses'
  <2>1. \A s \in Ids : ~Accepted(s)'
    BY DEF Accepted
  <2>2. \A s \in Ids : Connected(s)' => Connected(s)
    BY DEF Connected
  <2> QED BY <2>1, <2>2, StrandedKept
<1> QED BY <1>3, <1>4, <1>5, <1>6, <1>7

\* OnAccept: the new session is the first of its remote.
LEMMA AcceptStep ==
    ASSUME TablesInv, Accept
    PROVE  /\ TablesInv' /\ rx' = [pc |-> "accepted", session |-> Len(kcp) + 1]
           /\ \A E : LiveConnected(E) => LiveConnected(E)'
           /\ Ids \subseteq Ids'
           /\ \A c \in Convs : live'[c] # None => live'[c] = live[c] \/ live'[c] = Len(kcp) + 1
           /\ Len(kcp') = Len(kcp) + 1 /\ \A s \in Ids : kcp'[s] = kcp[s]
           /\ kcp'[Len(kcp) + 1].remote = rx.remote /\ kcp'[Len(kcp) + 1].conv = NewConv
           /\ live[NewConv] = None => live'[NewConv] = Len(kcp) + 1
<1> USE DEF TablesInv
<1> DEFINE n == Len(kcp) + 1
<1>1. PICK status \in Statuses : kcp' = Append(kcp, Created(rx.remote, status))
  BY DEF Accept
<1>2. /\ live' = [live EXCEPT ![NewConv] = IF @ = None THEN n ELSE @]
      /\ rx' = [pc |-> "accepted", session |-> n] /\ sleeping' = sleeping
  BY DEF Accept
<1>3. rx.remote \in Remotes /\ rx.pc = "unknown"
  BY DEF Accept, SessionsTypeOK, Idle
<1>4. NewConv \in Convs
  <2>1. Len(kcp) + 1 \in Nat /\ MaxConv \in Nat \ {0}
    BY SessionsAssumption DEF SessionsTypeOK, SessionsAssumption
  <2>2. (Len(kcp) + 1) % MaxConv \in 0..(MaxConv - 1)
    BY ONLY <2>1
  <2> QED BY <2>2 DEF NewConv, Convs
<1>5. LET k == Created(rx.remote, status)
      IN  k \in Session /\ k.remote = rx.remote /\ k.conv = NewConv
  <2>1. 0 \in 0..KeepTicks /\ <<>> \in Seq(Recorded)
    BY SessionsAssumption DEF SessionsAssumption
  <2> QED BY <1>3, <1>4, <2>1 DEF Created, Session
<1>6. /\ kcp \in Seq(Session) /\ live \in [Convs -> {None} \cup Ids]
      /\ sleeping \in [Convs -> {None} \cup Ids]
  BY DEF SessionsTypeOK
<1>7. /\ kcp' \in Seq(Session) /\ Len(kcp') = n /\ Ids' = Ids \cup {n} /\ n \notin Ids
      /\ \A s \in Ids : kcp'[s] = kcp[s]
      /\ kcp'[n].remote = rx.remote /\ kcp'[n].conv = NewConv
  <2> DEFINE k == Created(rx.remote, status)
  <2>1. k \in Session /\ k.remote = rx.remote /\ k.conv = NewConv /\ kcp' = Append(kcp, k)
    BY <1>1, <1>5
  <2> HIDE DEF k
  <2> QED BY <1>6, <2>1 DEF Ids
<1>8. \A c \in Convs : live'[c] # None =>
          (live'[c] = live[c] /\ live[c] \in Ids) \/ (c = NewConv /\ live'[c] = n)
  BY <1>2, <1>4, <1>6
<1>9. SessionsTypeOK'
  <2>1. live' \in [Convs -> {None} \cup Ids']
    BY <1>2, <1>4, <1>6, <1>7
  <2> QED BY <1>2, <1>6, <1>7, <2>1 DEF SessionsTypeOK
<1>10. AtHome'
  <2>1. \A c \in Convs : live'[c] # None => kcp'[live'[c]].conv = c
    BY <1>7, <1>8 DEF AtHome
  <2>2. \A c \in Convs : sleeping[c] # None => sleeping[c] \in Ids
    BY <1>6
  <2> QED BY <1>2, <1>7, <2>1, <2>2 DEF AtHome
<1>11. OneSessionPerRemote'
  <2>1. \A c \in Convs : live[c] # None => kcp[live[c]].remote # rx.remote
    BY <1>3 DEF UnknownFree
  <2> QED BY <1>7, <1>8, <2>1 DEF OneSessionPerRemote
<1>12. ASSUME NEW E, LiveConnected(E) PROVE LiveConnected(E)'
  <2>1. \A s \in Ids : ~Accepted(s)
    BY <1>3 DEF Accepted
  <2> QED BY <1>2, <1>7, <1>8, <1>12, <2>1 DEF LiveConnected, Connected, Accepted
<1>13. UnknownFree'
  BY <1>2 DEF UnknownFree
<1>14. AcceptedNewest'
  BY <1>2, <1>7 DEF AcceptedNewest, Accepted
<1>15. StrandedReuses'
  <2>1. \A s \in Ids : kcp[s].conv \in Convs
    <3>1. \A s \in Ids : kcp[s] \in Session
      BY <1>6 DEF Ids
    <3> QED BY <3>1, SessionFields
  <2>2. \A s \in Ids : ~Accepted(s)' /\ ~Accepted(s)
    BY <1>2, <1>3, <1>7 DEF Accepted
  <2>3. ASSUME NEW s \in Ids, Connected(s)', live'[kcp'[s].conv] # s
        PROVE  Reuses(s)'
    <3>1. Connected(s) /\ live[kcp[s].conv] # s
      BY <1>2, <1>4, <1>6, <1>7, <2>1, <2>3 DEF Connected, Ids, None
    <3>2. PICK t \in 1..(s - 1) : kcp[t].conv = kcp[s].conv
      BY <3>1 DEF StrandedReuses, Reuses
    <3> QED BY <1>6, <1>7, <3>2 DEF Reuses, Ids
  <2>4. ASSUME live'[NewConv] # n PROVE \E t \in 1..(n - 1) : kcp'[t].conv = kcp'[n].conv
    <3>1. live[NewConv] # None /\ live[NewConv] \in Ids
      BY <1>2, <1>4, <1>6, <2>4
    <3>2. kcp[live[NewConv]].conv = NewConv
      BY <1>4, <3>1 DEF AtHome
    <3> QED BY <1>6, <1>7, <3>1, <3>2 DEF Ids
  <2> QED BY <1>7, <2>2, <2>3, <2>4 DEF StrandedReuses, Connected, Accepted, Reuses
<1>16. live[NewConv] = None => live'[NewConv] = n
  BY <1>2, <1>4, <1>6
<1> QED BY <1>2, <1>7, <1>8, <1>9, <1>10, <1>11, <1>12, <1>13, <1>14, <1>15, <1>16

\* KcpSession::OnConnected.
LEMMA ConnectedStep ==
    ASSUME TablesInv, OnConnected
    PROVE  /\ TablesInv' /\ Len(kcp') = Len(kcp) /\ rx.session \in Ids
           /\ \A E : LiveConnected(E) => LiveConnected(E)'
<1> USE DEF TablesInv
<1> DEFINE s == rx.session
<1>1. s \in Ids /\ kcp \in Seq(Session) /\ rx = [pc |-> "accepted", session |-> s]
  BY DEF OnConnected, SessionsTypeOK, Idle
<1>2. LET k == [Send(kcp[s], "accept") EXCEPT !.alive = TRUE, !.status = "Connected"]
      IN  /\ k \in Session /\ k.remote = kcp[s].remote /\ k.conv = kcp[s].conv
          /\ k.tick = kcp[s].tick /\ k.status = "Connected"
  <2>1. kcp[s] \in Session
    BY <1>1 DEF Ids
  <2> DEFINE t == Send(kcp[s], "accept")
  <2>2. t \in Session /\ t.remote = kcp[s].remote /\ t.conv = kcp[s].conv /\ t.tick = kcp[s].tick
    BY <2>1, SendSame
  <2> HIDE DEF t
  <2>3. LET k == [t EXCEPT !.alive = TRUE, !.status = "Connected"]
        IN  /\ k \in Session /\ k.remote = t.remote /\ k.conv = t.conv
            /\ k.tick = t.tick /\ k.status = "Connected"
    BY <2>2 DEF Session, Statuses
  <2> QED BY <2>2, <2>3 DEF t
<1>3. /\ kcp' \in Seq(Session) /\ Len(kcp') = Len(kcp) /\ Ids' = Ids
      /\ \A t \in Ids : /\ kcp'[t].remote = kcp[t].remote /\ kcp'[t].conv = kcp[t].conv
                        /\ kcp'[t].tick = kcp[t].tick
                        /\ kcp'[t].status = IF t = s THEN "Connected" ELSE kcp[t].status
  <2> DEFINE k == [Send(kcp[s], "accept") EXCEPT !.alive = TRUE, !.status = "Connected"]
  <2>1. kcp' = [kcp EXCEPT ![s] = k]
    BY DEF OnConnected
  <2>2. /\ k \in Session /\ k.remote = kcp[s].remote /\ k.conv = kcp[s].conv
        /\ k.tick = kcp[s].tick /\ k.status = "Connected"
    BY <1>2
  <2> HIDE DEF k
  <2>3. kcp' \in Seq(Session) /\ Len(kcp') = Len(kcp)
    BY <1>1, <2>1, <2>2 DEF Ids
  <2>4. \A t \in Ids : kcp'[t] = IF t = s THEN k ELSE kcp[t]
    BY <1>1, <2>1 DEF Ids
  <2> QED BY <2>2, <2>3, <2>4 DEF Ids
<1>4. live' = live /\ sleeping' = sleeping /\ rx' = Idle
  BY DEF OnConnected
<1>5. \A c \in Convs : /\ live[c] # None => live[c] \in Ids
                       /\ sleeping[c] # None => sleeping[c] \in Ids
  BY DEF SessionsTypeOK
<1>6. SessionsTypeOK'
  BY <1>3, <1>4 DEF SessionsTypeOK
<1>7. AtHome' /\ OneSessionPerRemote'
  BY <1>3, <1>4, <1>5 DEF AtHome, OneSessionPerRemote
<1>8. ASSUME NEW E, LiveConnected(E) PROVE LiveConnected(E)'
  <2>1. \A c \in Convs : live[c] # None =>
            kcp[live[c]].status = "Connected" \/ live[c] = s \/ live[c] \in E
    BY <1>1, <1>8 DEF LiveConnected, Accepted, Connected
  <2> QED BY <1>3, <1>4, <1>5, <2>1 DEF LiveConnected, Connected
<1>9. UnknownFree'
  BY <1>4 DEF UnknownFree, Idle
<1>10. AcceptedNewest' /\ StrandedReuses'
  <2>1. \A t \in Ids : ~Accepted(t)'
    BY <1>4 DEF Accepted, Idle
  <2>2. \A t \in Ids : Connected(t)' => Connected(t) \/ Accepted(t)
    BY <1>1, <1>3 DEF Connected, Accepted
  <2> QED BY <1>3, <1>4, <2>1, <2>2, StrandedKept
<1> QED BY <1>1, <1>3, <1>6, <1>7, <1>8, <1>9, <1>10

\* KcpSession::OnReceive: at most the session's conversation is closed.
LEMMA OnReceiveStep ==
    ASSUME TablesInv, OnReceive
    PROVE  /\ TablesInv' /\ Len(kcp') = Len(kcp) /\ rx.pc = "found"
           /\ \A E : LiveConnected(E) => LiveConnected(E)'
           /\ \A c \in Convs : live'[c] # None => live'[c] = live[c]
<1> DEFINE s == rx.session
           prepared == [kcp EXCEPT ![s] = Send(kcp[s], "error")]
<1>1. rx.pc = "found" /\ rx' = Idle
  BY DEF OnReceive
<1>2. s \in Ids /\ kcp \in Seq(Session)
  BY <1>1 DEF TablesInv, SessionsTypeOK, Idle
<1>3. kcp[s] \in Session /\ kcp[s].conv \in Convs
  <2>1. kcp[s] \in Session
    BY <1>2 DEF Ids
  <2> QED BY <2>1, SessionFields
<1>4. Prepared(kcp, {kcp[s].conv})
  BY <1>2 DEF Prepared
<1>5. Prepared(prepared, {kcp[s].conv})
  <2> DEFINE k == Send(kcp[s], "error")
  <2>1. /\ k \in Session /\ k.remote = kcp[s].remote /\ k.conv = kcp[s].conv
        /\ k.tick = kcp[s].tick /\ k.status = kcp[s].status
    BY <1>3, SendSame
  <2>2. prepared = [kcp EXCEPT ![s] = k]
    OBVIOUS
  <2> HIDE DEF k, prepared
  <2>3. prepared \in Seq(Session) /\ Len(prepared) = Len(kcp)
    BY <1>2, <2>1, <2>2 DEF Ids
  <2>4. \A t \in Ids : prepared[t] = IF t = s THEN k ELSE kcp[t]
    BY <1>2, <2>2 DEF Ids
  <2>5. \A c \in Convs : live[c] # None => live[c] \in Ids
    BY DEF TablesInv, SessionsTypeOK
  <2> QED BY <2>1, <2>3, <2>4, <2>5 DEF Prepared
<1>c. \A c \in {kcp[s].conv} : live[c] # None /\ Accepted(live[c]) => Reuses(live[c])
  BY <1>1 DEF Accepted
<1>6. CASE CloseSessions(prepared, {kcp[s].conv}, FALSE)
  <2> HIDE DEF prepared
  <2>1. /\ TablesInv' /\ Len(kcp') = Len(kcp)
        /\ \A E : LiveConnected(E) => LiveConnected(E)'
        /\ \A c \in {kcp[s].conv} : live'[c] = None
        /\ \A c \in Convs \ {kcp[s].conv} : live'[c] = live[c]
    BY <1>1, <1>3, <1>5, <1>6, <1>c, CloseSessionsStep
  <2> QED BY <1>1, <2>1
<1>7. CASE CloseSessions(kcp, {kcp[s].conv}, FALSE)
  <2>1. /\ TablesInv' /\ Len(kcp') = Len(kcp)
        /\ \A E : LiveConnected(E) => LiveConnected(E)'
        /\ \A c \in {kcp[s].conv} : live'[c] = None
        /\ \A c \in Convs \ {kcp[s].conv} : live'[c] = live[c]
    BY <1>1, <1>3, <1>4, <1>7, <1>c, CloseSessionsStep
  <2> QED BY <1>1, <2>1
<1>8. CASE UNCHANGED tables
  <2> USE <1>1, <1>8 DEF TablesInv, tables
  <2>1. SessionsTypeOK'
    BY DEF SessionsTypeOK, Ids
  <2>2. AtHome' /\ OneSessionPerRemote' /\ UnknownFree'
    BY DEF AtHome, OneSessionPerRemote, UnknownFree, Idle
  <2>3. ASSUME NEW E, LiveConnected(E) PROVE LiveConnected(E)'
    BY <2>3 DEF LiveConnected, Connected, Accepted, Idle
  <2>4. AcceptedNewest' /\ StrandedReuses'
    <3>1. \A t \in Ids : ~Accepted(t)'
      BY DEF Accepted, Idle
    <3>2. \A t \in Ids : Connected(t)' => Connected(t)
      BY DEF Connected
    <3> QED BY <3>1, <3>2, StrandedKept
  <2> QED BY <2>1, <2>2, <2>3, <2>4
<1> QED BY <1>6, <1>7, <1>8 DEF OnReceive

\* SocketServer::Update for a sleeping session: one that reaches the end of its keep-alive
\* leaves the table.
LEMMA SleepingStep ==
    ASSUME TablesInv, NEW c \in Convs, UpdateSleeping(c)
    PROVE  /\ TablesInv' /\ Len(kcp') = Len(kcp) /\ live' = live /\ rx' = rx
           /\ \A E : LiveConnected(E) => LiveConnected(E)'
<1> USE DEF TablesInv
<1> DEFINE s == sleeping[c]
           k == [kcp[s] EXCEPT !.tick = @ + 1]
<1>1. /\ s # None /\ kcp' = [kcp EXCEPT ![s].tick = @ + 1]
      /\ sleeping' = IF kcp[s].tick + 1 = KeepTicks THEN [sleeping EXCEPT ![c] = None] ELSE sleeping
      /\ live' = live /\ rx' = rx
  BY DEF UpdateSleeping
<1>2. /\ kcp \in Seq(Session) /\ s \in Ids /\ kcp[s] \in Session
      /\ kcp[s].tick \in 0..KeepTicks /\ kcp[s].tick < KeepTicks /\ KeepTicks \in Nat
  <2>1. kcp \in Seq(Session) /\ s \in Ids
    BY <1>1 DEF SessionsTypeOK
  <2>2. kcp[s] \in Session
    BY <2>1 DEF Ids
  <2> QED BY <1>1, <2>1, <2>2, SessionsAssumption DEF Session, AtHome, SessionsAssumption
<1>3. /\ k \in Session /\ k.remote = kcp[s].remote /\ k.conv = kcp[s].conv
      /\ k.status = kcp[s].status /\ k.tick = kcp[s].tick + 1
  <2>1. kcp[s].tick + 1 \in 0..KeepTicks
    BY <1>2
  <2> QED BY <1>2, <2>1, TickSame
<1>4. /\ kcp' \in Seq(Session) /\ Len(kcp') = Len(kcp) /\ Ids' = Ids
      /\ \A t \in Ids : kcp'[t] = IF t = s THEN k ELSE kcp[t]
  <2>1. kcp' = [kcp EXCEPT ![s] = k]
    BY <1>1
  <2> HIDE DEF k
  <2> QED BY <1>2, <1>3, <2>1 DEF Ids
<1> HIDE DEF k
<1>5. SessionsTypeOK'
  <2>1. sleeping' \in [Convs -> {None} \cup Ids]
    BY <1>1 DEF SessionsTypeOK
  <2> QED BY <1>1, <1>4, <2>1 DEF SessionsTypeOK
<1>6. \A d \in Convs : /\ live[d] # None => live[d] \in Ids
                       /\ sleeping[d] # None => sleeping[d] \in Ids
  BY DEF SessionsTypeOK
<1>7. AtHome'
  <2>1. \A d \in Convs : live'[d] # None => kcp'[live'[d]].conv = d
    BY <1>1, <1>3, <1>4, <1>6 DEF AtHome
  <2>2. ASSUME NEW d \in Convs, sleeping'[d] # None
        PROVE  kcp'[sleeping'[d]].conv = d /\ kcp'[sleeping'[d]].tick < KeepTicks
    <3>1. sleeping'[d] = sleeping[d] /\ (d = c => kcp[s].tick + 1 # KeepTicks)
      BY <1>1, <2>2 DEF SessionsTypeOK
    <3>2. CASE d = c
      <4>1. kcp[s].tick + 1 < KeepTicks
        BY <1>2, <3>1, <3>2
      <4>2. kcp'[sleeping'[d]] = k
        BY <1>2, <1>4, <3>1, <3>2
      <4>3. kcp[s].conv = c
        BY <1>1 DEF AtHome
      <4> QED BY <1>3, <3>2, <4>1, <4>2, <4>3
    <3>3. CASE d # c
      <4>1. sleeping[d] # s
        BY <1>1, <2>2, <3>1, <3>3 DEF AtHome
      <4> QED BY <1>4, <1>6, <2>2, <3>1, <4>1 DEF AtHome
    <3> QED BY <3>2, <3>3
  <2> QED BY <2>1, <2>2 DEF AtHome
<1>8. OneSessionPerRemote'
  BY <1>1, <1>3, <1>4, <1>6 DEF OneSessionPerRemote
<1>9. ASSUME NEW E, LiveConnected(E) PROVE LiveConnected(E)'
  BY <1>1, <1>3, <1>4, <1>6, <1>9 DEF LiveConnected, Connected, Accepted
<1>10. UnknownFree'
  BY <1>1, <1>3, <1>4, <1>6 DEF UnknownFree
<1>11. AcceptedNewest' /\ StrandedReuses'
  <2>1. \A t \in Ids : Accepted(t)' => Accepted(t)
    BY <1>1 DEF Accepted
  <2>2. \A t \in Ids : kcp'[t].conv = kcp[t].conv /\ (Connected(t)' => Connected(t))
    BY <1>3, <1>4 DEF Connected
  <2> QED BY <1>1, <1>4, <2>1, <2>2, StrandedKept
<1> QED BY <1>1, <1>4, <1>5, <1>7, <1>8, <1>9, <1>10, <1>11

\* KcpSession::Close of sessions in S that were greeted: what stays live is in none of them.
\* The session about to be greeted is closed with them only if it reuses a conversation.
LEMMA CloseStep ==
    ASSUME TablesInv, LiveConnected({}), NEW S \in SUBSET Ids, Close(S), rx' = rx,
           \A s \in S : ~Accepted(s)
    PROVE  /\ TablesInv' /\ LiveConnected({})' /\ Len(kcp') = Len(kcp)
           /\ \A c \in Convs : live'[c] # None => live'[c] = live[c] /\ live[c] \notin S
<1>1. kcp \in Seq(Session) /\ \A s \in Ids : kcp[s] \in Session /\ kcp[s].conv \in Convs
  <2>1. kcp \in Seq(Session)
    BY DEF TablesInv, SessionsTypeOK
  <2>2. \A s \in Ids : kcp[s] \in Session
    BY <2>1 DEF Ids
  <2> QED BY <2>1, <2>2, SessionFields
<1>2. ToClose(S) \in SUBSET Convs
  BY <1>1 DEF ToClose
<1>3. Prepared(kcp, ToClose(S))
  BY <1>1 DEF Prepared
<1>4. /\ TablesInv' /\ LiveConnected({})' /\ Len(kcp') = Len(kcp)
      /\ \A c \in ToClose(S) : live'[c] = None
      /\ \A c \in Convs \ ToClose(S) : live'[c] = live[c]
  <2>1. ASSUME NEW c \in ToClose(S), live[c] # None, Accepted(live[c]) PROVE Reuses(live[c])
    <3>1. live[c] \in Ids /\ live[c] = Len(kcp) /\ kcp[live[c]].conv = c
      BY <1>2, <2>1 DEF TablesInv, SessionsTypeOK, AcceptedNewest, AtHome
    <3>2. PICK t \in S : kcp[t].conv = c
      BY DEF ToClose
    <3>3. t \in Ids /\ t # live[c]
      BY <2>1
    <3> QED BY <1>1, <3>1, <3>2, <3>3 DEF Reuses, Ids
  <2> QED BY <1>2, <1>3, <2>1, CloseSessionsStep DEF Close
<1>5. ASSUME NEW c \in Convs, live'[c] # None, live[c] \in S PROVE FALSE
  <2>1. c \notin ToClose(S) /\ live[c] # None
    BY <1>4, <1>5
  <2>2. kcp[live[c]].conv = c
    BY <2>1 DEF TablesInv, AtHome
  <2>3. kcp[live[c]].status = "Disconnected"
    BY <1>5, <2>1, <2>2 DEF ToClose
  <2> QED BY <1>5, <2>1, <2>3 DEF TablesInv, LiveConnected, Connected
<1> QED BY <1>2, <1>4, <1>5

-----------------------------------------------------------------------------
(* What becomes of a session, whatever the tables do with it. *)

\* What session k was made to send.
Said(k) == {k.sent[i] : i \in DOMAIN k.sent}

\* A session keeps its remote and its conversation and unsays nothing, and the other side is
\* told when it stops being connected.
Evolves(k, d) ==
    /\ d.remote = k.remote /\ d.conv = k.conv
    /\ Said(k) \subseteq Said(d)
    /\ k.status = "Connected" /\ d.status # "Connected" /\ "disconnect" \in Recorded => "disconnect" \in Said(d)

\* The other side is told once that a session ended, and not while it counts as connected.
ToldOnce(k) ==
    /\ \A i, j \in DOMAIN k.sent : k.sent[i] = "disconnect" /\ k.sent[j] = "disconnect" => i = j
    /\ k.status = "Connected" => "disconnect" \notin Said(k)

\* Session d tells the other side of its end only if k did.
Quiet(k, d) == "disconnect" \in Said(d) => "disconnect" \in Said(k)

\* A step that may close sessions: none becomes connected, one that stays so stays live, and one that stays
\* live is not told to end.
Closing ==
    \A s \in Ids : /\ Evolves(kcp[s], kcp'[s])
                   /\ kcp'[s].status = "Connected" => kcp[s].status = "Connected"
                   /\ kcp'[s].status = "Connected" /\ live[kcp[s].conv] = s => live'[kcp[s].conv] = s
                   /\ ToldOnce(kcp[s]) => ToldOnce(kcp'[s])
                   /\ live[kcp[s].conv] = s /\ live'[kcp[s].conv] = s => Quiet(kcp[s], kcp'[s])

\* KcpSession::Send.
LEMMA SendEvolves ==
    ASSUME NEW k \in Session, NEW m
    PROVE  Evolves(k, Send(k, m)) /\ (m \in Recorded => m \in Said(Send(k, m)))
<1>1. CASE m \in Recorded
  <2>1. /\ k.sent \in Seq(Recorded) /\ Send(k, m) = [k EXCEPT !.sent = Append(k.sent, m)]
    BY <1>1 DEF Session, Send
  <2>2. Send(k, m).sent = Append(k.sent, m)
    BY <2>1 DEF Session
  <2>3. Said(Send(k, m)) = Said(k) \cup {m}
    <3> DEFINE q == k.sent
               r == Append(q, m)
    <3>1. q \in Seq(Recorded) /\ m \in Recorded
      BY <1>1, <2>1
    <3> HIDE DEF q
    <3>2. /\ DOMAIN q = 1..Len(q) /\ DOMAIN r = 1..(Len(q) + 1) /\ Len(q) \in Nat
          /\ r[Len(q) + 1] = m /\ \A i \in 1..Len(q) : r[i] = q[i]
      BY <3>1
    <3>3. 1..(Len(q) + 1) = 1..Len(q) \cup {Len(q) + 1}
      BY <3>2
    <3> HIDE DEF r
    <3>4. {r[i] : i \in DOMAIN r} = {q[i] : i \in DOMAIN q} \cup {m}
      BY <3>2, <3>3
    <3> QED BY <2>2, <3>4 DEF Said, q, r
  <2>4. Send(k, m).remote = k.remote /\ Send(k, m).conv = k.conv /\ Send(k, m).status = k.status
    BY SendSame
  <2> QED BY <2>3, <2>4 DEF Evolves
<1>2. CASE m \notin Recorded
  BY <1>2 DEF Send, Evolves
<1> QED BY <1>1, <1>2

\* KcpSession::OnDisconnected.
LEMMA DisconnectedEvolves ==
    ASSUME NEW k \in Session, NEW immediately \in BOOLEAN
    PROVE  Evolves(k, OnDisconnected(k, immediately))
<1> DEFINE off == [k EXCEPT !.status = "Disconnected"]
           told == IF k.status = "Disconnected" THEN k ELSE Send(off, "disconnect")
<1>1. off \in Session /\ off.remote = k.remote /\ off.conv = k.conv /\ Said(off) = Said(k)
  BY DEF Session, Statuses, Said
<1>2. /\ told \in Session /\ Evolves(k, told)
      /\ k.status # "Disconnected" /\ "disconnect" \in Recorded => "disconnect" \in Said(told)
  <2>1. Send(off, "disconnect") \in Session
    BY <1>1, SendSame
  <2>2. /\ Evolves(off, Send(off, "disconnect"))
        /\ "disconnect" \in Recorded => "disconnect" \in Said(Send(off, "disconnect"))
    BY <1>1, SendEvolves
  <2> HIDE DEF off
  <2>3. CASE k.status = "Disconnected"
    BY <2>3 DEF Evolves
  <2>4. CASE k.status # "Disconnected"
    BY <1>1, <2>1, <2>2, <2>4 DEF Evolves
  <2> QED BY <2>3, <2>4
<1>3. OnDisconnected(k, immediately) = IF immediately THEN told ELSE [told EXCEPT !.alive = FALSE, !.tick = 0]
  BY DEF OnDisconnected
<1> HIDE DEF told
<1>4. LET e == [told EXCEPT !.alive = FALSE, !.tick = 0]
      IN  e.remote = told.remote /\ e.conv = told.conv /\ Said(e) = Said(told)
  BY <1>2 DEF Session, Said
<1>5. LET d == OnDisconnected(k, immediately)
      IN  d.remote = told.remote /\ d.conv = told.conv /\ Said(d) = Said(told)
  BY <1>3, <1>4
<1>6. k.status = "Connected" => k.status # "Disconnected"
  OBVIOUS
<1> QED BY <1>2, <1>5, <1>6 DEF Evolves

\* What KcpSession::Send of a recorded message makes of what was sent.
LEMMA SentAppended ==
    ASSUME NEW k \in Session, NEW m \in Recorded
    PROVE  LET d == Send(k, m) IN
           /\ d.status = k.status
           /\ \E n \in Nat : /\ DOMAIN k.sent = 1..n /\ DOMAIN d.sent = 1..(n + 1)
                             /\ d.sent[n + 1] = m /\ \A i \in 1..n : d.sent[i] = k.sent[i]
<1> DEFINE q == k.sent
           r == Append(q, m)
<1>1. q \in Seq(Recorded)
  BY DEF Session
<1>2. Send(k, m).sent = r /\ Send(k, m).status = k.status
  BY DEF Send, Session
<1> HIDE DEF q
<1>3. /\ Len(q) \in Nat /\ DOMAIN q = 1..Len(q) /\ DOMAIN r = 1..(Len(q) + 1)
      /\ r[Len(q) + 1] = m /\ \A i \in 1..Len(q) : r[i] = q[i]
  BY <1>1
<1> HIDE DEF r
<1> QED BY <1>2, <1>3 DEF q

\* A message that is no DISCONNECT.
LEMMA SendQuiet ==
    ASSUME NEW k \in Session, NEW m, m # "disconnect"
    PROVE  (ToldOnce(k) => ToldOnce(Send(k, m))) /\ Quiet(k, Send(k, m))
<1>1. CASE m \notin Recorded
  BY <1>1 DEF Send, Quiet
<1>2. CASE m \in Recorded
  <2> DEFINE d == Send(k, m)
  <2>1. PICK n \in Nat : /\ DOMAIN k.sent = 1..n /\ DOMAIN d.sent = 1..(n + 1)
                         /\ d.sent[n + 1] = m /\ \A i \in 1..n : d.sent[i] = k.sent[i]
    BY <1>2, SentAppended
  <2>2. d.status = k.status
    BY <1>2, SentAppended
  <2> HIDE DEF d
  <2>3. \A i \in DOMAIN d.sent : d.sent[i] = "disconnect" => i \in DOMAIN k.sent /\ k.sent[i] = "disconnect"
    BY <2>1
  <2>4. Quiet(k, d)
    BY <2>3 DEF Quiet, Said
  <2>5. ToldOnce(k) => ToldOnce(d)
    BY <2>2, <2>3, <2>4, Zenon DEF ToldOnce, Quiet
  <2> QED BY <2>4, <2>5 DEF d
<1> QED BY <1>1, <1>2

\* KcpSession::OnDisconnected sends the DISCONNECT only when it takes the status from Connected.
LEMMA DisconnectedToldOnce ==
    ASSUME NEW k \in Session, NEW immediately \in BOOLEAN, ToldOnce(k)
    PROVE  ToldOnce(OnDisconnected(k, immediately))
<1> DEFINE off == [k EXCEPT !.status = "Disconnected"]
           said == Send(off, "disconnect")
           told == IF k.status = "Disconnected" THEN k ELSE said
<1>1. off \in Session /\ off.sent = k.sent /\ off.status = "Disconnected"
  BY DEF Session, Statuses
<1>2. k.status = "Connected" \/ k.status = "Disconnected"
  BY DEF Session, Statuses
<1> HIDE DEF off
<1>3. ASSUME k.status = "Connected" PROVE ToldOnce(said)
  <2>1. \A i \in DOMAIN off.sent : off.sent[i] # "disconnect"
    BY <1>1, <1>3 DEF ToldOnce, Said
  <2>2. CASE "disconnect" \notin Recorded
    BY <1>1, <2>1, <2>2 DEF Send, ToldOnce
  <2>3. CASE "disconnect" \in Recorded
    <3>1. PICK n \in Nat :
            /\ DOMAIN off.sent = 1..n /\ DOMAIN said.sent = 1..(n + 1)
            /\ said.sent[n + 1] = "disconnect" /\ \A i \in 1..n : said.sent[i] = off.sent[i]
      BY <1>1, <2>3, SentAppended
    <3>2. said.status = "Disconnected"
      BY <1>1, <2>3, SentAppended
    <3> HIDE DEF said
    <3>3. \A i \in DOMAIN said.sent : said.sent[i] = "disconnect" => i = n + 1
      BY <2>1, <3>1
    <3> QED BY <3>2, <3>3 DEF ToldOnce
  <2> QED BY <2>2, <2>3
<1>4. told \in Session
  BY <1>1, SendSame
<1> HIDE DEF said
<1>5. ToldOnce(told)
  BY <1>2, <1>3
<1>6. OnDisconnected(k, immediately) = IF immediately THEN told ELSE [told EXCEPT !.alive = FALSE, !.tick = 0]
  BY DEF OnDisconnected, said, off
<1> HIDE DEF told
<1>7. LET e == [told EXCEPT !.alive = FALSE, !.tick = 0] IN e.sent = told.sent /\ e.status = told.status
  BY <1>4 DEF Session
<1>8. LET d == OnDisconnected(k, immediately) IN d.sent = told.sent /\ d.status = told.status
  BY <1>6, <1>7
<1> QED BY <1>5, <1>8 DEF ToldOnce, Said

\* SocketServer::CloseSession.
LEMMA CloseSessionsCloses ==
    ASSUME TablesInv, NEW before, NEW C \in SUBSET Convs, NEW remove \in BOOLEAN,
           Prepared(before, C), \A s \in Ids : Evolves(kcp[s], before[s]), CloseSessions(before, C, remove),
           \A s \in Ids : /\ ToldOnce(kcp[s]) => ToldOnce(before[s])
                          /\ kcp[s].conv \notin C => Quiet(kcp[s], before[s])
    PROVE  Closing
<1> DEFINE closed == {live[c] : c \in C} \ {None}
<1>1. /\ kcp' = [s \in DOMAIN before |->
                   IF s \in closed THEN OnDisconnected(before[s], remove) ELSE before[s]]
      /\ live' = [c \in Convs |-> IF c \in C THEN None ELSE live[c]]
  BY DEF CloseSessions
<1>2. /\ kcp \in Seq(Session) /\ before \in Seq(Session) /\ DOMAIN before = Ids
      /\ \A s \in Ids : before[s] \in Session /\ kcp[s] \in Session
  <2>1. kcp \in Seq(Session) /\ before \in Seq(Session) /\ Len(before) = Len(kcp)
    BY DEF TablesInv, SessionsTypeOK, Prepared
  <2> QED BY <2>1 DEF Ids
<1>3. ASSUME NEW s \in Ids
      PROVE  /\ Evolves(kcp[s], kcp'[s])
             /\ kcp'[s].status = "Connected" => kcp[s].status = "Connected"
             /\ kcp'[s].status = "Connected" /\ live[kcp[s].conv] = s => live'[kcp[s].conv] = s
             /\ ToldOnce(kcp[s]) => ToldOnce(kcp'[s])
             /\ live[kcp[s].conv] = s /\ live'[kcp[s].conv] = s => Quiet(kcp[s], kcp'[s])
  <2> DEFINE k == kcp[s]
             b == before[s]
             d == OnDisconnected(b, remove)
             c == k.conv
  <2>1. b \in Session /\ k \in Session /\ Evolves(k, b) /\ b.status \in {k.status, "Disconnected"}
    BY <1>2 DEF Prepared
  <2>2. Evolves(b, d) /\ d.status = "Disconnected"
    BY <2>1, DisconnectedEvolves, DisconnectedSame
  <2>3. c \in Convs
    BY <2>1, SessionFields
  <2>4. kcp'[s] = IF s \in closed THEN d ELSE b
    BY <1>1, <1>2
  <2>5. live'[c] = IF c \in C THEN None ELSE live[c]
    BY <1>1, <2>3
  <2>6. c \in C /\ live[c] = s => s \in closed
    BY DEF Ids, None
  <2>7. ToldOnce(k) => ToldOnce(b) /\ ToldOnce(d)
    BY <2>1, DisconnectedToldOnce
  <2>8. s \in closed => c \in C
    BY DEF TablesInv, AtHome
  <2>9. c \notin C => Quiet(k, b)
    OBVIOUS
  <2>10. s # None
    BY DEF Ids, None
  <2> HIDE DEF k, b, d, c, closed
  <2>11. Evolves(k, d)
    BY <2>1, <2>2 DEF Evolves
  <2>12. Evolves(k, kcp'[s])
    BY <2>1, <2>4, <2>11
  <2>13. kcp'[s].status = "Connected" => k.status = "Connected" /\ s \notin closed
    BY <2>1, <2>2, <2>4
  <2>14. kcp'[s].status = "Connected" /\ live[c] = s => live'[c] = s
    BY <2>5, <2>6, <2>13
  <2>15. ToldOnce(k) => ToldOnce(kcp'[s])
    BY <2>4, <2>7
  <2>16. live[c] = s /\ live'[c] = s => Quiet(k, kcp'[s])
    BY <2>4, <2>5, <2>8, <2>9, <2>10
  <2> QED BY <2>12, <2>13, <2>14, <2>15, <2>16 DEF k, c
<1> QED BY <1>3 DEF Closing

\* KcpSession::Close.
LEMMA CloseCloses == ASSUME TablesInv, NEW S \in SUBSET Ids, Close(S) PROVE Closing
<1>1. kcp \in Seq(Session) /\ \A s \in Ids : kcp[s] \in Session /\ kcp[s].conv \in Convs
  <2>1. kcp \in Seq(Session)
    BY DEF TablesInv, SessionsTypeOK
  <2>2. \A s \in Ids : kcp[s] \in Session
    BY <2>1 DEF Ids
  <2> QED BY <2>1, <2>2, SessionFields
<1>2. ToClose(S) \in SUBSET Convs
  BY <1>1 DEF ToClose
<1>3. Prepared(kcp, ToClose(S))
  BY <1>1 DEF Prepared
<1>4. \A s \in Ids : Evolves(kcp[s], kcp[s]) /\ Quiet(kcp[s], kcp[s])
  BY DEF Evolves, Quiet
<1> QED BY <1>2, <1>3, <1>4, CloseSessionsCloses DEF Close

\* Leaving the tables alone.
LEMMA NothingCloses == UNCHANGED tables => Closing
  BY DEF Closing, Evolves, ToldOnce, Quiet, Said, tables

\* KcpSession::OnReceive.
LEMMA OnReceiveCloses == ASSUME TablesInv, OnReceive PROVE Closing
<1> DEFINE s == rx.session
           k == Send(kcp[s], "error")
           prepared == [kcp EXCEPT ![s] = k]
           C == {kcp[s].conv}
<1>1. s \in Ids /\ kcp \in Seq(Session)
  BY DEF OnReceive, TablesInv, SessionsTypeOK, Idle
<1>2. kcp[s] \in Session
  BY <1>1 DEF Ids
<1>3. C \in SUBSET Convs
  BY <1>2, SessionFields
<1>4. /\ k \in Session /\ k.remote = kcp[s].remote /\ k.conv = kcp[s].conv
      /\ k.tick = kcp[s].tick /\ k.status = kcp[s].status /\ Evolves(kcp[s], k)
      /\ (ToldOnce(kcp[s]) => ToldOnce(k)) /\ Quiet(kcp[s], k)
  <2>1. "error" # "disconnect"
    OBVIOUS
  <2> QED BY <1>2, <2>1, SendSame, SendEvolves, SendQuiet
<1>5. OnReceive => CloseSessions(prepared, C, FALSE) \/ CloseSessions(kcp, C, FALSE) \/ UNCHANGED tables
  BY DEF OnReceive
<1> HIDE DEF k, C
<1>6. \A t \in Ids : Evolves(kcp[t], kcp[t]) /\ Quiet(kcp[t], kcp[t])
  BY DEF Evolves, Quiet
<1>7. /\ prepared \in Seq(Session) /\ Len(prepared) = Len(kcp)
      /\ \A t \in Ids : prepared[t] = IF t = s THEN k ELSE kcp[t]
  BY <1>1, <1>4 DEF Ids
<1>8. \A c \in Convs : live[c] # None => live[c] \in Ids
  BY DEF TablesInv, SessionsTypeOK
<1> HIDE DEF prepared, s
<1>9. /\ Prepared(prepared, C)
      /\ \A t \in Ids : /\ Evolves(kcp[t], prepared[t]) /\ Quiet(kcp[t], prepared[t])
                        /\ ToldOnce(kcp[t]) => ToldOnce(prepared[t])
  BY <1>4, <1>6, <1>7, <1>8 DEF Prepared
<1>10. Prepared(kcp, C)
  BY <1>1 DEF Prepared
<1> QED BY <1>3, <1>5, <1>6, <1>9, <1>10, CloseSessionsCloses, NothingCloses

\* SocketServer::Update for a sleeping session.
LEMMA SleepingCloses == ASSUME TablesInv, NEW c \in Convs, UpdateSleeping(c) PROVE Closing
<1> DEFINE s == sleeping[c]
           k == [kcp[s] EXCEPT !.tick = @ + 1]
<1>1. kcp' = [kcp EXCEPT ![s] = k] /\ live' = live /\ s \in Ids /\ kcp \in Seq(Session)
  BY DEF UpdateSleeping, TablesInv, SessionsTypeOK
<1>2. kcp[s] \in Session
  BY <1>1 DEF Ids
<1>3. Evolves(kcp[s], k) /\ k.status = kcp[s].status /\ (ToldOnce(kcp[s]) => ToldOnce(k)) /\ Quiet(kcp[s], k)
  <2>1. k.sent = kcp[s].sent /\ k.status = kcp[s].status /\ k.remote = kcp[s].remote /\ k.conv = kcp[s].conv
    BY <1>2 DEF Session
  <2> HIDE DEF k, s
  <2> QED BY <2>1 DEF Evolves, Said, ToldOnce, Quiet
<1> HIDE DEF k, s
<1>4. \A t \in Ids : kcp'[t] = IF t = s THEN k ELSE kcp[t]
  BY <1>1 DEF Ids
<1>5. \A t \in Ids : Evolves(kcp[t], kcp[t]) /\ Quiet(kcp[t], kcp[t])
  BY DEF Evolves, Quiet
<1> QED BY <1>1, <1>3, <1>4, <1>5 DEF Closing

\* KcpSession::OnConnected.
LEMMA ConnectedEvolves ==
    ASSUME TablesInv, OnConnected
    PROVE  \A t \in Ids : /\ Evolves(kcp[t], kcp'[t])
                          /\ kcp'[t].status = IF t = rx.session THEN "Connected" ELSE kcp[t].status
<1> DEFINE s == rx.session
           t == Send(kcp[s], "accept")
           k == [t EXCEPT !.alive = TRUE, !.status = "Connected"]
<1>1. kcp' = [kcp EXCEPT ![s] = k] /\ s \in Ids /\ kcp \in Seq(Session)
  BY DEF OnConnected, TablesInv, SessionsTypeOK, Idle
<1>2. kcp[s] \in Session
  BY <1>1 DEF Ids
<1>3. t \in Session /\ Evolves(kcp[s], t)
  BY <1>2, SendSame, SendEvolves
<1> HIDE DEF t
<1>4. k.remote = t.remote /\ k.conv = t.conv /\ Said(k) = Said(t) /\ k.status = "Connected"
  BY <1>3 DEF Session, Said
<1> HIDE DEF k, s
<1>5. Evolves(kcp[s], k)
  BY <1>3, <1>4 DEF Evolves
<1>6. \A u \in Ids : kcp'[u] = IF u = s THEN k ELSE kcp[u]
  BY <1>1 DEF Ids
<1>7. \A u \in Ids : Evolves(kcp[u], kcp[u])
  BY DEF Evolves
<1> QED BY <1>4, <1>5, <1>6, <1>7 DEF s

\* However its end is reached, by World, a timeout or a wrong datagram, a session sends one
\* DISCONNECT, and none while it counts as connected (KcpSession::OnDisconnected).
EndToldOnce == \A s \in Ids : ToldOnce(kcp[s])

\* The session that is about to be greeted has not told its end either.
Untold == EndToldOnce /\ \A s \in Ids : Accepted(s) => "disconnect" \notin Said(kcp[s])

\* Closing, as long as it leaves alone the session that is about to be greeted.
LEMMA ClosingUntold ==
    ASSUME Untold, Closing, Len(kcp') = Len(kcp),
           \A s \in Ids : Accepted(s)' => Accepted(s) /\ live[kcp[s].conv] = s /\ live'[kcp[s].conv] = s
    PROVE  Untold'
<1>1. Ids' = Ids
  BY DEF Ids
<1>2. ASSUME NEW s \in Ids PROVE ToldOnce(kcp'[s]) /\ (Accepted(s)' => "disconnect" \notin Said(kcp'[s]))
  <2>1. ToldOnce(kcp'[s])
    BY DEF Untold, EndToldOnce, Closing
  <2>2. ASSUME Accepted(s)' PROVE "disconnect" \notin Said(kcp'[s])
    BY <2>2 DEF Untold, EndToldOnce, Closing, Quiet
  <2> QED BY <2>1, <2>2
<1> QED BY <1>1, <1>2 DEF Untold, EndToldOnce

\* OnAccept: a new session has told nothing.
LEMMA AcceptUntold ==
    ASSUME TablesInv, Untold, Accept
    PROVE  Untold'
<1>1. PICK status \in Statuses : kcp' = Append(kcp, Created(rx.remote, status))
  BY DEF Accept
<1> DEFINE k == Created(rx.remote, status)
           n == Len(kcp) + 1
<1>2. kcp \in Seq(Session)
  BY DEF TablesInv, SessionsTypeOK
<1>3. k.sent = <<>>
  BY DEF Created
<1>4. kcp' = Append(kcp, k)
  BY <1>1
<1> HIDE DEF k
<1>5. \A e : LET r == Append(kcp, e)
            IN  Len(r) = n /\ r[n] = e /\ \A s \in 1..Len(kcp) : r[s] = kcp[s]
  BY <1>2
<1>6. /\ Len(kcp) \in Nat /\ Len(kcp') = n /\ kcp'[n] = k /\ \A s \in 1..Len(kcp) : kcp'[s] = kcp[s]
  BY <1>2, <1>4, <1>5
<1>7. \A s \in Ids' : s \in Ids \/ s = n
  BY <1>6 DEF Ids
<1>8. n \notin Ids /\ \A s : Accepted(s)' <=> s = n
  BY <1>6 DEF Ids, Accept, Accepted
<1>9. ToldOnce(k) /\ Said(k) = {}
  BY <1>3 DEF ToldOnce, Said
<1>10. \A s \in Ids : kcp'[s] = kcp[s] /\ s # n
  BY <1>6, <1>8 DEF Ids
<1> HIDE DEF n
<1> QED BY <1>6, <1>7, <1>8, <1>9, <1>10 DEF Untold, EndToldOnce

\* OnConnected: the acceptance is no DISCONNECT.
LEMMA ConnectedUntold ==
    ASSUME TablesInv, Untold, OnConnected
    PROVE  Untold'
<1> DEFINE s == rx.session
           t == Send(kcp[s], "accept")
           k == [t EXCEPT !.alive = TRUE, !.status = "Connected"]
<1>1. kcp' = [kcp EXCEPT ![s] = k] /\ s \in Ids /\ kcp \in Seq(Session) /\ rx' = Idle /\ Accepted(s)
  BY DEF OnConnected, TablesInv, SessionsTypeOK, Idle, Accepted
<1>2. kcp[s] \in Session
  BY <1>1 DEF Ids
<1>3. t \in Session /\ (ToldOnce(kcp[s]) => ToldOnce(t)) /\ Quiet(kcp[s], t)
  <2>1. "accept" # "disconnect"
    OBVIOUS
  <2> QED BY <1>2, <2>1, SendSame, SendQuiet
<1> HIDE DEF t
<1>4. k.sent = t.sent
  BY <1>3 DEF Session
<1> HIDE DEF k
<1>5. ToldOnce(k)
  <2>1. ToldOnce(t) /\ "disconnect" \notin Said(t)
    BY <1>1, <1>3 DEF Untold, EndToldOnce, Quiet
  <2> QED BY <1>4, <2>1 DEF ToldOnce, Said
<1> HIDE DEF s
<1>6. Ids' = Ids /\ \A u \in Ids : kcp'[u] = IF u = s THEN k ELSE kcp[u]
  BY <1>1 DEF Ids
<1>7. \A u : ~Accepted(u)'
  BY <1>1 DEF Accepted, Idle
<1> QED BY <1>5, <1>6, <1>7 DEF Untold, EndToldOnce

=============================================================================
