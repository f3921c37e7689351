------------------------------ MODULE KcpProofs ------------------------------
(***************************************************************************)
(* Theorems about Kcp, for any two ends, windows, messages and network:    *)
(* the four invariants TLC checks, and that a conversation implements      *)
(* ReliableChannel.                                                        *)
(*                                                                         *)
(* The argument names, for each end, the stream: all the fragments it was  *)
(* ever given, in order, so that the fragment with sequence number s is    *)
(* the stream's (s + 1)-th wherever it is -- queued, unacknowledged, in    *)
(* the network, waiting out of order or already in order at the peer.  The *)
(* model keeps no such variable; the invariant says that a stream exists.  *)
(***************************************************************************)
EXTENDS Kcp, SequenceTheorems, WellFoundedInduction, TLAPS

Segments == UNION {[D -> Fragment] : D \in SUBSET Nat}

Datagrams == [from : Endpoints, wnd : 0..RcvWnd, una : Nat, acks : SUBSET Nat,
              cmds : SUBSET {"WASK", "WINS"}, push : SUBSET [sn : Nat, data : Fragment]]

-----------------------------------------------------------------------------
(* The inductive invariant. *)

\* KcpTypeOK with what it leaves open: every variable is a function of the ends, and the datagrams' fields.
Typed ==
    /\ KcpTypeOK
    /\ snd_una \in [Endpoints -> Nat] /\ snd_nxt \in [Endpoints -> Nat] /\ rcv_nxt \in [Endpoints -> Nat]
    /\ snd_buf \in [Endpoints -> Segments] /\ rcv_buf \in [Endpoints -> Segments]
    /\ fastack \in [Endpoints -> SUBSET Nat] /\ acklist \in [Endpoints -> SUBSET Nat]
    /\ rcv_queue \in [Endpoints -> Seq(Fragment)]
    /\ \A e \in Endpoints : snd_una[e] <= snd_nxt[e]
    /\ net \subseteq Datagrams

\* End f has received the segment with sequence number s.
Has(f, s) == s < rcv_nxt[f] \/ s \in DOMAIN rcv_buf[f]

\* An acknowledgement, queued or in flight, is of a segment its sender has received.
AcksTrue ==
    /\ \A f \in Endpoints : \A s \in acklist[f] : Has(f, s)
    /\ \A d \in net : d.una <= rcv_nxt[d.from] /\ \A s \in d.acks : Has(d.from, s)

\* What end e has queued, has not seen acknowledged and has in flight is a part of the stream st.
SendSide(e, st) ==
    /\ Len(st) = snd_nxt[e] + Len(snd_queue[e])
    /\ \A j \in 1..Len(snd_queue[e]) : snd_queue[e][j] = st[snd_nxt[e] + j]
    /\ \A s \in DOMAIN snd_buf[e] : snd_buf[e][s] = st[s + 1]

InFlight(e, st) ==
    \A d \in net : d.from = e => \A seg \in d.push : seg.sn < snd_nxt[e] /\ seg.data = st[seg.sn + 1]

\* What the peer of end e has received and not read is a part of the stream st.
RecvSide(e, st) ==
    LET f == Peer(e) IN
    /\ rcv_nxt[f] <= snd_nxt[e]
    /\ \A s \in DOMAIN rcv_buf[f] : s < snd_nxt[e] /\ rcv_buf[f][s] = st[s + 1]
    /\ Len(rcv_queue[f]) <= rcv_nxt[f]
    /\ \A j \in 1..Len(rcv_queue[f]) : rcv_queue[f][j] = st[rcv_nxt[f] - Len(rcv_queue[f]) + j]

\* The stream is the messages of end e one after the other; message i starts after at[i] fragments.
Composed(e, st, at) ==
    /\ Len(sent[e]) <= Len(Script[e])
    /\ Len(at) = Len(sent[e]) + 1
    /\ at[Len(at)] = Len(st)
    /\ \A i \in 1..Len(sent[e]) :
        /\ sent[e][i] = FragmentsOf(e, i)
        /\ at[i + 1] = at[i] + Script[e][i]
        /\ at[i + 1] <= Len(st)
        /\ \A j \in 1..Script[e][i] : st[at[i] + j] = [msg |-> i, frg |-> Script[e][i] - j]

\* The peer of end e has read its first messages, and its queue starts where the next one does.
ReadUpTo(e, at) ==
    LET f == Peer(e) IN
    /\ Len(got[f]) <= Len(sent[e])
    /\ \A i \in 1..Len(got[f]) : got[f][i] = sent[e][i]
    /\ rcv_nxt[f] - Len(rcv_queue[f]) = at[Len(got[f]) + 1]

StreamOf(e, st, at) ==
    /\ SendSide(e, st)
    /\ InFlight(e, st)
    /\ RecvSide(e, st)
    /\ Composed(e, st, at)
    /\ ReadUpTo(e, at)

Streams == \A e \in Endpoints : \E st \in Seq(Fragment), at \in Seq(Nat) : StreamOf(e, st, at)

IInv == Typed /\ SendWindow /\ NothingStranded /\ AcksTrue /\ AckedIsReceived /\ Streams

-----------------------------------------------------------------------------
(* Lemmas about the operators of Kcp. *)

\* A non-empty set of naturals has a least element, which Least chooses (Merged, Acknowledge).
LEMMA LeastExists ==
    ASSUME NEW S \in SUBSET Nat, S # {}
    PROVE  Least(S) \in S /\ \A t \in S : Least(S) <= t
<1>1. \E R : \E x \in S : /\ \A y \in S : <<y, x>> \notin R
                          /\ \A m, n \in Nat : m < n => <<m, n>> \in R
  <2>1. \E x \in S : \A y \in S : ~(<<y, x>> \in OpToRel(<, Nat))
    BY NatLessThanWellFounded, WFMin
  <2>2. \A m, n \in Nat : m < n => <<m, n>> \in OpToRel(<, Nat)
    BY DEF OpToRel
  <2> QED BY <2>1, <2>2, Zenon
<1>2. PICK R : \E x \in S : /\ \A y \in S : <<y, x>> \notin R
                            /\ \A m, n \in Nat : m < n => <<m, n>> \in R
  BY <1>1
<1>3. PICK x \in S : /\ \A y \in S : <<y, x>> \notin R
                     /\ \A m, n \in Nat : m < n => <<m, n>> \in R
  BY <1>2
<1>4. ASSUME NEW y \in S PROVE x <= y
  <2>1. y \in Nat /\ x \in Nat
    OBVIOUS
  <2>2. ~(y < x)
    BY <1>3, <2>1
  <2> QED BY <2>1, <2>2
<1> QED BY <1>4 DEF Least

\* A conversation has two ends, each the peer of the other.
LEMMA PeerFacts ==
    ASSUME NEW e \in Endpoints
    PROVE  /\ Peer(e) \in Endpoints /\ Peer(e) # e /\ Peer(Peer(e)) = e
           /\ \A f \in Endpoints : f # e => f = Peer(e)
<1>1. PICK a, b \in Endpoints : a # b /\ Endpoints = {a, b}
  BY KcpAssumption DEF KcpAssumption
<1>2. Peer(a) = b
  BY <1>1 DEF Peer
<1>3. Peer(b) = a
  BY <1>1 DEF Peer
<1> QED BY <1>1, <1>2, <1>3

\* What ikcp_send cuts a message into.
LEMMA FragmentsType ==
    ASSUME NEW e \in Endpoints, NEW i \in 1..Len(Script[e])
    PROVE  /\ Script[e][i] \in Nat \ {0}
           /\ FragmentsOf(e, i) \in Seq(Fragment)
           /\ Len(FragmentsOf(e, i)) = Script[e][i]
           /\ \A j \in 1..Script[e][i] :
                  FragmentsOf(e, i)[j] = [msg |-> i, frg |-> Script[e][i] - j]
<1>1. Script[e] \in Seq(Nat \ {0})
  BY KcpAssumption DEF KcpAssumption
<1>2. Script[e][i] \in Nat \ {0} /\ i \in Nat \ {0}
  BY <1>1, ElementOfSeq, LenProperties
<1>3. \A j \in 1..Script[e][i] : [msg |-> i, frg |-> Script[e][i] - j] \in Fragment
  BY <1>2 DEF Fragment
<1> DEFINE n == Script[e][i]
           f == [j \in 1..n |-> [msg |-> i, frg |-> n - j]]
<1>4. n \in Nat /\ \A j \in 1..n : [msg |-> i, frg |-> n - j] \in Fragment
  BY <1>2, <1>3
<1> HIDE DEF n
<1>5. f \in Seq(Fragment) /\ Len(f) = n /\ \A j \in 1..n : f[j] = [msg |-> i, frg |-> n - j]
  BY <1>4
<1>6. FragmentsOf(e, i) = f
  BY DEF FragmentsOf, n
<1> QED BY <1>2, <1>5, <1>6 DEF n

\* Where the elements of two sequences are in their concatenation.
LEMMA ConcatFacts ==
    ASSUME NEW S, NEW s \in Seq(S), NEW t \in Seq(S)
    PROVE  /\ s \o t \in Seq(S)
           /\ Len(s \o t) = Len(s) + Len(t)
           /\ \A j \in 1..Len(s) : (s \o t)[j] = s[j]
           /\ \A j \in 1..Len(t) : (s \o t)[Len(s) + j] = t[j]
<1>1. Len(s) \in Nat /\ Len(t) \in Nat
  BY LenProperties
<1>2. \A j \in 1..Len(t) : Len(s) + j \in 1..(Len(s) + Len(t)) /\ ~(Len(s) + j <= Len(s)) /\ (Len(s) + j) - Len(s) = j
  BY <1>1
<1>3. \A j \in 1..Len(s) : j \in 1..(Len(s) + Len(t)) /\ j <= Len(s)
  BY <1>1
<1> QED BY <1>2, <1>3, ConcatProperties

\* The part of a sequence that is left when its first n elements are taken.
LEMMA RestFacts ==
    ASSUME NEW S, NEW s \in Seq(S), NEW n \in 0..Len(s)
    PROVE  /\ SubSeq(s, n + 1, Len(s)) \in Seq(S)
           /\ Len(SubSeq(s, n + 1, Len(s))) = Len(s) - n
           /\ \A j \in 1..(Len(s) - n) : SubSeq(s, n + 1, Len(s))[j] = s[n + j]
<1>1. Len(s) \in Nat /\ n \in Nat /\ n + 1 \in Int
  BY LenProperties
<1>2. \A i \in n + 1..Len(s) : s[i] \in S
  BY <1>1, ElementOfSeq
<1>3. /\ SubSeq(s, n + 1, Len(s)) \in Seq(S)
      /\ Len(SubSeq(s, n + 1, Len(s))) = IF n + 1 <= Len(s) THEN Len(s) - (n + 1) + 1 ELSE 0
      /\ \A i \in 1..(Len(s) - (n + 1) + 1) : SubSeq(s, n + 1, Len(s))[i] = s[n + 1 + i - 1]
  BY <1>1, <1>2, SubSeqProperties
<1> DEFINE r == SubSeq(s, n + 1, Len(s))
<1> HIDE DEF r
<1>4. ASSUME NEW j \in 1..(Len(s) - n) PROVE r[j] = s[n + j]
  <2>1. j \in 1..(Len(s) - (n + 1) + 1) /\ n + 1 + j - 1 = n + j
    BY <1>1
  <2> QED BY <1>3, <2>1 DEF r
<1>5. Len(r) = Len(s) - n
  BY <1>1, <1>3 DEF r
<1> QED BY <1>3, <1>4, <1>5 DEF r

\* A buffer maps its sequence numbers to fragments.
LEMMA SegmentsFacts ==
    ASSUME NEW b \in Segments
    PROVE  DOMAIN b \subseteq Nat /\ \A s \in DOMAIN b : b[s] \in Fragment
  BY DEF Segments

\* Movable finds the longest run that is next in order and for which the queue has room.
LEMMA MovableFacts ==
    ASSUME NEW nxt \in Nat, NEW buf \in Segments, NEW q \in Seq(Fragment), Len(q) <= RcvWnd
    PROVE  LET k == Movable(nxt, buf, q) IN
           /\ k \in 0..(RcvWnd - Len(q))
           /\ \A s \in nxt..(nxt + k - 1) : s \in DOMAIN buf
           /\ k < RcvWnd - Len(q) => nxt + k \notin DOMAIN buf
<1> DEFINE room == RcvWnd - Len(q)
           T == {k \in 0..room : k = room \/ nxt + k \notin DOMAIN buf}
<1>1. room \in Nat
  BY LenProperties, KcpAssumption DEF KcpAssumption
<1>2. T \in SUBSET Nat /\ T # {}
  BY <1>1
<1> DEFINE m == Least(T)
<1>3. m \in T /\ \A t \in T : m <= t
  BY <1>2, LeastExists
<1>4. ASSUME NEW s \in nxt..(nxt + m - 1) PROVE s \in DOMAIN buf
  <2>1. s - nxt \in 0..room /\ s - nxt < m /\ nxt + (s - nxt) = s
    BY <1>1, <1>3
  <2>2. s - nxt \notin T
    BY <1>1, <1>3, <2>1
  <2> QED BY <2>1, <2>2
<1>5. m \in 0..room /\ (m < room => nxt + m \notin DOMAIN buf)
  BY <1>1, <1>3
<1> HIDE DEF m, T
<1>6. \E k \in 0..room : /\ \A s \in nxt..(nxt + k - 1) : s \in DOMAIN buf
                         /\ k < room => nxt + k \notin DOMAIN buf
  BY <1>4, <1>5
<1> QED BY <1>6 DEF Movable

-----------------------------------------------------------------------------
(* Positions in a stream, as the sequence numbers of ikcp.c count them: plain arithmetic. *)

\* A fragment of rcv_queue, k long and ending before r, is in the x numbered fragments of the n.
LEMMA QueuedPosition ==
    \A r, k, x, y, n \in Nat : k <= r /\ r <= x /\ n = x + y => \A j \in 1..k : r - k + j \in 1..n
  OBVIOUS

\* A fragment of a message of c fragments that starts after position a is in the stream of n.
LEMMA FragmentPosition ==
    \A a, c, n \in Nat : a + c <= n => \A j \in 1..c : a + j \in 1..n
  OBVIOUS

\* The j-th fragment that ikcp_recv leaves in a queue of l ending at r, when it takes n, was the (n + j)-th.
LEMMA LeftPosition ==
    \A r, l, n \in Nat : \A j \in 1..(l - n) : n + j \in 1..l /\ r - (l - n) + j = r - l + (n + j)
  OBVIOUS

\* A sequence number that ikcp_flush assigns, x onwards, is that of a fragment of the queue of l it admits n of.
LEMMA AssignedPosition ==
    \A x, l \in Nat : \A n \in 0..l : \A s \in x..(x + n - 1) :
        \E j \in 1..n : j \in 1..l /\ x + j - 1 = s /\ x + j = s + 1
<1> SUFFICES ASSUME NEW x \in Nat, NEW l \in Nat, NEW n \in 0..l, NEW s \in x..(x + n - 1)
             PROVE  \E j \in 1..n : j \in 1..l /\ x + j - 1 = s /\ x + j = s + 1
  OBVIOUS
<1>1. /\ s - x + 1 \in 1..n /\ s - x + 1 \in 1..l
      /\ x + (s - x + 1) - 1 = s /\ x + (s - x + 1) = s + 1
  OBVIOUS
<1> QED BY <1>1, Zenon

\* What is within a part is within the whole.
LEMMA WithinPart == \A n \in Nat : \A i \in 1..n : \A m \in 1..i : m \in 1..n
  OBVIOUS

-----------------------------------------------------------------------------
(* What the steps do to the receiving side. *)

\* The k segments next in order have moved from buf to the end of q at end e.
Moved(e, nxt, buf, q, k) ==
    /\ k \in 0..(RcvWnd - Len(q))
    /\ \A s \in nxt..(nxt + k - 1) : s \in DOMAIN buf
    /\ k < RcvWnd - Len(q) => nxt + k \notin DOMAIN buf
    /\ rcv_nxt' \in [Endpoints -> Nat] /\ rcv_nxt'[e] = nxt + k
    /\ rcv_buf' \in [Endpoints -> Segments]
    /\ DOMAIN rcv_buf'[e] = DOMAIN buf \ nxt..(nxt + k - 1)
    /\ \A s \in DOMAIN rcv_buf'[e] : rcv_buf'[e][s] = buf[s]
    /\ rcv_queue' \in [Endpoints -> Seq(Fragment)]
    /\ Len(rcv_queue'[e]) = Len(q) + k
    /\ \A j \in 1..Len(q) : rcv_queue'[e][j] = q[j]
    /\ \A j \in 1..k : rcv_queue'[e][Len(q) + j] = buf[nxt + j - 1]
    /\ \A f \in Endpoints : f # e => /\ rcv_nxt'[f] = rcv_nxt[f]
                                     /\ rcv_buf'[f] = rcv_buf[f]
                                     /\ rcv_queue'[f] = rcv_queue[f]

\* MoveToQueue moves some number of segments.
LEMMA MoveEffect ==
    ASSUME Typed, NEW e \in Endpoints, NEW nxt \in Nat, NEW buf \in Segments,
           NEW q \in Seq(Fragment), Len(q) <= RcvWnd, MoveToQueue(e, nxt, buf, q)
    PROVE  \E k \in Nat : Moved(e, nxt, buf, q, k)
<1> DEFINE k == Movable(nxt, buf, q)
           tail == [i \in 1..k |-> buf[nxt + i - 1]]
           left == [s \in DOMAIN buf \ nxt..(nxt + k - 1) |-> buf[s]]
<1>1. /\ k \in 0..(RcvWnd - Len(q))
      /\ \A s \in nxt..(nxt + k - 1) : s \in DOMAIN buf
      /\ k < RcvWnd - Len(q) => nxt + k \notin DOMAIN buf
  BY MovableFacts
<1>2. k \in Nat
  BY <1>1
<1>3. /\ rcv_nxt' = [rcv_nxt EXCEPT ![e] = nxt + k]
      /\ rcv_buf' = [rcv_buf EXCEPT ![e] = left]
      /\ rcv_queue' = [rcv_queue EXCEPT ![e] = q \o tail]
  BY DEF MoveToQueue
<1> HIDE DEF k
<1>4. \A i \in 1..k : nxt + i - 1 \in nxt..(nxt + k - 1)
  BY <1>2
<1>5. \A i \in 1..k : buf[nxt + i - 1] \in Fragment
  BY <1>1, <1>4, SegmentsFacts
<1>6. tail \in Seq(Fragment) /\ Len(tail) = k /\ \A i \in 1..k : tail[i] = buf[nxt + i - 1]
  BY <1>2, <1>5
<1>7. DOMAIN left \in SUBSET Nat /\ left \in [DOMAIN left -> Fragment]
  BY SegmentsFacts
<1>8. left \in Segments
  BY <1>7 DEF Segments
<1> HIDE DEF tail
<1>9. /\ q \o tail \in Seq(Fragment) /\ Len(q \o tail) = Len(q) + k
      /\ \A j \in 1..Len(q) : (q \o tail)[j] = q[j]
      /\ \A j \in 1..k : (q \o tail)[Len(q) + j] = buf[nxt + j - 1]
  <2> DEFINE c == q \o tail
  <2>1. /\ c \in Seq(Fragment) /\ Len(c) = Len(q) + Len(tail)
        /\ \A j \in 1..Len(q) : c[j] = q[j]
        /\ \A j \in 1..Len(tail) : c[Len(q) + j] = tail[j]
    BY <1>6, ConcatFacts
  <2> HIDE DEF c
  <2>2. \A j \in 1..k : c[Len(q) + j] = buf[nxt + j - 1]
    BY <1>6, <2>1
  <2>3. Len(c) = Len(q) + k
    BY <1>6, <2>1
  <2> QED BY <2>1, <2>2, <2>3 DEF c
<1>10. rcv_nxt' \in [Endpoints -> Nat] /\ rcv_nxt'[e] = nxt + k
  BY <1>2, <1>3 DEF Typed
<1>11. rcv_buf' \in [Endpoints -> Segments] /\ rcv_buf'[e] = left
  BY <1>3, <1>8 DEF Typed
<1>12. rcv_queue' \in [Endpoints -> Seq(Fragment)] /\ rcv_queue'[e] = q \o tail
  BY <1>3, <1>9 DEF Typed
<1>13. \A f \in Endpoints : f # e => /\ rcv_nxt'[f] = rcv_nxt[f]
                                     /\ rcv_buf'[f] = rcv_buf[f]
                                     /\ rcv_queue'[f] = rcv_queue[f]
  BY <1>3 DEF Typed
<1>14. DOMAIN rcv_buf'[e] = DOMAIN buf \ nxt..(nxt + k - 1)
       /\ \A s \in DOMAIN rcv_buf'[e] : rcv_buf'[e][s] = buf[s]
  BY <1>11
<1>15. /\ Len(rcv_queue'[e]) = Len(q) + k
       /\ \A j \in 1..Len(q) : rcv_queue'[e][j] = q[j]
       /\ \A j \in 1..k : rcv_queue'[e][Len(q) + j] = buf[nxt + j - 1]
  <2> DEFINE c == q \o tail
  <2>1. rcv_queue'[e] = c
    BY <1>12
  <2>2. /\ Len(c) = Len(q) + k
        /\ \A j \in 1..Len(q) : c[j] = q[j]
        /\ \A j \in 1..k : c[Len(q) + j] = buf[nxt + j - 1]
    BY <1>9
  <2> HIDE DEF c
  <2> QED BY <2>1, <2>2, Zenon
<1>16. /\ rcv_nxt' \in [Endpoints -> Nat] /\ rcv_buf' \in [Endpoints -> Segments]
       /\ rcv_queue' \in [Endpoints -> Seq(Fragment)]
  BY <1>10, <1>11, <1>12
<1>17. Moved(e, nxt, buf, q, k)
  BY <1>1, <1>10, <1>13, <1>14, <1>15, <1>16, Zenon DEF Moved
<1> QED BY <1>2, <1>17

\* The receiving side of end f is in the ranges of KcpTypeOK and leaves nothing stranded.
Receiving(f) ==
    /\ DOMAIN rcv_buf[f] \subseteq rcv_nxt[f]..(rcv_nxt[f] + RcvWnd - 1)
    /\ Len(rcv_queue[f]) <= RcvWnd
    /\ rcv_nxt[f] \in DOMAIN rcv_buf[f] => Len(rcv_queue[f]) = RcvWnd

\* The receiving side's types hold after the step and nothing it had received is forgotten.
Advanced ==
    /\ rcv_nxt' \in [Endpoints -> Nat]
    /\ rcv_buf' \in [Endpoints -> Segments]
    /\ rcv_queue' \in [Endpoints -> Seq(Fragment)]
    /\ \A f \in Endpoints : Receiving(f)' /\ rcv_nxt[f] <= rcv_nxt'[f] /\ \A s \in Nat : Has(f, s) => Has(f, s)'

\* Moving segments that are next in order keeps the ranges, strands nothing and forgets nothing.
LEMMA MovedAdvances ==
    ASSUME Typed, NothingStranded, NEW e \in Endpoints, NEW buf \in Segments, NEW q \in Seq(Fragment), NEW k \in Nat,
           DOMAIN rcv_buf[e] \subseteq DOMAIN buf,
           DOMAIN buf \subseteq rcv_nxt[e]..(rcv_nxt[e] + RcvWnd - 1),
           Len(q) <= RcvWnd, Moved(e, rcv_nxt[e], buf, q, k)
    PROVE  Advanced /\ \A s \in DOMAIN buf : Has(e, s)'
<1> DEFINE nxt == rcv_nxt[e]
<1>1. nxt \in Nat /\ Len(q) \in Nat /\ RcvWnd \in Nat /\ DOMAIN buf \subseteq Nat
  BY LenProperties, SegmentsFacts, KcpAssumption DEF Typed, KcpAssumption
<1>2. \A s \in DOMAIN buf : Has(e, s)'
  BY <1>1 DEF Moved, Has
<1>3. \A s \in Nat : Has(e, s) => Has(e, s)'
  BY <1>1, <1>2 DEF Moved, Has
<1>4. nxt <= rcv_nxt'[e]
  BY <1>1 DEF Moved
<1>5. Receiving(e)'
  <2>1. DOMAIN rcv_buf'[e] \subseteq rcv_nxt'[e]..(rcv_nxt'[e] + RcvWnd - 1)
    BY <1>1 DEF Moved
  <2>2. Len(rcv_queue'[e]) <= RcvWnd
    BY <1>1 DEF Moved
  <2>3. rcv_nxt'[e] \in DOMAIN rcv_buf'[e] => Len(rcv_queue'[e]) = RcvWnd
    <3>1. /\ k < RcvWnd - Len(q) => nxt + k \notin DOMAIN buf
          /\ DOMAIN rcv_buf'[e] = DOMAIN buf \ nxt..(nxt + k - 1)
          /\ rcv_nxt'[e] = nxt + k /\ Len(rcv_queue'[e]) = Len(q) + k
          /\ k \in 0..(RcvWnd - Len(q))
      BY Zenon DEF Moved
    <3>2. k < RcvWnd - Len(q) \/ Len(rcv_queue'[e]) = RcvWnd
      BY <1>1, <3>1
    <3>3. rcv_nxt'[e] \in DOMAIN rcv_buf'[e] => nxt + k \in DOMAIN buf
      BY <3>1, Zenon
    <3> QED BY <3>1, <3>2, <3>3, Zenon
  <2> QED BY <2>1, <2>2, <2>3 DEF Receiving
<1>6. ASSUME NEW f \in Endpoints, f # e
      PROVE  Receiving(f)' /\ rcv_nxt[f] <= rcv_nxt'[f] /\ \A s \in Nat : Has(f, s) => Has(f, s)'
  <2>1. rcv_nxt'[f] = rcv_nxt[f] /\ rcv_buf'[f] = rcv_buf[f] /\ rcv_queue'[f] = rcv_queue[f]
    BY <1>6 DEF Moved
  <2>2. rcv_nxt[f] \in Nat /\ Receiving(f)
    BY DEF Typed, KcpTypeOK, NothingStranded, Receiving
  <2>3. Receiving(f)'
    BY <2>1, <2>2 DEF Receiving
  <2>4. rcv_nxt[f] <= rcv_nxt'[f]
    BY <2>1, <2>2
  <2>5. \A s \in Nat : Has(f, s) => Has(f, s)'
    BY <2>1, Zenon DEF Has
  <2> QED BY <2>3, <2>4, <2>5
<1>7. rcv_nxt' \in [Endpoints -> Nat] /\ rcv_buf' \in [Endpoints -> Segments] /\ rcv_queue' \in [Endpoints -> Seq(Fragment)]
  BY DEF Moved
<1> QED BY <1>2, <1>3, <1>4, <1>5, <1>6, <1>7 DEF Advanced

\* A step that leaves the receiving side alone.
LEMMA StillAdvances ==
    ASSUME Typed, NothingStranded, UNCHANGED <<rcv_nxt, rcv_buf, rcv_queue>>
    PROVE  Advanced
  BY DEF Typed, KcpTypeOK, NothingStranded, Receiving, Has, Advanced

\* ikcp_recv merges at least one fragment and no more than there are.
LEMMA MergedFacts ==
    ASSUME NEW q \in Seq(Fragment), q # <<>>
    PROVE  Merged(q) \in 1..Len(q) /\ Len(q) \in Nat
<1> DEFINE S == {i \in DOMAIN q : q[i].frg = 0} \cup {Len(q)}
<1>1. Len(q) \in Nat \ {0} /\ DOMAIN q = 1..Len(q)
  BY EmptySeq, LenProperties
<1>2. S \subseteq 1..Len(q) /\ S # {} /\ S \in SUBSET Nat
  BY <1>1
<1> HIDE DEF S
<1>3. Least(S) \in S
  BY <1>2, LeastExists
<1>4. Merged(q) = Least(S)
  BY DEF Merged, S
<1> QED BY <1>1, <1>2, <1>3, <1>4

\* ikcp_recv: the queue loses what was merged, and what is next in order in rcv_buf moves up.
LEMMA RecvEffect ==
    ASSUME Typed, NothingStranded, NEW e \in Endpoints, Recv(e)
    PROVE  LET q == rcv_queue[e]
               n == Merged(q)
               rest == SubSeq(q, n + 1, Len(q))
           IN /\ n \in 1..Len(q)
              /\ rest \in Seq(Fragment) /\ Len(rest) = Len(q) - n
              /\ \A j \in 1..(Len(q) - n) : rest[j] = q[n + j]
              /\ Len(q) - n <= RcvWnd
              /\ \E k \in Nat : Moved(e, rcv_nxt[e], rcv_buf[e], rest, k)
              /\ Advanced
<1> DEFINE q == rcv_queue[e]
           n == Merged(q)
           rest == SubSeq(q, n + 1, Len(q))
<1>1. q \in Seq(Fragment) /\ q # <<>> /\ Len(q) <= RcvWnd /\ rcv_nxt[e] \in Nat /\ rcv_buf[e] \in Segments
  BY DEF Recv, Peekable, Typed, KcpTypeOK
<1>2. n \in 1..Len(q) /\ Len(q) \in Nat
  BY <1>1, MergedFacts
<1> HIDE DEF n
<1>3. /\ rest \in Seq(Fragment) /\ Len(rest) = Len(q) - n
      /\ \A j \in 1..(Len(q) - n) : rest[j] = q[n + j]
  BY <1>1, <1>2, RestFacts
<1>4. Len(q) - n <= RcvWnd
  BY <1>1, <1>2, KcpAssumption DEF KcpAssumption
<1>5. MoveToQueue(e, rcv_nxt[e], rcv_buf[e], rest)
  BY DEF Recv, n
<1> HIDE DEF rest, q
<1>6. PICK k \in Nat : Moved(e, rcv_nxt[e], rcv_buf[e], rest, k)
  BY <1>1, <1>3, <1>4, <1>5, MoveEffect
<1>7. DOMAIN rcv_buf[e] \subseteq rcv_nxt[e]..(rcv_nxt[e] + RcvWnd - 1)
  BY DEF Typed, KcpTypeOK
<1>8. Advanced
  BY <1>1, <1>3, <1>4, <1>6, <1>7, MovedAdvances
<1> QED BY <1>2, <1>3, <1>4, <1>6, <1>8 DEF n, q, rest

\* rcv_buf of end e with the segment s put into it.
Put(e, s, data) == [t \in DOMAIN rcv_buf[e] \cup {s} |-> IF t = s THEN data ELSE rcv_buf[e][t]]

\* ikcp_parse_data: the segment is outside the window, or known and acknowledged again, or put into rcv_buf.
LEMMA AcceptEffect ==
    ASSUME Typed, NothingStranded, NEW e \in Endpoints, NEW s \in Nat, NEW data \in Fragment, Accept(e, s, data)
    PROVE  /\ Advanced
           /\ acklist' = acklist \/ (acklist' = [acklist EXCEPT ![e] = @ \cup {s}] /\ Has(e, s)')
           /\ s < rcv_nxt[e] + RcvWnd \/ acklist' = acklist
           /\ \/ UNCHANGED <<rcv_nxt, rcv_buf, rcv_queue>>
              \/ \E k \in Nat : Moved(e, rcv_nxt[e], Put(e, s, data), rcv_queue[e], k)
<1>1. CASE s >= rcv_nxt[e] + RcvWnd
  BY <1>1, StillAdvances DEF Accept
<1>2. CASE ~(s >= rcv_nxt[e] + RcvWnd) /\ Has(e, s)
  <2>1. UNCHANGED <<rcv_nxt, rcv_buf, rcv_queue>> /\ acklist' = [acklist EXCEPT ![e] = @ \cup {s}]
    BY <1>2 DEF Accept, Has
  <2>2. Has(e, s)'
    BY <1>2, <2>1 DEF Has
  <2>3. s < rcv_nxt[e] + RcvWnd
    BY <1>2, KcpAssumption DEF KcpAssumption, Typed
  <2> QED BY <2>1, <2>2, <2>3, StillAdvances
<1>3. CASE ~(s >= rcv_nxt[e] + RcvWnd) /\ ~Has(e, s)
  <2> DEFINE buf == Put(e, s, data)
  <2>1. /\ acklist' = [acklist EXCEPT ![e] = @ \cup {s}]
        /\ MoveToQueue(e, rcv_nxt[e], buf, rcv_queue[e])
    BY <1>3 DEF Accept, Has, Put
  <2>2. /\ rcv_nxt[e] \in Nat /\ rcv_buf[e] \in Segments /\ rcv_queue[e] \in Seq(Fragment)
        /\ Len(rcv_queue[e]) <= RcvWnd /\ RcvWnd \in Nat
        /\ DOMAIN rcv_buf[e] \subseteq rcv_nxt[e]..(rcv_nxt[e] + RcvWnd - 1)
    BY KcpAssumption DEF Typed, KcpTypeOK, KcpAssumption
  <2>3. s \in rcv_nxt[e]..(rcv_nxt[e] + RcvWnd - 1)
    BY <1>3, <2>2 DEF Has
  <2>4. DOMAIN buf = DOMAIN rcv_buf[e] \cup {s} /\ \A t \in DOMAIN buf : buf[t] \in Fragment
    BY <2>2, SegmentsFacts DEF Put
  <2>5. buf \in Segments
    <3>1. DOMAIN buf \in SUBSET Nat
      BY <2>2, <2>4, SegmentsFacts
    <3>2. buf = [t \in DOMAIN buf |-> buf[t]]
      BY DEF Put
    <3> HIDE DEF buf
    <3>3. buf \in [DOMAIN buf -> Fragment]
      BY <2>4, <3>2
    <3> QED BY <3>1, <3>3 DEF Segments
  <2> HIDE DEF buf
  <2>6. PICK k \in Nat : Moved(e, rcv_nxt[e], buf, rcv_queue[e], k)
    BY <2>1, <2>2, <2>5, MoveEffect
  <2>7. Advanced /\ Has(e, s)'
    BY <2>2, <2>3, <2>4, <2>5, <2>6, MovedAdvances
  <2>8. s < rcv_nxt[e] + RcvWnd
    BY <2>2, <2>3
  <2> QED BY <2>1, <2>6, <2>7, <2>8 DEF buf
<1> QED BY <1>1, <1>2, <1>3

-----------------------------------------------------------------------------
(* What the steps do to the sending side. *)

\* End e has moved n fragments from snd_queue to snd_buf and sent segments of snd_buf and acknowledgements.
Flushed(e, n) ==
    /\ n \in 0..Len(snd_queue[e]) /\ snd_nxt[e] + n - snd_una[e] <= SndWnd
    /\ snd_nxt' \in [Endpoints -> Nat] /\ snd_nxt'[e] = snd_nxt[e] + n
    /\ snd_queue' \in [Endpoints -> Seq(Fragment)]
    /\ Len(snd_queue'[e]) = Len(snd_queue[e]) - n
    /\ \A j \in 1..(Len(snd_queue[e]) - n) : snd_queue'[e][j] = snd_queue[e][n + j]
    /\ snd_buf' \in [Endpoints -> Segments]
    /\ DOMAIN snd_buf'[e] = DOMAIN snd_buf[e] \cup snd_nxt[e]..(snd_nxt[e] + n - 1)
    /\ \A s \in DOMAIN snd_buf[e] : snd_buf'[e][s] = snd_buf[e][s]
    /\ \A j \in 1..n : snd_buf'[e][snd_nxt[e] + j - 1] = snd_queue[e][j]
    /\ \A f \in Endpoints : f # e => /\ snd_nxt'[f] = snd_nxt[f]
                                     /\ snd_queue'[f] = snd_queue[f]
                                     /\ snd_buf'[f] = snd_buf[f]
    /\ net' \subseteq Datagrams
    /\ \A d \in net' : \/ d \in net
                       \/ /\ d.from = e /\ d.una = rcv_nxt[e] /\ d.acks \subseteq acklist[e]
                          /\ \A seg \in d.push : seg.sn \in DOMAIN snd_buf'[e] /\ seg.data = snd_buf'[e][seg.sn]

\* The window ikcp_flush computes admits no more than is queued and never exceeds snd_wnd.
LEMMA AdmittedFacts ==
    ASSUME Typed, SendWindow, NEW e \in Endpoints
    PROVE  Admitted(e) \in 0..Len(snd_queue[e]) /\ snd_nxt[e] + Admitted(e) - snd_una[e] <= SndWnd
<1> DEFINE room == snd_una[e] + SmallerOf(SndWnd, rmt_wnd[e]) - snd_nxt[e]
<1>1. /\ snd_una[e] \in Nat /\ snd_nxt[e] \in Nat /\ rmt_wnd[e] \in Nat /\ SndWnd \in Nat
      /\ Len(snd_queue[e]) \in Nat
  <2>1. snd_una[e] \in Nat /\ snd_nxt[e] \in Nat
    BY DEF Typed
  <2>2. RcvWnd \in Nat /\ SndWnd \in Nat
    BY KcpAssumption DEF KcpAssumption
  <2>3. rmt_wnd[e] \in 0..RcvWnd /\ snd_queue[e] \in Seq(Fragment)
    BY DEF Typed, KcpTypeOK
  <2>4. rmt_wnd[e] \in Nat
    BY <2>2, <2>3
  <2>5. Len(snd_queue[e]) \in Nat
    BY <2>3, LenProperties
  <2> QED BY <2>1, <2>2, <2>4, <2>5
<1>2. room \in Int /\ room <= snd_una[e] + SndWnd - snd_nxt[e]
  BY <1>1 DEF SmallerOf
<1>3. Admitted(e) = IF room <= 0 THEN 0 ELSE SmallerOf(room, Len(snd_queue[e]))
  BY DEF Admitted
<1>4. snd_nxt[e] - snd_una[e] <= SndWnd
  BY DEF SendWindow
<1> HIDE DEF room
<1> QED BY <1>1, <1>2, <1>3, <1>4 DEF SmallerOf

\* ikcp_flush.
LEMMA FlushEffect ==
    ASSUME Typed, SendWindow, NEW e \in Endpoints, NEW due \in SUBSET DOMAIN snd_buf[e], NEW probeDue \in BOOLEAN,
           Flush(e, due, probeDue)
    PROVE  \E n \in Nat : Flushed(e, n)
<1> DEFINE n     == Admitted(e)
           nxt   == snd_nxt[e]
           old   == snd_buf[e]
           queue == snd_queue[e]
           fresh == nxt..(nxt + n - 1)
           buf   == [s \in DOMAIN old \cup fresh |-> IF s \in fresh THEN queue[s - nxt + 1] ELSE old[s]]
           cmds  == Commands(e, probeDue)
           out   == {Datagram(e, {}, {}, {[sn |-> s, data |-> buf[s]]}) : s \in fresh \cup due \cup fastack[e]}
                        \cup (IF acklist[e] = {} /\ cmds = {} THEN {} ELSE {Datagram(e, acklist[e], cmds, {})})
<1>1. /\ snd_queue' = [snd_queue EXCEPT ![e] = SubSeq(queue, n + 1, Len(queue))]
      /\ snd_buf' = [snd_buf EXCEPT ![e] = buf]
      /\ snd_nxt' = [snd_nxt EXCEPT ![e] = nxt + n]
      /\ net' \subseteq net \cup out
  BY DEF Flush
<1>2. /\ nxt \in Nat /\ old \in Segments /\ queue \in Seq(Fragment) /\ Len(queue) \in Nat
      /\ DOMAIN old \subseteq snd_una[e]..(nxt - 1) /\ snd_una[e] \in Nat /\ fastack[e] \subseteq DOMAIN old
      /\ acklist[e] \in SUBSET Nat /\ rcv_nxt[e] \in Nat
  BY LenProperties DEF Typed, KcpTypeOK
<1>3. n \in 0..Len(queue) /\ nxt + n - snd_una[e] <= SndWnd
  BY AdmittedFacts
<1>4. Unused(e) \in 0..RcvWnd
  <2>1. Len(rcv_queue[e]) \in Nat /\ RcvWnd \in Nat
    BY LenProperties, KcpAssumption DEF Typed, KcpAssumption
  <2> QED BY <2>1 DEF Unused
<1>5. cmds \subseteq {"WASK", "WINS"}
  BY DEF Commands
<1> HIDE DEF n, cmds
<1>6. /\ SubSeq(queue, n + 1, Len(queue)) \in Seq(Fragment)
      /\ Len(SubSeq(queue, n + 1, Len(queue))) = Len(queue) - n
      /\ \A j \in 1..(Len(queue) - n) : SubSeq(queue, n + 1, Len(queue))[j] = queue[n + j]
  BY <1>2, <1>3, RestFacts
<1>7. DOMAIN buf = DOMAIN old \cup fresh /\ DOMAIN buf \in SUBSET Nat /\ fresh \cap DOMAIN old = {}
  BY <1>2, <1>3, SegmentsFacts
<1>8. \A s \in DOMAIN old : buf[s] = old[s] /\ old[s] \in Fragment
  BY <1>2, <1>7, SegmentsFacts
<1>9. \A j \in 1..n : buf[nxt + j - 1] = queue[j]
  <2> TAKE j \in 1..n
  <2>1. nxt + j - 1 \in fresh /\ (nxt + j - 1) - nxt + 1 = j
    BY <1>2, <1>3
  <2> QED BY <2>1
<1>10. \A s \in fresh : buf[s] \in Fragment
  <2> TAKE s \in fresh
  <2>1. s - nxt + 1 \in 1..Len(queue)
    BY <1>2, <1>3
  <2>2. queue[s - nxt + 1] \in Fragment
    BY <1>2, <2>1, ElementOfSeq
  <2> QED BY <2>2
<1>11. buf \in Segments
  <2>1. buf \in [DOMAIN buf -> Fragment]
    BY <1>7, <1>8, <1>10
  <2> QED BY <1>7, <2>1 DEF Segments
<1>12. snd_buf' \in [Endpoints -> Segments] /\ snd_buf'[e] = buf
  BY <1>1, <1>11 DEF Typed
<1>13. snd_nxt' \in [Endpoints -> Nat] /\ snd_nxt'[e] = nxt + n
  BY <1>1, <1>2, <1>3 DEF Typed
<1>14. snd_queue' \in [Endpoints -> Seq(Fragment)] /\ snd_queue'[e] = SubSeq(queue, n + 1, Len(queue))
  BY <1>1, <1>6 DEF Typed, KcpTypeOK
<1>15. \A f \in Endpoints : f # e => snd_nxt'[f] = snd_nxt[f] /\ snd_queue'[f] = snd_queue[f] /\ snd_buf'[f] = snd_buf[f]
  BY <1>1 DEF Typed, KcpTypeOK
<1> HIDE DEF buf, fresh
<1>16. ASSUME NEW d \in out
       PROVE  /\ d \in Datagrams
              /\ d.from = e /\ d.una = rcv_nxt[e] /\ d.acks \subseteq acklist[e]
              /\ \A seg \in d.push : seg.sn \in DOMAIN buf /\ seg.data = buf[seg.sn]
  <2>1. CASE \E s \in fresh \cup due \cup fastack[e] : d = Datagram(e, {}, {}, {[sn |-> s, data |-> buf[s]]})
    <3>1. PICK s \in fresh \cup due \cup fastack[e] : d = Datagram(e, {}, {}, {[sn |-> s, data |-> buf[s]]})
      BY <2>1
    <3>2. s \in DOMAIN buf /\ s \in Nat
      BY <1>2, <1>7
    <3>3. buf[s] \in Fragment
      BY <1>11, <3>2, SegmentsFacts
    <3> QED BY <1>2, <1>4, <3>1, <3>2, <3>3 DEF Datagram, Datagrams
  <2>2. CASE d = Datagram(e, acklist[e], cmds, {})
    BY <1>2, <1>4, <1>5, <2>2 DEF Datagram, Datagrams
  <2> QED BY <2>1, <2>2
<1> HIDE DEF out
<1>17. net' \subseteq Datagrams
  BY <1>1, <1>16 DEF Typed
<1>18. \A d \in net' : \/ d \in net
                       \/ /\ d.from = e /\ d.una = rcv_nxt[e] /\ d.acks \subseteq acklist[e]
                          /\ \A seg \in d.push : seg.sn \in DOMAIN snd_buf'[e] /\ seg.data = snd_buf'[e][seg.sn]
  BY <1>1, <1>12, <1>16
<1> DEFINE rest == SubSeq(queue, n + 1, Len(queue))
<1> HIDE DEF rest
<1>19. /\ Len(snd_queue'[e]) = Len(snd_queue[e]) - n
       /\ \A j \in 1..(Len(snd_queue[e]) - n) : snd_queue'[e][j] = snd_queue[e][n + j]
  BY <1>6, <1>14 DEF rest
<1>20. /\ DOMAIN snd_buf'[e] = DOMAIN snd_buf[e] \cup snd_nxt[e]..(snd_nxt[e] + n - 1)
       /\ \A s \in DOMAIN snd_buf[e] : snd_buf'[e][s] = snd_buf[e][s]
       /\ \A j \in 1..n : snd_buf'[e][snd_nxt[e] + j - 1] = snd_queue[e][j]
  BY <1>7, <1>8, <1>9, <1>12 DEF fresh
<1>21. n \in Nat
  BY <1>3
<1> QED BY <1>3, <1>12, <1>13, <1>14, <1>15, <1>17, <1>18, <1>19, <1>20, <1>21 DEF Flushed

\* ikcp_parse_una and ikcp_parse_ack: snd_buf loses the segments acknowledged and snd_una moves up.
LEMMA AcknowledgeEffect ==
    ASSUME Typed, NEW e \in Endpoints, NEW gone, Acknowledge(e, gone)
    PROVE  /\ snd_buf' \in [Endpoints -> Segments]
           /\ DOMAIN snd_buf'[e] = DOMAIN snd_buf[e] \ gone
           /\ \A s \in DOMAIN snd_buf'[e] : snd_buf'[e][s] = snd_buf[e][s]
           /\ snd_una' \in [Endpoints -> Nat]
           /\ snd_una[e] <= snd_una'[e] /\ snd_una'[e] <= snd_nxt[e]
           /\ DOMAIN snd_buf'[e] \subseteq snd_una'[e]..(snd_nxt[e] - 1)
           /\ \A f \in Endpoints : f # e => snd_buf'[f] = snd_buf[f] /\ snd_una'[f] = snd_una[f]
<1> DEFINE left == DOMAIN snd_buf[e] \ gone
           buf  == [s \in left |-> snd_buf[e][s]]
           una  == IF left = {} THEN snd_nxt[e] ELSE Least(left)
<1>1. snd_buf' = [snd_buf EXCEPT ![e] = buf] /\ snd_una' = [snd_una EXCEPT ![e] = una]
  BY DEF Acknowledge
<1>2. /\ snd_una[e] \in Nat /\ snd_nxt[e] \in Nat /\ snd_una[e] <= snd_nxt[e] /\ snd_buf[e] \in Segments
      /\ DOMAIN snd_buf[e] \subseteq snd_una[e]..(snd_nxt[e] - 1)
  BY DEF Typed, KcpTypeOK
<1>3. left \in SUBSET Nat /\ \A s \in left : snd_buf[e][s] \in Fragment
  BY <1>2, SegmentsFacts
<1>4. buf \in Segments /\ DOMAIN buf = left /\ \A s \in left : buf[s] = snd_buf[e][s]
  BY <1>3 DEF Segments
<1>5. una \in Nat /\ snd_una[e] <= una /\ una <= snd_nxt[e] /\ \A s \in left : una <= s /\ s <= snd_nxt[e] - 1
  <2>1. CASE left = {}
    BY <1>2, <2>1
  <2>2. CASE left # {}
    <3>1. Least(left) \in left /\ \A t \in left : Least(left) <= t
      BY <1>3, <2>2, LeastExists
    <3>2. una = Least(left)
      BY <2>2
    <3> HIDE DEF una, left
    <3>3. una \in DOMAIN snd_buf[e] /\ \A s \in left : s \in DOMAIN snd_buf[e] /\ s \in Nat
      BY <1>3, <3>1, <3>2 DEF left
    <3> QED BY <1>2, <3>1, <3>2, <3>3
  <2> QED BY <2>1, <2>2
<1> HIDE DEF una, left, buf
<1>6. left \subseteq una..(snd_nxt[e] - 1)
  BY <1>2, <1>3, <1>5
<1>7. snd_buf' \in [Endpoints -> Segments] /\ snd_buf'[e] = buf /\ snd_una' \in [Endpoints -> Nat] /\ snd_una'[e] = una
  BY <1>1, <1>4, <1>5 DEF Typed
<1>8. \A f \in Endpoints : f # e => snd_buf'[f] = snd_buf[f] /\ snd_una'[f] = snd_una[f]
  BY <1>1 DEF Typed
<1> QED BY <1>4, <1>5, <1>6, <1>7, <1>8 DEF left

-----------------------------------------------------------------------------
(* The counters, windows and acknowledgements. *)

Safe == Typed /\ SendWindow /\ NothingStranded /\ AcksTrue /\ AckedIsReceived

\* Nothing is queued, numbered or in flight when a conversation starts.
LEMMA SafeInit == Init => Safe
<1> SUFFICES ASSUME Init PROVE Safe
  OBVIOUS
<1> USE KcpAssumption DEF KcpAssumption
<1>1. /\ <<>> \in Seq(Fragment) /\ <<>> \in Seq(Seq(Fragment)) /\ Len(<<>>) = 0
  BY EmptySeq
<1>2. <<>> \in Segments /\ DOMAIN <<>> = {}
  <2>1. <<>> \in [{} -> Fragment]
    OBVIOUS
  <2> QED BY <2>1 DEF Segments
<1>3. KcpTypeOK
  BY <1>1, <1>2 DEF Init, KcpTypeOK
<1>4. Typed
  BY <1>1, <1>2, <1>3 DEF Init, Typed
<1>5. SendWindow /\ NothingStranded /\ AcksTrue /\ AckedIsReceived
  BY <1>2, PeerFacts DEF Init, SendWindow, NothingStranded, AcksTrue, AckedIsReceived
<1> QED BY <1>4, <1>5 DEF Safe

\* When nothing received is forgotten, what a datagram or a queued acknowledgement says stays true, and a
\* segment dropped from snd_buf stays received.
LEMMA AdvancedKeeps ==
    ASSUME Safe, Advanced,
           \A f \in Endpoints : \A s \in acklist'[f] : s \in Nat /\ (s \in acklist[f] \/ Has(f, s)'),
           \A d \in net' : d \in Datagrams /\ (d \in net \/ (d.una = rcv_nxt[d.from] /\ d.acks \subseteq acklist[d.from])),
           \A e \in Endpoints : \A s \in 0..(snd_nxt'[e] - 1) \ DOMAIN snd_buf'[e] : s \in Nat /\ Has(Peer(e), s)
    PROVE  NothingStranded' /\ AcksTrue' /\ AckedIsReceived'
<1>1. NothingStranded'
  BY DEF Advanced, Receiving, NothingStranded
<1>2. ASSUME NEW f \in Endpoints, NEW s \in acklist'[f] PROVE Has(f, s)'
  BY <1>2 DEF Safe, AcksTrue, Advanced
<1>3. ASSUME NEW d \in net' PROVE d.una <= rcv_nxt'[d.from] /\ \A s \in d.acks : Has(d.from, s)'
  <2>1. d.from \in Endpoints /\ d.una \in Nat /\ d.acks \subseteq Nat
    BY DEF Datagrams
  <2>2. d.una <= rcv_nxt[d.from] /\ \A s \in d.acks : Has(d.from, s)
    <3>1. CASE d \in net
      BY <3>1 DEF Safe, AcksTrue
    <3>2. CASE d.una = rcv_nxt[d.from] /\ d.acks \subseteq acklist[d.from]
      <4>1. \A s \in d.acks : Has(d.from, s)
        BY <2>1, <3>2 DEF Safe, AcksTrue
      <4>2. rcv_nxt[d.from] \in Nat
        BY <2>1 DEF Safe, Typed
      <4> QED BY <3>2, <4>1, <4>2
    <3> QED BY <3>1, <3>2
  <2>3. rcv_nxt[d.from] \in Nat /\ rcv_nxt'[d.from] \in Nat /\ rcv_nxt[d.from] <= rcv_nxt'[d.from]
    BY <2>1 DEF Safe, Typed, Advanced
  <2>4. \A s \in d.acks : Has(d.from, s)'
    BY <2>1, <2>2 DEF Advanced
  <2> QED BY <2>1, <2>2, <2>3, <2>4
<1>4. ASSUME NEW e \in Endpoints, NEW s \in 0..(snd_nxt'[e] - 1) \ DOMAIN snd_buf'[e] PROVE Has(Peer(e), s)'
  BY PeerFacts DEF Advanced
<1>5. AcksTrue'
  BY <1>2, <1>3 DEF AcksTrue, Has
<1>6. AckedIsReceived'
  BY <1>4 DEF AckedIsReceived, Has
<1> QED BY <1>1, <1>5, <1>6

\* ikcp_send only lengthens snd_queue.
LEMMA SendSafe ==
    ASSUME Safe, NEW e \in Endpoints, Send(e)
    PROVE  Safe'
<1> DEFINE i == Len(sent[e]) + 1
<1> USE DEF Safe
<1>1. i \in 1..Len(Script[e])
  <2>1. sent[e] \in Seq(Seq(Fragment)) /\ Script[e] \in Seq(Nat \ {0})
    BY KcpAssumption DEF Typed, KcpTypeOK, KcpAssumption
  <2>2. Len(sent[e]) \in Nat /\ Len(Script[e]) \in Nat
    BY <2>1, LenProperties
  <2>3. Len(sent[e]) + 1 <= Len(Script[e])
    BY DEF Send
  <2> QED BY <2>2, <2>3
<1>2. FragmentsOf(e, i) \in Seq(Fragment)
  BY <1>1, FragmentsType
<1>3. snd_queue' = [snd_queue EXCEPT ![e] = snd_queue[e] \o FragmentsOf(e, i)]
      /\ sent' = [sent EXCEPT ![e] = Append(sent[e], FragmentsOf(e, i))]
      /\ UNCHANGED <<snd_buf, snd_una, snd_nxt, fastack, rmt_wnd, probing, rcvVars, net, got>>
  BY DEF Send
<1> HIDE DEF i
<1>4. snd_queue[e] \o FragmentsOf(e, i) \in Seq(Fragment)
  BY <1>2, ConcatFacts DEF Typed, KcpTypeOK
<1>5. Append(sent[e], FragmentsOf(e, i)) \in Seq(Seq(Fragment))
  BY <1>2, AppendProperties DEF Typed, KcpTypeOK
<1>6. snd_queue' \in [Endpoints -> Seq(Fragment)] /\ sent' \in [Endpoints -> Seq(Seq(Fragment))]
  BY <1>3, <1>4, <1>5 DEF Typed, KcpTypeOK
<1>7. Typed'
  BY <1>3, <1>6 DEF Typed, KcpTypeOK, rcvVars
<1>8. (SendWindow /\ NothingStranded /\ AcksTrue /\ AckedIsReceived)'
  BY <1>3 DEF SendWindow, NothingStranded, AcksTrue, AckedIsReceived, Has, rcvVars
<1> QED BY <1>7, <1>8

\* ikcp_recv keeps the windows, the acknowledgements and what is next in order.
LEMMA RecvSafe ==
    ASSUME Safe, NEW e \in Endpoints, Recv(e)
    PROVE  Safe'
<1> DEFINE q == rcv_queue[e]
           n == Merged(q)
<1> USE DEF Safe
<1>1. Advanced /\ n \in 1..Len(q)
  BY RecvEffect
<1>2. /\ got' = [got EXCEPT ![e] = Append(got[e], SubSeq(q, 1, n))]
      /\ tell' \in [Endpoints -> BOOLEAN]
      /\ UNCHANGED <<sndVars, acklist, net, sent>>
  BY DEF Recv, Typed, KcpTypeOK
<1> HIDE DEF n
<1>3. SubSeq(q, 1, n) \in Seq(Fragment)
  <2>1. q \in Seq(Fragment) /\ Len(q) \in Nat /\ n \in Nat
    BY <1>1, LenProperties DEF Typed, KcpTypeOK
  <2>2. \A j \in 1..n : q[j] \in Fragment
    BY <1>1, <2>1, ElementOfSeq
  <2> QED BY <2>1, <2>2, SubSeqProperties
<1>4. got' \in [Endpoints -> Seq(Seq(Fragment))]
  <2>1. Append(got[e], SubSeq(q, 1, n)) \in Seq(Seq(Fragment))
    BY <1>3, AppendProperties DEF Typed, KcpTypeOK
  <2> QED BY <1>2, <2>1 DEF Typed, KcpTypeOK
<1>5. (NothingStranded /\ AcksTrue /\ AckedIsReceived)'
  <2>1. \A f \in Endpoints : \A s \in acklist'[f] : s \in Nat /\ (s \in acklist[f] \/ Has(f, s)')
    BY <1>2 DEF Typed
  <2>2. \A d \in net' : d \in Datagrams /\ (d \in net \/ (d.una = rcv_nxt[d.from] /\ d.acks \subseteq acklist[d.from]))
    BY <1>2 DEF Typed
  <2>3. \A f \in Endpoints : \A s \in 0..(snd_nxt'[f] - 1) \ DOMAIN snd_buf'[f] : s \in Nat /\ Has(Peer(f), s)
    BY <1>2 DEF AckedIsReceived, Has, sndVars
  <2> QED BY <1>1, <2>1, <2>2, <2>3, AdvancedKeeps
<1>6. SendWindow'
  BY <1>2 DEF SendWindow, sndVars
<1>7. Typed'
  <2>1. ASSUME NEW f \in Endpoints PROVE acklist'[f] \subseteq 0..(rcv_nxt'[f] + RcvWnd - 1)
    <3>1. rcv_nxt[f] \in Nat /\ rcv_nxt'[f] \in Nat /\ rcv_nxt[f] <= rcv_nxt'[f]
      BY <1>1 DEF Typed, Advanced
    <3>2. acklist'[f] \subseteq 0..(rcv_nxt[f] + RcvWnd - 1)
      BY <1>2 DEF Typed, KcpTypeOK
    <3> QED BY <3>1, <3>2, KcpAssumption DEF KcpAssumption
  <2>2. KcpTypeOK'
    BY <1>1, <1>2, <1>4, <2>1 DEF Typed, KcpTypeOK, Advanced, Receiving, sndVars
  <2> QED BY <1>1, <1>2, <2>2 DEF Typed, Advanced, sndVars
<1> QED BY <1>5, <1>6, <1>7

\* ikcp_flush numbers no more than the window admits, and acknowledges what the end has received.
LEMMA FlushSafe ==
    ASSUME Safe, NEW e \in Endpoints, NEW due \in SUBSET DOMAIN snd_buf[e], NEW probeDue \in BOOLEAN,
           Flush(e, due, probeDue)
    PROVE  Safe'
<1> USE DEF Safe
<1>1. PICK n \in Nat : Flushed(e, n)
  BY FlushEffect
<1>2. /\ fastack' = [fastack EXCEPT ![e] = fastack[e] \cap due]
      /\ probing' = [probing EXCEPT ![e] = rmt_wnd[e] = 0]
      /\ acklist' = [acklist EXCEPT ![e] = {}]
      /\ tell' = [tell EXCEPT ![e] = FALSE]
      /\ UNCHANGED <<snd_una, rmt_wnd, rcv_nxt, rcv_buf, rcv_queue, sent, got>>
  BY DEF Flush
<1>3. Advanced
  BY <1>2, StillAdvances
<1>4. \A f \in Endpoints : acklist'[f] \subseteq acklist[f] /\ fastack'[f] \subseteq fastack[f]
  BY <1>2 DEF Typed
<1>5. acklist' \in [Endpoints -> SUBSET Nat] /\ fastack' \in [Endpoints -> SUBSET Nat]
  BY <1>2 DEF Typed
<1>6. probing' \in [Endpoints -> BOOLEAN] /\ tell' \in [Endpoints -> BOOLEAN]
  BY <1>2 DEF Typed, KcpTypeOK
<1>7. ASSUME NEW f \in Endpoints
      PROVE  /\ snd_nxt[f] <= snd_nxt'[f] /\ snd_nxt'[f] \in Nat
             /\ DOMAIN snd_buf'[f] = DOMAIN snd_buf[f] \cup snd_nxt[f]..(snd_nxt'[f] - 1)
             /\ snd_nxt'[f] - snd_una[f] <= SndWnd
  <2>1. snd_nxt[f] \in Nat /\ DOMAIN snd_buf[f] \subseteq Nat /\ n \in Nat
    BY SegmentsFacts DEF Typed
  <2>2. CASE f = e
    <3>1. /\ n \in Nat /\ snd_nxt[e] + n - snd_una[e] <= SndWnd /\ snd_nxt'[e] = snd_nxt[e] + n
          /\ DOMAIN snd_buf'[e] = DOMAIN snd_buf[e] \cup snd_nxt[e]..(snd_nxt[e] + n - 1)
      BY <1>1 DEF Flushed
    <3>2. snd_nxt[e] <= snd_nxt'[e] /\ snd_nxt'[e] \in Nat /\ snd_nxt'[e] - snd_una[e] <= SndWnd
      <4>1. snd_una[e] \in Nat /\ snd_nxt[e] \in Nat /\ SndWnd \in Nat
        BY KcpAssumption DEF Typed, KcpAssumption
      <4> QED BY <3>1, <4>1
    <3>3. DOMAIN snd_buf'[e] = DOMAIN snd_buf[e] \cup snd_nxt[e]..(snd_nxt'[e] - 1)
      <4>1. snd_nxt[e] \in Nat
        BY DEF Typed
      <4>2. snd_nxt[e] + n - 1 = snd_nxt'[e] - 1
        BY <3>1, <4>1
      <4> QED BY <3>1, <4>2
    <3> QED BY <2>2, <3>2, <3>3
  <2>3. CASE f # e
    BY <1>1, <2>1, <2>3 DEF Flushed, SendWindow
  <2> QED BY <2>2, <2>3
<1>8. (NothingStranded /\ AcksTrue /\ AckedIsReceived)'
  <2>1. \A f \in Endpoints : \A s \in acklist'[f] : s \in Nat /\ (s \in acklist[f] \/ Has(f, s)')
    BY <1>4 DEF Typed
  <2>2. \A d \in net' : d \in Datagrams /\ (d \in net \/ (d.una = rcv_nxt[d.from] /\ d.acks \subseteq acklist[d.from]))
    BY <1>1 DEF Flushed
  <2>3. ASSUME NEW f \in Endpoints, NEW s \in 0..(snd_nxt'[f] - 1) \ DOMAIN snd_buf'[f]
        PROVE  s \in Nat /\ Has(Peer(f), s)
    <3>1. /\ snd_nxt[f] \in Nat /\ snd_nxt'[f] \in Nat
          /\ DOMAIN snd_buf'[f] = DOMAIN snd_buf[f] \cup snd_nxt[f]..(snd_nxt'[f] - 1)
      BY <1>7 DEF Typed
    <3>2. s \in 0..(snd_nxt[f] - 1) /\ s \notin DOMAIN snd_buf[f] /\ s \in Nat
      BY <3>1
    <3> QED BY <3>2 DEF AckedIsReceived, Has
  <2> QED BY <1>3, <2>1, <2>2, <2>3, AdvancedKeeps
<1>9. SendWindow'
  BY <1>2, <1>7 DEF SendWindow
<1>10. ASSUME NEW f \in Endpoints
       PROVE  /\ DOMAIN snd_buf'[f] \subseteq snd_una'[f]..(snd_nxt'[f] - 1)
              /\ fastack'[f] \subseteq DOMAIN snd_buf'[f]
              /\ snd_una'[f] <= snd_nxt'[f]
              /\ acklist'[f] \subseteq 0..(rcv_nxt'[f] + RcvWnd - 1)
  <2>1. /\ snd_una[f] \in Nat /\ snd_nxt[f] \in Nat /\ snd_una[f] <= snd_nxt[f]
        /\ DOMAIN snd_buf[f] \subseteq snd_una[f]..(snd_nxt[f] - 1)
        /\ fastack[f] \subseteq DOMAIN snd_buf[f] /\ acklist[f] \subseteq 0..(rcv_nxt[f] + RcvWnd - 1)
    BY DEF Typed, KcpTypeOK
  <2> QED BY <1>2, <1>4, <1>7, <2>1
<1>11. snd_queue' \in [Endpoints -> Seq(Fragment)] /\ snd_buf' \in [Endpoints -> Segments]
       /\ snd_nxt' \in [Endpoints -> Nat] /\ net' \subseteq Datagrams
  BY <1>1 DEF Flushed
<1>12. KcpTypeOK'
  BY <1>2, <1>6, <1>10, <1>11 DEF Typed, KcpTypeOK
<1>13. Typed'
  BY <1>2, <1>5, <1>10, <1>11, <1>12 DEF Typed
<1> QED BY <1>8, <1>9, <1>13

\* ikcp_input puts at most the one segment of a datagram into rcv_buf, and acknowledges it only if it has it.
LEMMA InputAdvances ==
    ASSUME Typed, NothingStranded, NEW e \in Endpoints, NEW d \in net, Input(e, d)
    PROVE  /\ Advanced
           /\ \/ acklist' = acklist
              \/ \E s \in Nat : /\ acklist' = [acklist EXCEPT ![e] = @ \cup {s}]
                                /\ Has(e, s)' /\ s < rcv_nxt[e] + RcvWnd
<1>1. d.push \subseteq [sn : Nat, data : Fragment]
  BY DEF Typed, Datagrams
<1>2. \/ UNCHANGED <<rcv_nxt, rcv_buf, rcv_queue, acklist>>
      \/ \E seg \in d.push : Accept(e, seg.sn, seg.data)
  BY DEF Input
<1>3. CASE UNCHANGED <<rcv_nxt, rcv_buf, rcv_queue, acklist>>
  BY <1>3, StillAdvances
<1>4. CASE \E seg \in d.push : Accept(e, seg.sn, seg.data)
  <2>1. PICK seg \in d.push : Accept(e, seg.sn, seg.data)
    BY <1>4
  <2>2. seg.sn \in Nat /\ seg.data \in Fragment
    BY <1>1
  <2> QED BY <2>1, <2>2, AcceptEffect
<1> QED BY <1>2, <1>3, <1>4

\* ikcp_input believes only acknowledgements of segments the peer has received, and keeps the windows.
LEMMA InputSafe ==
    ASSUME Safe, NEW e \in Endpoints, NEW d \in net, Input(e, d)
    PROVE  Safe'
<1> USE DEF Safe
<1> DEFINE gone == Before(e, d.una) \cup d.acks
<1>1. /\ d.from = Peer(e) /\ d.wnd \in 0..RcvWnd /\ d.una \in Nat /\ d.acks \subseteq Nat
      /\ d.push \subseteq [sn : Nat, data : Fragment]
  BY DEF Typed, Datagrams, Input
<1>2. /\ snd_buf' \in [Endpoints -> Segments]
      /\ DOMAIN snd_buf'[e] = DOMAIN snd_buf[e] \ gone
      /\ snd_una' \in [Endpoints -> Nat]
      /\ snd_una[e] <= snd_una'[e] /\ snd_una'[e] <= snd_nxt[e]
      /\ DOMAIN snd_buf'[e] \subseteq snd_una'[e]..(snd_nxt[e] - 1)
      /\ \A f \in Endpoints : f # e => snd_buf'[f] = snd_buf[f] /\ snd_una'[f] = snd_una[f]
  BY AcknowledgeEffect DEF Input
<1>3. /\ rmt_wnd' = [rmt_wnd EXCEPT ![e] = d.wnd]
      /\ fastack' = [fastack EXCEPT ![e] = (fastack[e] \cap DOMAIN snd_buf'[e]) \cup Skipped(e, d.acks)]
      /\ tell' = [tell EXCEPT ![e] = tell[e] \/ "WASK" \in d.cmds]
      /\ net' \subseteq net
      /\ UNCHANGED <<snd_queue, snd_nxt, probing, sent, got>>
  BY DEF Input
<1>5. /\ Advanced
      /\ \/ acklist' = acklist
         \/ \E s \in Nat : /\ acklist' = [acklist EXCEPT ![e] = @ \cup {s}]
                           /\ Has(e, s)' /\ s < rcv_nxt[e] + RcvWnd
  BY InputAdvances
<1>6. Skipped(e, d.acks) \subseteq DOMAIN snd_buf'[e]
  BY DEF Skipped
<1>7. ASSUME NEW f \in Endpoints
      PROVE  /\ acklist'[f] \subseteq 0..(rcv_nxt'[f] + RcvWnd - 1)
             /\ \A s \in acklist'[f] : s \in acklist[f] \/ Has(f, s)'
  <2>1. /\ acklist[f] \subseteq 0..(rcv_nxt[f] + RcvWnd - 1) /\ rcv_nxt[f] \in Nat /\ rcv_nxt'[f] \in Nat
        /\ rcv_nxt[f] <= rcv_nxt'[f] /\ RcvWnd \in Nat
    BY <1>5, KcpAssumption DEF Typed, KcpTypeOK, Advanced, KcpAssumption
  <2>2. CASE acklist' = acklist
    BY <2>1, <2>2
  <2>3. CASE acklist' # acklist
    <3>1. PICK s \in Nat : /\ acklist' = [acklist EXCEPT ![e] = @ \cup {s}]
                           /\ Has(e, s)' /\ s < rcv_nxt[e] + RcvWnd
      BY <1>5, <2>3
    <3>2. acklist'[f] = IF f = e THEN acklist[e] \cup {s} ELSE acklist[f]
      BY <3>1 DEF Typed
    <3>3. CASE f = e
      <4>1. s \in 0..(rcv_nxt'[f] + RcvWnd - 1)
        BY <2>1, <3>1, <3>3
      <4> QED BY <2>1, <3>1, <3>2, <3>3, <4>1
    <3>4. CASE f # e
      BY <2>1, <3>2, <3>4
    <3> QED BY <3>3, <3>4
  <2> QED BY <2>2, <2>3
<1>8. acklist' \in [Endpoints -> SUBSET Nat]
  BY <1>5 DEF Typed
<1>9. (NothingStranded /\ AcksTrue /\ AckedIsReceived)'
  <2>1. \A f \in Endpoints : \A s \in acklist'[f] : s \in Nat /\ (s \in acklist[f] \/ Has(f, s)')
    BY <1>7, <1>8
  <2>2. \A x \in net' : x \in Datagrams /\ (x \in net \/ (x.una = rcv_nxt[x.from] /\ x.acks \subseteq acklist[x.from]))
    BY <1>3 DEF Typed
  <2>3. ASSUME NEW f \in Endpoints, NEW s \in 0..(snd_nxt'[f] - 1) \ DOMAIN snd_buf'[f]
        PROVE  s \in Nat /\ Has(Peer(f), s)
    <3>1. s \in 0..(snd_nxt[f] - 1) /\ s \in Nat
      BY <1>3 DEF Typed
    <3>2. CASE s \notin DOMAIN snd_buf[f]
      BY <3>1, <3>2 DEF AckedIsReceived, Has
    <3>3. CASE s \in DOMAIN snd_buf[f]
      <4>1. f = e /\ s \in gone
        BY <1>2, <3>3
      <4>2. s < d.una \/ s \in d.acks
        BY <4>1 DEF Before
      <4>3. d.una <= rcv_nxt[Peer(e)] /\ \A t \in d.acks : Has(Peer(e), t)
        BY <1>1 DEF AcksTrue
      <4>4. rcv_nxt[Peer(e)] \in Nat
        BY PeerFacts DEF Typed
      <4> QED BY <1>1, <3>1, <4>1, <4>2, <4>3, <4>4 DEF Has
    <3> QED BY <3>2, <3>3
  <2> QED BY <1>5, <2>1, <2>2, <2>3, AdvancedKeeps
<1>10. ASSUME NEW f \in Endpoints
       PROVE  /\ DOMAIN snd_buf'[f] \subseteq snd_una'[f]..(snd_nxt'[f] - 1)
              /\ fastack'[f] \subseteq DOMAIN snd_buf'[f]
              /\ snd_una'[f] <= snd_nxt'[f]
              /\ snd_nxt'[f] - snd_una'[f] <= SndWnd
  <2>1. /\ snd_una[f] \in Nat /\ snd_nxt[f] \in Nat /\ snd_una[f] <= snd_nxt[f] /\ snd_una'[f] \in Nat
        /\ DOMAIN snd_buf[f] \subseteq snd_una[f]..(snd_nxt[f] - 1)
        /\ fastack[f] \subseteq DOMAIN snd_buf[f] /\ snd_nxt'[f] = snd_nxt[f] /\ SndWnd \in Nat
    BY <1>2, <1>3, KcpAssumption DEF Typed, KcpTypeOK, KcpAssumption
  <2>2. CASE f = e
    BY <1>2, <1>3, <1>6, <2>1, <2>2 DEF Typed, SendWindow
  <2>3. CASE f # e
    BY <1>2, <1>3, <2>1, <2>3 DEF Typed, SendWindow
  <2> QED BY <2>2, <2>3
<1>11. SendWindow'
  BY <1>10 DEF SendWindow
<1>12. rmt_wnd' \in [Endpoints -> 0..RcvWnd] /\ tell' \in [Endpoints -> BOOLEAN] /\ fastack' \in [Endpoints -> SUBSET Nat]
  <2>1. DOMAIN snd_buf'[e] \subseteq Nat
    BY <1>2, SegmentsFacts
  <2> QED BY <1>1, <1>3, <1>6, <2>1 DEF Typed, KcpTypeOK
<1>13. KcpTypeOK'
  BY <1>2, <1>3, <1>5, <1>7, <1>10, <1>12 DEF Typed, KcpTypeOK, Advanced, Receiving
<1>14. Typed'
  BY <1>2, <1>3, <1>5, <1>8, <1>10, <1>12, <1>13 DEF Typed, Advanced
<1> QED BY <1>9, <1>11, <1>14

-----------------------------------------------------------------------------
(* The streams. *)

\* At the start the stream of each end is empty.
LEMMA StreamsInit == Init => Streams
<1> SUFFICES ASSUME Init, NEW e \in Endpoints PROVE \E st \in Seq(Fragment), at \in Seq(Nat) : StreamOf(e, st, at)
  BY DEF Streams
<1>1. <<>> \in Seq(Fragment) /\ Len(<<>>) = 0 /\ DOMAIN <<>> = {}
  BY EmptySeq
<1>2. <<0>> \in Seq(Nat) /\ Len(<<0>>) = 1 /\ <<0>>[1] = 0
  OBVIOUS
<1>3. Script[e] \in Seq(Nat \ {0})
  BY KcpAssumption DEF KcpAssumption
<1>4. Peer(e) \in Endpoints
  BY PeerFacts
<1>5. SendSide(e, <<>>) /\ InFlight(e, <<>>) /\ RecvSide(e, <<>>)
  BY <1>1, <1>4 DEF Init, SendSide, InFlight, RecvSide
<1>6. Composed(e, <<>>, <<0>>)
  BY <1>1, <1>2, <1>3, LenProperties DEF Init, Composed
<1>7. ReadUpTo(e, <<0>>)
  BY <1>1, <1>2, <1>4 DEF Init, ReadUpTo
<1> QED BY <1>1, <1>2, <1>5, <1>6, <1>7 DEF StreamOf

\* A step of the peer that neither sends nor receives for the stream of e keeps it.
LEMMA OtherStream ==
    ASSUME NEW e \in Endpoints, NEW st, NEW at, StreamOf(e, st, at),
           snd_queue'[e] = snd_queue[e], snd_buf'[e] = snd_buf[e], snd_nxt'[e] = snd_nxt[e], sent'[e] = sent[e],
           rcv_nxt'[Peer(e)] = rcv_nxt[Peer(e)], rcv_buf'[Peer(e)] = rcv_buf[Peer(e)],
           rcv_queue'[Peer(e)] = rcv_queue[Peer(e)], got'[Peer(e)] = got[Peer(e)],
           \A d \in net' : d.from = e => d \in net
    PROVE  StreamOf(e, st, at)'
<1>1. SendSide(e, st)' /\ InFlight(e, st)'
  BY DEF StreamOf, SendSide, InFlight
<1>2. RecvSide(e, st)'
  BY DEF StreamOf, RecvSide
<1>3. Composed(e, st, at)'
  BY DEF StreamOf, Composed
<1>4. ReadUpTo(e, at)'
  BY DEF StreamOf, ReadUpTo
<1> QED BY <1>1, <1>2, <1>3, <1>4 DEF StreamOf

\* Buffer buf and queue q of the peer of e hold fragments of stream st, each at its place in it.
OfStream(e, st, buf, q) ==
    LET nxt == rcv_nxt[Peer(e)] IN
    /\ nxt <= snd_nxt[e] /\ Len(q) <= nxt
    /\ \A s \in DOMAIN buf : s < snd_nxt[e] /\ buf[s] = st[s + 1]
    /\ \A j \in 1..Len(q) : q[j] = st[nxt - Len(q) + j]

\* Moving segments of the stream that are next in order to the end of a queue of the stream.
LEMMA MovedInStream ==
    ASSUME Typed, NEW e \in Endpoints, NEW st, NEW buf \in Segments, NEW q \in Seq(Fragment), NEW k \in Nat,
           Moved(Peer(e), rcv_nxt[Peer(e)], buf, q, k), OfStream(e, st, buf, q), snd_nxt'[e] = snd_nxt[e]
    PROVE  /\ RecvSide(e, st)'
           /\ rcv_nxt'[Peer(e)] - Len(rcv_queue'[Peer(e)]) = rcv_nxt[Peer(e)] - Len(q)
<1> DEFINE f == Peer(e)
           nxt == rcv_nxt[f]
<1> USE DEF OfStream
<1>1. nxt \in Nat /\ snd_nxt[e] \in Nat /\ Len(q) \in Nat /\ DOMAIN buf \subseteq Nat
  BY PeerFacts, LenProperties, SegmentsFacts DEF Typed
<1>2. /\ k \in 0..(RcvWnd - Len(q)) /\ \A s \in nxt..(nxt + k - 1) : s \in DOMAIN buf
      /\ rcv_nxt'[f] = nxt + k /\ Len(rcv_queue'[f]) = Len(q) + k
      /\ DOMAIN rcv_buf'[f] = DOMAIN buf \ nxt..(nxt + k - 1)
      /\ \A s \in DOMAIN rcv_buf'[f] : rcv_buf'[f][s] = buf[s]
      /\ \A j \in 1..Len(q) : rcv_queue'[f][j] = q[j]
      /\ \A j \in 1..k : rcv_queue'[f][Len(q) + j] = buf[nxt + j - 1]
  BY DEF Moved
<1>3. rcv_nxt'[f] - Len(rcv_queue'[f]) = nxt - Len(q)
  BY <1>1, <1>2
<1>4. rcv_nxt'[f] <= snd_nxt'[e]
  <2>1. CASE k = 0
    BY <1>1, <1>2, <2>1
  <2>2. CASE k > 0
    <3>1. nxt + k - 1 \in nxt..(nxt + k - 1)
      BY <1>1, <2>2
    <3>2. nxt + k - 1 \in DOMAIN buf
      BY <1>2, <3>1
    <3>3. nxt + k - 1 < snd_nxt[e]
      BY <3>2
    <3> QED BY <1>1, <1>2, <3>3
  <2> QED BY <2>1, <2>2
<1>5. \A s \in DOMAIN rcv_buf'[f] : s < snd_nxt'[e] /\ rcv_buf'[f][s] = st[s + 1]
  BY <1>2
<1>6. Len(rcv_queue'[f]) <= rcv_nxt'[f]
  BY <1>1, <1>2
<1>7. ASSUME NEW j \in 1..Len(rcv_queue'[f])
      PROVE  rcv_queue'[f][j] = st[rcv_nxt'[f] - Len(rcv_queue'[f]) + j]
  <2>1. CASE j <= Len(q)
    <3>1. j \in 1..Len(q)
      BY <1>1, <1>2, <2>1
    <3>2. rcv_queue'[f][j] = st[nxt - Len(q) + j]
      BY <1>2, <3>1
    <3> QED BY <1>3, <3>2
  <2>2. CASE ~(j <= Len(q))
    <3> DEFINE m == j - Len(q)
    <3>1. m \in 1..k /\ j = Len(q) + m
      BY <1>1, <1>2, <2>2
    <3>2. rcv_queue'[f][j] = buf[nxt + m - 1]
      BY <1>2, <3>1
    <3>3. nxt + m - 1 \in nxt..(nxt + k - 1)
      BY <1>1, <3>1
    <3>4. buf[nxt + m - 1] = st[nxt + m - 1 + 1]
      BY <1>2, <3>3
    <3>5. nxt + m - 1 + 1 = rcv_nxt'[f] - Len(rcv_queue'[f]) + j
      BY <1>1, <1>2, <3>1
    <3> QED BY <3>2, <3>4, <3>5
  <2> QED BY <2>1, <2>2
<1>8. RecvSide(e, st)'
  BY <1>4, <1>5, <1>6, <1>7 DEF RecvSide
<1> QED BY <1>3, <1>8

\* ikcp_send lengthens the stream of its end by the fragments of one message.
LEMMA SendStream ==
    ASSUME Safe, NEW e \in Endpoints, Send(e), NEW st \in Seq(Fragment), NEW at \in Seq(Nat), StreamOf(e, st, at),
           NEW i \in Nat, i = Len(sent[e]) + 1
    PROVE  \E long \in Seq(Fragment), starts \in Seq(Nat) : StreamOf(e, long, starts)'
<1> DEFINE c == Script[e][i]
           frs == FragmentsOf(e, i)
           st2 == st \o frs
           at2 == Append(at, Len(st) + c)
           nxt == snd_nxt[e]
           queue == snd_queue[e]
<1>1. /\ sent[e] \in Seq(Seq(Fragment)) /\ Len(sent[e]) \in Nat /\ nxt \in Nat /\ queue \in Seq(Fragment)
      /\ Len(queue) \in Nat /\ Len(st) \in Nat /\ Len(Script[e]) \in Nat
  <2>1. Script[e] \in Seq(Nat \ {0})
    BY KcpAssumption DEF KcpAssumption
  <2> QED BY <2>1, LenProperties DEF Safe, Typed, KcpTypeOK
<1>2. i \in 1..Len(Script[e])
  BY <1>1 DEF Send
<1>3. /\ snd_queue' = [snd_queue EXCEPT ![e] = queue \o frs]
      /\ sent' = [sent EXCEPT ![e] = Append(sent[e], frs)]
      /\ UNCHANGED <<snd_buf, snd_nxt, rcv_nxt, rcv_buf, rcv_queue, net, got>>
  BY DEF Send, rcvVars
<1>4. /\ c \in Nat \ {0} /\ frs \in Seq(Fragment) /\ Len(frs) = c
      /\ \A j \in 1..c : frs[j] = [msg |-> i, frg |-> c - j]
  BY <1>2, FragmentsType
<1> HIDE DEF frs, c
<1>5. c \in Nat \ {0}
  BY <1>4
<1>6. frs \in Seq(Fragment) /\ Len(frs) = c
  BY <1>4
<1>7. frs \in Seq(Fragment)
  BY <1>6
<1>8. Len(queue) \in Nat /\ Len(st) \in Nat /\ nxt \in Nat /\ Len(sent[e]) \in Nat
  BY <1>1
<1>9. queue \in Seq(Fragment)
  BY <1>1
<1>10. /\ st2 \in Seq(Fragment) /\ Len(st2) = Len(st) + c
       /\ \A j \in 1..Len(st) : st2[j] = st[j]
       /\ \A j \in 1..c : st2[Len(st) + j] = frs[j]
  <2>1. /\ st2 \in Seq(Fragment) /\ Len(st2) = Len(st) + Len(frs)
        /\ \A j \in 1..Len(st) : st2[j] = st[j]
        /\ \A j \in 1..Len(frs) : st2[Len(st) + j] = frs[j]
    BY <1>7, ConcatFacts
  <2> HIDE DEF st2
  <2> QED BY <1>6, <2>1
<1>11. /\ snd_queue'[e] \in Seq(Fragment) /\ Len(snd_queue'[e]) = Len(queue) + c
       /\ \A j \in 1..Len(queue) : snd_queue'[e][j] = queue[j]
       /\ \A j \in 1..c : snd_queue'[e][Len(queue) + j] = frs[j]
  <2>1. snd_queue'[e] = queue \o frs
    BY <1>3 DEF Safe, Typed, KcpTypeOK
  <2> DEFINE qq == queue \o frs
  <2>2. \A q, f \in Seq(Fragment) :
            /\ q \o f \in Seq(Fragment) /\ Len(q \o f) = Len(q) + Len(f)
            /\ \A j \in 1..Len(q) : (q \o f)[j] = q[j]
            /\ \A j \in 1..Len(f) : (q \o f)[Len(q) + j] = f[j]
    BY ConcatFacts
  <2>3. /\ qq \in Seq(Fragment) /\ Len(qq) = Len(queue) + Len(frs)
        /\ \A j \in 1..Len(queue) : qq[j] = queue[j]
        /\ \A j \in 1..Len(frs) : qq[Len(queue) + j] = frs[j]
    BY <1>7, <1>9, <2>2
  <2>4. snd_queue'[e] = qq
    BY <2>1
  <2> HIDE DEF qq
  <2>5. Len(frs) = c
    BY <1>6
  <2>6. /\ qq \in Seq(Fragment) /\ Len(qq) = Len(queue) + c
        /\ \A j \in 1..Len(queue) : qq[j] = queue[j]
        /\ \A j \in 1..c : qq[Len(queue) + j] = frs[j]
    BY <2>3, <2>5, Zenon
  <2> QED BY <2>4, <2>6, Zenon
<1>12. /\ Len(at) = i /\ Len(st) = nxt + Len(queue) /\ at[i] = Len(st)
  BY <1>1, <1>2 DEF StreamOf, SendSide, Composed
<1>13. Len(st) = nxt + Len(queue)
  BY <1>12
<1>14. Len(snd_queue'[e]) = Len(queue) + c
  BY <1>11
<1>15. /\ at2 \in Seq(Nat) /\ Len(at2) = i + 1 /\ at2[i + 1] = Len(st) + c
       /\ \A j \in 1..i : at2[j] = at[j]
  <2>1. Len(st) + c \in Nat
    BY <1>1, <1>4
  <2> QED BY <1>12, <2>1, AppendProperties
<1> HIDE DEF st2, at2
<1>16. sent'[e] = Append(sent[e], frs) /\ Len(sent'[e]) = i /\ sent'[e][i] = frs
      /\ \A j \in 1..Len(sent[e]) : sent'[e][j] = sent[e][j]
  <2>1. sent'[e] = Append(sent[e], frs)
    BY <1>3 DEF Safe, Typed, KcpTypeOK
  <2> QED BY <1>1, <1>2, <1>4, <2>1, AppendProperties
<1>17. SendSide(e, st2)'
  <2>1. Len(st2) = snd_nxt'[e] + Len(snd_queue'[e])
    <3>1. Len(st2) = Len(st) + c /\ snd_nxt'[e] = nxt
      BY <1>3, <1>10
    <3> QED BY <1>5, <1>8, <1>14, <1>13, <3>1
  <2>2. ASSUME NEW j \in 1..Len(snd_queue'[e]) PROVE snd_queue'[e][j] = st2[snd_nxt'[e] + j]
    <3>1. CASE j \in 1..Len(queue)
      <4>1. queue[j] = st[nxt + j]
        BY <3>1 DEF StreamOf, SendSide
      <4>2. nxt + j \in 1..Len(st)
        BY <1>8, <1>13, <3>1
      <4>3. snd_nxt'[e] = nxt
        BY <1>3
      <4>4. snd_queue'[e][j] = queue[j]
        BY <1>11, <3>1
      <4>5. st2[nxt + j] = st[nxt + j]
        BY <1>10, <4>2
      <4> QED BY <4>1, <4>3, <4>4, <4>5, Zenon
    <3>2. CASE j \notin 1..Len(queue)
      <4> DEFINE k == j - Len(queue)
      <4>1. k \in 1..c /\ j = Len(queue) + k /\ nxt + j = Len(st) + k
        BY <1>5, <1>8, <1>14, <1>13, <3>2
      <4> HIDE DEF k
      <4>2. snd_nxt'[e] = nxt
        BY <1>3
      <4>3. snd_queue'[e][Len(queue) + k] = frs[k]
        BY <1>11, <4>1, Zenon
      <4>4. st2[Len(st) + k] = frs[k]
        BY <1>10, <4>1, Zenon
      <4> QED BY <4>1, <4>2, <4>3, <4>4, Zenon
    <3> QED BY <3>1, <3>2
  <2>3. ASSUME NEW s \in DOMAIN snd_buf'[e] PROVE snd_buf'[e][s] = st2[s + 1]
    <3>1. s \in DOMAIN snd_buf[e] /\ snd_buf'[e][s] = snd_buf[e][s] /\ snd_buf[e][s] = st[s + 1]
      BY <1>3 DEF StreamOf, SendSide
    <3>2. s + 1 \in 1..Len(st)
      <4>1. s \in Nat /\ s \in snd_una[e]..(nxt - 1) /\ snd_una[e] \in Nat
        BY <3>1, SegmentsFacts DEF Safe, Typed, KcpTypeOK
      <4> QED BY <1>8, <1>13, <4>1
    <3> QED BY <1>10, <3>1, <3>2
  <2> QED BY <2>1, <2>2, <2>3 DEF SendSide
<1>18. InFlight(e, st2)'
  <2>1. ASSUME NEW d \in net', d.from = e, NEW seg \in d.push
        PROVE  seg.sn < snd_nxt'[e] /\ seg.data = st2[seg.sn + 1]
    <3>1. d \in net /\ seg.sn < nxt /\ seg.data = st[seg.sn + 1]
      BY <1>3, <2>1 DEF StreamOf, InFlight
    <3>2. seg.sn \in Nat
      BY <2>1, <3>1 DEF Safe, Typed, Datagrams
    <3>3. seg.sn + 1 \in 1..Len(st)
      BY <1>8, <1>13, <3>1, <3>2
    <3> QED BY <1>3, <1>10, <3>1, <3>3
  <2> QED BY <2>1 DEF InFlight
<1>19. RecvSide(e, st2)'
  <2> DEFINE f == Peer(e)
  <2>1. f \in Endpoints /\ rcv_nxt[f] \in Nat /\ rcv_nxt[f] <= nxt /\ Len(rcv_queue[f]) <= rcv_nxt[f]
        /\ Len(rcv_queue[f]) \in Nat
    BY PeerFacts, LenProperties DEF Safe, Typed, StreamOf, RecvSide
  <2>2. ASSUME NEW s \in DOMAIN rcv_buf[f] PROVE s < nxt /\ rcv_buf[f][s] = st2[s + 1]
    <3>1. s < nxt /\ rcv_buf[f][s] = st[s + 1]
      BY DEF StreamOf, RecvSide
    <3>2. s \in Nat
      BY <2>1, SegmentsFacts DEF Safe, Typed
    <3>3. s + 1 \in 1..Len(st)
      BY <1>8, <1>13, <3>1, <3>2
    <3> QED BY <1>10, <3>1, <3>3
  <2>3. ASSUME NEW j \in 1..Len(rcv_queue[f])
        PROVE  rcv_queue[f][j] = st2[rcv_nxt[f] - Len(rcv_queue[f]) + j]
    <3>1. rcv_queue[f][j] = st[rcv_nxt[f] - Len(rcv_queue[f]) + j]
      BY DEF StreamOf, RecvSide
    <3>2. rcv_nxt[f] - Len(rcv_queue[f]) + j \in 1..Len(st)
      BY <1>8, <1>13, <2>1, QueuedPosition, Zenon
    <3> QED BY <1>10, <3>1, <3>2
  <2> QED BY <1>3, <2>1, <2>2, <2>3 DEF RecvSide
<1>20. Composed(e, st2, at2)'
  <2>1. ASSUME NEW m \in 1..i
        PROVE  /\ sent'[e][m] = FragmentsOf(e, m)
               /\ at2[m + 1] = at2[m] + Script[e][m]
               /\ at2[m + 1] <= Len(st2)
               /\ \A j \in 1..Script[e][m] : st2[at2[m] + j] = [msg |-> m, frg |-> Script[e][m] - j]
    <3>1. CASE m = i
      <4>1. at2[m] = Len(st) /\ at2[m + 1] = Len(st) + c /\ Script[e][m] = c
        BY <1>1, <1>2, <1>12, <1>15, <3>1 DEF c
      <4>2. sent'[e][m] = FragmentsOf(e, m)
        BY <1>16, <3>1 DEF frs
      <4>3. at2[m + 1] = at2[m] + Script[e][m] /\ at2[m + 1] <= Len(st2)
        <5>1. Len(st2) = Len(st) + c
          BY <1>10
        <5> QED BY <1>5, <1>8, <4>1, <5>1
      <4>4. ASSUME NEW j \in 1..c PROVE st2[Len(st) + j] = [msg |-> m, frg |-> c - j]
        <5>1. st2[Len(st) + j] = frs[j]
          BY <1>10, Zenon
        <5>2. frs[j] = [msg |-> i, frg |-> c - j]
          BY <1>4
        <5> QED BY <3>1, <5>1, <5>2
      <4> QED BY <4>1, <4>2, <4>3, <4>4, Zenon
    <3>2. CASE m # i
      <4>1. m \in 1..Len(sent[e]) /\ m \in 1..i /\ m + 1 \in 1..i
        BY <1>1, <1>2, <3>2
      <4>2. /\ sent[e][m] = FragmentsOf(e, m)
            /\ at[m + 1] = at[m] + Script[e][m]
            /\ at[m + 1] <= Len(st)
            /\ \A j \in 1..Script[e][m] : st[at[m] + j] = [msg |-> m, frg |-> Script[e][m] - j]
        BY <4>1 DEF StreamOf, Composed
      <4>3. at2[m] = at[m] /\ at2[m + 1] = at[m + 1]
        BY <1>15, <4>1
      <4>4. at[m] \in Nat /\ Script[e][m] \in Nat
        <5>1. m \in 1..Len(Script[e]) /\ m \in 1..Len(at)
          BY <1>1, <1>2, <1>12, <4>1, WithinPart, Zenon
        <5> QED BY <5>1, FragmentsType, ElementOfSeq
      <4>5. \A j \in 1..Script[e][m] : at[m] + j \in 1..Len(st)
        <5>1. at[m + 1] = at[m] + Script[e][m] /\ at[m + 1] <= Len(st)
          BY <4>2
        <5>2. at[m] + Script[e][m] <= Len(st)
          BY <5>1, Zenon
        <5> QED BY <1>8, <4>4, <5>2, FragmentPosition, Zenon
      <4>6. at[m + 1] \in Nat
        BY <4>2, <4>4
      <4>7. at2[m + 1] <= Len(st2)
        <5>1. at2[m + 1] = at[m + 1] /\ at[m + 1] <= Len(st) /\ Len(st2) = Len(st) + c
          BY <1>10, <4>2, <4>3
        <5> QED BY <1>5, <1>8, <4>6, <5>1
      <4>8. \A j \in 1..Script[e][m] : st2[at2[m] + j] = [msg |-> m, frg |-> Script[e][m] - j]
        BY <1>10, <4>2, <4>3, <4>5
      <4> QED BY <1>16, <4>1, <4>2, <4>3, <4>7, <4>8
    <3> QED BY <3>1, <3>2
  <2>2. Len(sent'[e]) <= Len(Script[e]) /\ Len(at2) = Len(sent'[e]) + 1 /\ at2[Len(at2)] = Len(st2)
    BY <1>1, <1>2, <1>10, <1>15, <1>16
  <2> QED BY <1>16, <2>1, <2>2 DEF Composed
<1>21. ReadUpTo(e, at2)'
  <2> DEFINE f == Peer(e)
  <2>1. /\ Len(got[f]) <= Len(sent[e]) /\ Len(got[f]) \in Nat
        /\ \A m \in 1..Len(got[f]) : got[f][m] = sent[e][m]
        /\ rcv_nxt[f] - Len(rcv_queue[f]) = at[Len(got[f]) + 1]
    <3>1. got[f] \in Seq(Seq(Fragment))
      BY PeerFacts DEF Safe, Typed, KcpTypeOK
    <3> QED BY <3>1, LenProperties DEF StreamOf, ReadUpTo
  <2>2. Len(got[f]) + 1 \in 1..i
    BY <1>1, <1>2, <2>1
  <2>3. at2[Len(got[f]) + 1] = at[Len(got[f]) + 1]
    BY <1>15, <2>2
  <2>4. \A m \in 1..Len(got[f]) : got[f][m] = sent'[e][m]
    BY <1>1, <1>16, <2>1
  <2>5. Len(got[f]) <= Len(sent'[e])
    BY <1>1, <1>2, <1>16, <2>1
  <2> QED BY <1>3, <2>1, <2>3, <2>4, <2>5 DEF ReadUpTo
<1> QED BY <1>10, <1>15, <1>17, <1>18, <1>19, <1>20, <1>21 DEF StreamOf

\* A message at the front of rcv_queue is the next one the peer sent, and ikcp_recv merges all of it.
LEMMA NextMessage ==
    ASSUME Safe, NEW e \in Endpoints, NEW st \in Seq(Fragment), NEW at \in Seq(Nat), StreamOf(e, st, at),
           Peekable(rcv_queue[Peer(e)])
    PROVE  LET q == rcv_queue[Peer(e)]
               g == Len(got[Peer(e)])
           IN /\ g + 1 \in 1..Len(sent[e])
              /\ SubSeq(q, 1, Merged(q)) = sent[e][g + 1]
              /\ rcv_nxt[Peer(e)] - Len(q) + Merged(q) = at[g + 2]
              /\ Merged(q) \in 1..Len(q)
<1> DEFINE f == Peer(e)
           q == rcv_queue[f]
           g == Len(got[f])
           r == rcv_nxt[f] - Len(q)
           i == g + 1
           c == Script[e][i]
<1>1. /\ f \in Endpoints /\ q \in Seq(Fragment) /\ Len(q) \in Nat \ {0} /\ DOMAIN q = 1..Len(q)
      /\ g \in Nat /\ Len(sent[e]) \in Nat /\ rcv_nxt[f] \in Nat /\ snd_nxt[e] \in Nat
      /\ Len(snd_queue[e]) \in Nat
  <2>1. f \in Endpoints
    BY PeerFacts
  <2> QED BY <2>1, LenProperties, EmptySeq DEF Safe, Typed, KcpTypeOK, Peekable
<1>2. /\ g <= Len(sent[e]) /\ r = at[i] /\ rcv_nxt[f] <= snd_nxt[e] /\ Len(q) <= rcv_nxt[f]
      /\ \A j \in 1..Len(q) : q[j] = st[r + j]
      /\ Len(st) = snd_nxt[e] + Len(snd_queue[e])
  BY DEF StreamOf, ReadUpTo, RecvSide, SendSide
<1>3. Len(at) = Len(sent[e]) + 1 /\ at[Len(at)] = Len(st) /\ Len(sent[e]) <= Len(Script[e])
  BY DEF StreamOf, Composed
<1> HIDE DEF g
<1>4. i \in 1..Len(sent[e])
  <2>1. CASE g = Len(sent[e])
    <3>1. r = Len(st)
      BY <1>2, <1>3, <2>1
    <3> QED BY <1>1, <1>2, <3>1
  <2>2. CASE g # Len(sent[e])
    BY <1>1, <1>2, <2>2
  <2> QED BY <2>1, <2>2
<1>5. i \in 1..Len(Script[e])
  <2>1. Len(Script[e]) \in Nat
    BY LenProperties, KcpAssumption DEF KcpAssumption
  <2> QED BY <1>1, <1>3, <1>4, <2>1
<1>6. /\ c \in Nat \ {0} /\ FragmentsOf(e, i) \in Seq(Fragment) /\ Len(FragmentsOf(e, i)) = c
      /\ \A j \in 1..c : FragmentsOf(e, i)[j] = [msg |-> i, frg |-> c - j]
  BY <1>5, FragmentsType
<1>7. /\ sent[e][i] = FragmentsOf(e, i) /\ at[i + 1] = at[i] + c
      /\ \A j \in 1..c : st[at[i] + j] = [msg |-> i, frg |-> c - j]
  BY <1>4 DEF StreamOf, Composed
<1> DEFINE frs == FragmentsOf(e, i)
<1>8. frs \in Seq(Fragment) /\ Len(frs) = c /\ \A j \in 1..c : frs[j] = [msg |-> i, frg |-> c - j]
  BY <1>6
<1>9. sent[e][i] = frs
  BY <1>7
<1>10. c \in Nat \ {0}
  BY <1>6
<1> HIDE DEF c, frs
<1>11. \A j \in 1..Len(q) : j \in 1..c => q[j] = [msg |-> i, frg |-> c - j]
  BY <1>2, <1>7
<1>12. ASSUME NEW j \in 1..Len(q), j \in 1..c PROVE q[j].frg = c - j
  <2>1. q[j] = [msg |-> i, frg |-> c - j]
    BY <1>11, <1>12
  <2> QED BY <2>1
<1>13. c <= Len(q)
  <2>1. 1 \in 1..Len(q) /\ 1 \in 1..c
    BY <1>1, <1>10
  <2>2. q[1].frg = c - 1
    BY <1>12, <2>1
  <2>3. Len(q) > c - 1
    BY <2>2 DEF Peekable
  <2> QED BY <1>1, <1>10, <2>3
<1>14. Merged(q) = c
  <2> DEFINE S == {j \in DOMAIN q : q[j].frg = 0} \cup {Len(q)}
  <2>1. S \in SUBSET Nat /\ S # {}
    BY <1>1
  <2>2. c \in S
    <3>1. c \in 1..Len(q) /\ c \in 1..c
      BY <1>1, <1>10, <1>13
    <3>2. q[c].frg = c - c
      BY <1>12, <3>1
    <3> QED BY <1>1, <1>10, <3>1, <3>2
  <2>3. \A j \in S : c <= j
    <3>1. ASSUME NEW j \in S, j < c PROVE FALSE
      <4>1. j \in 1..Len(q) /\ j \in Nat
        BY <1>1, <1>13, <3>1
      <4>2. j \in 1..c /\ j # Len(q)
        BY <1>1, <1>10, <1>13, <3>1, <4>1
      <4>3. q[j].frg = c - j
        BY <1>12, <4>1, <4>2
      <4>4. q[j].frg = 0
        BY <3>1, <4>2
      <4> QED BY <1>10, <3>1, <4>1, <4>3, <4>4
    <3> HIDE DEF S
    <3> QED BY <1>10, <2>1, <3>1
  <2> HIDE DEF S
  <2>4. Least(S) \in S /\ \A t \in S : Least(S) <= t
    BY <2>1, LeastExists
  <2>5. Least(S) = c
    <3>1. Least(S) <= c /\ c <= Least(S) /\ Least(S) \in Nat
      BY <2>1, <2>2, <2>3, <2>4
    <3> QED BY <1>10, <3>1
  <2> QED BY <2>5 DEF Merged, S
<1>15. SubSeq(q, 1, c) = frs
  <2> DEFINE m == SubSeq(q, 1, c)
  <2>1. \A j \in 1..c : j \in 1..Len(q) /\ q[j] \in Fragment
    BY <1>1, <1>10, <1>13, ElementOfSeq
  <2>2. /\ m \in Seq(Fragment) /\ Len(m) = IF 1 <= c THEN c - 1 + 1 ELSE 0
        /\ \A j \in 1..(c - 1 + 1) : m[j] = q[1 + j - 1]
    BY <1>10, <2>1, SubSeqProperties
  <2> HIDE DEF m
  <2>3. Len(m) = c
    BY <1>10, <2>2
  <2>4. ASSUME NEW j \in 1..Len(m) PROVE m[j] = frs[j]
    <3>1. j \in 1..(c - 1 + 1) /\ 1 + j - 1 = j /\ j \in 1..c
      BY <1>10, <2>3
    <3>2. m[j] = q[j]
      BY <2>2, <3>1
    <3>3. q[j] = [msg |-> i, frg |-> c - j]
      BY <1>11, <2>1, <3>1
    <3> QED BY <1>8, <3>1, <3>2, <3>3
  <2>5. m = frs
    BY <1>8, <2>2, <2>3, <2>4, SeqEqual
  <2> QED BY <2>5 DEF m
<1>16. r + c = at[i + 1] /\ i + 1 = g + 2
  BY <1>1, <1>2, <1>7 DEF c
<1> QED BY <1>1, <1>4, <1>9, <1>10, <1>13, <1>14, <1>15, <1>16 DEF g

\* ikcp_recv hands over the next message of the stream and leaves the rest in order.
LEMMA RecvStream ==
    ASSUME Safe, NEW e \in Endpoints, Recv(Peer(e)), NEW st \in Seq(Fragment), NEW at \in Seq(Nat), StreamOf(e, st, at)
    PROVE  StreamOf(e, st, at)'
<1> DEFINE f == Peer(e)
           q == rcv_queue[f]
           g == Len(got[f])
           n == Merged(q)
           rest == SubSeq(q, n + 1, Len(q))
<1>1. f \in Endpoints /\ f # e
  BY PeerFacts
<1>2. /\ got' = [got EXCEPT ![f] = Append(got[f], SubSeq(q, 1, n))]
      /\ UNCHANGED <<sndVars, acklist, net, sent>> /\ Peekable(q)
  BY DEF Recv
<1>3. /\ g + 1 \in 1..Len(sent[e]) /\ SubSeq(q, 1, n) = sent[e][g + 1]
      /\ rcv_nxt[f] - Len(q) + n = at[g + 2]
  BY <1>2, NextMessage
<1>4. /\ n \in 1..Len(q)
      /\ rest \in Seq(Fragment) /\ Len(rest) = Len(q) - n
      /\ \A j \in 1..(Len(q) - n) : rest[j] = q[n + j]
  BY <1>1, RecvEffect DEF Safe
<1>5. PICK k \in Nat : Moved(f, rcv_nxt[f], rcv_buf[f], rest, k)
  BY <1>1, RecvEffect DEF Safe
<1>6. /\ rcv_nxt[f] \in Nat /\ Len(q) \in Nat /\ rcv_buf[f] \in Segments /\ g \in Nat
      /\ got[f] \in Seq(Seq(Fragment)) /\ sent[e] \in Seq(Seq(Fragment)) /\ Len(sent[e]) \in Nat
  BY <1>1, LenProperties DEF Safe, Typed, KcpTypeOK
<1>7. /\ rcv_nxt[f] <= snd_nxt[e] /\ Len(q) <= rcv_nxt[f]
      /\ \A s \in DOMAIN rcv_buf[f] : s < snd_nxt[e] /\ rcv_buf[f][s] = st[s + 1]
      /\ \A j \in 1..Len(q) : q[j] = st[rcv_nxt[f] - Len(q) + j]
  BY DEF StreamOf, RecvSide
<1> HIDE DEF n, rest
<1>8. ASSUME NEW j \in 1..Len(rest) PROVE rest[j] = st[rcv_nxt[f] - Len(rest) + j]
  <2>1. j \in 1..(Len(q) - n) /\ n + j \in 1..Len(q) /\ rcv_nxt[f] - Len(rest) + j = rcv_nxt[f] - Len(q) + (n + j)
    <3>1. n \in Nat
      BY <1>4
    <3>2. j \in 1..(Len(q) - n)
      BY <1>4, Zenon
    <3>3. /\ n + j \in 1..Len(q)
          /\ rcv_nxt[f] - (Len(q) - n) + j = rcv_nxt[f] - Len(q) + (n + j)
      <4> DEFINE r == rcv_nxt[f]
                 l == Len(q)
      <4>1. r \in Nat /\ l \in Nat
        BY <1>6
      <4>2. j \in 1..(l - n)
        BY <3>2
      <4> HIDE DEF r, l
      <4>3. n + j \in 1..l /\ r - (l - n) + j = r - l + (n + j)
        BY <3>1, <4>1, <4>2, LeftPosition
      <4> QED BY <4>3 DEF r, l
    <3> QED BY <1>4, <3>2, <3>3, Zenon
  <2> QED BY <1>4, <1>7, <2>1
<1>9. Len(rest) <= rcv_nxt[f] /\ snd_nxt'[e] = snd_nxt[e]
  BY <1>2, <1>4, <1>6, <1>7 DEF sndVars
<1>10. RecvSide(e, st)' /\ rcv_nxt'[f] - Len(rcv_queue'[f]) = rcv_nxt[f] - Len(rest)
  <2>1. Typed /\ rest \in Seq(Fragment) /\ rcv_buf[f] \in Segments
    BY <1>4, <1>6 DEF Safe
  <2>2. OfStream(e, st, rcv_buf[f], rest)
    BY <1>7, <1>8, <1>9 DEF OfStream
  <2> QED BY <1>5, <1>9, <2>1, <2>2, MovedInStream, Zenon
<1>11. ReadUpTo(e, at)'
  <2>1. sent[e][g + 1] \in Seq(Fragment)
    BY <1>3, <1>6, ElementOfSeq
  <2>2. got'[f] = Append(got[f], sent[e][g + 1])
    BY <1>1, <1>2, <1>3 DEF Safe, Typed, KcpTypeOK
  <2>3. /\ Len(got'[f]) = g + 1 /\ got'[f][g + 1] = sent[e][g + 1]
        /\ \A j \in 1..g : got'[f][j] = got[f][j]
    BY <1>6, <2>1, <2>2, AppendProperties
  <2>4. \A j \in 1..g : got[f][j] = sent[e][j]
    BY DEF StreamOf, ReadUpTo
  <2>5. \A j \in 1..(g + 1) : got'[f][j] = sent[e][j]
    <3> TAKE j \in 1..(g + 1)
    <3>1. g \in Nat
      BY <1>6
    <3> HIDE DEF g
    <3>2. j \in 1..g \/ j = g + 1
      BY <3>1
    <3> QED BY <2>3, <2>4, <3>2
  <2>6. rcv_nxt'[f] - Len(rcv_queue'[f]) = at[g + 2] /\ g + 2 = (g + 1) + 1
    BY <1>3, <1>4, <1>6, <1>10
  <2>7. g + 1 <= Len(sent[e])
    BY <1>3, <1>6
  <2> HIDE DEF g
  <2> QED BY <1>2, <2>3, <2>5, <2>6, <2>7 DEF ReadUpTo
<1>12. SendSide(e, st)' /\ InFlight(e, st)'
  BY <1>2 DEF StreamOf, SendSide, InFlight, sndVars
<1>13. Composed(e, st, at)'
  BY <1>2 DEF StreamOf, Composed
<1> QED BY <1>10, <1>11, <1>12, <1>13 DEF StreamOf

\* ikcp_flush gives the next fragments of the stream their sequence numbers and sends segments of it.
LEMMA FlushStream ==
    ASSUME Safe, NEW e \in Endpoints, NEW n \in Nat, Flushed(e, n), UNCHANGED <<rcv_nxt, rcv_buf, rcv_queue, sent, got>>,
           NEW st \in Seq(Fragment), NEW at \in Seq(Nat), StreamOf(e, st, at)
    PROVE  StreamOf(e, st, at)'
<1> DEFINE nxt == snd_nxt[e]
           queue == snd_queue[e]
<1>1. /\ n \in 0..Len(queue) /\ snd_nxt'[e] = nxt + n /\ Len(snd_queue'[e]) = Len(queue) - n
      /\ nxt \in Nat /\ Len(queue) \in Nat
  BY LenProperties DEF Flushed, Safe, Typed, KcpTypeOK
<1>2. /\ \A j \in 1..(Len(queue) - n) : snd_queue'[e][j] = queue[n + j]
      /\ DOMAIN snd_buf'[e] = DOMAIN snd_buf[e] \cup nxt..(nxt + n - 1)
      /\ \A s \in DOMAIN snd_buf[e] : snd_buf'[e][s] = snd_buf[e][s]
      /\ \A j \in 1..n : snd_buf'[e][nxt + j - 1] = queue[j]
  BY DEF Flushed
<1>3. Len(st) = nxt + Len(queue) /\ \A j \in 1..Len(queue) : queue[j] = st[nxt + j]
  BY DEF StreamOf, SendSide
<1>4. SendSide(e, st)'
  <2>1. Len(st) = snd_nxt'[e] + Len(snd_queue'[e])
    BY <1>1, <1>3
  <2>2. ASSUME NEW j \in 1..Len(snd_queue'[e]) PROVE snd_queue'[e][j] = st[snd_nxt'[e] + j]
    <3>1. j \in 1..(Len(queue) - n) /\ n + j \in 1..Len(queue) /\ nxt + (n + j) = snd_nxt'[e] + j
      BY <1>1
    <3> QED BY <1>2, <1>3, <3>1
  <2>3. ASSUME NEW s \in DOMAIN snd_buf'[e] PROVE snd_buf'[e][s] = st[s + 1]
    <3>1. CASE s \in DOMAIN snd_buf[e]
      BY <1>2, <3>1 DEF StreamOf, SendSide
    <3>2. CASE s \in nxt..(nxt + n - 1)
      <4>1. PICK j \in 1..n : j \in 1..Len(queue) /\ nxt + j - 1 = s /\ nxt + j = s + 1
        BY <1>1, <3>2, AssignedPosition, Zenon
      <4>2. snd_buf'[e][nxt + j - 1] = queue[j] /\ queue[j] = st[nxt + j]
        BY <1>2, <1>3, <4>1, Zenon
      <4> QED BY <4>1, <4>2, Zenon
    <3> QED BY <1>2, <3>1, <3>2
  <2> QED BY <2>1, <2>2, <2>3 DEF SendSide
<1>5. InFlight(e, st)'
  <2>1. ASSUME NEW d \in net', d.from = e, NEW seg \in d.push
        PROVE  seg.sn < snd_nxt'[e] /\ seg.data = st[seg.sn + 1]
    <3>1. CASE d \in net
      <4>1. seg.sn < nxt /\ seg.data = st[seg.sn + 1] /\ seg.sn \in Nat
        BY <2>1, <3>1 DEF StreamOf, InFlight, Safe, Typed, Datagrams
      <4> QED BY <1>1, <4>1
    <3>2. CASE d \notin net
      <4>1. seg.sn \in DOMAIN snd_buf'[e] /\ seg.data = snd_buf'[e][seg.sn]
        BY <2>1, <3>2 DEF Flushed
      <4>2. seg.data = st[seg.sn + 1]
        BY <1>4, <4>1 DEF SendSide
      <4>3. DOMAIN snd_buf[e] \subseteq snd_una[e]..(nxt - 1) /\ snd_una[e] \in Nat
        BY DEF Safe, Typed, KcpTypeOK
      <4>4. seg.sn < snd_nxt'[e]
        BY <1>1, <1>2, <4>1, <4>3
      <4> QED BY <4>2, <4>4
    <3> QED BY <3>1, <3>2
  <2> QED BY <2>1 DEF InFlight
<1>6. RecvSide(e, st)'
  <2> DEFINE f == Peer(e)
  <2>1. rcv_nxt[f] \in Nat /\ f \in Endpoints /\ DOMAIN rcv_buf[f] \subseteq Nat
    BY PeerFacts, SegmentsFacts DEF Safe, Typed
  <2>2. rcv_nxt[f] <= snd_nxt'[e]
    BY <1>1, <2>1 DEF StreamOf, RecvSide
  <2>3. \A s \in DOMAIN rcv_buf[f] : s < snd_nxt'[e] /\ rcv_buf[f][s] = st[s + 1]
    <3> TAKE s \in DOMAIN rcv_buf[f]
    <3>1. s < nxt /\ rcv_buf[f][s] = st[s + 1]
      BY DEF StreamOf, RecvSide
    <3> QED BY <1>1, <2>1, <3>1
  <2>4. /\ Len(rcv_queue[f]) <= rcv_nxt[f]
        /\ \A j \in 1..Len(rcv_queue[f]) : rcv_queue[f][j] = st[rcv_nxt[f] - Len(rcv_queue[f]) + j]
    BY DEF StreamOf, RecvSide
  <2> QED BY <2>2, <2>3, <2>4 DEF RecvSide
<1>7. Composed(e, st, at)' /\ ReadUpTo(e, at)'
  BY DEF StreamOf, Composed, ReadUpTo
<1> QED BY <1>4, <1>5, <1>6, <1>7 DEF StreamOf

\* ikcp_input at the end that sends the stream drops acknowledged segments of it.
LEMMA InputOwnStream ==
    ASSUME Safe, NEW e \in Endpoints, NEW d \in net, Input(e, d),
           NEW st \in Seq(Fragment), NEW at \in Seq(Nat), StreamOf(e, st, at)
    PROVE  StreamOf(e, st, at)'
<1> DEFINE f == Peer(e)
<1>1. f \in Endpoints /\ f # e
  BY PeerFacts
<1>2. DOMAIN snd_buf'[e] \subseteq DOMAIN snd_buf[e] /\ \A s \in DOMAIN snd_buf'[e] : snd_buf'[e][s] = snd_buf[e][s]
  BY AcknowledgeEffect DEF Input, Safe
<1>3. UNCHANGED <<snd_queue, snd_nxt, sent, got>> /\ net' \subseteq net
  BY DEF Input
<1>4. rcv_nxt'[f] = rcv_nxt[f] /\ rcv_buf'[f] = rcv_buf[f] /\ rcv_queue'[f] = rcv_queue[f]
  <2>1. CASE UNCHANGED <<rcv_nxt, rcv_buf, rcv_queue>>
    BY <2>1
  <2>2. ASSUME NEW buf, MoveToQueue(e, rcv_nxt[e], buf, rcv_queue[e])
        PROVE  rcv_nxt'[f] = rcv_nxt[f] /\ rcv_buf'[f] = rcv_buf[f] /\ rcv_queue'[f] = rcv_queue[f]
    <3>1. \E x, y, z : /\ rcv_nxt' = [rcv_nxt EXCEPT ![e] = x]
                       /\ rcv_buf' = [rcv_buf EXCEPT ![e] = y]
                       /\ rcv_queue' = [rcv_queue EXCEPT ![e] = z]
      BY <2>2 DEF MoveToQueue
    <3> QED BY <1>1, <3>1 DEF Safe, Typed
  <2>3. \/ UNCHANGED <<rcv_nxt, rcv_buf, rcv_queue>>
        \/ \E buf : MoveToQueue(e, rcv_nxt[e], buf, rcv_queue[e])
    <3>1. CASE UNCHANGED <<rcv_nxt, rcv_buf, rcv_queue, acklist>>
      BY <3>1
    <3>2. ASSUME NEW seg \in d.push, Accept(e, seg.sn, seg.data)
          PROVE  \/ UNCHANGED <<rcv_nxt, rcv_buf, rcv_queue>>
                 \/ \E buf : MoveToQueue(e, rcv_nxt[e], buf, rcv_queue[e])
      BY <3>2, Zenon DEF Accept
    <3>3. \/ UNCHANGED <<rcv_nxt, rcv_buf, rcv_queue, acklist>>
          \/ \E seg \in d.push : Accept(e, seg.sn, seg.data)
      BY DEF Input
    <3> QED BY <3>1, <3>2, <3>3, Zenon
  <2> QED BY <2>1, <2>2, <2>3
<1>5. SendSide(e, st)'
  BY <1>2, <1>3 DEF StreamOf, SendSide
<1>6. InFlight(e, st)'
  BY <1>3 DEF StreamOf, InFlight
<1>7. RecvSide(e, st)'
  BY <1>3, <1>4 DEF StreamOf, RecvSide
<1>8. Composed(e, st, at)' /\ ReadUpTo(e, at)'
  BY <1>3, <1>4 DEF StreamOf, Composed, ReadUpTo
<1> QED BY <1>5, <1>6, <1>7, <1>8 DEF StreamOf

\* ikcp_input at the end that receives the stream puts a segment of it where its sequence number says.
LEMMA InputPeerStream ==
    ASSUME Safe, NEW e \in Endpoints, NEW d \in net, Input(Peer(e), d),
           NEW st \in Seq(Fragment), NEW at \in Seq(Nat), StreamOf(e, st, at)
    PROVE  StreamOf(e, st, at)'
<1> DEFINE f == Peer(e)
<1>1. f \in Endpoints /\ f # e /\ Peer(f) = e
  BY PeerFacts
<1>2. snd_buf'[e] = snd_buf[e]
  BY <1>1, AcknowledgeEffect DEF Input, Safe
<1>3. UNCHANGED <<snd_queue, snd_nxt, sent, got>> /\ net' \subseteq net /\ d.from = e
  BY <1>1 DEF Input
<1>4. SendSide(e, st)'
  BY <1>2, <1>3 DEF StreamOf, SendSide
<1>5. InFlight(e, st)'
  BY <1>3 DEF StreamOf, InFlight
<1>6. RecvSide(e, st)' /\ rcv_nxt'[f] - Len(rcv_queue'[f]) = rcv_nxt[f] - Len(rcv_queue[f])
  <2>1. CASE UNCHANGED <<rcv_nxt, rcv_buf, rcv_queue>>
    BY <1>3, <2>1 DEF StreamOf, RecvSide
  <2>2. ASSUME NEW seg \in d.push, NEW k \in Nat,
               Moved(f, rcv_nxt[f], Put(f, seg.sn, seg.data), rcv_queue[f], k)
        PROVE  RecvSide(e, st)' /\ rcv_nxt'[f] - Len(rcv_queue'[f]) = rcv_nxt[f] - Len(rcv_queue[f])
    <3> DEFINE buf == Put(f, seg.sn, seg.data)
    <3>1. seg.sn \in Nat /\ seg.data \in Fragment /\ seg.sn < snd_nxt[e] /\ seg.data = st[seg.sn + 1]
      BY <1>3 DEF StreamOf, InFlight, Safe, Typed, Datagrams
    <3>2. /\ rcv_nxt[f] <= snd_nxt[e] /\ Len(rcv_queue[f]) <= rcv_nxt[f]
          /\ \A s \in DOMAIN rcv_buf[f] : s < snd_nxt[e] /\ rcv_buf[f][s] = st[s + 1]
          /\ \A j \in 1..Len(rcv_queue[f]) : rcv_queue[f][j] = st[rcv_nxt[f] - Len(rcv_queue[f]) + j]
      BY DEF StreamOf, RecvSide
    <3>3. rcv_buf[f] \in Segments /\ rcv_queue[f] \in Seq(Fragment) /\ Typed
      BY <1>1 DEF Safe, Typed
    <3>4. DOMAIN buf = DOMAIN rcv_buf[f] \cup {seg.sn}
          /\ \A s \in DOMAIN buf : buf[s] = IF s = seg.sn THEN seg.data ELSE rcv_buf[f][s]
      BY DEF Put
    <3>5. buf \in Segments
      <4>1. DOMAIN buf \in SUBSET Nat /\ \A s \in DOMAIN buf : buf[s] \in Fragment
        BY <3>1, <3>3, <3>4, SegmentsFacts
      <4>2. buf = [s \in DOMAIN buf |-> buf[s]]
        BY DEF Put
      <4> HIDE DEF buf
      <4>3. buf \in [DOMAIN buf -> Fragment]
        BY <4>1, <4>2
      <4> QED BY <4>1, <4>3 DEF Segments
    <3> HIDE DEF buf
    <3>6. \A s \in DOMAIN buf : s < snd_nxt[e] /\ buf[s] = st[s + 1]
      BY <3>1, <3>2, <3>4
    <3>7. Moved(f, rcv_nxt[f], buf, rcv_queue[f], k) /\ snd_nxt'[e] = snd_nxt[e]
      BY <1>3, <2>2 DEF buf
    <3>8. OfStream(e, st, buf, rcv_queue[f])
      BY <3>2, <3>6 DEF OfStream
    <3> QED BY <3>3, <3>5, <3>7, <3>8, MovedInStream, Zenon
  <2>3. \/ UNCHANGED <<rcv_nxt, rcv_buf, rcv_queue>>
        \/ \E seg \in d.push : \E k \in Nat : Moved(f, rcv_nxt[f], Put(f, seg.sn, seg.data), rcv_queue[f], k)
    <3>1. CASE UNCHANGED <<rcv_nxt, rcv_buf, rcv_queue, acklist>>
      BY <3>1
    <3>2. CASE \E seg \in d.push : Accept(f, seg.sn, seg.data)
      <4>1. PICK seg \in d.push : Accept(f, seg.sn, seg.data)
        BY <3>2
      <4>2. seg.sn \in Nat /\ seg.data \in Fragment
        BY DEF Safe, Typed, Datagrams
      <4> QED BY <1>1, <4>1, <4>2, AcceptEffect DEF Safe
    <3> QED BY <3>1, <3>2 DEF Input
  <2> QED BY <2>1, <2>2, <2>3
<1>7. Composed(e, st, at)'
  BY <1>3 DEF StreamOf, Composed
<1>8. ReadUpTo(e, at)'
  BY <1>3, <1>6 DEF StreamOf, ReadUpTo
<1> QED BY <1>4, <1>5, <1>6, <1>7, <1>8 DEF StreamOf

\* Every step keeps a stream for each end.
LEMMA StreamsStep ==
    ASSUME Safe, Streams, Next
    PROVE  Streams'
<1> SUFFICES ASSUME NEW e \in Endpoints
             PROVE  \E st \in Seq(Fragment), at \in Seq(Nat) : StreamOf(e, st, at)'
  BY DEF Streams
<1>1. PICK st \in Seq(Fragment), at \in Seq(Nat) : StreamOf(e, st, at)
  BY DEF Streams
<1>2. Peer(e) \in Endpoints /\ Peer(e) # e /\ \A x \in Endpoints : x # e => x = Peer(e)
  BY PeerFacts
<1>3. PICK x \in Endpoints :
          \/ Send(x)
          \/ Recv(x)
          \/ \E due \in SUBSET DOMAIN snd_buf[x], probeDue \in BOOLEAN : Flush(x, due, probeDue)
          \/ \E d \in net : Input(x, d)
  BY DEF Next
<1>4. CASE Send(x)
  <2>1. CASE x = e
    <3>1. PICK i \in Nat : i = Len(sent[e]) + 1
      BY LenProperties DEF Safe, Typed, KcpTypeOK
    <3> QED BY <1>1, <1>4, <2>1, <3>1, SendStream
  <2>2. CASE x # e
    <3>1. /\ snd_queue'[e] = snd_queue[e] /\ sent'[e] = sent[e]
          /\ UNCHANGED <<snd_buf, snd_nxt, rcv_nxt, rcv_buf, rcv_queue, net, got>>
      BY <1>4, <2>2 DEF Send, rcvVars, Safe, Typed, KcpTypeOK
    <3>2. StreamOf(e, st, at)'
      BY <1>1, <3>1, OtherStream
    <3> QED BY <3>2
  <2> QED BY <2>1, <2>2
<1>5. CASE Recv(x)
  <2>1. CASE x = e
    <3>1. UNCHANGED <<snd_queue, snd_buf, snd_nxt, net, sent>> /\ got'[Peer(e)] = got[Peer(e)]
      BY <1>2, <1>5, <2>1 DEF Recv, sndVars, Safe, Typed, KcpTypeOK
    <3>2. /\ rcv_nxt'[Peer(e)] = rcv_nxt[Peer(e)] /\ rcv_buf'[Peer(e)] = rcv_buf[Peer(e)]
          /\ rcv_queue'[Peer(e)] = rcv_queue[Peer(e)]
      BY <1>2, <1>5, <2>1 DEF Recv, MoveToQueue, Safe, Typed
    <3>3. StreamOf(e, st, at)'
      BY <1>1, <3>1, <3>2, OtherStream
    <3> QED BY <3>3
  <2>2. CASE x # e
    <3>1. StreamOf(e, st, at)'
      BY <1>1, <1>2, <1>5, <2>2, RecvStream
    <3> QED BY <3>1
  <2> QED BY <2>1, <2>2
<1>6. CASE \E due \in SUBSET DOMAIN snd_buf[x], probeDue \in BOOLEAN : Flush(x, due, probeDue)
  <2>1. PICK due \in SUBSET DOMAIN snd_buf[x], probeDue \in BOOLEAN : Flush(x, due, probeDue)
    BY <1>6
  <2>2. UNCHANGED <<rcv_nxt, rcv_buf, rcv_queue, sent, got>>
    BY <2>1 DEF Flush
  <2>3. PICK n \in Nat : Flushed(x, n)
    BY <2>1, FlushEffect DEF Safe
  <2>4. CASE x = e
    <3>1. StreamOf(e, st, at)'
      BY <1>1, <2>2, <2>3, <2>4, FlushStream
    <3> QED BY <3>1
  <2>5. CASE x # e
    <3>1. /\ snd_nxt'[e] = snd_nxt[e] /\ snd_queue'[e] = snd_queue[e] /\ snd_buf'[e] = snd_buf[e]
          /\ \A d \in net' : d.from = e => d \in net
      BY <2>3, <2>5 DEF Flushed
    <3>2. StreamOf(e, st, at)'
      BY <1>1, <2>2, <3>1, OtherStream
    <3> QED BY <3>2
  <2> QED BY <2>4, <2>5
<1>7. CASE \E d \in net : Input(x, d)
  <2>1. PICK d \in net : Input(x, d)
    BY <1>7
  <2>2. StreamOf(e, st, at)'
    BY <1>1, <1>2, <2>1, InputOwnStream, InputPeerStream
  <2> QED BY <2>2
<1> QED BY <1>3, <1>4, <1>5, <1>6, <1>7

\* The inductive invariant holds when a conversation starts.
LEMMA InvInit == Init => IInv
  BY SafeInit, StreamsInit DEF IInv, Safe

\* The inductive invariant is preserved by every step of the two ends and the network.
LEMMA InvStep == IInv /\ [Next]_vars => IInv'
<1> SUFFICES ASSUME IInv, [Next]_vars PROVE IInv'
  OBVIOUS
<1>1. CASE Next
  <2>1. Safe /\ Streams
    BY DEF IInv, Safe
  <2>2. Safe'
    BY <1>1, <2>1, SendSafe, RecvSafe, FlushSafe, InputSafe DEF Next
  <2>3. Streams'
    BY <1>1, <2>1, StreamsStep
  <2> QED BY <2>2, <2>3 DEF IInv, Safe
<1>2. CASE UNCHANGED vars
  <2>1. UNCHANGED <<snd_queue, snd_buf, snd_una, snd_nxt, fastack, rmt_wnd, probing,
                    rcv_nxt, rcv_buf, rcv_queue, acklist, tell, net, sent, got>>
    BY <1>2 DEF vars, sndVars, rcvVars
  <2>2. Typed'
    BY <2>1 DEF IInv, Typed, KcpTypeOK
  <2>3. (SendWindow /\ NothingStranded /\ AcksTrue /\ AckedIsReceived)'
    BY <2>1 DEF IInv, SendWindow, NothingStranded, AcksTrue, AckedIsReceived, Has
  <2>4. Streams'
    <3> SUFFICES ASSUME NEW e \in Endpoints
                 PROVE  \E st \in Seq(Fragment), at \in Seq(Nat) : StreamOf(e, st, at)'
      BY DEF Streams
    <3>1. PICK st \in Seq(Fragment), at \in Seq(Nat) : StreamOf(e, st, at)
      BY DEF IInv, Streams
    <3>2. StreamOf(e, st, at)'
      BY <2>1, <3>1, OtherStream
    <3> QED BY <3>2
  <2> QED BY <2>2, <2>3, <2>4 DEF IInv
<1> QED BY <1>1, <1>2

\* The inductive invariant holds in every state of a conversation.
LEMMA InvCorrect == Spec => []IInv
  BY InvInit, InvStep, PTL DEF Spec

-----------------------------------------------------------------------------
\* Every variable keeps its type; counters, buffers and lists stay in their ranges (ikcp_input, ikcp_recv, ikcp_flush).
THEOREM KcpTypeCorrect == Spec => []KcpTypeOK
<1>1. IInv => KcpTypeOK
  BY DEF IInv, Typed
<1> QED BY <1>1, InvCorrect, PTL

\* No stale, repeated or reordered acknowledgement makes the sender drop a segment the receiver lacks
\* (ikcp_parse_ack, ikcp_parse_una).
THEOREM AckedIsReceivedCorrect == Spec => []AckedIsReceived
<1>1. IInv => AckedIsReceived
  BY DEF IInv
<1> QED BY <1>1, InvCorrect, PTL

\* No more than snd_wnd sequence numbers are ever outstanding (ikcp_flush).
THEOREM SendWindowCorrect == Spec => []SendWindow
<1>1. IInv => SendWindow
  BY DEF IInv
<1> QED BY <1>1, InvCorrect, PTL

\* A segment that is next in order waits only for room in the queue (ikcp_recv, ikcp_parse_data).
THEOREM NothingStrandedCorrect == Spec => []NothingStranded
<1>1. IInv => NothingStranded
  BY DEF IInv
<1> QED BY <1>1, InvCorrect, PTL

\* The user of an end has read the first messages its peer sent, each as it was cut into fragments.
ReadInOrder ==
    \A e \in Endpoints :
        /\ Len(got[Peer(e)]) <= Len(sent[e])
        /\ \A i \in 1..Len(got[Peer(e)]) : got[Peer(e)][i] = FragmentsOf(e, i)

\* What ikcp_recv has returned is whole messages, the first ones given to ikcp_send at the other end: none is
\* skipped, repeated, reordered or mixed with another.
THEOREM ReadInOrderCorrect == Spec => []ReadInOrder
<1>1. ASSUME IInv, NEW e \in Endpoints
      PROVE  /\ Len(got[Peer(e)]) <= Len(sent[e])
             /\ \A i \in 1..Len(got[Peer(e)]) : got[Peer(e)][i] = FragmentsOf(e, i)
  <2>1. PICK st \in Seq(Fragment), at \in Seq(Nat) : StreamOf(e, st, at)
    BY <1>1 DEF IInv, Streams
  <2>2. /\ Len(got[Peer(e)]) <= Len(sent[e])
        /\ \A i \in 1..Len(got[Peer(e)]) : got[Peer(e)][i] = sent[e][i]
    BY <2>1 DEF StreamOf, ReadUpTo
  <2>3. \A i \in 1..Len(sent[e]) : sent[e][i] = FragmentsOf(e, i)
    BY <2>1 DEF StreamOf, Composed
  <2>4. Len(got[Peer(e)]) \in Nat /\ Len(sent[e]) \in Nat
    <3>1. Peer(e) \in Endpoints
      BY PeerFacts
    <3>2. got[Peer(e)] \in Seq(Seq(Fragment)) /\ sent[e] \in Seq(Seq(Fragment))
      BY <1>1, <3>1 DEF IInv, Typed, KcpTypeOK
    <3> QED BY <3>2, LenProperties
  <2>5. \A i \in 1..Len(got[Peer(e)]) : i \in 1..Len(sent[e])
    BY <2>2, <2>4
  <2> QED BY <2>2, <2>3, <2>5, Zenon
<1>2. IInv => ReadInOrder
  BY <1>1 DEF ReadInOrder
<1> QED BY <1>2, InvCorrect, PTL

\* End e goes forward: its counters never decrease, a number once assigned keeps its fragment until it is
\* acknowledged and is not assigned again, and what was received out of order is not forgotten.
Forward(e) ==
    /\ snd_una[e] <= snd_una'[e] /\ snd_nxt[e] <= snd_nxt'[e] /\ rcv_nxt[e] <= rcv_nxt'[e]
    /\ \A s \in DOMAIN snd_buf'[e] : s < snd_nxt[e] => s \in DOMAIN snd_buf[e] /\ snd_buf'[e][s] = snd_buf[e][s]
    /\ \A s \in DOMAIN rcv_buf[e] : Has(e, s)'

ForwardOnly == [][\A e \in Endpoints : Forward(e)]_vars

\* Of what was received out of order nothing is forgotten.
LEMMA AdvancedForgetsNothing ==
    ASSUME Typed, Advanced, NEW e \in Endpoints
    PROVE  rcv_nxt[e] <= rcv_nxt'[e] /\ \A s \in DOMAIN rcv_buf[e] : Has(e, s)'
<1>1. DOMAIN rcv_buf[e] \subseteq Nat
  BY SegmentsFacts DEF Typed
<1>2. \A s \in DOMAIN rcv_buf[e] : Has(e, s)
  BY DEF Has
<1> QED BY <1>1, <1>2 DEF Advanced

\* A step that leaves the sending side alone.
LEMMA ForwardIfAdvanced ==
    ASSUME Typed, Advanced, UNCHANGED <<snd_una, snd_nxt, snd_buf>>, NEW e \in Endpoints
    PROVE  Forward(e)
<1>1. snd_una[e] \in Nat /\ snd_nxt[e] \in Nat
  BY DEF Typed
<1> QED BY <1>1, AdvancedForgetsNothing DEF Forward

\* ikcp_send, ikcp_recv, ikcp_flush and ikcp_input, of whatever datagram, move both ends forward.
LEMMA ForwardStep == IInv /\ [Next]_vars => \A e \in Endpoints : Forward(e)
<1> SUFFICES ASSUME IInv, [Next]_vars, NEW e \in Endpoints PROVE Forward(e)
  OBVIOUS
<1>1. Typed /\ NothingStranded /\ SendWindow
  BY DEF IInv
<1>2. ASSUME NEW f \in Endpoints, Send(f) PROVE Forward(e)
  <2>1. Advanced
    BY <1>1, <1>2, StillAdvances DEF Send, rcvVars
  <2> QED BY <1>1, <1>2, <2>1, ForwardIfAdvanced DEF Send
<1>3. ASSUME NEW f \in Endpoints, Recv(f) PROVE Forward(e)
  <2>1. Advanced
    BY <1>1, <1>3, RecvEffect
  <2> QED BY <1>1, <1>3, <2>1, ForwardIfAdvanced DEF Recv, sndVars
<1>4. ASSUME NEW f \in Endpoints, NEW due \in SUBSET DOMAIN snd_buf[f], NEW probeDue \in BOOLEAN,
             Flush(f, due, probeDue)
      PROVE  Forward(e)
  <2>1. PICK n \in Nat : Flushed(f, n)
    BY <1>1, <1>4, FlushEffect
  <2>2. Advanced /\ snd_una' = snd_una
    BY <1>1, <1>4, StillAdvances DEF Flush
  <2>3. snd_una[e] \in Nat /\ snd_nxt[e] \in Nat
    BY <1>1 DEF Typed
  <2>4. rcv_nxt[e] <= rcv_nxt'[e] /\ \A s \in DOMAIN rcv_buf[e] : Has(e, s)'
    BY <1>1, <2>2, AdvancedForgetsNothing
  <2>5. CASE e = f
    <3>1. /\ snd_nxt'[e] = snd_nxt[e] + n
          /\ DOMAIN snd_buf'[e] = DOMAIN snd_buf[e] \cup snd_nxt[e]..(snd_nxt[e] + n - 1)
          /\ \A s \in DOMAIN snd_buf[e] : snd_buf'[e][s] = snd_buf[e][s]
      BY <2>1, <2>5 DEF Flushed
    <3>2. \A s \in DOMAIN snd_buf'[e] : s < snd_nxt[e] => s \in DOMAIN snd_buf[e]
      BY <2>3, <3>1
    <3>3. snd_nxt[e] <= snd_nxt'[e] /\ snd_una[e] <= snd_una'[e]
      BY <2>2, <2>3, <3>1
    <3> QED BY <2>4, <3>1, <3>2, <3>3 DEF Forward
  <2>6. CASE e # f
    <3>1. snd_nxt'[e] = snd_nxt[e] /\ snd_buf'[e] = snd_buf[e]
      BY <2>1, <2>6 DEF Flushed
    <3> QED BY <2>2, <2>3, <2>4, <3>1 DEF Forward
  <2> QED BY <2>5, <2>6
<1>5. ASSUME NEW f \in Endpoints, NEW d \in net, Input(f, d) PROVE Forward(e)
  <2>1. Advanced
    BY <1>1, <1>5, InputAdvances
  <2>2. /\ DOMAIN snd_buf'[f] \subseteq DOMAIN snd_buf[f]
        /\ \A s \in DOMAIN snd_buf'[f] : snd_buf'[f][s] = snd_buf[f][s]
        /\ snd_una[f] <= snd_una'[f]
        /\ \A g \in Endpoints : g # f => snd_buf'[g] = snd_buf[g] /\ snd_una'[g] = snd_una[g]
    BY <1>1, <1>5, AcknowledgeEffect DEF Input
  <2>3. snd_una[e] \in Nat /\ snd_nxt[e] \in Nat /\ snd_nxt' = snd_nxt
    BY <1>1, <1>5 DEF Typed, Input
  <2>4. rcv_nxt[e] <= rcv_nxt'[e] /\ \A s \in DOMAIN rcv_buf[e] : Has(e, s)'
    BY <1>1, <2>1, AdvancedForgetsNothing
  <2>5. CASE e = f
    BY <2>2, <2>3, <2>5, <2>4 DEF Forward
  <2>6. CASE e # f
    <3>1. snd_buf'[e] = snd_buf[e] /\ snd_una'[e] = snd_una[e]
      BY <2>2, <2>6
    <3> QED BY <2>3, <2>4, <3>1 DEF Forward
  <2> QED BY <2>5, <2>6
<1>6. CASE UNCHANGED vars
  <2>1. UNCHANGED <<snd_una, snd_nxt, snd_buf, rcv_nxt, rcv_buf, rcv_queue>>
    BY <1>6 DEF vars, sndVars, rcvVars
  <2>2. Advanced
    BY <1>1, <2>1, StillAdvances
  <2> QED BY <1>1, <2>1, <2>2, ForwardIfAdvanced
<1> QED BY <1>2, <1>3, <1>4, <1>5, <1>6 DEF Next

\* No old, repeated or reordered datagram moves an end back: una, sn and the window only advance, a retransmission
\* carries what the first transmission did, and an acknowledged number is never used again (ikcp_parse_una,
\* ikcp_parse_ack, ikcp_parse_data, ikcp_flush).
THEOREM ForwardOnlyCorrect == Spec => ForwardOnly
  BY InvCorrect, ForwardStep, PTL DEF Spec, ForwardOnly

\* Every step of the protocol is a step of the channel or leaves what was sent and received alone: ikcp_recv
\* returns the next message that ikcp_send was given at the other end.
LEMMA ChannelStep == IInv /\ [Next]_vars => [Channel!Next]_<<sent, got>>
<1> SUFFICES ASSUME IInv, [Next]_vars PROVE [Channel!Next]_<<sent, got>>
  OBVIOUS
<1>1. Safe /\ Streams
  BY DEF IInv, Safe
<1>2. ASSUME NEW e \in Endpoints, Send(e) PROVE Channel!Next
  <2> DEFINE i == Len(sent[e]) + 1
             m == FragmentsOf(e, i)
  <2>1. i \in DOMAIN Script[e]
    <3>1. Len(sent[e]) \in Nat
      BY <1>1, LenProperties DEF Safe, Typed, KcpTypeOK
    <3>2. Script[e] \in Seq(Nat \ {0})
      BY KcpAssumption DEF KcpAssumption
    <3>3. DOMAIN Script[e] = 1..Len(Script[e]) /\ Len(Script[e]) \in Nat
      BY <3>2, LenProperties
    <3> QED BY <1>2, <3>1, <3>3 DEF Send
  <2>2. sent' = [sent EXCEPT ![e] = Append(@, m)] /\ got' = got
    BY <1>2 DEF Send
  <2>3. m \in UNION {{FragmentsOf(x, j) : j \in DOMAIN Script[x]} : x \in Endpoints}
    BY <2>1
  <2>4. Channel!Send(e, m)
    BY <2>2 DEF Channel!Send
  <2> QED BY <2>3, <2>4 DEF Channel!Next
<1>3. ASSUME NEW e \in Endpoints, Recv(e) PROVE Channel!Next
  <2> DEFINE f == Peer(e)
             g == Len(got[e])
  <2>1. f \in Endpoints /\ Peer(f) = e
    BY PeerFacts
  <2>2. PICK st \in Seq(Fragment), at \in Seq(Nat) : StreamOf(f, st, at)
    BY <1>1, <2>1 DEF Streams
  <2>3. Peekable(rcv_queue[e])
    BY <1>3 DEF Recv
  <2>4. g + 1 \in 1..Len(sent[f]) /\ SubSeq(rcv_queue[e], 1, Merged(rcv_queue[e])) = sent[f][g + 1]
    BY <1>1, <2>1, <2>2, <2>3, NextMessage
  <2>5. got' = [got EXCEPT ![e] = Append(@, sent[f][g + 1])] /\ sent' = sent
    BY <1>3, <2>4 DEF Recv
  <2>6. g < Len(sent[f])
    <3>1. g \in Nat /\ Len(sent[f]) \in Nat
      BY <1>1, <2>1, LenProperties DEF Safe, Typed, KcpTypeOK
    <3> QED BY <2>4, <3>1
  <2>7. Channel!Receive(e)
    BY <2>5, <2>6 DEF Channel!Receive
  <2> QED BY <2>7 DEF Channel!Next
<1>4. ASSUME NEW e \in Endpoints, NEW due, NEW probeDue, Flush(e, due, probeDue) PROVE UNCHANGED <<sent, got>>
  BY <1>4 DEF Flush
<1>5. ASSUME NEW e \in Endpoints, NEW d, Input(e, d) PROVE UNCHANGED <<sent, got>>
  BY <1>5 DEF Input
<1>6. CASE UNCHANGED vars
  BY <1>6 DEF vars
<1> QED BY <1>2, <1>3, <1>4, <1>5, <1>6 DEF Next

\* A conversation over a network that loses, repeats and reorders datagrams is a reliable channel: what
\* ikcp_recv returns at one end is what ikcp_send was given at the other, whole, once and in order.
THEOREM ImplementsChannel == Spec => Reliable
<1>1. Init => Channel!Init
  BY DEF Init, Channel!Init
<1> QED BY <1>1, ChannelStep, InvCorrect, PTL DEF Spec, Reliable, Channel!Spec
=============================================================================
