-------------------------------- MODULE Kcp --------------------------------
(***************************************************************************)
(* The KCP protocol machine of src/cppLib/code/Network/Socket/ikcp.c as    *)
(* the two ends of one conversation run it, over a network that loses,     *)
(* duplicates and reorders datagrams.  Both ends use the configuration the *)
(* program gives them: no congestion window (nc = 1), message mode, fast   *)
(* resend on the first skipping acknowledgement (resend = 1).              *)
(*                                                                         *)
(* Abstractions.  Time is left out: at a flush any retransmission timer    *)
(* may have expired.  A payload is named by its message and its fragment   *)
(* number.  A flush sends its acknowledgements and window commands in one  *)
(* datagram and every data segment in one of its own; ikcp_flush may pack  *)
(* several of these into one datagram, which is the same as delivering     *)
(* them back to back.  Sequence numbers do not wrap.                       *)
(***************************************************************************)
EXTENDS Integers, Sequences, FiniteSets

CONSTANTS
    Endpoints,  \* the two ends
    SndWnd,     \* snd_wnd
    RcvWnd,     \* rcv_wnd, IKCP_WND_RCV
    Script,     \* for each end, the fragment counts of the messages it sends
    NetCap      \* bound on the datagrams in flight; what exceeds it is lost

ASSUME KcpAssumption ==
    /\ \E a, b \in Endpoints : a # b /\ Endpoints = {a, b}
    /\ SndWnd \in Nat \ {0}
    /\ RcvWnd \in Nat \ {0}
    /\ Script \in [Endpoints -> Seq(Nat \ {0})]
    /\ NetCap \in Nat

VARIABLES
    snd_queue,  \* fragments not yet given a sequence number
    snd_buf,    \* unacknowledged segments: a function from their sn
    snd_una,    \* first unacknowledged sn
    snd_nxt,    \* next sn to assign
    fastack,    \* the segments of snd_buf an acknowledgement has skipped
    rmt_wnd,    \* the peer's free window as last advertised
    probing,    \* probe_wait # 0: the probe timer runs
    rcv_nxt,    \* next sn expected
    rcv_buf,    \* segments received out of order: a function from their sn
    rcv_queue,  \* fragments in order, not yet read
    acklist,    \* sns to acknowledge at the next flush
    tell,       \* IKCP_ASK_TELL is set in probe
    net,        \* datagrams in flight
    sent,       \* history: the messages given to ikcp_send
    got         \* history: the messages ikcp_recv returned

sndVars == <<snd_queue, snd_buf, snd_una, snd_nxt, fastack, rmt_wnd, probing>>
rcvVars == <<rcv_nxt, rcv_buf, rcv_queue, acklist, tell>>
vars == <<sndVars, rcvVars, net, sent, got>>

Peer(e) == CHOOSE f \in Endpoints : f # e

Least(S) == CHOOSE s \in S : \A t \in S : s <= t

SmallerOf(a, b) == IF a <= b THEN a ELSE b

Fragment == [msg : Nat \ {0}, frg : Nat]

\* message i of end e as ikcp_send cuts it: fragment numbers count down to 0
FragmentsOf(e, i) == [j \in 1..Script[e][i] |-> [msg |-> i, frg |-> Script[e][i] - j]]

Init ==
    /\ snd_queue = [e \in Endpoints |-> <<>>]
    /\ snd_buf = [e \in Endpoints |-> <<>>]
    /\ snd_una = [e \in Endpoints |-> 0]
    /\ snd_nxt = [e \in Endpoints |-> 0]
    /\ fastack = [e \in Endpoints |-> {}]
    /\ rmt_wnd = [e \in Endpoints |-> RcvWnd]
    /\ probing = [e \in Endpoints |-> FALSE]
    /\ rcv_nxt = [e \in Endpoints |-> 0]
    /\ rcv_buf = [e \in Endpoints |-> <<>>]
    /\ rcv_queue = [e \in Endpoints |-> <<>>]
    /\ acklist = [e \in Endpoints |-> {}]
    /\ tell = [e \in Endpoints |-> FALSE]
    /\ net = {}
    /\ sent = [e \in Endpoints |-> <<>>]
    /\ got = [e \in Endpoints |-> <<>>]

-----------------------------------------------------------------------------
(* ikcp_send; a message of RcvWnd fragments or more is refused with -2. *)

Send(e) ==
    LET i == Len(sent[e]) + 1 IN
    /\ i <= Len(Script[e])
    /\ Script[e][i] < RcvWnd
    /\ snd_queue' = [snd_queue EXCEPT ![e] = @ \o FragmentsOf(e, i)]
    /\ sent' = [sent EXCEPT ![e] = Append(@, FragmentsOf(e, i))]
    /\ UNCHANGED <<snd_buf, snd_una, snd_nxt, fastack, rmt_wnd, probing, rcvVars, net, got>>

-----------------------------------------------------------------------------
\* mutant: the room left in rcv_queue is not looked at
MovableUnlimited(nxt, buf, q) ==
    CHOOSE k \in 0..Cardinality(DOMAIN buf) :
        /\ \A s \in nxt..(nxt + k - 1) : s \in DOMAIN buf
        /\ nxt + k \notin DOMAIN buf

(***************************************************************************)
(* Moving segments that are next in order from rcv_buf to rcv_queue while  *)
(* the queue has room: the loop ikcp_recv and ikcp_parse_data share.       *)
(***************************************************************************)
Movable(nxt, buf, q) ==
    CHOOSE k \in 0..(RcvWnd - Len(q)) :
        /\ \A s \in nxt..(nxt + k - 1) : s \in DOMAIN buf
        /\ k < RcvWnd - Len(q) => nxt + k \notin DOMAIN buf

MoveToQueue(e, nxt, buf, q) ==
    LET k == Movable(nxt, buf, q) IN
    /\ rcv_nxt' = [rcv_nxt EXCEPT ![e] = nxt + k]
    /\ rcv_buf' = [rcv_buf EXCEPT ![e] = [s \in DOMAIN buf \ nxt..(nxt + k - 1) |-> buf[s]]]
    /\ rcv_queue' = [rcv_queue EXCEPT ![e] = q \o [i \in 1..k |-> buf[nxt + i - 1]]]

(* ikcp_peeksize and ikcp_recv *)

\* mutant: a message is taken for complete when its last fragment is missing
PeekableOneShort(q) == q # <<>> /\ Len(q) >= q[1].frg

Peekable(q) == q # <<>> /\ Len(q) > q[1].frg

\* how many fragments ikcp_recv merges: up to the first with frg 0
Merged(q) == Least({i \in DOMAIN q : q[i].frg = 0} \cup {Len(q)})

\* mutant of Recv: it reads without moving on what waited in rcv_buf
RecvWithoutMoving(e) ==
    LET q == rcv_queue[e]
        n == Merged(q)
    IN
    /\ Peekable(q)
    /\ got' = [got EXCEPT ![e] = Append(@, SubSeq(q, 1, n))]
    /\ rcv_queue' = [rcv_queue EXCEPT ![e] = SubSeq(q, n + 1, Len(q))]
    /\ UNCHANGED <<sndVars, rcv_nxt, rcv_buf, acklist, tell, net, sent>>

Recv(e) ==
    LET q == rcv_queue[e]
        n == Merged(q)
    IN
    /\ Peekable(q)
    /\ got' = [got EXCEPT ![e] = Append(@, SubSeq(q, 1, n))]
    /\ MoveToQueue(e, rcv_nxt[e], rcv_buf[e], SubSeq(q, n + 1, Len(q)))
    /\ tell' = [tell EXCEPT ![e] = @ \/ (Len(q) >= RcvWnd /\ Len(rcv_queue'[e]) < RcvWnd)]
    /\ UNCHANGED <<sndVars, acklist, net, sent>>

-----------------------------------------------------------------------------
(***************************************************************************)
(* ikcp_flush.  due is the set of segments whose retransmission timer has  *)
(* expired, probeDue whether the window probe's has.                       *)
(***************************************************************************)
\* ikcp_wnd_unused
Unused(e) == IF Len(rcv_queue[e]) < RcvWnd THEN RcvWnd - Len(rcv_queue[e]) ELSE 0

\* mutant: the window counts the unacknowledged segments instead of the sns past snd_una
AdmittedByCount(e) ==
    LET room == SmallerOf(SndWnd, rmt_wnd[e]) - Cardinality(DOMAIN snd_buf[e])
    IN IF room <= 0 THEN 0 ELSE SmallerOf(room, Len(snd_queue[e]))

\* how many fragments the window lets into snd_buf
Admitted(e) ==
    LET room == snd_una[e] + SmallerOf(SndWnd, rmt_wnd[e]) - snd_nxt[e]
    IN IF room <= 0 THEN 0 ELSE SmallerOf(room, Len(snd_queue[e]))

\* a datagram: its sender's free window and rcv_nxt, the sns it acknowledges,
\* its window commands and at most one data segment
Datagram(e, acks, cmds, push) ==
    [from |-> e, wnd |-> Unused(e), una |-> rcv_nxt[e], acks |-> acks, cmds |-> cmds, push |-> push]

Commands(e, probeDue) ==
    (IF rmt_wnd[e] = 0 /\ probing[e] /\ probeDue THEN {"WASK"} ELSE {})
        \cup (IF tell[e] THEN {"WINS"} ELSE {})

Flush(e, due, probeDue) ==
    LET n     == Admitted(e)
        fresh == snd_nxt[e]..(snd_nxt[e] + n - 1)
        buf   == [s \in DOMAIN snd_buf[e] \cup fresh |->
                     IF s \in fresh THEN snd_queue[e][s - snd_nxt[e] + 1] ELSE snd_buf[e][s]]
        cmds  == Commands(e, probeDue)
        out   == {Datagram(e, {}, {}, {[sn |-> s, data |-> buf[s]]}) : s \in fresh \cup due \cup fastack[e]}
                     \cup (IF acklist[e] = {} /\ cmds = {} THEN {} ELSE {Datagram(e, acklist[e], cmds, {})})
    IN
    /\ snd_queue' = [snd_queue EXCEPT ![e] = SubSeq(@, n + 1, Len(@))]
    /\ snd_buf' = [snd_buf EXCEPT ![e] = buf]
    /\ snd_nxt' = [snd_nxt EXCEPT ![e] = @ + n]
    /\ fastack' = [fastack EXCEPT ![e] = @ \cap due]
    /\ probing' = [probing EXCEPT ![e] = rmt_wnd[e] = 0]
    /\ acklist' = [acklist EXCEPT ![e] = {}]
    /\ tell' = [tell EXCEPT ![e] = FALSE]
    /\ \E kept \in SUBSET (net \cup out) : Cardinality(kept) <= NetCap /\ net' = kept
    /\ UNCHANGED <<snd_una, rmt_wnd, rcv_nxt, rcv_buf, rcv_queue, sent, got>>

-----------------------------------------------------------------------------
(* ikcp_input of one datagram *)

\* snd_buf without the segments in gone, ikcp_shrink_buf
Acknowledge(e, gone) ==
    LET left == DOMAIN snd_buf[e] \ gone IN
    /\ snd_buf' = [snd_buf EXCEPT ![e] = [s \in left |-> snd_buf[e][s]]]
    /\ snd_una' = [snd_una EXCEPT ![e] = IF left = {} THEN snd_nxt[e] ELSE Least(left)]

\* mutant: una is taken for the last sn received
UpTo(e, una) == {s \in DOMAIN snd_buf[e] : s <= una}

\* ikcp_parse_una
Before(e, una) == {s \in DOMAIN snd_buf[e] : s < una}

\* ikcp_parse_fastack: what the largest acknowledged sn skipped, unless it is outside the send window
Skipped(e, acks) ==
    IF acks = {} THEN {}
    ELSE LET maxack == CHOOSE s \in acks : \A t \in acks : t <= s
         IN IF maxack < snd_una'[e] \/ maxack >= snd_nxt[e] THEN {}
            ELSE {s \in DOMAIN snd_buf'[e] : s < maxack}

\* ikcp_parse_data and the acknowledgement that ikcp_input queues before it
Accept(e, s, data) ==
    IF s >= rcv_nxt[e] + RcvWnd
    THEN UNCHANGED <<acklist, rcv_nxt, rcv_buf, rcv_queue>>
    ELSE /\ acklist' = [acklist EXCEPT ![e] = @ \cup {s}]
         /\ IF s < rcv_nxt[e] \/ s \in DOMAIN rcv_buf[e]
            THEN UNCHANGED <<rcv_nxt, rcv_buf, rcv_queue>>
            ELSE LET buf == [t \in DOMAIN rcv_buf[e] \cup {s} |->
                                IF t = s THEN data ELSE rcv_buf[e][t]]
                 IN MoveToQueue(e, rcv_nxt[e], buf, rcv_queue[e])

Input(e, d) ==
    /\ d.from = Peer(e)
    /\ rmt_wnd' = [rmt_wnd EXCEPT ![e] = d.wnd]
    /\ Acknowledge(e, Before(e, d.una) \cup d.acks)
    /\ fastack' = [fastack EXCEPT ![e] = (@ \cap DOMAIN snd_buf'[e]) \cup Skipped(e, d.acks)]
    /\ tell' = [tell EXCEPT ![e] = @ \/ "WASK" \in d.cmds]
    /\ IF d.push = {}
       THEN UNCHANGED <<rcv_nxt, rcv_buf, rcv_queue, acklist>>
       ELSE \E seg \in d.push : Accept(e, seg.sn, seg.data)
    /\ \/ net' = net \ {d}
       \/ net' = net            \* the network delivers it again later
    /\ UNCHANGED <<snd_queue, snd_nxt, probing, sent, got>>

-----------------------------------------------------------------------------
Next ==
    \E e \in Endpoints :
        \/ Send(e)
        \/ Recv(e)
        \/ \E due \in SUBSET DOMAIN snd_buf[e], probeDue \in BOOLEAN : Flush(e, due, probeDue)
        \/ \E d \in net : Input(e, d)

Spec == Init /\ [][Next]_vars

-----------------------------------------------------------------------------
(* The type invariant, with the ranges the code keeps its counters and lists in. *)
KcpTypeOK ==
    /\ snd_queue \in [Endpoints -> Seq(Fragment)]
    /\ sent \in [Endpoints -> Seq(Seq(Fragment))]
    /\ got \in [Endpoints -> Seq(Seq(Fragment))]
    /\ rmt_wnd \in [Endpoints -> 0..RcvWnd]
    /\ probing \in [Endpoints -> BOOLEAN]
    /\ tell \in [Endpoints -> BOOLEAN]
    /\ \A e \in Endpoints :
        /\ snd_una[e] \in Nat /\ snd_nxt[e] \in Nat /\ rcv_nxt[e] \in Nat
        /\ DOMAIN snd_buf[e] \subseteq snd_una[e]..(snd_nxt[e] - 1)
        /\ fastack[e] \subseteq DOMAIN snd_buf[e]
        /\ DOMAIN rcv_buf[e] \subseteq rcv_nxt[e]..(rcv_nxt[e] + RcvWnd - 1)
        /\ rcv_queue[e] \in Seq(Fragment) /\ Len(rcv_queue[e]) <= RcvWnd
        /\ acklist[e] \subseteq 0..(rcv_nxt[e] + RcvWnd - 1)

(***************************************************************************)
(* What the sender has dropped from snd_buf, the receiver has: no stale,   *)
(* repeated or reordered acknowledgement (sn or una) makes ikcp_parse_ack  *)
(* or ikcp_parse_una delete a segment that could still be needed.          *)
(***************************************************************************)
AckedIsReceived ==
    \A e \in Endpoints : \A s \in 0..(snd_nxt[e] - 1) \ DOMAIN snd_buf[e] :
        s < rcv_nxt[Peer(e)] \/ s \in DOMAIN rcv_buf[Peer(e)]

(***************************************************************************)
(* The send window: ikcp_flush never has more than snd_wnd sequence        *)
(* numbers outstanding, whatever windows the peer's datagrams, in whatever *)
(* order they come, advertised.                                            *)
(***************************************************************************)
SendWindow == \A e \in Endpoints : snd_nxt[e] - snd_una[e] <= SndWnd

(***************************************************************************)
(* A segment that is next in order waits in rcv_buf only while rcv_queue   *)
(* is full: ikcp_recv and ikcp_parse_data leave nothing behind that no     *)
(* later datagram would come to fetch.                                     *)
(***************************************************************************)
NothingStranded ==
    \A e \in Endpoints : rcv_nxt[e] \in DOMAIN rcv_buf[e] => Len(rcv_queue[e]) = RcvWnd

(***************************************************************************)
(* The conversation is a reliable channel: what ikcp_recv returns at one   *)
(* end is what ikcp_send was given at the other, whole and in order.       *)
(***************************************************************************)
Channel == INSTANCE ReliableChannel WITH
    End <- Endpoints,
    Message <- UNION {{FragmentsOf(e, i) : i \in DOMAIN Script[e]} : e \in Endpoints},
    Other <- Peer

Reliable == Channel!Spec
=============================================================================
