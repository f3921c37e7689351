--------------------------- MODULE ReliableChannel ---------------------------
(***************************************************************************)
(* What a KCP conversation promises the users of its two ends: the         *)
(* messages given to ikcp_send at one end come out of ikcp_recv at the     *)
(* other whole, each once, in the order they were sent.                    *)
(***************************************************************************)
EXTENDS Naturals, Sequences

CONSTANTS End, Message, Other(_)

VARIABLES
    sent,   \* for each end, the messages its user has sent
    got     \* for each end, the messages its user has received

Init ==
    /\ sent = [e \in End |-> <<>>]
    /\ got = [e \in End |-> <<>>]

Send(e, m) ==
    /\ sent' = [sent EXCEPT ![e] = Append(@, m)]
    /\ UNCHANGED got

Receive(e) ==
    LET n == Len(got[e]) IN
    /\ n < Len(sent[Other(e)])
    /\ got' = [got EXCEPT ![e] = Append(@, sent[Other(e)][n + 1])]
    /\ UNCHANGED sent

Next == \E e \in End : Receive(e) \/ \E m \in Message : Send(e, m)

Spec == Init /\ [][Next]_<<sent, got>>
=============================================================================
