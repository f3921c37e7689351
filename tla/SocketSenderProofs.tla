-------------------------- MODULE SocketSenderProofs --------------------------
(***************************************************************************)
(* Theorems about WriteBufferQueue and about SocketSender around it, for   *)
(* any bound, any set of datagrams and any number of sending threads.      *)
(*                                                                         *)
(* The queue.  The three invariants TLC checks are inductive with one     *)
(* more: at most one slot is inactive.  Their conjunction is preserved by  *)
(* every operation, because a slot arrangement that puts inactive slots    *)
(* first has an active first slot only when every slot is active.          *)
(*                                                                         *)
(* The sender.  SendDataHandler pops once in its life, so while it holds   *)
(* the datagram it took from Front() no slot has been emptied, Push only   *)
(* appends, and the first slot keeps that datagram.  The same invariant    *)
(* shows that the threads use the queue as its specification asks: every   *)
(* step of the server is a step of the queue or leaves it alone.           *)
(***************************************************************************)
EXTENDS SocketSender, SequenceTheorems, TLAPS

\* Every active slot holds a datagram of its own.
OneSlotEach(s) == \A i, j \in ActiveSlots(s) : s[i].item = s[j].item => i = j

OneHole(s) == \A i, j \in Holes(s) : i = j

\* What _activepos must be for slots s.
Reported(s) == IF Holes(s) = {} THEN Len(s) ELSE 0

\* A slot emptied by Pop hides the others until a Push fills it again.
AtMostOneHole == OneHole(writeList)

IInv == TypeOK /\ Kept /\ ActivePosExact /\ AtMostOneHole

-----------------------------------------------------------------------------
\* An arrangement is a sequence of the same slots.
LEMMA ArrangedType ==
    ASSUME NEW s \in Seq(Slot), NEW p \in Arrangements(s)
    PROVE  /\ Arranged(s, p) \in Seq(Slot)
           /\ Len(Arranged(s, p)) = Len(s)
           /\ \A i \in 1..Len(s) : p[i] \in 1..Len(s) /\ Arranged(s, p)[i] = s[p[i]]
<1>1. p \in [1..Len(s) -> 1..Len(s)] /\ Len(s) \in Nat
  BY LenProperties DEF Arrangements, Bijection, Injection
<1>2. \A i \in 1..Len(s) : s[p[i]] \in Slot
  BY <1>1, ElementOfSeq
<1>3. [i \in 1..Len(s) |-> s[p[i]]] \in Seq(Slot)
  BY <1>1, <1>2, IsASeq
<1> QED BY <1>1, <1>3 DEF Arranged

\* A slot is active in an arrangement when it is active in the slots arranged, and no slot is doubled.
LEMMA ArrangedSlots ==
    ASSUME NEW s \in Seq(Slot), NEW p \in Arrangements(s)
    PROVE  /\ \A i \in 1..Len(s) : i \in ActiveSlots(Arranged(s, p)) <=> p[i] \in ActiveSlots(s)
           /\ \A i \in 1..Len(s) : i \in Holes(Arranged(s, p)) <=> p[i] \in Holes(s)
           /\ \A i, j \in 1..Len(s) : p[i] = p[j] => i = j
           /\ \A k \in 1..Len(s) : \E i \in 1..Len(s) : p[i] = k
<1>1. DOMAIN Arranged(s, p) = 1..Len(s) /\ DOMAIN s = 1..Len(s)
  BY ArrangedType, LenProperties
<1>2. \A i \in 1..Len(s) : i \in ActiveSlots(Arranged(s, p)) <=> p[i] \in ActiveSlots(s)
  BY <1>1, ArrangedType DEF ActiveSlots
<1>3. \A i \in 1..Len(s) : i \in Holes(Arranged(s, p)) <=> p[i] \in Holes(s)
  BY <1>1, <1>2, ArrangedType DEF Holes
<1>4. \A i, j \in 1..Len(s) : p[i] = p[j] => i = j
  BY DEF Arrangements, Bijection, Injection, IsInjective
<1>5. \A k \in 1..Len(s) : \E i \in 1..Len(s) : p[i] = k
  BY DEF Arrangements, Bijection, Surjection
<1> QED BY <1>2, <1>3, <1>4, <1>5

\* Arranging keeps the datagrams that wait, one slot each, and the number of holes up to one.
LEMMA ArrangedKeeps ==
    ASSUME NEW s \in Seq(Slot), NEW p \in Arrangements(s)
    PROVE  /\ ActiveItems(Arranged(s, p)) = ActiveItems(s)
           /\ OneSlotEach(s) => OneSlotEach(Arranged(s, p))
           /\ OneHole(s) => OneHole(Arranged(s, p))
           /\ Holes(Arranged(s, p)) = {} <=> Holes(s) = {}
<1> DEFINE a == Arranged(s, p)
<1>1. DOMAIN a = 1..Len(s) /\ DOMAIN s = 1..Len(s)
  BY ArrangedType, LenProperties
<1>2. ActiveSlots(a) \subseteq 1..Len(s) /\ ActiveSlots(s) \subseteq 1..Len(s)
  BY <1>1 DEF ActiveSlots
<1>3. Holes(a) \subseteq 1..Len(s) /\ Holes(s) \subseteq 1..Len(s)
  BY <1>1 DEF Holes
<1>4. \A i \in ActiveSlots(a) : p[i] \in ActiveSlots(s) /\ a[i] = s[p[i]]
  BY <1>2, ArrangedType, ArrangedSlots
<1>5. \A k \in ActiveSlots(s) : \E i \in ActiveSlots(a) : a[i] = s[k]
  <2> TAKE k \in ActiveSlots(s)
  <2>1. PICK i \in 1..Len(s) : p[i] = k
    BY <1>2, ArrangedSlots
  <2>2. i \in ActiveSlots(a) /\ a[i] = s[k]
    BY <2>1, ArrangedType, ArrangedSlots
  <2> QED BY <2>2
<1>6. ActiveItems(a) = ActiveItems(s)
  BY <1>4, <1>5 DEF ActiveItems
<1>7. ASSUME OneSlotEach(s), NEW i \in ActiveSlots(a), NEW j \in ActiveSlots(a), a[i].item = a[j].item
      PROVE  i = j
  <2>1. p[i] = p[j]
    BY <1>4, <1>7 DEF OneSlotEach
  <2> QED BY <1>2, <2>1, ArrangedSlots
<1>8. ASSUME OneHole(s), NEW i \in Holes(a), NEW j \in Holes(a)
      PROVE  i = j
  <2>1. p[i] \in Holes(s) /\ p[j] \in Holes(s)
    BY <1>3, ArrangedSlots
  <2>2. p[i] = p[j]
    BY <1>8, <2>1 DEF OneHole
  <2> QED BY <1>3, <2>2, ArrangedSlots
<1>9. Holes(a) = {} <=> Holes(s) = {}
  <2>1. ASSUME NEW i \in Holes(a) PROVE Holes(s) # {}
    <3>1. i \in 1..Len(s)
      BY <1>3
    <3>2. p[i] \in Holes(s)
      BY <3>1, ArrangedSlots
    <3> QED BY <3>2
  <2>2. ASSUME NEW k \in Holes(s) PROVE Holes(a) # {}
    <3>1. PICK i \in 1..Len(s) : p[i] = k
      BY <1>3, ArrangedSlots
    <3>2. i \in Holes(a)
      BY <3>1, ArrangedSlots
    <3> QED BY <3>2
  <2> QED BY <2>1, <2>2
<1> QED BY <1>6, <1>7, <1>8, <1>9 DEF OneSlotEach, OneHole

\* With inactive slots first, the leading active slots are all of them or none.
LEMMA CountArranged ==
    ASSUME NEW s \in Seq(Slot), InactiveFirst(s)
    PROVE  CountActive(s) = Reported(s)
<1> DEFINE P(n) == /\ \A i \in 1..n : s[i].active
                   /\ n < Len(s) => ~s[n + 1].active
<1>1. CountActive(s) = CHOOSE n \in 0..Len(s) : P(n)
  BY DEF CountActive, LeadingActive
<1>2. Len(s) \in Nat /\ DOMAIN s = 1..Len(s)
  BY LenProperties
<1>3. CASE Holes(s) = {}
  <2>1. \A i \in 1..Len(s) : s[i].active
    BY <1>2, <1>3 DEF Holes, ActiveSlots
  <2>2. P(Len(s)) /\ Len(s) \in 0..Len(s)
    BY <1>2, <2>1
  <2>3. ASSUME NEW n \in 0..Len(s), P(n) PROVE n = Len(s)
    <3>1. CASE n < Len(s)
      <4>1. n + 1 \in 1..Len(s)
        BY <1>2, <3>1
      <4>2. ~s[n + 1].active
        BY <2>3, <3>1
      <4>3. s[n + 1].active
        BY Zenon, <2>1, <4>1
      <4> QED BY <4>2, <4>3
    <3>2. Len(s) \in Nat
      BY <1>2
    <3> HIDE DEF P
    <3> QED BY <3>1, <3>2
  <2>4. (CHOOSE n \in 0..Len(s) : P(n)) = Len(s)
    BY <2>2, <2>3
  <2> QED BY <1>1, <1>3, <2>4 DEF Reported
<1>4. CASE Holes(s) # {}
  <2>1. PICK j \in 1..Len(s) : ~s[j].active
    BY <1>2, <1>4 DEF Holes, ActiveSlots
  <2>2. 1 \in 1..Len(s) /\ ~s[1].active
    BY <1>2, <2>1 DEF InactiveFirst
  <2>3. P(0) /\ 0 \in 0..Len(s)
    BY <1>2, <2>2
  <2>4. ASSUME NEW n \in 0..Len(s), P(n) PROVE n = 0
    BY <1>2, <2>2, <2>4
  <2>5. (CHOOSE n \in 0..Len(s) : P(n)) = 0
    BY <2>3, <2>4
  <2> QED BY <1>1, <1>4, <2>5 DEF Reported
<1> QED BY <1>3, <1>4

-----------------------------------------------------------------------------
\* Flushing slots with at most one hole leaves slots with at most one hole, reported exactly.
LEMMA FlushReports ==
    ASSUME NEW s \in Seq(Slot), Len(s) <= MaxSize, OneHole(s), OneSlotEach(s), Flush(s)
    PROVE  /\ writeList' \in Seq(Slot)
           /\ Len(writeList') <= MaxSize
           /\ activepos' \in 0..MaxSize
           /\ ActiveItems(writeList') = ActiveItems(s)
           /\ OneSlotEach(writeList')
           /\ ActivePosExact'
           /\ AtMostOneHole'
<1>1. PICK p \in Arrangements(s) :
          writeList' = Arranged(s, p) /\ activepos' = CountActive(Arranged(s, p))
  BY DEF Flush
<1>2. InactiveFirst(writeList') /\ writeList' \in Seq(Slot) /\ Len(writeList') = Len(s)
  BY <1>1, ArrangedType DEF Arrangements
<1>3. activepos' = Reported(writeList')
  BY <1>1, <1>2, CountArranged
<1>4. activepos' \in 0..MaxSize
  BY <1>2, <1>3, LenProperties, QueueAssumption DEF Reported, QueueAssumption
<1>5. ActivePosExact' /\ AtMostOneHole'
  BY <1>1, <1>3, ArrangedKeeps DEF ActivePosExact, AtMostOneHole, Reported, OneHole
<1> QED BY <1>1, <1>2, <1>4, <1>5, ArrangedKeeps

\* An empty queue satisfies the four invariants.
LEMMA InvInit == Init => IInv
<1> SUFFICES ASSUME Init PROVE IInv
  OBVIOUS
<1>1. writeList = <<>> /\ DOMAIN writeList = {} /\ Len(writeList) = 0 /\ writeList \in Seq(Slot)
  BY EmptySeq DEF Init
<1>2. TypeOK
  BY <1>1, QueueAssumption DEF Init, TypeOK, QueueAssumption
<1>3. ActiveSlots(writeList) = {} /\ Holes(writeList) = {}
  BY <1>1 DEF ActiveSlots, Holes
<1>4. Kept /\ ActivePosExact /\ AtMostOneHole
  BY <1>1, <1>3 DEF Init, Kept, ActiveItems, ActivePosExact, AtMostOneHole, OneHole
<1> QED BY <1>2, <1>4 DEF IInv

\* Overwriting the hole with a new datagram fills the only hole and keeps the others' slots.
LEMMA ReuseStep ==
    ASSUME IInv, NEW item \in Items \ pushed, PushReuse(item)
    PROVE  IInv'
<1> DEFINE h == FirstHole(writeList)
           s == [writeList EXCEPT ![h] = [item |-> item, active |-> TRUE]]
<1>1. h \in Holes(writeList) /\ h \in 1..Len(writeList)
  <2>1. \E i \in Holes(writeList) : \A j \in Holes(writeList) : i <= j
    <3>1. PICK i \in Holes(writeList) : TRUE
      BY DEF PushReuse
    <3>2. i \in Nat /\ \A j \in Holes(writeList) : j = i
      BY <3>1, LenProperties DEF IInv, AtMostOneHole, OneHole, TypeOK, Holes
    <3> QED BY <3>1, <3>2
  <2>2. h \in Holes(writeList)
    BY <2>1 DEF FirstHole
  <2> QED BY <2>2, LenProperties DEF IInv, TypeOK, Holes
<1>2. [item |-> item, active |-> TRUE] \in Slot
  BY DEF Slot
<1>3. s \in Seq(Slot) /\ Len(s) = Len(writeList) /\ DOMAIN s = 1..Len(writeList) /\ DOMAIN writeList = 1..Len(writeList)
  BY <1>1, <1>2, ExceptSeq, LenProperties DEF IInv, TypeOK
<1>4. \A j \in 1..Len(writeList) :
          s[j] = IF j = h THEN [item |-> item, active |-> TRUE] ELSE writeList[j]
  BY <1>1, <1>2, ExceptSeq DEF IInv, TypeOK
<1>5. ActiveSlots(s) = ActiveSlots(writeList) \cup {h} /\ h \notin ActiveSlots(writeList)
  BY <1>1, <1>3, <1>4 DEF ActiveSlots, Holes
<1>6. ActiveItems(s) = ActiveItems(writeList) \cup {item}
  BY <1>1, <1>3, <1>4, <1>5 DEF ActiveItems, ActiveSlots
<1>7. item \notin ActiveItems(writeList)
  BY DEF IInv, Kept
<1>8. OneSlotEach(s)
  BY <1>1, <1>3, <1>4, <1>5, <1>7 DEF IInv, Kept, OneSlotEach, ActiveItems, ActiveSlots
<1>9. OneHole(s)
  BY <1>3, <1>5 DEF IInv, AtMostOneHole, OneHole, Holes
<1>10. Flush(s) /\ Len(s) <= MaxSize /\ pushed' = pushed \cup {item} /\ popped' = popped
  BY <1>3 DEF PushReuse, IInv, TypeOK
<1>11. /\ writeList' \in Seq(Slot) /\ Len(writeList') <= MaxSize /\ activepos' \in 0..MaxSize
       /\ ActiveItems(writeList') = ActiveItems(s) /\ OneSlotEach(writeList')
       /\ ActivePosExact' /\ AtMostOneHole'
  BY <1>3, <1>8, <1>9, <1>10, FlushReports
<1>12. TypeOK'
  BY <1>10, <1>11 DEF IInv, TypeOK
<1>13. ActiveItems(writeList') = pushed' \ popped'
  BY <1>6, <1>10, <1>11 DEF IInv, Kept, TypeOK
<1> QED BY <1>11, <1>12, <1>13 DEF IInv, Kept, OneSlotEach

\* With no hole and room left, a slot is added for the new datagram.
LEMMA AppendStep ==
    ASSUME IInv, NEW item \in Items \ pushed, PushAppend(item)
    PROVE  IInv'
<1> DEFINE new == [item |-> item, active |-> TRUE]
           n == Len(writeList)
<1>1. new \in Slot /\ new.item = item /\ new.active
  BY DEF Slot
<1>2. /\ writeList' \in Seq(Slot) /\ Len(writeList') = n + 1 /\ n \in Nat /\ n + 1 <= MaxSize
      /\ DOMAIN writeList = 1..n /\ DOMAIN writeList' = 1..(n + 1)
      /\ \A i \in 1..n : writeList'[i] = writeList[i]
      /\ writeList'[n + 1] = new
  BY <1>1, QueueAssumption DEF PushAppend, IInv, TypeOK, QueueAssumption
<1>3. 1..(n + 1) = 1..n \cup {n + 1} /\ n + 1 \notin 1..n
  BY <1>2
<1>4. ActiveSlots(writeList') = 1..(n + 1) /\ ActiveSlots(writeList) = 1..n
  BY <1>1, <1>2, <1>3 DEF PushAppend, Holes, ActiveSlots
<1>5. Holes(writeList') = {}
  BY <1>2, <1>4 DEF Holes
<1>6. ActiveItems(writeList') = ActiveItems(writeList) \cup {item}
  BY <1>1, <1>2, <1>3, <1>4 DEF ActiveItems
<1>7. item \notin ActiveItems(writeList)
  BY DEF IInv, Kept
<1>8. OneSlotEach(writeList')
  BY <1>1, <1>2, <1>3, <1>4, <1>7 DEF IInv, Kept, OneSlotEach, ActiveItems
<1>9. TypeOK'
  BY <1>2, QueueAssumption DEF PushAppend, IInv, TypeOK, QueueAssumption
<1>10. ActiveItems(writeList') = pushed' \ popped'
  BY <1>6 DEF PushAppend, IInv, Kept, TypeOK
<1> QED BY <1>2, <1>5, <1>8, <1>9, <1>10 DEF PushAppend, IInv, Kept, OneSlotEach, ActivePosExact, AtMostOneHole, OneHole

\* A positive size means every slot is active, so Pop releases a datagram that waits and leaves one hole.
LEMMA PopStep ==
    ASSUME IInv, PopFront
    PROVE  IInv'
<1> DEFINE s == [writeList EXCEPT ![1].active = FALSE]
           n == Len(writeList)
<1>1. Holes(writeList) = {} /\ n \in Nat /\ 1 \in 1..n /\ DOMAIN writeList = 1..n
  BY LenProperties DEF PopFront, Pop, IInv, ActivePosExact, TypeOK
<1>2. ActiveSlots(writeList) = 1..n
  BY <1>1 DEF Holes, ActiveSlots
<1>3. [writeList[1] EXCEPT !.active = FALSE] \in Slot
  <2>1. writeList[1] \in Slot
    BY <1>1, ElementOfSeq DEF IInv, TypeOK
  <2> QED BY <2>1 DEF Slot
<1>4. s = [writeList EXCEPT ![1] = [writeList[1] EXCEPT !.active = FALSE]]
  OBVIOUS
<1>5. /\ s \in Seq(Slot) /\ Len(s) = n /\ DOMAIN s = 1..n
      /\ \A j \in 1..n : s[j] = IF j = 1 THEN [writeList[1] EXCEPT !.active = FALSE] ELSE writeList[j]
  BY <1>1, <1>3, <1>4, ExceptSeq, LenProperties DEF IInv, TypeOK
<1>6. ~s[1].active
  BY <1>1, <1>3, <1>5, ElementOfSeq DEF IInv, TypeOK, Slot
<1>7. ActiveSlots(s) = 1..n \ {1}
  BY <1>2, <1>5, <1>6 DEF ActiveSlots
<1>8. OneHole(s)
  BY <1>5, <1>7 DEF OneHole, Holes
<1>9. ActiveItems(s) = ActiveItems(writeList) \ {writeList[1].item}
  <2>1. \A i \in 2..n : s[i] = writeList[i] /\ i \in 1..n /\ i # 1
    BY <1>1, <1>5
  <2>2. 1..n \ {1} = 2..n
    BY <1>1
  <2>3. \A i \in 2..n : writeList[i].item # writeList[1].item
    BY <1>1, <1>2, <2>1 DEF IInv, Kept
  <2>4. ActiveItems(s) = {writeList[i].item : i \in 2..n}
    <3>1. ActiveSlots(s) = 2..n
      BY <1>7, <2>2
    <3> HIDE DEF s
    <3> QED BY <2>1, <3>1 DEF ActiveItems
  <2>5. 1..n = {1} \cup 2..n
    BY <1>1
  <2>6. ActiveItems(writeList) = {writeList[i].item : i \in {1} \cup 2..n}
    BY <1>2, <2>5 DEF ActiveItems
  <2> QED BY <2>3, <2>4, <2>6
<1>10. OneSlotEach(s)
  BY <1>2, <1>5, <1>7 DEF OneSlotEach, IInv, Kept
<1>11. /\ Flush(s) /\ popped' = popped \cup {writeList[1].item} /\ pushed' = pushed
  BY DEF PopFront, Pop
<1>12. /\ writeList' \in Seq(Slot) /\ Len(writeList') <= MaxSize /\ activepos' \in 0..MaxSize
       /\ ActiveItems(writeList') = ActiveItems(s) /\ OneSlotEach(writeList')
       /\ ActivePosExact' /\ AtMostOneHole'
  BY <1>5, <1>8, <1>10, <1>11, FlushReports DEF IInv, TypeOK
<1>13. writeList[1].item \in pushed
  BY <1>1, <1>2 DEF ActiveItems, IInv, Kept
<1>14. TypeOK'
  BY <1>11, <1>12, <1>13 DEF IInv, TypeOK
<1>15. ActiveItems(writeList') = pushed' \ popped'
  BY <1>9, <1>11, <1>12 DEF IInv, Kept
<1> QED BY <1>12, <1>14, <1>15 DEF IInv, Kept, OneSlotEach

\* The conjunction of the four invariants is preserved by every operation.
LEMMA InvStep == IInv /\ [Next]_queueVars => IInv'
<1>1. CASE UNCHANGED queueVars
  BY <1>1 DEF queueVars, IInv, TypeOK, Kept, ActivePosExact, AtMostOneHole, OneHole, ActiveItems, ActiveSlots, Holes
<1> QED BY <1>1, ReuseStep, AppendStep, PopStep DEF Next, Push, PushRefused

\* The four invariants hold in every state of the queue.
LEMMA InvCorrect == Spec => []IInv
  BY InvInit, InvStep, PTL DEF Spec

\* The slots never outnumber the bound, and every popped datagram had been accepted.
THEOREM TypeCorrect == Spec => []TypeOK
<1>1. IInv => TypeOK
  BY DEF IInv
<1> QED BY <1>1, InvCorrect, PTL

\* No accepted datagram is lost or doubled while it waits (Push and Pop).
THEOREM KeptCorrect == Spec => []Kept
<1>1. IInv => Kept
  BY DEF IInv
<1> QED BY <1>1, InvCorrect, PTL

\* GetActiveSize reports all the slots or none (Flush).
THEOREM ActivePosCorrect == Spec => []ActivePosExact
<1>1. IInv => ActivePosExact
  BY DEF IInv
<1> QED BY <1>1, InvCorrect, PTL

-----------------------------------------------------------------------------
(* The sender. *)

\* The queue has not been popped yet: SendDataHandler has not come to its Pop.
NotPoppedYet == handler \in {"none", "queued", "send", "pop"} => Holes(writeList) = {} /\ popped = {}

\* The datagram that SendDataHandler took from Front() is still in the first slot when it pops.
FrontIsFirst == handler \in {"send", "pop"} => writeList # <<>> /\ front = writeList[1].item

\* SendDataHandler pops only after SendTo succeeded.
FrontWasSent == handler = "pop" => front \in sent

\* A thread waiting for _sendLock has a datagram that was not pushed.
Unpushed == \A c \in Senders : sender[c] = "checked" => datagram[c] \in Items \ pushed

\* Two calls of Send are never about the same datagram.
OneCallEach == \A c, d \in Senders : datagram[c] = datagram[d] => c = d \/ datagram[c] = NoItem

SenderIInv ==
    /\ SenderTypeOK
    /\ IInv
    /\ NotPoppedYet /\ FrontIsFirst /\ FrontWasSent /\ PoppedWasSent
    /\ Unpushed /\ OneCallEach

\* The invariant depends on the variables only.
LEMMA SenderStutter == SenderIInv /\ UNCHANGED vars => SenderIInv'
  BY DEF SenderIInv, vars, queueVars, senderVars, SenderTypeOK, IInv, TypeOK, Kept, ActivePosExact, AtMostOneHole,
         OneHole, ActiveItems, ActiveSlots, Holes, NotPoppedYet, FrontIsFirst, FrontWasSent, PoppedWasSent,
         Unpushed, OneCallEach

\* What a step that leaves the queue alone keeps of it.
LEMMA QueueAlone ==
    ASSUME IInv, UNCHANGED queueVars
    PROVE  IInv' /\ TypeOK' /\ Holes(writeList)' = Holes(writeList)
  BY DEF queueVars, IInv, TypeOK, Kept, ActivePosExact, AtMostOneHole, OneHole, ActiveItems, ActiveSlots, Holes

\* Before StartUp nothing is queued, sent or popped.
LEMMA SenderInvInit == SenderInit => SenderIInv
<1> SUFFICES ASSUME SenderInit PROVE SenderIInv
  OBVIOUS
<1>1. IInv /\ TypeOK
  BY InvInit DEF SenderInit, IInv
<1>2. SenderTypeOK
  BY <1>1 DEF SenderInit, SenderTypeOK
<1>3. NotPoppedYet /\ FrontIsFirst /\ FrontWasSent /\ PoppedWasSent
  BY DEF SenderInit, Init, NotPoppedYet, FrontIsFirst, FrontWasSent, PoppedWasSent, Holes, ActiveSlots
<1>4. Unpushed /\ OneCallEach
  BY DEF SenderInit, Unpushed, OneCallEach
<1> QED BY <1>1, <1>2, <1>3, <1>4 DEF SenderIInv

\* SendDataHandler's variables and its invariants, for a step that touches neither it nor the queue.
LEMMA HandlerAlone ==
    ASSUME SenderIInv, UNCHANGED <<queueVars, handler, front, sent>>
    PROVE  (NotPoppedYet /\ FrontIsFirst /\ FrontWasSent /\ PoppedWasSent)'
  BY QueueAlone DEF SenderIInv, queueVars, NotPoppedYet, FrontIsFirst, FrontWasSent, PoppedWasSent

\* Waking SendDataHandler moves it between states in which it has already come past its Pop.
LEMMA WakeAlone ==
    ASSUME SenderIInv, WakeHandler, UNCHANGED <<queueVars, front, sent>>
    PROVE  /\ (NotPoppedYet /\ FrontIsFirst /\ FrontWasSent /\ PoppedWasSent)'
           /\ handler' \in {"none", "queued", "send", "pop", "wait", "blocked", "done", "fault"}
<1>1. handler' \in {"none", "queued", "send", "pop", "wait", "blocked", "done", "fault"}
  BY DEF WakeHandler, SenderIInv, SenderTypeOK
<1>2. handler' \in {"none", "queued", "send", "pop"} => handler' = handler
  BY DEF WakeHandler
<1> QED BY <1>1, <1>2, QueueAlone DEF SenderIInv, queueVars, NotPoppedYet, FrontIsFirst, FrontWasSent, PoppedWasSent

\* StartUp keeps the invariant.
LEMMA StartUpKeeps == SenderIInv /\ StartUpStep => SenderIInv'
<1> SUFFICES ASSUME SenderIInv, StartUpStep PROVE SenderIInv'
  OBVIOUS
<1>1. UNCHANGED <<queueVars, front, sent, senderVars, stopper, failed>>
  BY DEF StartUpStep, CreateNotifier, AddHandlerTask, Listen
<1>2. IInv' /\ TypeOK' /\ Holes(writeList)' = Holes(writeList)
  BY <1>1, QueueAlone DEF SenderIInv
<1>3. SenderTypeOK'
  BY <1>1, <1>2 DEF SenderIInv, SenderTypeOK, StartUpStep, CreateNotifier, AddHandlerTask, Listen, senderVars
<1>4. handler' = handler \/ (handler = "none" /\ handler' = "queued")
  BY DEF StartUpStep, CreateNotifier, AddHandlerTask, Listen
<1>5. (NotPoppedYet /\ FrontIsFirst /\ FrontWasSent /\ PoppedWasSent)'
  BY <1>1, <1>2, <1>4 DEF SenderIInv, queueVars, NotPoppedYet, FrontIsFirst, FrontWasSent, PoppedWasSent
<1>6. (Unpushed /\ OneCallEach)'
  BY <1>1 DEF SenderIInv, queueVars, senderVars, Unpushed, OneCallEach
<1> QED BY <1>2, <1>3, <1>5, <1>6 DEF SenderIInv

\* The unlocked part of Send keeps the invariant.
LEMMA CheckKeeps ==
    ASSUME SenderIInv, NEW c \in Senders, NEW m \in Unsent, SendCheck(c, m) \/ SendNotConnected(c, m)
    PROVE  SenderIInv'
<1>1. UNCHANGED <<queueVars, connected, notifier, handler, front, stopper, sent>>
  BY DEF SendCheck, SendNotConnected
<1>2. IInv' /\ TypeOK'
  BY <1>1, QueueAlone DEF SenderIInv
<1>3. (NotPoppedYet /\ FrontIsFirst /\ FrontWasSent /\ PoppedWasSent)'
  BY <1>1, HandlerAlone
<1>4. m \in Items \ pushed /\ m # NoItem /\ \A d \in Senders : datagram[d] # m
  BY SenderAssumption DEF Unsent, SenderAssumption
<1>5. CASE SendCheck(c, m)
  <2>1. /\ sender' = [sender EXCEPT ![c] = "checked"] /\ datagram' = [datagram EXCEPT ![c] = m] /\ failed' = failed
    BY <1>5 DEF SendCheck
  <2>2. SenderTypeOK'
    BY <1>1, <1>2, <1>4, <2>1 DEF SenderIInv, SenderTypeOK
  <2>3. (Unpushed /\ OneCallEach)'
    BY <1>1, <1>4, <2>1 DEF SenderIInv, SenderTypeOK, queueVars, Unpushed, OneCallEach
  <2> QED BY <1>2, <1>3, <2>2, <2>3 DEF SenderIInv
<1>6. CASE SendNotConnected(c, m)
  <2>1. UNCHANGED senderVars /\ failed' = failed \cup {m}
    BY <1>6 DEF SendNotConnected
  <2>2. SenderTypeOK'
    BY <1>1, <1>2, <1>4, <2>1 DEF SenderIInv, SenderTypeOK, senderVars
  <2>3. (Unpushed /\ OneCallEach)'
    BY <1>1, <2>1 DEF SenderIInv, queueVars, senderVars, Unpushed, OneCallEach
  <2> QED BY <1>2, <1>3, <2>2, <2>3 DEF SenderIInv
<1> QED BY <1>5, <1>6

\* Push, while SendDataHandler has not popped, appends and leaves the first slot alone.
LEMMA PushBeforePop ==
    ASSUME IInv, NEW item \in Items \ pushed, Push(item), Holes(writeList) = {}
    PROVE  /\ Holes(writeList') = {}
           /\ writeList' # <<>>
           /\ writeList # <<>> => writeList'[1] = writeList[1]
<1>1. PushAppend(item)
  BY DEF Push, PushReuse
<1>2. [item |-> item, active |-> TRUE] \in Slot
  BY DEF Slot
<1> DEFINE new == [item |-> item, active |-> TRUE]
           n == Len(writeList)
<1>3. /\ n \in Nat /\ DOMAIN writeList = 1..n
      /\ writeList' \in Seq(Slot) /\ Len(writeList') = n + 1 /\ DOMAIN writeList' = 1..(n + 1)
      /\ \A i \in 1..n : writeList'[i] = writeList[i]
      /\ writeList'[n + 1] = new /\ new.active
  BY <1>1, <1>2 DEF PushAppend, IInv, TypeOK
<1>4. \A i \in 1..n : writeList[i].active
  BY <1>3 DEF Holes, ActiveSlots
<1>5. \A i \in 1..(n + 1) : writeList'[i].active
  <2>1. 1..(n + 1) = 1..n \cup {n + 1}
    BY <1>3
  <2> QED BY <1>3, <1>4, <2>1
<1>6. Holes(writeList') = {}
  BY <1>3, <1>5 DEF Holes, ActiveSlots
<1>7. writeList' # <<>>
  BY <1>3
<1>8. writeList # <<>> => writeList'[1] = writeList[1]
  <2>1. writeList # <<>> => 1 \in 1..n
    BY <1>3, EmptySeq DEF IInv, TypeOK
  <2> QED BY <1>3, <2>1
<1> QED BY <1>6, <1>7, <1>8

\* Push under _sendLock keeps the invariant.
LEMMA SendPushKeeps ==
    ASSUME SenderIInv, NEW c \in Senders, SendPush(c)
    PROVE  SenderIInv'
<1> DEFINE item == datagram[c]
<1>1. item \in Items \ pushed /\ item # NoItem
  BY SenderAssumption DEF SendPush, SenderIInv, Unpushed, SenderAssumption
<1>2. IInv'
  BY <1>1, ReuseStep, AppendStep DEF SendPush, Push, SenderIInv
<1>3. /\ sender' = [sender EXCEPT ![c] = "locked"]
      /\ UNCHANGED <<datagram, connected, notifier, handler, front, stopper, sent, failed>>
      /\ pushed' = pushed \cup {item} /\ popped' = popped
  BY DEF SendPush, Push, PushReuse, PushAppend
<1>4. SenderTypeOK'
  <2>1. \A d \in Senders : sender[d] # "locked"
    BY DEF SendPush, SendLockFree
  <2> QED BY <1>2, <1>3, <2>1 DEF SenderIInv, SenderTypeOK, IInv
<1>5. (NotPoppedYet /\ FrontIsFirst /\ FrontWasSent /\ PoppedWasSent)'
  <2>1. Push(item)
    BY DEF SendPush
  <2>2. Holes(writeList) = {} => /\ Holes(writeList') = {}
                                 /\ writeList # <<>> => writeList' # <<>> /\ writeList'[1] = writeList[1]
    BY <1>1, <2>1, PushBeforePop DEF SenderIInv
  <2> QED BY <1>3, <2>2 DEF SenderIInv, NotPoppedYet, FrontIsFirst, FrontWasSent, PoppedWasSent
<1>6. Unpushed'
  BY <1>1, <1>3 DEF SenderIInv, SenderTypeOK, Unpushed, OneCallEach
<1>7. OneCallEach'
  BY <1>3 DEF SenderIInv, OneCallEach
<1> QED BY <1>2, <1>4, <1>5, <1>6, <1>7 DEF SenderIInv

\* Send on a full queue and Send's notification keep the invariant.
LEMMA SendRestKeeps ==
    ASSUME SenderIInv, NEW c \in Senders, SendPushRefused(c) \/ SendNotify(c)
    PROVE  SenderIInv'
<1>1. UNCHANGED <<queueVars, connected, notifier, front, stopper, sent>>
  BY DEF SendPushRefused, SendNotify, PushRefused
<1>2. IInv' /\ TypeOK'
  BY <1>1, QueueAlone DEF SenderIInv
<1>3. /\ (NotPoppedYet /\ FrontIsFirst /\ FrontWasSent /\ PoppedWasSent)'
      /\ handler' \in {"none", "queued", "send", "pop", "wait", "blocked", "done", "fault"}
  <2>1. CASE UNCHANGED handler
    BY <1>1, <2>1, HandlerAlone DEF SenderIInv, SenderTypeOK
  <2>2. CASE WakeHandler
    BY <1>1, <2>2, WakeAlone
  <2> QED BY <2>1, <2>2 DEF SendPushRefused, SendNotify
<1>4. /\ sender' = [sender EXCEPT ![c] = "idle"] \/ sender' = [sender EXCEPT ![c] = "fault"]
      /\ datagram' = [datagram EXCEPT ![c] = NoItem] \/ datagram' = datagram
  BY DEF SendPushRefused, SendNotify
<1>5. failed' = failed \/ (failed' = failed \cup {datagram[c]} /\ sender[c] = "checked")
  BY DEF SendPushRefused, SendNotify
<1>6. SenderTypeOK'
  <2>1. failed' \subseteq Items
    BY <1>5 DEF SenderIInv, SenderTypeOK, Unpushed
  <2>2. sender' \in [Senders -> {"idle", "checked", "locked", "fault"}]
    BY <1>4 DEF SenderIInv, SenderTypeOK
  <2>3. datagram' \in [Senders -> Items \cup {NoItem}]
    BY <1>4 DEF SenderIInv, SenderTypeOK
  <2>4. \A d \in Senders : sender'[d] = "locked" => sender[d] = "locked"
    BY <1>4 DEF SenderIInv, SenderTypeOK
  <2> QED BY <1>1, <1>2, <1>3, <2>1, <2>2, <2>3, <2>4 DEF SenderIInv, SenderTypeOK
<1>7. \A d \in Senders : sender'[d] = "checked" => d # c /\ sender[d] = "checked"
  BY <1>4 DEF SenderIInv, SenderTypeOK
<1>8. \A d \in Senders : datagram'[d] = NoItem \/ datagram'[d] = datagram[d]
  BY <1>4 DEF SenderIInv, SenderTypeOK
<1>9. \A d \in Senders : d # c => datagram'[d] = datagram[d]
  BY <1>4 DEF SenderIInv, SenderTypeOK
<1>10. Unpushed'
  BY <1>1, <1>7, <1>9 DEF SenderIInv, queueVars, Unpushed
<1>11. OneCallEach'
  BY <1>8, <1>9 DEF SenderIInv, OneCallEach
<1> QED BY <1>2, <1>3, <1>6, <1>10, <1>11 DEF SenderIInv

\* SendDataHandler keeps the invariant until its Pop.
LEMMA HandlerKeeps ==
    ASSUME SenderIInv, HandlerStart \/ HandlerSend \/ HandlerWait \/ HandlerSpuriousWakeup
    PROVE  SenderIInv'
<1>1. UNCHANGED <<queueVars, connected, notifier, senderVars, stopper, failed>>
  BY DEF HandlerStart, HandlerSend, HandlerWait, HandlerSpuriousWakeup
<1>2. IInv' /\ TypeOK' /\ Holes(writeList)' = Holes(writeList)
  BY <1>1, QueueAlone DEF SenderIInv
<1>3. (Unpushed /\ OneCallEach)'
  BY <1>1 DEF SenderIInv, queueVars, senderVars, Unpushed, OneCallEach
<1>4. writeList # <<>> => writeList[1].item \in Items
  <2>1. writeList # <<>> => writeList[1] \in Slot
    BY EmptySeq, ElementOfSeq DEF SenderIInv, IInv, TypeOK
  <2> QED BY <2>1 DEF Slot
<1>5. /\ (NotPoppedYet /\ FrontIsFirst /\ FrontWasSent /\ PoppedWasSent)'
      /\ handler' \in {"none", "queued", "send", "pop", "wait", "blocked", "done", "fault"}
      /\ front' \in Items \cup {NoItem} /\ sent' \subseteq Items
  <2>1. CASE HandlerStart
    <3>1. activepos > 0 => writeList # <<>>
      BY EmptySeq DEF SenderIInv, IInv, ActivePosExact
    <3> QED BY <1>1, <1>2, <1>4, <2>1, <3>1 DEF HandlerStart, SenderIInv, SenderTypeOK, queueVars,
                NotPoppedYet, FrontIsFirst, FrontWasSent, PoppedWasSent
  <2>2. CASE HandlerSend
    <3>1. front \in Items
      BY <1>4, <2>2 DEF HandlerSend, SenderIInv, FrontIsFirst
    <3> QED BY <1>1, <1>2, <2>2, <3>1 DEF HandlerSend, SenderIInv, SenderTypeOK, queueVars,
                NotPoppedYet, FrontIsFirst, FrontWasSent, PoppedWasSent
  <2>3. CASE HandlerWait \/ HandlerSpuriousWakeup
    <3>1. handler' \in {"wait", "done", "blocked", "fault"} /\ UNCHANGED <<front, sent>>
      BY <2>3 DEF HandlerWait, HandlerSpuriousWakeup
    <3> QED BY <1>1, <3>1 DEF SenderIInv, SenderTypeOK, queueVars, NotPoppedYet, FrontIsFirst, FrontWasSent, PoppedWasSent
  <2> QED BY <2>1, <2>2, <2>3
<1>6. SenderTypeOK'
  BY <1>1, <1>2, <1>5 DEF SenderIInv, SenderTypeOK, senderVars
<1> QED BY <1>2, <1>3, <1>5, <1>6 DEF SenderIInv

\* When SendDataHandler comes to its Pop, the queue reports a positive size.
LEMMA PopIsPopFront ==
    ASSUME SenderIInv, HandlerPop
    PROVE  PopFront
<1>1. writeList # <<>> /\ Holes(writeList) = {}
  BY DEF HandlerPop, SenderIInv, NotPoppedYet, FrontIsFirst
<1>2. activepos = Len(writeList) /\ Len(writeList) > 0
  BY <1>1, EmptySeq DEF SenderIInv, IInv, TypeOK, ActivePosExact
<1> QED BY <1>2 DEF HandlerPop, PopFront

\* SendDataHandler's Pop keeps the invariant: what it releases was sent.
LEMMA HandlerPopKeeps ==
    ASSUME SenderIInv, HandlerPop
    PROVE  SenderIInv'
<1>1. IInv'
  BY PopIsPopFront, PopStep DEF SenderIInv
<1>2. /\ handler' = "wait" /\ UNCHANGED <<connected, notifier, front, senderVars, stopper, sent, failed>>
      /\ pushed' = pushed /\ popped' = popped \cup {writeList[1].item}
  BY DEF HandlerPop, Pop
<1>3. SenderTypeOK'
  BY <1>1, <1>2 DEF SenderIInv, SenderTypeOK, senderVars, IInv
<1>4. writeList[1].item \in sent
  BY DEF HandlerPop, SenderIInv, FrontIsFirst, FrontWasSent
<1>5. (NotPoppedYet /\ FrontIsFirst /\ FrontWasSent /\ PoppedWasSent)'
  BY <1>2, <1>4 DEF SenderIInv, NotPoppedYet, FrontIsFirst, FrontWasSent, PoppedWasSent
<1>6. (Unpushed /\ OneCallEach)'
  BY <1>2 DEF SenderIInv, senderVars, Unpushed, OneCallEach
<1> QED BY <1>1, <1>3, <1>5, <1>6 DEF SenderIInv

\* Stop keeps the invariant.
LEMMA StopKeeps ==
    ASSUME SenderIInv, StopClose \/ StopStep
    PROVE  SenderIInv'
<1>1. UNCHANGED <<queueVars, front, senderVars, sent, failed>>
  BY DEF StopClose, StopStep, StopNotify, StopDelete
<1>2. IInv' /\ TypeOK'
  BY <1>1, QueueAlone DEF SenderIInv
<1>3. /\ (NotPoppedYet /\ FrontIsFirst /\ FrontWasSent /\ PoppedWasSent)'
      /\ handler' \in {"none", "queued", "send", "pop", "wait", "blocked", "done", "fault"}
  <2>1. CASE UNCHANGED handler
    BY <1>1, <2>1, HandlerAlone DEF SenderIInv, SenderTypeOK
  <2>2. CASE WakeHandler
    BY <1>1, <2>2, WakeAlone
  <2> QED BY <2>1, <2>2 DEF StopClose, StopStep, StopNotify, StopDelete
<1>4. SenderTypeOK'
  BY <1>1, <1>2, <1>3 DEF SenderIInv, SenderTypeOK, senderVars, StopClose, StopStep, StopNotify, StopDelete
<1>5. (Unpushed /\ OneCallEach)'
  BY <1>1 DEF SenderIInv, queueVars, senderVars, Unpushed, OneCallEach
<1> QED BY <1>2, <1>3, <1>4, <1>5 DEF SenderIInv

\* The sender's invariant is preserved by every step of StartUp, Send, SendDataHandler and Stop.
LEMMA SenderInvStep == SenderIInv /\ [SenderNext]_vars => SenderIInv'
<1> SUFFICES ASSUME SenderIInv, [SenderNext]_vars PROVE SenderIInv'
  OBVIOUS
<1>1. CASE \E c \in Senders : SendStep(c)
  BY <1>1, SendPushKeeps, SendRestKeeps DEF SendStep
<1>2. CASE HandlerStep \/ HandlerSpuriousWakeup
  BY <1>2, HandlerKeeps, HandlerPopKeeps DEF HandlerStep
<1> QED BY <1>1, <1>2, SenderStutter, StartUpKeeps, CheckKeeps, StopKeeps DEF SenderNext

\* The sender's invariant holds in every state.
LEMMA SenderInvCorrect == SenderSpec => []SenderIInv
  BY SenderInvInit, SenderInvStep, PTL DEF SenderSpec

\* Every variable of the server's sending side keeps its type, and at most one thread holds _sendLock.
THEOREM SenderTypeCorrect == SenderSpec => []SenderTypeOK
<1>1. SenderIInv => SenderTypeOK
  BY DEF SenderIInv
<1> QED BY <1>1, SenderInvCorrect, PTL

\* Without a lock on the queue, SendDataHandler still releases only a datagram that it sent (Front, SendTo, Pop).
THEOREM PoppedWasSentCorrect == SenderSpec => []PoppedWasSent
<1>1. SenderIInv => PoppedWasSent
  BY DEF SenderIInv
<1> QED BY <1>1, SenderInvCorrect, PTL

\* Every step of the server is a step of the queue, with a datagram that is new, or leaves the queue alone.
LEMMA QueueStep == SenderIInv /\ [SenderNext]_vars => [Next]_queueVars
<1> SUFFICES ASSUME SenderIInv, [SenderNext]_vars PROVE [Next]_queueVars
  OBVIOUS
<1>1. ASSUME NEW c \in Senders, SendStep(c) PROVE [Next]_queueVars
  <2>1. CASE SendPush(c)
    <3>1. datagram[c] \in Items \ pushed /\ Push(datagram[c])
      BY <2>1 DEF SendPush, SenderIInv, Unpushed
    <3> QED BY <3>1 DEF Next
  <2>2. CASE SendPushRefused(c)
    BY <2>2 DEF SendPushRefused, Next
  <2>3. CASE SendNotify(c)
    BY <2>3 DEF SendNotify
  <2> QED BY <1>1, <2>1, <2>2, <2>3 DEF SendStep
<1>2. CASE HandlerStep
  <2>1. CASE HandlerPop
    BY <2>1, PopIsPopFront DEF Next
  <2> QED BY <1>2, <2>1 DEF HandlerStep, HandlerStart, HandlerSend, HandlerWait
<1>3. CASE \E c \in Senders, m \in Unsent : SendCheck(c, m) \/ SendNotConnected(c, m)
  BY <1>3 DEF SendCheck, SendNotConnected
<1>4. CASE StartUpStep \/ HandlerSpuriousWakeup \/ StopClose \/ StopStep
  BY <1>4 DEF StartUpStep, CreateNotifier, AddHandlerTask, Listen, HandlerSpuriousWakeup, StopClose, StopStep,
              StopNotify, StopDelete
<1>5. CASE UNCHANGED vars
  BY <1>5 DEF vars, queueVars
<1> QED BY <1>1, <1>2, <1>3, <1>4, <1>5 DEF SenderNext

\* The threads of the server use the queue as its specification asks: SendDataHandler pops only when the queue
\* reports an active slot, and no accepted datagram is pushed again.
THEOREM SenderUsesQueue == SenderSpec => UsesQueue
<1>1. SenderInit => Init
  BY DEF SenderInit
<1> QED BY <1>1, QueueStep, SenderInvCorrect, PTL DEF SenderSpec, UsesQueue, Spec
=============================================================================
