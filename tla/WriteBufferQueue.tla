-------------------------- MODULE WriteBufferQueue --------------------------
(***************************************************************************)
(* WriteBufferQueue (src/cppLib/code/Network/Socket/WriteBufferQueue.cpp): *)
(* the datagrams the socket server has accepted and not yet handed to the  *)
(* socket.  It is a vector of at most MAX_WRITE_BUFFER_SIZE slots that are *)
(* never freed: Push reuses an inactive slot before it adds one, Pop makes *)
(* the first slot inactive, and Flush sorts the slots and counts the       *)
(* leading active ones into _activepos, which GetActiveSize returns.       *)
(*                                                                         *)
(* The comparator of Flush puts INACTIVE slots first, so after a Pop that  *)
(* leaves datagrams behind the count is 0: the reader that trusts          *)
(* GetActiveSize() does not see them until the next Push fills the hole.   *)
(***************************************************************************)
EXTENDS Naturals, Sequences, FiniteSets, Functions

CONSTANTS
    Items,     \* datagrams; each is pushed at most once
    MaxSize    \* MAX_WRITE_BUFFER_SIZE

ASSUME QueueAssumption == MaxSize \in Nat \ {0}

VARIABLES
    writeList,  \* _writeList: the slots, in order
    activepos,  \* _activepos
    pushed,     \* history: the datagrams Push returned true for
    popped      \* history: the datagrams Pop released

queueVars == <<writeList, activepos, pushed, popped>>

Slot == [item : Items, active : BOOLEAN]

ActiveSlots(s) == {i \in DOMAIN s : s[i].active}
Holes(s) == DOMAIN s \ ActiveSlots(s)
ActiveItems(s) == {s[i].item : i \in ActiveSlots(s)}

-----------------------------------------------------------------------------
(***************************************************************************)
(* Flush.  std::sort is not stable: it may return any arrangement of the   *)
(* slots in which no inactive slot follows an active one.                  *)
(***************************************************************************)
InactiveFirst(s) == \A i, j \in DOMAIN s : i < j /\ ~s[j].active => ~s[i].active

Arranged(s, p) == [i \in 1..Len(s) |-> s[p[i]]]

Arrangements(s) == {p \in Bijection(1..Len(s), 1..Len(s)) : InactiveFirst(Arranged(s, p))}

LeadingActive(s) ==
    CHOOSE n \in 0..Len(s) :
        /\ \A i \in 1..n : s[i].active
        /\ n < Len(s) => ~s[n + 1].active

CountActive(s) == LeadingActive(s)

Flush(s) ==
    \E p \in Arrangements(s) :
        /\ writeList' = Arranged(s, p)
        /\ activepos' = CountActive(Arranged(s, p))

-----------------------------------------------------------------------------
Init ==
    /\ writeList = <<>>
    /\ activepos = 0
    /\ pushed = {}
    /\ popped = {}

FirstHole(s) == CHOOSE i \in Holes(s) : \A j \in Holes(s) : i <= j

\* Mutant: the last slot is overwritten instead of an inactive one.
PushOverLast(item) ==
    /\ writeList # <<>>
    /\ Flush([writeList EXCEPT ![Len(writeList)] = [item |-> item, active |-> TRUE]])
    /\ pushed' = pushed \cup {item}
    /\ UNCHANGED popped

\* Push finds an inactive slot: overwrite it and flush
PushReuse(item) ==
    /\ Holes(writeList) # {}
    /\ Flush([writeList EXCEPT ![FirstHole(writeList)] = [item |-> item, active |-> TRUE]])
    /\ pushed' = pushed \cup {item}
    /\ UNCHANGED popped

\* Mutant: one slot more than the bound.
AppendOnePastBound(item) ==
    /\ Holes(writeList) = {}
    /\ Len(writeList) <= MaxSize
    /\ writeList' = Append(writeList, [item |-> item, active |-> TRUE])
    /\ activepos' = Len(writeList) + 1
    /\ pushed' = pushed \cup {item}
    /\ UNCHANGED popped

\* every slot is active and there is room: add a slot, no flush
PushAppend(item) ==
    /\ Holes(writeList) = {}
    /\ Len(writeList) < MaxSize
    /\ writeList' = Append(writeList, [item |-> item, active |-> TRUE])
    /\ activepos' = Len(writeList) + 1
    /\ pushed' = pushed \cup {item}
    /\ UNCHANGED popped

Full == Holes(writeList) = {} /\ Len(writeList) >= MaxSize

\* every slot is active and there is no room: Push returns false
PushRefused == Full /\ UNCHANGED queueVars

Push(item) == PushReuse(item) \/ PushAppend(item)

\* Mutant: the slots are not flushed.
PopUnflushed ==
    /\ Len(writeList) > 0
    /\ writeList' = [writeList EXCEPT ![1].active = FALSE]
    /\ popped' = popped \cup {writeList[1].item}
    /\ UNCHANGED <<activepos, pushed>>

Pop ==
    /\ Len(writeList) > 0
    /\ Flush([writeList EXCEPT ![1].active = FALSE])
    /\ popped' = popped \cup {writeList[1].item}
    /\ UNCHANGED pushed

\* A reader takes Front and pops it only while GetActiveSize() is positive (SocketServer.cpp:187-207).
PopFront == activepos > 0 /\ Pop

Next ==
    \/ \E item \in Items \ pushed : Push(item)
    \/ PushRefused
    \/ PopFront

Spec == Init /\ [][Next]_queueVars

-----------------------------------------------------------------------------
\* Every variable keeps its type, and the slots never outnumber MAX_WRITE_BUFFER_SIZE (WriteBufferQueue.cpp:40).
TypeOK ==
    /\ writeList \in Seq(Slot)
    /\ Len(writeList) <= MaxSize
    /\ activepos \in 0..MaxSize
    /\ pushed \subseteq Items
    /\ popped \subseteq pushed

\* No accepted datagram is lost, overwritten while it waits or kept after it was popped: the active slots
\* hold exactly the accepted and not yet popped datagrams, one slot each (Push and Pop).
Kept ==
    /\ ActiveItems(writeList) = pushed \ popped
    /\ \A i, j \in ActiveSlots(writeList) : writeList[i].item = writeList[j].item => i = j

\* What GetActiveSize reports: all the slots when every slot is active, and 0 as soon as one is not, because
\* Flush sorts the inactive slot to the front (WriteBufferQueue.cpp:75-89).  So Front is active whenever the
\* reported size is positive.
ActivePosExact == activepos = IF Holes(writeList) = {} THEN Len(writeList) ELSE 0
=============================================================================
