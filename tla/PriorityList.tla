----------------------------- MODULE PriorityList ---------------------------
(***************************************************************************)
(* priorityList (src/cppLib/code/Utinities/PriorityList.h) as the list of   *)
(* systems of an ecs::SystemContainer, its only user: a singly linked list  *)
(* in which what has the higher priority comes first.                      *)
(*                                                                         *)
(* A node is known by the system it holds.  One that is no longer reached   *)
(* from the head is a leak: AddSystem then makes a new one for the same     *)
(* catalog, which is the same node here.  Where the links form a cycle the  *)
(* walks below do not end and the list is left as it is.                    *)
(***************************************************************************)
EXTENDS Integers, FiniteSets

CONSTANTS
    Systems,    \* the catalogs of systems that can be added
    Priorities  \* the priorities callers give

VARIABLES
    head,      \* the first node
    next,      \* each node's next
    priority,  \* each node's priority
    wpos       \* _wpos, which size() returns

vars == <<head, next, priority, wpos>>

Null == "nullptr"
Links == Systems \cup {Null}

\* the n-th place of an iterator that begins at first and follows the links
Walk(first, link) ==
    LET at[n \in Nat] == IF n = 0 THEN first
                         ELSE IF at[n - 1] = Null THEN Null ELSE link[at[n - 1]]
    IN  at

Steps == 0..Cardinality(Systems)
Ends == Walk(head, next)[Cardinality(Systems)] = Null
Listed == {Walk(head, next)[n] : n \in Steps} \ {Null}

Init ==
    /\ head = Null
    /\ next = [s \in Systems |-> Null]
    /\ priority \in [Systems -> Priorities]
    /\ wpos = 0

-----------------------------------------------------------------------------

\* Node::insertAfter of node e after node n
InsertAfter(n, e, link) == [link EXCEPT ![e] = link[n], ![n] = e]

\* priorityList::add of node e with priority p to the list that begins at first:
\* behind the last of the nodes in front whose priority is not lower, else before the
\* head, where the old head is inserted after e
Insert(e, p, first, link) ==
    LET at == Walk(first, link)
        passed(n) == at[n] \in {t \in Systems : priority[t] >= p}
    IN  \E n \in Steps :
          /\ ~passed(n)
          /\ \A m \in 0..(n - 1) : passed(m)
          /\ \/ /\ n > 0
                /\ head' = first
                /\ next' = InsertAfter(at[n - 1], e, link)
             \/ /\ n = 0
                /\ head' = e
                /\ next' = IF first = Null THEN link ELSE InsertAfter(e, first, link)

\* SystemContainer::AddSystem
AddSystem(s, p) ==
    /\ Ends
    /\ s \notin Listed
    /\ Insert(s, p, head, [next EXCEPT ![s] = Null])
    /\ priority' = [priority EXCEPT ![s] = p]
    /\ wpos' = wpos + 1

\* priorityList::ResetPriority: the node is taken out, its next still set, and added
ResetPriority(s, p) ==
    LET prev == {t \in Listed : next[t] = s}
    IN  /\ priority[s] # p
        /\ Insert(s, p, IF s = head THEN next[s] ELSE head,
                  [t \in Systems |-> IF t \in prev THEN next[s] ELSE next[t]])
        /\ priority' = [priority EXCEPT ![s] = p]
        /\ UNCHANGED wpos

\* SystemContainer::SetPriority
SetPriority(s, p) ==
    /\ Ends
    /\ s \in Listed
    /\ ResetPriority(s, p)

Next == \E s \in Systems, p \in Priorities : AddSystem(s, p) \/ SetPriority(s, p)

Spec == Init /\ [][Next]_vars

-----------------------------------------------------------------------------
(* Property. *)

\* Iterating from begin() to end() visits as many systems as size() says, each once:
\* PriorityList.h:86-90, "Call begin() to get the first iterator, pre-increment (++i)
\* the iterator to get to the next value", and SystemContainer.cpp:73, which reports
\* size() as the number of systems.  OnUpdate updates the systems by this iteration.
SizeIsLength ==
    LET at == Walk(head, next)
    IN  /\ at[wpos] = Null
        /\ Cardinality({at[n] : n \in 0..(wpos - 1)} \ {Null}) = wpos

=============================================================================
