-------------------------------- MODULE Ecs ---------------------------------
(***************************************************************************)
(* One system of the entity-component system: System<T> over StableArray   *)
(* (src/cppLib/code/ECS/ISystem.h, StableArray.h), called through           *)
(* SystemContainer by the owners of components (WorldSession, EntityDemo).   *)
(*                                                                         *)
(* An owner holds a raw pointer into the array.  A change event gives it    *)
(* the pointer anew whenever the system may have moved its component.      *)
(*                                                                         *)
(* All calls come from one thread.  The blocks of memory the array has had  *)
(* are numbered: a pointer is a block and a place in it.  What a component   *)
(* contains is left out but for its dirty bit.  An owner registers its event *)
(* before its component, and a component once, as both owners do.           *)
(***************************************************************************)
EXTENDS Integers, Sequences

CONSTANTS
    Ids,          \* the components' ids
    MinElements,  \* MIN_ELEMENTS, 32 in the code
    Catalog       \* SystemCatalog of the system

ASSUME EcsAssumption ==
    /\ MinElements \in Nat \ {0}
    /\ Catalog \in {"MOVEMENT", "STATUS", "INTERVAL_TIMER"}

VARIABLES
    data,         \* the elements of m_aData
    invalid,      \* its _invalid
    allocated,    \* its numAllocated
    block,        \* the blocks of memory it has had
    events,       \* the keys of m_mEventMap
    pointer,      \* what the owner of a component holds
    unregistered  \* history: the ids UnRegisterComponent was last called for

array == <<data, invalid, allocated, block>>
owners == <<events, pointer>>
vars == <<array, owners, unregistered>>

Null == [block |-> 0, place |-> 0]

Element == [id : Ids, valid : BOOLEAN, dirty : BOOLEAN]
Places == {i \in DOMAIN data : data[i].valid}
PlacesOf(d, id) == {i \in DOMAIN d : d[i].valid /\ d[i].id = id}
Pointers == [block : 1..block, place : DOMAIN data]

Init ==
    /\ data = <<>>
    /\ invalid = <<>>
    /\ allocated = 0
    /\ block = 0
    /\ events = {}
    /\ pointer = [id \in Ids |-> Null]
    /\ unregistered = {}

-----------------------------------------------------------------------------

\* IComponent's constructor sets the dirty bit
NewElement(id) == [id |-> id, valid |-> TRUE, dirty |-> TRUE]

\* Mutant: an array that moved tells only the component that was added.
ToldNew(p, d, b) ==
    [id \in Ids |-> IF id \notin events \/ p[id] # Null \/ PlacesOf(d, id) = {} THEN p[id]
                    ELSE [block |-> b, place |-> CHOOSE i \in PlacesOf(d, id) : TRUE]]

\* The events of all the elements d that are valid, in block b: after a move, and
\* with STABLE_TEST, which ISystem.h defines, after every change
Told(p, d, b) ==
    [id \in Ids |-> IF id \notin events \/ PlacesOf(d, id) = {} THEN p[id]
                    ELSE [block |-> b, place |-> CHOOSE i \in PlacesOf(d, id) : TRUE]]

\* Mutant: the growth factor is applied to what is missing.
GrownByMissing(n) ==
    IF allocated = 0 THEN n ELSE IF n < MinElements THEN MinElements ELSE 3 * (n - allocated)

\* StableArray::resize to n elements, more than fit; below 64 kB it triples
Grown(n) ==
    IF allocated = 0 THEN n
    ELSE IF n < MinElements THEN MinElements
    ELSE (n - allocated) + 3 * allocated

\* Mutant: holes are not looked for; growing still clears their list.
AddEarly(id) ==
    /\ data' = Append(data, NewElement(id))
    /\ allocated' = IF Len(data) < allocated THEN allocated ELSE Grown(Len(data) + 1)
    /\ block' = IF Len(data) < allocated THEN block ELSE block + 1
    /\ invalid' = IF Len(data) < allocated THEN invalid ELSE <<>>

\* resize, then realloc: _invalid is empty, for Add looks for holes first
Realloc ==
    /\ allocated' = Grown(Len(data) + 1)
    /\ block' = block + 1

\* StableArray::Add: the last hole, else the next free place, else a larger block
Add(id) ==
    \/ /\ invalid # <<>>
       /\ data' = [data EXCEPT ![invalid[Len(invalid)]] = NewElement(id)]
       /\ invalid' = SubSeq(invalid, 1, Len(invalid) - 1)
       /\ UNCHANGED <<allocated, block>>
    \/ /\ invalid = <<>>
       /\ data' = Append(data, NewElement(id))
       /\ UNCHANGED invalid
       /\ \/ /\ Len(data) < allocated
             /\ UNCHANGED <<allocated, block>>
          \/ /\ Len(data) = allocated
             /\ Realloc

\* System::RegisterComponent
RegisterComponent(id) ==
    /\ PlacesOf(data, id) = {}
    /\ Add(id)
    /\ pointer' = Told(pointer, data', block')
    /\ unregistered' = unregistered \ {id}
    /\ UNCHANGED events

\* StableArray::remove
MakeHole(i) ==
    /\ data' = [data EXCEPT ![i].valid = FALSE]
    /\ invalid' = Append(invalid, i)
    /\ UNCHANGED <<allocated, block>>

\* System::UnRegisterComponent: the owner is told, the place becomes a hole
Remove(id) ==
    \E i \in PlacesOf(data, id) :
        /\ MakeHole(i)
        /\ pointer' = Told([pointer EXCEPT ![id] = Null], data', block)

\* SystemContainer::UnRegisterComponent has a case for these catalogs only
CatalogsRemovedFrom == {"MOVEMENT", "STATUS"}

UnRegisterComponent(id) ==
    /\ \/ /\ Catalog \in CatalogsRemovedFrom
          /\ Remove(id)
       \/ /\ Catalog \notin CatalogsRemovedFrom \/ PlacesOf(data, id) = {}
          /\ UNCHANGED <<array, pointer>>
    /\ unregistered' = unregistered \cup {id}
    /\ UNCHANGED events

RegisterComponentChangeEvent(id) ==
    /\ id \notin events
    /\ PlacesOf(data, id) = {}
    /\ events' = events \cup {id}
    /\ UNCHANGED <<array, pointer, unregistered>>

\* the owner, which is being destroyed, gives its pointer up with the event
UnRegisterComponentChangeEvent(id) ==
    /\ id \in events
    /\ events' = events \ {id}
    /\ pointer' = [pointer EXCEPT ![id] = Null]
    /\ UNCHANGED <<array, unregistered>>

\* IEntity::SetComponentDirty and IntervalTimer::Reset, through the pointer
SetComponentDirty(id) ==
    /\ pointer[id] # Null
    /\ data' = [data EXCEPT ![pointer[id].place].dirty = TRUE]
    /\ UNCHANGED <<invalid, allocated, block, owners, unregistered>>

\* OnUpdate of the systems: every dirty element is flushed, holes included; of the
\* timers those that have passed
OnUpdate ==
    LET dirty == {i \in DOMAIN data : data[i].dirty}
    IN  \E flushed \in SUBSET dirty :
          /\ flushed = dirty \/ Catalog = "INTERVAL_TIMER"
          /\ flushed # {}
          /\ data' = [i \in DOMAIN data |->
                        IF i \in flushed THEN [data[i] EXCEPT !.dirty = FALSE] ELSE data[i]]
          /\ UNCHANGED <<invalid, allocated, block, owners, unregistered>>

Next ==
    \/ \E id \in Ids :
          \/ RegisterComponentChangeEvent(id)
          \/ UnRegisterComponentChangeEvent(id)
          \/ RegisterComponent(id)
          \/ UnRegisterComponent(id)
          \/ SetComponentDirty(id)
    \/ OnUpdate

Spec == Init /\ [][Next]_vars

-----------------------------------------------------------------------------
(* Properties. *)

\* Every variable keeps its type, and no more elements are in use than memory was
\* allocated for (StableArray::resize).
TypeOK ==
    /\ data \in Seq(Element)
    /\ invalid \in Seq(DOMAIN data)
    /\ allocated \in Nat /\ Len(data) <= allocated
    /\ block \in Nat
    /\ events \subseteq Ids
    /\ pointer \in [Ids -> {Null} \cup Pointers]
    /\ unregistered \subseteq Ids

\* An owner with an event holds the address at which its component is now, in the
\* present block, and null exactly when it has none -- however often other components
\* came, went and moved the array (RegisterComponent and UnRegisterComponent,
\* ISystem.h:93-168).  Owners write through this pointer at any time.
PointersCurrent ==
    \A id \in events :
        IF pointer[id] = Null THEN PlacesOf(data, id) = {}
        ELSE pointer[id].block = block /\ PlacesOf(data, id) = {pointer[id].place}

\* The list of holes names each removed element once and no other: a place listed
\* twice would be given to two components, one not listed is lost
\* (StableArray.h:506-562).
HolesExact ==
    /\ {invalid[i] : i \in DOMAIN invalid} = DOMAIN data \ Places
    /\ \A i, j \in DOMAIN invalid : invalid[i] = invalid[j] => i = j

\* A component for which UnRegisterComponent was called is no longer in the array:
\* ISystem.h:177, "if remove an element,just give this removed element a tag of not
\* valid".
UnregisteredLeave == \A id \in unregistered : PlacesOf(data, id) = {}

=============================================================================
