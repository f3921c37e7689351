------------------------------ MODULE EcsProofs -----------------------------
(***************************************************************************)
(* Proofs about Ecs for every set of components and every MIN_ELEMENTS:     *)
(* the type invariant, that the list of holes is exact, and that owners     *)
(* hold the present address of their component.                            *)
(***************************************************************************)
EXTENDS Ecs, SequenceTheorems, TLAPS

\* A component is in the array at most once.
OnePlace == \A id \in Ids : \A i, j \in PlacesOf(data, id) : i = j

\* An owner without an event holds no pointer.
NoEventNoPointer == \A id \in Ids \ events : pointer[id] = Null

\* What is allocated is in a block.
BlockUsed == allocated > 0 => block > 0

ArrayInv == HolesExact /\ OnePlace /\ BlockUsed

IInv == TypeOK /\ ArrayInv /\ PointersCurrent /\ NoEventNoPointer

-----------------------------------------------------------------------------
\* The initial state satisfies the inductive invariant.
LEMMA InitInductive == Init => IInv
<1> SUFFICES ASSUME Init PROVE IInv
  OBVIOUS
<1> USE DEF Init
<1>1. TypeOK
  BY DEF TypeOK
<1>2. ArrayInv
  BY DEF ArrayInv, HolesExact, OnePlace, BlockUsed, Places, PlacesOf
<1>3. PointersCurrent /\ NoEventNoPointer
  BY DEF PointersCurrent, NoEventNoPointer
<1> QED BY <1>1, <1>2, <1>3 DEF IInv

\* What the new array must be like for the owners to be told well: it is typed, its
\* places did not vanish, and each component is in it at most once.
Tellable(d, b) ==
    /\ d \in Seq(Element)
    /\ DOMAIN data \subseteq DOMAIN d
    /\ b \in Nat /\ b >= block
    /\ \A id \in Ids : \A i, j \in PlacesOf(d, id) : i = j
    /\ Len(d) > 0 => b > 0

\* Told gives each owner with an event the present address of its component, and
\* leaves the others what they had.
LEMMA ToldCorrect ==
    ASSUME NEW d, NEW b, Tellable(d, b), TypeOK,
           NEW p \in [Ids -> {Null} \cup Pointers]
    PROVE  /\ Told(p, d, b) \in [Ids -> {Null} \cup [block : 1..b, place : DOMAIN d]]
           /\ \A id \in events : PlacesOf(d, id) # {} =>
                  /\ Told(p, d, b)[id] # Null
                  /\ Told(p, d, b)[id].block = b
                  /\ PlacesOf(d, id) = {Told(p, d, b)[id].place}
           /\ \A id \in Ids : id \notin events \/ PlacesOf(d, id) = {} => Told(p, d, b)[id] = p[id]
<1> DEFINE t == Told(p, d, b)
<1>1. \A id \in Ids : p[id] \in {Null} \cup [block : 1..b, place : DOMAIN d]
  <2>1. 1..block \subseteq 1..b /\ DOMAIN data \subseteq DOMAIN d
    BY DEF TypeOK, Tellable
  <2>2. Pointers \subseteq [block : 1..b, place : DOMAIN d]
    BY ONLY <2>1 DEF Pointers
  <2> QED BY <2>2
<1>2. ASSUME NEW id \in Ids, id \in events, PlacesOf(d, id) # {}
      PROVE  /\ t[id] \in [block : 1..b, place : DOMAIN d]
             /\ t[id] # Null /\ t[id].block = b /\ PlacesOf(d, id) = {t[id].place}
  <2>1. PICK i \in PlacesOf(d, id) : i = CHOOSE j \in PlacesOf(d, id) : TRUE
    BY <1>2
  <2>2. t[id] = [block |-> b, place |-> i]
    BY <1>2, <2>1 DEF Told
  <2>3. i \in DOMAIN d /\ Len(d) > 0
    BY DEF PlacesOf, Tellable
  <2>4. b \in 1..b /\ b # 0
    BY <2>3 DEF Tellable
  <2>5. PlacesOf(d, id) = {i}
    BY DEF Tellable
  <2> QED BY <2>2, <2>3, <2>4, <2>5 DEF Null
<1>3. \A id \in Ids : id \notin events \/ PlacesOf(d, id) = {} => t[id] = p[id]
  BY DEF Told
<1>4. t = [id \in Ids |-> t[id]]
  BY DEF Told
<1>5. \A id \in Ids : t[id] \in {Null} \cup [block : 1..b, place : DOMAIN d]
  BY <1>1, <1>2, <1>3
<1>6. events \subseteq Ids
  BY DEF TypeOK
<1> QED BY <1>2, <1>3, <1>4, <1>5, <1>6

\* A sequence without its last element.
LEMMA WithoutLast ==
    ASSUME NEW S, NEW q \in Seq(S), q # <<>>
    PROVE  LET r == SubSeq(q, 1, Len(q) - 1)
           IN  /\ r \in Seq(S)
               /\ Len(r) = Len(q) - 1
               /\ \A j \in DOMAIN r : j \in DOMAIN q /\ j # Len(q) /\ r[j] = q[j]
<1> DEFINE r == SubSeq(q, 1, Len(q) - 1)
<1>1. Len(q) \in Nat \ {0} /\ DOMAIN q = 1..Len(q) /\ \A j \in 1..Len(q) : q[j] \in S
  OBVIOUS
<1>2. /\ r \in Seq(S)
      /\ Len(r) = IF 1 <= Len(q) - 1 THEN Len(q) - 1 - 1 + 1 ELSE 0
      /\ \A i \in 1..(Len(q) - 1 - 1 + 1) : r[i] = q[1 + i - 1]
  BY <1>1, SubSeqProperties
<1>3. Len(r) = Len(q) - 1
  BY <1>1, <1>2
<1>4. DOMAIN r = 1..(Len(q) - 1)
  BY <1>2, <1>3
<1>5. ASSUME NEW i \in 1..(Len(q) - 1) PROVE r[i] = q[i] /\ i \in DOMAIN q /\ i # Len(q)
  <2>1. i \in 1..(Len(q) - 1 - 1 + 1) /\ 1 + i - 1 = i /\ i \in 1..Len(q) /\ i # Len(q)
    <3>1. Len(q) \in Nat
      OBVIOUS
    <3>2. i \in Int /\ 1 <= i /\ i <= Len(q) - 1
      BY <3>1
    <3> QED BY ONLY <3>1, <3>2
  <2>2. r[i] = q[1 + i - 1]
    BY <1>2, <2>1
  <2> QED BY <1>1, <2>1, <2>2
<1> QED BY <1>2, <1>3, <1>4, <1>5

\* A sequence with one element replaced.
LEMMA Replaced ==
    ASSUME NEW S, NEW q \in Seq(S), NEW i \in DOMAIN q, NEW e \in S
    PROVE  LET r == [q EXCEPT ![i] = e]
           IN  /\ r \in Seq(S) /\ DOMAIN r = DOMAIN q /\ Len(r) = Len(q)
               /\ r[i] = e /\ \A j \in DOMAIN q : j # i => r[j] = q[j]
  OBVIOUS

\* The new element of a component that had none changes nobody else's place.
LEMMA NewPlaces ==
    ASSUME TypeOK, NEW id \in Ids, NEW i, PlacesOf(data, id) = {},
           NEW d \in Seq(Element), i \in DOMAIN d,
           i \in DOMAIN data => ~data[i].valid,
           DOMAIN d = DOMAIN data \cup {i},
           d[i] = NewElement(id),
           \A j \in DOMAIN data : j # i => d[j] = data[j]
    PROVE  /\ PlacesOf(d, id) = {i}
           /\ \A o \in Ids : o # id => PlacesOf(d, o) = PlacesOf(data, o)
           /\ {j \in DOMAIN d : d[j].valid} = Places \cup {i}
<1>1. d[i].valid /\ d[i].id = id
  BY DEF NewElement
<1>2. \A j \in DOMAIN d : j # i => d[j] = data[j] /\ j \in DOMAIN data
  OBVIOUS
<1>3. \A j \in DOMAIN d : j # i => ~(d[j].valid /\ d[j].id = id)
  BY <1>2 DEF PlacesOf
<1>4. PlacesOf(d, id) = {i}
  BY <1>1, <1>3 DEF PlacesOf
<1>5. ASSUME NEW o \in Ids, o # id PROVE PlacesOf(d, o) = PlacesOf(data, o)
  BY <1>1, <1>2, <1>5 DEF PlacesOf
<1>6. {j \in DOMAIN d : d[j].valid} = Places \cup {i}
  BY <1>1, <1>2 DEF Places
<1> QED BY <1>4, <1>5, <1>6

\* StableArray::Add of a component that is not there.
LEMMA AddCorrect ==
    ASSUME TypeOK, ArrayInv, NEW id \in Ids, PlacesOf(data, id) = {}, Add(id)
    PROVE  /\ Tellable(data', block')
           /\ invalid' \in Seq(DOMAIN data')
           /\ allocated' \in Nat /\ Len(data') <= allocated'
           /\ ArrayInv'
           /\ PlacesOf(data', id) # {}
           /\ \A o \in Ids : o # id => PlacesOf(data', o) = PlacesOf(data, o)
<1> USE EcsAssumption DEF EcsAssumption
<1>a. NewElement(id) \in Element
  BY DEF NewElement, Element
<1>1. CASE invalid # <<>>
  <2> DEFINE i == invalid[Len(invalid)]
  <2>1. /\ data' = [data EXCEPT ![i] = NewElement(id)]
        /\ invalid' = SubSeq(invalid, 1, Len(invalid) - 1)
        /\ UNCHANGED <<allocated, block>>
    BY <1>1 DEF Add
  <2>2. Len(invalid) \in DOMAIN invalid /\ i \in DOMAIN data /\ ~data[i].valid
    BY <1>1 DEF TypeOK, ArrayInv, HolesExact, Places
  <2>3. /\ data' \in Seq(Element) /\ DOMAIN data' = DOMAIN data /\ Len(data') = Len(data)
        /\ data'[i] = NewElement(id) /\ \A j \in DOMAIN data : j # i => data'[j] = data[j]
    BY <1>a, <2>1, <2>2 DEF TypeOK
  <2>4. /\ PlacesOf(data', id) = {i}
        /\ \A o \in Ids : o # id => PlacesOf(data', o) = PlacesOf(data, o)
        /\ Places' = Places \cup {i}
    <3>1. DOMAIN data' = DOMAIN data \cup {i}
      BY <2>2, <2>3
    <3> QED BY <2>2, <2>3, <3>1, NewPlaces DEF Places
  <2>5. /\ invalid' \in Seq(DOMAIN data)
        /\ Len(invalid') = Len(invalid) - 1
        /\ \A j \in DOMAIN invalid' : j \in DOMAIN invalid /\ j # Len(invalid) /\ invalid'[j] = invalid[j]
    <3>1. invalid \in Seq(DOMAIN data)
      BY DEF TypeOK
    <3> QED BY <1>1, <2>1, <3>1, WithoutLast
  <2>6. HolesExact'
    <3>1. \A j, k \in DOMAIN invalid' : invalid'[j] = invalid'[k] => j = k
      BY <2>5 DEF ArrayInv, HolesExact
    <3>2. \A j \in DOMAIN invalid' : invalid'[j] \in (DOMAIN data \ Places) \ {i}
      BY <2>2, <2>5 DEF ArrayInv, HolesExact
    <3>3. ASSUME NEW h \in (DOMAIN data \ Places) \ {i}
          PROVE  \E j \in DOMAIN invalid' : invalid'[j] = h
      <4>1. PICK j \in DOMAIN invalid : invalid[j] = h
        BY DEF ArrayInv, HolesExact
      <4>2. j # Len(invalid) /\ j \in DOMAIN invalid'
        BY <2>5, <4>1 DEF TypeOK
      <4> QED BY <2>5, <4>1, <4>2
    <3>4. DOMAIN data' \ Places' = (DOMAIN data \ Places) \ {i}
      BY <2>3, <2>4
    <3>5. {invalid'[j] : j \in DOMAIN invalid'} = (DOMAIN data \ Places) \ {i}
      BY <3>2, <3>3
    <3> QED BY <3>1, <3>4, <3>5 DEF HolesExact
  <2>7. OnePlace'
    BY <2>4 DEF ArrayInv, OnePlace
  <2>8. BlockUsed'
    BY <2>1 DEF ArrayInv, BlockUsed
  <2>9. Tellable(data', block')
    <3>1. Len(data') > 0 => block' > 0
      BY <2>1, <2>3 DEF TypeOK, ArrayInv, BlockUsed
    <3>2. block' \in Nat /\ block' >= block
      BY <2>1 DEF TypeOK
    <3> QED BY <2>3, <2>7, <3>1, <3>2 DEF OnePlace, Tellable
  <2> QED BY <2>1, <2>3, <2>4, <2>5, <2>6, <2>7, <2>8, <2>9 DEF ArrayInv, TypeOK
<1>2. CASE invalid = <<>>
  <2> DEFINE i == Len(data) + 1
  <2>1. data' = Append(data, NewElement(id)) /\ invalid' = invalid
    BY <1>2 DEF Add
  <2>2. /\ allocated' \in Nat /\ allocated' >= i
        /\ block' \in Nat /\ block' >= block /\ block' > 0
    <3>1. CASE Len(data) < allocated
      BY <1>2, <3>1 DEF Add, Realloc, TypeOK, ArrayInv, BlockUsed
    <3>2. CASE Len(data) = allocated
      <4>1. allocated' = Grown(i) /\ block' = block + 1
        BY <1>2, <3>2 DEF Add, Realloc
      <4>2. Grown(i) \in Nat /\ Grown(i) >= i
        BY <3>2 DEF Grown, TypeOK
      <4> QED BY <4>1, <4>2 DEF TypeOK
    <3> QED BY <3>1, <3>2 DEF TypeOK
  <2>3. /\ data' \in Seq(Element) /\ i \in DOMAIN data' /\ i \notin DOMAIN data
        /\ Len(data') = i /\ DOMAIN data' = DOMAIN data \cup {i}
        /\ data'[i] = NewElement(id) /\ \A j \in DOMAIN data : j # i => data'[j] = data[j]
    BY <1>a, <2>1 DEF TypeOK
  <2>4. /\ PlacesOf(data', id) = {i}
        /\ \A o \in Ids : o # id => PlacesOf(data', o) = PlacesOf(data, o)
        /\ Places' = Places \cup {i}
    BY <2>3, NewPlaces DEF Places
  <2>5. HolesExact'
    <3>1. DOMAIN data \ Places = {}
      <4>1. DOMAIN invalid = {}
        BY <1>2
      <4> QED BY <4>1 DEF ArrayInv, HolesExact
    <3> QED BY <1>2, <2>1, <2>3, <2>4, <3>1 DEF HolesExact
  <2>6. OnePlace'
    BY <2>4 DEF ArrayInv, OnePlace
  <2>7. BlockUsed'
    BY <2>2 DEF BlockUsed
  <2>8. Tellable(data', block')
    BY <2>2, <2>3, <2>6 DEF OnePlace, Tellable
  <2>9. invalid' \in Seq(DOMAIN data')
    BY <1>2, <2>1
  <2> QED BY <2>2, <2>3, <2>4, <2>5, <2>6, <2>7, <2>8, <2>9 DEF ArrayInv
<1> QED BY <1>1, <1>2

-----------------------------------------------------------------------------
\* RegisterComponent: the component is added and everybody is told.
LEMMA RegisterStep == ASSUME IInv, NEW id \in Ids, RegisterComponent(id) PROVE IInv'
<1> USE DEF IInv
<1>1. /\ Tellable(data', block') /\ invalid' \in Seq(DOMAIN data')
      /\ allocated' \in Nat /\ Len(data') <= allocated' /\ ArrayInv'
      /\ \A o \in Ids : PlacesOf(data', o) = {} => PlacesOf(data, o) = {}
  BY AddCorrect DEF RegisterComponent
<1>2. pointer' = Told(pointer, data', block') /\ events' = events /\ unregistered' = unregistered \ {id}
  BY DEF RegisterComponent
<1>3. pointer \in [Ids -> {Null} \cup Pointers] /\ events \subseteq Ids
  BY DEF TypeOK
<1>4. /\ pointer' \in [Ids -> {Null} \cup [block : 1..block', place : DOMAIN data']]
      /\ \A o \in events : PlacesOf(data', o) # {} =>
             /\ pointer'[o] # Null
             /\ pointer'[o].block = block'
             /\ PlacesOf(data', o) = {pointer'[o].place}
      /\ \A o \in Ids : o \notin events \/ PlacesOf(data', o) = {} => pointer'[o] = pointer[o]
  BY <1>1, <1>2, <1>3, ToldCorrect
<1>5. TypeOK'
  BY <1>1, <1>2, <1>4 DEF TypeOK, Tellable, Pointers
<1>6. PointersCurrent'
  <2>1. \A o \in events : PlacesOf(data', o) = {} => pointer'[o] = Null
    BY <1>1, <1>3, <1>4 DEF PointersCurrent
  <2>2. \A o \in events : PlacesOf(data', o) = {} \/ pointer'[o] # Null
    BY <1>4
  <2> QED BY <1>2, <1>4, <2>1, <2>2 DEF PointersCurrent
<1>7. NoEventNoPointer'
  BY <1>2, <1>4 DEF NoEventNoPointer
<1> QED BY <1>1, <1>5, <1>6, <1>7

\* Changing the dirty bits of an array leaves every component where it is.
LEMMA DirtyStep ==
    ASSUME IInv, data' \in Seq(Element), DOMAIN data' = DOMAIN data, Len(data') = Len(data),
           \A i \in DOMAIN data : data'[i].valid = data[i].valid /\ data'[i].id = data[i].id,
           UNCHANGED <<invalid, allocated, block, owners, unregistered>>
    PROVE  IInv'
<1> USE DEF IInv, owners
<1>1. Places' = Places
  BY DEF Places
<1>2. \A id \in Ids : PlacesOf(data', id) = PlacesOf(data, id)
  BY DEF PlacesOf
<1>3. TypeOK'
  BY DEF TypeOK, Pointers
<1>4. ArrayInv'
  BY <1>1, <1>2 DEF ArrayInv, HolesExact, OnePlace, BlockUsed
<1>5. PointersCurrent' /\ NoEventNoPointer'
  BY <1>2 DEF PointersCurrent, NoEventNoPointer, TypeOK
<1> QED BY <1>3, <1>4, <1>5

\* An element with another dirty bit is an element at the same place.
LEMMA OtherDirty ==
    ASSUME NEW e \in Element, NEW b \in BOOLEAN
    PROVE  LET f == [e EXCEPT !.dirty = b]
           IN  f \in Element /\ f.valid = e.valid /\ f.id = e.id
  BY DEF Element

\* An owner sets its component's dirty bit.
LEMMA SetDirtyStep == ASSUME IInv, NEW id \in Ids, SetComponentDirty(id) PROVE IInv'
<1> DEFINE i == pointer[id].place
<1>1. i \in DOMAIN data
  BY DEF SetComponentDirty, IInv, TypeOK, Pointers
<1>2. data' = [data EXCEPT ![i].dirty = TRUE]
  BY DEF SetComponentDirty
<1>3. data \in Seq(Element)
  BY DEF IInv, TypeOK
<1>4. /\ data' \in Seq(Element) /\ DOMAIN data' = DOMAIN data /\ Len(data') = Len(data)
      /\ \A j \in DOMAIN data : data'[j].valid = data[j].valid /\ data'[j].id = data[j].id
  <2>0. data[i] \in Element
    BY <1>1, <1>3
  <2>1. [data[i] EXCEPT !.dirty = TRUE] \in Element
    BY <2>0, OtherDirty
  <2>2. data' = [data EXCEPT ![i] = [data[i] EXCEPT !.dirty = TRUE]]
    BY <1>2
  <2>3. data' \in Seq(Element) /\ DOMAIN data' = DOMAIN data /\ Len(data') = Len(data)
    BY <1>1, <1>3, <2>1, <2>2
  <2>4. \A j \in DOMAIN data : data[j] \in Element
    BY <1>3
  <2>5. data'[i] = [data[i] EXCEPT !.dirty = TRUE] /\ \A j \in DOMAIN data : j # i => data'[j] = data[j]
    BY <1>1, <1>3, <2>2
  <2>6. data'[i].valid = data[i].valid /\ data'[i].id = data[i].id
    BY <1>1, <2>4, <2>5, OtherDirty
  <2> QED BY <2>3, <2>5, <2>6
<1> QED BY <1>4, DirtyStep DEF SetComponentDirty

\* The systems flush.
LEMMA OnUpdateStep == ASSUME IInv, OnUpdate PROVE IInv'
<1>1. PICK flushed : data' = [i \in DOMAIN data |->
                        IF i \in flushed THEN [data[i] EXCEPT !.dirty = FALSE] ELSE data[i]]
  BY DEF OnUpdate
<1>2. data \in Seq(Element) /\ DOMAIN data = 1..Len(data) /\ Len(data) \in Nat
  BY DEF IInv, TypeOK
<1>3. \A j \in DOMAIN data : /\ data'[j] \in Element
                             /\ data'[j].valid = data[j].valid /\ data'[j].id = data[j].id
  <2>1. ASSUME NEW j \in DOMAIN data
        PROVE  /\ data'[j] \in Element
               /\ data'[j].valid = data[j].valid /\ data'[j].id = data[j].id
    <3>1. data[j] \in Element
      BY <1>2
    <3>2. CASE j \in flushed
      BY <1>1, <3>1, <3>2, OtherDirty
    <3>3. CASE j \notin flushed
      BY <1>1, <3>1, <3>3
    <3> QED BY <3>2, <3>3
  <2> QED BY <2>1
<1>4. DOMAIN data' = 1..Len(data)
  BY <1>1, <1>2
<1>5. data' = [j \in 1..Len(data) |-> data'[j]]
  BY <1>1, <1>2
<1>6. data' \in Seq(Element) /\ Len(data') = Len(data)
  BY <1>2, <1>3, <1>5
<1> QED BY <1>2, <1>3, <1>4, <1>6, DirtyStep DEF OnUpdate

\* The holes and places after StableArray::remove of place i.
LEMMA MakeHoleCorrect ==
    ASSUME TypeOK, ArrayInv, NEW id \in Ids, NEW i \in PlacesOf(data, id), MakeHole(i)
    PROVE  /\ Tellable(data', block')
           /\ invalid' \in Seq(DOMAIN data')
           /\ DOMAIN data' = DOMAIN data /\ Len(data') = Len(data)
           /\ allocated' = allocated /\ block' = block
           /\ ArrayInv'
           /\ PlacesOf(data', id) = {}
           /\ \A o \in Ids : o # id => PlacesOf(data', o) = PlacesOf(data, o)
<1>1. i \in DOMAIN data /\ data[i].valid /\ data[i].id = id
  BY DEF PlacesOf
<1>2. data \in Seq(Element) /\ invalid \in Seq(DOMAIN data)
  BY DEF TypeOK
<1>3. /\ data' = [data EXCEPT ![i] = [data[i] EXCEPT !.valid = FALSE]]
      /\ invalid' = Append(invalid, i) /\ allocated' = allocated /\ block' = block
  BY DEF MakeHole
<1>4. data[i] \in Element
  BY <1>1, <1>2
<1>5. [data[i] EXCEPT !.valid = FALSE] \in Element /\ ~[data[i] EXCEPT !.valid = FALSE].valid
  BY <1>4 DEF Element
<1>6. /\ data' \in Seq(Element) /\ DOMAIN data' = DOMAIN data /\ Len(data') = Len(data)
      /\ ~data'[i].valid /\ \A j \in DOMAIN data : j # i => data'[j] = data[j]
  <2> DEFINE e == [data[i] EXCEPT !.valid = FALSE]
  <2>1. e \in Element /\ ~e.valid /\ data' = [data EXCEPT ![i] = e]
    BY <1>3, <1>5
  <2> HIDE DEF e
  <2> QED BY <1>1, <1>2, <2>1, Replaced
<1>7. Places' = Places \ {i}
  BY <1>6 DEF Places
<1>8. \A o \in Ids : PlacesOf(data', o) = PlacesOf(data, o) \ {i}
  BY <1>6 DEF PlacesOf
<1>9. PlacesOf(data', id) = {}
  BY <1>8 DEF ArrayInv, OnePlace
<1>10. \A o \in Ids : o # id => PlacesOf(data', o) = PlacesOf(data, o)
  <2>1. \A o \in Ids : o # id => i \notin PlacesOf(data, o)
    BY <1>1 DEF PlacesOf
  <2> QED BY <1>8, <2>1
<1>11. OnePlace'
  BY <1>8 DEF ArrayInv, OnePlace
<1>12. BlockUsed'
  BY <1>3 DEF ArrayInv, BlockUsed
<1>13. HolesExact'
  <2>1. /\ Len(invalid') = Len(invalid) + 1 /\ invalid'[Len(invalid) + 1] = i
        /\ \A j \in DOMAIN invalid : invalid'[j] = invalid[j]
        /\ DOMAIN invalid' = DOMAIN invalid \cup {Len(invalid) + 1}
        /\ Len(invalid) + 1 \notin DOMAIN invalid
    BY <1>2, <1>3
  <2>2. i \notin DOMAIN data \ Places
    BY <1>1 DEF Places
  <2>3. \A j \in DOMAIN invalid : invalid[j] # i
    BY <2>2 DEF ArrayInv, HolesExact
  <2>4. {invalid'[j] : j \in DOMAIN invalid'} = {invalid[j] : j \in DOMAIN invalid} \cup {i}
    BY <2>1
  <2>5. DOMAIN data' \ Places' = (DOMAIN data \ Places) \cup {i}
    BY <1>1, <1>6, <1>7
  <2>6. {invalid'[j] : j \in DOMAIN invalid'} = DOMAIN data' \ Places'
    BY <2>4, <2>5 DEF ArrayInv, HolesExact
  <2>7. \A j, k \in DOMAIN invalid' : invalid'[j] = invalid'[k] => j = k
    BY <2>1, <2>3 DEF ArrayInv, HolesExact
  <2> QED BY <2>6, <2>7 DEF HolesExact
<1>14. Tellable(data', block')
  <2>1. Len(data') > 0 => block' > 0
    BY <1>3, <1>6 DEF TypeOK, ArrayInv, BlockUsed
  <2>2. block' \in Nat /\ block' >= block
    BY <1>3 DEF TypeOK
  <2> QED BY <1>6, <1>11, <2>1, <2>2 DEF OnePlace, Tellable
<1>15. invalid' \in Seq(DOMAIN data')
  BY <1>1, <1>2, <1>3, <1>6
<1> QED BY <1>3, <1>6, <1>9, <1>10, <1>11, <1>12, <1>13, <1>14, <1>15 DEF ArrayInv

\* UnRegisterComponent, in the catalogs that have a case: the owner gives its pointer
\* up, everybody else is told.
LEMMA RemoveStep ==
    ASSUME IInv, NEW id \in Ids, Remove(id), events' = events,
           unregistered' = unregistered \cup {id}
    PROVE  IInv'
<1> USE DEF IInv
<1> DEFINE p == [pointer EXCEPT ![id] = Null]
<1>1. PICK i \in PlacesOf(data, id) : MakeHole(i) /\ pointer' = Told(p, data', block)
  BY DEF Remove
<1>2. /\ Tellable(data', block') /\ invalid' \in Seq(DOMAIN data')
      /\ DOMAIN data' = DOMAIN data /\ Len(data') = Len(data)
      /\ allocated' = allocated /\ block' = block /\ ArrayInv'
      /\ PlacesOf(data', id) = {}
      /\ \A o \in Ids : o # id => PlacesOf(data', o) = PlacesOf(data, o)
  BY <1>1, MakeHoleCorrect
<1>3. pointer \in [Ids -> {Null} \cup Pointers] /\ events \subseteq Ids
  BY DEF TypeOK
<1>4. p \in [Ids -> {Null} \cup Pointers] /\ p[id] = Null /\ \A o \in Ids : o # id => p[o] = pointer[o]
  BY <1>3
<1>5. /\ pointer' \in [Ids -> {Null} \cup [block : 1..block', place : DOMAIN data']]
      /\ \A o \in events : PlacesOf(data', o) # {} =>
             /\ pointer'[o] # Null
             /\ pointer'[o].block = block'
             /\ PlacesOf(data', o) = {pointer'[o].place}
      /\ \A o \in Ids : o \notin events \/ PlacesOf(data', o) = {} => pointer'[o] = p[o]
  <2> HIDE DEF p
  <2>1. TypeOK
    OBVIOUS
  <2> QED BY ONLY <1>1, <1>2, <1>4, <2>1, ToldCorrect
<1>6. TypeOK'
  BY <1>2, <1>5 DEF TypeOK, Tellable, Pointers
<1>7. PointersCurrent'
  <2>1. \A o \in events : PlacesOf(data', o) = {} => pointer'[o] = Null
    BY <1>2, <1>3, <1>4, <1>5 DEF PointersCurrent
  <2> QED BY <1>5, <2>1 DEF PointersCurrent
<1>8. NoEventNoPointer'
  BY <1>4, <1>5 DEF NoEventNoPointer
<1> QED BY <1>2, <1>6, <1>7, <1>8

\* UnRegisterComponent.
LEMMA UnRegisterStep == ASSUME IInv, NEW id \in Ids, UnRegisterComponent(id) PROVE IInv'
<1>1. CASE Remove(id)
  BY <1>1, RemoveStep DEF UnRegisterComponent
<1>2. CASE UNCHANGED <<array, pointer>>
  <2> USE <1>2 DEF UnRegisterComponent, IInv, array
  <2>1. TypeOK'
    BY DEF TypeOK, Pointers
  <2>2. ArrayInv'
    BY DEF ArrayInv, HolesExact, OnePlace, BlockUsed, Places
  <2>3. PointersCurrent' /\ NoEventNoPointer'
    BY DEF PointersCurrent, NoEventNoPointer
  <2> QED BY <2>1, <2>2, <2>3
<1> QED BY <1>1, <1>2 DEF UnRegisterComponent

\* The array stays, the events and pointers of one owner change.
LEMMA EventStep ==
    ASSUME IInv, NEW id \in Ids,
           RegisterComponentChangeEvent(id) \/ UnRegisterComponentChangeEvent(id)
    PROVE  IInv'
<1> USE DEF IInv, RegisterComponentChangeEvent, UnRegisterComponentChangeEvent, array
<1>1. TypeOK'
  BY DEF TypeOK, Pointers
<1>2. ArrayInv'
  BY DEF ArrayInv, HolesExact, OnePlace, BlockUsed, Places
<1>3. PointersCurrent'
  BY DEF PointersCurrent, NoEventNoPointer, TypeOK
<1>4. NoEventNoPointer'
  BY DEF NoEventNoPointer, TypeOK
<1> QED BY <1>1, <1>2, <1>3, <1>4

\* Every step keeps the inductive invariant.
LEMMA NextInductive == IInv /\ [Next]_vars => IInv'
<1> SUFFICES ASSUME IInv, [Next]_vars PROVE IInv'
  OBVIOUS
<1>1. ASSUME NEW id \in Ids, RegisterComponentChangeEvent(id) PROVE IInv'
  BY <1>1, EventStep
<1>2. ASSUME NEW id \in Ids, UnRegisterComponentChangeEvent(id) PROVE IInv'
  BY <1>2, EventStep
<1>3. ASSUME NEW id \in Ids, RegisterComponent(id) PROVE IInv'
  BY <1>3, RegisterStep
<1>4. ASSUME NEW id \in Ids, UnRegisterComponent(id) PROVE IInv'
  BY <1>4, UnRegisterStep
<1>5. ASSUME NEW id \in Ids, SetComponentDirty(id) PROVE IInv'
  BY <1>5, SetDirtyStep
<1>6. CASE OnUpdate
  BY <1>6, OnUpdateStep
<1>7. CASE UNCHANGED vars
  <2> USE <1>7 DEF IInv, vars, array, owners
  <2>1. TypeOK'
    BY DEF TypeOK, Pointers
  <2>2. ArrayInv'
    BY DEF ArrayInv, HolesExact, OnePlace, BlockUsed, Places
  <2>3. PointersCurrent' /\ NoEventNoPointer'
    BY DEF PointersCurrent, NoEventNoPointer
  <2> QED BY <2>1, <2>2, <2>3
<1> QED BY <1>1, <1>2, <1>3, <1>4, <1>5, <1>6, <1>7 DEF Next

\* The inductive invariant holds in every reachable state.
LEMMA Inductive == Spec => []IInv
  BY InitInductive, NextInductive, PTL DEF Spec

-----------------------------------------------------------------------------
\* Every variable keeps its type, and the elements in use fit what StableArray::resize
\* allocated, for every MIN_ELEMENTS.
THEOREM TypeCorrect == Spec => []TypeOK
<1>1. IInv => TypeOK
  BY DEF IInv
<1> QED BY <1>1, Inductive, PTL

\* The list of holes of the StableArray is exact for any number of components.
THEOREM HolesCorrect == Spec => []HolesExact
<1>1. IInv => HolesExact
  BY DEF IInv, ArrayInv
<1> QED BY <1>1, Inductive, PTL

\* However components come, go and move the array, an owner whose change event is
\* registered with the system holds the present address of its component.
THEOREM PointersCorrect == Spec => []PointersCurrent
<1>1. IInv => PointersCurrent
  BY DEF IInv
<1> QED BY <1>1, Inductive, PTL

=============================================================================
