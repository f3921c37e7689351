------------------------- MODULE MapGeneratorProofs -------------------------
(***************************************************************************)
(* Proofs about MapGenerator for every number of terrains: the type        *)
(* invariant, that at most one finished terrain waits, and that the main   *)
(* thread reads every terrain's own place and data.                        *)
(***************************************************************************)
EXTENDS MapGenerator, SequenceTheorems, TLAPS

Calling == main \in {"call", "read"}

\* Before the worker generates, nothing was made.
NothingYet ==
    /\ main = "start" => worker = "none"
    /\ worker \in {"none", "queued", "world", "get"} => terrains = 0 /\ finishQueue = <<>> /\ ~Calling

\* From the loop's test to the copy the queue is empty, and current is the terrain to come.
Making ==
    /\ worker \in {"loop", "initilize", "create", "created", "lock", "copy"} =>
           terrains < TotalMaps /\ finishQueue = <<>>
    /\ worker \in {"create", "created", "lock", "copy"} => current = terrains + 1 /\ ~Calling
    /\ worker \in {"created", "lock", "copy"} => currentMap = current

\* A worker that was not stopped has finished current, and leaves its wait with the queue empty.
Holding ==
    /\ worker \in {"hold", "test"} /\ run => current = terrains
    /\ worker = "test" /\ run => finishQueue = <<>>

\* While the callback runs the worker has not begun the next terrain.
InCallback == Calling => /\ finishQueue = <<>>
                         /\ terrains > 0 /\ next = terrains /\ currentMap = terrains /\ copy = terrains

\* Every terrain finished is delivered, on its way or queued.
Counted == terrains = Len(delivered) + Len(finishQueue) + (IF main = "call" THEN 1 ELSE 0)

IInv == TypeOK /\ NothingYet /\ Making /\ Holding /\ OneFinished /\ InCallback /\ Counted /\ HandedOver

Delivery == [terrain : 1..TotalMaps, place : MapNumber, data : MapNumber]

-----------------------------------------------------------------------------
\* The initial state satisfies the inductive invariant.
LEMMA InitInductive == Init => IInv
<1> SUFFICES ASSUME Init PROVE IInv
  OBVIOUS
<1> USE GeneratorAssumption DEF GeneratorAssumption, Init
<1>1. TypeOK
  <2>1. finishQueue \in Seq(1..TotalMaps) /\ delivered \in Seq(Delivery)
    OBVIOUS
  <2>2. 0 \in MapNumber /\ 0 \in 0..TotalMaps /\ 0 \in 0..Polls
    BY DEF MapNumber
  <2> QED BY <2>1, <2>2 DEF TypeOK, Delivery, Nothing
<1>2. NothingYet /\ Making /\ Holding /\ OneFinished /\ InCallback /\ HandedOver
  BY DEF NothingYet, Making, Holding, OneFinished, InCallback, HandedOver, Calling
<1>3. Counted
  BY DEF Counted
<1> QED BY <1>1, <1>2, <1>3 DEF IInv

\* The steps that touch neither the terrains nor the deliveries: those before the generator works, those that
\* stop and quit, the updates that take and release the mutex, and the worker's tests.
LEMMA ControlStep ==
    ASSUME IInv,
           \/ InitilizeWorldMap \/ UpdateLock \/ UpdateUnlock \/ Stop \/ Quit
           \/ WorkThread \/ GenWorldMap \/ LoopTest \/ InitilizeNext \/ GenerateTest
           \/ Hold \/ EndTest \/ WorkThreadEnd
    PROVE  IInv'
<1> USE GeneratorAssumption DEF GeneratorAssumption, IInv, TypeOK, NothingYet, Making, Holding, OneFinished,
        InCallback, Counted, HandedOver, Calling, mapVars, workerVars, mainVars
<1>1. CASE InitilizeWorldMap
  BY <1>1 DEF InitilizeWorldMap
<1>2. CASE UpdateLock
  BY <1>2 DEF UpdateLock
<1>3. CASE UpdateUnlock
  BY <1>3 DEF UpdateUnlock
<1>4. CASE Stop
  BY <1>4 DEF Stop
<1>5. CASE Destroy
  BY <1>5 DEF Destroy
<1>6. CASE DestroyCPP
  BY <1>6 DEF DestroyCPP
<1>7. CASE Join
  BY <1>7 DEF Join
<1>8. CASE WorkThread
  BY <1>8 DEF WorkThread
<1>9. CASE HasInstance
  BY <1>9 DEF HasInstance
<1>10. CASE GetInstance
  BY <1>10 DEF GetInstance
<1>11. CASE GenWorldMapEnd
  BY <1>11 DEF GenWorldMapEnd
<1>12. CASE LoopTest
  BY <1>12 DEF LoopTest
<1>13. CASE InitilizeNext
  BY <1>13 DEF InitilizeNext
<1>14. CASE GenerateTest
  BY <1>14 DEF GenerateTest
<1>15. CASE Hold
  BY <1>15 DEF Hold
<1>16. CASE EndTest
  BY <1>16 DEF EndTest
<1>17. CASE WorkThreadEnd
  BY <1>17 DEF WorkThreadEnd
<1> QED BY <1>1, <1>2, <1>3, <1>4, <1>5, <1>6, <1>7, <1>8, <1>9, <1>10, <1>11, <1>12, <1>13, <1>14, <1>15, <1>16, <1>17 DEF Quit, GenWorldMap

\* UpdateNext: the queue's only element leaves it, and it is the terrain that is current and in the buffer.
LEMMA UpdateNextStep == ASSUME IInv, UpdateNext PROVE IInv'
<1> USE GeneratorAssumption DEF GeneratorAssumption, IInv, UpdateNext, workerVars
<1>1. finishQueue = <<terrains>> /\ next' = terrains /\ finishQueue' = <<>>
  BY DEF OneFinished
<1>2. terrains \in Nat \ {0}
  <2>1. finishQueue \in Seq(1..TotalMaps) /\ Len(finishQueue) = 1 /\ finishQueue[1] = terrains
    BY <1>1 DEF TypeOK
  <2> QED BY <2>1
<1>3. TypeOK' /\ NothingYet' /\ Making'
  BY <1>1 DEF TypeOK, NothingYet, Making, Calling
<1>4. Holding' /\ OneFinished' /\ InCallback' /\ HandedOver'
  BY <1>1, <1>2 DEF Holding, OneFinished, InCallback, HandedOver, Calling
<1>5. Counted'
  BY <1>1 DEF Counted, TypeOK
<1> QED BY <1>3, <1>4, <1>5

\* CallBack: one delivery more, about the terrain that comes after the last one and with its place.
LEMMA CallBackStep == ASSUME IInv, CallBack PROVE IInv'
<1> USE GeneratorAssumption DEF GeneratorAssumption, IInv, CallBack, mapVars, workerVars
<1> DEFINE d == [terrain |-> next, place |-> currentMap, data |-> Nothing]
<1>1. next = terrains /\ currentMap = terrains /\ finishQueue = <<>> /\ terrains = Len(delivered) + 1
  BY DEF InCallback, Calling, Counted, TypeOK
<1>2. d \in Delivery /\ delivered \in Seq(Delivery)
  BY <1>1 DEF TypeOK, Delivery, MapNumber, Nothing
<1>3. /\ delivered' \in Seq(Delivery) /\ Len(delivered') = Len(delivered) + 1
      /\ \A i \in 1..Len(delivered) : delivered'[i] = delivered[i]
      /\ delivered'[Len(delivered) + 1] = d
  BY <1>2, AppendProperties
<1>4. TypeOK'
  BY <1>3 DEF TypeOK, Delivery
<1>5. NothingYet' /\ Making' /\ Holding' /\ OneFinished' /\ InCallback'
  BY DEF NothingYet, Making, Holding, OneFinished, InCallback, Calling
<1>6. Counted'
  BY <1>1, <1>3 DEF Counted, TypeOK
<1>7. HandedOver'
  <2> SUFFICES ASSUME NEW i \in DOMAIN delivered'
               PROVE  /\ delivered'[i].terrain = i /\ delivered'[i].place = i
                      /\ i < Len(delivered') => delivered'[i].data = i
    BY DEF HandedOver
  <2>1. i \in 1..(Len(delivered) + 1) /\ Len(delivered) \in Nat
    BY <1>2, <1>3
  <2>2. CASE i = Len(delivered) + 1
    BY <1>1, <1>3, <2>1, <2>2
  <2>3. CASE i \in 1..Len(delivered)
    BY <1>2, <1>3, <2>3 DEF HandedOver
  <2> QED BY <2>1, <2>2, <2>3
<1> QED BY <1>4, <1>5, <1>6, <1>7

\* InitTerrainInMainThread: the last delivery gets the data in the buffer, which is its own.
LEMMA InitTerrainStep == ASSUME IInv, InitTerrainInMainThread PROVE IInv'
<1> USE GeneratorAssumption DEF GeneratorAssumption, IInv, InitTerrainInMainThread, mapVars, workerVars
<1> DEFINE n == Len(delivered)
           d == [delivered[n] EXCEPT !.data = copy]
<1>1. /\ next = terrains /\ copy = terrains /\ finishQueue = <<>> /\ terrains = n
      /\ delivered \in Seq(Delivery) /\ n \in Nat
  BY DEF InCallback, Calling, Counted, TypeOK, Delivery
<1>2. n \in 1..n /\ n \in 1..TotalMaps
  BY <1>1 DEF TypeOK, InCallback, Calling
<1>3. d \in Delivery
  <2>1. delivered[n] \in Delivery /\ copy \in MapNumber
    BY <1>1, <1>2 DEF TypeOK
  <2> QED BY <2>1 DEF Delivery
<1>4. delivered' = [delivered EXCEPT ![n] = d]
  BY <1>1, <1>2 DEF Delivery
<1>5. /\ delivered' \in Seq(Delivery) /\ Len(delivered') = n
      /\ \A i \in 1..n : delivered'[i] = IF i = n THEN d ELSE delivered[i]
  BY <1>1, <1>2, <1>3, <1>4, ExceptSeq
<1>6. TypeOK'
  BY <1>5 DEF TypeOK, Delivery
<1>7. NothingYet' /\ Making' /\ Holding' /\ OneFinished' /\ InCallback'
  BY DEF NothingYet, Making, Holding, OneFinished, InCallback, Calling
<1>8. Counted'
  BY <1>1, <1>5 DEF Counted, TypeOK
<1>9. HandedOver'
  <2> SUFFICES ASSUME NEW i \in 1..n
               PROVE  delivered'[i].terrain = i /\ delivered'[i].place = i /\ delivered'[i].data = i
    BY <1>5 DEF HandedOver
  <2>1. CASE i = n
    BY <1>1, <1>2, <1>5, <2>1 DEF HandedOver, Delivery
  <2>2. CASE i < n
    BY <1>1, <1>5, <2>2 DEF HandedOver
  <2> QED BY <1>1, <2>1, <2>2
<1> QED BY <1>6, <1>7, <1>8, <1>9

\* Generate: the current map is replaced and the buffer filled while no callback runs and nothing is queued.
LEMMA GenerateStep ==
    ASSUME IInv, GenerateCreate \/ GenerateCopy \/ GenerateFinish
    PROVE  IInv'
<1> USE GeneratorAssumption DEF GeneratorAssumption, IInv, NothingYet, Making, Holding, OneFinished,
        InCallback, Counted, HandedOver, Calling, mainVars
<1>1. CASE GenerateCreate
  BY <1>1 DEF GenerateCreate, TypeOK, MapNumber
<1>2. CASE GenerateCopy
  BY <1>2 DEF GenerateCopy, TypeOK, MapNumber, Torn
<1>3. CASE GenerateFinish
  <2>1. /\ finishQueue' = <<current>> /\ terrains' = current /\ current = terrains + 1
        /\ current \in 1..TotalMaps /\ finishQueue = <<>>
    BY <1>3 DEF GenerateFinish, TypeOK
  <2>2. finishQueue' \in Seq(1..TotalMaps) /\ Len(finishQueue') = 1
    BY <2>1
  <2>3. TypeOK'
    BY <1>3, <2>1, <2>2 DEF GenerateFinish, TypeOK, MapNumber
  <2> QED BY <1>3, <2>1, <2>2, <2>3 DEF GenerateFinish, TypeOK
<1> QED BY <1>1, <1>2, <1>3

\* Every step, and every stuttering step, keeps the inductive invariant.
LEMMA NextInductive == IInv /\ [Next]_vars => IInv'
<1> SUFFICES ASSUME IInv, [Next]_vars PROVE IInv'
  OBVIOUS
<1>1. CASE UNCHANGED vars
  BY <1>1 DEF vars, mapVars, workerVars, mainVars, IInv, TypeOK, NothingYet, Making, Holding, OneFinished,
              InCallback, Counted, HandedOver, Calling
<1>2. CASE Next
  BY <1>2, ControlStep, UpdateNextStep, CallBackStep, InitTerrainStep, GenerateStep
     DEF Next, Update, WorkerStep, Generate
<1> QED BY <1>1, <1>2

-----------------------------------------------------------------------------
\* The type invariant of the generator (MapGenerator.h:61-86).
THEOREM TypeCorrect == Spec => []TypeOK
<1>1. IInv => TypeOK
  BY DEF IInv
<1> QED BY <1>1, InitInductive, NextInductive, PTL DEF Spec

\* However many terrains there are, at most one finished terrain waits, and it is the one in the buffer.
THEOREM OneFinishedCorrect == Spec => []OneFinished
<1>1. IInv => OneFinished
  BY DEF IInv
<1> QED BY <1>1, InitInductive, NextInductive, PTL DEF Spec

\* Whatever the two threads interleave, every callback gets the place and the data of its own terrain, and the
\* terrains come once and in order.
THEOREM HandOverCorrect == Spec => []HandedOver
<1>1. IInv => HandedOver
  BY DEF IInv
<1> QED BY <1>1, InitInductive, NextInductive, PTL DEF Spec
=============================================================================
