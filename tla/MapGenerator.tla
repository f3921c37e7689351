---------------------------- MODULE MapGenerator ----------------------------
(***************************************************************************)
(* The hand-over of finished terrains from the generator's worker thread   *)
(* to the main thread: generator::MapGenerator (src/cppLib/code/Generator/ *)
(* MapGenerator), the bindings that drive it (Bridge/MeshBindings.h,       *)
(* Bridge/Bridge.h) and, external, the Unity script that calls those.      *)
(*                                                                         *)
(* The worker copies a terrain into one shared buffer, queues its number   *)
(* and holds on until the queue is empty.  The main thread drains the      *)
(* queue and, in a callback made with m_generatorMtx held, reads the       *)
(* current map's place and the buffer; neither read takes a lock itself.   *)
(*                                                                         *)
(* What a terrain contains is left out: the buffer holds the number of the *)
(* terrain it was filled with, Nothing at first and Torn while it is being *)
(* filled.  A terrain is numbered by the size of m_mTerrainData, whose     *)
(* keys therefore are 1..terrains.                                         *)
(***************************************************************************)
EXTENDS Naturals, Sequences

CONSTANTS
    TotalMaps,  \* m_nTotalMapCount
    Polls       \* bound on the times GenWorldMap asks IsStopped

ASSUME GeneratorAssumption == TotalMaps \in Nat \ {0} /\ Polls \in Nat

VARIABLES
    instance,     \* the static instance: "none", "generator" or "other", a second object
    run,          \* m_bRun of the generator
    lock,         \* who holds m_generatorMtx
    terrains,     \* the size of m_mTerrainData
    finishQueue,  \* m_finishQueue
    currentMap,   \* the number of m_pCurrentMap
    copy,         \* the terrain whose data m_aHeightMapCopy and m_aSplatMapCopy hold
    worker,       \* where WorkThread is
    current,      \* its local of that name
    polls,        \* how often GenWorldMap has polled
    main,         \* where the main thread is
    next,         \* UpdateInMainThread's local of that name
    delivered     \* history: what each callback was about, and what it read

mapVars == <<terrains, finishQueue, currentMap, copy>>
workerVars == <<worker, current, polls>>
mainVars == <<main, next, delivered>>
vars == <<instance, run, lock, mapVars, workerVars, mainVars>>

Nothing == 0
Torn == TotalMaps + 1
MapNumber == 0..(TotalMaps + 1)

Init ==
    /\ instance = "none"
    /\ run = FALSE
    /\ lock = "free"
    /\ terrains = 0
    /\ finishQueue = <<>>
    /\ currentMap = Nothing
    /\ copy = Nothing
    /\ worker = "none"
    /\ current = 0
    /\ polls = 0
    /\ main = "start"
    /\ next = 0
    /\ delivered = <<>>

-----------------------------------------------------------------------------
(* The main thread. *)

\* WorldMapBindings_InitilizeWorldMap: GetInstance, Init and StartRun
InitilizeWorldMap ==
    /\ main = "start"
    /\ instance' = "generator"
    /\ run' = TRUE
    /\ worker' = "queued"
    /\ main' = "frame"
    /\ UNCHANGED <<lock, mapVars, current, polls, next, delivered>>

UpdateWithoutLock ==
    /\ main = "frame"
    /\ lock' = "main"
    /\ main' = "drain"
    /\ UNCHANGED <<instance, run, mapVars, workerVars, next, delivered>>

\* UpdateInMainThread, once in several frames
UpdateLock ==
    /\ main = "frame"
    /\ lock = "free"
    /\ lock' = "main"
    /\ main' = "drain"
    /\ UNCHANGED <<instance, run, mapVars, workerVars, next, delivered>>

UpdateNext ==
    /\ main = "drain"
    /\ finishQueue # <<>>
    /\ next' = Head(finishQueue)
    /\ finishQueue' = Tail(finishQueue)
    /\ main' = "call"
    /\ UNCHANGED <<instance, run, lock, terrains, currentMap, copy, workerVars, delivered>>

\* the place of m_pCurrentMap is an argument of the callback
CallBack ==
    /\ main = "call"
    /\ delivered' = Append(delivered, [terrain |-> next, place |-> currentMap, data |-> Nothing])
    /\ main' = "read"
    /\ UNCHANGED <<instance, run, lock, mapVars, workerVars, next>>

\* the callback calls InitTerrainInMainThread, which copies the buffer of a terrain it finds in m_mTerrainData
InitTerrainInMainThread ==
    /\ main = "read"
    /\ delivered' = [delivered EXCEPT ![Len(delivered)].data = IF next <= terrains THEN copy ELSE Nothing]
    /\ main' = "drain"
    /\ UNCHANGED <<instance, run, lock, mapVars, workerVars, next>>

UpdateUnlock ==
    /\ main = "drain"
    /\ finishQueue = <<>>
    /\ lock' = "free"
    /\ main' = "frame"
    /\ UNCHANGED <<instance, run, mapVars, workerVars, next, delivered>>

\* Terrain.Destroy of the script: WorldMapBindings_StopGeneration ...
Stop ==
    /\ main = "frame"
    /\ run' = FALSE
    /\ main' = "stopped"
    /\ UNCHANGED <<instance, lock, mapVars, workerVars, next, delivered>>

\* ... and WorldMapBindings_Destroy
Destroy ==
    /\ main = "stopped"
    /\ instance' = "none"
    /\ main' = "destroyed"
    /\ UNCHANGED <<run, lock, mapVars, workerVars, next, delivered>>

\* DestroyCPP: Destroy again, and ThreadManager::Destroy ...
DestroyCPP ==
    /\ main = "destroyed"
    /\ instance' = "none"
    /\ main' = "join"
    /\ UNCHANGED <<run, lock, mapVars, workerVars, next, delivered>>

\* ... which joins the pool's workers
Join ==
    /\ main = "join"
    /\ worker = "done"
    /\ main' = "quit"
    /\ UNCHANGED <<instance, run, lock, mapVars, workerVars, next, delivered>>

-----------------------------------------------------------------------------
(***************************************************************************)
(* The worker: GenWorldMap, whose loops ask IsStopped.  IsStopped reads    *)
(* the static instance twice, and GetInstance creates a generator, which   *)
(* does not run, when it finds none.                                       *)
(***************************************************************************)
WorkThread ==
    /\ worker = "queued"
    /\ worker' = IF run THEN "world" ELSE "loop"
    /\ UNCHANGED <<instance, run, lock, mapVars, current, polls, mainVars>>

HasInstance ==
    /\ worker = "world"
    /\ polls < Polls
    /\ polls' = polls + 1
    /\ worker' = IF instance = "none" THEN "loop" ELSE "get"
    /\ UNCHANGED <<instance, run, lock, mapVars, current, mainVars>>

GetInstance ==
    /\ worker = "get"
    /\ instance' = IF instance = "none" THEN "other" ELSE instance
    /\ worker' = IF instance' = "generator" /\ run THEN "world" ELSE "loop"
    /\ UNCHANGED <<run, lock, mapVars, current, polls, mainVars>>

GenWorldMapEnd ==
    /\ worker = "world"
    /\ worker' = "loop"
    /\ UNCHANGED <<instance, run, lock, mapVars, current, polls, mainVars>>

LoopTest ==
    /\ worker = "loop"
    /\ worker' = IF run THEN "initilize" ELSE "end"
    /\ UNCHANGED <<instance, run, lock, mapVars, current, polls, mainVars>>

InitilizeNextUnlocked ==
    /\ worker = "initilize"
    /\ current' = terrains + 1
    /\ worker' = "create"
    /\ UNCHANGED <<instance, run, lock, mapVars, polls, mainVars>>

\* InitilizeNext takes m_generatorMtx to read the size; so it also waits for a callback under way to return
InitilizeNext ==
    /\ worker = "initilize"
    /\ lock = "free"
    /\ current' = terrains + 1
    /\ worker' = "create"
    /\ UNCHANGED <<instance, run, lock, mapVars, polls, mainVars>>

\* Generate, up to its tests of m_bRun: m_pCurrentMap is replaced without the lock
GenerateCreate ==
    /\ worker = "create"
    /\ currentMap' = current
    /\ worker' = "created"
    /\ UNCHANGED <<instance, run, lock, terrains, finishQueue, copy, current, polls, mainVars>>

GenerateTest ==
    /\ worker = "created"
    /\ worker' = IF run THEN "lock" ELSE "hold"
    /\ UNCHANGED <<instance, run, lock, mapVars, current, polls, mainVars>>

GenerateCopy ==
    /\ worker = "lock"
    /\ lock = "free"
    /\ lock' = "worker"
    /\ copy' = Torn
    /\ worker' = "copy"
    /\ UNCHANGED <<instance, run, terrains, finishQueue, currentMap, current, polls, mainVars>>

GenerateNotAdded ==
    /\ worker = "copy"
    /\ copy' = current
    /\ terrains' = terrains + 1
    /\ lock' = "free"
    /\ worker' = "hold"
    /\ UNCHANGED <<instance, run, finishQueue, currentMap, current, polls, mainVars>>

\* the copy is complete: insert into m_mTerrainData, add to m_finishQueue and unlock
GenerateFinish ==
    /\ worker = "copy"
    /\ copy' = current
    /\ terrains' = terrains + 1
    /\ finishQueue' = Append(finishQueue, current)
    /\ lock' = "free"
    /\ worker' = "hold"
    /\ UNCHANGED <<instance, run, currentMap, current, polls, mainVars>>

HoldNotWaiting ==
    /\ worker = "hold"
    /\ worker' = "test"
    /\ UNCHANGED <<instance, run, lock, mapVars, current, polls, mainVars>>

HoldNotStopped ==
    /\ worker = "hold"
    /\ finishQueue = <<>>
    /\ worker' = "test"
    /\ UNCHANGED <<instance, run, lock, mapVars, current, polls, mainVars>>

\* hold on until the finish queue is empty or the generator is stopped
Hold ==
    /\ worker = "hold"
    /\ finishQueue = <<>> \/ ~run
    /\ worker' = "test"
    /\ UNCHANGED <<instance, run, lock, mapVars, current, polls, mainVars>>

\* break_if_stopped, and the end of the list
EndTest ==
    /\ worker = "test"
    /\ worker' = IF ~run \/ current >= TotalMaps THEN "end" ELSE "loop"
    /\ UNCHANGED <<instance, run, lock, mapVars, current, polls, mainVars>>

WorkThreadEnd ==
    /\ worker = "end"
    /\ run' = FALSE
    /\ worker' = "done"
    /\ UNCHANGED <<instance, lock, mapVars, current, polls, mainVars>>

-----------------------------------------------------------------------------
Update == UpdateLock \/ UpdateNext \/ CallBack \/ InitTerrainInMainThread \/ UpdateUnlock

Quit == Destroy \/ DestroyCPP \/ Join

GenWorldMap == HasInstance \/ GetInstance \/ GenWorldMapEnd

Generate == GenerateCreate \/ GenerateTest \/ GenerateCopy \/ GenerateFinish

WorkerStep ==
    WorkThread \/ GenWorldMap \/ LoopTest \/ InitilizeNext \/ Generate \/ Hold \/ EndTest \/ WorkThreadEnd

Next == InitilizeWorldMap \/ Update \/ Stop \/ Quit \/ WorkerStep

Spec == Init /\ [][Next]_vars

(***************************************************************************)
(* The worker thread runs, and the script updates every few frames and     *)
(* carries out what Terrain.Destroy began.  The two threads compete for    *)
(* m_generatorMtx, and the one that waits gets it in the end, hence strong *)
(* fairness.  Whether the program quits is open.                           *)
(***************************************************************************)
Fairness == SF_vars(WorkerStep) /\ SF_vars(Update) /\ WF_vars(Quit)

FairSpec == Spec /\ Fairness

-----------------------------------------------------------------------------
\* Every variable keeps its type, and m_generatorMtx is held exactly inside its critical sections.
TypeOK ==
    /\ instance \in {"none", "generator", "other"}
    /\ run \in BOOLEAN
    /\ lock \in {"free", "main", "worker"}
    /\ terrains \in 0..TotalMaps
    /\ finishQueue \in Seq(1..TotalMaps)
    /\ currentMap \in MapNumber
    /\ copy \in MapNumber
    /\ worker \in {"none", "queued", "world", "get", "loop", "initilize", "create", "created", "lock",
                   "copy", "hold", "test", "end", "done"}
    /\ current \in 0..TotalMaps
    /\ polls \in 0..Polls
    /\ main \in {"start", "frame", "drain", "call", "read", "stopped", "destroyed", "join", "quit"}
    /\ next \in 0..TotalMaps
    /\ delivered \in Seq([terrain : 1..TotalMaps, place : MapNumber, data : MapNumber])
    /\ lock = "main" <=> main \in {"drain", "call", "read"}
    /\ lock = "worker" <=> worker = "copy"

\* The callback is told of each terrain once and in order, with its own place and its own data, although the
\* place (MapGenerator.cpp:115) and the buffer (MapGenerator.cpp:152) are read where the worker could already
\* have gone on to the next terrain: the wait for an empty queue (:201) and the mutex that InitilizeNext takes
\* only to read a size (:218) keep it back while the callback runs.
HandedOver ==
    \A i \in DOMAIN delivered :
        /\ delivered[i].terrain = i
        /\ delivered[i].place = i
        /\ i < Len(delivered) \/ main # "read" => delivered[i].data = i

\* One buffer serves every terrain, so a terrain may be finished only when the one before it was taken: at most
\* one waits on m_finishQueue, and it is the one in the buffer (MapGenerator.cpp:201-205, 275-276).
OneFinished == finishQueue # <<>> => finishQueue = <<terrains>> /\ copy = terrains /\ currentMap = terrains

\* Unless the program quits first, every terrain of the world map is handed over: neither thread waits for the
\* other for ever (UpdateInMainThread, WorkThread).
AllHandedOver == main = "frame" ~> Len(delivered) = TotalMaps \/ main = "quit"

\* Quitting returns: a stopped worker leaves each of its waits, the one for an empty queue that no update will
\* empty any more included, so ThreadManager::Destroy can join it (WorkThread, Bridge.h:39-46).
QuitReturns == main = "stopped" ~> main = "quit"

\* Once WorldMapBindings_Destroy has returned there is no generator.
StaysDestroyed == main \in {"destroyed", "join", "quit"} => instance = "none"
=============================================================================
