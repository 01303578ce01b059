--------------------------- MODULE CameraSession ---------------------------
(***************************************************************************)
(* The life of a camera session: the HTTP thread's MAVideo handler         *)
(* (Controller.cpp) starts and stops sessions through the map players; a   *)
(* session thread builds a CameraHandle, pulls the stream until it ends or *)
(* is stopped (CameraPull::start), waits a fixed grace and takes itself    *)
(* down; a detached handle thread consumes the frames (startPrediction).   *)
(* None of what they share is locked except the frame queue.               *)
(*                                                                         *)
(* A session is named by a number, in the order in which the threads are   *)
(* started; a Player object by the session whose thread was started with   *)
(* it.  Left out: the answers to the requests, the detection itself, the   *)
(* preview (SubVideo), and EventCenter, see EventCenter.tla.               *)
(***************************************************************************)
EXTENDS Integers, FiniteSets, Functions

CONSTANTS Cams,        \* camera ids
          Offline,     \* ids that start with "offline": files, not streams
          MaxStream,   \* config "maxstream"
          QueueLimit,  \* CameraPull.cpp:95, 3
          MaxSessions, \* bound on the sessions ever started
          MaxBacklog,  \* bound on the queue of an offline camera, unbounded in the code
          Careful,     \* whether clients add a camera only while no session of it
                       \* starts or ends
          None         \* no camera, no session

ASSUME OfflineAssumption == Offline \subseteq Cams
ASSUME LimitAssumption == MaxStream \in Nat /\ QueueLimit \in Nat
ASSUME BoundAssumption == MaxSessions \in Nat /\ MaxBacklog \in Nat
ASSUME CarefulAssumption == Careful \in BOOLEAN
ASSUME NoneAssumption == None \notin Cams /\ None \notin 1..MaxSessions

Sessions == 1..MaxSessions

VARIABLES
    players,         \* Controller::players: camera -> Player
    handleOf,        \* Player -> its cameraHandle, a session or None
    started,         \* how many session threads were started
    camOf,           \* session -> its camera
    playerOf,        \* session -> its Player
    pc,              \* session -> where its thread is
    predictionFlag,  \* CameraHandle::predictionFlag
    pullFlag,        \* CameraPull::flag
    queue,           \* CameraPull::queue, its length
    worker,          \* session -> where its handle thread is
    settled,         \* the handle thread passed its loop test since the grace began
    httpPc,          \* where the HTTP thread is in MAVideo; crashed: the process is gone
    request,         \* CAMERA_ADD and CAMERA_REMOVE of the request
    player,          \* the Player the handler has looked up
    handle,          \* the CameraHandle it stops
    stopped          \* history: sessions stopPrediction was called on

playerVars == <<players, handleOf>>
threadVars == <<started, camOf, playerOf>>
flagVars == <<predictionFlag, pullFlag>>
workVars == <<queue, worker, settled>>
httpVars == <<httpPc, request, player, handle, stopped>>
vars == <<playerVars, threadVars, pc, flagVars, workVars, httpVars>>

(* The steps of a session thread, in their order.                          *)
Building  == {"spawned", "built", "published"}
Pulling   == {"open", "loop", "read"}
Ending    == {"drain", "closed", "ended", "grace"}
TakenDown == {"deleted", "erased", "done"}
Pcs == {"none"} \union Building \union Pulling \union Ending \union TakenDown

Put(f, x, y) == [z \in DOMAIN f \union {x} |-> IF z = x THEN y ELSE f[z]]
Drop(f, x) == Restrict(f, DOMAIN f \ {x})

----------------------------------------------------------------------------
(* The HTTP thread: one request at a time.                                 *)

Running(c) == {s \in Sessions : camOf[s] = c /\ pc[s] # "done"}

(* A careful client waits until a session it asked for pulls, or is gone.  *)
MayAdd(c) == Careful => \A s \in Running(c) : pc[s] \in Pulling /\ s \notin stopped
MayRemove(c) == Careful => \A s \in Running(c) : pc[s] \in Pulling

MAVideo(add, remove) ==
    /\ httpPc = "idle"
    /\ add # None => MayAdd(add) /\ started < MaxSessions
    /\ remove # None => MayRemove(remove)
    /\ Careful => add # remove
    /\ request' = [add |-> add, remove |-> remove]
    /\ httpPc' = IF add # None THEN "find" ELSE "remove"
    /\ UNCHANGED <<playerVars, threadVars, pc, flagVars, workVars, player, handle, stopped>>

(* Mutant: the size is compared with one more.                             *)
OverLimitLate == Cardinality(DOMAIN players) > MaxStream + 1

(* Line 102.                                                               *)
OverLimit == Cardinality(DOMAIN players) > MaxStream

(* Line 103: the request ends there, its CAMERA_REMOVE is not looked at.   *)
AddRefused ==
    /\ httpPc = "find"
    /\ request.add \notin DOMAIN players
    /\ OverLimit
    /\ httpPc' = "idle"
    /\ UNCHANGED <<playerVars, threadVars, pc, flagVars, workVars, request, player, handle, stopped>>

(* Line 99: the camera has a Player.                                       *)
AddFound ==
    /\ httpPc = "find"
    /\ request.add \in DOMAIN players
    /\ httpPc' = "get"
    /\ UNCHANGED <<playerVars, threadVars, pc, flagVars, workVars, request, player, handle, stopped>>

(* Line 100.                                                               *)
AddGet ==
    /\ httpPc = "get"
    /\ request.add \in DOMAIN players
    /\ player' = players[request.add]
    /\ httpPc' = "test"
    /\ UNCHANGED <<playerVars, threadVars, pc, flagVars, workVars, request, handle, stopped>>

(* A session has erased it meanwhile: operator[] puts a null pointer in    *)
(* its place, which line 110 follows.                                      *)
AddGetNull ==
    /\ httpPc = "get"
    /\ request.add \notin DOMAIN players
    /\ httpPc' = "crashed"
    /\ UNCHANGED <<playerVars, threadVars, pc, flagVars, workVars, request, player, handle, stopped>>

(* Lines 105-107: it gets one, numbered like the session to be started.    *)
AddPlayer ==
    /\ httpPc = "find"
    /\ request.add \notin DOMAIN players
    /\ ~OverLimit
    /\ players' = Put(players, request.add, started + 1)
    /\ player' = started + 1
    /\ httpPc' = "test"
    /\ UNCHANGED <<handleOf, threadVars, pc, flagVars, workVars, request, handle, stopped>>

(* Mutant: a thread is started whether or not there is a handle.           *)
AddSpawnAlways ==
    /\ httpPc = "test"
    /\ started' = started + 1
    /\ camOf' = [camOf EXCEPT ![started + 1] = request.add]
    /\ playerOf' = [playerOf EXCEPT ![started + 1] = player]
    /\ pc' = [pc EXCEPT ![started + 1] = "spawned"]
    /\ httpPc' = "remove"
    /\ UNCHANGED <<playerVars, flagVars, workVars, request, player, handle, stopped>>

(* Lines 110-130: no handle yet, a session thread is started.              *)
AddSpawn ==
    /\ httpPc = "test"
    /\ handleOf[player] = None
    /\ started' = started + 1
    /\ camOf' = [camOf EXCEPT ![started + 1] = request.add]
    /\ playerOf' = [playerOf EXCEPT ![started + 1] = player]
    /\ pc' = [pc EXCEPT ![started + 1] = "spawned"]
    /\ httpPc' = "remove"
    /\ UNCHANGED <<playerVars, flagVars, workVars, request, player, handle, stopped>>

(* Line 132: the handle gets the new list of algorithms, whatever state it *)
(* is in.                                                                  *)
AddUpdate ==
    /\ httpPc = "test"
    /\ handleOf[player] # None
    /\ httpPc' = "remove"
    /\ UNCHANGED <<playerVars, threadVars, pc, flagVars, workVars, request, player, handle, stopped>>

(* Line 143.                                                               *)
RemoveFind ==
    /\ httpPc = "remove"
    /\ httpPc' = IF request.remove \in DOMAIN players THEN "remove get" ELSE "idle"
    /\ UNCHANGED <<playerVars, threadVars, pc, flagVars, workVars, request, player, handle, stopped>>

(* Lines 144-145; a camera without a handle is answered REMOVED too.       *)
RemoveGet ==
    /\ httpPc = "remove get"
    /\ request.remove \in DOMAIN players
    /\ IF handleOf[players[request.remove]] # None
         THEN handle' = handleOf[players[request.remove]] /\ httpPc' = "stop pull"
         ELSE httpPc' = "idle" /\ UNCHANGED handle
    /\ UNCHANGED <<playerVars, threadVars, pc, flagVars, workVars, request, player, stopped>>

(* As in AddGetNull; line 145 follows the null pointer.                    *)
RemoveGetNull ==
    /\ httpPc = "remove get"
    /\ request.remove \notin DOMAIN players
    /\ httpPc' = "crashed"
    /\ UNCHANGED <<playerVars, threadVars, pc, flagVars, workVars, request, player, handle, stopped>>

(* stopPrediction of the handle, in two writes (CameraHandle.cpp:668-672). *)
StopPull ==
    /\ httpPc = "stop pull"
    /\ pullFlag' = [pullFlag EXCEPT ![handle] = FALSE]
    /\ httpPc' = "stop prediction"
    /\ UNCHANGED <<playerVars, threadVars, pc, predictionFlag, workVars, request, player,
                   handle, stopped>>

StopPrediction ==
    /\ httpPc = "stop prediction"
    /\ predictionFlag' = [predictionFlag EXCEPT ![handle] = FALSE]
    /\ stopped' = stopped \union {handle}
    /\ httpPc' = "idle"
    /\ UNCHANGED <<playerVars, threadVars, pc, pullFlag, workVars, request, player, handle>>

----------------------------------------------------------------------------
(* A session thread.                                                       *)

Goes(s, from, to) ==
    /\ pc[s] = from
    /\ pc' = [pc EXCEPT ![s] = to]

(* Line 118: the constructor leaves predictionFlag as it finds it.         *)
Build(s) ==
    /\ Goes(s, "spawned", "built")
    /\ \E b \in BOOLEAN : predictionFlag' = [predictionFlag EXCEPT ![s] = b]
    /\ pullFlag' = [pullFlag EXCEPT ![s] = FALSE]
    /\ UNCHANGED <<playerVars, threadVars, workVars, httpVars>>

(* Line 123: the handle can be seen from now on.                           *)
Publish(s) ==
    /\ Goes(s, "built", "published")
    /\ handleOf' = [handleOf EXCEPT ![playerOf[s]] = s]
    /\ UNCHANGED <<players, threadVars, flagVars, workVars, httpVars>>

(* CameraHandle.cpp:630-642: the handle thread is started.                 *)
StartPrediction(s) ==
    /\ Goes(s, "published", "open")
    /\ predictionFlag' = [predictionFlag EXCEPT ![s] = TRUE]
    /\ worker' = [worker EXCEPT ![s] = "test"]
    /\ UNCHANGED <<playerVars, threadVars, pullFlag, queue, settled, httpVars>>

(* CameraPull.cpp:32-72.                                                   *)
Open(s) ==
    /\ Goes(s, "open", "loop")
    /\ pullFlag' = [pullFlag EXCEPT ![s] = TRUE]
    /\ UNCHANGED <<playerVars, threadVars, predictionFlag, workVars, httpVars>>

OpenFails(s) ==
    /\ Goes(s, "open", "ended")
    /\ UNCHANGED <<playerVars, threadVars, flagVars, workVars, httpVars>>

(* Mutant: the flag is not looked at.                                      *)
LoopGoesOnRegardless(s) ==
    /\ Goes(s, "loop", "read")
    /\ UNCHANGED <<playerVars, threadVars, flagVars, workVars, httpVars>>

(* Line 73.                                                                *)
LoopGoesOn(s) ==
    /\ pullFlag[s]
    /\ Goes(s, "loop", "read")
    /\ UNCHANGED <<playerVars, threadVars, flagVars, workVars, httpVars>>

LoopEnds(s) ==
    /\ ~pullFlag[s]
    /\ Goes(s, "loop", "closed")
    /\ UNCHANGED <<playerVars, threadVars, flagVars, workVars, httpVars>>

(* Lines 94-100: the oldest frame gives way, but not that of a file.       *)
Pushed(s) ==
    IF queue[s] > QueueLimit /\ camOf[s] \notin Offline THEN queue[s] ELSE queue[s] + 1

(* av_read_frame returns a packet that completes a frame, or one that does *)
(* not.                                                                    *)
ReadFrame(s) ==
    /\ Goes(s, "read", "loop")
    /\ camOf[s] \in Offline => queue[s] < MaxBacklog
    /\ queue' = [queue EXCEPT ![s] = Pushed(s)]
    /\ UNCHANGED <<playerVars, threadVars, flagVars, worker, settled, httpVars>>

ReadOther(s) ==
    /\ Goes(s, "read", "loop")
    /\ UNCHANGED <<playerVars, threadVars, flagVars, workVars, httpVars>>

(* It returns an error, at the end of the stream or when it breaks.        *)
ReadFails(s) ==
    /\ Goes(s, "read", "drain")
    /\ UNCHANGED <<playerVars, threadVars, flagVars, workVars, httpVars>>

(* Lines 77-79: the handle thread is left to empty the queue.              *)
Drained(s) ==
    /\ queue[s] = 0
    /\ Goes(s, "drain", "closed")
    /\ UNCHANGED <<playerVars, threadVars, flagVars, workVars, httpVars>>

(* Line 107.                                                               *)
Close(s) ==
    /\ Goes(s, "closed", "ended")
    /\ pullFlag' = [pullFlag EXCEPT ![s] = FALSE]
    /\ UNCHANGED <<playerVars, threadVars, predictionFlag, workVars, httpVars>>

(* Mutant: prediction is not switched off.                                 *)
EndKeepsPrediction(s) ==
    /\ Goes(s, "ended", "grace")
    /\ settled' = [settled EXCEPT ![s] = worker[s] = "end"]
    /\ UNCHANGED <<playerVars, threadVars, flagVars, queue, worker, httpVars>>

(* CameraHandle.cpp:645, and the grace of line 646 begins.                 *)
EndPrediction(s) ==
    /\ Goes(s, "ended", "grace")
    /\ predictionFlag' = [predictionFlag EXCEPT ![s] = FALSE]
    /\ settled' = [settled EXCEPT ![s] = worker[s] = "end"]
    /\ UNCHANGED <<playerVars, threadVars, pullFlag, queue, worker, httpVars>>

(* Controller.cpp:125.  The grace of 20 s is taken to outlast the call of  *)
(* Handle that was in progress when it began, and no more than that.       *)
Delete(s) ==
    /\ settled[s]
    /\ Goes(s, "grace", "deleted")
    /\ UNCHANGED <<playerVars, threadVars, flagVars, workVars, httpVars>>

(* Mutant: the Player stays in the map.                                    *)
EraseNothing(s) ==
    /\ Goes(s, "deleted", "erased")
    /\ UNCHANGED <<playerVars, threadVars, flagVars, workVars, httpVars>>

(* Line 127: by name, whichever Player has it.  Player::cameraHandle still *)
(* points to the deleted handle.                                           *)
Erase(s) ==
    /\ Goes(s, "deleted", "erased")
    /\ players' = Drop(players, camOf[s])
    /\ UNCHANGED <<handleOf, threadVars, flagVars, workVars, httpVars>>

(* Line 128, see EventCenter.                                              *)
RemoveCamera(s) ==
    /\ Goes(s, "erased", "done")
    /\ UNCHANGED <<playerVars, threadVars, flagVars, workVars, httpVars>>

----------------------------------------------------------------------------
(* The handle thread of a session.                                         *)

Settle(s) == settled' = [settled EXCEPT ![s] = TRUE]

(* CameraHandle.cpp:634-636: a frame is taken and handled.                 *)
WorkerTakes(s) ==
    /\ worker[s] = "test"
    /\ predictionFlag[s]
    /\ pullFlag[s]
    /\ queue[s] > 0
    /\ queue' = [queue EXCEPT ![s] = @ - 1]
    /\ worker' = [worker EXCEPT ![s] = "handle"]
    /\ Settle(s)
    /\ UNCHANGED <<playerVars, threadVars, pc, flagVars, httpVars>>

(* There is none, or the pull has not begun or is over.                    *)
WorkerIdles(s) ==
    /\ worker[s] = "test"
    /\ predictionFlag[s]
    /\ ~pullFlag[s] \/ queue[s] = 0
    /\ Settle(s)
    /\ UNCHANGED <<playerVars, threadVars, pc, flagVars, queue, worker, httpVars>>

WorkerEnds(s) ==
    /\ worker[s] = "test"
    /\ ~predictionFlag[s]
    /\ worker' = [worker EXCEPT ![s] = "end"]
    /\ Settle(s)
    /\ UNCHANGED <<playerVars, threadVars, pc, flagVars, queue, httpVars>>

WorkerReturns(s) ==
    /\ worker[s] = "handle"
    /\ worker' = [worker EXCEPT ![s] = "test"]
    /\ UNCHANGED <<playerVars, threadVars, pc, flagVars, queue, settled, httpVars>>

----------------------------------------------------------------------------
Init ==
    /\ players = [c \in {} |-> 0]
    /\ handleOf = [p \in Sessions |-> None]
    /\ started = 0
    /\ camOf = [s \in Sessions |-> None]
    /\ playerOf = [s \in Sessions |-> None]
    /\ pc = [s \in Sessions |-> "none"]
    /\ predictionFlag = [s \in Sessions |-> FALSE]
    /\ pullFlag = [s \in Sessions |-> FALSE]
    /\ queue = [s \in Sessions |-> 0]
    /\ worker = [s \in Sessions |-> "none"]
    /\ settled = [s \in Sessions |-> FALSE]
    /\ httpPc = "idle"
    /\ request = [add |-> None, remove |-> None]
    /\ player = None
    /\ handle = None
    /\ stopped = {}

HttpStep ==
    \/ AddRefused
    \/ AddFound
    \/ AddGet
    \/ AddGetNull
    \/ AddPlayer
    \/ AddSpawn
    \/ AddUpdate
    \/ RemoveFind
    \/ RemoveGet
    \/ RemoveGetNull
    \/ StopPull
    \/ StopPrediction

SessionStep(s) ==
    \/ Build(s)
    \/ Publish(s)
    \/ StartPrediction(s)
    \/ Open(s)
    \/ OpenFails(s)
    \/ LoopGoesOn(s)
    \/ LoopEnds(s)
    \/ ReadFrame(s)
    \/ ReadOther(s)
    \/ ReadFails(s)
    \/ Drained(s)
    \/ Close(s)
    \/ EndPrediction(s)
    \/ Delete(s)
    \/ Erase(s)
    \/ RemoveCamera(s)

WorkerStep(s) ==
    \/ WorkerTakes(s)
    \/ WorkerIdles(s)
    \/ WorkerEnds(s)
    \/ WorkerReturns(s)

Next ==
    /\ httpPc # "crashed"
    /\ \/ \E add, remove \in Cams \union {None} : MAVideo(add, remove)
       \/ HttpStep
       \/ \E s \in Sessions : SessionStep(s) \/ WorkerStep(s)

Spec == Init /\ [][Next]_vars

----------------------------------------------------------------------------
(* Correctness.                                                            *)

(* The types of the state; the queue of a stream is short, whatever the    *)
(* handle thread does.                                                     *)
TypeOK ==
    /\ DOMAIN players \subseteq Cams
    /\ players \in [DOMAIN players -> Sessions]
    /\ handleOf \in [Sessions -> Sessions \union {None}]
    /\ started \in 0..MaxSessions
    /\ camOf \in [Sessions -> Cams \union {None}]
    /\ playerOf \in [Sessions -> Sessions \union {None}]
    /\ pc \in [Sessions -> Pcs]
    /\ predictionFlag \in [Sessions -> BOOLEAN]
    /\ pullFlag \in [Sessions -> BOOLEAN]
    /\ queue \in [Sessions -> Nat]
    /\ \A s \in Sessions : queue[s] > QueueLimit + 1 => camOf[s] \in Offline
    /\ worker \in [Sessions -> {"none", "test", "handle", "end"}]
    /\ settled \in [Sessions -> BOOLEAN]
    /\ httpPc \in {"idle", "find", "get", "test", "remove", "remove get", "stop pull",
                   "stop prediction", "crashed"}
    /\ request \in [add : Cams \union {None}, remove : Cams \union {None}]
    /\ player \in Sessions \union {None}
    /\ handle \in Sessions \union {None}
    /\ stopped \subseteq Sessions

(* The parts of the inductive invariant.  Sessions are numbered in the     *)
(* order in which they are started ...                                     *)
Threads ==
    /\ \A s \in Sessions : s > started => pc[s] = "none" /\ queue[s] = 0
    /\ \A s \in 1..started : pc[s] # "none" /\ camOf[s] \in Cams /\ playerOf[s] \in 1..started

(* ... the request in progress keeps what it has looked up, and no camera  *)
(* but its own has the Player it found, even when that is no longer in the *)
(* map ...                                                                 *)
Handler ==
    /\ httpPc \in {"find", "get", "test"} => request.add \in Cams /\ started < MaxSessions
    /\ httpPc = "test" =>
         /\ player \in 1..(started + 1)
         /\ \A c \in DOMAIN players : players[c] = player <=> c = request.add
    /\ httpPc \in {"stop pull", "stop prediction"} => handle \in 1..started

(* ... a Player in the map is that of one camera and none of its sessions  *)
(* has erased it; a handle it leads to is that of one of them ...          *)
Ownership ==
    /\ IsFiniteSet(DOMAIN players)
    /\ \A c, d \in DOMAIN players : players[c] = players[d] => c = d
    /\ \A c \in DOMAIN players :
         players[c] \in 1..started \/ (httpPc = "test" /\ players[c] = player)
    /\ \A c \in DOMAIN players, s \in 1..started :
         playerOf[s] = players[c] => camOf[s] = c /\ pc[s] \notin {"erased", "done"}
    /\ \A p \in Sessions : handleOf[p] # None =>
         handleOf[p] \in 1..started /\ playerOf[handleOf[p]] = p

(* ... and once prediction is switched off for good, a handle thread that  *)
(* tests its loop ends.                                                    *)
Workers ==
    \A s \in Sessions :
        /\ pc[s] \in {"none"} \union Building => worker[s] = "none"
        /\ pc[s] \in {"grace"} \union TakenDown => ~predictionFlag[s]
        /\ (pc[s] = "grace" /\ settled[s]) \/ pc[s] \in TakenDown => worker[s] = "end"

(* Line 102 admits one camera more than maxstream, and never two: what the *)
(* session threads erase between its test and the insertion only helps.    *)
PlayersBounded == Cardinality(DOMAIN players) =< MaxStream + 1

(* Neither that nor a slow handle thread goes beyond the limits of config: *)
(* a queue, of a file apart, that is full has one frame more.              *)
LimitsHold ==
    /\ PlayersBounded
    /\ \A s \in Sessions : queue[s] > QueueLimit + 1 => camOf[s] \in Offline

(* A place in players is held by a session that is still to erase it, or   *)
(* by the request that is about to start one: sessions that end in any     *)
(* order, also two of one camera, never leave a place taken for ever.      *)
PlacesAreHeld ==
    \A c \in DOMAIN players :
        \/ \E s \in Sessions : camOf[s] = c /\ pc[s] \notin {"none", "erased", "done"}
        \/ httpPc = "test" /\ request.add = c

(* The handle thread never touches a CameraHandle that was deleted,        *)
(* although it is detached and nothing joins it: switching prediction off  *)
(* and the grace suffice as long as a call of Handle is shorter.           *)
WorkerGoneBeforeDelete ==
    \A s \in Sessions : pc[s] \in TakenDown => worker[s] \in {"none", "end"}

IInv ==
    /\ TypeOK
    /\ Threads
    /\ Handler
    /\ Ownership
    /\ Workers
    /\ PlayersBounded
    /\ PlacesAreHeld

(* Every session that pulls can be stopped: its camera's Player leads to   *)
(* it, and to no other.                                                    *)
PullingIsReachable ==
    \A s \in Sessions : pc[s] \in Pulling =>
        camOf[s] \in DOMAIN players /\ handleOf[players[camOf[s]]] = s

(* The drain of CameraPull.cpp:77 waits for a handle thread that is gone.  *)
Stranded(s) == pc[s] = "drain" /\ queue[s] > 0 /\ worker[s] = "end"

=============================================================================
