------------------------------- MODULE Faces -------------------------------
(***************************************************************************)
(* The recognition of faces (ArcFace.cpp).  A detached thread of the       *)
(* Controller opens the engine of the face SDK and registers every photo   *)
(* of the directory faces; the HTTP thread downloads a new photo into that *)
(* directory and registers it (AddFace); each camera hands some of its     *)
(* frames to a pool of one thread, whose task looks for registered faces   *)
(* in it.  A task only tries the lock and lets its frame go without; the   *)
(* two threads that register do not take it.                               *)
(*                                                                         *)
(* The SDK is closed: it takes a face or refuses it.  Left out: images,    *)
(* conversions of names, and which faces are found in a frame.             *)
(***************************************************************************)
EXTENDS Integers, Sequences, FiniteSets

CONSTANTS Cams,      \* camera ids
          Files,     \* the names a photo can have
          MaxAdds,   \* bound on the requests of AddFace
          MaxFrames, \* bound on the frames that are handed over
          None       \* no camera, no face

ASSUME AddsAssumption == MaxAdds \in Nat /\ MaxFrames \in Nat
ASSUME NoneAssumption == None \notin Cams \union Files

VARIABLES
    dir,         \* photo -> "none", "part" or "full": what is in the directory
    initPc,      \* where the thread of Init is
    todo,        \* the directory as it was listed, as far as it is not done
    status,      \* ArcFace::status
    initEnd,     \* ArcFace::initEnd
    addPc,       \* where the HTTP thread is in AddFace
    adds,        \* how many requests there were
    reg,         \* thread -> where it is in registerSingle, and with what
    faceNum,     \* ArcFace::faceNum
    register,    \* the faces the engine knows, with their search ids
    lock,        \* the camera whose task holds ArcFace::m_mutex
    cam,         \* camera -> "on", "waiting" for its tasks or "deleted"
    frames,      \* how many frames were handed over, by which they are numbered
    tasks,       \* camera -> thread_pool::tasks
    tasksTotal,  \* camera -> thread_pool::tasks_total
    task,        \* camera -> what the thread of its pool is at
    faceBoxes,   \* camera -> the frame CameraHandle::faceBoxes is of
    refused,     \* history: photos the engine did not take
    mixed,       \* history: ids were given by two threads at a time, or lowered
    crashed      \* an engine that was not opened was used and the process is gone

initVars == <<initPc, todo, status, initEnd>>
addVars == <<addPc, adds>>
engineVars == <<reg, faceNum, register, refused, mixed>>
poolVars == <<frames, tasks, tasksTotal>>
taskVars == <<lock, task, faceBoxes>>
vars == <<dir, initVars, addVars, engineVars, cam, poolVars, taskVars, crashed>>

Threads == {"init", "http"}
Other(t) == CHOOSE u \in Threads : u # t

(* ASFInitEngine was called and did not fail.                              *)
Ready == status

----------------------------------------------------------------------------
(* registerSingle, in either thread.                                       *)

Idle == [at |-> "out", file |-> None, read |-> "none"]

Registers(t, f) == reg' = [reg EXCEPT ![t] = [Idle EXCEPT !.at = "load", !.file = f]]
At(t, at) == reg' = [reg EXCEPT ![t].at = at]
Returns(t) == reg' = [reg EXCEPT ![t] = Idle]
Refuses(t) == refused' = refused \union {f \in {reg[t].file} : reg[t].read = "full"}

(* Lines 143-146: a photo that is being written may be read as an image,   *)
(* or not.                                                                 *)
Load(t) ==
    /\ reg[t].at = "load"
    /\ \E image \in BOOLEAN :
        /\ dir[reg[t].file] = "full" => image
        /\ dir[reg[t].file] = "none" => ~image
        /\ reg' = IF image
                  THEN [reg EXCEPT ![t].at = "detect",
                                   ![t].read = dir[reg[t].file]]
                  ELSE [reg EXCEPT ![t] = Idle]
    /\ UNCHANGED <<dir, initVars, addVars, faceNum, register, refused, mixed>>
    /\ UNCHANGED <<cam, poolVars, taskVars, crashed>>

(* Lines 152-171: there is a face with its feature, or there is not.       *)
Detect(t) ==
    /\ reg[t].at = "detect" /\ Ready
    /\ \/ At(t, "enrol") /\ UNCHANGED refused
       \/ Returns(t) /\ Refuses(t)
    /\ UNCHANGED <<dir, initVars, addVars, faceNum, register, mixed>>
    /\ UNCHANGED <<cam, poolVars, taskVars, crashed>>

(* Line 152 with an engineHandle nobody has assigned: an error or the end. *)
DetectUnready(t) ==
    /\ reg[t].at = "detect" /\ ~Ready
    /\ crashed' \in BOOLEAN
    /\ Returns(t)
    /\ UNCHANGED <<dir, initVars, addVars, faceNum, register, refused, mixed>>
    /\ UNCHANGED <<cam, poolVars, taskVars>>

(* Lines 174-177: whether the engine takes the face is not looked at.      *)
Enrol(t) ==
    /\ reg[t].at = "enrol"
    /\ \/ /\ register' = Append(register, [face |-> reg[t].file, id |-> faceNum])
          /\ UNCHANGED refused
       \/ Refuses(t) /\ UNCHANGED register
    /\ At(t, "count")
    /\ mixed' = (mixed \/ reg[Other(t)].at = "count")
    /\ UNCHANGED <<dir, initVars, addVars, faceNum>>
    /\ UNCHANGED <<cam, poolVars, taskVars, crashed>>

(* Mutant: faces are not counted.                                          *)
CountNever(t) ==
    /\ reg[t].at = "count"
    /\ Returns(t)
    /\ UNCHANGED <<dir, initVars, addVars, faceNum, register, refused, mixed>>
    /\ UNCHANGED <<cam, poolVars, taskVars, crashed>>

(* Line 180; what two threads lose by counting at a time, mixed covers.    *)
Count(t) ==
    /\ reg[t].at = "count"
    /\ faceNum' = faceNum + 1
    /\ Returns(t)
    /\ UNCHANGED <<dir, initVars, addVars, register, refused, mixed>>
    /\ UNCHANGED <<cam, poolVars, taskVars, crashed>>

RegisterSingle(t) ==
    Load(t) \/ Detect(t) \/ DetectUnready(t) \/ Enrol(t) \/ Count(t)

----------------------------------------------------------------------------
(* Init.                                                                   *)

(* Lines 13, 205-221: without a licence or an engine there are no faces.   *)
Recognition ==
    /\ initPc = "start"
    /\ status' \in BOOLEAN
    /\ initPc' = IF status' THEN "list" ELSE "end"
    /\ UNCHANGED <<dir, todo, initEnd, addVars, engineVars, cam, poolVars, taskVars, crashed>>

(* Lines 186-187.                                                          *)
ListDir ==
    /\ initPc = "list"
    /\ todo' = {f \in Files : dir[f] # "none"}
    /\ initPc' = "files"
    /\ UNCHANGED <<dir, status, initEnd, addVars, engineVars, cam, poolVars, taskVars, crashed>>

(* Lines 189-193.                                                          *)
NextFile ==
    /\ initPc = "files" /\ reg["init"].at = "out"
    /\ \E f \in todo : Registers("init", f) /\ todo' = todo \ {f}
    /\ UNCHANGED <<dir, initPc, status, initEnd, addVars, faceNum, register, refused, mixed>>
    /\ UNCHANGED <<cam, poolVars, taskVars, crashed>>

(* Mutant: the loop is left at the first file.                             *)
GetFaceCountEarly ==
    /\ initPc = "files" /\ reg["init"].at = "out"
    /\ faceNum' = Len(register)
    /\ mixed' = (mixed \/ reg["http"].at = "count" \/ Len(register) < faceNum)
    /\ initPc' = "end"
    /\ UNCHANGED <<dir, todo, status, initEnd, addVars, reg, register, refused>>
    /\ UNCHANGED <<cam, poolVars, taskVars, crashed>>

(* Line 198; a count that fails leaves faceNum alone.                      *)
GetFaceCount ==
    /\ initPc = "files" /\ reg["init"].at = "out" /\ todo = {}
    /\ \/ /\ faceNum' = Len(register)
          /\ mixed' = (mixed \/ reg["http"].at = "count" \/ Len(register) < faceNum)
       \/ UNCHANGED <<faceNum, mixed>>
    /\ initPc' = "end"
    /\ UNCHANGED <<dir, todo, status, initEnd, addVars, reg, register, refused>>
    /\ UNCHANGED <<cam, poolVars, taskVars, crashed>>

(* Line 17.                                                                *)
InitEnds ==
    /\ initPc = "end"
    /\ initEnd' = TRUE
    /\ initPc' = "done"
    /\ UNCHANGED <<dir, todo, status, addVars, engineVars, cam, poolVars, taskVars, crashed>>

InitStep == Recognition \/ ListDir \/ NextFile \/ GetFaceCount \/ InitEnds

----------------------------------------------------------------------------
(* Controller::AddFace, in the HTTP thread.                                *)

(* Line 59: httpDownload opens the file before anything else.              *)
AddFace(f) ==
    /\ addPc = None /\ reg["http"].at = "out" /\ adds < MaxAdds
    /\ adds' = adds + 1
    /\ dir' = [dir EXCEPT ![f] = "part"]
    /\ addPc' = f
    /\ UNCHANGED <<initVars, engineVars, cam, poolVars, taskVars, crashed>>

(* watchai.cpp:214, 239: what came is not looked at, a page of an error    *)
(* counts as a photo.  Lines 62-64.                                        *)
Downloaded ==
    /\ addPc # None
    /\ \E got \in {"part", "full"} : dir' = [dir EXCEPT ![addPc] = got]
    /\ Registers("http", addPc)
    /\ addPc' = None
    /\ UNCHANGED <<initVars, adds, faceNum, register, refused, mixed>>
    /\ UNCHANGED <<cam, poolVars, taskVars, crashed>>

(* Line 61: what has come stays in the directory.                          *)
DownloadFails ==
    /\ addPc # None
    /\ addPc' = None
    /\ UNCHANGED <<dir, initVars, adds, engineVars, cam, poolVars, taskVars, crashed>>

HttpStep == (\E f \in Files : AddFace(f)) \/ Downloaded \/ DownloadFails

----------------------------------------------------------------------------
(* A camera and its pool of one thread (thread_pool.hpp).                  *)

(* CameraHandle.cpp:529, thread_pool.hpp:172-179: the count and the queue  *)
(* in one step, as nobody waits for the tasks of a camera that is on.      *)
PushTask(c) ==
    /\ cam[c] = "on" /\ frames < MaxFrames
    /\ frames' = frames + 1
    /\ tasks' = [tasks EXCEPT ![c] = Append(@, frames + 1)]
    /\ tasksTotal' = [tasksTotal EXCEPT ![c] = @ + 1]
    /\ UNCHANGED <<dir, initVars, addVars, engineVars, cam, taskVars, crashed>>

(* CameraHandle.cpp:645-650: Handle is through when the grace is over, see *)
(* CameraSession.                                                          *)
GraceEnds(c) ==
    /\ cam[c] = "on"
    /\ cam' = [cam EXCEPT ![c] = "waiting"]
    /\ UNCHANGED <<dir, initVars, addVars, engineVars, poolVars, taskVars, crashed>>

(* Mutant: only the queue is asked.                                        *)
WaitForQueue(c) ==
    /\ cam[c] = "waiting" /\ tasks[c] = <<>>
    /\ cam' = [cam EXCEPT ![c] = "deleted"]
    /\ UNCHANGED <<dir, initVars, addVars, engineVars, poolVars, taskVars, crashed>>

(* thread_pool.hpp:291-304, Controller.cpp:125.                            *)
WaitForTasks(c) ==
    /\ cam[c] = "waiting" /\ tasksTotal[c] = 0
    /\ cam' = [cam EXCEPT ![c] = "deleted"]
    /\ UNCHANGED <<dir, initVars, addVars, engineVars, poolVars, taskVars, crashed>>

(* Mutant: the task that came last is taken.                               *)
PopLast(c) ==
    /\ task[c].at = "idle" /\ tasks[c] # <<>>
    /\ task' = [task EXCEPT ![c].at = "try", ![c].frame = tasks[c][Len(tasks[c])]]
    /\ tasks' = [tasks EXCEPT ![c] = SubSeq(@, 1, Len(@) - 1)]
    /\ UNCHANGED <<dir, initVars, addVars, engineVars, cam, frames, tasksTotal>>
    /\ UNCHANGED <<lock, faceBoxes, crashed>>

(* thread_pool.hpp:354-365.                                                *)
PopTask(c) ==
    /\ task[c].at = "idle" /\ tasks[c] # <<>>
    /\ task' = [task EXCEPT ![c].at = "try", ![c].frame = Head(tasks[c])]
    /\ tasks' = [tasks EXCEPT ![c] = Tail(@)]
    /\ UNCHANGED <<dir, initVars, addVars, engineVars, cam, frames, tasksTotal>>
    /\ UNCHANGED <<lock, faceBoxes, crashed>>

(* Mutant: a task without the lock is not counted off.                     *)
TryLockOnce(c) ==
    /\ task[c].at = "try"
    /\ \/ /\ lock = None
          /\ lock' = c
          /\ task' = [task EXCEPT ![c].at = "test"]
       \/ /\ lock # None
          /\ task' = [task EXCEPT ![c].at = "idle"]
          /\ UNCHANGED lock
    /\ UNCHANGED <<dir, initVars, addVars, engineVars, cam, poolVars, faceBoxes, crashed>>

(* Mutant: the task waits for the lock.                                    *)
TryLockWaits(c) ==
    /\ task[c].at = "try"
    /\ lock = None
    /\ lock' = c
    /\ task' = [task EXCEPT ![c].at = "test"]
    /\ UNCHANGED <<dir, initVars, addVars, engineVars, cam, poolVars, faceBoxes, crashed>>

(* Line 22: a frame that does not get the lock has no faces.               *)
TryLock(c) ==
    /\ task[c].at = "try"
    /\ \/ /\ lock = None
          /\ lock' = c
          /\ task' = [task EXCEPT ![c].at = "test"]
       \/ /\ lock # None
          /\ task' = [task EXCEPT ![c].at = "assign"]
          /\ UNCHANGED lock
    /\ UNCHANGED <<dir, initVars, addVars, engineVars, cam, poolVars, faceBoxes, crashed>>

(* Lines 23-26.                                                            *)
ReturnEarly(c) ==
    /\ task[c].at = "test" /\ ~(status /\ initEnd)
    /\ lock' = None
    /\ task' = [task EXCEPT ![c].at = "assign"]
    /\ UNCHANGED <<dir, initVars, addVars, engineVars, cam, poolVars, faceBoxes, crashed>>

(* Mutant: whether Init has ended is not asked.                            *)
SearchEarly(c) ==
    /\ task[c].at = "test" /\ status
    /\ task' = [task EXCEPT ![c].at = "search"]
    /\ UNCHANGED <<dir, initVars, addVars, engineVars, cam, poolVars, lock, faceBoxes, crashed>>

(* Line 23: the engine is searched.                                        *)
Search(c) ==
    /\ task[c].at = "test" /\ status /\ initEnd
    /\ task' = [task EXCEPT ![c].at = "search"]
    /\ UNCHANGED <<dir, initVars, addVars, engineVars, cam, poolVars, lock, faceBoxes, crashed>>

(* Lines 28-79.                                                            *)
SearchEnds(c) ==
    /\ task[c].at = "search"
    /\ lock' = None
    /\ task' = [task EXCEPT ![c].at = "assign"]
    /\ UNCHANGED <<dir, initVars, addVars, engineVars, cam, poolVars, faceBoxes, crashed>>

(* CameraHandle.cpp:531; what was found is handed on before the task ends. *)
AssignBoxes(c) ==
    /\ task[c].at = "assign"
    /\ faceBoxes' = [faceBoxes EXCEPT ![c] = task[c].frame]
    /\ task' = [task EXCEPT ![c].at = "end"]
    /\ UNCHANGED <<dir, initVars, addVars, engineVars, cam, poolVars, lock, crashed>>

(* thread_pool.hpp:390.                                                    *)
TaskEnds(c) ==
    /\ task[c].at = "end"
    /\ task' = [task EXCEPT ![c].at = "idle"]
    /\ tasksTotal' = [tasksTotal EXCEPT ![c] = @ - 1]
    /\ UNCHANGED <<dir, initVars, addVars, engineVars, cam, frames, tasks>>
    /\ UNCHANGED <<lock, faceBoxes, crashed>>

TaskStep(c) ==
    \/ PopTask(c) \/ TryLock(c) \/ ReturnEarly(c) \/ Search(c) \/ SearchEnds(c)
    \/ AssignBoxes(c) \/ TaskEnds(c)

CameraStep(c) == PushTask(c) \/ GraceEnds(c) \/ WaitForTasks(c)

----------------------------------------------------------------------------
Init ==
    /\ dir \in [Files -> {"none", "full"}]
    /\ initPc = "start" /\ todo = {} /\ status = FALSE /\ initEnd = FALSE
    /\ addPc = None /\ adds = 0
    /\ reg = [t \in Threads |-> Idle]
    /\ faceNum = 0 /\ register = <<>>
    /\ lock = None
    /\ cam = [c \in Cams |-> "on"]
    /\ frames = 0
    /\ tasks = [c \in Cams |-> <<>>]
    /\ tasksTotal = [c \in Cams |-> 0]
    /\ task = [c \in Cams |-> [at |-> "idle", frame |-> 0]]
    /\ faceBoxes = [c \in Cams |-> 0]
    /\ refused = {} /\ mixed = FALSE /\ crashed = FALSE

Next ==
    /\ ~crashed
    /\ \/ InitStep \/ HttpStep
       \/ \E t \in Threads : RegisterSingle(t)
       \/ \E c \in Cams : TaskStep(c) \/ CameraStep(c)

Spec == Init /\ [][Next]_vars

(* The threads of the pools and the sessions that wait for them are        *)
(* scheduled; nothing is said of Init, of clients and of the streams.      *)
Runs(c) == WF_vars(~crashed /\ TaskStep(c)) /\ WF_vars(~crashed /\ WaitForTasks(c))

FairSpec == Spec /\ \A c \in Cams : Runs(c)

----------------------------------------------------------------------------
RegStages == {"out", "load", "detect", "enrol", "count"}
TaskStages == {"idle", "try", "test", "search", "assign", "end"}

Registrations == [at : RegStages, file : Files \union {None}, read : {"none", "part", "full"}]
KnownFaces == [face : Files, id : Nat]
FrameNumbers == 0..MaxFrames
FaceTasks == [at : TaskStages, frame : FrameNumbers]

(* Of the flags of ArcFace and of what Init and AddFace do.                *)
InitTypeOK ==
    /\ dir \in [Files -> {"none", "part", "full"}]
    /\ initPc \in {"start", "list", "files", "end", "done"}
    /\ todo \subseteq Files
    /\ status \in BOOLEAN /\ initEnd \in BOOLEAN
    /\ addPc \in Files \union {None} /\ adds \in 0..MaxAdds

(* Of the register; a registration in progress has a photo.                *)
RegisterTypeOK ==
    /\ reg \in [Threads -> Registrations]
    /\ \A t \in Threads : reg[t].at # "out" => reg[t].file \in Files
    /\ faceNum \in Nat
    /\ register \in Seq(KnownFaces)
    /\ refused \subseteq Files
    /\ mixed \in BOOLEAN /\ crashed \in BOOLEAN

(* Of the cameras and their pools.                                         *)
TaskTypeOK ==
    /\ lock \in Cams \union {None}
    /\ cam \in [Cams -> {"on", "waiting", "deleted"}]
    /\ frames \in FrameNumbers
    /\ tasks \in [Cams -> Seq(FrameNumbers)]
    /\ tasksTotal \in [Cams -> Nat]
    /\ task \in [Cams -> FaceTasks]
    /\ faceBoxes \in [Cams -> FrameNumbers]

(* Every variable has its type, and only a name is ever registered.        *)
TypeOK == InitTypeOK /\ RegisterTypeOK /\ TaskTypeOK

Enrolled == {register[i].face : i \in DOMAIN register}
InHand(f) == \E t \in Threads : reg[t].at # "out" /\ reg[t].file = f

(* A photo in the directory is known to the engine, or was refused by it,  *)
(* or is in some thread's hand, once Init is through the directory: none   *)
(* that is added while Init runs falls between the two.                    *)
FilesEnrolled ==
    status /\ initPc \in {"end", "done"} =>
        \A f \in Files : dir[f] = "full" => f \in Enrolled \union refused \/ InHand(f)

(* The lock is held by the task that tests and searches, and by no other:  *)
(* whichever way Run returns the next frame can have it.                   *)
LockReturns == \A c \in Cams : lock = c <=> task[c].at \in {"test", "search"}

(* The lock comes back.  At the end of Init nothing is left to do; only    *)
(* then faces are searched for, and by one task at a time: of all threads  *)
(* only AddFace uses the engine beside a search.                           *)
SearchIsQuiet ==
    /\ LockReturns
    /\ \A c \in Cams : task[c].at = "search" =>
           /\ \A d \in Cams \ {c} : task[d].at # "search"
           /\ status /\ initPc = "done" /\ todo = {} /\ reg["init"].at = "out"

(* Faces have ids of their own as long as one thread at a time registers   *)
(* and the engine's count does not lower faceNum.                          *)
IdsDistinct ==
    ~mixed => \A i, j \in DOMAIN register : i # j => register[i].id # register[j].id

(* When a camera is deleted its pool has no task that would still use it.  *)
TasksGoneBeforeDelete ==
    \A c \in Cams : cam[c] = "deleted" =>
        tasks[c] = <<>> /\ task[c].at = "idle"

(* The faces drawn, and told to the alert centre, are never those of an    *)
(* earlier frame than before.                                              *)
FacesGoForward ==
    [][\A c \in Cams : faceBoxes'[c] >= faceBoxes[c]]_vars

(* No task waits for another, nor for Init or a registration: whatever it  *)
(* is at, it can go on, and a camera whose tasks are counted off is not    *)
(* waited for any longer.                                                  *)
TasksGoOn ==
    ~crashed => \A c \in Cams :
        /\ task[c].at # "idle" \/ tasks[c] # <<>> => ENABLED <<~crashed /\ TaskStep(c)>>_vars
        /\ cam[c] = "waiting" /\ tasksTotal[c] = 0
              => ENABLED <<~crashed /\ WaitForTasks(c)>>_vars

(* A camera that ends is deleted: its tasks come to an end, whichever of   *)
(* them had to do without the lock.                                        *)
CamerasEnd ==
    \A c \in Cams : cam[c] = "waiting" ~> cam[c] = "deleted" \/ crashed

----------------------------------------------------------------------------
(* How the above comes to hold.                                            *)

(* The flags of ArcFace say how far Init is.                               *)
InitInOrder ==
    /\ initEnd <=> initPc = "done"
    /\ initPc = "start" => ~status
    /\ initPc \in {"list", "files"} => status
    /\ initPc # "files" => reg["init"].at = "out" /\ todo = {}
    /\ addPc # None => reg["http"].at = "out"
    /\ \A c \in Cams : task[c].at = "search" => status /\ initEnd

(* Until then a photo is with a thread that is yet to read it, or has read *)
(* all of it.                                                              *)
FilesListed ==
    status /\ initPc # "list" =>
        \A f \in Files : dir[f] = "full" =>
            \/ f \in todo \union Enrolled \union refused
            \/ \E t \in Threads : /\ reg[t].file = f
                                  /\ \/ reg[t].at = "load"
                                     \/ reg[t].at \in {"detect", "enrol"} /\ reg[t].read = "full"

(* faceNum is beyond every id, but for one that is about to be counted.    *)
IdsBelow ==
    ~mixed =>
        /\ \A i, j \in DOMAIN register : i # j => register[i].id # register[j].id
        /\ \A i \in DOMAIN register : register[i].id <= faceNum
        /\ (\A t \in Threads : reg[t].at # "count") =>
              \A i \in DOMAIN register : register[i].id < faceNum

(* tasks_total counts what is queued and what runs.                        *)
TasksCounted ==
    \A c \in Cams :
        /\ task[c].at = "idle" => tasksTotal[c] = Len(tasks[c])
        /\ task[c].at # "idle" => tasksTotal[c] = Len(tasks[c]) + 1
        /\ cam[c] = "deleted" => tasksTotal[c] = 0

(* Frames are handled in the order in which they came.                     *)
TasksInOrder ==
    \A c \in Cams :
        /\ faceBoxes[c] <= task[c].frame /\ task[c].frame <= frames
        /\ \A i \in DOMAIN tasks[c] :
              /\ task[c].frame < tasks[c][i] /\ tasks[c][i] <= frames
              /\ \A j \in DOMAIN tasks[c] : i < j => tasks[c][i] < tasks[c][j]

(* What holds at every step: the lock, the flags, the photos, the ids and  *)
(* the tasks together.                                                     *)
FacesInv ==
    /\ TypeOK /\ LockReturns /\ InitInOrder
    /\ FilesListed /\ IdsBelow
    /\ TasksCounted /\ TasksInOrder

============================================================================
