----------------------------- MODULE Snapshots -----------------------------
(***************************************************************************)
(* The two requests that are answered later, by a message 303 of their own *)
(* thread: SnapPic (SnapHandle) pulls a stream until a detached worker has *)
(* handled one frame; LookPic (PictureHandle) goes through a map of        *)
(* pictures to be downloaded.  Both write what they find into the          *)
(* directory of the day, under a name made of camera and millisecond.      *)
(*                                                                         *)
(* Nobody waits for the worker of a snapshot: not before the report, and   *)
(* not before the SnapHandle is deleted.  Left out: the detection, which   *)
(* finds a person with a head or helmet or does not, and the puller's      *)
(* decoding; see CameraSession for the puller.                             *)
(***************************************************************************)
EXTENDS Integers, FiniteSets, Functions

CONSTANTS Cams,        \* camera ids, ordered as the keys of a std::map are
          Offline,     \* ids that start with "offline"
          QueueLimit,  \* CameraPull.cpp:95, 3
          Midnights,   \* times at which a day begins
          MaxTime,     \* bound on the clock
          MaxThreads,  \* bound on the requests
          MaxSnaps,    \* bound on those of them for a snapshot
          MaxPics,     \* bound on the cameras to be visited at a time
          MaxBacklog,  \* bound on the queue of an offline camera
          None         \* no picture, no time

ASSUME CamsAssumption == Cams \subseteq Nat /\ IsFiniteSet(Cams) /\ Offline \subseteq Cams
ASSUME LimitAssumption == QueueLimit \in Nat
ASSUME BoundAssumption == {MaxTime, MaxThreads, MaxSnaps, MaxPics, MaxBacklog} \subseteq Nat
ASSUME DayAssumption == Midnights \subseteq Nat /\ IsFiniteSet(Midnights)
ASSUME NoneAssumption == None \notin Nat

Threads == 1..MaxThreads
Times == 0..MaxTime
DayOf(time) == Cardinality({m \in Midnights : m <= time})
Days == {DayOf(time) : time \in Times}
Files == [day : Days, cam : Cams, ms : Times]
Contents == UNION {[cs -> Files \union {None}] : cs \in SUBSET Cams}

ASSUME ContentsAssumption == None \notin Contents

VARIABLES
    now,             \* gettimeofday_ms, datetime_now
    crashed,         \* whether the process is gone
    dirs,            \* days that have a directory under static_path
    static,          \* picture file -> the thread whose frame it shows
    temp,            \* <<camera, time>> -> whose download it holds, None if nothing
    kind,            \* thread -> which request it serves
    pc,              \* thread -> where it is
    todo,            \* cameraPics that are still to be visited; for a snapshot its camera
    cam,             \* thread -> the camera in hand
    named,           \* thread -> the time in the name of its picture
    loaded,          \* thread -> the time in the name of its download
    frame,           \* thread -> whose picture it looks at
    result,          \* thread -> camera -> picture file, None for ""
    report,          \* thread -> what it reported, None before
    predictionFlag,  \* SnapHandle::predictionFlag
    pullFlag,        \* CameraPull::flag
    queue,           \* CameraPull::queue, its length
    worker,          \* thread -> where its detached thread is
    born,            \* history: the day the handle was built
    over,            \* history: the stream could not be opened or broke off
    names            \* history: every <<camera, time>> a thread made a name of

fileVars == <<dirs, static, temp>>
lookVars == <<todo, cam, named, loaded, frame>>
snapVars == <<predictionFlag, pullFlag, queue, worker, over>>
historyVars == <<born, names>>
vars == <<now, crashed, fileVars, kind, pc, lookVars, result, report, snapVars, historyVars>>

Kinds == {"none", "snap", "look"}
Pulling == {"open", "loop", "read", "drain", "closed"}
Looking == {"pick", "get", "imread", "write", "url", "remove"}
Pcs == {"none", "post", "wait", "done"} \union Pulling \union Looking

Put(f, x, y) == [z \in DOMAIN f \union {x} |-> IF z = x THEN y ELSE f[z]]
Drop(f, x) == Restrict(f, DOMAIN f \ {x})

Goes(t, from, to) ==
    /\ pc[t] = from
    /\ pc' = [pc EXCEPT ![t] = to]

WorkerGoes(t, from, to) ==
    /\ worker[t] = from
    /\ worker' = [worker EXCEPT ![t] = to]

----------------------------------------------------------------------------
(* The HTTP thread starts a thread and answers at once; the thread builds  *)
(* its handle.                                                             *)

(* Mutant: any directory will do.                                          *)
MadeOnce == IF dirs = {} THEN {DayOf(now)} ELSE dirs

(* The constructors make the directory of the day.                         *)
Made == dirs \union {DayOf(now)}

Serve(t, k, cs, to) ==
    /\ \A u \in Threads : u < t => kind[u] # "none"
    /\ kind[t] = "none"
    /\ Cardinality({v \in Threads \X Cams : v[2] \in todo[v[1]]}) + Cardinality(cs) <= MaxPics
    /\ kind' = [kind EXCEPT ![t] = k]
    /\ todo' = [todo EXCEPT ![t] = cs]
    /\ dirs' = Made
    /\ born' = [born EXCEPT ![t] = DayOf(now)]
    /\ Goes(t, "none", to)

(* A snapshot begins with an empty result, and its worker is started       *)
(* before the pull (SnapHandle.cpp:37-57).                                 *)
SnapPic(t, c) ==
    /\ Cardinality({u \in Threads : kind[u] = "snap"}) < MaxSnaps
    /\ Serve(t, "snap", {c}, "open")
    /\ cam' = [cam EXCEPT ![t] = c]
    /\ result' = [result EXCEPT ![t] = [x \in {c} |-> None]]
    /\ predictionFlag' = [predictionFlag EXCEPT ![t] = TRUE]
    /\ worker' = [worker EXCEPT ![t] = "test"]
    /\ UNCHANGED <<now, crashed, static, temp, named, loaded, frame, report, pullFlag, queue, over,
                   names>>

(* Of several entries for a camera the first counts; there may be none.    *)
LookPic(t, cs) ==
    /\ Serve(t, "look", cs, "pick")
    /\ UNCHANGED <<now, crashed, static, temp, cam, named, loaded, frame, result, report, snapVars,
                   names>>

----------------------------------------------------------------------------
(* Common to both: the pictures and the report.                            *)

(* writeImg: imwrite does nothing when the directory is not there.  The    *)
(* time and the day of the path are read together, that of the URL after   *)
(* the file is written.                                                    *)
WriteImg(t) ==
    LET file == [day |-> DayOf(now), cam |-> cam[t], ms |-> now]
    IN  /\ static' = IF file.day \in dirs THEN Put(static, file, frame[t]) ELSE static
        /\ named' = [named EXCEPT ![t] = now]
        /\ names' = [names EXCEPT ![t] = @ \union {<<cam[t], now>>}]

Url(t) == [day |-> DayOf(now), cam |-> cam[t], ms |-> named[t]]

(* sendEventMsg; the POST is made once, and may fail.  A worker that is    *)
(* just assigning the result races with it: what is read is the old URL,   *)
(* the new one, or no string at all.                                       *)
Post(t) ==
    /\ Goes(t, "post", IF kind[t] = "snap" THEN "wait" ELSE "done")
    /\ report' = [report EXCEPT ![t] = result[t]]
    /\ crashed' \in {FALSE, worker[t] = "url"}
    /\ UNCHANGED <<now, fileVars, kind, lookVars, result, snapVars, historyVars>>

(* Controller.cpp:201, after another wait of 5 ms.                         *)
Delete(t) ==
    /\ Goes(t, "wait", "done")
    /\ UNCHANGED <<now, crashed, fileVars, kind, lookVars, result, report, snapVars, historyVars>>

----------------------------------------------------------------------------
(* The thread of a snapshot in CameraPull::start.                          *)

Open(t) ==
    /\ Goes(t, "open", "loop")
    /\ pullFlag' = [pullFlag EXCEPT ![t] = TRUE]
    /\ UNCHANGED <<now, crashed, fileVars, kind, lookVars, result, report, predictionFlag, queue,
                   worker, over, historyVars>>

OpenFails(t) ==
    /\ Goes(t, "open", "closed")
    /\ over' = [over EXCEPT ![t] = TRUE]
    /\ UNCHANGED <<now, crashed, fileVars, kind, lookVars, result, report, predictionFlag, pullFlag,
                   queue, worker, historyVars>>

Loop(t) ==
    /\ Goes(t, "loop", IF pullFlag[t] THEN "read" ELSE "closed")
    /\ UNCHANGED <<now, crashed, fileVars, kind, lookVars, result, report, snapVars, historyVars>>

(* The oldest frame of a stream gives way, that of a file does not.        *)
Pushed(t) == IF queue[t] > QueueLimit /\ cam[t] \notin Offline THEN queue[t] ELSE queue[t] + 1

ReadFrame(t) ==
    /\ Goes(t, "read", "loop")
    /\ cam[t] \in Offline => queue[t] < MaxBacklog
    /\ queue' = [queue EXCEPT ![t] = Pushed(t)]
    /\ UNCHANGED <<now, crashed, fileVars, kind, lookVars, result, report, predictionFlag, pullFlag,
                   worker, over, historyVars>>

ReadOther(t) ==
    /\ Goes(t, "read", "loop")
    /\ UNCHANGED <<now, crashed, fileVars, kind, lookVars, result, report, snapVars, historyVars>>

ReadFails(t) ==
    /\ Goes(t, "read", "drain")
    /\ over' = [over EXCEPT ![t] = TRUE]
    /\ UNCHANGED <<now, crashed, fileVars, kind, lookVars, result, report, predictionFlag, pullFlag,
                   queue, worker, historyVars>>

(* Mutant: the end of the stream is taken for the end of the pull.         *)
DrainedWhenStopped(t) ==
    /\ queue[t] = 0
    /\ ~pullFlag[t]
    /\ Goes(t, "drain", "closed")
    /\ UNCHANGED <<now, crashed, fileVars, kind, lookVars, result, report, snapVars, historyVars>>

(* CameraPull.cpp:77: until the worker has emptied the queue.              *)
Drained(t) ==
    /\ queue[t] = 0
    /\ Goes(t, "drain", "closed")
    /\ UNCHANGED <<now, crashed, fileVars, kind, lookVars, result, report, snapVars, historyVars>>

(* CameraPull.cpp:107, SnapHandle.cpp:60.                                  *)
EndPrediction(t) ==
    /\ Goes(t, "closed", "post")
    /\ pullFlag' = [pullFlag EXCEPT ![t] = FALSE]
    /\ predictionFlag' = [predictionFlag EXCEPT ![t] = FALSE]
    /\ UNCHANGED <<now, crashed, fileVars, kind, lookVars, result, report, queue, worker, over,
                   historyVars>>

----------------------------------------------------------------------------
(* The detached thread of a snapshot, as long as its SnapHandle is there.  *)

Deleted(t) == pc[t] = "done"

(* Mutant: the pull is stopped as soon as there is a frame.                *)
WorkerTakesAndStops(t) ==
    /\ predictionFlag[t]
    /\ queue[t] > 0
    /\ WorkerGoes(t, "test", "handle")
    /\ queue' = [queue EXCEPT ![t] = @ - 1]
    /\ pullFlag' = [pullFlag EXCEPT ![t] = FALSE]
    /\ frame' = [frame EXCEPT ![t] = t]
    /\ UNCHANGED <<now, crashed, fileVars, kind, pc, todo, cam, named, loaded, result, report,
                   predictionFlag, over, historyVars>>

(* SnapHandle.cpp:45-50; without a frame it tries again.                   *)
WorkerTakes(t) ==
    /\ predictionFlag[t]
    /\ queue[t] > 0
    /\ WorkerGoes(t, "test", "handle")
    /\ queue' = [queue EXCEPT ![t] = @ - 1]
    /\ frame' = [frame EXCEPT ![t] = t]
    /\ UNCHANGED <<now, crashed, fileVars, kind, pc, todo, cam, named, loaded, result, report,
                   predictionFlag, pullFlag, over, historyVars>>

WorkerEnds(t) ==
    /\ ~predictionFlag[t]
    /\ WorkerGoes(t, "test", "leaving")
    /\ UNCHANGED <<now, crashed, fileVars, kind, pc, lookVars, result, report, predictionFlag,
                   pullFlag, queue, over, historyVars>>

(* Handle, lines 100-124: no person with a head or helmet, or one.         *)
WorkerFindsNone(t) ==
    /\ WorkerGoes(t, "handle", "stop")
    /\ UNCHANGED <<now, crashed, fileVars, kind, pc, lookVars, result, report, predictionFlag,
                   pullFlag, queue, over, historyVars>>

WorkerFinds(t) ==
    /\ WorkerGoes(t, "handle", "url")
    /\ WriteImg(t)
    /\ UNCHANGED <<now, crashed, dirs, temp, kind, pc, todo, cam, loaded, frame, result, report,
                   predictionFlag, pullFlag, queue, over, born>>

(* Line 126.                                                               *)
WorkerAnswers(t) ==
    /\ WorkerGoes(t, "url", "stop")
    /\ result' = [result EXCEPT ![t] = Put(@, cam[t], Url(t))]
    /\ UNCHANGED <<now, crashed, fileVars, kind, pc, lookVars, report, predictionFlag, pullFlag,
                   queue, over, historyVars>>

(* Lines 52-53: it takes no further frame.                                 *)
WorkerStops(t) ==
    /\ WorkerGoes(t, "stop", "leaving")
    /\ pullFlag' = [pullFlag EXCEPT ![t] = FALSE]
    /\ UNCHANGED <<now, crashed, fileVars, kind, pc, lookVars, result, report, predictionFlag,
                   queue, over, historyVars>>

(* Line 55 reads the id once more.                                         *)
WorkerLeaves(t) ==
    /\ WorkerGoes(t, "leaving", "end")
    /\ UNCHANGED <<now, crashed, fileVars, kind, pc, lookVars, result, report, predictionFlag,
                   pullFlag, queue, over, historyVars>>

(* Whatever it does next it does to a deleted SnapHandle: the memory may   *)
(* still read as it was left, or the process is gone.                      *)
WorkerStrays(t) ==
    /\ Deleted(t)
    /\ worker[t] \notin {"none", "end"}
    /\ worker' = [worker EXCEPT ![t] = "end"]
    /\ crashed' \in BOOLEAN
    /\ UNCHANGED <<now, fileVars, kind, pc, lookVars, result, report, predictionFlag, pullFlag,
                   queue, over, historyVars>>

----------------------------------------------------------------------------
(* PictureHandle::startPrediction.                                         *)

Name(t) == <<cam[t], loaded[t]>>

(* Lines 77-81: the next camera, a name for its download, and the file,    *)
(* which httpDownload opens before it asks for anything.                   *)
Pick(t) ==
    /\ Goes(t, "pick", "get")
    /\ \E c \in todo[t] :
        /\ \A d \in todo[t] : c <= d
        /\ cam' = [cam EXCEPT ![t] = c]
        /\ names' = [names EXCEPT ![t] = @ \union {<<c, now>>}]
        /\ temp' = Put(temp, <<c, now>>, None)
    /\ loaded' = [loaded EXCEPT ![t] = now]
    /\ UNCHANGED <<now, crashed, dirs, static, kind, todo, named, frame, result, report, snapVars,
                   born>>

(* Mutant: nothing is posted when there is nothing to show.                *)
PickNoneSilent(t) ==
    /\ todo[t] = {}
    /\ Goes(t, "pick", IF DOMAIN result[t] = {} THEN "done" ELSE "post")
    /\ UNCHANGED <<now, crashed, fileVars, kind, lookVars, result, report, snapVars, historyVars>>

PickNone(t) ==
    /\ todo[t] = {}
    /\ Goes(t, "pick", "post")
    /\ UNCHANGED <<now, crashed, fileVars, kind, lookVars, result, report, snapVars, historyVars>>

DownloadEnds(t) ==
    /\ Goes(t, "get", "imread")
    /\ temp' = [temp EXCEPT ![Name(t)] = t]
    /\ UNCHANGED <<now, crashed, dirs, static, kind, lookVars, result, report, snapVars,
                   historyVars>>

(* Mutant: the loop is left where it goes on with the next camera.         *)
DownloadFailsBreaks(t) ==
    /\ Goes(t, "get", "post")
    /\ UNCHANGED <<now, crashed, fileVars, kind, lookVars, result, report, snapVars, historyVars>>

(* Lines 83 and 84; what it has written is no picture.                     *)
DownloadFails(t) ==
    /\ Goes(t, "get", "remove")
    /\ UNCHANGED <<now, crashed, fileVars, kind, lookVars, result, report, snapVars, historyVars>>

(* Lines 87-99: a picture with a person to report.                         *)
Finds(t) ==
    /\ Name(t) \in DOMAIN temp
    /\ temp[Name(t)] # None
    /\ Goes(t, "imread", "write")
    /\ frame' = [frame EXCEPT ![t] = temp[Name(t)]]
    /\ UNCHANGED <<now, crashed, fileVars, kind, todo, cam, named, loaded, result, report, snapVars,
                   historyVars>>

(* Mutant: the download of such a picture is not removed.                  *)
FindsNoneKeeps(t) ==
    /\ Goes(t, "imread", "pick")
    /\ todo' = [todo EXCEPT ![t] = @ \ {cam[t]}]
    /\ UNCHANGED <<now, crashed, fileVars, kind, cam, named, loaded, frame, result, report,
                   snapVars, historyVars>>

(* The file is gone, is no picture, or shows none.                         *)
FindsNone(t) ==
    /\ Goes(t, "imread", "remove")
    /\ UNCHANGED <<now, crashed, fileVars, kind, lookVars, result, report, snapVars, historyVars>>

(* Line 121.                                                               *)
Write(t) ==
    /\ Goes(t, "write", "url")
    /\ WriteImg(t)
    /\ UNCHANGED <<now, crashed, dirs, temp, kind, todo, cam, loaded, frame, result, report,
                   snapVars, born>>

Answer(t) ==
    /\ Goes(t, "url", "remove")
    /\ result' = [result EXCEPT ![t] = Put(@, cam[t], Url(t))]
    /\ UNCHANGED <<now, crashed, fileVars, kind, lookVars, report, snapVars, historyVars>>

(* Lines 84, 89 and 125.  A file that another thread has open stays.       *)
Remove(t) ==
    /\ Goes(t, "remove", "pick")
    /\ temp' = IF \E u \in Threads \ {t} : pc[u] = "get" /\ Name(u) = Name(t)
               THEN temp
               ELSE Drop(temp, Name(t))
    /\ todo' = [todo EXCEPT ![t] = @ \ {cam[t]}]
    /\ UNCHANGED <<now, crashed, dirs, static, kind, cam, named, loaded, frame, result, report,
                   snapVars, historyVars>>

----------------------------------------------------------------------------
Tick ==
    /\ now < MaxTime
    /\ now' = now + 1
    /\ UNCHANGED <<crashed, fileVars, kind, pc, lookVars, result, report, snapVars, historyVars>>

Init ==
    /\ now = 0
    /\ crashed = FALSE
    /\ dirs = {}
    /\ static = [f \in {} |-> None]
    /\ temp = [f \in {} |-> None]
    /\ kind = [t \in Threads |-> "none"]
    /\ pc = [t \in Threads |-> "none"]
    /\ todo = [t \in Threads |-> {}]
    /\ cam = [t \in Threads |-> None]
    /\ named = [t \in Threads |-> None]
    /\ loaded = [t \in Threads |-> None]
    /\ frame = [t \in Threads |-> None]
    /\ result = [t \in Threads |-> [c \in {} |-> None]]
    /\ report = [t \in Threads |-> None]
    /\ predictionFlag = [t \in Threads |-> FALSE]
    /\ pullFlag = [t \in Threads |-> FALSE]
    /\ queue = [t \in Threads |-> 0]
    /\ worker = [t \in Threads |-> "none"]
    /\ born = [t \in Threads |-> None]
    /\ over = [t \in Threads |-> FALSE]
    /\ names = [t \in Threads |-> {}]

Request(t) ==
    \/ \E c \in Cams : SnapPic(t, c)
    \/ \E cs \in SUBSET Cams : LookPic(t, cs)

SnapStep(t) ==
    \/ Open(t)
    \/ OpenFails(t)
    \/ Loop(t)
    \/ ReadFrame(t)
    \/ ReadOther(t)
    \/ ReadFails(t)
    \/ Drained(t)
    \/ EndPrediction(t)
    \/ Delete(t)

WorkerRuns(t) ==
    \/ WorkerTakes(t)
    \/ WorkerEnds(t)
    \/ WorkerFindsNone(t)
    \/ WorkerFinds(t)
    \/ WorkerAnswers(t)
    \/ WorkerStops(t)
    \/ WorkerLeaves(t)

WorkerStep(t) ==
    \/ ~Deleted(t) /\ WorkerRuns(t)
    \/ WorkerStrays(t)

LookStep(t) ==
    \/ Pick(t)
    \/ PickNone(t)
    \/ DownloadEnds(t)
    \/ DownloadFails(t)
    \/ Finds(t)
    \/ FindsNone(t)
    \/ Write(t)
    \/ Answer(t)
    \/ Remove(t)

ThreadStep(t) == ~crashed /\ (SnapStep(t) \/ LookStep(t) \/ Post(t))
DetachedStep(t) == ~crashed /\ WorkerStep(t)

Next ==
    \/ ~crashed /\ Tick
    \/ \E t \in Threads : ~crashed /\ Request(t)
    \/ \E t \in Threads : ThreadStep(t) \/ DetachedStep(t)

Spec == Init /\ [][Next]_vars

(* Threads run; av_read_frame, the downloads and the POST return.          *)
Runs(t) == WF_vars(ThreadStep(t)) /\ WF_vars(DetachedStep(t))

FairSpec == Spec /\ \A t \in Threads : Runs(t)

----------------------------------------------------------------------------
(* Correctness.                                                            *)

(* The types of the state: what a thread answers with are files of cameras *)
(* it was asked about; the queue of a stream is short.                     *)
Results(t) ==
    /\ DOMAIN result[t] \subseteq Cams
    /\ result[t] \in [DOMAIN result[t] -> Files \union {None}]

TypeOK ==
    /\ now \in Times
    /\ crashed \in BOOLEAN
    /\ dirs \subseteq Days
    /\ DOMAIN static \subseteq Files
    /\ static \in [DOMAIN static -> Threads]
    /\ DOMAIN temp \subseteq Cams \X Times
    /\ temp \in [DOMAIN temp -> Threads \union {None}]
    /\ kind \in [Threads -> Kinds]
    /\ pc \in [Threads -> Pcs]
    /\ todo \in [Threads -> SUBSET Cams]
    /\ cam \in [Threads -> Cams \union {None}]
    /\ named \in [Threads -> Times \union {None}]
    /\ loaded \in [Threads -> Times \union {None}]
    /\ frame \in [Threads -> Threads \union {None}]
    /\ DOMAIN result = Threads /\ DOMAIN report = Threads
    /\ \A t \in Threads : Results(t)
    /\ predictionFlag \in [Threads -> BOOLEAN]
    /\ pullFlag \in [Threads -> BOOLEAN]
    /\ queue \in [Threads -> Nat]
    /\ \A t \in Threads : queue[t] > QueueLimit + 1 => cam[t] \in Offline
    /\ worker \in [Threads -> {"none", "test", "handle", "url", "stop", "leaving", "end"}]
    /\ born \in [Threads -> Days \union {None}]
    /\ over \in [Threads -> BOOLEAN]
    /\ names \in [Threads -> SUBSET (Cams \X Times)]

ReportIsFinal(t) == report[t] # None => report[t] = result[t] \/ over[t]

(* What a snapshot reports is what its worker will ever have found, except *)
(* when the stream could not be opened or broke off (SnapHandle.cpp:59-62  *)
(* waits for the pull, not for the worker).                                *)
ReportsAreFinal == \A t \in Threads : ReportIsFinal(t)

(* No other thread has made a name of the same camera and millisecond.     *)
Alone(t) == \A u \in Threads \ {t} : names[t] \intersect names[u] = {}

(* A picture that is reported under the day of the request is there, and   *)
(* shows what that request was about, unless another one has used the same *)
(* camera and millisecond in a name (writeImg, and the temp file of        *)
(* PictureHandle.cpp:79).  After midnight it may not be there.             *)
PicturesAreOwn ==
    \A t \in Threads : report[t] # None /\ Alone(t) =>
        \A c \in DOMAIN report[t] :
            LET file == report[t][c]
            IN  file # None /\ file.day = born[t]
                    => file \in DOMAIN static /\ static[file] = t

HasDownload(t) == pc[t] \in {"get", "imread", "write", "url", "remove"}

(* Every file in temp is that of a thread that will still remove it,       *)
(* whichever threads share its name and however the download goes.         *)
DownloadsAreHeld ==
    \A name \in DOMAIN temp : \E t \in Threads : HasDownload(t) /\ Name(t) = name

(* The puller waits for a worker that takes no more frames.                *)
Hung(t) == pc[t] = "drain" /\ queue[t] > 0 /\ worker[t] \in {"leaving", "end"}

(* A thread that has a stream or pictures in hand waits for the queue to   *)
(* be empty only, and a worker that handles a frame for nothing.           *)
ThreadIsDue(t) ==
    \/ pc[t] \in Looking \union {"loop", "read", "closed", "post"}
    \/ pc[t] = "drain" /\ queue[t] = 0

WorkerIsDue(t) ==
    \/ worker[t] \in {"handle", "url", "stop"} /\ ~Deleted(t)
    \/ worker[t] = "test" /\ pc[t] = "drain" /\ queue[t] > 0

(* Neither of the two is ever stuck where it is due.                       *)
ThreadsGoOn ==
    \A t \in Threads : ~crashed =>
        /\ ThreadIsDue(t) => ENABLED <<ThreadStep(t)>>_vars
        /\ WorkerIsDue(t) => ENABLED <<DetachedStep(t)>>_vars

(* A request for pictures is answered, and so is a snapshot that has got a *)
(* frame or whose stream is over, unless it hangs in the drain.            *)
RequestsAreAnswered ==
    \A t \in Threads :
        kind[t] = "look" \/ worker[t] = "handle" \/ over[t]
            ~> report[t] # None \/ Hung(t) \/ crashed

----------------------------------------------------------------------------
(* What a client is promised, see SnapshotPolicy.                          *)

(* The cameras a thread has still to come to a result about.               *)
ToLookAt(t) ==
    IF kind[t] = "snap"
      THEN {c \in todo[t] : worker[t] \notin {"stop", "leaving", "end"}}
      ELSE {c \in todo[t] : pc[t] = "remove" => c # cam[t]}

(* The pictures among results, camera by camera.                           *)
Shown(results) == [c \in Cams |-> IF c \in DOMAIN results THEN results[c] ELSE None]

Answered(t) == IF pc[t] \in {"wait", "done"} THEN Shown(report[t]) ELSE None

Policy == INSTANCE SnapshotPolicy WITH
    Requests <- Threads,
    Pictures <- Files,
    asked <- [t \in Threads |-> kind[t] # "none"],
    open <- [t \in Threads |-> ToLookAt(t)],
    found <- [t \in Threads |-> Shown(result[t])],
    answer <- [t \in Threads |-> Answered(t)],
    broken <- over

(* A request is answered once, when it has a result about every camera it  *)
(* asks about or its stream broke off, with pictures of those cameras,     *)
(* and no result is added afterwards but by the worker of such a stream,   *)
(* which the answer does without.                                          *)
RequestsFollowPolicy == Policy!Spec

----------------------------------------------------------------------------
(* The inductive invariant of SnapshotsProofs.                             *)

(* What a thread has in hand where it is.                                  *)
Hands(t) ==
    /\ kind[t] = "none" <=> pc[t] = "none"
    /\ kind[t] = "none" => DOMAIN result[t] = {}
    /\ pc[t] \in Pulling \union {"wait"} => kind[t] = "snap"
    /\ pc[t] \in Looking => kind[t] = "look"
    /\ worker[t] # "none" => kind[t] = "snap"
    /\ kind[t] = "snap" \/ HasDownload(t) => cam[t] \in Cams
    /\ HasDownload(t) => loaded[t] \in Times
    /\ pc[t] \in {"write", "url"} \/ worker[t] = "handle" => frame[t] \in Threads
    /\ pc[t] = "url" \/ worker[t] = "url" => named[t] \in Times

(* The pull ends by the stop of a worker that is through, or by itself.    *)
Pulls(t) ==
    /\ kind[t] # "snap" => queue[t] = 0
    /\ pc[t] \in Pulling => predictionFlag[t]
    /\ pc[t] = "open" => queue[t] = 0 /\ worker[t] = "test"
    /\ pc[t] \in {"loop", "read"} /\ ~pullFlag[t] => worker[t] \in {"leaving", "end"}
    /\ pc[t] = "drain" => over[t]
    /\ kind[t] = "snap" /\ pc[t] \in {"closed", "post", "wait", "done"}
        => over[t] \/ worker[t] \in {"leaving", "end"}

Reports(t) == report[t] # None => pc[t] \in {"wait", "done"}

(* Every picture was drawn by a thread that has its name among its own, of *)
(* a frame that is the thread's or came under a name it shares; and so for *)
(* the downloads.                                                          *)
Shares(t, u) == u = t \/ names[t] \intersect names[u] # {}

PicturesTraced ==
    \A file \in DOMAIN static :
        \E t \in Threads : <<file.cam, file.ms>> \in names[t] /\ Shares(t, static[file])

DownloadsTraced == \A name \in DOMAIN temp : temp[name] # None => name \in names[temp[name]]

Traced(t, files) ==
    \A c \in DOMAIN files : files[c] # None =>
        /\ <<files[c].cam, files[c].ms>> \in names[t]
        /\ files[c].day = born[t] => files[c] \in DOMAIN static

Draws(t) == pc[t] = "url" \/ worker[t] = "url"

Traces(t) ==
    /\ HasDownload(t) => Name(t) \in names[t]
    /\ pc[t] = "write" \/ worker[t] = "handle" => Shares(t, frame[t])
    /\ Draws(t) => <<cam[t], named[t]>> \in names[t]
    /\ Draws(t) /\ DayOf(now) = born[t] => Url(t) \in DOMAIN static
    /\ kind[t] # "none" => born[t] \in dirs /\ born[t] \in Nat /\ born[t] <= DayOf(now)
    /\ Traced(t, result[t])
    /\ report[t] # None => Traced(t, report[t])

IInv ==
    /\ TypeOK
    /\ ReportsAreFinal
    /\ DownloadsAreHeld
    /\ PicturesTraced
    /\ DownloadsTraced
    /\ \A t \in Threads : Hands(t) /\ Pulls(t) /\ Reports(t) /\ Traces(t)

=============================================================================
