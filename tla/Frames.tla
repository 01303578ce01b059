-------------------------------- MODULE Frames --------------------------------
(***************************************************************************)
(* The frames of a camera, CameraHandle::Handle: which of them are handed  *)
(* to the models, and the timed events, whose alert means that something   *)
(* was NOT seen for time_interval.  The Handle thread walks through the    *)
(* map timeEvents and writes to it while CAMERA_ADD of a running camera    *)
(* clears it and fills it again from the HTTP thread; no lock is taken.    *)
(*                                                                         *)
(* An entry of timeEvents is modelled by its age, the time since the time  *)
(* it holds, up to TimeInterval + 1, and a prediction by its label.  Each  *)
(* access to the map is a step.  When the map was cleared while the loop   *)
(* of handleTimeEvent was at one of its entries, the program may crash, or *)
(* find the end of the map; it is not supposed to go on with garbage.      *)
(***************************************************************************)
EXTENDS Integers

CONSTANTS FrameInterval,  \* appConfig->frame_interval
          TimeInterval,   \* appConfig->time_interval
          Lists,          \* the algorithms clients ask for
          Shows,          \* sets of timed labels a frame may show
          Garbage         \* what frameCount may hold before it is assigned

(* What a list may hold that is part of "aqwl,gzfzr,zzfzr", in the order   *)
(* of a std::map: the three labels and, for the other parts, which no      *)
(* frame shows, the empty name that an empty ALGORITHM_LIST is split into. *)
TimeLabels == {"", "aqwl", "gzfzr", "zzfzr"}
Before == [l \in TimeLabels |->
             CASE l = "" -> {}
               [] l = "aqwl" -> {""}
               [] l = "gzfzr" -> {"", "aqwl"}
               [] l = "zzfzr" -> {"", "aqwl", "gzfzr"}]

ASSUME FrameIntervalAssumption == FrameInterval \in Nat \ {0}
ASSUME TimeIntervalAssumption == TimeInterval \in Nat
ASSUME ShowsAssumption == Shows # {} /\ Shows \subseteq SUBSET TimeLabels
ASSUME GarbageAssumption == Garbage \subseteq Int

VARIABLES
    offline,         \* whether id begins with "offline"
    frameCount,
    algorithm_list,
    timeEvents,
    predictionsBoxes,
    pc,              \* the Handle thread: wait, timers, posted, events, write, crashed
    at,              \* the label its loop is at, or "end"
    left,            \* the predictions its last loop has not come to
    dangling,        \* the entry its iterator is at was erased
    update,          \* the HTTP thread: idle, clear or insert
    todo,            \* the labels it has yet to insert
    skipped,         \* the frames since one was handed to the models
    calm             \* label -> the time since its last alert or sighting

handle == <<frameCount, predictionsBoxes, pc, at, left, skipped>>
http == <<algorithm_list, update, todo>>
vars == <<offline, handle, http, timeEvents, dangling, calm>>

Ages == 0..(TimeInterval + 1)
Older(age) == IF age > TimeInterval THEN age ELSE age + 1

----------------------------------------------------------------------------
(* Lines 439-443: the counter is advanced twice for an offline camera, and *)
(* the first test is overwritten.                                          *)
Due(count) == IF offline THEN (count + 1) % 3 = 0 ELSE count % FrameInterval = 0

(* Mutant: for any camera.                                                 *)
AdvancedTwice(count) == count + 2

Advanced(count) == IF offline THEN count + 2 ELSE count + 1

(* Line 536.                                                               *)
Restart == -(FrameInterval - 1)

(* The entry that follows label l in the map, from the first for "begin".  *)
After(l) ==
    LET later == {k \in DOMAIN timeEvents : l = "begin" \/ l \in Before[k]}
    IN IF later = {} THEN "end"
       ELSE CHOOSE k \in later : \A j \in later : j = k \/ k \in Before[j]

(* Assigning the time to an entry, which is inserted if it is not there.   *)
Fresh(l) ==
    [k \in DOMAIN timeEvents \union {l} |-> IF k = l THEN 0 ELSE timeEvents[k]]

(* A frame that is only drawn and queued, lines 551-593.                   *)
Skip ==
    /\ pc = "wait"
    /\ ~Due(frameCount)
    /\ frameCount' = Advanced(frameCount)
    /\ skipped' = skipped + 1
    /\ UNCHANGED <<offline, http, predictionsBoxes, pc, at, left, timeEvents, dangling, calm>>

(* A frame that is handed to the models, lines 444-541.                    *)
Detect(shown) ==
    /\ pc = "wait"
    /\ Due(frameCount)
    /\ predictionsBoxes' = shown
    /\ left' = shown
    /\ frameCount' = Restart
    /\ skipped' = 0
    /\ pc' = "timers"
    /\ at' = After("begin")
    /\ dangling' = FALSE
    /\ UNCHANGED <<offline, http, timeEvents, calm>>

(* handleTimeEvent, lines 415-432.  Posting takes a while; only then is    *)
(* the entry set to the time.                                              *)
(* Mutant: one too early.                                                  *)
ExpiredEarly == timeEvents[at] >= TimeInterval

Expired == timeEvents[at] > TimeInterval

(* Mutant: the assignment of line 428 is outside the if.                   *)
TimerRestsAnew ==
    /\ pc = "timers" /\ at # "end" /\ ~dangling
    /\ ~Expired
    /\ timeEvents' = [timeEvents EXCEPT ![at] = 0]
    /\ at' = After(at)
    /\ UNCHANGED <<offline, frameCount, predictionsBoxes, pc, left, skipped, http,
                   dangling, calm>>

TimerRests ==
    /\ pc = "timers" /\ at # "end" /\ ~dangling
    /\ ~Expired
    /\ at' = After(at)
    /\ UNCHANGED <<offline, frameCount, predictionsBoxes, pc, left, skipped, http,
                   timeEvents, dangling, calm>>

sendEventMsg ==
    /\ pc = "timers" /\ at # "end" /\ ~dangling
    /\ Expired
    /\ calm' = [calm EXCEPT ![at] = 0]
    /\ pc' = "posted"
    /\ UNCHANGED <<offline, frameCount, predictionsBoxes, at, left, skipped, http,
                   timeEvents, dangling>>

TimerRestarts ==
    /\ pc = "posted" /\ ~dangling
    /\ timeEvents' = [timeEvents EXCEPT ![at] = 0]
    /\ at' = After(at)
    /\ pc' = "timers"
    /\ UNCHANGED <<offline, frameCount, predictionsBoxes, left, skipped, http,
                   dangling, calm>>

TimersEnd ==
    /\ pc = "timers" /\ at = "end"
    /\ pc' = "events"
    /\ UNCHANGED <<offline, frameCount, predictionsBoxes, at, left, skipped, http,
                   timeEvents, dangling, calm>>

(* The iterator is at an entry that was erased.                            *)
Dangle ==
    /\ pc \in {"timers", "posted"} /\ at # "end" /\ dangling
    /\ pc' \in {"events", "crashed"}
    /\ at' = "end"
    /\ UNCHANGED <<offline, frameCount, predictionsBoxes, left, skipped, http,
                   timeEvents, dangling, calm>>

(* Lines 543-549: a prediction with an entry renews it, any other is an    *)
(* event of its own.  The test and the assignment, which may insert the    *)
(* label again, are two accesses.                                          *)
Timed(l) ==
    /\ pc = "events" /\ l \in left
    /\ l \in DOMAIN timeEvents
    /\ pc' = "write"
    /\ at' = l
    /\ UNCHANGED <<offline, frameCount, predictionsBoxes, left, skipped, http,
                   timeEvents, dangling, calm>>

Renew ==
    /\ pc = "write"
    /\ timeEvents' = Fresh(at)
    /\ left' = left \ {at}
    /\ pc' = "events"
    /\ calm' = [calm EXCEPT ![at] = 0]
    /\ UNCHANGED <<offline, frameCount, predictionsBoxes, at, skipped, http, dangling>>

Event(l) ==
    /\ pc = "events" /\ l \in left
    /\ l \notin DOMAIN timeEvents
    /\ left' = left \ {l}
    /\ calm' = [calm EXCEPT ![l] = 0]
    /\ UNCHANGED <<offline, frameCount, predictionsBoxes, pc, at, skipped, http,
                   timeEvents, dangling>>

(* Lines 550-595: the events go to the event centre, the frame is drawn.   *)
Done ==
    /\ pc = "events" /\ left = {}
    /\ pc' = "wait"
    /\ UNCHANGED <<offline, frameCount, predictionsBoxes, at, left, skipped, http,
                   timeEvents, dangling, calm>>

Handle ==
    \/ Skip
    \/ \E shown \in Shows : Detect(shown)
    \/ TimerRests
    \/ sendEventMsg
    \/ TimerRestarts
    \/ TimersEnd
    \/ Dangle
    \/ \E l \in TimeLabels : Timed(l)
    \/ Renew
    \/ \E l \in TimeLabels : Event(l)
    \/ Done

----------------------------------------------------------------------------
(* initTimeEvent, lines 41-55: which labels are timed for a list, those    *)
(* that are part of the string of line 43.                                 *)
TimedFor(list) ==
    (list \intersect TimeLabels) \union (IF "gzfzr" \in list THEN {"zzfzr"} ELSE {})

(* UpdateAlgorithm_list, lines 346-350, in the HTTP thread.                *)
Update(list) ==
    /\ update = "idle" /\ pc # "crashed"
    /\ algorithm_list' = list
    /\ update' = "clear"
    /\ UNCHANGED <<offline, handle, todo, timeEvents, dangling, calm>>

Clear ==
    /\ update = "clear" /\ pc # "crashed"
    /\ timeEvents' = [k \in {} |-> 0]
    /\ dangling' = (dangling \/ (pc \in {"timers", "posted"} /\ at # "end"))
    /\ todo' = TimedFor(algorithm_list)
    /\ update' = "insert"
    /\ UNCHANGED <<offline, handle, algorithm_list, calm>>

(* Mutant: the map is cleared in the loop.                                 *)
InsertOnly(l) ==
    /\ update = "insert" /\ l \in todo /\ pc # "crashed"
    /\ timeEvents' = [k \in {l} |-> 0]
    /\ todo' = todo \ {l}
    /\ UNCHANGED <<offline, handle, algorithm_list, update, dangling, calm>>

Insert(l) ==
    /\ update = "insert" /\ l \in todo /\ pc # "crashed"
    /\ timeEvents' = Fresh(l)
    /\ todo' = todo \ {l}
    /\ UNCHANGED <<offline, handle, algorithm_list, update, dangling, calm>>

Updated ==
    /\ update = "insert" /\ todo = {} /\ pc # "crashed"
    /\ update' = "idle"
    /\ UNCHANGED <<offline, handle, algorithm_list, todo, timeEvents, dangling, calm>>

UpdateGoesOn == Clear \/ (\E l \in TimeLabels : Insert(l)) \/ Updated

(* Time passes, also while the threads are in their loops.                 *)
Tick ==
    /\ pc # "crashed"
    /\ timeEvents' = [l \in DOMAIN timeEvents |-> Older(timeEvents[l])]
    /\ calm' = [l \in TimeLabels |-> Older(calm[l])]
    /\ UNCHANGED <<offline, handle, http, dangling>>

Init ==
    /\ offline \in BOOLEAN
    /\ frameCount \in Garbage
    /\ algorithm_list \in Lists
    /\ timeEvents = [l \in TimedFor(algorithm_list) |-> 0]
    /\ predictionsBoxes = {}
    /\ pc = "wait"
    /\ at = "end"
    /\ left = {}
    /\ dangling = FALSE
    /\ update = "idle"
    /\ todo = {}
    /\ skipped = 0
    /\ calm = [l \in TimeLabels |-> TimeInterval + 1]

Next ==
    \/ Handle
    \/ \E list \in Lists : Update(list)
    \/ UpdateGoesOn
    \/ Tick

Spec == Init /\ [][Next]_vars

(* Frames keep coming, the threads run and time passes.                    *)
Runs == WF_vars(Handle) /\ WF_vars(UpdateGoesOn) /\ WF_vars(Tick)

FairSpec == Spec /\ Runs

----------------------------------------------------------------------------
(* Correctness.                                                            *)

(* The types of the state.                                                 *)
TypeOK ==
    /\ offline \in BOOLEAN
    /\ frameCount \in Int
    /\ algorithm_list \in Lists
    /\ DOMAIN timeEvents \subseteq TimeLabels
    /\ \A l \in DOMAIN timeEvents : timeEvents[l] \in Ages
    /\ predictionsBoxes \in Shows \union {{}}
    /\ pc \in {"wait", "timers", "posted", "events", "write", "crashed"}
    /\ at \in TimeLabels \union {"end"}
    /\ left \subseteq predictionsBoxes
    /\ dangling \in BOOLEAN
    /\ update \in {"idle", "clear", "insert"}
    /\ todo \subseteq TimeLabels
    /\ skipped \in Nat
    /\ calm \in [TimeLabels -> Ages]

(* Whatever frameCount holds at first, at least every frame_interval-th    *)
(* frame of a live camera is handed to the models, and every third of an   *)
(* offline camera, although its counter skips every other number.          *)
EveryPeriod == skipped < (IF offline THEN 3 ELSE FrameInterval)

(* The loop of handleTimeEvent is at an entry that is there, or that was   *)
(* erased under it; the last loop writes a prediction it has not left.     *)
LoopsAreInPlace ==
    /\ pc \in {"timers", "posted"} /\ at # "end" /\ ~dangling => at \in DOMAIN timeEvents
    /\ pc = "posted" => at # "end"
    /\ pc = "write" => at \in left

(* An entry is never older than the label's last alert and last sighting,  *)
(* but for the moment between an alert and the assignment that follows it. *)
EntriesAreFresh ==
    \A l \in DOMAIN timeEvents :
        timeEvents[l] =< calm[l] \/ (pc = "posted" /\ at = l /\ ~dangling)

(* When no update is under way, all labels of the list are timed; a label  *)
(* that is not may be taken for an event of its own.                       *)
TimersInPlace == update = "idle" => TimedFor(algorithm_list) \subseteq DOMAIN timeEvents

(* What an update has cleared it has put back, or is about to.             *)
UpdatesPutBack ==
    update = "insert" => TimedFor(algorithm_list) \subseteq DOMAIN timeEvents \union todo

IInv == TypeOK /\ EntriesAreFresh /\ TimersInPlace /\ LoopsAreInPlace /\ UpdatesPutBack

(* An alert of a timed event is posted only when the label was seen in no  *)
(* earlier frame, and not alerted either, for longer than time_interval,   *)
(* whatever updates do to the map in between.                              *)
AlertsAreDue == [][\A l \in TimeLabels : sendEventMsg /\ at = l => calm[l] > TimeInterval]_vars

(* Something that is asked for and stays away is alerted again and again,  *)
(* if updates do not keep resetting its timer.  (For the empty name the    *)
(* event centre posts nothing, EventCenter.cpp:219-221.)                   *)
AbsenceIsReported ==
    \A l \in TimeLabels \ {""} :
        <>[](/\ pc # "crashed"
             /\ update = "idle"
             /\ l \in TimedFor(algorithm_list)
             /\ l \notin predictionsBoxes)
            => []<>(pc = "posted" /\ at = l)

=============================================================================
