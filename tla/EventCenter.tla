---------------------------- MODULE EventCenter ----------------------------
(***************************************************************************)
(* EventCenter (src/EventCenter.cpp): the detections of all cameras are    *)
(* queued by their handle threads (HandleEvent) and taken one at a time by *)
(* the single thread of messageBus, which counts how often a type of       *)
(* violation was seen in a row (DealEvent) and, when it was often enough,  *)
(* waits for the frames that follow it (eventMsgHandle, filled by          *)
(* pushQueue) and posts an alert with the clip.                            *)
(*                                                                         *)
(* cameraEvent, the result cache of a camera, is shared between the bus    *)
(* and removeCamera, which the session thread of a camera calls, with no   *)
(* lock: DealEvent is cut into the accesses between which it may vanish.   *)
(* SendRecords is the bus thread's own, and goes with the access that      *)
(* follows.                                                                *)
(*                                                                         *)
(* Left out: images, labels and scores, the files written to disk, the     *)
(* content of the clip before the alert (video1), and the locks m_mutex    *)
(* and m_mutex2, each held for one step only.                              *)
(***************************************************************************)
EXTENDS Integers, Sequences, FiniteSets, Functions

CONSTANTS Cameras,      \* camera ids
          Types,        \* event labels
          Faces,        \* names of registered faces
          Muted,        \* the labels of "ydjz,safebelt", which are never posted
          MinCount,     \* EventCenter.cpp:327, "count > 5"
          Gap,          \* EventCenter.cpp:319, 1000 ms
          Interval,     \* config "interval" * 1000 ms
          AfterFrames,  \* EventCenter.cpp:148, 25 * 3
          MaxPolls,     \* EventCenter.cpp:148, 250
          None,         \* no event, no alert, no label
          MaxTime,      \* bound on the clock
          MaxQueue      \* bound on tempQueue, which the code does not bound

ASSUME MinCountAssumption == MinCount \in Nat
ASSUME GapAssumption == Gap \in Nat
ASSUME IntervalAssumption == Interval \in Nat
ASSUME ClipAssumption == AfterFrames \in Nat /\ MaxPolls \in Nat
ASSUME NamesAssumption == IsFiniteSet(Types) /\ IsFiniteSet(Faces)
ASSUME MutedAssumption == Muted \subseteq Types
ASSUME BoundAssumption == MaxTime \in Nat /\ MaxQueue \in Nat

VARIABLES
    now,          \* gettimeofday_ms
    tempQueue,    \* events handed over and not yet taken by the bus
    cached,       \* cameraEvent.count(c) != 0
    tracks,       \* cameraEvent[c].events: label -> MsgEvent
    faces,        \* cameraEvent[c].faces
    SendRecords,  \* SendRecords[c].eventsRecord, Never when absent
    video2,       \* cameraVideo[c].video2: afterid -> frames in the clip
    busPc,        \* where the bus thread is
    ev,           \* the event the bus is dealing with
    todoFaces,    \* faces of ev the loop of line 291 has still to visit
    todoTypes,    \* types of ev the loop of line 304 has still to visit
    cur,          \* the type in the loop's body
    waiting,      \* WaitSendEventRecord: the alert whose clip is being filled
    polls,        \* i in eventMsgHandle
    chain,        \* history: the run of sightings, see AlertPolicy
    posts,        \* history: when the alerts that were posted had been raised
    abandoned     \* history: the clips whose alert was given up

Never == -1
Needed == MinCount + 2

(* The lasttime of zero that operator[] leaves in a new MsgEvent: 1970, a  *)
(* Gap or more before any event.                                           *)
Ancient == -(Gap + 1)

Policy == INSTANCE AlertPolicy WITH alert <- SendRecords

cacheVars == <<cached, tracks, faces>>
loopVars == <<ev, todoFaces, todoTypes, cur>>
alertVars == <<SendRecords, waiting, polls, posts, abandoned>>
vars == <<now, tempQueue, cacheVars, video2, busPc, loopVars, alertVars,
          chain>>

Times == Nat
MsgEvents == [count : Nat, lasttime : Times \union {Ancient}]
IsMap(f, S, T) == DOMAIN f \subseteq S /\ f \in [DOMAIN f -> T]
Put(f, x, y) == [z \in DOMAIN f \union {x} |-> IF z = x THEN y ELSE f[z]]
Drop(f, x) == Restrict(f, DOMAIN f \ {x})
Empty == [z \in {} |-> 0]

Events == [cam : Cameras, types : SUBSET Types, faces : SUBSET Faces, time : Times]
Alerts == [cam : Cameras, type : Types, at : Times]

(* The bus thread is counting a type of its event, or alerting of it.      *)
Counting == {"age", "drop", "touch", "count", "more", "clip"}
Alerting == {"mark", "forget", "wait"}
Pcs == {"idle", "faces", "enter", "types", "end"} \union Counting \union Alerting

----------------------------------------------------------------------------
(* The producers.                                                          *)

Tick ==
    /\ now < MaxTime
    /\ now' = now + 1
    /\ UNCHANGED <<tempQueue, cacheVars, video2, busPc, loopVars, alertVars,
                   chain>>

(* A handle thread hands over the detections of a frame, or its face task  *)
(* the faces.  The caller has read the clock before it gets m_mutex: of    *)
(* several of them a later one may be first.                               *)
HandleEvent(c, S, F, time) ==
    /\ S # {} \/ F # {}
    /\ Len(tempQueue) < MaxQueue
    /\ tempQueue' = Append(tempQueue, [cam |-> c, types |-> S, faces |-> F, time |-> time])
    /\ UNCHANGED <<now, cacheVars, video2, busPc, loopVars, alertVars, chain>>

(* Every frame goes to the clips still open.  When the bus holds m_mutex2  *)
(* the frame is dropped, which is a stuttering step.                       *)
PushQueue(c) ==
    /\ video2' = [video2 EXCEPT ![c] =
                    [id \in DOMAIN @ |-> IF @[id] < AfterFrames + 1 THEN @[id] + 1 ELSE @[id]]]
    /\ UNCHANGED <<now, tempQueue, cacheVars, busPc, loopVars, alertVars, chain>>

(* Mutant: the records of what was sent go with the camera.                *)
RemoveCameraForgets(c) ==
    /\ cached' = [cached EXCEPT ![c] = FALSE]
    /\ tracks' = [tracks EXCEPT ![c] = Empty]
    /\ faces' = [faces EXCEPT ![c] = {}]
    /\ SendRecords' = [SendRecords EXCEPT ![c] = [t \in Types |-> Never]]
    /\ UNCHANGED <<now, tempQueue, video2, busPc, loopVars, waiting, polls, posts,
                   abandoned, chain>>

(* The session thread of the camera, at its end (Controller.cpp:128).      *)
RemoveCamera(c) ==
    /\ cached' = [cached EXCEPT ![c] = FALSE]
    /\ tracks' = [tracks EXCEPT ![c] = Empty]
    /\ faces' = [faces EXCEPT ![c] = {}]
    /\ UNCHANGED <<now, tempQueue, video2, busPc, loopVars, alertVars, chain>>

----------------------------------------------------------------------------
(* The bus thread.                                                         *)

BusPop ==
    /\ busPc = "idle"
    /\ tempQueue # <<>>
    /\ ev' = Head(tempQueue)
    /\ tempQueue' = Tail(tempQueue)
    /\ todoFaces' = Head(tempQueue).faces
    /\ busPc' = "faces"
    /\ UNCHANGED <<now, cacheVars, video2, todoTypes, cur, alertVars, chain>>

(* operator[] on cameraEvent creates the entry that is not there.          *)
Touch(c) == cached' = [cached EXCEPT ![c] = TRUE]

(* A face the cache does not know is registered there and all faces of the *)
(* frame are posted; what becomes of the post changes no state.            *)
BusFace(f) ==
    /\ busPc = "faces"
    /\ f \in todoFaces
    /\ Touch(ev.cam)
    /\ faces' = [faces EXCEPT ![ev.cam] = @ \union {f}]
    /\ todoFaces' = todoFaces \ {f}
    /\ UNCHANGED <<now, tempQueue, tracks, video2, busPc, ev, todoTypes, cur,
                   alertVars, chain>>

BusFacesDone ==
    /\ busPc = "faces"
    /\ todoFaces = {}
    /\ busPc' = "enter"
    /\ UNCHANGED <<now, tempQueue, cacheVars, video2, loopVars, alertVars, chain>>

SightTypes(c, S, time) ==
    chain' = [chain EXCEPT ![c] =
                [t \in Types |-> IF t \in S THEN Policy!Extend(@[t], time) ELSE @[t]]]

(* Line 301, the camera is cached: the types are gone through one by one.  *)
BusEnter ==
    /\ busPc = "enter"
    /\ cached[ev.cam]
    /\ todoTypes' = ev.types
    /\ busPc' = "types"
    /\ UNCHANGED <<now, tempQueue, cacheVars, video2, ev, todoFaces, cur, alertVars,
                   chain>>

(* Line 361, it is not: all types are seen for the first time, whatever    *)
(* SendRecords says.                                                       *)
BusFirstInit ==
    /\ busPc = "enter"
    /\ ~cached[ev.cam]
    /\ Touch(ev.cam)
    /\ tracks' = [tracks EXCEPT ![ev.cam] =
                    [t \in ev.types |-> [count |-> 1, lasttime |-> ev.time]]]
    /\ SightTypes(ev.cam, ev.types, ev.time)
    /\ busPc' = "end"
    /\ UNCHANGED <<now, tempQueue, faces, video2, loopVars, alertVars>>

(* The check of lines 306-313.                                             *)
Suppressed(c, t) ==
    /\ SendRecords[c][t] # Never
    /\ now - SendRecords[c][t] < Interval

(* What operator[] finds in events: a MsgEvent of zeros when the cache was *)
(* removed since the last access, which it then puts there.                *)
Found(c, t) ==
    IF t \in DOMAIN tracks[c] THEN tracks[c][t] ELSE [count |-> 0, lasttime |-> Ancient]

Store(c, t, event) ==
    /\ Touch(c)
    /\ tracks' = [tracks EXCEPT ![c] = Put(@, t, event)]

(* Lines 306-315 and 352-359: the next type is skipped, added or found to  *)
(* be there.  Nobody but the bus adds one, so that the look of 315 and the *)
(* insertion are as good as one.                                           *)
BusSkip(t) ==
    /\ Suppressed(ev.cam, t)
    /\ SightTypes(ev.cam, {t}, ev.time)
    /\ UNCHANGED <<cached, tracks, busPc, cur>>

BusInsert(t) ==
    /\ ~Suppressed(ev.cam, t)
    /\ t \notin DOMAIN tracks[ev.cam]
    /\ Store(ev.cam, t, [count |-> 1, lasttime |-> ev.time])
    /\ SightTypes(ev.cam, {t}, ev.time)
    /\ UNCHANGED <<busPc, cur>>

BusFinds(t) ==
    /\ ~Suppressed(ev.cam, t)
    /\ t \in DOMAIN tracks[ev.cam]
    /\ Touch(ev.cam)
    /\ cur' = t
    /\ busPc' = "age"
    /\ UNCHANGED <<tracks, chain>>

BusType(t) ==
    /\ busPc = "types"
    /\ t \in todoTypes
    /\ todoTypes' = todoTypes \ {t}
    /\ BusSkip(t) \/ BusInsert(t) \/ BusFinds(t)
    /\ UNCHANGED <<now, tempQueue, faces, video2, ev, todoFaces, alertVars>>

(* Lines 316-319: the time since the last sighting.                        *)
TimeX == ev.time - Found(ev.cam, cur).lasttime

BusOld ==
    /\ busPc = "age"
    /\ TimeX > Gap
    /\ Store(ev.cam, cur, Found(ev.cam, cur))
    /\ busPc' = "drop"
    /\ UNCHANGED <<now, tempQueue, faces, video2, loopVars, alertVars, chain>>

(* Mutant: the age of the last sighting is not looked at.                  *)
BusGoesOnAnyAge ==
    /\ busPc = "age"
    /\ Store(ev.cam, cur, Found(ev.cam, cur))
    /\ SightTypes(ev.cam, {cur}, ev.time)
    /\ busPc' = "touch"
    /\ UNCHANGED <<now, tempQueue, faces, video2, loopVars, alertVars>>

BusGoesOn ==
    /\ busPc = "age"
    /\ TimeX =< Gap
    /\ Store(ev.cam, cur, Found(ev.cam, cur))
    /\ SightTypes(ev.cam, {cur}, ev.time)
    /\ busPc' = "touch"
    /\ UNCHANGED <<now, tempQueue, faces, video2, loopVars, alertVars>>

(* Line 322: too old, the type is dropped and so is this sighting.         *)
BusDrop ==
    /\ busPc = "drop"
    /\ Touch(ev.cam)
    /\ tracks' = [tracks EXCEPT ![ev.cam] = Drop(@, cur)]
    /\ SightTypes(ev.cam, {cur}, ev.time)
    /\ busPc' = "types"
    /\ cur' = None
    /\ UNCHANGED <<now, tempQueue, faces, video2, ev, todoFaces, todoTypes, alertVars>>

(* Line 325: the time of the last sighting.                                *)
BusTouch ==
    /\ busPc = "touch"
    /\ Store(ev.cam, cur, [Found(ev.cam, cur) EXCEPT !.lasttime = ev.time])
    /\ busPc' = "count"
    /\ UNCHANGED <<now, tempQueue, faces, video2, loopVars, alertVars, chain>>

(* Mutant: one sighting too early.                                         *)
BusCountEarly ==
    /\ busPc = "count"
    /\ Store(ev.cam, cur, Found(ev.cam, cur))
    /\ busPc' = IF Found(ev.cam, cur).count >= MinCount THEN "clip" ELSE "more"
    /\ UNCHANGED <<now, tempQueue, faces, video2, loopVars, alertVars, chain>>

(* Line 327: whether there were enough.                                    *)
BusCount ==
    /\ busPc = "count"
    /\ Store(ev.cam, cur, Found(ev.cam, cur))
    /\ busPc' = IF Found(ev.cam, cur).count > MinCount THEN "clip" ELSE "more"
    /\ UNCHANGED <<now, tempQueue, faces, video2, loopVars, alertVars, chain>>

(* Line 349: one more sighting, also of a type that was removed just now.  *)
BusMore ==
    /\ busPc = "more"
    /\ Store(ev.cam, cur, [Found(ev.cam, cur) EXCEPT !.count = @ + 1])
    /\ busPc' = "types"
    /\ cur' = None
    /\ UNCHANGED <<now, tempQueue, faces, video2, ev, todoFaces, todoTypes, alertVars, chain>>

(* Lines 329-340: a clip is opened with the frame of the event.            *)
BusClip ==
    /\ busPc = "clip"
    /\ waiting' = [cam |-> ev.cam, type |-> cur, at |-> now]
    /\ video2' = [video2 EXCEPT ![ev.cam] =
                    Put(@, now, IF now \in DOMAIN @ THEN @[now] + 1 ELSE 1)]
    /\ busPc' = "mark"
    /\ UNCHANGED <<now, tempQueue, cacheVars, loopVars, SendRecords, polls, posts, abandoned, chain>>

(* Lines 342-343: the alert is marked as sent, the count starts again.     *)
BusMark ==
    /\ busPc = "mark"
    /\ SendRecords' = [SendRecords EXCEPT ![ev.cam][cur] = now]
    /\ chain' = [chain EXCEPT ![ev.cam][cur].n = 0]
    /\ Store(ev.cam, cur, [Found(ev.cam, cur) EXCEPT !.count = 0])
    /\ busPc' = "forget"
    /\ UNCHANGED <<now, tempQueue, faces, video2, loopVars, waiting, polls, posts, abandoned>>

(* Lines 344-345: the type is forgotten, and the wait begins.              *)
BusForget ==
    /\ busPc = "forget"
    /\ Touch(ev.cam)
    /\ tracks' = [tracks EXCEPT ![ev.cam] = Drop(@, cur)]
    /\ polls' = 0
    /\ busPc' = "wait"
    /\ UNCHANGED <<now, tempQueue, faces, video2, loopVars, SendRecords, waiting, posts,
                   abandoned, chain>>

----------------------------------------------------------------------------
(* eventMsgHandle: the bus itself waits for the clip.                      *)

ClipSize == IF waiting.at \in DOMAIN video2[waiting.cam] THEN video2[waiting.cam][waiting.at] ELSE 0

ClipReady == ClipSize > AfterFrames \/ polls > MaxPolls

EndWait ==
    /\ waiting' = None
    /\ polls' = 0
    /\ cur' = None
    /\ busPc' = "types"

(* Mutant: i is not counted up.                                            *)
BusPollUncounted ==
    /\ busPc = "wait"
    /\ cached[waiting.cam]
    /\ ~ClipReady
    /\ UNCHANGED vars

BusPollAgain ==
    /\ busPc = "wait"
    /\ cached[waiting.cam]
    /\ ~ClipReady
    /\ polls' = polls + 1
    /\ UNCHANGED <<now, tempQueue, cacheVars, video2, busPc, loopVars, SendRecords,
                   waiting, posts, abandoned, chain>>

(* Lines 142-144: the camera was removed; the clip stays open.             *)
BusAbandon ==
    /\ busPc = "wait"
    /\ ~cached[waiting.cam]
    /\ abandoned' = [abandoned EXCEPT ![waiting.cam] = @ \union {waiting.at}]
    /\ EndWait
    /\ UNCHANGED <<now, tempQueue, cacheVars, video2, ev, todoFaces, todoTypes, SendRecords, posts,
                   chain>>

(* Mutant: the clip is not erased.                                         *)
BusSendKeepsClip(delivered) ==
    /\ busPc = "wait"
    /\ cached[waiting.cam]
    /\ ClipReady
    /\ posts' = IF delivered /\ waiting.type \notin Muted
                  THEN [posts EXCEPT ![waiting.cam][waiting.type] =
                          Append(@, SendRecords[waiting.cam][waiting.type])]
                  ELSE posts
    /\ EndWait
    /\ UNCHANGED <<now, tempQueue, cacheVars, video2, ev, todoFaces, todoTypes,
                   SendRecords, abandoned, chain>>

(* Lines 148-203: the files are written, the alert is posted or the post   *)
(* is lost, and the clip is erased.                                        *)
BusSend(delivered) ==
    /\ busPc = "wait"
    /\ cached[waiting.cam]
    /\ ClipReady
    /\ posts' = IF delivered /\ waiting.type \notin Muted
                  THEN [posts EXCEPT ![waiting.cam][waiting.type] =
                          Append(@, SendRecords[waiting.cam][waiting.type])]
                  ELSE posts
    /\ video2' = [video2 EXCEPT ![waiting.cam] = Drop(@, waiting.at)]
    /\ EndWait
    /\ UNCHANGED <<now, tempQueue, cacheVars, ev, todoFaces, todoTypes, SendRecords, abandoned, chain>>

(* Lines 206-212: writing the files throws; the clip stays open.           *)
BusFail ==
    /\ busPc = "wait"
    /\ cached[waiting.cam]
    /\ ClipReady
    /\ abandoned' = [abandoned EXCEPT ![waiting.cam] = @ \union {waiting.at}]
    /\ EndWait
    /\ UNCHANGED <<now, tempQueue, cacheVars, video2, ev, todoFaces, todoTypes, SendRecords, posts,
                   chain>>

BusTypesDone ==
    /\ busPc = "types"
    /\ todoTypes = {}
    /\ busPc' = "end"
    /\ UNCHANGED <<now, tempQueue, cacheVars, video2, loopVars, alertVars, chain>>

(* Line 374 stores the frame, in an entry it creates if need be.           *)
BusEnd ==
    /\ busPc = "end"
    /\ Touch(ev.cam)
    /\ ev' = None
    /\ busPc' = "idle"
    /\ UNCHANGED <<now, tempQueue, tracks, faces, video2, todoFaces, todoTypes, cur,
                   alertVars, chain>>

----------------------------------------------------------------------------
Init ==
    /\ now = 0
    /\ tempQueue = <<>>
    /\ cached = [c \in Cameras |-> FALSE]
    /\ tracks = [c \in Cameras |-> Empty]
    /\ faces = [c \in Cameras |-> {}]
    /\ SendRecords = [c \in Cameras |-> [t \in Types |-> Never]]
    /\ video2 = [c \in Cameras |-> Empty]
    /\ busPc = "idle"
    /\ ev = None
    /\ todoFaces = {}
    /\ todoTypes = {}
    /\ cur = None
    /\ waiting = None
    /\ polls = 0
    /\ chain = [c \in Cameras |-> [t \in Types |-> Policy!NoChain]]
    /\ posts = [c \in Cameras |-> [t \in Types |-> <<>>]]
    /\ abandoned = [c \in Cameras |-> {}]

BusStep ==
    \/ BusPop
    \/ \E f \in Faces : BusFace(f)
    \/ BusFacesDone
    \/ BusEnter
    \/ BusFirstInit
    \/ \E t \in Types : BusType(t)
    \/ BusOld
    \/ BusGoesOn
    \/ BusDrop
    \/ BusTouch
    \/ BusCount
    \/ BusMore
    \/ BusClip
    \/ BusMark
    \/ BusForget
    \/ BusPollAgain
    \/ BusAbandon
    \/ \E delivered \in BOOLEAN : BusSend(delivered)
    \/ BusFail
    \/ BusTypesDone
    \/ BusEnd

EnvStep ==
    \/ Tick
    \/ \E c \in Cameras :
         \/ \E S \in SUBSET Types, F \in SUBSET Faces, time \in 0..now : HandleEvent(c, S, F, time)
         \/ PushQueue(c)
         \/ RemoveCamera(c)

Next == BusStep \/ EnvStep

Spec == Init /\ [][Next]_vars

(* The bus thread runs as long as the process does.                        *)
FairSpec == Spec /\ WF_vars(BusStep)

----------------------------------------------------------------------------
(* Correctness.                                                            *)

(* The types of the state: maps hold what EventCenter.h declares, the bus   *)
(* is at one of its steps.                                                 *)
TypeOK ==
    /\ now \in Times
    /\ tempQueue \in Seq(Events)
    /\ cached \in [Cameras -> BOOLEAN]
    /\ tracks = [c \in Cameras |-> tracks[c]]
    /\ \A c \in Cameras : IsMap(tracks[c], Types, MsgEvents)
    /\ faces \in [Cameras -> SUBSET Faces]
    /\ SendRecords \in [Cameras -> [Types -> Times \union {Never}]]
    /\ video2 = [c \in Cameras |-> video2[c]]
    /\ \A c \in Cameras : IsMap(video2[c], Times, Nat)
    /\ busPc \in Pcs
    /\ IF busPc = "idle" THEN ev = None ELSE ev \in Events
    /\ todoFaces \in SUBSET Faces
    /\ todoTypes \in SUBSET Types
    /\ IF busPc \in Counting \union Alerting THEN cur \in Types ELSE cur = None
    /\ IF busPc \in Alerting THEN waiting \in Alerts ELSE waiting = None
    /\ polls \in Nat
    /\ chain \in [Cameras -> [Types -> Policy!Runs]]
    /\ posts \in [Cameras -> [Types -> Seq(Times \union {Never})]]
    /\ abandoned \in [Cameras -> SUBSET Times]

(* The parts of the inductive invariant.  No event comes from the future   *)
(* ...                                                                     *)
EventsArePast ==
    /\ \A i \in 1..Len(tempQueue) : tempQueue[i].time =< now
    /\ busPc # "idle" => ev.time =< now

(* ... line 327 counts on MsgEvent alone: whatever was dropped, suppressed *)
(* or removed in between, the count of a type never exceeds the run of     *)
(* sightings that came without a break since its last alert, and a track   *)
(* that exists while alerts of its type are suppressed was just created ... *)
TracksBacked ==
    \A c \in Cameras : \A t \in DOMAIN tracks[c] :
        /\ tracks[c][t].count =< chain[c][t].n
        /\ tracks[c][t].count =< MinCount + 1
        /\ tracks[c][t].lasttime =< chain[c][t].last
        /\ Suppressed(c, t) => tracks[c][t].count =< 1

(* ... the sighting being counted is part of the run already, and when it  *)
(* is alerted the run is long enough ...                                   *)
CurrentBacked ==
    /\ busPc \in Counting \union {"mark"} => ~Suppressed(ev.cam, cur)
    /\ busPc \in {"touch", "count", "more"} =>
         /\ Found(ev.cam, cur).count < chain[ev.cam][cur].n
         /\ chain[ev.cam][cur].last >= ev.time
    /\ busPc = "more" => Found(ev.cam, cur).count =< MinCount
    /\ busPc \in {"clip", "mark"} => chain[ev.cam][cur].n = Needed

(* ... and what was posted was marked, the alert in progress being the     *)
(* last one.                                                               *)
PostsMarked ==
    /\ \A c \in Cameras, t \in Types :
         /\ SendRecords[c][t] =< now
         /\ \A i \in 1..Len(posts[c][t]) : posts[c][t][i] \in 0..SendRecords[c][t]
    /\ busPc \in Alerting => waiting.cam = ev.cam /\ waiting.type = cur
    /\ busPc \in {"forget", "wait"} =>
         /\ SendRecords[ev.cam][cur] # Never
         /\ \A i \in 1..Len(posts[ev.cam][cur]) :
             SendRecords[ev.cam][cur] - posts[ev.cam][cur][i] >= Interval

(* The promise of AlertPolicy, kept by the bus, its caches and its records *)
(* while cameras are removed between any two accesses of DealEvent.        *)
AlertsFollowPolicy == Policy!Spec

(* Two posts for a type of a camera stand for alerts raised Interval or    *)
(* more apart, and no alert is posted twice, also when the camera was      *)
(* removed and added again in between or when posts were lost.             *)
PostsSpaced ==
    \A c \in Cameras, t \in Types : \A i, j \in 1..Len(posts[c][t]) :
        i < j => posts[c][t][j] - posts[c][t][i] >= Interval

(* Every clip that pushQueue still fills belongs to the alert in progress  *)
(* or to one that was given up: no other path of eventMsgHandle leaks it.  *)
ClipsAccounted ==
    \A c \in Cameras :
        DOMAIN video2[c] \ abandoned[c] \subseteq
            IF busPc \in Alerting /\ waiting.cam = c THEN {waiting.at} ELSE {}

IInv ==
    /\ TypeOK
    /\ EventsArePast
    /\ TracksBacked
    /\ CurrentBacked
    /\ PostsMarked
    /\ PostsSpaced

(* The bus waits for the clip inside eventMsgHandle: it always comes back  *)
(* for the next event, also when the camera sends no more frames.          *)
BusReturns == []<>(busPc = "idle")

=============================================================================
