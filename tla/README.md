# IntelligentsecurityAi: a verification project

The program (`src/src`, a Windows daemon in C++) watches cameras on a
construction site. A client starts and stops cameras over HTTP; for each the
daemon pulls the stream, runs neural networks on some of its frames, decides by
rules which of the boxes found are violations, and posts an alert with a picture
and a clip when a violation lasts. This directory models the parts in which the
decisions are made, checks them with TLC and proves the main results with TLAPS.
Paths below are relative to `src/src` unless they say otherwise; `src/include`,
`src/dependencies` and `src/libs` are, but for two small headers, third-party
code. The program itself is some 3,500 lines, of which the modules stand for most;
of all the lines in the tree that is a small share.

## 1. Inventory

| Component | State | Operations | Talks to |
|---|---|---|---|
| Alert centre (`EventCenter`) | `tempQueue`, `cameraEvent`, `SendRecords`, `cameraVideo` (`video1`, `video2`) | `HandleEvent`, `pushQueue`, `removeCamera`, the bus thread (`messageBus`, `DealEvent`, `eventMsgHandle`, `sendEventMsg`, `faceMsgHandle`) | called by every camera; POSTs to `api_host` |
| Camera sessions (`Controller::MAVideo`, `CameraHandle`) | `players`, `Player::cameraHandle`, `predictionFlag` | `CAMERA_ADD`, `CAMERA_REMOVE`, session thread, Handle thread | builds and deletes a `CameraHandle` and its puller |
| Stream puller (`CameraPull`) | `flag`, `queue` | `start`, `stop`, `get` | ffmpeg; the Handle thread empties its queue |
| Violation rules (`CameraHandle::Check*`, `watchai.cpp`, `YoloV5::prediction_my`) | `allResultBoxes`, `predictionsBoxes`, `algorithm_list` | `intersect`, `overlapRate`, the rules, the choice of models | YoloV5, the alert centre |
| Frame cadence and timed events (`CameraHandle::Handle`) | `frameCount`, `timeEvents`, `algorithm_list` | `Handle`, `handleTimeEvent`, `UpdateAlgorithm_list`, `initTimeEvent` | the alert centre, the HTTP thread |
| Preview (`SubVideo`, `startRender`, `CameraPush`) | `Player::render`, `renderFlag`, `cameraPush` | start, stop, push a frame | ffmpeg, the Handle thread |
| Snapshots (`SnapPic`, `SnapHandle`) | `predictionFlag`, `result`, a puller of its own, the directory of the day | one request, one thread and a detached worker, one POST | YoloV5, `CameraPull` |
| Pictures (`LookPic`, `PictureHandle`) | `result`, the downloads in `temp`, the directory of the day | one request, one thread: download, predict, answer | YoloV5, `httpDownload` |
| Faces (`ArcFace`, `AddFace`, the face task of `Handle`) | `initEnd`, `status`, `faceNum`, the SDK's register, `m_mutex`; `faces`; per camera `faceBoxes` and a `thread_pool` | `Init`, `Run`, `registerSingle`, `AddFace`, `push_task`, `wait_for_tasks` | every camera; the alert centre |
| Neural networks (`YoloV5`) | models, `m_mutexPred` | `prediction_my`: `resize`, `non_max_suppression`, `nms`, `sizeOriginal` | cameras, snapshots and pictures, one at a time |
| Configuration, process | - | read once; routes, heartbeat timer | `Controller` |

**Interaction.** One HTTP thread calls `Controller`. A `CAMERA_ADD` starts a
detached *session thread*, which builds the `CameraHandle`, publishes it in the
`Player`, starts a detached *Handle thread* and pulls the stream itself until it
ends or is stopped; then it switches prediction off, waits 20 s and deletes and
erases everything. The Handle thread takes frames from the queue of the puller
and hands violations to the queue of the alert centre and every frame to its
clips. The *bus thread* of the alert centre, one for all cameras, takes the
events and, for an alert, waits inside for the frames that follow.

**What is hard here.** Of what these threads share, only the frame queue, the
event queue and the clips are behind a lock. `players`, the handles, the flags,
`cameraEvent`, `timeEvents`, `algorithm_list` and `faceBoxes` are not. Nothing is
joined. A stop, an end of stream, an update and a removal may come at any step of
any of the threads; POSTs fail and are not repeated; a clip may never fill.
`PROJECT.json` lists these hazards, each at its line with the properties that are
aimed at it.

What makes each component correct:

* alert centre: no alert without an unbroken run of sightings, none within
  `interval` of the last, no clip left open, and the bus always comes back;
* sessions: a limit on cameras, a session that ends leaves no place taken, no
  thread outlives the object it works on, a session that pulls can be stopped,
  one that is stopped ends;
* rules: who is accused is in the picture; protective gear excuses its bearer and
  only him;
* timed events: an absence is reported when, and only when, it has lasted, however
  the list of algorithms is updated;
* preview: nobody pushes through an encoder that is not initialised or is being
  replaced, no start outlives the handle it works on, what is shown can be stopped;
* faces: every photo in the directory becomes known or is refused, faces have ids
  of their own, the lock of the engine always comes back, a camera never goes back
  to the faces of an earlier frame and is deleted only without tasks;
* networks: nothing is reported twice, nothing is lost but to a better box of its
  class that is itself reported, and a rectangle lies where the thing is;
* snapshots and pictures: every request is answered, with what was found and with
  the picture it was found in, and leaves nothing behind in `temp`.

## 2. Modules

| Module | Models |
|---|---|
| `AlertPolicy` | abstract: what the alert centre promises an operator |
| `EventCenter` | the alert centre; refines `AlertPolicy` |
| `EventCenterMC` | what a comment says of it |
| `EventCenterProofs` | theorems about `EventCenter` |
| `Descent` | what the theorems about liveness take from counting: a number never falls for ever |
| `CameraSession` | `MAVideo`, session threads, Handle threads as takers of frames, pullers |
| `CameraSessionMC` | symmetry, and what comments say of it |
| `CameraSessionProofs` | theorems about `CameraSession` |
| `Preview` | composes `CameraSession` with `SubVideo`, the encoder and the pusher |
| `PreviewProofs` | theorems about `Preview` |
| `Faces` | `ArcFace`, `AddFace`, and the face tasks of the cameras in their pools |
| `FacesProofs` | theorems about `Faces` |
| `Prediction` | `prediction_my`: squeezing, choice of networks, `nms`, filters, and back |
| `PredictionMC` | the networks and boxes TLC uses |
| `PredictionProofs` | theorems about `Prediction` |
| `Violations` | geometry, rules, choice of models, for any boxes |
| `ViolationsMC` | the models and boxes TLC uses, and what a comment says |
| `ViolationsProofs` | theorems about `Violations` |
| `Frames` | cadence, timed events and their updates |
| `FramesProofs` | theorems about `Frames` |
| `SnapshotPolicy` | abstract: what a client is promised of a snapshot or a request for pictures |
| `Snapshots` | `SnapPic` and `LookPic`: their threads, workers, pullers, files and reports; refines `SnapshotPolicy` |
| `SnapshotsProofs` | theorems about `Snapshots` |

### EventCenter

`cached`, `tracks` and `faces` are `cameraEvent`; `SendRecords` and `video2` have
the source's names. `chain`, `posts` and `abandoned` are history variables that
the actions never test. `DealEvent` is cut into one action per access to the
cache, because `removeCamera` (37-39) may erase the camera between any two of them:
`BusEnter` or `BusFirstInit` (301), `BusType` (315, with the check of `SendRecords`
before it), `BusOld` or `BusGoesOn` (317), `BusDrop` (322), `BusTouch` (325),
`BusCount` (327), `BusMore` (349), `BusMark` (343), `BusForget` (344) and `BusEnd`
(374); `BusClip` (337-339) reads the clock a first time, `BusMark` (342) a second. In
C++ `cameraEvent[...]` creates an entry that is gone, and `events[...]` a `MsgEvent` of
zeros: `Touch`, `Found` and `Store`. Only the insertion at 358 goes with the look at
315, since nobody but the bus adds a type. The time of an event is read by the caller
(`CameraHandle.cpp:533`, `551`) before it gets `m_mutex`, so that `HandleEvent` takes
any time that has been: with two sessions of a camera, or its face task, a later event
may be first, and a run of sightings goes by what the bus has seen (`Extend`).
`eventMsgHandle` is `BusPollAgain`, `BusAbandon` (the camera is gone), `BusSend`
(whose POST is delivered or not) and `BusFail` (an exception). `pushQueue` only
tries the lock: a frame it drops is a stuttering step. Each of the two mutexes is
held for one step. Images and files are left out, and so is the clip before the
alert.

Alerts need a count above 5 at a sighting, that is 7 sightings in a row; the
comment at line 326 speaks of two. `MinCount` stands for the 5.

### CameraSession

A session is a number, and a `Player` is named by the session whose thread was
started with it. `pc[s]` is where the session thread is, `worker[s]` where its
Handle thread is, `httpPc` where the handler of the one HTTP thread is; `MAVideo`
is cut at every look at `players` and at the handle, since session threads erase
and delete in between: `players.count` finds a Player (`AddFound`, `RemoveFind`) that
`players[...]` takes in the next step (`AddGet`, `RemoveGet`), or that is gone by then
(`AddGetNull`, `RemoveGetNull`): the null pointer that operator[] inserts is followed,
and the process ends (`httpPc` is "crashed"). Nothing in the code prevents that, so no
property speaks against it; the others hold as long as the process runs.
`Careful` tells whether clients wait for a session to pull
or to be gone before they ask again. What holds only for such clients
(`PullingIsReachable`) is checked with it in `Preview`, which composes the sessions
with their viewers, and proved as `CarefulClientsReach`; everything else is checked
without.

Of other clients two things are true that no property states, since the code does
not avoid them. A camera that is added again during the 20 s of its ending session
is answered as if it were at work, gets the new list of algorithms, and ends with
the session (`AddUpdate` in the state `grace`; a request between the delete and the
erase writes to a handle that is gone). And `CameraPull::start` sets `flag` after
the stream was opened, so that a stop that came before is overwritten: the pull
goes on with prediction stopped, until it is stopped again or its stream ends
(`Open` after `StopPull`).

Assumptions: one call of `Handle` is shorter than the 20 s of line 646 (the
action that ends the grace says so; without it nothing keeps the handle alive,
and a `Handle` that posts an absence may indeed take long); a packet yields one
frame; `av_read_frame` returns, with a frame, another packet or an error; a
request that finds a handle that was deleted writes to it without effect.

`MaxStream` is compared with `>` before the insertion (line 102), so one camera
more than `maxstream` is accepted. `LimitsHold` states the bounds the code keeps:
`MaxStream + 1` cameras, and in the queue of a live stream one frame more than
line 95 of `CameraPull.cpp` allows.

### Preview

Extends `CameraSession` by what a viewer touches: `encoder` is what `cameraPush` is
good for ("bare" after its constructor, "ready" or "failed" after `Init`),
`renderFlag` and `render` the two flags that say the same, `push[s]` where the
Handle thread is between its test of `renderFlag` (589) and the return of `pusher`,
`subPc` where the one HTTP thread is in `SubVideo`. The map is looked at twice, as in
`MAVideo` (`SubVideo`, then `SubGet`, `SubGetNone` or `SubGetNull`), and the handle is
looked up in its Player at every use (`Handle`), but `startRender` stays with the one it
was called on (`sub.handle`, `Target`). The session's steps are those
of `CameraSession`, each with what it means for the preview (`GraceBegins`,
`DeleteLate`, `HandleTakes`); requests of both kinds come from the same thread, one
after the other. An encoder that is replaced while the Handle thread is inside
becomes "torn". `hasty` records the sessions whose client stopped and started again
while a frame was still on its way: the exception of `PushesAreSafe`, and the one way
for the encoder to be deleted under the pusher, since `stopRender` waits for nothing.

Assumptions: `CameraPush::Init`, which connects to a server, is over within the 20 s
of the grace (`waited`; nothing else keeps the handle alive, and an `Init` that takes
longer works on a deleted one); `~CameraPush` of an encoder that was used may take the
process down, since it frees the stream twice (`CameraPush.cpp:21-25`); the use of an
encoder that is torn or not initialised, and the look at a handle between its delete
and the erase of its Player, may too.

### Faces

`reg[t]` is `registerSingle` in the thread of `Init` or in that of `AddFace`;
`register` and `faceNum` are what the engine knows and the next id; `task[c]`,
`tasks[c]` and `tasksTotal[c]` are the pool of a camera, one thread with a queue
without limit. `lock` is `m_mutex`, which only `Run` takes, and only if it is free: a
frame that finds it taken is handled as if it showed nobody. `refused` and `mixed`
are history variables. A photo is there, in part, from the moment `httpDownload`
opens it, so that the walk of `Init` may read it half written; and an answer that is
no photo (a page of an error) stays in the directory like one that is. `AddFace`
answers with success whenever the download did not fail: that no face was found, or
that the engine did not take it, reaches nobody.

`FilesEnrolled` is why nothing falls between `Init` and `AddFace` all the same:
whoever comes later reads the whole photo. A photo may be enrolled twice, under two
ids. `IdsDistinct` holds only while one thread at a time is between the call of the
engine and the count, and while the engine's own count (198) is not below
`faceNum`; else (`mixed`) two people may share an id.

Assumptions: the SDK takes or refuses, and is safe to call from a task and from
`AddFace` at a time, which the code takes for granted; an engine that is not open
refuses or takes the process down.

### Prediction

One call of `prediction_my`, from the picture to the answer. `found` is what a network
proposed above `confThres`, any set of candidates; `order` and `keep` are the variables
of `nms`; `rs` the answer, with the candidate every rectangle comes from. `Suppresses`
is the arithmetic of the code, with the clamps and with the offset that keeps
classes apart; `Same`, in the properties, is the definition it is held against: boxes
of one class that overlap by more than the threshold of what they cover together. Of
equal scores the sort, which is not stable, may take any.

Coordinates are whole numbers and ratios are compared exactly; a candidate reaches
to the right of and below the origin (the clamp at 143 begins at 0), classes are
further apart than boxes are wide, a picture is not so thin that nothing of it is left
in the square, and `maxNms` is not reached by the 25,200 rows of a square of 640. A box
that lies on the border below or to the right of the picture may exceed it, since
only coordinates below 0 are corrected (183-187): `RectsAreSound` says so by
`InPicture`.

### Violations

A box is a record of edges and a score. `found` is `allResultBoxes`; one box per
step is found by a model that runs; `Predictions` is what the loop of `Handle`
makes of all of them, each rule an operator named like its function. Ratios are
compared exactly rather than in floating point, boxes are taken to lie in the
frame of 1280 x 720 and to have a width (a person of width 0 would divide by zero
at 222). A box of a crane is passed by reference and stretched by its own rule:
`Reach(b, k)` is what it is at the k-th person, `Underneath` what is reported.

`config.conf` calls the hands found by the model of gloves `gz1` and `gz2`, while
`CheckWdJyst` asks for `gz`: with the configuration as it is shipped this rule
accuses nobody. The instance uses `gz`.

### Frames

`timeEvents` maps a label to the *age* of its time, up to `TimeInterval + 1`,
which is all the code compares. A label is timed if it is a substring of the list of
line 43: of what a client may send, `gzfzr`, `zzfzr` and `aqwl` are, and so is the empty
label. Each access of the Handle thread and of the HTTP
thread is a step: `Clear` may fall between the look at an entry and its use, and
`Renew` may insert a label again that `Clear` has just taken away. When `Clear`
erases the entry the loop of `handleTimeEvent` is at (`dangling`), the loop goes on
from freed memory: the model lets the program crash or find the end of the map; that
it reads garbage and posts it is assumed away. `calm` is a history variable, the
time since a label was last seen or alerted. `frameCount` begins with any value
of `Garbage` since nothing initialises it.

### Snapshots

A thread is a request. `pc[t]` is where its thread is, `worker[t]` where the
detached worker of a snapshot is; `static` and `temp` are the files, each with
the thread whose frame it shows, `result` and `report` what was found and what
was posted. `born`, `over` and `names` are history variables. Of writing a
picture, the file and its URL are two steps (`WriteImg`, `Url`), since the day is
read for each: the constructor makes only the directory of the day it runs on, so
that a picture may be lost over midnight. A download in `temp` is there, empty,
from the moment `httpDownload` opens it. The detection is a choice.

The thread of a snapshot waits for its pull, not for its worker. Three things
follow. A stream that breaks off while the worker has a frame is reported without
the finding (`ReportsAreFinal` has this as its exception). Nobody joins the
worker before the delete (`WorkerStrays`: what it does then to freed memory, the
model lets end it or the process). And a worker takes one frame: when the stream
ends before the loop sees its stop, and another frame has come, `CameraPull.cpp:77`
waits for ever and nothing is reported (`Hung`, the exception of
`RequestsAreAnswered`).

`RequestsFollowPolicy` maps the threads to `SnapshotPolicy`: the cameras still to be
looked at are those of `cameraPics` that were not visited, for a snapshot its camera
until the worker is through (`ToLookAt`); the answer is the report, and a pull that
could not be opened or failed is a stream that broke off. After the answer nothing is
looked at any more, with one exception: a worker whose stream broke off while it had a
frame may have its finding late, and is not heard, as the answer is given once.

Assumptions: a packet yields one frame; day and millisecond of a path are read
together; the result is read either before or after a concurrent assignment, or
the process crashes; `remove` of a file that another thread is downloading to
fails, as it does on Windows, for which the code is written.

## 3. Runs

| Run | Instance | Shows |
|---|---|---|
| `alert_clock` | 1 camera, 1 label, 1 face, 3 instants, queue of 1, `MinCount` 1 | counts backed by sightings, posts spaced, and the refinement of `AlertPolicy`; two alerts fit in the clock and the camera may be removed between any two accesses |
| `alert_types` | 2 labels, none posted, fairness | an event may raise two alerts one after the other; no path but giving up leaks a clip; the bus comes back |
| `alert_marked` | violation | marked is not posted |
| `session_map` | 2 streams, 2 sessions, 1 place | the limits of cameras and frames, no place lost, no Handle thread alive at the delete, for any clients |
| `session_one` | violation, 1 camera | two sessions of a camera |
| `preview` | a file, 2 sessions, careful clients and viewers, fairness | a session that pulls is reachable and what it shows can be stopped; no push into a torn encoder but by a hasty client; no start on a deleted handle; no thread is stuck where it is due, and sessions take themselves down, or are stranded in the drain, with or without viewers |
| `faces` | 2 cameras, 1 photo, 1 request, 2 frames, fairness | no photo falls between `Init` and `AddFace`; ids are distinct but for the two races; the lock comes back; faces go forward; no task waits for another nor outlives its camera, and cameras end |
| `prediction` | 2 networks, any of 7 boxes, 3 pictures in a square of 8 | `nms` keeps what is apart and drops only for better; filters and classes lose nothing; rectangles are sound with odd and even borders |
| `violations` | up to 4 boxes of 11 models, two workers, a crane | accused are present, boxes stay in the frame, gear accuses nobody and excuses only whom it touches |
| `violations_gloves` | violation | gloves anywhere in the frame excuse bare hands |
| `frames` | interval of 4 frames, 2 time units, three lists, fairness | cadence from any counter, timers in place after updates, alerts of absence when due, and eventually |
| `snapshots` | 2 requests, 1 snapshot at most, a stream and a file, a midnight, fairness | the refinement of `SnapshotPolicy`; reports are final unless the stream broke off; pictures are those of the request unless a name is shared; no download left behind; no thread is stuck elsewhere, and requests are answered unless they hang in the drain |

**Bounds.** `MaxTime`, `MaxQueue`, `MaxSessions`, `MaxBacklog`, `MaxFound`,
`MaxThreads`, `MaxSnaps`, `MaxPics`, `MaxAdds` and `MaxFrames` are the only ones; each is a constant
whose comment says it is a bound. Two sessions suffice for every race over a
`Player` (one that ends and one that begins, or two of one camera); the clock of
`alert_clock` covers an alert, its interval and a second alert; four boxes are a
person, an accusation, gear that touches and gear that does not. In `snapshots`
two requests meet in a name (two for pictures, or one of each kind), and a clock
of two instants with a midnight between them makes every reading of the time
before or after it; a second snapshot would share nothing with the first but the
names. At most two cameras are in hand at a time: one of each request, or two of
one. `QueueLimit` is 0 there, so that a stream has at most one frame waiting.
In `preview` a second session can begin while the first is in its grace, and a
viewer may come at any step of either. In `faces` two cameras contend for the lock, one
of them with two frames or each with one; the request may meet the walk of `Init` at
any step, on the photo the walk is at or on none. The boxes of `prediction` cover each
other by more than, by exactly and by less than the threshold, with equal scores,
across classes, and lie on the border.
The proofs do without these numbers: they hold for all values.

**Fairness.** `EventCenter`: weak fairness of the bus thread alone, an endless
loop; cameras need not send another frame. `Preview`: weak fairness of each session
thread and each Handle thread, which the operating system schedules, and of the HTTP
thread within a request, with an `Init` and a `pusher` that return; none of the
clients. `Frames`: of the Handle thread (frames keep coming), of an update
that has begun, and of time. `Snapshots`: of the thread and of the detached worker
of each request, with the same assumption on `av_read_frame` and with downloads
and POSTs that return. `Faces`: of the thread of
each pool and of a session that waits for its tasks; nothing is asked of `Init`, of
clients and of streams. No strong fairness is used.

`CHECK_DEADLOCK` is off where the instance may stop: the clock or the sessions
are used up, a frame is full of boxes, all requests are answered, or the program
crashed.

Each violation run checks one sentence of a comment in the source and shows a
behaviour of the code in which it is false; `PROJECT.json` quotes the sentences
under `findings`.

## 4. Proofs

Every theorem holds for all values of the constants under the `ASSUME`s of its
module, which only say that intervals are numbers, bounds are numbers, cameras are
finitely many, `None` is none of them, and inputs have their types and are not
without a value.

* `EventCenterProofs`. `TracksBacked`, that the count of a label never exceeds the
  unbroken run of sightings since its last alert, is not inductive: it needs that no
  event comes from the future (`EventsArePast`), and what holds in the middle of
  `DealEvent` (`CurrentBacked`): the sighting being counted is in the run and not yet in
  the count, whichever access made the track, and from the count to the mark the run
  is as long as an alert needs, removed or not. With `PostsMarked` (what was posted was marked) `PostsSpaced`
  follows. `IInv` joins them; each action has a lemma. `AlertsImplementPolicy`
  maps every action to a step of `AlertPolicy` or a stutter: `BusFirstInit`, `BusSkip`,
  `BusInsert`, `BusGoesOn` and `BusDrop` to `Sight`, `BusMark` to `Raise`, where `IInv`
  gives the guards.
* `CameraSessionProofs`. `LimitsHold` is inductive only with `Ownership` (a
  Player in the map is that of one camera, and none of its sessions has erased it
  yet), `Threads` and `Handler` (what a request in progress has looked up).
  `PlacesAreHeld` and `WorkerGoneBeforeDelete` follow; the latter needs `Workers`
  (prediction is off for good from the grace on). `CarefulClientsReach` adds
  `CarefulInv`: a camera has at most one session that is alive (`Live`), it is the
  one its Player leads to (`Reached`), and a request in progress is still waiting
  for the one it has seen (`Awaited`).
* `PreviewProofs`. `PreviewKeepsSessions` maps every step of the composition to a step
  of `CameraSession` or none, so that its theorems hold here. `PushesAreSafe` needs
  that whoever renders has an encoder that is ready and a Player that knows it
  (`RendersAreKnown`), that a frame is on its way only within a call of `Handle`
  (`PushesAreInHand`), and `RendersBeforeDelete` what a request has found (`Request`).
  `ShownStaysStoppable`, like `CarefulClientsReach`, assumes careful clients: to
  `CarefulInv` it adds that a Player whose handle is yet to come has none (`Fresh`), so
  that publishing replaces no handle that renders, that `render` says what the
  handle does (`Told`), and that the handle of a `startRender` is still that of its
  Player when it is through (`Steady`).
* `FacesProofs`. `FilesEnrolled` needs where every photo is from the moment the
  directory was listed (`FilesListed`), `IdsDistinct` that every id is below the next
  but for one that is about to be counted (`IdsBelow`), `FacesGoForward` that queue,
  task and `faceBoxes` are in the order of the frames (`TasksInOrder`), and
  `TasksGoneBeforeDelete` that the count is that of queue and task
  (`TasksCounted`).
* `PredictionProofs`. The invariant of `nms` (`NmsInv`) carries the two properties
  once the arithmetic is done: `Suppresses` is `Same` because the clamps do nothing to
  boxes beyond the origin and the offset leaves nothing in common to boxes of two
  classes. `RectsAreSound` rests on lemmas about whole division: it is monotone, and
  what is inside the filled part comes back inside the picture.
* `ViolationsProofs`. `IntersectSound`: boxes that pass the integer test of
  `intersect` overlap, `IntersectComplete`: boxes that overlap by enough pass it,
  and `ReachInFrame`: a stretched box stays in the frame. From these, for any
  boxes, `TypesCorrect` and `AccusedPresent`.
  The two action properties of gear rest on this: a
  container only grows within a frame (`Grows`), the rule of the crane asks for persons
  only (`CraneSame`), and every other rule, asked with one box of gear more, keeps no box
  it did not keep (`GearAccusesNobody`) and, if the box overlaps nothing that is accused,
  drops none (`GearElsewhereKeeps`, with `IntersectSound` turned round).
* `FramesProofs`. An alert is due because an entry is never older than the last
  sighting and the last alert (`EntriesAreFresh`), except between a post and the
  assignment that follows it; that needs `LoopsAreInPlace` (the iterator is at an
  entry that is there or known to be erased). `UpdatesPutBack` carries
  `TimersInPlace` through an update. `EveryPeriod` follows from `Cadence`: the counter
  stands past the last multiple of `frame_interval` by at least the frames that were
  skipped, and that of an offline camera, advanced by two, comes to a multiple of
  three within three frames; the remainder of the code's first value, garbage, is
  all the proof asks of it.
* `SnapshotsProofs`. `ReportsAreFinal` needs `Pulls` (a pull is over by the stop of
  a worker that is through, or by itself) and `Hands`; `DownloadsAreHeld` is
  inductive with them. `PicturesAreOwn` needs where every file comes from: who
  drew a picture has its name among its own, and drew his own frame or one that
  came under a name he shares (`PicturesTraced`, `DownloadsTraced`, `Traces`);
  names, directories and pictures only come to be (`Grows`), so that a trace
  stays one. `DaysPass` keeps a day that is over from coming back.
  `RequestsImplementPolicy` maps every step to one of `SnapshotPolicy` or a stutter:
  a step of one thread changes what the policy sees of that thread only (`ViewsApart`),
  and what it changes there is one of `Asks`, `Looks`, `Breaks`, `Answers`. It needs that
  the camera in hand is among those to be visited (`InTodos`) and, for the answer of a
  snapshot, `Pulls`.

**Nobody is stuck, and liveness.** Three invariants say of the components in which a
thread may wait for another where it waits, and that everywhere else one of its steps
is `ENABLED`; five properties say what must come. All are theorems:

| Nobody is stuck | Property | It comes | Property | What does not fall for ever |
|---|---|---|---|---|
| | | `BusComesBack` | `BusReturns` | faces left, types left, polls left (`Facing`, `Typing`, `Polling`) |
| `SessionsNeverStuck` | `SessionsGoOn` | `SessionsTakeThemselvesDown` | `ShownSessionsEnd` | the frames of a queue |
| | | `AbsencesAreReported` | `AbsenceIsReported` | frames to the next that is looked at; the time until an entry is due (`Young`) |
| `ThreadsNeverStuck` | `ThreadsGoOn` | `RequestsComeToAnAnswer` | `RequestsAreAnswered` | cameras left to visit (`Left`) |
| `TasksNeverStuck` | `TasksGoOn` | `CamerasComeToAnEnd` | `CamerasEnd` | the tasks of a camera |

There are two hypotheses, which ask nothing of the program but which these provers
have no rule for:

* A guard that holds lets its action step. To the prover `ENABLED` is opaque, so the
  modules write the guards of the actions out, in their order (`BusReady`, `HttpReady`,
  `HandleReady`, `ThreadReady`, `TaskReady`, ...), and assume no more than
  `Ready => ENABLED <<Step>>_vars` (`BusSteps`, `SessionsStep`, `FramesStep`,
  `ThreadsStep`, `TasksStep`). It is a fact about `ENABLED`: every one of these actions
  gives every variable its next value and changes one.
* `NoEndlessFall(v)`: a natural number that never rises stops to change. It is true of
  every behaviour and every `v`, by induction along the behaviour.

The bus and the loop of `Handle` have nothing to wait for but the next event or frame:
that one of their guards always holds is no property of theirs, but a lemma on the way
to liveness. That nobody is stuck is what is proved of the guards: in every reachable state one of
those of the thread that is due holds. It takes the invariants. The loop of
`handleTimeEvent` is at an entry that is there or was erased under it
(`LoopsAreInPlace`), and what is left to insert has a label. A handle thread looks for
a frame, or handles one, with no other push in hand (`PushesAreInHand`), whatever a viewer has
done to its encoder. A request for pictures goes through the cameras in order, and of
those that are left one comes first (`FirstCamera`, by the well-foundedness of `<`,
with which an induction over data can be had as long as it is over a set of numbers).
A frame that is looked at shows one of the sets of `Shows`, of which there is at least one
(`ShowsAssumption`; nothing to see is one of them). TLC checks the three
invariants as they stand, `ENABLED` included, on the instances.

What is left to prove is what makes the code live: that each step leads to the next
and no other thread takes it back, that each turn of a loop brings one of the numbers
down and nothing brings it up again, and where an exception or a missing thread
leaves no way on but the one that the property names. Steps and weak fairness are
joined by `PTL`. In `PreviewProofs` the way down is followed
place by place (`GraceEnds`, `DrainEnds`, `PullEnds`), with `EndInv`: a pull that
was stopped in its course was so by a request that goes on to stop the prediction
(`Ends`), and the grace waits for a viewer only while his request is in progress (`Waits`). In
`FramesProofs` a round of `Handle` ends (`RoundsGoOn`), rounds bring the next frame
that is looked at, and the entry that is not renewed grows old (`EntriesAge`).

Every property of the passing runs is stated by a theorem. Only model-checked: that a
guard implies `ENABLED` (in the runs of the three invariants), and the runs that expect
a violation.

## 5. Plan

Done: the alert centre, sessions, rules, timed events, snapshots and pictures, the
preview, faces and predictions, each with its proofs. What is left:

* A composition of `CameraSession` with the removal of cameras in `EventCenter`,
  which takes a removal to be possible at any time.

## 6. Not modelled

The networks and drawing (numeric code), the parser of the configuration (run once),
HTTP routing and the heartbeat (no state of their own), the ranges of large
downloads and character sets (I/O and formatting), crash dumps, the face SDK and the vendored libraries. Memory that is
never freed (`cameraPull`, `cameraPush`, `taskPool` of a `CameraHandle`; records
of cameras that are gone) has no effect on any modelled decision. Data races on
`algorithm_list` and `faceBoxes` as such are undefined behaviour; `Frames`,
`Violations` and `Faces` treat an update as seen or not seen. An exception out of
`prediction_my` would leave `m_mutexPred` locked, but nobody catches it, so that it
ends the process.
