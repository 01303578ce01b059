------------------------------ MODULE Preview ------------------------------
(***************************************************************************)
(* The preview of a camera, composed with its session.  A client asks with *)
(* SubVideo (Controller.cpp) to see the frames with their boxes; the HTTP  *)
(* thread then replaces the encoder of the CameraHandle and sets           *)
(* renderFlag, and the Handle thread pushes each frame it has handled      *)
(* through that encoder (CameraHandle.cpp:589-594, CameraPush.cpp).        *)
(* Neither renderFlag nor cameraPush is behind a lock.                     *)
(*                                                                         *)
(* This module adds to CameraSession the requests of the preview, the way  *)
(* of Handle to the pusher, and what a SubVideo in progress may still      *)
(* touch when the handle is to be deleted.  Left out: what is encoded, the *)
(* wording of the answers, and cameraPush itself once its session is gone  *)
(* (nobody deletes it).                                                    *)
(***************************************************************************)
EXTENDS CameraSession

VARIABLES
    encoder,     \* session -> what its cameraPush is good for
    renderFlag,  \* session -> CameraHandle::renderFlag
    render,      \* Player -> Player::render
    push,        \* session -> where Handle is on its way to the pusher
    subPc,       \* where the HTTP thread is in SubVideo
    sub,         \* EVENT_TYPE and CAMERA_CODE, the Player it has looked up, and
                 \* the handle whose startRender it is in
    waited,      \* session -> the SubVideo its grace began in is over
    hasty,       \* history: sessions whose pusher was not through with the frame
                 \* in hand at their stop when a start was asked for again
    crashed      \* freed memory or a null pointer was used

renderVars == <<encoder, renderFlag, render>>
subVars == <<subPc, sub, hasty>>
previewVars == <<renderVars, push, subVars, waited, crashed>>
allVars == <<vars, previewVars>>

(* From the test of renderFlag to the return of pusher; "torn" if the      *)
(* encoder was deleted meanwhile.                                          *)
Pushing == {"draw", "in", "torn"}

(* The process is.                                                         *)
Gone == crashed \/ httpPc = "crashed"

(* The handle a request finds, looked up anew at every use, and the one it *)
(* works on: startRender stays with the handle it was called on.           *)
Handle == handleOf[sub.player]
Target == IF subPc = "init" THEN sub.handle ELSE Handle
Deleted(s) == pc[s] \in TakenDown

----------------------------------------------------------------------------
(* The HTTP thread in SubVideo.                                            *)

(* Line 262; without a Player it is answered at once.                      *)
SubVideo(c, event) ==
    /\ httpPc = "idle" /\ subPc = "idle"
    /\ c \in DOMAIN players
    /\ sub' = [event |-> event, cam |-> c, player |-> None, handle |-> None]
    /\ subPc' = "get"
    /\ UNCHANGED <<vars, renderVars, push, hasty, waited, crashed>>

(* The request ends: whatever waits for it has waited.                     *)
SubEnds ==
    /\ subPc' = "idle"
    /\ waited' = [s \in Sessions |-> TRUE]

(* Lines 263-264.                                                          *)
SubGet ==
    /\ subPc = "get"
    /\ sub.cam \in DOMAIN players
    /\ handleOf[players[sub.cam]] # None
    /\ sub' = [sub EXCEPT !.player = players[sub.cam]]
    /\ subPc' = "test"
    /\ hasty' = hasty \union {s \in {handleOf[players[sub.cam]]} :
                    sub.event = 1 /\ ~renderFlag[s] /\ push[s] \in Pushing}
    /\ UNCHANGED <<vars, renderVars, push, waited, crashed>>

(* There is no handle yet.                                                 *)
SubGetNone ==
    /\ subPc = "get"
    /\ sub.cam \in DOMAIN players
    /\ handleOf[players[sub.cam]] = None
    /\ SubEnds
    /\ UNCHANGED <<vars, renderVars, push, sub, hasty, crashed>>

(* The Player was erased since line 262, and a null pointer is followed.   *)
SubGetNull ==
    /\ subPc = "get"
    /\ sub.cam \notin DOMAIN players
    /\ crashed' = TRUE
    /\ UNCHANGED <<vars, renderVars, push, subVars, waited>>

(* Line 266.                                                               *)
Starts == sub.event = 1 /\ ~render[sub.player]
Stops == sub.event = 0 /\ render[sub.player]

(* Mutant: whether the session still predicts is not asked.                *)
SubStartsEver ==
    /\ subPc = "test"
    /\ ~Deleted(Handle) /\ Starts
    /\ subPc' = "start"
    /\ UNCHANGED <<vars, renderVars, push, sub, hasty, waited, crashed>>

SubStarts ==
    /\ subPc = "test"
    /\ ~Deleted(Handle) /\ predictionFlag[Handle] /\ Starts
    /\ subPc' = "start"
    /\ UNCHANGED <<vars, renderVars, push, sub, hasty, waited, crashed>>

(* Line 273.                                                               *)
SubStops ==
    /\ subPc = "test"
    /\ ~Deleted(Handle) /\ predictionFlag[Handle] /\ Stops
    /\ subPc' = "stop"
    /\ UNCHANGED <<vars, renderVars, push, sub, hasty, waited, crashed>>

(* Mutant: there is no answer once prediction is off.                      *)
SubElseWhilePredicting ==
    /\ subPc = "test"
    /\ ~Deleted(Handle)
    /\ predictionFlag[Handle] /\ ~Starts /\ ~Stops
    /\ SubEnds
    /\ UNCHANGED <<vars, renderVars, push, sub, hasty, crashed>>

(* Line 277: answered with the URL, whether or not anything is shown there.*)
SubElse ==
    /\ subPc = "test"
    /\ ~Deleted(Handle)
    /\ predictionFlag[Handle] => ~Starts /\ ~Stops
    /\ SubEnds
    /\ UNCHANGED <<vars, renderVars, push, sub, hasty, crashed>>

(* Line 266 reads the flag of a handle that was deleted and is still in    *)
(* the map: it is found cleared as it was left, or the process is gone.    *)
SubAstray ==
    /\ subPc = "test"
    /\ Deleted(Handle)
    /\ crashed' \in BOOLEAN
    /\ SubEnds
    /\ UNCHANGED <<vars, renderVars, push, sub, hasty>>

(* CameraHandle.cpp:696, 705: the stream is not open.                      *)
StartRefused ==
    /\ subPc = "start"
    /\ ~pullFlag[Handle]
    /\ render' = [render EXCEPT ![sub.player] = renderFlag[Handle]]
    /\ SubEnds
    /\ UNCHANGED <<vars, encoder, renderFlag, push, sub, hasty, crashed>>

(* CameraHandle.cpp:698-701.  ~CameraPush gives the stream of an encoder   *)
(* that was initialised back twice (CameraPush.cpp:21-25).                 *)
StartReplaces ==
    /\ subPc = "start"
    /\ pullFlag[Handle]
    /\ encoder' = [encoder EXCEPT ![Handle] = "bare"]
    /\ push' = [push EXCEPT ![Handle] = IF @ = "in" THEN "torn" ELSE @]
    /\ crashed' \in IF encoder[Handle] = "bare" THEN {FALSE} ELSE BOOLEAN
    /\ sub' = [sub EXCEPT !.handle = Handle]
    /\ subPc' = "init"
    /\ UNCHANGED <<vars, renderFlag, render, hasty, waited>>

(* CameraHandle.cpp:702, CameraPush::Init: the encoder is opened and the   *)
(* server is connected to, or not; and line 268 of Controller.cpp.         *)
StartRender ==
    /\ subPc = "init"
    /\ \E ok \in BOOLEAN :
        /\ encoder' = [encoder EXCEPT ![sub.handle] = IF ok THEN "ready" ELSE "failed"]
        /\ renderFlag' = [renderFlag EXCEPT ![sub.handle] = ok]
        /\ render' = [render EXCEPT ![sub.player] = ok]
    /\ SubEnds
    /\ UNCHANGED <<vars, push, sub, hasty, crashed>>

(* Mutant: only the Player is told.                                        *)
StopRenderForgets ==
    /\ subPc = "stop"
    /\ render' = [render EXCEPT ![sub.player] = FALSE]
    /\ SubEnds
    /\ UNCHANGED <<vars, encoder, renderFlag, push, sub, hasty, crashed>>

(* Mutant: the Player is not told.                                         *)
StopRenderSilent ==
    /\ subPc = "stop"
    /\ renderFlag' = [renderFlag EXCEPT ![Handle] = FALSE]
    /\ SubEnds
    /\ UNCHANGED <<vars, encoder, render, push, sub, hasty, crashed>>

(* CameraHandle.cpp:711, and line 275 of Controller.cpp.                   *)
StopRender ==
    /\ subPc = "stop"
    /\ renderFlag' = [renderFlag EXCEPT ![Handle] = FALSE]
    /\ render' = [render EXCEPT ![sub.player] = FALSE]
    /\ SubEnds
    /\ UNCHANGED <<vars, encoder, push, sub, hasty, crashed>>

SubStep ==
    \/ SubGet
    \/ SubGetNone
    \/ SubGetNull
    \/ SubStarts
    \/ SubStops
    \/ SubElse
    \/ SubAstray
    \/ StartRefused
    \/ StartReplaces
    \/ StartRender
    \/ StopRender

----------------------------------------------------------------------------
(* The end of Handle.                                                      *)

(* A frame is taken (WorkerTakes), and handled up to line 589.             *)
PushTests(s) ==
    /\ push[s] = "test"
    /\ push' = [push EXCEPT ![s] = IF renderFlag[s] THEN "draw" ELSE "no"]
    /\ UNCHANGED <<vars, renderVars, subVars, waited, crashed>>

(* Lines 590-593: the faces are drawn, and cameraPush is read.             *)
PushBegins(s) ==
    /\ push[s] = "draw"
    /\ encoder[s] = "ready"
    /\ push' = [push EXCEPT ![s] = "in"]
    /\ UNCHANGED <<vars, renderVars, subVars, waited, crashed>>

(* CameraPush.cpp:183-216; a failure is logged and forgotten.              *)
PushEnds(s) ==
    /\ push[s] = "in"
    /\ push' = [push EXCEPT ![s] = "no"]
    /\ UNCHANGED <<vars, renderVars, subVars, waited, crashed>>

(* The encoder is not initialised, or was deleted under way.               *)
PushAstray(s) ==
    /\ push[s] = "torn" \/ (push[s] = "draw" /\ encoder[s] # "ready")
    /\ push' = [push EXCEPT ![s] = "no"]
    /\ crashed' \in BOOLEAN
    /\ UNCHANGED <<vars, renderVars, subVars, waited>>

PushStep(s) ==
    \/ PushTests(s)
    \/ PushBegins(s)
    \/ PushEnds(s)
    \/ PushAstray(s)

----------------------------------------------------------------------------
(* The session, and what its steps mean for the preview.                   *)

(* CameraHandle.cpp:645: a SubVideo in progress has 20 s to come to an     *)
(* end, which takes Init to be shorter.                                    *)
GraceBegins(s) ==
    /\ EndPrediction(s)
    /\ waited' = [waited EXCEPT ![s] = subPc = "idle"]
    /\ UNCHANGED <<renderVars, push, subVars, crashed>>

(* Controller.cpp:125, when that time is over.                             *)
DeleteLate(s) ==
    /\ waited[s]
    /\ Delete(s)
    /\ UNCHANGED previewVars

SessionGoesOn(s) ==
    \/ GraceBegins(s)
    \/ DeleteLate(s)
    \/ /\ SessionStep(s)
       /\ pc[s] # "ended" /\ pc[s] # "grace"
       /\ UNCHANGED previewVars

HandleTakes(s) ==
    /\ WorkerTakes(s)
    /\ push' = [push EXCEPT ![s] = "test"]
    /\ UNCHANGED <<renderVars, subVars, waited, crashed>>

WorkerGoesOn(s) ==
    \/ HandleTakes(s)
    \/ /\ WorkerStep(s)
       /\ worker'[s] # "handle"
       /\ push[s] = "no"
       /\ UNCHANGED previewVars

PreviewInit ==
    /\ Init
    /\ encoder = [s \in Sessions |-> "bare"]
    /\ renderFlag = [s \in Sessions |-> FALSE]
    /\ render = [p \in Sessions |-> FALSE]
    /\ push = [s \in Sessions |-> "no"]
    /\ subPc = "idle"
    /\ sub = [event |-> 0, cam |-> None, player |-> None, handle |-> None]
    /\ waited = [s \in Sessions |-> TRUE]
    /\ hasty = {}
    /\ crashed = FALSE

PreviewNext ==
    /\ ~Gone
    /\ \/ /\ subPc = "idle"
          /\ \E add, remove \in Cams \union {None} : MAVideo(add, remove)
          /\ UNCHANGED previewVars
       \/ HttpStep /\ UNCHANGED previewVars
       \/ \E c \in Cams, event \in {0, 1} : SubVideo(c, event)
       \/ SubStep
       \/ \E s \in Sessions : SessionGoesOn(s) \/ WorkerGoesOn(s) \/ PushStep(s)

PreviewSpec == PreviewInit /\ [][PreviewNext]_allVars

HttpGoesOn == ~Gone /\ ((HttpStep /\ UNCHANGED previewVars) \/ SubStep)
ThreadGoesOn(s) == ~Gone /\ SessionGoesOn(s)
HandleGoesOn(s) == ~Gone /\ (WorkerGoesOn(s) \/ PushStep(s))

Serves == WF_allVars(HttpGoesOn)
Runs(s) == WF_allVars(ThreadGoesOn(s)) /\ WF_allVars(HandleGoesOn(s))

(* As in CameraSession; Init and pusher return.                            *)
PreviewFairSpec ==
    /\ PreviewSpec
    /\ Serves
    /\ \A s \in Sessions : Runs(s)

----------------------------------------------------------------------------
(* Correctness.                                                            *)

(* The types of what is added.                                             *)
PreviewTypeOK ==
    /\ encoder \in [Sessions -> {"bare", "ready", "failed"}]
    /\ renderFlag \in [Sessions -> BOOLEAN]
    /\ render \in [Sessions -> BOOLEAN]
    /\ push \in [Sessions -> {"no", "test"} \union Pushing]
    /\ subPc \in {"idle", "get", "test", "start", "init", "stop"}
    /\ sub \in [event : {0, 1}, cam : Cams \union {None},
                player : Sessions \union {None}, handle : Sessions \union {None}]
    /\ waited \in [Sessions -> BOOLEAN]
    /\ hasty \subseteq Sessions
    /\ crashed \in BOOLEAN

Unseen == {"none", "spawned", "built"}

(* The parts of the inductive invariant.  A request in progress has a      *)
(* Player with a handle, and knows how it found render; the handle of      *)
(* startRender can be seen and does not render yet ...                     *)
Request ==
    /\ subPc # "idle" => httpPc = "idle"
    /\ subPc \notin {"idle", "get"} => sub.player \in Sessions /\ Handle # None
    /\ subPc \in {"start", "init"} => Starts
    /\ subPc = "stop" => Stops
    /\ subPc = "init" =>
         /\ sub.handle \in Sessions
         /\ playerOf[sub.handle] = sub.player
         /\ pc[sub.handle] \notin Unseen
         /\ ~renderFlag[sub.handle]

(* ... a handle that renders was published in a Player that knows it ...   *)
RendersAreKnown ==
    /\ \A p \in Sessions : handleOf[p] # None => pc[handleOf[p]] \notin Unseen
    /\ \A p \in Sessions : handleOf[p] # None /\ renderFlag[handleOf[p]] => render[p]
    /\ \A s \in Sessions : renderFlag[s] => encoder[s] = "ready"
    /\ \A s \in Sessions : pc[s] \in Unseen => ~renderFlag[s]

(* ... a frame is on its way to the pusher only in a call of Handle, and   *)
(* after a stop only until a start is asked for ...                        *)
PushesAreInHand ==
    /\ \A s \in Sessions : push[s] # "no" => worker[s] = "handle"
    /\ subPc \notin {"idle", "get"} /\ sub.event = 1 =>
         \A s \in {Handle, Target} :
             push[s] \in Pushing => renderFlag[s] \/ s \in hasty

(* The Handle thread never enters the pusher, nor is in it, without an     *)
(* encoder that is initialised and stays: not after a failed Init, not     *)
(* while the encoder is replaced, not in a session that ends.  The one     *)
(* exception is a client that stops and starts again within one frame.     *)
PushesAreSafe ==
    \A s \in Sessions \ hasty :
        /\ push[s] # "torn"
        /\ push[s] \in {"draw", "in"} => encoder[s] = "ready"

(* A request that is past its test of predictionFlag works on a handle     *)
(* that is there until it has answered, although the session may end, or   *)
(* another may be published in its Player, at any moment.                  *)
RendersBeforeDelete ==
    subPc \in {"start", "init", "stop"} =>
        /\ ~Deleted(Target)
        /\ pc[Target] = "grace" => ~waited[Target]

PreviewInv ==
    /\ PreviewTypeOK
    /\ Request
    /\ RendersAreKnown
    /\ PushesAreInHand
    /\ PushesAreSafe
    /\ RendersBeforeDelete

(* With careful clients a camera that is pushed somewhere can be stopped:  *)
(* its Player is in the map, leads to this session and remembers that it   *)
(* renders; and one that is not pushed can be started.                     *)
ShownIsStoppable ==
    \A s \in Sessions : pc[s] \in Pulling /\ subPc = "idle" =>
        /\ camOf[s] \in DOMAIN players
        /\ handleOf[players[camOf[s]]] = s
        /\ render[players[camOf[s]]] = renderFlag[s]

(* A session that pulls or ends waits for its queue to be empty and for    *)
(* the grace to be over; a handle thread that has a call of Handle in      *)
(* progress, a frame to take or no more to look for one, for nothing.      *)
ThreadIsDue(s) ==
    \/ pc[s] \in {"loop", "read", "closed", "ended", "deleted", "erased"}
    \/ pc[s] = "drain" /\ queue[s] = 0
    \/ pc[s] = "grace" /\ settled[s] /\ waited[s]

HandleIsDue(s) ==
    \/ worker[s] = "handle"
    \/ worker[s] = "test" /\ ~predictionFlag[s]
    \/ worker[s] = "test" /\ pullFlag[s] /\ queue[s] > 0

(* Nobody is ever stuck where it is due, a request neither.                *)
SessionsGoOn ==
    ~Gone =>
        /\ httpPc # "idle" \/ subPc # "idle" => ENABLED <<HttpGoesOn>>_allVars
        /\ \A s \in Sessions :
            /\ ThreadIsDue(s) => ENABLED <<ThreadGoesOn(s)>>_allVars
            /\ HandleIsDue(s) => ENABLED <<HandleGoesOn(s)>>_allVars

(* Once its stream has ended or its pull flag is cleared, a session takes  *)
(* itself down, unless it is stranded in the drain: there is no other way  *)
(* for it to stay, and no viewer keeps it.                                 *)
ShownSessionsEnd ==
    \A s \in Sessions :
        pc[s] = "drain" \/ (pc[s] \in {"loop", "read"} /\ ~pullFlag[s])
            ~> pc[s] = "done" \/ Stranded(s) \/ Gone

=============================================================================
