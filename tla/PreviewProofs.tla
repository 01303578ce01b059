--------------------------- MODULE PreviewProofs ---------------------------
(***************************************************************************)
(* Proofs about Preview: its steps are steps of CameraSession, so that the *)
(* invariant of the sessions holds with viewers as well; and with it that  *)
(* nothing is pushed through an encoder that is not there, and that no     *)
(* request works on a handle that was deleted.                             *)
(***************************************************************************)
EXTENDS Preview, CameraSessionProofs, Descent

(* With viewers the sessions do what they do without.                      *)
LEMMA PreviewIsSession == [PreviewNext]_allVars => [Next]_vars
<1>1. ASSUME PreviewNext
      PROVE  [Next]_vars
    <2>0. httpPc # "crashed"
        BY <1>1 DEF PreviewNext, Gone
    <2>1. CASE \E add, remove \in Cams \union {None} : MAVideo(add, remove)
        BY <2>0, <2>1 DEF Next
    <2>2. CASE HttpStep
        BY <2>0, <2>2 DEF Next
    <2>3. CASE SubStep \/ \E c \in Cams, event \in {0, 1} : SubVideo(c, event)
        BY <2>3 DEF SubStep, SubVideo, SubGet, SubGetNone, SubGetNull, SubStarts, SubStops,
           SubElse, SubAstray, StartRefused,
                    StartReplaces, StartRender, StopRender
    <2>4. ASSUME NEW s \in Sessions, SessionGoesOn(s)
          PROVE  SessionStep(s)
        BY <2>4 DEF SessionGoesOn, GraceBegins, DeleteLate, SessionStep
    <2>5. ASSUME NEW s \in Sessions, WorkerGoesOn(s)
          PROVE  WorkerStep(s)
        BY <2>5 DEF WorkerGoesOn, HandleTakes, WorkerStep
    <2>6. ASSUME NEW s \in Sessions, PushStep(s)
          PROVE  UNCHANGED vars
        BY <2>6 DEF PushStep, PushTests, PushBegins, PushEnds, PushAstray
    <2> QED
        BY <1>1, <2>0, <2>1, <2>2, <2>3, <2>4, <2>5, <2>6 DEF PreviewNext, Next
<1>2. CASE UNCHANGED allVars
    BY <1>2 DEF allVars
<1> QED
    BY <1>1, <1>2

THEOREM PreviewKeepsSessions == PreviewSpec => Spec
<1>1. PreviewInit => Init
    BY DEF PreviewInit
<1> QED
    BY <1>1, PreviewIsSession, PTL DEF PreviewSpec, Spec

----------------------------------------------------------------------------
(* What the steps of the sessions leave to the preview.                    *)

(* A Player leads to the handle of one of its own sessions.                *)
LEMMA HandlesAreOwn ==
    ASSUME IInv, NEW p \in Sessions, handleOf[p] # None
    PROVE  handleOf[p] \in Sessions /\ playerOf[handleOf[p]] = p
<1>1. handleOf \in [Sessions -> Sessions \union {None}]
    BY DEF IInv, TypeOK
<1>2. playerOf[handleOf[p]] = p
    BY DEF IInv, Ownership
<1> QED
    BY <1>1, <1>2

(* The HTTP thread in MAVideo leaves Players, handles and sessions that    *)
(* are seen alone.                                                         *)
HttpChange ==
    /\ UNCHANGED <<handleOf, worker>>
    /\ \A s \in Sessions : pc'[s] = pc[s] \/ (pc[s] \in Unseen /\ pc'[s] \in Unseen)

LEMMA HttpFrame ==
    ASSUME TypeOK, HttpStep \/ \E add, remove \in Cams \union {None} : MAVideo(add, remove),
           Threads
    PROVE  HttpChange
<1>1. ASSUME AddSpawn
      PROVE  HttpChange
    <2>1. /\ pc' = [pc EXCEPT ![started + 1] = "spawned"]
          /\ UNCHANGED <<handleOf, worker>>
        BY <1>1 DEF AddSpawn, playerVars, workVars
    <2>2. started + 1 \in Sessions => pc[started + 1] = "none"
        BY Typed DEF Threads
    <2> QED
        BY <2>1, <2>2 DEF HttpChange, TypeOK, Unseen
<1>2. ASSUME HttpStep, ~AddSpawn
      PROVE  HttpChange
    BY <1>2 DEF HttpStep, HttpChange, AddRefused, AddFound, AddGet, AddGetNull, AddPlayer,
       AddUpdate, RemoveFind, RemoveGet, RemoveGetNull,
                StopPull, StopPrediction, playerVars, workVars
<1>3. ASSUME NEW add \in Cams \union {None}, NEW remove \in Cams \union {None},
             MAVideo(add, remove)
      PROVE  HttpChange
    BY <1>3 DEF MAVideo, HttpChange, playerVars, workVars
<1> QED
    BY <1>1, <1>2, <1>3

(* A session thread whose grace does not begin or end: it may publish its  *)
(* handle, or start its handle thread.                                     *)
RestChange(s) ==
    /\ UNCHANGED <<httpPc, playerOf>>
    /\ pc'[s] # "grace" /\ pc'[s] \in TakenDown => pc[s] \in TakenDown
    /\ pc'[s] \in Unseen => pc[s] \in Unseen
    /\ \A r \in Sessions \ {s} : pc'[r] = pc[r]
    /\ handleOf' = handleOf \/ (/\ pc[s] = "built" /\ pc'[s] = "published"
                                /\ handleOf' = [handleOf EXCEPT ![playerOf[s]] = s])
    /\ worker' = worker \/ (pc[s] \in Building /\ \A r \in Sessions \ {s} : worker'[r] = worker[r])

LEMMA RestFrame ==
    ASSUME TypeOK, NEW s \in Sessions, SessionStep(s), pc[s] # "ended", pc[s] # "grace"
    PROVE  RestChange(s) /\ pc'[s] # "grace"
    BY DEF SessionStep, RestChange, TypeOK, Unseen, flagVars, workVars, httpVars, playerVars, threadVars,
           Goes, Building, TakenDown, Build, Publish, StartPrediction,
           Open, OpenFails, LoopGoesOn, LoopEnds, ReadFrame, ReadOther, ReadFails,
           Drained, Close, EndPrediction, Delete, Erase, RemoveCamera

----------------------------------------------------------------------------
(* The invariant, one lemma per group of steps.                            *)

LEMMA InitPreviewInv == PreviewInit => PreviewInv
<1> SUFFICES ASSUME PreviewInit
             PROVE  PreviewInv
    OBVIOUS
<1> USE DEF PreviewInit, Init
<1>1. PreviewTypeOK
    BY DEF PreviewTypeOK
<1>2. Request /\ RendersAreKnown
    BY DEF Request, RendersAreKnown, Unseen
<1>3. PushesAreInHand /\ PushesAreSafe /\ RendersBeforeDelete
    BY DEF PushesAreInHand, PushesAreSafe, RendersBeforeDelete
<1> QED
    BY <1>1, <1>2, <1>3 DEF PreviewInv

(* MAVideo and its steps.                                                  *)
LEMMA InvHttp ==
    ASSUME IInv, PreviewInv, UNCHANGED previewVars,
           \/ HttpStep
           \/ subPc = "idle" /\ \E add, remove \in Cams \union {None} : MAVideo(add, remove)
    PROVE  PreviewInv'
<1>1. HttpChange
    BY HttpFrame DEF IInv
<1>2. subPc = "idle"
    BY DEF HttpStep, PreviewInv, Request, AddRefused, AddFound, AddGet, AddGetNull, AddPlayer,
           AddSpawn, AddUpdate, RemoveFind, RemoveGet, RemoveGetNull, StopPull, StopPrediction
<1>3. UNCHANGED <<encoder, renderFlag, render, push, subPc, sub, hasty, waited, crashed>>
    BY DEF previewVars, renderVars, subVars
<1>4. PreviewTypeOK' /\ Request' /\ RendersBeforeDelete'
    BY <1>2, <1>3 DEF PreviewInv, PreviewTypeOK, Request, RendersBeforeDelete
<1>5. RendersAreKnown'
    BY <1>1, <1>3 DEF PreviewInv, RendersAreKnown, HttpChange, IInv, TypeOK
<1>6. PushesAreInHand' /\ PushesAreSafe'
    BY <1>1, <1>2, <1>3 DEF PreviewInv, PushesAreInHand, PushesAreSafe, HttpChange
<1> QED
    BY <1>4, <1>5, <1>6 DEF PreviewInv

(* SubVideo.                                                               *)
LEMMA InvSub ==
    ASSUME IInv, PreviewInv, SubStep \/ \E c \in Cams, event \in {0, 1} : SubVideo(c, event)
    PROVE  PreviewInv'
<1> USE DEF PreviewInv, renderVars, subVars
<1>0. /\ players \in [DOMAIN players -> Sessions]
      /\ handleOf \in [Sessions -> Sessions \union {None}]
      /\ None \notin Sessions
      /\ \A s \in Sessions : pc[s] \in {"grace"} \union TakenDown => ~predictionFlag[s]
    BY Constants DEF IInv, TypeOK, Workers
<1>a. /\ UNCHANGED <<handleOf, players, playerOf, httpPc, pc, worker>>
      /\ UNCHANGED vars
    BY DEF SubStep, SubVideo, SubGet, SubGetNone, SubGetNull, SubStarts, SubStops, SubElse,
       SubAstray, StartRefused,
           StartReplaces, StartRender, StopRender, vars, playerVars, threadVars, workVars, httpVars
<1>1. ASSUME NEW c \in Cams, NEW event \in {0, 1}, SubVideo(c, event)
      PROVE  PreviewInv'
    <2>1. /\ UNCHANGED <<encoder, renderFlag, render, push, hasty, waited, crashed>>
          /\ sub' = [event |-> event, cam |-> c, player |-> None, handle |-> None]
          /\ subPc' = "get" /\ httpPc = "idle"
        BY <1>1 DEF SubVideo
    <2>2. PreviewTypeOK' /\ Request'
        BY <1>a, <2>1 DEF PreviewTypeOK, Request
    <2>3. RendersAreKnown' /\ PushesAreInHand' /\ PushesAreSafe' /\ RendersBeforeDelete'
        BY <1>a, <2>1 DEF RendersAreKnown, PushesAreInHand, PushesAreSafe, RendersBeforeDelete
    <2> QED
        BY <2>2, <2>3
<1>2. ASSUME SubStep
      PROVE  PreviewInv'
    <2>a. httpPc = "idle"
        BY <1>2 DEF Request, SubStep, SubGet, SubGetNone, SubGetNull, SubStarts, SubStops, SubElse,
           SubAstray, StartRefused, StartReplaces, StartRender, StopRender
    <2>g. CASE SubGet
        <3>1. PICK p \in Sessions : p = players[sub.cam] /\ handleOf[p] \in Sessions
            BY <1>0, <2>g DEF SubGet
        <3>2. /\ UNCHANGED <<encoder, renderFlag, render, push, waited, crashed>>
              /\ sub' = [sub EXCEPT !.player = p]
              /\ subPc' = "test"
              /\ hasty' = hasty \union {s \in {handleOf[p]} :
                                sub.event = 1 /\ ~renderFlag[s] /\ push[s] \in Pushing}
            BY <2>g, <3>1 DEF SubGet
        <3>3. Handle' = handleOf[p] /\ Target' = handleOf[p] /\ sub'.event = sub.event
            BY <1>a, <3>2 DEF Handle, Target, PreviewTypeOK
        <3>4. PreviewTypeOK'
            BY <3>1, <3>2 DEF PreviewTypeOK
        <3>5. Request'
            BY <1>0, <1>a, <2>a, <3>1, <3>2, <3>3 DEF Request, PreviewTypeOK
        <3>6. RendersAreKnown' /\ RendersBeforeDelete' /\ PushesAreSafe'
            BY <1>a, <3>2 DEF RendersAreKnown, RendersBeforeDelete, PushesAreSafe
        <3>7. PushesAreInHand'
            BY <1>a, <3>2, <3>3 DEF PushesAreInHand
        <3> QED
            BY <3>4, <3>5, <3>6, <3>7
    <2>n. CASE SubGetNull
        <3>1. /\ UNCHANGED <<encoder, renderFlag, render, push, subPc, sub, hasty, waited>>
              /\ crashed' \in BOOLEAN /\ subPc = "get"
            BY <2>n DEF SubGetNull
        <3>2. PreviewTypeOK' /\ Request' /\ RendersAreKnown'
            BY <1>a, <3>1 DEF PreviewTypeOK, Request, RendersAreKnown
        <3>3. PushesAreInHand' /\ PushesAreSafe' /\ RendersBeforeDelete'
            BY <1>a, <3>1 DEF PushesAreInHand, PushesAreSafe, RendersBeforeDelete
        <3> QED
            BY <3>2, <3>3
    <2>0. subPc \notin {"idle", "get"} =>
            /\ sub.player \in Sessions /\ Handle \in Sessions /\ Handle = handleOf[sub.player]
            /\ playerOf[Handle] = sub.player
        BY <1>0, HandlesAreOwn DEF Request, Handle
    <2>u. ASSUME UNCHANGED sub
          PROVE  Handle' = Handle
        BY <1>a, <2>u DEF Handle
    <2>1. CASE SubStarts
        <3>1. /\ UNCHANGED <<encoder, renderFlag, render, push, sub, hasty, waited, crashed>>
              /\ subPc = "test" /\ subPc' = "start" /\ predictionFlag[Handle] /\ Starts
            BY <2>1 DEF SubStarts
        <3>2. PreviewTypeOK' /\ RendersAreKnown' /\ PushesAreSafe'
            BY <1>a, <3>1 DEF PreviewTypeOK, RendersAreKnown, PushesAreSafe
        <3>3. Request' /\ PushesAreInHand'
            BY <1>a, <2>a, <2>0, <2>u, <3>1 DEF Request, PushesAreInHand, Starts, Target
        <3>4. RendersBeforeDelete'
            BY <1>0, <1>a, <2>0, <2>u, <3>1 DEF RendersBeforeDelete, Deleted, Target
        <3> QED
            BY <3>2, <3>3, <3>4
    <2>2. CASE SubStops
        <3>1. /\ UNCHANGED <<encoder, renderFlag, render, push, sub, hasty, waited, crashed>>
              /\ subPc = "test" /\ subPc' = "stop" /\ predictionFlag[Handle] /\ Stops
            BY <2>2 DEF SubStops
        <3>2. PreviewTypeOK' /\ RendersAreKnown' /\ PushesAreSafe'
            BY <1>a, <3>1 DEF PreviewTypeOK, RendersAreKnown, PushesAreSafe
        <3>3. Request' /\ PushesAreInHand'
            BY <1>a, <2>a, <2>0, <2>u, <3>1 DEF Request, PushesAreInHand, Stops, Target
        <3>4. RendersBeforeDelete'
            BY <1>0, <1>a, <2>0, <2>u, <3>1 DEF RendersBeforeDelete, Deleted, Target
        <3> QED
            BY <3>2, <3>3, <3>4
    <2>3. CASE SubGetNone \/ SubElse \/ SubAstray
        <3>1. /\ UNCHANGED <<encoder, renderFlag, render, push, sub, hasty>>
              /\ subPc' = "idle" /\ waited' = [s \in Sessions |-> TRUE]
              /\ crashed' \in BOOLEAN
            BY <2>3 DEF SubGetNone, SubElse, SubAstray, SubEnds, PreviewTypeOK
        <3>2. PreviewTypeOK' /\ RendersAreKnown' /\ PushesAreSafe'
            BY <1>a, <3>1 DEF PreviewTypeOK, RendersAreKnown, PushesAreSafe
        <3>3. Request' /\ PushesAreInHand' /\ RendersBeforeDelete'
            BY <1>a, <3>1 DEF Request, PushesAreInHand, RendersBeforeDelete
        <3> QED
            BY <3>2, <3>3
    <2>4. CASE StartRefused
        <3>1. /\ UNCHANGED <<encoder, renderFlag, push, sub, hasty, crashed>>
              /\ render' = [render EXCEPT ![sub.player] = renderFlag[Handle]]
              /\ subPc = "start" /\ subPc' = "idle" /\ waited' = [s \in Sessions |-> TRUE]
            BY <2>4 DEF StartRefused, SubEnds
        <3>2. PreviewTypeOK' /\ RendersAreKnown'
            BY <1>0, <1>a, <2>0, <3>1 DEF PreviewTypeOK, RendersAreKnown
        <3>3. PushesAreSafe' /\ Request' /\ PushesAreInHand' /\ RendersBeforeDelete'
            BY <1>a, <3>1 DEF PushesAreSafe, Request, PushesAreInHand, RendersBeforeDelete
        <3> QED
            BY <3>2, <3>3
    <2>5. CASE StartReplaces
        <3>1. /\ UNCHANGED <<renderFlag, render, hasty, waited>>
              /\ encoder' = [encoder EXCEPT ![Handle] = "bare"]
              /\ push' = [push EXCEPT ![Handle] = IF @ = "in" THEN "torn" ELSE @]
              /\ sub' = [sub EXCEPT !.handle = Handle]
              /\ subPc = "start" /\ subPc' = "init" /\ crashed' \in BOOLEAN
            BY <2>5 DEF StartReplaces
        <3>a. /\ sub'.player = sub.player /\ sub'.event = sub.event /\ sub'.handle = Handle
              /\ Handle' = Handle /\ Target' = Handle
            BY <1>a, <3>1 DEF Handle, Target, PreviewTypeOK
        <3>2. Starts /\ ~render[sub.player] /\ sub.event = 1
            BY <3>1 DEF Request, Starts
        <3>3. ~renderFlag[Handle] /\ pc[Handle] \notin Unseen
            BY <2>0, <3>1, <3>2, <1>0 DEF RendersAreKnown
        <3>4. push[Handle] \in Pushing => Handle \in hasty
            BY <3>1, <3>2, <3>3 DEF PushesAreInHand
        <3>5. PreviewTypeOK' /\ RendersAreKnown'
            BY <1>0, <1>a, <2>0, <3>1, <3>3 DEF PreviewTypeOK, RendersAreKnown, Pushing
        <3>6. PushesAreSafe'
            BY <2>0, <3>1, <3>4 DEF PushesAreSafe, PreviewTypeOK, Pushing
        <3>7. PushesAreInHand'
            BY <1>a, <3>1, <3>a, <3>4 DEF PushesAreInHand, PreviewTypeOK, Pushing
        <3>8. Request'
            BY <1>0, <1>a, <2>a, <2>0, <3>1, <3>a, <3>2, <3>3 DEF Request, Starts
        <3>9. RendersBeforeDelete'
            BY <1>a, <3>1, <3>a DEF RendersBeforeDelete, Deleted, Target
        <3> QED
            BY <3>5, <3>6, <3>7, <3>8, <3>9
    <2>6. CASE StartRender
        <3>1. PICK ok \in BOOLEAN :
                /\ encoder' = [encoder EXCEPT ![sub.handle] = IF ok THEN "ready" ELSE "failed"]
                /\ renderFlag' = [renderFlag EXCEPT ![sub.handle] = ok]
                /\ render' = [render EXCEPT ![sub.player] = ok]
            BY <2>6 DEF StartRender
        <3>2. /\ UNCHANGED <<push, sub, hasty, crashed>>
              /\ subPc = "init" /\ subPc' = "idle" /\ waited' = [s \in Sessions |-> TRUE]
            BY <2>6 DEF StartRender, SubEnds
        <3>3. /\ sub.handle \in Sessions /\ playerOf[sub.handle] = sub.player
              /\ pc[sub.handle] \notin Unseen /\ ~renderFlag[sub.handle]
              /\ Target = sub.handle /\ ~render[sub.player] /\ sub.event = 1
            BY <3>2 DEF Request, Starts, Target
        <3>4. PreviewTypeOK'
            BY <3>1, <3>2 DEF PreviewTypeOK
        <3>5. \A p \in Sessions : handleOf[p] = sub.handle => p = sub.player
            BY <1>0, <3>3, HandlesAreOwn
        <3>6. RendersAreKnown'
            <4>1. \A p \in Sessions : handleOf[p] # None /\ renderFlag'[handleOf[p]] => render'[p]
                BY <1>0, <2>0, <3>1, <3>2, <3>3, <3>5 DEF RendersAreKnown, PreviewTypeOK
            <4>2. \A s \in Sessions : renderFlag'[s] => encoder'[s] = "ready"
                BY <3>1, <3>3 DEF RendersAreKnown, PreviewTypeOK
            <4>4. \A s \in Sessions : pc[s] \in Unseen => ~renderFlag'[s]
                BY <3>1, <3>3 DEF RendersAreKnown, PreviewTypeOK
            <4> QED
                BY <1>a, <4>1, <4>2, <4>4 DEF RendersAreKnown
        <3>7. push[sub.handle] \in Pushing => sub.handle \in hasty
            BY <3>2, <3>3 DEF PushesAreInHand
        <3>8. PushesAreSafe'
            BY <3>1, <3>2, <3>3, <3>7 DEF PushesAreSafe, PreviewTypeOK, Pushing
        <3>9. Request' /\ PushesAreInHand' /\ RendersBeforeDelete'
            BY <1>a, <3>2 DEF Request, PushesAreInHand, RendersBeforeDelete
        <3> QED
            BY <3>4, <3>6, <3>8, <3>9
    <2>7. CASE StopRender
        <3>1. /\ UNCHANGED <<encoder, push, sub, hasty, crashed>>
              /\ renderFlag' = [renderFlag EXCEPT ![Handle] = FALSE]
              /\ render' = [render EXCEPT ![sub.player] = FALSE]
              /\ subPc = "stop" /\ subPc' = "idle" /\ waited' = [s \in Sessions |-> TRUE]
            BY <2>7 DEF StopRender, SubEnds
        <3>2. PreviewTypeOK' /\ RendersAreKnown'
            BY <1>0, <1>a, <2>0, <3>1, HandlesAreOwn DEF PreviewTypeOK, RendersAreKnown
        <3>3. PushesAreSafe' /\ Request' /\ PushesAreInHand' /\ RendersBeforeDelete'
            BY <1>a, <3>1 DEF PushesAreSafe, Request, PushesAreInHand, RendersBeforeDelete
        <3> QED
            BY <3>2, <3>3
    <2> QED
        BY <1>2, <2>1, <2>2, <2>3, <2>4, <2>5, <2>6, <2>7, <2>g, <2>n DEF SubStep
<1> QED
    BY <1>1, <1>2

(* A session thread.                                                       *)
LEMMA InvSession ==
    ASSUME IInv, PreviewInv, NEW s \in Sessions, SessionGoesOn(s), httpPc # "crashed"
    PROVE  PreviewInv'
<1> USE DEF PreviewInv, renderVars, subVars, previewVars
<1>0. /\ TypeOK /\ TypeOK'
      /\ \A r \in Sessions : pc[r] \in Building => worker[r] = "none"
      /\ \A p \in Sessions : handleOf[p] # None => playerOf[handleOf[p]] = p
    <2>1. IInv'
        BY NextIInv DEF SessionGoesOn, GraceBegins, DeleteLate, SessionStep, Next
    <2> QED
        BY <2>1, HandlesAreOwn DEF IInv, Workers
<1>1. CASE GraceBegins(s)
    <2>1. /\ UNCHANGED <<handleOf, worker, httpPc>>
          /\ UNCHANGED <<encoder, renderFlag, render, push, subPc, sub, hasty, crashed>>
          /\ UNCHANGED playerOf
          /\ pc' = [pc EXCEPT ![s] = "grace"] /\ pc[s] = "ended"
        BY <1>1 DEF GraceBegins, EndPrediction, Goes, playerVars, threadVars, httpVars
    <2>a. /\ waited' \in [Sessions -> BOOLEAN]
          /\ subPc # "idle" => ~waited'[s]
          /\ \A r \in Sessions \ {s} : waited'[r] = waited[r]
        <3>1. waited' = [waited EXCEPT ![s] = (subPc = "idle")]
            BY <1>1 DEF GraceBegins
        <3>2. CASE subPc = "idle"
            BY <3>1, <3>2, waited' = [waited EXCEPT ![s] = TRUE] DEF PreviewTypeOK
        <3>3. CASE subPc # "idle"
            BY <3>1, <3>3, waited' = [waited EXCEPT ![s] = FALSE] DEF PreviewTypeOK
        <3> QED
            BY <3>2, <3>3
    <2>b. \A r \in Sessions : pc'[r] = pc[r] \/ (r = s /\ pc'[r] = "grace")
        BY <1>0, <2>1 DEF TypeOK
    <2>c. subPc \notin {"idle", "get"} => Handle \in Sessions /\ Target \in Sessions
        BY <1>0 DEF Request, Handle, Target, TypeOK
    <2>d. Handle' = Handle /\ Target' = Target
        BY <2>1 DEF Handle, Target
    <2>2. PreviewTypeOK' /\ RendersAreKnown'
        <3>1. PreviewTypeOK'
            BY <2>1, <2>a DEF PreviewTypeOK
        <3>2. \A r \in Sessions : pc'[r] \in Unseen => pc[r] \in Unseen
            BY <2>b DEF Unseen
        <3>3. \A p \in Sessions : handleOf[p] # None => handleOf[p] \in Sessions
            BY <1>0 DEF TypeOK
        <3> QED
            BY <2>1, <3>1, <3>2, <3>3 DEF RendersAreKnown
    <2>3. Request' /\ PushesAreInHand' /\ PushesAreSafe'
        BY <2>1, <2>b, <2>d DEF Request, PushesAreInHand, PushesAreSafe, Starts, Stops, Unseen
    <2>4. RendersBeforeDelete'
        BY <2>1, <2>a, <2>b, <2>c, <2>d DEF RendersBeforeDelete, Deleted, TakenDown
    <2> QED
        BY <2>2, <2>3, <2>4
<1>2. CASE DeleteLate(s)
    <2>1. /\ UNCHANGED <<handleOf, worker, httpPc>>
          /\ UNCHANGED <<encoder, renderFlag, render, push, subPc, sub, hasty, waited, crashed>>
          /\ UNCHANGED playerOf
          /\ pc' = [pc EXCEPT ![s] = "deleted"] /\ pc[s] = "grace" /\ waited[s]
        BY <1>2 DEF DeleteLate, Delete, Goes, playerVars, threadVars, workVars, httpVars
    <2>t. PreviewTypeOK'
        BY <2>1 DEF PreviewTypeOK
    <2>p. \A r \in Sessions : pc'[r] = pc[r] \/ (r = s /\ pc'[r] = "deleted")
        BY <1>0, <2>1 DEF TypeOK
    <2>u. \A r \in Sessions : pc'[r] \in Unseen => pc[r] \in Unseen
        BY <2>p DEF Unseen
    <2>2. PreviewTypeOK' /\ RendersAreKnown'
        <3>1. \A p \in Sessions : handleOf[p] # None => handleOf[p] \in Sessions
            BY <1>0 DEF TypeOK
        <3> QED
            BY <2>1, <2>t, <2>u, <3>1 DEF RendersAreKnown
    <2>d. Handle' = Handle /\ Target' = Target
        BY <2>1 DEF Handle, Target
    <2>3. Request' /\ PushesAreInHand' /\ PushesAreSafe'
        BY <2>1, <2>p, <2>d DEF Request, PushesAreInHand, PushesAreSafe, Starts, Stops, Unseen
    <2>4. RendersBeforeDelete'
        <3>1. Target' = Target
            BY <2>d
        <3>2. subPc \notin {"idle", "get"} => Target \in Sessions
            BY <1>0 DEF Request, Handle, Target, TypeOK
        <3>3. CASE subPc \in {"start", "init", "stop"} /\ Target = s
            BY <2>1, <3>3 DEF RendersBeforeDelete
        <3>4. CASE subPc \in {"start", "init", "stop"} /\ Target # s
            <4>1. pc'[Target] = pc[Target]
                BY <1>0, <2>1, <3>2, <3>4 DEF TypeOK
            <4> QED
                BY <2>1, <3>1, <3>4, <4>1 DEF RendersBeforeDelete, Deleted
        <3> QED
            BY <2>1, <3>3, <3>4 DEF RendersBeforeDelete
    <2> QED
        BY <2>2, <2>3, <2>4
<1>3. ASSUME SessionStep(s), pc[s] # "ended", pc[s] # "grace", UNCHANGED previewVars
      PROVE  PreviewInv'
    <2>1. RestChange(s) /\ pc'[s] # "grace"
        BY <1>0, <1>3, RestFrame
    <2>2. UNCHANGED <<encoder, renderFlag, render, push, subPc, sub, hasty, waited, crashed>>
        BY <1>3
    <2>3. \/ handleOf' = handleOf
          \/ /\ pc[s] = "built" /\ pc'[s] = "published"
             /\ handleOf' = [handleOf EXCEPT ![playerOf[s]] = s]
             /\ ~renderFlag[s] /\ push[s] = "no" /\ s # None
        BY <1>0, <2>1, Constants DEF RestChange, RendersAreKnown, PushesAreInHand, Unseen, Building
    <2>4. PreviewTypeOK'
        BY <2>2 DEF PreviewTypeOK
    <2>5. Request'
        <3>1. \A r \in Sessions : pc'[r] \in Unseen => pc[r] \in Unseen
            BY <2>1 DEF RestChange
        <3>2. subPc \notin {"idle", "get"} => Handle' # None
            BY <1>0, <2>2, <2>3 DEF Request, Handle, TypeOK
        <3> QED
            BY <2>1, <2>2, <3>1, <3>2 DEF Request, Starts, Stops, RestChange
    <2>6. RendersAreKnown'
        <3>1. \A p \in Sessions : handleOf'[p] # None =>
                 \/ handleOf'[p] = handleOf[p]
                 \/ handleOf'[p] = s /\ ~renderFlag[s] /\ pc'[s] = "published"
            BY <1>0, <2>3 DEF TypeOK
        <3>2. \A r \in Sessions : pc'[r] \in Unseen => pc[r] \in Unseen
            BY <2>1 DEF RestChange
        <3>3. \A p \in Sessions : handleOf[p] # None => handleOf[p] \in Sessions
            BY <1>0 DEF TypeOK
        <3>4. \A p \in Sessions : handleOf'[p] # None => pc'[handleOf'[p]] \notin Unseen
            BY <3>1, <3>2, <3>3 DEF RendersAreKnown, Unseen
        <3>5. \A p \in Sessions : handleOf'[p] # None /\ renderFlag[handleOf'[p]] => render[p]
            BY <3>1 DEF RendersAreKnown
        <3>6. \A r \in Sessions : pc'[r] \in Unseen => ~renderFlag[r]
            BY <3>2 DEF RendersAreKnown
        <3> QED
            BY <2>2, <3>4, <3>5, <3>6 DEF RendersAreKnown
    <2>7. PushesAreInHand'
        <3>1. \A r \in Sessions : push[r] # "no" => worker'[r] = worker[r]
            BY <1>0, <2>1 DEF RestChange, PushesAreInHand
        <3>2. subPc \notin {"idle", "get"} => Handle' = Handle \/ push[Handle'] = "no"
            BY <1>0, <2>2, <2>3 DEF Handle, Request, TypeOK
        <3>3. subPc \notin {"idle", "get"} => Target' = Target \/ Target' = Handle'
            BY <2>2 DEF Target
        <3> QED
            BY <2>2, <3>1, <3>2, <3>3 DEF PushesAreInHand, Pushing
    <2>8. PushesAreSafe'
        BY <2>2 DEF PushesAreSafe
    <2>9. RendersBeforeDelete'
        <3>1. subPc \notin {"idle", "get"} => Target' = Target \/ (Target' = s /\ pc'[s] = "published")
            BY <1>0, <2>2, <2>3 DEF Handle, Target, Request, TypeOK
        <3>2. subPc \notin {"idle", "get"} => Target \in Sessions
            BY <1>0 DEF Handle, Target, Request, TypeOK
        <3>3. \A r \in Sessions : pc'[r] \in TakenDown => pc[r] \in TakenDown
            BY <2>1 DEF RestChange
        <3>4. \A r \in Sessions : pc'[r] = "grace" => pc[r] = "grace"
            BY <2>1 DEF RestChange
        <3> QED
            BY <2>2, <3>1, <3>2, <3>3, <3>4 DEF RendersBeforeDelete, Deleted, TakenDown
    <2> QED
        BY <2>4, <2>5, <2>6, <2>7, <2>8, <2>9
<1> QED
    BY <1>1, <1>2, <1>3 DEF SessionGoesOn

(* A Handle thread, in its loop and on its way to the pusher.              *)
LEMMA InvWorker ==
    ASSUME IInv, PreviewInv, NEW s \in Sessions, WorkerGoesOn(s) \/ PushStep(s)
    PROVE  PreviewInv'
<1> USE DEF PreviewInv, renderVars, subVars, previewVars
<1>0. /\ TypeOK
      /\ UNCHANGED <<handleOf, pc, httpPc, sub, subPc, hasty, waited, encoder, renderFlag, render>>
      /\ Handle' = Handle /\ Target' = Target /\ playerOf' = playerOf
      /\ \A r \in Sessions \ {s} : worker'[r] = worker[r] /\ push'[r] = push[r]
    <2>1. CASE PushStep(s)
        BY <2>1 DEF PushStep, PushTests, PushBegins, PushEnds, PushAstray, IInv, TypeOK, Handle,
                    Target, PreviewTypeOK, vars, playerVars, threadVars, httpVars, workVars
    <2>2. CASE WorkerGoesOn(s)
        <3>1. WorkerStep(s)
            BY <2>2 DEF WorkerGoesOn, HandleTakes, WorkerStep
        <3>2. WorkerChange(s) /\ TypeOK
            BY <3>1, WorkerFrame DEF IInv
        <3> QED
            BY <2>2, <3>2 DEF WorkerChange, WorkerGoesOn, HandleTakes, Handle, Target, PreviewTypeOK
    <2> QED
        BY <2>1, <2>2
<1>1. /\ push' \in [Sessions -> {"no", "test"} \union Pushing]
      /\ crashed' \in BOOLEAN
    BY DEF WorkerGoesOn, HandleTakes, PushStep, PushTests, PushBegins, PushEnds, PushAstray,
           Pushing, PreviewTypeOK
<1>2. push'[s] # "no" => worker'[s] = "handle"
    <2>1. CASE PushStep(s)
        BY <2>1 DEF PushStep, PushTests, PushBegins, PushEnds, PushAstray, PreviewTypeOK,
                    PushesAreInHand, vars, workVars
    <2>2. CASE WorkerGoesOn(s)
        BY <1>0, <2>2 DEF WorkerGoesOn, HandleTakes, WorkerTakes, TypeOK, PreviewTypeOK
    <2> QED
        BY <2>1, <2>2
<1>3. push'[s] \in Pushing => push[s] \in Pushing \/ renderFlag[s]
    BY DEF WorkerGoesOn, HandleTakes, PushStep, PushTests, PushBegins, PushEnds, PushAstray,
           Pushing, PreviewTypeOK
<1>4. /\ push'[s] = "torn" => push[s] = "torn"
      /\ push'[s] \in {"draw", "in"} => push[s] \in {"draw", "in"} \/ renderFlag[s]
    BY DEF WorkerGoesOn, HandleTakes, PushStep, PushTests, PushBegins, PushEnds, PushAstray,
           Pushing, PreviewTypeOK
<1>5. PreviewTypeOK' /\ Request' /\ RendersAreKnown' /\ RendersBeforeDelete'
    BY <1>0, <1>1 DEF PreviewTypeOK, Request, RendersAreKnown, RendersBeforeDelete, Deleted,
                      Starts, Stops
<1>6. PushesAreInHand'
    <2>1. subPc \notin {"idle", "get"} => Handle \in Sessions /\ Target \in Sessions
        BY <1>0 DEF Request, Handle, Target, TypeOK
    <2> QED
        BY <1>0, <1>2, <1>3, <2>1 DEF PushesAreInHand
<1>7. PushesAreSafe'
    BY <1>0, <1>4 DEF PushesAreSafe, RendersAreKnown
<1> QED
    BY <1>5, <1>6, <1>7

LEMMA NextPreviewInv == IInv /\ PreviewInv /\ [PreviewNext]_allVars => PreviewInv'
<1>1. ASSUME IInv, PreviewInv, PreviewNext
      PROVE  PreviewInv'
    BY <1>1, InvHttp, InvSub, InvSession, InvWorker DEF PreviewNext, Gone
<1>2. ASSUME PreviewInv, UNCHANGED allVars
      PROVE  PreviewInv'
    <2>1. /\ UNCHANGED <<encoder, renderFlag, render, push, subPc, sub, hasty, waited, crashed>>
          /\ UNCHANGED <<handleOf, playerOf, pc, httpPc, worker>>
        BY <1>2 DEF allVars, vars, previewVars, renderVars, subVars, playerVars, threadVars, workVars,
                    httpVars
    <2>2. PreviewTypeOK' /\ Request' /\ RendersAreKnown'
        BY <1>2, <2>1 DEF PreviewInv, PreviewTypeOK, Request, RendersAreKnown, Handle, Starts, Stops
    <2>3. PushesAreInHand' /\ PushesAreSafe' /\ RendersBeforeDelete'
        BY <1>2, <2>1 DEF PreviewInv, PushesAreInHand, PushesAreSafe, RendersBeforeDelete,
                          Handle, Target, Deleted
    <2> QED
        BY <2>2, <2>3 DEF PreviewInv
<1> QED
    BY <1>1, <1>2

----------------------------------------------------------------------------
(* What a Player is told of its viewers, if clients are careful.           *)

(* A Player whose handle is yet to come has none.                          *)
Fresh == \A s \in Sessions : pc[s] \in {"spawned", "built"} => handleOf[playerOf[s]] = None

(* Player::render says what the handle does, and that of a Player without  *)
(* a handle that nothing is shown.                                         *)
Told ==
    \A p \in Sessions :
        /\ handleOf[p] = None => ~render[p]
        /\ handleOf[p] # None => render[p] = renderFlag[handleOf[p]]

LEMMA FreshKept == IInv /\ CarefulInv /\ Fresh /\ [Next]_vars => Fresh'
<1> SUFFICES ASSUME IInv, CarefulInv, Fresh, [Next]_vars
             PROVE  Fresh'
    OBVIOUS
<1>0. TypeOK /\ Threads /\ Handler /\ Ownership /\ Reached
    BY DEF IInv, CarefulInv
<1>1. ASSUME HttpStep \/ \E add, remove \in Cams \union {None} : MAVideo(add, remove)
      PROVE  Fresh'
    <2>1. CASE AddSpawn
        <3>1. /\ handleOf' = handleOf /\ handleOf[player] = None
              /\ playerOf' = [playerOf EXCEPT ![started + 1] = player]
              /\ pc' = [pc EXCEPT ![started + 1] = "spawned"]
            BY <2>1 DEF AddSpawn, playerVars
        <3> QED
            BY <1>0, <3>1, Typed DEF Fresh, TypeOK
    <2>2. CASE ~AddSpawn
        BY <1>1, <2>2 DEF HttpStep, Fresh, MAVideo, AddRefused, AddFound, AddGet, AddGetNull,
           AddPlayer, AddUpdate,
                          RemoveFind, RemoveGet, RemoveGetNull, StopPull, StopPrediction,
                          playerVars, threadVars
    <2> QED
        BY <2>1, <2>2
<1>2. ASSUME NEW s \in Sessions, SessionStep(s)
      PROVE  Fresh'
    <2>1. SessionMove(s)
        BY <1>0, <1>2, SessionMoves
    <2>2. SUFFICES ASSUME NEW r \in Sessions, pc'[r] \in {"spawned", "built"}
                   PROVE  handleOf'[playerOf[r]] = None
        BY <2>1 DEF Fresh, SessionMove
    <2>3. pc[r] \in {"spawned", "built"}
        BY <1>2, <2>2, <1>0 DEF SessionStep, TypeOK, Goes, Build, Publish, StartPrediction, Open,
           OpenFails, LoopGoesOn, LoopEnds, ReadFrame, ReadOther, ReadFails, Drained, Close,
           EndPrediction, Delete, Erase, RemoveCamera
    <2>4. handleOf[playerOf[r]] = None
        BY <2>3 DEF Fresh
    <2>5. CASE pc'[s] = "published"
        <3>1. handleOf' = [handleOf EXCEPT ![playerOf[s]] = s]
            BY <2>1, <2>5 DEF SessionMove
        <3>2. r # s /\ Live(r) /\ Live(s)
            BY <2>1, <2>2, <2>3, <2>5 DEF SessionMove, Live
        <3>3. camOf[r] # camOf[s]
            BY <1>0, <3>2 DEF Reached
        <3>4. playerOf[r] # playerOf[s]
            BY <1>0, <3>2, <3>3 DEF Reached, Ownership
        <3>5. r \in 1..started
            BY <1>0, <3>2, Typed, Constants DEF Threads, Live
        <3>6. playerOf[r] \in Sessions
            BY <1>0, <3>5, Typed DEF Threads
        <3>7. handleOf \in [Sessions -> Sessions \union {None}]
            BY <1>0 DEF TypeOK
        <3> QED
            BY <2>4, <3>1, <3>4, <3>6, <3>7
    <2> QED
        BY <2>1, <2>4, <2>5 DEF SessionMove
<1>3. ASSUME NEW s \in Sessions, WorkerStep(s)
      PROVE  Fresh'
    BY <1>0, <1>3, WorkerFrame DEF WorkerChange, Fresh
<1>4. CASE UNCHANGED vars
    BY <1>4 DEF vars, playerVars, threadVars, Fresh
<1> QED
    BY <1>1, <1>2, <1>3, <1>4 DEF Next

(* The handle a startRender was called on is that of its Player still.     *)
Steady == subPc = "init" => sub.handle = Handle

LEMMA SteadyKept ==
    IInv /\ PreviewInv /\ Fresh /\ Steady /\ [PreviewNext]_allVars => Steady'
<1> SUFFICES ASSUME IInv, PreviewInv, Fresh, Steady, [PreviewNext]_allVars, subPc' = "init"
             PROVE  sub'.handle = Handle'
    BY DEF Steady
<1>0. TypeOK /\ PreviewTypeOK /\ Request /\ Threads
    BY DEF IInv, PreviewInv
<1>1. CASE SubStep
    BY <1>0, <1>1 DEF SubStep, SubEnds, SubGet, SubGetNone, SubGetNull, SubStarts, SubStops, SubElse,
       SubAstray, StartRefused, StartReplaces, StartRender, StopRender, PreviewTypeOK, Handle, vars,
       playerVars, subVars, Steady
<1>2. ASSUME UNCHANGED <<handleOf, sub, subPc>>
      PROVE  sub'.handle = Handle'
    BY <1>2 DEF Steady, Handle
<1>3. ASSUME NEW s \in Sessions, SessionGoesOn(s)
      PROVE  sub'.handle = Handle'
    <2>1. SessionMove(s) /\ UNCHANGED <<sub, subPc>>
        BY <1>0, <1>3, SessionMoves
        DEF SessionGoesOn, GraceBegins, DeleteLate, SessionStep, previewVars, subVars
    <2>2. CASE pc'[s] = "published"
        <3>1. pc[s] = "built" /\ handleOf' = [handleOf EXCEPT ![playerOf[s]] = s]
            BY <1>0, <1>3, <2>1, <2>2
            DEF SessionMove, SessionGoesOn, GraceBegins, DeleteLate, SessionStep, TypeOK, Goes,
                Build, Publish, StartPrediction, Open, OpenFails, LoopGoesOn, LoopEnds, ReadFrame,
                ReadOther, ReadFails, Drained, Close, EndPrediction, Delete, Erase, RemoveCamera
        <3>2. /\ handleOf[playerOf[s]] = None
              /\ sub.player \in Sessions /\ handleOf[sub.player] # None
            BY <1>0, <2>1, <3>1 DEF Fresh, Request, Handle
        <3>3. handleOf'[sub.player] = handleOf[sub.player]
            BY <1>0, <3>1, <3>2 DEF TypeOK
        <3> QED
            BY <2>1, <3>3 DEF Steady, Handle
    <2> QED
        BY <1>2, <2>1, <2>2 DEF SessionMove
<1>4. ASSUME NEW s \in Sessions, WorkerGoesOn(s) \/ PushStep(s)
      PROVE  UNCHANGED <<handleOf, sub, subPc>>
    BY <1>4 DEF WorkerGoesOn, HandleTakes, WorkerStep, WorkerTakes, WorkerIdles, WorkerEnds,
       WorkerReturns, PushStep, PushTests, PushBegins, PushEnds, PushAstray, vars, playerVars,
       previewVars, subVars
<1>5. CASE HttpStep /\ UNCHANGED previewVars
    BY <1>0, <1>2, <1>5, HttpFrame DEF HttpChange, previewVars, subVars
<1>6. CASE UNCHANGED previewVars /\ \E add, remove \in Cams \union {None} : MAVideo(add, remove)
    BY <1>2, <1>6 DEF MAVideo, playerVars, previewVars, subVars
<1>7. CASE \E c \in Cams, event \in {0, 1} : SubVideo(c, event)
    BY <1>7 DEF SubVideo
<1>8. CASE UNCHANGED allVars
    BY <1>2, <1>8 DEF allVars, vars, playerVars, previewVars, subVars
<1> QED
    BY <1>1, <1>2, <1>3, <1>4, <1>5, <1>6, <1>7, <1>8 DEF PreviewNext

LEMMA ToldKept ==
    IInv /\ IInv' /\ PreviewInv /\ Fresh /\ Told /\ Steady /\ [PreviewNext]_allVars => Told'
<1> SUFFICES ASSUME IInv, IInv', PreviewInv, Fresh, Told, Steady, [PreviewNext]_allVars
             PROVE  Told'
    OBVIOUS
<1>0. TypeOK /\ Threads /\ PreviewTypeOK /\ Request /\ RendersAreKnown
    BY DEF IInv, PreviewInv
<1>a. \A p, q \in Sessions : handleOf[p] # None /\ handleOf[q] = handleOf[p] => p = q
    BY HandlesAreOwn
<1>1. ASSUME UNCHANGED <<handleOf, render, renderFlag>>
      PROVE  Told'
    BY <1>1 DEF Told
<1>2. CASE SubStep
    <2>0. handleOf' = handleOf
        BY <1>2 DEF SubStep, SubGet, SubGetNone, SubGetNull, SubStarts, SubStops, SubElse, SubAstray,
           StartRefused, StartReplaces, StartRender, StopRender, vars, playerVars
    <2>p. subPc \notin {"idle", "get"} =>
            /\ sub.player \in Sessions /\ handleOf[sub.player] # None
            /\ handleOf[sub.player] \in Sessions
        BY <1>0, HandlesAreOwn DEF Request, Handle
    <2>1. \/ UNCHANGED <<render, renderFlag>>
          \/ /\ subPc \notin {"idle", "get"}
             /\ \E b \in BOOLEAN :
               /\ render' = [render EXCEPT ![sub.player] = b]
               /\ \/ renderFlag' = [renderFlag EXCEPT ![handleOf[sub.player]] = b]
                  \/ renderFlag' = renderFlag /\ renderFlag[handleOf[sub.player]] = b
        BY <1>0, <1>2, <2>p
        DEF Handle, Steady, SubStep, SubGet, SubGetNone, SubGetNull, SubStarts, SubStops, SubElse,
            SubAstray, StartRefused, StartReplaces, StartRender, StopRender, renderVars, PreviewTypeOK
    <2>2. CASE UNCHANGED <<render, renderFlag>>
        BY <1>1, <2>0, <2>2
    <2>3. ASSUME NEW b \in BOOLEAN, subPc \notin {"idle", "get"},
                 render' = [render EXCEPT ![sub.player] = b],
                 \/ renderFlag' = [renderFlag EXCEPT ![handleOf[sub.player]] = b]
                 \/ renderFlag' = renderFlag /\ renderFlag[handleOf[sub.player]] = b
          PROVE  Told'
        <3>1. render'[sub.player] = b /\ renderFlag'[handleOf[sub.player]] = b
            BY <1>0, <2>p, <2>3 DEF PreviewTypeOK
        <3>2. ASSUME NEW p \in Sessions, p # sub.player
              PROVE  /\ render'[p] = render[p]
                     /\ handleOf[p] # None => renderFlag'[handleOf[p]] = renderFlag[handleOf[p]]
            <4>1. handleOf[p] # None => handleOf[p] # handleOf[sub.player]
                BY <1>a, <2>3, <2>p, <3>2
            <4>2. handleOf[p] # None => handleOf[p] \in Sessions
                BY HandlesAreOwn
            <4> QED
                BY <1>0, <2>p, <2>3, <3>2, <4>1, <4>2 DEF PreviewTypeOK
        <3> QED
            BY <2>0, <2>p, <2>3, <3>1, <3>2 DEF Told
    <2> QED
        BY <2>1, <2>2, <2>3
<1>3. ASSUME NEW s \in Sessions, SessionGoesOn(s)
      PROVE  Told'
    <2>1. SessionMove(s) /\ UNCHANGED <<render, renderFlag>>
        BY <1>0, <1>3, SessionMoves
        DEF SessionGoesOn, GraceBegins, DeleteLate, SessionStep, previewVars, renderVars
    <2>2. CASE pc'[s] = "published"
        <3>1. pc[s] = "built" /\ handleOf' = [handleOf EXCEPT ![playerOf[s]] = s]
            BY <1>0, <1>3, <2>1, <2>2
            DEF SessionMove, SessionGoesOn, GraceBegins, DeleteLate, SessionStep, TypeOK, Goes,
                Build, Publish, StartPrediction, Open, OpenFails, LoopGoesOn, LoopEnds, ReadFrame,
                ReadOther, ReadFails, Drained, Close, EndPrediction, Delete, Erase, RemoveCamera
        <3>2. handleOf[playerOf[s]] = None /\ ~renderFlag[s]
            BY <1>0, <3>1 DEF Fresh, RendersAreKnown, Unseen
        <3>3. playerOf[s] \in Sessions /\ s # None
            <4>1. s \in 1..started
                BY <1>0, <3>1, Typed, Constants DEF Threads
            <4> QED
                BY <1>0, <4>1, Typed, Constants DEF Threads, Sessions
        <3>4. handleOf'[playerOf[s]] = s
              /\ \A p \in Sessions : p # playerOf[s] => handleOf'[p] = handleOf[p]
            BY <1>0, <3>1, <3>3 DEF TypeOK
        <3>5. ~render[playerOf[s]]
            BY <3>2, <3>3 DEF Told
        <3>6. render[playerOf[s]] = renderFlag[s]
            BY <1>0, <3>2, <3>3, <3>5 DEF PreviewTypeOK
        <3> QED
            BY <2>1, <3>3, <3>4, <3>6 DEF Told
    <2> QED
        BY <1>1, <2>1, <2>2 DEF SessionMove
<1>4. ASSUME NEW s \in Sessions, WorkerGoesOn(s) \/ PushStep(s)
      PROVE  Told'
    <2>1. UNCHANGED <<handleOf, render, renderFlag>>
        BY <1>4 DEF WorkerGoesOn, HandleTakes, WorkerStep, WorkerTakes, WorkerIdles, WorkerEnds,
           WorkerReturns, PushStep, PushTests, PushBegins, PushEnds, PushAstray, vars, playerVars,
           previewVars, renderVars
    <2> QED
        BY <1>1, <2>1
<1>5. CASE HttpStep /\ UNCHANGED previewVars
    BY <1>0, <1>1, <1>5, HttpFrame DEF IInv, HttpChange, previewVars, renderVars
<1>6. CASE UNCHANGED previewVars /\ \E add, remove \in Cams \union {None} : MAVideo(add, remove)
    BY <1>1, <1>6 DEF MAVideo, playerVars, previewVars, renderVars
<1>7. CASE \E c \in Cams, event \in {0, 1} : SubVideo(c, event)
    BY <1>1, <1>7 DEF SubVideo, vars, playerVars, renderVars
<1>8. CASE UNCHANGED allVars
    BY <1>1, <1>8 DEF allVars, vars, playerVars, previewVars, renderVars
<1> QED
    BY <1>2, <1>3, <1>4, <1>5, <1>6, <1>7, <1>8 DEF PreviewNext

----------------------------------------------------------------------------
(* The theorems.                                                           *)

(* What is known of a request, of who renders and of the frame on its way  *)
(* holds in every reachable state of the preview and its sessions.         *)
THEOREM PreviewInvHolds == PreviewSpec => []PreviewInv
<1>1. PreviewSpec => []IInv
    BY PreviewKeepsSessions, InvariantHolds, PTL
<1> QED
    BY <1>1, InitPreviewInv, NextPreviewInv, PTL DEF PreviewSpec

(* The pusher of CameraHandle.cpp:593 finds an encoder that is initialised *)
(* and stays, but for clients that stop and start within one frame.        *)
THEOREM PushesStaySafe == PreviewSpec => []PushesAreSafe
<1>1. PreviewInv => PushesAreSafe
    BY DEF PreviewInv
<1> QED
    BY <1>1, PreviewInvHolds, PTL

(* A SubVideo past its test (Controller.cpp:266, 273) ends before the      *)
(* handle it works on is deleted (125).                                    *)
THEOREM RendersEndInTime == PreviewSpec => []RendersBeforeDelete
<1>1. PreviewInv => RendersBeforeDelete
    BY DEF PreviewInv
<1> QED
    BY <1>1, PreviewInvHolds, PTL

(* With careful clients a session that pulls can be found by SubVideo, and *)
(* its Player knows whether it renders (Controller.cpp:266, 273), so that  *)
(* a preview can be stopped, and started, for any number of cameras and    *)
(* sessions.                                                               *)
THEOREM ShownStaysStoppable ==
    ASSUME Careful
    PROVE  PreviewSpec => []ShownIsStoppable
<1>1. PreviewInit => CarefulInv /\ Fresh /\ Told /\ Steady
    BY DEF PreviewInit, Init, CarefulInv, Reached, Awaited, Live, Fresh, Told, Steady
<1>2. PreviewSpec => []IInv
    BY PreviewKeepsSessions, InvariantHolds, PTL
<1>3. IInv /\ IInv' /\ PreviewInv /\ CarefulInv /\ Fresh /\ Told /\ Steady /\ [PreviewNext]_allVars
         => CarefulInv' /\ Fresh' /\ Told' /\ Steady'
    BY PreviewIsSession, CarefulKept, FreshKept, ToldKept, SteadyKept
<1>4. CarefulInv /\ IInv /\ PreviewInv /\ Told => ShownIsStoppable
    <2> SUFFICES ASSUME CarefulInv, IInv, PreviewInv, Told, subPc = "idle",
                        NEW s \in Sessions, pc[s] \in Pulling
                 PROVE  /\ camOf[s] \in DOMAIN players
                        /\ handleOf[players[camOf[s]]] = s
                        /\ render[players[camOf[s]]] = renderFlag[s]
        BY DEF ShownIsStoppable
    <2>1. camOf[s] \in DOMAIN players /\ handleOf[players[camOf[s]]] = s
        BY DEF CarefulInv, Reached, Live, Pulling
    <2>2. players[camOf[s]] \in Sessions
        BY <2>1 DEF IInv, TypeOK
    <2> QED
        BY <2>1, <2>2, Constants DEF Told
<1> QED
    BY <1>1, <1>2, <1>3, <1>4, PreviewInvHolds, PTL DEF PreviewSpec

----------------------------------------------------------------------------
(* Sessions take themselves down.                                          *)

(* A pull that was stopped in its course was so by a request that goes on  *)
(* to stop the prediction, there is a handle thread once the pull begins,  *)
(* and the grace is not for one that had ended before it.                  *)
Ends(s) ==
    /\ pc[s] \in {"loop", "read", "drain"} /\ ~pullFlag[s] /\ predictionFlag[s]
          => httpPc = "stop prediction" /\ handle = s
    /\ worker[s] = "none" => pc[s] \in {"none"} \union Building
    /\ pc[s] = "grace" /\ worker[s] = "end" => settled[s]

LEMMA EndsBySession ==
    ASSUME TypeOK, NEW s \in Sessions, NEW r \in Sessions, Ends(s), SessionStep(r)
    PROVE  Ends(s)'
<1>1. /\ pc \in [Sessions -> Pcs]
      /\ pullFlag \in [Sessions -> BOOLEAN] /\ predictionFlag \in [Sessions -> BOOLEAN]
      /\ worker \in [Sessions -> {"none", "test", "handle", "end"}]
      /\ settled \in [Sessions -> BOOLEAN]
    BY DEF TypeOK
<1>2. UNCHANGED <<httpPc, handle>>
    BY DEF SessionStep, httpVars, Build, Publish, StartPrediction, Open, OpenFails, LoopGoesOn, LoopEnds,
       ReadFrame, ReadOther, ReadFails, Drained, Close, EndPrediction, Delete, Erase, RemoveCamera
<1>3. ASSUME r # s
      PROVE  UNCHANGED <<pc[s], pullFlag[s], predictionFlag[s], worker[s], settled[s]>>
    BY <1>1, <1>3 DEF SessionStep, Goes, flagVars, workVars, Build, Publish, StartPrediction, Open,
       OpenFails,
       LoopGoesOn, LoopEnds, ReadFrame, ReadOther, ReadFails, Drained, Close, EndPrediction, Delete, Erase,
       RemoveCamera
<1>4. ASSUME r = s
      PROVE  Ends(s)'
    <2> USE DEF Ends, Goes, Building, flagVars, workVars
    <2>1. CASE Build(s) \/ Publish(s)
        BY <1>1, <2>1 DEF Build, Publish
    <2>2. CASE StartPrediction(s)
        BY <1>1, <2>2 DEF StartPrediction
    <2>3. CASE Open(s) \/ OpenFails(s)
        BY <1>1, <2>3 DEF Open, OpenFails
    <2>4. CASE LoopGoesOn(s) \/ LoopEnds(s)
        BY <1>1, <1>2, <2>4 DEF LoopGoesOn, LoopEnds
    <2>5. CASE ReadFrame(s) \/ ReadOther(s) \/ ReadFails(s)
        BY <1>1, <1>2, <2>5 DEF ReadFrame, ReadOther, ReadFails
    <2>6. CASE Drained(s) \/ Close(s) \/ EndPrediction(s)
        BY <1>1, <1>2, <2>6 DEF Drained, Close, EndPrediction
    <2>7. CASE Delete(s) \/ Erase(s) \/ RemoveCamera(s)
        BY <1>1, <1>2, <2>7 DEF Delete, Erase, RemoveCamera
    <2> QED
        BY <1>4, <2>1, <2>2, <2>3, <2>4, <2>5, <2>6, <2>7 DEF SessionStep
<1>5. UNCHANGED <<pc[s], pullFlag[s], predictionFlag[s], worker[s], settled[s], httpPc, handle>>
          => Ends(s)'
    BY DEF Ends
<1> QED
    BY <1>2, <1>3, <1>4, <1>5

LEMMA EndsByOthers ==
    ASSUME TypeOK, Threads, NEW s \in Sessions, Ends(s),
           \/ HttpStep \/ \E add, remove \in Cams \union {None} : MAVideo(add, remove)
           \/ \E r \in Sessions : WorkerStep(r)
    PROVE  Ends(s)'
<1>1. CASE AddSpawn
    <2>1. pc' = [pc EXCEPT ![started + 1] = "spawned"] /\ pc \in [Sessions -> Pcs]
        BY <1>1 DEF AddSpawn, TypeOK
    <2>2. pc'[s] = pc[s] \/ pc'[s] = "spawned"
        BY <2>1
    <2>3. httpPc = "test" /\ UNCHANGED <<pullFlag, predictionFlag, worker, settled>>
        BY <1>1 DEF AddSpawn, flagVars, workVars
    <2> QED
        BY <2>2, <2>3 DEF Ends, Building
<1> USE DEF Ends, TypeOK, flagVars, workVars
<1>2. CASE AddRefused \/ AddFound \/ AddGet \/ AddGetNull \/ AddPlayer \/ AddUpdate
    BY <1>2 DEF AddRefused, AddFound, AddGet, AddGetNull, AddPlayer, AddUpdate
<1>3. CASE RemoveFind \/ RemoveGet \/ RemoveGetNull \/ StopPull \/ StopPrediction
    BY <1>3 DEF RemoveFind, RemoveGet, RemoveGetNull, StopPull, StopPrediction
<1>4. CASE \E add, remove \in Cams \union {None} : MAVideo(add, remove)
    BY <1>4 DEF MAVideo
<1>5. ASSUME NEW r \in Sessions, WorkerStep(r)
      PROVE  Ends(s)'
    <2>1. UNCHANGED <<pc, pullFlag, predictionFlag, httpPc, handle>>
        BY <1>5 DEF WorkerStep, WorkerTakes, WorkerIdles, WorkerEnds, WorkerReturns, httpVars
    <2>2. worker[r] # "none" /\ (r = s \/ (worker'[s] = worker[s] /\ settled'[s] = settled[s]))
        BY <1>5 DEF WorkerStep, WorkerTakes, WorkerIdles, WorkerEnds, WorkerReturns, Settle
    <2>3. worker'[r] # "none" /\ (worker'[r] = "end" => settled'[r])
        BY <1>5 DEF WorkerStep, WorkerTakes, WorkerIdles, WorkerEnds, WorkerReturns, Settle
    <2> QED
        BY <2>1, <2>2, <2>3
<1> QED
    BY <1>1, <1>2, <1>3, <1>4, <1>5 DEF HttpStep

LEMMA EndsKept ==
    ASSUME IInv, NEW s \in Sessions, Ends(s), [Next]_vars
    PROVE  Ends(s)'
<1>1. CASE UNCHANGED vars
    BY <1>1 DEF vars, flagVars, workVars, httpVars, Ends
<1> QED
    BY <1>1, EndsBySession, EndsByOthers DEF Next, IInv

(* The grace is for a SubVideo only while that is in progress.             *)
Waits(s) == pc[s] = "grace" /\ ~waited[s] => subPc # "idle"

LEMMA WaitsKept ==
    ASSUME IInv, PreviewInv, NEW s \in Sessions, Waits(s), [PreviewNext]_allVars
    PROVE  Waits(s)'
<1> USE DEF Waits, previewVars, subVars
<1>0. TypeOK /\ PreviewTypeOK /\ Threads
    BY DEF IInv, PreviewInv
<1>1. ASSUME NEW r \in Sessions, SessionGoesOn(r)
      PROVE  Waits(s)'
    <2>1. CASE GraceBegins(r)
        BY <1>0, <2>1 DEF GraceBegins, EndPrediction, Goes, TypeOK, PreviewTypeOK
    <2>2. CASE ~GraceBegins(r)
        <3>1. UNCHANGED <<waited, subPc>> /\ (pc'[s] = "grace" => pc[s] = "grace")
            BY <1>0, <1>1, <2>2, RestFrame
            DEF SessionGoesOn, DeleteLate, Delete, Goes, RestChange, TypeOK
        <3> QED
            BY <3>1
    <2> QED
        BY <2>1, <2>2
<1>2. ASSUME HttpStep \/ \E add, remove \in Cams \union {None} : MAVideo(add, remove),
             UNCHANGED previewVars
      PROVE  Waits(s)'
    BY <1>0, <1>2, HttpFrame DEF HttpChange, Unseen
<1>3. ASSUME NEW r \in Sessions, WorkerGoesOn(r) \/ PushStep(r)
      PROVE  Waits(s)'
    BY <1>3 DEF WorkerGoesOn, HandleTakes, WorkerStep, WorkerTakes, WorkerIdles, WorkerEnds,
       WorkerReturns, PushStep, PushTests, PushBegins, PushEnds, PushAstray, vars
<1>4. CASE SubStep
    BY <1>0, <1>4 DEF SubStep, SubEnds, SubGet, SubGetNone, SubGetNull, SubStarts, SubStops,
       SubElse, SubAstray, StartRefused, StartReplaces,
       StartRender, StopRender, vars, PreviewTypeOK
<1>5. CASE \E c \in Cams, event \in {0, 1} : SubVideo(c, event)
    BY <1>5 DEF SubVideo, vars
<1>6. CASE UNCHANGED allVars
    BY <1>6 DEF allVars, vars
<1> QED
    BY <1>1, <1>2, <1>3, <1>4, <1>5, <1>6 DEF PreviewNext

EndInv == IInv /\ PreviewInv /\ \A s \in Sessions : Ends(s) /\ Waits(s)

LEMMA EndInvHolds == PreviewSpec => []EndInv
<1>1. PreviewInit => \A s \in Sessions : Ends(s) /\ Waits(s)
    BY DEF PreviewInit, Init, Ends, Waits
<1>2. EndInv /\ IInv' /\ PreviewInv' /\ [PreviewNext]_allVars => EndInv'
    BY EndsKept, WaitsKept, PreviewIsSession DEF EndInv
<1>3. PreviewSpec => []IInv
    BY PreviewKeepsSessions, InvariantHolds, PTL
<1>4. IInv /\ PreviewInv /\ (\A s \in Sessions : Ends(s) /\ Waits(s)) => EndInv
    BY DEF EndInv
<1> QED
    BY <1>1, <1>2, <1>3, <1>4, PreviewInvHolds, PTL DEF PreviewSpec

At(s, x) == pc[s] = x
Works(s, x) == worker[s] = x
Pushes(s, x) == worker[s] = "handle" /\ push[s] = x

(* What happens to a session that pulls or ends: its own thread and its    *)
(* handle thread apart, its flags fall, a SubVideo it waits for may be     *)
(* over, and the encoder may be deleted under pusher.                      *)
Course(s) ==
    /\ pullFlag'[s] => pullFlag[s]
    /\ predictionFlag'[s] => predictionFlag[s]
    /\ pc'[s] = pc[s] \/ SessionGoesOn(s)
    /\ pc'[s] = pc[s] => (waited[s] => waited'[s]) /\ (settled[s] => settled'[s])
    /\ queue'[s] = queue[s] \/ pc[s] = "read" \/ HandleTakes(s)
    /\ worker'[s] = worker[s] \/ WorkerGoesOn(s)
    /\ \/ push'[s] = push[s]
       \/ push[s] = "in" /\ push'[s] = "torn"
       \/ WorkerGoesOn(s) \/ PushStep(s)

Going == {"loop", "read"} \union Ending

LEMMA CourseBySession ==
    ASSUME EndInv, NEW s \in Sessions, NEW r \in Sessions, pc[s] \in Going, SessionGoesOn(r)
    PROVE  Course(s)
<1>1. TypeOK /\ PreviewTypeOK
    BY DEF EndInv, IInv, PreviewInv
<1>2. SessionStep(r) /\ UNCHANGED push
    BY DEF SessionGoesOn, GraceBegins, DeleteLate, SessionStep, previewVars
<1>3. /\ r # s => pc'[s] = pc[s] /\ pullFlag'[s] = pullFlag[s] /\ settled'[s] = settled[s]
                     /\ predictionFlag'[s] = predictionFlag[s] /\ queue'[s] = queue[s]
                     /\ worker'[s] = worker[s]
    BY <1>1, <1>2 DEF TypeOK, SessionStep, flagVars, workVars, Goes, Build, Publish, StartPrediction,
       Open, OpenFails, LoopGoesOn, LoopEnds, ReadFrame, ReadOther, ReadFails, Drained, Close,
       EndPrediction, Delete, Erase, RemoveCamera
<1>4. r = s => /\ pullFlag'[s] => pullFlag[s]
               /\ predictionFlag'[s] => predictionFlag[s]
               /\ pc'[s] # pc[s]
               /\ queue'[s] = queue[s] \/ pc[s] = "read"
               /\ worker'[s] = worker[s]
    BY <1>1, <1>2 DEF TypeOK, SessionStep, flagVars, workVars, Goes, Build, Publish, StartPrediction,
       Open, OpenFails, LoopGoesOn, LoopEnds, ReadFrame, ReadOther, ReadFails, Drained, Close,
       EndPrediction, Delete, Erase, RemoveCamera, Going, Ending
<1>5. r # s => waited'[s] = waited[s]
    BY <1>1 DEF SessionGoesOn, GraceBegins, DeleteLate, previewVars, PreviewTypeOK
<1> QED
    BY <1>2, <1>3, <1>4, <1>5 DEF Course

LEMMA CourseByHandle ==
    ASSUME EndInv, NEW s \in Sessions, NEW r \in Sessions, pc[s] \in Going,
           WorkerGoesOn(r) \/ PushStep(r)
    PROVE  Course(s)
<1>1. TypeOK /\ PreviewTypeOK
    BY DEF EndInv, IInv, PreviewInv
<1>2. UNCHANGED <<pc, pullFlag, predictionFlag, waited>>
    BY DEF WorkerGoesOn, HandleTakes, WorkerStep, WorkerTakes, WorkerIdles, WorkerEnds, WorkerReturns,
       flagVars, previewVars, PushStep, PushTests, PushBegins, PushEnds, PushAstray, vars
<1>3. settled[s] => settled'[s]
    BY <1>1 DEF WorkerGoesOn, HandleTakes, WorkerStep, WorkerTakes, WorkerIdles, WorkerEnds,
       WorkerReturns, Settle, PushStep, PushTests, PushBegins, PushEnds, PushAstray, vars, workVars, TypeOK
<1>4. r # s => worker'[s] = worker[s] /\ push'[s] = push[s] /\ queue'[s] = queue[s]
    BY <1>1 DEF WorkerGoesOn, HandleTakes, WorkerStep, WorkerTakes, WorkerIdles, WorkerEnds,
       WorkerReturns, PushStep, PushTests, PushBegins, PushEnds, PushAstray, vars, workVars, TypeOK,
       PreviewTypeOK, previewVars
<1>5. queue'[s] = queue[s] \/ HandleTakes(r)
    BY <1>1 DEF WorkerGoesOn, WorkerStep, WorkerTakes, WorkerIdles, WorkerEnds, WorkerReturns,
       PushStep, PushTests, PushBegins, PushEnds, PushAstray, vars, workVars, TypeOK
<1>6. worker' = worker \/ WorkerGoesOn(r)
    BY DEF PushStep, PushTests, PushBegins, PushEnds, PushAstray, vars, workVars
<1> QED
    BY <1>2, <1>3, <1>4, <1>5, <1>6 DEF Course

LEMMA CourseByRequests ==
    ASSUME EndInv, NEW s \in Sessions, pc[s] \in Going,
           \/ HttpStep /\ UNCHANGED previewVars
           \/ (\E add, remove \in Cams \union {None} : MAVideo(add, remove)) /\ UNCHANGED previewVars
           \/ SubStep \/ \E c \in Cams, event \in {0, 1} : SubVideo(c, event)
    PROVE  Course(s)
<1>1. TypeOK /\ PreviewTypeOK
    BY DEF EndInv, IInv, PreviewInv
<1>2. CASE SubStep \/ \E c \in Cams, event \in {0, 1} : SubVideo(c, event)
    BY <1>1, <1>2 DEF SubStep, SubEnds, SubVideo, SubGet, SubGetNone, SubGetNull, SubStarts,
       SubStops, SubElse, SubAstray, StartRefused,
       StartReplaces, StartRender, StopRender, vars, flagVars, workVars, PreviewTypeOK, Course
<1>3. CASE (\E add, remove \in Cams \union {None} : MAVideo(add, remove)) /\ UNCHANGED previewVars
    BY <1>3 DEF MAVideo, previewVars, flagVars, workVars, Course
<1>4. CASE AddSpawn /\ UNCHANGED previewVars
    <2>1. started + 1 \in Sessions => pc[started + 1] = "none"
        BY Typed, <1>1 DEF Threads, EndInv, IInv
    <2>2. pc'[s] = pc[s]
        BY <1>1, <1>4, <2>1 DEF AddSpawn, TypeOK, Going, Ending
    <2> QED
        BY <1>4, <2>2 DEF AddSpawn, previewVars, flagVars, workVars, Course
<1>5. CASE (HttpStep /\ ~AddSpawn) /\ UNCHANGED previewVars
    BY <1>1, <1>5 DEF HttpStep, AddRefused, AddFound, AddGet, AddGetNull, AddPlayer, AddUpdate,
       RemoveFind, RemoveGet, RemoveGetNull, StopPull,
       StopPrediction, previewVars, flagVars, workVars, TypeOK, Course
<1> QED
    BY <1>2, <1>3, <1>4, <1>5

LEMMA Courses ==
    ASSUME EndInv, NEW s \in Sessions, pc[s] \in Going, [PreviewNext]_allVars
    PROVE  Course(s)
<1>1. CASE UNCHANGED allVars
    BY <1>1 DEF allVars, vars, previewVars, flagVars, workVars, Course
<1> QED
    BY <1>1, CourseBySession, CourseByHandle, CourseByRequests DEF PreviewNext

(* Where a step of the session thread leads ...                            *)
LEMMA ThreadMoves ==
    ASSUME EndInv, NEW s \in Sessions, SessionGoesOn(s)
    PROVE  /\ At(s, "loop") /\ ~pullFlag[s] => At(s, "closed")'
           /\ At(s, "read") => (At(s, "loop") \/ At(s, "drain"))'
           /\ At(s, "drain") => queue[s] = 0 /\ At(s, "closed")'
           /\ At(s, "closed") => At(s, "ended")'
           /\ At(s, "ended") => At(s, "grace")'
           /\ At(s, "grace") => settled[s] /\ waited[s] /\ At(s, "deleted")'
           /\ At(s, "deleted") => At(s, "erased")'
           /\ At(s, "erased") => At(s, "done")'
<1>1. TypeOK
    BY DEF EndInv, IInv
<1>2. pc[s] = "grace" => waited[s] /\ Delete(s)
    BY DEF SessionGoesOn, GraceBegins, EndPrediction, DeleteLate, Goes
<1>3. SessionStep(s)
    BY DEF SessionGoesOn, GraceBegins, DeleteLate, SessionStep
<1> QED
    BY <1>1, <1>2, <1>3 DEF SessionStep, At, Goes, TypeOK, Build, Publish, StartPrediction, Open, OpenFails,
       LoopGoesOn, LoopEnds, ReadFrame, ReadOther, ReadFails, Drained, Close, EndPrediction, Delete,
       Erase, RemoveCamera

(* ... where one of the handle thread does ...                             *)
LEMMA WorkMoves ==
    ASSUME EndInv, NEW s \in Sessions, WorkerGoesOn(s) \/ PushStep(s)
    PROVE  /\ UNCHANGED pc[s]
           /\ Pushes(s, "test") => (Pushes(s, "draw") \/ Pushes(s, "no"))'
           /\ Pushes(s, "draw") => (Pushes(s, "in") \/ Pushes(s, "no"))'
           /\ Pushes(s, "in") => Pushes(s, "no")'
           /\ Pushes(s, "torn") => Pushes(s, "no")'
           /\ Pushes(s, "no") => Works(s, "test")'
           /\ Works(s, "test") => settled'[s]
           /\ Works(s, "test") /\ ~predictionFlag[s] => Works(s, "end")'
           /\ Works(s, "test") /\ predictionFlag[s] /\ pullFlag[s] /\ queue[s] > 0
                => queue'[s] = queue[s] - 1
           /\ ~Works(s, "end")
<1>1. TypeOK /\ PreviewTypeOK
    BY DEF EndInv, IInv, PreviewInv
<1>2. push[s] # "no" => worker[s] = "handle"
    BY DEF EndInv, PreviewInv, PushesAreInHand
<1>3. CASE PushStep(s)
    BY <1>1, <1>2, <1>3 DEF PushStep, PushTests, PushBegins, PushEnds, PushAstray, vars, workVars,
       Pushes, Works, PreviewTypeOK
<1>4. CASE HandleTakes(s)
    BY <1>1, <1>4 DEF HandleTakes, WorkerTakes, Settle, Pushes, Works, TypeOK
<1>5. ASSUME WorkerStep(s), worker'[s] # "handle", push[s] = "no"
      PROVE  /\ UNCHANGED pc[s]
             /\ Works(s, "test") \/ Works(s, "handle")
             /\ Works(s, "handle") => Works(s, "test")'
             /\ Works(s, "test") => settled'[s]
             /\ Works(s, "test") /\ ~predictionFlag[s] => Works(s, "end")'
             /\ ~(Works(s, "test") /\ predictionFlag[s] /\ pullFlag[s] /\ queue[s] > 0)
    <2>1. CASE WorkerTakes(s)
        BY <1>1, <1>5, <2>1 DEF WorkerTakes, TypeOK
    <2>2. CASE WorkerIdles(s)
        <3>1. queue[s] = 0 => ~(queue[s] > 0)
            OBVIOUS
        <3>2. ~(pullFlag[s] /\ queue[s] > 0)
            BY <2>2, <3>1 DEF WorkerIdles
        <3>3. worker[s] = "test" /\ predictionFlag[s] /\ UNCHANGED pc[s] /\ settled'[s]
            BY <1>1, <2>2 DEF WorkerIdles, Settle, TypeOK
        <3> QED
            BY <3>2, <3>3 DEF Works
    <2>3. CASE WorkerEnds(s)
        BY <1>1, <2>3 DEF WorkerEnds, Settle, Works, TypeOK
    <2>4. CASE WorkerReturns(s)
        BY <1>1, <2>4 DEF WorkerReturns, Works, TypeOK
    <2> QED
        BY <1>5, <2>1, <2>2, <2>3, <2>4 DEF WorkerStep
<1> QED
    BY <1>3, <1>4, <1>5 DEF WorkerGoesOn, Pushes, Works

(* ... and where one of a request does, which nobody else moves.           *)
Asked(s) == httpPc = "stop prediction" /\ handle = s
InSub(x) == subPc = x

LEMMA RequestMoves ==
    ASSUME EndInv, NEW s \in Sessions, HttpGoesOn
    PROVE  /\ Asked(s) => ~predictionFlag'[s]
           /\ InSub("get") => InSub("test")' \/ waited'[s] \/ crashed'
           /\ InSub("test") => (InSub("start") \/ InSub("stop"))' \/ waited'[s]
           /\ InSub("start") => InSub("init")' \/ waited'[s]
           /\ InSub("init") \/ InSub("stop") => waited'[s]
<1>1. TypeOK /\ PreviewTypeOK /\ (subPc # "idle" => httpPc = "idle")
    BY DEF EndInv, IInv, PreviewInv, Request
<1>2. CASE HttpStep /\ UNCHANGED previewVars
    BY <1>1, <1>2 DEF HttpStep, AddRefused, AddFound, AddGet, AddGetNull, AddPlayer, AddSpawn,
       AddUpdate, RemoveFind, RemoveGet, RemoveGetNull,
       StopPull, StopPrediction, Asked, InSub, TypeOK
<1>3. CASE SubStep
    BY <1>1, <1>3 DEF SubStep, SubEnds, SubGet, SubGetNone, SubGetNull, SubStarts, SubStops,
       SubElse, SubAstray, StartRefused,
       StartReplaces, StartRender, StopRender, Asked, InSub
<1> QED
    BY <1>2, <1>3 DEF HttpGoesOn

LEMMA RequestsAlone ==
    ASSUME EndInv, NEW s \in Sessions, [PreviewNext]_allVars, ~HttpGoesOn
    PROVE  /\ Asked(s) => Asked(s)'
           /\ subPc # "idle" => UNCHANGED subPc
<1>1. subPc # "idle" => httpPc = "idle"
    BY DEF EndInv, PreviewInv, Request
<1>2. CASE UNCHANGED allVars
    BY <1>2 DEF allVars, vars, httpVars, previewVars, subVars, Asked
<1>3. ASSUME NEW r \in Sessions, SessionGoesOn(r)
      PROVE  UNCHANGED <<httpPc, handle, subPc>>
    BY <1>3 DEF SessionGoesOn, GraceBegins, DeleteLate, previewVars, subVars, SessionStep, httpVars, Build,
       Publish, StartPrediction, Open, OpenFails, LoopGoesOn, LoopEnds, ReadFrame, ReadOther, ReadFails,
       Drained, Close, EndPrediction, Delete, Erase, RemoveCamera
<1>4. ASSUME NEW r \in Sessions, WorkerGoesOn(r) \/ PushStep(r)
      PROVE  UNCHANGED <<httpPc, handle, subPc>>
    BY <1>4 DEF WorkerGoesOn, HandleTakes, WorkerStep, WorkerTakes, WorkerIdles, WorkerEnds, WorkerReturns,
       PushStep, PushTests, PushBegins, PushEnds, PushAstray, vars, httpVars, previewVars, subVars
<1>5. ASSUME PreviewNext, ~\E r \in Sessions : SessionGoesOn(r) \/ WorkerGoesOn(r) \/ PushStep(r)
      PROVE  httpPc = "idle" /\ subPc = "idle"
    BY <1>1, <1>5 DEF PreviewNext, HttpGoesOn, MAVideo, SubVideo
<1> QED
    BY <1>2, <1>3, <1>4, <1>5 DEF Asked

LEMMA TakenDownStays ==
    ASSUME EndInv, NEW s \in Sessions, pc[s] \in TakenDown, [PreviewNext]_allVars
    PROVE  pc'[s] = pc[s] \/ SessionGoesOn(s)
<1>1. TypeOK /\ Threads
    BY DEF EndInv, IInv
<1>2. CASE HttpStep \/ \E add, remove \in Cams \union {None} : MAVideo(add, remove)
    BY <1>1, <1>2, HttpFrame DEF HttpChange, Unseen, TakenDown
<1>3. ASSUME NEW r \in Sessions, SessionGoesOn(r), r # s
      PROVE  pc'[s] = pc[s]
    <2>1. SessionStep(r)
        BY <1>3 DEF SessionGoesOn, GraceBegins, DeleteLate, SessionStep
    <2> QED
        BY <1>1, <1>3, <2>1 DEF TypeOK, SessionStep, Goes, Build, Publish, StartPrediction, Open, OpenFails,
           LoopGoesOn, LoopEnds, ReadFrame, ReadOther, ReadFails, Drained, Close, EndPrediction, Delete,
           Erase, RemoveCamera
<1>4. ASSUME NEW r \in Sessions, WorkerGoesOn(r) \/ PushStep(r)
      PROVE  UNCHANGED pc
    BY <1>4 DEF WorkerGoesOn, HandleTakes, WorkerStep, WorkerTakes, WorkerIdles, WorkerEnds, WorkerReturns,
       PushStep, PushTests, PushBegins, PushEnds, PushAstray, vars
<1>5. CASE SubStep \/ (\E c \in Cams, event \in {0, 1} : SubVideo(c, event)) \/ UNCHANGED allVars
    BY <1>5 DEF SubStep, SubVideo, SubGet, SubGetNone, SubGetNull, SubStarts, SubStops, SubElse,
       SubAstray, StartRefused, StartReplaces,
       StartRender, StopRender, allVars, vars
<1> QED
    BY <1>2, <1>3, <1>4, <1>5 DEF PreviewNext

(* The grace is over some time: no frame and no SubVideo takes for ever.   *)
LEMMA GraceEnds ==
    ASSUME NEW s \in Sessions
    PROVE  PreviewFairSpec /\ []SessionsGoOn => (At(s, "grace") ~> At(s, "deleted") \/ Gone)
<1> DEFINE Inv == EndInv
           Here == At(s, "grace") /\ ~Gone
           Out == At(s, "deleted") \/ Gone
           Waited == waited[s]
           Settled == settled[s]
           Ask == HttpGoesOn
           Go == ThreadGoesOn(s)
           Work == HandleGoesOn(s)
<1>1. PreviewFairSpec => PreviewSpec /\ Serves /\ Runs(s)
    BY DEF PreviewFairSpec
<1>2. Inv /\ Here /\ [PreviewNext]_allVars =>
        /\ Here' \/ Out'
        /\ Waited => Waited' \/ Out'
        /\ Settled => Settled' \/ Out'
        /\ InSub("get") => (InSub("get") \/ InSub("test") \/ Waited \/ Out)'
        /\ InSub("test") => (InSub("test") \/ InSub("start") \/ InSub("stop") \/ Waited)'
        /\ InSub("start") => (InSub("start") \/ InSub("init") \/ Waited)'
        /\ InSub("init") => (InSub("init") \/ Waited)'
        /\ InSub("stop") => (InSub("stop") \/ Waited)'
        /\ Pushes(s, "test") => (Pushes(s, "test") \/ Pushes(s, "draw") \/ Pushes(s, "no"))'
        /\ Pushes(s, "draw") => (Pushes(s, "draw") \/ Pushes(s, "in") \/ Pushes(s, "no"))'
        /\ Pushes(s, "in") => (Pushes(s, "in") \/ Pushes(s, "torn") \/ Pushes(s, "no"))'
        /\ Pushes(s, "torn") => (Pushes(s, "torn") \/ Pushes(s, "no"))'
        /\ Pushes(s, "no") => (Pushes(s, "no") \/ Works(s, "test"))'
        /\ Works(s, "test") => (Works(s, "test") \/ Settled)'
    <2>1. ASSUME Inv, Here, [PreviewNext]_allVars
          PROVE  Course(s)
        BY <2>1, Courses DEF At, Going, Ending
    <2>2. ASSUME Inv, Here, [PreviewNext]_allVars
          PROVE  /\ InSub("get") => (InSub("get") \/ InSub("test") \/ Waited \/ Out)'
                 /\ InSub("test") => (InSub("test") \/ InSub("start") \/ InSub("stop") \/ Waited)'
                 /\ InSub("start") => (InSub("start") \/ InSub("init") \/ Waited)'
                 /\ InSub("init") => (InSub("init") \/ Waited)'
                 /\ InSub("stop") => (InSub("stop") \/ Waited)'
        <3>1. CASE HttpGoesOn
            BY <2>2, <3>1, RequestMoves DEF Gone
        <3>2. CASE ~HttpGoesOn
            BY <2>2, <3>2, RequestsAlone DEF InSub
        <3> QED
            BY <3>1, <3>2
    <2>3. ASSUME Inv, Here, SessionGoesOn(s)
          PROVE  Out'
        BY <2>3, ThreadMoves
    <2> QED
        BY <2>1, <2>2, <2>3, WorkMoves DEF Course, At, Works, Pushes
<1>3. Inv /\ Here /\ <<Ask>>_allVars =>
        /\ InSub("get") => (InSub("test") \/ Waited \/ Out)'
        /\ InSub("test") => (InSub("start") \/ InSub("stop") \/ Waited)'
        /\ InSub("start") => (InSub("init") \/ Waited)'
        /\ InSub("init") => Waited'
        /\ InSub("stop") => Waited'
    BY RequestMoves DEF Gone
<1>4. Inv /\ Here /\ <<Go>>_allVars => Out'
    BY ThreadMoves DEF ThreadGoesOn
<1>5. Inv /\ Here /\ <<Work>>_allVars =>
        /\ Pushes(s, "test") => (Pushes(s, "draw") \/ Pushes(s, "no"))'
        /\ Pushes(s, "draw") => (Pushes(s, "in") \/ Pushes(s, "no"))'
        /\ Pushes(s, "in") => Pushes(s, "no")'
        /\ Pushes(s, "torn") => Pushes(s, "no")'
        /\ Pushes(s, "no") => Works(s, "test")'
        /\ Works(s, "test") => Settled'
    BY WorkMoves DEF HandleGoesOn
<1>6. Inv /\ Here =>
        /\ Waited \/ InSub("get") \/ InSub("test") \/ InSub("start") \/ InSub("init") \/ InSub("stop")
        /\ \/ Settled \/ Works(s, "test") \/ Pushes(s, "no")
           \/ Pushes(s, "test") \/ Pushes(s, "draw") \/ Pushes(s, "in") \/ Pushes(s, "torn")
    BY DEF EndInv, IInv, TypeOK, PreviewInv, PreviewTypeOK, Ends, Waits, At, InSub, Works, Pushes, Pushing,
           Building
<1>7. SessionsGoOn /\ Inv /\ Here =>
        /\ Waited /\ Settled => ENABLED <<Go>>_allVars
        /\ InSub("get") \/ InSub("test") \/ InSub("start") \/ InSub("init") \/ InSub("stop")
              => ENABLED <<Ask>>_allVars
        /\ Works(s, "test") => ENABLED <<Work>>_allVars
        /\ Pushes(s, "no") => ENABLED <<Work>>_allVars
        /\ Pushes(s, "test") => ENABLED <<Work>>_allVars
        /\ Pushes(s, "draw") => ENABLED <<Work>>_allVars
        /\ Pushes(s, "in") => ENABLED <<Work>>_allVars
        /\ Pushes(s, "torn") => ENABLED <<Work>>_allVars
    <2>1. Inv /\ Here => ~Gone /\ ~predictionFlag[s]
        BY DEF EndInv, IInv, Workers, At
    <2> QED
        BY <2>1 DEF SessionsGoOn, ThreadIsDue, HandleIsDue, At, InSub, Works, Pushes
<1> HIDE DEF Inv, Here, Out, Waited, Settled, Ask, Go, Work
<1> DEFINE Sound == /\ [][PreviewNext]_allVars /\ []Inv /\ []SessionsGoOn
                    /\ WF_allVars(Ask) /\ WF_allVars(Go) /\ WF_allVars(Work)
<1>8. Sound => [](Here => <>(Waited \/ Out))
    BY <1>2, <1>3, <1>6, <1>7, PTL
<1>9. Sound => [](Here => <>(Settled \/ Out))
    BY <1>2, <1>5, <1>6, <1>7, PTL
<1>10. Sound => [](Here /\ Waited /\ Settled => <>Out)
    BY <1>2, <1>4, <1>7, PTL
<1> HIDE DEF Sound
<1>11. Sound /\ [][PreviewNext]_allVars /\ []Inv => [](Here => <>Out)
    BY <1>2, <1>8, <1>9, <1>10, PTL
<1>12. At(s, "grace") => Here \/ Out
    BY DEF Here, Out
<1> QED
    BY <1>1, <1>11, <1>12, EndInvHolds, PTL DEF PreviewSpec, Serves, Runs, Sound, Inv, Ask, Go, Work, Out

(* The drain is over some time, or the session is stranded there: its      *)
(* handle thread takes a frame as long as both flags are set, and once one *)
(* is not, prediction is switched off and that thread ends.                *)
LEMMA DrainEnds ==
    ASSUME NEW s \in Sessions
    PROVE  PreviewFairSpec /\ []SessionsGoOn /\ NoEndlessFall(queue[s]) =>
               (At(s, "drain") ~> At(s, "closed") \/ Stranded(s) \/ Gone)
<1> DEFINE Inv == EndInv
           Out == At(s, "closed") \/ Stranded(s) \/ Gone
           Here == At(s, "drain") /\ ~Stranded(s) /\ ~Gone
           q == queue[s]
           Empty == queue[s] = 0
           Full == predictionFlag[s] /\ pullFlag[s]
           Half == predictionFlag[s] /\ ~pullFlag[s]
           Off == ~predictionFlag[s]
           Inside == Pushes(s, "test") \/ Pushes(s, "draw") \/ Pushes(s, "in") \/ Pushes(s, "torn")
                        \/ Pushes(s, "no")
           Ask == HttpGoesOn
           Go == ThreadGoesOn(s)
           Work == HandleGoesOn(s)
<1>1. PreviewFairSpec => PreviewSpec /\ Serves /\ Runs(s)
    BY DEF PreviewFairSpec
<1>2. Inv => q \in Nat /\ (Empty \/ queue[s] > 0)
    <2>1. Inv => queue[s] \in Nat
        BY DEF EndInv, IInv, TypeOK
    <2> QED
        BY <2>1
<1>3. Inv /\ [PreviewNext]_allVars => q' \in Nat
    BY PreviewIsSession, NextIInv DEF EndInv, IInv, TypeOK
<1>4. (At(s, "drain") /\ Works(s, "end"))' => Out' \/ Empty' \/ ~(q' \in Nat)
    BY DEF At, Works, Stranded
<1>5. Inv => (q' = q - 1 => q' =< q /\ ~[q' = q]_q)
    BY <1>2
<1>6. ASSUME Inv, Here, HandleGoesOn(s)
       PROVE  /\ At(s, "drain")'
              /\ Off /\ Works(s, "test") => Out' \/ Empty'
              /\ Full /\ Works(s, "test") /\ ~Empty => ~[q' = q]_q
    <2>1. PreviewNext
        BY <1>6 DEF HandleGoesOn, PreviewNext
    <2>2. /\ At(s, "drain")' /\ (Off /\ Works(s, "test") => Works(s, "end")')
          /\ Full /\ Works(s, "test") /\ queue[s] > 0 => q' = q - 1
        BY <1>6, WorkMoves DEF HandleGoesOn, At
    <2> HIDE DEF Out, q, Empty
    <2> QED
        BY <1>2, <1>3, <1>4, <1>5, <1>6, <2>1, <2>2
<1>7. Inv /\ Here /\ [PreviewNext]_allVars =>
        /\ Here' \/ Out'
        /\ [q' =< q]_q
        /\ Empty => Empty' \/ Out'
        /\ Full => (Full \/ Half \/ Off)'
        /\ Half => (Half \/ Off)'
        /\ Off => Off'
        /\ Pushes(s, "test") => (Pushes(s, "test") \/ Pushes(s, "draw") \/ Pushes(s, "no"))'
        /\ Pushes(s, "draw") => (Pushes(s, "draw") \/ Pushes(s, "in") \/ Pushes(s, "no"))'
        /\ Pushes(s, "in") => (Pushes(s, "in") \/ Pushes(s, "torn") \/ Pushes(s, "no"))'
        /\ Pushes(s, "torn") => (Pushes(s, "torn") \/ Pushes(s, "no"))'
        /\ Pushes(s, "no") => (Pushes(s, "no") \/ Works(s, "test"))'
        /\ Off /\ Works(s, "test") => Works(s, "test")' \/ Out' \/ Empty'
        /\ Full /\ Works(s, "test") /\ ~Empty => Works(s, "test")' \/ ~[q' = q]_q
    <2>1. ASSUME Inv, Here, [PreviewNext]_allVars
          PROVE  Course(s)
        BY <2>1, Courses DEF At, Going, Ending
    <2>2. ASSUME Inv, Here, SessionGoesOn(s)
          PROVE  Out'
        BY <2>2, ThreadMoves
    <2>3. ASSUME Inv, HandleTakes(s)
          PROVE  ~Empty /\ q' = q - 1
        <3>1. queue \in [Sessions -> Nat]
            BY <2>3 DEF EndInv, IInv, TypeOK
        <3>2. queue[s] > 0 /\ queue' = [queue EXCEPT ![s] = @ - 1]
            BY <2>3 DEF HandleTakes, WorkerTakes
        <3> QED
            BY <3>1, <3>2
    <2>4. ASSUME Inv, Here, [PreviewNext]_allVars
          PROVE  q' = q \/ HandleTakes(s)
        BY <2>1, <2>4 DEF Course, At
    <2>5. ASSUME Inv, Here, [PreviewNext]_allVars
          PROVE  [q' =< q]_q /\ (Empty => Empty')
        BY <1>5, <2>3, <2>4, <2>5
    <2>6. ASSUME Inv, Here, [PreviewNext]_allVars
          PROVE  /\ At(s, "drain")' \/ Out'
                 /\ Works(s, "test")' \/ ~Works(s, "test") \/ HandleGoesOn(s)
        BY <2>1, <2>2, <2>6 DEF Course, At, Works, HandleGoesOn
    <2>7. ASSUME Inv, Here, [PreviewNext]_allVars
          PROVE  /\ Off /\ Works(s, "test") => Works(s, "test")' \/ Out' \/ Empty'
                 /\ Full /\ Works(s, "test") /\ ~Empty => Works(s, "test")' \/ ~[q' = q]_q
        BY <1>6, <2>6, <2>7
    <2>8. ASSUME Inv, Here, [PreviewNext]_allVars
          PROVE  /\ Full => (Full \/ Half \/ Off)'
                 /\ Half => (Half \/ Off)'
                 /\ Off => Off'
        BY <2>1, <2>8 DEF Course
    <2>9. At(s, "drain")' => Here' \/ Out'
        OBVIOUS
    <2> HIDE DEF q, Empty, Full, Half, Off, Out
    <2> QED
        BY <2>1, <2>5, <2>6, <2>7, <2>8, <2>9, WorkMoves DEF Course, Works, Pushes
<1>8. Inv /\ Here /\ Empty /\ <<Go>>_allVars => Out'
    BY ThreadMoves DEF ThreadGoesOn
<1>9. Inv /\ Here /\ Half /\ <<Ask>>_allVars => Off'
    BY RequestMoves DEF EndInv, Ends, Asked, At
<1>10. Inv /\ Here /\ <<Work>>_allVars =>
        /\ Pushes(s, "test") => (Pushes(s, "draw") \/ Pushes(s, "no"))'
        /\ Pushes(s, "draw") => (Pushes(s, "in") \/ Pushes(s, "no"))'
        /\ Pushes(s, "in") => Pushes(s, "no")'
        /\ Pushes(s, "torn") => Pushes(s, "no")'
        /\ Pushes(s, "no") => Works(s, "test")'
        /\ Off /\ Works(s, "test") => Out' \/ Empty'
        /\ Full /\ Works(s, "test") /\ ~Empty => ~[q' = q]_q
    BY <1>6, WorkMoves DEF HandleGoesOn
<1>11. Inv /\ Here =>
        /\ Full \/ Half \/ Off
        /\ Empty \/ Works(s, "test") \/ Inside
    <2>1. ASSUME Inv, Here
          PROVE  worker[s] = "test" \/ worker[s] = "handle" \/ (worker[s] = "end" /\ ~(queue[s] > 0))
        BY <2>1 DEF EndInv, IInv, TypeOK, Ends, At, Building, Stranded
    <2>2. Inv => push[s] \in {"no", "test"} \union Pushing
        BY DEF EndInv, PreviewInv, PreviewTypeOK
    <2> HIDE DEF Empty
    <2> QED
        BY <1>2, <2>1, <2>2 DEF Works, Pushes, Pushing
<1>12. SessionsGoOn /\ Inv /\ Here =>
        /\ Empty => ENABLED <<Go>>_allVars
        /\ Half => ENABLED <<Ask>>_allVars
        /\ Pushes(s, "test") => ENABLED <<Work>>_allVars
        /\ Pushes(s, "draw") => ENABLED <<Work>>_allVars
        /\ Pushes(s, "in") => ENABLED <<Work>>_allVars
        /\ Pushes(s, "torn") => ENABLED <<Work>>_allVars
        /\ Pushes(s, "no") => ENABLED <<Work>>_allVars
        /\ Off /\ Works(s, "test") => ENABLED <<Work>>_allVars
        /\ Full /\ ~Empty /\ Works(s, "test") => ENABLED <<Work>>_allVars
    <2>1. Inv /\ Here /\ Half => httpPc # "idle"
        BY DEF EndInv, Ends, At
    <2>2. Inv /\ Here /\ Empty => ~Gone /\ ThreadIsDue(s)
        BY DEF ThreadIsDue, At
    <2> HIDE DEF Empty
    <2> QED
        BY <1>2, <2>1, <2>2 DEF SessionsGoOn, HandleIsDue, Works, Pushes
<1> HIDE DEF Inv, Here, Out, q, Empty, Full, Half, Off, Ask, Go, Work
<1> DEFINE Sound == /\ [][PreviewNext]_allVars /\ []Inv /\ []SessionsGoOn
                    /\ WF_allVars(Ask) /\ WF_allVars(Go) /\ WF_allVars(Work)
           Late == []Here /\ []~Out /\ []~Empty /\ [][q' = q]_q
<1>13. Sound => [](Here /\ Empty => <>Out)
    BY <1>7, <1>8, <1>12, PTL
<1>14. Sound => [](Here /\ Inside => <>(Works(s, "test") \/ Out))
    BY <1>7, <1>10, <1>12, PTL
<1>15. Sound => [](Here /\ Half => <>(Off \/ Out))
    BY <1>7, <1>9, <1>12, PTL
<1>16. Sound => [](Here /\ Off /\ Works(s, "test") => <>(Empty \/ Out))
    BY <1>7, <1>10, <1>12, PTL
<1>17. Sound => [](Late /\ []Full => ~Works(s, "test"))
    BY <1>7, <1>10, <1>12, PTL
<1>18. Sound => [][PreviewNext]_allVars /\ []Inv
    BY PTL
<1> HIDE DEF Sound, Inside
<1>19. Sound => [](Late => ~Off)
    BY <1>7, <1>11, <1>14, <1>16, <1>18, PTL
<1>20. Sound => []~Late
    BY <1>7, <1>11, <1>14, <1>15, <1>17, <1>18, <1>19, PTL
<1>21. Sound /\ NoEndlessFall(q) => [](Here => <>Out)
    BY <1>2, <1>7, <1>13, <1>18, <1>20, PTL DEF NoEndlessFall
<1>22. At(s, "drain") => Here \/ Out
    BY DEF Here, Out
<1> QED
    BY <1>1, <1>21, <1>22, EndInvHolds, PTL DEF PreviewSpec, Serves, Runs, Sound, Inv, Ask, Go, Work, Out, q

(* Everything else a session has to go through is up to its own thread.    *)
LEMMA PullEnds ==
    ASSUME NEW s \in Sessions
    PROVE  PreviewFairSpec /\ []SessionsGoOn =>
             /\ (pc[s] \in {"loop", "read"} /\ ~pullFlag[s]
                   ~> At(s, "drain") \/ At(s, "closed") \/ Gone)
             /\ (At(s, "closed") ~> At(s, "grace") \/ Gone)
             /\ (At(s, "deleted") ~> At(s, "done") \/ Gone)
<1> DEFINE Inv == EndInv
           Loop == At(s, "loop") /\ ~pullFlag[s]
           Read == At(s, "read") /\ ~pullFlag[s]
           Go == ThreadGoesOn(s)
<1>1. PreviewFairSpec => PreviewSpec /\ Runs(s)
    BY DEF PreviewFairSpec
<1>2. Inv /\ ~Gone /\ [PreviewNext]_allVars =>
        /\ Loop => (Loop \/ At(s, "closed"))'
        /\ Read => (Read \/ Loop \/ At(s, "drain"))'
        /\ At(s, "closed") => (At(s, "closed") \/ At(s, "ended"))'
        /\ At(s, "ended") => (At(s, "ended") \/ At(s, "grace"))'
        /\ At(s, "deleted") => (At(s, "deleted") \/ At(s, "erased"))'
        /\ At(s, "erased") => (At(s, "erased") \/ At(s, "done"))'
    <2>1. ASSUME Inv, [PreviewNext]_allVars, pc[s] \in Going
          PROVE  Course(s)
        BY <2>1, Courses
    <2>2. ASSUME Inv, [PreviewNext]_allVars, pc[s] \in TakenDown
          PROVE  pc'[s] = pc[s] \/ SessionGoesOn(s)
        BY <2>2, TakenDownStays
    <2> QED
        BY <2>1, <2>2, ThreadMoves DEF Course, Going, Ending, TakenDown, At
<1>3. Inv /\ <<Go>>_allVars =>
        /\ Loop => At(s, "closed")'
        /\ Read => (Loop \/ At(s, "drain"))'
        /\ At(s, "closed") => At(s, "ended")'
        /\ At(s, "ended") => At(s, "grace")'
        /\ At(s, "deleted") => At(s, "erased")'
        /\ At(s, "erased") => At(s, "done")'
    <2>1. Go => PreviewNext /\ SessionGoesOn(s)
        BY DEF ThreadGoesOn, PreviewNext
    <2>2. Inv /\ Go /\ Read => ~pullFlag'[s]
        BY <2>1, Courses DEF Course, Going, At
    <2> QED
        BY <2>1, <2>2, ThreadMoves
<1>4. SessionsGoOn /\ ~Gone =>
        /\ Loop => ENABLED <<Go>>_allVars
        /\ Read => ENABLED <<Go>>_allVars
        /\ At(s, "closed") => ENABLED <<Go>>_allVars
        /\ At(s, "ended") => ENABLED <<Go>>_allVars
        /\ At(s, "deleted") => ENABLED <<Go>>_allVars
        /\ At(s, "erased") => ENABLED <<Go>>_allVars
    BY DEF SessionsGoOn, ThreadIsDue, At
<1>5. pc[s] \in {"loop", "read"} /\ ~pullFlag[s] <=> Loop \/ Read
    BY DEF At
<1> HIDE DEF Inv, Loop, Read, Go
<1> DEFINE Sound == [][PreviewNext]_allVars /\ []Inv /\ []SessionsGoOn /\ WF_allVars(Go)
<1>6. Sound => [](Loop => <>(At(s, "closed") \/ Gone))
    BY <1>2, <1>3, <1>4, PTL
<1>7. Sound => [](Read => <>(Loop \/ At(s, "drain") \/ Gone))
    BY <1>2, <1>3, <1>4, PTL
<1>8. Sound => [](At(s, "closed") \/ At(s, "ended") => <>(At(s, "grace") \/ Gone))
    BY <1>2, <1>3, <1>4, PTL
<1>9. Sound => [](At(s, "deleted") \/ At(s, "erased") => <>(At(s, "done") \/ Gone))
    BY <1>2, <1>3, <1>4, PTL
<1> HIDE DEF Sound
<1> QED
    BY <1>1, <1>5, <1>6, <1>7, <1>8, <1>9, EndInvHolds, PTL DEF PreviewSpec, Runs, Sound, Inv, Go

(* The guards of the actions of HttpStep and SubStep, of SessionGoesOn,    *)
(* and of WorkerGoesOn and PushStep.                                       *)
HttpReady ==
    \/ httpPc = "find" /\ request.add \notin DOMAIN players /\ (OverLimit \/ ~OverLimit)
    \/ httpPc = "find" /\ request.add \in DOMAIN players
    \/ httpPc = "get" /\ (request.add \in DOMAIN players \/ request.add \notin DOMAIN players)
    \/ httpPc = "test" /\ (handleOf[player] = None \/ handleOf[player] # None)
    \/ httpPc \in {"remove", "stop pull", "stop prediction"}
    \/ /\ httpPc = "remove get"
       /\ request.remove \in DOMAIN players \/ request.remove \notin DOMAIN players
    \/ /\ subPc = "get" /\ sub.cam \in DOMAIN players
       /\ handleOf[players[sub.cam]] = None \/ handleOf[players[sub.cam]] # None
    \/ subPc = "get" /\ sub.cam \notin DOMAIN players
    \/ subPc = "test" /\ ~Deleted(Handle) /\ predictionFlag[Handle] /\ (Starts \/ Stops)
    \/ subPc = "test" /\ ~Deleted(Handle) /\ (predictionFlag[Handle] => ~Starts /\ ~Stops)
    \/ subPc = "test" /\ Deleted(Handle)
    \/ subPc = "start" /\ (~pullFlag[Handle] \/ pullFlag[Handle])
    \/ subPc \in {"init", "stop"}

ThreadReady(s) ==
    \/ pc[s] \in Building \union {"open", "read"}
    \/ pc[s] = "loop" /\ (pullFlag[s] \/ ~pullFlag[s])
    \/ pc[s] = "drain" /\ queue[s] = 0
    \/ pc[s] \in {"closed", "ended"}
    \/ pc[s] = "grace" /\ settled[s] /\ waited[s]
    \/ pc[s] \in {"deleted", "erased"}

HandleReady(s) ==
    \/ worker[s] = "test" /\ predictionFlag[s] /\ pullFlag[s] /\ queue[s] > 0
    \/ worker[s] = "test" /\ ~predictionFlag[s] /\ push[s] = "no"
    \/ worker[s] = "handle" /\ push[s] = "no"
    \/ push[s] \in {"test", "in", "torn"}
    \/ push[s] = "draw" /\ (encoder[s] = "ready" \/ encoder[s] # "ready")

(* What ENABLED says of such actions, each of which gives every variable   *)
(* its next value and changes one: a guard that holds lets it step.        *)
SessionsStep ==
    ~Gone =>
        /\ HttpReady => ENABLED <<HttpGoesOn>>_allVars
        /\ \A s \in Sessions :
            /\ ThreadReady(s) => ENABLED <<ThreadGoesOn(s)>>_allVars
            /\ HandleReady(s) => ENABLED <<HandleGoesOn(s)>>_allVars

(* A request in progress always comes to an answer, a session thread is    *)
(* never stuck but in the drain and the grace, and a handle thread with a  *)
(* frame, or none to wait for, is never stuck, whatever a viewer does to   *)
(* its flags and its encoder: it looks for a frame with none in hand.      *)
THEOREM SessionsNeverStuck == PreviewSpec /\ []SessionsStep => []SessionsGoOn
<1> DEFINE Inv == TypeOK /\ PreviewInv
<1>1. ASSUME Inv, ~Gone, httpPc # "idle" \/ subPc # "idle"
      PROVE  HttpReady
    BY <1>1 DEF TypeOK, PreviewInv, PreviewTypeOK, HttpReady, Gone
<1>2. ASSUME Inv, NEW s \in Sessions, ThreadIsDue(s)
      PROVE  ThreadReady(s)
    BY <1>2 DEF ThreadIsDue, ThreadReady
<1>3. ASSUME Inv, NEW s \in Sessions, HandleIsDue(s)
      PROVE  HandleReady(s)
    <2>1. /\ push[s] \in {"no", "test"} \union Pushing
          /\ push[s] # "no" => worker[s] = "handle"
          /\ predictionFlag[s] \in BOOLEAN
        BY <1>3 DEF PreviewInv, PreviewTypeOK, PushesAreInHand, TypeOK
    <2> QED
        BY <1>3, <2>1 DEF HandleIsDue, HandleReady, Pushing
<1>4. Inv /\ SessionsStep => SessionsGoOn
    BY <1>1, <1>2, <1>3 DEF SessionsStep, SessionsGoOn
<1>5. PreviewSpec => []TypeOK
    BY PreviewKeepsSessions, TypesCorrect, PTL
<1> QED
    BY <1>4, <1>5, PreviewInvHolds, PTL

(* Sessions take themselves down if nobody is stuck where it is due; the   *)
(* handle thread empties a queue frame by frame.                           *)
LEMMA SessionsEndIfTheyGoOn ==
    PreviewFairSpec /\ []SessionsGoOn /\ (\A s \in Sessions : NoEndlessFall(queue[s]))
        => ShownSessionsEnd
<1> SUFFICES ASSUME NEW s \in Sessions
             PROVE  PreviewFairSpec /\ []SessionsGoOn /\ NoEndlessFall(queue[s]) =>
                        (pc[s] = "drain" \/ (pc[s] \in {"loop", "read"} /\ ~pullFlag[s])
                            ~> pc[s] = "done" \/ Stranded(s) \/ Gone)
    BY DEF ShownSessionsEnd
<1>1. (pc[s] = "drain" <=> At(s, "drain")) /\ (pc[s] = "done" <=> At(s, "done"))
    BY DEF At
<1> QED
    BY <1>1, PullEnds, DrainEnds, GraceEnds, PTL

(* A session whose stream has ended or whose pull flag is cleared takes    *)
(* itself down (CameraPull.cpp:73-107, CameraHandle.cpp:634-646,           *)
(* Controller.cpp:124-128), unless it is stranded in the drain, with any   *)
(* number of cameras, clients and viewers.                                 *)
THEOREM SessionsTakeThemselvesDown ==
    PreviewFairSpec /\ []SessionsStep /\ (\A s \in Sessions : NoEndlessFall(queue[s]))
        => ShownSessionsEnd
BY SessionsEndIfTheyGoOn, SessionsNeverStuck, PTL DEF PreviewFairSpec

=============================================================================
