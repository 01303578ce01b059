------------------------ MODULE CameraSessionProofs ------------------------
(***************************************************************************)
(* Proofs about CameraSession: its inductive invariant, and from it that   *)
(* the map of players is bounded and never keeps a place nobody will free, *)
(* and that no handle thread outlives its CameraHandle.  The lemmas follow *)
(* the parts of IInv; the first two say what a step of a session thread    *)
(* and of a handle thread may change at all.                               *)
(***************************************************************************)
EXTENDS CameraSession, FiniteSetTheorems, TLAPS

(* What the constants are, for the lemmas below.                           *)
LEMMA Constants ==
    /\ None \notin Cams
    /\ None \notin Sessions
    /\ MaxStream \in Nat
    /\ QueueLimit \in Nat
    /\ MaxSessions \in Nat
    /\ \A s \in Sessions : s \in Nat \ {0} /\ s =< MaxSessions
<1>1. /\ None \notin Cams
      /\ None \notin Sessions
    BY NoneAssumption DEF Sessions
<1>2. MaxStream \in Nat /\ QueueLimit \in Nat /\ MaxSessions \in Nat
    BY LimitAssumption, BoundAssumption
<1>3. \A s \in Sessions : s \in Nat \ {0} /\ s =< MaxSessions
    BY <1>2 DEF Sessions
<1> QED
    BY <1>1, <1>2, <1>3

(* What is used of the types most often.                                   *)
LEMMA Typed ==
    ASSUME TypeOK
    PROVE  /\ started \in Nat
           /\ started =< MaxSessions
           /\ \A s \in 1..started : s \in Sessions
           /\ \A s \in Sessions : queue[s] \in Nat
           /\ players \in [DOMAIN players -> Sessions]
           /\ DOMAIN players \subseteq Cams
<1>1. /\ started \in 0..MaxSessions
      /\ players \in [DOMAIN players -> Sessions]
      /\ DOMAIN players \subseteq Cams
      /\ queue \in [Sessions -> Nat]
    BY DEF TypeOK
<1>2. MaxSessions \in Nat
    BY Constants
<1>3. \A s \in 1..started : s \in 1..MaxSessions
    BY <1>1, <1>2
<1> QED
    BY <1>1, <1>2, <1>3 DEF Sessions

(* Putting and dropping a camera.                                          *)
LEMMA PutPlayer ==
    ASSUME TypeOK, NEW c \in Cams, NEW p \in Sessions
    PROVE  /\ DOMAIN Put(players, c, p) = DOMAIN players \union {c}
           /\ DOMAIN Put(players, c, p) \subseteq Cams
           /\ Put(players, c, p) \in [DOMAIN Put(players, c, p) -> Sessions]
           /\ Put(players, c, p)[c] = p
           /\ \A d \in DOMAIN players \ {c} : Put(players, c, p)[d] = players[d]
    BY Typed DEF Put

LEMMA DropPlayer ==
    ASSUME TypeOK, NEW c
    PROVE  /\ DOMAIN Drop(players, c) = DOMAIN players \ {c}
           /\ DOMAIN Drop(players, c) \subseteq Cams
           /\ Drop(players, c) \in [DOMAIN Drop(players, c) -> Sessions]
           /\ \A d \in DOMAIN players \ {c} : Drop(players, c)[d] = players[d]
    BY Typed DEF Drop, Restrict

(* What a step of a session thread may change: it moves itself on, only    *)
(* Erase shrinks the map, only Publish leads a Player to a handle, and     *)
(* only ReadFrame pushes.                                                  *)
SessionChange(s) ==
    /\ UNCHANGED <<started, camOf, playerOf>>
    /\ UNCHANGED <<httpPc, request, player, handle, stopped>>
    /\ pc[s] # "none"
    /\ pc' \in [Sessions -> Pcs]
    /\ pc'[s] # "none"
    /\ \A r \in Sessions \ {s} : pc'[r] = pc[r]
    /\ pc'[s] = "done" => pc[s] = "erased"
    /\ pc'[s] = "erased" => players' = Drop(players, camOf[s])
    /\ players' \in {players, Drop(players, camOf[s])}
    /\ handleOf' \in {handleOf, [handleOf EXCEPT ![playerOf[s]] = s]}
    /\ queue' \in {queue, [queue EXCEPT ![s] = Pushed(s)]}

LEMMA SessionFrame ==
    ASSUME TypeOK, NEW s \in Sessions, SessionStep(s)
    PROVE  SessionChange(s)
    BY DEF SessionStep, SessionChange, TypeOK, threadVars, playerVars, flagVars, workVars, httpVars,
           Goes, Pcs, Building, Pulling, Ending, TakenDown, Build, Publish, StartPrediction,
           Open, OpenFails, LoopGoesOn, LoopEnds, ReadFrame, ReadOther, ReadFails,
           Drained, Close, EndPrediction, Delete, Erase, RemoveCamera

(* What a step of a handle thread may change: it moves itself on and takes *)
(* frames; with prediction off, a test of its loop ends it.                *)
WorkerChange(s) ==
    /\ UNCHANGED <<players, handleOf, started, camOf, playerOf, pc>>
    /\ UNCHANGED <<predictionFlag, pullFlag>>
    /\ UNCHANGED <<httpPc, request, player, handle, stopped>>
    /\ worker[s] \in {"test", "handle"}
    /\ queue' \in {queue, [queue EXCEPT ![s] = queue[s] - 1]}
    /\ queue' # queue => queue[s] > 0
    /\ worker' \in [Sessions -> {"none", "test", "handle", "end"}]
    /\ settled' \in [Sessions -> BOOLEAN]
    /\ \A r \in Sessions \ {s} : worker'[r] = worker[r] /\ settled'[r] = settled[r]
    /\ ~predictionFlag[s] /\ settled'[s] => worker'[s] = "end" \/ settled[s]

LEMMA WorkerFrame ==
    ASSUME TypeOK, NEW s \in Sessions, WorkerStep(s)
    PROVE  WorkerChange(s)
    BY DEF WorkerStep, WorkerChange, TypeOK, threadVars, playerVars, flagVars, httpVars, Settle,
           WorkerTakes, WorkerIdles, WorkerEnds, WorkerReturns

----------------------------------------------------------------------------
(* The types.                                                              *)

LEMMA TypesHttp ==
    ASSUME IInv, HttpStep \/ \E add, remove \in Cams \union {None} : MAVideo(add, remove)
    PROVE  TypeOK'
<1>0. TypeOK /\ Threads /\ Handler
    BY DEF IInv
<1>a. started + 1 > started
    BY <1>0, Typed
<1> USE DEF TypeOK, playerVars, threadVars, flagVars, workVars, httpVars
<1>1. ASSUME NEW add \in Cams \union {None}, NEW remove \in Cams \union {None},
             MAVideo(add, remove)
      PROVE  TypeOK'
    BY <1>0, <1>1 DEF MAVideo
<1>2. CASE AddRefused
    BY <1>0, <1>2 DEF AddRefused
<1>3. CASE AddFound \/ AddGet \/ AddGetNull
    BY <1>0, <1>3 DEF AddFound, AddGet, AddGetNull
<1>4. CASE AddPlayer
    <2>1. request.add \in Cams /\ started + 1 \in Sessions
        BY <1>0, <1>4, Constants DEF AddPlayer, Handler, Sessions
    <2>2. /\ DOMAIN Put(players, request.add, started + 1) \subseteq Cams
          /\ Put(players, request.add, started + 1)
                \in [DOMAIN Put(players, request.add, started + 1) -> Sessions]
        BY <1>0, <2>1, PutPlayer
    <2>3. players' = Put(players, request.add, started + 1)
        BY <1>4 DEF AddPlayer
    <2>4. /\ DOMAIN players' \subseteq Cams
          /\ players' \in [DOMAIN players' -> Sessions]
        BY <2>2, <2>3
    <2> QED
        BY <1>0, <1>4, <2>1, <2>4 DEF AddPlayer
<1>5. CASE AddSpawn
    <2>1. /\ request.add \in Cams
          /\ started + 1 \in Sessions
          /\ started' \in 0..MaxSessions
          /\ player \in Sessions
        BY <1>0, <1>5, Constants DEF AddSpawn, Handler, Sessions
    <2>2. queue[started + 1] = 0
        BY <1>0, <1>a, <2>1 DEF Threads
    <2>3. \A s \in Sessions : queue'[s] > QueueLimit + 1 => camOf'[s] \in Offline
        BY <1>0, <1>5, <2>1, <2>2, Constants DEF AddSpawn
    <2> QED
        BY <1>0, <1>5, <2>1, <2>3 DEF AddSpawn, Pcs, Building
<1>6. CASE AddUpdate
    BY <1>0, <1>6 DEF AddUpdate
<1>7. CASE RemoveFind \/ RemoveGet \/ RemoveGetNull
    BY <1>0, <1>7 DEF RemoveFind, RemoveGet, RemoveGetNull
<1>8. CASE StopPull
    BY <1>0, <1>8 DEF StopPull
<1>9. CASE StopPrediction
    <2>1. handle \in 1..started
        BY <1>0, <1>9 DEF StopPrediction, Handler
    <2>2. handle \in Sessions
        BY <1>0, <2>1, Typed
    <2> QED
        BY <1>0, <1>9, <2>2 DEF StopPrediction
<1> QED
    BY <1>1, <1>2, <1>3, <1>4, <1>5, <1>6, <1>7, <1>8, <1>9 DEF HttpStep

LEMMA PushedFits ==
    ASSUME TypeOK, NEW s \in Sessions
    PROVE  /\ Pushed(s) \in Nat
           /\ Pushed(s) > QueueLimit + 1 => camOf[s] \in Offline
<1>1. /\ queue[s] \in Nat
      /\ queue[s] > QueueLimit + 1 => camOf[s] \in Offline
      /\ QueueLimit \in Nat
    BY Constants DEF TypeOK
<1> QED
    BY <1>1 DEF Pushed

LEMMA TypesSession ==
    ASSUME IInv, NEW s \in Sessions, SessionStep(s)
    PROVE  TypeOK'
<1>0. TypeOK /\ Threads /\ SessionChange(s)
    BY SessionFrame DEF IInv
<1>1. /\ DOMAIN players' \subseteq Cams
      /\ players' \in [DOMAIN players' -> Sessions]
    <2>1. /\ DOMAIN Drop(players, camOf[s]) \subseteq Cams
          /\ Drop(players, camOf[s]) \in [DOMAIN Drop(players, camOf[s]) -> Sessions]
        BY <1>0, DropPlayer
    <2> QED
        BY <1>0, <2>1 DEF TypeOK, SessionChange
<1>2. handleOf' \in [Sessions -> Sessions \union {None}]
    BY <1>0 DEF TypeOK, SessionChange
<1>3. /\ queue' \in [Sessions -> Nat]
      /\ \A r \in Sessions : queue'[r] > QueueLimit + 1 => camOf'[r] \in Offline
    <2>1. /\ queue \in [Sessions -> Nat]
          /\ \A r \in Sessions : queue[r] > QueueLimit + 1 => camOf[r] \in Offline
          /\ camOf' = camOf
          /\ queue' \in {queue, [queue EXCEPT ![s] = Pushed(s)]}
        BY <1>0 DEF TypeOK, SessionChange
    <2>2. /\ Pushed(s) \in Nat
          /\ Pushed(s) > QueueLimit + 1 => camOf[s] \in Offline
        BY <1>0, PushedFits
    <2> QED
        BY <2>1, <2>2
<1>4. /\ predictionFlag' \in [Sessions -> BOOLEAN]
      /\ pullFlag' \in [Sessions -> BOOLEAN]
    <2>1. /\ predictionFlag \in [Sessions -> BOOLEAN]
          /\ pullFlag \in [Sessions -> BOOLEAN]
        BY <1>0 DEF TypeOK
    <2>2. /\ predictionFlag' = predictionFlag
             \/ \E b \in BOOLEAN : predictionFlag' = [predictionFlag EXCEPT ![s] = b]
          /\ pullFlag' = pullFlag
             \/ \E b \in BOOLEAN : pullFlag' = [pullFlag EXCEPT ![s] = b]
        BY DEF SessionStep, Build, Publish, StartPrediction, Open, OpenFails,
               LoopGoesOn, LoopEnds, ReadFrame, ReadOther, ReadFails, Drained, Close, flagVars,
               EndPrediction, Delete, Erase, RemoveCamera
    <2> QED
        BY <2>1, <2>2, Zenon
<1>5. worker' \in [Sessions -> {"none", "test", "handle", "end"}]
    BY <1>0 DEF TypeOK, SessionStep, Goes, Build, Publish, StartPrediction, Open, OpenFails,
           LoopGoesOn, LoopEnds, ReadFrame, ReadOther, ReadFails, Drained, Close, workVars,
           EndPrediction, Delete, Erase, RemoveCamera
<1>6. settled' \in [Sessions -> BOOLEAN]
    <2>1. settled \in [Sessions -> BOOLEAN]
        BY <1>0 DEF TypeOK
    <2>2. settled' = settled \/ settled' = [settled EXCEPT ![s] = worker[s] = "end"]
        BY DEF SessionStep, Build, Publish, StartPrediction, Open, OpenFails,
               LoopGoesOn, LoopEnds, ReadFrame, ReadOther, ReadFails, Drained, Close, workVars,
               EndPrediction, Delete, Erase, RemoveCamera
    <2> QED
        BY <2>1, <2>2, Zenon
<1> QED
    BY <1>0, <1>1, <1>2, <1>3, <1>4, <1>5, <1>6 DEF TypeOK, SessionChange

LEMMA TypesWorker ==
    ASSUME IInv, NEW s \in Sessions, WorkerStep(s)
    PROVE  TypeOK'
<1>1. TypeOK /\ WorkerChange(s)
    BY WorkerFrame DEF IInv
<1>2. /\ queue' \in [Sessions -> Nat]
      /\ \A r \in Sessions : queue'[r] > QueueLimit + 1 => camOf'[r] \in Offline
    <2>1. CASE queue' = queue
        BY <1>1, <2>1 DEF TypeOK, WorkerChange
    <2>2. CASE queue' = [queue EXCEPT ![s] = queue[s] - 1] /\ queue[s] > 0
        <3>1. /\ queue \in [Sessions -> Nat]
              /\ \A r \in Sessions : queue[r] > QueueLimit + 1 => camOf[r] \in Offline
              /\ camOf' = camOf
            BY <1>1 DEF TypeOK, WorkerChange
        <3>2. queue[s] - 1 \in Nat /\ QueueLimit \in Nat
            BY <2>2, <3>1, Constants
        <3> QED
            BY <2>2, <3>1, <3>2
    <2> QED
        BY <1>1, <2>1, <2>2 DEF WorkerChange
<1> QED
    BY <1>1, <1>2 DEF TypeOK, WorkerChange

----------------------------------------------------------------------------
(* The numbering of the sessions, and the request in progress.             *)

LEMMA ThreadsKept ==
    ASSUME IInv, Next
    PROVE  Threads'
<1>0. TypeOK /\ Threads /\ Handler
    BY DEF IInv
<1>1. ASSUME NEW s \in Sessions, SessionStep(s)
      PROVE  Threads'
    <2>1. SessionChange(s)
        BY <1>0, <1>1, SessionFrame
    <2>2. \A r \in Sessions : r > started => r # s
        BY <1>0, <2>1 DEF Threads, SessionChange
    <2>3. \A r \in Sessions : r > started => pc'[r] = "none" /\ queue'[r] = 0
        BY <1>0, <2>1, <2>2 DEF Threads, SessionChange, TypeOK
    <2>4. \A r \in 1..started : r \in Sessions
        BY <1>0, Typed
    <2>5. \A r \in 1..started :
            pc'[r] # "none" /\ camOf'[r] \in Cams /\ playerOf'[r] \in 1..started
        BY <1>0, <2>1, <2>4 DEF Threads, SessionChange
    <2> QED
        BY <2>1, <2>3, <2>5 DEF Threads, SessionChange
<1>2. ASSUME NEW s \in Sessions, WorkerStep(s)
      PROVE  Threads'
    <2>1. WorkerChange(s)
        BY <1>0, <1>2, WorkerFrame
    <2>2. \A r \in Sessions : queue[r] = 0 => queue'[r] = 0
        <3>1. /\ queue \in [Sessions -> Nat]
              /\ queue' = queue \/ (queue' = [queue EXCEPT ![s] = queue[s] - 1] /\ queue[s] > 0)
            BY <1>0, <2>1 DEF WorkerChange, TypeOK
        <3> QED
            BY <3>1
    <2> QED
        BY <1>0, <2>1, <2>2 DEF Threads, WorkerChange
<1>3. CASE AddSpawn
    <2>1. /\ request.add \in Cams
          /\ started + 1 \in Sessions
          /\ started \in Nat
          /\ started' = started + 1
          /\ player \in 1..(started + 1)
        BY <1>0, <1>3, Constants DEF AddSpawn, Handler, Sessions, TypeOK
    <2>2. /\ pc' = [pc EXCEPT ![started + 1] = "spawned"]
          /\ camOf' = [camOf EXCEPT ![started + 1] = request.add]
          /\ playerOf' = [playerOf EXCEPT ![started + 1] = player]
          /\ queue' = queue
        BY <1>3 DEF AddSpawn, workVars
    <2>3. \A s \in Sessions : s > started' => pc'[s] = "none" /\ queue'[s] = 0
        <3>1. \A s \in Sessions : s > started' => s > started /\ s # started + 1
            BY <2>1, Constants
        <3> QED
            BY <1>0, <2>2, <3>1 DEF Threads, TypeOK
    <2>4. ASSUME NEW s \in 1..(started + 1)
          PROVE  pc'[s] # "none" /\ camOf'[s] \in Cams /\ playerOf'[s] \in 1..(started + 1)
        <3>1. s \in Sessions
            BY <2>1, Constants DEF Sessions
        <3>2. CASE s = started + 1
            BY <1>0, <2>1, <2>2, <3>1, <3>2 DEF TypeOK
        <3>3. CASE s # started + 1
            <4>1. s \in 1..started
                BY <2>1, <3>3
            <4>2. playerOf[s] \in 1..(started + 1) /\ pc[s] # "none" /\ camOf[s] \in Cams
                BY <1>0, <2>1, <4>1 DEF Threads
            <4> QED
                BY <1>0, <2>2, <3>1, <3>3, <4>2 DEF TypeOK
        <3> QED
            BY <3>2, <3>3
    <2> QED
        BY <2>1, <2>3, <2>4 DEF Threads
<1>4. CASE UNCHANGED <<started, camOf, playerOf, pc, queue>>
    BY <1>0, <1>4 DEF Threads
<1> QED
    BY <1>1, <1>2, <1>3, <1>4 DEF Next, HttpStep, MAVideo, AddRefused, AddFound, AddGet,
           AddGetNull, AddPlayer, AddUpdate, RemoveFind, RemoveGet, RemoveGetNull, StopPull,
           StopPrediction, threadVars, workVars

LEMMA HandlerKept ==
    ASSUME IInv, Next
    PROVE  Handler'
<1>0. TypeOK /\ Threads /\ Handler /\ Ownership
    BY DEF IInv
<1>1. ASSUME NEW s \in Sessions, SessionStep(s)
      PROVE  Handler'
    <2>1. SessionChange(s)
        BY <1>0, <1>1, SessionFrame
    <2>2. \A c \in DOMAIN Drop(players, camOf[s]) :
            c \in DOMAIN players /\ Drop(players, camOf[s])[c] = players[c]
        BY <1>0, DropPlayer
    <2>3. \A c \in DOMAIN players' : c \in DOMAIN players /\ players'[c] = players[c]
        BY <2>1, <2>2 DEF SessionChange
    <2> QED
        BY <1>0, <2>1, <2>3 DEF Handler, SessionChange
<1>2. ASSUME NEW s \in Sessions, WorkerStep(s)
      PROVE  Handler'
    <2>1. WorkerChange(s)
        BY <1>0, <1>2, WorkerFrame
    <2> QED
        BY <1>0, <2>1 DEF Handler, WorkerChange
<1>3. ASSUME NEW add \in Cams \union {None}, NEW remove \in Cams \union {None},
             MAVideo(add, remove)
      PROVE  Handler'
    BY <1>0, <1>3 DEF MAVideo, Handler, threadVars, TypeOK
<1>4. CASE AddGet
    <2>1. /\ request.add \in DOMAIN players
          /\ httpPc = "get"
          /\ httpPc' = "test"
          /\ player' = players[request.add]
          /\ UNCHANGED <<players, started, request>>
        BY <1>4 DEF AddGet, playerVars, threadVars
    <2>2. \A c \in DOMAIN players : players[c] = players[request.add] <=> c = request.add
        BY <1>0, <2>1 DEF Ownership
    <2>3. players[request.add] \in 1..(started + 1)
        BY <1>0, <2>1 DEF Ownership, TypeOK
    <2> QED
        BY <1>0, <2>1, <2>2, <2>3 DEF Handler
<1>5. CASE AddPlayer
    <2>1. /\ request.add \in Cams
          /\ started \in Nat
          /\ started + 1 \in Sessions
          /\ started < MaxSessions
        BY <1>0, <1>5, Constants DEF AddPlayer, Handler, Sessions, TypeOK
    <2>2. /\ players' = Put(players, request.add, started + 1)
          /\ httpPc = "find"
          /\ httpPc' = "test"
          /\ player' = started + 1
          /\ UNCHANGED <<started, request>>
        BY <1>5 DEF AddPlayer, threadVars
    <2>3. /\ DOMAIN players' = DOMAIN players \union {request.add}
          /\ players'[request.add] = started + 1
          /\ \A c \in DOMAIN players \ {request.add} : players'[c] = players[c]
        BY <2>2 DEF Put
    <2>4. \A c \in DOMAIN players : players[c] # started + 1
        BY <1>0, <2>1, <2>2 DEF Ownership
    <2>5. \A c \in DOMAIN players' : players'[c] = started + 1 <=> c = request.add
        BY <2>3, <2>4
    <2> QED
        BY <2>1, <2>2, <2>5 DEF Handler
<1>6. CASE AddSpawn
    BY <1>0, <1>6 DEF AddSpawn, Handler, TypeOK
<1>7. CASE RemoveGet
    <2>1. CASE httpPc' = "stop pull"
        <3>1. /\ request.remove \in DOMAIN players
              /\ handle' = handleOf[players[request.remove]]
              /\ handleOf[players[request.remove]] # None
              /\ UNCHANGED started
            BY <1>7, <2>1 DEF RemoveGet, threadVars
        <3>2. handle' \in 1..started
            BY <1>0, <3>1 DEF Ownership, TypeOK
        <3> QED
            BY <2>1, <3>1, <3>2 DEF Handler
    <2>2. CASE httpPc' = "idle"
        BY <2>2 DEF Handler
    <2> QED
        BY <1>7, <2>1, <2>2 DEF RemoveGet
<1>8. CASE AddRefused \/ AddUpdate
    BY <1>8 DEF AddRefused, AddUpdate, Handler
<1>9. CASE StopPull \/ StopPrediction
    BY <1>0, <1>9 DEF StopPull, StopPrediction, Handler, threadVars
<1>10. CASE AddFound \/ AddGetNull \/ RemoveFind \/ RemoveGetNull
    BY <1>0, <1>10 DEF AddFound, AddGetNull, RemoveFind, RemoveGetNull, Handler, threadVars
<1> QED
    BY <1>1, <1>2, <1>3, <1>4, <1>5, <1>6, <1>7, <1>8, <1>9, <1>10 DEF Next, HttpStep

----------------------------------------------------------------------------
(* Which Player is whose.                                                  *)

LEMMA OwnershipSession ==
    ASSUME IInv, NEW s \in Sessions, SessionStep(s)
    PROVE  Ownership'
<1>0. TypeOK /\ Threads /\ Ownership /\ SessionChange(s)
    BY SessionFrame DEF IInv
<1>1. /\ DOMAIN players' \subseteq DOMAIN players
      /\ \A c \in DOMAIN players' : players'[c] = players[c]
    <2>1. players' = players \/ players' = Drop(players, camOf[s])
        BY <1>0 DEF SessionChange
    <2> QED
        BY <1>0, <2>1, DropPlayer
<1>2. /\ UNCHANGED <<started, camOf, playerOf, httpPc, player>>
      /\ \A t \in Sessions \ {s} : pc'[t] = pc[t]
    BY <1>0 DEF SessionChange
<1>3. s \in 1..started /\ playerOf[s] \in Sessions
    <2>1. s \in 1..started
        BY <1>0, Constants, Typed DEF Threads, SessionChange
    <2> QED
        BY <1>0, <2>1, Typed DEF Threads
<1>4. IsFiniteSet(DOMAIN players')
    BY <1>0, <1>1, FS_Subset DEF Ownership
<1>5. ASSUME NEW c \in DOMAIN players', NEW t \in 1..started, playerOf[t] = players[c]
      PROVE  camOf[t] = c /\ pc'[t] \notin {"erased", "done"}
    <2>1. c \in DOMAIN players
        BY <1>1
    <2>2. camOf[t] = c /\ pc[t] \notin {"erased", "done"}
        BY <1>0, <1>5, <2>1 DEF Ownership
    <2>3. CASE t # s
        <3>1. t \in Sessions
            BY <1>0, Typed
        <3> QED
            BY <1>2, <2>2, <2>3, <3>1
    <2>4. CASE t = s
        <3>1. pc'[s] # "done"
            BY <1>0, <2>2, <2>4 DEF SessionChange
        <3>2. CASE pc'[s] = "erased"
            <4>1. players' = Drop(players, camOf[s])
                BY <1>0, <3>2 DEF SessionChange
            <4>2. c # camOf[s]
                BY <1>0, <4>1, DropPlayer
            <4> QED
                BY <2>2, <2>4, <4>2
        <3> QED
            BY <2>2, <2>4, <3>1, <3>2
    <2> QED
        BY <2>3, <2>4
<1>6. ASSUME NEW p \in Sessions, handleOf'[p] # None
      PROVE  handleOf'[p] \in 1..started /\ playerOf[handleOf'[p]] = p
    <2>1. CASE handleOf' = handleOf
        BY <1>0, <1>6, <2>1 DEF Ownership
    <2>2. CASE handleOf' = [handleOf EXCEPT ![playerOf[s]] = s]
        <3>1. handleOf \in [Sessions -> Sessions \union {None}]
            BY <1>0 DEF TypeOK
        <3>2. CASE p = playerOf[s]
            BY <1>3, <2>2, <3>1, <3>2
        <3>3. CASE p # playerOf[s]
            <4>1. handleOf'[p] = handleOf[p]
                BY <2>2, <3>1, <3>3
            <4> QED
                BY <1>0, <1>6, <4>1 DEF Ownership
        <3> QED
            BY <3>2, <3>3
    <2> QED
        BY <1>0, <2>1, <2>2 DEF SessionChange
<1>7. /\ \A c, d \in DOMAIN players' : players'[c] = players'[d] => c = d
      /\ \A c \in DOMAIN players' :
           players'[c] \in 1..started \/ (httpPc = "test" /\ players'[c] = player)
    BY <1>0, <1>1 DEF Ownership
<1> QED
    BY <1>1, <1>2, <1>4, <1>5, <1>6, <1>7 DEF Ownership

LEMMA OwnershipKept ==
    ASSUME IInv, Next
    PROVE  Ownership'
<1>0. TypeOK /\ Threads /\ Handler /\ Ownership
    BY DEF IInv
<1>1. ASSUME NEW s \in Sessions, SessionStep(s)
      PROVE  Ownership'
    BY <1>1, OwnershipSession
<1>2. ASSUME NEW s \in Sessions, WorkerStep(s)
      PROVE  Ownership'
    <2>1. WorkerChange(s)
        BY <1>0, <1>2, WorkerFrame
    <2> QED
        BY <1>0, <2>1 DEF Ownership, WorkerChange
<1>3. CASE AddPlayer
    <2>1. /\ request.add \in Cams
          /\ started \in Nat
          /\ started + 1 \in Sessions
        BY <1>0, <1>3, Constants, Typed DEF AddPlayer, Handler, Sessions
    <2>2. /\ players' = Put(players, request.add, started + 1)
          /\ request.add \notin DOMAIN players
          /\ httpPc = "find"
          /\ httpPc' = "test"
          /\ player' = started + 1
          /\ UNCHANGED <<handleOf, started, camOf, playerOf, pc>>
        BY <1>3 DEF AddPlayer, threadVars
    <2>3. /\ DOMAIN players' = DOMAIN players \union {request.add}
          /\ players'[request.add] = started + 1
          /\ \A c \in DOMAIN players : players'[c] = players[c]
        <3>1. /\ DOMAIN Put(players, request.add, started + 1) = DOMAIN players \union {request.add}
              /\ Put(players, request.add, started + 1)[request.add] = started + 1
              /\ \A c \in DOMAIN players \ {request.add} :
                   Put(players, request.add, started + 1)[c] = players[c]
            BY <1>0, <2>1, PutPlayer
        <3> QED
            BY <2>2, <3>1
    <2>4. IsFiniteSet(DOMAIN players')
        BY <1>0, <2>3, FS_AddElement DEF Ownership
    <2>5. \A c \in DOMAIN players : players[c] \in 1..started
        BY <1>0, <2>2 DEF Ownership
    <2>6. \A t \in 1..started : playerOf[t] \in 1..started
        BY <1>0 DEF Threads
    <2>7. \A c, d \in DOMAIN players' : players'[c] = players'[d] => c = d
        <3>1. \A c, d \in DOMAIN players : players[c] = players[d] => c = d
            BY <1>0 DEF Ownership
        <3>2. \A c \in DOMAIN players : players[c] # started + 1
            BY <2>1, <2>5
        <3> QED
            BY <2>3, <3>1, <3>2
    <2>8. \A c \in DOMAIN players' : players'[c] \in 1..started \/ players'[c] = player'
        BY <2>2, <2>3, <2>5
    <2>9. \A c \in DOMAIN players', t \in 1..started :
            playerOf[t] = players'[c] => camOf[t] = c /\ pc[t] \notin {"erased", "done"}
        <3>1. \A t \in 1..started : playerOf[t] # started + 1
            BY <2>1, <2>6
        <3>2. \A c \in DOMAIN players, t \in 1..started :
                playerOf[t] = players[c] => camOf[t] = c /\ pc[t] \notin {"erased", "done"}
            BY <1>0 DEF Ownership
        <3> QED
            BY <2>3, <3>1, <3>2
    <2>10. \A p \in Sessions : handleOf[p] # None =>
             handleOf[p] \in 1..started /\ playerOf[handleOf[p]] = p
        BY <1>0 DEF Ownership
    <2> QED
        BY <2>2, <2>4, <2>7, <2>8, <2>9, <2>10 DEF Ownership
<1>4. CASE AddSpawn
    <2>1. /\ started \in Nat
          /\ started + 1 \in Sessions
          /\ player \in 1..(started + 1)
          /\ \A c \in DOMAIN players : players[c] = player <=> c = request.add
          /\ \A t \in 1..started : t \in Sessions
        BY <1>0, <1>4, Constants, Typed DEF AddSpawn, Handler, Sessions
    <2>2. /\ pc' = [pc EXCEPT ![started + 1] = "spawned"]
          /\ camOf' = [camOf EXCEPT ![started + 1] = request.add]
          /\ playerOf' = [playerOf EXCEPT ![started + 1] = player]
          /\ started' = started + 1
          /\ httpPc' = "remove"
          /\ UNCHANGED <<players, handleOf, player>>
        BY <1>4 DEF AddSpawn, playerVars
    <2>3. /\ pc \in [Sessions -> Pcs]
          /\ camOf \in [Sessions -> Cams \union {None}]
          /\ playerOf \in [Sessions -> Sessions \union {None}]
        BY <1>0 DEF TypeOK
    <2>4. \A t \in 1..started : pc'[t] = pc[t] /\ camOf'[t] = camOf[t] /\ playerOf'[t] = playerOf[t]
        BY <2>1, <2>2, <2>3
    <2>5. pc'[started + 1] = "spawned" /\ camOf'[started + 1] = request.add
          /\ playerOf'[started + 1] = player
        BY <2>1, <2>2, <2>3
    <2>6. \A c \in DOMAIN players : players[c] \in 1..(started + 1)
        BY <1>0, <2>1 DEF Ownership
    <2>7. ASSUME NEW c \in DOMAIN players, NEW t \in 1..(started + 1), playerOf'[t] = players[c]
          PROVE  camOf'[t] = c /\ pc'[t] \notin {"erased", "done"}
        <3>1. CASE t \in 1..started
            BY <1>0, <2>4, <2>7, <3>1 DEF Ownership
        <3>2. CASE t = started + 1
            BY <2>1, <2>5, <2>7, <3>2
        <3> QED
            BY <2>1, <3>1, <3>2
    <2>8. ASSUME NEW p \in Sessions, handleOf[p] # None
          PROVE  handleOf[p] \in 1..(started + 1) /\ playerOf'[handleOf[p]] = p
        <3>1. handleOf[p] \in 1..started /\ playerOf[handleOf[p]] = p
            BY <1>0, <2>8 DEF Ownership
        <3> QED
            BY <2>1, <2>4, <3>1
    <2>9. /\ IsFiniteSet(DOMAIN players)
          /\ \A c, d \in DOMAIN players : players[c] = players[d] => c = d
        BY <1>0 DEF Ownership
    <2> QED
        BY <2>2, <2>6, <2>7, <2>8, <2>9 DEF Ownership
<1>5. CASE AddUpdate
    <2>1. player \in 1..started
        <3>1. player \in Sessions
            BY <1>0, <1>5, Constants DEF AddUpdate, Handler, Sessions, TypeOK
        <3>2. handleOf[player] \in 1..started /\ playerOf[handleOf[player]] = player
            BY <1>0, <1>5, <3>1 DEF AddUpdate, Ownership
        <3> QED
            BY <1>0, <3>2 DEF Threads
    <2>2. UNCHANGED <<players, handleOf, started, camOf, playerOf, pc, player>>
        BY <1>5 DEF AddUpdate, playerVars, threadVars
    <2> QED
        BY <1>0, <2>1, <2>2 DEF Ownership
<1>6. CASE /\ UNCHANGED <<players, handleOf, started, camOf, playerOf, pc>>
           /\ httpPc # "test"
    BY <1>0, <1>6 DEF Ownership
<1> QED
    BY <1>1, <1>2, <1>3, <1>4, <1>5, <1>6 DEF Next, HttpStep, MAVideo, AddRefused, AddFound,
           AddGet, AddGetNull, RemoveFind, RemoveGet, RemoveGetNull, StopPull, StopPrediction,
           playerVars, threadVars

----------------------------------------------------------------------------
(* The handle threads.                                                     *)

LEMMA WorkersSession ==
    ASSUME IInv, NEW s \in Sessions, SessionStep(s)
    PROVE  Workers'
<1>0. TypeOK /\ Workers
    BY DEF IInv
<1>1. /\ pc \in [Sessions -> Pcs]
      /\ predictionFlag \in [Sessions -> BOOLEAN]
      /\ worker \in [Sessions -> {"none", "test", "handle", "end"}]
      /\ settled \in [Sessions -> BOOLEAN]
    BY <1>0 DEF TypeOK
<1>2. ASSUME NEW t \in Sessions, t # s
      PROVE  /\ pc'[t] = pc[t]
             /\ predictionFlag'[t] = predictionFlag[t]
             /\ worker'[t] = worker[t]
             /\ settled'[t] = settled[t]
    BY <1>1, <1>2 DEF SessionStep, Goes, Build, Publish, StartPrediction, Open, OpenFails,
           LoopGoesOn, LoopEnds, ReadFrame, ReadOther, ReadFails, Drained, Close,
           EndPrediction, Delete, Erase, RemoveCamera, flagVars, workVars
<1>3. /\ pc'[s] \in {"none"} \union Building => worker'[s] = "none"
      /\ pc'[s] \in {"grace"} \union TakenDown => ~predictionFlag'[s]
      /\ (pc'[s] = "grace" /\ settled'[s]) \/ pc'[s] \in TakenDown => worker'[s] = "end"
    <2>1. /\ pc[s] \in {"none"} \union Building => worker[s] = "none"
          /\ pc[s] \in {"grace"} \union TakenDown => ~predictionFlag[s]
          /\ (pc[s] = "grace" /\ settled[s]) \/ pc[s] \in TakenDown => worker[s] = "end"
        BY <1>0 DEF Workers
    <2>2. CASE Build(s) \/ Publish(s)
        BY <1>1, <2>1, <2>2 DEF Goes, Build, Publish, Building, TakenDown, flagVars, workVars
    <2>3. CASE StartPrediction(s)
        BY <1>1, <2>3 DEF Goes, StartPrediction, Building, TakenDown
    <2>4. CASE EndPrediction(s)
        BY <1>1, <2>4 DEF Goes, EndPrediction, Building, TakenDown
    <2>5. CASE Delete(s) \/ Erase(s) \/ RemoveCamera(s)
        BY <1>1, <2>1, <2>5 DEF Goes, Delete, Erase, RemoveCamera, Building, TakenDown,
               flagVars, workVars
    <2>6. CASE pc'[s] \in Pulling \union {"drain", "closed", "ended"}
        BY <2>6 DEF Building, Pulling, TakenDown
    <2> QED
        BY <1>1, <2>2, <2>3, <2>4, <2>5, <2>6 DEF SessionStep, Goes, Open, OpenFails,
               LoopGoesOn, LoopEnds, ReadFrame, ReadOther, ReadFails, Drained, Close, Pulling
<1> QED
    BY <1>0, <1>2, <1>3 DEF Workers

LEMMA WorkersWorker ==
    ASSUME IInv, NEW s \in Sessions, WorkerStep(s)
    PROVE  Workers'
<1>0. TypeOK /\ Workers /\ WorkerChange(s)
    BY WorkerFrame DEF IInv
<1>1. \A t \in Sessions \ {s} : worker'[t] = worker[t] /\ settled'[t] = settled[t]
    BY <1>0 DEF WorkerChange
<1>2. UNCHANGED <<pc, predictionFlag>>
    BY <1>0 DEF WorkerChange
<1>3. /\ pc[s] \notin {"none"} \union Building
      /\ pc[s] \notin TakenDown
      /\ pc[s] = "grace" => ~settled[s]
    BY <1>0 DEF Workers, WorkerChange
<1>4. pc[s] = "grace" /\ settled'[s] => worker'[s] = "end"
    BY <1>0, <1>3 DEF Workers, WorkerChange
<1> QED
    BY <1>0, <1>1, <1>2, <1>3, <1>4 DEF Workers

LEMMA WorkersKept ==
    ASSUME IInv, Next
    PROVE  Workers'
<1>0. TypeOK /\ Threads /\ Handler /\ Workers
    BY DEF IInv
<1>1. ASSUME NEW s \in Sessions, SessionStep(s)
      PROVE  Workers'
    BY <1>1, WorkersSession
<1>2. ASSUME NEW s \in Sessions, WorkerStep(s)
      PROVE  Workers'
    BY <1>2, WorkersWorker
<1>3. CASE AddSpawn
    <2>1. started + 1 \in Sessions /\ started + 1 > started
        BY <1>0, <1>3, Constants, Typed DEF AddSpawn, Handler, Sessions
    <2>2. pc[started + 1] = "none"
        BY <1>0, <2>1 DEF Threads
    <2>3. /\ pc' = [pc EXCEPT ![started + 1] = "spawned"]
          /\ UNCHANGED <<predictionFlag, worker, settled>>
        BY <1>3 DEF AddSpawn, flagVars, workVars
    <2>4. pc \in [Sessions -> Pcs]
        BY <1>0 DEF TypeOK
    <2> QED
        BY <1>0, <2>1, <2>2, <2>3, <2>4 DEF Workers, Building, TakenDown
<1>4. CASE StopPrediction
    <2>1. predictionFlag \in [Sessions -> BOOLEAN]
        BY <1>0 DEF TypeOK
    <2>2. /\ predictionFlag' = [predictionFlag EXCEPT ![handle] = FALSE]
          /\ UNCHANGED <<pc, worker, settled>>
        BY <1>4 DEF StopPrediction, workVars
    <2>3. \A t \in Sessions : ~predictionFlag[t] => ~predictionFlag'[t]
        BY <2>1, <2>2
    <2> QED
        BY <1>0, <2>2, <2>3 DEF Workers
<1>5. CASE UNCHANGED <<pc, predictionFlag, worker, settled>>
    BY <1>0, <1>5 DEF Workers
<1> QED
    BY <1>1, <1>2, <1>3, <1>4, <1>5 DEF Next, HttpStep, MAVideo, AddRefused, AddFound, AddGet,
           AddGetNull, AddPlayer, AddUpdate, RemoveFind, RemoveGet, RemoveGetNull, StopPull,
           flagVars, workVars

----------------------------------------------------------------------------
(* The map.                                                                *)

LEMMA BoundKept ==
    ASSUME IInv, Next
    PROVE  PlayersBounded'
<1>0. TypeOK /\ Handler /\ Ownership /\ PlayersBounded
    BY DEF IInv
<1>1. /\ IsFiniteSet(DOMAIN players)
      /\ Cardinality(DOMAIN players) \in Nat
      /\ MaxStream \in Nat
    BY <1>0, FS_CardinalityType, Constants DEF Ownership
<1>2. CASE DOMAIN players' \subseteq DOMAIN players
    <2>1. /\ Cardinality(DOMAIN players') \in Nat
          /\ Cardinality(DOMAIN players') =< Cardinality(DOMAIN players)
        BY <1>1, <1>2, FS_Subset, FS_CardinalityType
    <2> QED
        BY <1>0, <1>1, <2>1 DEF PlayersBounded
<1>3. CASE AddPlayer
    <2>1. request.add \in Cams /\ started + 1 \in Sessions
        BY <1>0, <1>3, Constants, Typed DEF AddPlayer, Handler, Sessions
    <2>2. DOMAIN players' = DOMAIN players \union {request.add}
        BY <1>0, <1>3, <2>1, PutPlayer DEF AddPlayer
    <2>3. Cardinality(DOMAIN players') = Cardinality(DOMAIN players) + 1
        BY <1>1, <1>3, <2>2, FS_AddElement DEF AddPlayer
    <2>4. Cardinality(DOMAIN players) =< MaxStream
        BY <1>1, <1>3 DEF AddPlayer, OverLimit
    <2> QED
        BY <1>1, <2>3, <2>4 DEF PlayersBounded
<1>4. ASSUME NEW s \in Sessions, SessionStep(s)
      PROVE  DOMAIN players' \subseteq DOMAIN players
    <2>1. players' = players \/ players' = Drop(players, camOf[s])
        BY <1>0, <1>4, SessionFrame DEF SessionChange
    <2> QED
        BY <1>0, <2>1, DropPlayer
<1>5. ASSUME NEW s \in Sessions, WorkerStep(s)
      PROVE  DOMAIN players' \subseteq DOMAIN players
    BY <1>0, <1>5, WorkerFrame DEF WorkerChange
<1>6. CASE UNCHANGED players
    BY <1>2, <1>6
<1> QED
    BY <1>2, <1>3, <1>4, <1>5, <1>6 DEF Next, HttpStep, MAVideo, AddRefused, AddFound, AddGet,
           AddGetNull, AddSpawn, AddUpdate, RemoveFind, RemoveGet, RemoveGetNull, StopPull,
           StopPrediction, playerVars

(* What holds the place of a camera in the map.                            *)
Holds(s, c) == camOf[s] = c /\ pc[s] \notin {"none", "erased", "done"}

LEMMA PlacesKept ==
    ASSUME IInv, Next
    PROVE  PlacesAreHeld'
<1>0. TypeOK /\ Threads /\ Handler /\ Ownership /\ PlacesAreHeld
    BY DEF IInv
<1>1. ASSUME NEW s \in Sessions, SessionStep(s)
      PROVE  PlacesAreHeld'
    <2>1. SessionChange(s)
        BY <1>0, <1>1, SessionFrame
    <2>2. ASSUME NEW c \in DOMAIN players', ~(httpPc' = "test" /\ request'.add = c)
          PROVE  \E t \in Sessions : Holds(t, c)'
        <3>0. players' = players \/ players' = Drop(players, camOf[s])
            BY <2>1 DEF SessionChange
        <3>1. c \in DOMAIN players
            <4>1. CASE players' = players
                BY <2>2, <4>1
            <4>2. CASE players' = Drop(players, camOf[s])
                <5>1. DOMAIN Drop(players, camOf[s]) \subseteq DOMAIN players
                    BY <1>0, DropPlayer
                <5> QED
                    BY <2>2, <4>2, <5>1
            <4> QED
                BY <3>0, <4>1, <4>2
        <3>2. ~(httpPc = "test" /\ request.add = c)
            BY <2>1, <2>2 DEF SessionChange
        <3>3. PICK t \in Sessions : Holds(t, c)
            BY <1>0, <3>1, <3>2 DEF PlacesAreHeld, Holds
        <3>4. CASE t # s
            BY <2>1, <3>3, <3>4 DEF SessionChange, Holds
        <3>5. CASE t = s
            <4>1. pc'[s] # "done" /\ pc'[s] # "none"
                BY <2>1, <3>3, <3>5 DEF SessionChange, Holds
            <4>2. ASSUME pc'[s] = "erased"
                  PROVE  FALSE
                <5>1. players' = Drop(players, camOf[s])
                    BY <2>1, <4>2 DEF SessionChange
                <5>2. c # camOf[s]
                    BY <1>0, <5>1, DropPlayer
                <5> QED
                    BY <3>3, <3>5, <5>2 DEF Holds
            <4> QED
                BY <2>1, <3>3, <3>5, <4>1, <4>2 DEF SessionChange, Holds
        <3> QED
            BY <3>4, <3>5
    <2> QED
        BY <2>2 DEF PlacesAreHeld, Holds
<1>2. ASSUME NEW s \in Sessions, WorkerStep(s)
      PROVE  PlacesAreHeld'
    <2>1. WorkerChange(s)
        BY <1>0, <1>2, WorkerFrame
    <2> QED
        BY <1>0, <2>1 DEF PlacesAreHeld, WorkerChange
<1>3. CASE AddPlayer
    <2>1. request.add \in Cams /\ started + 1 \in Sessions
        BY <1>0, <1>3, Constants, Typed DEF AddPlayer, Handler, Sessions
    <2>2. /\ DOMAIN players' = DOMAIN players \union {request.add}
          /\ httpPc = "find"
          /\ httpPc' = "test"
          /\ UNCHANGED <<request, camOf, pc>>
        BY <1>0, <1>3, <2>1, PutPlayer DEF AddPlayer, threadVars
    <2> QED
        BY <1>0, <2>2 DEF PlacesAreHeld
<1>4. CASE AddSpawn
    <2>1. /\ started + 1 \in Sessions
          /\ started + 1 > started
        BY <1>0, <1>4, Constants, Typed DEF AddSpawn, Handler, Sessions
    <2>2. /\ pc' = [pc EXCEPT ![started + 1] = "spawned"]
          /\ camOf' = [camOf EXCEPT ![started + 1] = request.add]
          /\ UNCHANGED players
        BY <1>4 DEF AddSpawn, playerVars
    <2>3. /\ pc \in [Sessions -> Pcs]
          /\ camOf \in [Sessions -> Cams \union {None}]
          /\ pc[started + 1] = "none"
        BY <1>0, <2>1 DEF TypeOK, Threads
    <2>4. PICK n \in Sessions : camOf'[n] = request.add /\ pc'[n] = "spawned"
        BY <2>1, <2>2, <2>3
    <2>5. ASSUME NEW t \in Sessions, NEW c, Holds(t, c)
          PROVE  Holds(t, c)'
        <3>1. t # started + 1
            BY <2>3, <2>5 DEF Holds
        <3>2. pc'[t] = pc[t] /\ camOf'[t] = camOf[t]
            BY <2>2, <2>3, <3>1
        <3> QED
            BY <2>5, <3>2 DEF Holds
    <2>6. ASSUME NEW c \in DOMAIN players
          PROVE  \E t \in Sessions : Holds(t, c)'
        <3>1. CASE c = request.add
            BY <2>4, <3>1 DEF Holds
        <3>2. CASE c # request.add
            <4>1. PICK t \in Sessions : Holds(t, c)
                BY <1>0, <3>2 DEF PlacesAreHeld, Holds
            <4>2. Holds(t, c)'
                BY <2>5, <4>1
            <4> QED
                BY <4>2
        <3> QED
            BY <3>1, <3>2
    <2> QED
        BY <2>2, <2>6 DEF PlacesAreHeld, Holds
<1>5. CASE AddUpdate
    <2>1. /\ httpPc = "test"
          /\ handleOf[player] # None
          /\ UNCHANGED <<players, camOf, pc>>
        BY <1>5 DEF AddUpdate, playerVars, threadVars
    <2>2. ASSUME request.add \in DOMAIN players
          PROVE  \E s \in Sessions : Holds(s, request.add)
        <3>1. players[request.add] = player /\ player \in Sessions
            BY <1>0, <2>1, <2>2, Typed DEF Handler
        <3>2. /\ handleOf[player] \in 1..started
              /\ playerOf[handleOf[player]] = player
            BY <1>0, <2>1, <3>1 DEF Ownership
        <3>3. /\ camOf[handleOf[player]] = request.add
              /\ pc[handleOf[player]] \notin {"erased", "done"}
            BY <1>0, <2>2, <3>1, <3>2 DEF Ownership
        <3>4. pc[handleOf[player]] # "none" /\ handleOf[player] \in Sessions
            BY <1>0, <3>2, Typed DEF Threads
        <3> QED
            BY <3>3, <3>4 DEF Holds
    <2> QED
        BY <1>0, <2>1, <2>2 DEF PlacesAreHeld, Holds
<1>6. CASE UNCHANGED <<players, camOf, pc>> /\ httpPc # "test"
    BY <1>0, <1>6 DEF PlacesAreHeld
<1> QED
    BY <1>1, <1>2, <1>3, <1>4, <1>5, <1>6 DEF Next, HttpStep, MAVideo, AddRefused, AddFound,
           AddGet, AddGetNull, RemoveFind, RemoveGet, RemoveGetNull, StopPull, StopPrediction,
           playerVars, threadVars

----------------------------------------------------------------------------
(* Careful clients: the sessions of a camera follow each other, and the    *)
(* one that is there has the Player in the map.                            *)

Live(s) == pc[s] \notin {"none", "erased", "done"}

(* At most one session of a camera is live, and the map leads to it.       *)
Reached ==
    /\ \A r, s \in Sessions : Live(r) /\ Live(s) /\ camOf[r] = camOf[s] => r = s
    /\ \A s \in Sessions : Live(s) =>
           camOf[s] \in DOMAIN players /\ players[camOf[s]] = playerOf[s]
    /\ \A s \in Sessions : Live(s) /\ pc[s] \notin {"spawned", "built"} =>
           handleOf[playerOf[s]] = s

(* A request to add finds no session that is being built, and starts one   *)
(* only if there is none.                                                  *)
Awaited ==
    /\ httpPc \in {"find", "get", "test"} =>
           \A s \in Sessions : Live(s) /\ camOf[s] = request.add => pc[s] \notin Building
    /\ httpPc = "test" /\ handleOf[player] = None =>
           /\ request.add \in DOMAIN players /\ players[request.add] = player
           /\ \A s \in Sessions : Live(s) => camOf[s] # request.add

CarefulInv == Reached /\ Awaited

(* What a step of a session thread means for that.                         *)
SessionMove(s) ==
    /\ UNCHANGED <<started, camOf, playerOf, httpPc, request, player>>
    /\ pc' \in [Sessions -> Pcs]
    /\ \A r \in Sessions \ {s} : pc'[r] = pc[r]
    /\ pc'[s] \notin {"none", "erased", "done"} => Live(s)
    /\ pc'[s] \in Building => pc[s] \in Building
    /\ pc'[s] \in {"spawned", "built"} => handleOf' = handleOf
    /\ pc'[s] = "published" => handleOf' = [handleOf EXCEPT ![playerOf[s]] = s]
    /\ pc'[s] # "published" => handleOf' = handleOf
    /\ pc'[s] \notin {"spawned", "built", "published"} => pc[s] \notin {"spawned", "built"}
    /\ \/ players' = players
       \/ players' = Drop(players, camOf[s]) /\ Live(s) /\ pc'[s] = "erased"

LEMMA SessionMoves ==
    ASSUME TypeOK, NEW s \in Sessions, SessionStep(s)
    PROVE  SessionMove(s)
    BY DEF SessionStep, SessionMove, Live, TypeOK, threadVars, playerVars, flagVars, workVars,
           httpVars, Goes, Pcs, Building, Pulling, Ending, TakenDown, Build, Publish,
           StartPrediction, Open, OpenFails, LoopGoesOn, LoopEnds, ReadFrame, ReadOther, ReadFails,
           Drained, Close, EndPrediction, Delete, Erase, RemoveCamera

LEMMA CarefulSession ==
    ASSUME IInv, CarefulInv, NEW s \in Sessions, SessionStep(s)
    PROVE  CarefulInv'
<1>0. TypeOK /\ Threads /\ Ownership /\ Reached /\ Awaited
    BY DEF IInv, CarefulInv
<1>1. SessionMove(s)
    BY <1>0, SessionMoves
<1>2. \A r \in Sessions : Live(r)' => Live(r)
    BY <1>1 DEF SessionMove, Live
<1>3. camOf' = camOf /\ playerOf' = playerOf
    BY <1>1 DEF SessionMove
<1>4. \A r, t \in Sessions : Live(r)' /\ Live(t)' /\ camOf[r] = camOf[t] => r = t
    BY <1>0, <1>2 DEF Reached
<1>5. ASSUME NEW r \in Sessions, Live(r)'
      PROVE  camOf[r] \in DOMAIN players' /\ players'[camOf[r]] = playerOf[r]
    <2>1. camOf[r] \in DOMAIN players /\ players[camOf[r]] = playerOf[r]
        BY <1>0, <1>2, <1>5 DEF Reached
    <2>2. CASE players' = players
        BY <2>1, <2>2
    <2>3. CASE players' = Drop(players, camOf[s]) /\ Live(s) /\ pc'[s] = "erased"
        <3>1. r # s
            BY <1>5, <2>3 DEF Live
        <3>2. camOf[r] # camOf[s]
            BY <1>0, <1>2, <1>5, <2>3, <3>1 DEF Reached
        <3>3. /\ DOMAIN Drop(players, camOf[s]) = DOMAIN players \ {camOf[s]}
              /\ \A d \in DOMAIN players \ {camOf[s]} : Drop(players, camOf[s])[d] = players[d]
            BY <1>0, DropPlayer
        <3> QED
            BY <2>1, <2>3, <3>2, <3>3
    <2> QED
        BY <1>1, <2>2, <2>3 DEF SessionMove
<1>6. ASSUME NEW r \in Sessions, Live(r)', pc'[r] \notin {"spawned", "built"}
      PROVE  handleOf'[playerOf[r]] = r
    <2>0. handleOf \in [Sessions -> Sessions \union {None}]
        BY <1>0 DEF TypeOK
    <2>1. Live(r)
        BY <1>2, <1>6
    <2>2. r \in 1..started
        BY <1>0, <2>1, Typed, Constants DEF Threads, Live
    <2>3. playerOf[r] \in Sessions
        BY <1>0, <2>2, Typed DEF Threads
    <2>4. CASE pc'[s] = "published"
        <3>1. handleOf' = [handleOf EXCEPT ![playerOf[s]] = s]
            BY <1>1, <2>4 DEF SessionMove
        <3>2. CASE r = s
            BY <2>0, <2>3, <3>1, <3>2
        <3>3. CASE r # s
            <4>1. Live(s)
                BY <1>1, <2>4 DEF SessionMove
            <4>2. camOf[r] # camOf[s]
                BY <1>0, <2>1, <3>3, <4>1 DEF Reached
            <4>3. playerOf[r] # playerOf[s]
                BY <1>0, <2>1, <4>1, <4>2 DEF Reached, Ownership
            <4>4. handleOf[playerOf[r]] = r
                BY <1>0, <1>1, <1>6, <2>1, <3>3 DEF Reached, SessionMove
            <4> QED
                BY <2>0, <2>3, <3>1, <4>3, <4>4
        <3> QED
            BY <3>2, <3>3
    <2>5. CASE pc'[s] # "published"
        <3>1. handleOf' = handleOf
            BY <1>1, <2>5 DEF SessionMove
        <3>2. pc[r] \notin {"spawned", "built"}
            BY <1>1, <1>6, <2>5 DEF SessionMove
        <3> QED
            BY <1>0, <2>1, <3>1, <3>2 DEF Reached
    <2> QED
        BY <2>4, <2>5
<1>7. Reached'
    BY <1>3, <1>4, <1>5, <1>6 DEF Reached
<1>8. /\ httpPc' = httpPc /\ request' = request /\ player' = player
      /\ \A r \in Sessions : pc'[r] \in Building => pc[r] \in Building
    BY <1>1 DEF SessionMove
<1>9. ASSUME httpPc \in {"find", "get", "test"},
             NEW r \in Sessions, Live(r)', camOf[r] = request.add
      PROVE  pc'[r] \notin Building
    BY <1>0, <1>2, <1>8, <1>9 DEF Awaited
<1>10. ASSUME httpPc = "test", handleOf'[player] = None
       PROVE  /\ request.add \in DOMAIN players' /\ players'[request.add] = player
              /\ \A r \in Sessions : Live(r)' => camOf[r] # request.add
    <2>1. handleOf[player] = None
        <3>1. handleOf \in [Sessions -> Sessions \union {None}] /\ s # None
            BY <1>0, Constants DEF TypeOK
        <3>2. handleOf' = handleOf \/ handleOf' = [handleOf EXCEPT ![playerOf[s]] = s]
            BY <1>1 DEF SessionMove
        <3>3. player \in Sessions
            BY <1>0, <1>10, Constants DEF IInv, Handler, TypeOK, Sessions
        <3> QED
            BY <1>10, <3>1, <3>2, <3>3
    <2>2. /\ request.add \in DOMAIN players /\ players[request.add] = player
          /\ \A r \in Sessions : Live(r) => camOf[r] # request.add
        BY <1>0, <1>10, <2>1 DEF Awaited
    <2>3. request.add \in DOMAIN players' /\ players'[request.add] = player
        <3>1. CASE players' = players
            BY <2>2, <3>1
        <3>2. CASE players' = Drop(players, camOf[s]) /\ Live(s)
            <4>1. camOf[s] # request.add
                BY <2>2, <3>2
            <4>2. /\ DOMAIN Drop(players, camOf[s]) = DOMAIN players \ {camOf[s]}
                  /\ \A d \in DOMAIN players \ {camOf[s]} : Drop(players, camOf[s])[d] = players[d]
                BY <1>0, DropPlayer
            <4> QED
                BY <2>2, <3>2, <4>1, <4>2
        <3> QED
            BY <1>1, <3>1, <3>2 DEF SessionMove
    <2> QED
        BY <1>2, <2>2, <2>3
<1>11. Awaited'
    BY <1>3, <1>8, <1>9, <1>10 DEF Awaited
<1> QED
    BY <1>7, <1>11 DEF CarefulInv

LEMMA CarefulHttp ==
    ASSUME Careful, IInv, CarefulInv,
           HttpStep \/ \E add, remove \in Cams \union {None} : MAVideo(add, remove)
    PROVE  CarefulInv'
<1>0. TypeOK /\ Threads /\ Handler /\ Ownership /\ PlacesAreHeld /\ Reached /\ Awaited
    BY DEF IInv, CarefulInv
<1> USE DEF CarefulInv
<1>1. CASE \E add, remove \in Cams \union {None} : MAVideo(add, remove)
    <2> PICK add \in Cams \union {None}, remove \in Cams \union {None} : MAVideo(add, remove)
        BY <1>1
    <2>1. /\ UNCHANGED <<players, handleOf, camOf, playerOf, pc>>
          /\ request'.add = add
          /\ httpPc' \notin {"get", "test"}
          /\ httpPc' = "find" => add # None
          /\ add # None => MayAdd(add)
        BY DEF MAVideo, playerVars, threadVars
    <2>2. add # None => \A s \in Sessions : Live(s) /\ camOf[s] = add => pc[s] \notin Building
        BY <2>1 DEF MayAdd, Running, Live, Building, Pulling
    <2>3. Reached'
        BY <1>0, <2>1 DEF Reached, Live
    <2>4. Awaited'
        BY <2>1, <2>2 DEF Awaited, Live
    <2> QED
        BY <2>3, <2>4
<1>2. CASE AddGet
    <2>1. /\ UNCHANGED <<players, handleOf, camOf, playerOf, pc, request>>
          /\ httpPc = "get" /\ httpPc' = "test"
          /\ request.add \in DOMAIN players /\ player' = players[request.add]
        BY <1>2 DEF AddGet, playerVars, threadVars
    <2>2. PICK s \in Sessions : camOf[s] = request.add /\ Live(s)
        BY <1>0, <2>1 DEF PlacesAreHeld, Live
    <2>3. pc[s] \notin Building
        BY <1>0, <2>1, <2>2 DEF Awaited
    <2>4. player' = playerOf[s]
        BY <1>0, <2>1, <2>2 DEF Reached
    <2>5. handleOf[playerOf[s]] = s
        BY <1>0, <2>2, <2>3 DEF Reached, Building
    <2>6. handleOf'[player'] # None
        BY <2>1, <2>4, <2>5, Constants
    <2>7. Reached'
        BY <1>0, <2>1 DEF Reached, Live
    <2>8. Awaited'
        BY <1>0, <2>1, <2>6 DEF Awaited, Live
    <2> QED
        BY <2>7, <2>8
<1>3. CASE AddPlayer
    <2>1. /\ UNCHANGED <<handleOf, camOf, playerOf, pc, request>>
          /\ httpPc = "find" /\ httpPc' = "test"
          /\ request.add \notin DOMAIN players
          /\ players' = Put(players, request.add, started + 1) /\ player' = started + 1
        BY <1>3 DEF AddPlayer, threadVars
    <2>2. request.add \in Cams /\ started + 1 \in Sessions
        BY <1>0, <2>1, Constants, Typed DEF Handler, Sessions
    <2>3. /\ DOMAIN players' = DOMAIN players \union {request.add}
          /\ players'[request.add] = started + 1
          /\ \A c \in DOMAIN players : players'[c] = players[c]
        <3>1. /\ DOMAIN Put(players, request.add, started + 1) = DOMAIN players \union {request.add}
              /\ Put(players, request.add, started + 1)[request.add] = started + 1
              /\ \A c \in DOMAIN players \ {request.add} :
                   Put(players, request.add, started + 1)[c] = players[c]
            BY <1>0, <2>2, PutPlayer
        <3> QED
            BY <2>1, <3>1
    <2>4. \A s \in Sessions : Live(s) => camOf[s] # request.add
        BY <1>0, <2>1 DEF Reached
    <2>5. Reached'
        BY <1>0, <2>1, <2>3 DEF Reached, Live
    <2>6. Awaited'
        BY <1>0, <2>1, <2>3, <2>4 DEF Awaited, Live
    <2> QED
        BY <2>5, <2>6
<1>4. CASE AddSpawn
    <2> DEFINE new == started + 1
    <2>1. /\ UNCHANGED <<players, handleOf, request>>
          /\ httpPc = "test" /\ httpPc' = "remove" /\ handleOf[player] = None
          /\ camOf' = [camOf EXCEPT ![new] = request.add]
          /\ playerOf' = [playerOf EXCEPT ![new] = player]
          /\ pc' = [pc EXCEPT ![new] = "spawned"]
        BY <1>4 DEF AddSpawn, playerVars
    <2>2. new \in Sessions
        BY <1>0, <2>1, Constants, Typed DEF Handler, Sessions
    <2> HIDE DEF new
    <2>3. /\ request.add \in DOMAIN players /\ players[request.add] = player
          /\ \A s \in Sessions : Live(s) => camOf[s] # request.add
        BY <1>0, <2>1 DEF Awaited
    <2>4. /\ camOf'[new] = request.add /\ playerOf'[new] = player /\ pc'[new] = "spawned"
          /\ \A s \in Sessions \ {new} :
                camOf'[s] = camOf[s] /\ playerOf'[s] = playerOf[s] /\ pc'[s] = pc[s]
        BY <1>0, <2>1, <2>2 DEF TypeOK
    <2>5. \A s \in Sessions \ {new} : Live(s)' <=> Live(s)
        BY <2>4 DEF Live
    <2>6. \A r, s \in Sessions : Live(r)' /\ Live(s)' /\ camOf'[r] = camOf'[s] => r = s
        BY <1>0, <2>3, <2>4, <2>5 DEF Reached
    <2>7. \A s \in Sessions : Live(s)' =>
              camOf'[s] \in DOMAIN players /\ players[camOf'[s]] = playerOf'[s]
        BY <1>0, <2>3, <2>4, <2>5 DEF Reached
    <2>8. \A s \in Sessions : Live(s)' /\ pc'[s] \notin {"spawned", "built"} =>
              handleOf[playerOf'[s]] = s
        BY <1>0, <2>4, <2>5 DEF Reached
    <2>9. Reached'
        BY <2>1, <2>6, <2>7, <2>8 DEF Reached
    <2>10. Awaited'
        BY <2>1 DEF Awaited
    <2> QED
        BY <2>9, <2>10
<1>5. CASE \/ AddGetNull \/ AddRefused \/ AddUpdate \/ RemoveFind \/ RemoveGet \/ RemoveGetNull
           \/ StopPull \/ StopPrediction
    <2>1. /\ UNCHANGED <<players, handleOf, camOf, playerOf, pc>>
          /\ httpPc' \notin {"find", "get", "test"}
        BY <1>5 DEF AddGetNull, AddRefused, AddUpdate, RemoveFind, RemoveGet, RemoveGetNull,
                    StopPull, StopPrediction, playerVars, threadVars
    <2> QED
        BY <1>0, <2>1 DEF Reached, Awaited, Live
<1>6. CASE AddFound
    <2>1. /\ UNCHANGED <<players, handleOf, camOf, playerOf, pc, request>>
          /\ httpPc = "find" /\ httpPc' = "get"
        BY <1>6 DEF AddFound, playerVars, threadVars
    <2> QED
        BY <1>0, <2>1 DEF Reached, Awaited, Live
<1> QED
    BY <1>1, <1>2, <1>3, <1>4, <1>5, <1>6 DEF HttpStep

LEMMA CarefulKept ==
    ASSUME Careful
    PROVE  IInv /\ CarefulInv /\ [Next]_vars => CarefulInv'
<1> SUFFICES ASSUME IInv, CarefulInv, [Next]_vars
             PROVE  CarefulInv'
    OBVIOUS
<1>1. ASSUME NEW s \in Sessions, WorkerStep(s)
      PROVE  CarefulInv'
    <2>1. WorkerChange(s)
        BY <1>1, WorkerFrame DEF IInv
    <2> QED
        BY <2>1 DEF CarefulInv, Reached, Awaited, Live, WorkerChange
<1>2. CASE UNCHANGED vars
    BY <1>2 DEF vars, playerVars, threadVars, httpVars, CarefulInv, Reached, Awaited, Live
<1> QED
    BY <1>1, <1>2, CarefulSession, CarefulHttp DEF Next

----------------------------------------------------------------------------
(* The theorems.                                                           *)

LEMMA InitIInv == Init => IInv
<1> SUFFICES ASSUME Init PROVE IInv
    OBVIOUS
<1> USE Constants DEF Init
<1>1. started = 0 /\ DOMAIN players = {}
    OBVIOUS
<1>2. TypeOK
    BY <1>1 DEF TypeOK, Pcs
<1>3. Threads /\ Handler
    BY <1>1 DEF Threads, Handler
<1>4. Ownership /\ PlayersBounded
    BY <1>1, FS_EmptySet DEF Ownership, PlayersBounded
<1>5. Workers /\ PlacesAreHeld
    BY <1>1 DEF Workers, PlacesAreHeld, TakenDown
<1> QED
    BY <1>2, <1>3, <1>4, <1>5 DEF IInv

LEMMA NextIInv == IInv /\ [Next]_vars => IInv'
<1>1. ASSUME IInv, Next
      PROVE  IInv'
    <2>1. TypeOK'
        BY <1>1, TypesHttp, TypesSession, TypesWorker DEF Next
    <2> QED
        BY <1>1, <2>1, ThreadsKept, HandlerKept, OwnershipKept, WorkersKept, BoundKept, PlacesKept
        DEF IInv
<1>2. ASSUME IInv, UNCHANGED vars
      PROVE  IInv'
    <2>1. /\ UNCHANGED <<players, handleOf, started, camOf, playerOf>>
          /\ UNCHANGED <<pc, predictionFlag, pullFlag, queue, worker, settled>>
          /\ UNCHANGED <<httpPc, request, player, handle, stopped>>
        BY <1>2 DEF vars, playerVars, threadVars, flagVars, workVars, httpVars
    <2>2. TypeOK'
        BY <1>2, <2>1 DEF IInv, TypeOK
    <2>3. Threads' /\ Handler'
        BY <1>2, <2>1 DEF IInv, Threads, Handler
    <2>4. Ownership'
        BY <1>2, <2>1 DEF IInv, Ownership
    <2>5. Workers' /\ PlayersBounded' /\ PlacesAreHeld'
        BY <1>2, <2>1 DEF IInv, Workers, PlayersBounded, PlacesAreHeld
    <2> QED
        BY <2>2, <2>3, <2>4, <2>5 DEF IInv
<1> QED
    BY <1>1, <1>2

(* The inductive invariant holds of every reachable state of the sessions, *)
(* the request handler and the handle threads.                             *)
THEOREM InvariantHolds == Spec => []IInv
    BY InitIInv, NextIInv, PTL DEF Spec

(* The state keeps its types (Controller.cpp:98-145 and what it starts).   *)
THEOREM TypesCorrect == Spec => []TypeOK
<1>1. IInv => TypeOK
    BY DEF IInv
<1> QED
    BY <1>1, InvariantHolds, PTL

(* The unlocked test of Controller.cpp:102 never lets more than maxstream  *)
(* + 1 cameras into the map, and CameraPull.cpp:95 never more than one     *)
(* frame beyond its limit into the queue of a stream.                      *)
THEOREM LimitsAreKept == Spec => []LimitsHold
<1>1. IInv => LimitsHold
    BY DEF IInv, TypeOK, LimitsHold
<1> QED
    BY <1>1, InvariantHolds, PTL

(* A camera in the map has a session that will erase it, or is about to    *)
(* get one: no order of requests and endings takes a place for ever.       *)
THEOREM PlacesStayHeld == Spec => []PlacesAreHeld
<1>1. IInv => PlacesAreHeld
    BY DEF IInv
<1> QED
    BY <1>1, InvariantHolds, PTL

(* No detached handle thread is alive when its CameraHandle is deleted.    *)
THEOREM WorkersOutlived == Spec => []WorkerGoneBeforeDelete
<1>1. IInv => WorkerGoneBeforeDelete
    BY DEF IInv, Workers, WorkerGoneBeforeDelete
<1> QED
    BY <1>1, InvariantHolds, PTL

(* If clients wait for a session to pull or to be gone before they add its *)
(* camera again, every session that pulls can be stopped                   *)
(* (PullingIsReachable), for any number of cameras and sessions.           *)
THEOREM CarefulClientsReach ==
    ASSUME Careful
    PROVE  Spec => []PullingIsReachable
<1>1. Init => CarefulInv
    BY DEF Init, CarefulInv, Reached, Awaited, Live
<1>2. IInv /\ CarefulInv /\ [Next]_vars => CarefulInv'
    BY CarefulKept
<1>3. CarefulInv => PullingIsReachable
    BY DEF CarefulInv, Reached, PullingIsReachable, Live, Pulling
<1> QED
    BY <1>1, <1>2, <1>3, InvariantHolds, PTL DEF Spec

=============================================================================
