-------------------------- MODULE SnapshotsProofs --------------------------
(***************************************************************************)
(* Proofs about Snapshots: types, that a report is final unless the stream *)
(* broke off, that no download is left behind, and that a picture shows    *)
(* what its request was about, for any number of requests, cameras, days.  *)
(***************************************************************************)
EXTENDS Snapshots, Descent, FiniteSetTheorems, WellFoundedInduction, TLAPS

(* The days of the clock, and that None is no time and no thread.          *)
LEMMA Constants ==
    /\ None \notin Cams /\ None \notin Times /\ None \notin Threads
    /\ QueueLimit \in Nat /\ MaxBacklog \in Nat /\ MaxTime \in Nat
    /\ \A time \in Times : DayOf(time) \in Days
    /\ 0 \in Times
    BY NoneAssumption, CamsAssumption, LimitAssumption, BoundAssumption DEF Times, Threads, Days

(* A day is a number, and the clock does not go back to an earlier one.    *)
LEMMA DaysPass ==
    ASSUME NEW time \in Nat
    PROVE  DayOf(time) \in Nat /\ DayOf(time) <= DayOf(time + 1)
<1> DEFINE Before(n) == {m \in Midnights : m <= n}
<1>1. Before(time) \subseteq Midnights /\ Before(time + 1) \subseteq Midnights
    OBVIOUS
<1>2. IsFiniteSet(Before(time)) /\ IsFiniteSet(Before(time + 1))
    BY <1>1, DayAssumption, FS_Subset
<1>3. Before(time) \subseteq Before(time + 1)
    <2>1. \A m \in Nat : m <= time => m <= time + 1
        OBVIOUS
    <2> QED
        BY <2>1, DayAssumption
<1>4. Cardinality(Before(time)) <= Cardinality(Before(time + 1))
    BY <1>2, <1>3, FS_Subset
<1> QED
    BY <1>2, <1>4, FS_CardinalityType DEF DayOf

LEMMA PutMap ==
    ASSUME NEW X, NEW Y, NEW f, DOMAIN f \subseteq X, f \in [DOMAIN f -> Y],
           NEW x \in X, NEW y \in Y
    PROVE  /\ DOMAIN Put(f, x, y) = DOMAIN f \union {x}
           /\ DOMAIN Put(f, x, y) \subseteq X
           /\ Put(f, x, y) \in [DOMAIN Put(f, x, y) -> Y]
    BY DEF Put

LEMMA DropMap ==
    ASSUME NEW X, NEW Y, NEW f, DOMAIN f \subseteq X, f \in [DOMAIN f -> Y], NEW x
    PROVE  /\ DOMAIN Drop(f, x) = DOMAIN f \ {x}
           /\ DOMAIN Drop(f, x) \subseteq X
           /\ Drop(f, x) \in [DOMAIN Drop(f, x) -> Y]
    BY DEF Drop, Restrict

LEMMA EmptyMap ==
    ASSUME NEW Y, NEW y
    PROVE  /\ DOMAIN [z \in {} |-> y] = {}
           /\ [z \in {} |-> y] \in [DOMAIN [z \in {} |-> y] -> Y]
    OBVIOUS

LEMMA PushedFits ==
    ASSUME TypeOK, NEW t \in Threads
    PROVE  /\ Pushed(t) \in Nat
           /\ Pushed(t) > QueueLimit + 1 => cam[t] \in Offline
    BY Constants DEF Pushed, TypeOK

LEMMA InvInit == Init => IInv
<1> SUFFICES ASSUME Init
             PROVE  IInv
    OBVIOUS
<1>1. TypeOK
    <2>1. \A t \in Threads : result[t] = [c \in {} |-> None]
        BY DEF Init
    <2>2. \A t \in Threads : Results(t)
        BY <2>1, EmptyMap DEF Results
    <2>3. static = [f \in {} |-> None] /\ temp = [f \in {} |-> None]
        BY DEF Init
    <2>4. DOMAIN static = {} /\ static \in [DOMAIN static -> Threads]
        BY <2>3, EmptyMap
    <2>5. DOMAIN temp = {} /\ temp \in [DOMAIN temp -> Threads \union {None}]
        BY <2>3, EmptyMap
    <2>6. queue \in [Threads -> Nat] /\ \A t \in Threads : ~(queue[t] > QueueLimit + 1)
        BY Constants DEF Init
    <2> QED
        BY <2>2, <2>4, <2>5, <2>6, Constants DEF Init, TypeOK, Kinds, Pcs
<1>2. \A t \in Threads : Hands(t) /\ Pulls(t) /\ Reports(t)
    BY DEF Init, Hands, Pulls, Reports, Pulling, Looking, HasDownload
<1>3. \A t \in Threads : Traces(t)
    BY DEF Init, Traces, Traced, HasDownload, Draws
<1>4. PicturesTraced /\ DownloadsTraced
    BY DEF Init, PicturesTraced, DownloadsTraced
<1> QED
    BY <1>1, <1>2, <1>3, <1>4 DEF Init, IInv, ReportsAreFinal, ReportIsFinal, DownloadsAreHeld

----------------------------------------------------------------------------
(* The types.                                                              *)

LEMMA TypesRequest ==
    ASSUME TypeOK, NEW t \in Threads, Pulls(t), Request(t)
    PROVE  TypeOK'
<1> USE DEF TypeOK, fileVars, lookVars, snapVars, historyVars
<1>0. DayOf(now) \in Days
    BY Constants
<1>1. ASSUME NEW c \in Cams, SnapPic(t, c)
      PROVE  TypeOK'
    <2>1. \A u \in Threads : Results(u)'
        BY <1>1 DEF SnapPic, Results
    <2>2. queue'[t] = 0
        BY <1>1 DEF SnapPic, Serve, Pulls
    <2> QED
        BY <1>0, <1>1, <2>1, <2>2, Constants DEF SnapPic, Serve, Goes, Made, Kinds, Pcs, Pulling
<1>2. ASSUME NEW cs \in SUBSET Cams, LookPic(t, cs)
      PROVE  TypeOK'
    <2>1. \A u \in Threads : Results(u)'
        BY <1>2 DEF LookPic, Results
    <2> QED
        BY <1>0, <1>2, <2>1, Constants DEF LookPic, Serve, Goes, Made, Kinds, Pcs, Looking
<1> QED
    BY <1>1, <1>2 DEF Request

LEMMA TypesSnap ==
    ASSUME TypeOK, NEW t \in Threads, SnapStep(t) \/ Post(t)
    PROVE  TypeOK'
<1> USE DEF TypeOK, fileVars, lookVars, snapVars, historyVars, Goes, Pcs, Pulling, Results
<1>1. CASE Open(t)
    BY <1>1 DEF Open
<1>2. CASE OpenFails(t)
    BY <1>2 DEF OpenFails
<1>3. CASE Loop(t)
    BY <1>3 DEF Loop
<1>4. CASE ReadFrame(t)
    <2>1. /\ Pushed(t) \in Nat
          /\ Pushed(t) > QueueLimit + 1 => cam[t] \in Offline
        BY <1>4, PushedFits DEF ReadFrame
    <2> QED
        BY <1>4, <2>1 DEF ReadFrame
<1>5. CASE ReadOther(t)
    BY <1>5 DEF ReadOther
<1>6. CASE ReadFails(t)
    BY <1>6 DEF ReadFails
<1>7. CASE Drained(t)
    BY <1>7 DEF Drained
<1>8. CASE EndPrediction(t)
    BY <1>8 DEF EndPrediction
<1>9. CASE Delete(t)
    BY <1>9 DEF Delete
<1>10. CASE Post(t)
    BY <1>10 DEF Post
<1> QED
    BY <1>1, <1>2, <1>3, <1>4, <1>5, <1>6, <1>7, <1>8, <1>9, <1>10 DEF SnapStep

(* Writing a picture, and answering with it.                               *)
LEMMA TypesWrite ==
    ASSUME TypeOK, NEW t \in Threads, cam[t] \in Cams, frame[t] \in Threads, WriteImg(t)
    PROVE  /\ DOMAIN static' \subseteq Files
           /\ static' \in [DOMAIN static' -> Threads]
           /\ named' \in [Threads -> Times \union {None}]
           /\ names' \in [Threads -> SUBSET (Cams \X Times)]
           /\ named'[t] \in Times
<1> DEFINE file == [day |-> DayOf(now), cam |-> cam[t], ms |-> now]
<1>1. file \in Files
    BY Constants DEF Files, TypeOK
<1>a. DOMAIN static \subseteq Files /\ static \in [DOMAIN static -> Threads]
    BY DEF TypeOK
<1>2. /\ DOMAIN Put(static, file, frame[t]) \subseteq Files
      /\ Put(static, file, frame[t]) \in [DOMAIN Put(static, file, frame[t]) -> Threads]
    <2> HIDE DEF file
    <2> QED
        BY <1>1, <1>a, PutMap, Zenon
<1>3. static' = Put(static, file, frame[t]) \/ static' = static
    BY DEF WriteImg
<1> QED
    BY <1>2, <1>3 DEF WriteImg, TypeOK

LEMMA TypesAnswer ==
    ASSUME TypeOK, NEW t \in Threads, cam[t] \in Cams, named[t] \in Times,
           result' = [result EXCEPT ![t] = Put(@, cam[t], Url(t))]
    PROVE  \A u \in Threads : Results(u)'
<1>1. Url(t) \in Files /\ Url(t) \in Files \union {None}
    BY Constants DEF Url, Files, TypeOK
<1>a. /\ DOMAIN result[t] \subseteq Cams
      /\ result[t] \in [DOMAIN result[t] -> Files \union {None}]
    BY DEF TypeOK, Results
<1>2. /\ DOMAIN Put(result[t], cam[t], Url(t)) \subseteq Cams
      /\ Put(result[t], cam[t], Url(t))
            \in [DOMAIN Put(result[t], cam[t], Url(t)) -> Files \union {None}]
    <2> DEFINE old == result[t]
               url == Url(t)
    <2>1. /\ url \in Files \union {None}
          /\ DOMAIN old \subseteq Cams
          /\ old \in [DOMAIN old -> Files \union {None}]
        BY <1>1, <1>a
    <2> HIDE DEF old, url
    <2>2. /\ DOMAIN Put(old, cam[t], url) \subseteq Cams
          /\ Put(old, cam[t], url) \in [DOMAIN Put(old, cam[t], url) -> Files \union {None}]
        BY <2>1 DEF Put
    <2> QED
        BY <2>2 DEF old, url
<1> QED
    BY <1>2 DEF TypeOK, Results

LEMMA TypesWorker ==
    ASSUME TypeOK, NEW t \in Threads, Hands(t), WorkerStep(t)
    PROVE  TypeOK'
<1> USE DEF TypeOK, fileVars, lookVars, snapVars, historyVars, WorkerGoes
<1>1. CASE WorkerTakes(t)
    BY <1>1, Constants DEF WorkerTakes, Results
<1>2. CASE WorkerEnds(t)
    BY <1>2 DEF WorkerEnds, Results
<1>3. CASE WorkerFindsNone(t)
    BY <1>3 DEF WorkerFindsNone, Results
<1>4. CASE WorkerFinds(t)
    <2>1. cam[t] \in Cams /\ frame[t] \in Threads
        BY <1>4 DEF WorkerFinds, Hands
    <2> QED
        BY <1>4, <2>1, TypesWrite DEF WorkerFinds, Results
<1>5. CASE WorkerAnswers(t)
    <2>1. cam[t] \in Cams /\ named[t] \in Times
        BY <1>5 DEF WorkerAnswers, Hands
    <2>2. \A u \in Threads : Results(u)'
        BY <1>5, <2>1, TypesAnswer DEF WorkerAnswers
    <2> QED
        BY <1>5, <2>1, <2>2, TypesAnswer DEF WorkerAnswers
<1>6. CASE WorkerStops(t)
    BY <1>6 DEF WorkerStops, Results
<1>7. CASE WorkerLeaves(t)
    BY <1>7 DEF WorkerLeaves, Results
<1>8. CASE WorkerStrays(t)
    BY <1>8 DEF WorkerStrays, Results
<1> QED
    BY <1>1, <1>2, <1>3, <1>4, <1>5, <1>6, <1>7, <1>8 DEF WorkerStep, WorkerRuns

LEMMA TypesLook ==
    ASSUME TypeOK, NEW t \in Threads, Hands(t), Pulls(t), LookStep(t)
    PROVE  TypeOK'
<1> USE DEF TypeOK, fileVars, lookVars, snapVars, historyVars, Goes, Pcs, Looking
<1>1. CASE Pick(t)
    <2>1. PICK c \in todo[t] : /\ cam' = [cam EXCEPT ![t] = c]
                               /\ names' = [names EXCEPT ![t] = @ \union {<<c, now>>}]
                               /\ temp' = Put(temp, <<c, now>>, None)
        BY <1>1 DEF Pick
    <2>2. c \in Cams /\ now \in Times /\ <<c, now>> \in Cams \X Times
        BY <2>1
    <2>3. /\ DOMAIN temp' \subseteq Cams \X Times
          /\ temp' \in [DOMAIN temp' -> Threads \union {None}]
        <3>1. DOMAIN temp \subseteq Cams \X Times /\ temp \in [DOMAIN temp -> Threads \union {None}]
            OBVIOUS
        <3>2. None \in Threads \union {None}
            OBVIOUS
        <3> HIDE DEF TypeOK
        <3> QED
            BY <2>1, <2>2, <3>1, <3>2, PutMap, Zenon
    <2>4. queue'[t] = 0
        BY <1>1 DEF Pick, Pulls, Hands
    <2>5. names' \in [Threads -> SUBSET (Cams \X Times)]
        BY <2>1, <2>2
    <2>6. /\ cam' \in [Threads -> Cams \union {None}]
          /\ \A u \in Threads : queue'[u] > QueueLimit + 1 => cam'[u] \in Offline
        BY <1>1, <2>1, <2>2, <2>4, Constants DEF Pick
    <2> QED
        BY <1>1, <2>2, <2>3, <2>5, <2>6 DEF Pick, Results
<1>2. CASE PickNone(t)
    BY <1>2 DEF PickNone, Results
<1>3. CASE DownloadEnds(t)
    BY <1>3 DEF DownloadEnds, Results
<1>4. CASE DownloadFails(t)
    BY <1>4 DEF DownloadFails, Results
<1>5. CASE Finds(t)
    <2>1. temp[Name(t)] \in Threads
        BY <1>5 DEF Finds
    <2> QED
        BY <1>5, <2>1 DEF Finds, Results
<1>6. CASE FindsNone(t)
    BY <1>6 DEF FindsNone, Results
<1>7. CASE Write(t)
    <2>1. cam[t] \in Cams /\ frame[t] \in Threads
        BY <1>7 DEF Write, Hands, HasDownload
    <2> QED
        BY <1>7, <2>1, TypesWrite DEF Write, Results
<1>8. CASE Answer(t)
    <2>1. cam[t] \in Cams /\ named[t] \in Times
        BY <1>8 DEF Answer, Hands, HasDownload
    <2>2. \A u \in Threads : Results(u)'
        BY <1>8, <2>1, TypesAnswer DEF Answer
    <2> QED
        BY <1>8, <2>1, <2>2 DEF Answer
<1>9. CASE Remove(t)
    <2>1. /\ DOMAIN temp' \subseteq Cams \X Times
          /\ temp' \in [DOMAIN temp' -> Threads \union {None}]
        BY <1>9, DropMap DEF Remove
    <2> QED
        BY <1>9, <2>1 DEF Remove, Results
<1> QED
    BY <1>1, <1>2, <1>3, <1>4, <1>5, <1>6, <1>7, <1>8, <1>9 DEF LookStep

----------------------------------------------------------------------------
(* What a thread has in hand, how its pull ends, and when it reports; a    *)
(* step of one thread does not change what these say of another.           *)

StepOf(t) == Request(t) \/ SnapStep(t) \/ LookStep(t) \/ Post(t) \/ WorkerStep(t)

LEMMA OthersKeep ==
    ASSUME TypeOK, NEW t \in Threads, NEW u \in Threads \ {t},
           StepOf(t)
    PROVE  /\ <<kind[u], pc[u], worker[u], cam[u], named[u], loaded[u], frame[u]>>'
                = <<kind[u], pc[u], worker[u], cam[u], named[u], loaded[u], frame[u]>>
           /\ <<result[u], report[u], predictionFlag[u], pullFlag[u], queue[u], over[u]>>'
                = <<result[u], report[u], predictionFlag[u], pullFlag[u], queue[u], over[u]>>
<1> USE DEF TypeOK, fileVars, lookVars, snapVars, historyVars
<1>1. CASE Request(t)
    <2>1. ASSUME NEW c \in Cams, SnapPic(t, c)
          PROVE  UNCHANGED <<result[u], report[u], kind[u], pc[u], worker[u], cam[u], frame[u]>>
        BY <2>1 DEF SnapPic, Serve, Goes
    <2>2. ASSUME NEW c \in Cams, SnapPic(t, c)
          PROVE  UNCHANGED <<named[u], loaded[u], predictionFlag[u], pullFlag[u], queue[u],
                             over[u]>>
        BY <2>2 DEF SnapPic, Serve, Goes
    <2>3. ASSUME NEW cs \in SUBSET Cams, LookPic(t, cs)
          PROVE  UNCHANGED <<result[u], report[u], kind[u], pc[u], worker[u], cam[u], frame[u]>>
        BY <2>3 DEF LookPic, Serve, Goes
    <2>4. ASSUME NEW cs \in SUBSET Cams, LookPic(t, cs)
          PROVE  UNCHANGED <<named[u], loaded[u], predictionFlag[u], pullFlag[u], queue[u],
                             over[u]>>
        BY <2>4 DEF LookPic, Serve, Goes
    <2> QED
        BY <1>1, <2>1, <2>2, <2>3, <2>4 DEF Request
<1>2. CASE SnapStep(t) \/ Post(t)
    BY <1>2 DEF SnapStep, Goes, Open, OpenFails, Loop, ReadFrame, ReadOther, ReadFails, Drained,
                EndPrediction, Delete, Post
<1>3. CASE WorkerStep(t)
    BY <1>3 DEF WorkerStep, WorkerRuns, WorkerGoes, WorkerTakes, WorkerEnds, WorkerFindsNone,
                WorkerFinds, WorkerAnswers, WorkerStops, WorkerLeaves, WorkerStrays, WriteImg
<1>4. CASE LookStep(t)
    BY <1>4 DEF LookStep, Goes, Pick, PickNone, DownloadEnds, DownloadFails, Finds, FindsNone,
                Write, Answer, Remove, WriteImg
<1> QED
    BY <1>1, <1>2, <1>3, <1>4 DEF StepOf

(* What is kept for each thread on its own.                                *)
Kept(t) == Hands(t) /\ Pulls(t) /\ Reports(t) /\ ReportIsFinal(t)

LEMMA KeptByOthers ==
    ASSUME TypeOK, NEW t \in Threads, NEW u \in Threads \ {t}, Kept(u),
           StepOf(t)
    PROVE  Kept(u)'
    BY OthersKeep DEF Kept, Hands, Pulls, Reports, ReportIsFinal, HasDownload

LEMMA KeptByRequest ==
    ASSUME TypeOK, NEW t \in Threads, Kept(t), Request(t)
    PROVE  Kept(t)'
<1> USE DEF TypeOK, fileVars, lookVars, snapVars, historyVars, Kept, Hands, Pulls, Reports,
            ReportIsFinal, HasDownload, Pulling, Looking
<1>1. ASSUME NEW c \in Cams, SnapPic(t, c)
      PROVE  Kept(t)'
    BY <1>1 DEF SnapPic, Serve, Goes
<1>2. ASSUME NEW cs \in SUBSET Cams, LookPic(t, cs)
      PROVE  Kept(t)'
    BY <1>2 DEF LookPic, Serve, Goes
<1> QED
    BY <1>1, <1>2 DEF Request

LEMMA KeptBySnap ==
    ASSUME TypeOK, NEW t \in Threads, Kept(t), SnapStep(t) \/ Post(t)
    PROVE  Kept(t)'
<1> USE DEF TypeOK, fileVars, lookVars, snapVars, historyVars, Kept, Hands, Pulls, Reports,
            ReportIsFinal, HasDownload, Pulling, Looking, Goes
<1>1. CASE Open(t)
    BY <1>1 DEF Open
<1>2. CASE OpenFails(t)
    BY <1>2 DEF OpenFails
<1>3. CASE Loop(t)
    BY <1>3 DEF Loop
<1>4. CASE ReadFrame(t)
    BY <1>4 DEF ReadFrame
<1>5. CASE ReadOther(t)
    BY <1>5 DEF ReadOther
<1>6. CASE ReadFails(t)
    BY <1>6 DEF ReadFails
<1>7. CASE Drained(t)
    BY <1>7 DEF Drained
<1>8. CASE EndPrediction(t)
    BY <1>8 DEF EndPrediction
<1>9. CASE Delete(t)
    BY <1>9 DEF Delete
<1>10. CASE Post(t)
    BY <1>10 DEF Post
<1> QED
    BY <1>1, <1>2, <1>3, <1>4, <1>5, <1>6, <1>7, <1>8, <1>9, <1>10 DEF SnapStep

LEMMA KeptByWorker ==
    ASSUME TypeOK, NEW t \in Threads, Kept(t), WorkerStep(t)
    PROVE  Kept(t)'
<1> USE DEF TypeOK, fileVars, lookVars, snapVars, historyVars, Kept, Hands, Pulls, Reports,
            ReportIsFinal, HasDownload, Pulling, Looking, WorkerGoes
<1>1. CASE WorkerTakes(t)
    BY <1>1 DEF WorkerTakes
<1>2. CASE WorkerEnds(t)
    BY <1>2 DEF WorkerEnds
<1>3. CASE WorkerFindsNone(t)
    BY <1>3 DEF WorkerFindsNone
<1>4. CASE WorkerFinds(t)
    BY <1>4 DEF WorkerFinds, WriteImg
<1>5. CASE WorkerAnswers(t)
    BY <1>5 DEF WorkerAnswers
<1>6. CASE WorkerStops(t)
    BY <1>6 DEF WorkerStops
<1>7. CASE WorkerLeaves(t)
    BY <1>7 DEF WorkerLeaves
<1>8. CASE WorkerStrays(t)
    BY <1>8 DEF WorkerStrays, Deleted
<1> QED
    BY <1>1, <1>2, <1>3, <1>4, <1>5, <1>6, <1>7, <1>8 DEF WorkerStep, WorkerRuns

LEMMA KeptByLook ==
    ASSUME TypeOK, NEW t \in Threads, Kept(t), LookStep(t)
    PROVE  Kept(t)'
<1> USE DEF TypeOK, fileVars, lookVars, snapVars, historyVars, Kept, Hands, Pulls, Reports,
            ReportIsFinal, HasDownload, Pulling, Looking, Goes
<1>1. CASE Pick(t)
    BY <1>1 DEF Pick
<1>2. CASE PickNone(t)
    BY <1>2 DEF PickNone
<1>3. CASE DownloadEnds(t)
    BY <1>3 DEF DownloadEnds
<1>4. CASE DownloadFails(t)
    BY <1>4 DEF DownloadFails
<1>5. CASE Finds(t)
    BY <1>5 DEF Finds, Name
<1>6. CASE FindsNone(t)
    BY <1>6 DEF FindsNone
<1>7. CASE Write(t)
    BY <1>7 DEF Write, WriteImg
<1>8. CASE Answer(t)
    BY <1>8 DEF Answer
<1>9. CASE Remove(t)
    BY <1>9 DEF Remove
<1> QED
    BY <1>1, <1>2, <1>3, <1>4, <1>5, <1>6, <1>7, <1>8, <1>9 DEF LookStep

----------------------------------------------------------------------------
(* The downloads.                                                          *)

LEMMA HeldByOthers ==
    ASSUME TypeOK, DownloadsAreHeld, NEW t \in Threads,
           \A u \in Threads \ {t} : UNCHANGED <<pc[u], cam[u], loaded[u]>>,
           HasDownload(t) => HasDownload(t)' /\ UNCHANGED <<cam[t], loaded[t]>>,
           DOMAIN temp' \subseteq DOMAIN temp
    PROVE  DownloadsAreHeld'
<1> SUFFICES ASSUME NEW name \in DOMAIN temp'
             PROVE  \E u \in Threads : HasDownload(u)' /\ Name(u)' = name
    BY DEF DownloadsAreHeld
<1>1. PICK u \in Threads : HasDownload(u) /\ Name(u) = name
    BY DEF DownloadsAreHeld
<1>2. HasDownload(u)' /\ Name(u)' = name
    BY <1>1 DEF HasDownload, Name
<1> QED
    BY <1>2

(* Everything but the steps of LookPic leaves the downloads alone.         *)
LEMMA HeldElsewhere ==
    ASSUME TypeOK, DownloadsAreHeld, NEW t \in Threads, Hands(t),
           Request(t) \/ SnapStep(t) \/ Post(t) \/ WorkerStep(t)
    PROVE  DownloadsAreHeld'
<1> USE DEF fileVars, lookVars, snapVars, historyVars
<1>1. \A u \in Threads \ {t} : UNCHANGED <<pc[u], cam[u], loaded[u]>>
    BY OthersKeep DEF StepOf
<1>2. temp' = temp
    <2>1. CASE Request(t)
        BY <2>1 DEF Request, SnapPic, LookPic
    <2>2. CASE SnapStep(t) \/ Post(t)
        BY <2>2 DEF SnapStep, Open, OpenFails, Loop, ReadFrame, ReadOther, ReadFails, Drained,
                    EndPrediction, Delete, Post
    <2>3. CASE WorkerStep(t)
        BY <2>3 DEF WorkerStep, WorkerRuns, WorkerTakes, WorkerEnds, WorkerFindsNone, WorkerFinds,
                    WorkerAnswers, WorkerStops, WorkerLeaves, WorkerStrays
    <2> QED
        BY <2>1, <2>2, <2>3
<1>3. HasDownload(t) => HasDownload(t)' /\ UNCHANGED <<cam[t], loaded[t]>>
    <2>1. CASE Request(t)
        BY <2>1 DEF Request, SnapPic, LookPic, Serve, Goes, HasDownload
    <2>2. CASE SnapStep(t) \/ Post(t)
        BY <2>2 DEF SnapStep, Open, OpenFails, Loop, ReadFrame, ReadOther, ReadFails, Drained,
                    EndPrediction, Delete, Post, Goes, HasDownload
    <2>3. CASE WorkerStep(t)
        BY <2>3 DEF WorkerStep, WorkerRuns, WorkerTakes, WorkerEnds, WorkerFindsNone, WorkerFinds,
                    WorkerAnswers, WorkerStops, WorkerLeaves, WorkerStrays, HasDownload
    <2> QED
        BY <2>1, <2>2, <2>3
<1> QED
    BY <1>1, <1>2, <1>3, HeldByOthers

LEMMA HeldByLook ==
    ASSUME TypeOK, DownloadsAreHeld, NEW t \in Threads, Hands(t), LookStep(t)
    PROVE  DownloadsAreHeld'
<1> USE DEF fileVars, lookVars
<1>0. \A u \in Threads \ {t} : UNCHANGED <<pc[u], cam[u], loaded[u]>>
    BY OthersKeep DEF StepOf
<1>1. CASE Pick(t)
    <2>1. PICK c \in todo[t] : cam' = [cam EXCEPT ![t] = c] /\ temp' = Put(temp, <<c, now>>, None)
        BY <1>1 DEF Pick
    <2>2. HasDownload(t)' /\ Name(t)' = <<c, now>>
        BY <1>1, <2>1 DEF Pick, Goes, HasDownload, Name, TypeOK
    <2>3. SUFFICES ASSUME NEW name \in DOMAIN temp', name # <<c, now>>
                   PROVE  \E u \in Threads : HasDownload(u)' /\ Name(u)' = name
        BY <2>2 DEF DownloadsAreHeld
    <2>4. name \in DOMAIN temp
        BY <2>1, <2>3 DEF Put
    <2>5. PICK u \in Threads : HasDownload(u) /\ Name(u) = name
        BY <2>4 DEF DownloadsAreHeld
    <2>6. u # t
        BY <1>1, <2>5 DEF Pick, Goes, HasDownload
    <2> QED
        BY <1>0, <2>5, <2>6 DEF HasDownload, Name
<1>2. CASE Remove(t)
    <2>1. SUFFICES ASSUME NEW name \in DOMAIN temp'
                   PROVE  \E u \in Threads : HasDownload(u)' /\ Name(u)' = name
        BY DEF DownloadsAreHeld
    <2>2. \E u \in Threads \ {t} : HasDownload(u) /\ Name(u) = name
        <3>1. CASE name = Name(t)
            BY <1>2, <3>1 DEF Remove, Drop, Restrict, HasDownload
        <3>2. CASE name # Name(t)
            BY <1>2, <3>2 DEF Remove, Drop, Restrict, DownloadsAreHeld
        <3> QED
            BY <3>1, <3>2
    <2> QED
        BY <1>0, <2>2 DEF HasDownload, Name
<1>3. CASE ~Pick(t) /\ ~Remove(t)
    <2>1. HasDownload(t) => HasDownload(t)' /\ UNCHANGED <<cam[t], loaded[t]>>
        BY <1>3 DEF LookStep, PickNone, DownloadEnds, DownloadFails, Finds, FindsNone, Write,
                    Answer, Goes, HasDownload, TypeOK
    <2>2. DOMAIN temp' \subseteq DOMAIN temp
        BY <1>3 DEF LookStep, PickNone, DownloadEnds, DownloadFails, Finds, FindsNone, Write, Answer
    <2> QED
        BY <1>0, <2>1, <2>2, HeldByOthers
<1> QED
    BY <1>1, <1>2, <1>3

----------------------------------------------------------------------------
(* Whose pictures are shown.  Names, directories and pictures only come to *)
(* be, so that what is traced stays so.                                    *)

Grows(t) ==
    /\ now' = now
    /\ \A u \in Threads : names[u] \subseteq names'[u]
    /\ dirs \subseteq dirs'
    /\ \A u \in Threads \ {t} : born'[u] = born[u]
    /\ kind[t] # "none" => born'[t] = born[t]
    /\ static' # static => WriteImg(t) /\ (worker[t] = "handle" \/ pc[t] = "write")

LEMMA StepGrows ==
    ASSUME TypeOK, NEW t \in Threads, Hands(t), StepOf(t)
    PROVE  Grows(t)
<1> USE DEF Grows, fileVars, lookVars, snapVars, historyVars
<1>1. CASE Request(t)
    <2>1. /\ UNCHANGED <<now, static, names>>
          /\ kind[t] = "none"
          /\ dirs' = Made
          /\ born' = [born EXCEPT ![t] = DayOf(now)]
        BY <1>1 DEF Request, SnapPic, LookPic, Serve
    <2> QED
        BY <2>1 DEF Made, TypeOK
<1>2. CASE SnapStep(t) \/ Post(t)
    <2>1. UNCHANGED <<now, static, dirs, names, born>>
        BY <1>2 DEF SnapStep, Open, OpenFails, Loop, ReadFrame, ReadOther, ReadFails, Drained,
                    EndPrediction, Delete, Post
    <2> QED
        BY <2>1
<1>3. CASE WorkerStep(t)
    <2>1. CASE WorkerFinds(t)
        BY <2>1 DEF WorkerFinds, WorkerGoes, WriteImg, TypeOK
    <2>2. CASE ~WorkerFinds(t)
        <3>1. UNCHANGED <<now, static, dirs, names, born>>
            BY <1>3, <2>2 DEF WorkerStep, WorkerRuns, WorkerTakes, WorkerEnds, WorkerFindsNone,
                              WorkerAnswers, WorkerStops, WorkerLeaves, WorkerStrays
        <3> QED
            BY <3>1
    <2> QED
        BY <2>1, <2>2
<1>4. CASE LookStep(t)
    <2>1. CASE Write(t)
        BY <2>1 DEF Write, Goes, WriteImg, TypeOK
    <2>2. CASE Pick(t)
        BY <2>2 DEF Pick, TypeOK
    <2>3. CASE ~Write(t) /\ ~Pick(t)
        <3>1. UNCHANGED <<now, static, dirs, names, born>>
            BY <1>4, <2>3 DEF LookStep, PickNone, DownloadEnds, DownloadFails, Finds, FindsNone,
                              Answer, Remove
        <3> QED
            BY <3>1
    <2> QED
        BY <2>1, <2>2, <2>3
<1> QED
    BY <1>1, <1>2, <1>3, <1>4 DEF StepOf

LEMMA StaticGrows ==
    ASSUME TypeOK, NEW t \in Threads, Grows(t)
    PROVE  DOMAIN static \subseteq DOMAIN static'
    BY DEF Grows, WriteImg, Put

LEMMA PicturesStep ==
    ASSUME TypeOK, PicturesTraced, NEW t \in Threads, Hands(t), Traces(t), Grows(t)
    PROVE  PicturesTraced'
<1> SUFFICES ASSUME NEW file \in DOMAIN static'
             PROVE  \E u \in Threads :
                        <<file.cam, file.ms>> \in names'[u] /\ Shares(u, static[file])'
    BY DEF PicturesTraced
<1>1. CASE file \in DOMAIN static /\ static'[file] = static[file]
    <2>1. PICK u \in Threads : <<file.cam, file.ms>> \in names[u] /\ Shares(u, static[file])
        BY <1>1 DEF PicturesTraced
    <2>2. static[file] \in Threads
        BY <1>1 DEF TypeOK
    <2>3. <<file.cam, file.ms>> \in names'[u]
        BY <2>1 DEF Grows
    <2>4. Shares(u, static[file])'
        BY <1>1, <2>1, <2>2 DEF Shares, Grows
    <2> QED
        BY <2>3, <2>4
<1>2. CASE ~(file \in DOMAIN static /\ static'[file] = static[file])
    <2>1. WriteImg(t) /\ (worker[t] = "handle" \/ pc[t] = "write")
        BY <1>2 DEF Grows
    <2>2. file = [day |-> DayOf(now), cam |-> cam[t], ms |-> now] /\ static'[file] = frame[t]
        BY <1>2, <2>1 DEF WriteImg, Put
    <2>3. <<file.cam, file.ms>> \in names'[t]
        BY <2>1, <2>2 DEF WriteImg, TypeOK
    <2>4. frame[t] \in Threads /\ Shares(t, frame[t])
        BY <2>1 DEF Hands, Traces
    <2>5. Shares(t, static[file])'
        BY <2>2, <2>4 DEF Shares, Grows
    <2> QED
        BY <2>3, <2>5
<1> QED
    BY <1>1, <1>2

LEMMA DownloadsStep ==
    ASSUME TypeOK, DownloadsTraced, NEW t \in Threads, Hands(t), Traces(t), StepOf(t), Grows(t)
    PROVE  DownloadsTraced'
<1> USE DEF fileVars, lookVars, snapVars, historyVars
<1> SUFFICES ASSUME NEW name \in DOMAIN temp', temp'[name] # None
             PROVE  name \in names'[temp'[name]]
    BY DEF DownloadsTraced
<1>1. CASE name \in DOMAIN temp /\ temp'[name] = temp[name]
    BY <1>1 DEF DownloadsTraced, Grows, TypeOK
<1>2. CASE DownloadEnds(t)
    BY <1>1, <1>2 DEF DownloadEnds, Goes, HasDownload, Traces, TypeOK
<1>3. CASE Pick(t)
    BY <1>1, <1>3 DEF Pick, Put
<1>4. CASE Remove(t)
    BY <1>1, <1>4 DEF Remove, Drop, Restrict
<1>5. CASE ~DownloadEnds(t) /\ ~Pick(t) /\ ~Remove(t)
    <2>1. CASE Request(t)
        BY <1>1, <2>1 DEF Request, SnapPic, LookPic
    <2>2. CASE SnapStep(t) \/ Post(t)
        BY <1>1, <2>2 DEF SnapStep, Open, OpenFails, Loop, ReadFrame, ReadOther, ReadFails, Drained,
                    EndPrediction, Delete, Post
    <2>3. CASE WorkerStep(t)
        BY <1>1, <2>3 DEF WorkerStep, WorkerRuns, WorkerTakes, WorkerEnds, WorkerFindsNone,
                    WorkerFinds, WorkerAnswers, WorkerStops, WorkerLeaves, WorkerStrays
    <2>4. CASE LookStep(t)
        BY <1>1, <1>5, <2>4 DEF LookStep, PickNone, DownloadFails, Finds, FindsNone, Write, Answer
    <2> QED
        BY <2>1, <2>2, <2>3, <2>4 DEF StepOf
<1> QED
    BY <1>2, <1>3, <1>4, <1>5

LEMMA TracesByOthers ==
    ASSUME TypeOK, NEW t \in Threads, NEW u \in Threads \ {t}, Hands(u), Traces(u),
           StepOf(t), Grows(t)
    PROVE  Traces(u)'
<1>1. Traced(u, result[u])' /\ (report'[u] # None => Traced(u, report[u])')
    <2>1. \A c \in DOMAIN result[u] : result[u][c] # None =>
            /\ <<result[u][c].cam, result[u][c].ms>> \in names'[u]
            /\ result[u][c].day = born'[u] => result[u][c] \in DOMAIN static'
        BY StaticGrows DEF Traces, Traced, Grows
    <2>2. report[u] # None => \A c \in DOMAIN report[u] : report[u][c] # None =>
            /\ <<report[u][c].cam, report[u][c].ms>> \in names'[u]
            /\ report[u][c].day = born'[u] => report[u][c] \in DOMAIN static'
        BY StaticGrows DEF Traces, Traced, Grows
    <2>3. result'[u] = result[u] /\ report'[u] = report[u]
        BY OthersKeep
    <2> QED
        BY <2>1, <2>2, <2>3 DEF Traced
<1>2. /\ HasDownload(u)' = HasDownload(u)
      /\ Name(u)' = Name(u)
      /\ Draws(u)' = Draws(u)
      /\ Url(u)' = Url(u)
    BY OthersKeep DEF HasDownload, Name, Draws, Url, Grows
<1>3. names[u] \subseteq names'[u] /\ born'[u] = born[u] /\ now' = now /\ dirs \subseteq dirs'
    BY DEF Grows
<1>4. (pc[u] = "write" \/ worker[u] = "handle") => Shares(u, frame[u])'
    BY OthersKeep DEF Traces, Hands, Shares, Grows
<1> QED
    BY <1>1, <1>2, <1>3, <1>4, OthersKeep, StaticGrows DEF Traces

----------------------------------------------------------------------------
(* The invariant.                                                          *)

LEMMA WriteTraces ==
    ASSUME TypeOK, NEW t \in Threads, born[t] \in dirs, WriteImg(t), now' = now, cam' = cam
    PROVE  /\ <<cam[t], named[t]>>' \in names'[t]
           /\ DayOf(now) = born[t] => Url(t)' \in DOMAIN static'
<1>1. named'[t] = now /\ <<cam[t], now>> \in names'[t]
    BY DEF WriteImg, TypeOK
<1>2. Url(t)' = [day |-> DayOf(now), cam |-> cam[t], ms |-> now]
    BY <1>1 DEF Url, DayOf
<1>3. ASSUME DayOf(now) = born[t]
      PROVE  [day |-> DayOf(now), cam |-> cam[t], ms |-> now] \in DOMAIN static'
    BY <1>3 DEF WriteImg, Put
<1> QED
    BY <1>1, <1>2, <1>3

LEMMA AnswerTraces ==
    ASSUME TypeOK, NEW t \in Threads, Traces(t), Draws(t),
           result' = [result EXCEPT ![t] = Put(@, cam[t], Url(t))],
           static' = static, names' = names, born' = born
    PROVE  Traced(t, result[t])'
<1> DEFINE url == Url(t)
           old == result[t]
<1>1. <<url.cam, url.ms>> \in names[t] /\ (url.day = born[t] => url \in DOMAIN static)
    BY DEF Url, Traces
<1>2. Traced(t, old)
    BY DEF Traces
<1>3. result'[t] = Put(old, cam[t], url)
    BY DEF TypeOK
<1> HIDE DEF url, old
<1>4. \A c \in DOMAIN Put(old, cam[t], url) :
        \/ Put(old, cam[t], url)[c] = url
        \/ c \in DOMAIN old /\ Put(old, cam[t], url)[c] = old[c]
    BY DEF Put
<1>5. Traced(t, Put(old, cam[t], url))
    BY <1>1, <1>2, <1>4 DEF Traced
<1> QED
    BY <1>3, <1>5 DEF Traced

LEMMA TracesByOwn ==
    ASSUME TypeOK, DownloadsTraced, NEW t \in Threads, Hands(t), Reports(t), Traces(t), StepOf(t),
           Grows(t)
    PROVE  Traces(t)'
<1> USE DEF fileVars, lookVars, snapVars, historyVars
<1>0. now \in Nat /\ DayOf(now) \in Nat
    BY DaysPass, Constants DEF TypeOK, Times
<1>1. CASE Request(t)
    <2>1. /\ kind[t] = "none"
          /\ UNCHANGED <<now, static, names>>
          /\ dirs' = Made
          /\ born' = [born EXCEPT ![t] = DayOf(now)]
          /\ pc' \in {[pc EXCEPT ![t] = "open"], [pc EXCEPT ![t] = "pick"]}
          /\ worker' \in {worker, [worker EXCEPT ![t] = "test"]}
          /\ report' = report
          /\ \/ result' = result
             \/ \E c \in Cams : result' = [result EXCEPT ![t] = [x \in {c} |-> None]]
        BY <1>1 DEF Request, SnapPic, LookPic, Serve, Goes
    <2>2. pc[t] = "none" /\ worker[t] = "none" /\ report[t] = None
        BY <2>1 DEF Hands, Reports
    <2>3. /\ pc'[t] \notin {"get", "imread", "write", "url", "remove"}
          /\ worker'[t] \notin {"handle", "url"}
        BY <2>1, <2>2 DEF TypeOK
    <2>4. ~HasDownload(t)' /\ ~Draws(t)'
        BY <2>3 DEF HasDownload, Draws
    <2>5. born'[t] = DayOf(now) /\ born'[t] \in dirs' /\ DayOf(now)' = DayOf(now)
        BY <2>1 DEF Made, TypeOK, DayOf
    <2>6. \A c \in DOMAIN result'[t] : result'[t][c] = None
        <3>1. CASE result' = result
            BY <2>1, <3>1 DEF Hands
        <3>2. ASSUME NEW c \in Cams, result' = [result EXCEPT ![t] = [x \in {c} |-> None]]
              PROVE  \A d \in DOMAIN result'[t] : result'[t][d] = None
            BY <3>2 DEF TypeOK
        <3> QED
            BY <2>1, <3>1, <3>2
    <2>7. Traced(t, result[t])' /\ report'[t] = None
        BY <2>1, <2>2, <2>6 DEF Traced
    <2> QED
        BY <1>0, <2>3, <2>4, <2>5, <2>7 DEF Traces
<1>2. CASE SnapStep(t) \/ Post(t)
    <2>1. /\ UNCHANGED <<now, static, dirs, names, born, kind, worker>>
          /\ UNCHANGED <<cam, named, loaded, frame, result>>
          /\ ~HasDownload(t)'
          /\ report' = report \/ report' = [report EXCEPT ![t] = result[t]]
        BY <1>2 DEF SnapStep, Open, OpenFails, Loop, ReadFrame, ReadOther, ReadFails, Drained,
                    EndPrediction, Delete, Post, Goes, HasDownload, TypeOK
    <2>2. Traced(t, result[t])' /\ (report'[t] # None => Traced(t, report[t])')
        BY <2>1 DEF Traces, Traced, TypeOK
    <2>3. pc'[t] # "write" /\ pc'[t] # "url"
        BY <2>1 DEF HasDownload
    <2>4. Draws(t)' => Draws(t) /\ Url(t)' = Url(t)
        BY <2>1, <2>3 DEF Draws, Url, DayOf
    <2>5. worker'[t] = "handle" => Shares(t, frame[t])'
        BY <2>1 DEF Traces, Shares
    <2> QED
        BY <2>1, <2>2, <2>3, <2>4, <2>5 DEF Traces
<1>3. ASSUME UNCHANGED <<now, static, dirs, names, born, kind, result, report>>,
             HasDownload(t)' => HasDownload(t) /\ Name(t)' = Name(t),
             pc'[t] = "write" \/ worker'[t] = "handle" => Shares(t, frame[t])',
             Draws(t)' => Draws(t) /\ UNCHANGED <<cam[t], named[t]>>
      PROVE  Traces(t)'
    BY <1>3 DEF Traces, Traced, Url, DayOf
<1>4. CASE WorkerStep(t)
    <2>0. kind[t] = "snap" \/ ~WorkerStep(t)
        BY DEF WorkerStep, WorkerRuns, WorkerGoes, WorkerTakes, WorkerEnds, WorkerFindsNone,
               WorkerFinds, WorkerAnswers, WorkerStops, WorkerLeaves, WorkerStrays, Hands
    <2>1. /\ pc' = pc /\ kind[t] = "snap" /\ pc[t] \notin Looking
          /\ ~HasDownload(t) /\ ~HasDownload(t)'
        BY <1>4, <2>0 DEF WorkerStep, WorkerRuns, WorkerTakes, WorkerEnds, WorkerFindsNone,
               WorkerFinds, WorkerAnswers, WorkerStops, WorkerLeaves, WorkerStrays, Hands,
               Looking, HasDownload
    <2>2. CASE WorkerFinds(t)
        <3>1. born[t] \in dirs /\ worker'[t] = "url"
            BY <2>1, <2>2 DEF Traces, WorkerFinds, WorkerGoes, TypeOK
        <3>2. /\ <<cam[t], named[t]>>' \in names'[t]
              /\ DayOf(now) = born[t] => Url(t)' \in DOMAIN static'
            BY <2>2, <3>1, WriteTraces DEF WorkerFinds
        <3>3. UNCHANGED <<now, dirs, born, kind, result, report>>
            BY <2>2 DEF WorkerFinds
        <3>4. Traced(t, result[t])' /\ (report'[t] # None => Traced(t, report[t])')
            BY <3>3, StaticGrows DEF Traces, Traced, Grows
        <3> QED
            BY <2>1, <3>1, <3>2, <3>3, <3>4 DEF Traces, Looking, DayOf, HasDownload
    <2>3. CASE WorkerAnswers(t)
        <3>1. Traced(t, result[t])'
            BY <2>3, AnswerTraces DEF WorkerAnswers, WorkerGoes, Draws
        <3>2. /\ UNCHANGED <<now, static, dirs, names, born, kind, report>>
              /\ worker'[t] = "stop"
            BY <2>3 DEF WorkerAnswers, WorkerGoes, TypeOK
        <3>3. report'[t] # None => Traced(t, report[t])'
            BY <3>2 DEF Traces, Traced
        <3> QED
            BY <2>1, <3>1, <3>2, <3>3 DEF Traces, Draws, Looking, HasDownload, DayOf
    <2>4. CASE WorkerTakes(t)
        <3>1. frame'[t] = t /\ worker'[t] = "handle"
            BY <2>4 DEF WorkerTakes, WorkerGoes, TypeOK
        <3> QED
            BY <1>3, <2>1, <2>4, <3>1 DEF WorkerTakes, Shares, Draws
    <2>5. CASE ~WorkerFinds(t) /\ ~WorkerAnswers(t) /\ ~WorkerTakes(t)
        <3>1. /\ UNCHANGED <<now, static, dirs, names, born, kind, result, report>>
              /\ UNCHANGED <<cam, named, frame>>
              /\ worker'[t] \notin {"handle", "url"}
            BY <1>4, <2>5 DEF WorkerStep, WorkerRuns, WorkerGoes, WorkerEnds, WorkerFindsNone,
                   WorkerStops, WorkerLeaves, WorkerStrays, TypeOK
        <3> QED
            BY <1>3, <2>1, <3>1 DEF Draws, Looking, HasDownload
    <2> QED
        BY <2>2, <2>3, <2>4, <2>5
<1>5. CASE LookStep(t)
    <2>1. worker' = worker /\ worker[t] = "none" /\ kind' = kind /\ kind[t] = "look"
        BY <1>5 DEF LookStep, Pick, PickNone, DownloadEnds, DownloadFails, Finds, FindsNone, Write,
               Answer, Remove, Goes, Hands, Looking
    <2>2. CASE Pick(t)
        <3>1. /\ UNCHANGED <<now, static, dirs, born, kind, result, report>>
              /\ pc'[t] = "get"
              /\ Name(t)' \in names'[t]
            BY <2>2 DEF Pick, Goes, Name, TypeOK
        <3>2. Traced(t, result[t])' /\ (report'[t] # None => Traced(t, report[t])')
            BY <3>1 DEF Traces, Traced, Grows
        <3> QED
            BY <2>1, <3>1, <3>2 DEF Traces, Draws, DayOf
    <2>3. CASE Finds(t)
        <3>1. /\ Name(t) \in names[t]
              /\ Name(t) \in names[temp[Name(t)]]
              /\ frame'[t] = temp[Name(t)]
            BY <2>3 DEF Finds, Goes, Traces, HasDownload, DownloadsTraced, TypeOK
        <3>2. Shares(t, frame[t])'
            BY <2>3, <3>1 DEF Finds, Shares
        <3> QED
            BY <1>3, <2>1, <2>3, <3>2 DEF Finds, Goes, HasDownload, Name, Draws, TypeOK
    <2>4. CASE Write(t)
        <3>1. born[t] \in dirs /\ pc'[t] = "url"
            BY <2>1, <2>4 DEF Traces, Write, Goes, TypeOK
        <3>2. /\ <<cam[t], named[t]>>' \in names'[t]
              /\ DayOf(now) = born[t] => Url(t)' \in DOMAIN static'
            BY <2>4, <3>1, WriteTraces DEF Write
        <3>3. UNCHANGED <<now, dirs, born, kind, result, report>>
            BY <2>4 DEF Write
        <3>4. Traced(t, result[t])' /\ (report'[t] # None => Traced(t, report[t])')
            BY <3>3, StaticGrows DEF Traces, Traced, Grows
        <3>5. Name(t)' \in names'[t]
            BY <2>4 DEF Write, Goes, Traces, HasDownload, Name, Grows
        <3> QED
            BY <2>1, <3>1, <3>2, <3>3, <3>4, <3>5 DEF Traces, DayOf
    <2>5. CASE Answer(t)
        <3>1. Traced(t, result[t])'
            BY <2>5, AnswerTraces DEF Answer, Goes, Draws
        <3>2. /\ UNCHANGED <<now, static, dirs, names, born, kind, report, cam, loaded>>
              /\ pc[t] = "url" /\ pc'[t] = "remove"
            BY <2>5 DEF Answer, Goes, TypeOK
        <3>3. report'[t] # None => Traced(t, report[t])'
            BY <3>2 DEF Traces, Traced
        <3> QED
            BY <2>1, <3>1, <3>2, <3>3 DEF Traces, Draws, HasDownload, Name, DayOf
    <2>6. CASE ~Pick(t) /\ ~Finds(t) /\ ~Write(t) /\ ~Answer(t)
        <3>1. /\ UNCHANGED <<now, static, dirs, names, born, kind, result, report>>
              /\ UNCHANGED <<cam, named, loaded>>
              /\ pc'[t] \notin {"write", "url"}
              /\ HasDownload(t)' => HasDownload(t)
            BY <1>5, <2>6 DEF LookStep, PickNone, DownloadEnds, DownloadFails, FindsNone, Remove,
                   Goes, HasDownload, TypeOK
        <3> QED
            BY <1>3, <2>1, <3>1 DEF Draws, Name
    <2> QED
        BY <2>2, <2>3, <2>4, <2>5, <2>6
<1> QED
    BY <1>1, <1>2, <1>4, <1>5 DEF StepOf

LEMMA TracesByTick ==
    ASSUME TypeOK, NEW t \in Threads, Hands(t), Traces(t), Tick
    PROVE  Traces(t)'
<1> USE DEF fileVars, lookVars, snapVars, historyVars
<1>1. /\ now \in Nat
      /\ now' = now + 1
      /\ DayOf(now) \in Nat
      /\ DayOf(now)' \in Nat
      /\ DayOf(now) <= DayOf(now)'
    <2>1. now \in Nat /\ now' = now + 1
        BY DEF Tick, TypeOK, Times
    <2>2. DayOf(now)' = DayOf(now')
        BY DEF DayOf
    <2> QED
        BY <2>1, <2>2, DaysPass
<1>2. UNCHANGED <<static, dirs, names, born, kind, pc, worker, cam, named, loaded, frame, result,
                  report>>
    BY DEF Tick
<1>3. Draws(t)' /\ DayOf(now)' = born[t] => Url(t)' \in DOMAIN static'
    <2>1. SUFFICES ASSUME Draws(t)', DayOf(now)' = born[t]
                   PROVE  Url(t)' \in DOMAIN static'
        OBVIOUS
    <2>2. Draws(t)
        BY <1>2, <2>1 DEF Draws
    <2>3. kind[t] # "none" /\ born[t] \in Nat /\ born[t] <= DayOf(now)
        BY <2>2 DEF Draws, Hands, Looking, Traces
    <2>4. DayOf(now) = born[t] /\ DayOf(now)' = DayOf(now)
        BY <1>1, <2>1, <2>3
    <2>5. Url(t)' = Url(t)
        BY <1>2, <2>4 DEF Url
    <2> QED
        BY <1>2, <2>2, <2>4, <2>5 DEF Traces
<1> QED
    BY <1>1, <1>2, <1>3 DEF Traces, Traced, HasDownload, Name, Shares, Draws

LEMMA InvIs ==
    IInv <=> /\ TypeOK /\ DownloadsAreHeld /\ PicturesTraced /\ DownloadsTraced
             /\ \A t \in Threads : Kept(t) /\ Traces(t)
    BY DEF IInv, Kept, ReportsAreFinal

LEMMA InvStep == IInv /\ [Next]_vars => IInv'
<1> SUFFICES ASSUME IInv, [Next]_vars
             PROVE  IInv'
    OBVIOUS
<1>0. /\ TypeOK /\ DownloadsAreHeld /\ PicturesTraced /\ DownloadsTraced
      /\ \A t \in Threads : Kept(t) /\ Hands(t) /\ Pulls(t) /\ Reports(t) /\ Traces(t)
    BY InvIs DEF Kept
<1>1. ASSUME NEW t \in Threads, StepOf(t)
      PROVE  IInv'
    <2>0. Hands(t) /\ Pulls(t) /\ Reports(t) /\ Traces(t) /\ Kept(t)
        BY <1>0
    <2>1. TypeOK'
        BY <1>0, <1>1, <2>0, TypesRequest, TypesSnap, TypesWorker, TypesLook DEF StepOf
    <2>2. Kept(t)'
        BY <1>0, <1>1, <2>0, KeptByRequest, KeptBySnap, KeptByWorker, KeptByLook DEF StepOf
    <2>3. \A u \in Threads \ {t} : Kept(u)'
        BY <1>0, <1>1, KeptByOthers
    <2>4. DownloadsAreHeld'
        BY <1>0, <1>1, <2>0, HeldElsewhere, HeldByLook DEF StepOf
    <2>5. Grows(t)
        BY <1>0, <1>1, <2>0, StepGrows
    <2>6. PicturesTraced' /\ DownloadsTraced'
        BY <1>0, <1>1, <2>0, <2>5, PicturesStep, DownloadsStep
    <2>7. Traces(t)'
        BY <1>0, <1>1, <2>0, <2>5, TracesByOwn
    <2>8. \A u \in Threads \ {t} : Traces(u)'
        BY <1>0, <1>1, <2>5, TracesByOthers
    <2>9. \A u \in Threads : Kept(u)' /\ Traces(u)'
        BY <2>2, <2>3, <2>7, <2>8
    <2> QED
        BY <2>1, <2>4, <2>6, <2>9 DEF IInv, Kept, ReportsAreFinal
<1>2. ASSUME Tick \/ UNCHANGED vars
      PROVE  IInv'
    <2>1. UNCHANGED <<crashed, fileVars, kind, pc, lookVars, result, report, snapVars, historyVars>>
        BY <1>2 DEF Tick, vars
    <2>2. TypeOK'
        <3>1. now' \in Times
            BY <1>0, <1>2, Constants DEF Tick, vars, TypeOK, Times
        <3> QED
            BY <1>0, <2>1, <3>1 DEF TypeOK, Results, fileVars, lookVars, snapVars, historyVars
    <2>3. \A t \in Threads : Kept(t)'
        BY <1>0, <2>1 DEF Kept, Hands, Pulls, Reports, ReportIsFinal, HasDownload,
                          fileVars, lookVars, snapVars, historyVars
    <2>4. DownloadsAreHeld'
        BY <1>0, <2>1 DEF DownloadsAreHeld, HasDownload, Name, fileVars, lookVars
    <2>5. PicturesTraced' /\ DownloadsTraced'
        BY <1>0, <2>1 DEF PicturesTraced, DownloadsTraced, Shares, fileVars, historyVars
    <2>6. \A t \in Threads : Traces(t)'
        <3>1. CASE Tick
            BY <1>0, <3>1, TracesByTick
        <3>2. CASE UNCHANGED vars
            BY <1>0, <3>2 DEF vars, Traces, Traced, HasDownload, Name, Shares, Draws, Url, DayOf,
                              fileVars, lookVars, snapVars, historyVars
        <3> QED
            BY <1>2, <3>1, <3>2
    <2> QED
        BY <2>2, <2>3, <2>4, <2>5, <2>6 DEF IInv, Kept, ReportsAreFinal
<1> QED
    BY <1>1, <1>2 DEF Next, ThreadStep, DetachedStep, StepOf

LEMMA OwnPictures == IInv => PicturesAreOwn
<1> SUFFICES ASSUME IInv, NEW t \in Threads, report[t] # None, Alone(t),
                    NEW c \in DOMAIN report[t], report[t][c] # None, report[t][c].day = born[t]
             PROVE  report[t][c] \in DOMAIN static /\ static[report[t][c]] = t
    BY DEF PicturesAreOwn
<1> DEFINE file == report[t][c]
<1>1. <<file.cam, file.ms>> \in names[t] /\ file \in DOMAIN static
    BY DEF IInv, Traces, Traced
<1>2. PICK u \in Threads : <<file.cam, file.ms>> \in names[u] /\ Shares(u, static[file])
    BY <1>1 DEF IInv, PicturesTraced
<1>3. u = t
    BY <1>1, <1>2 DEF Alone
<1>4. static[file] \in Threads
    BY <1>1 DEF IInv, TypeOK
<1> QED
    BY <1>1, <1>2, <1>3, <1>4 DEF Shares, Alone

(* The inductive invariant holds: what each thread has in hand, how a pull *)
(* ends, and who holds the downloads (SnapHandle::startPrediction,         *)
(* PictureHandle::startPrediction).                                        *)
THEOREM InvariantHolds == Spec => []IInv
    BY InvInit, InvStep, PTL DEF Spec

(* Type correctness for any number of requests, cameras and days; the      *)
(* queue of a stream is bounded (CameraPull.cpp:95).                       *)
THEOREM TypesCorrect == Spec => []TypeOK
<1>1. IInv => TypeOK
    BY DEF IInv
<1> QED
    BY <1>1, InvariantHolds, PTL

(* A report without the final finding is one of a stream that could not be *)
(* opened or broke off (SnapHandle.cpp:59-62).                             *)
THEOREM ReportsStayFinal == Spec => []ReportsAreFinal
<1>1. IInv => ReportsAreFinal
    BY DEF IInv
<1> QED
    BY <1>1, InvariantHolds, PTL

(* A picture reported under the day of its request shows that request's    *)
(* frame unless its name is shared (SnapHandle.cpp:86-94,                  *)
(* PictureHandle.cpp:79 and 121).                                          *)
THEOREM PicturesStayOwn == Spec => []PicturesAreOwn
    BY OwnPictures, InvariantHolds, PTL

(* No download is left in temp by a thread that is through with it         *)
(* (PictureHandle.cpp:84, 89 and 125), whoever shares its name.            *)
THEOREM DownloadsStayHeld == Spec => []DownloadsAreHeld
<1>1. IInv => DownloadsAreHeld
    BY DEF IInv
<1> QED
    BY <1>1, InvariantHolds, PTL

----------------------------------------------------------------------------
(* Snapshots implements SnapshotPolicy.                                    *)

(* A camera in hand is one of those to be visited, that of a snapshot the  *)
(* only one, and none is left when the pictures are reported.              *)
InTodo(t) ==
    /\ kind[t] = "snap" => todo[t] = {cam[t]}
    /\ HasDownload(t) => cam[t] \in todo[t]
    /\ kind[t] = "look" /\ pc[t] = "post" => todo[t] = {}

LEMMA TodoByOthers ==
    ASSUME TypeOK, NEW t \in Threads, NEW u \in Threads \ {t}, StepOf(t)
    PROVE  todo'[u] = todo[u]
<1> USE DEF TypeOK, lookVars
<1>1. CASE Request(t)
    BY <1>1 DEF Request, SnapPic, LookPic, Serve
<1>2. CASE SnapStep(t) \/ Post(t)
    BY <1>2 DEF SnapStep, Open, OpenFails, Loop, ReadFrame, ReadOther, ReadFails, Drained,
                EndPrediction, Delete, Post
<1>3. CASE WorkerStep(t)
    BY <1>3 DEF WorkerStep, WorkerRuns, WorkerTakes, WorkerEnds, WorkerFindsNone, WorkerFinds,
                WorkerAnswers, WorkerStops, WorkerLeaves, WorkerStrays
<1>4. CASE LookStep(t)
    BY <1>4 DEF LookStep, Pick, PickNone, DownloadEnds, DownloadFails, Finds, FindsNone, Write,
                Answer, Remove
<1> QED
    BY <1>1, <1>2, <1>3, <1>4 DEF StepOf

LEMMA TodoByOwn ==
    ASSUME TypeOK, NEW t \in Threads, Hands(t), InTodo(t), StepOf(t)
    PROVE  InTodo(t)'
<1> USE DEF TypeOK, lookVars, InTodo, HasDownload
<1>1. CASE Request(t)
    <2>1. ASSUME NEW c \in Cams, SnapPic(t, c)
          PROVE  InTodo(t)'
        BY <2>1 DEF SnapPic, Serve, Goes
    <2>2. ASSUME NEW cs \in SUBSET Cams, LookPic(t, cs)
          PROVE  InTodo(t)'
        BY <2>2 DEF LookPic, Serve, Goes
    <2> QED
        BY <1>1, <2>1, <2>2 DEF Request
<1>2. CASE SnapStep(t) \/ Post(t)
    BY <1>2 DEF SnapStep, Goes, Open, OpenFails, Loop, ReadFrame, ReadOther, ReadFails, Drained,
                EndPrediction, Delete, Post, Hands, Pulling
<1>3. CASE WorkerStep(t)
    BY <1>3 DEF WorkerStep, WorkerRuns, WorkerTakes, WorkerEnds, WorkerFindsNone, WorkerFinds,
                WorkerAnswers, WorkerStops, WorkerLeaves, WorkerStrays
<1>4. CASE LookStep(t)
    <2>1. kind[t] = "look" /\ kind' = kind
        BY <1>4 DEF LookStep, Goes, Hands, Looking, Pick, PickNone, DownloadEnds, DownloadFails,
                    Finds, FindsNone, Write, Answer, Remove
    <2> QED
        BY <1>4, <2>1 DEF LookStep, Goes, Pick, PickNone, DownloadEnds, DownloadFails, Finds,
                    FindsNone, Write, Answer, Remove
<1> QED
    BY <1>1, <1>2, <1>3, <1>4 DEF StepOf

InTodos == \A t \in Threads : InTodo(t)

LEMMA TodosKept == IInv /\ InTodos /\ [Next]_vars => InTodos'
<1> SUFFICES ASSUME IInv, InTodos, [Next]_vars
             PROVE  InTodos'
    OBVIOUS
<1>1. ASSUME NEW t \in Threads, StepOf(t)
      PROVE  InTodos'
    <2>1. InTodo(t)'
        BY <1>1, TodoByOwn DEF IInv, InTodos
    <2>2. ASSUME NEW u \in Threads \ {t}
          PROVE  InTodo(u)'
        BY <1>1, OthersKeep, TodoByOthers DEF IInv, InTodos, InTodo, HasDownload
    <2> QED
        BY <2>1, <2>2 DEF InTodos
<1>2. CASE Tick \/ UNCHANGED vars
    BY <1>2 DEF Tick, vars, lookVars, InTodos, InTodo, HasDownload
<1> QED
    BY <1>1, <1>2 DEF Next, ThreadStep, DetachedStep, StepOf

(* What the policy sees of a thread.                                       *)
SameView(t) ==
    /\ kind'[t] # "none" <=> kind[t] # "none"
    /\ ToLookAt(t)' = ToLookAt(t)
    /\ Shown(result[t])' = Shown(result[t])
    /\ Answered(t)' = Answered(t)
    /\ over'[t] = over[t]

Apart(t) == \A u \in Threads \ {t} : SameView(u)

LEMMA ViewsApart ==
    ASSUME TypeOK, NEW t \in Threads, StepOf(t)
    PROVE  Apart(t)
<1>1. SUFFICES ASSUME NEW u \in Threads \ {t}
               PROVE  SameView(u)
    BY DEF Apart
<1>2. /\ <<kind[u], pc[u], worker[u], cam[u], todo[u]>>'
           = <<kind[u], pc[u], worker[u], cam[u], todo[u]>>
      /\ result'[u] = result[u] /\ report'[u] = report[u] /\ over'[u] = over[u]
    BY OthersKeep, TodoByOthers
<1> QED
    BY <1>2 DEF SameView, ToLookAt, Answered, Shown

(* A step of a thread that the policy does not see, or sees as one of its  *)
(* own.                                                                    *)
LEMMA Unseen ==
    ASSUME TypeOK, TypeOK', NEW t \in Threads, Apart(t), SameView(t)
    PROVE  UNCHANGED Policy!vars
<1>1. \A u \in Threads : SameView(u)
    BY DEF Apart
<1>2. [u \in Threads |-> kind'[u] # "none"] = [u \in Threads |-> kind[u] # "none"]
    BY <1>1 DEF SameView
<1>3. [u \in Threads |-> ToLookAt(u)]' = [u \in Threads |-> ToLookAt(u)]
    BY <1>1 DEF SameView
<1>4. [u \in Threads |-> Shown(result[u])]' = [u \in Threads |-> Shown(result[u])]
    BY <1>1 DEF SameView
<1>5. [u \in Threads |-> Answered(u)]' = [u \in Threads |-> Answered(u)]
    BY <1>1 DEF SameView
<1>6. over' = over
    BY <1>1 DEF SameView, TypeOK
<1> QED
    BY <1>2, <1>3, <1>4, <1>5, <1>6 DEF Policy!vars

LEMMA Asks ==
    ASSUME TypeOK, TypeOK', NEW t \in Threads, Apart(t), NEW cs \in SUBSET Cams,
           kind[t] = "none", kind'[t] # "none", ToLookAt(t)' = cs,
           Shown(result[t])' = Shown(result[t]), Answered(t)' = Answered(t), over'[t] = over[t]
    PROVE  Policy!Next
<1>2. [u \in Threads |-> kind'[u] # "none"] = [[u \in Threads |-> kind[u] # "none"] EXCEPT ![t] = TRUE]
    BY DEF SameView, Apart
<1>3. [u \in Threads |-> ToLookAt(u)]' = [[u \in Threads |-> ToLookAt(u)] EXCEPT ![t] = cs]
    BY DEF SameView, Apart
<1>4. [u \in Threads |-> Shown(result[u])]' = [u \in Threads |-> Shown(result[u])]
    BY DEF SameView, Apart
<1>5. [u \in Threads |-> Answered(u)]' = [u \in Threads |-> Answered(u)]
    BY DEF SameView, Apart
<1>6. over' = over
    BY DEF SameView, Apart, TypeOK
<1>7. Policy!Ask(t, cs)
    BY <1>2, <1>3, <1>4, <1>5, <1>6 DEF Policy!Ask
<1> QED
    BY <1>7 DEF Policy!Next

LEMMA Breaks ==
    ASSUME TypeOK, TypeOK', NEW t \in Threads, Apart(t), kind[t] # "none", kind'[t] = kind[t],
           Answered(t) = None, ToLookAt(t)' = ToLookAt(t), Shown(result[t])' = Shown(result[t]),
           Answered(t)' = Answered(t), over'[t] = TRUE
    PROVE  Policy!Next
<1>2. [u \in Threads |-> kind'[u] # "none"] = [u \in Threads |-> kind[u] # "none"]
    BY DEF SameView, Apart
<1>3. [u \in Threads |-> ToLookAt(u)]' = [u \in Threads |-> ToLookAt(u)]
    BY DEF SameView, Apart
<1>4. [u \in Threads |-> Shown(result[u])]' = [u \in Threads |-> Shown(result[u])]
    BY DEF SameView, Apart
<1>5. [u \in Threads |-> Answered(u)]' = [u \in Threads |-> Answered(u)]
    BY DEF SameView, Apart
<1>6. over' = [over EXCEPT ![t] = TRUE]
    BY DEF SameView, Apart, TypeOK
<1>7. Policy!BreakOff(t)
    BY <1>2, <1>3, <1>4, <1>5, <1>6 DEF Policy!BreakOff
<1> QED
    BY <1>7 DEF Policy!Next

LEMMA Answers ==
    ASSUME TypeOK, TypeOK', NEW t \in Threads, Apart(t), kind[t] # "none", kind'[t] = kind[t],
           Answered(t) = None, ToLookAt(t) = {} \/ over[t], ToLookAt(t)' = ToLookAt(t),
           Shown(result[t])' = Shown(result[t]), Answered(t)' = Shown(result[t]),
           over'[t] = over[t]
    PROVE  Policy!Next
<1>2. [u \in Threads |-> kind'[u] # "none"] = [u \in Threads |-> kind[u] # "none"]
    BY DEF SameView, Apart
<1>3. [u \in Threads |-> ToLookAt(u)]' = [u \in Threads |-> ToLookAt(u)]
    BY DEF SameView, Apart
<1>4. [u \in Threads |-> Shown(result[u])]' = [u \in Threads |-> Shown(result[u])]
    BY DEF SameView, Apart
<1>5. [u \in Threads |-> Answered(u)]'
        = [[u \in Threads |-> Answered(u)] EXCEPT ![t] = Shown(result[t])]
    BY DEF SameView, Apart
<1>6. over' = over
    BY DEF SameView, Apart, TypeOK
<1>7. Policy!Answer(t)
    BY <1>2, <1>3, <1>4, <1>5, <1>6 DEF Policy!Answer
<1> QED
    BY <1>7 DEF Policy!Next

LEMMA Looks ==
    ASSUME TypeOK, TypeOK', NEW t \in Threads, Apart(t), NEW c \in Cams, c \in ToLookAt(t),
           kind'[t] = kind[t], ToLookAt(t)' = ToLookAt(t) \ {c},
           Answered(t) = None \/ over[t],
           Answered(t)' = Answered(t), over'[t] = over[t],
           \/ Shown(result[t])' = Shown(result[t])
           \/ \E p \in Files : p.cam = c /\ Shown(result[t])' = [Shown(result[t]) EXCEPT ![c] = p]
    PROVE  Policy!Next
<1> DEFINE found == [u \in Threads |-> Shown(result[u])]
<1>2. [u \in Threads |-> kind'[u] # "none"] = [u \in Threads |-> kind[u] # "none"]
    BY DEF SameView, Apart
<1>3. [u \in Threads |-> ToLookAt(u)]'
        = [[u \in Threads |-> ToLookAt(u)] EXCEPT ![t] = ToLookAt(t) \ {c}]
    BY DEF SameView, Apart
<1>4. found' = found \/ \E p \in Files : p.cam = c /\ found' = [found EXCEPT ![t][c] = p]
    <2>1. CASE Shown(result[t])' = Shown(result[t])
        BY <2>1 DEF SameView, Apart
    <2>2. ASSUME NEW p \in Files, p.cam = c,
                 Shown(result[t])' = [Shown(result[t]) EXCEPT ![c] = p]
          PROVE  found' = [found EXCEPT ![t][c] = p]
        <3>1. found' = [found EXCEPT ![t] = [Shown(result[t]) EXCEPT ![c] = p]]
            BY <2>2 DEF SameView, Apart
        <3> QED
            BY <3>1
    <2> QED
        BY <2>1, <2>2
<1>5. [u \in Threads |-> Answered(u)]' = [u \in Threads |-> Answered(u)]
    BY DEF SameView, Apart
<1>6. over' = over
    BY DEF SameView, Apart, TypeOK
<1>7. /\ c \in [u \in Threads |-> ToLookAt(u)][t]
      /\ [u \in Threads |-> Answered(u)][t] = None \/ over[t]
    OBVIOUS
<1>8. Policy!Look(t, c)
    BY <1>2, <1>3, <1>4, <1>5, <1>6, <1>7 DEF Policy!Look
<1> QED
    BY <1>8 DEF Policy!Next

(* A result is one about the camera in hand.                               *)
LEMMA ShownPut ==
    ASSUME TypeOK, NEW t \in Threads, cam[t] \in Cams, named[t] \in Times,
           result' = [result EXCEPT ![t] = Put(@, cam[t], Url(t))]
    PROVE  \E p \in Files :
              p.cam = cam[t] /\ Shown(result[t])' = [Shown(result[t]) EXCEPT ![cam[t]] = p]
<1>1. Url(t) \in Files /\ Url(t).cam = cam[t]
    BY Constants DEF Url, Files, TypeOK
<1>2. result'[t] = Put(result[t], cam[t], Url(t))
    BY DEF TypeOK
<1>3. Shown(result[t])' = [Shown(result[t]) EXCEPT ![cam[t]] = Url(t)]
    BY <1>2 DEF Shown, Put
<1> QED
    BY <1>1, <1>3

(* Each step of a thread, seen through the policy.                         *)
LEMMA PolicyByRequest ==
    ASSUME TypeOK, TypeOK', NEW t \in Threads, Hands(t), Reports(t), Request(t)
    PROVE  Policy!Next
<1>0. Apart(t) /\ DOMAIN result[t] = {}
    BY ViewsApart DEF StepOf, Request, SnapPic, LookPic, Serve, Hands
<1>1. ASSUME NEW c \in Cams, SnapPic(t, c)
      PROVE  Policy!Next
    <2>1. /\ kind[t] = "none" /\ kind'[t] = "snap" /\ todo'[t] = {c} /\ worker'[t] = "test"
          /\ pc[t] = "none" /\ pc'[t] = "open" /\ over' = over /\ result'[t] = [x \in {c} |-> None]
        BY <1>1 DEF SnapPic, Serve, Goes, TypeOK
    <2>2. ToLookAt(t)' = {c} /\ Answered(t)' = Answered(t)
        BY <2>1 DEF ToLookAt, Answered
    <2>3. Shown(result[t])' = Shown(result[t])
        BY <1>0, <2>1 DEF Shown
    <2> QED
        BY <1>0, <2>1, <2>2, <2>3, Asks
<1>2. ASSUME NEW cs \in SUBSET Cams, LookPic(t, cs)
      PROVE  Policy!Next
    <2>1. /\ kind[t] = "none" /\ kind'[t] = "look" /\ todo'[t] = cs
          /\ pc[t] = "none" /\ pc'[t] = "pick" /\ over' = over /\ result' = result
        BY <1>2 DEF LookPic, Serve, Goes, TypeOK, snapVars
    <2>2. ToLookAt(t)' = cs /\ Answered(t)' = Answered(t)
        BY <2>1 DEF ToLookAt, Answered
    <2> QED
        BY <1>0, <2>1, <2>2, Asks
<1> QED
    BY <1>1, <1>2 DEF Request

LEMMA PolicyBySnap ==
    ASSUME TypeOK, TypeOK', NEW t \in Threads, Hands(t), Pulls(t), InTodo(t),
           SnapStep(t) \/ Post(t)
    PROVE  [Policy!Next]_(Policy!vars)
<1>0. Apart(t)
    BY ViewsApart DEF StepOf
<1> USE DEF TypeOK, lookVars, snapVars, Goes
<1>1. CASE OpenFails(t) \/ ReadFails(t)
    <2>1. /\ kind[t] = "snap" /\ kind' = kind /\ todo' = todo /\ worker' = worker
          /\ pc[t] \in {"open", "read"} /\ pc'[t] \in {"closed", "drain"}
          /\ result' = result /\ over'[t] = TRUE
        BY <1>1 DEF OpenFails, ReadFails, Hands, Pulling
    <2>2. ToLookAt(t)' = ToLookAt(t)
        BY <2>1 DEF ToLookAt
    <2>3. Answered(t) = None /\ Answered(t)' = None
        BY <2>1 DEF Answered
    <2> QED
        BY <1>0, <2>1, <2>2, <2>3, Breaks
<1>2. CASE SnapStep(t) /\ ~OpenFails(t) /\ ~ReadFails(t)
    <2>1. /\ kind[t] = "snap" /\ kind' = kind /\ todo' = todo /\ worker' = worker
          /\ pc[t] \in {"wait", "done"} <=> pc'[t] \in {"wait", "done"}
          /\ result' = result /\ report' = report /\ over' = over
        BY <1>2 DEF SnapStep, Open, Loop, ReadFrame, ReadOther, Drained, EndPrediction, Delete,
                    Hands, Pulling
    <2>2. SameView(t)
        BY <2>1 DEF SameView, ToLookAt, Answered, Shown
    <2> QED
        BY <1>0, <2>2, Unseen
<1>3. CASE Post(t)
    <2>1. /\ pc[t] = "post" /\ pc'[t] \in {"wait", "done"} /\ kind' = kind /\ todo' = todo
          /\ worker' = worker /\ cam' = cam /\ result' = result /\ over' = over
          /\ report'[t] = result[t]
        BY <1>3 DEF Post
    <2>2. kind[t] \in {"snap", "look"}
        BY <2>1 DEF Hands, Kinds
    <2>3. ToLookAt(t)' = ToLookAt(t)
        BY <2>1 DEF ToLookAt
    <2>4. ToLookAt(t) = {} \/ over[t]
        BY <2>1, <2>2 DEF ToLookAt, InTodo, Pulls
    <2>5. Answered(t) = None /\ Answered(t)' = Shown(result[t])
        BY <2>1 DEF Answered, Shown
    <2>6. Shown(result[t])' = Shown(result[t])
        BY <2>1 DEF Shown
    <2> QED
        BY <1>0, <2>1, <2>2, <2>3, <2>4, <2>5, <2>6, Answers
<1> QED
    BY <1>1, <1>2, <1>3

LEMMA PolicyByWorker ==
    ASSUME TypeOK, TypeOK', NEW t \in Threads, Hands(t), Pulls(t), InTodo(t), WorkerStep(t)
    PROVE  [Policy!Next]_(Policy!vars)
<1>0. Apart(t)
    BY ViewsApart DEF StepOf
<1>1. /\ kind[t] = "snap" /\ kind' = kind /\ pc' = pc /\ todo' = todo
      /\ report' = report /\ over' = over /\ cam[t] \in Cams /\ todo[t] = {cam[t]}
    BY DEF WorkerStep, WorkerRuns, WorkerGoes, WorkerTakes, WorkerEnds, WorkerFindsNone,
           WorkerFinds, WorkerAnswers, WorkerStops, WorkerLeaves, WorkerStrays, Hands, InTodo,
           lookVars, TypeOK
<1>2. Answered(t)' = Answered(t)
    BY <1>1 DEF Answered
<1> DEFINE through == {"stop", "leaving", "end"}
<1>3. /\ ToLookAt(t) = IF worker[t] \in through THEN {} ELSE {cam[t]}
      /\ ToLookAt(t)' = IF worker'[t] \in through THEN {} ELSE {cam[t]}
    BY <1>1 DEF ToLookAt
<1>4. ToLookAt(t) # {} => Answered(t) = None \/ over[t]
    BY <1>1, <1>3 DEF Answered, Pulls
<1>5. CASE WorkerAnswers(t)
    <2>1. worker[t] = "url" /\ worker'[t] = "stop"
        BY <1>5 DEF WorkerAnswers, WorkerGoes, TypeOK
    <2>2. \E p \in Files :
              p.cam = cam[t] /\ Shown(result[t])' = [Shown(result[t]) EXCEPT ![cam[t]] = p]
        BY <1>1, <1>5, <2>1, ShownPut DEF WorkerAnswers, Hands
    <2>3. cam[t] \in ToLookAt(t) /\ ToLookAt(t)' = ToLookAt(t) \ {cam[t]}
        BY <1>3, <2>1
    <2> QED
        BY <1>0, <1>1, <1>2, <1>4, <2>2, <2>3, Looks
<1>6. CASE ~WorkerAnswers(t)
    <2>1. /\ result' = result
          /\ worker[t] \in through => worker'[t] \in through
        BY <1>6 DEF WorkerStep, WorkerRuns, WorkerGoes, WorkerTakes, WorkerEnds, WorkerFindsNone,
           WorkerFinds, WorkerStops, WorkerLeaves, WorkerStrays, TypeOK
    <2>2. Shown(result[t])' = Shown(result[t])
        BY <2>1 DEF Shown
    <2>3. CASE ToLookAt(t)' = ToLookAt(t)
        BY <1>0, <1>1, <1>2, <2>2, <2>3, Unseen DEF SameView
    <2>4. CASE cam[t] \in ToLookAt(t) /\ ToLookAt(t)' = ToLookAt(t) \ {cam[t]}
        BY <1>0, <1>1, <1>2, <1>4, <2>2, <2>4, Looks
    <2> QED
        BY <1>3, <2>1, <2>3, <2>4
<1> QED
    BY <1>5, <1>6

LEMMA PolicyByLook ==
    ASSUME TypeOK, TypeOK', NEW t \in Threads, Hands(t), InTodo(t), LookStep(t)
    PROVE  [Policy!Next]_(Policy!vars)
<1>0. Apart(t)
    BY ViewsApart DEF StepOf
<1>1. /\ kind[t] = "look" /\ kind' = kind /\ report' = report /\ over' = over
      /\ pc[t] \in Looking /\ pc'[t] \in Looking \union {"post"}
    BY DEF LookStep, Goes, Pick, PickNone, DownloadEnds, DownloadFails, Finds, FindsNone, Write,
           Answer, Remove, Hands, Looking, snapVars, TypeOK
<1>2. Answered(t)' = Answered(t)
    BY <1>1 DEF Answered, Looking
<1>3. Answered(t) = None
    BY <1>1 DEF Answered, Looking
<1>4. CASE Pick(t) \/ PickNone(t) \/ DownloadEnds(t) \/ Finds(t) \/ Write(t) \/ Remove(t)
    <2>1. /\ result' = result
          /\ \/ pc[t] # "remove" /\ pc'[t] # "remove" /\ todo' = todo
             \/ pc[t] = "remove" /\ pc'[t] = "pick" /\ todo'[t] = todo[t] \ {cam[t]}
        BY <1>4 DEF Goes, Pick, PickNone, DownloadEnds, Finds, Write, Remove, lookVars, TypeOK
    <2>2. ToLookAt(t)' = ToLookAt(t)
        BY <1>1, <2>1 DEF ToLookAt
    <2>3. Shown(result[t])' = Shown(result[t])
        BY <2>1 DEF Shown
    <2> QED
        BY <1>0, <1>1, <1>2, <2>2, <2>3, Unseen DEF SameView
<1>5. CASE DownloadFails(t) \/ FindsNone(t) \/ Answer(t)
    <2>1. /\ pc[t] \in {"get", "imread", "url"} /\ pc'[t] = "remove" /\ todo' = todo /\ cam' = cam
          /\ HasDownload(t)
        BY <1>5 DEF Goes, DownloadFails, FindsNone, Answer, lookVars, HasDownload, TypeOK
    <2>2. cam[t] \in todo[t] /\ cam[t] \in Cams
        BY <2>1 DEF InTodo, Hands
    <2>3. cam[t] \in ToLookAt(t) /\ ToLookAt(t)' = ToLookAt(t) \ {cam[t]}
        BY <1>1, <2>1, <2>2 DEF ToLookAt
    <2>4. CASE Answer(t)
        <3>1. \E p \in Files :
                  p.cam = cam[t] /\ Shown(result[t])' = [Shown(result[t]) EXCEPT ![cam[t]] = p]
            BY <2>2, <2>4, ShownPut DEF Answer, Goes, Hands
        <3> QED
            BY <1>0, <1>1, <1>2, <1>3, <2>2, <2>3, <3>1, Looks
    <2>5. CASE DownloadFails(t) \/ FindsNone(t)
        <3>1. Shown(result[t])' = Shown(result[t])
            BY <2>5 DEF DownloadFails, FindsNone, Shown
        <3> QED
            BY <1>0, <1>1, <1>2, <1>3, <2>2, <2>3, <3>1, Looks
    <2> QED
        BY <1>5, <2>4, <2>5
<1> QED
    BY <1>4, <1>5 DEF LookStep

LEMMA PolicyInit == Init => Policy!Init
<1> SUFFICES ASSUME Init
             PROVE  Policy!Init
    OBVIOUS
<1>1. \A t \in Threads : ToLookAt(t) = {} /\ Answered(t) = None
    BY DEF Init, ToLookAt, Answered
<1>2. \A t \in Threads : Shown(result[t]) = [c \in Cams |-> None]
    BY DEF Init, Shown
<1>3. [t \in Threads |-> kind[t] # "none"] = [t \in Threads |-> FALSE]
    BY DEF Init
<1> QED
    BY <1>1, <1>2, <1>3 DEF Init, Policy!Init, Policy!Nothing

LEMMA PolicyStep == IInv /\ IInv' /\ InTodos /\ [Next]_vars => [Policy!Next]_(Policy!vars)
<1> SUFFICES ASSUME IInv, IInv', InTodos, [Next]_vars
             PROVE  [Policy!Next]_(Policy!vars)
    OBVIOUS
<1>0. /\ TypeOK /\ TypeOK'
      /\ \A t \in Threads : Hands(t) /\ Pulls(t) /\ Reports(t) /\ InTodo(t)
    BY DEF IInv, InTodos
<1>1. ASSUME NEW t \in Threads, Request(t) \/ ThreadStep(t) \/ DetachedStep(t)
      PROVE  [Policy!Next]_(Policy!vars)
    BY <1>0, <1>1, PolicyByRequest, PolicyBySnap, PolicyByWorker, PolicyByLook
    DEF ThreadStep, DetachedStep
<1>2. CASE Tick \/ UNCHANGED vars
    <2>1. UNCHANGED <<kind, todo, pc, cam, worker, result, report, over>>
        BY <1>2 DEF Tick, vars, lookVars, snapVars
    <2> QED
        BY <2>1 DEF Policy!vars, ToLookAt, Answered, Shown
<1> QED
    BY <1>1, <1>2 DEF Next

(* Requests are answered as SnapshotPolicy promises: once, when every      *)
(* camera was looked at or the stream broke off (SnapHandle.cpp:59-62,     *)
(* PictureHandle.cpp:76-128), for any number of requests and cameras.      *)
THEOREM RequestsImplementPolicy == Spec => RequestsFollowPolicy
<1>1. Init => InTodos
    BY DEF Init, InTodos, InTodo, HasDownload
<1> QED
    BY <1>1, PolicyInit, TodosKept, PolicyStep, InvariantHolds, PTL
    DEF Spec, RequestsFollowPolicy, Policy!Spec

----------------------------------------------------------------------------
(* Requests are answered.                                                  *)

Settled(t) == report[t] # None \/ Hung(t) \/ crashed

(* A thread that is through has reported; a pull is over when its stream   *)
(* is, and its flag is down once its worker leaves.                        *)
Answering(t) ==
    /\ pc[t] \in {"wait", "done"} => report[t] # None
    /\ over[t] => kind[t] = "snap" /\ pc[t] \in {"drain", "closed", "post", "wait", "done"}
    /\ worker[t] \in {"leaving", "end"} \/ ~predictionFlag[t] => ~pullFlag[t]
    /\ kind[t] # "snap" \/ pc[t] \in {"post", "wait", "done"} => ~pullFlag[t]
    /\ kind[t] = "snap" => worker[t] # "none"

LEMMA AnsweringByOwn ==
    ASSUME TypeOK, NEW t \in Threads, Kept(t), Answering(t), StepOf(t)
    PROVE  Answering(t)'
<1> USE DEF TypeOK, fileVars, lookVars, snapVars, historyVars, Kept, Hands, Pulls, Answering,
            Pulling, Looking
<1>1. CASE Request(t)
    <2>1. ASSUME NEW c \in Cams, SnapPic(t, c)
          PROVE  Answering(t)'
        BY <2>1 DEF SnapPic, Serve, Goes
    <2>2. ASSUME NEW cs \in SUBSET Cams, LookPic(t, cs)
          PROVE  Answering(t)'
        BY <2>2 DEF LookPic, Serve, Goes
    <2> QED
        BY <1>1, <2>1, <2>2 DEF Request
<1>2. CASE SnapStep(t)
    BY <1>2 DEF SnapStep, Goes, Open, OpenFails, Loop, ReadFrame, ReadOther, ReadFails, Drained,
                EndPrediction, Delete
<1>3. CASE Post(t)
    <2>1. result[t] # None
        BY ContentsAssumption DEF Results, Contents
    <2> QED
        BY <1>3, <2>1 DEF Post, Goes
<1>4. CASE WorkerStep(t)
    <2>1. CASE WorkerRuns(t)
        BY <2>1 DEF WorkerRuns, WorkerGoes, WorkerTakes, WorkerEnds, WorkerFindsNone, WorkerFinds,
                    WorkerAnswers, WorkerStops, WorkerLeaves, WriteImg
    <2>2. CASE WorkerStrays(t)
        BY <2>2 DEF WorkerStrays, Deleted
    <2> QED
        BY <1>4, <2>1, <2>2 DEF WorkerStep
<1>5. CASE LookStep(t)
    BY <1>5 DEF LookStep, Goes, Pick, PickNone, DownloadEnds, DownloadFails, Finds, FindsNone,
                Write, Answer, Remove, WriteImg
<1> QED
    BY <1>1, <1>2, <1>3, <1>4, <1>5 DEF StepOf

Answerings == \A t \in Threads : Answering(t)

LEMMA AnsweringKept == IInv /\ Answerings /\ [Next]_vars => Answerings'
<1> SUFFICES ASSUME IInv, Answerings, [Next]_vars
             PROVE  Answerings'
    OBVIOUS
<1>0. TypeOK /\ \A t \in Threads : Kept(t)
    BY InvIs
<1>1. ASSUME NEW t \in Threads, StepOf(t)
      PROVE  Answerings'
    <2>1. Answering(t)'
        BY <1>0, <1>1, AnsweringByOwn DEF Answerings
    <2>2. ASSUME NEW u \in Threads \ {t}
          PROVE  Answering(u)'
        BY <1>0, <1>1, OthersKeep DEF Answerings, Answering
    <2> QED
        BY <2>1, <2>2 DEF Answerings
<1>2. CASE Tick \/ UNCHANGED vars
    BY <1>2 DEF Tick, vars, snapVars, Answerings, Answering
<1> QED
    BY <1>1, <1>2 DEF Next, ThreadStep, DetachedStep, StepOf

LEMMA AnsweringsHold == Spec => []Answerings
<1>1. Init => Answerings
    BY DEF Init, Answerings, Answering
<1> QED
    BY <1>1, AnsweringKept, InvariantHolds, PTL DEF Spec

At(t, p) == pc[t] = p
Works(t, p) == worker[t] = p
Gone(t) == Works(t, "leaving") \/ Works(t, "end")
Empty(t) == queue[t] = 0

(* Who moves a thread that serves a request.                               *)
LEMMA Movers ==
    ASSUME IInv, NEW t \in Threads, kind[t] # "none", [Next]_vars
    PROVE  \/ ThreadStep(t) \/ DetachedStep(t)
           \/ UNCHANGED <<kind[t], pc[t], worker[t], queue[t], over[t], report[t], todo[t]>>
<1>1. ASSUME NEW u \in Threads \ {t}, StepOf(u)
      PROVE  UNCHANGED <<kind[t], pc[t], worker[t], queue[t], over[t], report[t], todo[t]>>
    BY <1>1, OthersKeep, TodoByOthers DEF IInv
<1>2. CASE Tick \/ UNCHANGED vars
    BY <1>2 DEF Tick, vars, lookVars, snapVars
<1>3. ~Request(t)
    BY DEF Request, SnapPic, LookPic, Serve
<1> QED
    BY <1>1, <1>2, <1>3 DEF Next, ThreadStep, DetachedStep, StepOf

(* Where a step of the thread of a snapshot leads.                         *)
LEMMA PullMoves ==
    ASSUME IInv, Answerings, NEW t \in Threads, kind[t] = "snap", ~Settled(t), ThreadStep(t)
    PROVE  /\ kind'[t] = "snap" /\ worker'[t] = worker[t] /\ (over[t] => over'[t])
           /\ At(t, "open") => (At(t, "loop") \/ At(t, "closed"))'
           /\ At(t, "loop") => (At(t, "read") \/ At(t, "closed"))'
           /\ At(t, "loop") /\ Gone(t) => At(t, "closed")'
           /\ At(t, "read") => (At(t, "loop") \/ At(t, "drain"))'
           /\ At(t, "drain") => Empty(t) /\ At(t, "closed")'
           /\ At(t, "closed") => At(t, "post")'
           /\ At(t, "post") => Settled(t)'
<1>1. TypeOK /\ Hands(t) /\ Answering(t) /\ Answering(t)'
    BY AnsweringKept DEF IInv, Answerings, Next
<1>2. SnapStep(t) \/ Post(t)
    BY <1>1 DEF ThreadStep, LookStep, Pick, PickNone, DownloadEnds, DownloadFails, Finds, FindsNone,
                Write, Answer, Remove, Goes, Hands, Looking
<1>3. CASE Post(t)
    BY <1>1, <1>3 DEF Post, Goes, At, Settled, Answering, TypeOK, snapVars
<1>4. CASE SnapStep(t)
    BY <1>1, <1>4 DEF SnapStep, Open, OpenFails, Loop, ReadFrame, ReadOther, ReadFails, Drained,
                EndPrediction, Delete, Goes, At, Gone, Works, Empty, Settled, Answering, TypeOK, snapVars
<1> QED
    BY <1>2, <1>3, <1>4

(* ... and a step of its worker.                                           *)
LEMMA WorkMoves ==
    ASSUME IInv, Answerings, NEW t \in Threads, kind[t] = "snap", ~Settled(t), DetachedStep(t)
    PROVE  /\ UNCHANGED <<kind[t], pc[t], over[t]>>
           /\ Works(t, "test") /\ At(t, "drain") => Works(t, "handle")'
           /\ Works(t, "handle") => (Works(t, "url") \/ Works(t, "stop"))'
           /\ Works(t, "url") => Works(t, "stop")'
           /\ Works(t, "stop") => Gone(t)'
           /\ Gone(t) => Gone(t)'
           /\ Works(t, "test") \/ Empty(t)' = Empty(t)
<1>1. TypeOK /\ Answering(t) /\ Pulls(t)
    BY DEF IInv, Answerings
<1>2. ~Deleted(t) /\ WorkerRuns(t)
    BY <1>1 DEF DetachedStep, WorkerStep, WorkerStrays, Deleted, Settled, Answering
<1> USE DEF At, Works, Gone, Empty, TypeOK, WorkerGoes
<1>3. CASE WorkerTakes(t)
    BY <1>1, <1>3 DEF WorkerTakes
<1>4. CASE WorkerEnds(t)
    BY <1>1, <1>4 DEF WorkerEnds, Pulls, Pulling
<1>5. CASE WorkerFindsNone(t) \/ WorkerStops(t) \/ WorkerLeaves(t)
    BY <1>1, <1>5 DEF WorkerFindsNone, WorkerStops, WorkerLeaves
<1>6. CASE WorkerFinds(t) \/ WorkerAnswers(t)
    BY <1>1, <1>6 DEF WorkerFinds, WorkerAnswers
<1> QED
    BY <1>2, <1>3, <1>4, <1>5, <1>6 DEF WorkerRuns

(* A snapshot whose worker has a frame, or whose stream is over, settles:  *)
(* the worker goes on to its end, whatever the thread does, and the thread *)
(* then finds the flag down, or has left the pull already.                 *)
LEMMA SnapshotsSettle ==
    ASSUME NEW t \in Threads
    PROVE  FairSpec /\ []ThreadsGoOn => (Works(t, "handle") \/ over[t] ~> Settled(t))
<1> DEFINE Inv == IInv /\ Answerings
           Live == kind[t] = "snap" /\ ~Settled(t)
           Pull == ThreadStep(t)
           Work == DetachedStep(t)
           Over == over[t]
           Drains == At(t, "drain") /\ Empty(t)
           Stuck == At(t, "drain") /\ ~Empty(t) /\ Works(t, "test")
<1>1. FairSpec => Spec /\ Runs(t)
    BY DEF FairSpec
<1>2. Inv /\ (Works(t, "handle") \/ Over) => Live \/ Settled(t)
    BY DEF IInv, Hands, Answerings, Answering, Works
<1>3. Inv /\ Live /\ [Next]_vars =>
        /\ Live' \/ Settled(t)'
        /\ Over => Over'
        /\ Works(t, "handle") => (Works(t, "handle") \/ Works(t, "url") \/ Works(t, "stop"))'
        /\ Works(t, "url") => (Works(t, "url") \/ Works(t, "stop"))'
        /\ Works(t, "stop") => (Works(t, "stop") \/ Gone(t))'
        /\ Gone(t) => Gone(t)'
        /\ Gone(t) /\ At(t, "loop") => (At(t, "loop") \/ At(t, "closed"))'
        /\ At(t, "read") => (At(t, "read") \/ At(t, "loop") \/ At(t, "drain"))'
        /\ Gone(t) /\ Drains => (Drains \/ At(t, "closed"))'
        /\ Works(t, "test") /\ Drains
              => ((Works(t, "test") /\ Drains) \/ At(t, "closed") \/ Works(t, "handle"))'
        /\ Stuck => (Stuck \/ Works(t, "handle"))'
        /\ At(t, "closed") => (At(t, "closed") \/ At(t, "post"))'
        /\ At(t, "post") => (At(t, "post") \/ Settled(t))'
    <2>1. ASSUME Inv, Live, Pull
          PROVE  /\ kind'[t] = "snap" /\ UNCHANGED worker[t] /\ (Over => Over')
                 /\ At(t, "loop") /\ Gone(t) => At(t, "closed")'
                 /\ At(t, "read") => (At(t, "loop") \/ At(t, "drain"))'
                 /\ At(t, "drain") => Empty(t) /\ At(t, "closed")'
                 /\ At(t, "closed") => At(t, "post")'
                 /\ At(t, "post") => Settled(t)'
        BY <2>1, PullMoves
    <2>2. ASSUME Inv, Live, Work
          PROVE  /\ UNCHANGED <<kind[t], pc[t], over[t]>>
                 /\ Works(t, "test") /\ At(t, "drain") => Works(t, "handle")'
                 /\ Works(t, "handle") => (Works(t, "url") \/ Works(t, "stop"))'
                 /\ Works(t, "url") => Works(t, "stop")'
                 /\ Works(t, "stop") => Gone(t)'
                 /\ Gone(t) => Gone(t)'
                 /\ Works(t, "test") \/ Empty(t)' = Empty(t)
        BY <2>2, WorkMoves
    <2>3. ASSUME Inv, Live, [Next]_vars
          PROVE  \/ Pull \/ Work
                 \/ UNCHANGED <<kind[t], pc[t], worker[t], queue[t], over[t], report[t], todo[t]>>
        BY <2>3, Movers
    <2> QED
        BY <2>1, <2>2, <2>3 DEF At, Works, Gone, Empty
<1>4. Inv /\ Live /\ <<Pull>>_vars =>
        /\ Gone(t) /\ At(t, "loop") => At(t, "closed")'
        /\ At(t, "read") => (At(t, "loop") \/ At(t, "drain"))'
        /\ Drains => At(t, "closed")'
        /\ At(t, "closed") => At(t, "post")'
        /\ At(t, "post") => Settled(t)'
    BY PullMoves
<1>5. Inv /\ Live /\ <<Work>>_vars =>
        /\ Works(t, "handle") => (Works(t, "url") \/ Works(t, "stop"))'
        /\ Works(t, "url") => Works(t, "stop")'
        /\ Works(t, "stop") => Gone(t)'
        /\ Stuck => Works(t, "handle")'
    BY WorkMoves
<1>6. Inv /\ Live /\ Gone(t) =>
        /\ At(t, "loop") \/ At(t, "read") \/ Drains \/ At(t, "closed") \/ At(t, "post")
        /\ At(t, "drain") => Drains
    BY DEF IInv, TypeOK, Hands, Pulls, Pulling, Looking, Pcs, Answerings, Answering, Settled, Hung,
           At, Gone, Works, Empty
<1>7. Inv /\ Live /\ Over =>
        \/ At(t, "closed") \/ At(t, "post") \/ Stuck \/ Gone(t)
        \/ Works(t, "test") /\ Drains
        \/ Works(t, "handle") \/ Works(t, "url") \/ Works(t, "stop")
    BY DEF IInv, TypeOK, Answerings, Answering, Settled, At, Gone, Works, Empty
<1>8. ThreadsGoOn /\ Inv /\ Live =>
        /\ At(t, "loop") \/ At(t, "read") \/ Drains \/ At(t, "closed") \/ At(t, "post")
              => ENABLED <<Pull>>_vars
        /\ Works(t, "handle") \/ Works(t, "url") \/ Works(t, "stop") \/ Stuck
              => ENABLED <<Work>>_vars
    <2>1. Inv /\ Live => ~crashed /\ ~Deleted(t) /\ (~Empty(t) => queue[t] > 0)
        BY DEF IInv, TypeOK, Answerings, Answering, Settled, Deleted, Empty
    <2> QED
        BY <2>1 DEF ThreadsGoOn, ThreadIsDue, WorkerIsDue, At, Works, Empty
<1> HIDE DEF Inv, Live, Pull, Work, Over, Drains, Stuck
<1> DEFINE Sound == [][Next]_vars /\ []Inv /\ []ThreadsGoOn /\ WF_vars(Pull) /\ WF_vars(Work)
<1>9. Sound => [](Live /\ (At(t, "closed") \/ At(t, "post")) => <>Settled(t))
    BY <1>3, <1>4, <1>8, PTL
<1>10. Sound => [](Live /\ Gone(t) => <>Settled(t))
    BY <1>3, <1>4, <1>6, <1>8, <1>9, PTL
<1>11. Sound => [](Live /\ (Works(t, "handle") \/ Works(t, "url") \/ Works(t, "stop"))
                    => <>Settled(t))
    BY <1>3, <1>5, <1>8, <1>10, PTL
<1>12. Sound => [](Live /\ (Stuck \/ (Works(t, "test") /\ Drains)) => <>Settled(t))
    BY <1>3, <1>4, <1>5, <1>8, <1>9, <1>11, PTL
<1>13. Sound => [](Live /\ Over => <>Settled(t))
    BY <1>7, <1>9, <1>10, <1>11, <1>12, PTL
<1>14. Spec => []Inv
    BY InvariantHolds, AnsweringsHold, PTL DEF Inv
<1> HIDE DEF Sound
<1> QED
    BY <1>1, <1>2, <1>11, <1>13, <1>14, PTL DEF Spec, Runs, Sound, Pull, Work, Over

(* What a request for pictures has still to go through.                    *)
Left(t) == Cardinality(todo[t])

LEMMA LeftIsFinite ==
    ASSUME TypeOK, NEW t \in Threads
    PROVE  Left(t) \in Nat /\ \A c \in todo[t] : Cardinality(todo[t] \ {c}) = Left(t) - 1
<1>1. IsFiniteSet(todo[t])
    BY CamsAssumption, FS_Subset DEF TypeOK
<1> QED
    BY <1>1, FS_CardinalityType, FS_RemoveElement DEF Left

(* Where a step of such a request leads.                                   *)
LEMMA LookMoves ==
    ASSUME IInv, InTodos, Answerings, NEW t \in Threads, kind[t] = "look", ~Settled(t), ThreadStep(t)
    PROVE  /\ kind'[t] = "look"
           /\ At(t, "remove") \/ UNCHANGED Left(t)
           /\ At(t, "pick") => (At(t, "get") \/ At(t, "post"))'
           /\ At(t, "get") => (At(t, "imread") \/ At(t, "remove"))'
           /\ At(t, "imread") => (At(t, "write") \/ At(t, "remove"))'
           /\ At(t, "write") => At(t, "url")'
           /\ At(t, "url") => At(t, "remove")'
           /\ At(t, "remove") => At(t, "pick")' /\ Left(t)' = Left(t) - 1
           /\ At(t, "post") => Settled(t)'
<1>1. TypeOK /\ Hands(t) /\ InTodo(t) /\ Answering(t) /\ Answering(t)'
    BY AnsweringKept DEF IInv, InTodos, Answerings, Next
<1>2. LookStep(t) \/ Post(t)
    BY <1>1 DEF ThreadStep, SnapStep, Open, OpenFails, Loop, ReadFrame, ReadOther, ReadFails, Drained,
                EndPrediction, Delete, Goes, Hands, Pulling
<1>3. CASE Post(t)
    BY <1>1, <1>3 DEF Post, Goes, At, Left, Settled, Answering, TypeOK, lookVars
<1>4. CASE Remove(t)
    <2>1. cam[t] \in todo[t] /\ todo'[t] = todo[t] \ {cam[t]}
        BY <1>1, <1>4 DEF Remove, Goes, InTodo, HasDownload, TypeOK
    <2>2. Left(t)' = Left(t) - 1
        BY <1>1, <2>1, LeftIsFinite DEF Left
    <2> QED
        BY <1>1, <1>4, <2>2 DEF Remove, Goes, At, TypeOK
<1>5. CASE Pick(t) \/ PickNone(t) \/ DownloadEnds(t) \/ DownloadFails(t)
    BY <1>1, <1>5 DEF Pick, PickNone, DownloadEnds, DownloadFails, Goes, At, Left, TypeOK, lookVars
<1>6. CASE Finds(t) \/ FindsNone(t) \/ Write(t) \/ Answer(t)
    BY <1>1, <1>6 DEF Finds, FindsNone, Write, Answer, Goes, At, Left, TypeOK, lookVars
<1> QED
    BY <1>2, <1>3, <1>4, <1>5, <1>6 DEF LookStep

(* A request for pictures settles: each camera takes finitely many steps,  *)
(* and there are finitely many.                                            *)
LEMMA LooksSettle ==
    ASSUME NEW t \in Threads
    PROVE  FairSpec /\ []ThreadsGoOn /\ NoEndlessFall(Left(t)) => (kind[t] = "look" ~> Settled(t))
<1> DEFINE Inv == IInv /\ InTodos /\ Answerings
           Look == kind[t] = "look"
           Live == kind[t] = "look" /\ ~Settled(t)
           Go == ThreadStep(t)
           left == Left(t)
<1>1. FairSpec => Spec /\ Runs(t)
    BY DEF FairSpec
<1>2. Inv => left \in Nat
    BY LeftIsFinite DEF IInv
<1>3. Inv /\ Live /\ [Next]_vars =>
        /\ Live' \/ Settled(t)'
        /\ [left' =< left]_left
        /\ At(t, "pick") => (At(t, "pick") \/ At(t, "get") \/ At(t, "post"))'
        /\ At(t, "get") => (At(t, "get") \/ At(t, "imread") \/ At(t, "remove"))'
        /\ At(t, "imread") => (At(t, "imread") \/ At(t, "write") \/ At(t, "remove"))'
        /\ At(t, "write") => (At(t, "write") \/ At(t, "url"))'
        /\ At(t, "url") => (At(t, "url") \/ At(t, "remove"))'
        /\ At(t, "remove") => At(t, "remove")' \/ ~[left' = left]_left
        /\ At(t, "post") => (At(t, "post") \/ Settled(t))'
    <2>1. ASSUME Inv, Live, [Next]_vars
          PROVE  Go \/ UNCHANGED <<kind[t], pc[t], todo[t]>>
        <3>1. ~DetachedStep(t)
            BY <2>1 DEF IInv, TypeOK, Hands, DetachedStep, WorkerStep, WorkerRuns, WorkerGoes, WorkerTakes,
               WorkerEnds, WorkerFindsNone, WorkerFinds, WorkerAnswers, WorkerStops, WorkerLeaves,
               WorkerStrays
        <3> QED
            BY <2>1, <3>1, Movers
    <2>2. ASSUME Inv, Live, Go
          PROVE  /\ kind'[t] = "look" /\ left' =< left
                 /\ At(t, "pick") => (At(t, "get") \/ At(t, "post"))'
                 /\ At(t, "get") => (At(t, "imread") \/ At(t, "remove"))'
                 /\ At(t, "imread") => (At(t, "write") \/ At(t, "remove"))'
                 /\ At(t, "write") => At(t, "url")'
                 /\ At(t, "url") => At(t, "remove")'
                 /\ At(t, "remove") => ~[left' = left]_left
                 /\ At(t, "post") => Settled(t)'
        BY <1>2, <2>2, LookMoves
    <2>3. ASSUME UNCHANGED <<kind[t], pc[t], todo[t]>>
          PROVE  UNCHANGED left
        BY <2>3 DEF Left
    <2> HIDE DEF left
    <2> QED
        BY <2>1, <2>2, <2>3 DEF At
<1>4. Inv /\ Live /\ <<Go>>_vars =>
        /\ At(t, "pick") => (At(t, "get") \/ At(t, "post"))'
        /\ At(t, "get") => (At(t, "imread") \/ At(t, "remove"))'
        /\ At(t, "imread") => (At(t, "write") \/ At(t, "remove"))'
        /\ At(t, "write") => At(t, "url")'
        /\ At(t, "url") => At(t, "remove")'
        /\ At(t, "remove") => ~[left' = left]_left
        /\ At(t, "post") => Settled(t)'
    BY <1>2, LookMoves
<1>5. Inv /\ Live => \/ At(t, "pick") \/ At(t, "get") \/ At(t, "imread") \/ At(t, "write")
                    \/ At(t, "url") \/ At(t, "remove") \/ At(t, "post")
    BY DEF IInv, TypeOK, Hands, Pulling, Pcs, Looking, Answerings, Answering, Settled, At
<1>6. ThreadsGoOn /\ Inv /\ Live => ENABLED <<Go>>_vars
    <2>1. Inv /\ Live => ~crashed /\ ThreadIsDue(t)
        BY <1>5 DEF Settled, ThreadIsDue, Looking, At
    <2> QED
        BY <2>1 DEF ThreadsGoOn
<1>7. Look => Live \/ Settled(t)
    OBVIOUS
<1>8. Spec => []Inv
    <2>1. Init => InTodos
        BY DEF Init, InTodos, InTodo, HasDownload
    <2> QED
        BY <2>1, TodosKept, InvariantHolds, AnsweringsHold, PTL DEF Spec
<1> HIDE DEF Inv, Look, Live, Go
<1> QED
    BY <1>1, <1>2, <1>3, <1>4, <1>5, <1>6, <1>7, <1>8, PTL DEF Spec, NoEndlessFall, Runs, Look, Go

(* The guards of the actions of ThreadStep and of the detached worker.     *)
ThreadReady(t) ==
    \/ pc[t] \in {"open", "loop", "read", "closed", "wait"}
    \/ pc[t] = "drain" /\ queue[t] = 0
    \/ pc[t] = "pick" /\ \E c \in todo[t] : \A d \in todo[t] : c <= d
    \/ pc[t] = "pick" /\ todo[t] = {}
    \/ pc[t] \in {"get", "imread", "write", "url", "remove", "post"}

WorkerReady(t) ==
    \/ ~Deleted(t) /\ worker[t] = "test" /\ predictionFlag[t] /\ queue[t] > 0
    \/ ~Deleted(t) /\ worker[t] = "test" /\ ~predictionFlag[t]
    \/ ~Deleted(t) /\ worker[t] \in {"handle", "url", "stop", "leaving"}
    \/ Deleted(t) /\ worker[t] \notin {"none", "end"}

(* What ENABLED says of such actions, each of which gives every variable   *)
(* its next value and changes one: a guard that holds lets it step.        *)
ThreadsStep ==
    \A t \in Threads : ~crashed =>
        /\ ThreadReady(t) => ENABLED <<ThreadStep(t)>>_vars
        /\ WorkerReady(t) => ENABLED <<DetachedStep(t)>>_vars

(* Of some cameras one comes first: std::map goes through them in order.   *)
LEMMA FirstCamera ==
    ASSUME NEW S \in SUBSET Cams, S # {}
    PROVE  \E c \in S : \A d \in S : c <= d
<1> DEFINE R == OpToRel(<, Nat)
<1>1. S \subseteq Nat
    BY CamsAssumption
<1>2. IsWellFoundedOn(R, Nat)
    BY NatLessThanWellFounded
<1>3. PICK c \in S : \A d \in S : ~ (<<d, c>> \in R)
    <2> HIDE DEF R
    <2> QED
        BY <1>1, <1>2, WFMin
<1>4. ASSUME NEW d \in S
      PROVE  c <= d
    <2>1. c \in Nat /\ d \in Nat
        BY <1>1
    <2>2. ~(d < c)
        BY <1>3, <2>1 DEF OpToRel
    <2> QED
        BY <2>1, <2>2
<1> QED
    BY <1>4

(* A thread with pictures or a stream in hand is never stuck but in the    *)
(* drain, nor is a worker with a frame (SnapHandle.cpp:45-62,              *)
(* PictureHandle.cpp:76-128): there is a next camera as long as there is   *)
(* one to look at, and every way through a camera leads on.                *)
THEOREM ThreadsNeverStuck == Spec /\ []ThreadsStep => []ThreadsGoOn
<1>1. ASSUME TypeOK, NEW t \in Threads
      PROVE  /\ ThreadIsDue(t) => ThreadReady(t)
             /\ WorkerIsDue(t) => WorkerReady(t)
    <2>1. todo[t] \in SUBSET Cams /\ predictionFlag[t] \in BOOLEAN
        BY <1>1 DEF TypeOK
    <2>2. CASE pc[t] = "pick"
        BY <2>1, <2>2, FirstCamera DEF ThreadReady, ThreadIsDue, WorkerIsDue, WorkerReady, Deleted
    <2>3. CASE pc[t] # "pick"
        BY <2>1, <2>3 DEF ThreadReady, ThreadIsDue, Looking, WorkerIsDue, WorkerReady, Deleted
    <2> QED
        BY <2>2, <2>3
<1>2. TypeOK /\ ThreadsStep => ThreadsGoOn
    BY <1>1 DEF ThreadsStep, ThreadsGoOn
<1> QED
    BY <1>2, TypesCorrect, PTL

(* Requests are answered if no thread is stuck where it is due.            *)
LEMMA RequestsAnsweredIfThreadsGoOn ==
    FairSpec /\ []ThreadsGoOn /\ (\A t \in Threads : NoEndlessFall(Left(t))) => RequestsAreAnswered
<1> SUFFICES ASSUME NEW t \in Threads
             PROVE  FairSpec /\ []ThreadsGoOn /\ NoEndlessFall(Left(t)) =>
                        (kind[t] = "look" \/ worker[t] = "handle" \/ over[t]
                            ~> report[t] # None \/ Hung(t) \/ crashed)
    BY DEF RequestsAreAnswered
<1>1. kind[t] = "look" \/ worker[t] = "handle" \/ over[t]
        <=> kind[t] = "look" \/ (Works(t, "handle") \/ over[t])
    BY DEF Works
<1>2. Settled(t) => report[t] # None \/ Hung(t) \/ crashed
    BY DEF Settled
<1>3. FairSpec /\ []ThreadsGoOn => (Works(t, "handle") \/ over[t] ~> Settled(t))
    BY SnapshotsSettle
<1>4. FairSpec /\ []ThreadsGoOn /\ NoEndlessFall(Left(t)) => (kind[t] = "look" ~> Settled(t))
    BY LooksSettle
<1> QED
    BY <1>1, <1>2, <1>3, <1>4, PTL

(* Every request for pictures is answered, and so is every snapshot that   *)
(* has got a frame or whose stream is over, unless it hangs in the drain   *)
(* (SnapHandle.cpp:45-62, PictureHandle.cpp:76-128), whatever the other    *)
(* requests do.                                                            *)
THEOREM RequestsComeToAnAnswer ==
    FairSpec /\ []ThreadsStep /\ (\A t \in Threads : NoEndlessFall(Left(t))) => RequestsAreAnswered
BY RequestsAnsweredIfThreadsGoOn, ThreadsNeverStuck, PTL DEF FairSpec

=============================================================================
