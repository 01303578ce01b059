------------------------- MODULE EventCenterProofs -------------------------
(***************************************************************************)
(* The invariants of EventCenter hold, and it implements AlertPolicy, for  *)
(* any number of cameras, labels and events and for all of its constants.  *)
(***************************************************************************)
EXTENDS EventCenter, Descent, FiniteSetTheorems, TLAPS

USE DEF Times, Never, Needed

----------------------------------------------------------------------------
(* Maps.                                                                   *)

LEMMA PutMap ==
    ASSUME NEW f, NEW S, NEW T, NEW x \in S, NEW y \in T, IsMap(f, S, T)
    PROVE  /\ IsMap(Put(f, x, y), S, T)
           /\ DOMAIN Put(f, x, y) = DOMAIN f \union {x}
           /\ Put(f, x, y)[x] = y
           /\ \A z \in DOMAIN f : z # x => Put(f, x, y)[z] = f[z]
BY DEF IsMap, Put

LEMMA DropMap ==
    ASSUME NEW f, NEW S, NEW T, NEW x, IsMap(f, S, T)
    PROVE  /\ IsMap(Drop(f, x), S, T)
           /\ DOMAIN Drop(f, x) = DOMAIN f \ {x}
           /\ \A z \in DOMAIN f : z # x => Drop(f, x)[z] = f[z]
BY DEF IsMap, Drop, Restrict

LEMMA EmptyMap ==
    ASSUME NEW S, NEW T
    PROVE  IsMap(Empty, S, T) /\ DOMAIN Empty = {}
BY DEF IsMap, Empty

(* A map of maps after the update of one of them.                          *)
MapsOK(m, S, T) == m = [c \in Cameras |-> m[c]] /\ \A c \in Cameras : IsMap(m[c], S, T)

LEMMA UpdateMaps ==
    ASSUME NEW m, NEW S, NEW T, MapsOK(m, S, T),
           NEW c \in Cameras, NEW f, IsMap(f, S, T)
    PROVE  MapsOK([m EXCEPT ![c] = f], S, T)
BY DEF MapsOK

LEMMA FoundType ==
    ASSUME TypeOK, NEW c \in Cameras, NEW t \in Types
    PROVE  Found(c, t) \in MsgEvents
BY DEF TypeOK, IsMap, Found, MsgEvents

(* What the bus writes back: the MsgEvent with one of its parts changed.   *)
LEMMA SetParts ==
    ASSUME NEW m \in MsgEvents, NEW n \in Nat, NEW time \in Times
    PROVE  /\ [m EXCEPT !.count = n] \in MsgEvents
           /\ [m EXCEPT !.count = n].count = n
           /\ [m EXCEPT !.count = n].lasttime = m.lasttime
           /\ [m EXCEPT !.lasttime = time] \in MsgEvents
           /\ [m EXCEPT !.lasttime = time].count = m.count
           /\ [m EXCEPT !.lasttime = time].lasttime = time
BY DEF MsgEvents

LEMMA StoreType ==
    ASSUME TypeOK, NEW c \in Cameras, NEW t \in Types, NEW m \in MsgEvents, Store(c, t, m)
    PROVE  MapsOK(tracks', Types, MsgEvents) /\ cached' \in [Cameras -> BOOLEAN]
BY PutMap, UpdateMaps DEF Store, Touch, TypeOK, MapsOK

LEMMA CountUp ==
    ASSUME NEW m \in MsgEvents
    PROVE  /\ [m EXCEPT !.count = @ + 1] \in MsgEvents
           /\ [m EXCEPT !.count = @ + 1].count = m.count + 1
           /\ [m EXCEPT !.count = @ + 1].lasttime = m.lasttime
BY DEF MsgEvents

LEMMA ResetRun ==
    ASSUME NEW run \in Policy!Runs
    PROVE  /\ [run EXCEPT !.n = 0] \in Policy!Runs
           /\ [run EXCEPT !.n = 0].n = 0
           /\ [run EXCEPT !.n = 0].last = run.last
BY MinCountAssumption DEF Policy!Runs, Policy!Needed

LEMMA ExtendType ==
    ASSUME NEW run \in Policy!Runs, NEW time \in Times
    PROVE  /\ Policy!Extend(run, time) \in Policy!Runs
           /\ Policy!Extend(run, time).last >= time
           /\ Policy!Extend(run, time).last >= run.last
           /\ Policy!Extend(run, time).n >= 1
BY MinCountAssumption, GapAssumption DEF Policy!Extend, Policy!Runs, Policy!Needed, Policy!Never

LEMMA SightTypesType ==
    ASSUME TypeOK, NEW c \in Cameras, NEW S \in SUBSET Types, NEW time \in Times,
           SightTypes(c, S, time)
    PROVE  chain' \in [Cameras -> [Types -> Policy!Runs]]
BY ExtendType DEF TypeOK, SightTypes

----------------------------------------------------------------------------
(* Types.                                                                  *)

LEMMA TypeInit == Init => TypeOK
<1> SUFFICES ASSUME Init PROVE TypeOK
  OBVIOUS
<1>1. Policy!NoChain \in Policy!Runs
  BY MinCountAssumption DEF Policy!NoChain, Policy!Runs, Policy!Needed, Policy!Never
<1> QED
  BY <1>1, EmptyMap DEF Init, TypeOK, Pcs, Counting, Alerting

LEMMA TypeStep == TypeOK /\ [Next]_vars => TypeOK'
<1> SUFFICES ASSUME TypeOK, [Next]_vars PROVE TypeOK'
  OBVIOUS
<1> USE DEF TypeOK, cacheVars, loopVars, alertVars, Pcs, Counting, Alerting
<1>1. CASE Tick
  BY <1>1 DEF Tick
<1>2. ASSUME NEW c \in Cameras, NEW S \in SUBSET Types, NEW F \in SUBSET Faces, NEW time \in 0..now,
             HandleEvent(c, S, F, time)
      PROVE  TypeOK'
  BY <1>2 DEF HandleEvent, Events
<1>3. ASSUME NEW c \in Cameras, PushQueue(c) PROVE TypeOK'
  <2> DEFINE filled == [id \in DOMAIN video2[c] |->
                          IF video2[c][id] < AfterFrames + 1 THEN video2[c][id] + 1 ELSE video2[c][id]]
  <2>1. IsMap(filled, Times, Nat)
    BY DEF IsMap
  <2>2. video2' = [video2 EXCEPT ![c] = filled]
    BY <1>3 DEF PushQueue
  <2>3. MapsOK(video2', Times, Nat)
    BY <2>1, <2>2, UpdateMaps DEF MapsOK
  <2> QED
    BY <1>3, <2>3 DEF PushQueue, MapsOK
<1>4. ASSUME NEW c \in Cameras, RemoveCamera(c) PROVE TypeOK'
  BY <1>4, EmptyMap DEF RemoveCamera
<1>5. CASE BusPop
  <2>1. Head(tempQueue) \in Events /\ Tail(tempQueue) \in Seq(Events)
    BY <1>5 DEF BusPop
  <2> QED
    BY <1>5, <2>1 DEF BusPop, Events
<1>6. ASSUME NEW f \in Faces, BusFace(f) PROVE TypeOK'
  BY <1>6 DEF BusFace, Touch, Events
<1>7. CASE BusFacesDone
  BY <1>7 DEF BusFacesDone
<1>8. CASE BusEnter
  BY <1>8 DEF BusEnter, Events
<1>9. CASE BusFirstInit
  <2>1. IsMap([t \in ev.types |-> [count |-> 1, lasttime |-> ev.time]], Types, MsgEvents)
    BY <1>9 DEF BusFirstInit, Events, IsMap, MsgEvents
  <2> QED
    BY <2>1, <1>9, SightTypesType DEF BusFirstInit, Touch, Events
<1>10. ASSUME NEW t \in Types, BusType(t) PROVE TypeOK'
  <2>0. ev \in Events /\ ev.cam \in Cameras /\ ev.time \in Times /\ {t} \in SUBSET Types
    BY <1>10 DEF BusType, Events
  <2>1. CASE BusSkip(t)
    BY <1>10, <2>0, <2>1, SightTypesType DEF BusType, BusSkip
  <2>2. CASE BusInsert(t)
    <3>1. [count |-> 1, lasttime |-> ev.time] \in MsgEvents
      BY <2>0 DEF MsgEvents
    <3>2. MapsOK(tracks', Types, MsgEvents) /\ cached' \in [Cameras -> BOOLEAN]
      BY <2>0, <2>2, <3>1, StoreType DEF BusInsert
    <3>3. chain' \in [Cameras -> [Types -> Policy!Runs]]
      BY <2>0, <2>2, SightTypesType DEF BusInsert
    <3> QED
      BY <1>10, <2>0, <2>2, <3>2, <3>3 DEF BusType, BusInsert, MapsOK
  <2>3. CASE BusFinds(t)
    BY <1>10, <2>0, <2>3 DEF BusType, BusFinds, Touch
  <2> QED
    BY <1>10, <2>1, <2>2, <2>3 DEF BusType
<1>11. CASE BusOld \/ BusGoesOn \/ BusDrop \/ BusTouch \/ BusCount \/ BusMore \/ BusClip \/ BusMark
  <2>0. busPc \in Counting \union {"mark"}
    BY <1>11 DEF BusOld, BusGoesOn, BusDrop, BusTouch, BusCount, BusMore, BusClip, BusMark
  <2>1. /\ ev \in Events /\ ev.cam \in Cameras /\ ev.time \in Times /\ cur \in Types
        /\ {cur} \in SUBSET Types
        /\ Found(ev.cam, cur) \in MsgEvents /\ Found(ev.cam, cur).count \in Nat
    BY <2>0, FoundType DEF Events, MsgEvents
  <2>2. /\ [Found(ev.cam, cur) EXCEPT !.lasttime = ev.time] \in MsgEvents
        /\ [Found(ev.cam, cur) EXCEPT !.count = 0] \in MsgEvents
        /\ [Found(ev.cam, cur) EXCEPT !.count = @ + 1] \in MsgEvents
    BY <2>1, SetParts, CountUp
  <2>3. CASE BusOld \/ BusGoesOn
    <3>1. MapsOK(tracks', Types, MsgEvents) /\ cached' \in [Cameras -> BOOLEAN]
      BY <2>1, <2>3, StoreType DEF BusOld, BusGoesOn
    <3>2. chain' \in [Cameras -> [Types -> Policy!Runs]]
      BY <2>1, <2>3, SightTypesType DEF BusOld, BusGoesOn
    <3> QED
      BY <2>1, <2>3, <3>1, <3>2 DEF BusOld, BusGoesOn, MapsOK
  <2>4. CASE BusDrop
    <3>1. chain' \in [Cameras -> [Types -> Policy!Runs]]
      BY <2>1, <2>4, SightTypesType DEF BusDrop
    <3> QED
      BY <2>1, <2>4, <3>1, DropMap DEF BusDrop, Touch
  <2>5. CASE BusTouch
    <3>1. MapsOK(tracks', Types, MsgEvents) /\ cached' \in [Cameras -> BOOLEAN]
      BY <2>1, <2>2, <2>5, StoreType DEF BusTouch
    <3> QED
      BY <2>1, <2>5, <3>1 DEF BusTouch, MapsOK
  <2>6. CASE BusCount
    <3>1. MapsOK(tracks', Types, MsgEvents) /\ cached' \in [Cameras -> BOOLEAN]
      BY <2>1, <2>6, StoreType DEF BusCount
    <3> QED
      BY <2>1, <2>6, <3>1 DEF BusCount, MapsOK
  <2>7. CASE BusMore
    <3>1. MapsOK(tracks', Types, MsgEvents) /\ cached' \in [Cameras -> BOOLEAN]
      BY <2>1, <2>2, <2>7, StoreType DEF BusMore
    <3> QED
      BY <2>1, <2>7, <3>1 DEF BusMore, MapsOK
  <2>8. CASE BusClip
    <3> DEFINE open == Put(video2[ev.cam], now, IF now \in DOMAIN video2[ev.cam]
                                                  THEN video2[ev.cam][now] + 1 ELSE 1)
    <3>1. (IF now \in DOMAIN video2[ev.cam] THEN video2[ev.cam][now] + 1 ELSE 1) \in Nat
      BY <2>1 DEF IsMap
    <3>2. IsMap(open, Times, Nat)
      BY <2>1, <3>1, PutMap
    <3>3. video2' = [video2 EXCEPT ![ev.cam] = open]
      BY <2>8 DEF BusClip
    <3>4. MapsOK(video2', Times, Nat)
      BY <2>1, <3>2, <3>3, UpdateMaps DEF MapsOK
    <3> QED
      BY <2>1, <2>8, <3>4 DEF BusClip, MapsOK, Alerts
  <2>9. CASE BusMark
    <3>1. MapsOK(tracks', Types, MsgEvents) /\ cached' \in [Cameras -> BOOLEAN]
      BY <2>1, <2>2, <2>9, StoreType DEF BusMark
    <3>2. chain' \in [Cameras -> [Types -> Policy!Runs]]
      <4>1. [chain[ev.cam][cur] EXCEPT !.n = 0] \in Policy!Runs
        BY <2>1, ResetRun
      <4>2. chain' = [chain EXCEPT ![ev.cam] = [chain[ev.cam] EXCEPT ![cur] =
                        [chain[ev.cam][cur] EXCEPT !.n = 0]]]
        BY <2>9 DEF BusMark
      <4> QED
        BY <2>1, <4>1, <4>2
    <3> QED
      BY <2>1, <2>9, <3>1, <3>2 DEF BusMark, MapsOK
  <2> QED
    BY <1>11, <2>3, <2>4, <2>5, <2>6, <2>7, <2>8, <2>9
<1>12. CASE BusForget
  BY <1>12, DropMap DEF BusForget, Touch, Events
<1>13. CASE BusPollAgain
  BY <1>13 DEF BusPollAgain
<1>14. CASE BusAbandon
  BY <1>14 DEF BusAbandon, EndWait, Alerts
<1>15. ASSUME NEW delivered \in BOOLEAN, BusSend(delivered) PROVE TypeOK'
  <2>1. waiting.cam \in Cameras /\ waiting.type \in Types /\ waiting.at \in Times
    BY <1>15 DEF BusSend, Alerts
  <2>2. MapsOK(video2', Times, Nat)
    <3>1. IsMap(Drop(video2[waiting.cam], waiting.at), Times, Nat)
      BY <2>1, DropMap
    <3>2. video2' = [video2 EXCEPT ![waiting.cam] = Drop(video2[waiting.cam], waiting.at)]
      BY <1>15 DEF BusSend
    <3> QED
      BY <2>1, <3>1, <3>2, UpdateMaps DEF MapsOK
  <2>3. posts' \in [Cameras -> [Types -> Seq(Times \union {Never})]]
    BY <1>15, <2>1 DEF BusSend
  <2> QED
    BY <1>15, <2>1, <2>2, <2>3 DEF BusSend, EndWait, MapsOK
<1>16. CASE BusFail
  BY <1>16 DEF BusFail, EndWait, Alerts
<1>17. CASE BusTypesDone
  BY <1>17 DEF BusTypesDone
<1>18. CASE BusEnd
  BY <1>18 DEF BusEnd, Touch, Events
<1>19. CASE UNCHANGED vars
  BY <1>19 DEF vars
<1> QED
  BY <1>1, <1>2, <1>3, <1>4, <1>5, <1>6, <1>7, <1>8, <1>9, <1>10, <1>11, <1>12, <1>13,
     <1>14, <1>15, <1>16, <1>17, <1>18, <1>19 DEF Next, BusStep, EnvStep

(* The state keeps its types whatever the clock, the cameras and the bus   *)
(* do; in particular the bus waits only with an alert in progress.          *)
THEOREM TypesCorrect == Spec => []TypeOK
BY TypeInit, TypeStep, PTL DEF Spec

----------------------------------------------------------------------------
(* The inductive invariant, one lemma for each of its parts.               *)

(* Between taking an event and being done with it the bus keeps it.        *)
LEMMA BusKeepsEvent ==
    ASSUME BusStep
    PROVE  \/ BusPop
           \/ BusEnd
           \/ UNCHANGED <<now, tempQueue, ev>> /\ busPc # "idle" /\ busPc' # "idle"
BY DEF BusStep, BusFace, BusFacesDone, BusEnter, BusFirstInit, BusType, BusSkip, BusInsert,
       BusFinds, BusOld, BusGoesOn, BusDrop, BusTouch, BusCount, BusMore, BusClip, BusMark,
       BusForget, BusPollAgain, BusAbandon, BusSend, BusFail, BusTypesDone, EndWait, loopVars

LEMMA QueueTimes ==
    ASSUME TypeOK
    PROVE  /\ Len(tempQueue) \in Nat
           /\ \A i \in 1..Len(tempQueue) : tempQueue[i].time \in Nat
           /\ busPc # "idle" => ev.time \in Nat
           /\ now \in Nat
<1>1. Len(tempQueue) \in Nat /\ \A i \in 1..Len(tempQueue) : tempQueue[i] \in Events
  BY DEF TypeOK
<1>2. busPc # "idle" => ev \in Events
  BY DEF TypeOK
<1> QED
  BY <1>1, <1>2 DEF Events, TypeOK

LEMMA StepEventsArePast ==
    ASSUME TypeOK, EventsArePast, [Next]_vars
    PROVE  EventsArePast'
<1> USE QueueTimes DEF EventsArePast
<1>1. CASE Tick
  BY <1>1 DEF Tick, loopVars
<1>2. ASSUME NEW c \in Cameras, NEW S \in SUBSET Types, NEW F \in SUBSET Faces, NEW time \in 0..now,
             HandleEvent(c, S, F, time)
      PROVE  EventsArePast'
  <2> DEFINE e == [cam |-> c, types |-> S, faces |-> F, time |-> time]
  <2>1. e \in Events /\ e.time =< now
    BY DEF TypeOK, Events
  <2>2. tempQueue' = Append(tempQueue, e) /\ UNCHANGED <<now, ev, busPc>>
    BY <1>2 DEF HandleEvent, loopVars
  <2> HIDE DEF e
  <2>3. \A i \in 1..Len(tempQueue') : tempQueue'[i] = e \/ (i \in 1..Len(tempQueue) /\ tempQueue'[i] = tempQueue[i])
    BY <2>1, <2>2 DEF TypeOK
  <2> QED
    BY <2>1, <2>2, <2>3
<1>3. ASSUME NEW c \in Cameras, PushQueue(c) \/ RemoveCamera(c) PROVE EventsArePast'
  BY <1>3 DEF PushQueue, RemoveCamera, loopVars
<1>4. CASE BusPop
  <2>1. /\ Len(tempQueue) \in Nat \ {0}
        /\ ev' = tempQueue[1]
        /\ Len(tempQueue') = Len(tempQueue) - 1
        /\ \A i \in 1..Len(tempQueue') : tempQueue'[i] = tempQueue[i + 1]
        /\ UNCHANGED now
    BY <1>4 DEF BusPop, TypeOK
  <2>2. 1 \in 1..Len(tempQueue) /\ \A i \in 1..Len(tempQueue') : i + 1 \in 1..Len(tempQueue)
    BY <2>1
  <2> QED
    BY <2>1, <2>2
<1>5. CASE BusEnd
  BY <1>5 DEF BusEnd
<1>6. CASE UNCHANGED <<now, tempQueue, ev>> /\ busPc # "idle" /\ busPc' # "idle"
  BY <1>6
<1>7. CASE UNCHANGED vars
  BY <1>7 DEF vars, loopVars
<1> QED
  BY <1>1, <1>2, <1>3, <1>4, <1>5, <1>6, <1>7, BusKeepsEvent DEF Next, EnvStep

----------------------------------------------------------------------------
(* Tracks and runs.                                                        *)

(* What a sighting and an alert do to the runs.                            *)
LEMMA SightEffect ==
    ASSUME TypeOK, NEW c \in Cameras, NEW S \in SUBSET Types, NEW time, SightTypes(c, S, time)
    PROVE  \A d \in Cameras, t \in Types :
             chain'[d][t] = IF d = c /\ t \in S THEN Policy!Extend(chain[d][t], time)
                                                ELSE chain[d][t]
BY DEF TypeOK, SightTypes

LEMMA MarkEffect ==
    ASSUME TypeOK, BusMark
    PROVE  \A d \in Cameras, t \in Types :
             /\ chain'[d][t] = IF d = ev.cam /\ t = cur THEN [chain[d][t] EXCEPT !.n = 0]
                                                        ELSE chain[d][t]
             /\ SendRecords'[d][t] = IF d = ev.cam /\ t = cur THEN now ELSE SendRecords[d][t]
BY DEF BusMark, TypeOK, Events, Alerting

Backed(m, run, suppressed) ==
    /\ m.count =< run.n
    /\ m.count =< MinCount + 1
    /\ m.lasttime =< run.last
    /\ suppressed => m.count =< 1

LEMMA TracksBackedIs ==
    TracksBacked <=>
      \A c \in Cameras : \A t \in DOMAIN tracks[c] :
         Backed(tracks[c][t], chain[c][t], Suppressed(c, t))
BY DEF TracksBacked, Backed

LEMMA ExtendGrows ==
    ASSUME NEW run \in Policy!Runs, NEW time \in Nat, NEW m \in MsgEvents,
           m.count =< run.n, m.count =< MinCount + 1, m.lasttime =< run.last,
           time - m.lasttime =< Gap
    PROVE  m.count < Policy!Extend(run, time).n
BY MinCountAssumption, GapAssumption
   DEF Policy!Extend, Policy!Runs, Policy!Needed, Policy!Never, MsgEvents, Ancient

LEMMA TrackTypes ==
    ASSUME TypeOK
    PROVE  /\ \A c \in Cameras : \A t \in DOMAIN tracks[c] : t \in Types /\ tracks[c][t] \in MsgEvents
           /\ \A c \in Cameras, t \in Types :
                /\ chain[c][t] \in Policy!Runs
                /\ chain[c][t].n \in Nat /\ chain[c][t].last \in Nat \union {-1}
                /\ SendRecords[c][t] \in Nat \union {-1}
           /\ busPc # "idle" => /\ ev.cam \in Cameras
                                /\ ev.types \in SUBSET Types
                                /\ ev.time \in Nat
           /\ busPc \in Counting \union Alerting => cur \in Types /\ busPc # "idle"
BY MinCountAssumption
   DEF TypeOK, IsMap, Events, Counting, Alerting, Policy!Runs, Policy!Needed, Policy!Never

(* What the bus finds is backed, also when it finds nothing.               *)
LEMMA FoundBacked ==
    ASSUME TypeOK, TracksBacked, NEW c \in Cameras, NEW t \in Types
    PROVE  /\ Backed(Found(c, t), chain[c][t], Suppressed(c, t))
           /\ Found(c, t) \in MsgEvents /\ Found(c, t).count \in Nat
<1>1. CASE t \in DOMAIN tracks[c]
  BY <1>1, TracksBackedIs, FoundType DEF Found, MsgEvents
<1>2. CASE t \notin DOMAIN tracks[c]
  BY <1>2, FoundType, TrackTypes, MinCountAssumption, GapAssumption
     DEF Found, Backed, Ancient, MsgEvents
<1> QED
  BY <1>1, <1>2

(* Writing a track that is backed, or dropping one, keeps all of them      *)
(* backed when nothing else of the cache, the runs and the records changes. *)
OthersKept(c, t) ==
    /\ UNCHANGED now
    /\ \A d \in Cameras, u \in Types : d # c \/ u # t =>
         chain'[d][u] = chain[d][u] /\ SendRecords'[d][u] = SendRecords[d][u]

LEMMA WriteBacked ==
    ASSUME TypeOK, TracksBacked, NEW c \in Cameras, NEW t \in Types, NEW m,
           Store(c, t, m), OthersKept(c, t),
           Backed(m, chain'[c][t], Suppressed(c, t)')
    PROVE  TracksBacked' /\ Found(c, t)' = m
<1>1. \A d \in Cameras : tracks'[d] = IF d = c THEN Put(tracks[c], t, m) ELSE tracks[d]
  BY DEF TypeOK, Store
<1>2. /\ Put(tracks[c], t, m)[t] = m
      /\ t \in DOMAIN Put(tracks[c], t, m)
      /\ \A u \in DOMAIN Put(tracks[c], t, m) :
           u # t => u \in DOMAIN tracks[c] /\ Put(tracks[c], t, m)[u] = tracks[c][u]
  BY DEF Put
<1>3. Found(c, t)' = m
  BY <1>1, <1>2 DEF Found
<1>4. ASSUME NEW d \in Cameras, NEW u \in DOMAIN tracks'[d]
      PROVE  Backed(tracks'[d][u], chain'[d][u], Suppressed(d, u)')
  <2>1. CASE d = c /\ u = t
    BY <1>1, <1>2, <2>1
  <2>2. CASE d # c \/ u # t
    <3>1. u \in DOMAIN tracks[d] /\ tracks'[d][u] = tracks[d][u]
      BY <1>1, <1>2, <1>4, <2>2
    <3>2. u \in Types /\ chain'[d][u] = chain[d][u] /\ Suppressed(d, u)' = Suppressed(d, u)
      BY <2>2, <3>1, TrackTypes DEF OthersKept, Suppressed
    <3> QED
      BY <3>1, <3>2, TracksBackedIs
  <2> QED
    BY <2>1, <2>2
<1> QED
  BY <1>3, <1>4 DEF TracksBacked, Backed

LEMMA DropBacked ==
    ASSUME TypeOK, TracksBacked, NEW c \in Cameras, NEW t \in Types,
           tracks' = [tracks EXCEPT ![c] = Drop(@, t)], OthersKept(c, t)
    PROVE  TracksBacked'
<1>1. \A d \in Cameras : tracks'[d] = IF d = c THEN Drop(tracks[c], t) ELSE tracks[d]
  BY DEF TypeOK
<1>2. \A u \in DOMAIN Drop(tracks[c], t) :
         u # t /\ u \in DOMAIN tracks[c] /\ Drop(tracks[c], t)[u] = tracks[c][u]
  BY DEF Drop, Restrict
<1>3. ASSUME NEW d \in Cameras, NEW u \in DOMAIN tracks'[d]
      PROVE  Backed(tracks'[d][u], chain'[d][u], Suppressed(d, u)')
  <2>1. u \in DOMAIN tracks[d] /\ tracks'[d][u] = tracks[d][u] /\ (d # c \/ u # t)
    BY <1>1, <1>2, <1>3
  <2>2. u \in Types /\ chain'[d][u] = chain[d][u] /\ Suppressed(d, u)' = Suppressed(d, u)
    BY <2>1, TrackTypes DEF OthersKept, Suppressed
  <2> QED
    BY <2>1, <2>2, TracksBackedIs
<1> QED
  BY <1>3 DEF TracksBacked, Backed

(* A step that leaves the runs and the records alone, and the tracks but   *)
(* for those it removes, leaves what is backed backed.                     *)
LEMMA KeepsBacked ==
    ASSUME TypeOK, TracksBacked, CurrentBacked,
           UNCHANGED <<chain, SendRecords>>,
           now' \in Nat, now =< now',
           \A c \in Cameras : tracks'[c] = tracks[c] \/ tracks'[c] = Empty,
           \/ UNCHANGED <<busPc, ev, cur>>
           \/ busPc' \notin Counting \union {"mark"}
           \/ busPc = "clip" /\ busPc' = "mark" /\ UNCHANGED <<ev, cur>>
    PROVE  TracksBacked' /\ CurrentBacked'
<1>1. \A c \in Cameras, t \in Types : Suppressed(c, t)' => Suppressed(c, t)
  BY TrackTypes, IntervalAssumption DEF Suppressed, TypeOK
<1>2. TracksBacked'
  BY <1>1, TrackTypes, EmptyMap DEF TracksBacked
<1>3. CASE busPc' \notin Counting \union {"mark"}
  BY <1>2, <1>3 DEF CurrentBacked, Counting
<1>4. CASE busPc \in Counting \union {"mark"} /\ UNCHANGED <<ev, cur>>
           /\ (UNCHANGED busPc \/ (busPc = "clip" /\ busPc' = "mark"))
  <2>1. ev.cam \in Cameras /\ cur \in Types
    BY <1>4, TrackTypes DEF Alerting
  <2>2. Found(ev.cam, cur).count \in Nat
    BY <2>1, FoundBacked
  <2>3. Found(ev.cam, cur)' = Found(ev.cam, cur) \/ Found(ev.cam, cur)'.count = 0
    BY <1>4, <2>1, EmptyMap DEF Found
  <2>4. chain[ev.cam][cur].n \in Nat
    BY <2>1, TrackTypes
  <2>5. Found(ev.cam, cur).count < chain[ev.cam][cur].n => 0 < chain[ev.cam][cur].n
    BY <2>2, <2>4
  <2> QED
    BY <1>1, <1>2, <1>4, <2>1, <2>2, <2>3, <2>4, <2>5, MinCountAssumption DEF CurrentBacked, Counting
<1> QED
  BY <1>3, <1>4 DEF Counting

LEMMA FirstInitBacked ==
    ASSUME TypeOK, TracksBacked, BusFirstInit
    PROVE  TracksBacked' /\ CurrentBacked'
<1>1. /\ ev.cam \in Cameras /\ ev.types \in SUBSET Types /\ ev.time \in Nat
      /\ UNCHANGED <<now, SendRecords>>
      /\ busPc' = "end"
  BY TrackTypes DEF BusFirstInit, alertVars
<1> DEFINE f == [t \in ev.types |-> [count |-> 1, lasttime |-> ev.time]]
<1>2. \A d \in Cameras : tracks'[d] = IF d = ev.cam THEN f ELSE tracks[d]
  BY <1>1 DEF BusFirstInit, TypeOK
<1>3. \A d \in Cameras, t \in Types :
         chain'[d][t] = IF d = ev.cam /\ t \in ev.types
                          THEN Policy!Extend(chain[d][t], ev.time) ELSE chain[d][t]
  BY <1>1 DEF BusFirstInit, SightTypes, TypeOK
<1>4. ASSUME NEW d \in Cameras, NEW t \in DOMAIN tracks'[d]
      PROVE  Backed(tracks'[d][t], chain'[d][t], Suppressed(d, t)')
  <2>1. CASE d = ev.cam
    <3>1. t \in ev.types /\ tracks'[d][t] = [count |-> 1, lasttime |-> ev.time]
      BY <1>2, <2>1
    <3>2. chain'[d][t] = Policy!Extend(chain[d][t], ev.time)
      BY <1>1, <1>3, <2>1, <3>1
    <3>3. chain'[d][t].n >= 1 /\ chain'[d][t].last >= ev.time /\ chain'[d][t] \in Policy!Runs
      BY <1>1, <2>1, <3>1, <3>2, TrackTypes, ExtendType
    <3> QED
      BY <1>1, <3>1, <3>3, MinCountAssumption DEF Backed, Policy!Runs, Policy!Needed
  <2>2. CASE d # ev.cam
    <3>1. tracks'[d] = tracks[d] /\ t \in Types
      BY <1>2, <2>2, TrackTypes
    <3>2. chain'[d][t] = chain[d][t] /\ Suppressed(d, t)' = Suppressed(d, t)
      BY <1>1, <1>3, <2>2, <3>1 DEF Suppressed
    <3> QED
      BY <3>1, <3>2, TracksBackedIs
  <2> QED
    BY <2>1, <2>2
<1> QED
  BY <1>1, <1>4 DEF TracksBacked, CurrentBacked, Backed, Counting

(* A sighting of one type.                                                 *)
LEMMA SightOne ==
    ASSUME TypeOK, NEW c \in Cameras, NEW t \in Types, NEW time \in Nat, SightTypes(c, {t}, time),
           UNCHANGED <<now, SendRecords>>
    PROVE  /\ OthersKept(c, t)
           /\ chain'[c][t] = Policy!Extend(chain[c][t], time)
           /\ chain'[c][t].n \in Nat /\ chain'[c][t].n >= 1
           /\ chain'[c][t].last \in Nat
           /\ chain'[c][t].last >= time /\ chain'[c][t].last >= chain[c][t].last
           /\ Suppressed(c, t)' = Suppressed(c, t)
<1>1. \A d \in Cameras, u \in Types :
         chain'[d][u] = IF d = c /\ u = t THEN Policy!Extend(chain[d][u], time) ELSE chain[d][u]
  BY SightEffect
<1>2. /\ Policy!Extend(chain[c][t], time) \in Policy!Runs
      /\ Policy!Extend(chain[c][t], time).last >= time
      /\ Policy!Extend(chain[c][t], time).last >= chain[c][t].last
      /\ Policy!Extend(chain[c][t], time).n >= 1
  BY TrackTypes, ExtendType
<1>3. chain'[c][t] = Policy!Extend(chain[c][t], time)
  BY <1>1
<1>4. OthersKept(c, t)
  BY <1>1 DEF OthersKept
<1> QED
  BY <1>2, <1>3, <1>4, MinCountAssumption DEF Suppressed, Policy!Runs, Policy!Needed, Policy!Never

LEMMA TypeBacked ==
    ASSUME TypeOK, TracksBacked, CurrentBacked, NEW t \in Types, BusType(t)
    PROVE  TracksBacked' /\ CurrentBacked'
<1>1. /\ ev.cam \in Cameras /\ ev.time \in Nat
      /\ UNCHANGED <<now, SendRecords, ev>>
      /\ busPc = "types"
  BY TrackTypes DEF BusType, alertVars
<1>2. CASE BusSkip(t)
  <2>1. /\ Suppressed(ev.cam, t) /\ UNCHANGED <<tracks, busPc>>
        /\ SightTypes(ev.cam, {t}, ev.time)
    BY <1>2 DEF BusSkip
  <2>2. /\ OthersKept(ev.cam, t)
        /\ chain'[ev.cam][t].n \in Nat /\ chain'[ev.cam][t].n >= 1
        /\ chain'[ev.cam][t].last \in Nat /\ chain'[ev.cam][t].last >= chain[ev.cam][t].last
        /\ Suppressed(ev.cam, t)' = Suppressed(ev.cam, t)
    BY <1>1, <2>1, SightOne
  <2>3. ASSUME NEW d \in Cameras, NEW u \in DOMAIN tracks[d]
        PROVE  Backed(tracks[d][u], chain'[d][u], Suppressed(d, u)')
    <3>1. /\ u \in Types /\ tracks[d][u] \in MsgEvents
          /\ Backed(tracks[d][u], chain[d][u], Suppressed(d, u))
      BY <2>3, TrackTypes, TracksBackedIs
    <3>2. CASE d = ev.cam /\ u = t
      <4>1. /\ tracks[d][u].count \in Nat /\ tracks[d][u].count =< 1
            /\ tracks[d][u].lasttime \in Int /\ tracks[d][u].lasttime =< chain[d][u].last
        BY <2>1, <3>1, <3>2, GapAssumption DEF Backed, MsgEvents, Ancient
      <4>2. chain[d][u].last \in Int
        BY <3>1, TrackTypes
      <4> QED
        BY <2>2, <3>1, <3>2, <4>1, <4>2 DEF Backed
    <3>3. CASE d # ev.cam \/ u # t
      BY <2>2, <3>1, <3>3 DEF OthersKept, Suppressed
    <3> QED
      BY <3>2, <3>3
  <2> QED
    BY <1>1, <2>1, <2>3 DEF CurrentBacked, Counting, TracksBacked, Backed
<1>3. CASE BusInsert(t)
  <2> DEFINE m == [count |-> 1, lasttime |-> ev.time]
  <2>1. Store(ev.cam, t, m) /\ UNCHANGED busPc /\ SightTypes(ev.cam, {t}, ev.time)
    BY <1>3 DEF BusInsert
  <2>2. /\ OthersKept(ev.cam, t)
        /\ chain'[ev.cam][t].n \in Nat /\ chain'[ev.cam][t].n >= 1
        /\ chain'[ev.cam][t].last >= ev.time
    BY <1>1, <2>1, SightOne
  <2>3. Backed(m, chain'[ev.cam][t], Suppressed(ev.cam, t)')
    BY <2>2, MinCountAssumption DEF Backed
  <2> HIDE DEF m
  <2> QED
    BY <1>1, <2>1, <2>2, <2>3, WriteBacked DEF CurrentBacked, Counting
<1>4. CASE BusFinds(t)
  <2>1. /\ ~Suppressed(ev.cam, t) /\ UNCHANGED <<tracks, chain>>
        /\ cur' = t /\ busPc' = "age"
    BY <1>4 DEF BusFinds
  <2>2. \A d \in Cameras, u \in Types : Suppressed(d, u)' = Suppressed(d, u)
    BY <1>1 DEF Suppressed
  <2>3. TracksBacked'
    BY <1>1, <2>1, <2>2, TrackTypes DEF TracksBacked
  <2> QED
    BY <1>1, <2>1, <2>2, <2>3 DEF CurrentBacked, Counting
<1> QED
  BY <1>2, <1>3, <1>4 DEF BusType

(* The steps from the found type to the count of its sightings.            *)
LEMMA CountingBacked ==
    ASSUME TypeOK, TracksBacked, CurrentBacked,
           NEW c \in Cameras, NEW t \in Types, c = ev.cam, t = cur,
           BusOld \/ BusGoesOn \/ BusDrop \/ BusTouch \/ BusCount \/ BusMore
    PROVE  TracksBacked' /\ CurrentBacked'
<1> DEFINE found == Found(c, t)
           run == chain[c][t]
<1>1. /\ busPc \in Counting
      /\ UNCHANGED <<now, SendRecords, ev>>
  BY DEF BusOld, BusGoesOn, BusDrop, BusTouch, BusCount, BusMore, alertVars, loopVars, Counting
<1>2. /\ ev.time \in Nat
      /\ run \in Policy!Runs /\ run.n \in Nat /\ run.last \in Nat \union {-1}
      /\ found \in MsgEvents /\ found.count \in Nat /\ found.lasttime \in Int
      /\ Backed(found, run, Suppressed(c, t))
  BY <1>1, TrackTypes, FoundBacked, GapAssumption DEF MsgEvents, Ancient
<1>3. ~Suppressed(c, t) /\ \A d \in Cameras, u \in Types : Suppressed(d, u)' = Suppressed(d, u)
  BY <1>1 DEF CurrentBacked, Suppressed
<1>4. UNCHANGED chain => OthersKept(c, t)
  BY <1>1 DEF OthersKept
<1>5. CASE BusOld
  <2>1. Store(c, t, found) /\ UNCHANGED <<chain, cur>> /\ busPc' = "drop"
    BY <1>5 DEF BusOld, loopVars
  <2>2. TracksBacked'
    BY <1>2, <1>3, <1>4, <2>1, WriteBacked
  <2> QED
    BY <1>1, <1>2, <1>3, <2>1, <2>2 DEF CurrentBacked, Counting
<1>6. CASE BusGoesOn
  <2>1. /\ Store(c, t, found) /\ UNCHANGED cur /\ busPc' = "touch"
        /\ ev.time - found.lasttime =< Gap
        /\ SightTypes(c, {t}, ev.time)
    BY <1>6 DEF BusGoesOn, TimeX, loopVars
  <2>2. /\ OthersKept(c, t)
        /\ chain'[c][t] = Policy!Extend(run, ev.time)
        /\ chain'[c][t].n \in Nat /\ chain'[c][t].last \in Nat
        /\ chain'[c][t].last >= ev.time /\ chain'[c][t].last >= run.last
    BY <1>1, <1>2, <2>1, SightOne
  <2>3. found.count < chain'[c][t].n
    BY <1>2, <2>1, <2>2, ExtendGrows DEF Backed
  <2>4. Backed(found, chain'[c][t], Suppressed(c, t)')
    BY <1>2, <1>3, <2>2, <2>3 DEF Backed
  <2> HIDE DEF found, run
  <2>5. TracksBacked' /\ Found(c, t)' = found
    BY <1>2, <2>1, <2>2, <2>4, WriteBacked
  <2> QED
    BY <1>1, <1>2, <1>3, <2>1, <2>2, <2>3, <2>5 DEF CurrentBacked, Counting
<1>7. CASE BusDrop
  <2>1. /\ tracks' = [tracks EXCEPT ![c] = Drop(@, t)] /\ busPc' = "types"
        /\ SightTypes(c, {t}, ev.time)
    BY <1>7 DEF BusDrop
  <2>2. OthersKept(c, t)
    BY <1>1, <1>2, <2>1, SightOne
  <2> QED
    BY <1>2, <2>1, <2>2, DropBacked DEF CurrentBacked, Counting
<1>8. CASE BusTouch
  <2> DEFINE m == [found EXCEPT !.lasttime = ev.time]
  <2>1. /\ Store(c, t, m) /\ UNCHANGED <<chain, cur>> /\ busPc' = "count"
        /\ found.count < run.n /\ run.last >= ev.time
    BY <1>8 DEF BusTouch, CurrentBacked, loopVars
  <2>2. m.count = found.count /\ m.lasttime = ev.time
    BY <1>2, SetParts
  <2>3. Backed(m, chain'[c][t], Suppressed(c, t)')
    BY <1>2, <1>3, <2>1, <2>2 DEF Backed
  <2> HIDE DEF m, found, run
  <2>4. TracksBacked' /\ Found(c, t)' = m
    BY <1>2, <1>4, <2>1, <2>3, WriteBacked
  <2> QED
    BY <1>1, <1>2, <1>3, <2>1, <2>2, <2>4 DEF CurrentBacked, Counting, run
<1>9. CASE BusCount
  <2>1. /\ Store(c, t, found) /\ UNCHANGED <<chain, cur>>
        /\ busPc' = IF found.count > MinCount THEN "clip" ELSE "more"
        /\ found.count < run.n /\ run.last >= ev.time
    BY <1>9 DEF BusCount, CurrentBacked, loopVars
  <2>2. run.n =< MinCount + 2
    BY <1>2, MinCountAssumption DEF Policy!Runs, Policy!Needed
  <2>3. found.count > MinCount => run.n = MinCount + 2
    BY <1>2, <2>1, <2>2, MinCountAssumption
  <2>4. found.count =< MinCount \/ found.count > MinCount
    BY <1>2, MinCountAssumption
  <2>5. TracksBacked' /\ Found(c, t)' = found
    BY <1>2, <1>3, <1>4, <2>1, WriteBacked
  <2> HIDE DEF found
  <2> QED
    BY <1>1, <1>2, <1>3, <2>1, <2>3, <2>4, <2>5 DEF CurrentBacked, Counting
<1>10. CASE BusMore
  <2> DEFINE m == [found EXCEPT !.count = @ + 1]
  <2>1. /\ Store(c, t, m) /\ UNCHANGED chain /\ busPc' = "types"
        /\ found.count < run.n /\ found.count =< MinCount
    BY <1>10 DEF BusMore, CurrentBacked
  <2>2. m.count = found.count + 1 /\ m.lasttime = found.lasttime
    BY <1>2, CountUp
  <2>3. Backed(m, chain'[c][t], Suppressed(c, t)')
    BY <1>2, <1>3, <2>1, <2>2, MinCountAssumption DEF Backed
  <2> HIDE DEF m, found, run
  <2>4. TracksBacked'
    BY <1>2, <1>4, <2>1, <2>3, WriteBacked
  <2> QED
    BY <2>1, <2>4 DEF CurrentBacked, Counting
<1> QED
  BY <1>5, <1>6, <1>7, <1>8, <1>9, <1>10

(* The mark and the forgetting of an alert.                                *)
LEMMA MarkBacked ==
    ASSUME TypeOK, TracksBacked, NEW c \in Cameras, NEW t \in Types, c = ev.cam, t = cur, BusMark
    PROVE  TracksBacked' /\ CurrentBacked'
<1> DEFINE found == Found(c, t)
           m == [found EXCEPT !.count = 0]
           run == chain[c][t]
<1>1. /\ UNCHANGED now /\ busPc' = "forget"
      /\ Store(c, t, m)
  BY TrackTypes DEF BusMark, Alerting
<1>2. /\ found \in MsgEvents /\ run \in Policy!Runs
      /\ Backed(found, run, Suppressed(c, t))
  BY <1>1, FoundBacked, TrackTypes
<1>3. OthersKept(c, t) /\ chain'[c][t] = [run EXCEPT !.n = 0]
  BY <1>1, MarkEffect DEF OthersKept
<1>4. chain'[c][t].n = 0 /\ chain'[c][t].last = run.last
  BY <1>2, <1>3, ResetRun
<1>5. m.count = 0 /\ m.lasttime = found.lasttime
  BY <1>2, SetParts
<1>6. Backed(m, chain'[c][t], Suppressed(c, t)')
  BY <1>2, <1>4, <1>5, MinCountAssumption DEF Backed
<1> HIDE DEF m, found, run
<1> QED
  BY <1>1, <1>3, <1>6, WriteBacked DEF CurrentBacked, Counting

LEMMA ForgetBacked ==
    ASSUME TypeOK, TracksBacked, BusForget
    PROVE  TracksBacked' /\ CurrentBacked'
<1>1. /\ ev.cam \in Cameras /\ cur \in Types /\ busPc' = "wait"
      /\ tracks' = [tracks EXCEPT ![ev.cam] = Drop(@, cur)]
      /\ OthersKept(ev.cam, cur)
  BY TrackTypes DEF BusForget, Alerting, OthersKept
<1> QED
  BY <1>1, DropBacked DEF CurrentBacked, Counting

LEMMA StepBacked ==
    ASSUME TypeOK, TypeOK', TracksBacked, CurrentBacked, [Next]_vars
    PROVE  TracksBacked' /\ CurrentBacked'
<1>1. CASE BusFirstInit
  BY <1>1, FirstInitBacked
<1>2. ASSUME NEW t \in Types, BusType(t) PROVE TracksBacked' /\ CurrentBacked'
  BY <1>2, TypeBacked
<1>3. CASE BusOld \/ BusGoesOn \/ BusDrop \/ BusTouch \/ BusCount \/ BusMore
  <2>1. ev.cam \in Cameras /\ cur \in Types
    BY <1>3, TrackTypes
       DEF BusOld, BusGoesOn, BusDrop, BusTouch, BusCount, BusMore, Counting
  <2> QED
    BY <1>3, <2>1, CountingBacked
<1>4. CASE BusMark
  <2>1. ev.cam \in Cameras /\ cur \in Types
    BY <1>4, TrackTypes DEF BusMark, Alerting
  <2> QED
    BY <1>4, <2>1, MarkBacked
<1>5. CASE BusForget
  BY <1>5, ForgetBacked
<1>6. CASE /\ UNCHANGED <<chain, SendRecords, tracks, now>>
           /\ \/ busPc' \notin Counting \union {"mark"}
              \/ busPc = "clip" /\ busPc' = "mark" /\ UNCHANGED <<ev, cur>>
  BY <1>6, KeepsBacked DEF TypeOK
<1>7. CASE UNCHANGED <<chain, SendRecords, tracks, busPc, ev, cur>> /\ now =< now'
  BY <1>7, KeepsBacked DEF TypeOK
<1>8. ASSUME NEW c \in Cameras, RemoveCamera(c) PROVE TracksBacked' /\ CurrentBacked'
  <2>1. /\ UNCHANGED <<chain, SendRecords, busPc, ev, cur, now>>
        /\ \A d \in Cameras : tracks'[d] = tracks[d] \/ tracks'[d] = Empty
    BY <1>8 DEF RemoveCamera, TypeOK, alertVars, loopVars
  <2> QED
    BY <2>1, KeepsBacked DEF TypeOK
<1>9. ASSUME BusPop \/ (\E f \in Faces : BusFace(f)) \/ BusFacesDone \/ BusEnter \/ BusClip
              \/ BusAbandon \/ (\E delivered \in BOOLEAN : BusSend(delivered)) \/ BusFail
              \/ BusTypesDone \/ BusEnd \/ BusPollAgain
      PROVE  /\ UNCHANGED <<chain, SendRecords, tracks, now>>
             /\ \/ busPc' \notin Counting \union {"mark"}
                \/ busPc = "clip" /\ busPc' = "mark" /\ UNCHANGED <<ev, cur>>
  BY <1>9 DEF BusPop, BusFace, BusFacesDone, BusEnter, BusClip, BusAbandon, BusSend, BusFail,
     BusTypesDone, BusEnd, BusPollAgain, EndWait, alertVars, cacheVars, loopVars, Counting
<1>10. ASSUME NEW c \in Cameras,
              \/ PushQueue(c)
              \/ \E S \in SUBSET Types, F \in SUBSET Faces, time \in 0..now : HandleEvent(c, S, F, time)
       PROVE  UNCHANGED <<chain, SendRecords, tracks, busPc, ev, cur>> /\ now =< now'
  <2>1. UNCHANGED <<chain, SendRecords, tracks, busPc, ev, cur, now>>
    BY <1>10 DEF PushQueue, HandleEvent, alertVars, cacheVars, loopVars
  <2> QED
    BY <2>1 DEF TypeOK
<1>11. CASE UNCHANGED vars
  BY <1>7, <1>11 DEF vars, alertVars, cacheVars, loopVars, TypeOK
<1>12. CASE Tick
  BY <1>7, <1>12 DEF Tick, alertVars, cacheVars, loopVars, TypeOK
<1> QED
  BY <1>1, <1>2, <1>3, <1>4, <1>5, <1>6, <1>7, <1>8, <1>9, <1>10, <1>11, <1>12
     DEF Next, BusStep, EnvStep

----------------------------------------------------------------------------
(* Records and posts.                                                      *)

LEMMA PostTypes ==
    ASSUME TypeOK
    PROVE  /\ now \in Nat
           /\ \A c \in Cameras, t \in Types :
                /\ SendRecords[c][t] \in Nat \union {-1}
                /\ Len(posts[c][t]) \in Nat
           /\ busPc \in Alerting =>
                waiting.cam \in Cameras /\ waiting.type \in Types /\ waiting.at \in Nat
           /\ busPc # "idle" => ev.cam \in Cameras
           /\ busPc \in Counting \union Alerting => cur \in Types /\ busPc # "idle"
<1>1. \A c \in Cameras, t \in Types :
         posts[c][t] \in Seq(Nat \union {-1}) /\ SendRecords[c][t] \in Nat \union {-1}
  BY DEF TypeOK
<1>2. \A c \in Cameras, t \in Types : Len(posts[c][t]) \in Nat
  BY <1>1
<1> QED
  BY <1>1, <1>2 DEF TypeOK, Events, Alerts, Alerting, Counting

(* The alert is marked: Interval or more after the last one.               *)
LEMMA MarkSpaced ==
    ASSUME TypeOK, CurrentBacked, PostsMarked, PostsSpaced, BusMark
    PROVE  PostsMarked' /\ PostsSpaced'
<1>1. /\ busPc = "mark" /\ busPc' = "forget" /\ ev.cam \in Cameras /\ cur \in Types
      /\ waiting.cam = ev.cam /\ waiting.type = cur
      /\ UNCHANGED <<now, posts, waiting, ev, cur>>
  BY PostTypes DEF BusMark, PostsMarked, Alerting, loopVars
<1>2. \A c \in Cameras, t \in Types :
         SendRecords'[c][t] = IF c = ev.cam /\ t = cur THEN now ELSE SendRecords[c][t]
  BY MarkEffect
<1>3. \A c \in Cameras, t \in Types :
         /\ SendRecords[c][t] \in Nat \union {-1} /\ now \in Nat /\ SendRecords[c][t] =< now
         /\ \A i \in 1..Len(posts[c][t]) : posts[c][t][i] \in 0..SendRecords[c][t]
  BY PostTypes DEF PostsMarked
<1>4. SendRecords[ev.cam][cur] = -1 \/ now - SendRecords[ev.cam][cur] >= Interval
  BY <1>1, <1>3, IntervalAssumption DEF CurrentBacked, Suppressed
<1>5. \A i \in 1..Len(posts[ev.cam][cur]) :
         posts[ev.cam][cur][i] \in 0..now /\ now - posts[ev.cam][cur][i] >= Interval
  BY <1>1, <1>3, <1>4, IntervalAssumption
<1>6. \A c \in Cameras, t \in Types :
         /\ SendRecords'[c][t] =< now
         /\ \A i \in 1..Len(posts[c][t]) : posts[c][t][i] \in 0..SendRecords'[c][t]
  BY <1>2, <1>3, <1>5
<1>7. /\ SendRecords'[ev.cam][cur] = now /\ now # -1
      /\ \A i \in 1..Len(posts'[ev.cam][cur]) : now - posts'[ev.cam][cur][i] >= Interval
  BY <1>1, <1>2, <1>3, <1>5
<1>8. PostsMarked'
  <2>1. \A c \in Cameras, t \in Types :
           /\ SendRecords'[c][t] =< now'
           /\ \A i \in 1..Len(posts'[c][t]) : posts'[c][t][i] \in 0..SendRecords'[c][t]
    BY <1>1, <1>6
  <2>2. waiting'.cam = ev'.cam /\ waiting'.type = cur'
    BY <1>1
  <2>3. /\ SendRecords'[ev'.cam][cur'] # -1
        /\ \A i \in 1..Len(posts'[ev'.cam][cur']) :
             SendRecords'[ev'.cam][cur'] - posts'[ev'.cam][cur'][i] >= Interval
    BY <1>1, <1>7
  <2> QED
    BY <2>1, <2>2, <2>3 DEF PostsMarked
<1> QED
  BY <1>1, <1>8 DEF PostsSpaced

LEMMA SendSpaced ==
    ASSUME TypeOK, PostsMarked, PostsSpaced, NEW delivered \in BOOLEAN, BusSend(delivered)
    PROVE  PostsMarked' /\ PostsSpaced'
<1> DEFINE c == waiting.cam
           t == waiting.type
           n == Len(posts[c][t])
           at == SendRecords[c][t]
<1>1. /\ busPc = "wait" /\ busPc' = "types" /\ c \in Cameras /\ t \in Types
      /\ UNCHANGED <<now, SendRecords>>
  BY PostTypes DEF BusSend, EndWait, Alerting
<1>2. CASE UNCHANGED posts
  BY <1>1, <1>2 DEF PostsMarked, PostsSpaced, Alerting
<1>3. CASE posts' = [posts EXCEPT ![c][t] = Append(@, at)]
  <2>1. /\ \A d \in Cameras, u \in Types : d # c \/ u # t => posts'[d][u] = posts[d][u]
        /\ posts'[c][t] = Append(posts[c][t], at)
    BY <1>1, <1>3 DEF TypeOK
  <2>2. /\ n \in Nat /\ Len(posts'[c][t]) = n + 1
        /\ \A i \in 1..n : posts'[c][t][i] = posts[c][t][i]
        /\ posts'[c][t][n + 1] = at
    <3>1. posts[c][t] \in Seq(Nat \union {-1}) /\ at \in Nat \union {-1}
      BY <1>1 DEF TypeOK
    <3> HIDE DEF c, t, at
    <3> QED
      BY <2>1, <3>1
  <2>3. /\ at \in Nat /\ at \in 0..at
        /\ \A i \in 1..n : posts[c][t][i] \in 0..at /\ at - posts[c][t][i] >= Interval
    BY <1>1, PostTypes DEF PostsMarked, Alerting
  <2> HIDE DEF n, c, t, at
  <2>4. \A i \in 1..(n + 1) : i \in 1..n \/ i = n + 1
    BY <2>2
  <2>5. ASSUME NEW i \in 1..(n + 1), NEW j \in 1..(n + 1), i < j
        PROVE  posts'[c][t][j] - posts'[c][t][i] >= Interval
    <3>1. i \in 1..n
      BY <2>2, <2>5
    <3>2. CASE j \in 1..n
      BY <1>1, <2>2, <2>5, <3>1, <3>2 DEF PostsSpaced, n
    <3>3. CASE j = n + 1
      BY <2>2, <2>3, <3>1, <3>3
    <3> QED
      BY <2>4, <3>2, <3>3
  <2>6. \A i \in 1..(n + 1) : posts'[c][t][i] \in 0..at
    BY <2>2, <2>3, <2>4
  <2>7. PostsSpaced'
    <3> SUFFICES ASSUME NEW d \in Cameras, NEW u \in Types,
                        NEW i \in 1..Len(posts'[d][u]), NEW j \in 1..Len(posts'[d][u]), i < j
                 PROVE  posts'[d][u][j] - posts'[d][u][i] >= Interval
      BY DEF PostsSpaced
    <3>1. CASE d = c /\ u = t
      BY <2>2, <2>5, <3>1
    <3>2. CASE d # c \/ u # t
      BY <2>1, <3>2 DEF PostsSpaced
    <3> QED
      BY <3>1, <3>2
  <2>8. ASSUME NEW d \in Cameras, NEW u \in Types
        PROVE  /\ SendRecords'[d][u] =< now'
               /\ \A i \in 1..Len(posts'[d][u]) : posts'[d][u][i] \in 0..SendRecords'[d][u]
    <3>1. CASE d = c /\ u = t
      BY <1>1, <2>2, <2>6, <3>1 DEF PostsMarked, at
    <3>2. CASE d # c \/ u # t
      BY <1>1, <2>1, <3>2 DEF PostsMarked
    <3> QED
      BY <3>1, <3>2
  <2> QED
    BY <1>1, <2>7, <2>8 DEF PostsMarked, Alerting
<1> QED
  BY <1>2, <1>3 DEF BusSend

LEMMA StepPosts ==
    ASSUME TypeOK, CurrentBacked, PostsMarked, PostsSpaced, [Next]_vars
    PROVE  PostsMarked' /\ PostsSpaced'
<1>1. CASE BusMark
  BY <1>1, MarkSpaced
<1>2. ASSUME NEW delivered \in BOOLEAN, BusSend(delivered) PROVE PostsMarked' /\ PostsSpaced'
  BY <1>2, SendSpaced
<1>3. CASE /\ UNCHANGED <<SendRecords, posts>> /\ now =< now' /\ now' \in Nat
           /\ \/ busPc' \notin Alerting
              \/ /\ busPc \in Alerting /\ UNCHANGED <<waiting, ev, cur>>
                 /\ busPc' \in {"forget", "wait"} => busPc \in {"forget", "wait"}
              \/ busPc' = "mark" /\ waiting'.cam = ev'.cam /\ waiting'.type = cur'
  BY <1>3, PostTypes DEF PostsMarked, PostsSpaced, Alerting
<1>4. ASSUME BusStep, ~BusMark, \A delivered \in BOOLEAN : ~BusSend(delivered)
      PROVE  /\ UNCHANGED <<SendRecords, posts, now>>
             /\ \/ busPc' \notin Alerting
                \/ /\ busPc \in Alerting /\ UNCHANGED <<waiting, ev, cur>>
                   /\ busPc' \in {"forget", "wait"} => busPc \in {"forget", "wait"}
                \/ busPc' = "mark" /\ waiting'.cam = ev'.cam /\ waiting'.type = cur'
  <2>1. CASE BusClip
    BY <2>1 DEF BusClip, alertVars, loopVars
  <2>2. CASE BusForget \/ BusPollAgain
    BY <2>2 DEF BusForget, BusPollAgain, alertVars, loopVars, Alerting
  <2>3. CASE BusAbandon \/ BusFail
    BY <2>3 DEF BusAbandon, BusFail, EndWait, Alerting
  <2>4. CASE BusPop \/ (\E f \in Faces : BusFace(f)) \/ BusFacesDone \/ BusEnter \/ BusFirstInit
             \/ (\E t \in Types : BusType(t)) \/ BusTypesDone \/ BusEnd
    BY <2>4 DEF BusPop, BusFace, BusFacesDone, BusEnter, BusFirstInit, BusType, BusSkip, BusInsert,
       BusFinds, BusTypesDone, BusEnd, alertVars, Alerting
  <2>5. CASE BusOld \/ BusGoesOn \/ BusDrop \/ BusTouch \/ BusCount \/ BusMore
    BY <2>5 DEF BusOld, BusGoesOn, BusDrop, BusTouch, BusCount, BusMore, alertVars, Alerting
  <2> QED
    BY <1>4, <2>1, <2>2, <2>3, <2>4, <2>5 DEF BusStep
<1>5. ASSUME EnvStep \/ UNCHANGED vars
      PROVE  UNCHANGED <<SendRecords, posts, busPc, waiting, ev, cur>> /\ now =< now' /\ now' \in Nat
  <2>1. now' = now \/ now' = now + 1
    BY <1>5 DEF EnvStep, Tick, HandleEvent, PushQueue, RemoveCamera, vars
  <2>2. UNCHANGED <<SendRecords, posts, busPc, waiting, ev, cur>>
    BY <1>5 DEF EnvStep, Tick, HandleEvent, PushQueue, RemoveCamera, alertVars, loopVars, vars
  <2> QED
    BY <2>1, <2>2, PostTypes
<1>6. now =< now /\ now \in Nat
  BY PostTypes
<1> QED
  BY <1>1, <1>2, <1>3, <1>4, <1>5, <1>6 DEF Next, Alerting

----------------------------------------------------------------------------
(* The invariant.                                                          *)

LEMMA InvInit == Init => IInv
<1> SUFFICES ASSUME Init PROVE IInv
  OBVIOUS
<1>1. TypeOK
  BY TypeInit
<1>2. EventsArePast /\ CurrentBacked
  BY DEF Init, EventsArePast, CurrentBacked, Counting
<1>3. TracksBacked
  BY EmptyMap DEF Init, TracksBacked
<1>4. PostsMarked /\ PostsSpaced
  BY DEF Init, PostsMarked, PostsSpaced, Alerting
<1> QED
  BY <1>1, <1>2, <1>3, <1>4 DEF IInv

LEMMA InvStep == IInv /\ [Next]_vars => IInv'
<1> SUFFICES ASSUME IInv, [Next]_vars PROVE IInv'
  OBVIOUS
<1>1. TypeOK'
  BY TypeStep DEF IInv
<1>2. EventsArePast'
  BY StepEventsArePast DEF IInv
<1>3. TracksBacked' /\ CurrentBacked'
  BY <1>1, StepBacked DEF IInv
<1>4. PostsMarked' /\ PostsSpaced'
  BY StepPosts DEF IInv
<1> QED
  BY <1>1, <1>2, <1>3, <1>4 DEF IInv

(* The inductive invariant holds of every reachable state of the event     *)
(* centre: counts backed by sightings, posts marked and spaced.            *)
THEOREM InvariantHolds == Spec => []IInv
BY InvInit, InvStep, PTL DEF Spec

(* No two posts for one type of one camera stand for alerts less than      *)
(* Interval apart: the check of EventCenter.cpp:306-313, made before the   *)
(* bus waits for the clip, is enough although the cache of the camera may  *)
(* vanish at any point between.                                            *)
THEOREM PostsAreSpaced == Spec => []PostsSpaced
<1>1. IInv => PostsSpaced
  BY DEF IInv
<1> QED
  BY <1>1, InvariantHolds, PTL

(* The count of EventCenter.cpp:327 never runs ahead of the sightings.     *)
THEOREM CountsAreBacked == Spec => []TracksBacked
<1>1. IInv => TracksBacked
  BY DEF IInv
<1> QED
  BY <1>1, InvariantHolds, PTL

----------------------------------------------------------------------------
(* The clips.                                                              *)

LEMMA ClipsStep == TypeOK /\ ClipsAccounted /\ [Next]_vars => ClipsAccounted'
<1> SUFFICES ASSUME TypeOK, ClipsAccounted, [Next]_vars
             PROVE  ClipsAccounted'
  OBVIOUS
<1>1. ASSUME NEW m, NEW c \in Cameras, video2' = [video2 EXCEPT ![c] = m]
      PROVE  \A d \in Cameras : video2'[d] = IF d = c THEN m ELSE video2[d]
  BY <1>1 DEF TypeOK
<1>2. CASE BusClip
  <2> DEFINE open == Put(video2[ev.cam], now, IF now \in DOMAIN video2[ev.cam]
                                                THEN video2[ev.cam][now] + 1 ELSE 1)
  <2>1. /\ busPc = "clip" /\ busPc' = "mark" /\ waiting'.cam = ev.cam /\ waiting'.at = now
        /\ UNCHANGED abandoned
        /\ video2' = [video2 EXCEPT ![ev.cam] = open]
        /\ ev.cam \in Cameras
    BY <1>2, PostTypes DEF BusClip
  <2>2. DOMAIN open = DOMAIN video2[ev.cam] \union {now}
    BY DEF Put
  <2> HIDE DEF open
  <2> QED
    BY <1>1, <2>1, <2>2 DEF ClipsAccounted, Alerting
<1>3. ASSUME NEW delivered \in BOOLEAN, BusSend(delivered) PROVE ClipsAccounted'
  <2> DEFINE rest == Drop(video2[waiting.cam], waiting.at)
  <2>1. /\ busPc = "wait" /\ busPc' = "types" /\ waiting.cam \in Cameras
        /\ UNCHANGED abandoned
        /\ video2' = [video2 EXCEPT ![waiting.cam] = rest]
    BY <1>3, PostTypes DEF BusSend, EndWait, Alerting
  <2>2. DOMAIN rest = DOMAIN video2[waiting.cam] \ {waiting.at}
    BY DEF Drop, Restrict
  <2> HIDE DEF rest
  <2>3. \A d \in Cameras : video2'[d] = IF d = waiting.cam THEN rest ELSE video2[d]
    BY <1>1, <2>1
  <2>4. \A d \in Cameras : DOMAIN video2[d] \ abandoned[d] \subseteq
                              IF waiting.cam = d THEN {waiting.at} ELSE {}
    BY <2>1 DEF ClipsAccounted, Alerting
  <2>5. \A d \in Cameras : DOMAIN video2'[d] \ abandoned[d] \subseteq {}
    BY <2>2, <2>3, <2>4
  <2> QED
    BY <2>1, <2>5 DEF ClipsAccounted, Alerting
<1>4. CASE BusAbandon \/ BusFail
  <2>1. /\ busPc = "wait" /\ busPc' = "types" /\ waiting.cam \in Cameras
        /\ abandoned' = [abandoned EXCEPT ![waiting.cam] = @ \union {waiting.at}]
        /\ UNCHANGED video2
    BY <1>4, PostTypes DEF BusAbandon, BusFail, EndWait, Alerting
  <2> QED
    BY <2>1 DEF ClipsAccounted, TypeOK, Alerting
<1>5. ASSUME NEW c \in Cameras, PushQueue(c) PROVE ClipsAccounted'
  <2>1. UNCHANGED <<busPc, waiting, abandoned>>
    BY <1>5 DEF PushQueue, alertVars
  <2>2. \A d \in Cameras : DOMAIN video2'[d] = DOMAIN video2[d]
    BY <1>5 DEF PushQueue, TypeOK
  <2> QED
    BY <2>1, <2>2 DEF ClipsAccounted
<1>6. CASE UNCHANGED <<video2, abandoned>> /\ busPc \notin Alerting
  BY <1>6 DEF ClipsAccounted
<1>7. CASE /\ UNCHANGED <<video2, abandoned, waiting>>
           /\ UNCHANGED busPc \/ (busPc \in Alerting /\ busPc' \in Alerting)
  BY <1>7 DEF ClipsAccounted
<1>8. ASSUME BusStep, ~BusClip, \A delivered \in BOOLEAN : ~BusSend(delivered),
             ~BusAbandon, ~BusFail
      PROVE  \/ UNCHANGED <<video2, abandoned>> /\ busPc \notin Alerting
             \/ /\ UNCHANGED <<video2, abandoned, waiting>>
                /\ UNCHANGED busPc \/ (busPc \in Alerting /\ busPc' \in Alerting)
  BY <1>8 DEF BusStep, BusPop, BusFace, BusFacesDone, BusEnter, BusFirstInit, BusType, BusSkip,
     BusInsert, BusFinds, BusOld, BusGoesOn, BusDrop, BusTouch, BusCount, BusMore, BusMark,
     BusForget, BusPollAgain, BusTypesDone, BusEnd, alertVars, Alerting
<1>9. ASSUME EnvStep, \A c \in Cameras : ~PushQueue(c)
      PROVE  UNCHANGED <<video2, abandoned, busPc, waiting>>
  BY <1>9 DEF EnvStep, Tick, HandleEvent, RemoveCamera, alertVars
<1>10. CASE UNCHANGED vars
  BY <1>7, <1>10 DEF vars, alertVars
<1> QED
  BY <1>2, <1>3, <1>4, <1>5, <1>6, <1>7, <1>8, <1>9, <1>10 DEF Next

(* Every clip still being filled is that of the alert in progress or of    *)
(* one that was given up: sending an alert leaks none.                     *)
THEOREM ClipsAreAccounted == Spec => []ClipsAccounted
<1>1. Init => ClipsAccounted
  BY EmptyMap DEF Init, ClipsAccounted, Alerting
<1> QED
  BY <1>1, ClipsStep, TypesCorrect, PTL DEF Spec

----------------------------------------------------------------------------
(* EventCenter implements AlertPolicy.                                     *)

LEMMA PolicyInit == Init => Policy!Init
BY DEF Init, Policy!Init, Policy!Never

LEMMA PolicyStep == IInv /\ [Next]_vars => [Policy!Next]_(Policy!vars)
<1> SUFFICES ASSUME IInv, [Next]_vars PROVE [Policy!Next]_(Policy!vars)
  OBVIOUS
<1>0. TypeOK /\ EventsArePast
  BY DEF IInv
<1>1. CASE Tick
  BY <1>1 DEF Tick, alertVars, Policy!Next, Policy!Tick
<1>2. ASSUME busPc # "idle", NEW S \in SUBSET Types, SightTypes(ev.cam, S, ev.time),
             UNCHANGED <<now, SendRecords>>
      PROVE  Policy!Next
  <2>1. ev.cam \in Cameras /\ ev.time \in 0..now
    BY <1>0, <1>2, TrackTypes, QueueTimes DEF EventsArePast
  <2>2. Policy!Sight(ev.cam, S, ev.time)
    BY <1>2 DEF SightTypes, Policy!Sight
  <2> QED
    BY <2>1, <2>2 DEF Policy!Next
<1>3. CASE BusFirstInit
  BY <1>0, <1>2, <1>3, TrackTypes DEF BusFirstInit, alertVars
<1>4. ASSUME NEW t \in Types, BusType(t)
      PROVE  Policy!Next \/ UNCHANGED <<now, chain, SendRecords>>
  BY <1>2, <1>4 DEF BusType, BusSkip, BusInsert, BusFinds, alertVars
<1>5. CASE BusGoesOn \/ BusDrop
  <2>1. {cur} \in SUBSET Types
    BY <1>0, <1>5, TrackTypes DEF BusGoesOn, BusDrop, Counting
  <2> QED
    BY <1>2, <1>5, <2>1 DEF BusGoesOn, BusDrop, alertVars
<1>6. CASE BusMark
  <2>1. ev.cam \in Cameras /\ cur \in Types /\ busPc = "mark"
    BY <1>0, <1>6, TrackTypes DEF BusMark, Alerting
  <2>2. chain[ev.cam][cur].n = MinCount + 2 /\ ~Suppressed(ev.cam, cur)
    BY <2>1 DEF IInv, CurrentBacked
  <2>3. SendRecords[ev.cam][cur] # -1 => now - SendRecords[ev.cam][cur] >= Interval
    BY <1>0, <2>1, <2>2, PostTypes, IntervalAssumption DEF Suppressed
  <2>4. Policy!Raise(ev.cam, cur)
    BY <1>6, <2>2, <2>3 DEF BusMark, Policy!Raise, Policy!Needed, Policy!Never
  <2> QED
    BY <2>1, <2>4 DEF Policy!Next
<1>7. ASSUME BusStep, ~BusFirstInit, \A t \in Types : ~BusType(t), ~BusGoesOn, ~BusDrop, ~BusMark
      PROVE  UNCHANGED <<now, chain, SendRecords>>
  BY <1>7 DEF BusStep, BusPop, BusFace, BusFacesDone, BusEnter, BusOld, BusTouch, BusCount, BusMore,
     BusClip, BusForget, BusPollAgain, BusAbandon, BusSend, BusFail, BusTypesDone, BusEnd, EndWait,
     alertVars
<1>8. ASSUME EnvStep, ~Tick PROVE UNCHANGED <<now, chain, SendRecords>>
  BY <1>8 DEF EnvStep, HandleEvent, PushQueue, RemoveCamera, alertVars
<1>9. CASE UNCHANGED vars
  BY <1>9 DEF vars, alertVars, Policy!vars
<1> QED
  BY <1>1, <1>3, <1>4, <1>5, <1>6, <1>7, <1>8, <1>9 DEF Next, Policy!vars

(* Alerts are raised on the evidence and at the pace AlertPolicy states.   *)
THEOREM AlertsImplementPolicy == Spec => AlertsFollowPolicy
BY PolicyInit, PolicyStep, InvariantHolds, PTL DEF Spec, AlertsFollowPolicy, Policy!Spec

----------------------------------------------------------------------------
(* The bus comes back.  Each of its loops has a count that falls at every  *)
(* turn: the faces and the types that are left, and the polls.             *)

Facing == Cardinality(todoFaces)
Typing == Cardinality(todoTypes)
Polling == MaxPolls + 1 - polls

At(p) == busPc = p

(* eventMsgHandle polls at most once more than it needs to give up.        *)
PollsBounded == polls =< MaxPolls + 1

LEMMA PollsStayBounded == Spec => []PollsBounded
<1>1. Init => PollsBounded
  BY ClipAssumption DEF Init, PollsBounded
<1>2. ASSUME TypeOK, PollsBounded, [Next]_vars
      PROVE  PollsBounded'
  <2>1. CASE BusPollAgain
    BY <1>2, <2>1, ClipAssumption DEF BusPollAgain, ClipReady, TypeOK, PollsBounded
  <2>2. ASSUME BusStep, ~BusPollAgain
        PROVE  polls' = 0 \/ polls' = polls
    BY <2>2 DEF BusStep, BusPop, BusFace, BusFacesDone, BusEnter, BusFirstInit, BusType, BusOld,
       BusGoesOn, BusDrop, BusTouch, BusCount, BusMore, BusClip, BusMark, BusForget, BusAbandon,
       BusSend, BusFail, EndWait, BusTypesDone, BusEnd, alertVars
  <2>3. ASSUME EnvStep \/ UNCHANGED vars
        PROVE  polls' = polls
    BY <2>3 DEF EnvStep, Tick, HandleEvent, PushQueue, RemoveCamera, alertVars, vars
  <2> QED
    BY <1>2, <2>1, <2>2, <2>3, ClipAssumption DEF Next, PollsBounded
<1> QED
  BY <1>1, <1>2, TypesCorrect, PTL DEF Spec

(* What is left to do is finite and becomes less with every element.       *)
LEMMA LeftToDo ==
  ASSUME TypeOK
  PROVE  /\ IsFiniteSet(todoFaces) /\ IsFiniteSet(todoTypes)
         /\ Facing \in Nat /\ Typing \in Nat
         /\ \A f \in todoFaces : Cardinality(todoFaces \ {f}) = Facing - 1
         /\ \A t \in todoTypes : Cardinality(todoTypes \ {t}) = Typing - 1
BY NamesAssumption, FS_Subset, FS_CardinalityType, FS_RemoveElement DEF TypeOK, Facing, Typing

(* Where a step of the bus leads, and which count falls.                   *)
LEMMA BusMoves ==
  ASSUME TypeOK, PollsBounded, BusStep, ~At("idle")
  PROVE  \/ /\ UNCHANGED <<Facing, Typing, Polling>>
            /\ \/ At("faces") /\ At("enter")'
               \/ At("enter") /\ At("end")'
               \/ At("types") /\ At("end")'
               \/ At("age") /\ (At("drop") \/ At("touch"))'
               \/ At("drop") /\ At("types")'
               \/ At("touch") /\ At("count")'
               \/ At("count") /\ (At("more") \/ At("clip"))'
               \/ At("more") /\ At("types")'
               \/ At("clip") /\ At("mark")'
               \/ At("mark") /\ At("forget")'
               \/ At("end") /\ At("idle")'
         \/ At("faces") /\ At("faces")' /\ Facing' = Facing - 1
         \/ At("enter") /\ At("types")' /\ UNCHANGED Facing
         \/ At("types") /\ (At("types") \/ At("age"))' /\ Typing' = Typing - 1 /\ UNCHANGED Facing
         \/ At("forget") /\ At("wait")' /\ UNCHANGED <<Facing, Typing>>
         \/ At("wait") /\ At("types")' /\ UNCHANGED <<Facing, Typing>>
         \/ At("wait") /\ At("wait")' /\ Polling' = Polling - 1 /\ UNCHANGED <<Facing, Typing>>
<1>1. ASSUME NEW f \in Faces, BusFace(f)
      PROVE  At("faces") /\ At("faces")' /\ Facing' = Facing - 1
  BY <1>1, LeftToDo DEF BusFace, At, Facing
<1>2. ASSUME NEW t \in Types, BusType(t)
      PROVE  /\ At("types") /\ (At("types") \/ At("age"))'
             /\ Typing' = Typing - 1 /\ UNCHANGED Facing
  BY <1>2, LeftToDo DEF BusType, BusSkip, BusInsert, BusFinds, At, Facing, Typing
<1>3. CASE BusPollAgain
  BY <1>3, ClipAssumption DEF BusPollAgain, loopVars, At, Facing, Typing, Polling, TypeOK
<1>4. CASE BusAbandon \/ BusFail \/ (\E delivered \in BOOLEAN : BusSend(delivered)) \/ BusForget
  BY <1>4 DEF BusAbandon, BusFail, BusSend, BusForget, EndWait, loopVars, At, Facing, Typing
<1>5. CASE BusEnter \/ BusFirstInit \/ BusOld \/ BusGoesOn \/ BusDrop \/ BusTouch
  BY <1>5 DEF BusEnter, BusFirstInit, BusOld, BusGoesOn, BusDrop, BusTouch, loopVars, alertVars, At,
              Facing, Typing, Polling
<1>6. CASE BusCount \/ BusMore \/ BusClip \/ BusMark
  BY <1>6 DEF BusCount, BusMore, BusClip, BusMark, loopVars, alertVars, At, Facing, Typing, Polling
<1>7. CASE BusFacesDone \/ BusTypesDone \/ BusEnd \/ BusPop
  BY <1>7 DEF BusFacesDone, BusTypesDone, BusEnd, BusPop, loopVars, alertVars, At, Facing, Typing,
              Polling
<1> QED
  BY <1>1, <1>2, <1>3, <1>4, <1>5, <1>6, <1>7 DEF BusStep

(* Nobody else moves the bus.                                              *)
LEMMA OthersLeaveBus ==
  ASSUME [Next]_vars, ~BusStep
  PROVE  UNCHANGED <<busPc, Facing, Typing, Polling>>
BY DEF Next, vars, loopVars, alertVars, EnvStep, Tick, HandleEvent, PushQueue, RemoveCamera, Facing,
       Typing, Polling

(* The guards of the actions of BusStep, in their order.                   *)
BusReady ==
  \/ At("idle") /\ tempQueue # <<>>
  \/ At("faces") /\ \E f \in Faces : f \in todoFaces
  \/ At("faces") /\ todoFaces = {}
  \/ At("enter") /\ (cached[ev.cam] \/ ~cached[ev.cam])
  \/ At("types") /\ \E t \in todoTypes \intersect Types :
        \/ Suppressed(ev.cam, t)
        \/ ~Suppressed(ev.cam, t) /\ t \notin DOMAIN tracks[ev.cam]
        \/ ~Suppressed(ev.cam, t) /\ t \in DOMAIN tracks[ev.cam]
  \/ At("age") /\ (TimeX > Gap \/ TimeX =< Gap)
  \/ At("drop") \/ At("touch") \/ At("count") \/ At("more")
  \/ At("clip") \/ At("mark") \/ At("forget")
  \/ At("wait") /\ cached[waiting.cam] /\ (~ClipReady \/ ClipReady)
  \/ At("wait") /\ ~cached[waiting.cam]
  \/ At("types") /\ todoTypes = {}
  \/ At("end")

(* What ENABLED says of such actions, each of which gives every variable   *)
(* its next value and changes one: a guard that holds lets it step.        *)
BusSteps == BusReady => ENABLED <<BusStep>>_vars

(* A guard holds at every place of the bus.                                *)
LEMMA BusIsReady ==
  ASSUME TypeOK, ~At("idle")
  PROVE  BusReady
<1>1. busPc \in Pcs \ {"idle"}
  BY DEF At, TypeOK
<1>2. CASE At("faces")
  BY <1>2 DEF BusReady, TypeOK
<1>3. CASE At("types")
  <2>1. CASE todoTypes = {}
    BY <1>3, <2>1 DEF BusReady
  <2>2. ASSUME NEW t \in todoTypes
        PROVE  BusReady
    BY <1>3, <2>2 DEF BusReady, TypeOK
  <2> QED
    BY <2>1, <2>2
<1>4. CASE At("age")
  <2>1. ev.cam \in Cameras /\ ev.time \in Nat /\ cur \in Types
    BY <1>4, TrackTypes DEF At, Counting
  <2>2. Found(ev.cam, cur).lasttime \in Int
    BY <2>1, FoundType, GapAssumption DEF MsgEvents, Ancient
  <2> QED
    BY <1>4, <2>1, <2>2, GapAssumption DEF BusReady, TimeX
<1> QED
  BY <1>1, <1>2, <1>3, <1>4 DEF BusReady, At, Pcs, Counting, Alerting

(* The bus takes up the next event after every event, whatever the cameras *)
(* do: no loop of DealEvent and no wait of eventMsgHandle is for ever.     *)
THEOREM BusComesBack ==
  /\ FairSpec /\ []BusSteps
  /\ NoEndlessFall(Facing) /\ NoEndlessFall(Typing) /\ NoEndlessFall(Polling)
  => BusReturns
<1> DEFINE Inv == TypeOK /\ PollsBounded
           InType == \/ At("age") \/ At("drop") \/ At("touch") \/ At("count") \/ At("more")
                     \/ At("clip") \/ At("mark") \/ At("forget") \/ At("wait")
           Late == At("types") \/ InType \/ At("end")
           Runs == []Inv /\ [][Next]_vars /\ []BusSteps /\ WF_vars(BusStep)
<1>1. Spec => []Inv
  BY TypesCorrect, PollsStayBounded, PTL
<1>2. Inv => Facing \in Nat /\ Typing \in Nat /\ Polling \in Nat
  BY LeftToDo, ClipAssumption DEF TypeOK, PollsBounded, Polling
<1>3. Inv => At("idle") \/ At("faces") \/ At("enter") \/ Late
  BY DEF TypeOK, Pcs, Counting, Alerting, At
<1> DEFINE Moves ==
             /\ Facing' =< Facing
             /\ At("faces") => (At("faces") \/ At("enter"))'
             /\ At("enter") => (At("enter") \/ At("types") \/ At("end"))'
             /\ At("types") => (At("types") \/ At("end"))' \/ (At("age")' /\ Typing' < Typing)
             /\ At("age") => (At("age") \/ At("drop") \/ At("touch"))'
             /\ At("drop") => (At("drop") \/ At("types"))'
             /\ At("touch") => (At("touch") \/ At("count"))'
             /\ At("count") => (At("count") \/ At("more") \/ At("clip"))'
             /\ At("more") => (At("more") \/ At("types"))'
             /\ At("clip") => (At("clip") \/ At("mark"))'
             /\ At("mark") => (At("mark") \/ At("forget"))'
             /\ At("forget") => (At("forget") \/ At("wait"))'
             /\ At("wait") => At("types")' \/ (At("wait")' /\ Polling' =< Polling)
             /\ At("end") => (At("end") \/ At("idle"))'
             /\ ~At("faces") /\ ~At("enter") => Typing' =< Typing
<1>4. Inv /\ ~At("idle") /\ [Next]_vars => Moves
  <2>1. ASSUME Inv, ~At("idle"), BusStep
        PROVE  Moves
    BY <1>2, <2>1, BusMoves DEF At
  <2>2. ASSUME Inv, [Next]_vars, ~BusStep
        PROVE  Moves
    BY <1>2, <2>2, OthersLeaveBus DEF At
  <2> QED
    BY <2>1, <2>2
<1>5. Inv /\ ~At("idle") /\ <<BusStep>>_vars =>
        /\ At("faces") => At("enter")' \/ ~[Facing' = Facing]_Facing
        /\ At("enter") => (At("types") \/ At("end"))'
        /\ At("types") => At("end")' \/ ~[Typing' = Typing]_Typing
        /\ At("age") => (At("drop") \/ At("touch"))'
        /\ At("drop") => At("types")'
        /\ At("touch") => At("count")'
        /\ At("count") => (At("more") \/ At("clip"))'
        /\ At("more") => At("types")'
        /\ At("clip") => At("mark")'
        /\ At("mark") => At("forget")'
        /\ At("forget") => At("wait")'
        /\ At("wait") => At("types")' \/ ~[Polling' = Polling]_Polling
        /\ At("end") => At("idle")'
  BY <1>2, BusMoves DEF At
<1>6. Inv /\ BusSteps /\ ~At("idle") => ENABLED <<BusStep>>_vars
  BY BusIsReady DEF BusSteps
<1>7. Inv /\ ~At("idle") /\ [Next]_vars =>
        /\ [Facing' =< Facing]_Facing
        /\ At("wait") => At("types")' \/ [Polling' =< Polling]_Polling
        /\ At("types") \/ InType \/ At("end") => [Typing' =< Typing]_Typing
        /\ At("types") => (At("types") \/ At("end"))' \/ ~[Typing' = Typing]_Typing
  BY <1>2, <1>4 DEF At
<1>8. At("idle") => busPc = "idle"
  BY DEF At
<1> HIDE DEF Inv
<1>9. Runs => [](At("end") => <>At("idle"))
  BY <1>4, <1>5, <1>6, PTL
<1>10. Runs => [](At("drop") => <>(At("types") \/ At("idle")))
  BY <1>4, <1>5, <1>6, PTL
<1>11. Runs => [](At("more") => <>(At("types") \/ At("idle")))
  BY <1>4, <1>5, <1>6, PTL
<1>12. Runs => [](At("forget") => <>(At("wait") \/ At("idle")))
  BY <1>4, <1>5, <1>6, PTL
<1>13. Runs => [](At("mark") => <>(At("forget") \/ At("idle")))
  BY <1>4, <1>5, <1>6, PTL
<1>14. Runs => [](At("clip") => <>(At("mark") \/ At("idle")))
  BY <1>4, <1>5, <1>6, PTL
<1>15. Runs => [](At("count") => <>(At("more") \/ At("clip") \/ At("idle")))
  BY <1>4, <1>5, <1>6, PTL
<1>16. Runs => [](At("touch") => <>(At("count") \/ At("idle")))
  BY <1>4, <1>5, <1>6, PTL
<1>17. Runs => [](At("age") => <>(At("drop") \/ At("touch") \/ At("idle")))
  BY <1>4, <1>5, <1>6, PTL
<1>18. Runs /\ NoEndlessFall(Polling) => [](At("wait") => <>(At("types") \/ At("idle")))
  BY <1>2, <1>4, <1>5, <1>6, <1>7, PTL DEF NoEndlessFall
<1>19. Runs => [](At("types") /\ [][Typing' = Typing]_Typing => <>(At("end") \/ At("idle")))
  BY <1>4, <1>5, <1>6, <1>7, PTL
<1>20. Runs => [](At("enter") => <>(Late \/ At("idle")))
  BY <1>4, <1>5, <1>6, PTL
<1>21. Runs /\ NoEndlessFall(Facing) => [](At("faces") => <>(At("enter") \/ At("idle")))
  BY <1>2, <1>4, <1>5, <1>6, <1>7, PTL DEF NoEndlessFall
<1>22. Runs /\ NoEndlessFall(Typing)
       => [](Late => <>At("idle") \/ <>(Late /\ [][Typing' = Typing]_Typing))
  <2>1. Late => ~At("idle")
    BY DEF At
  <2>2. Inv /\ Late /\ [Next]_vars => [Typing' =< Typing]_Typing /\ (Late \/ At("idle"))'
    BY <1>4, <1>7, <2>1
  <2> QED
    BY <1>2, <2>2, PTL DEF NoEndlessFall
<1> HIDE DEF Runs
<1>23. Runs /\ NoEndlessFall(Polling) => [](InType => <>(At("types") \/ At("idle")))
  BY <1>10, <1>11, <1>12, <1>13, <1>14, <1>15, <1>16, <1>17, <1>18, PTL
<1> HIDE DEF InType
<1>24. Runs /\ NoEndlessFall(Typing) /\ NoEndlessFall(Polling) => [](Late => <>At("idle"))
  BY <1>9, <1>19, <1>22, <1>23, PTL
<1> HIDE DEF Late
<1> QED
  BY <1>1, <1>3, <1>8, <1>20, <1>21, <1>24, PTL DEF FairSpec, Spec, BusReturns, Runs

=============================================================================
