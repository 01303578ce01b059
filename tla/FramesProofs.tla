----------------------------- MODULE FramesProofs -----------------------------
(***************************************************************************)
(* Proofs about Frames: the timed events of a camera for all intervals,    *)
(* lists and frames.                                                       *)
(***************************************************************************)
EXTENDS Frames, Descent, TLAPS

(* The entries that are left to the loop of handleTimeEvent.               *)
Later(x) == {k \in DOMAIN timeEvents : x = "begin" \/ x \in Before[k]}

(* It goes to the first of them, or to the end of the map.                 *)
LEMMA AfterIsFirst ==
    ASSUME DOMAIN timeEvents \subseteq TimeLabels, NEW x
    PROVE  \/ Later(x) = {} /\ After(x) = "end"
           \/ After(x) \in Later(x) /\ \A j \in Later(x) : j = After(x) \/ After(x) \in Before[j]
<1> DEFINE First(k) == \A j \in Later(x) : j = k \/ k \in Before[j]
<1>1. After(x) = IF Later(x) = {} THEN "end" ELSE CHOOSE k \in Later(x) : First(k)
    BY DEF After, Later
<1>2. ASSUME Later(x) # {}
      PROVE  \E k \in Later(x) : First(k)
    <2>1. CASE "" \in Later(x)
        BY <2>1 DEF TimeLabels, Before, Later
    <2>2. CASE "" \notin Later(x) /\ "aqwl" \in Later(x)
        BY <2>2 DEF TimeLabels, Before, Later
    <2>3. CASE "" \notin Later(x) /\ "aqwl" \notin Later(x) /\ "gzfzr" \in Later(x)
        BY <2>3 DEF TimeLabels, Before, Later
    <2>4. CASE "" \notin Later(x) /\ "aqwl" \notin Later(x) /\ "gzfzr" \notin Later(x)
        <3>1. Later(x) = {"zzfzr"}
            BY <1>2, <2>4 DEF TimeLabels, Later
        <3> QED
            BY <3>1
    <2> QED
        BY <2>1, <2>2, <2>3, <2>4
<1> QED
    BY <1>1, <1>2

LEMMA AfterInMap ==
    ASSUME DOMAIN timeEvents \subseteq TimeLabels, NEW l
    PROVE  After(l) \in DOMAIN timeEvents \union {"end"}
    BY AfterIsFirst DEF Later

LEMMA FreshEntry ==
    ASSUME NEW l \in TimeLabels, TypeOK
    PROVE  /\ DOMAIN Fresh(l) = DOMAIN timeEvents \union {l}
           /\ Fresh(l)[l] = 0
           /\ \A k \in DOMAIN timeEvents \ {l} : Fresh(l)[k] = timeEvents[k]
           /\ DOMAIN Fresh(l) \subseteq TimeLabels
           /\ \A k \in DOMAIN Fresh(l) : Fresh(l)[k] \in Ages
    BY TimeIntervalAssumption DEF Fresh, TypeOK, Ages

LEMMA OlderAge ==
    ASSUME NEW age \in Ages
    PROVE  /\ Older(age) \in Ages
           /\ \A other \in Ages : age =< other => Older(age) =< Older(other)
    BY TimeIntervalAssumption DEF Older, Ages

LEMMA TimedLabels ==
    ASSUME NEW list
    PROVE  TimedFor(list) \subseteq TimeLabels
    BY DEF TimedFor, TimeLabels

LEMMA InitEstablishes == Init => IInv
<1> SUFFICES ASSUME Init
             PROVE  IInv
    OBVIOUS
<1>1. DOMAIN timeEvents = TimedFor(algorithm_list)
    BY DEF Init
<1>2. \A l \in DOMAIN timeEvents : timeEvents[l] = 0
    BY DEF Init
<1>3. TypeOK
    <2>1. DOMAIN timeEvents \subseteq TimeLabels
        BY <1>1, TimedLabels
    <2>2. \A l \in DOMAIN timeEvents : timeEvents[l] \in Ages
        BY <1>2, TimeIntervalAssumption DEF Ages
    <2>3. calm \in [TimeLabels -> Ages]
        BY TimeIntervalAssumption DEF Init, Ages
    <2>4. frameCount \in Int /\ skipped \in Nat
        BY GarbageAssumption DEF Init
    <2> QED
        BY <2>1, <2>2, <2>3, <2>4 DEF Init, TypeOK
<1>4. EntriesAreFresh
    BY <1>1, <1>2, TimedLabels, TimeIntervalAssumption DEF Init, EntriesAreFresh
<1> QED
    BY <1>1, <1>3, <1>4 DEF Init, IInv, TimersInPlace, LoopsAreInPlace, UpdatesPutBack

(* The loop of handleTimeEvent.                                            *)
LEMMA TimersKeep ==
    ASSUME IInv, TimerRests \/ sendEventMsg \/ TimerRestarts \/ TimersEnd \/ Dangle
    PROVE  IInv'
<1> USE DEF IInv
<1>0. After(at) \in DOMAIN timeEvents \union {"end"}
    BY AfterInMap DEF TypeOK
<1>1. CASE TimerRests
    BY <1>0, <1>1 DEF TimerRests, http, TypeOK, EntriesAreFresh, TimersInPlace,
        LoopsAreInPlace, UpdatesPutBack
<1>2. CASE sendEventMsg
    <2>1. at \in DOMAIN timeEvents /\ at \in TimeLabels
        BY <1>2 DEF sendEventMsg, LoopsAreInPlace, TypeOK
    <2>2. TypeOK'
        BY <1>2, <2>1, TimeIntervalAssumption DEF sendEventMsg, http, TypeOK, Ages
    <2>3. EntriesAreFresh'
        BY <1>2, <2>1 DEF sendEventMsg, EntriesAreFresh, TypeOK
    <2> QED
        BY <1>2, <2>1, <2>2, <2>3 DEF sendEventMsg, http, TimersInPlace, LoopsAreInPlace, UpdatesPutBack
<1>3. CASE TimerRestarts
    <2>1. at \in DOMAIN timeEvents /\ at \in TimeLabels
        BY <1>3 DEF TimerRestarts, LoopsAreInPlace, TypeOK
    <2>2. DOMAIN timeEvents' = DOMAIN timeEvents
        BY <1>3 DEF TimerRestarts
    <2>3. timeEvents'[at] = 0 /\ \A l \in DOMAIN timeEvents \ {at} : timeEvents'[l] = timeEvents[l]
        BY <1>3, <2>1 DEF TimerRestarts
    <2>4. TypeOK'
        BY <1>0, <1>3, <2>1, <2>2, <2>3, TimeIntervalAssumption DEF TimerRestarts, http, TypeOK, Ages
    <2>5. EntriesAreFresh'
        BY <1>3, <2>1, <2>2, <2>3, TimeIntervalAssumption
        DEF TimerRestarts, EntriesAreFresh, TypeOK, Ages
    <2> QED
        BY <1>0, <1>3, <2>2, <2>4, <2>5 DEF TimerRestarts, http, TimersInPlace, LoopsAreInPlace,
           UpdatesPutBack
<1>4. CASE TimersEnd
    BY <1>4 DEF TimersEnd, http, TypeOK, EntriesAreFresh, TimersInPlace,
        LoopsAreInPlace, UpdatesPutBack
<1>5. CASE Dangle
    BY <1>5 DEF Dangle, http, TypeOK, EntriesAreFresh, TimersInPlace,
        LoopsAreInPlace, UpdatesPutBack
<1> QED
    BY <1>1, <1>2, <1>3, <1>4, <1>5

(* The frames, and the loop over the predictions.                          *)
LEMMA FrameKeeps ==
    ASSUME IInv,
           \/ Skip
           \/ \E shown \in Shows : Detect(shown)
           \/ \E l \in TimeLabels : Timed(l)
           \/ Renew
           \/ \E l \in TimeLabels : Event(l)
           \/ Done
    PROVE  IInv'
<1> USE DEF IInv
<1>1. CASE Skip
    BY <1>1 DEF Skip, Advanced, http, TypeOK, EntriesAreFresh, TimersInPlace,
        LoopsAreInPlace, UpdatesPutBack
<1>2. ASSUME NEW shown \in Shows, Detect(shown)
      PROVE  IInv'
    <2>1. After("begin") \in DOMAIN timeEvents \union {"end"}
        BY AfterInMap DEF TypeOK
    <2>2. Restart \in Int
        BY FrameIntervalAssumption DEF Restart
    <2> QED
        BY <1>2, <2>1, <2>2 DEF Detect, http, TypeOK, EntriesAreFresh, TimersInPlace,
            LoopsAreInPlace, UpdatesPutBack
<1>3. ASSUME NEW l \in TimeLabels, Timed(l)
      PROVE  IInv'
    BY <1>3 DEF Timed, http, TypeOK, EntriesAreFresh, TimersInPlace,
        LoopsAreInPlace, UpdatesPutBack
<1>4. CASE Renew
    <2>1. at \in TimeLabels
        BY <1>4, ShowsAssumption DEF Renew, LoopsAreInPlace, TypeOK
    <2>2. TypeOK'
        BY <1>4, <2>1, FreshEntry, TimeIntervalAssumption DEF Renew, http, TypeOK, Ages
    <2>3. EntriesAreFresh'
        <3>1. /\ DOMAIN timeEvents' = DOMAIN timeEvents \union {at}
              /\ timeEvents'[at] = 0
              /\ \A k \in DOMAIN timeEvents \ {at} : timeEvents'[k] = timeEvents[k]
            BY <1>4, <2>1, FreshEntry DEF Renew
        <3>2. /\ calm'[at] = 0
              /\ \A k \in TimeLabels \ {at} : calm'[k] = calm[k]
            BY <1>4, <2>1 DEF Renew, TypeOK
        <3>3. pc = "write"
            BY <1>4 DEF Renew
        <3>4. ASSUME NEW k \in DOMAIN timeEvents', k # at
              PROVE  timeEvents'[k] =< calm'[k]
            BY <3>1, <3>2, <3>3, <3>4 DEF EntriesAreFresh, TypeOK
        <3> QED
            BY <3>1, <3>2, <3>4 DEF EntriesAreFresh
    <2> QED
        BY <1>4, <2>1, <2>2, <2>3, FreshEntry
        DEF Renew, http, TimersInPlace, LoopsAreInPlace, UpdatesPutBack
<1>5. ASSUME NEW l \in TimeLabels, Event(l)
      PROVE  IInv'
    <2>1. TypeOK'
        BY <1>5, TimeIntervalAssumption DEF Event, http, TypeOK, Ages
    <2>2. EntriesAreFresh'
        BY <1>5 DEF Event, EntriesAreFresh, TypeOK
    <2> QED
        BY <1>5, <2>1, <2>2 DEF Event, http, TimersInPlace, LoopsAreInPlace, UpdatesPutBack
<1>6. CASE Done
    BY <1>6 DEF Done, http, TypeOK, EntriesAreFresh, TimersInPlace,
        LoopsAreInPlace, UpdatesPutBack
<1> QED
    BY <1>1, <1>2, <1>3, <1>4, <1>5, <1>6

(* The HTTP thread and the clock.                                          *)
LEMMA UpdateKeeps ==
    ASSUME IInv, (\E list \in Lists : Update(list)) \/ UpdateGoesOn \/ Tick
    PROVE  IInv'
<1> USE DEF IInv
<1>1. ASSUME NEW list \in Lists, Update(list)
      PROVE  IInv'
    BY <1>1 DEF Update, handle, TypeOK, EntriesAreFresh, TimersInPlace,
        LoopsAreInPlace, UpdatesPutBack
<1>2. CASE Clear
    <2>1. DOMAIN timeEvents' = {}
        BY <1>2 DEF Clear
    <2> QED
        BY <1>2, <2>1, TimedLabels DEF Clear, handle, TypeOK, EntriesAreFresh, TimersInPlace,
            LoopsAreInPlace, UpdatesPutBack
<1>3. ASSUME NEW l \in TimeLabels, Insert(l)
      PROVE  IInv'
    <2>1. TypeOK'
        BY <1>3, FreshEntry DEF Insert, handle, TypeOK
    <2>2. EntriesAreFresh'
        <3>1. /\ DOMAIN timeEvents' = DOMAIN timeEvents \union {l}
              /\ timeEvents'[l] = 0
              /\ \A k \in DOMAIN timeEvents \ {l} : timeEvents'[k] = timeEvents[k]
            BY <1>3, FreshEntry DEF Insert
        <3>2. calm' = calm /\ pc' = pc /\ at' = at /\ dangling' = dangling
            BY <1>3 DEF Insert, handle
        <3>3. timeEvents'[l] =< calm'[l]
            BY <3>1, <3>2, TimeIntervalAssumption DEF TypeOK, Ages
        <3>4. ASSUME NEW k \in DOMAIN timeEvents', k # l
              PROVE  timeEvents'[k] =< calm'[k] \/ (pc' = "posted" /\ at' = k /\ ~dangling')
            BY <3>1, <3>2, <3>4 DEF EntriesAreFresh
        <3> QED
            BY <3>3, <3>4 DEF EntriesAreFresh
    <2> QED
        BY <1>3, <2>1, <2>2, FreshEntry
        DEF Insert, handle, TimersInPlace, LoopsAreInPlace, UpdatesPutBack
<1>4. CASE Updated
    BY <1>4 DEF Updated, handle, TypeOK, EntriesAreFresh, TimersInPlace,
        LoopsAreInPlace, UpdatesPutBack
<1>5. CASE Tick
    <2>1. DOMAIN timeEvents' = DOMAIN timeEvents
        BY <1>5 DEF Tick
    <2>2. \A l \in DOMAIN timeEvents : timeEvents'[l] = Older(timeEvents[l])
        BY <1>5 DEF Tick
    <2>3. calm' = [l \in TimeLabels |-> Older(calm[l])]
        BY <1>5 DEF Tick
    <2>4. TypeOK'
        BY <1>5, <2>1, <2>2, <2>3, OlderAge DEF Tick, handle, http, TypeOK
    <2>5. EntriesAreFresh'
        BY <1>5, <2>1, <2>2, <2>3, OlderAge DEF Tick, handle, EntriesAreFresh, TypeOK
    <2> QED
        BY <1>5, <2>1, <2>4, <2>5 DEF Tick, handle, http, TimersInPlace, LoopsAreInPlace, UpdatesPutBack
<1> QED
    BY <1>1, <1>2, <1>3, <1>4, <1>5 DEF UpdateGoesOn

LEMMA IInvKept ==
    ASSUME IInv, [Next]_vars
    PROVE  IInv'
<1>1. CASE UNCHANGED vars
    BY <1>1 DEF vars, handle, http, IInv, TypeOK, EntriesAreFresh, TimersInPlace,
        LoopsAreInPlace, UpdatesPutBack
<1>2. CASE Handle
    BY <1>2, TimersKeep, FrameKeeps DEF Handle
<1> QED
    BY <1>1, <1>2, UpdateKeeps DEF Next

----------------------------------------------------------------------------
(* The cadence: the counter stands past the last multiple by at least the  *)
(* frames that were skipped; that of an offline camera, advanced by two,   *)
(* comes to every third number within three frames.                        *)

Cadence ==
    /\ ~offline => skipped =< (frameCount - 1) % FrameInterval
    /\ offline =>
           /\ skipped =< 2
           /\ skipped >= 1 => (frameCount - 1) % 3 # 0
           /\ skipped >= 2 => (frameCount - 3) % 3 # 0

LEMMA Division ==
    ASSUME NEW d \in Nat \ {0}, NEW x \in Int, NEW q, NEW r,
           q = x \div d, r = x % d
    PROVE  q \in Int /\ r \in 0..(d - 1) /\ x = d * q + r
OBVIOUS

LEMMA RemainderIsUnique ==
    ASSUME NEW d \in Nat \ {0}, NEW q \in Int, NEW r \in 0..(d - 1), NEW x \in Int,
           x = d * q + r
    PROVE  x % d = r
<1>1. PICK k \in Int, e \in 0..(d - 1) : x = d * k + e /\ x % d = e
    <2>1. \E k, e : k = x \div d /\ e = x % d
        OBVIOUS
    <2>2. PICK k, e : k = x \div d /\ e = x % d
        BY <2>1
    <2>3. k \in Int /\ e \in 0..(d - 1) /\ x = d * k + e
        BY <2>2, Division
    <2> QED
        BY <2>2, <2>3
<1>2. d * (q - k) = e - r
    BY <1>1
<1>3. \A n \in Nat \ {0} : d * n >= d
    <2> SUFFICES ASSUME NEW n \in Nat \ {0}
                 PROVE  d * n >= d
        OBVIOUS
    <2>1. d * n = d + d * (n - 1)
        OBVIOUS
    <2>2. d * (n - 1) >= 0
        OBVIOUS
    <2> QED
        BY <2>1, <2>2
<1>4. ASSUME q - k > 0
      PROVE  FALSE
    <2>1. d * (q - k) >= d
        BY <1>1, <1>3, <1>4
    <2> QED
        BY <1>1, <1>2, <2>1
<1>5. ASSUME q - k < 0
      PROVE  FALSE
    <2>1. d * (k - q) >= d
        BY <1>1, <1>3, <1>5
    <2>2. d * (k - q) = r - e
        BY <1>1
    <2> QED
        BY <1>1, <2>1, <2>2
<1>6. q = k
    BY <1>1, <1>4, <1>5
<1> QED
    BY <1>1, <1>2, <1>6

LEMMA Remainder ==
    ASSUME NEW d \in Nat \ {0}, NEW x \in Int
    PROVE  /\ x % d \in 0..(d - 1)
           /\ x % d # 0 => (x - 1) % d = (x % d) - 1
<1>1. x % d \in 0..(d - 1)
    OBVIOUS
<1>2. \E q, r : q = x \div d /\ r = x % d
    OBVIOUS
<1>3. ASSUME x % d # 0
      PROVE  (x - 1) % d = (x % d) - 1
    <2>1. PICK q, r : q = x \div d /\ r = x % d
        BY <1>2
    <2>2. q \in Int /\ r \in 0..(d - 1) /\ x = d * q + r
        BY <2>1, Division
    <2>3. r - 1 \in 0..(d - 1) /\ x - 1 \in Int
        BY <1>3, <2>1, <2>2
    <2>4. x - 1 = d * q + (r - 1)
        <3>1. d * q \in Int
            BY <2>2
        <3> QED
            BY <2>2, <3>1
    <2>5. (x - 1) % d = r - 1
        BY <2>2, <2>3, <2>4, RemainderIsUnique
    <2> QED
        BY <2>1, <2>5
<1> QED
    BY <1>1, <1>3

LEMMA CadenceKept ==
    ASSUME TypeOK, Cadence, [Next]_vars
    PROVE  Cadence'
<1>1. CASE Skip
    <2>1. /\ offline' = offline /\ skipped' = skipped + 1 /\ skipped \in Nat
          /\ frameCount \in Int /\ frameCount' = Advanced(frameCount) /\ ~Due(frameCount)
        BY <1>1 DEF Skip, TypeOK
    <2>2. CASE offline
        BY <2>1, <2>2 DEF Cadence, Advanced, Due
    <2>3. CASE ~offline
        <3>1. frameCount % FrameInterval # 0 /\ frameCount' = frameCount + 1
            BY <2>1, <2>3 DEF Advanced, Due
        <3>i. FrameInterval \in Nat \ {0}
            BY FrameIntervalAssumption
        <3>r. frameCount % FrameInterval \in 0..(FrameInterval - 1)
            BY <2>1, <3>i, Remainder
        <3>s. frameCount \in Int
            BY <2>1
        <3>t. (frameCount - 1) % FrameInterval = (frameCount % FrameInterval) - 1
            BY <3>1, <3>i, <3>s, Remainder, Zenon
        <3>2. /\ frameCount % FrameInterval \in Int
              /\ (frameCount - 1) % FrameInterval = (frameCount % FrameInterval) - 1
            BY <3>r, <3>t
        <3>3. skipped + 1 =< frameCount % FrameInterval
            BY <2>1, <2>3, <3>2 DEF Cadence
        <3>4. frameCount' - 1 = frameCount
            BY <2>1, <3>1
        <3> QED
            BY <2>1, <2>3, <3>3, <3>4 DEF Cadence
    <2> QED
        BY <2>2, <2>3
<1>2. ASSUME NEW shown \in Shows, Detect(shown)
      PROVE  Cadence'
    <2>1. skipped' = 0 /\ offline' = offline /\ frameCount' - 1 \in Int
        BY <1>2, FrameIntervalAssumption DEF Detect, Restart
    <2>2. (frameCount' - 1) % FrameInterval >= 0
        BY <2>1, Remainder, FrameIntervalAssumption
    <2> QED
        BY <2>1, <2>2 DEF Cadence
<1>3. CASE UNCHANGED <<offline, frameCount, skipped>>
    BY <1>3 DEF Cadence
<1>4. \/ Skip
      \/ \E shown \in Shows : Detect(shown)
      \/ UNCHANGED <<offline, frameCount, skipped>>
    BY DEF Next, vars, handle, Handle, TimerRests, sendEventMsg, TimerRestarts, TimersEnd, Dangle,
           Timed, Renew, Event, Done, Update, UpdateGoesOn, Clear, Insert, Updated, Tick
<1> QED
    BY <1>1, <1>2, <1>3, <1>4

(* The inductive invariant, for every frame_interval and time_interval.    *)
THEOREM InvariantHolds == Spec => []IInv
    BY InitEstablishes, IInvKept, PTL DEF Spec

(* The timed events keep their types.                                      *)
THEOREM TypesCorrect == Spec => []TypeOK
<1>1. IInv => TypeOK
    BY DEF IInv
<1> QED
    BY <1>1, InvariantHolds, PTL

(* Once an update is done, every label of the list is timed.               *)
THEOREM TimersStayInPlace == Spec => []TimersInPlace
<1>1. IInv => TimersInPlace
    BY DEF IInv
<1> QED
    BY <1>1, InvariantHolds, PTL

(* An alert of a timed event means that for longer than time_interval the  *)
(* label was neither seen in an earlier frame nor alerted, whatever the    *)
(* updates of the HTTP thread do to the map.                               *)
THEOREM AlertsComeWhenDue == Spec => AlertsAreDue
<1>1. ASSUME IInv, NEW l \in TimeLabels, sendEventMsg, at = l
      PROVE  calm[l] > TimeInterval
    <2>1. l \in DOMAIN timeEvents /\ timeEvents[l] > TimeInterval
        BY <1>1 DEF sendEventMsg, Expired, IInv, LoopsAreInPlace
    <2>2. timeEvents[l] =< calm[l]
        BY <1>1, <2>1 DEF sendEventMsg, IInv, EntriesAreFresh
    <2> QED
        BY <1>1, <2>1, <2>2, TimeIntervalAssumption DEF IInv, TypeOK, Ages
<1>2. IInv => [\A l \in TimeLabels : sendEventMsg /\ at = l => calm[l] > TimeInterval]_vars
    BY <1>1
<1> QED
    BY <1>2, InvariantHolds, PTL DEF AlertsAreDue

(* Every frame_interval-th frame of a live camera, and every third of an   *)
(* offline one, is handed to the models (EveryPeriod), whatever frameCount *)
(* holds at first and whatever frame_interval is.                          *)
THEOREM EveryPeriodHolds == Spec => []EveryPeriod
<1>1. Init => Cadence
    <2> SUFFICES ASSUME Init
                 PROVE  Cadence
        OBVIOUS
    <2>1. frameCount - 1 \in Int /\ skipped = 0
        BY GarbageAssumption DEF Init
    <2>2. (frameCount - 1) % FrameInterval >= 0
        BY <2>1, Remainder, FrameIntervalAssumption
    <2> QED
        BY <2>1, <2>2 DEF Cadence
<1>2. TypeOK /\ Cadence /\ [Next]_vars => Cadence'
    BY CadenceKept
<1>3. TypeOK /\ Cadence => EveryPeriod
    <2> SUFFICES ASSUME TypeOK, Cadence
                 PROVE  EveryPeriod
        OBVIOUS
    <2>1. frameCount - 1 \in Int /\ skipped \in Nat /\ FrameInterval \in Nat \ {0}
        BY FrameIntervalAssumption DEF TypeOK
    <2>2. (frameCount - 1) % FrameInterval \in 0..(FrameInterval - 1)
        BY <2>1, Remainder
    <2> QED
        BY <2>1, <2>2 DEF Cadence, EveryPeriod
<1> QED
    BY <1>1, <1>2, <1>3, TypesCorrect, PTL DEF Spec

----------------------------------------------------------------------------
(* Absences are reported.                                                  *)

Period == IF offline THEN 3 ELSE FrameInterval

(* What changes when the list is not updated.                              *)
LEMMA Undisturbed ==
    ASSUME IInv, update = "idle", update' = "idle", [Next]_vars
    PROVE  \/ Handle
           \/ UNCHANGED <<offline, predictionsBoxes, pc, at, left, skipped, dangling>>
<1>1. ~UpdateGoesOn
    BY DEF UpdateGoesOn, Clear, Insert, Updated
<1>2. ASSUME NEW list \in Lists
      PROVE  ~Update(list)
    BY DEF Update
<1>3. Tick \/ UNCHANGED vars
          => UNCHANGED <<offline, predictionsBoxes, pc, at, left, skipped, dangling>>
    BY DEF Tick, vars, handle
<1> QED
    BY <1>1, <1>2, <1>3 DEF Next

InTimers(x) == pc = "timers" /\ at = x
Posted(x) == pc = "posted" /\ at = x
At(x) == pc = x
Leaves(x) == x \in left

(* Where a step of the Handle thread leads.                                *)
LEMMA HandleMoves ==
    ASSUME IInv, Handle
    PROVE  /\ At("wait") =>
                \/ At("wait")' /\ skipped' = skipped + 1 /\ UNCHANGED offline
                \/ At("timers")' /\ at' = After("begin") /\ dangling' = FALSE /\ UNCHANGED timeEvents
           /\ At("timers") /\ at = "end" => At("events")'
           /\ At("timers") /\ at # "end" =>
                \/ dangling /\ (At("events") \/ At("crashed"))'
                \/ ~dangling /\ At("timers")' /\ at' = After(at) /\ ~Expired /\ UNCHANGED dangling
                \/ ~dangling /\ At("posted")' /\ UNCHANGED <<at, dangling>>
           /\ At("posted") =>
                \/ dangling /\ (At("events") \/ At("crashed"))'
                \/ ~dangling /\ At("timers")' /\ at' = After(at) /\ UNCHANGED dangling
           /\ At("events") =>
                \/ At("write")' /\ UNCHANGED left
                \/ At("events")' /\ \E l \in left : left' = left \ {l}
                \/ At("wait")'
           /\ At("write") => At("events")' /\ at \in left /\ left' = left \ {at}
           /\ ~At("crashed")
<1> USE DEF At
<1>1. CASE Skip \/ \E shown \in Shows : Detect(shown)
    BY <1>1 DEF Skip, Detect
<1>2. CASE TimerRests \/ sendEventMsg \/ TimersEnd
    BY <1>2 DEF TimerRests, sendEventMsg, TimersEnd
<1>3. CASE TimerRestarts \/ Dangle
    BY <1>3 DEF TimerRestarts, Dangle
<1>4. CASE (\E l \in TimeLabels : Timed(l) \/ Event(l)) \/ Renew \/ Done
    BY <1>4 DEF Timed, Event, Renew, Done, IInv, LoopsAreInPlace
<1> QED
    BY <1>1, <1>2, <1>3, <1>4 DEF Handle

(* The Handle thread goes on, and an entry that is not due yet ages.       *)
FramesGoOn ==
    pc # "crashed" =>
        /\ ENABLED <<Handle>>_vars
        /\ (\E l \in DOMAIN timeEvents : timeEvents[l] =< TimeInterval) => ENABLED <<Tick>>_vars

(* The guards of the actions of Handle, in their order; time passes for an *)
(* entry that is not old.                                                  *)
HandleReady ==
    \/ pc = "wait" /\ ~Due(frameCount)
    \/ pc = "wait" /\ Due(frameCount) /\ \E shown : shown \in Shows
    \/ pc = "timers" /\ at # "end" /\ ~dangling /\ (~Expired \/ Expired)
    \/ pc = "posted" /\ ~dangling
    \/ pc = "timers" /\ at = "end"
    \/ pc \in {"timers", "posted"} /\ at # "end" /\ dangling
    \/ pc = "events" /\ \E l \in TimeLabels \intersect left :
          l \in DOMAIN timeEvents \/ l \notin DOMAIN timeEvents
    \/ pc = "write"
    \/ pc = "events" /\ left = {}

TickReady == \E l \in DOMAIN timeEvents : timeEvents[l] =< TimeInterval

(* What ENABLED says of such actions, each of which gives every variable   *)
(* its next value and changes one: a guard that holds lets it step.        *)
FramesStep ==
    pc # "crashed" =>
        /\ HandleReady => ENABLED <<Handle>>_vars
        /\ TickReady => ENABLED <<Tick>>_vars

(* One of the guards of Handle holds: the loop of handleTimeEvent is at an *)
(* entry that is there or was erased, and what is left to do has a label.  *)
LEMMA FramesAreReady == Spec /\ []FramesStep => []FramesGoOn
<1>1. ASSUME IInv, pc # "crashed"
      PROVE  HandleReady
    <2>1. TypeOK /\ LoopsAreInPlace
        BY <1>1 DEF IInv
    <2>2. left \subseteq TimeLabels
        BY <2>1, ShowsAssumption DEF TypeOK
    <2>3. CASE pc = "wait"
        BY <2>3, ShowsAssumption DEF HandleReady
    <2>4. CASE pc = "timers" \/ pc = "posted"
        BY <2>1, <2>4 DEF HandleReady, TypeOK, LoopsAreInPlace
    <2>5. CASE pc = "events" \/ pc = "write"
        BY <2>2, <2>5 DEF HandleReady
    <2> QED
        BY <1>1, <2>1, <2>3, <2>4, <2>5 DEF TypeOK
<1>2. IInv /\ FramesStep => FramesGoOn
    BY <1>1 DEF FramesStep, FramesGoOn, TickReady
<1> QED
    BY <1>2, InvariantHolds, PTL

(* A frame is handled some time, and one that is skipped is followed by    *)
(* one that is not.                                                        *)
LEMMA RoundsGoOn ==
    []IInv /\ []EveryPeriod /\ []FramesGoOn /\ [][Next]_vars /\ WF_vars(Handle)
       /\ NoEndlessFall(Period - skipped)
       /\ [](pc # "crashed" /\ update = "idle")
    => [](/\ <>At("wait")
          /\ At("wait") => <>At("timers"))
<1> DEFINE Inv == IInv /\ EveryPeriod
           Calm == pc # "crashed" /\ update = "idle"
           p == Period - skipped
           Wait == At("wait")
           E == Leaves("")
           A == Leaves("aqwl")
           G == Leaves("gzfzr")
           Z == Leaves("zzfzr")
           Kept == (E' => E) /\ (A' => A) /\ (G' => G) /\ (Z' => Z)
           Fewer == (E /\ ~E') \/ (A /\ ~A') \/ (G /\ ~G') \/ (Z /\ ~Z')
<1>1. Inv => p \in Nat
    BY FrameIntervalAssumption DEF IInv, TypeOK, EveryPeriod, Period
<1>2. Inv /\ Calm => \/ Wait \/ At("timers") \/ At("posted") \/ At("events") \/ At("write")
    BY DEF IInv, TypeOK, At
<1>3. Inv /\ Calm =>
        /\ At("timers") => \/ InTimers("") \/ InTimers("aqwl") \/ InTimers("gzfzr")
                           \/ InTimers("zzfzr") \/ InTimers("end")
        /\ At("posted") => Posted("") \/ Posted("aqwl") \/ Posted("gzfzr") \/ Posted("zzfzr")
    BY DEF IInv, TypeOK, LoopsAreInPlace, At, InTimers, Posted, TimeLabels
<1>4. ASSUME Inv, Calm, Calm', Handle
      PROVE  /\ Wait => (Wait' /\ [p' =< p]_p /\ ~[p' = p]_p) \/ At("timers")'
             /\ InTimers("end") => At("events")'
             /\ InTimers("zzfzr") => (Posted("zzfzr") \/ InTimers("end") \/ At("events"))'
             /\ Posted("zzfzr") => (InTimers("end") \/ At("events"))'
             /\ InTimers("gzfzr") => (Posted("gzfzr") \/ InTimers("zzfzr") \/ InTimers("end") \/ At("events"))'
             /\ Posted("gzfzr") => (InTimers("zzfzr") \/ InTimers("end") \/ At("events"))'
             /\ InTimers("aqwl") => (Posted("aqwl") \/ InTimers("gzfzr") \/ InTimers("zzfzr")
                                         \/ InTimers("end") \/ At("events"))'
             /\ Posted("aqwl") => (InTimers("gzfzr") \/ InTimers("zzfzr")
                                         \/ InTimers("end") \/ At("events"))'
             /\ InTimers("") => (Posted("") \/ InTimers("aqwl") \/ InTimers("gzfzr")
                                     \/ InTimers("zzfzr") \/ InTimers("end") \/ At("events"))'
             /\ Posted("") => (InTimers("aqwl") \/ InTimers("gzfzr") \/ InTimers("zzfzr")
                                     \/ InTimers("end") \/ At("events"))'
             /\ At("events") => Wait' \/ At("write")' \/ (At("events")' /\ Fewer)
             /\ At("events") => Wait' \/ Kept
             /\ At("write") => At("events")' /\ Fewer /\ Kept
    <2>1. TypeOK /\ DOMAIN timeEvents \subseteq TimeLabels
        BY <1>4 DEF IInv, TypeOK
    <2>2. ASSUME skipped' = skipped + 1, UNCHANGED offline
          PROVE  [p' =< p]_p /\ ~[p' = p]_p
        <3>1. skipped \in Int /\ FrameInterval \in Int
            BY <2>1, FrameIntervalAssumption DEF TypeOK
        <3> QED
            BY <2>2, <3>1 DEF Period
    <2>3. \A x \in TimeLabels : After(x) = "end" \/ (After(x) \in TimeLabels /\ x \in Before[After(x)])
        BY <2>1, AfterIsFirst DEF Later, TimeLabels
    <2>4. /\ After("") \in {"aqwl", "gzfzr", "zzfzr", "end"}
          /\ After("aqwl") \in {"gzfzr", "zzfzr", "end"}
          /\ After("gzfzr") \in {"zzfzr", "end"}
          /\ After("zzfzr") = "end"
        BY <2>3 DEF TimeLabels, Before
    <2>5. \A l \in left : l = "" \/ l = "aqwl" \/ l = "gzfzr" \/ l = "zzfzr"
        BY <2>1, ShowsAssumption DEF TypeOK, TimeLabels
    <2>6. ASSUME NEW l \in left, left' = left \ {l}
          PROVE  Kept /\ Fewer
        BY <2>5, <2>6 DEF Leaves
    <2>7. UNCHANGED left => Kept
        BY DEF Leaves
    <2> HIDE DEF p, Kept, Fewer
    <2>8. CASE Wait
        BY <1>4, <2>2, <2>8, HandleMoves DEF InTimers, Posted, At
    <2>9. CASE At("timers") \/ At("posted")
        BY <1>4, <2>4, <2>9, HandleMoves DEF InTimers, Posted, At
    <2>10. CASE At("events") \/ At("write")
        BY <1>4, <2>6, <2>7, <2>10, HandleMoves DEF InTimers, Posted, At
    <2> QED
        BY <1>2, <1>4, <2>8, <2>9, <2>10
<1>5. Inv /\ Calm /\ Calm' /\ <<Handle>>_vars =>
        /\ Wait => ~[p' = p]_p \/ At("timers")'
        /\ InTimers("end") => At("events")'
        /\ InTimers("zzfzr") => (Posted("zzfzr") \/ InTimers("end") \/ At("events"))'
        /\ Posted("zzfzr") => (InTimers("end") \/ At("events"))'
        /\ InTimers("gzfzr") => (Posted("gzfzr") \/ InTimers("zzfzr") \/ InTimers("end") \/ At("events"))'
        /\ Posted("gzfzr") => (InTimers("zzfzr") \/ InTimers("end") \/ At("events"))'
        /\ InTimers("aqwl") => (Posted("aqwl") \/ InTimers("gzfzr") \/ InTimers("zzfzr")
                                    \/ InTimers("end") \/ At("events"))'
        /\ Posted("aqwl") => (InTimers("gzfzr") \/ InTimers("zzfzr") \/ InTimers("end") \/ At("events"))'
        /\ InTimers("") => (Posted("") \/ InTimers("aqwl") \/ InTimers("gzfzr")
                                \/ InTimers("zzfzr") \/ InTimers("end") \/ At("events"))'
        /\ Posted("") => (InTimers("aqwl") \/ InTimers("gzfzr") \/ InTimers("zzfzr")
                              \/ InTimers("end") \/ At("events"))'
        /\ At("events") => Wait' \/ At("write")' \/ Fewer
        /\ At("write") => Fewer
    BY <1>4
<1>6. Inv /\ Calm /\ Calm' /\ [Next]_vars =>
        /\ Wait => (Wait' /\ [p' =< p]_p) \/ At("timers")'
        /\ InTimers("end") => (InTimers("end") \/ At("events"))'
        /\ InTimers("zzfzr")
              => (InTimers("zzfzr") \/ Posted("zzfzr") \/ InTimers("end") \/ At("events"))'
        /\ Posted("zzfzr") => (Posted("zzfzr") \/ InTimers("end") \/ At("events"))'
        /\ InTimers("gzfzr") => (InTimers("gzfzr") \/ Posted("gzfzr") \/ InTimers("zzfzr")
                                     \/ InTimers("end") \/ At("events"))'
        /\ Posted("gzfzr")
              => (Posted("gzfzr") \/ InTimers("zzfzr") \/ InTimers("end") \/ At("events"))'
        /\ InTimers("aqwl") => (InTimers("aqwl") \/ Posted("aqwl") \/ InTimers("gzfzr")
                                    \/ InTimers("zzfzr") \/ InTimers("end") \/ At("events"))'
        /\ Posted("aqwl") => (Posted("aqwl") \/ InTimers("gzfzr") \/ InTimers("zzfzr")
                                  \/ InTimers("end") \/ At("events"))'
        /\ InTimers("") => (InTimers("") \/ Posted("") \/ InTimers("aqwl") \/ InTimers("gzfzr")
                                \/ InTimers("zzfzr") \/ InTimers("end") \/ At("events"))'
        /\ Posted("") => (Posted("") \/ InTimers("aqwl") \/ InTimers("gzfzr")
                              \/ InTimers("zzfzr") \/ InTimers("end") \/ At("events"))'
        /\ At("events") => (Wait \/ At("write") \/ At("events"))'
        /\ At("write") => At("write")' \/ (At("events")' /\ Fewer)
        /\ At("events") \/ At("write") => Wait' \/ Kept
    <2>1. ASSUME Inv, Calm, Calm', [Next]_vars
          PROVE  Handle \/ UNCHANGED <<pc, at, p, left>>
        BY <2>1, Undisturbed DEF Period
    <2>2. UNCHANGED <<pc, at, p, left>> =>
            /\ (Wait => Wait') /\ [p' =< p]_p /\ Kept
            /\ \A x : (InTimers(x) => InTimers(x)') /\ (Posted(x) => Posted(x)') /\ (At(x) => At(x)')
        BY DEF InTimers, Posted, At, Leaves
    <2> HIDE DEF p, Kept, Fewer, E, A, G, Z, Wait
    <2> QED
        BY <1>4, <2>1, <2>2
<1>7. FramesGoOn /\ Calm => ENABLED <<Handle>>_vars
    BY DEF FramesGoOn
<1> HIDE DEF Inv, Calm, p, Wait, E, A, G, Z
<1> DEFINE Sound == [][Next]_vars /\ []Inv /\ []FramesGoOn /\ []Calm /\ WF_vars(Handle)
<1>9. Sound => [](At("events") \/ At("write") => <>Wait)
    BY <1>5, <1>6, <1>7, PTL
<1>10. Sound => [](InTimers("end") => <>Wait)
    BY <1>5, <1>6, <1>7, <1>9, PTL
<1>11. Sound => [](InTimers("zzfzr") \/ Posted("zzfzr") => <>Wait)
    BY <1>5, <1>6, <1>7, <1>9, <1>10, PTL
<1>12. Sound => [](InTimers("gzfzr") \/ Posted("gzfzr") => <>Wait)
    BY <1>5, <1>6, <1>7, <1>9, <1>10, <1>11, PTL
<1>13. Sound => [](InTimers("aqwl") \/ Posted("aqwl") => <>Wait)
    BY <1>5, <1>6, <1>7, <1>9, <1>10, <1>11, <1>12, PTL
<1>14. Sound => [](InTimers("") \/ Posted("") => <>Wait)
    BY <1>5, <1>6, <1>7, <1>9, <1>10, <1>11, <1>12, <1>13, PTL
<1>15. Sound /\ NoEndlessFall(p) => [](Wait => <>At("timers"))
    BY <1>1, <1>5, <1>6, <1>7, PTL DEF NoEndlessFall
<1>16. Sound => []Inv /\ []Calm
    BY PTL
<1> HIDE DEF Sound
<1>17. Sound => []<>Wait
    BY <1>2, <1>3, <1>9, <1>10, <1>11, <1>12, <1>13, <1>14, <1>16, PTL
<1>18. []IInv /\ []EveryPeriod => []Inv
    BY PTL DEF Inv
<1> QED
    BY <1>15, <1>17, <1>18, PTL DEF Sound, Calm, Wait, p

(* What an entry still has to age until its alert is due.                  *)
Young(l) == TimeInterval + 1 - timeEvents[l]

(* Without an alert and a sighting, an entry only ages.                    *)
LEMMA EntriesAge ==
    ASSUME IInv, NEW l \in DOMAIN timeEvents, update = "idle", update' = "idle",
           l \notin predictionsBoxes, ~Posted(l), [Next]_vars
    PROVE  timeEvents'[l] = timeEvents[l] \/ (Tick /\ timeEvents'[l] = Older(timeEvents[l]))
<1>1. TypeOK /\ LoopsAreInPlace /\ l \in TimeLabels
    BY DEF IInv, TypeOK
<1>2. CASE UNCHANGED vars
    BY <1>2 DEF vars
<1>3. CASE Tick
    BY <1>1, <1>3 DEF Tick
<1>4. CASE TimerRestarts
    BY <1>4 DEF TimerRestarts, Posted
<1>5. CASE Renew
    <2>1. at \in left /\ at \in TimeLabels /\ at # l
        BY <1>1, <1>5, ShowsAssumption DEF Renew, LoopsAreInPlace, TypeOK
    <2> QED
        BY <1>1, <1>5, <2>1, FreshEntry DEF Renew
<1>6. ASSUME Handle, ~TimerRestarts, ~Renew
      PROVE  UNCHANGED timeEvents
    BY <1>6 DEF Handle, Skip, Detect, TimerRests, sendEventMsg, TimersEnd, Dangle, Timed, Event, Done
<1>7. ~UpdateGoesOn /\ \A list \in Lists : ~Update(list)
    BY DEF UpdateGoesOn, Clear, Insert, Updated, Update
<1> QED
    BY <1>2, <1>3, <1>4, <1>5, <1>6, <1>7 DEF Next

(* Something that is asked for and stays away is alerted again and again   *)
(* if no thread is stuck: frames are skipped for a while only, and entries *)
(* age one by one.                                                         *)
LEMMA AbsencesReportedIfFramesGoOn ==
    FairSpec /\ []FramesGoOn /\ NoEndlessFall(Period - skipped)
        /\ (\A l \in TimeLabels : NoEndlessFall(Young(l)))
    => AbsenceIsReported
<1> SUFFICES ASSUME NEW l \in TimeLabels
             PROVE  FairSpec /\ []FramesGoOn /\ NoEndlessFall(Period - skipped)
                        /\ NoEndlessFall(Young(l))
                    => (<>[](/\ pc # "crashed"
                             /\ update = "idle"
                             /\ l \in TimedFor(algorithm_list)
                             /\ l \notin predictionsBoxes)
                        => []<>(pc = "posted" /\ at = l))
    BY DEF AbsenceIsReported
<1> DEFINE Absent == l \in TimedFor(algorithm_list) /\ l \notin predictionsBoxes
           Calm == pc # "crashed" /\ update = "idle"
           Quiet == Calm /\ Absent /\ ~Posted(l)
           Old == ~(timeEvents[l] =< TimeInterval)
           v == Young(l)
           Comes == /\ At("timers") \/ At("posted")
                    /\ ~dangling
                    /\ at = l \/ at \in Before[l]
<1>1. IInv /\ Quiet => l \in DOMAIN timeEvents /\ timeEvents[l] \in Ages
    BY DEF IInv, TypeOK, TimersInPlace
<1>2. IInv /\ Quiet => v \in Nat
    BY <1>1, TimeIntervalAssumption DEF Young, Ages
<1>3. ASSUME IInv, Quiet, Quiet', [Next]_vars
      PROVE  [v' =< v]_v /\ (Old => Old')
    <2>1. timeEvents[l] \in 0..(TimeInterval + 1) /\ TimeInterval \in Nat
        BY <1>1, <1>3, TimeIntervalAssumption DEF Ages
    <2>2. timeEvents'[l] = timeEvents[l] \/ timeEvents'[l] = Older(timeEvents[l])
        BY <1>1, <1>3, EntriesAge
    <2> QED
        BY <2>1, <2>2 DEF Older, Young
<1>4. ASSUME IInv, Quiet, ~Old, Tick
      PROVE  ~[v' = v]_v
    <2>1. timeEvents[l] \in Nat /\ timeEvents[l] =< TimeInterval /\ TimeInterval \in Nat
        BY <1>1, <1>4, TimeIntervalAssumption DEF Ages
    <2>2. timeEvents'[l] = timeEvents[l] + 1
        BY <1>1, <1>4, <2>1 DEF Tick, Older
    <2> QED
        BY <2>1, <2>2 DEF Young
<1>5. FramesGoOn /\ IInv /\ Quiet /\ ~Old => ENABLED <<Tick>>_vars
    BY <1>1 DEF FramesGoOn
<1>6. ASSUME IInv, Quiet, Quiet', Old, [Next]_vars
      PROVE  /\ Comes => Comes'
             /\ At("wait") => At("wait")' \/ Comes'
    <2>1. Handle \/ UNCHANGED <<pc, at, dangling>>
        BY <1>6, Undisturbed
    <2>2. CASE UNCHANGED <<pc, at, dangling>>
        BY <2>2 DEF At
    <2>3. ASSUME Handle
          PROVE  /\ Comes => Comes'
                 /\ At("wait") => At("wait")' \/ Comes'
        <3>1. DOMAIN timeEvents \subseteq TimeLabels /\ l \in DOMAIN timeEvents
            BY <1>1, <1>6 DEF IInv, TypeOK
        <3>2. \A x : x = "begin" \/ x \in Before[l] => After(x) = l \/ After(x) \in Before[l]
            BY <3>1, AfterIsFirst DEF Later
        <3>3. at = l => Expired \/ ~At("timers")
            <4>1. timeEvents[l] \in 0..(TimeInterval + 1) /\ TimeInterval \in Nat
                BY <1>1, <1>6, TimeIntervalAssumption DEF Ages
            <4> QED
                BY <1>6, <4>1 DEF Expired
        <3>4. l # "end" /\ "end" \notin Before[l]
            BY DEF TimeLabels, Before
        <3>5. At("wait") => At("wait")' \/ Comes'
            BY <1>6, <2>3, <3>2, HandleMoves
        <3>6. CASE Comes /\ At("timers")
            <4>1. at # "end"
                BY <3>4, <3>6
            <4>2. \/ At("timers")' /\ at' = After(at) /\ ~Expired /\ UNCHANGED dangling
                  \/ At("posted")' /\ UNCHANGED <<at, dangling>>
                BY <1>6, <2>3, <3>6, <4>1, HandleMoves
            <4>3. CASE UNCHANGED <<at, dangling>> /\ At("posted")'
                BY <3>6, <4>3
            <4>4. CASE At("timers")' /\ at' = After(at) /\ ~Expired /\ UNCHANGED dangling
                <5>1. at \in Before[l]
                    BY <3>3, <3>6, <4>4
                <5> QED
                    BY <3>2, <3>6, <4>4, <5>1
            <4> QED
                BY <3>6, <4>2, <4>3, <4>4 DEF At
        <3>7. CASE Comes /\ At("posted")
            <4>1. at \in Before[l]
                BY <1>6, <3>7 DEF At, Posted
            <4>2. At("timers")' /\ at' = After(at) /\ UNCHANGED dangling
                BY <2>3, <1>6, <3>7, HandleMoves
            <4> QED
                BY <3>2, <3>7, <4>1, <4>2
        <3> QED
            BY <3>5, <3>6, <3>7 DEF At
    <2> QED
        BY <2>1, <2>2, <2>3
<1>7. ~(At("wait") /\ At("timers")) /\ ~(At("wait") /\ Comes)
    BY DEF At
<1>8. FairSpec => Spec /\ Runs
    BY DEF FairSpec
<1> HIDE DEF Absent, Calm, Old, v, Comes
<1> DEFINE Sound == /\ [][Next]_vars /\ []IInv /\ []EveryPeriod /\ []FramesGoOn
                    /\ WF_vars(Handle) /\ WF_vars(Tick)
                    /\ NoEndlessFall(Period - skipped) /\ NoEndlessFall(v)
<1>9. Sound => []([]Quiet => <>[]Old)
    BY <1>2, <1>3, <1>4, <1>5, PTL DEF NoEndlessFall
<1>10. Sound => []([]Calm => []<>At("wait") /\ [](At("wait") => <>At("timers")))
    BY RoundsGoOn, PTL DEF NoEndlessFall, Calm
<1> HIDE DEF Sound
<1>11. Sound /\ [][Next]_vars /\ []IInv => []~[]Quiet
    BY <1>6, <1>7, <1>9, <1>10, PTL
<1> QED
    BY <1>8, <1>11, InvariantHolds, EveryPeriodHolds, PTL DEF Spec, Runs, Sound, Calm, Absent, v, Posted

(* Something that is asked for and stays away is alerted again and again   *)
(* (CameraHandle.cpp:415-432), for every frame_interval, time_interval and *)
(* list, if updates do not keep resetting its timer.                       *)
THEOREM AbsencesAreReported ==
    FairSpec /\ []FramesStep /\ NoEndlessFall(Period - skipped)
        /\ (\A l \in TimeLabels : NoEndlessFall(Young(l)))
    => AbsenceIsReported
BY AbsencesReportedIfFramesGoOn, FramesAreReady, PTL DEF FairSpec

=============================================================================
