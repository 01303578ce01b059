---------------------------- MODULE AlertPolicy ----------------------------
(***************************************************************************)
(* What EventCenter promises the operator about alerts, without its        *)
(* queues, caches and threads.  A camera sees types of violation.  An      *)
(* alert of a type may be raised only on the evidence of an unbroken run   *)
(* of MinCount + 2 sightings, each at most Gap after those before it and   *)
(* none of them used by an earlier alert, and only Interval or more after  *)
(* the last alert of the same type from the same camera.                   *)
(*                                                                         *)
(* EventCenter.tla refines this specification.                             *)
(***************************************************************************)
EXTENDS Integers

CONSTANTS Cameras,   \* the camera ids
          Types,     \* the event labels
          MinCount,  \* EventCenter.cpp:327, "count > 5"
          Gap,       \* EventCenter.cpp:319, 1000 ms
          Interval   \* config "interval", in the units of the clock

VARIABLES now,    \* the wall clock
          chain,  \* per camera and type: the run of sightings since the last alert
          alert   \* per camera and type: when the last alert was raised

vars == <<now, chain, alert>>

Never == -1
NoChain == [n |-> 0, last |-> Never]

(* Lengths are counted up to what an alert needs: a longer run is worth no *)
(* more.                                                                   *)
Needed == MinCount + 2
Runs == [n : 0..Needed, last : Nat \union {Never}]

TypeOK ==
    /\ now \in Nat
    /\ chain \in [Cameras -> [Types -> Runs]]
    /\ alert \in [Cameras -> [Types -> Nat \union {Never}]]

Init ==
    /\ now = 0
    /\ chain = [c \in Cameras |-> [t \in Types |-> NoChain]]
    /\ alert = [c \in Cameras |-> [t \in Types |-> Never]]

Tick ==
    /\ now' = now + 1
    /\ UNCHANGED <<chain, alert>>

(* A run goes on while the next sighting is within Gap of the latest so    *)
(* far, or was taken before it, and starts again otherwise.                *)
Extend(run, time) ==
    [n    |-> IF run.n > 0 /\ time - run.last =< Gap
                THEN IF run.n < Needed THEN run.n + 1 ELSE Needed
                ELSE 1,
     last |-> IF time > run.last THEN time ELSE run.last]

(* The types of S are sighted together, in a frame taken at time; two      *)
(* sessions of a camera need not be heard in the order of their frames.    *)
Sight(c, S, time) ==
    /\ chain' = [chain EXCEPT ![c] =
                    [t \in Types |-> IF t \in S THEN Extend(@[t], time) ELSE @[t]]]
    /\ UNCHANGED <<now, alert>>

Raise(c, t) ==
    /\ chain[c][t].n = Needed
    /\ alert[c][t] # Never => now - alert[c][t] >= Interval
    /\ alert' = [alert EXCEPT ![c][t] = now]
    /\ chain' = [chain EXCEPT ![c][t].n = 0]
    /\ UNCHANGED now

Next ==
    \/ Tick
    \/ \E c \in Cameras :
         \/ \E S \in SUBSET Types, time \in 0..now : Sight(c, S, time)
         \/ \E t \in Types : Raise(c, t)

Spec == Init /\ [][Next]_vars

=============================================================================
