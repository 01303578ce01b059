--------------------------- MODULE SnapshotPolicy ---------------------------
(***************************************************************************)
(* What a client is promised of a request for a snapshot or for pictures   *)
(* of cameras, without threads, pullers, files and clocks.  It is answered *)
(* once, with all that was found: each camera asked about is looked at     *)
(* once, shows one picture of its own or none, and none is open when the   *)
(* answer is given.  Only a stream that broke off is answered before, and  *)
(* only its camera may be looked at after the answer.                      *)
(*                                                                         *)
(* Snapshots.tla refines this specification.                               *)
(***************************************************************************)
CONSTANTS Requests,  \* the requests
          Cams,      \* camera ids
          Pictures,  \* what can be shown, each of it of a camera (.cam)
          None       \* no picture, no answer

VARIABLES asked,   \* per request: whether it was made
          open,    \* per request: the cameras still to be looked at
          found,   \* per request and camera: the picture, or None
          answer,  \* per request: what was found when it was answered, or None
          broken   \* per request: its stream broke off

vars == <<asked, open, found, answer, broken>>

Nothing == [c \in Cams |-> None]

Init ==
    /\ asked = [r \in Requests |-> FALSE]
    /\ open = [r \in Requests |-> {}]
    /\ found = [r \in Requests |-> Nothing]
    /\ answer = [r \in Requests |-> None]
    /\ broken = [r \in Requests |-> FALSE]

Ask(r, cs) ==
    /\ ~asked[r]
    /\ asked' = [asked EXCEPT ![r] = TRUE]
    /\ open' = [open EXCEPT ![r] = cs]
    /\ UNCHANGED <<found, answer, broken>>

(* An open camera is looked at, and shows something or nothing: too late   *)
(* for the answer when the stream broke off.                               *)
Look(r, c) ==
    /\ c \in open[r]
    /\ answer[r] = None \/ broken[r]
    /\ open' = [open EXCEPT ![r] = @ \ {c}]
    /\ \/ UNCHANGED found
       \/ \E p \in Pictures :
            /\ p.cam = c
            /\ found' = [found EXCEPT ![r][c] = p]
    /\ UNCHANGED <<asked, answer, broken>>

BreakOff(r) ==
    /\ asked[r] /\ answer[r] = None
    /\ broken' = [broken EXCEPT ![r] = TRUE]
    /\ UNCHANGED <<asked, open, found, answer>>

Answer(r) ==
    /\ asked[r] /\ answer[r] = None
    /\ open[r] = {} \/ broken[r]
    /\ answer' = [answer EXCEPT ![r] = found[r]]
    /\ UNCHANGED <<asked, open, found, broken>>

Next ==
    \E r \in Requests :
        \/ \E cs \in SUBSET Cams : Ask(r, cs)
        \/ \E c \in Cams : Look(r, c)
        \/ BreakOff(r)
        \/ Answer(r)

Spec == Init /\ [][Next]_vars

=============================================================================
