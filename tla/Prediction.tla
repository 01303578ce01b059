------------------------------ MODULE Prediction ------------------------------
(***************************************************************************)
(* What a camera, a snapshot or a picture gets from YoloV5::prediction_my: *)
(* the picture is squeezed into the square the networks take, each network *)
(* the algorithms call for proposes boxes, of boxes that cover each other  *)
(* the one of the highest score is kept (nms), and what is kept is moved   *)
(* back to where it is in the picture (sizeOriginal).                      *)
(*                                                                         *)
(* YoloV5::m_mutexPred is held from the first line to the last: there is   *)
(* one call at a time.  Left out: what the networks propose, which is any  *)
(* set of candidates above confThres; rounding (a coordinate is a whole    *)
(* number, a threshold a ratio of them); maxNms, 30000, which the 25200    *)
(* rows of a square of 640 do not reach.                                   *)
(***************************************************************************)
EXTENDS Integers, Sequences

CONSTANTS Pictures, \* the sizes of pictures: [w, h]
          Lists,    \* the algorithm lists of the callers
          Models,   \* YoloV5::models, with the classes whose label is "-1"
          Cands,    \* the candidates a network can propose
          Side,     \* YoloV5::height and width, 640
          MaxWh,    \* YoloV5.cpp:57, 4096
          Thresh    \* YoloV5::iouThres, in hundredths: 45

Classes == Nat

(* No picture is so long that nothing of it is left in the square.         *)
ASSUME SizesAssumption ==
    /\ Side \in Nat \ {0}
    /\ \A p \in Pictures : /\ p.w \in Nat \ {0} /\ p.h \in Nat \ {0}
                           /\ p.w <= Side * p.h /\ p.h <= Side * p.w
ASSUME ModelsAssumption == Models \in Seq([name : STRING, enable : BOOLEAN, needs : SUBSET STRING,
                                           similarity : Nat, ignored : SUBSET Classes])
ASSUME ThreshAssumption == Thresh \in 0..99
(* A candidate has an area, and a part of it lies to the right of and      *)
(* below the origin.                                                       *)
ASSUME CandsAssumption ==
    \A c \in Cands :
        /\ c.class \in Classes /\ c.score \in Nat
        /\ c.left \in Int /\ c.right \in Nat /\ c.left < c.right
        /\ c.top \in Int /\ c.bottom \in Nat /\ c.top < c.bottom
(* Classes are so far apart that boxes of different ones do not meet.      *)
ASSUME ApartAssumption ==
    /\ MaxWh \in Nat
    /\ \A c, d \in Cands : c.right - d.left <= MaxWh /\ c.bottom - d.top <= MaxWh

VARIABLES
    pc,         \* where the call is: "idle", "model", "nms" or "collected"
    picture,    \* the size of the picture
    algorithms, \* algorithm_list
    model,      \* the index of modelInfo
    found,      \* what the network proposed
    order,      \* what of it nms still has in its order
    keep,       \* what of it nms keeps
    rs          \* the answer, with the candidate each box comes from

vars == <<pc, picture, algorithms, model, found, order, keep, rs>>

----------------------------------------------------------------------------
(* Putting a picture into the square, and boxes back into the picture.     *)

IsW(p) == p.w > p.h

(* The side of the resized picture that does not fill the square.          *)
Inner(p) == IF IsW(p) THEN (Side * p.h) \div p.w ELSE (Side * p.w) \div p.h

Border(p) == (Side - Inner(p)) \div 2

(* Mutant: the border is not taken off.                                    *)
BorderedNot(x, orig, border) == (x * orig) \div (Side - 2 * border)

(* A coordinate along the filled side, and along the one with the border.  *)
Filled(x, orig) == (x * orig) \div Side
Bordered(x, orig, border) == ((x - border) * orig) \div (Side - 2 * border)

NotBelow0(x) == IF x < 0 THEN 0 ELSE x

SizeOriginal(c, p) ==
    LET X(x) == NotBelow0(IF IsW(p) THEN Filled(x, p.w) ELSE Bordered(x, p.w, Border(p)))
        Y(y) == NotBelow0(IF IsW(p) THEN Bordered(y, p.h, Border(p)) ELSE Filled(y, p.h))
    IN  [left |-> X(c.left), top |-> Y(c.top), right |-> X(c.right), bottom |-> Y(c.bottom)]

----------------------------------------------------------------------------
(* Which of the candidates nms drops for one it keeps.                     *)

Larger(x, y) == IF x < y THEN y ELSE x
Smaller(x, y) == IF x < y THEN x ELSE y

(* Mutant: the classes are not kept apart.                                 *)
OffsetNone(c) == 0

Offset(c) == c.class * MaxWh

(* How far two sides that begin at a and c and end at b and d overlap: the *)
(* first is the kept one's.                                                *)
Shared(a, b, c, d) == Larger(Smaller(Larger(d, 0), b) - Larger(c, a), 0)

Inter(k, c) ==
    Shared(k.left + Offset(k), k.right + Offset(k), c.left + Offset(c), c.right + Offset(c))
    * Shared(k.top + Offset(k), k.bottom + Offset(k), c.top + Offset(c), c.bottom + Offset(c))

Area(c) == (c.right - c.left) * (c.bottom - c.top)

(* What two boxes have in common is more than the threshold of what they   *)
(* cover together.                                                         *)
Beyond(common, c, d) == common * 100 > Thresh * (Area(c) + Area(d) - common)

(* Mutant: what both cover is counted twice.                               *)
SuppressesTwice(k, c) == Inter(k, c) * 100 > Thresh * (Area(k) + Area(c))

Suppresses(k, c) == Beyond(Inter(k, c), k, c)

(* A candidate of the highest score.  The sort is not stable: of several   *)
(* it is any.                                                              *)
First(c, cands) == c \in cands /\ \A d \in cands : d.score <= c.score

----------------------------------------------------------------------------
(* The call.                                                               *)

Begin(p, list) ==
    /\ pc = "idle"
    /\ pc' = "model"
    /\ picture' = p
    /\ algorithms' = list
    /\ model' = 1
    /\ rs' = {}
    /\ UNCHANGED <<found, order, keep>>

Wanted(m) == (m.name \in algorithms \/ m.enable) /\ m.needs \subseteq algorithms

(* The continues at the head of the loop.                                  *)
Skip ==
    /\ pc = "model" /\ model <= Len(Models)
    /\ ~Wanted(Models[model])
    /\ model' = model + 1
    /\ UNCHANGED <<pc, picture, algorithms, found, order, keep, rs>>

Forward(cands) ==
    /\ pc = "model" /\ model <= Len(Models)
    /\ Wanted(Models[model])
    /\ pc' = "nms"
    /\ found' = cands
    /\ order' = cands
    /\ keep' = {}
    /\ UNCHANGED <<picture, algorithms, model, rs>>

(* One turn of the loop of nms.                                            *)
Nms(c) ==
    /\ pc = "nms"
    /\ First(c, order)
    /\ keep' = keep \union {c}
    /\ order' = {d \in order \ {c} : ~Suppresses(c, d)}
    /\ UNCHANGED <<pc, picture, algorithms, model, found, rs>>

(* Boxes of too low a score and boxes labelled "-1" are left out.          *)
Passes(c, m) == c.score >= m.similarity /\ c.class \notin m.ignored

Collect ==
    /\ pc = "nms" /\ order = {}
    /\ pc' = "collected"
    /\ rs' = rs \union {[model |-> model, cand |-> c, rect |-> SizeOriginal(c, picture)] :
                            c \in {d \in keep : Passes(d, Models[model])}}
    /\ UNCHANGED <<picture, algorithms, model, found, order, keep>>

NextModel ==
    /\ pc = "collected"
    /\ pc' = "model"
    /\ model' = model + 1
    /\ found' = {} /\ keep' = {}
    /\ UNCHANGED <<picture, algorithms, order, rs>>

Answer ==
    /\ pc = "model" /\ model > Len(Models)
    /\ pc' = "idle"
    /\ UNCHANGED <<picture, algorithms, model, found, order, keep, rs>>

Init ==
    /\ pc = "idle"
    /\ picture \in Pictures /\ algorithms = {}
    /\ model = 1
    /\ found = {} /\ order = {} /\ keep = {}
    /\ rs = {}

Next ==
    \/ \E p \in Pictures, list \in Lists : Begin(p, list)
    \/ Skip
    \/ \E cands \in SUBSET Cands : Forward(cands)
    \/ \E c \in order : Nms(c)
    \/ Collect \/ NextModel \/ Answer

Spec == Init /\ [][Next]_vars

----------------------------------------------------------------------------
(* Properties.  The reference: how far two boxes overlap where they are,   *)
(* without the detour that keeps classes apart.                            *)

Overlap(a, b, c, d) == Larger(Smaller(b, d) - Larger(a, c), 0)

Common(c, d) ==
    Overlap(c.left, c.right, d.left, d.right) * Overlap(c.top, c.bottom, d.top, d.bottom)

(* Two boxes show the same thing.                                          *)
Same(c, d) == c.class = d.class /\ Beyond(Common(c, d), c, d)

(* The parts nms has gone through are apart from each other and from what  *)
(* is left, and whatever was dropped was dropped for a better one.         *)
NmsInv ==
    /\ order \subseteq found /\ keep \subseteq found
    /\ \A c \in keep, d \in keep \union order : c # d => ~Same(c, d)
    /\ \A c \in keep, d \in order : c # d /\ d.score <= c.score
    /\ \A d \in found \ (keep \union order) :
           \E c \in keep : Same(c, d) /\ d.score <= c.score

(* The state of the call, and between models nothing left in the order.    *)
PredictionInv ==
    /\ picture \in Pictures /\ model \in 1..(Len(Models) + 1)
    /\ pc \in {"idle", "model", "nms", "collected"}
    /\ pc \in {"nms", "collected"} => model <= Len(Models)
    /\ pc # "nms" => order = {}
    /\ found \subseteq Cands
    /\ NmsInv
    /\ \A a \in rs : /\ a.cand \in Cands
                     /\ a.model \in 1..model
                     /\ a.model = model => pc = "collected"

(* One thing is answered once: two boxes of a model and a class do not     *)
(* cover each other beyond the threshold (YoloV5.cpp:146 compares only     *)
(* with the box kept last).                                                *)
AnswersApart ==
    \A a, b \in rs : a.model = b.model /\ a.cand # b.cand => ~Same(a.cand, b.cand)

(* Nothing is lost: whatever a model found that reaches its similarity and *)
(* has a label is answered, or a better box of the same class in its       *)
(* place.  It is not lost to a box of another class, nor to one that is    *)
(* itself left out afterwards (YoloV5.cpp:244 and 259 come after nms).     *)
AnswersCover ==
    pc = "collected" =>
        \A c \in found : Passes(c, Models[model]) =>
            \E a \in rs : /\ a.model = model
                          /\ a.cand = c \/ Same(a.cand, c)
                          /\ a.cand.score >= c.score

(* A candidate in the part of the square the picture fills.                *)
InPicture(c, p) ==
    LET right == IF IsW(p) THEN Side ELSE Border(p) + Inner(p)
        bottom == IF IsW(p) THEN Border(p) + Inner(p) ELSE Side
    IN  c.right <= right /\ c.bottom <= bottom

(* A rectangle is where it should be: not inside out, not negative even if *)
(* the box lay on the border (YoloV5.cpp:182), and within the picture if   *)
(* the candidate was, also if the border is an odd number of pixels.       *)
RectsAreSound ==
    \A a \in rs :
        /\ 0 <= a.rect.left /\ a.rect.left <= a.rect.right
        /\ 0 <= a.rect.top /\ a.rect.top <= a.rect.bottom
        /\ InPicture(a.cand, picture) =>
               a.rect.right <= picture.w /\ a.rect.bottom <= picture.h
=============================================================================
