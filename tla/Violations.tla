----------------------------- MODULE Violations -----------------------------
(***************************************************************************)
(* What a camera reports of a frame.  YoloV5::prediction_my collects the   *)
(* boxes its models find; CameraHandle::Handle takes each box that is not  *)
(* gear and keeps it as a violation when the rule for its label, one of    *)
(* the Check functions, says so.  The rules relate boxes by intersect and  *)
(* overlapRate (watchai.cpp), which are given here for all integers.       *)
(*                                                                         *)
(* A box has its edges in pixels of a frame of 1280 x 720 and its score in *)
(* percent.  Left out: the tensors, the threshold of each model, and the   *)
(* rounding of the floating point ratios, which are compared exactly.      *)
(***************************************************************************)
EXTENDS Integers, Sequences, FiniteSets

CONSTANTS Models,      \* the models of YoloV5: [name, enable, labels]
          Candidates,  \* the boxes they may find: [label, box]
          Lists,       \* the algorithms clients ask for, sets of names of models
          MaxFound     \* bound on the boxes found in a frame

(* Labels that are only looked at by the rules of others.                  *)
Gear == {"helmet", "gz", "onlyjyst", "face", "ydjz", "safebelt", "badsafebelt", "pifu"}

(* The labels of the models, and those the rules ask for.                  *)
Labels == ((UNION {m.labels : m \in Models}) \ {"-1"}) \union Gear \union {"person", "head"}

Box == [left : Nat, right : Nat, top : Nat, bottom : Nat, hold : Nat]

(* Edges are cut at 0 (YoloV5.cpp:183-187) and taken to lie in the frame.  *)
(* None is assumed to be without width: a person of width 0 would make     *)
(* CameraHandle.cpp:222 divide by zero.                                    *)
Proper(b) ==
    /\ b.left < b.right /\ b.right =< 1280
    /\ b.top < b.bottom /\ b.bottom =< 720

ASSUME ModelAssumption ==
    Models \subseteq [name : STRING, enable : BOOLEAN, labels : SUBSET STRING]
ASSUME CandidateAssumption ==
    \A c \in Candidates : c.label \in STRING /\ c.box \in Box /\ Proper(c.box)
ASSUME ListAssumption == Lists \subseteq SUBSET STRING
ASSUME FoundAssumption == MaxFound \in Nat

VARIABLES
    algorithm_list,  \* CameraHandle::algorithm_list
    asked,           \* the copy of it prediction_my was called with
    found            \* allResultBoxes: label -> boxes, in the order they were found

vars == <<algorithm_list, asked, found>>

----------------------------------------------------------------------------
(* Geometry, watchai.cpp:88-140.                                           *)

Abs(x) == IF x < 0 THEN -x ELSE x
Least(x, y) == IF x < y THEN x ELSE y
Most(x, y) == IF x < y THEN y ELSE x

(* Mutant: boxes that touch intersect.                                     *)
intersectTouching(a, b) ==
    /\ Abs((a.left + a.right) \div 2 - (b.left + b.right) \div 2)
         =< (a.right + b.right - a.left - b.left) \div 2
    /\ Abs((a.top + a.bottom) \div 2 - (b.top + b.bottom) \div 2)
         =< (a.bottom + b.bottom - a.top - b.top) \div 2

(* The centres are closer than half the sum of the widths, and of the      *)
(* heights; all of it in integers.                                         *)
intersect(a, b) ==
    /\ Abs((a.left + a.right) \div 2 - (b.left + b.right) \div 2)
         < (a.right + b.right - a.left - b.left) \div 2
    /\ Abs((a.top + a.bottom) \div 2 - (b.top + b.bottom) \div 2)
         < (a.bottom + b.bottom - a.top - b.top) \div 2

Area(a) == (a.right - a.left) * (a.bottom - a.top)

Join(a, b) ==
    LET w == Least(a.right, b.right) - Most(a.left, b.left)
        h == Least(a.bottom, b.bottom) - Most(a.top, b.top)
    IN IF w > 0 /\ h > 0 THEN w * h ELSE 0

(* overlapRate(a, b) > percent / 100: the common part is compared with the *)
(* larger of the two.                                                      *)
overlapRateAbove(a, b, percent) ==
    LET union == Most(Area(a), Area(b))
    IN union > 0 /\ 100 * Join(a, b) > percent * union

----------------------------------------------------------------------------
(* The rules, CameraHandle.cpp:84-415.                                     *)

Meets(a, label) == \E i \in 1..Len(found[label]) : intersect(a, found[label][i])

(* The same with overlapRate; without a rate, intersect is enough.         *)
CheckWithPerson(a, percent) ==
    \E i \in 1..Len(found["person"]) :
        /\ intersect(a, found["person"][i])
        /\ percent # 0 => overlapRateAbove(a, found["person"][i], percent)

CheckWithHead(a) ==
    /\ CheckWithPerson(a, 3)
    /\ \A i \in 1..Len(found["helmet"]) :
         ~(intersect(a, found["helmet"][i]) /\ overlapRateAbove(a, found["helmet"][i], 50))

(* The first head the cigarette meets decides, a helmet only when it meets *)
(* no head: it is narrower than three quarters of it.                      *)
Narrow(a, b) == 4 * (a.right - a.left) =< 3 * (b.right - b.left)

FirstNarrow(a, label) ==
    \E i \in 1..Len(found[label]) :
        /\ intersect(a, found[label][i])
        /\ \A j \in 1..(i - 1) : ~intersect(a, found[label][j])
        /\ Narrow(a, found[label][i])

CheckSmoke(a) ==
    IF Meets(a, "head") THEN FirstNarrow(a, "head") ELSE FirstNarrow(a, "helmet")

(* Mutant: the last loop is the wrong way round.                           *)
CheckWdAqdInverted(a) ==
    /\ a.hold >= 83
    /\ Meets(a, "person")
    /\ Meets(a, "badsafebelt") \/ Meets(a, "safebelt")

(* Off the ground: a bad belt is reported, no belt is reported.            *)
CheckWdAqd(a) ==
    /\ a.hold >= 83
    /\ Meets(a, "person")
    /\ Meets(a, "badsafebelt") \/ ~Meets(a, "safebelt")

(* No gloves: the loop of line 183 leaves flag false whether or not one of *)
(* the gloves in the frame touches the box.                                *)
CheckWdJyst(a) ==
    /\ Meets(a, "gz")
    /\ found["onlyjyst"] = <<>>

CheckRydd(a) ==
    /\ 10 * (a.right - a.left) >= 13 * (a.bottom - a.top)
    /\ CheckWithPerson(a, 20)

CheckWcgzf(a) ==
    /\ CheckWithPerson(a, 10)
    /\ ~Meets(a, "head")
    /\ ~Meets(a, "helmet")
    /\ ~Meets(a, "onlyjyst")
    /\ Meets(a, "pifu")

(* Mutant: like the loop of CheckWdJyst, without the else of line 338.     *)
CheckWdJzAny(a) ==
    /\ a.right - a.left > 130
    /\ Meets(a, "face")
    /\ found["ydjz"] = <<>>

(* A person near enough, whose face is seen, without a licence.            *)
CheckWdJz(a) ==
    /\ a.right - a.left > 130
    /\ Meets(a, "face")
    /\ ~Meets(a, "ydjz")

(* Persons under the boom of a crane, lines 192-257.  The box found is     *)
(* made to reach down to line 420 of the frame and, once, as soon as it is *)
(* seen to be higher than wide, to the side; a person in it counts when    *)
(* the box is wider than the person by a factor within certain limits.     *)
Lowered(b) == [b EXCEPT !.bottom = Most(@, 420)]

Tall(b) == b.bottom - b.top > b.right - b.left

(* Mutant: the edge is not kept in the frame.                              *)
WidenedFreely(b) ==
    IF b.left > 640
      THEN [b EXCEPT !.left = @ - b.bottom \div 2]
      ELSE [b EXCEPT !.right = @ + b.bottom \div 2]

Widened(b) ==
    IF b.left > 640
      THEN [b EXCEPT !.left = IF @ < b.bottom \div 2 THEN 10 ELSE @ - b.bottom \div 2]
      ELSE [b EXCEPT !.right = IF @ + b.bottom \div 2 > 1280 THEN 1270 ELSE @ + b.bottom \div 2]

(* The person at which it is widened: the height is looked at before the   *)
(* box is lowered, so that it may be the second.                           *)
Turn(b) == IF Tall(b) THEN 1 ELSE IF Tall(Lowered(b)) THEN 2 ELSE 0

Reach(b, k) == IF Turn(b) \in 1..k THEN Widened(Lowered(b)) ELSE Lowered(b)

(* The loop breaks at person k: C++ reads line 232 as (flag && qflag) ? :, *)
(* so that a person the box does not meet may end it, too.                 *)
Breaks(b, k) ==
    LET person == found["person"][k]
        ps == (Reach(b, k).right - Reach(b, k).left) \div (person.right - person.left)
    IN IF intersect(Reach(b, k), person) /\ k = Turn(b)
         THEN 6 < ps /\ ps < 25
         ELSE 7 < ps /\ ps < 11

BreaksAt(b, k) == Breaks(b, k) /\ \A j \in 1..(k - 1) : ~Breaks(b, j)

Persons == 1..Len(found["person"])

CheckDbxzr(b) ==
    \E k \in Persons : BreaksAt(b, k) /\ intersect(Reach(b, k), found["person"][k])

(* The box is passed by reference: what is reported is what it has become. *)
Underneath(b) == Reach(b, CHOOSE k \in Persons : BreaksAt(b, k))

----------------------------------------------------------------------------
(* Handle, CameraHandle.cpp:461-525.                                       *)

Kept(label, b) ==
    /\ label = "head" => CheckWithHead(b)
    /\ label = "smoke" => CheckSmoke(b)
    /\ label = "wdjyst" => CheckWdJyst(b)
    /\ label = "wrft" => CheckWithPerson(b, 0)
    /\ label = "rydd" => CheckRydd(b)
    /\ label \in {"gzfzr", "zzfzr"} => CheckWithPerson(b, 15)
    /\ label = "wcgzf" => CheckWcgzf(b)
    /\ label = "offground" => CheckWdAqd(b)
    /\ label = "person" => "jzsb" \in algorithm_list /\ CheckWdJz(b)
    /\ label = "dxdb" => CheckDbxzr(b)

Renamed(label) ==
    CASE label = "offground" -> "wjaqd"
      [] label = "person" -> "wdjz"
      [] label = "dxdb" -> "dbxzr"
      [] OTHER -> label

Shown(label, b) == IF label = "dxdb" THEN Underneath(b) ELSE b

(* predictionsBoxes, and the label each of them was found with.            *)
Predictions ==
    UNION {{[event |-> Renamed(l), from |-> l, box |-> Shown(l, found[l][i])] :
              i \in {j \in 1..Len(found[l]) : Kept(l, found[l][j])}} : l \in Labels \ Gear}

----------------------------------------------------------------------------
(* Line 445: the containers are emptied and the list is passed on.         *)
Begin ==
    /\ found' = [l \in Labels |-> <<>>]
    /\ asked' = algorithm_list
    /\ UNCHANGED algorithm_list

(* Which models are run, YoloV5.cpp:225-236.                               *)
Runs(m) ==
    /\ m.name \in asked \/ m.enable
    /\ m.name = "onlyjyst" => "jyst" \in asked
    /\ m.name = "maskface" => "jzsb" \in asked
    /\ m.name = "arm2" => "arm" \in asked

(* CameraHandle.cpp:346-350, at any moment, from the HTTP thread; the      *)
(* timers it also sets are left out.                                       *)
UpdateAlgorithm_list(list) ==
    /\ algorithm_list' = list
    /\ UNCHANGED <<asked, found>>

(* YoloV5.cpp:243-260 and CameraHandle.cpp:451-459: a box of a model.      *)
Find(m, c) ==
    /\ Cardinality({p \in Labels \X (1..MaxFound) : p[2] =< Len(found[p[1]])}) < MaxFound
    /\ Runs(m)
    /\ c.label \in m.labels \ {"-1"}
    /\ found' = [found EXCEPT ![c.label] = Append(@, c.box)]
    /\ UNCHANGED <<algorithm_list, asked>>

Init ==
    /\ algorithm_list \in Lists
    /\ asked = algorithm_list
    /\ found = [l \in Labels |-> <<>>]

Next ==
    \/ Begin
    \/ \E list \in Lists : UpdateAlgorithm_list(list)
    \/ \E m \in Models, c \in Candidates : Find(m, c)

Spec == Init /\ [][Next]_vars

----------------------------------------------------------------------------
(* Correctness.                                                            *)

(* The types of the state, and of what is reported: the box of a crane may *)
(* be stretched as it is checked, but never out of the frame, where it is  *)
(* drawn.                                                                  *)
TypeOK ==
    /\ algorithm_list \in Lists
    /\ asked \in Lists
    /\ found \in [Labels -> Seq(Box)]
    /\ \A l \in Labels : \A i \in 1..Len(found[l]) : Proper(found[l][i])
    /\ \A r \in Predictions : r.box \in Box /\ Proper(r.box)

(* Two boxes have a pixel in common.                                       *)
Overlap(a, b) ==
    /\ a.left < b.right /\ b.left < a.right
    /\ a.top < b.bottom /\ b.top < a.bottom

Personal == {"head", "wrft", "rydd", "gzfzr", "zzfzr", "wcgzf", "offground", "dxdb"}

(* Nobody is accused who is not there: a violation of a person overlaps a  *)
(* person of the same frame, also that of a crane with the box it ends up  *)
(* with, and although all centres and ratios are computed in integers.     *)
AccusedArePresent ==
    \A r \in Predictions : r.from \in Personal =>
        \E i \in 1..Len(found["person"]) : Overlap(r.box, found["person"][i])

Protective == {"helmet", "safebelt", "onlyjyst", "ydjz"}

(* Protective gear in sight never adds a violation, but for the helmet a   *)
(* cigarette is seen at.                                                   *)
GearNeverAccuses ==
    [][algorithm_list' = algorithm_list /\ (\A l \in Labels \ Protective : found'[l] = found[l])
         => {r \in Predictions' : r.from # "smoke"} \subseteq Predictions]_vars

(* Gear that touches nobody accused excuses nobody: one worker's belt does *)
(* not hide the missing belt of another.  It does not hold of gloves, see  *)
(* ViolationsMC.                                                           *)
GearElsewhereIsNoExcuse ==
    [][\A l \in Protective \ {"onlyjyst"} : Len(found'[l]) > Len(found[l]) =>
         \A r \in Predictions :
             ~Overlap(r.box, found'[l][Len(found'[l])]) => r \in Predictions']_vars

=============================================================================
