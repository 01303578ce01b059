-------------------------- MODULE ViolationsProofs --------------------------
(***************************************************************************)
(* Proofs about the rules of Violations, for all boxes of the frame and    *)
(* all models: what intersect is worth, and what is never reported.        *)
(***************************************************************************)
EXTENDS Violations, TLAPS

(* Edges are whole numbers, and a box with another edge is still a box.    *)
LEMMA Edges ==
    \A b \in Box : b.left \in Nat /\ b.right \in Nat /\ b.top \in Nat /\ b.bottom \in Nat
    BY DEF Box

LEMMA Moved ==
    \A b \in Box, x \in Nat :
        /\ [b EXCEPT !.left = x] \in Box
        /\ [b EXCEPT !.right = x] \in Box
        /\ [b EXCEPT !.bottom = x] \in Box
    BY DEF Box

(* Boxes that intersect have a pixel in common, although centres and half  *)
(* sums are rounded down ...                                               *)
LEMMA IntersectSound ==
    ASSUME NEW a \in Box, NEW b \in Box, intersect(a, b)
    PROVE  Overlap(a, b)
<1>1. /\ a.left \in Int /\ a.right \in Int /\ a.top \in Int /\ a.bottom \in Int
      /\ b.left \in Int /\ b.right \in Int /\ b.top \in Int /\ b.bottom \in Int
    BY Edges
<1>2. ASSUME NEW l \in Int, NEW r \in Int, NEW m \in Int, NEW s \in Int,
             Abs((l + r) \div 2 - (m + s) \div 2) < (r + s - l - m) \div 2
      PROVE  l < s /\ m < r
    BY <1>2 DEF Abs
<1>3. a.left < b.right /\ b.left < a.right
    BY <1>1, <1>2 DEF intersect
<1>4. a.top < b.bottom /\ b.top < a.bottom
    BY <1>1, <1>2 DEF intersect
<1> QED
    BY <1>3, <1>4 DEF Overlap

(* ... and boxes that have two columns and two rows of pixels in common    *)
(* intersect: the rounding costs one pixel at most.                        *)
LEMMA IntersectComplete ==
    ASSUME NEW a \in Box, NEW b \in Box,
           a.left + 1 < b.right, b.left + 1 < a.right,
           a.top + 1 < b.bottom, b.top + 1 < a.bottom
    PROVE  intersect(a, b)
<1>1. /\ a.left \in Int /\ a.right \in Int /\ a.top \in Int /\ a.bottom \in Int
      /\ b.left \in Int /\ b.right \in Int /\ b.top \in Int /\ b.bottom \in Int
    BY Edges
<1>2. ASSUME NEW l \in Int, NEW r \in Int, NEW m \in Int, NEW s \in Int,
             l + 1 < s, m + 1 < r
      PROVE  Abs((l + r) \div 2 - (m + s) \div 2) < (r + s - l - m) \div 2
    BY <1>2 DEF Abs
<1> QED
    BY <1>1, <1>2 DEF intersect

(* A crane's box stays in the frame and is never turned inside out.        *)
LEMMA ReachInFrame ==
    ASSUME NEW b \in Box, Proper(b), NEW k
    PROVE  Reach(b, k) \in Box /\ Proper(Reach(b, k))
<1>1. Lowered(b) \in Box /\ Proper(Lowered(b))
    <2>1. Most(b.bottom, 420) \in Nat
        BY Edges DEF Most
    <2>2. Lowered(b) \in Box
        BY <2>1, Moved DEF Lowered
    <2>3. /\ Lowered(b).left = b.left /\ Lowered(b).right = b.right
          /\ Lowered(b).top = b.top /\ Lowered(b).bottom = Most(b.bottom, 420)
        BY DEF Lowered, Box
    <2> QED
        BY <2>2, <2>3, Edges DEF Proper, Most
<1>2. ASSUME NEW c \in Box, Proper(c)
      PROVE  Widened(c) \in Box /\ Proper(Widened(c))
    <2>1. c.left \in Nat /\ c.right \in Nat /\ c.top \in Nat /\ c.bottom \in Nat
        BY <1>2, Edges
    <2>2. CASE c.left > 640
        <3>1. PICK x \in Nat : Widened(c) = [c EXCEPT !.left = x] /\ x =< c.left
            BY <2>1, <2>2 DEF Widened
        <3>2. Widened(c) \in Box
            BY <1>2, <3>1, Moved
        <3>3. /\ Widened(c).left = x /\ Widened(c).right = c.right
              /\ Widened(c).top = c.top /\ Widened(c).bottom = c.bottom
            BY <1>2, <3>1 DEF Box
        <3> QED
            BY <1>2, <2>1, <3>1, <3>2, <3>3 DEF Proper
    <2>3. CASE ~(c.left > 640)
        <3>0. PICK x \in Nat : x = IF c.right + c.bottom \div 2 > 1280
                                     THEN 1270 ELSE c.right + c.bottom \div 2
            BY <2>1
        <3>1. Widened(c) = [c EXCEPT !.right = x]
            BY <2>1, <2>3, <3>0 DEF Widened
        <3>2. Widened(c) \in Box
            BY <1>2, <3>1, Moved
        <3>3. /\ Widened(c).left = c.left /\ Widened(c).right = x
              /\ Widened(c).top = c.top /\ Widened(c).bottom = c.bottom
            BY <1>2, <3>1 DEF Box
        <3> QED
            BY <1>2, <2>1, <2>3, <3>0, <3>2, <3>3 DEF Proper
    <2> QED
        BY <2>2, <2>3
<1> QED
    BY <1>1, <1>2 DEF Reach

----------------------------------------------------------------------------
(* What is in the containers, and what is reported of it.                  *)

Typed ==
    /\ algorithm_list \in Lists
    /\ asked \in Lists
    /\ found \in [Labels -> Seq(Box)]
    /\ \A l \in Labels : \A i \in 1..Len(found[l]) : Proper(found[l][i])

Prediction(l, b) == [event |-> Renamed(l), from |-> l, box |-> Shown(l, b)]

LEMMA Predicted ==
    \A r : r \in Predictions <=>
        \E l \in Labels \ Gear : \E i \in 1..Len(found[l]) :
            Kept(l, found[l][i]) /\ r = Prediction(l, found[l][i])
    BY DEF Predictions, Prediction

LEMMA FoundBox ==
    ASSUME Typed, NEW l \in Labels, NEW i \in 1..Len(found[l])
    PROVE  found[l][i] \in Box /\ Proper(found[l][i])
    BY DEF Typed

LEMMA ShownInFrame ==
    ASSUME NEW l, NEW b \in Box, Proper(b)
    PROVE  Shown(l, b) \in Box /\ Proper(Shown(l, b))
    BY ReachInFrame DEF Shown, Underneath

LEMMA TypedTypes ==
    ASSUME Typed
    PROVE  TypeOK
<1>1. ASSUME NEW r \in Predictions
      PROVE  r.box \in Box /\ Proper(r.box)
    <2>1. PICK l \in Labels \ Gear : \E i \in 1..Len(found[l]) : r = Prediction(l, found[l][i])
        BY <1>1, Predicted
    <2>0. PICK i \in 1..Len(found[l]) : r = Prediction(l, found[l][i])
        BY <2>1
    <2>2. r.box = Shown(l, found[l][i])
        BY <2>0 DEF Prediction
    <2> QED
        BY <2>2, FoundBox, ShownInFrame
<1> QED
    BY <1>1 DEF Typed, TypeOK

(* What Find does to the container of its label, and to no other.          *)
LEMMA Found ==
    ASSUME Typed, NEW m \in Models, NEW c \in Candidates, Find(m, c)
    PROVE  /\ c.label \in Labels
           /\ c.box \in Box /\ Proper(c.box)
           /\ found' \in [Labels -> Seq(Box)]
           /\ \A l \in Labels \ {c.label} : found'[l] = found[l]
           /\ Len(found'[c.label]) = Len(found[c.label]) + 1
           /\ \A i \in 1..Len(found[c.label]) : found'[c.label][i] = found[c.label][i]
           /\ found'[c.label][Len(found[c.label]) + 1] = c.box
           /\ UNCHANGED <<algorithm_list, asked>>
<1>1. c.label \in Labels
    <2>1. c.label \in m.labels /\ c.label # "-1"
        BY DEF Find
    <2>2. c.label \in UNION {n.labels : n \in Models}
        BY <2>1
    <2>3. c.label \in (UNION {n.labels : n \in Models}) \ {"-1"}
        BY <2>1, <2>2, Zenon
    <2> QED
        BY <2>3, Zenon DEF Labels
<1>2. c.box \in Box /\ Proper(c.box)
    BY CandidateAssumption
<1>3. found \in [Labels -> Seq(Box)] /\ found[c.label] \in Seq(Box)
    BY <1>1 DEF Typed
<1>4. found' = [found EXCEPT ![c.label] = Append(found[c.label], c.box)]
    BY DEF Find
<1>5. Append(found[c.label], c.box) \in Seq(Box)
    BY <1>2, <1>3
<1>6. found'[c.label] = Append(found[c.label], c.box)
    BY <1>1, <1>3, <1>4
<1>7. found' \in [Labels -> Seq(Box)] /\ \A l \in Labels \ {c.label} : found'[l] = found[l]
    BY <1>3, <1>4, <1>5
<1> QED
    BY <1>1, <1>2, <1>3, <1>6, <1>7 DEF Find

LEMMA TypedKept ==
    ASSUME Typed, [Next]_vars
    PROVE  Typed'
<1>1. CASE Begin
    BY <1>1 DEF Begin, Typed
<1>2. ASSUME NEW list \in Lists, UpdateAlgorithm_list(list)
      PROVE  Typed'
    BY <1>2 DEF UpdateAlgorithm_list, Typed
<1>3. ASSUME NEW m \in Models, NEW c \in Candidates, Find(m, c)
      PROVE  Typed'
    <2>1. ASSUME NEW l \in Labels, NEW i \in 1..Len(found'[l])
          PROVE  Proper(found'[l][i])
        <3>1. CASE l # c.label
            BY <1>3, <2>1, <3>1, Found DEF Typed
        <3>2. CASE l = c.label
            <4>1. Len(found[l]) \in Nat
                BY <3>2 DEF Typed
            <4>2. i \in 1..Len(found[l]) \/ i = Len(found[l]) + 1
                BY <1>3, <2>1, <3>2, <4>1, Found
            <4> QED
                BY <1>3, <2>1, <3>2, <4>2, Found DEF Typed
        <3> QED
            BY <3>1, <3>2
    <2> QED
        BY <1>3, <2>1, Found DEF Typed
<1>4. CASE UNCHANGED vars
    BY <1>4 DEF vars, Typed
<1> QED
    BY <1>1, <1>2, <1>3, <1>4 DEF Next

LEMMA TypedHolds == Spec => []Typed
<1>1. Init => Typed
    BY DEF Init, Typed
<1> QED
    BY <1>1, TypedKept, PTL DEF Spec

(* The state keeps its types and every box reported is one of the frame,   *)
(* whatever the models find.                                               *)
THEOREM TypesCorrect == Spec => []TypeOK
    BY TypedHolds, TypedTypes, PTL

(* Nobody is accused who is not there.                                     *)
LEMMA PersonalKept ==
    ASSUME NEW l \in Personal, NEW b, Kept(l, b)
    PROVE  \E i \in Persons : intersect(Shown(l, b), found["person"][i])
<1>1. CASE l = "dxdb"
    <2>1. PICK k \in Persons : BreaksAt(b, k) /\ intersect(Reach(b, k), found["person"][k])
        BY <1>1 DEF Kept, CheckDbxzr
    <2>2. ASSUME NEW j \in Persons, BreaksAt(b, j)
          PROVE  j = k
        BY <2>1, <2>2 DEF BreaksAt, Persons
    <2>3. (CHOOSE j \in Persons : BreaksAt(b, j)) = k
        BY <2>1, <2>2
    <2> QED
        BY <1>1, <2>1, <2>3 DEF Shown, Underneath
<1>2. CASE l = "offground"
    BY <1>2 DEF Kept, CheckWdAqd, Meets, Shown, Persons
<1>3. CASE l \notin {"dxdb", "offground"}
    <2>1. \E percent \in Nat : CheckWithPerson(b, percent)
        BY <1>3 DEF Personal, Kept, CheckWithHead, CheckRydd, CheckWcgzf
    <2> QED
        BY <1>3, <2>1 DEF CheckWithPerson, Shown, Persons
<1> QED
    BY <1>1, <1>2, <1>3

(* A violation of a person overlaps a person found in the same frame.      *)
THEOREM AccusedPresent == Spec => []AccusedArePresent
<1>1. ASSUME Typed
      PROVE  AccusedArePresent
    <2> SUFFICES ASSUME NEW r \in Predictions, r.from \in Personal
                 PROVE  \E i \in Persons : Overlap(r.box, found["person"][i])
        BY DEF AccusedArePresent, Persons
    <2>1. PICK l \in Labels \ Gear : \E i \in 1..Len(found[l]) :
              Kept(l, found[l][i]) /\ r = Prediction(l, found[l][i])
        BY Predicted
    <2>2. PICK i \in 1..Len(found[l]) :
              Kept(l, found[l][i]) /\ r = Prediction(l, found[l][i])
        BY <2>1
    <2>3. r.from = l /\ r.box = Shown(l, found[l][i])
        BY <2>2 DEF Prediction
    <2>4. PICK p \in Persons : intersect(r.box, found["person"][p])
        BY <2>2, <2>3, PersonalKept
    <2>5. r.box \in Box
        BY <1>1, <2>2, <2>3, FoundBox, ShownInFrame
    <2>6. found["person"][p] \in Box
        BY <1>1, FoundBox DEF Persons, Labels
    <2> QED
        BY <2>4, <2>5, <2>6, IntersectSound
<1> QED
    BY <1>1, TypedHolds, PTL

----------------------------------------------------------------------------
(* Gear.                                                                   *)

LEMMA PredictedNext ==
    \A r : r \in Predictions' <=>
        \E l \in Labels \ Gear : \E b :
            /\ \E i \in 1..Len(found'[l]) : b = found'[l][i]
            /\ Kept(l, b)'
            /\ r = Prediction(l, b)'
    BY DEF Predictions, Prediction

(* Every container keeps its boxes, and that of label alone may get more.  *)
Grows(label) ==
    /\ algorithm_list' = algorithm_list
    /\ \A l \in Labels \ {label} : found'[l] = found[l]
    /\ \A i \in 1..Len(found[label]) : i \in 1..Len(found'[label]) /\ found'[label][i] = found[label][i]

LEMMA MeetsGrows ==
    ASSUME NEW label \in Protective, Grows(label)
    PROVE  /\ \A a : \A l \in Labels : Meets(a, l) => Meets(a, l)'
           /\ \A a : \A l \in Labels \ {label} : Meets(a, l)' <=> Meets(a, l)
           /\ \A a, percent : CheckWithPerson(a, percent)' <=> CheckWithPerson(a, percent)
<1>1. ASSUME NEW a, NEW l \in Labels, Meets(a, l)
      PROVE  Meets(a, l)'
    <2>1. PICK i \in 1..Len(found[l]) : intersect(a, found[l][i])
        BY <1>1 DEF Meets
    <2>2. i \in 1..Len(found'[l]) /\ found'[l][i] = found[l][i]
        BY <2>1 DEF Grows
    <2> QED
        BY <2>1, <2>2 DEF Meets
<1>2. \A a : \A l \in Labels \ {label} : Meets(a, l)' <=> Meets(a, l)
    BY DEF Meets, Grows
<1>3. \A a, percent : CheckWithPerson(a, percent)' <=> CheckWithPerson(a, percent)
    BY DEF CheckWithPerson, Grows, Labels, Protective
<1> QED
    BY <1>1, <1>2, <1>3

(* The rule of the crane asks for persons only.                            *)
LEMMA CraneSame ==
    ASSUME NEW label \in Protective, Grows(label), NEW b
    PROVE  /\ CheckDbxzr(b)' <=> CheckDbxzr(b)
           /\ CheckDbxzr(b) => Underneath(b)' = Underneath(b)
<1>1. found'["person"] = found["person"]
    BY DEF Grows, Labels, Protective
<1>2. Persons' = Persons
    BY <1>1 DEF Persons
<1>3. \A k : Breaks(b, k)' <=> Breaks(b, k)
    BY <1>1 DEF Breaks
<1>4. \A k : BreaksAt(b, k)' <=> BreaksAt(b, k)
    BY <1>3 DEF BreaksAt
<1>5. CheckDbxzr(b)' <=> CheckDbxzr(b)
    BY <1>1, <1>2, <1>4 DEF CheckDbxzr
<1>6. ASSUME CheckDbxzr(b)
      PROVE  Underneath(b)' = Underneath(b)
    <2>1. PICK k \in Persons : BreaksAt(b, k)
        BY <1>6 DEF CheckDbxzr
    <2>2. \A j \in Persons : BreaksAt(b, j) => j = k
        BY <2>1 DEF BreaksAt, Persons
    <2>3. (CHOOSE j \in Persons : BreaksAt(b, j)) = k
        BY <2>1, <2>2
    <2>4. (CHOOSE j \in Persons' : BreaksAt(b, j)') = k
        BY <1>2, <1>4, <2>1, <2>2
    <2> QED
        BY <2>3, <2>4 DEF Underneath
<1> QED
    BY <1>5, <1>6

(* More gear keeps no box but that of a cigarette that was not kept.       *)
LEMMA GearAccusesNobody ==
    ASSUME Typed, NEW label \in Protective, Grows(label), NEW l \in Labels \ Gear, NEW b,
           l # "smoke", Kept(l, b)'
    PROVE  Kept(l, b)
<1>1. \A k \in {"person", "head", "gz", "face", "badsafebelt", "pifu"} : k \in Labels \ {label}
    BY DEF Labels, Gear, Protective
<1>2. Protective \subseteq Labels
    BY DEF Labels, Gear, Protective
<1>3. CASE l = "head"
    <2>1. CheckWithHead(b)'
        BY <1>3 DEF Kept
    <2>2. ASSUME NEW i \in 1..Len(found["helmet"])
          PROVE  ~(intersect(b, found["helmet"][i]) /\ overlapRateAbove(b, found["helmet"][i], 50))
        <3>1. i \in 1..Len(found'["helmet"]) /\ found'["helmet"][i] = found["helmet"][i]
            BY <1>2 DEF Grows, Protective
        <3> QED
            BY <2>1, <3>1 DEF CheckWithHead
    <2> QED
        BY <1>3, <2>1, <2>2, MeetsGrows DEF Kept, CheckWithHead
<1>4. CASE l = "wdjyst"
    <2>1. Meets(b, "gz")' /\ found'["onlyjyst"] = <<>>
        BY <1>4 DEF Kept, CheckWdJyst
    <2>2. found["onlyjyst"] = <<>>
        <3>1. found["onlyjyst"] \in Seq(Box) /\ Len(found["onlyjyst"]) \in Nat
            BY <1>2 DEF Typed, Protective
        <3>2. CASE label = "onlyjyst"
            <4>1. \A i \in 1..Len(found["onlyjyst"]) : i \in 1..0
                BY <2>1, <3>2 DEF Grows
            <4>2. Len(found["onlyjyst"]) = 0
                BY <3>1, <4>1
            <4> QED
                BY <3>1, <4>2
        <3>3. CASE label # "onlyjyst"
            BY <1>2, <2>1, <3>3 DEF Grows, Protective
        <3> QED
            BY <3>2, <3>3
    <2> QED
        BY <1>1, <1>4, <2>1, <2>2, MeetsGrows DEF Kept, CheckWdJyst
<1>5. CASE l = "wcgzf"
    BY <1>1, <1>2, <1>5, MeetsGrows DEF Kept, CheckWcgzf, Protective
<1>6. CASE l = "offground"
    BY <1>1, <1>2, <1>6, MeetsGrows DEF Kept, CheckWdAqd, Protective
<1>7. CASE l = "person"
    BY <1>1, <1>2, <1>7, MeetsGrows DEF Kept, CheckWdJz, Protective, Grows
<1>8. CASE l = "dxdb"
    BY <1>8, CraneSame DEF Kept
<1>9. CASE l \in {"wrft", "rydd", "gzfzr", "zzfzr"}
    BY <1>9, MeetsGrows DEF Kept, CheckRydd
<1> QED
    BY <1>3, <1>4, <1>5, <1>6, <1>7, <1>8, <1>9 DEF Kept

(* Gear a box does not touch does not excuse it.                           *)
LEMMA GearElsewhereKeeps ==
    ASSUME NEW label \in Protective \ {"onlyjyst"}, Grows(label), NEW new,
           \A i \in 1..Len(found'[label]) : i \in 1..Len(found[label]) \/ found'[label][i] = new,
           NEW l \in Labels \ Gear, NEW b, Kept(l, b),
           ~intersect(b, new) \/ l \in {"smoke", "dxdb"}
    PROVE  Kept(l, b)'
<1>1. \A k \in {"person", "head", "gz", "face", "badsafebelt", "pifu", "onlyjyst"} :
          k \in Labels \ {label}
    BY DEF Labels, Gear, Protective
<1>2. Protective \subseteq Labels
    BY DEF Labels, Gear, Protective
<1>3. ASSUME ~intersect(b, new), Meets(b, label)'
      PROVE  Meets(b, label)
    <2>1. PICK i \in 1..Len(found'[label]) : intersect(b, found'[label][i])
        BY <1>3 DEF Meets
    <2>2. i \in 1..Len(found[label])
        BY <1>3, <2>1
    <2> QED
        BY <2>1, <2>2 DEF Meets, Grows
<1>4. CASE l = "head"
    <2>1. CheckWithHead(b)
        BY <1>4 DEF Kept
    <2>2. ASSUME NEW i \in 1..Len(found'["helmet"])
          PROVE  ~(intersect(b, found'["helmet"][i]) /\ overlapRateAbove(b, found'["helmet"][i], 50))
        <3>1. CASE label # "helmet"
            BY <1>2, <2>1, <2>2, <3>1 DEF Grows, CheckWithHead, Protective
        <3>2. CASE label = "helmet" /\ i \in 1..Len(found["helmet"])
            BY <2>1, <3>2 DEF Grows, CheckWithHead
        <3>3. CASE label = "helmet" /\ i \notin 1..Len(found["helmet"])
            BY <1>4, <2>2, <3>3
        <3> QED
            BY <3>1, <3>2, <3>3
    <2> QED
        BY <1>4, <2>1, <2>2, MeetsGrows DEF Kept, CheckWithHead
<1>5. CASE l = "smoke"
    <2>1. found'["head"] = found["head"]
        BY <1>1 DEF Grows
    <2>2. FirstNarrow(b, "head")' <=> FirstNarrow(b, "head")
        BY <2>1 DEF FirstNarrow
    <2>3. ASSUME FirstNarrow(b, "helmet")
          PROVE  FirstNarrow(b, "helmet")'
        <3>1. CASE label # "helmet"
            <4>1. found'["helmet"] = found["helmet"]
                BY <1>2, <3>1 DEF Grows, Protective
            <4> QED
                BY <2>3, <4>1 DEF FirstNarrow
        <3>2. CASE label = "helmet"
            <4>1. PICK i \in 1..Len(found["helmet"]) :
                      /\ intersect(b, found["helmet"][i])
                      /\ \A j \in 1..(i - 1) : ~intersect(b, found["helmet"][j])
                      /\ Narrow(b, found["helmet"][i])
                BY <2>3 DEF FirstNarrow
            <4>2. \A j \in 1..(i - 1) : j \in 1..Len(found["helmet"])
                BY <4>1
            <4>3. /\ i \in 1..Len(found'["helmet"])
                  /\ found'["helmet"][i] = found["helmet"][i]
                  /\ \A j \in 1..(i - 1) : found'["helmet"][j] = found["helmet"][j]
                BY <3>2, <4>1, <4>2 DEF Grows
            <4> QED
                BY <4>1, <4>3 DEF FirstNarrow
        <3> QED
            BY <3>1, <3>2
    <2>4. Meets(b, "head")' <=> Meets(b, "head")
        BY <2>1 DEF Meets
    <2> QED
        BY <1>5, <2>2, <2>3, <2>4 DEF Kept, CheckSmoke
<1>6. CASE l = "wdjyst"
    BY <1>1, <1>6, MeetsGrows DEF Kept, CheckWdJyst, Grows
<1>7. CASE l = "wcgzf"
    <2>1. ~Meets(b, "helmet")'
        BY <1>2, <1>3, <1>7, MeetsGrows DEF Kept, CheckWcgzf, Protective
    <2> QED
        BY <1>1, <1>7, <2>1, MeetsGrows DEF Kept, CheckWcgzf
<1>8. CASE l = "offground"
    <2>1. ~Meets(b, "safebelt") => ~Meets(b, "safebelt")'
        BY <1>2, <1>3, <1>8, MeetsGrows DEF Protective
    <2> QED
        BY <1>1, <1>8, <2>1, MeetsGrows DEF Kept, CheckWdAqd
<1>9. CASE l = "person"
    <2>1. ~Meets(b, "ydjz") => ~Meets(b, "ydjz")'
        BY <1>2, <1>3, <1>9, MeetsGrows DEF Protective
    <2> QED
        BY <1>1, <1>9, <2>1, MeetsGrows DEF Kept, CheckWdJz, Grows
<1>10. CASE l = "dxdb"
    BY <1>10, CraneSame DEF Kept
<1>11. CASE l \in {"wrft", "rydd", "gzfzr", "zzfzr"}
    BY <1>11, MeetsGrows DEF Kept, CheckRydd
<1> QED
    BY <1>4, <1>5, <1>6, <1>7, <1>8, <1>9, <1>10, <1>11 DEF Kept

(* What a step can do to the containers of gear.                           *)
LEMMA GearSteps ==
    ASSUME Typed, NEW m \in Models, NEW c \in Candidates, Find(m, c), c.label \in Protective
    PROVE  /\ Grows(c.label)
           /\ \A i \in 1..Len(found'[c.label]) :
                  i \in 1..Len(found[c.label]) \/ found'[c.label][i] = c.box
           /\ found'[c.label][Len(found'[c.label])] = c.box
<1>1. c.label \in Labels /\ Len(found[c.label]) \in Nat
    BY Found DEF Typed
<1>2. Len(found'[c.label]) = Len(found[c.label]) + 1
    BY Found
<1>3. \A i \in 1..Len(found'[c.label]) :
          i \in 1..Len(found[c.label]) \/ i = Len(found[c.label]) + 1
    BY <1>1, <1>2
<1> QED
    BY <1>1, <1>2, <1>3, Found DEF Grows

LEMMA EmptyPredicts ==
    ASSUME Begin
    PROVE  Predictions' = {}
<1>1. \A l \in Labels \ Gear : found'[l] = <<>>
    BY DEF Begin
<1> QED
    BY <1>1, PredictedNext

(* Gear in sight never adds a violation, for all boxes and any number of   *)
(* them.                                                                   *)
THEOREM GearAccusesNever == Spec => GearNeverAccuses
<1>1. ASSUME Typed, [Next]_vars, algorithm_list' = algorithm_list,
             \A l \in Labels \ Protective : found'[l] = found[l],
             NEW r \in Predictions', r.from # "smoke"
      PROVE  r \in Predictions
    <2>1. CASE Begin
        BY <1>1, <2>1, EmptyPredicts
    <2>2. ASSUME NEW label \in Protective, Grows(label)
          PROVE  r \in Predictions
        <3>0. PICK l \in Labels \ Gear : \E b :
                  /\ \E i \in 1..Len(found'[l]) : b = found'[l][i]
                  /\ Kept(l, b)'
                  /\ r = Prediction(l, b)'
            BY <1>1, PredictedNext
        <3>1. PICK b :
                  /\ \E i \in 1..Len(found'[l]) : b = found'[l][i]
                  /\ Kept(l, b)'
                  /\ r = Prediction(l, b)'
            BY <3>0
        <3>2. r.from = l /\ found'[l] = found[l]
            BY <1>1, <3>1 DEF Prediction, Gear, Protective
        <3>3. Kept(l, b)
            BY <1>1, <2>2, <3>1, <3>2, GearAccusesNobody
        <3>4. r = Prediction(l, b)
            BY <2>2, <3>1, <3>3, CraneSame DEF Prediction, Shown, Kept
        <3> QED
            BY <3>1, <3>2, <3>3, <3>4, Predicted
    <2>3. CASE found' = found
        BY <1>1, <2>2, <2>3 DEF Grows, Protective
    <2>4. ASSUME NEW m \in Models, NEW c \in Candidates, Find(m, c)
          PROVE  r \in Predictions
        <3>1. c.label \in Labels /\ Len(found[c.label]) \in Nat
            BY <1>1, <2>4, Found DEF Typed
        <3>2. c.label \in Protective
            BY <1>1, <2>4, <3>1, Found
        <3> QED
            BY <1>1, <2>2, <2>4, <3>2, GearSteps
    <2>5. found' = found \/ Begin \/ \E m \in Models, c \in Candidates : Find(m, c)
        BY <1>1 DEF Next, UpdateAlgorithm_list, vars
    <2> QED
        BY <2>1, <2>3, <2>4, <2>5
<1>2. Typed /\ [Next]_vars
        => [algorithm_list' = algorithm_list /\ (\A l \in Labels \ Protective : found'[l] = found[l])
             => {r \in Predictions' : r.from # "smoke"} \subseteq Predictions]_vars
    BY <1>1
<1> QED
    BY <1>2, TypedHolds, PTL DEF Spec, GearNeverAccuses

(* Gear that does not touch a violation does not hide it, but for gloves,  *)
(* for all boxes and any number of them.                                   *)
THEOREM GearElsewhereExcusesNobody == Spec => GearElsewhereIsNoExcuse
<1>1. ASSUME Typed, [Next]_vars, NEW label \in Protective \ {"onlyjyst"},
             Len(found'[label]) > Len(found[label]),
             NEW r \in Predictions, ~Overlap(r.box, found'[label][Len(found'[label])])
      PROVE  r \in Predictions'
    <2>1. label \in Labels /\ Len(found[label]) \in Nat
        BY <1>1 DEF Typed, Labels, Gear, Protective
    <2>2. PICK m \in Models, c \in Candidates : Find(m, c)
        <3>1. CASE Begin
            BY <1>1, <2>1, <3>1 DEF Begin
        <3> QED
            BY <1>1, <2>1, <3>1 DEF Next, UpdateAlgorithm_list, vars
    <2>3. c.label = label
        BY <1>1, <2>1, <2>2, Found
    <2>4. /\ Grows(label)
          /\ \A i \in 1..Len(found'[label]) :
                 i \in 1..Len(found[label]) \/ found'[label][i] = c.box
          /\ ~Overlap(r.box, c.box)
        BY <1>1, <2>2, <2>3, GearSteps
    <2>5. PICK l \in Labels \ Gear : \E i \in 1..Len(found[l]) :
              Kept(l, found[l][i]) /\ r = Prediction(l, found[l][i])
        BY <1>1, Predicted
    <2>6. PICK i \in 1..Len(found[l]) : Kept(l, found[l][i]) /\ r = Prediction(l, found[l][i])
        BY <2>5
    <2>7. PICK b : b = found[l][i]
        OBVIOUS
    <2>8. b \in Box /\ c.box \in Box /\ Kept(l, b) /\ r = Prediction(l, b)
        BY <1>1, <2>2, <2>6, <2>7, Found, FoundBox
    <2>9. ~intersect(b, c.box) \/ l \in {"smoke", "dxdb"}
        <3>1. CASE l # "dxdb"
            BY <2>4, <2>8, <3>1, IntersectSound DEF Prediction, Shown
        <3> QED
            BY <3>1
    <2>10. Kept(l, b)'
        BY <1>1, <2>4, <2>8, <2>9, GearElsewhereKeeps
    <2>11. r = Prediction(l, b)'
        BY <1>1, <2>4, <2>8, CraneSame DEF Prediction, Shown, Kept
    <2>12. found'[l] = found[l]
        BY <1>1, <2>4 DEF Grows, Gear, Protective
    <2> QED
        BY <2>7, <2>10, <2>11, <2>12, PredictedNext
<1>2. Typed /\ [Next]_vars
        => [\A l \in Protective \ {"onlyjyst"} : Len(found'[l]) > Len(found[l]) =>
             \A r \in Predictions :
                 ~Overlap(r.box, found'[l][Len(found'[l])]) => r \in Predictions']_vars
    BY <1>1
<1> QED
    BY <1>2, TypedHolds, PTL DEF Spec, GearElsewhereIsNoExcuse

=============================================================================
