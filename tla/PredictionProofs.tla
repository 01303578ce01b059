--------------------------- MODULE PredictionProofs ---------------------------
(***************************************************************************)
(* Proofs about Prediction: what is kept and what is answered, for any     *)
(* candidates, networks, thresholds and pictures.                          *)
(***************************************************************************)
EXTENDS Prediction, SequenceTheorems, TLAPS

----------------------------------------------------------------------------
(* The detour over MaxWh: it measures what boxes of a class have in        *)
(* common, and finds nothing in common of boxes of different ones.         *)

LEMMA OffsetType ==
    ASSUME NEW c \in Cands
    PROVE  Offset(c) \in Nat
    BY CandsAssumption, ApartAssumption DEF Offset, Classes

LEMMA OffsetApart ==
    ASSUME NEW c \in Cands, NEW d \in Cands, c.class < d.class
    PROVE  Offset(c) + MaxWh <= Offset(d)
<1> DEFINE gap == d.class - (c.class + 1)
<1>1. gap \in Nat /\ MaxWh \in Nat /\ c.class \in Nat /\ d.class \in Nat
    BY CandsAssumption, ApartAssumption DEF Classes
<1>2. \A g, w \in Nat : g * w >= 0
    OBVIOUS
<1>3. gap * MaxWh >= 0
    BY <1>1, <1>2
<1>4. d.class * MaxWh = c.class * MaxWh + MaxWh + gap * MaxWh
    BY <1>1
<1> QED
    BY <1>1, <1>3, <1>4, OffsetType DEF Offset

LEMMA InterOfClass ==
    ASSUME NEW c \in Cands, NEW d \in Cands, c.class = d.class
    PROVE  Inter(c, d) = Common(c, d)
<1> DEFINE o == Offset(c)
<1>1. Offset(d) = o /\ o \in Nat
    BY OffsetType DEF Offset
<1>2. /\ c.left \in Int /\ c.right \in Nat /\ d.left \in Int /\ d.right \in Nat
      /\ c.top \in Int /\ c.bottom \in Nat /\ d.top \in Int /\ d.bottom \in Nat
    BY CandsAssumption
<1> HIDE DEF o
<1>3. Shared(c.left + o, c.right + o, d.left + o, d.right + o)
          = Overlap(c.left, c.right, d.left, d.right)
    BY <1>1, <1>2 DEF Shared, Overlap, Larger, Smaller
<1>4. Shared(c.top + o, c.bottom + o, d.top + o, d.bottom + o)
          = Overlap(c.top, c.bottom, d.top, d.bottom)
    BY <1>1, <1>2 DEF Shared, Overlap, Larger, Smaller
<1> QED
    BY <1>1, <1>3, <1>4 DEF Inter, Common, o

LEMMA InterOfClasses ==
    ASSUME NEW c \in Cands, NEW d \in Cands, c.class # d.class
    PROVE  Inter(c, d) = 0
<1> DEFINE s == Shared(c.left + Offset(c), c.right + Offset(c),
                       d.left + Offset(d), d.right + Offset(d))
           t == Shared(c.top + Offset(c), c.bottom + Offset(c),
                       d.top + Offset(d), d.bottom + Offset(d))
<1>1. c.class \in Nat /\ d.class \in Nat
    BY CandsAssumption DEF Classes
<1>2. /\ c.left \in Int /\ c.right \in Nat /\ d.left \in Int /\ d.right \in Nat
      /\ c.top \in Int /\ c.bottom \in Nat /\ d.top \in Int /\ d.bottom \in Nat
    BY CandsAssumption
<1>3. /\ c.right - d.left <= MaxWh /\ d.right - c.left <= MaxWh
      /\ c.bottom - d.top <= MaxWh /\ d.bottom - c.top <= MaxWh
      /\ MaxWh \in Nat
    BY ApartAssumption
<1>4. Offset(c) \in Nat /\ Offset(d) \in Nat
    BY OffsetType
<1>5. Offset(c) + MaxWh <= Offset(d) \/ Offset(d) + MaxWh <= Offset(c)
    BY <1>1, OffsetApart
<1>6. s = 0 /\ t = 0
    BY <1>2, <1>3, <1>4, <1>5 DEF Shared, Larger, Smaller
<1> QED
    BY <1>6 DEF Inter

LEMMA AreaIsPositive ==
    ASSUME NEW c \in Cands
    PROVE  Area(c) \in Nat /\ Area(c) > 0
<1>1. c.right - c.left \in Nat \ {0} /\ c.bottom - c.top \in Nat \ {0}
    BY CandsAssumption
<1>2. \A x, y \in Nat \ {0} : x * y \in Nat /\ x * y > 0
    OBVIOUS
<1> QED
    BY <1>1, <1>2 DEF Area

LEMMA NothingIsNotBeyond ==
    ASSUME NEW c \in Cands, NEW d \in Cands
    PROVE  ~Beyond(0, c, d)
<1> DEFINE sum == Area(c) + Area(d)
<1>1. sum \in Nat
    BY AreaIsPositive
<1>2. Thresh * sum >= 0
    BY <1>1, ThreshAssumption
<1>3. Beyond(0, c, d) <=> 0 * 100 > Thresh * (sum - 0)
    BY AreaIsPositive DEF Beyond
<1> HIDE DEF sum
<1>4. sum - 0 = sum
    BY <1>1
<1> QED
    BY <1>1, <1>2, <1>3, <1>4, ThreshAssumption

LEMMA SuppressesIsSame ==
    ASSUME NEW c \in Cands, NEW d \in Cands
    PROVE  Suppresses(c, d) <=> Same(c, d)
<1>1. CASE c.class = d.class
    BY <1>1, InterOfClass, Zenon DEF Suppresses, Same
<1>2. CASE c.class # d.class
    <2>1. Inter(c, d) = 0
        BY <1>2, InterOfClasses
    <2>2. ~Suppresses(c, d)
        BY <2>1, NothingIsNotBeyond, Zenon DEF Suppresses
    <2> QED
        BY <1>2, <2>2 DEF Same
<1> QED
    BY <1>1, <1>2

LEMMA BeyondIsSymmetric ==
    ASSUME NEW c \in Cands, NEW d \in Cands, NEW common \in Int, Beyond(common, c, d)
    PROVE  Beyond(common, d, c)
<1> DEFINE sum == Area(c) + Area(d)
           sum2 == Area(d) + Area(c)
<1>1. sum = sum2
    BY AreaIsPositive
<1>2. Beyond(common, c, d) <=> common * 100 > Thresh * (sum - common)
    BY AreaIsPositive, ThreshAssumption DEF Beyond
<1>3. Beyond(common, d, c) <=> common * 100 > Thresh * (sum2 - common)
    BY AreaIsPositive, ThreshAssumption DEF Beyond
<1> HIDE DEF sum, sum2
<1> QED
    BY <1>1, <1>2, <1>3

LEMMA CommonType ==
    ASSUME NEW c \in Cands, NEW d \in Cands
    PROVE  Common(c, d) \in Int
<1>1. /\ c.left \in Int /\ c.right \in Int /\ d.left \in Int /\ d.right \in Int
      /\ c.top \in Int /\ c.bottom \in Int /\ d.top \in Int /\ d.bottom \in Int
    BY CandsAssumption
<1>2. /\ Overlap(c.left, c.right, d.left, d.right) \in Int
      /\ Overlap(c.top, c.bottom, d.top, d.bottom) \in Int
    BY <1>1 DEF Overlap, Larger, Smaller
<1> QED
    BY <1>2 DEF Common

LEMMA SameIsSymmetric ==
    ASSUME NEW c \in Cands, NEW d \in Cands, Same(c, d)
    PROVE  Same(d, c)
<1>1. /\ c.left \in Int /\ c.right \in Int /\ d.left \in Int /\ d.right \in Int
      /\ c.top \in Int /\ c.bottom \in Int /\ d.top \in Int /\ d.bottom \in Int
    BY CandsAssumption
<1>2. /\ Overlap(c.left, c.right, d.left, d.right) = Overlap(d.left, d.right, c.left, c.right)
      /\ Overlap(c.top, c.bottom, d.top, d.bottom) = Overlap(d.top, d.bottom, c.top, c.bottom)
    BY <1>1 DEF Overlap, Larger, Smaller
<1>3. Common(c, d) = Common(d, c)
    BY <1>2 DEF Common
<1> QED
    BY <1>3, CommonType, BeyondIsSymmetric DEF Same

----------------------------------------------------------------------------
(* Where a box is in the picture.                                          *)

LEMMA ProductGrows ==
    ASSUME NEW a \in Int, NEW b \in Int, a <= b, NEW n \in Nat
    PROVE  a * n <= b * n
<1>1. (b - a) * n >= 0
    <2>1. \A x, y \in Nat : x * y >= 0
        OBVIOUS
    <2> QED
        BY <2>1
<1>2. b * n = a * n + (b - a) * n
    OBVIOUS
<1> QED
    BY <1>1, <1>2

LEMMA QuotientIs ==
    ASSUME NEW a \in Int, NEW d \in Nat \ {0}
    PROVE  /\ a \div d \in Int
           /\ (a \div d) * d <= a
           /\ a < (a \div d + 1) * d
    OBVIOUS

LEMMA QuotientAtMost ==
    ASSUME NEW a \in Int, NEW q \in Int, NEW d \in Nat \ {0}, a < (q + 1) * d
    PROVE  a \div d <= q
<1>1. a \div d \in Int /\ (a \div d) * d <= a
    BY QuotientIs
<1>2. CASE a \div d >= q + 1
    <2>1. (q + 1) * d <= (a \div d) * d
        BY <1>1, <1>2, ProductGrows
    <2> QED
        BY <1>1, <2>1
<1> QED
    BY <1>1, <1>2

LEMMA QuotientGrows ==
    ASSUME NEW a \in Int, NEW b \in Int, a <= b, NEW d \in Nat \ {0}
    PROVE  a \div d <= b \div d
<1>1. b \div d \in Int /\ b < (b \div d + 1) * d
    BY QuotientIs
<1>2. a < (b \div d + 1) * d
    BY <1>1
<1> QED
    BY <1>1, <1>2, QuotientAtMost

LEMMA QuotientOfProduct ==
    ASSUME NEW a \in Int, NEW n \in Nat, NEW d \in Nat \ {0}, a <= d
    PROVE  (a * n) \div d <= n
<1>1. a * n <= d * n
    BY ProductGrows
<1>2. d * n < (n + 1) * d
    OBVIOUS
<1>3. a * n < (n + 1) * d
    BY <1>1, <1>2
<1> QED
    BY <1>3, QuotientAtMost

LEMMA InnerFits ==
    ASSUME NEW p \in Pictures
    PROVE  /\ Inner(p) \in 1..Side
           /\ Border(p) \in Nat
           /\ Side - 2 * Border(p) \in Nat \ {0}
           /\ Inner(p) <= Side - 2 * Border(p)
<1>1. Side \in Nat \ {0} /\ p.w \in Nat \ {0} /\ p.h \in Nat \ {0}
    BY SizesAssumption
<1>2. Inner(p) \in Int /\ Inner(p) <= Side
    <2>1. CASE IsW(p)
        <3>1. p.h <= p.w
            BY <1>1, <2>1 DEF IsW
        <3>2. (p.h * Side) \div p.w <= Side
            BY <1>1, <3>1, QuotientOfProduct
        <3>3. Side * p.h = p.h * Side
            BY <1>1
        <3>4. (p.h * Side) \div p.w \in Int
            BY <1>1, QuotientIs
        <3> QED
            BY <2>1, <3>2, <3>3, <3>4 DEF Inner
    <2>2. CASE ~IsW(p)
        <3>1. p.w <= p.h
            BY <1>1, <2>2 DEF IsW
        <3>2. (p.w * Side) \div p.h <= Side
            BY <1>1, <3>1, QuotientOfProduct
        <3>3. Side * p.w = p.w * Side
            BY <1>1
        <3>4. (p.w * Side) \div p.h \in Int
            BY <1>1, QuotientIs
        <3> QED
            BY <2>2, <3>2, <3>3, <3>4 DEF Inner
    <2> QED
        BY <2>1, <2>2
<1>3. Inner(p) >= 1
    <2>1. \A a \in Int, d \in Nat \ {0} : d <= a => a \div d >= 1
        <3> SUFFICES ASSUME NEW a \in Int, NEW d \in Nat \ {0}, d <= a
                     PROVE  a \div d >= 1
            OBVIOUS
        <3>1. d \div d <= a \div d
            BY QuotientGrows
        <3>2. d \div d = 1
            OBVIOUS
        <3> QED
            BY <3>1, <3>2, QuotientIs
    <2>2. Side * p.h \in Int /\ Side * p.w \in Int
        BY <1>1
    <2> QED
        BY <1>1, <2>1, <2>2, SizesAssumption DEF Inner
<1>4. Border(p) \in Nat /\ 2 * Border(p) <= Side - Inner(p)
    BY <1>1, <1>2, <1>3 DEF Border
<1> QED
    BY <1>1, <1>2, <1>3, <1>4

(* Along the filled side and along the one with the border: a box is not   *)
(* turned round, and what is within the picture stays within.              *)
LEMMA FilledIsSound ==
    ASSUME NEW a \in Int, NEW b \in Int, a < b, NEW n \in Nat
    PROVE  /\ NotBelow0(Filled(a, n)) \in Nat /\ NotBelow0(Filled(b, n)) \in Nat
           /\ NotBelow0(Filled(a, n)) <= NotBelow0(Filled(b, n))
           /\ b <= Side => NotBelow0(Filled(b, n)) <= n
<1>1. Side \in Nat \ {0}
    BY SizesAssumption
<1>2. a * n \in Int /\ b * n \in Int /\ a * n <= b * n
    BY ProductGrows
<1>3. Filled(a, n) \in Int /\ Filled(b, n) \in Int /\ Filled(a, n) <= Filled(b, n)
    BY <1>1, <1>2, QuotientIs, QuotientGrows DEF Filled
<1>4. b <= Side => Filled(b, n) <= n
    BY <1>1, QuotientOfProduct DEF Filled
<1> QED
    BY <1>3, <1>4 DEF NotBelow0

LEMMA BorderedIsSound ==
    ASSUME NEW p \in Pictures,
           NEW a \in Int, NEW b \in Int, a < b, NEW n \in Nat
    PROVE  /\ NotBelow0(Bordered(a, n, Border(p))) \in Nat
           /\ NotBelow0(Bordered(b, n, Border(p))) \in Nat
           /\ NotBelow0(Bordered(a, n, Border(p))) <= NotBelow0(Bordered(b, n, Border(p)))
           /\ b <= Border(p) + Inner(p) => NotBelow0(Bordered(b, n, Border(p))) <= n
<1> DEFINE d == Side - 2 * Border(p)
           s == a - Border(p)
           t == b - Border(p)
<1>1. d \in Nat \ {0} /\ Inner(p) \in Int /\ Inner(p) <= d /\ Border(p) \in Nat
    BY InnerFits
<1>2. s \in Int /\ t \in Int /\ s <= t
    BY <1>1
<1>3. b <= Border(p) + Inner(p) => t <= d
    BY <1>1
<1>4. Bordered(a, n, Border(p)) = (s * n) \div d /\ Bordered(b, n, Border(p)) = (t * n) \div d
    BY DEF Bordered
<1> HIDE DEF d, s, t
<1>5. s * n \in Int /\ t * n \in Int /\ s * n <= t * n
    BY <1>2, ProductGrows
<1>6. /\ (s * n) \div d \in Int /\ (t * n) \div d \in Int
      /\ (s * n) \div d <= (t * n) \div d
    BY <1>1, <1>5, QuotientIs, QuotientGrows
<1>7. t <= d => (t * n) \div d <= n
    BY <1>1, <1>2, QuotientOfProduct
<1> QED
    BY <1>3, <1>4, <1>6, <1>7 DEF NotBelow0

LEMMA SizeOriginalIsSound ==
    ASSUME NEW p \in Pictures, NEW c \in Cands, NEW r, r = SizeOriginal(c, p)
    PROVE  /\ 0 <= r.left /\ r.left <= r.right
           /\ 0 <= r.top /\ r.top <= r.bottom
           /\ InPicture(c, p) => r.right <= p.w /\ r.bottom <= p.h
<1>1. p.w \in Nat /\ p.h \in Nat
    BY SizesAssumption
<1>2. /\ c.left \in Int /\ c.right \in Int /\ c.left < c.right
      /\ c.top \in Int /\ c.bottom \in Int /\ c.top < c.bottom
    BY CandsAssumption
<1>3. CASE IsW(p)
    <2>1. /\ r.left = NotBelow0(Filled(c.left, p.w))
          /\ r.right = NotBelow0(Filled(c.right, p.w))
          /\ r.top = NotBelow0(Bordered(c.top, p.h, Border(p)))
          /\ r.bottom = NotBelow0(Bordered(c.bottom, p.h, Border(p)))
        BY <1>3, Zenon DEF SizeOriginal
    <2>2. /\ 0 <= r.left /\ r.left <= r.right
          /\ c.right <= Side => r.right <= p.w
        BY <1>1, <1>2, <2>1, FilledIsSound
    <2>3. /\ 0 <= r.top /\ r.top <= r.bottom
          /\ c.bottom <= Border(p) + Inner(p) => r.bottom <= p.h
        BY <1>1, <1>2, <2>1, BorderedIsSound
    <2>4. InPicture(c, p) => c.right <= Side /\ c.bottom <= Border(p) + Inner(p)
        BY <1>3 DEF InPicture
    <2> QED
        BY <2>2, <2>3, <2>4
<1>4. CASE ~IsW(p)
    <2>1. /\ r.left = NotBelow0(Bordered(c.left, p.w, Border(p)))
          /\ r.right = NotBelow0(Bordered(c.right, p.w, Border(p)))
          /\ r.top = NotBelow0(Filled(c.top, p.h))
          /\ r.bottom = NotBelow0(Filled(c.bottom, p.h))
        BY <1>4, Zenon DEF SizeOriginal
    <2>2. /\ 0 <= r.top /\ r.top <= r.bottom
          /\ c.bottom <= Side => r.bottom <= p.h
        BY <1>1, <1>2, <2>1, FilledIsSound
    <2>3. /\ 0 <= r.left /\ r.left <= r.right
          /\ c.right <= Border(p) + Inner(p) => r.right <= p.w
        BY <1>1, <1>2, <2>1, BorderedIsSound
    <2>4. InPicture(c, p) => c.bottom <= Side /\ c.right <= Border(p) + Inner(p)
        BY <1>4 DEF InPicture
    <2> QED
        BY <2>2, <2>3, <2>4
<1> QED
    BY <1>3, <1>4

----------------------------------------------------------------------------
(* The invariant.  What is answered of a model is what nms kept of it that *)
(* passes, where SizeOriginal puts it.                                     *)

AnswersAreKept ==
    /\ \A a \in rs : a.rect = SizeOriginal(a.cand, picture)
    /\ pc = "collected" =>
           /\ \A a \in rs : a.model = model => a.cand \in keep
           /\ \A c \in keep : Passes(c, Models[model]) =>
                  \E a \in rs : a.model = model /\ a.cand = c

IInv == PredictionInv /\ AnswersApart /\ AnswersAreKept

LEMMA LenType == Len(Models) \in Nat
    BY ModelsAssumption, LenProperties

LEMMA InitEstablishes == Init => IInv
    BY LenType DEF Init, IInv, PredictionInv, NmsInv, AnswersApart, AnswersAreKept

(* A turn of nms: what it keeps is apart from what was kept, since that is *)
(* no longer in the order, and what it drops is the same as what it keeps. *)
LEMMA NmsKeeps ==
    ASSUME IInv, NEW c \in order, Nms(c)
    PROVE  NmsInv'
<1>1. /\ order \subseteq found /\ keep \subseteq found /\ found \subseteq Cands
      /\ c \in order /\ \A d \in order : d.score <= c.score
      /\ keep' = keep \union {c} /\ found' = found
      /\ order' = {d \in order \ {c} : ~Suppresses(c, d)}
    BY DEF IInv, PredictionInv, NmsInv, Nms, First
<1>2. \A d \in order \ {c} : d \in order' <=> ~Same(c, d)
    BY <1>1, SuppressesIsSame
<1>3. /\ \A e \in keep, d \in keep \union order : e # d => ~Same(e, d)
      /\ \A e \in keep, d \in order : e # d /\ d.score <= e.score
      /\ \A d \in found \ (keep \union order) :
             \E e \in keep : Same(e, d) /\ d.score <= e.score
    BY DEF IInv, PredictionInv, NmsInv
<1>4. order' \subseteq found' /\ keep' \subseteq found'
    BY <1>1
<1>5. \A e \in keep', d \in keep' \union order' : e # d => ~Same(e, d)
    <2> SUFFICES ASSUME NEW e \in keep', NEW d \in keep' \union order', e # d
                 PROVE  ~Same(e, d)
        OBVIOUS
    <2>1. CASE e \in keep
        BY <1>1, <1>3, <2>1
    <2>2. CASE e = c /\ d \in keep
        BY <1>1, <1>3, <2>2, SameIsSymmetric
    <2>3. CASE e = c /\ d \notin keep
        BY <1>1, <1>2, <2>3
    <2> QED
        BY <1>1, <2>1, <2>2, <2>3
<1>6. \A e \in keep', d \in order' : e # d /\ d.score <= e.score
    BY <1>1, <1>3
<1>7. \A d \in found' \ (keep' \union order') :
          \E e \in keep' : Same(e, d) /\ d.score <= e.score
    BY <1>1, <1>2, <1>3
<1> QED
    BY <1>4, <1>5, <1>6, <1>7 DEF NmsInv

(* Apart from the loop of nms no step changes what it is about, or it      *)
(* starts over.                                                            *)
LEMMA NmsBegins ==
    ASSUME IInv, NEW cands \in SUBSET Cands, Forward(cands)
    PROVE  NmsInv'
    BY DEF Forward, NmsInv

(* The boxes of a model are what nms kept: apart, and not of a model the   *)
(* answer has boxes of.                                                    *)
LEMMA CollectKeeps ==
    ASSUME IInv, Collect
    PROVE  IInv'
<1> DEFINE Fresh == {[model |-> model, cand |-> c, rect |-> SizeOriginal(c, picture)] :
                        c \in {d \in keep : Passes(d, Models[model])}}
<1>1. /\ pc = "nms" /\ pc' = "collected" /\ order = {} /\ rs' = rs \union Fresh
      /\ UNCHANGED <<picture, algorithms, model, found, order, keep>>
    BY DEF Collect
<1>2. \A a \in Fresh : /\ a.model = model /\ a.cand \in keep
                        /\ a.rect = SizeOriginal(a.cand, picture)
    OBVIOUS
<1>3. \A a \in rs : a.cand \in Cands /\ a.model \in 1..model /\ a.model # model
    BY <1>1 DEF IInv, PredictionInv
<1>4. \A c \in keep : Passes(c, Models[model]) =>
          \E a \in Fresh : a.model = model /\ a.cand = c
    <2> SUFFICES ASSUME NEW c \in keep, Passes(c, Models[model])
                 PROVE  \E a \in Fresh : a.model = model /\ a.cand = c
        OBVIOUS
    <2> WITNESS [model |-> model, cand |-> c, rect |-> SizeOriginal(c, picture)] \in Fresh
    <2> QED
        OBVIOUS
<1>5. keep \subseteq Cands /\ model \in Nat \ {0}
    BY LenType DEF IInv, PredictionInv, NmsInv
<1> HIDE DEF Fresh
<1>6. NmsInv'
    BY <1>1 DEF IInv, PredictionInv, NmsInv
<1>7. PredictionInv'
    <2>1. \A a \in rs' : a.cand \in Cands /\ a.model \in 1..model
        BY <1>1, <1>2, <1>3, <1>5
    <2> QED
        BY <1>1, <1>6, <2>1 DEF IInv, PredictionInv
<1>8. AnswersApart'
    <2> SUFFICES ASSUME NEW a \in rs', NEW b \in rs', a.model = b.model, a.cand # b.cand
                 PROVE  ~Same(a.cand, b.cand)
        BY DEF AnswersApart
    <2>1. CASE a \in rs /\ b \in rs
        BY <2>1 DEF IInv, AnswersApart
    <2>2. CASE a \in Fresh /\ b \in Fresh
        BY <1>2, <2>2 DEF IInv, PredictionInv, NmsInv
    <2> QED
        BY <1>1, <1>2, <1>3, <2>1, <2>2
<1>9. AnswersAreKept'
    <2>1. \A a \in rs' : a.rect = SizeOriginal(a.cand, picture)
        BY <1>1, <1>2 DEF IInv, AnswersAreKept
    <2>2. \A a \in rs' : a.model = model => a.cand \in keep
        BY <1>1, <1>2, <1>3
    <2>3. \A c \in keep : Passes(c, Models[model]) =>
              \E a \in rs' : a.model = model /\ a.cand = c
        BY <1>1, <1>4
    <2>4. picture' = picture /\ keep' = keep /\ model' = model
        BY <1>1
    <2> QED
        BY <2>1, <2>2, <2>3, <2>4 DEF AnswersAreKept
<1> QED
    BY <1>7, <1>8, <1>9 DEF IInv

LEMMA StepPreserves == IInv /\ [Next]_vars => IInv'
<1> SUFFICES ASSUME IInv, [Next]_vars
             PROVE  IInv'
    OBVIOUS
<1> USE LenType
<1>1. CASE \E p \in Pictures, list \in Lists : Begin(p, list)
    BY <1>1 DEF Begin, IInv, PredictionInv, NmsInv, AnswersApart, AnswersAreKept
<1>2. CASE Skip
    BY <1>2 DEF Skip, IInv, PredictionInv, NmsInv, AnswersApart, AnswersAreKept
<1>3. CASE \E cands \in SUBSET Cands : Forward(cands)
    <2> PICK cands \in SUBSET Cands : Forward(cands)
        BY <1>3
    <2>1. NmsInv'
        BY NmsBegins
    <2> QED
        BY <2>1 DEF Forward, IInv, PredictionInv, AnswersApart, AnswersAreKept
<1>4. CASE \E c \in order : Nms(c)
    <2> PICK c \in order : Nms(c)
        BY <1>4
    <2>1. NmsInv'
        BY NmsKeeps
    <2> QED
        BY <2>1 DEF Nms, IInv, PredictionInv, AnswersApart, AnswersAreKept
<1>5. CASE Collect
    BY <1>5, CollectKeeps
<1>6. CASE NextModel
    BY <1>6 DEF NextModel, IInv, PredictionInv, NmsInv, AnswersApart, AnswersAreKept
<1>7. CASE Answer
    BY <1>7 DEF Answer, IInv, PredictionInv, NmsInv, AnswersApart, AnswersAreKept
<1>8. CASE UNCHANGED vars
    BY <1>8 DEF vars, IInv, PredictionInv, NmsInv, AnswersApart, AnswersAreKept
<1> QED
    BY <1>1, <1>2, <1>3, <1>4, <1>5, <1>6, <1>7, <1>8 DEF Next

LEMMA IInvHolds == Spec => []IInv
<1> QED
    BY InitEstablishes, StepPreserves, PTL DEF Spec

(* What nms keeps and what it drops, for any candidates and thresholds.    *)
THEOREM PredictionInvHolds == Spec => []PredictionInv
<1>1. IInv => PredictionInv
    BY DEF IInv
<1> QED
    BY <1>1, IInvHolds, PTL

(* One thing is answered once (AnswersApart).                              *)
THEOREM AnswersStayApart == Spec => []AnswersApart
<1>1. IInv => AnswersApart
    BY DEF IInv
<1> QED
    BY <1>1, IInvHolds, PTL

(* Nothing a model is sure of is lost (AnswersCover): what took its place  *)
(* in nms has a higher score and the same class, so it is not left out.    *)
THEOREM AnswersCoverAll == Spec => []AnswersCover
<1>1. IInv => AnswersCover
    <2> SUFFICES ASSUME IInv, pc = "collected",
                        NEW c \in found, Passes(c, Models[model])
                 PROVE  \E a \in rs : /\ a.model = model
                                      /\ a.cand = c \/ Same(a.cand, c)
                                      /\ a.cand.score >= c.score
        BY DEF AnswersCover
    <2>1. order = {} /\ c \in Cands /\ keep \subseteq Cands
        BY DEF IInv, PredictionInv, NmsInv
    <2>2. c.score \in Nat
        BY <2>1, CandsAssumption
    <2>3. PICK k \in keep : (k = c \/ Same(k, c)) /\ c.score <= k.score
        <3>1. CASE c \in keep
            BY <2>2, <3>1
        <3>2. CASE c \notin keep
            BY <2>1, <3>2 DEF IInv, PredictionInv, NmsInv
        <3> QED
            BY <3>1, <3>2
    <2>4. k.score \in Nat /\ k.class = c.class
        BY <2>1, <2>3, CandsAssumption DEF Same
    <2>5. model \in 1..Len(Models)
        BY LenType DEF IInv, PredictionInv
    <2>6. Models[model].similarity \in Nat
        <3>1. Models[model] \in [name : STRING, enable : BOOLEAN, needs : SUBSET STRING,
                                 similarity : Nat, ignored : SUBSET Classes]
            BY <2>5, ModelsAssumption, ElementOfSeq
        <3> QED
            BY <3>1
    <2>7. Passes(k, Models[model])
        BY <2>2, <2>3, <2>4, <2>6 DEF Passes
    <2>8. \E a \in rs : a.model = model /\ a.cand = k
        BY <2>7 DEF IInv, AnswersAreKept
    <2> QED
        BY <2>2, <2>3, <2>4, <2>8
<1> QED
    BY <1>1, IInvHolds, PTL

(* Rectangles are sound (RectsAreSound), whatever the sizes of picture and *)
(* square and however odd the border.                                      *)
THEOREM RectsStaySound == Spec => []RectsAreSound
<1>1. IInv => RectsAreSound
    BY SizeOriginalIsSound DEF IInv, PredictionInv, AnswersAreKept, RectsAreSound
<1> QED
    BY <1>1, IInvHolds, PTL

=============================================================================
