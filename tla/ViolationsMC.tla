---------------------------- MODULE ViolationsMC ----------------------------
(***************************************************************************)
(* Violations with models like those of config.conf (without those whose   *)
(* labels have the same rule as another's) and boxes of a frame: two       *)
(* workers side by side, what they wear and hold, and a crane.  The model  *)
(* jyst finds hands, gz, as CheckWdJyst asks for them, where config.conf   *)
(* has gz1 and gz2; arm2, which is not in config.conf, finds skin, pifu.   *)
(***************************************************************************)
EXTENDS Violations

M(name, enable, labels) == [name |-> name, enable |-> enable, labels |-> labels]

MCModels ==
    {M("helmet", TRUE, {"person", "head", "helmet"}),
     M("fall", FALSE, {"rydd"}),
     M("smoke", FALSE, {"smoke"}),
     M("jzsb", FALSE, {"ydjz"}),
     M("arm", FALSE, {"wcgzf"}),
     M("arm2", TRUE, {"pifu"}),
     M("jyst", FALSE, {"wdjyst", "gz", "-1"}),
     M("aqd", FALSE, {"offground", "safebelt", "badsafebelt"}),
     M("dbxzr", FALSE, {"dxdb"}),
     M("onlyjyst", TRUE, {"onlyjyst"}),
     M("maskface", TRUE, {"face"})}

MCLists == {{"jyst"}, {m.name : m \in MCModels}}

B(left, right, top, bottom) ==
    [left |-> left, right |-> right, top |-> top, bottom |-> bottom, hold |-> 90]

(* The second worker begins where the first ends.                          *)
Worker1 == B(100, 250, 200, 500)
Worker2 == B(250, 400, 200, 500)
Far == B(700, 740, 380, 460)
Body == {Worker1, Worker2}
Small == {B(150, 190, 200, 240), B(300, 340, 200, 240), B(211, 250, 200, 240)}
Boom == {B(700, 740, 100, 300), B(600, 700, 300, 360), B(640, 1200, 100, 700)}

Of(labels, boxes) == [label : labels, box : boxes]

MCCandidates ==
    Of({"person"}, Body \union {Far})
    \union Of({"offground"}, {Worker1})
    \union Of({"safebelt"}, Body)
    \union Of({"wcgzf", "badsafebelt", "face", "pifu", "gz"}, {Worker1})
    \union Of({"head", "helmet"}, Small)
    \union Of({"ydjz", "onlyjyst"}, {B(300, 340, 200, 240)})
    \union Of({"wdjyst", "smoke"}, {B(211, 230, 200, 240)})
    \union Of({"rydd"}, {B(100, 260, 400, 500)})
    \union Of({"dxdb"}, Boom)

(* Line 477 says that the rule finds out whether insulating gloves are not *)
(* worn: the gloves of one worker would not stand for those of another.    *)
GlovesElsewhereAreNoExcuse ==
    [][Len(found'["onlyjyst"]) > Len(found["onlyjyst"]) =>
         \A r \in Predictions :
             ~Overlap(r.box, found'["onlyjyst"][Len(found'["onlyjyst"])])
                 => r \in Predictions']_vars

=============================================================================
