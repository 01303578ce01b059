----------------------------- MODULE PredictionMC -----------------------------
(***************************************************************************)
(* Two networks, one of which only looks if its algorithm is asked for and *)
(* ignores a class; boxes that cover each other by more than, by exactly   *)
(* and by less than the threshold, of equal scores, of two classes, and on *)
(* the border of a wide, a tall and a square picture.                      *)
(***************************************************************************)
EXTENDS Prediction

MCPictures == {[w |-> 16, h |-> 6], [w |-> 6, h |-> 16], [w |-> 8, h |-> 8]}

MCLists == {{}, {"head"}, {"head", "jyst"}}

MCModels == <<[name |-> "head", enable |-> FALSE, needs |-> {}, similarity |-> 5, ignored |-> {}],
              [name |-> "onlyjyst", enable |-> TRUE, needs |-> {"jyst"}, similarity |-> 3,
               ignored |-> {1}]>>

Box(class, score, left, top, right, bottom) ==
    [class |-> class, score |-> score, left |-> left, top |-> top,
     right |-> right, bottom |-> bottom]

(* The second has 9 in common with the first of the 20 both cover: just    *)
(* the threshold.                                                          *)
MCCands == {Box(0, 9, 0, 0, 4, 5), Box(0, 8, 0, 0, 3, 3), Box(0, 8, 0, 1, 4, 5),
            Box(1, 7, 0, 0, 4, 5), Box(1, 4, -1, 0, 4, 5), Box(0, 4, 2, 1, 8, 5),
            Box(1, 5, 4, 2, 9, 9)}
=============================================================================
