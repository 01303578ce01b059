------------------------------ MODULE Descent ------------------------------
(***************************************************************************)
(* What the theorems about liveness take from counting: a number that      *)
(* never rises stops to change.  It is so of every behaviour and every v,  *)
(* by induction along the behaviour; the provers have no rule for that, so *)
(* that a theorem that needs it of some v has it as a hypothesis.          *)
(***************************************************************************)
EXTENDS Naturals

NoEndlessFall(v) ==
    []([](v \in Nat) /\ [][v' =< v]_v => <>[][v' = v]_v)

============================================================================
