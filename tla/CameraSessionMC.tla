-------------------------- MODULE CameraSessionMC --------------------------
(***************************************************************************)
(* CameraSession with what TLC needs to know of its instances, and what    *)
(* the comments and messages of the code say of it that the code does not  *)
(* do.                                                                     *)
(***************************************************************************)
EXTENDS CameraSession, TLC

(* Camera ids are only compared for equality.                              *)
Symmetric == Permutations(Cams)

(* Controller.cpp:98 says that a camera that is on is taken from the cache *)
(* and only else created anew: a camera has one session at a time.         *)
OneSessionPerCamera == \A c \in Cams : Cardinality(Running(c)) =< 1

=============================================================================
