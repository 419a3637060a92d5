------------------------------ MODULE MCIOLoop ------------------------------
(***************************************************************************)
(* Instances of IOLoop for TLC.  Descriptors are numbers, because the map  *)
(* of pending events is ordered by them; everything else is a model value. *)
(***************************************************************************)
EXTENDS IOLoop

TwoFds == {1, 2}
OneFd  == {1}
NoFds  == {}
=============================================================================
