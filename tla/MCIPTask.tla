------------------------------ MODULE MCIPTask ------------------------------
(* Instances of IPTask for TLC. *)
EXTENDS IPTask, TLC

CONSTANTS driver, u1, u2

MCDrivers == {driver}
MCUsers == {u1, u2}
MCOneUser == {u1}
MCAll == {driver, u1, u2}
MCNone == {}

Symmetry == Permutations(MCUsers)
=============================================================================
