---------------------------- MODULE MCLuaGuardia ----------------------------
(* Instances of LuaGuardia for TLC.                                          *)
EXTENDS Protocol, TLC

Symmetry == Permutations(Sessions)
=============================================================================
