---------------------------- MODULE MCAuthSession ----------------------------
(* A small instance of AuthSession for TLC.                                *)
EXTENDS AuthSession, TLC

Symmetry == Permutations(Tabs)
=============================================================================
