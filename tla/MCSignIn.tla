------------------------------- MODULE MCSignIn -------------------------------
(***************************************************************************)
(* Instances of SignIn for TLC.                                            *)
(***************************************************************************)
EXTENDS SignIn, TLC

Alike == Permutations(Attempts)
===============================================================================
