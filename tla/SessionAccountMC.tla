-------------------------- MODULE SessionAccountMC --------------------------
(***************************************************************************)
(* The instance of SessionAccount that TLC checks.  Its threads are alike, *)
(* and what is checked of it is safety.                                    *)
(***************************************************************************)
EXTENDS SessionAccount, TLC

Alike == Permutations(Thread)
=============================================================================
