---------------------------- MODULE JsiRuntimeMC ----------------------------
(***************************************************************************)
(* JsiRuntime for TLC: two futures, which are alike, and three runtimes.   *)
(***************************************************************************)
EXTENDS JsiRuntime, TLC

CONSTANTS f1, f2

MCFuture == {f1, f2}
=============================================================================
