---------------------------- MODULE CppBindingMC ----------------------------
(***************************************************************************)
(* CppBinding for TLC: two threads, an Owner and a Controller, and a       *)
(* function of every shape the binding has.                                *)
(***************************************************************************)
EXTENDS CppBinding, CppApi

CONSTANTS t1, t2, owner, controller

MCThread == {t1, t2}
MCObject == {owner, controller}
MCClass == [o \in MCObject |-> IF o = owner THEN "Owner" ELSE "Controller"]

MCFunction ==
  {"Owner.init", "Controller.init", "Controller.transfer",
   "Controller.clear_last_error", "Controller.address", "validate_felt"}
MCApi == [f \in MCFunction |-> AllFunctions[f]]
MCChecked == ChecksumOf
=============================================================================
