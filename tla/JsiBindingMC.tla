---------------------------- MODULE JsiBindingMC ----------------------------
(***************************************************************************)
(* JsiBinding for TLC: the whole interface, with two owners, a controller  *)
(* and a session account for its objects.                                  *)
(***************************************************************************)
EXTENDS JsiLayers

CONSTANTS o1, o2, c1, s1

MCObject == {o1, o2, c1, s1}
MCClass == [o \in MCObject |-> CASE o \in {o1, o2} -> "owner"
                                 [] o = c1 -> "controlleraccount"
                                 [] o = s1 -> "sessionaccount"]
\* What JsiBindingProofs proves of the tables, evaluated.
ASSUME TablesAssumption == FunctionsAgree /\ CallbacksAgree /\ TsDisagrees

MCNothing == <<"func", "none of them">>

MCDeclared == Declared
MCExposed == Exposed
MCGlue == Glue
MCCalled == Called
MCChecked == CalledChecksums
=============================================================================
