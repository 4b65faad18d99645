-------------------------------- MODULE Tables --------------------------------
(***************************************************************************)
(* Functions as tables, entry by entry: @@ and :> by their definitions in  *)
(* the module TLC, but written here, for there they are operators that a   *)
(* prover finds under a name that it gives a meaning of its own.           *)
(***************************************************************************)

Merged(f, g) ==
  [x \in DOMAIN f \cup DOMAIN g |-> IF x \in DOMAIN f THEN f[x] ELSE g[x]]

\* f, and g where f is not defined.
f @@ g == Merged(f, g)

\* The table of one entry.
x :> v == [y \in {x} |-> v]
=============================================================================
