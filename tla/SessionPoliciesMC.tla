------------------------- MODULE SessionPoliciesMC -------------------------
(* PolicyLists, and the buffers such lists cross in, with digits 0..1 and  *)
(* two digits to an address.                                               *)
EXTENDS PolicyBuffers

MCAddresses == {<<1>>, <<0, 1>>, <<1, 0>>, <<1, 1>>}
MCFold == (1 :> 2) @@ (2 :> 2) @@ (3 :> 3)
=============================================================================
