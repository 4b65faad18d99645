----------------------- MODULE SessionRegistrationMC -----------------------
(* SessionRegistration with digits 0..1, two digits to an address, and the *)
(* names MINT < mint < swap < an accented one, where MINT folds to mint.   *)
EXTENDS SessionRegistration, TLC

MCFold == (1 :> 2) @@ (2 :> 2) @@ (3 :> 3) @@ (4 :> 4)

\* Policies on "0x10", on "0x1" and on the same address with a leading zero.
P(address, name) == [contract_address |-> address, entrypoint |-> name]

MCLists ==
  { <<P(<<1, 0>>, 2), P(<<1>>, 3), P(<<0, 1>>, 1)>>,   \* addresses out of order
    <<P(<<1>>, 1), P(<<0, 1>>, 2), P(<<1>>, 2)>>,      \* names alike but for case
    <<P(<<1>>, 3), P(<<1>>, 3)>>,                      \* twice the same
    <<P(<<1>>, 4), P(<<1, 0>>, 1)>>,                   \* no selector
    <<P(NotHex, 1), P(<<1>>, 2)>> }                    \* no address
=============================================================================
