-------------------------- MODULE SessionPolicies --------------------------
(***************************************************************************)
(* The canonical form of a session's policies (src/src/types.rs).  The     *)
(* registration URL and the session itself list the policies separately;   *)
(* the session is the one that the user approved only if both lists come   *)
(* out the same, whatever order the application keeps its policies in.     *)
(*                                                                         *)
(* An address is the sequence of digits after "0x", most significant       *)
(* first, as the application wrote it.  An entrypoint is its rank in the   *)
(* byte order of names.                                                    *)
(***************************************************************************)
EXTENDS Naturals, Sequences, FiniteSets

CONSTANTS
  Base,     \* 16 in the code: the digits are 0..Base-1
  Width,    \* 64 in the code: the digits of a padded address
  Name,     \* the ranks of the entrypoint names, in byte order
  Fold,     \* Fold[n]: the rank of n in lower case
  NotHex,   \* an address that Felt::from_hex refuses
  NonAscii  \* the names that get_selector_from_name refuses

ASSUME PolicyAssumption ==
  /\ Base \in Nat \ {0, 1}
  /\ Width \in Nat \ {0}
  /\ Name \subseteq Nat
  /\ Fold \in [Name -> Nat]
  /\ NonAscii \subseteq Name

\* The addresses that Felt::from_hex reads: it refuses more than 64 digits.
\* Those that it reduces, from the field's prime on, no account has.
Address == {digits \in Seq(0..(Base - 1)) : Len(digits) \in 1..Width}

-----------------------------------------------------------------------------
\* Felt::from_hex: the number that the digits write, leading zeros or not.
FromHex(digits) ==
  LET value[n \in 0..Len(digits)] ==
        IF n = 0 THEN 0 ELSE value[n - 1] * Base + digits[n]
  IN  value[Len(digits)]

\* PaddedHex that pads on the wrong side (CanonicalKeepsPolicies).
LeftJustifiedHex(felt) ==
  LET digits == CHOOSE n \in 1..Width : felt < Base^n /\ \A m \in 1..(n - 1) : felt >= Base^m
  IN  [i \in 1..Width |->
        IF i <= digits THEN (felt \div Base^(digits - i)) % Base ELSE 0]

\* What is left of a number after so many of its digits, the last one first.
Rest(felt) ==
  LET rest[n \in 0..Width] == IF n = 0 THEN felt ELSE rest[n - 1] \div Base
  IN  rest

\* format!("0x{contract_address:064x}")
PaddedHex(felt) == [i \in 1..Width |-> Rest(felt)[Width - i] % Base]

\* str::cmp on two paddings.
HexLess(a, b) ==
  \E i \in 1..Width : a[i] < b[i] /\ \A j \in 1..(i - 1) : a[j] = b[j]

\* CanonicalLess without its last comparison (CanonicalIgnoresOrder,
\* SessionIsWhatWasApproved).
LessButForCase(p, q) ==
  \/ HexLess(p.target, q.target)
  \/ p.target = q.target /\ Fold[p.method] < Fold[q.method]

\* CanonicalLess by name before address (CanonicalIsSorted).
LessByName(p, q) ==
  \/ Fold[p.method] < Fold[q.method]
  \/ /\ Fold[p.method] = Fold[q.method]
     /\ \/ p.method < q.method
        \/ p.method = q.method /\ HexLess(p.target, q.target)

\* The comparison given to sort_by, as a strict order.
CanonicalLess(p, q) ==
  \/ HexLess(p.target, q.target)
  \/ /\ p.target = q.target
     /\ \/ Fold[p.method] < Fold[q.method]
        \/ Fold[p.method] = Fold[q.method] /\ p.method < q.method

\* Vec::sort_by: the stable sort of s by a strict weak order.
StableSort(s, Less(_, _)) ==
  LET rank(i) == Cardinality({j \in DOMAIN s :
                    \/ Less(s[j], s[i])
                    \/ ~Less(s[i], s[j]) /\ j <= i})
  IN  [k \in DOMAIN s |-> s[CHOOSE i \in DOMAIN s : rank(i) = k]]

\* canonicalize_session_policies parses every address before it sorts.
Parses(policies) ==
  \A i \in DOMAIN policies : policies[i].contract_address # NotHex

Canonicalize(policies) ==
  StableSort([i \in DOMAIN policies |->
               [target |-> PaddedHex(FromHex(policies[i].contract_address)),
                method |-> policies[i].entrypoint]],
             CanonicalLess)

\* TryFrom<&SessionPolicies> for Vec<Policy>: besides, every entrypoint must
\* have a selector.
HasSelectors(policies) ==
  \A i \in DOMAIN policies : policies[i].entrypoint \notin NonAscii

\* The policies of the SDK session; the selector stands for its name.
SdkPolicies(policies) ==
  LET canonical == Canonicalize(policies)
  IN  [i \in DOMAIN canonical |->
        [contract |-> canonical[i].target, selector |-> canonical[i].method]]

=============================================================================
