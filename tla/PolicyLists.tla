---------------------------- MODULE PolicyLists ----------------------------
(***************************************************************************)
(* Every list of policies that an application may write, in every order it *)
(* may keep it in, and what canonicalize_session_policies                  *)
(* (src/src/types.rs) promises of its canonical form: the policies         *)
(* themselves, by address and then by entrypoint, whatever their order.    *)
(***************************************************************************)
EXTENDS SessionPolicies

CONSTANTS
  Addresses,  \* the addresses that an application writes
  MaxLength   \* bound: the length of a list

ASSUME ListAssumption ==
  /\ Addresses \subseteq Address /\ NotHex \notin Addresses
  /\ MaxLength \in Nat

VARIABLE listed  \* the application's list

Policy == [contract_address : Addresses, entrypoint : Name]

ListInit == listed = <<>>

Add ==
  Len(listed) < MaxLength /\ \E p \in Policy : listed' = Append(listed, p)

Trade ==
  \E i, j \in DOMAIN listed :
    i < j /\ listed' = [listed EXCEPT ![i] = listed[j], ![j] = listed[i]]

ListSpec == ListInit /\ [][Add \/ Trade]_listed

-----------------------------------------------------------------------------
\* The canonical list is in the order of the addresses' numbers, then of the
\* names without their case, then of the names, although it compares the
\* addresses as text.
CanonicalIsSorted ==
  LET c == Canonicalize(listed)
      value(i) == FromHex(c[i].target)
  IN  \A i, j \in DOMAIN c : i < j =>
        \/ value(i) < value(j)
        \/ /\ value(i) = value(j)
           /\ \/ Fold[c[i].method] < Fold[c[j].method]
              \/ Fold[c[i].method] = Fold[c[j].method] /\ c[i].method <= c[j].method

\* Every policy given is in the canonical list as often as it was given, also
\* one that is written in two ways.
CanonicalKeepsPolicies ==
  LET c == Canonicalize(listed)
      given(value, name) ==
        {i \in DOMAIN listed : /\ FromHex(listed[i].contract_address) = value
                               /\ listed[i].entrypoint = name}
      kept(value, name) ==
        {k \in DOMAIN c : FromHex(c[k].target) = value /\ c[k].method = name}
  IN  \A a \in Addresses, n \in Name :
        Cardinality(kept(FromHex(a), n)) = Cardinality(given(FromHex(a), n))

\* The order that the application lists its policies in does not show.
CanonicalIgnoresOrder ==
  [][Len(listed') = Len(listed) => Canonicalize(listed)' = Canonicalize(listed)]_listed

=============================================================================
