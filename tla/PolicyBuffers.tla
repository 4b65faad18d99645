--------------------------- MODULE PolicyBuffers ---------------------------
(***************************************************************************)
(* What the application of PolicyLists writes, as it crosses from C++ to   *)
(* the library and back, in the buffers of WireFormat.                     *)
(***************************************************************************)
EXTENDS PolicyLists, WireFormat

\* No list and no address is longer than an int32_t can say.
ASSUME LengthAssumption == Width <= MaxInt32 /\ MaxLength <= MaxInt32

\* What the application writes, as the values of the C++ binding: a call for
\* each policy, with the addresses so far for its calldata.
ListedPolicies(fee) ==
  [policies |-> [i \in DOMAIN listed |->
      [contract_address |-> listed[i].contract_address,
       entrypoint |-> <<listed[i].entrypoint>>]],
   max_fee |-> fee]
ListedCalls ==
  [i \in DOMAIN listed |->
    [contract_address |-> listed[i].contract_address,
     entrypoint |-> <<listed[i].entrypoint>>,
     calldata |-> [j \in 1..(i - 1) |-> listed[j].contract_address]]]
OptionalStrings == {<<>>} \cup {<<a>> : a \in Addresses}

\* Every buffer the binding lowers has exactly the bytes Rust looks for, and
\* it lifts exactly what Rust wrote: no field is cut off by the size that was
\* asked for, none is left over, and none is taken for another.
BuffersMatchTheLibrary ==
  /\ \A fee \in Addresses :
       LET p == ListedPolicies(fee)
       IN  Lower(WritePolicies(p), SizePolicies(p)) = RustPolicies(p)
  /\ Lower(WriteCalls(ListedCalls), SizeCalls(ListedCalls)) = WriteMany(ListedCalls, RustCall)
  /\ ReadCalls(WriteMany(ListedCalls, RustCall)) = Result(ListedCalls, <<>>)
  /\ \A fee \in Addresses :
       ReadPolicies(RustPolicies(ListedPolicies(fee))) = Result(ListedPolicies(fee), <<>>)
  /\ \A v \in OptionalStrings :
       LET b == WriteOptionalString(v)
       IN  /\ Lower(b, SizeOptionalString(v)) = b
           /\ ReadOptionalString(b) = Result(v, <<>>)
  /\ \A v \in {<<>>, <<1000 * Len(listed)>>} :
       LET b == WriteOptionalUInt64(v)
       IN  /\ Lower(b, SizeOptionalUInt64(v)) = b
           /\ ReadOptionalUInt64(b) = Result(v, <<>>)
  /\ \A i \in DOMAIN UdlSignerTypes :
       Lower(WriteEnum(SignerType, UdlSignerTypes[i]), SizeEnum) = WriteInteger(i, 4)
  /\ \A i \in DOMAIN UdlVersions :
       /\ Lower(WriteEnum(Version, UdlVersions[i]), SizeEnum) = WriteInteger(i, 4)
       /\ ReadEnum(Version, WriteInteger(i, 4)) = Result(UdlVersions[i], <<>>)
  /\ \A i \in DOMAIN UdlErrors, what \in Addresses :
       ReadError(WriteInteger(i, 4) \o RustString(what))
         = Result([class |-> UdlErrors[i], what |-> what], <<>>)
=============================================================================
