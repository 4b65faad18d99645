----------------------------- MODULE WireFormat -----------------------------
(***************************************************************************)
(* The buffers in which the C++ binding, bindings/cpp/controller.cpp,      *)
(* passes what is not a scalar: its converters ask Rust for as many bytes  *)
(* as allocation_size says, write into them, and read what Rust wrote.     *)
(* Rust reads, and writes, the fields in the order of controller.udl.      *)
(*                                                                         *)
(* A byte is a number, and a string the sequence of its bytes.  A reader   *)
(* takes the bytes that are left, and gives what it read with those after  *)
(* it.  Lengths and counts are int32_t: one that is larger than MaxInt32   *)
(* would be read as negative, which is left out.                           *)
(***************************************************************************)
EXTENDS Naturals, Sequences, SequencesExt

Result(value, rest) == [value |-> value, rest |-> rest]
After(n, bytes) == SubSeq(bytes, n + 1, Len(bytes))

-----------------------------------------------------------------------------
MaxInt32 == 2147483647

\* What is left of a number after so many of its bytes, the last one first.
Shifted(n, width) ==
  LET rest[k \in 0..width] == IF k = 0 THEN n ELSE rest[k - 1] \div 256
  IN  rest

\* RustStream: big-endian integers, whatever the machine.
WriteInteger(n, width) ==
  [i \in 1..width |-> Shifted(n, width)[width - i] % 256]
ReadInteger(bytes, width) ==
  LET value[i \in 0..width] ==
        IF i = 0 THEN 0 ELSE value[i - 1] * 256 + bytes[i]
  IN  Result(value[width], After(width, bytes))

\* lower(): the buffer Rust allocates has the size it was asked for; the
\* stream drops what does not fit, and leaves what it does not reach.
Lower(bytes, size) ==
  [i \in 1..size |-> IF i <= Len(bytes) THEN bytes[i] ELSE 0]

WriteString(s) == WriteInteger(Len(s), 4) \o s
ReadString(bytes) ==
  LET length == ReadInteger(bytes, 4).value
  IN  Result(SubSeq(bytes, 5, 4 + length), After(4 + length, bytes))
SizeString(s) == 4 + Len(s)

WriteUInt64(n) == WriteInteger(n, 8)
ReadUInt64(bytes) == ReadInteger(bytes, 8)

\* A sequence is its length and its elements, one after the other.
WriteMany(s, Write(_)) ==
  WriteInteger(Len(s), 4) \o FlattenSeq([i \in DOMAIN s |-> Write(s[i])])
Total(sizes) ==
  LET sum[i \in 0..Len(sizes)] == IF i = 0 THEN 0 ELSE sum[i - 1] + sizes[i]
  IN  sum[Len(sizes)]
SizeMany(s, Size(_)) == 4 + Total([i \in DOMAIN s |-> Size(s[i])])
ReadMany(bytes, Read(_)) ==
  LET count == ReadInteger(bytes, 4).value
      upTo[i \in 0..count] ==
        IF i = 0 THEN Result(<<>>, After(4, bytes))
        ELSE LET next == Read(upTo[i - 1].rest)
             IN  Result(Append(upTo[i - 1].value, next.value), next.rest)
  IN  upTo[count]

\* An optional value is a sequence of at most one; its flag is a byte.
WriteOptional(v, Write(_)) == IF v = <<>> THEN <<0>> ELSE <<1>> \o Write(v[1])
ReadOptional(bytes, Read(_)) ==
  IF bytes[1] = 0 THEN Result(<<>>, After(1, bytes))
  ELSE LET r == Read(After(1, bytes)) IN Result(<<r.value>>, r.rest)

-----------------------------------------------------------------------------
\* FfiConverterSequenceTypeFieldElement; a FieldElement is a string.
WriteFieldElements(s) == WriteMany(s, WriteString)
ReadFieldElements(bytes) == ReadMany(bytes, ReadString)
SizeFieldElements(s) == SizeMany(s, SizeString)

\* FfiConverterTypeCall.
WriteCall(c) ==
  WriteString(c.contract_address) \o WriteString(c.entrypoint)
    \o WriteFieldElements(c.calldata)
ReadCall(bytes) ==
  LET address == ReadString(bytes)
      name == ReadString(address.rest)
      data == ReadFieldElements(name.rest)
  IN  Result([contract_address |-> address.value, entrypoint |-> name.value,
              calldata |-> data.value], data.rest)

\* Mutant: the calldata counted without its own count.
SizeCallShort(c) ==
  SizeString(c.contract_address) + SizeString(c.entrypoint)
    + (SizeFieldElements(c.calldata) - 4)
SizeCall(c) ==
  SizeString(c.contract_address) + SizeString(c.entrypoint)
    + SizeFieldElements(c.calldata)

\* FfiConverterSequenceTypeCall.
WriteCalls(s) == WriteMany(s, WriteCall)
ReadCalls(bytes) == ReadMany(bytes, ReadCall)
SizeCalls(s) == SizeMany(s, SizeCall)

\* FfiConverterTypeSessionPolicy.
WritePolicy(p) == WriteString(p.contract_address) \o WriteString(p.entrypoint)
ReadPolicy(bytes) ==
  LET address == ReadString(bytes)
      name == ReadString(address.rest)
  IN  Result([contract_address |-> address.value, entrypoint |-> name.value],
             name.rest)
SizePolicy(p) == SizeString(p.contract_address) + SizeString(p.entrypoint)

\* FfiConverterSequenceTypeSessionPolicy.
WritePolicyList(s) == WriteMany(s, WritePolicy)
ReadPolicyList(bytes) == ReadMany(bytes, ReadPolicy)
SizePolicyList(s) == SizeMany(s, SizePolicy)

\* FfiConverterTypeSessionPolicies.
WritePolicies(p) == WritePolicyList(p.policies) \o WriteString(p.max_fee)
ReadPolicies(bytes) ==
  LET list == ReadPolicyList(bytes)
      fee == ReadString(list.rest)
  IN  Result([policies |-> list.value, max_fee |-> fee.value], fee.rest)
SizePolicies(p) == SizePolicyList(p.policies) + SizeString(p.max_fee)

\* FfiConverterOptionalUInt64 and FfiConverterOptionalString.
WriteOptionalUInt64(v) == WriteOptional(v, WriteUInt64)
ReadOptionalUInt64(bytes) == ReadOptional(bytes, ReadUInt64)
SizeOptionalUInt64(v) == IF v = <<>> THEN 1 ELSE 1 + 8
WriteOptionalString(v) == WriteOptional(v, WriteString)
ReadOptionalString(bytes) == ReadOptional(bytes, ReadString)
SizeOptionalString(v) == IF v = <<>> THEN 1 ELSE 1 + SizeString(v[1])

\* FfiConverterSignerType and FfiConverterVersion: the number of a variant.
SignerType == [Webauthn |-> 1, Starknet |-> 2]
Version == [V1_0_4 |-> 1, V1_0_5 |-> 2, V1_0_6 |-> 3, V1_0_7 |-> 4,
            V1_0_8 |-> 5, V1_0_9 |-> 6, Latest |-> 7]
WriteEnum(numbers, v) == WriteInteger(numbers[v], 4)
ReadEnum(numbers, bytes) ==
  LET n == ReadInteger(bytes, 4)
  IN  Result(CHOOSE v \in DOMAIN numbers : numbers[v] = n.value, n.rest)
SizeEnum == 4

\* FfiConverterControllerError, and the class of each variant.
ErrorClass ==
  <<"InitializationError", "SignupError", "ExecutionError", "NetworkError",
    "StorageError", "InvalidInput", "DisconnectError">>
ReadError(bytes) ==
  LET variant == ReadInteger(bytes, 4)
      text == ReadString(variant.rest)
  IN  Result([class |-> ErrorClass[variant.value], what |-> text.value],
             text.rest)

-----------------------------------------------------------------------------
\* The Rust side: the types of controller.udl, in its order.
UdlErrors ==
  <<"InitializationError", "SignupError", "ExecutionError", "NetworkError",
    "StorageError", "InvalidInput", "DisconnectError">>
UdlSignerTypes == <<"Webauthn", "Starknet">>
UdlVersions == <<"V1_0_4", "V1_0_5", "V1_0_6", "V1_0_7", "V1_0_8", "V1_0_9",
                 "Latest">>
UdlCall == <<"contract_address", "entrypoint", "calldata">>
UdlSessionPolicy == <<"contract_address", "entrypoint">>
UdlSessionPolicies == <<"policies", "max_fee">>

\* What Rust writes of a value, and must find in a buffer it is given; a
\* string is written as bytes, any other sequence element by element.
RustString(s) == WriteInteger(Len(s), 4) \o s
RustStrings(s) == WriteMany(s, RustString)
RustRecord(fields, v, Write(_, _)) ==
  FlattenSeq([i \in DOMAIN fields |-> Write(fields[i], v[fields[i]])])
RustCall(c) ==
  RustRecord(UdlCall, c, LAMBDA field, v :
    IF field = "calldata" THEN RustStrings(v) ELSE RustString(v))
RustPolicy(p) == RustRecord(UdlSessionPolicy, p, LAMBDA field, v : RustString(v))
RustPolicies(p) ==
  RustRecord(UdlSessionPolicies, p, LAMBDA field, v :
    IF field = "policies" THEN WriteMany(v, RustPolicy) ELSE RustString(v))
=============================================================================
