---------------------------- MODULE JsiCallbacks ----------------------------
(***************************************************************************)
(* The calls from Rust to JavaScript, as data, as the layers of the React  *)
(* Native binding know them: the C types, as the C++ module and the Swift  *)
(* header declare them ("Typedefs", "Header"), the code that turns such a  *)
(* call into one of a JavaScript function ("Namespaces"), the code that    *)
(* makes a JavaScript function of a C one ("Wrappers"), the conversion of  *)
(* the structs among the arguments ("Results"), that of the scalars        *)
(* ("Scalars"), and the types of controller-ffi.ts ("Ts").                 *)
(*                                                                         *)
(* Nothing of the present interface is asynchronous or takes a callback,   *)
(* so that only an interface that comes to be will make these calls.       *)
(***************************************************************************)
EXTENDS Tables

\* A callback is a pair, with what it takes and gives; a parameter is a pair
\* as well: a scalar, or the struct ForeignFutureResult of some type.
Callback(name) == <<"callback", name>>
Scalar(type) == <<"scalar", type>>
Result(type) == <<"result", type>>

Row(name, takes, gives) == Callback(name) :> [takes |-> takes, gives |-> gives]
Completes(types) ==
  [k \in {"complete"} \X types |->
     [takes |-> <<Scalar("u64"), Result(k[2])>>, gives |-> "void"]]
Type == {"u8", "i8", "u16", "i16", "u32", "i32", "u64", "i64", "f32", "f64",
         "buffer", "void"}

-----------------------------------------------------------------------------
\* Typedefs: the function pointers the module declares.
TypedefCallbacks ==
  Row("continuation", <<Scalar("u64"), Scalar("i8")>>, "void")
  @@ Row("dropped", <<Scalar("u64")>>, "void")
  @@ Row("free", <<Scalar("u64")>>, "void")
  @@ Row("clone", <<Scalar("u64")>>, "u64")

TypedefCompletes ==
  Completes({"u8", "i8", "u16", "i16", "u32", "i32", "u64", "i64", "f32",
             "f64", "buffer", "void"})

Typedefs == TypedefCallbacks @@ TypedefCompletes

\* Header: those of the Swift header.
HeaderCallbacks ==
  Row("continuation", <<Scalar("u64"), Scalar("i8")>>, "void")
  @@ Row("dropped", <<Scalar("u64")>>, "void")
  @@ Row("free", <<Scalar("u64")>>, "void")
  @@ Row("clone", <<Scalar("u64")>>, "u64")

HeaderCompletesOfIntegers ==
  Completes({"u8", "i8", "u16", "i16", "u32", "i32", "u64", "i64"})

HeaderCompletesOfOthers == Completes({"f32", "f64", "buffer", "void"})

HeaderOfCallbacks ==
  HeaderCallbacks @@ HeaderCompletesOfIntegers @@ HeaderCompletesOfOthers

-----------------------------------------------------------------------------
\* Namespaces: what each "body" converts, and passes to the function, once
\* its lambda has queued it for the thread of the runtime.  Rust gets nothing
\* back; for a clone it gets a zero at once, whatever the function will say.
ContinuationNamespace ==
  Row("continuation", <<Scalar("u64"), Scalar("i8")>>, "void")
DroppedNamespace == Row("dropped", <<Scalar("u64")>>, "void")
CloneNamespace == Row("clone", <<Scalar("u64")>>, "u64")
CompleteU8Namespace == Completes({"u8"})
CompleteI8Namespace == Completes({"i8"})
CompleteU16Namespace == Completes({"u16"})
CompleteI16Namespace == Completes({"i16"})
CompleteU32Namespace == Completes({"u32"})
CompleteI32Namespace == Completes({"i32"})
CompleteU64Namespace == Completes({"u64"})
CompleteI64Namespace == Completes({"i64"})
CompleteF32Namespace == Completes({"f32"})
CompleteF64Namespace == Completes({"f64"})
CompleteRustBufferNamespace == Completes({"buffer"})
CompleteVoidNamespace == Completes({"void"})

\* The file has two of them again, behind the same #ifndef.
ContinuationAgain == Row("continuation", <<Scalar("u64"), Scalar("i8")>>, "void")
CloneAgain == Row("clone", <<Scalar("u64")>>, "u64")

Namespaces ==
  ContinuationNamespace @@ DroppedNamespace @@ CloneNamespace
    @@ CompleteU8Namespace @@ CompleteI8Namespace @@ CompleteU16Namespace
    @@ CompleteI16Namespace @@ CompleteU32Namespace @@ CompleteI32Namespace
    @@ CompleteU64Namespace @@ CompleteI64Namespace @@ CompleteF32Namespace
    @@ CompleteF64Namespace @@ CompleteRustBufferNamespace
    @@ CompleteVoidNamespace @@ ContinuationAgain @@ CloneAgain

-----------------------------------------------------------------------------
\* Wrappers: what each "intoRust" converts, and passes to the C function.
WrapperCallbacks ==
  Row("continuation", <<Scalar("u64"), Scalar("i8")>>, "void")
  @@ Row("dropped", <<Scalar("u64")>>, "void")
  @@ Row("free", <<Scalar("u64")>>, "void")

WrapperCloneAndCompletes8 ==
  Row("clone", <<Scalar("u64")>>, "u64") @@ Completes({"u8", "i8"})

WrapperCompletes16 == Completes({"u16", "i16", "u32"})
WrapperCompletes64 == Completes({"i32", "u64", "i64"})
WrapperCompletesOfFloats == Completes({"f32", "f64", "buffer"})
WrapperCompleteVoid == Completes({"void"})

Wrappers ==
  WrapperCallbacks @@ WrapperCloneAndCompletes8 @@ WrapperCompletes16
    @@ WrapperCompletes64 @@ WrapperCompletesOfFloats @@ WrapperCompleteVoid

-----------------------------------------------------------------------------
\* Results: the properties of the object, and the C type each is of.
Struct(types, value, status) ==
  [t \in types |->
     IF t = "void" THEN status :> "status" ELSE value :> t @@ status :> "status"]

FirstResultsOf8 == Struct({"u8", "i8", "u16"}, "return_value", "call_status")
FirstResultsOf32 == Struct({"i16", "u32", "i32"}, "return_value", "call_status")
FirstResultsOf64 == Struct({"u64", "i64", "f32"}, "return_value", "call_status")
FirstResultsOfOthers ==
  Struct({"f64", "void", "buffer"}, "return_value", "call_status")

\* The file has them again, with the names of controller-ffi.ts, but behind
\* the #ifndef of the first.
LaterResultsOf8 == Struct({"u8", "i8"}, "returnValue", "callStatus")
LaterResultsOf16 == Struct({"u16", "i16"}, "returnValue", "callStatus")
LaterResultsOf32 == Struct({"u32", "i32"}, "returnValue", "callStatus")
LaterResultsOf64 == Struct({"u64", "i64"}, "returnValue", "callStatus")
LaterResultsOfFloats == Struct({"f32", "f64"}, "returnValue", "callStatus")
LaterResultsOfOthers == Struct({"buffer", "void"}, "returnValue", "callStatus")

Results ==
  FirstResultsOf8 @@ FirstResultsOf32 @@ FirstResultsOf64
    @@ FirstResultsOfOthers @@ LaterResultsOf8 @@ LaterResultsOf16
    @@ LaterResultsOf32 @@ LaterResultsOf64 @@ LaterResultsOfFloats
    @@ LaterResultsOfOthers

-----------------------------------------------------------------------------
\* Scalars: the JavaScript value that toJs makes, and fromJs demands.
Uint8 == "u8" :> "number"
Int8 == "i8" :> "number"
Uint16 == "u16" :> "number"
Int16 == "i16" :> "number"
Uint32 == "u32" :> "number"
Int32 == "i32" :> "number"
Uint64 == "u64" :> "bigint"
Int64 == "i64" :> "bigint"
Float32 == "f32" :> "number"
Float64 == "f64" :> "number"
Bytes == "buffer" :> "Uint8Array"
Status == "status" :> "UniffiRustCallStatus"

Scalars ==
  Uint8 @@ Int8 @@ Uint16 @@ Int16 @@ Uint32 @@ Int32 @@ Uint64 @@ Int64
    @@ Float32 @@ Float64 @@ Bytes @@ Status

\* Ts: the parameters of the function types, as JavaScript values.  Of a
\* clone they expect no answer, and "body" would pass none on.
TsCallbacks ==
  Row("continuation", <<"bigint", "number">>, "void")
  @@ Row("dropped", <<"bigint">>, "void") @@ Row("free", <<"bigint">>, "void")
  @@ Row("clone", <<"bigint">>, "void")

TsResults ==
  [t \in {"u8", "i8", "u16", "i16", "u32", "i32", "f32", "f64"} |->
     ("returnValue" :> "number") @@ ("callStatus" :> "UniffiRustCallStatus")]
  @@ [t \in {"u64", "i64"} |->
     ("returnValue" :> "bigint") @@ ("callStatus" :> "UniffiRustCallStatus")]
  @@ ("buffer" :> (("returnValue" :> "Uint8Array")
                   @@ ("callStatus" :> "UniffiRustCallStatus")))
  @@ ("void" :> ("callStatus" :> "UniffiRustCallStatus"))
=============================================================================
