------------------------------ MODULE JsiLayers ------------------------------
(***************************************************************************)
(* Where the layers of the React Native binding, as JsiApi and JsiCallbacks*)
(* describe them, agree with each other and with the binding that works    *)
(* over them, and where they do not.                                       *)
(***************************************************************************)
EXTENDS JsiBinding, JsiApi, JsiCallbacks

\* What controller.ts asks the module for, initialize() included, is there;
\* and the C++ module and the Swift header declare one library.
FunctionsAgree ==
  /\ InterfaceFits
  /\ DOMAIN Called \cup CalledStrings \subseteq Exposed
  /\ Exposed = DOMAIN Glue
  /\ CalledChecksums \subseteq ExposedChecksums
  /\ ExposedChecksums = GlueChecksums
  /\ GlueChecksums \subseteq DeclaredChecksums
  /\ Declared = Header
  /\ DeclaredChecksums = HeaderChecksums

\* The C++ that declares the callbacks, calls them and wraps them knows them
\* as the Swift header does, but for a free that nothing calls; and it passes
\* the JavaScript values that controller-ffi.ts names as their parameters.
CallbacksAgree ==
  /\ Typedefs = HeaderOfCallbacks
  /\ Typedefs = Wrappers
  /\ DOMAIN Namespaces = DOMAIN Typedefs \ {Callback("free")}
  /\ \A k \in DOMAIN Namespaces : Namespaces[k] = Typedefs[k]
  /\ \A k \in DOMAIN TsCallbacks :
       LET takes == Typedefs[k].takes
       IN  [i \in DOMAIN takes |-> Scalars[takes[i][2]]]
             = TsCallbacks[k].takes

\* What controller-ffi.ts calls the properties of a result.
TsName(p) == IF p = "return_value" THEN "returnValue" ELSE "callStatus"

\* Where controller-ffi.ts does not agree with the C++, and only there: it
\* expects no answer of a clone, and it has other names for all properties of
\* a result, so that a result made to the one is unreadable to the other.
\* Their types are the same.
TsDisagrees ==
  /\ {k \in DOMAIN TsCallbacks : TsCallbacks[k].gives # Typedefs[k].gives}
       = {Callback("clone")}
  /\ \A t \in Type :
       /\ DOMAIN Results[t] \cap DOMAIN TsResults[t] = {}
       /\ DOMAIN TsResults[t] = {TsName(p) : p \in DOMAIN Results[t]}
       /\ \A p \in DOMAIN Results[t] :
            TsResults[t][TsName(p)] = Scalars[Results[t][p]]

\* The layers that the binding works over are the present ones.
PresentLayers ==
  /\ ApiCalled = Called /\ ApiExposed = Exposed
  /\ ApiGlue = Glue /\ ApiDeclared = Declared
  /\ Checked = CalledChecksums
=============================================================================
