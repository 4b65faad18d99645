------------------------------- MODULE JsiApi -------------------------------
(***************************************************************************)
(* The functions of the Rust library as the React Native binding knows     *)
(* them, as data, at its four layers: what bindings/react-native/cpp/      *)
(* controller.cpp declares of the library ("Declared"), the host functions *)
(* it gives to JavaScript ("Exposed"), the C++ behind each of them         *)
(* ("Glue"), and what src/controller.ts passes ("Called").  The layers are *)
(* generated one by one, and nothing but their agreement makes a call.     *)
(* The Swift binding's header ("Header") declares the same library.        *)
(*                                                                         *)
(* A function is a pair of the type, or "func", and the name; "string" are *)
(* the host functions that convert strings without the library.  The       *)
(* status that every function but the checksums takes last is left out.    *)
(***************************************************************************)
EXTENDS Sequences, Naturals, Tables

Of(type, names) == {type} \X names
Buffers(n) == [i \in 1..n |-> "buffer"]
Rows(type, names, takes, gives) ==
  [f \in Of(type, names) |-> [takes |-> takes, gives |-> gives]]

-----------------------------------------------------------------------------
\* Declared: the extern "C" block.
DeclaredControllerAccount ==
  Rows("controlleraccount", {"clone"}, <<"handle">>, "handle")
  @@ Rows("controlleraccount", {"free", "clear_last_error", "disconnect"},
          <<"handle">>, "void")
  @@ Rows("controlleraccount", {"from_storage"}, Buffers(1), "handle")
  @@ Rows("controlleraccount", {"new"},
          Buffers(4) \o <<"handle">> \o Buffers(2), "handle")
  @@ Rows("controlleraccount", {"new_headless"},
          Buffers(4) \o <<"handle">> \o Buffers(1), "handle")
  @@ Rows("controlleraccount",
          {"address", "app_id", "chain_id", "delegate_account",
           "error_message", "username"}, <<"handle">>, "buffer")
  @@ Rows("controlleraccount", {"execute"},
          <<"handle">> \o Buffers(1), "buffer")
  @@ Rows("controlleraccount", {"signup"},
          <<"handle">> \o Buffers(3), "void")
  @@ Rows("controlleraccount", {"switch_chain"},
          <<"handle">> \o Buffers(1), "void")
  @@ Rows("controlleraccount", {"transfer"},
          <<"handle">> \o Buffers(2), "buffer")

DeclaredOwner ==
  Rows("owner", {"clone"}, <<"handle">>, "handle")
  @@ Rows("owner", {"free"}, <<"handle">>, "void")
  @@ Rows("owner", {"new"}, Buffers(1), "handle")

DeclaredSessionAccount ==
  Rows("sessionaccount", {"clone"}, <<"handle">>, "handle")
  @@ Rows("sessionaccount", {"free"}, <<"handle">>, "void")
  @@ Rows("sessionaccount", {"create_from_subscribe"}, Buffers(4), "handle")
  @@ Rows("sessionaccount", {"new"}, Buffers(6) \o <<"u64">>, "handle")
  @@ Rows("sessionaccount",
          {"address", "app_id", "chain_id", "owner_guid", "session_id",
           "username"}, <<"handle">>, "buffer")
  @@ Rows("sessionaccount", {"execute", "execute_from_outside"},
          <<"handle">> \o Buffers(1), "buffer")
  @@ Rows("sessionaccount", {"expires_at"}, <<"handle">>, "u64")
  @@ Rows("sessionaccount", {"is_expired", "is_revoked"}, <<"handle">>, "i8")

DeclaredFunctions ==
  Rows("func", {"controller_has_storage", "validate_felt"}, Buffers(1), "i8")
  @@ Rows("func", {"create_session_registration_url"}, Buffers(4), "buffer")
  @@ Rows("func", {"create_session_registration_url_with_urls"},
          Buffers(6), "buffer")
  @@ Rows("func", {"get_controller_class_hash", "get_public_key",
                   "signer_to_guid"}, Buffers(1), "buffer")

DeclaredBuffers ==
  Rows("rustbuffer", {"alloc"}, <<"u64">>, "buffer")
  @@ Rows("rustbuffer", {"from_bytes"}, <<"bytes">>, "buffer")
  @@ Rows("rustbuffer", {"free"}, Buffers(1), "void")
  @@ Rows("rustbuffer", {"reserve"}, <<"buffer", "u64">>, "buffer")

\* An asynchronous function would be polled, cancelled, freed, and asked for
\* its result, through the functions for the type of its result.
Futures(types) ==
  [f \in {"poll"} \X types |->
     [takes |-> <<"u64", "callback", "u64">>, gives |-> "void"]]
  @@ [f \in {"cancel", "free"} \X types |->
     [takes |-> <<"u64">>, gives |-> "void"]]
  @@ [f \in {"complete"} \X types |-> [takes |-> <<"u64">>, gives |-> f[2]]]

DeclaredFuturesOfIntegers ==
  Futures({"u8", "i8", "u16", "i16", "u32", "i32", "u64", "i64"})
DeclaredFuturesOfOthers == Futures({"f32", "f64", "buffer", "void"})

\* One checksum for each function a program can ask for.
DeclaredChecksums ==
  Of("func",
     {"controller_has_storage", "create_session_registration_url",
      "create_session_registration_url_with_urls",
      "get_controller_class_hash", "get_public_key", "signer_to_guid",
      "validate_felt"})
  \cup Of("controlleraccount",
     {"address", "app_id", "chain_id", "clear_last_error",
      "delegate_account", "disconnect", "error_message", "execute", "signup",
      "switch_chain", "transfer", "username", "from_storage", "new",
      "new_headless"})
  \cup Of("owner", {"new"})
  \cup Of("sessionaccount",
     {"address", "app_id", "chain_id", "execute", "execute_from_outside",
      "expires_at", "is_expired", "is_revoked", "owner_guid", "session_id",
      "username", "create_from_subscribe", "new"})

Declared ==
  DeclaredControllerAccount @@ DeclaredOwner @@ DeclaredSessionAccount
    @@ DeclaredFunctions @@ DeclaredBuffers
    @@ DeclaredFuturesOfIntegers @@ DeclaredFuturesOfOthers

-----------------------------------------------------------------------------
\* Header: the same library as controller_uniffiFFI.h declares it to Swift.
HeaderControllerAccount ==
  Rows("controlleraccount", {"clone"}, <<"handle">>, "handle")
  @@ Rows("controlleraccount", {"free", "clear_last_error", "disconnect"},
          <<"handle">>, "void")
  @@ Rows("controlleraccount", {"from_storage"}, Buffers(1), "handle")
  @@ Rows("controlleraccount", {"new"},
          Buffers(4) \o <<"handle">> \o Buffers(2), "handle")
  @@ Rows("controlleraccount", {"new_headless"},
          Buffers(4) \o <<"handle">> \o Buffers(1), "handle")
  @@ Rows("controlleraccount",
          {"address", "app_id", "chain_id", "delegate_account",
           "error_message", "username"}, <<"handle">>, "buffer")
  @@ Rows("controlleraccount", {"execute"},
          <<"handle">> \o Buffers(1), "buffer")
  @@ Rows("controlleraccount", {"signup"},
          <<"handle">> \o Buffers(3), "void")
  @@ Rows("controlleraccount", {"switch_chain"},
          <<"handle">> \o Buffers(1), "void")
  @@ Rows("controlleraccount", {"transfer"},
          <<"handle">> \o Buffers(2), "buffer")

HeaderOwner ==
  Rows("owner", {"clone"}, <<"handle">>, "handle")
  @@ Rows("owner", {"free"}, <<"handle">>, "void")
  @@ Rows("owner", {"new"}, Buffers(1), "handle")

HeaderSessionAccount ==
  Rows("sessionaccount", {"clone"}, <<"handle">>, "handle")
  @@ Rows("sessionaccount", {"free"}, <<"handle">>, "void")
  @@ Rows("sessionaccount", {"create_from_subscribe"}, Buffers(4), "handle")
  @@ Rows("sessionaccount", {"new"}, Buffers(6) \o <<"u64">>, "handle")
  @@ Rows("sessionaccount",
          {"address", "app_id", "chain_id", "owner_guid", "session_id",
           "username"}, <<"handle">>, "buffer")
  @@ Rows("sessionaccount", {"execute", "execute_from_outside"},
          <<"handle">> \o Buffers(1), "buffer")
  @@ Rows("sessionaccount", {"expires_at"}, <<"handle">>, "u64")
  @@ Rows("sessionaccount", {"is_expired", "is_revoked"}, <<"handle">>, "i8")

HeaderFunctions ==
  Rows("func", {"controller_has_storage", "validate_felt"}, Buffers(1), "i8")
  @@ Rows("func", {"create_session_registration_url"}, Buffers(4), "buffer")
  @@ Rows("func", {"create_session_registration_url_with_urls"},
          Buffers(6), "buffer")
  @@ Rows("func", {"get_controller_class_hash", "get_public_key",
                   "signer_to_guid"}, Buffers(1), "buffer")

HeaderBuffers ==
  Rows("rustbuffer", {"alloc"}, <<"u64">>, "buffer")
  @@ Rows("rustbuffer", {"from_bytes"}, <<"bytes">>, "buffer")
  @@ Rows("rustbuffer", {"free"}, Buffers(1), "void")
  @@ Rows("rustbuffer", {"reserve"}, <<"buffer", "u64">>, "buffer")

HeaderFuturesOfIntegers ==
  Futures({"u8", "i8", "u16", "i16", "u32", "i32"})
HeaderFuturesOfOthers ==
  Futures({"u64", "i64", "f32", "f64", "buffer", "void"})

HeaderChecksumsOfController ==
  Of("func",
     {"controller_has_storage", "create_session_registration_url",
      "create_session_registration_url_with_urls",
      "get_controller_class_hash", "get_public_key", "signer_to_guid",
      "validate_felt"})
  \cup Of("controlleraccount",
     {"address", "app_id", "chain_id", "clear_last_error",
      "delegate_account", "disconnect", "error_message", "execute", "signup",
      "switch_chain", "transfer", "username"})

HeaderChecksumsOfSessions ==
  Of("sessionaccount",
     {"address", "app_id", "chain_id", "execute", "execute_from_outside",
      "expires_at", "is_expired", "is_revoked", "owner_guid", "session_id",
      "username", "create_from_subscribe", "new"})
  \cup Of("controlleraccount", {"from_storage", "new", "new_headless"})
  \cup Of("owner", {"new"})

Header ==
  HeaderControllerAccount @@ HeaderOwner @@ HeaderSessionAccount
    @@ HeaderFunctions @@ HeaderBuffers
    @@ HeaderFuturesOfIntegers @@ HeaderFuturesOfOthers

HeaderChecksums == HeaderChecksumsOfController \cup HeaderChecksumsOfSessions

-----------------------------------------------------------------------------
\* Exposed: the properties of the host object.
ExposedStrings ==
  Of("string", {"to_byte_length", "to_arraybuffer", "from_arraybuffer"})

ExposedControllerAccount ==
  Of("controlleraccount",
     {"clone", "free", "from_storage", "new", "new_headless", "address",
      "app_id", "chain_id", "clear_last_error", "delegate_account",
      "disconnect", "error_message", "execute", "signup", "switch_chain",
      "transfer", "username"})

ExposedOwner == Of("owner", {"clone", "free", "new"})

ExposedSessionAccount ==
  Of("sessionaccount",
     {"clone", "free", "create_from_subscribe", "new", "address", "app_id",
      "chain_id", "execute", "execute_from_outside", "expires_at",
      "is_expired", "is_revoked", "owner_guid", "session_id", "username"})

ExposedFunctions ==
  Of("func",
     {"controller_has_storage", "create_session_registration_url",
      "create_session_registration_url_with_urls",
      "get_controller_class_hash", "get_public_key", "signer_to_guid",
      "validate_felt"})

\* Mutant: a host function that was not registered.
ExposedWithoutOwnersBless ==
  {"controlleraccount", "sessionaccount"} \X {"bless"}

ExposedBless ==
  {"controlleraccount", "owner", "sessionaccount"} \X {"bless"}

ExposedChecksumsOfMethods ==
  Of("func",
     {"controller_has_storage", "create_session_registration_url",
      "create_session_registration_url_with_urls",
      "get_controller_class_hash", "get_public_key", "signer_to_guid",
      "validate_felt"})
  \cup Of("controlleraccount",
     {"address", "app_id", "chain_id", "clear_last_error",
      "delegate_account", "disconnect", "error_message", "execute", "signup",
      "switch_chain", "transfer", "username"})

ExposedChecksumsOfSessions ==
  Of("sessionaccount",
     {"address", "app_id", "chain_id", "execute", "execute_from_outside",
      "expires_at", "is_expired", "is_revoked", "owner_guid", "session_id",
      "username", "create_from_subscribe", "new"})
  \cup Of("controlleraccount", {"from_storage", "new", "new_headless"})
  \cup Of("owner", {"new"})

Exposed ==
  ExposedStrings \cup ExposedControllerAccount \cup ExposedOwner
    \cup ExposedSessionAccount \cup ExposedFunctions \cup ExposedBless

ExposedChecksums == ExposedChecksumsOfMethods \cup ExposedChecksumsOfSessions
-----------------------------------------------------------------------------
\* Glue: "takes" is what fromJs converts the arguments to, in their order,
\* and "gives" what toJs converts the result from.
GlueStrings ==
  Rows("string", {"to_byte_length"}, <<"string">>, "number")
  @@ Rows("string", {"to_arraybuffer"}, <<"string">>, "bytes")
  @@ Rows("string", {"from_arraybuffer"}, <<"bytes">>, "string")

GlueControllerConstructors ==
  Rows("controlleraccount", {"clone"}, <<"handle">>, "handle")
  @@ Rows("controlleraccount", {"free"}, <<"handle">>, "void")
  @@ Rows("controlleraccount", {"from_storage"}, Buffers(1), "handle")
  @@ Rows("controlleraccount", {"new"},
          Buffers(4) \o <<"handle">> \o Buffers(2), "handle")
  @@ Rows("controlleraccount", {"new_headless"},
          Buffers(4) \o <<"handle">> \o Buffers(1), "handle")

GlueControllerMethods ==
  Rows("controlleraccount",
       {"address", "app_id", "chain_id", "delegate_account",
        "error_message", "username"}, <<"handle">>, "buffer")
  @@ Rows("controlleraccount", {"clear_last_error", "disconnect"},
          <<"handle">>, "void")
  @@ Rows("controlleraccount", {"execute"},
          <<"handle">> \o Buffers(1), "buffer")
  @@ Rows("controlleraccount", {"signup"},
          <<"handle">> \o Buffers(3), "void")
  @@ Rows("controlleraccount", {"switch_chain"},
          <<"handle">> \o Buffers(1), "void")
  @@ Rows("controlleraccount", {"transfer"},
          <<"handle">> \o Buffers(2), "buffer")

GlueOwner ==
  Rows("owner", {"clone"}, <<"handle">>, "handle")
  @@ Rows("owner", {"free"}, <<"handle">>, "void")
  @@ Rows("owner", {"new"}, Buffers(1), "handle")

GlueSessionAccount ==
  Rows("sessionaccount", {"clone"}, <<"handle">>, "handle")
  @@ Rows("sessionaccount", {"free"}, <<"handle">>, "void")
  @@ Rows("sessionaccount", {"create_from_subscribe"}, Buffers(4), "handle")
  @@ Rows("sessionaccount", {"new"}, Buffers(6) \o <<"u64">>, "handle")
  @@ Rows("sessionaccount",
          {"address", "app_id", "chain_id", "owner_guid", "session_id",
           "username"}, <<"handle">>, "buffer")
  @@ Rows("sessionaccount", {"execute", "execute_from_outside"},
          <<"handle">> \o Buffers(1), "buffer")
  @@ Rows("sessionaccount", {"expires_at"}, <<"handle">>, "u64")
  @@ Rows("sessionaccount", {"is_expired", "is_revoked"}, <<"handle">>, "i8")

GlueFunctions ==
  Rows("func", {"controller_has_storage", "validate_felt"}, Buffers(1), "i8")
  @@ Rows("func", {"create_session_registration_url"}, Buffers(4), "buffer")
  @@ Rows("func", {"create_session_registration_url_with_urls"},
          Buffers(6), "buffer")
  @@ Rows("func", {"get_controller_class_hash", "get_public_key",
                   "signer_to_guid"}, Buffers(1), "buffer")

\* A handle goes in, the host object that will free it comes out.
GlueBless ==
  [f \in {"controlleraccount", "owner", "sessionaccount"} \X {"bless"} |->
     [takes |-> <<"handle">>, gives |-> "object"]]

GlueChecksumsOfMethods ==
  Of("func",
     {"controller_has_storage", "create_session_registration_url",
      "create_session_registration_url_with_urls",
      "get_controller_class_hash", "get_public_key", "signer_to_guid",
      "validate_felt"})
  \cup Of("controlleraccount",
     {"address", "app_id", "chain_id", "clear_last_error",
      "delegate_account", "disconnect", "error_message", "execute", "signup",
      "switch_chain", "transfer", "username"})

GlueChecksumsOfSessions ==
  Of("sessionaccount",
     {"address", "app_id", "chain_id", "execute", "execute_from_outside",
      "expires_at", "is_expired", "is_revoked", "owner_guid", "session_id",
      "username", "create_from_subscribe", "new"})
  \cup Of("controlleraccount", {"from_storage", "new", "new_headless"})
  \cup Of("owner", {"new"})

Glue ==
  GlueStrings @@ GlueControllerConstructors @@ GlueControllerMethods
    @@ GlueOwner @@ GlueSessionAccount @@ GlueFunctions @@ GlueBless

GlueChecksums == GlueChecksumsOfMethods \cup GlueChecksumsOfSessions

-----------------------------------------------------------------------------
\* Called: "takes" is what the lower functions of controller.ts make of the
\* arguments, in the order they are evaluated.
CalledControllerAccount ==
  Rows("controlleraccount", {"new"},
       Buffers(4) \o <<"handle">> \o Buffers(2), "handle")
  @@ Rows("controlleraccount", {"new_headless"},
          Buffers(4) \o <<"handle">> \o Buffers(1), "handle")
  @@ Rows("controlleraccount", {"from_storage"}, Buffers(1), "handle")
  @@ Rows("controlleraccount",
          {"address", "app_id", "chain_id", "delegate_account",
           "error_message", "username"}, <<"handle">>, "buffer")
  @@ Rows("controlleraccount", {"clear_last_error", "disconnect"},
          <<"handle">>, "void")
  @@ Rows("controlleraccount", {"execute"},
          <<"handle">> \o Buffers(1), "buffer")
  @@ Rows("controlleraccount", {"signup"},
          <<"handle">> \o Buffers(3), "void")
  @@ Rows("controlleraccount", {"switch_chain"},
          <<"handle">> \o Buffers(1), "void")
  @@ Rows("controlleraccount", {"transfer"},
          <<"handle">> \o Buffers(2), "buffer")

CalledOwner == Rows("owner", {"new"}, Buffers(1), "handle")

CalledSessionAccount ==
  Rows("sessionaccount", {"new"}, Buffers(6) \o <<"u64">>, "handle")
  @@ Rows("sessionaccount", {"create_from_subscribe"}, Buffers(4), "handle")
  @@ Rows("sessionaccount",
          {"address", "app_id", "chain_id", "owner_guid", "session_id",
           "username"}, <<"handle">>, "buffer")
  @@ Rows("sessionaccount", {"execute", "execute_from_outside"},
          <<"handle">> \o Buffers(1), "buffer")
  @@ Rows("sessionaccount", {"expires_at"}, <<"handle">>, "u64")
  @@ Rows("sessionaccount", {"is_expired", "is_revoked"}, <<"handle">>, "i8")

CalledFunctions ==
  Rows("func", {"controller_has_storage", "validate_felt"}, Buffers(1), "i8")
  @@ Rows("func", {"create_session_registration_url"}, Buffers(4), "buffer")
  @@ Rows("func", {"create_session_registration_url_with_urls"},
          Buffers(6), "buffer")
  @@ Rows("func", {"get_controller_class_hash", "get_public_key",
                   "signer_to_guid"}, Buffers(1), "buffer")

Called ==
  CalledControllerAccount @@ CalledOwner @@ CalledSessionAccount
    @@ CalledFunctions

\* What the converter of strings calls.
CalledStrings ==
  Of("string", {"to_byte_length", "to_arraybuffer", "from_arraybuffer"})

\* The checksums that initialize() compares with those of the library.
CalledChecksums ==
  Of("func",
     {"controller_has_storage", "create_session_registration_url",
      "create_session_registration_url_with_urls",
      "get_controller_class_hash", "get_public_key", "signer_to_guid",
      "validate_felt"})
  \cup Of("controlleraccount",
     {"address", "app_id", "chain_id", "clear_last_error",
      "delegate_account", "disconnect", "error_message", "execute", "signup",
      "switch_chain", "transfer", "username", "from_storage", "new",
      "new_headless"})
  \cup Of("owner", {"new"})
  \cup Of("sessionaccount",
     {"address", "app_id", "chain_id", "execute", "execute_from_outside",
      "expires_at", "is_expired", "is_revoked", "owner_guid", "session_id",
      "username", "create_from_subscribe", "new"})
=============================================================================
