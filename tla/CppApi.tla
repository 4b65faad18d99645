------------------------------- MODULE CppApi -------------------------------
(***************************************************************************)
(* The functions of bindings/cpp/controller.cpp that call into the Rust    *)
(* library, as data: for each, the object it works on, whether it lowers   *)
(* arguments into buffers, what it gets back, and whether it hands         *)
(* rust_call the lift of ControllerError (or nullptr).                     *)
(***************************************************************************)
EXTENDS TLC

\* A row for each of the names.  "uses" is the class of the object whose
\* pointer is cloned for the call, "method" says that it is the receiver.
Rows(names, method, uses, buffers, gives, throws) ==
  [f \in names |-> [method |-> method, uses |-> uses, buffers |-> buffers,
                    gives |-> gives, throws |-> throws]]

ControllerConstructors ==
  Rows({"Controller.init", "Controller.new_headless"},
       FALSE, "Owner", TRUE, "Controller", TRUE)
  @@ Rows({"Controller.from_storage"},
          FALSE, "nothing", TRUE, "Controller", TRUE)

ControllerMethods ==
  Rows({"Controller.address", "Controller.app_id", "Controller.chain_id",
        "Controller.delegate_account", "Controller.error_message",
        "Controller.username"},
       TRUE, "Controller", FALSE, "buffer", TRUE)
  @@ Rows({"Controller.execute", "Controller.transfer"},
          TRUE, "Controller", TRUE, "buffer", TRUE)
  @@ Rows({"Controller.signup", "Controller.switch_chain"},
          TRUE, "Controller", TRUE, "void", TRUE)
  @@ Rows({"Controller.disconnect"},
          TRUE, "Controller", FALSE, "void", TRUE)
  @@ Rows({"Controller.clear_last_error"},
          TRUE, "Controller", FALSE, "void", FALSE)

OwnerConstructor ==
  Rows({"Owner.init"}, FALSE, "nothing", TRUE, "Owner", TRUE)

SessionAccountFunctions ==
  Rows({"SessionAccount.init", "SessionAccount.create_from_subscribe"},
       FALSE, "nothing", TRUE, "SessionAccount", TRUE)
  @@ Rows({"SessionAccount.execute", "SessionAccount.execute_from_outside"},
          TRUE, "SessionAccount", TRUE, "buffer", TRUE)

FreeFunctions ==
  Rows({"controller_has_storage", "validate_felt"},
       FALSE, "nothing", TRUE, "scalar", TRUE)
  @@ Rows({"get_controller_class_hash", "get_public_key", "signer_to_guid"},
          FALSE, "nothing", TRUE, "buffer", TRUE)

\* Everything a program can call.
AllFunctions ==
  ControllerConstructors @@ ControllerMethods @@ OwnerConstructor
    @@ SessionAccountFunctions @@ FreeFunctions

\* Mutant: a function added since, without its checksum.
ChecksumOfOlderApi ==
  DOMAIN AllFunctions \ {"validate_felt"}

\* The functions whose checksum ensure_initialized compares with the one of
\* the library.
ChecksumOf ==
  {"controller_has_storage", "get_controller_class_hash", "get_public_key",
   "signer_to_guid", "validate_felt",
   "Controller.address", "Controller.app_id", "Controller.chain_id",
   "Controller.clear_last_error", "Controller.delegate_account",
   "Controller.disconnect", "Controller.error_message",
   "Controller.execute", "Controller.signup", "Controller.switch_chain",
   "Controller.transfer", "Controller.username",
   "SessionAccount.execute", "SessionAccount.execute_from_outside",
   "Controller.from_storage", "Controller.init", "Controller.new_headless",
   "Owner.init", "SessionAccount.create_from_subscribe",
   "SessionAccount.init"}
=============================================================================
