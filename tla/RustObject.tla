----------------------------- MODULE RustObject -----------------------------
(***************************************************************************)
(* What a foreign language binding owes the objects of the Rust library,   *)
(* whichever language it is for: a call enters only an object that lives,  *)
(* and an object is dropped once, when no call is inside it.               *)
(***************************************************************************)
CONSTANTS
  Object,  \* the objects a program may make
  Caller   \* the threads that may be in a call

VARIABLES
  life,    \* of each object: absent, alive or dropped
  inside   \* the objects the call of each caller works on

vars == <<life, inside>>

TypeOK ==
  /\ life \in [Object -> {"absent", "alive", "dropped"}]
  /\ inside \in [Caller -> SUBSET Object]

Init ==
  /\ life = [o \in Object |-> "absent"]
  /\ inside = [c \in Caller |-> {}]

\* A call starts to work on the living objects it was given.
Enter(c, given) ==
  /\ inside[c] = {}
  /\ \A o \in given : life[o] = "alive"
  /\ inside' = [inside EXCEPT ![c] = given]
  /\ UNCHANGED life

\* A call ends; a constructor leaves an object that was not there before.
Leave(c, made) ==
  /\ \A o \in made : life[o] = "absent"
  /\ inside' = [inside EXCEPT ![c] = {}]
  /\ life' = [o \in Object |-> IF o \in made THEN "alive" ELSE life[o]]

\* The last reference to an object goes, and the object with it.
Drop(o) ==
  /\ life[o] = "alive"
  /\ \A c \in Caller : o \notin inside[c]
  /\ life' = [life EXCEPT ![o] = "dropped"]
  /\ UNCHANGED inside

Next ==
  \/ \E c \in Caller, os \in SUBSET Object : Enter(c, os) \/ Leave(c, os)
  \/ \E o \in Object : Drop(o)

Spec == Init /\ [][Next]_vars
=============================================================================
