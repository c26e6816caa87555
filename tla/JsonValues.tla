------------------------------ MODULE JsonValues ------------------------------
(***************************************************************************)
(* What stands for no value, in a JSON document and elsewhere.             *)
(***************************************************************************)
CONSTANTS
  Absent,  \* a key that a JSON object does not have, or a null that reads as such; an option not given; no file
  Bad      \* a value of a JSON type the reader refuses; what cannot be read

Default(value, otherwise) == IF value = Absent THEN otherwise ELSE value
===============================================================================
