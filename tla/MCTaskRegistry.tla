---------------------------- MODULE MCTaskRegistry ----------------------------
(* Model-checking instances of TaskRegistry: each .cfg picks the kinds of  *)
(* task its clients create and the properties that are about them.         *)
EXTENDS TaskRegistry

===============================================================================
