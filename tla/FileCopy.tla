------------------------------- MODULE FileCopy -------------------------------
(***************************************************************************)
(* What copy_file() of src/src/filemgr.c promises its callers (copy_path,  *)
(* copy_dir and the move fallback): the bytes go to a temporary file next  *)
(* to the target, and the target either keeps its old contents or is       *)
(* replaced in one step by the whole new file.  The temporary file is gone *)
(* by the time the call returns, and the call does return.                 *)
(***************************************************************************)

VARIABLES
  dst,      \* the target: "old" before the copy, "new" once fully replaced
  temp,     \* does the temporary file exist?
  result    \* "none" while the call runs, then what it returns

vars == <<dst, temp, result>>

Init ==
  /\ dst = "old"
  /\ temp = FALSE
  /\ result = "none"

OpenTemp ==
  /\ result = "none"
  /\ ~temp
  /\ temp' = TRUE
  /\ UNCHANGED <<dst, result>>

(* rename(temp, dst): the one step that touches the target. *)
Replace ==
  /\ result = "none"
  /\ temp
  /\ dst' = "new"
  /\ temp' = FALSE
  /\ result' = "copied"

GiveUp ==
  /\ result = "none"
  /\ temp' = FALSE
  /\ result' = "failed"
  /\ UNCHANGED dst

Next == OpenTemp \/ Replace \/ GiveUp

Spec == Init /\ [][Next]_vars /\ WF_vars(Next)

===============================================================================
