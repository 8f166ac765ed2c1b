------------------------------ MODULE MCTreeTask ------------------------------
(* Trees for the run of TreeTask alone; the passing ones are in MCParts.   *)
EXTENDS TreeTask

TwoRoots == { <<"s">>, <<"d">> }
FewPaths ==
  TwoRoots \union { r \o <<"a">> : r \in TwoRoots } \union { r \o <<"a", "b">> : r \in TwoRoots }

\* A folder with one file, and an empty destination.
OneFolder ==
  { [p \in FewPaths |-> IF Len(p) = 1 \/ p = <<"s", "a">> THEN "dir"
                        ELSE IF p = <<"s", "a", "b">> THEN "f" ELSE "none"] }

\* Moved to another device.
MoveAway ==
  { [op |-> "move", srcs |-> << <<"s", "a">> >>, dst |-> <<"d">>, overwrite |-> FALSE,
     oneDevice |-> FALSE] }
===============================================================================
