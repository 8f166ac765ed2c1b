----------------------------- MODULE MCCoderChain -----------------------------
(* Folders for the runs of CoderChain alone; MCParts has the passing ones. *)
EXTENDS CoderChain

\* A BCJ2 folder whose CALL stream is empty although MAIN begins with a call.
ShortCall ==
  { [kind |-> <<"pack", "pack", "pack", "pack", "bcj2">>, size |-> <<4, 0, 1, 2, 6>>,
     ins |-> << <<>>, <<>>, <<>>, <<>>, <<1, 2, 3, 4>> >>] }
===============================================================================
