--------------------------- MODULE MCExtractPublish ---------------------------
(* Model-checking instances of ExtractPublish.  Names are interchangeable. *)
EXTENDS ExtractPublish, TLC

Symmetry == Permutations(Top) \cup Permutations(Kids)

===============================================================================
