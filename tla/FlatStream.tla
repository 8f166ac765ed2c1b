------------------------------ MODULE FlatStream ------------------------------
(***************************************************************************)
(* What a split archive promises the decoders that read it: one stream of  *)
(* flatTotal bytes.  Byte i of it is the number i.  A read returns the     *)
(* bytes that follow the position, as many as it likes, and moves the      *)
(* position behind them; a seek puts it anywhere in the stream.            *)
(***************************************************************************)
EXTENDS Naturals, Sequences

VARIABLES
  flatTotal,  \* bytes of the stream
  flatPos,    \* where the next read begins
  flatRet     \* what the last read returned

FlatInit == flatTotal \in Nat /\ flatPos \in 0 .. flatTotal /\ flatRet = <<>>

FlatRead ==
  \E n \in 0 .. flatTotal - flatPos :
    /\ flatRet' = [i \in 1 .. n |-> flatPos + i]
    /\ flatPos' = flatPos + n

FlatSeek == flatPos' \in 0 .. flatTotal /\ flatRet' = <<>>

FlatNext == (FlatRead \/ FlatSeek) /\ UNCHANGED flatTotal

FlatSpec == FlatInit /\ [][FlatNext]_<<flatTotal, flatPos, flatRet>>
===============================================================================
