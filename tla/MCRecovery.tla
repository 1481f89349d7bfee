------------------------------- MODULE MCRecovery ------------------------------
(***************************************************************************)
(* A small instance of M5Recovery, and so of MintSwap, for TLC.  With a    *)
(* face of 12, an input fee of 1 and a third as the limit of the loss:     *)
(*   a reserve of 1 lets a conversion be paid after one reduction, 3 makes *)
(*   it lose too much, 20 is beyond everything; in the recovery of two     *)
(*   tokens 3 leaves change worth a second round;                          *)
(*   a fee ceiling of 1 is refused before a payment, 5 is enough.          *)
(***************************************************************************)
EXTENDS M5Recovery

QuotedReserves == {1, 3, 20}
Ceilings == {1, 5}
================================================================================
