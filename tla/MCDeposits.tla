------------------------------- MODULE MCDeposits ------------------------------
(***************************************************************************)
(* Small instances of Deposits for TLC.                                    *)
(***************************************************************************)
EXTENDS DepositsInv, TLC

\* Deposits, operators and pickup requests are interchangeable.
Interchangeable ==
    Permutations(Ids) \cup Permutations(Operators) \cup Permutations(Pickups)
================================================================================
