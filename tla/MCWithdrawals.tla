----------------------------- MODULE MCWithdrawals -----------------------------
(***************************************************************************)
(* Small instances of Withdrawals for TLC.                                 *)
(***************************************************************************)
EXTENDS WithdrawalsInv, TLC

\* Both wallets are up.
FullBoot == {[cashu |-> TRUE, onchain |-> TRUE]}
\* A start may also find the on-chain wallet unavailable.
WalletBoots == FullBoot \cup {[cashu |-> TRUE, onchain |-> FALSE]}
\* Any combination of wallets.
AllBoots == [cashu : BOOLEAN, onchain : BOOLEAN]

\* Withdrawals, tokens, operators and callbacks are interchangeable.
Interchangeable ==
    Permutations(Ids) \cup Permutations(Tokens) \cup Permutations(Operators)
        \cup Permutations(Callbacks)
================================================================================
