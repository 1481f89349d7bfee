----------------------------- MODULE DepositEscrow -----------------------------
(***************************************************************************)
(* What the deposit side promises about money, without rows, workers or    *)
(* operators: ecash is issued against confirmed bitcoin only, a deposit    *)
(* has one live token at a time, it is handed over once, and nothing is    *)
(* issued after that.  A token may be wasted (issued, and its record       *)
(* lost); then the deposit may be issued another.                          *)
(***************************************************************************)
EXTENDS Naturals

CONSTANT Ids

VARIABLES
    funded,     \* confirmed sats on the deposit's address
    live,       \* value of the token issued and not handed over yet
    handed,     \* value of the token handed to the customer
    wasted      \* value of tokens issued and lost

escrow == <<funded, live, handed, wasted>>

Init ==
    /\ funded = [d \in Ids |-> 0] /\ live = [d \in Ids |-> 0]
    /\ handed = [d \in Ids |-> 0] /\ wasted = [d \in Ids |-> 0]

Fund(d) ==
    /\ \E sats \in 1..funded'[d] : funded' = [funded EXCEPT ![d] = @ + sats]
    /\ UNCHANGED <<live, handed, wasted>>

Issue(d) ==
    /\ live[d] = 0 /\ handed[d] = 0
    /\ \E sats \in 1..funded[d] : live' = [live EXCEPT ![d] = sats]
    /\ UNCHANGED <<funded, handed, wasted>>

Waste(d) ==
    /\ live[d] > 0
    /\ wasted' = [wasted EXCEPT ![d] = @ + live[d]]
    /\ live' = [live EXCEPT ![d] = 0] /\ UNCHANGED <<funded, handed>>

HandOver(d) ==
    /\ live[d] > 0
    /\ handed' = [handed EXCEPT ![d] = live[d]]
    /\ live' = [live EXCEPT ![d] = 0] /\ UNCHANGED <<funded, wasted>>

Next == \E d \in Ids : Fund(d) \/ Issue(d) \/ Waste(d) \/ HandOver(d)

Spec == Init /\ [][Next]_escrow

\* What the customer got was covered by confirmed bitcoin.
NeverOverissued == \A d \in Ids : live[d] + handed[d] <= funded[d]
================================================================================
