----------------------------- MODULE PayoutLedger ------------------------------
(***************************************************************************)
(* What the withdrawal side promises about money, without rows, workers or *)
(* operators: a withdrawal is charged before it is paid, and it is paid at *)
(* most as often as it is allowed to be.  One payment is allowed from the  *)
(* start; only an event that the operators can see, an override or a       *)
(* payout whose record was lost, allows another.                           *)
(***************************************************************************)
EXTENDS Naturals

CONSTANT Ids

VARIABLES
    charged,    \* withdrawals whose ecash or invoice is ours for good
    paid,       \* on-chain payments made for the withdrawal
    allowed     \* how many the withdrawal may ever get

ledger == <<charged, paid, allowed>>

Init ==
    /\ charged = {}
    /\ paid = [w \in Ids |-> 0]
    /\ allowed = [w \in Ids |-> 1]

Charge(w) ==
    /\ w \notin charged
    /\ charged' = charged \cup {w} /\ UNCHANGED <<paid, allowed>>

Pay(w) ==
    /\ w \in charged /\ paid[w] < allowed[w]
    /\ paid' = [paid EXCEPT ![w] = @ + 1] /\ UNCHANGED <<charged, allowed>>

\* A payment nobody recorded: it happened, and it does not count.
PayUnrecorded(w) ==
    /\ w \in charged /\ paid[w] < allowed[w]
    /\ paid' = [paid EXCEPT ![w] = @ + 1]
    /\ allowed' = [allowed EXCEPT ![w] = @ + 1] /\ UNCHANGED charged

\* An operator requeues, or the record of a payment is lost.
Allow(w) ==
    /\ allowed' = [allowed EXCEPT ![w] = @ + 1] /\ UNCHANGED <<charged, paid>>

Next == \E w \in Ids : Charge(w) \/ Pay(w) \/ PayUnrecorded(w) \/ Allow(w)

Spec == Init /\ [][Next]_ledger

\* No payment is made that is not allowed.
NeverOverpaid == \A w \in Ids : paid[w] <= allowed[w]
================================================================================
