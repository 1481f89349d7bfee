----------------------------- MODULE TokenExchange -----------------------------
(***************************************************************************)
(* What the conversion of a foreign token promises about money, without    *)
(* proofs, quotes, operations or attempts: the token is given up once, it  *)
(* buys canonical ecash once and at a bounded loss, what it bought arrives *)
(* once and in full, and one payout is made of it.  Whatever fails in      *)
(* between, the token stays where it got to: nothing is bought twice.      *)
(***************************************************************************)
EXTENDS Naturals

CONSTANTS
    Tokens,
    LossDivisor     \* the part of a token that may be lost: 20 for a twentieth

VARIABLES
    worth, asked,   \* value of the token, and of the payout asked for
    taken,          \* tokens the foreign mint has spent
    bought,         \* canonical ecash paid for with the token
    held,           \* of that, what the canonical wallet holds
    paid            \* the payout

account == <<worth, asked, taken, bought, held, paid>>

Init ==
    /\ worth \in [Tokens -> Nat \ {0}] /\ asked \in [Tokens -> Nat \ {0}]
    /\ taken = {}
    /\ bought = [t \in Tokens |-> 0]
    /\ held = [t \in Tokens |-> 0]
    /\ paid = [t \in Tokens |-> 0]

Give(t) ==
    /\ t \notin taken /\ taken' = taken \cup {t}
    /\ UNCHANGED <<worth, asked, bought, held, paid>>

Buy(t, amount) ==
    /\ t \in taken /\ bought[t] = 0
    /\ 0 < amount /\ amount <= worth[t]
    /\ worth[t] - amount <= worth[t] \div LossDivisor
    /\ bought' = [bought EXCEPT ![t] = amount]
    /\ UNCHANGED <<worth, asked, taken, held, paid>>

\* Ecash arrives for one token, or at a start for all that wait for it.
Arrive(ts) ==
    /\ \A t \in ts : bought[t] > 0 /\ held[t] = 0
    /\ held' = [t \in Tokens |-> IF t \in ts THEN bought[t] ELSE held[t]]
    /\ UNCHANGED <<worth, asked, taken, bought, paid>>

\* What was asked for, or everything there is: less only if the whole token
\* was asked for, so that the customer bears the loss and no more.
PayOut(t) ==
    /\ held[t] > 0 /\ paid[t] = 0
    /\ held[t] < asked[t] => asked[t] = worth[t]
    /\ paid' = [paid EXCEPT ![t] = IF held[t] < asked[t] THEN held[t] ELSE asked[t]]
    /\ UNCHANGED <<worth, asked, taken, bought, held>>

Next ==
    \/ \E t \in Tokens : Give(t) \/ PayOut(t) \/ \E n \in 1..worth[t] : Buy(t, n)
    \/ \E ts \in SUBSET Tokens : Arrive(ts)

Spec == Init /\ [][Next]_account
================================================================================
