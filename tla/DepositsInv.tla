------------------------------ MODULE DepositsInv ------------------------------
(***************************************************************************)
(* The inductive invariant behind the safety properties of Deposits: what  *)
(* a row's state says of its token, and what a stale list still says of    *)
(* the row.  The watcher and the worker write by id only; what keeps them  *)
(* apart is that no row is in the hands of both.                           *)
(***************************************************************************)
EXTENDS Deposits

Open == {"pending", "partial", "confirming"}

\* In the watcher's, the mint loop's and the delivery loop's hands.
Watched(d) ==
    (cpc \in {"scan", "write"} /\ d \in ctodo) \/ (cpc = "write" /\ d = ccur)
ToMint(d) ==
    (wpc \in {"mint", "record"} /\ d \in todo) \/ (wpc = "record" /\ d = wcur)
ToDeliver(d) == wpc = "deliver" /\ d \in todo

\* The row has never had a token, or has one nobody claimed.
Blank(d)   == dep[d].token = 0 /\ claims[d] = 0 /\ dep[d].pickup
Unclaimed(d) == dep[d].token > 0 /\ claims[d] = 0 /\ dep[d].pickup

\* Each loop knows the row it works on and has taken it off its list.
ControlInv ==
    /\ wpc = "record" => wcur \in Ids \ todo /\ wout \in {"minted", "error"}
    /\ cpc = "write" => ccur \in Ids \ ctodo /\ obs.covering <= deep[ccur]
    /\ \A d \in Ids : tip[d] <= deep[d] /\ deep[d] <= paid[d]
    /\ \A o \in Operators : op[o] # NoAction =>
         op[o].act \in Actions /\ op[o].id \in Ids /\ dep[op[o].id].state # "absent"

\* What the state says of the token, and of the bitcoin behind it.
RowInv(d) ==
    /\ dep[d].state = "absent" => dep[d].token = 0 /\ claims[d] = 0
    /\ dep[d].state \in Open \cup {"minting"} => Blank(d) /\ dep[d].amount > 0
    /\ dep[d].state = "minting" => dep[d].amount <= deep[d]
    /\ dep[d].state \in {"delivering", "ready"} => Unclaimed(d)
    /\ claims[d] > 0 => dep[d].token = 0 /\ ~dep[d].pickup
    /\ dep[d].token + claims[d] <= deep[d]

\* What the lists still say: states may have been overridden, money has not.
ListInv(d) ==
    /\ Watched(d) => /\ Blank(d) /\ dep[d].amount > 0
                     /\ dep[d].state \notin {"absent", "minting"}
                     /\ ~ToMint(d)
    /\ ToMint(d) => /\ Blank(d) /\ dep[d].state \notin Open \cup {"absent"}
                    /\ seen[d].amount = dep[d].amount
                    /\ dep[d].amount \in 1..deep[d]
    /\ ToDeliver(d) => /\ Unclaimed(d) /\ seen[d].token > 0
                       /\ dep[d].state \notin {"absent", "ready"}

\* A pickup in flight is the only one that claimed its deposit.
PickupInv ==
    /\ \A p \in Pickups : pk[p].pc # "none" =>
         /\ pk[p].id \in Ids /\ claims[pk[p].id] > 0 /\ served[pk[p].id] = 0
         /\ pk[p].pc # "reply" => announced[pk[p].id] = 0
         /\ \A q \in Pickups \ {p} : pk[q].pc # "none" => pk[q].id # pk[p].id
    /\ \A p \in Pickups : pk[p].pc = "none" => pk[p] = NoPickup
    /\ \A d \in Ids : served[d] <= 1 /\ announced[d] <= 1
    /\ \A d \in Ids : served[d] + announced[d] > 0 => claims[d] > 0

\* What the views return, or still could, was fulfilled by hand.
ViewInv ==
    \A d \in Ids : \/ d \in shown
                   \/ dep[d].state = "fulfilled" /\ dep[d].token > 0
                   => d \in byHand

\* The inductive invariant.
IndInv ==
    /\ TypeOK /\ ControlInv /\ PickupInv /\ EcashAccounted /\ ViewInv
    /\ \A d \in Ids : RowInv(d) /\ ListInv(d)
================================================================================
