-------------------------------- MODULE Deposits -------------------------------
(***************************************************************************)
(* The deposit side of the shuestand backend: bitcoin comes in on a fresh  *)
(* address, one ecash token goes out.                                      *)
(*                                                                         *)
(* The actors are the HTTP handlers (create, pickup, operator override),   *)
(* the confirmation watcher and the expiry sweep (main.rs), the deposit    *)
(* worker (workers/deposit.rs) and the transaction notifier                *)
(* (transactions.rs).  The database statements are the atomic steps; what  *)
(* an actor keeps between two of them may be stale.                        *)
(*                                                                         *)
(* Amounts are small numbers.  The transactions paying an address are      *)
(* abstracted to two sums: all of them, and those deep enough.  Float      *)
(* caps, rate limits and sessions only refuse a deposit and are left out.  *)
(***************************************************************************)
EXTENDS Naturals

CONSTANTS
    Ids,            \* deposit ids
    Operators,      \* concurrent operator requests
    Pickups,        \* concurrent pickup requests
    Amounts,        \* amounts customers ask for
    MaxSats,        \* bound: what is ever paid to one address
    MaxAttempts,    \* DEPOSIT_WORKER_MAX_ATTEMPTS, at least 1 in the code
    MaxFaults,      \* bound: failing database, mint or chain calls
    MaxRestarts,    \* bound: process crashes
    NoId            \* absent value

ASSUME AmountsAssumption == Amounts \subseteq Nat \ {0} /\ MaxSats \in Nat
ASSUME AttemptsAssumption == MaxAttempts \in Nat \ {0}
ASSUME BoundsAssumption == MaxFaults \in Nat /\ MaxRestarts \in Nat
ASSUME NullAssumption == NoId \notin Ids

VARIABLES
    \* the database
    dep,            \* the deposits table
    claims,         \* deposit_claims: value of the token claimed, 0 if no row
    announced,      \* counter increments (and webhooks) emitted per deposit
    \* the chain, the clock, the mint and the customer
    paid,           \* sats on the deposit's address, in a block or not
    deep,           \* those in transactions with the target confirmations
    old,            \* deposits created before the expiry cutoff
    minted,         \* sats of ecash the cashu wallet issued for the deposit
    served,         \* pickup responses with a token
    shown,          \* deposits whose token a view of the row has returned
    \* the deposit worker
    wpc, wcur,      \* where it is and the deposit it works on
    todo, seen,     \* rest of the list it fetched, and what it read of it
    wout,           \* outcome of the current mint_token
    \* the confirmation watcher
    cpc, ccur, ctodo,
    tip,            \* what was deep at the tip the pass started with
    obs,            \* what it computed of the current deposit
    \* HTTP requests in flight
    pk, op,
    \* the process
    halted,         \* operation mode is Halt
    \* accounting of the model
    lost,           \* sats of ecash issued and never written to the row
    byHand,         \* history: deposits an operator marked fulfilled
    faults, restarts

dbVars     == <<dep, claims, announced>>
chainVars  == <<paid, deep, old>>
ecashVars  == <<minted, served, shown, lost, byHand>>
workerVars == <<wpc, wcur, todo, seen, wout>>
watchVars  == <<cpc, ccur, ctodo, tip, obs>>
httpVars   == <<pk, op>>
vars == <<dbVars, chainVars, ecashVars, workerVars, watchVars, httpVars, halted,
          faults, restarts>>

States == {"absent", "pending", "partial", "confirming", "minting",
           "delivering", "ready", "fulfilled", "failed", "archived"}
\* token is the value of minted_token, 0 when NULL; pickup says whether
\* pickup_token is still the one the customer was given.
Dep == [state : States, amount : Nat, token : Nat, mints : Nat,
        deliveries : Nat, counted : BOOLEAN, pickup : BOOLEAN]
Seen == [amount : Nat, token : Nat, mints : Nat, deliveries : Nat]
NoDep == [state |-> "absent", amount |-> 0, token |-> 0, mints |-> 0,
          deliveries |-> 0, counted |-> FALSE, pickup |-> FALSE]
NotSeen == [amount |-> 0, token |-> 0, mints |-> 0, deliveries |-> 0]
NoObs == [total |-> 0, covering |-> 0]
NoPickup == [pc |-> "none", id |-> NoId]
NoAction == [act |-> "none", id |-> NoId]
Actions == {"MarkFulfilled", "MarkFailed", "Archive"}

InState(states) == {d \in Ids : dep[d].state \in states}

Init ==
    /\ dep = [d \in Ids |-> NoDep]
    /\ claims = [d \in Ids |-> 0] /\ announced = [d \in Ids |-> 0]
    /\ paid = [d \in Ids |-> 0] /\ deep = [d \in Ids |-> 0] /\ old = {}
    /\ minted = [d \in Ids |-> 0] /\ served = [d \in Ids |-> 0]
    /\ shown = {} /\ lost = [d \in Ids |-> 0] /\ byHand = {}
    /\ wpc = "idle" /\ wcur = NoId /\ todo = {} /\ wout = "none"
    /\ seen = [d \in Ids |-> NotSeen]
    /\ cpc = "idle" /\ ccur = NoId /\ ctodo = {}
    /\ tip = [d \in Ids |-> 0] /\ obs = NoObs
    /\ pk = [p \in Pickups |-> NoPickup]
    /\ op = [o \in Operators |-> NoAction]
    /\ halted = FALSE /\ faults = 0 /\ restarts = 0

Fault == faults < MaxFaults /\ faults' = faults + 1
NoFault == faults' = faults

--------------------------------------------------------------------------------
(***************************************************************************)
(* The customer, the chain and the clock.                                  *)
(***************************************************************************)

\* create_deposit: the mode was read before, so the insert is not tied to it.
CreateDeposit(d, amount) ==
    /\ dep[d].state = "absent"
    /\ dep' = [dep EXCEPT ![d] = [NoDep EXCEPT !.state = "pending",
                                    !.amount = amount, !.pickup = TRUE]]
    /\ UNCHANGED <<claims, announced, chainVars, ecashVars, workerVars,
                   watchVars, httpVars, halted, faults, restarts>>

\* A transaction pays the address; the customer may do so at any time.
Pay(d, sats) ==
    /\ dep[d].state # "absent" /\ paid[d] + sats <= MaxSats
    /\ paid' = [paid EXCEPT ![d] = @ + sats]
    /\ UNCHANGED <<dbVars, deep, old, ecashVars, workerVars, watchVars,
                   httpVars, halted, faults, restarts>>

\* A transaction that is not deep yet is replaced or reorganised away.
Drop(d, sats) ==
    /\ sats <= paid[d] /\ deep[d] <= paid[d] - sats
    /\ paid' = [paid EXCEPT ![d] = @ - sats]
    /\ UNCHANGED <<dbVars, deep, old, ecashVars, workerVars, watchVars,
                   httpVars, halted, faults, restarts>>

\* Blocks bury another transaction under the target confirmations.
Bury(d, sats) ==
    /\ deep[d] + sats <= paid[d]
    /\ deep' = [deep EXCEPT ![d] = @ + sats]
    /\ UNCHANGED <<dbVars, paid, old, ecashVars, workerVars, watchVars,
                   httpVars, halted, faults, restarts>>

Age(d) ==
    /\ dep[d].state # "absent" /\ d \notin old
    /\ old' = old \cup {d}
    /\ UNCHANGED <<dbVars, paid, deep, ecashVars, workerVars, watchVars,
                   httpVars, halted, faults, restarts>>

--------------------------------------------------------------------------------
(***************************************************************************)
(* pickup_deposit: one transaction claims the token, then the notifier     *)
(* counts the deposit, then the response leaves.                           *)
(***************************************************************************)

\* claim_deposit_pickup's conditions, all read under the row lock.
Claimable(d) ==
    /\ dep[d].pickup /\ dep[d].token > 0 /\ dep[d].state = "ready"
    /\ claims[d] = 0

\* Mutated forms of Claimed: the state or the token stays in the row.
ClaimedStaysReady(r) == [r EXCEPT !.token = 0, !.pickup = FALSE]
ClaimedKeepsToken(r) == [r EXCEPT !.state = "fulfilled", !.pickup = FALSE]

\* The row after a claim.
Claimed(r) ==
    [r EXCEPT !.state = "fulfilled", !.token = 0, !.pickup = FALSE]

\* Mutated form of ClaimPickup: the deposit is fulfilled without a claim.
PickupWithoutClaim(p, d) ==
    /\ pk[p] = NoPickup /\ Claimable(d)
    /\ dep' = [dep EXCEPT ![d].state = "fulfilled"]
    /\ pk' = [pk EXCEPT ![p] = [pc |-> "notify", id |-> d]]
    /\ UNCHANGED <<claims, announced, chainVars, ecashVars, workerVars,
                   watchVars, op, halted, faults, restarts>>

ClaimPickup(p, d) ==
    /\ pk[p] = NoPickup /\ Claimable(d)
    /\ claims' = [claims EXCEPT ![d] = dep[d].token]
    /\ dep' = [dep EXCEPT ![d] = Claimed(@)]
    /\ pk' = [pk EXCEPT ![p] = [pc |-> "notify", id |-> d]]
    /\ UNCHANGED <<announced, chainVars, ecashVars, workerVars, watchVars, op,
                   halted, faults, restarts>>

\* mark_deposit_transaction_counted: the first caller goes on to count; an
\* error is logged and the response is sent all the same.
NextOfPickup(counted) == IF counted THEN "reply" ELSE "count"

PickupNotify(p) ==
    /\ pk[p].pc = "notify"
    /\ LET d == pk[p].id IN
         \/ /\ NoFault
            /\ dep' = [dep EXCEPT ![d].counted = TRUE]
            /\ pk' = [pk EXCEPT ![p].pc = NextOfPickup(dep[d].counted)]
         \/ /\ Fault /\ UNCHANGED dep
            /\ pk' = [pk EXCEPT ![p].pc = "reply"]
    /\ UNCHANGED <<claims, announced, chainVars, ecashVars, workerVars,
                   watchVars, op, halted, restarts>>

PickupCount(p) ==
    /\ pk[p].pc = "count"
    /\ \/ NoFault /\ announced' = [announced EXCEPT ![pk[p].id] = @ + 1]
       \/ Fault /\ UNCHANGED announced
    /\ pk' = [pk EXCEPT ![p].pc = "reply"]
    /\ UNCHANGED <<dep, claims, chainVars, ecashVars, workerVars, watchVars, op,
                   halted, restarts>>

PickupReply(p) ==
    /\ pk[p].pc = "reply"
    /\ served' = [served EXCEPT ![pk[p].id] = @ + 1]
    /\ pk' = [pk EXCEPT ![p] = NoPickup]
    /\ UNCHANGED <<dbVars, chainVars, minted, shown, lost, byHand, workerVars,
                   watchVars, op, halted, faults, restarts>>

\* The client goes away: the handler is dropped at the await it is at.
PickupDropped(p) ==
    /\ pk[p] # NoPickup
    /\ pk' = [pk EXCEPT ![p] = NoPickup]
    /\ UNCHANGED <<dbVars, chainVars, ecashVars, workerVars, watchVars, op,
                   halted, faults, restarts>>

\* get_deposit, the views of a session and the operator's lists: map_deposit
\* gives a fulfilled row the token that is still in it, to every reader.
GetDeposit(d) ==
    /\ dep[d].state = "fulfilled" /\ dep[d].token > 0
    /\ shown' = shown \cup {d}
    /\ UNCHANGED <<dbVars, chainVars, minted, served, lost, byHand, workerVars,
                   watchVars, httpVars, halted, faults, restarts>>

--------------------------------------------------------------------------------
(***************************************************************************)
(* operate_deposit: guard on a fetched row, then an unconditional update   *)
(* of the state alone.                                                     *)
(***************************************************************************)

MayOperate(act, state) ==
    CASE act = "MarkFulfilled" -> state \in {"delivering", "ready"}
      [] act = "MarkFailed"    -> state \notin {"fulfilled", "archived"}
      [] act = "Archive"       -> state \in {"failed", "fulfilled"}

OperateFetch(o, d, act) ==
    /\ op[o] = NoAction /\ dep[d].state # "absent"
    /\ MayOperate(act, dep[d].state)
    /\ op' = [op EXCEPT ![o] = [act |-> act, id |-> d]]
    /\ UNCHANGED <<dbVars, chainVars, ecashVars, workerVars, watchVars, pk,
                   halted, faults, restarts>>

\* Mutated form of ManualUpdate: a failed deposit is sent back to the mint.
ManualUpdateRetries(r, act) ==
    [r EXCEPT !.state = CASE act = "MarkFulfilled" -> "fulfilled"
                          [] act = "MarkFailed"    -> "minting"
                          [] act = "Archive"       -> "archived"]

\* manual_update_deposit_state
ManualUpdate(r, act) ==
    [r EXCEPT !.state = CASE act = "MarkFulfilled" -> "fulfilled"
                          [] act = "MarkFailed"    -> "failed"
                          [] act = "Archive"       -> "archived"]

OperateWrite(o) ==
    /\ op[o] # NoAction
    /\ dep' = [dep EXCEPT ![op[o].id] = ManualUpdate(@, op[o].act)]
    /\ op' = [op EXCEPT ![o] = NoAction]
    /\ byHand' = byHand \cup {d \in Ids : op[o] = [act |-> "MarkFulfilled", id |-> d]}
    /\ UNCHANGED <<claims, announced, chainVars, minted, served, shown, lost,
                   workerVars, watchVars, pk, halted, faults, restarts>>

SetHalt ==
    /\ halted' = ~halted
    /\ UNCHANGED <<dbVars, chainVars, ecashVars, workerVars, watchVars,
                   httpVars, faults, restarts>>

\* Mutated form of Stale: a partly paid deposit never expires.
StalePending == InState({"pending"}) \cap old

\* expire_stale_pending_deposits: one statement, in every mode, from its loop
\* and from create_deposit.
Stale == InState({"pending", "partial"}) \cap old

ExpireStale ==
    /\ Stale # {}
    /\ dep' = [d \in Ids |->
                 IF d \in Stale THEN [dep[d] EXCEPT !.state = "failed"] ELSE dep[d]]
    /\ UNCHANGED <<claims, announced, chainVars, ecashVars, workerVars,
                   watchVars, httpVars, halted, faults, restarts>>

--------------------------------------------------------------------------------
(***************************************************************************)
(* process_confirmations.  Only this loop writes amounts, and it handles a *)
(* deposit once per pass, so the amount it listed is the row's amount; the *)
(* state it listed may be stale.                                           *)
(***************************************************************************)

WatchStop ==
    /\ cpc' = "idle" /\ ccur' = NoId /\ ctodo' = {} /\ obs' = NoObs
    /\ tip' = [d \in Ids |-> 0]

\* list_open_deposits, then tip_height: depths are counted from this tip.
WatchList ==
    /\ cpc = "idle" /\ ~halted
    /\ ctodo' = InState({"pending", "partial", "confirming"}) /\ ctodo' # {}
    /\ tip' = [d \in Ids |-> IF d \in ctodo' THEN deep[d] ELSE 0]
    /\ cpc' = "scan" /\ UNCHANGED <<ccur, obs>>
    /\ UNCHANGED <<dbVars, chainVars, ecashVars, workerVars, httpVars, halted,
                   faults, restarts>>

WatchSkip(d) ==
    /\ cpc = "scan" /\ d \in ctodo /\ paid[d] = 0
    /\ ctodo' = ctodo \ {d} /\ UNCHANGED <<cpc, ccur, tip, obs>>
    /\ UNCHANGED <<dbVars, chainVars, ecashVars, workerVars, httpVars, halted,
                   faults, restarts>>

\* matching_txs and the sums over it; a block newer than the tip counts its
\* transactions as one confirmation, which may or may not be the target.
Observe(d) ==
    /\ cpc = "scan" /\ d \in ctodo /\ paid[d] > 0
    /\ \E covering \in tip[d]..deep[d] :
          obs' = [total |-> paid[d], covering |-> covering]
    /\ ctodo' = ctodo \ {d} /\ ccur' = d /\ cpc' = "write" /\ UNCHANGED tip
    /\ UNCHANGED <<dbVars, chainVars, ecashVars, workerVars, httpVars, halted,
                   faults, restarts>>

\* Mutated forms of ChainState: depth is ignored; exact payment is not enough.
ChainStateShallow(amount, o) ==
    IF o.total < amount THEN "partial" ELSE "minting"
ChainStateAbove(amount, o) ==
    IF o.total < amount THEN "partial"
    ELSE IF o.covering > amount THEN "minting" ELSE "confirming"

\* The next state, from what was observed.
ChainState(amount, o) ==
    IF o.total < amount THEN "partial"
    ELSE IF o.covering >= amount THEN "minting" ELSE "confirming"

\* Mutated form of ChainUpdated: an overpaid deposit is minted for all it got.
ChainUpdatedTotal(r, o) ==
    LET next == ChainState(r.amount, o) IN
    [r EXCEPT !.state = next,
              !.amount = IF next = "minting" /\ o.total > @ THEN o.total ELSE @]

\* The row after update_deposit_chain_state, by id only; an overpaid deposit is
\* minted for what is covered.
ChainUpdated(r, o) ==
    LET next == ChainState(r.amount, o) IN
    [r EXCEPT !.state = next,
              !.amount = IF next = "minting" /\ o.covering > @ THEN o.covering ELSE @]

\* The update; it, or the address update that follows it, may fail and end
\* the pass.
WatchWrite ==
    /\ cpc = "write"
    /\ \/ /\ NoFault /\ dep' = [dep EXCEPT ![ccur] = ChainUpdated(@, obs)]
          /\ cpc' = "scan" /\ ccur' = NoId /\ obs' = NoObs
          /\ UNCHANGED <<ctodo, tip>>
       \/ /\ Fault /\ WatchStop
          /\ \/ UNCHANGED dep
             \/ dep' = [dep EXCEPT ![ccur] = ChainUpdated(@, obs)]
    /\ UNCHANGED <<claims, announced, chainVars, ecashVars, workerVars,
                   httpVars, halted, restarts>>

\* The pass ends, at the end of the list or on a failing chain call.
WatchEnd ==
    /\ cpc = "scan" /\ WatchStop
    /\ (ctodo = {} /\ NoFault) \/ (ctodo # {} /\ Fault)
    /\ UNCHANGED <<dbVars, chainVars, ecashVars, workerVars, httpVars, halted,
                   restarts>>

--------------------------------------------------------------------------------
(***************************************************************************)
(* DepositWorker: tick() mints, then makes ready what it minted.           *)
(***************************************************************************)

WorkerStop ==
    /\ wpc' = "idle" /\ wcur' = NoId /\ todo' = {} /\ wout' = "none"
    /\ seen' = [d \in Ids |-> NotSeen]

\* The list of the deposits in a state, as the worker reads it.
ListFor(pc, states) ==
    /\ wpc' = pc /\ wcur' = NoId /\ wout' = "none"
    /\ todo' = InState(states)
    /\ seen' = [d \in Ids |-> IF d \in InState(states)
                  THEN [amount |-> dep[d].amount, token |-> dep[d].token,
                        mints |-> dep[d].mints, deliveries |-> dep[d].deliveries]
                  ELSE NotSeen]

NextItem(pc) ==
    /\ wpc' = pc /\ wcur' = NoId /\ wout' = "none"
    /\ UNCHANGED <<todo, seen>>

StartTick ==
    /\ wpc = "idle" /\ ~halted /\ ListFor("mint", {"minting"})
    /\ UNCHANGED <<dbVars, chainVars, ecashVars, watchVars, httpVars, halted,
                   faults, restarts>>

\* mint_token for the amount listed.
Mint(d) ==
    /\ wpc = "mint" /\ d \in todo
    /\ \/ /\ NoFault /\ wout' = "minted"
          /\ minted' = [minted EXCEPT ![d] = @ + seen[d].amount]
       \/ Fault /\ wout' = "error" /\ UNCHANGED minted
    /\ wcur' = d /\ todo' = todo \ {d} /\ wpc' = "record" /\ UNCHANGED seen
    /\ UNCHANGED <<dbVars, chainVars, served, shown, lost, byHand, watchVars,
                   httpVars, halted, restarts>>

\* Mutated form of MintRecorded: the token is left out of the update.
MintRecordedNoToken(r, result, s) ==
    IF result = "minted"
    THEN [r EXCEPT !.state = "delivering", !.mints = @ + 1]
    ELSE [r EXCEPT !.state = IF s.mints + 1 >= MaxAttempts THEN "failed"
                             ELSE "minting",
                   !.mints = @ + 1]

\* The row after record_mint_success or record_mint_failure, by id only.
MintRecorded(r, result, s) ==
    IF result = "minted"
    THEN [r EXCEPT !.state = "delivering", !.token = s.amount, !.mints = @ + 1]
    ELSE [r EXCEPT !.state = IF s.mints + 1 >= MaxAttempts THEN "failed"
                             ELSE "minting",
                   !.mints = @ + 1]

\* A token was issued for d and is not in the database yet.
InHand(d) == wpc = "record" /\ wout = "minted" /\ wcur = d

\* What of the tokens issued is lost if the worker stops here.
LostNow == [d \in Ids |-> lost[d] + IF InHand(d) THEN seen[d].amount ELSE 0]

RecordMint ==
    /\ wpc = "record"
    /\ \/ /\ NoFault /\ NextItem("mint") /\ UNCHANGED lost
          /\ dep' = [dep EXCEPT ![wcur] = MintRecorded(@, wout, seen[wcur])]
       \/ Fault /\ WorkerStop /\ lost' = LostNow /\ UNCHANGED dep
    /\ UNCHANGED <<claims, announced, chainVars, minted, served, shown, byHand,
                   watchVars, httpVars, halted, restarts>>

MintDone ==
    /\ wpc = "mint" /\ todo = {}
    /\ ListFor("deliver", {"delivering"})
    /\ UNCHANGED <<dbVars, chainVars, ecashVars, watchVars, httpVars, halted,
                   faults, restarts>>

\* record_delivery_success, or record_delivery_failure when the listed row had
\* no token; both by id only.
Delivered(r, s) ==
    [r EXCEPT !.state = IF s.token > 0 THEN "ready"
                        ELSE IF s.deliveries + 1 >= MaxAttempts THEN "failed"
                        ELSE "minting",
              !.deliveries = @ + 1]

Deliver(d) ==
    /\ wpc = "deliver" /\ d \in todo
    /\ \/ /\ NoFault /\ todo' = todo \ {d} /\ UNCHANGED <<wpc, wcur, seen, wout>>
          /\ dep' = [dep EXCEPT ![d] = Delivered(@, seen[d])]
       \/ Fault /\ WorkerStop /\ UNCHANGED dep
    /\ UNCHANGED <<claims, announced, chainVars, ecashVars, watchVars, httpVars,
                   halted, restarts>>

DeliverDone ==
    /\ wpc = "deliver" /\ todo = {} /\ WorkerStop
    /\ UNCHANGED <<dbVars, chainVars, ecashVars, watchVars, httpVars, halted,
                   faults, restarts>>

--------------------------------------------------------------------------------
\* The process dies and starts again; only the database survives.
Restart ==
    /\ restarts < MaxRestarts /\ restarts' = restarts + 1
    /\ lost' = LostNow
    /\ WorkerStop /\ WatchStop
    /\ pk' = [p \in Pickups |-> NoPickup]
    /\ op' = [o \in Operators |-> NoAction]
    /\ UNCHANGED <<dbVars, chainVars, minted, served, shown, byHand, halted, faults>>

Customer ==
    \E d \in Ids :
       \/ \E amount \in Amounts : CreateDeposit(d, amount)
       \/ \E sats \in 1..MaxSats : Pay(d, sats) \/ Drop(d, sats)
       \/ \E p \in Pickups : ClaimPickup(p, d)
       \/ GetDeposit(d)

Environment ==
    \E d \in Ids : Age(d) \/ \E sats \in 1..MaxSats : Bury(d, sats)

Handlers ==
    \E p \in Pickups : PickupNotify(p) \/ PickupCount(p) \/ PickupReply(p)
                       \/ PickupDropped(p)

Operate ==
    \/ \E o \in Operators, d \in Ids, act \in Actions : OperateFetch(o, d, act)
    \/ \E o \in Operators : OperateWrite(o)
    \/ SetHalt

Watcher ==
    \/ WatchList \/ WatchWrite \/ WatchEnd
    \/ \E d \in Ids : WatchSkip(d) \/ Observe(d)

Worker ==
    \/ StartTick \/ RecordMint \/ MintDone \/ DeliverDone
    \/ \E d \in Ids : Mint(d) \/ Deliver(d)

Next == Customer \/ Environment \/ Handlers \/ Operate \/ ExpireStale
        \/ Watcher \/ Worker \/ Restart

Spec == Init /\ [][Next]_vars

\* The three loops keep running and time passes; customers, blocks, operators
\* and requests owe nothing.
FairSpec ==
    /\ Spec
    /\ WF_vars(Watcher) /\ WF_vars(Worker) /\ WF_vars(ExpireStale)
    /\ \A d \in Ids : WF_vars(Age(d))

--------------------------------------------------------------------------------
(***************************************************************************)
(* Properties                                                              *)
(***************************************************************************)

\* Every variable has its type.
TypeOK ==
    /\ dep \in [Ids -> Dep]
    /\ claims \in [Ids -> Nat] /\ announced \in [Ids -> Nat]
    /\ paid \in [Ids -> Nat] /\ deep \in [Ids -> Nat] /\ old \subseteq Ids
    /\ minted \in [Ids -> Nat] /\ served \in [Ids -> Nat]
    /\ shown \subseteq Ids /\ lost \in [Ids -> Nat] /\ byHand \subseteq Ids
    /\ wpc \in {"idle", "mint", "record", "deliver"}
    /\ wcur \in Ids \cup {NoId} /\ todo \subseteq Ids
    /\ seen \in [Ids -> Seen] /\ wout \in {"none", "minted", "error"}
    /\ cpc \in {"idle", "scan", "write"}
    /\ ccur \in Ids \cup {NoId} /\ ctodo \subseteq Ids
    /\ tip \in [Ids -> Nat] /\ obs \in [total : Nat, covering : Nat]
    /\ pk \in [Pickups -> [pc : {"none", "notify", "count", "reply"},
                           id : Ids \cup {NoId}]]
    /\ op \in [Operators -> [act : Actions \cup {"none"}, id : Ids \cup {NoId}]]
    /\ halted \in BOOLEAN
    /\ faults \in Nat /\ restarts \in Nat

\* Every sat of ecash issued for a deposit is accounted for: in the row, in
\* the claim, on its way to the row, or lost with a failed record.  No token
\* is overwritten, and none is issued for a deposit that still has one
\* (record_mint_success and claim_deposit_pickup, both by id).
EcashAccounted ==
    \A d \in Ids :
        minted[d] = lost[d] + dep[d].token + claims[d]
                    + (IF InHand(d) THEN seen[d].amount ELSE 0)

\* The customer never gets more ecash than bitcoin confirmed on the address,
\* whatever the watcher observed and when (process_confirmations).
CoveredByChain ==
    \A d \in Ids : dep[d].token + claims[d] <= deep[d]

\* What the customer may pick up is there: a deposit being delivered or ready
\* has its token and no claim, although operators and the worker write its
\* state by id.  This is why tick()'s "missing minted token" branch is dead.
ReadyHasToken ==
    \A d \in Ids : dep[d].state \in {"delivering", "ready"} =>
        dep[d].token > 0 /\ claims[d] = 0 /\ dep[d].pickup

\* The token leaves by two doors.  A pickup hands it out at most once, and only
\* with a claim row to show for it, however many requests race.  The views of
\* the row return it to every reader, but only of a deposit that an operator
\* marked fulfilled: after a pickup there is nothing left in the row, whatever
\* the loops write by id (claim_deposit_pickup, map_deposit).
ServedOnce ==
    \A d \in Ids : /\ served[d] <= 1
                   /\ served[d] = 1 => claims[d] > 0 /\ ~dep[d].pickup
                   /\ d \in shown => d \in byHand

\* The counter moves and the webhook is sent once per deposit at most, and
\* only for a deposit whose token was claimed (record()).
AnnouncedOnce ==
    \A d \in Ids : announced[d] <= 1 /\ (announced[d] = 1 => claims[d] > 0)

\* A claim is for good: no override or late write of a worker undoes it or
\* brings another token into the row.
ClaimIsFinal ==
    [][\A d \in Ids : claims[d] > 0 => claims'[d] = claims[d]
                                       /\ dep'[d].token = 0]_vars

\* The states the limits on open deposits count (create_deposit).
InLimits(d) == dep[d].state \in {"pending", "partial", "confirming"}

\* A deposit that is never paid in full gives up its place in the limits in
\* the end, in any mode of operation (expire_stale_pending_loop).  So does one
\* that was seen in full and then lost a part of its payment for good, unless
\* Halt keeps the watcher from noticing.  One that lost all of it does not: the
\* watcher skips it, and the sweep takes no confirming row.
UnpaidIsReleased ==
    \A d \in Ids :
        \/ [](dep[d].state # "absent" => paid[d] < dep[d].amount)
        \/ /\ <>[](0 < paid[d] /\ paid[d] < dep[d].amount)
           /\ <>[](~halted)
        => (InLimits(d) ~> ~InLimits(d))

\* Once Halt is over for good, a deposit seen in full and confirmed is minted
\* and becomes ready, unless minting it fails too often or an operator steps
\* in (process_confirmations, tick()).  Faults are bounded, so they cease.
ConfirmedIsServed ==
    <>[](~halted) =>
        \A d \in Ids :
            (dep[d].state \in {"confirming", "minting", "delivering"}
                 /\ deep[d] >= dep[d].amount)
            ~> (dep[d].state \in {"ready", "fulfilled", "failed", "archived"})

\* The deposit side implements the escrow.
Escrow == INSTANCE DepositEscrow WITH
    funded <- deep,
    live   <- [d \in Ids |-> dep[d].token + IF InHand(d) THEN seen[d].amount ELSE 0],
    handed <- claims,
    wasted <- lost

ImplementsEscrow == Escrow!Spec

\* docs/development_notes.md: a deposit automatically goes on to minting once
\* the target depth is reached.
DeepIsMinted ==
    <>[](~halted) =>
        \A d \in Ids :
            (dep[d].state \in {"pending", "partial", "confirming"}
                 /\ deep[d] >= dep[d].amount)
            ~> (minted[d] > 0)
================================================================================
